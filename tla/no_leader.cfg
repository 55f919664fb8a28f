\* Three nodes that start as followers and never fail.
SPECIFICATION TimedSpec
CONSTANTS
    a = a
    b = b
    c = c
    d = d
    None = None
    Server <- MCServer
    Peers <- MCPeers
    Flagged = {}
    Command = {x}
    MaxTerm = 2
    MaxLog = 0
    MaxBacklog = 3
    Lossy = FALSE
PROPERTIES
    LeaderEmerges
\* Nodes die, wait for each other or reach a bound: stopping is no error here.
CHECK_DEADLOCK FALSE
