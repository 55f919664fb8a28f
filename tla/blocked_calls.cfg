\* Rounds of calls when a follower starts an election.
SPECIFICATION FairSpec
CONSTANTS
    a = a
    b = b
    c = c
    d = d
    None = None
    Server <- MCServer
    Peers <- MCPeers
    Flagged = {a}
    Command = {x}
    MaxTerm = 1
    MaxLog = 0
    MaxBacklog = 3
    Lossy = FALSE
PROPERTIES
    RoundsEnd
\* Nodes die, wait for each other or reach a bound: stopping is no error here.
CHECK_DEADLOCK FALSE
