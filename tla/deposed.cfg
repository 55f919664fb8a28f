\* A leader started with --leader, and another one elected above it.
SPECIFICATION FairSpec
CONSTANTS
    a = a
    b = b
    c = c
    d = d
    None = None
    Server <- MCServer
    Peers <- MCPeers
    Flagged = {a}
    Command = {x}
    MaxTerm = 1
    MaxLog = 2
    MaxBacklog = 3
    Lossy = FALSE
PROPERTIES
    StaleLeaderStepsDown
\* Nodes die, wait for each other or reach a bound: stopping is no error here.
CHECK_DEADLOCK FALSE
