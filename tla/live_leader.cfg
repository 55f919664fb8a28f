\* One leader and no election; nodes may die for good.
SPECIFICATION FairCrashSpec
CONSTANTS
    a = a
    b = b
    c = c
    d = d
    None = None
    Server <- MCServer
    Peers <- MCPeers
    Flagged = {a}
    Command = {x}
    MaxTerm = 0
    MaxLog = 3
    MaxBacklog = 3
    Lossy = FALSE
PROPERTIES
    RoundsEnd
    CommitReachesFollowers
\* Nodes die, wait for each other or reach a bound: stopping is no error here.
CHECK_DEADLOCK FALSE
