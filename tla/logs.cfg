\* Logs that several leaders append to, overwrite and truncate.
SPECIFICATION Spec
CONSTANTS
    a = a
    b = b
    c = c
    d = d
    None = None
    Server <- MCServer
    Peers <- MCPeers
    Flagged = {a}
    Command = {x}
    MaxTerm = 2
    MaxLog = 3
    MaxBacklog = 3
    Lossy = FALSE
INVARIANTS
    LogContiguous
    
PROPERTIES
    LeaderAppendOnly
\* Nodes die, wait for each other or reach a bound: stopping is no error here.
CHECK_DEADLOCK FALSE
