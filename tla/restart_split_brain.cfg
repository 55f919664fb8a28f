\* A voter restarts within a term.
SPECIFICATION RestartSpec
CONSTANTS
    a = a
    b = b
    c = c
    d = d
    None = None
    Server <- MCServer
    Peers <- MCPeers
    Flagged = {}
    Command = {x}
    MaxTerm = 1
    MaxLog = 0
    MaxBacklog = 3
    Lossy = FALSE
INVARIANTS
    ElectionSafety
\* Nodes die, wait for each other or reach a bound: stopping is no error here.
CHECK_DEADLOCK FALSE
