\* Two nodes with elections, restarts and broken connections.
SPECIFICATION RestartSpec
CONSTANTS
    a = a
    b = b
    c = c
    d = d
    None = None
    Server <- MCPair
    Peers <- MCPairPeers
    Flagged = {a}
    Command = {x}
    MaxTerm = 2
    MaxLog = 1
    MaxBacklog = 2
    Lossy = TRUE
INVARIANTS
    CoreInv
PROPERTIES
    TermNeverFalls
\* Nodes die, wait for each other or reach a bound: stopping is no error here.
CHECK_DEADLOCK FALSE
