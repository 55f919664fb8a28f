\* Elections while nodes die and a leader of the initial term is around.
SPECIFICATION CrashSpec
CONSTANTS
    a = a
    b = b
    c = c
    d = d
    None = None
    Server <- MCServer
    Peers <- MCPeers
    Flagged = {a}
    Command = {x, y}
    MaxTerm = 2
    MaxLog = 1
    MaxBacklog = 3
    Lossy = FALSE
INVARIANTS
    TypeOK
    ElectionSafety
    ElectionInv
    EntryIdentity
    LeaderHint
PROPERTIES
    ImplementsVoting
\* Nodes die, wait for each other or reach a bound: stopping is no error here.
CHECK_DEADLOCK FALSE
