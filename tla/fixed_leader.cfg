\* One leader, its clients and no election; every node may crash and restart.
SPECIFICATION ClientSpec
CONSTANTS
    a = a
    b = b
    c = c
    d = d
    None = None
    Server <- MCServer
    Peers <- MCPeers
    Flagged = {a}
    Command = {x, y}
    MaxTerm = 0
    MaxLog = 2
    MaxBacklog = 2
    Lossy = FALSE
SYMMETRY MCCommands
INVARIANTS
    AnswersTruthful
    LogContiguous
    StateMachineSafety
    CommittedOnMajority
    MatchIndexTruthful
    FlagIsCommitted
PROPERTIES
    LeaderCommitsOnMajority
    CommitNeverFalls
    CatchUpProgress
    ImplementsReplicatedLog
\* Nodes die, wait for each other or reach a bound: stopping is no error here.
CHECK_DEADLOCK FALSE
