\* The files of one node under its handlers, kills and file errors.
SPECIFICATION Spec
CONSTANTS
    MaxTerm = 1
    MaxLog = 2
    MaxMarked = 1
    MaxMishaps = 1
INVARIANTS
    FilesTypeOK
    AckedSurvive
    TermSurvives
    RestartFinds
    DamageHasCause
PROPERTIES
    OperationsAtomic
\* A directory that does not load stays so.
CHECK_DEADLOCK FALSE
