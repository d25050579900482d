SPECIFICATION MCSpec
CONSTANTS
    Instances = {"terms", "entries", "restart"}
    n1 = n1
    n2 = n2
    n3 = n3
    Nil = Nil
    Nodes = {n1, n2, n3}
    MaxTerm = 4
    MaxLog = 2
    MaxMsgs = 2
    MaxRestarts = 1
CHECK_DEADLOCK FALSE
INVARIANTS
    TypeOK
    LogMatching
    LeaderCompleteness
    StateMachineSafety
    ConfirmedKept
PROPERTIES
    CommittedKept
