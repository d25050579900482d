CHECK_DEADLOCK FALSE
SPECIFICATION MCSpec
CONSTANTS
    Instances = {"disk", "stop", "apply"}
    Keys <- MCKeys
    Commands <- AllTypes
    ApplyCap = 1
    MaxTerm = 2
    MaxLog = 2
    MaxKills = 2
INVARIANTS
    TypeOK
    AckedOnDisk
    AppliesCommitted
    EngineCaughtUp
PROPERTIES
    CommittedApplied
    NodeStopReturns
