SPECIFICATION CompactionFairSpec
CONSTANTS
    Keys = {1}
    Kinds = {"put"}
    MaxBatch = 1
    MaxWrites = 3
    MaxRestarts = 1
    MaxTears = 0
    FlushCap = 2
    MaxLevels = 3
    L0CompactTrigger = 2
    L1TargetSize = 0
    TargetFileSize = 1
CHECK_DEADLOCK FALSE
PROPERTIES
    FlushedInTheEnd
    CloseReturns
    L0Drains
