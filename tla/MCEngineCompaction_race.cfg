SPECIFICATION CompactionSpec
CONSTANTS
    Keys = {1, 2}
    Kinds = {"put"}
    MaxBatch = 1
    MaxWrites = 2
    MaxRestarts = 0
    MaxTears = 0
    FlushCap = 2
    MaxLevels = 2
    L0CompactTrigger = 1
    L1TargetSize = 10
    TargetFileSize = 1
CHECK_DEADLOCK FALSE
INVARIANTS
    FlushedKeysKept
