SPECIFICATION CompactionSpec
CONSTANTS
    Keys = {1, 2}
    Kinds = {"put"}
    MaxBatch = 1
    MaxWrites = 4
    MaxRestarts = 1
    MaxTears = 1
    FlushCap = 4
    MaxLevels = 3
    L0CompactTrigger = 2
    L1TargetSize = 1
    TargetFileSize = 1
CHECK_DEADLOCK FALSE
INVARIANTS
    LevelsDisjoint
    RangeMatchesGet
    DeeperIsOlder
    CompactionTypeOK
    OpenSucceeds
    KeysSurvive
PROPERTIES
    ListedImmutable
