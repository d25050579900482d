SPECIFICATION MCSpec
CONSTANTS
    Instances = {"single"}
    Keys = {1}
    Kinds = {"put"}
    MaxBatch = 1
    MaxWrites = 2
    MaxRestarts = 1
    MaxTears = 1
    FlushCap = 2
    MaxLevels = 1
CHECK_DEADLOCK FALSE
INVARIANTS
    ZeroDataLoss
