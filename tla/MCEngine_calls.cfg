SPECIFICATION MCSpec
CONSTANTS
    Instances = {"single", "batches"}
    Keys = {1, 2}
    Kinds = {"put", "empty", "delete"}
    MaxBatch = 1
    MaxWrites = 3
    MaxRestarts = 2
    MaxTears = 1
    FlushCap = 2
    MaxLevels = 1
CHECK_DEADLOCK FALSE
INVARIANTS
    OpenSucceeds
    ReadLatest
    Durable
PROPERTIES
    ImplementsMap
