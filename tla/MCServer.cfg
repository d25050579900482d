SPECIFICATION MCSpec
CHECK_DEADLOCK FALSE
CONSTANTS
    Instances = {"codec", "tcp", "cluster", "again", "events", "exit"}
    Clients = {"c1", "c2"}
    Keys <- MCKeys
    Values <- MCValues
    Cmds <- AllCmds
    MaxConnects = 2
    MaxRequests = 2
    Subscribers = {"s1"}
    Publishers = {"a", "b", "loop"}
    ChanCap = 2
    Callers = {"a", "b"}
    Ops = {"start"}
    Counts = {0}
    MaxNodes = 2
    MaxStarts = 2
    MaxCalls = 3
    MaxTicks = 2
INVARIANTS
    TypeOK
    AnswersTrue
    BrokenMeansNotDone
    EngineClosedLast
    NodesAccountedFor
    LifecycleOrder
    FreshTarget
    PanicOnlyAfterStopNode
    PublishToOpenChannels
PROPERTIES
    RequestsAnswered
    CallsReturn
    ShutdownReturns
