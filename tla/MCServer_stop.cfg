SPECIFICATION MCSpec
CHECK_DEADLOCK FALSE
CONSTANTS
    Instances = {"exit"}
    Clients = {"c1", "c2"}
    Keys <- MCKeys
    Values <- MCValues
    Cmds <- AllCmds
    MaxConnects = 2
    MaxRequests = 2
    Subscribers = {"s1"}
    Publishers = {"a", "b", "loop"}
    ChanCap = 2
    Callers = {"a", "b"}
    Ops = {"start"}
    Counts = {0}
    MaxNodes = 2
    MaxStarts = 2
    MaxCalls = 3
    MaxTicks = 2
PROPERTIES StopShutsDown
