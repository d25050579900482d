SPECIFICATION MCSpec
CONSTANTS
    Instances = {"propose"}
    n1 = n1
    n2 = n2
    n3 = n3
    Nil = Nil
    Nodes = {n1, n2, n3}
    MaxTerm = 3
    MaxLog = 2
    MaxMsgs = 2
    MaxRestarts = 0
CHECK_DEADLOCK FALSE
INVARIANTS
    ProposeBlocksUntilCommitted
