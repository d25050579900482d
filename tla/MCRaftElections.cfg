SPECIFICATION ElectionsSpec
CONSTANTS
    n1 = n1
    n2 = n2
    n3 = n3
    Nil = Nil
    Nodes = {n1, n2, n3}
    MaxTerm = 2
    MaxLog = 0
    MaxMsgs = 3
    MaxRestarts = 1
SYMMETRY NodeSymmetry
CHECK_DEADLOCK FALSE
INVARIANTS
    ElectionSafety
    ElectionInv
