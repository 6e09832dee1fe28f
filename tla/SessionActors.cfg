SPECIFICATION Spec
CONSTANTS
    n1 = n1
    n2 = n2
    s1 = s1
    s2 = s2
    r1 = r1
    r2 = r2
    None = None
    Node <- OneNode
    Session <- OneSession
    Request <- TwoRequests
    ClientOps <- AllOps
    MaxPuts = 2
    MaxMail = 2
    MaxCrashes = 1
SYMMETRY NodeSymmetry
INVARIANTS
    SpawnNameIsFree
    ActorsAccounted
CHECK_DEADLOCK FALSE
