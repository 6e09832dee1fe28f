SPECIFICATION FairSpec
CONSTANTS
    n1 = n1
    n2 = n2
    s1 = s1
    s2 = s2
    r1 = r1
    r2 = r2
    None = None
    Node <- TwoNodes
    Session <- OneSession
    Request <- OneRequest
    ClientOps <- ControllerOps
    MaxPuts = 1
    MaxMail = 1
    MaxCrashes = 1
PROPERTIES
    EventuallyReaped
CHECK_DEADLOCK FALSE
