SPECIFICATION FairSpec
CONSTANTS
    r1 = r1
    r2 = r2
    n1 = n1
    n2 = n2
    c1 = c1
    c2 = c2
    None = None
    Unknown = Unknown
    Edition <- Both
    Req <- TwoReqs
    Name <- Names
    Company <- Companies
    Form <- Forms
    MaxId = 2
    PageSize = 1
    MaxPage = 1
    PoolSize = 1
INVARIANTS
    PagesOK
PROPERTIES
    RowsAreForms
    RowsKeepTheirIds
    EveryRequestIsAnswered
CHECK_DEADLOCK FALSE
