SPECIFICATION Spec
CONSTANTS
    r1 = r1
    r2 = r2
    r3 = r3
    Null = Null
    Req <- ThreeReqs
    Kind <- AllKinds
    DictPages <- Dictionary
    ChinaPages <- ChinaDaily
    XsPages <- XiaShuo
    Params <- PageParams
    Filters <- LinkFilters
    Index631 = 2
    MaxPageSize = 3
    PartitionSize = 1
    MaxWords = 2
SYMMETRY Symmetry
INVARIANTS
    StoredTogether
    RefusedForStoredWords
    SavedOnce
PROPERTIES
    ChangesStay
CONSTRAINT
    OneFamily
CHECK_DEADLOCK FALSE
