SPECIFICATION FairSpec
CONSTANTS
    u1 = u1
    u2 = u2
    x = x
    y = y
    a1 = a1
    a2 = a2
    a3 = a3
    None = None
    User <- OneUser
    Symbol <- Symbols
    Default <- OneSymbol
    Ask <- TwoAsks
    MaxUnwatch = 1
INVARIANTS
    StreamsOK
    DuplicatesComeFromRaces
PROPERTIES
    ActorStopsWithFlow
    ScalaStreamsEnd
CHECK_DEADLOCK FALSE
