SPECIFICATION FairSpec
CONSTANTS
    u1 = u1
    u2 = u2
    x = x
    y = y
    a1 = a1
    a2 = a2
    a3 = a3
    None = None
    User <- OneUser
    Symbol <- OneSymbol
    Default <- OneSymbol
    Ask <- TwoAsks
    MaxUnwatch = 0
PROPERTIES
    JavaStreamsEnd
CHECK_DEADLOCK FALSE
