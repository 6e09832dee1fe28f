SPECIFICATION Spec
CONSTANTS
    i1 = i1
    i2 = i2
    c1 = c1
    a = a
    b = b
    p = p
    q = q
    None = None
    Import <- TwoImports
    Cancel <- OneCancel
    Key <- Codes
    Sheets <- OneSheet
    BatchNum = 2
    LimitNum = 2
    HeadNum = 1
    Second = {p, q}
PROPERTIES
    RefusedOnlyWhileRunning
CHECK_DEADLOCK FALSE
