SPECIFICATION Spec
CONSTANTS
    i1 = i1
    i2 = i2
    c1 = c1
    a = a
    b = b
    p = p
    q = q
    None = None
    Import <- TwoImports
    Cancel <- OneCancel
    Key <- Codes
    Sheets <- AllSheets
    BatchNum = 2
    LimitNum = 2
    HeadNum = 1
    Second = {p, q}
SYMMETRY RequestSymmetry
INVARIANTS
    RowsSavedOnce
    OversizedSavesNothing
    ExactWhenAlone
CHECK_DEADLOCK FALSE
