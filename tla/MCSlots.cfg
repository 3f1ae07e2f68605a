CONSTANTS
    x = x
    y = y
    p = p
    q = q
    cut = cut
    Names = {x, y, p, q}
    MaxSymbols = 2
    MaxStack = 3
    MirLocals = 3
    CheckLocals = 2
    NULL = NULL
    Values = {0, 1}
    MirName <- Texts
    Shadowing = FALSE
SPECIFICATION SlotsSpec
INVARIANTS SlotsTypeOK VisibleValues NamesUnambiguous CheckerAgrees
SYMMETRY NamesAreAlike
CHECK_DEADLOCK FALSE
