CONSTANTS
    x = x
    y = y
    p = p
    q = q
    cut = cut
    Names = {x, y, p, q}
    MaxSymbols = 3
    MaxStack = 3
    MirLocals = 3
    CheckLocals = 2
    NULL = NULL
    Values = {0, 1}
    MirName <- Texts
    Shadowing = TRUE
SPECIFICATION OnlyLocals
INVARIANTS VisibleValues
CHECK_DEADLOCK FALSE
