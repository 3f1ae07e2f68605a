CONSTANTS
    Programs <- MCPrograms
    MaxRegs = 2
    MaxLocals = 2
    MaxFrames = 3
    MaxCode = 4
    MinInt <- MCMinInt
SPECIFICATION Spec
INVARIANTS TypeOK ControlInStep Linked AccessesInBounds
PROPERTIES CallersPreserved CalleeStartsClean Halts
CHECK_DEADLOCK FALSE
