CONSTANTS
    MirPrograms <- MCMirPrograms
    Programs <- MCPrograms
    MaxRegs = 2
    MaxLocals = 3
    MaxFrames = 3
    MaxCode = 32
    MaxFunctions = 3
    MinInt <- MCMinInt
SPECIFICATION Spec
PROPERTY ImplementsMir
CHECK_DEADLOCK FALSE
