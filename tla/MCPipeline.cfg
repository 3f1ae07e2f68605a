CONSTANTS
    Sources <- MCSources
    Programs = {}
    MaxRegs = 40
    MaxInstrs = 60
    MaxLocals = 12
    MirLocals = 12
    MaxParts = 5
    MaxSymbols = 8
    MaxStack = 5
    MaxLocalTypes = 8
    MaxFrames = 4
    MaxCode = 200
    MaxFunctions = 4
    MaxDepth = 4
    Depth = 6
    MinInt <- MCMinInt
SPECIFICATION PipelineSpec
INVARIANT AcceptedNeverWrong DirectProgramsCompile MeansWhatItSays
PROPERTY StopsLikeItsSource
CHECK_DEADLOCK FALSE
