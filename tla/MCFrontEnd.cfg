CONSTANTS
    Expressions <- MCTexts
    Programs <- MCPrograms
    Nul = "~"
    MaxParams = 2
    MaxFields = 2
    MaxVariants = 2
    MaxBodyStmts = 3
    MaxStmtNodes = 4
    MaxExprNodes = 4
    MaxTypes = 2
    MaxFunctions = 2
SPECIFICATION FrontEndSpec
INVARIANTS LongestLexemes ParsesAsGrammar ProgramsRoundTrip
PROPERTY LexerEnds
CHECK_DEADLOCK FALSE
