CONSTANTS
    MaxStmtNodes = 4
    MaxBodyStmts = 2
    MaxCases = 2
SPECIFICATION Spec
INVARIANTS BlocksAsWritten
CHECK_DEADLOCK FALSE
