CONSTANTS
    MaxStmtNodes = 4
    MaxBodyStmts = 2
    MaxCases = 2
SPECIFICATION Spec
INVARIANTS TypeOK BlocksInPool EveryStatementOnce FaithfulIfFlat
CHECK_DEADLOCK FALSE
