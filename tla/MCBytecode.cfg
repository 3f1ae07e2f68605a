CONSTANTS
    MaxCode = 8
    Operands <- MCOperands
    LabelIds <- MCLabelIds
    ArgLists <- MCArgLists
SPECIFICATION Spec
INVARIANTS TypeOK TargetsFresh ScanInStep LocalsCounted
PROPERTIES PrepareVerdict PrepareReturns
