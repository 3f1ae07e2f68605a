CONSTANTS
    x = x
    y = y
    Names = {x, y}
    MaxSymbols = 3
    MaxStack = 3
SPECIFICATION Spec
INVARIANTS TypeOK Segments NoDuplicates
PROPERTY ImplementsEnvironments
