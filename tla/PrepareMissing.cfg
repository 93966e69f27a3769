SPECIFICATION Spec
CONSTANTS
    MaxParams = 2
    MaxStatements = 2
INVARIANTS
    MissingValueIsBindCount
CHECK_DEADLOCK FALSE
