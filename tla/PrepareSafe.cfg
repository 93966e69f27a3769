SPECIFICATION Spec
CONSTANTS
    MaxParams = 3
    MaxStatements = 2
INVARIANTS
    CountIsExact
    SessionIntact
    ProbesAreInvisible
CHECK_DEADLOCK FALSE
