SPECIFICATION Spec
CONSTANTS
    Null = Null
    I16 = 1
    I32 = 3
    I64 = 7
    Micro = 2
    Year1 = 4
    Year10000 = 16
    Sample <- MCSample
    Foreign <- MCForeign
    MaxBinds = 2
INVARIANTS
    RoundTrip
    SameOrError
    ReadCanBeBoundAgain
    FirstErrorIsReported
CHECK_DEADLOCK FALSE
