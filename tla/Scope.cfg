SPECIFICATION FairSpec
CONSTANTS
    Op = {o1, o2, o3}
    Stream = {s1, s2}
    None = None
INVARIANTS
    HonestWrite
    CommitOnlyClean
    SlotsOwnTheLocks
    NothingLeftBehind
    NoWaitBehindStream
PROPERTIES
    FuturesEnd
    TeardownEnds
CHECK_DEADLOCK FALSE
