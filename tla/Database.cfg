SPECIFICATION FairSpec
CONSTANTS
    MaxBusy = 6000
    Request <- MCRequest
    Tx = {t1}
    Pooled = {q1}
    Closer = {x1, x2}
    Nobody = Nobody
INVARIANTS
    KeeperOutlivesPool
    LeaseSeesNoFalseLoss
    NoFreshDatabase
    NothingImplicit
PROPERTIES
    CloseEnds
    ChecksEnd
    NothingLeaks
