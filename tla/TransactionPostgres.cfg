SPECIFICATION FairSpec
CONSTANTS
    Tx = {t1, t2}
    Pooled = {q1}
    Conn = {c1}
    NoCaller = NoCaller
    Backend = "postgres"
    MaxWrites = 2
INVARIANT CleanPool
PROPERTIES
    ImplementsAtomicTx
    OperationsEnd
    LeasesComeBack
CHECK_DEADLOCK FALSE
