SPECIFICATION Spec
CONSTANTS
    Tx = {t1, t2}
    Pooled = {}
    Conn = {c1, c2}
    NoCaller = NoCaller
    Backend = "sqlite"
    MaxWrites = 2
SYMMETRY Symmetry
INVARIANTS
    AllOrNothing
    HonestOutcome
    RollbackOnly
    StatementInTransaction
    NoStaleInterrupt
PROPERTY ImplementsAtomicTx
CHECK_DEADLOCK FALSE
