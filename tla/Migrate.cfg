SPECIFICATION FairSpec
CONSTANTS
    Run = {r1, r2}
    Namespace = {"app", "other"}
    Migrators <- MCMigrators
    Tables <- MCTables
INVARIANTS
    LedgerTellsHistory
    OkMeansMigrated
    WholeBatchOrNothing
    ReadStaysCurrent
    NoCollision
PROPERTIES
    RunsEnd
