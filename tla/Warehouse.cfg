SPECIFICATION FairSpec
CONSTANTS
    Call = {1, 2, 3}
    Workload <- MCWorkload
    Supply <- MCSupply
INVARIANTS
    CheckedStockIsCurrent
PROPERTIES
    ImplementsInventory
    ReservesEnd
