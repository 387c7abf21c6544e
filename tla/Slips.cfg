SPECIFICATION MCSpec
CONSTANTS
    Product = {1, 2}
    Slip <- EverySlip
    InitialStock = 0
    MaxStock = 2
    MaxKey = 2
    MaxFault = 2
    MaxEdit = 2
    MaxExport = 2
INVARIANTS
    KeysNeverConflict
PROPERTIES
    SlipsAreKept
    ConfirmedKnowingly
    SavedInTheEnd
CHECK_DEADLOCK FALSE
