SPECIFICATION MCSpec
CONSTANTS
    Product = {1, 2}
    Jan = {1, 2}
    Price = {1, 2}
    Tax = {10}
    LastSlot = 2
    Catalogue <- OneOffered
    Observation <- AnyContents
    MaxEdit = 2
    MaxRead = 2
INVARIANTS
    PrepareNeverConflicts
PROPERTIES
    ClearSparesSelected
    RetryIsAccepted
    ClearedWithSlot
    SlotsAreSticky
CHECK_DEADLOCK FALSE
