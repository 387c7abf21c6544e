SPECIFICATION RegisterSpec
CONSTANTS
    Product = {1}
    Jan = {1}
    Price = {1, 2}
    Tax = {10}
    LastSlot = 1
    Catalogue <- OneOffered
    Observation <- AnyContents
    MaxEdit = 1
    MaxRead = 1
INVARIANTS
    CleanIsRegistered
CHECK_DEADLOCK FALSE
