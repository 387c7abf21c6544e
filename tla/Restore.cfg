SPECIFICATION MCSpec
CONSTANTS
    Reordering = TRUE
    MaxFault = 2
    MaxStop = 2
    MaxAttempt = 2
    MaxWrite = 2
INVARIANTS
    NoRemains
    LogsEachRestoreOnce
PROPERTIES
    RestoreIsAtomic
    ShopReopens
CHECK_DEADLOCK FALSE
