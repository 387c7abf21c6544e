SPECIFICATION Spec
CONSTANTS
    Reordering = TRUE
    MaxFault = 0
    MaxStop = 2
    MaxAttempt = 1
    MaxWrite = 2
INVARIANTS
    StartIsNeverRefused
CHECK_DEADLOCK FALSE
