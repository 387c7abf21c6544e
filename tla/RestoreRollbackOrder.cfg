SPECIFICATION Spec
CONSTANTS
    Reordering = TRUE
    MaxFault = 1
    MaxStop = 1
    MaxAttempt = 1
    MaxWrite = 2
INVARIANTS
    GenerationsNeverMix
CHECK_DEADLOCK FALSE
