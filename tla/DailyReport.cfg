SPECIFICATION MCSpec
CONSTANTS
    Bundle <- FourBundles
    NoNumber = noNumber
    Plain = plain
    NoCommit = noCommit
    PreviewLimit = 2
    Window = 0
    MaxDate = 2
    MaxRollback = 2
    MaxFault = 1
    first = first
    again = again
    second = second
    layoutB = layoutB
    path1 = path1
    path2 = path2
    path3 = path3
    bytes1 = bytes1
    bytes2 = bytes2
    bytes3 = bytes3
INVARIANTS
    TakenOnce
    CopiesAreKept
PROPERTIES
    TakenAsShown
    TakenInTheEnd
CHECK_DEADLOCK FALSE
