SPECIFICATION MCSpec
CONSTANTS
    Product = {1, 2}
    Jan = {jan1}
    NoJan = noJan
    Catalogue <- OneProduct
    Z004 <- ThreeDays
    Operation <- OneLine
    ProductFile <- SomeProductFiles
    CountValue = {5}
    InitialStock = {0}
    MaxStock = 9
    RegisterLead = 0
    ClockMayGoBack = FALSE
    MaxDate = 3
    MaxCount = 2
    MaxMovement = 1
    MaxImport = 3
    MaxStocktake = 2
    jan1 = jan1
    noJan = noJan
    fileA = fileA
    fileB = fileB
    fileC = fileC
    register1 = register1
INVARIANTS
    ItemsCoverProducts
PROPERTIES
    NoDifferenceAtCompletion
    CompletionIsSettled
    RollbackNamesStocktakes
    LaterFactsLeaveRecord
CHECK_DEADLOCK FALSE
