SPECIFICATION Spec
CONSTANTS
    Product = {1, 2, 3}
    Jan = {jan1, jan2}
    NoJan = noJan
    Catalogue <- MCCatalogue
    Z004 <- AllFiles
    Operation <- OneOperation
    ProductFile <- SomeProductFiles
    CountValue = {5}
    InitialStock = {4}
    MaxStock = 6
    RegisterLead = 1
    ClockMayGoBack = FALSE
    MaxDate = 2
    MaxCount = 2
    MaxMovement = 4
    MaxImport = 3
    jan1 = jan1
    jan2 = jan2
    noJan = noJan
    fileA = fileA
    fileB = fileB
    fileC = fileC
    fileD = fileD
    fileE = fileE
    fileF = fileF
    register1 = register1
    register2 = register2
INVARIANTS
    TypeOK
    CopyIsDerived
    ImportRowsAgree
    ReimportIsNeverTakenTwice
    LinkedJanIsUnshared
    SettlementsFormOneAxis
    CountsAreOrdered
    PreviewedRowsAreTaken
ACTION_CONSTRAINT OneQuestion
CHECK_DEADLOCK FALSE
