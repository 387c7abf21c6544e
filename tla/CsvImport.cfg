SPECIFICATION MCSpec
CONSTANTS
    Product = {1, 2}
    Jan = {jan1, jan2}
    NoJan = noJan
    Catalogue <- LaterCode
    Z004 <- TwoFiles
    Operation <- OneOperation
    ProductFile <- SomeProductFiles
    CountValue = {5}
    InitialStock = {0}
    MaxStock = 9
    RegisterLead = 0
    ClockMayGoBack = FALSE
    MaxDate = 2
    MaxCount = 1
    MaxMovement = 2
    MaxImport = 2
    PreviewLimit = 2
    MaxPreview = 3
    jan1 = jan1
    jan2 = jan2
    noJan = noJan
    fileA = fileA
    fileB = fileB
    register1 = register1
INVARIANTS
    PreviewsOK
PROPERTIES
    PreviewsStay
    ImportsAsOneStep
CHECK_DEADLOCK FALSE
