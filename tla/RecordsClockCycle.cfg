SPECIFICATION Spec
CONSTANTS
    Product = {1}
    Jan = {jan1, jan2}
    NoJan = noJan
    Catalogue <- OneProduct
    Z004 <- NoFiles
    Operation <- OneLine
    ProductFile <- NoProductFiles
    CountValue = {5}
    InitialStock = {0}
    MaxStock = 9
    RegisterLead = 0
    ClockMayGoBack = TRUE
    MaxDate = 3
    MaxCount = 3
    MaxMovement = 1
    MaxImport = 0
    jan1 = jan1
    jan2 = jan2
    noJan = noJan
    fileA = fileA
    fileB = fileB
    fileC = fileC
    fileD = fileD
    fileE = fileE
    fileF = fileF
    register1 = register1
    register2 = register2
INVARIANTS
    CountsAreOrdered
CHECK_DEADLOCK FALSE
