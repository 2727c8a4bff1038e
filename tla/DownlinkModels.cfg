SPECIFICATION Spec
CONSTANTS
    a = a
    b = b
    Models = {a, b}
    Size <- Sizes
    HeaderSize = 2
    Garbage <- SomeSizes
    MaxSends = 4
    MaxDrops = 2
    TornModels = FALSE
    DiskStates = {"works", "full", "unwritable"}
INVARIANT TypeOK
PROPERTY ImplementsPipe
CHECK_DEADLOCK FALSE
