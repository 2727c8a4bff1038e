SPECIFICATION Spec
CONSTANTS
    a = a
    b = b
    Models = {a, b}
    Size <- Sizes
    HeaderSize = 2
    Garbage <- SomeSizes
    MaxSends = 4
    MaxDrops = 2
    TornModels = TRUE
    DiskStates = {"works"}
INVARIANT ReceivedIntact
CHECK_DEADLOCK FALSE
