SPECIFICATION Spec
CONSTANTS
    client01 = client01
    client02 = client02
    edge = edge
    Clients = {client01, client02}
    Edge = edge
    Chunks = 2
    MaxPublished = 2
    MaxFaults = 2
    MayFail = {"chunk", "end", "disk", "cut", "train", "script", "timer"}
INVARIANT TypeOK
INVARIANT LossesCostLittle
INVARIANT EdgeTakesWholeModels
INVARIANT AggregatesWholeModels
PROPERTY ImplementsPipes
SYMMETRY ClientsAlike
CHECK_DEADLOCK FALSE
