SPECIFICATION FairSpec
CONSTANTS
    edge = edge
    client01 = client01
    client02 = client02
    Me = edge
    Clients = {client01, client02}
    MaxRounds = 3
    MaxCampaigns = 2
    MaxRestarts = 1
    MaxTrainFailures = 1
    MaxFaults = 2
    MayFail = {"aggregation", "archive", "round", "start", "upload", "broadcast", "tcp"}
INVARIANT TypeOK
INVARIANT NoModelSkipped
INVARIANT NoSilentStall
INVARIANT OneModelAtCenter
PROPERTY AggregatesCurrentModel
PROPERTY EveryAggregateIsFresh
PROPERTY RestartRecovers
CHECK_DEADLOCK FALSE
