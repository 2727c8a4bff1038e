SPECIFICATION FairSpec
CONSTANTS
    edge = edge
    client01 = client01
    client02 = client02
    Me = edge
    Clients = {client01, client02}
    MaxRounds = 2
    MaxCampaigns = 2
    MaxRestarts = 0
    MaxTrainFailures = 2
    MaxFaults = 0
    MayFail = {}
PROPERTY CampaignCompletes
PROPERTY ImplementsLoop
PROPERTY ImplementsCampaign
CHECK_DEADLOCK FALSE
