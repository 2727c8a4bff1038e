SPECIFICATION FairSpec
CONSTANTS
    edge = edge
    client01 = client01
    client02 = client02
    Me = edge
    Clients = {client01, client02}
    MaxRounds = 1
    MaxCampaigns = 1
    MaxRestarts = 0
    MaxTrainFailures = 0
    MaxFaults = 1
    MayFail = {"upload"}
PROPERTY CampaignCompletes
CHECK_DEADLOCK FALSE
