SPECIFICATION Spec
CONSTANTS
    e1 = e1
    Edges = {e1}
    MaxRounds = 4
    MaxCampaigns = 2
    MaxRestarts = 2
    MaxFaults = 3
    Impatient = FALSE
    EdgesFirst = FALSE
INVARIANT TypeOK
INVARIANT Lockstep
PROPERTY ReleasedFullyTrained
CHECK_DEADLOCK FALSE
