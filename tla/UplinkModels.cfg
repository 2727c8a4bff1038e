SPECIFICATION FairSpec
CONSTANTS
    short = short
    medium = medium
    long = long
    huge = huge
    Models = {short, medium, long, huge}
    Size <- Sizes
    HeaderSize = 2
    MaxFileSize = 5
    Window = 1
    MaxSends = 3
    MaxFaults = 2
    MayFail = {"drop", "save", "freed", "whole", "unfit"}
INVARIANT TypeOK
INVARIANT ConnectionKept
PROPERTY SentIsReceived
PROPERTY ImplementsPipe
CHECK_DEADLOCK FALSE
