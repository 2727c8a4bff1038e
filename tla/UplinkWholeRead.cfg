SPECIFICATION FairSpec
CONSTANTS
    short = short
    medium = medium
    long = long
    huge = huge
    Models = {medium}
    Size <- Sizes
    HeaderSize = 2
    MaxFileSize = 5
    Window = 1
    MaxSends = 3
    MaxFaults = 1
    MayFail = {"whole"}
PROPERTY CompleteIsSaved
CHECK_DEADLOCK FALSE
