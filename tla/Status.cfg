SPECIFICATION FairSpec
CONSTANTS
    Lengths = {1, 3}
    MaxSent = 4
    MaxRestarts = 2
INVARIANT TypeOK
INVARIANT StaysInStep
INVARIANT GarbledByTornConnections
INVARIANT TextsInOrder
PROPERTY WrittenIsShown
CHECK_DEADLOCK FALSE
