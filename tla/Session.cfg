SPECIFICATION FairSpec
CONSTANTS
    Topics <- EdgeTopics
    MaxId = 5
    MaxConnects = 2
    MaxPublications = 3
    MaxFaults = 2
INVARIANT TypeOK
INVARIANT SubscriptionsAgree
INVARIANT SentWasReceived
PROPERTY AlarmsAreTrue
PROPERTY SilentBrokerNoticed
PROPERTY SubscribedInTheEnd
CHECK_DEADLOCK FALSE
