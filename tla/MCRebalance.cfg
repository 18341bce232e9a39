SPECIFICATION FairSpec
CONSTANTS
    Node = {1, 2, 3}
    self = 1
    Topic = {1}
    NoTopic = NoTopic
    Request <- Requests
    QueueCap = 1
    MaxLosses = 2
    MaxReturns = 1
    MaxFaults = 1
INVARIANTS
    OneReplicaTooMany
    MembersSettle
PROPERTIES
    PlacedEvenly
    MembersConverge
    ShortageEnds
CHECK_DEADLOCK FALSE
