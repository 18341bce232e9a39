SPECIFICATION FairSpec
CONSTANTS
    Id = {s1, s2}
    Publisher = {p1, p2}
    IngressCap = 1
    QueueCap = 1
    MaxEvents = 3
INVARIANTS
    HoleIsSignalled
PROPERTIES
    IsFeed
    ToldOfLoss
CHECK_DEADLOCK FALSE
