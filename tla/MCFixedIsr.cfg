SPECIFICATION FairSpec
CONSTANTS
    Leader = L
    Follower = {f1, f2}
    Request = {r1, r2, r3}
    L = L
    f1 = f1
    f2 = f2
    r1 = r1
    r2 = r2
    r3 = r3
    InitReplicas <- AllNodes
    InitIsr <- AllNodes
    BatchSize = 2
    MaxDiskErrors = 2
    MaxRestarts = 1
    MaxAssignments = 0
    MaxCallErrors = 0
INVARIANTS
    TypeOK
    AcceptedIsDurable
    IsrHoldsLeaderLog
PROPERTIES
    ProduceIsAnswered
CHECK_DEADLOCK FALSE
