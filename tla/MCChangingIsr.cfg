SPECIFICATION FairSpec
CONSTANTS
    Leader = L
    Follower = {f1}
    Request = {r1, r2}
    L = L
    f1 = f1
    r1 = r1
    r2 = r2
    InitReplicas <- AllNodes
    InitIsr <- LeaderOnly
    BatchSize = 1
    MaxDiskErrors = 1
    MaxRestarts = 2
    MaxAssignments = 2
    MaxCallErrors = 1
CONSTRAINT FewFaults
INVARIANTS
    AtMostOneAhead
    RecordsAtTheirOffset
PROPERTIES
    ProduceIsAnswered
    ReplicasJoinIsr
CHECK_DEADLOCK FALSE
