SPECIFICATION Spec
CONSTANTS
    Leader = L
    Follower = {f1}
    Request = {r1, r2}
    L = L
    f1 = f1
    r1 = r1
    r2 = r2
    InitReplicas <- AllNodes
    InitIsr <- LeaderOnly
    BatchSize = 1
    MaxDiskErrors = 0
    MaxRestarts = 0
    MaxAssignments = 0
    MaxCallErrors = 0
INVARIANTS
    IgnoredAppendIsRepetition
CHECK_DEADLOCK FALSE
