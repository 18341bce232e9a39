SPECIFICATION Spec
CONSTANTS
    Node = {n1, n2}
    MaxCrashes = 0
    MaxSessionLosses = 2
    MaxCallErrors = 0
INVARIANTS
    UnpausedIsKept
CHECK_DEADLOCK FALSE
