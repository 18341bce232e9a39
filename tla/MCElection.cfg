SPECIFICATION FairSpec
CONSTANTS
    Node = {n1, n2}
    MaxCrashes = 2
    MaxSessionLosses = 1
    MaxCallErrors = 1
CONSTRAINT FewFaults
INVARIANTS
    OneControllerPerEpoch
PROPERTIES
    RegisteredIsNotDeposed
    DeadControllerReplaced
CHECK_DEADLOCK FALSE
