SPECIFICATION Spec
CONSTANTS
    Node = {n1, n2}
    n1 = n1
    n2 = n2
    NoTopic = NoTopic
    Caller = {c1, c2, c3, c4}
    Partition = {p1, p2}
    MaxRetries = 2
    NewRecords <- Placements
SYMMETRY Symmetry
INVARIANTS
    GivesUpOnlyOvertaken
    IsrWithinReplicas
PROPERTIES
    IsAtomic
CHECK_DEADLOCK FALSE
