SPECIFICATION MCSpec
CONSTANTS
    Partitions = 2
    Push = {h1}
    SegmentRecords = 1
    LeaderRecords = 1
    MaxChanges = 3
    MaxFaults = 1
INVARIANTS
    FilesInOrder
    HostsWhatItShould
PROPERTIES
    ReplicaJoins
CHECK_DEADLOCK FALSE
