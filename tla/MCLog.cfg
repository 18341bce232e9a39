SPECIFICATION Spec
CONSTANTS
    Torn = Torn
    MaxSegmentSize = 2
    MaxAppends = 7
    MaxFaults <- EveryFault
INVARIANTS
    ReadsBackStored
    ReadableFromBase
PROPERTIES
    BaseMovesForward
CHECK_DEADLOCK FALSE
