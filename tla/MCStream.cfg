SPECIFICATION FairSpec
CONSTANTS
    Stream = {s1}
    ChannelSize = 1
    MaxAppends = 4
    MaxRollBacks = 1
INVARIANTS
    StreamFollowsLog
    NoWakeUpIsLost
PROPERTIES
    StreamCatchesUp
    CancelledStreamEnds
CHECK_DEADLOCK FALSE
