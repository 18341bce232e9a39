SPECIFICATION FairSpec
CONSTANTS
    Connections = 2
    Web = {w1}
    MaxRecords = 1
    MaxOpened = 2
    MaxTurns = 1
INVARIANTS
    RunsWhatWasSent
    AnswersItsOwn
    StreamsEndTogether
PROPERTIES
    AbandonedStreamEnds
    ClientHears
