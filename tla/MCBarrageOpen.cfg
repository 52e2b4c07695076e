CONSTANTS
    w1 = w1
    w2 = w2
    Workers <- MCWorkers
    Offsets <- MCOffsets
    Stages <- MCOneStage
    Token = 3
    End = 2
    Grace = 1
    MaxQueue = 1
    Horizon = 3
    Mode = "open"
    NTasks = 3
SPECIFICATION FairSpec
INVARIANTS RecordsAreTrue CutByTheDeadlineOnly NoArrivalIsForgotten
PROPERTIES RunEnds
