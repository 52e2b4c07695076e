CONSTANTS
    w1 = w1
    w2 = w2
    Workers <- MCWorkers
    Offsets <- MCOffsets
    Stages <- MCStages
    Token = 3
    End = 3
    Grace = 0
    MaxQueue = 1
    Horizon = 3
    Mode = "closed"
    NTasks = 2
SPECIFICATION FairSpec
INVARIANTS RecordsAreTrue
PROPERTIES RunEnds
