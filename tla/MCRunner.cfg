CONSTANTS
    None = None
    c1 = c1
    c2 = c2
    w1 = w1
    w2 = w2
    i1 = i1
    Callbacks <- MCCallbacks
    Waits <- MCWaits
    Invokes <- MCInvokes
    Configs <- MCConfigs
    Budget = 3
    MaxFailures = 1
    MaxWall = 4
SPECIFICATION FairSpec
CHECK_DEADLOCK FALSE
INVARIANTS
    HeartbeatsDoNotExtend
PROPERTIES
    FinalIsFinal
    AnswersInTime
    TimersInOrder
    RunEnds
