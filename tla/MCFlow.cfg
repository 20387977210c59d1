CONSTANTS
    Count = 3
    Plans <- MCPlans
    MaxCrashes = 1
    MaxInterrupts = 1
    None = None
SPECIFICATION FairSpec
INVARIANTS DecisionIsRecorded ResultIsMeaning FailuresAccounted
PROPERTIES FlowEnds
CHECK_DEADLOCK FALSE
