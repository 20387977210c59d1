CONSTANTS
    i1 = i1
    i2 = i2
    v1 = v1
    v2 = v2
    None = None
    Slots = {i1, i2}
    Values = {v1, v2}
    MaxAttempts = 2
    MaxFailures = 1
    MaxFaults = 2
    MaxCuts = 1
SPECIFICATION FairSpec
CHECK_DEADLOCK FALSE
INVARIANTS
    AtMostOncePerAttempt
    StartIsDurable
    DeliveredIsDurable
PROPERTIES
    CountsItsAttempt
    ExecutionEnds
