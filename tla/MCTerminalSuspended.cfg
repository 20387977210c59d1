CONSTANTS
    Stages = 2
    Chunks = 2
    Configs <- MCSuspended
    MaxCrashes = 1
    MaxCuts = 1
    MaxRetries = 1
    MaxInterrupts = 1
    MaxFatal = 0
    None = None
SPECIFICATION Spec
INVARIANT SuspensionRunsNothing
CHECK_DEADLOCK FALSE
