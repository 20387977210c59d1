CONSTANTS
    Stages = 2
    Chunks = 2
    Configs <- MCLarge
    MaxCrashes = 1
    MaxCuts = 1
    MaxRetries = 1
    MaxInterrupts = 1
    MaxFatal = 0
    None = None
SPECIFICATION Spec
INVARIANT UndoOnlyFailures
CHECK_DEADLOCK FALSE
