CONSTANTS
    Stages = 2
    Chunks = 2
    Configs <- MCConfigs
    MaxCrashes = 1
    MaxCuts = 1
    MaxRetries = 1
    MaxInterrupts = 1
    MaxFatal = 1
    None = None
SPECIFICATION FairSpec
INVARIANTS ActionsInOrder EndIsBacked UndoOnlyFailures ManifestIsWhole
PROPERTIES ScopeEnds
CHECK_DEADLOCK FALSE
