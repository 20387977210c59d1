CONSTANTS
    Workflows <- LogWorkflows
    Bodies <- MCBodies
    MaxCrashes = 0
SPECIFICATION FairSpec
INVARIANT LogsAppear
