CONSTANTS
    Workflows <- ChangingWorkflows
    Bodies <- MCBodies
    MaxCrashes = 1
SPECIFICATION FairSpec
PROPERTIES
    RecordsStand
