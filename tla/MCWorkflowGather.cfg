CONSTANTS
    Workflows <- GatherWorkflows
    Bodies <- MCBodies
    MaxCrashes = 0
SPECIFICATION FairSpec
INVARIANT ResultIsMeaning
