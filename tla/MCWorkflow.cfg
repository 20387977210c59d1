CONSTANTS
    Workflows <- MCWorkflows
    Bodies <- MCBodies
    MaxCrashes = 2
SPECIFICATION FairSpec
INVARIANTS
    OneAddressOnePlace
    OutcomesAreStable
    PendingIsBacked
    NothingOutlivesItsScope
    ResultIsMeaning
PROPERTIES
    ExecutionEnds
