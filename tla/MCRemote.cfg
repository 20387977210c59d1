SPECIFICATION FairSpec
CONSTANTS
    Steps = 3
    Offloaded <- MCOffloaded
    Tries = 2
    MaxInvocations = 3
    MaxFaults = 2
INVARIANTS
    PayloadsAreReadable StateIsWhole FencedMeansSuperseded ReportIsComplete
PROPERTY ExecutionEnds
