CONSTANTS
    None = None
    Workloads <- MCWorkloads
    MaxCrashes = 1
    MaxInterrupts = 1
SPECIFICATION FairSpec
CHECK_DEADLOCK FALSE
INVARIANTS
    SlotsKept
    ReportIsJustified
    ItemsMatchRecords
PROPERTY GroupReports
