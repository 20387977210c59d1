CONSTANTS
    None = None
    Workloads <- MCWorkloads
    MaxCrashes = 1
    MaxInterrupts = 1
SPECIFICATION Spec
CHECK_DEADLOCK FALSE
INVARIANT StartedIsReported
