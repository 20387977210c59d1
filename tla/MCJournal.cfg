CONSTANTS
    t1 = t1
    t2 = t2
    h = h
    Tasks = {t1, t2}
    Handler = h
    Close = Close
    MaxCommits = 1
    MaxBatch = 2
    MaxTakeovers = 1
    MaxInterrupts = 1
SPECIFICATION FairSpec
CHECK_DEADLOCK FALSE
INVARIANTS
    AckedIsReadable
    LogIsCommitPrefix
    OpenIsServed
PROPERTIES
    ImplementsCheckpointLog
    ReceiptsSettle
    CloseReturns
