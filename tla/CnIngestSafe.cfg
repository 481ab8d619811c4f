\* Two processes, four range tasks, three faults, and cycles that keep coming.
SPECIFICATION FairSpec
CONSTANTS
    p1 = p1
    p2 = p2
    NoProc = NoProc
    Procs = {p1, p2}
    StageTable <- MCStageTable
    NumTasks = 4
    MaxFaults = 3
    MaxRequeues = 1
    MaxLostSessions = 0
    Expiry = TRUE
    ErrorsAfterAccept = FALSE
INVARIANT SuccessIsComplete
INVARIANT NothingMixed
PROPERTY DurableWork
PROPERTY AcceptedRowsKept
PROPERTY OnlyAbandonedRecovered
PROPERTY InterruptedWorkEnds
PROPERTY RetryConverges
