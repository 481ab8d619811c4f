SPECIFICATION LateExpirySpec
CONSTANTS
    p1 = p1
    p2 = p2
    NoProc = NoProc
    Procs = {p1}
    StageTable <- MCStageTable
    NumTasks = 2
    MaxFaults = 3
    MaxRequeues = 0
    MaxLostSessions = 0
    Expiry = TRUE
    ErrorsAfterAccept = FALSE
INVARIANT NothingMixed
