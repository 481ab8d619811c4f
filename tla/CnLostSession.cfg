SPECIFICATION LostSessionSpec
CONSTANTS
    p1 = p1
    p2 = p2
    NoProc = NoProc
    Procs = {p1, p2}
    StageTable <- MCStageTable
    NumTasks = 2
    MaxFaults = 3
    MaxRequeues = 0
    MaxLostSessions = 1
    Expiry = FALSE
    ErrorsAfterAccept = FALSE
PROPERTY OnlyAbandonedRecovered
