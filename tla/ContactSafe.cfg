SPECIFICATION FairSpec
CONSTANTS
    api1 = api1
    api2 = api2
    t1 = t1
    t2 = t2
    c1 = c1
    c2 = c2
    p1 = p1
    p2 = p2
    None = None
    Contents = {c1, c2}
    Paths = {p1, p2}
    Procs = {api1}
    Threads = {t1, t2}
    Home <- MCHome
    FileChanges = FALSE
    MaxFileOps = 2
    MaxFaults = 1
    MaxLostWrites = 1
    MaxCrashes = 1
    MaxUpgrades = 1
INVARIANT OneApply
INVARIANT SuccessIsDone
PROPERTY TakenIsImported
PROPERTY ApplyEnds
