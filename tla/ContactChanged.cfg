SPECIFICATION Spec
CONSTANTS
    api1 = api1
    api2 = api2
    t1 = t1
    t2 = t2
    c1 = c1
    c2 = c2
    p1 = p1
    p2 = p2
    None = None
    Contents = {c1, c2}
    Paths = {p1}
    Procs = {api1}
    Threads = {t1, t2}
    Home <- MCHome
    FileChanges = TRUE
    MaxFileOps = 2
    MaxFaults = 0
    MaxLostWrites = 0
    MaxCrashes = 0
    MaxUpgrades = 0
INVARIANT OnlyDiscovered
