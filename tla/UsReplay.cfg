\* A baseline package and a daily one, the replay against the one-shot cycles.
SPECIFICATION FairSpec
CONSTANTS
    NumPackages = 2
    NumHistory = 1
    NumBatches = 2
    Runners = {r1, r2}
    NoRunner = NoRunner
    LateErrors = FALSE
    MaxFaults = 1
    MaxCrashes = 1
    MaxOneShots = 2
    MaxFileOps = 1
INVARIANTS SuccessIsWhole
PROPERTIES AcceptedInOrder CompleteIsComplete Settles
