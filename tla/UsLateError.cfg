\* An error after the SUCCESS write: the handler deletes the rows of an accepted package.
SPECIFICATION Spec
CONSTANTS
    NumPackages = 2
    NumHistory = 1
    NumBatches = 2
    Runners = {r1, r2}
    NoRunner = NoRunner
    LateErrors = TRUE
    MaxFaults = 1
    MaxCrashes = 1
    MaxOneShots = 2
    MaxFileOps = 1
INVARIANTS SuccessIsWhole
