CONSTANTS
    Plans = {1, 2}
    NoPlan = NoPlan
    PackageOf <- MCPackageOf
    NumTables = 2
    Rows <- MCRows
    MaxCrashes = 2
    MaxFaults = 2
    MaxMerges = 1
SPECIFICATION Spec
INVARIANTS InsertedOnce StageUntilCommitted AcceptedIsWhole
PROPERTIES KeepsContract Settles
