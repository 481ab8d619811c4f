\* Two operators, two runs; the third of four entities becomes a contact later.
SPECIFICATION CountrySpec
CONSTANTS
    NumEntities = 4
    Cmds = {p1, p2}
    p1 = p1
    p2 = p2
    BatchSize = 2
    Configs <- MCConfigs
    Contacts = {1, 2, 4}
    EarlyResume = FALSE
    Evidence <- MCEvidence
    MaxRuns = 2
    MaxFails = 2
    MaxImports = 1
SYMMETRY Symmetry
INVARIANTS SuccessIsComplete NeverReevaluated
PROPERTIES ShownIsKept
CHECK_DEADLOCK FALSE
