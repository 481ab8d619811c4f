\* Two runners of three kinds, two packages, a crash, a failure, a lost file.
SPECIFICATION Spec
SYMMETRY Symmetry
CONSTANTS
    NumPackages = 2
    Runners = {r1, r2}
    NoRunner = NoRunner
    Kinds = {"run", "retry", "resume"}
    MaxCrashes = 1
    MaxFailures = 1
    MaxLosses = 1
PROPERTY SuccessNotRepeated
