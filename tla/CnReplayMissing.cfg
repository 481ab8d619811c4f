\* One runner, one lost file.
SPECIFICATION Spec
CONSTANTS
    NumPackages = 2
    Runners = {r1}
    NoRunner = NoRunner
    Kinds = {"run"}
    MaxCrashes = 0
    MaxFailures = 0
    MaxLosses = 1
PROPERTY MissingIsBarrier
