\* Two runners, a failure.
SPECIFICATION Spec
CONSTANTS
    NumPackages = 2
    Runners = {r1, r2}
    NoRunner = NoRunner
    Kinds = {"scheduled", "run", "retry"}
    MaxCrashes = 0
    MaxFailures = 1
    MaxLosses = 0
PROPERTY OrderedReplay
