\* One runner, every entry point, crashes, failures and a file that disappears.
SPECIFICATION FairSpec
CONSTANTS
    NumPackages = 3
    Runners = {r1}
    NoRunner = NoRunner
    Kinds = {"scan", "run", "scheduled", "retry", "replay", "resume", "continue"}
    MaxCrashes = 1
    MaxFailures = 2
    MaxLosses = 1
PROPERTY OrderedReplay
PROPERTY CompleteIsComplete
PROPERTY CorpusCompletes
