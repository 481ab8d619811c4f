CONSTANTS
    Corpus = 3
    MaxCorpus = 4
    MaxTasks = 2
    MaxPlans = 2
    MaxMains = 2
    MaxFaults = 1
    NoPlan = NoPlan
    NoChild = NoChild
SPECIFICATION Spec
INVARIANTS RowsAreTrue StopHonoured
PROPERTIES OperatorStarts ApprovedPlanOnly EveryRunEnds
