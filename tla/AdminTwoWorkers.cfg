\* Two overlapping workers, a crash and a failed finish write.
CONSTANTS
  w1 = w1
  w2 = w2
  CN = CN
  US = US
  Workers = {w1, w2}
  NoWorker = NoWorker
  Domains = {CN, US}
  CnDomain = CN
  MaxTasks = 2
  MaxPackages = 2
  MaxCrashes = 1
  MaxLostFinishes = 1
SPECIFICATION Spec
SYMMETRY WorkerSymmetry
INVARIANTS
  OneActivePerDomain
  MutationExclusive
  StopHonoured
