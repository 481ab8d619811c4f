\* The deployed worker, alone, with crashes and restarts.
CONSTANTS
  w1 = w1
  CN = CN
  US = US
  Workers = {w1}
  NoWorker = NoWorker
  Domains = {CN, US}
  CnDomain = CN
  MaxTasks = 2
  MaxPackages = 2
  MaxCrashes = 2
  MaxLostFinishes = 0
SPECIFICATION FairSpec
PROPERTIES
  EveryTaskFinishes
