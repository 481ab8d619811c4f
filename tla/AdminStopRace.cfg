\* A stop request between the two UPDATEs of the recovery.
CONSTANTS
  w1 = w1
  CN = CN
  US = US
  Workers = {w1}
  NoWorker = NoWorker
  Domains = {CN, US}
  CnDomain = CN
  MaxTasks = 1
  MaxPackages = 2
  MaxCrashes = 1
  MaxLostFinishes = 0
SPECIFICATION Spec
INVARIANT StoppedNotRequeued
