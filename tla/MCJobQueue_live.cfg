SPECIFICATION FairSpec
CONSTANTS
  Jobs = {1, 2}
  Workers = {w1, w2}
  NoJob = NoJob
  NoWorker = NoWorker
  Unsupported = {}
  MaxAttempts = 2
  LeaseTicks = 2
  LastStage = 1
  MaxFaults = 1
  MaxStalls = 0
  MaxRequeues = 0
PROPERTY EveryJobSettles
CHECK_DEADLOCK FALSE
