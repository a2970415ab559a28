SPECIFICATION Spec
CONSTANTS
  Jobs = {1}
  Workers = {w1, w2}
  NoJob = NoJob
  NoWorker = NoWorker
  Unsupported = {}
  MaxAttempts = 2
  LeaseTicks = 2
  LastStage = 2
  MaxFaults = 1
  MaxStalls = 0
  MaxRequeues = 0
INVARIANT NoDuplicateTransition
CHECK_DEADLOCK FALSE
