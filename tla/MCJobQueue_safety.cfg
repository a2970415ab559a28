SPECIFICATION Spec
CONSTANTS
  Jobs = {1, 2}
  Workers = {w1, w2}
  NoJob = NoJob
  NoWorker = NoWorker
  Unsupported = {2}
  MaxAttempts = 2
  LeaseTicks = 2
  LastStage = 1
  MaxFaults = 2
  MaxStalls = 1
  MaxRequeues = 1
SYMMETRY SlotSymmetry
INVARIANTS
  TypeOK
  LeaseColumns
  ClaimsExclusive
  OwnerHoldsLatestClaim
  RetryOnlyWithAttemptsLeft
PROPERTY ImplementsLifecycle
CHECK_DEADLOCK FALSE
