SPECIFICATION Spec
CONSTANTS
  Requests = {r1, r2, r3}
  MaxInstances = 3
  MaxJobs = 3
  MaxAttempts = 2
  MaxFaults = 2
SYMMETRY RequestSymmetry
INVARIANTS
  TypeOK
  OneLiveGeneration
  OneJobSteps
  FailedHoldsNothing
  
PROPERTY QuarantineHolds
CHECK_DEADLOCK FALSE
