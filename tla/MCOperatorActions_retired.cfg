SPECIFICATION Spec
CONSTANTS
  Requests = {r1, r2}
  MaxInstances = 2
  MaxJobs = 2
  MaxAttempts = 2
  MaxFaults = 0
INVARIANT RetiredHoldsNothing
CHECK_DEADLOCK FALSE
