SPECIFICATION Spec
CONSTANTS
  Instances = {i1, i2}
  Addrs = {1, 2}
  Vmids = {101, 102}
  Mappings = {1, 2}
  None = None
  MaxAttempts = 2
  MaxFaults = 0
  MaxRequeues = 0
INVARIANT RollbackDeletesOnlyOwnVM
CHECK_DEADLOCK FALSE
