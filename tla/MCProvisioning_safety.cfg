SPECIFICATION Spec
CONSTANTS
  Instances = {i1, i2}
  Addrs = {1, 2}
  Vmids = {101, 102}
  Mappings = {1, 2, 3, 4}
  None = None
  MaxAttempts = 2
  MaxFaults = 2
  MaxRequeues = 1
SYMMETRY InstanceSymmetry
INVARIANTS
  TypeOK
  ReadyHasPassEvidence
  NoOrphanVM
  AddressFreedAfterVM
  LeaksNeedFaults
PROPERTY AddressLossIsAccounted
CHECK_DEADLOCK FALSE
