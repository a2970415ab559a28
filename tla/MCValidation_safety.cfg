SPECIFICATION Spec
CONSTANTS
  m1 = m1
  m2 = m2
  k1 = k1
  k2 = k2
  MachineIds = {m1, m2}
  BadId = BadId
  Keys = {k1, k2}
  None = None
  RequireSingleNIC = TRUE
  RequireSingleDefaultRoute = TRUE
  BlockRetiredDuplicate = FALSE
  DenyIPv6DefaultRoute = TRUE
  DenyIPv6 = TRUE
  Instances = {i1, i2}
  Guests <- MCGuests
  Fragile = {"ecdsa", "addr", "def6"}
  MaxFaults = 1
  MaxChanges = 1
SYMMETRY InstanceSymmetry
INVARIANTS
  TypeOK
  PassIsSound
  DuplicatesNeedOverlap
  DriftNoticed
CHECK_DEADLOCK FALSE
