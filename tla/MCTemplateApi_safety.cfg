SPECIFICATION Spec
CONSTANTS
  Templates = {t1, t2}
  Keys = {k1, k2}
  Requests = {r1, r2, r3}
  None = None
SYMMETRY ApiSymmetry
INVARIANTS
  TypeOK
  OneActiveUnlessOverlapped
PROPERTIES
  OneBodyPerLiveKey
  OnlyValidTransitions
CHECK_DEADLOCK FALSE
