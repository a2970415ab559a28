SPECIFICATION Spec
CONSTANTS
  Workers = {w1, w2}
  Wanted = Wanted
  Older = Older
  None = None
  MaxFaults = 3
  MaxTries = 3
INVARIANTS
  TypeOK
  InstalledAsClaimed
  VerdictMatchesIsolation
  RemoveCanBeRepeated
PROPERTY EveryApplyEnds
CHECK_DEADLOCK FALSE
