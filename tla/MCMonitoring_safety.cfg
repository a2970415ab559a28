SPECIFICATION Spec
CONSTANTS
  Workers = {w1}
  Operators = {o1}
  Jobs = {j1, j2}
  LastCheckpoint = 2
  Warning = 1
  Critical = 2
  Stuck = 1
  Limit = 1
  Filters = {"firing"}
  None = None
  MaxTime = 1
  MaxTicks = 2
  MaxAcks = 1
  MaxFaults = 1
SYMMETRY Symmetric
VIEW Readable
INVARIANTS
  TypeOK
  AlarmsMatchTheQueue
  AckedAsRendered
  EachListedOnce
CHECK_DEADLOCK FALSE
