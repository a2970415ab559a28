SPECIFICATION Spec
CONSTANTS
  Vmids = {v1, v2}
  Clients = {c1, c2}
  Strangers = {other}
  Nobody = Nobody
  MaxFaults = 1
  Checks = {routes, agent}
  Failing = {routes}
INVARIANTS
  TypeOK
  NothingLeftBehind
  OnlyContestedVmidsMixUp
PROPERTY EveryRunEnds
CHECK_DEADLOCK FALSE
