SPECIFICATION Spec
CONSTANTS
  p1 = p1
  p2 = p2
  b1 = b1
  b2 = b2
  j1 = j1
  j2 = j2
  Procs = {p1}
  Backends = {b1}
  Home <- Single
  Ids = {j1, j2}
  CronTimes <- Times
  Window = 2
  MaxTime = 3
  MaxGen = 2
  ReuseIds = FALSE
  RpcErrors = TRUE
  DbFaults = FALSE
  NoRow = NoRow
INVARIANTS NoLostFire
CHECK_DEADLOCK FALSE
