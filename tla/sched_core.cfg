SPECIFICATION Spec
CONSTANTS
  p1 = p1
  p2 = p2
  b1 = b1
  b2 = b2
  j1 = j1
  j2 = j2
  Procs = {p1, p2}
  Backends = {b1, b2}
  Home <- OnePerProc
  Ids = {j1, j2}
  CronTimes <- Times
  Window = 2
  MaxTime = 3
  MaxGen = 2
  ReuseIds = FALSE
  RpcErrors = FALSE
  DbFaults = FALSE
  NoRow = NoRow
SYMMETRY JobSymmetry
INVARIANTS TypeOK OnePoller NoLostFire NeverEarly NoStrayFire
PROPERTIES LedgerSpec
CHECK_DEADLOCK FALSE
