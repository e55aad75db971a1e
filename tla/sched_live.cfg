SPECIFICATION LiveSpec
CONSTANTS
  p1 = p1
  p2 = p2
  b1 = b1
  b2 = b2
  j1 = j1
  j2 = j2
  Procs = {p1}
  Backends = {b1}
  Home <- Single
  Ids = {j1, j2}
  CronTimes <- LateTimes
  Window = 2
  MaxTime = 2
  MaxGen = 2
  ReuseIds = FALSE
  RpcErrors = FALSE
  DbFaults = TRUE
  NoRow = NoRow
PROPERTIES OthersFire
CHECK_DEADLOCK FALSE
