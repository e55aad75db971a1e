SPECIFICATION Spec
CONSTANTS
  Clients = {a, b}
  MaxQueue = 2
  MaxEvents = 4
  MaxStreams = 2
INVARIANTS HeldOpen
CHECK_DEADLOCK FALSE
