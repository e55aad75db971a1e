SPECIFICATION Spec
CONSTANTS
  Tasks = {t1}
  MaxText = 2
  MaxTurns = 2
INVARIANTS PausedTextKept
CHECK_DEADLOCK FALSE
