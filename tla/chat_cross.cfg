SPECIFICATION Spec
CONSTANTS
  Turns = {t1, t2}
  Sessions = {s}
  Project = Project
  Nobody = Nobody
  Keep = 0
  MaxAge = 0
  Harvest = TRUE
  MaxRuns = 2
  MaxTime = 1
INVARIANT AnswerReaches
CHECK_DEADLOCK FALSE
