SPECIFICATION Spec
CONSTANTS
  Null = Null
  Torn = Torn
  Threads = {t}
  Failures = {{}, {"inbox", "memory"}}
  MaxCalls = 3
  MaxBoots = 2
INVARIANTS ToolsSurvive
CHECK_DEADLOCK FALSE
