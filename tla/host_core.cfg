SPECIFICATION Spec
CONSTANTS
  a = a
  b = b
  one = one
  Workers = {s}
  Failures = {{}, {"inbox", "memory"}}
  MaxCalls = 2
  MaxBoots = 2
  Null = Null
  Torn = Torn
  Turns = {a, b}
  Sessions = {s}
  Project = Project
  Nobody = Nobody
  Keep = 0
  MaxAge = 0
  Harvest = TRUE
  MaxTime = 1
  Items = {"output", "endoutput", "think", "endthink", "scratch", "block", "word", "lt"}
  MaxItems = 4
  MaxRuns = 2
  Steps = 1
  Suites <- Cases
  Tools = {one}
  Repeat = 2
  MaxAgents = 1
  MaxLog = 2
  Unset = Null
  Consoles = {web}
  Agent = bot
  Tabs = {s, one}
  First = s
  Pieces = {one}
  MaxHistory = 1
  MaxVersion = 2
  MaxLength = 1
  Absent = Null
  Void = Void
  UndoTabs = {s}
  UndoHistory = 2
  UndoVersion = 3
  MaxIssue = 2
  MaxMade = 3
INVARIANTS TypeOK ServesConfig NoOrphan  StreamShown  WorkbenchSound
SYMMETRY Symmetry
CHECK_DEADLOCK FALSE
