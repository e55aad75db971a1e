SPECIFICATION Spec
CONSTANTS
  a = a
  b = b
  d = d
  e = e
  n = n
  Null = Null
  Names = {a, b}
  DiskNames = {a}
  Similar <- LookAlikes
  MaxRow = 3
  Days = {0, 3}
  MaxSeeds = 1
  MaxCurations = 1
  Sessions = {d, e}
  Tools = {x, y}
  Keep = {x}
  MaxSessions = 2
  Ttl = 1
  Scoped = FALSE
  MaxMessages = 3
  MaxTime = 2
  Contents = {d, e}
  Near <- Same
  Namespaces = {n}
  VectorK = 2
  BreakAfter = 2
  Cooldown = 1
  FactLimit = 2
  MaxChunk = 2
  Calls = {d, e}
  Tasks = 2
  MaxConcurrency = 0
  MaxGated = 1
  Window = 2
  MaxPolls = 2
  Agents <- AgentNames
  JobIds <- PassedIds
  Words = {d, e, n}
  Prompts = {a, b}
  MaxPublished = 3
  MaxAsked = 2
  Scripts = 2
  Plugins = {a, b, n}
  Builtin = {n}
  SelfOn = {n}
  Commits = {d, e}
  Installers = {x, y}
  Syncers = {x}
  Switched = {a}
  Plain = {a, b}
  Secret = {x}
  Purged = {b, x}
  Delegated = {n}
  Values = {d, e}
  Savers = {y}
  Loop = a
  Remover = b
  MaxSaves = 2
INVARIANTS TypeOK  NoEcho  DelegationSound   
 
SYMMETRY Symmetry
CHECK_DEADLOCK FALSE
