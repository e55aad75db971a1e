SPECIFICATION Spec
CONSTANTS
  a = a
  b = b
  c = c
  dm = dm
  guild = guild
  None = None
  Unset = None
  NoKey = None
  Keys = {c}
  DedupWindow = 1
  MaxFires = 1
  StormWindow = 1
  Limits = {1, 2}
  MaxItems = 2
  MaxTime = 3
  Consoles = {a, b}
  MaxQueue = 2
  MaxEvents = 4
  MaxStreams = 2
  Chats = {dm, guild}
  DMs = {dm}
  Reloads = {c}
  Limit = 2
  MaxMsgs = 3
  MaxPosts = 1
  Calls = {a, b, c}
  Delegated = {c}
  MaxProcs = 2
  Tasks = {a, b}
  OnFeed = {a, b}
  Names <- Reported
  Rates <- Priced
  DefaultRate = 2
  Origins = {c}
  SkillSets <- Declared
  MaxCalls = 1
INVARIANTS TypeOK InboxSound StreamSound Heard AnswerIntact AgentsSound LedgerSound
SYMMETRY Symmetry
CHECK_DEADLOCK FALSE
