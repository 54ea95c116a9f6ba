SPECIFICATION FairSpec
CONSTANTS
  None = None
  Torn = Torn
  Keep = Keep
  LastFile = 1
  Silent = {2}
  Tolerance = 0
  MaxLines = 3
  TailTime = 1
  MaxIds = 6
  TailBudgets <- Tails
  Events = {"i1", "i2"}
  Limit = 2
  SeenCapacity = 8
  Capacity = 1
  MaxSpool = 3
  MaxVersions = 1
  MaxDrops = 1
  MaxFails = 1
  Collectors = {"A", "B"}
  Remote = "far"
  Addr = "p1"
  UserEnvs <- Blocks
  MaxEdits = 1
  Signals = {"logs", "metrics"}
  Signal = "logs"
  Batches = {"b1", "b2"}
  Depth = 1
  MaxWrites = 2
  IdleAfter = 2
  DayLength = 3
  SessionTime = 5
  MaxEvents = 3
  MaxLate = 2
  Hooks = {"first", "second"}
  HookBudgets <- Updates
  Paths = {"w"}
  Commits = {"c1"}
  TreeBudgets <- Life
  Machines = {"tail", "view", "otel"}
INVARIANTS
  NothingLost
  OnceAndSame
PROPERTIES
  Arrives
CHECK_DEADLOCK FALSE
