\* Every part behind the panels, on one of each failure.
SPECIFICATION FairSpec
CONSTANTS
  None = None
  Ring = 2
  FirstLimit = 1
  ReplayLimit = 4
  Frames = 1
  MaxLog = 4
  MaxBreaks = 1
  MaxFails = 1
  Repos = {"r1", "r2"}
  Sessions = {"s1"}
  Worktrees = {"w1"}
  Label <- OneName
  Owner <- OneOwner
  RemapWindows = {}
  MaxAttempts = 2
  RemapBudgets <- Remaps
  Projects = {"p1"}
  Windows = {"x1"}
  Events = {"e1", "e2"}
  MaxNav = 3
  MaxClicks = 2
  Entries = {"e1", "e2"}
  MaxRuns = 3
  MaxChanges = 1
  Episodes = {1, 2}
  Old = {2}
  MaxDeliveries = 2
  NeedsBudgets <- Needs
  Machines = {"feed", "remap", "navigation", "prune", "attention"}
INVARIANTS
  TypeOK
  FeedAccounts
  ScopeStands
  DoneOnce
PROPERTIES
  StepsAsMeant
  Recovers
CHECK_DEADLOCK FALSE
