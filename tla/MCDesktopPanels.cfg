SPECIFICATION FairSpec
CONSTANTS
  None = None
  Unanswered = Unanswered
  Machines = {"fleet", "sessions", "events", "topology", "project", "activity"}
  FleetBudgets <- Fleets
  ListBudgets <- Lists
  WalkBudgets <- Walks
  TopologyBudgets <- Topologies
  ProjectBudgets <- Projects
  MapBudgets <- Maps
  Cap = 2
  Page = 1
  Recent = 1
  Known = TRUE
  Repos = {"a", "b"}
  Views = {1, 2}
  MaxCaptured = 3
  MaxOverlap = 2
INVARIANTS
  TypeOK
  ShowsItsScope
  OneOwner
  WalksUncrowded
PROPERTIES
  AnswersForward
  CatchesUp
CHECK_DEADLOCK FALSE
