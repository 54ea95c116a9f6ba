\* Every lens on a small session, and pictures of up to eight revisions.
SPECIFICATION FairSpec
CONSTANTS
  None = None
  Other = Other
  LiveWindow = LiveWindow
  Corrupt = Corrupt
  Outside = Outside
  Canvas = Canvas
  Machines = {"score", "notebooks", "tabs", "routes", "loops", "evidence", "lanes", "labels", "canvas"}
  ScoreTimes <- Times
  ScoreErrors <- Faulty
  MinView = 1
  MaxOverlap = 4
  ScoreBudgets <- Scores
  NoteWindows = {1, 2}
  NoteIds = {1, 2}
  NoteEvents = {"e", "f"}
  MaxEntries = 2
  NoteBudgets <- Books
  TabRefs = {"a", "b"}
  TabKeys = {"k", "l"}
  MaxNames = 2
  MaxListings = 1
  TabBudgets <- Visits
  Records <- AllRecords
  Kept <- KeptRecords
  RouteSessions = {"a", "b"}
  RouteSources = {"x", "y"}
  RouteWindows = {LiveWindow, {1}}
  RouteBudgets <- Routes
  LoopErrors <- Errors
  LoopFallback <- Fallback
  LoopAuthoritative <- Authoritative
  LoopWindows = {"w"}
  LoopTimes <- Spans
  LoopBudgets <- Loops
  CourtRows <- Rows
  Comparable = {"k"}
  CourtBudgets <- Evidence
INVARIANTS
  TypeOK
  ShowsOwn
  DrawsTheGraph
PROPERTIES
  WritesOwn
  RouteArrives
CHECK_DEADLOCK FALSE
