\* Two hosts and two starts, one fault, a process that lives once, a channel of one.
SPECIFICATION SourcesFairSpec
CONSTANTS
  Nobody = Nobody
  Nothing = Nothing
  Processes = {daemon, tui}
  MaxLine = 1
  MaxStarts = 2
  MaxFaults = 1
  Pids = {1}
  Agents = {claude}
  Capacity = 1
  MaxLives = 1
INVARIANTS
  OneHost
  CapturedOnce
PROPERTIES
  TakesOver
  ReportsAreTrue
\* The hosts may all be down and the agents gone.
CHECK_DEADLOCK FALSE
