\* One client beside the two loops; the repository moves once, the mode changes twice.
CONSTANTS
  Clients = {c1}
  Loop = loop
  Poller = poller
  Modes = {full, minimal}
  None = None
  Error = Error
  Failed = Failed
  MaxMoves = 1
  MaxRequests = 2
  MaxUpdates = 2
  MaxFaults = 1
SPECIFICATION FairSpec
INVARIANTS
  AnsweredUnderMode
PROPERTIES
  NeverBackwards
  Converges
