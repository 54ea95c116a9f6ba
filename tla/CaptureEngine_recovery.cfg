\* Start-up, crash, torn write: two day files, one of each failure.
SPECIFICATION Spec
CONSTANTS
  Ids = {1, 2}
  LastDay = 2
  DayOf <- OwnDays
  Admitters = {a1}
  Subs = {}
  Capacity = 1
  Tailer = Tailer
  Idle = Idle
  None = None
  Fragment = Fragment
  MaxLines = 2
  MaxTears = 1
  MaxCrashes = 1
  MaxFails = 1
  MaxTransitions = 0
INVARIANTS
  ProjectedIsWritten
  NoSkippedRecord
PROPERTIES
  ImplementsHistory
