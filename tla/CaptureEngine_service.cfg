\* An Admit call, the tailer, a sweep, other processes, a subscriber with room for one
\* frame and a failing projection, under the fairness of the goroutines.
SPECIFICATION FairSpec
CONSTANTS
  Ids = {1, 2}
  LastDay = 1
  DayOf <- SameDay
  Admitters = {a1}
  Subs = {s1}
  Capacity = 1
  Tailer = Tailer
  Idle = Idle
  None = None
  Fragment = Fragment
  MaxLines = 2
  MaxTears = 0
  MaxCrashes = 0
  MaxFails = 1
  MaxTransitions = 1
INVARIANTS
  StreamedOnce
  GaplessDelivery
PROPERTIES
  Reconciled
  AdmissionFinishes
