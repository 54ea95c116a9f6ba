\* Three observations of six kinds with ties in both times, two replicas.
SPECIFICATION Spec
CONSTANTS
  Ids = {1, 2, 3}
  Replicas = {live, rebuilt}
  Observations <- SixKinds
INVARIANTS
  Converged
  PendingIsUnanswered
  OneFamily
\* Every observation has been applied: nothing is left to do.
CHECK_DEADLOCK FALSE
