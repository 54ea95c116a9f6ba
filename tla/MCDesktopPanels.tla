--------------------------- MODULE MCDesktopPanels ---------------------------
(*****************************************************************************)
(* The panels of the desktop viewer that read the daemon and follow the    *)
(* scope.  They share no state but the scope, which each module lets the   *)
(* others move; a behaviour is one of them, chosen at the start, and all of*)
(* them keep their variables in the same cells.                            *)
(*****************************************************************************)
EXTENDS Naturals

CONSTANTS
  Machines,      \* the machines to choose from
  None, Unanswered,
  FleetBudgets, ListBudgets, WalkBudgets, TopologyBudgets, ProjectBudgets, MapBudgets,
  Cap, Page, Recent,             \* EventsPager
  Known,                         \* GraphTopology
  Repos, Views, MaxCaptured,     \* ProjectPanel, ActivityMap
  MaxOverlap                     \* of all but Fleet and Events

VARIABLES machine, x1, x2, x3, x4, x5, x6, x7, x8, x9, x10, x11, x12, x13, x14, x15, x16, x17, x18
cells == <<machine, x1, x2, x3, x4, x5, x6, x7, x8, x9, x10, x11, x12, x13, x14, x15, x16, x17, x18>>
On(m) == machine = m

\* The bounds of each machine, so that every kind of overlap occurs.
F(d, f, c, v, e, r) == [changes |-> d, fails |-> f, connections |-> c, visits |-> v, encodings |-> e, retries |-> r]
Fleets == {F(1, 0, 1, 2, 1, 0), F(1, 1, 1, 1, 0, 0), F(0, 0, 2, 1, 0, 1)}
L(n, m, c, f, v) == [events |-> n, moves |-> m, clicks |-> c, fails |-> f, visits |-> v]
Lists == {L(0, 2, 1, 0, 0), L(1, 0, 2, 0, 0), L(1, 0, 1, 1, 0), L(0, 0, 3, 1, 0), L(1, 1, 0, 0, 2)}
W(n, c, m, f, v) == [events |-> n, choices |-> c, moves |-> m, fails |-> f, visits |-> v]
Walks == {W(3, 2, 0, 0, 1), W(4, 1, 0, 0, 2), W(3, 1, 1, 0, 1), W(3, 0, 2, 0, 1), W(4, 0, 0, 1, 1), W(4, 0, 0, 0, 3)}
T(c, m, d, f, v) == [choices |-> c, moves |-> m, changes |-> d, fails |-> f, visits |-> v]
Topologies == {T(1, 1, 0, 0, 1), T(0, 2, 0, 0, 1), T(2, 0, 0, 0, 1), T(0, 1, 1, 1, 1), T(0, 1, 0, 0, 2)}
P(c, m, v, f) == [choices |-> c, moves |-> m, visits |-> v, fails |-> f]
Projects == {P(2, 0, 1, 0), P(1, 1, 1, 0), P(0, 0, 2, 1)}
Maps == {[moves |-> 2, gestures |-> 1, fails |-> 1], [moves |-> 1, gestures |-> 2, fails |-> 1]}

\* Variables of one name share a cell.
Fleet == INSTANCE FleetPanel WITH
  Budgets <- FleetBudgets,
  budget <- x1, active <- x2, requests <- x3, failed <- x4, failedOffline <- x5, connected <- x6, loads <- x7,
  stamp <- x8, serves <- x9, data <- x10, unsupported <- x11, primed <- x12, encoding <- x13, mounted <- x14,
  inflight <- x15, eventTimer <- x16, drawn <- x17, changed <- x18
Sessions == INSTANCE SessionsPanel WITH
  Failed <- Unanswered, Budgets <- ListBudgets,
  budget <- x1, shown <- x2, captured <- x3, refreshes <- x4, scope <- x5, first <- x6, rowsHeld <- x7,
  list <- x8, histories <- x9, historyRef <- x10, loaded <- x11, selectedWt <- x12
Events == INSTANCE EventsPager WITH
  Budgets <- WalkBudgets,
  budget <- x1, shown <- x2, requests <- x3, log <- x4, workspace <- x5, fed <- x6, held <- x7, tab <- x8,
  scopeWorktree <- x9, category <- x10, cursor <- x11, hasMore <- x12, missed <- x13, historyError <- x14,
  crowded <- x15, arriving <- x16
Topology == INSTANCE GraphTopology WITH
  Budgets <- TopologyBudgets,
  budget <- x1, shown <- x2, mode <- x3, refreshes <- x4, workspace <- x5, repo <- x6, registered <- x7,
  live <- x8, project <- x9, worktree <- x10, pendingRefresh <- x11, privacyMode <- x12, repos <- x13,
  snapshot <- x14, unregistered <- x15, registering <- x16
Project == INSTANCE ProjectPanel WITH
  Budgets <- ProjectBudgets,
  budget <- x1, active <- x2, captured <- x3, rows <- x4, failedOffline <- x5, connected <- x6, loads <- x7,
  rowsAt <- x8, panel <- x9, clock <- x10
Activity == INSTANCE ActivityMap WITH
  Budgets <- MapBudgets,
  budget <- x1, active <- x2, requests <- x3, failed <- x4, host <- x5, repo <- x6, view <- x7, privacy <- x8,
  resp <- x9, fetchedKey <- x10, stale <- x11, brush <- x12, drags <- x13

\* None is none of the values it stands beside.
ASSUME PanelsAssumption ==
  /\ MaxOverlap \in Nat /\ Cap \in Nat /\ Page \in Nat \ {0} /\ Recent \in Nat \ {0}
  /\ None \notin Project!Encodings \cup Topology!Ids \cup Activity!Keys
  /\ None \notin [id : {1, 2}, source : Sessions!Sources \cup {None}]
  /\ None \notin [inForce : BOOLEAN, name : Topology!Projects, id : Topology!Ids \cup {None}, repos : (SUBSET Topology!Ids) \cup {None},
                  asked : BOOLEAN, from : Topology!Ids \cup {None}]

\* The cells that a machine does not use stay as they are.
Init ==
  /\ machine \in Machines
  /\ \/ On("fleet") /\ Fleet!Init
     \/ On("sessions") /\ Sessions!Init /\ x13 = 0 /\ x14 = 0 /\ x15 = 0 /\ x16 = 0 /\ x17 = 0 /\ x18 = 0
     \/ On("events") /\ Events!Init /\ x17 = 0 /\ x18 = 0
     \/ On("topology") /\ Topology!Init /\ x17 = 0 /\ x18 = 0
     \/ On("project") /\ Project!Init /\ x11 = 0 /\ x12 = 0 /\ x13 = 0 /\ x14 = 0 /\ x15 = 0 /\ x16 = 0 /\ x17 = 0 /\ x18 = 0
     \/ On("activity") /\ Activity!Init /\ x14 = 0 /\ x15 = 0 /\ x16 = 0 /\ x17 = 0 /\ x18 = 0

Next ==
  /\ UNCHANGED machine
  /\ \/ On("fleet") /\ Fleet!Next
     \/ On("sessions") /\ Sessions!Next /\ UNCHANGED <<x13, x14, x15, x16, x17, x18>>
     \/ On("events") /\ Events!Next /\ UNCHANGED <<x17, x18>>
     \/ On("topology") /\ Topology!Next /\ UNCHANGED <<x17, x18>>
     \/ On("project") /\ Project!Next /\ UNCHANGED <<x11, x12, x13, x14, x15, x16, x17, x18>>
     \/ On("activity") /\ Activity!Next /\ UNCHANGED <<x14, x15, x16, x17, x18>>

Spec == Init /\ [][Next]_cells

\* Timers fire and promises run; a request is answered, fails or meets its deadline; the
\* host renders its map again on every poll.
FairSpec ==
  /\ Spec
  /\ WF_(Fleet!vars)(On("fleet") /\ Fleet!TimerLoad) /\ WF_(Fleet!vars)(On("fleet") /\ Fleet!Serve) /\ WF_(Fleet!vars)(On("fleet") /\ Fleet!Answered)
  /\ WF_(Fleet!vars)(On("fleet") /\ Fleet!LoadEnds) /\ WF_(Fleet!vars)(On("fleet") /\ Fleet!Deadline) /\ WF_(Fleet!vars)(On("fleet") /\ Fleet!Aborted)
  /\ WF_(Sessions!vars)(On("sessions") /\ Sessions!Poll) /\ WF_(Sessions!vars)(On("sessions") /\ Sessions!Deadline) /\ WF_(Sessions!vars)(On("sessions") /\ Sessions!Settled)
  /\ WF_(Events!vars)(On("events") /\ Events!SnapshotLands) /\ WF_(Events!vars)(On("events") /\ Events!Serve)
  /\ WF_(Events!vars)(On("events") /\ Events!Answered) /\ WF_(Events!vars)(On("events") /\ Events!Deliver)
  /\ WF_(Topology!vars)(On("topology") /\ Topology!Serve) /\ WF_(Topology!vars)(On("topology") /\ Topology!ConfigLands)
  /\ WF_(Topology!vars)(On("topology") /\ Topology!SnapshotLands) /\ WF_(Topology!vars)(On("topology") /\ Topology!Fails) /\ WF_(Topology!vars)(On("topology") /\ Topology!Poll)
  /\ WF_(Project!vars)(On("project") /\ Project!Serve) /\ WF_(Project!vars)(On("project") /\ Project!Answered) /\ WF_(Project!vars)(On("project") /\ Project!Poll)
  /\ WF_(Activity!vars)(On("activity") /\ Activity!Update) /\ WF_(Activity!vars)(On("activity") /\ Activity!Serve) /\ WF_(Activity!vars)(On("activity") /\ Activity!Answered)

TypeOK ==
  CASE On("fleet") -> Fleet!TypeOK [] On("sessions") -> Sessions!TypeOK [] On("events") -> Events!TypeOK
    [] On("topology") -> Topology!TypeOK [] On("project") -> Project!TypeOK [] On("activity") -> Activity!TypeOK

\* What a panel shows, has selected or lets the user act on is of the scope it says it is
\* of, whatever was in flight when the scope, the worktree or the filter moved.
ShowsItsScope ==
  CASE On("sessions") -> Sessions!HistoryOfScope /\ Sessions!WorktreeInProject
    [] On("topology") -> Topology!SnapshotOfScope /\ Topology!SelectionOfScope
    [] On("activity") -> Activity!AnswerOfScope
    [] On("project") -> Project!EncodingOfRepo
    [] OTHER -> TRUE

\* What is mounted is what the chips say, and a slot that keeps requests apart is held
\* exactly while the newest request runs.
OneOwner ==
  CASE On("fleet") -> Fleet!HostFollowsEncoding /\ Fleet!SlotHeldByNewest
    [] On("project") -> Project!OneMounted
    [] OTHER -> TRUE

\* The events page walks older history without a hole.
WalksUncrowded == On("events") => Events!WalksUncrowded

\* No answer overwrites a newer one, and none moves the scope or commits a window of
\* what the panel no longer shows.
AnswersForward ==
  [][CASE On("fleet") -> Fleet!PictureForward
       [] On("sessions") -> Sessions!ListForward
       [] On("topology") -> Topology!RegistrationYields
       [] On("project") -> Project!RowsForward
       [] On("activity") -> Activity!CommitsOwn
       [] OTHER -> TRUE]_cells

\* A panel that stays on the screen catches up with the daemon and the scope, also after
\* requests that hung, failed or were cut short.
CatchesUp ==
  []<>(CASE On("fleet") -> Fleet!CaughtUp
         [] On("sessions") -> Sessions!ListFollowsScope
         [] On("events") -> Events!HeadRestored
         [] On("topology") -> Topology!CaughtUp
         [] On("project") -> Project!RowsCaughtUp
         [] On("activity") -> Activity!ShowsScope)
=============================================================================
