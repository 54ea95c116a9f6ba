---------------------------- MODULE MCDesktopShell ----------------------------
(***************************************************************************)
(* The parts of the desktop viewer that work behind its panels.  They      *)
(* share no state but the scope, which each module lets the others move; a *)
(* behaviour is one of them, chosen at the start, and all of them keep     *)
(* their variables in the same cells.                                      *)
(***************************************************************************)
EXTENDS Naturals, FiniteSets

CONSTANTS
  Machines,      \* the machines to choose from
  None,
  Ring, FirstLimit, ReplayLimit, Frames, MaxLog, MaxBreaks, MaxFails,      \* LiveFeed
  Repos, Label, Owner, RemapWindows, MaxAttempts, RemapBudgets,            \* PrivacyRemap
  Projects, Windows, Events, MaxNav, MaxClicks,                            \* ShellNavigation
  Sessions, Worktrees,                                                     \* of both
  Entries, MaxRuns, MaxChanges,                                            \* StalePrune
  Episodes, Old, MaxDeliveries, NeedsBudgets                               \* NeedsYou

ASSUME ShellAssumption ==
  /\ Machines \subseteq {"feed", "remap", "navigation", "prune", "attention"}
  /\ Ring \in Nat \ {0} /\ FirstLimit \in Nat \ {0} /\ ReplayLimit \in Nat \ {0} /\ Frames \in Nat
  /\ MaxLog \in Nat /\ MaxBreaks \in Nat /\ MaxFails \in Nat
  /\ IsFiniteSet(Repos) /\ Label \in [Repos -> Repos] /\ Owner \in [Sessions -> Repos] /\ MaxAttempts \in Nat \ {0}
  /\ \A b \in RemapBudgets : b \in [refreshes: Nat, saves: Nat, repos: Nat, selections: Nat, fails: Nat]
  /\ MaxNav \in Nat /\ MaxClicks \in Nat /\ MaxRuns \in Nat /\ MaxChanges \in Nat /\ MaxDeliveries \in Nat
  /\ None \notin Projects \cup Worktrees \cup Sessions \cup Events \cup (Repos \X {0, 1})
  /\ \A b \in NeedsBudgets : b \in [changes: Nat, connections: Nat, clicks: Nat, snoozes: Nat, fails: Nat,
                                    permissions: Nat, restarts: Nat]

VARIABLES machine, x1, x2, x3, x4, x5, x6, x7, x8, x9, x10, x11, x12, x13, x14, x15, x16, x17, x18, x19, x20
cells == <<machine, x1, x2, x3, x4, x5, x6, x7, x8, x9, x10, x11, x12, x13, x14, x15, x16, x17, x18, x19, x20>>
On(m) == machine = m

\* Two repositories of one name; one save with everything around it, with a repository that
\* gives way to the other, or two saves that overlap.
OneName == [r \in {"r1", "r2"} |-> "r1"]
OneOwner == [s \in {"s1"} |-> "r1"]
R(d, s, p, c, f) == [refreshes |-> d, saves |-> s, repos |-> p, selections |-> c, fails |-> f]
Remaps == {R(1, 1, 1, 1, 0), R(1, 1, 2, 1, 0), R(0, 1, 0, 2, 1), R(0, 2, 0, 1, 0)}
\* A restart, overlapping connections, or a snooze with failures and a permission withdrawn.
N(d, c, k, z, f, p, r) == [changes |-> d, connections |-> c, clicks |-> k, snoozes |-> z, fails |-> f,
                           permissions |-> p, restarts |-> r]
Needs == {N(1, 2, 1, 0, 0, 0, 1), N(1, 3, 1, 0, 0, 0, 0), N(1, 1, 1, 1, 1, 1, 0), N(1, 1, 2, 0, 0, 0, 0)}

Feed == INSTANCE LiveFeed WITH
  log <- x1, link <- x2, wire <- x3, held <- x4, pc <- x5, limit <- x6, reconnecting <- x7,
  streamFailed <- x8, history <- x9, pending <- x10, queue <- x11, reconciled <- x12, status <- x13,
  buf <- x14, paused <- x15, frozen <- x16, arrived <- x17, beyond <- x18, disturbed <- x19, budget <- x20
Remap == INSTANCE PrivacyRemap WITH
  Windows <- RemapWindows, Budgets <- RemapBudgets,
  class <- x1, registered <- x2, version <- x3, scope <- x4, issued <- x5, calls <- x6, roots <- x7,
  saves <- x8, handler <- x9, lost <- x10, budget <- x20
Navigation == INSTANCE ShellNavigation WITH
  active <- x1, tab <- x2, hosted <- x3, scope <- x4, navGeneration <- x5, inspectClickGeneration <- x6,
  inspection <- x7, fetches <- x8, pane <- x9, landingPending <- x10, drag <- x11, decided <- x12
Prune == INSTANCE StalePrune WITH
  disk <- x1, changes <- x2, record <- x3, runs <- x4, gen <- x5, busy <- x6, cancelPending <- x7,
  dialog <- x8, behind <- x9
Attention == INSTANCE NeedsYou WITH
  Budgets <- NeedsBudgets,
  enabling <- x1, stamp <- x2, granted <- x3, connected <- x4, fresh <- x5, epoch <- x6, initialized <- x7,
  loads <- x8, inFlight <- x9, snapshot <- x10, deliveries <- x11, enabled <- x12, status <- x13,
  notified <- x14, snoozed <- x15, stored <- x16, storable <- x17, sent <- x18, known <- x19, budget <- x20

\* The cells that a machine does not use stay as they are.
Init ==
  /\ machine \in Machines
  /\ \/ On("feed") /\ Feed!Init
     \/ On("remap") /\ Remap!Init /\ x11 = 0 /\ x12 = 0 /\ x13 = 0 /\ x14 = 0 /\ x15 = 0 /\ x16 = 0 /\ x17 = 0 /\ x18 = 0 /\ x19 = 0
     \/ On("navigation") /\ Navigation!Init /\ x13 = 0 /\ x14 = 0 /\ x15 = 0 /\ x16 = 0 /\ x17 = 0 /\ x18 = 0 /\ x19 = 0 /\ x20 = 0
     \/ On("prune") /\ Prune!Init /\ x10 = 0 /\ x11 = 0 /\ x12 = 0 /\ x13 = 0 /\ x14 = 0 /\ x15 = 0 /\ x16 = 0 /\ x17 = 0 /\ x18 = 0 /\ x19 = 0 /\ x20 = 0
     \/ On("attention") /\ Attention!Init

Next ==
  /\ UNCHANGED machine
  /\ \/ On("feed") /\ Feed!Next
     \/ On("remap") /\ Remap!Next /\ UNCHANGED <<x11, x12, x13, x14, x15, x16, x17, x18, x19>>
     \/ On("navigation") /\ Navigation!Next /\ UNCHANGED <<x13, x14, x15, x16, x17, x18, x19, x20>>
     \/ On("prune") /\ Prune!Next /\ UNCHANGED <<x10, x11, x12, x13, x14, x15, x16, x17, x18, x19, x20>>
     \/ On("attention") /\ Attention!Next

Spec == Init /\ [][Next]_cells

\* The connector is called every three seconds; requests, timers and streams come to an end.
FairSpec ==
  /\ Spec
  /\ WF_(Feed!vars)(On("feed") /\ Feed!Connect) /\ WF_(Feed!vars)(On("feed") /\ Feed!HealthOk)
  /\ WF_(Feed!vars)(On("feed") /\ Feed!HistoryAnswered) /\ WF_(Feed!vars)(On("feed") /\ Feed!CatchupAnswered)
  /\ WF_(Feed!vars)(On("feed") /\ Feed!Deliver) /\ WF_(Feed!vars)(On("feed") /\ Feed!DeliverEnds)
  /\ WF_(Feed!vars)(On("feed") /\ Feed!StreamOpens) /\ WF_(Feed!vars)(On("feed") /\ Feed!Receive)
  /\ WF_(Feed!vars)(On("feed") /\ Feed!ClosedIsNoticed)
  /\ WF_(Remap!vars)(On("remap") /\ Remap!HandlerTimesOut) /\ WF_(Remap!vars)(On("remap") /\ Remap!HandlerWakes)
  /\ WF_(Attention!vars)(On("attention") /\ Attention!Refresh) /\ WF_(Attention!vars)(On("attention") /\ Attention!ServeLoad)
  /\ WF_(Attention!vars)(On("attention") /\ Attention!LoadAnswered) /\ WF_(Attention!vars)(On("attention") /\ Attention!DeliverNext)
  /\ WF_(Attention!vars)(On("attention") /\ Attention!PermissionAnswered) /\ WF_(Attention!vars)(On("attention") /\ Attention!Send)

TypeOK ==
  CASE On("feed") -> Feed!TypeOK [] On("remap") -> Remap!TypeOK [] On("navigation") -> Navigation!TypeOK
    [] On("prune") -> Prune!TypeOK [] On("attention") -> Attention!TypeOK

\* The feed is bounded, holds each event once and has no hole but those that a bounded
\* history explains; a pause hides nothing that resuming does not count; LIVE means attached.
FeedAccounts ==
  On("feed") => /\ Feed!RingSound /\ Feed!Contiguous
                /\ Feed!ResumeShowsCounted /\ Feed!LiveMeansAttached

\* The scope that the user acts on is one that exists: after a change of the ids, with the
\* session it holds, and while a drag of the window has it.
ScopeStands ==
  CASE On("remap") -> Remap!NoDanglingProject /\ Remap!SessionInProject
    [] On("navigation") -> Navigation!DragOwnsScope
    [] OTHER -> TRUE

\* An episode is notified once, and one action runs at a time and reports what it removed.
DoneOnce ==
  CASE On("attention") -> Attention!NotifiedOnce
    [] On("prune") -> Prune!OneLiveRun /\ Prune!ListsCatchUp
    [] OTHER -> TRUE

\* No step of any of them acts on what the user did not see, choose or confirm, and none
\* puts an older answer in the place of a newer one.
StepsAsMeant ==
  [][CASE On("remap") -> Remap!ProjectKept /\ Remap!RootsForward
       [] On("navigation") -> Navigation!InspectIsLatest /\ Navigation!LandsOnce
       [] On("prune") -> Prune!RemovesOnlyConfirmed
       [] On("attention") -> Attention!NoBacklog /\ Attention!SnapshotForward
       [] OTHER -> TRUE]_cells

\* The viewer attaches again, a remap ends and a wanted notification is attempted,
\* whatever hung, broke or failed before.
Recovers ==
  []<>(CASE On("feed") -> Feed!Reattached
         [] On("remap") -> Remap!RemapOver
         [] On("attention") -> \A k \in Episodes : Attention!Attempted(k)
         [] OTHER -> TRUE)

\* See LiveFeed: what docs/contracts.md:190-193 says of the second snapshot.
NoHistoryLiveRace == On("feed") => Feed!NoHistoryLiveRace
=============================================================================
