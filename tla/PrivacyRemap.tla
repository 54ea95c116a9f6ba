---------------------------- MODULE PrivacyRemap ----------------------------
(***************************************************************************)
(* What the desktop viewer's selection becomes when the privacy mode       *)
(* changes: the repository roots it holds (ui/actions/roots.ts), the save  *)
(* of the mode (ui/settings.ts) and the remap of the shared scope          *)
(* (main.ts handlePrivacyChange, privacy-remap.ts).                        *)
(*                                                                         *)
(* The daemon is external.  It names a repository by an id that changes    *)
(* with the class of its privacy mode (a path, or its digest), while label *)
(* and vcs stay the same in every mode.                                    *)
(***************************************************************************)
EXTENDS ScopeStore, Naturals, FiniteSets

CONSTANTS
  Repos, Sessions, Worktrees, Windows,
  Label,           \* label and vcs of each repository
  Owner,           \* the repository each Session belongs to
  MaxAttempts,     \* REMAP_ATTEMPTS
  Budgets          \* bounds: other refreshes of the roots, privacy modes saved, repositories
                   \* registered or pruned, selections by the user, requests that fail

Ids == Repos \X {0, 1}
RepoOf(id) == id[1]
ClassOf(id) == id[2]
LabelOf(id) == Label[id[1]]

VARIABLES
  class,       \* class of the daemon's privacy mode: it decides the ids
  registered,  \* repositories the daemon knows
  version,     \* changes of the daemon so far
  scope,       \* the ScopeStore
  issued,      \* roots: number of the newest refresh
  calls,       \* roots: refreshes under way, with what the daemon answered
  roots,       \* roots: the last applied snapshot
  saves,       \* POST /config under way
  handler,     \* handlePrivacyChange of the newest privacyGeneration
  lost,        \* history: a mode took effect and its save failed, or the user
               \* selected from a list of the other class
  budget

vars == <<class, registered, version, scope, issued, calls, roots, saves, handler, lost, budget>>

Idle == [at |-> "idle", attempt |-> 0, before |-> {}, call |-> 0]
NotLoaded == [loaded |-> FALSE, ids |-> {}, at |-> 0]
DaemonIds == {<<r, class>> : r \in registered}
Spend(what) == budget[what] > 0 /\ budget' = [budget EXCEPT ![what] = @ - 1]

TypeOK ==
  /\ class \in {0, 1} /\ registered \in SUBSET Repos /\ version \in Nat
  /\ scope \in [project: Ids \cup {None}, worktree: Worktrees \cup {None},
                session: Sessions \cup {None}, cell: {None}, window: Windows \cup {Live}]
  /\ issued \in Nat
  /\ \A c \in calls : c.n \in 1..issued /\ c.served \in BOOLEAN /\ c.ids \in SUBSET Ids
  /\ roots.ids \in SUBSET Ids /\ roots.loaded \in BOOLEAN /\ roots.at \in 0..version
  /\ \A s \in saves : s.before \in SUBSET Ids /\ s.applied \in BOOLEAN
  /\ handler \in [at: {"idle", "sleeping", "waiting"}, attempt: 0..(MaxAttempts - 1),
                  before: SUBSET Ids, call: 0..issued]
  /\ lost \in BOOLEAN

Init ==
  /\ class = 0 /\ registered \in SUBSET Repos /\ version = 0
  /\ scope = EmptyScope
  /\ issued = 0 /\ calls = {} /\ roots = NotLoaded
  /\ saves = {} /\ handler = Idle /\ lost = FALSE
  /\ budget \in Budgets

(***************************************************************************)
(* The daemon.                                                             *)
(***************************************************************************)
ChangeRepos ==
  /\ Spend("repos") /\ version' = version + 1
  /\ \E r \in Repos : registered' = (registered \ {r}) \cup ({r} \ registered)
  /\ UNCHANGED <<class, scope, issued, calls, roots, saves, handler, lost>>

ServeRepos ==
  /\ \E c \in calls :
       /\ ~c.served
       /\ calls' = (calls \ {c}) \cup {[c EXCEPT !.served = TRUE, !.ids = DaemonIds, !.at = version]}
  /\ UNCHANGED <<class, registered, version, scope, issued, roots, saves, handler, lost, budget>>

ApplySave ==
  /\ \E s \in saves : ~s.applied /\ saves' = (saves \ {s}) \cup {[s EXCEPT !.applied = TRUE]}
  /\ class' \in {0, 1} /\ version' = version + 1
  /\ UNCHANGED <<registered, scope, issued, calls, roots, handler, lost, budget>>

(***************************************************************************)
(* The user's selection.  A project comes from a list drawn from the       *)
(* roots; the resolver may not know yet which Sessions it holds.           *)
(***************************************************************************)
Selected(sc, stale) ==
  /\ Spend("selections") /\ scope' = sc /\ lost' = (lost \/ stale)
  /\ UNCHANGED <<class, registered, version, issued, calls, roots, saves, handler>>

SelectProject ==
  \E id \in roots.ids :
    Selected(Narrow(scope, [project |-> id]),
             ClassOf(id) # class /\ handler.at = "idle" /\ ~\E s \in saves : s.applied)
SelectWorktree ==
  scope.project # None /\ \E w \in Worktrees : Selected(Narrow(scope, [worktree |-> w]), FALSE)
OpenSession ==
  \E s \in Sessions, known \in BOOLEAN :
    LET member == known /\ scope.project # None /\ RepoOf(scope.project) = Owner[s]
    IN Selected(SelectSession(scope, s, member), FALSE)
HoldWindow == \E w \in Windows : Selected(Narrow(scope, [window |-> w]), FALSE)
Ascends == ~Top(scope) /\ Selected(Ascend(scope), FALSE)

(***************************************************************************)
(* The remap.                                                              *)
(***************************************************************************)
\* Cleared: everything but the window.
Cleared(sc) == Narrow(sc, [project |-> None, worktree |-> None, session |-> None, window |-> sc.window])

SameName(id, ids) == {x \in ids : LabelOf(x) = LabelOf(id)}

\* remapScope: a project whose id is gone is found again by label and vcs, when
\* they name one repository on both sides; worktree and session are cleared.
Remapped(sc, before, after) ==
  IF sc.project = None
  THEN IF sc.worktree # None \/ sc.session # None THEN Cleared(sc) ELSE sc
  ELSE IF sc.project \in after THEN sc
  ELSE IF /\ sc.project \in before
          /\ Cardinality(SameName(sc.project, before)) = 1
          /\ Cardinality(SameName(sc.project, after)) = 1
  THEN Narrow(sc, [project |-> CHOOSE x \in SameName(sc.project, after) : TRUE,
                   worktree |-> None, session |-> None, window |-> sc.window])
  ELSE Cleared(sc)

\* The handler ends with a verified snapshot: the scope is read now.
SettleWith(after) == scope' = Remapped(scope, handler.before, after) /\ handler' = Idle

\* Variant: one attempt too many.
AttemptFailsOnceMore ==
  IF handler.attempt < MaxAttempts
  THEN handler' = [handler EXCEPT !.at = "sleeping", !.attempt = @ + 1] /\ UNCHANGED scope
  ELSE handler' = Idle /\ scope' = Cleared(scope)

\* An attempt without a snapshot: another after a pause, or everything is cleared.
AttemptFails ==
  IF handler.attempt + 1 < MaxAttempts
  THEN handler' = [handler EXCEPT !.at = "sleeping", !.attempt = @ + 1] /\ UNCHANGED scope
  ELSE handler' = Idle /\ scope' = Cleared(scope)

(***************************************************************************)
(* The roots store.                                                        *)
(***************************************************************************)
Issue == issued' = issued + 1 /\ calls' = calls \cup
           {[n |-> issued + 1, served |-> FALSE, ids |-> {}, at |-> 0]}

Refresh ==
  /\ Spend("refreshes") /\ Issue
  /\ UNCHANGED <<class, registered, version, scope, roots, saves, handler, lost>>

\* Only the newest refresh may apply its answer.
Newest(c) == c.n = issued

\* An answer: applied, it ends a waiting handler whoever asked for it; overtaken,
\* it ends only the attempt that asked.
RootsAnswered ==
  \E c \in calls :
    /\ c.served /\ calls' = calls \ {c}
    /\ IF Newest(c)
       THEN /\ roots' = [loaded |-> TRUE, ids |-> c.ids, at |-> c.at]
            /\ IF handler.at = "waiting" THEN SettleWith(c.ids) ELSE UNCHANGED <<scope, handler>>
       ELSE /\ UNCHANGED roots
            /\ IF handler.at = "waiting" /\ handler.call = c.n THEN AttemptFails
               ELSE UNCHANGED <<scope, handler>>
    /\ UNCHANGED <<class, registered, version, issued, saves, lost, budget>>

RootsFail ==
  \E c \in calls :
    /\ Spend("fails") /\ calls' = calls \ {c}
    /\ IF handler.at = "waiting" /\ handler.call = c.n THEN AttemptFails ELSE UNCHANGED <<scope, handler>>
    /\ UNCHANGED <<class, registered, version, issued, roots, saves, lost>>

(***************************************************************************)
(* The save and its handler.                                               *)
(***************************************************************************)
\* saveMode: the ids held now are remembered, then the mode is posted.
SaveMode ==
  /\ Spend("saves")
  /\ saves' = saves \cup {[n |-> budget.saves, applied |-> FALSE, before |-> roots.ids]}
  /\ UNCHANGED <<class, registered, version, scope, issued, calls, roots, handler, lost>>

\* A newer privacy change takes the remap over from an older one.
SaveAnswered ==
  \E s \in saves :
    /\ s.applied /\ saves' = saves \ {s}
    /\ handler' = [at |-> "waiting", attempt |-> 0, before |-> s.before, call |-> issued + 1]
    /\ Issue
    /\ UNCHANGED <<class, registered, version, scope, roots, lost, budget>>

\* The save fails, before or after the daemon took the mode.
SaveFails ==
  \E s \in saves :
    /\ Spend("fails") /\ saves' = saves \ {s} /\ lost' = (lost \/ s.applied)
    /\ UNCHANGED <<class, registered, version, scope, issued, calls, roots, handler>>

\* Variant: a request that hangs holds the handler.
HandlerTimesOutNever == FALSE /\ UNCHANGED vars

HandlerTimesOut ==
  /\ handler.at = "waiting" /\ AttemptFails
  /\ UNCHANGED <<class, registered, version, issued, calls, roots, saves, lost, budget>>

HandlerWakes ==
  /\ handler.at = "sleeping" /\ handler' = [handler EXCEPT !.at = "waiting", !.call = issued + 1]
  /\ Issue
  /\ UNCHANGED <<class, registered, version, scope, roots, saves, lost, budget>>

Next ==
  \/ ChangeRepos \/ ServeRepos \/ ApplySave
  \/ SelectProject \/ SelectWorktree \/ OpenSession \/ HoldWindow \/ Ascends
  \/ Refresh \/ RootsAnswered \/ RootsFail
  \/ SaveMode \/ SaveAnswered \/ SaveFails \/ HandlerTimesOut \/ HandlerWakes

Spec == Init /\ [][Next]_vars

(***************************************************************************)
(* Properties.                                                             *)
(***************************************************************************)
Settles == handler.at # "idle" /\ handler'.at = "idle"

\* The remap keeps the repository or clears it, although two may share a name and
\* others come and go while the mode is being saved.  It takes another repository of
\* the name for it only if that one was not there when the save began and the
\* selected one is gone at its end: the ids of two classes tell no more.
ProjectKept ==
  Settles => \/ scope'.project = None
             \/ RepoOf(scope'.project) = RepoOf(scope.project)
             \/ /\ LabelOf(scope'.project) = LabelOf(scope.project)
                /\ \A id \in roots'.ids : RepoOf(id) # RepoOf(scope.project)
                /\ \A id \in handler.before : RepoOf(id) # RepoOf(scope'.project)

\* Once every save was answered and its remap is over, the project selected is
\* named as the daemon names it, unless a save failed after it took effect or the
\* user selected from a list that is behind the daemon.
NoDanglingProject ==
  saves = {} /\ handler.at = "idle" /\ ~lost /\ scope.project # None =>
    ClassOf(scope.project) = class

\* A session is shown inside a project only when it belongs to it.
SessionInProject ==
  scope.project # None /\ scope.session # None => Owner[scope.session] = RepoOf(scope.project)

\* The roots never go back to an older state of the daemon.
RootsForward == roots'.at >= roots.at

\* Every remap ends, whatever becomes of its requests: this comes again and again.
RemapOver == handler.at = "idle"
=============================================================================
