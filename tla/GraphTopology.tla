--------------------------- MODULE GraphTopology ---------------------------
(***************************************************************************)
(* The hosted workspace graph (ui/graph/index.ts): the repository it shows,*)
(* its snapshot and its own selection, kept in step with the shared scope  *)
(* through refreshes of several requests, registrations and changes of the *)
(* privacy mode.                                                           *)
(*                                                                         *)
(* The daemon names a repository or worktree by its name and the privacy   *)
(* mode.  A refresh is in force or a later one, a hide or a change of the  *)
(* project has superseded it (topologyEpoch); a registration is in force   *)
(* until a navigation (navGen).  The wait for the sessions of the first    *)
(* frame is part of the wait for the snapshot.                             *)
(***************************************************************************)
EXTENDS Naturals, Sequences, FiniteSets

CONSTANTS
  None,
  Known,         \* another resolver knows the removed worktree
  MaxOverlap,    \* bound: refreshes under way at once
  Budgets        \* bounds: choices, moves of the scope, changes of the daemon, failures, visits, polls

VARIABLES
  mode, registered, live,        \* the daemon: privacy mode, projects, and whether worktree w of p exists
  project, worktree,             \* the shared scope
  shown, pendingRefresh, repo, privacyMode, repos, snapshot, workspace, unregistered,
  refreshes, registering, budget

vars == <<mode, registered, live, project, worktree, shown, pendingRefresh, repo, privacyMode, repos, snapshot, workspace, unregistered, refreshes, registering, budget>>
daemonVars == <<mode, registered, live>>
scopeVars == <<project, worktree>>
viewVars == <<repo, snapshot, workspace>>
listVars == <<privacyMode, repos, unregistered>>
Spend(what) == budget[what] > 0 /\ budget' = [budget EXCEPT ![what] = @ - 1]

Projects == {"p", "q"}
Ids == (Projects \cup {"w", "gone"}) \X (1..2)
Id(name) == <<name, mode>>
RegisteredIds == {Id(n) : n \in registered}
Workspaces(name) == IF name = "p" /\ live THEN {Id("w")} ELSE {}

TypeOK ==
  /\ mode \in 1..2 /\ registered \subseteq Projects /\ live \in BOOLEAN
  /\ {project, worktree, repo, workspace} \subseteq Ids \cup {None}
  /\ {shown, pendingRefresh, unregistered} \subseteq BOOLEAN /\ privacyMode \in 0..2 /\ repos \subseteq Ids
  /\ snapshot = None \/ (snapshot.repo \in Ids /\ snapshot.workspaces \subseteq Ids)
  /\ Cardinality(refreshes) <= MaxOverlap /\ Cardinality({r \in refreshes : r.inForce}) <= 1

Init ==
  /\ mode = 1 /\ registered \in {{"p"}, {"p", "q"}} /\ live = TRUE /\ project = None /\ worktree = None
  /\ shown = FALSE /\ pendingRefresh = FALSE /\ repo = None /\ privacyMode = 0 /\ repos = {} /\ snapshot = None
  /\ workspace = None /\ unregistered = FALSE /\ refreshes = {} /\ registering = None /\ budget \in Budgets

(***************************************************************************)
(* The daemon.                                                             *)
(***************************************************************************)
DaemonChanges ==
  /\ Spend("changes")
  /\ \/ mode = 1 /\ mode' = 2 /\ UNCHANGED <<registered, live>>
     \/ live' = ~live /\ UNCHANGED <<registered, mode>>
     \/ \E n \in registered : registered' = registered \ {n} /\ UNCHANGED <<mode, live>>
  /\ UNCHANGED <<scopeVars, shown, pendingRefresh, viewVars, listVars, refreshes, registering>>

\* The configuration and the list of repositories are two requests; the snapshot is the third.
Serve ==
  /\ \E r \in refreshes :
       \E to \in CASE r.stage = "asks" ->
                        (IF r.mode = 0 THEN {[r EXCEPT !.mode = mode]} ELSE {}) \cup
                        (IF r.repos = None THEN {[r EXCEPT !.repos = RegisteredIds]} ELSE {})
                   [] r.stage = "scans" /\ r.answer = None /\ r.repo \in RegisteredIds ->
                        {[r EXCEPT !.answer = [repo |-> r.repo, workspaces |-> Workspaces(r.repo[1])]]}
                   [] OTHER -> {} :
         refreshes' = (refreshes \ {r}) \cup {to}
  /\ UNCHANGED <<daemonVars, scopeVars, shown, pendingRefresh, viewVars, listVars, registering, budget>>

(***************************************************************************)
(* Refreshes.                                                              *)
(***************************************************************************)
Superseded == {[r EXCEPT !.inForce = FALSE] : r \in refreshes}
Busy == \E r \in refreshes : r.inForce
Fresh == [inForce |-> TRUE, stage |-> "asks", mode |-> 0, repos |-> None, repo |-> None, answer |-> None, changed |-> FALSE]

\* refresh: a hidden encoding requests nothing, show restarts it.
Refresh ==
  IF shown' THEN Cardinality(refreshes) < MaxOverlap /\ refreshes' = Superseded \cup {Fresh}
  ELSE refreshes' = Superseded

\* discardTopology, with the repository that comes next.
Discard(next) == repo' = next /\ snapshot' = None /\ workspace' = None

InForce(r) == r.inForce

\* The configuration and the repositories have arrived.
ConfigLands ==
  \E r \in refreshes :
    /\ r.stage = "asks" /\ r.mode # 0 /\ r.repos # None
    /\ IF ~InForce(r)
       THEN refreshes' = refreshes \ {r} /\ UNCHANGED <<pendingRefresh, viewVars, listVars>>
       ELSE \E first \in r.repos \cup (IF r.repos = {} THEN {None} ELSE {}) :
              LET target == IF project # None THEN project ELSE first
                  unknown == project # None /\ project \notin r.repos
                  changed == privacyMode # 0 /\ privacyMode # r.mode
              IN /\ privacyMode' = r.mode /\ repos' = r.repos /\ unregistered' = unknown
                 /\ repo' = IF unknown THEN None ELSE target
                 /\ IF changed \/ unknown \/ repo # target THEN snapshot' = None /\ workspace' = None
                    ELSE UNCHANGED <<snapshot, workspace>>
                 /\ IF repo' = None
                    THEN pendingRefresh' = FALSE /\ refreshes' = refreshes \ {r}
                    ELSE /\ UNCHANGED pendingRefresh
                         /\ refreshes' = (refreshes \ {r}) \cup
                              {[r EXCEPT !.stage = "scans", !.repo = repo', !.changed = changed]}
    /\ UNCHANGED <<daemonVars, scopeVars, shown, registering, budget>>

\* reconcileScope: a worktree nobody knows leaves the scope.
Forgets(next) ==
  /\ worktree # None /\ project \in {None, repo} /\ worktree \notin next.workspaces
  /\ ~(Known /\ worktree[1] = "gone")

Own(r) == r.answer.repo = repo

SnapshotLands ==
  \E r \in refreshes :
    /\ r.stage = "scans" /\ r.answer # None /\ refreshes' = refreshes \ {r}
    /\ IF ~InForce(r) \/ ~Own(r) THEN UNCHANGED <<scopeVars, pendingRefresh, snapshot, workspace>>
       ELSE /\ snapshot' = r.answer /\ pendingRefresh' = FALSE
            /\ worktree' = IF Forgets(r.answer) THEN None ELSE worktree
            /\ workspace' = IF Forgets(r.answer) /\ workspace = worktree THEN None
                            ELSE IF worktree' \in r.answer.workspaces /\ project \in {None, repo} THEN worktree'
                            ELSE workspace
            /\ UNCHANGED project
    /\ UNCHANGED <<daemonVars, shown, repo, listVars, registering, budget>>

Ended(r) == refreshes \ {r}

\* A request fails, or the repository is gone when the snapshot is asked for.
Fails ==
  /\ \E r \in refreshes :
       /\ \/ Spend("fails")
          \/ r.stage = "scans" /\ r.answer = None /\ r.repo \notin RegisteredIds /\ UNCHANGED budget
       /\ refreshes' = Ended(r)
  /\ UNCHANGED <<daemonVars, scopeVars, shown, pendingRefresh, viewVars, listVars, registering>>

\* The 15 s poll and the focus of the window.
Poll ==
  /\ shown /\ ~Busy /\ UNCHANGED shown /\ Refresh
  /\ UNCHANGED <<daemonVars, scopeVars, pendingRefresh, viewVars, listVars, registering, budget>>

(***************************************************************************)
(* The user and the host.                                                  *)
(***************************************************************************)
Show ==
  /\ ~shown /\ Spend("visits") /\ shown' = TRUE /\ Refresh
  /\ UNCHANGED <<daemonVars, scopeVars, pendingRefresh, viewVars, listVars, registering>>

Navigated == IF registering = None THEN None ELSE [registering EXCEPT !.inForce = FALSE]

Hide ==
  /\ shown /\ Spend("visits") /\ shown' = FALSE /\ pendingRefresh' = (pendingRefresh \/ Busy)
  /\ refreshes' = Superseded /\ registering' = Navigated /\ workspace' = None
  /\ UNCHANGED <<daemonVars, scopeVars, repo, snapshot, listVars>>

\* The subscription, when the project of the scope changes.
ProjectMoves(p) ==
  /\ Discard(None) /\ unregistered' = FALSE /\ registering' = Navigated
  /\ pendingRefresh' = (pendingRefresh \/ ~shown) /\ Refresh

\* The subscription, when only the worktree does.
WorktreeMoves(w) ==
  /\ workspace' = IF ~shown THEN workspace ELSE IF w = None THEN None
                  ELSE IF snapshot # None /\ w \in snapshot.workspaces THEN w ELSE workspace
  /\ UNCHANGED <<repo, snapshot, unregistered, registering, pendingRefresh, refreshes>>

\* The other panels, and the shell when it remaps the ids of another privacy mode.
ScopeMoves ==
  /\ Spend("moves") /\ UNCHANGED shown
  /\ \E m \in 1..mode : \E p \in {<<n, m>> : n \in Projects} \cup {None} :
       \E w \in (IF p # None /\ p[1] = "p" THEN {<<"w", m>>, <<"gone", m>>} ELSE {}) \cup {None} :
         /\ <<p, w>> # <<project, worktree>> /\ project' = p /\ worktree' = w
         /\ IF p # project THEN ProjectMoves(p) ELSE WorktreeMoves(w)
  /\ UNCHANGED <<daemonVars, privacyMode, repos>>

\* The canvas, a search result, Show in Graph: a worktree, or a bare revision, or nothing.
Select ==
  /\ shown /\ snapshot # None /\ Spend("choices")
  /\ \E w \in snapshot.workspaces \cup {None} :
       w # workspace /\ workspace' = w /\ project' = repo /\ worktree' = w
  /\ registering' = IF registering = None THEN None ELSE [registering EXCEPT !.from = repo]
  /\ UNCHANGED <<daemonVars, shown, pendingRefresh, repo, snapshot, listVars, refreshes>>

Register ==
  /\ shown /\ registering = None /\ Spend("choices")
  /\ \E n \in Projects \ registered : registering' = [inForce |-> TRUE, name |-> n, id |-> None, repos |-> None, asked |-> FALSE, from |-> project]
  /\ UNCHANGED <<daemonVars, scopeVars, shown, pendingRefresh, viewVars, listVars, refreshes>>

\* stale, in the handler of the registration.
Stale == ~registering.inForce

RegisterServed ==
  /\ registering # None
  /\ \/ registering.id = None /\ registered' = registered \cup {registering.name} /\ registering' = [registering EXCEPT !.id = Id(registering.name)]
     \/ registering.asked /\ registering.repos = None /\ registering' = [registering EXCEPT !.repos = RegisteredIds] /\ UNCHANGED registered
  /\ UNCHANGED <<mode, live, scopeVars, shown, pendingRefresh, viewVars, listVars, refreshes, budget>>

\* The registration stands, but after a navigation it takes nothing over.
RegisterLands ==
  /\ registering # None
  /\ \/ /\ registering.id # None /\ ~registering.asked
        /\ registering' = IF Stale THEN None ELSE [registering EXCEPT !.asked = TRUE]
        /\ UNCHANGED <<scopeVars, shown, pendingRefresh, viewVars, repos, refreshes>>
     \/ /\ registering.repos # None /\ registering' = None
        /\ IF Stale THEN UNCHANGED <<scopeVars, shown, pendingRefresh, viewVars, repos, refreshes>>
           ELSE /\ Discard(registering.id) /\ repos' = registering.repos
                /\ project' = registering.id /\ worktree' = None
                \* publishing may move the host to another encoding
                /\ \/ UNCHANGED <<shown, pendingRefresh>>
                   \/ shown' = FALSE /\ pendingRefresh' = TRUE
                /\ Refresh
  /\ UNCHANGED <<daemonVars, privacyMode, unregistered, budget>>

Next ==
  \/ DaemonChanges \/ Serve \/ ConfigLands \/ SnapshotLands \/ Fails \/ Poll \/ Show \/ Hide \/ ScopeMoves
  \/ Select \/ Register \/ RegisterServed \/ RegisterLands

Spec == Init /\ [][Next]_vars

(***************************************************************************)
(* Properties.                                                             *)
(***************************************************************************)
\* "scope.project is the sole repository identity": the topology on screen is of the
\* project of the scope, whatever was in flight when the scope moved.
SnapshotOfScope == snapshot # None => snapshot.repo = repo /\ project \in {None, repo}

\* The selection of the graph is the worktree of the scope, unless that is one the
\* topology does not hold.
SelectionOfScope ==
  workspace # None => shown /\ snapshot # None /\ (worktree = workspace \/ worktree \notin snapshot.workspaces \cup {None})

\* A registration moves the scope only from where the graph itself knew it to be: never
\* over a navigation that came from elsewhere while the daemon worked.
RegistrationYields == registering # None /\ registering' = None /\ project' # project => project = registering.from

\* While it is shown, the graph comes to show the project of the scope if the daemon has it.
CaughtUp ==
  ~shown \/ project \notin RegisteredIds \/ (snapshot # None /\ snapshot.repo = project)
=============================================================================
