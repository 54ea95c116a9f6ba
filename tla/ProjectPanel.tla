---------------------------- MODULE ProjectPanel ----------------------------
(***************************************************************************)
(* The Project panel (ui/project/index.ts): the lanes of one repository    *)
(* and the encodings it hosts (the workspace graph, the activity map, the  *)
(* events), with a remembered encoding for each repository, the loads of   *)
(* /worktrees and the keyboard's lane.                                     *)
(*                                                                         *)
(* The rows of /worktrees tell, for each repository, the newest last_time  *)
(* of its worktrees; a lane stands for the worktrees of its repository and *)
(* is named by it.  What the panel calls synchronously (narrow, the        *)
(* subscription, render, syncRepo, mountEncoding) is a function of its     *)
(* state, so that the calls nest as they do in the code.                   *)
(***************************************************************************)
EXTENDS Naturals, FiniteSets

CONSTANTS
  None,
  Repos,
  MaxCaptured,   \* bound: captured events that reorder the repositories
  MaxOverlap,    \* bound: requests under way at once
  Budgets        \* bounds: choices, moves of the scope, visits, failures

VARIABLES
  clock,         \* the number of captured events
  captured,      \* the time of the last one of each repository, 0 before there is one
  rows, rowsAt,  \* the rows: what was captured of each repository by the time rowsAt, 0 for no row
  panel,         \* what the user sees and chose, with the shared scope
  loads, active, connected, failedOffline, budget

vars == <<clock, captured, rows, rowsAt, panel, loads, active, connected, failedOffline, budget>>
Spend(what) == budget[what] > 0 /\ budget' = [budget EXCEPT ![what] = @ - 1]

Encodings == {"lanes", "graph", "map", "events"}
Hosted == {"graph", "events"}

TypeOK ==
  /\ clock \in Nat /\ captured \in [Repos -> 0..clock] /\ rows \in [Repos -> 0..clock] /\ rowsAt \in 0..clock
  /\ panel.encoding \in Encodings /\ panel.byRepo \in [Repos -> Encodings \cup {None}]
  /\ {panel.lastRepo, panel.cursor, panel.project, panel.worktree} \subseteq Repos \cup {None}
  /\ panel.view \in Hosted \cup {"hidden"} /\ {panel.map, panel.drag, panel.pendingBind, active, connected, failedOffline} \subseteq BOOLEAN
  /\ Cardinality(loads) <= MaxOverlap

NoRows == [r \in Repos |-> 0]

Init ==
  /\ clock = 0 /\ captured = NoRows /\ rows = NoRows /\ rowsAt = 0 /\ loads = {} /\ active = FALSE /\ connected = FALSE /\ failedOffline = FALSE
  /\ panel = [encoding |-> "lanes", byRepo |-> [r \in Repos |-> None], lastRepo |-> None, pendingBind |-> FALSE,
              cursor |-> None, drag |-> FALSE, view |-> "hidden", map |-> FALSE, project |-> None, worktree |-> None]
  /\ budget \in Budgets

Capture ==
  /\ clock < MaxCaptured /\ clock' = clock + 1 /\ \E r \in Repos : captured' = [captured EXCEPT ![r] = clock + 1]
  /\ UNCHANGED <<rows, rowsAt, panel, loads, active, connected, failedOffline, budget>>

(***************************************************************************)
(* The synchronous calls.                                                  *)
(***************************************************************************)
\* repoIds: the newest last_time first.
First(list) == CHOOSE r \in Repos : list[r] > 0 /\ \A s \in Repos : list[s] <= list[r]
RepoNow(p, list) == IF p.project # None THEN p.project ELSE IF list = NoRows THEN None ELSE First(list)

Remembered(p, repo) == IF p.byRepo[repo] = None THEN "lanes" ELSE p.byRepo[repo]

\* Variant: the view that was mounted before stays.
MountedOver(p) ==
  [p EXCEPT !.view = IF p.encoding \in Hosted THEN p.encoding ELSE @, !.map = (p.encoding = "map"), !.drag = @ /\ p.encoding = "lanes"]

\* mountEncoding; leaving Lanes ends a brush.
Mounted(p) ==
  [p EXCEPT !.view = IF p.encoding \in Hosted THEN p.encoding ELSE "hidden", !.map = (p.encoding = "map"), !.drag = @ /\ p.encoding = "lanes"]

\* syncRepo, when the repository shown is not the one before: a pending choice is bound to
\* it, and it is pinned unless it shows lanes; otherwise what is remembered of it returns.
SyncRepo(p, repo) ==
  IF repo = None THEN [p EXCEPT !.lastRepo = None]
  ELSE IF p.lastRepo = None /\ p.pendingBind
  THEN LET pins == p.encoding # "lanes" /\ p.project = None
       IN [p EXCEPT !.lastRepo = repo, !.pendingBind = FALSE, !.byRepo[repo] = p.encoding,
                    !.project = IF pins THEN repo ELSE @, !.cursor = IF pins THEN None ELSE @]
  ELSE LET q == [p EXCEPT !.lastRepo = repo, !.encoding = Remembered(p, repo)]
       IN IF q.encoding = p.encoding THEN q ELSE Mounted(q)

Render(p, list) ==
  LET repo == RepoNow(p, list) IN IF repo = p.lastRepo THEN p ELSE SyncRepo(p, repo)

\* mountEncoding, with the render of the lanes.
Mount(p, list) == IF p.encoding = "lanes" THEN Render(Mounted(p), list) ELSE Mounted(p)

\* The subscription: another project or worktree drops the lane of the keyboard.
OnScope(p, project, worktree, list) ==
  LET q == [p EXCEPT !.project = project, !.worktree = worktree]
  IN IF <<project, worktree>> # <<p.project, p.worktree>> THEN Render([q EXCEPT !.cursor = None], list) ELSE p

\* The end of setEncodingTo.
Chosen(p, next) ==
  LET q == [p EXCEPT !.encoding = next]
      repo == RepoNow(p, rows)
  IN IF repo = None THEN [q EXCEPT !.pendingBind = TRUE] ELSE [q EXCEPT !.byRepo[repo] = next]

\* setEncodingTo: the lane of the keyboard and a project that was only shown by default go to the scope.
SetEncoding(p, next) ==
  IF next = p.encoding THEN Mount(p, rows)
  ELSE LET lane == p.encoding = "lanes" /\ p.cursor # None
           project == IF lane THEN RepoNow(p, rows) ELSE IF p.project = None /\ rows # NoRows THEN First(rows) ELSE p.project
           worktree == IF lane THEN p.cursor ELSE IF project # p.project THEN None ELSE p.worktree
       IN Mount(Chosen(OnScope([p EXCEPT !.cursor = None], project, worktree, rows), next), rows)

\* restoreRepoMemory: a reactivation never mounts the encoding of the repository before.
Restored(p) ==
  LET repo == RepoNow(p, rows)
  IN IF repo \in {None, p.lastRepo} \/ (p.lastRepo = None /\ p.pendingBind) THEN p
     ELSE [p EXCEPT !.lastRepo = repo, !.encoding = Remembered(p, repo)]

(***************************************************************************)
(* Loads of /worktrees.                                                    *)
(***************************************************************************)
Superseded == {[r EXCEPT !.inForce = FALSE] : r \in loads}
InFlight == \E r \in loads : r.inForce
Load == Cardinality(loads) < MaxOverlap /\ loads' = Superseded \cup {[inForce |-> TRUE, list |-> None, at |-> 0]}

Serve ==
  /\ \E r \in loads : r.list = None /\ loads' = (loads \ {r}) \cup {[r EXCEPT !.list = captured, !.at = clock]}
  /\ UNCHANGED <<clock, captured, rows, rowsAt, panel, active, connected, failedOffline, budget>>

\* loadToken, and the abort of the request.
Newest(r) == r.inForce

\* load, and refreshRows while the panel is not shown.
Answered ==
  /\ \E r \in loads :
       /\ r.list # None /\ loads' = loads \ {r}
       /\ IF ~Newest(r) THEN UNCHANGED <<rows, rowsAt, panel, failedOffline>>
          ELSE /\ rows' = r.list /\ rowsAt' = r.at /\ failedOffline' = (failedOffline /\ ~active)
               /\ panel' = IF active THEN Render(panel, r.list) ELSE panel
  /\ UNCHANGED <<clock, captured, active, connected, budget>>

\* A daemon without /worktrees empties the rows, any other failure keeps them.
Fails ==
  /\ Spend("fails")
  /\ \E r \in loads :
       /\ loads' = loads \ {r}
       /\ IF ~r.inForce \/ ~active THEN UNCHANGED <<rows, panel, failedOffline>>
          ELSE \/ rows' = NoRows /\ panel' = Render(panel, NoRows) /\ failedOffline' = FALSE
               \/ UNCHANGED rows /\ panel' = Render(panel, rows) /\ failedOffline' = (failedOffline \/ ~connected)
  /\ UNCHANGED <<clock, captured, rowsAt, active, connected>>

\* The timer skips a load that is under way.
Poll ==
  /\ active /\ ~InFlight /\ Load
  /\ UNCHANGED <<clock, captured, rows, rowsAt, panel, active, connected, failedOffline, budget>>

\* The resolver's refresh, for the panels that read the membership.
RefreshRows ==
  /\ ~active /\ Spend("visits") /\ Load
  /\ UNCHANGED <<clock, captured, rows, rowsAt, panel, active, connected, failedOffline>>

SetConnected ==
  /\ Spend("fails") /\ connected' = ~connected
  /\ IF connected' /\ failedOffline /\ active THEN Load ELSE UNCHANGED loads
  /\ UNCHANGED <<clock, captured, rows, rowsAt, panel, active, failedOffline>>

(***************************************************************************)
(* The user and the shell.                                                 *)
(***************************************************************************)
Activate ==
  /\ ~active /\ Spend("visits") /\ active' = TRUE /\ Load
  /\ \E e \in Encodings \cup {None} :
       panel' = Render(IF e = None THEN Mount(Restored(panel), rows) ELSE SetEncoding(Restored(panel), e), rows)
  /\ UNCHANGED <<clock, captured, rows, rowsAt, connected, failedOffline>>

Deactivate ==
  /\ active /\ active' = FALSE /\ Spend("visits") /\ loads' = Superseded
  /\ panel' = [panel EXCEPT !.view = "hidden", !.map = FALSE, !.cursor = None, !.drag = FALSE]
  /\ UNCHANGED <<clock, captured, rows, rowsAt, connected, failedOffline>>

ClickChip ==
  /\ active /\ Spend("choices") /\ \E e \in Encodings : panel' = SetEncoding(panel, e)
  /\ UNCHANGED <<clock, captured, rows, rowsAt, loads, active, connected, failedOffline>>

\* The graph switches between its two views itself.
OnView ==
  /\ active /\ panel.encoding \in Hosted /\ Spend("choices")
  /\ \E v \in Hosted \ {panel.encoding} :
       LET repo == RepoNow(panel, rows)
           q == [panel EXCEPT !.encoding = v, !.view = v]
       IN panel' = IF repo = None THEN q ELSE [q EXCEPT !.byRepo[repo] = v]
  /\ UNCHANGED <<clock, captured, rows, rowsAt, loads, active, connected, failedOffline>>

\* Arrow keys and digits.
MoveCursor ==
  /\ active /\ panel.encoding = "lanes" /\ Spend("choices")
  /\ RepoNow(panel, rows) \in {r \in Repos : rows[r] > 0} /\ panel' = [panel EXCEPT !.cursor = RepoNow(panel, rows)]
  /\ UNCHANGED <<clock, captured, rows, rowsAt, loads, active, connected, failedOffline>>

BrushDown ==
  /\ active /\ panel.encoding = "lanes" /\ ~panel.drag /\ Spend("choices") /\ panel' = [panel EXCEPT !.drag = TRUE]
  /\ UNCHANGED <<clock, captured, rows, rowsAt, loads, active, connected, failedOffline>>

BrushUp ==
  /\ panel.drag /\ panel' = [panel EXCEPT !.drag = FALSE]
  /\ UNCHANGED <<clock, captured, rows, rowsAt, loads, active, connected, failedOffline, budget>>

\* Escape: a brush first, then the lane of the keyboard.
Escape ==
  /\ active /\ panel.encoding = "lanes" /\ (panel.drag \/ panel.cursor # None)
  /\ panel' = IF panel.drag THEN [panel EXCEPT !.drag = FALSE] ELSE [panel EXCEPT !.cursor = None]
  /\ UNCHANGED <<clock, captured, rows, rowsAt, loads, active, connected, failedOffline, budget>>

\* The rest of the shell.
ScopeMoves ==
  /\ Spend("moves")
  /\ \E project \in Repos \cup {None} :
       \E worktree \in {project, None} :
         panel' = IF active THEN OnScope(panel, project, worktree, rows) ELSE [panel EXCEPT !.project = project, !.worktree = worktree]
  /\ panel' # panel
  /\ UNCHANGED <<clock, captured, rows, rowsAt, loads, active, connected, failedOffline>>

Next ==
  \/ Capture \/ Serve \/ Answered \/ Fails \/ Poll \/ RefreshRows \/ SetConnected \/ Activate \/ Deactivate
  \/ ClickChip \/ OnView \/ MoveCursor \/ BrushDown \/ BrushUp \/ Escape \/ ScopeMoves

Spec == Init /\ [][Next]_vars

(***************************************************************************)
(* Properties.                                                             *)
(***************************************************************************)
\* What is mounted is what the chips say: the graph, the map or neither, and nothing
\* once the panel is left; a brush lives in Lanes only.
OneMounted ==
  /\ panel.view = IF active /\ panel.encoding \in Hosted THEN panel.encoding ELSE "hidden"
  /\ panel.map = (active /\ panel.encoding = "map")
  /\ panel.drag => active /\ panel.encoding = "lanes"

\* Each repository is shown in the encoding last chosen for it.
EncodingOfRepo ==
  LET repo == RepoNow(panel, rows)
  IN active /\ repo # None => panel.lastRepo = repo /\ panel.encoding = Remembered(panel, repo)

\* Rows never go back to an earlier state of the daemon.
RowsForward == rowsAt' >= rowsAt

\* While the panel is shown, its rows come to hold what was captured.
RowsCaughtUp == ~active \/ rowsAt = clock
=============================================================================
