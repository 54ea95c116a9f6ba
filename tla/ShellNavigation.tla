-------------------------- MODULE ShellNavigation --------------------------
(***************************************************************************)
(* The desktop viewer's shell (src/apps/tauri-desktop/src/main.ts): which  *)
(* panel is shown over the shared scope, the landing of the first load,    *)
(* Escape (escape.ts), the retired names (nav.ts), the detail pane with    *)
(* the evidence that arrives late (ui/attention.ts inspect), and the drag  *)
(* of the transport's window (transport.ts).                               *)
(*                                                                         *)
(* A window is Live or a member of Windows; the pixels of a drag are the   *)
(* window they stand for.                                                  *)
(***************************************************************************)
EXTENDS ScopeStore, Naturals

CONSTANTS
  Projects, Worktrees, Sessions, Windows,
  Events,        \* captured events that can be inspected
  MaxNav,        \* bound: panel and scope changes
  MaxClicks      \* bound: clicks on Inspect

Panels == {"fleet", "project", "sessions", "session", "settings"}
Tabs == {"score", "court"}      \* a tab that leaves Escape to the shell, and one that owns it
AnyWindow == Windows \cup {Live}
NoDrag == [on |-> FALSE]

VARIABLES
  active,        \* the panel shown
  tab,           \* the tab of the session panel
  hosted,        \* Fleet shows Events, Strata or Patches: no transport
  scope,
  navGeneration,
  inspectClickGeneration,
  inspection,    \* number of the newest inspection
  fetches,       \* evidence fetches under way
  pane,          \* the event of the detail pane
  landingPending,
  drag,
  decided        \* history: the landing rule has been decided

vars == <<active, tab, hosted, scope, navGeneration, inspectClickGeneration, inspection,
          fetches, pane, landingPending, drag, decided>>
inspectVars == <<inspectClickGeneration, inspection, fetches>>

Scopes == [project: Projects \cup {None}, worktree: Worktrees \cup {None},
           session: Sessions \cup {None}, cell: {None}, window: AnyWindow]

TypeOK ==
  /\ active \in Panels /\ tab \in Tabs /\ hosted \in BOOLEAN /\ scope \in Scopes
  /\ navGeneration \in Nat /\ inspectClickGeneration \in 0..navGeneration /\ inspection \in Nat
  /\ \A f \in fetches : f.n \in 1..inspection /\ f.event \in Events /\ f.at \in 0..navGeneration
  /\ pane \in Events \cup {None} /\ landingPending \in BOOLEAN /\ decided \in BOOLEAN
  /\ drag.on => /\ drag.from \in Scopes /\ drag.wrote \in AnyWindow
                /\ drag.at \in AnyWindow /\ drag.dirty \in BOOLEAN

Init ==
  /\ active = "project" /\ tab = "score" /\ hosted = FALSE /\ scope = EmptyScope
  /\ navGeneration = 0 /\ inspectClickGeneration = 0 /\ inspection = 0 /\ fetches = {}
  /\ pane = None /\ landingPending = TRUE /\ drag = NoDrag /\ decided = FALSE

(***************************************************************************)
(* Panel and scope changes.                                                *)
(***************************************************************************)
Steps(sc, name) == (IF sc # scope THEN 1 ELSE 0) + (IF name # active THEN 1 ELSE 0)

\* Every commit of the scope and every real panel change is a navigation.
Counts(sc, name) ==
  navGeneration' = navGeneration + Steps(sc, name) /\ navGeneration' <= MaxNav

\* Variant: only a change of project or session stops a drag.
DragAfterSelecting(sc) ==
  drag' = IF sc.project # scope.project \/ sc.session # scope.session THEN NoDrag ELSE drag

\* A change of scope that the transport did not write stops a drag.
DragAfter(sc) == drag' = IF sc # scope THEN NoDrag ELSE drag

\* A scope change without a panel change.
Narrows(sc) ==
  /\ scope' = sc /\ Counts(sc, active) /\ DragAfter(sc)
  /\ UNCHANGED <<active, tab, hosted, inspectVars, pane, landingPending, decided>>

\* show, after a patch of the scope: any panel but Project decides the landing; a
\* real change closes the pane, except on the panel that the inspector belongs to;
\* setPanel and syncTransport stop a drag.
Shows(sc, name, t) ==
  /\ scope' = sc /\ active' = name /\ tab' = t /\ Counts(sc, name)
  /\ drag' = NoDrag
  /\ landingPending' = (landingPending /\ name = "project")
  /\ decided' = (decided \/ name # "project")
  /\ pane' = IF name # active /\ name # "session" THEN None ELSE pane

Go(sc, name, t) == Shows(sc, name, t) /\ UNCHANGED <<hosted, inspectVars>>

ClickNav == \E name \in Panels : Go(scope, name, tab)

\* Rows of Fleet, Project and Worktree that narrow the scope and descend.
Descend ==
  \/ \E p \in Projects : Go(Narrow(scope, [project |-> p]), "project", tab)
  \/ scope.project # None /\ \E w \in Worktrees : Go(Narrow(scope, [worktree |-> w]), "sessions", tab)

\* openScore, openLoops: the session is selected, its panel shown.  Session rows
\* select without leaving.
OpenScore == \E s \in Sessions, member \in BOOLEAN : Go(SelectSession(scope, s, member), "session", "score")
SelectRow == \E s \in Sessions, member \in BOOLEAN : Narrows(SelectSession(scope, s, member))

\* openSession and openSessionAltitude: the parents are kept when the resolver
\* says they hold the session.
OpenSession ==
  \E s \in Sessions, member \in BOOLEAN, name \in {"sessions", "session"} :
    LET inside == member /\ (scope.project # None \/ scope.worktree # None)
        sc == IF inside THEN Narrow(scope, [session |-> s, cell |-> None])
              ELSE ReplaceContext(scope, [session |-> s])
    IN Go(sc, name, IF name = "session" THEN "score" ELSE tab)

\* resolveAlias: Strata, Patches and unregistered Live land on a hosted Fleet
\* encoding, Workspace and registered Live on Project, Needs you on Worktree.
Alias ==
  \/ Shows(scope, "fleet", tab) /\ hosted' = TRUE /\ UNCHANGED inspectVars
  \/ scope.project # None /\ Go(scope, "project", tab)
  \/ Go(scope, "sessions", tab)

\* The user picks an encoding of Fleet: syncTransport hides or shows the transport.
PickEncoding ==
  /\ active = "fleet" /\ hosted' = ~hosted
  /\ drag' = IF hosted' THEN NoDrag ELSE drag
  /\ UNCHANGED <<active, tab, scope, navGeneration, inspectVars, pane, landingPending, decided>>

\* The privacy remap and panels that clear or widen the scope.
ClearContext ==
  Narrows(Narrow(scope, [project |-> None, worktree |-> None, session |-> None, window |-> scope.window]))

\* The panels write the scope without leaving: a zoomed window, a worktree picked or
\* cleared inside Project and Worktree.
PanelWrites ==
  \/ \E w \in AnyWindow : Narrows(Narrow(scope, [window |-> w]))
  \/ \E w \in Worktrees \cup {None} : Narrows(Narrow(scope, [worktree |-> w, window |-> scope.window]))

(***************************************************************************)
(* The landing rule.                                                       *)
(***************************************************************************)
LandingRows == scope = EmptyScope /\ active = "project"

\* onRows: the first answer decides, and moves an untouched viewer to Fleet.
RowsLoaded ==
  \E many \in BOOLEAN :
    IF landingPending /\ many /\ LandingRows
    THEN Go(scope, "fleet", tab)
    ELSE /\ landingPending' = FALSE /\ decided' = TRUE
         /\ UNCHANGED <<active, tab, hosted, scope, navGeneration, inspectVars, pane, drag>>

RowsFail == landingPending' = FALSE /\ decided' = TRUE
            /\ UNCHANGED <<active, tab, hosted, scope, navGeneration, inspectVars, pane, drag>>

(***************************************************************************)
(* Escape.                                                                 *)
(***************************************************************************)
\* ascentTarget: from the scope held before the ascend and the panel it came from.
AscentTarget(prev, alt, from, hasList) ==
  IF from = "session"
  THEN IF prev.worktree # None THEN "sessions" ELSE IF prev.project # None THEN "project" ELSE "fleet"
  ELSE IF from = "sessions"
  THEN IF prev.session # None THEN "stay"
       ELSE IF alt = "project" THEN IF prev.worktree # None /\ hasList THEN "stay" ELSE "project"
       ELSE IF alt = "fleet" /\ prev.project # None THEN "fleet" ELSE "stay"
  ELSE IF from = "project" /\ alt = "fleet" THEN "fleet" ELSE "stay"

EscapeAscends ==
  /\ ~drag.on /\ active # "settings" /\ ~(active = "session" /\ tab = "court") /\ ~Top(scope)
  /\ \E hasList \in BOOLEAN :
       LET up == Ascend(scope)
           target == AscentTarget(scope, Altitude(up), active, hasList)
       IN IF target = "stay" THEN Narrows(up) ELSE Go(up, target, tab)

(***************************************************************************)
(* The detail pane.                                                        *)
(***************************************************************************)
Pane(ev) == pane' = ev /\ UNCHANGED <<active, tab, hosted, scope, navGeneration, landingPending, drag, decided>>

ShowDetail == \E ev \in Events : Pane(ev) /\ UNCHANGED inspectVars
CloseDetail == Pane(None) /\ UNCHANGED inspectVars

\* offerEvidence: the pane closes and the court opens.
OfferEvidence ==
  /\ pane # None /\ pane' = None /\ scope' = scope /\ active' = "session" /\ tab' = "court"
  /\ Counts(scope, "session") /\ drag' = NoDrag /\ landingPending' = FALSE /\ decided' = TRUE
  /\ UNCHANGED <<hosted, inspectVars>>

\* The capture listener records the generation, then inspect asks for the event.
InspectClick ==
  \E ev \in Events :
    /\ inspection < MaxClicks
    /\ inspectClickGeneration' = navGeneration /\ inspection' = inspection + 1
    /\ fetches' = fetches \cup {[n |-> inspection + 1, event |-> ev, at |-> navGeneration]}
    /\ UNCHANGED <<active, tab, hosted, scope, navGeneration, pane, landingPending, drag, decided>>

\* Variant: what is inspected is shown wherever the user is by then.
ShownAnywhere(f) == f.n = inspection

\* The pane opens for the newest inspection only, and only where it was asked for.
Shown(f) == f.n = inspection /\ inspectClickGeneration = navGeneration

InspectAnswered ==
  \E f \in fetches :
    /\ fetches' = fetches \ {f} /\ UNCHANGED <<inspectClickGeneration, inspection>>
    /\ Pane(IF Shown(f) THEN f.event ELSE pane)

InspectFails ==
  \E f \in fetches :
    /\ fetches' = fetches \ {f} /\ UNCHANGED <<inspectClickGeneration, inspection>> /\ Pane(pane)

(***************************************************************************)
(* The transport.                                                          *)
(***************************************************************************)
Drawn == active \in {"fleet", "project"} /\ ~(active = "fleet" /\ hosted)

\* The transport's own write of the window.
Write(w, d) ==
  /\ scope' = Narrow(scope, [window |-> w]) /\ Counts(Narrow(scope, [window |-> w]), active)
  /\ drag' = d
  /\ UNCHANGED <<active, tab, hosted, inspectVars, pane, landingPending, decided>>

PointerDown ==
  /\ Drawn
  /\ drag' = [on |-> TRUE, from |-> scope, wrote |-> scope.window, at |-> scope.window, dirty |-> FALSE]
  /\ UNCHANGED <<active, tab, hosted, scope, navGeneration, inspectVars, pane, landingPending, decided>>

PointerMove ==
  /\ drag.on /\ \E w \in AnyWindow : drag' = [drag EXCEPT !.at = w, !.dirty = TRUE]
  /\ UNCHANGED <<active, tab, hosted, scope, navGeneration, inspectVars, pane, landingPending, decided>>

\* The animation frame, at most one per drag, writes where the pointer is.
Frame == drag.on /\ drag.dirty /\ Write(drag.at, [drag EXCEPT !.wrote = drag.at, !.dirty = FALSE])

\* The pointer is released: what no frame wrote yet is written.
PointerUp == drag.on /\ Write(IF drag.dirty THEN drag.at ELSE scope.window, NoDrag)

DragCancel ==
  /\ drag.on /\ drag' = NoDrag
  /\ UNCHANGED <<active, tab, hosted, scope, navGeneration, inspectVars, pane, landingPending, decided>>

\* Escape during a drag restores the window it started from.
DragEscape == drag.on /\ Write(drag.from.window, NoDrag)

\* Presets, Live, Hold and the arrow keys stop a drag and write the window.
TransportButton == Drawn /\ \E w \in AnyWindow : Write(w, NoDrag)
LiveButton == Write(Live, NoDrag) /\ (Drawn \/ active = "session")

Next ==
  \/ ClickNav \/ Descend \/ OpenScore \/ SelectRow \/ OpenSession \/ Alias \/ PickEncoding \/ ClearContext
  \/ PanelWrites
  \/ RowsLoaded \/ RowsFail \/ EscapeAscends
  \/ ShowDetail \/ CloseDetail \/ OfferEvidence \/ InspectClick \/ InspectAnswered \/ InspectFails
  \/ PointerDown \/ PointerMove \/ Frame \/ PointerUp \/ DragCancel \/ DragEscape
  \/ TransportButton \/ LiveButton

Spec == Init /\ [][Next]_vars

(***************************************************************************)
(* Properties.                                                             *)
(***************************************************************************)
\* While the pointer drags the window nobody else has written the scope: it is the
\* scope of the press with the window that the drag wrote last, on a panel that
\* draws the transport.  Escape then restores exactly what the press found.
DragOwnsScope ==
  drag.on => Drawn /\ scope = [drag.from EXCEPT !.window = drag.wrote]

\* Evidence opens the pane only for the last click, and only if no panel and no
\* scope changed since that very click, whatever the order of the answers.
InspectIsLatest ==
  \A f \in fetches \ fetches' : pane' # pane =>
    f.event = pane' /\ f.n = inspection /\ f.at = navGeneration

\* The landing rule moves the user at most once, by the first answer, and never
\* after a load failed or the user went somewhere.
LandsOnce == RowsLoaded /\ active' # active => ~decided
=============================================================================
