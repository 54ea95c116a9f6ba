---------------------------- MODULE GraphCanvas -----------------------------
(***************************************************************************)
(* The canvas of the workspace graph (ui/graph/canvas.ts): what a rebuild  *)
(* keeps of the camera, the keyboard focus and the highlighted history.    *)
(*                                                                         *)
(* The camera is a scale and a horizontal offset, rounded to integers: a   *)
(* point p is seen at view.x + p * view.scale.  The vertical is alike, and *)
(* the paddings are left out.  A pan is two frames.  Where things are drawn*)
(* comes with the picture; pictures differ whenever their signatures do.   *)
(* What a click selects is the panel's; which of two stops is nearer is    *)
(* left open.  The flags of labels and chips, computed anew at each state, *)
(* are left out.                                                           *)
(***************************************************************************)
EXTENDS Integers, Sequences, FiniteSets, SequencesExt

CONSTANTS
  None, Outside, Canvas,  \* nothing; focus elsewhere; focus on the canvas itself
  Pictures,      \* [parents: revision -> list; at, row, component: by revision; on: worktree -> loaded revision
                 \*  or None; chips, opened: revisions with a collapsed or an expanded cluster]
  Wishes,        \* what the panel asks to highlight: [workspace, revision, descendants, hot]
  Widths,
  Budgets        \* bounds: graphs, states, cameras, keys

VARIABLES
  picture,       \* the one drawn, or None
  asked,         \* what the panel last asked to highlight
  chosen,        \* the revision the highlight starts from, or None
  lit,           \* [nodes, edges] drawn as highlighted; an edge is <<child, parent>>
  sources,       \* revisions of working agents at the last change of them
  active,        \* [nodes, edges] drawn as their history
  focus,
  tabStop, nodeStop, \* the worktree or cluster, and the revision, that Tab reaches
  view,          \* [x, scale]: the camera
  auto,          \* what the camera fits until the user moves it: [of: worktrees, {} for all; floor: least scale], or None
  pan,           \* [from, to, frame], or None
  attached,      \* the canvas is in the document
  width,
  budget

paint == <<chosen, lit, sources, active>>
keyboard == <<focus, tabStop, nodeStop>>
camera == <<view, auto, pan>>
vars == <<picture, asked, paint, keyboard, camera, attached, width, budget>>
Smallest == 1    \* MIN_SCALE
Readable == 2    \* READABLE_SCALE, the floor of a fit but the one of everything
LifeSize == 3    \* scale 1
Largest == 4     \* MAX_SCALE
Spend(what) == budget[what] > 0 /\ budget' = [budget EXCEPT ![what] = @ - 1]

(***************************************************************************)
(* What a picture draws.                                                   *)
(***************************************************************************)
Revisions(p) == DOMAIN p.parents
Pills(p) == {w \in DOMAIN p.on : p.on[w] \notin p.chips}
Stops(p) == {<<"workspace", w>> : w \in Pills(p)} \cup {<<"cluster", k>> : k \in p.chips \cup p.opened}
Dots(p) == {<<"revision", k>> : k \in Revisions(p)}
Drawn(p) == Stops(p) \cup Dots(p)
Edges(p) == {e \in Revisions(p) \X Revisions(p) : e[2] \in ToSet(p.parents[e[1]])}
\* Where a stop is: a pill or a chip beside its revision, loose pills at 0.
PointOf(p, e) == IF e[1] # "workspace" THEN p.at[e[2]] ELSE IF p.on[e[2]] = None THEN 0 ELSE p.at[p.on[e[2]]]

\* Where a worktree is found: its pill, or the chip that stands for it.
StopOf(p, w) == IF w \in Pills(p) THEN <<"workspace", w>> ELSE <<"cluster", p.on[w]>>

Parents(p, k) == Revisions(p) \cap ToSet(p.parents[k])
Kids(p, k) == {c \in Revisions(p) : k \in ToSet(p.parents[c])}
Relatives(p, k, descendants) ==
  LET reach[q \in Revisions(p)] == {q} \cup UNION {reach[r] : r \in IF descendants THEN Kids(p, q) ELSE Parents(p, q)} IN reach[k]

\* The revision asked for, or that of the worktree asked for.
Chosen(p, a) ==
  IF a.revision # None THEN a.revision
  ELSE IF a.workspace \in DOMAIN p.on THEN p.on[a.workspace] ELSE None
Plain == [nodes |-> {}, edges |-> {}]
Lit(p, a) == IF Chosen(p, a) \in Revisions(p) THEN Relatives(p, Chosen(p, a), a.descendants) ELSE {}
Hot(p, a) == {p.on[w] : w \in a.hot \cap DOMAIN p.on} \ {None}
Active(p, hot) == UNION {Relatives(p, k, FALSE) : k \in hot \cap Revisions(p)}

TypeOK ==
  /\ picture \in Pictures \cup {None} /\ asked \in Wishes /\ view.x \in Int /\ view.scale \in Smallest..Largest /\ attached \in BOOLEAN /\ width \in Widths
  /\ pan # None => pan.frame \in 0..1
  /\ picture = None => tabStop = None /\ nodeStop = None /\ auto = None

Init ==
  /\ picture = None /\ asked \in {a \in Wishes : a.workspace = None /\ a.revision = None /\ a.hot = {}}
  /\ chosen = None /\ lit = Plain /\ sources = {} /\ active = Plain
  /\ focus = Outside /\ tabStop = None /\ nodeStop = None
  /\ view = [x |-> 0, scale |-> LifeSize] /\ auto = None /\ pan = None /\ attached = TRUE /\ width \in Widths /\ budget \in Budgets

(***************************************************************************)
(* Camera.                                                                 *)
(***************************************************************************)
\* viewForRect: these points in the middle, as large as they fit, up to life-size, and
\* not below the floor.
Middle(xs, w, floor) ==
  LET far == IF xs = {} THEN 0 ELSE Max(xs)
      near == IF xs = {} THEN 0 ELSE Min(xs)
      scale == Max({s \in floor..LifeSize : s = floor \/ (far - near) * s <= w})
  IN [x |-> (w - (near + far) * scale) \div 2, scale |-> scale]

\* fitBounds: worktrees, and the history that joins them: down to the lowest fork, or
\* four rows below the lowest of unrelated ones.
Tips(p, W) == {p.on[w] : w \in W \cap DOMAIN p.on} \cap Revisions(p)
Framed(p, T) ==
  LET seen == UNION {Relatives(p, t, FALSE) : t \in T}
      forks == {k \in seen : LET above == Kids(p, k) \cap seen IN Cardinality(above) > 1 \/ (k \in T /\ above # {})}
      Rows(S, c) == {p.row[k] : k \in {q \in S : p.component[q] = c}}
      Floor(c) == IF Rows(forks, c) # {} THEN Min(Rows(forks, c)) ELSE Min(Rows(T, c)) - 4
  IN {k \in seen : p.row[k] >= Floor(p.component[k])}
FitOf(p, fit, w) ==
  LET points == {p.at[k] : k \in Framed(p, Tips(p, fit.of))} \cup {PointOf(p, StopOf(p, x)) : x \in fit.of \cap DOMAIN p.on}
  IN Middle(IF points = {} THEN {PointOf(p, e) : e \in Drawn(p)} ELSE points, w, fit.floor)

StopPan == pan' = None
SetView(v) == view' = v /\ auto' = None /\ StopPan

PanTo(v) == pan' = [from |-> view, to |-> v, frame |-> 0] /\ auto' = None /\ UNCHANGED view

\* centerOn: a revision at the scale there is, a worktree at least life-size; animated for
\* a pointer, when the canvas is on the screen.
Center ==
  /\ picture # None /\ Spend("cameras")
  /\ \E e \in Drawn(picture), least \in {Smallest, LifeSize}, animate \in BOOLEAN :
       LET scale == Max({view.scale, least})
           to == [x |-> (width \div 2) - PointOf(picture, e) * scale, scale |-> scale]
       IN IF animate /\ attached THEN PanTo(to) ELSE SetView(to)
  /\ UNCHANGED <<picture, asked, paint, keyboard, attached, width>>

\* One frame: half way, then there; at once when the canvas is detached.
Frame ==
  /\ pan # None
  /\ IF pan.frame = 1 \/ ~attached THEN SetView(pan.to)
     ELSE /\ view' = [f \in {"x", "scale"} |-> (pan.from[f] + pan.to[f]) \div 2] /\ pan' = [pan EXCEPT !.frame = 1] /\ UNCHANGED auto
  /\ UNCHANGED <<picture, asked, paint, keyboard, attached, width, budget>>

\* Some worktrees, or everything, which may be made as small as it takes.
Fit ==
  /\ picture # None /\ Spend("cameras")
  /\ \E fit \in [of : SUBSET DOMAIN picture.on, floor : {Readable}] \cup {[of |-> {}, floor |-> Smallest]} :
       auto' = fit /\ view' = FitOf(picture, fit, width) /\ StopPan
  /\ UNCHANGED <<picture, asked, paint, keyboard, attached, width>>

\* The highlighted history, once.
FitRevisions ==
  /\ picture # None /\ lit.nodes # {} /\ Spend("cameras") /\ SetView(Middle({picture.at[k] : k \in lit.nodes}, width, Readable))
  /\ UNCHANGED <<picture, asked, paint, keyboard, attached, width>>

\* A drag, the arrows on the canvas, an edge hint.
Move ==
  /\ Spend("cameras") /\ \E d \in {-2, 2} : SetView([view EXCEPT !.x = @ + d])
  /\ UNCHANGED <<picture, asked, paint, keyboard, attached, width>>

\* zoomAt: what is under the pointer, or in the middle, stays there.
Zoom ==
  /\ Spend("cameras")
  /\ \E at \in {0, width \div 2}, scale \in (Smallest..Largest) \cap {view.scale - 1, view.scale, view.scale + 1} :
       /\ scale = view.scale => scale \in {Smallest, Largest}
       /\ SetView([x |-> at - ((at - view.x) * scale) \div view.scale, scale |-> scale])
  /\ UNCHANGED <<picture, asked, paint, keyboard, attached, width>>

\* A press catches a running pan, also on a node.
Press == pan # None /\ Spend("cameras") /\ StopPan /\ UNCHANGED <<picture, asked, paint, keyboard, view, auto, attached, width>>

Resized(w) == IF auto = None THEN UNCHANGED camera ELSE view' = FitOf(picture, auto, w) /\ StopPan /\ UNCHANGED auto

Resize ==
  /\ Spend("cameras") /\ \E w \in Widths \ {width} : width' = w /\ Resized(w)
  /\ UNCHANGED <<picture, asked, paint, keyboard, attached>>

Attach == Spend("cameras") /\ attached' = ~attached /\ focus' = (IF attached THEN Outside ELSE focus)
          /\ UNCHANGED <<picture, asked, paint, tabStop, nodeStop, camera, width>>

(***************************************************************************)
(* Highlight.                                                              *)
(***************************************************************************)
Touched(was, next) == (next \ was) \cup (was \ next)
Repainted(was, t, next) == (was \ t) \cup (t \cap next)

\* Only what changed is drawn again: revisions, and the edges at their ends; a highlighted
\* edge has both ends highlighted, an active one its child.
Highlight(was, next, p) ==
  LET t == Touched(was.nodes, next)
  IN [nodes |-> Repainted(was.nodes, t, next),
      edges |-> Repainted(was.edges, {e \in Edges(p) : e[1] \in t \/ e[2] \in t}, next \X next)]
Activate(was, next, p) ==
  LET t == Touched(was.nodes, next)
  IN [nodes |-> Repainted(was.nodes, t, next),
      edges |-> Repainted(was.edges, {e \in Edges(p) : e[1] \in t}, {e \in Edges(p) : e[1] \in next})]

\* applyState; the stops follow the selection while the focus is elsewhere.
Apply(p, a) ==
  LET free == focus' \in {Outside, Canvas}
      pick == Chosen(p, a)
  IN /\ chosen' = pick /\ lit' = Highlight(lit, Lit(p, a), p)
     /\ sources' = Hot(p, a) /\ active' = IF Hot(p, a) = sources THEN active ELSE Activate(active, Active(p, Hot(p, a)), p)
     /\ nodeStop' = IF free /\ pick \in Revisions(p) /\ pick # chosen THEN <<"revision", pick>> ELSE nodeStop
     /\ tabStop' = IF free /\ a.workspace \in Pills(p) THEN <<"workspace", a.workspace>> ELSE tabStop

SetState ==
  /\ UNCHANGED focus /\ Spend("states") /\ \E a \in Wishes : asked' = a /\
       IF picture = None THEN UNCHANGED <<paint, tabStop, nodeStop>>
       ELSE Apply(picture, a)
  /\ UNCHANGED <<picture, camera, attached, width>>

(***************************************************************************)
(* Another picture.                                                        *)
(***************************************************************************)
\* elementForKey: a worktree that was put in a collapsed cluster is its chip.
Successor(p, e) ==
  IF e \in Drawn(p) THEN e
  ELSE IF e[1] = "workspace" /\ e[2] \in DOMAIN p.on THEN <<"cluster", p.on[e[2]]>> ELSE None

FirstTab(p) ==
  IF Pills(p) # {} THEN <<"workspace", Min(Pills(p))>>
  ELSE IF p.chips # {} THEN <<"cluster", Min(p.chips)>> ELSE None
FirstNode(p) ==
  LET tips == Tips(p, DOMAIN p.on) IN
  IF Revisions(p) = {} THEN None ELSE <<"revision", Min(IF tips # {} THEN tips ELSE Revisions(p))>>

Starts(p) == [node |-> FirstNode(p), tab |-> FirstTab(p)]

\* pickAnchor: the selected revision, else the one nearest to the middle.
Anchors(p) ==
  IF chosen \in Revisions(p) THEN {chosen}
  ELSE LET Off(k) == LET d == view.x + p.at[k] * view.scale - (width \div 2) IN IF d < 0 THEN -d ELSE d
       IN {k \in Revisions(p) : \A q \in Revisions(p) : Off(k) < Off(q) \/ (Off(k) = Off(q) /\ k <= q)}

\* The focus of an element that is replaced goes to its successor, which then
\* is the stop of its kind.
Refocus(p) ==
  LET next == IF focus \in {Outside, Canvas} THEN None ELSE Successor(p, focus) IN
  focus' = IF focus \in {Outside, Canvas} THEN focus ELSE IF next = None THEN Outside ELSE next

Shifted(p, k) == IF k # None /\ k \in Revisions(p) THEN [view EXCEPT !.x = @ + (picture.at[k] - p.at[k]) * view.scale] ELSE view

\* rebuild: an explicit anchor ends the automatic fit; without one, a fit is
\* taken again and a camera the user has set keeps its anchor in place.
Rebuild(p, explicit) ==
  /\ picture' = p
  /\ auto' = IF explicit # None THEN None ELSE auto
  /\ \E k \in IF picture = None THEN {None} ELSE IF explicit # None THEN {explicit} ELSE IF auto # None THEN {None} ELSE Anchors(picture) \cup (IF Revisions(picture) = {} THEN {None} ELSE {}) :
       IF auto' # None THEN view' = FitOf(p, auto, width) /\ StopPan
       ELSE view' = Shifted(p, k) /\ UNCHANGED pan
  /\ Refocus(p)

\* Focus is outside while the elements are replaced.
Repaint(p) ==
  LET s == Starts(p)
      pick == Chosen(p, asked)
      node == IF pick \in Revisions(p) THEN <<"revision", pick>> ELSE s.node
      tab == IF asked.workspace \in Pills(p) THEN <<"workspace", asked.workspace>> ELSE s.tab
  IN /\ chosen' = pick /\ lit' = Highlight(Plain, Lit(p, asked), p) /\ sources' = Hot(p, asked) /\ active' = Activate(Plain, Active(p, Hot(p, asked)), p)
     /\ nodeStop' = IF focus' \in Dots(p) THEN focus' ELSE node
     /\ tabStop' = IF focus' \in Stops(p) THEN focus' ELSE tab

\* setGraph: what the signature leaves out changes nothing here.
SameSignature(p) == p = picture

SetGraph ==
  /\ Spend("graphs")
  /\ \E p \in Pictures, explicit \in {None} \cup (IF picture = None THEN {} ELSE Revisions(picture)) :
       ~SameSignature(p) /\ Rebuild(p, explicit) /\ Repaint(p)
  /\ UNCHANGED <<asked, attached, width>>

(***************************************************************************)
(* Keyboard.                                                               *)
(***************************************************************************)
\* ensureVisible: judged where a pan is going.
EnsureVisible(v, p, Otherwise) ==
  LET x == p * v.scale IN
  \/ v.x + x < 1 /\ SetView([v EXCEPT !.x = 1 - x])
  \/ v.x + x > width - 1 /\ SetView([v EXCEPT !.x = width - 1 - x])
  \/ v.x + x \in 1..width - 1 /\ Otherwise

FocusOn(e) ==
  /\ focus' = e
  /\ IF e[1] = "revision" THEN nodeStop' = e /\ UNCHANGED tabStop ELSE tabStop' = e /\ UNCHANGED nodeStop

\* Tab, or a click, into the canvas.
Enter ==
  /\ picture # None /\ attached /\ Spend("keys")
  /\ \E e \in ({tabStop, nodeStop} \ {None}) \cup {f \in Drawn(picture) : focus # f} : FocusOn(e)
  /\ UNCHANGED <<picture, asked, paint, camera, attached, width>>

LeaveCanvas ==
  /\ attached /\ Spend("keys") /\ focus' \in {Outside, Canvas} \ {focus}
  /\ UNCHANGED <<picture, asked, paint, tabStop, nodeStop, camera, attached, width>>

\* The first loaded parent, the child nearest across, the next in the row.
Neighbours(p, k) ==
  LET loaded == SelectSeq(p.parents[k], LAMBDA q : q \in Revisions(p))
      Across(c) == LET d == p.at[c] - p.at[k] IN IF d < 0 THEN -d ELSE d
      Nearer(c, d) == Across(c) < Across(d) \/ (Across(c) = Across(d) /\ c <= d)
      row == {q \in Revisions(p) : p.row[q] = p.row[k]}
  IN (IF loaded = <<>> THEN {} ELSE {Head(loaded)})
     \cup {c \in Kids(p, k) : \A d \in Kids(p, k) : Nearer(c, d)}
     \cup {q \in row \ {k} : ~\E r \in row : (p.at[r] - p.at[k]) * (p.at[r] - p.at[q]) < 0}

\* neighborLabel: pills and collapsed clusters, seen from a worktree; a cluster stands
\* where its first member does.
Elsewhere(p, e) ==
  LET from == IF e[1] = "workspace" THEN e[2] ELSE Min({w \in DOMAIN p.on : p.on[w] = e[2]})
  IN {StopOf(p, w) : w \in DOMAIN p.on} \ {StopOf(p, from)}

\* An arrow stops a pan, and may find nothing in its direction.
Arrow ==
  /\ picture # None /\ focus \in Drawn(picture) /\ Spend("keys")
  /\ \/ StopPan /\ UNCHANGED <<keyboard, view, auto>>
     \/ \E e \in IF focus[1] = "revision" THEN {<<"revision", k>> : k \in Neighbours(picture, focus[2])} ELSE Elsewhere(picture, focus) :
          /\ FocusOn(e)
          /\ EnsureVisible(view, PointOf(picture, e), StopPan /\ UNCHANGED <<view, auto>>)
  /\ UNCHANGED <<picture, asked, paint, attached, width>>

\* focusWorkspace, after a search: the focus, and the camera if need be.
FocusWorkspace ==
  /\ picture # None /\ attached /\ Spend("keys")
  /\ \E w \in DOMAIN picture.on :
       LET e == StopOf(picture, w)
       IN FocusOn(e) /\ EnsureVisible(IF pan = None THEN view ELSE pan.to, PointOf(picture, e), UNCHANGED camera)
  /\ UNCHANGED <<picture, asked, paint, attached, width>>

Next ==
  \/ Center \/ Frame \/ Fit \/ FitRevisions \/ Move \/ Zoom \/ Press \/ Resize \/ Attach
  \/ SetState \/ SetGraph \/ Enter \/ LeaveCanvas \/ Arrow \/ FocusWorkspace

Spec == Init /\ [][Next]_vars

(***************************************************************************)
(* Properties.                                                             *)
(***************************************************************************)
\* Tab always finds the picture: there is a stop among the pills and clusters
\* and one among the revisions whenever there are any, both are drawn, and the
\* focused element is one of them.
StopsDrawn ==
  picture # None =>
    /\ IF Stops(picture) = {} THEN tabStop = None ELSE tabStop \in Stops(picture)
    /\ IF Dots(picture) = {} THEN nodeStop = None ELSE nodeStop \in Dots(picture)
    /\ focus \in {Outside, Canvas, tabStop, nodeStop}

\* While the camera is automatic it frames what it should of the picture on
\* the screen, at the size it has.
AutoFits == auto # None => pan = None /\ view = FitOf(picture, auto, width)

\* What is drawn as highlighted is the history of what is asked for, with the edges
\* inside it, and what is drawn as active is the history of the working agents, with the
\* edges that leave it downwards, though each change only touches what differs.
PaintExact ==
  picture # None =>
    LET history == Lit(picture, asked)
        work == Active(picture, Hot(picture, asked))
    IN /\ lit = [nodes |-> history, edges |-> Edges(picture) \cap (history \X history)]
       /\ active = [nodes |-> work, edges |-> Edges(picture) \cap (work \X work)]
=============================================================================
