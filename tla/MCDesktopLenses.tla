--------------------------- MODULE MCDesktopLenses ---------------------------
(*****************************************************************************)
(* The lenses of one session, the notebooks kept on this machine and the   *)
(* picture of the workspace graph.  They share no state but the scope, which*)
(* each module lets the others move; a behaviour is one of them, chosen at *)
(* the start, and all of them keep their variables in the same cells.      *)
(*****************************************************************************)
EXTENDS Integers, Sequences, TLC

CONSTANTS
  Machines,      \* the machines to choose from
  None, Other, LiveWindow, Corrupt, Outside, Canvas,
  ScoreTimes, ScoreErrors, MinView, MaxOverlap, ScoreBudgets,         \* ScorePanel
  NoteWindows, NoteIds, NoteEvents, MaxEntries, NoteBudgets,          \* LocalNotebooks
  TabRefs, TabKeys, MaxNames, MaxListings, TabBudgets,                \* SessionTabs
  Records, Kept, RouteSessions, RouteSources, RouteWindows, RouteBudgets,          \* RouteLenses
  LoopErrors, LoopFallback, LoopAuthoritative, LoopWindows, LoopTimes, LoopBudgets, \* LoopsLens
  CourtRows, Comparable, CourtBudgets                                 \* EvidencePanels

VARIABLES machine, x1, x2, x3, x4, x5, x6, x7, x8, x9, x10, x11, x12, x13, x14, x15
cells == <<machine, x1, x2, x3, x4, x5, x6, x7, x8, x9, x10, x11, x12, x13, x14, x15>>
On(m) == machine = m

\* The values of these constants, so that every kind of overlap occurs.
Times == [s \in {"a", "b"} |-> IF s = "a" THEN <<0, 2>> ELSE <<1>>]
Faulty == {<<"a", 1>>}
S(o, g, m, f) == [opens |-> o, gestures |-> g, moves |-> m, fails |-> f]
Scores == {S(1, 2, 1, 0), S(2, 1, 1, 0), S(1, 1, 1, 1), S(1, 0, 2, 0)}

B(s, e, l, f) == [saves |-> s, edits |-> e, lookups |-> l, fails |-> f]
Books == {B(2, 3, 2, 0), B(2, 2, 2, 1)}

Modes == [score |-> "transport", loops |-> "filters", court |-> "none"]
Visits == {[moves |-> 3, lists |-> 0], [moves |-> 0, lists |-> 3]}

\* Records of one session; e is in the daemon's projection and, with another body or from
\* another source, in the history.
Record(i, src, t, b) == [id |-> i, source |-> src, session |-> "a", time |-> t, body |-> b]
AllRecords == {Record("e", "x", 1, 1), Record("e", "x", 1, 2), Record("e", "y", 1, 1), Record("f", "x", 2, 1)}
KeptRecords == {Record("e", "x", 1, 1), Record("f", "x", 2, 1)}
U(m, e, c, f) == [moves |-> m, edits |-> e, captures |-> c, fails |-> f]
Routes == {U(2, 2, 0, 0), U(1, 2, 1, 0), U(1, 1, 0, 1), U(1, 2, 0, 1)}

\* Five errors; four of one session are alike until the signatures tell one apart.
E(s, src, t) == [session |-> s, source |-> src, time |-> t]
Errors == {E("a", "x", 1), E("a", "x", 2), E("a", "x", 3), E("a", "y", 4), E("b", "x", 1)}
Fallback == [e \in Errors |-> IF e.source = "y" THEN "k2" ELSE "k1"]
Authoritative == [e \in Errors |-> IF e.time \in {2, 4} THEN "k3" ELSE IF e.time = 3 THEN None ELSE "k1"]
Spans == [x \in {"w"} |-> {1, 2, 4}]
L(m, p, c, f) == [moves |-> m, picks |-> p, clicks |-> c, fails |-> f]
Loops == {L(1, 1, 2, 0), L(1, 2, 1, 0), L(2, 1, 0, 1), L(2, 0, 2, 0)}

Row(k, s, e) == [key |-> k, session |-> s, event |-> e]
Rows == {Row("k", "a", 1), Row("k", "b", 2), Row("j", "a", 1), Row("j", "b", 3)}
V(c, m, k, f) == [changes |-> c, moves |-> m, clicks |-> k, fails |-> f]
Evidence == {V(1, 1, 2, 0), V(0, 1, 3, 0), V(0, 2, 1, 1)}

\* Six revisions; 4 and 6 may fork, merge or start a line of their own.  Of eight, lines that
\* merges join have room to move.
Lists(n) == {<<>>} \cup {<<p>> : p \in 1..n - 1} \cup {<<p, q>> : p, q \in 1..n - 1}
Histories ==
  {[parents |-> <<<<>>, <<1>>, a, b, c, d>>, trunk |-> 2, anchors |-> [n \in 1..6 |-> IF n = w THEN 2 ELSE 0]] :
     a \in {<<>>, <<1>>, <<2>>}, b \in {<<2>>, <<3, 2>>},
     c \in {l \in Lists(5) : Len(l) < 2 \/ l[1] # l[2]} \cup {<<2, 2>>, <<0, 5>>}, d \in {<<3>>, <<4, 3>>}, w \in {2, 5, 6}}
  \cup
  {[parents |-> <<<<>>, <<1>>, <<2>>, <<3>>, a, b, c, d>>, trunk |-> 4,
    anchors |-> [n \in 1..8 |-> IF n = w THEN 2 ELSE 0]] :
     a \in {<<1>>, <<2>>}, b \in {<<1>>, <<5>>, <<>>}, c \in {<<5, 6>>, <<5>>},
     d \in {<<1, 7>>, <<6, 5>>, <<6, 7>>, <<5, 7>>}, w \in {4, 6, 7, 8}}

\* A trunk of three revisions, branches of its second on the left and of its first on the
\* right, where the lanes put them, and another component; or nothing loaded.  Of four or
\* more worktrees only a count is drawn.
Crowd(n, w) == [k \in 1..n |-> [id |-> k, w |-> w, badges |-> IF k = 2 THEN <<44, 62>> ELSE <<>>]]
Revision(x, y, side, group) == [x |-> x, y |-> y, side |-> side, group |-> group]
Crowds ==
  {[components |-> <<<<Revision(0, 68, 1, <<>>), Revision(0, 34, 1, Crowd(i, 60)), Revision(0, 0, 1, Crowd(t, 116)),
                       Revision(-44, 0, -1, Crowd(l, 200)), Revision(88, 34, 1, Crowd(r, 96))>>,
                     <<Revision(0, 68, 1, Crowd(5, 103))>>>>,
    loose |-> Crowd(4, 183)] : i \in {0, 3}, t \in {3, 5}, l \in {1, 5}, r \in {0, 3}}
  \cup {[components |-> <<>>, loose |-> Crowd(4, 183)]}

\* 3 is a merge of 1 and 2, and 4 grows from 2; four worktrees share a revision.
One(ks) == [k \in ks |-> 1]
Small == [parents |-> (1 :> <<>> @@ 2 :> <<1>>), at |-> (1 :> 0 @@ 2 :> 2), row |-> (1 :> 0 @@ 2 :> 1), component |-> One({1, 2}),
          on |-> [w \in 1..4 |-> 2], chips |-> {2}, opened |-> {}]
Opened == [Small EXCEPT !.chips = {}, !.opened = {2}]
Grown == [parents |-> (2 :> <<1>> @@ 3 :> <<1, 2>> @@ 4 :> <<2>>), at |-> (2 :> 4 @@ 3 :> 6 @@ 4 :> 0), row |-> (2 :> 0 @@ 3 :> 1 @@ 4 :> 1),
          component |-> One({2, 3, 4}), on |-> (1 :> 3 @@ 3 :> None), chips |-> {}, opened |-> {}]
Empty == [parents |-> <<>>, at |-> <<>>, row |-> <<>>, component |-> <<>>, on |-> <<>>, chips |-> {}, opened |-> {}]
Bare == [parents |-> (1 :> <<>>), at |-> (1 :> 2), row |-> (1 :> 0), component |-> One({1}), on |-> <<>>, chips |-> {}, opened |-> {}]
Wish(w, r, d, h) == [workspace |-> w, revision |-> r, descendants |-> d, hot |-> h]
Wishes == {Wish(None, None, FALSE, {}), Wish(1, None, FALSE, {1}), Wish(2, 2, TRUE, {1, 3}), Wish(None, 3, FALSE, {2})}
G(g, s, c, k) == [graphs |-> g, states |-> s, cameras |-> c, keys |-> k]
Views == {G(2, 1, 2, 0), G(1, 1, 2, 1), G(2, 1, 0, 2), G(2, 2, 0, 0)}

Score == INSTANCE ScorePanel WITH
  Live <- LiveWindow, Times <- ScoreTimes, Errors <- ScoreErrors, Budgets <- ScoreBudgets,
  p <- x1, requests <- x2, budget <- x3
Notebooks == INSTANCE LocalNotebooks WITH
  Windows <- NoteWindows, Ids <- NoteIds, Events <- NoteEvents, Lane <- [e \in NoteEvents |-> e], Budgets <- NoteBudgets,
  kind <- x1, stored <- x2, used <- x3, win <- x4, budget <- x5
Tabs == INSTANCE SessionTabs WITH
  Refs <- TabRefs, Windows <- {"live", "range"}, Tabs <- {"score", "loops", "court"}, Mode <- Modes,
  First <- "score", Keys <- TabKeys, Budgets <- TabBudgets,
  scope <- x1, host <- x2, lens <- x3, world <- x4, dir <- x5, listings <- x6, load <- x7, cooling <- x8,
  budget <- x9
Route == INSTANCE RouteLenses WITH
  Sessions <- RouteSessions, Sources <- RouteSources, Live <- LiveWindow, Windows <- RouteWindows, Budgets <- RouteBudgets,
  kind <- x1, captured <- x2, scope <- x3, active <- x4, fields <- x5, given <- x6, route <- x7, failed <- x8,
  loads <- x9, receipts <- x10, focus <- x11, shown <- x12, budget <- x13
Loop == INSTANCE LoopsLens WITH
  Errors <- LoopErrors, Fallback <- LoopFallback, Authoritative <- LoopAuthoritative, Windows <- LoopWindows, Times <- LoopTimes,
  Projects <- {}, Budgets <- LoopBudgets,
  scope <- x1, active <- x2, panel <- x3, histories <- x4, signatures <- x5, timer <- x6, budget <- x7
Court == INSTANCE EvidencePanels WITH
  Rows <- CourtRows, Budgets <- CourtBudgets,
  kind <- x1, world <- x2, active <- x3, list <- x4, loads <- x5, pick <- x6, page <- x7, pages <- x8,
  receipts <- x9, shown <- x10, budget <- x11
Lanes == INSTANCE GraphLanes WITH
  Histories <- Histories,
  parents <- x1, trunk <- x2, anchors <- x3, present <- x4, rank <- x5, primary <- x6, size <- x7, head <- x8,
  above <- x9, placed <- x10, lanes <- x11, sweep <- x12
Labels == INSTANCE GraphLabels WITH
  Pictures <- Crowds, Chip <- 123, MaxToggles <- 1,
  picture <- x1, open <- x2, todo <- x3, slots <- x4, drawn <- x5, strip <- x6, toggles <- x7
Drawing == INSTANCE GraphCanvas WITH
  Pictures <- {Small, Opened, Grown, Bare, Empty}, Wishes <- Wishes, Widths <- {8, 12}, Budgets <- Views,
  picture <- x1, asked <- x2, chosen <- x3, lit <- x4, sources <- x5, active <- x6, focus <- x7,
  tabStop <- x8, nodeStop <- x9, view <- x10, auto <- x11, pan <- x12, attached <- x13, width <- x14,
  budget <- x15

\* The absent value is none of the others; the records kept are records, a window is the live
\* one; times and bounds are numbers.
ASSUME LensesAssumption ==
  /\ \A b \in ScoreBudgets : b \in [opens : Nat, gestures : Nat, moves : Nat, fails : Nat]
  /\ None \notin NoteIds /\ None \notin NoteEvents /\ None \notin Notebooks!Entries
  /\ None \notin TabRefs /\ None \notin {"score", "loops", "court"} /\ None \notin Tabs!Scopes
  /\ None \notin [start : Nat, served : {None} \cup [TabKeys -> Nat], since : SUBSET TabKeys]
  /\ None \notin RouteSessions /\ None \notin RouteSources /\ None \notin Route!Refs
  /\ None \notin Records /\ \A r \in SUBSET Records : r # None
  /\ Kept \subseteq Records /\ LiveWindow \in RouteWindows
  /\ None \notin LoopErrors /\ None \notin Loop!Refs /\ \A e \in LoopErrors : LoopFallback[e] # None /\ e.time \in Nat
  /\ None \notin Court!Keys /\ \A r \in SUBSET CourtRows : r # None
  /\ None \notin [key : Court!Keys, rows : SUBSET CourtRows] /\ None \notin [row : CourtRows, event : CourtRows]

\* The cells that a machine does not use stay as they are.
Init ==
  /\ machine \in Machines
  /\ \/ On("score") /\ Score!Init /\ x4 = 0 /\ x5 = 0 /\ x6 = 0 /\ x7 = 0 /\ x8 = 0 /\ x9 = 0 /\ x10 = 0 /\ x11 = 0 /\ x12 = 0 /\ x13 = 0 /\ x14 = 0 /\ x15 = 0
     \/ On("notebooks") /\ Notebooks!Init /\ x6 = 0 /\ x7 = 0 /\ x8 = 0 /\ x9 = 0 /\ x10 = 0 /\ x11 = 0 /\ x12 = 0 /\ x13 = 0 /\ x14 = 0 /\ x15 = 0
     \/ On("tabs") /\ Tabs!Init /\ x10 = 0 /\ x11 = 0 /\ x12 = 0 /\ x13 = 0 /\ x14 = 0 /\ x15 = 0
     \/ On("routes") /\ Route!Init /\ x14 = 0 /\ x15 = 0
     \/ On("loops") /\ Loop!Init /\ x8 = 0 /\ x9 = 0 /\ x10 = 0 /\ x11 = 0 /\ x12 = 0 /\ x13 = 0 /\ x14 = 0 /\ x15 = 0
     \/ On("evidence") /\ Court!Init /\ x12 = 0 /\ x13 = 0 /\ x14 = 0 /\ x15 = 0
     \/ On("lanes") /\ Lanes!Init /\ x13 = 0 /\ x14 = 0 /\ x15 = 0
     \/ On("labels") /\ Labels!Init /\ x8 = 0 /\ x9 = 0 /\ x10 = 0 /\ x11 = 0 /\ x12 = 0 /\ x13 = 0 /\ x14 = 0 /\ x15 = 0
     \/ On("canvas") /\ Drawing!Init

Next ==
  /\ UNCHANGED machine
  /\ \/ On("score") /\ Score!Next /\ UNCHANGED <<x4, x5, x6, x7, x8, x9, x10, x11, x12, x13, x14, x15>>
     \/ On("notebooks") /\ Notebooks!Next /\ UNCHANGED <<x6, x7, x8, x9, x10, x11, x12, x13, x14, x15>>
     \/ On("tabs") /\ Tabs!Next /\ UNCHANGED <<x10, x11, x12, x13, x14, x15>>
     \/ On("routes") /\ Route!Next /\ UNCHANGED <<x14, x15>>
     \/ On("loops") /\ Loop!Next /\ UNCHANGED <<x8, x9, x10, x11, x12, x13, x14, x15>>
     \/ On("evidence") /\ Court!Next /\ UNCHANGED <<x12, x13, x14, x15>>
     \/ On("lanes") /\ Lanes!Next /\ UNCHANGED <<x13, x14, x15>>
     \/ On("labels") /\ Labels!Next /\ UNCHANGED <<x8, x9, x10, x11, x12, x13, x14, x15>>
     \/ On("canvas") /\ Drawing!Next

\* A route that was asked for is answered.
FairSpec ==
  /\ Init /\ [][Next]_cells
  /\ WF_(Route!vars)(On("routes") /\ Route!ServeRoute) /\ WF_(Route!vars)(On("routes") /\ Route!LoadAnswered)

TypeOK ==
  CASE On("score") -> Score!TypeOK [] On("notebooks") -> Notebooks!TypeOK [] On("tabs") -> Tabs!TypeOK
    [] On("routes") -> Route!TypeOK [] On("loops") -> Loop!TypeOK [] On("evidence") -> Court!TypeOK
    [] On("lanes") -> Lanes!TypeOK [] On("labels") -> Labels!TypeOK [] On("canvas") -> Drawing!TypeOK

\* What a lens shows is of the session, the window and the record that it says, and what
\* the user selected, opened or closed stays what it was until the user or the scope moves.
ShowsOwn ==
  CASE On("score") -> Score!ClosedStaysClosed /\ Score!NoFetchInPlayback
    [] On("notebooks") -> Notebooks!VerifiedIsTyped
    [] On("tabs") -> Tabs!OneLens /\ Tabs!LensOfScope
    [] On("routes") -> Route!RouteOfScope /\ Route!ReceiptOfFocus
    [] On("loops") -> Loop!LoopsOfScope /\ Loop!SelectionExists
    [] On("evidence") -> Court!ReceiptOfListed /\ Court!PageOfSignature
    [] OTHER -> TRUE

\* No revision of the graph is drawn over another, no label over a label or over a revision that
\* is not its own (edges and leaders are not part of this), and what is on the canvas, the stops of the
\* keyboard included, is the picture that was laid out last.
DrawsTheGraph ==
  CASE On("lanes") -> Lanes!NodesApart /\ Lanes!RoomBesideTip /\ Lanes!FitJoins
    [] On("labels") -> Labels!NoCollision /\ Labels!AllLabelled
    [] On("canvas") -> Drawing!StopsDrawn /\ Drawing!AutoFits /\ Drawing!PaintExact
    [] OTHER -> TRUE

\* A step writes only what is its own: a hidden lens nothing, a notebook one entry, an
\* answer neither the scope, nor the text that the user typed, nor what the user selected.
WritesOwn ==
  [][CASE On("score") -> Score!HiddenNeverWrites /\ Score!PublishesOwn
       [] On("notebooks") -> Notebooks!WritesOne /\ Notebooks!EditsKept /\ Notebooks!AttachesReviewed
       [] On("tabs") -> Tabs!RememberedStays
       [] On("loops") -> Loop!PicksInPlace
       [] OTHER -> TRUE]_cells

\* The route of the scope arrives, or its failure is shown, again and again.
RouteArrives == []<>(On("routes") => Route!ScopeArrives)
=============================================================================
