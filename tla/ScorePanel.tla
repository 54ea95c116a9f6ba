----------------------------- MODULE ScorePanel -----------------------------
(***************************************************************************)
(* The session score of the desktop viewer (ui/score/index.ts): the        *)
(* captured events of one session along a time axis, the playhead over     *)
(* them, the window of the shared scope it reads and writes, and the event *)
(* it renders in the detail pane, which it shares with the other views.    *)
(*                                                                         *)
(* The calls of the panel are functions of its state, composed as the code *)
(* composes them.  A request of the latest load is in force (version); a   *)
(* detail fetch that a later selection aborts is gone (selection).         *)
(***************************************************************************)
EXTENDS Integers, Sequences, FiniteSets

CONSTANTS
  None, Other,      \* nothing; another view's content of the detail pane
  Live,             \* the window that is the whole session
  Times,            \* [session -> the instants of its drawn events, in order]
  Errors,           \* the events that carry an error signature
  MinView,          \* MIN_VIEW_MS
  MaxOverlap,       \* bound: requests under way at once
  Budgets           \* bounds: openings, gestures, moves of the shell, failures

VARIABLES
  p,                \* the panel with its part of the scope and the pane
  requests,         \* session histories and error signatures under way
  budget

vars == <<p, requests, budget>>
Sessions == DOMAIN Times

EventsOf(s) == {<<s, i>> : i \in 1..Len(Times[s])}
Events == UNION {EventsOf(s) : s \in Sessions}
TimeOf(e) == Times[e[1]][e[2]]
Instants == 0..10
Views == [from : Instants, to : Instants]
Own(q) == q.pane \notin {None, Other}
Spend(what) == budget[what] > 0 /\ budget' = [budget EXCEPT ![what] = @ - 1]

TypeOK ==
  /\ p.session \in Sessions \cup {None} /\ p.window \in Views \cup {Live}
  /\ {p.asked, p.drawn, p.sigs} \subseteq Sessions \cup {None} /\ p.at \in Instants /\ p.view \in Views
  /\ {p.connected, p.departed, p.loaded, p.ready, p.playing, p.shown, p.dismissed, p.signed, p.untouched} \subseteq BOOLEAN
  /\ {p.cur, p.detail} \subseteq Events \cup {None} /\ p.full \subseteq Events
  /\ Own(p) => p.pane.event \in Events /\ {p.pane.full, p.pane.signed} \subseteq BOOLEAN
  /\ Cardinality(requests) <= MaxOverlap
  /\ \A r, q \in requests : r.inForce /\ q.inForce => r.session = q.session

Init ==
  /\ p = [session |-> None, window |-> Live, connected |-> FALSE, departed |-> FALSE,
          asked |-> None, drawn |-> None, loaded |-> FALSE, ready |-> FALSE, sigs |-> None,
          at |-> 0, view |-> [from |-> 0, to |-> 0], playing |-> FALSE, cur |-> None, signed |-> FALSE,
          shown |-> FALSE, dismissed |-> FALSE, untouched |-> FALSE, full |-> {}, detail |-> None, pane |-> None]
  /\ requests = {} /\ budget \in Budgets

(***************************************************************************)
(* The model of the score (ui/score/model.ts).                             *)
(***************************************************************************)
Least(a, b) == IF a < b THEN a ELSE b
Most(a, b) == IF a > b THEN a ELSE b
Bounds(s) == [from |-> Times[s][1], to |-> Times[s][Len(Times[s])]]
IndexAt(s, t) == Cardinality({i \in DOMAIN Times[s] : Times[s][i] <= t})
EventAt(s, t) == <<s, IndexAt(s, t)>>
PrevBefore(s, t) == <<s, Cardinality({i \in DOMAIN Times[s] : Times[s][i] < t})>>
NextAfter(s, t) == <<s, IndexAt(s, t) + 1>>

ClampView(v, b) ==
  LET total == b.to - b.from
      wanted == Least(Most(v.to - v.from, MinView), total)
      width == IF wanted <= 0 THEN total ELSE wanted
      from == IF v.to - v.from < MinView THEN (v.from + v.to - width) \div 2 ELSE v.from
      left == IF from < b.from THEN b.from ELSE from
      start == IF left + width > b.to THEN b.to - width ELSE left
  IN [from |-> start, to |-> start + width]
PanView(v, center, b) ==
  LET from == center - ((v.to - v.from) \div 2) IN ClampView([from |-> from, to |-> from + v.to - v.from], b)
ZoomIn(v, anchor, b) ==
  LET from == anchor - ((anchor - v.from) \div 2) IN ClampView([from |-> from, to |-> from + ((v.to - v.from) \div 2)], b)

(***************************************************************************)
(* The detail pane.                                                        *)
(***************************************************************************)
CancelDetail(q) == [q EXCEPT !.detail = None, !.untouched = FALSE]
PaneOf(q, e, full) == [event |-> e, full |-> full, signed |-> q.signed]

\* dismiss, the score's half of the close button.
Dismiss(q) == [CancelDetail(q) EXCEPT !.shown = FALSE, !.dismissed = TRUE, !.pane = None]

\* render and fetchFull: projected fields during playback; else the full
\* envelope, fetched when it is not cached.
Render(q, e) ==
  [CancelDetail(q) EXCEPT !.shown = TRUE, !.dismissed = FALSE, !.pane = PaneOf(q, e, ~q.playing /\ e \in q.full),
                          !.detail = IF q.playing \/ e \in q.full THEN None ELSE e]

Mark(q, e) == [q EXCEPT !.cur = e, !.signed = e \in Errors /\ q.sigs = e[1]]
Highlight(q, e) == Render(Mark(q, e), e)

(***************************************************************************)
(* The window.                                                             *)
(***************************************************************************)
\* publishWindow: only for the session that the scope names.
Publishes(q) == ~q.departed /\ q.loaded /\ q.drawn = q.session
SetView(q, v, publish) ==
  LET view == ClampView(v, Bounds(q.drawn))
      whole == view.from <= Bounds(q.drawn).from /\ view.to >= Bounds(q.drawn).to
  IN [q EXCEPT !.view = view, !.window = IF publish /\ Publishes(q) THEN (IF whole THEN Live ELSE view) ELSE @]

\* applyScopeWindow, the subscription of the store too.
ApplyWindow(q) ==
  IF ~Publishes(q) THEN q
  ELSE [q EXCEPT !.view = IF q.window = Live THEN Bounds(q.drawn) ELSE ClampView(q.window, Bounds(q.drawn))]

(***************************************************************************)
(* The playhead and playback.                                              *)
(***************************************************************************)
OnScreen(q, t) == t >= q.view.from /\ t <= q.view.to
Moved(q, t, publish) ==
  LET r == [q EXCEPT !.at = t] IN IF OnScreen(q, t) THEN r ELSE SetView(r, PanView(q.view, t, Bounds(q.drawn)), publish)

SetPlayhead(q, t, fromPlayback) ==
  LET r == Moved(q, t, ~fromPlayback)
      under == EventAt(q.drawn, t)
  IN IF under[2] = 0 THEN r
     ELSE IF under # q.cur THEN (IF fromPlayback /\ q.dismissed THEN Mark(r, under) ELSE Highlight(r, under))
     ELSE IF ~fromPlayback /\ ~q.shown THEN Render(r, under) ELSE r

Select(q, e) ==
  LET r == Moved(q, TimeOf(e), TRUE)
  IN IF e # q.cur THEN Highlight(r, e) ELSE IF ~q.shown THEN Render(r, e) ELSE r

\* A pane that shows more than the projected fields drops back to them.
Starts(q) ==
  IF q.cur # None /\ q.shown /\ q.connected /\ q.cur \in q.full THEN Render(q, q.cur) ELSE CancelDetail(q)

SetPlaying(q, on) ==
  LET r == [q EXCEPT !.playing = on /\ q.drawn # None]
  IN IF r.playing THEN Starts(r)
     ELSE IF q.playing /\ q.connected /\ q.cur # None /\ q.shown THEN Render(r, q.cur) ELSE r

\* tick: one unit of time per frame; the end of the session stops it.
Advance(q) ==
  LET end == Bounds(q.drawn).to
      done == q.at + 1 >= end
      r == SetPlayhead(q, IF done THEN end ELSE q.at + 1, TRUE)
  IN IF done THEN SetPlaying(r, FALSE) ELSE r

(***************************************************************************)
(* Loading.                                                                *)
(***************************************************************************)
OutOfForce == {[r EXCEPT !.inForce = FALSE] : r \in requests}

\* The state that load leaves before it awaits.
Load(q, s) ==
  LET r == [CancelDetail(q) EXCEPT !.loaded = FALSE, !.full = {}, !.cur = None]
  IN [SetPlaying(r, FALSE) EXCEPT !.untouched = TRUE, !.asked = s, !.sigs = None, !.ready = FALSE]

\* open: a load of the same session under way is joined.
Opens(q, s) ==
  IF \E r \in requests : r.inForce /\ r.what = "events" /\ r.session = s
  THEN p' = [q EXCEPT !.departed = FALSE] /\ UNCHANGED requests
  ELSE /\ p' = Load([q EXCEPT !.departed = FALSE], s)
       /\ requests' = OutOfForce \cup
            {[what |-> w, session |-> s, inForce |-> TRUE, served |-> FALSE,
              prior |-> IF w = "events" /\ q.loaded /\ q.drawn = s THEN q.at ELSE -1] : w \in {"events", "signatures"}}
       /\ Cardinality(requests') <= MaxOverlap

\* showEmpty: the pending load is dropped with everything drawn.
Emptied(q) ==
  LET r == SetPlaying([CancelDetail(q) EXCEPT !.departed = FALSE, !.loaded = FALSE], FALSE)
  IN [r EXCEPT !.asked = None, !.drawn = None, !.ready = FALSE, !.full = {}, !.sigs = None,
               !.view = [from |-> 0, to |-> 0], !.at = 0, !.cur = None]

Serve ==
  /\ \E r \in requests : ~r.served /\ requests' = (requests \ {r}) \cup {[r EXCEPT !.served = TRUE]}
  /\ UNCHANGED <<p, budget>>

\* The window of the scope decides the view; the playhead is put inside it, or
\* left where it was in the same session.
Landed(q, r) ==
  LET b == Bounds(r.session)
      scoped == q.session = r.session /\ q.window # Live
      view == IF scoped THEN ClampView(q.window, b) ELSE b
      at == IF ~scoped THEN b.from ELSE IF r.prior >= view.from /\ r.prior <= view.to THEN r.prior ELSE view.from
      l == Mark([q EXCEPT !.drawn = r.session, !.ready = TRUE, !.loaded = TRUE, !.view = view, !.at = at],
                EventAt(r.session, at))
  IN IF q.connected /\ q.untouched THEN Render(l, l.cur) ELSE l

EventsLand ==
  /\ \E r \in requests :
       /\ r.what = "events" /\ r.served /\ requests' = requests \ {r}
       /\ p' = IF r.inForce THEN Landed(p, r) ELSE p
  /\ UNCHANGED budget

\* Late signatures re-render only a pane that the score still owns.
Signed(q) ==
  IF q.ready /\ q.cur # None /\ q.cur \in Errors
  THEN LET m == Mark(q, q.cur) IN IF q.shown /\ q.connected THEN Render(m, q.cur) ELSE m
  ELSE q

SignaturesLand ==
  /\ \E r \in requests :
       /\ r.what = "signatures" /\ r.served /\ requests' = requests \ {r}
       /\ p' = IF r.inForce THEN Signed([p EXCEPT !.sigs = r.session]) ELSE p
  /\ UNCHANGED budget

\* A failed history draws the error; failed or late signatures are done without.
Fails ==
  /\ Spend("fails") /\ \E r \in requests : ~r.served /\ requests' = requests \ {r} /\ UNCHANGED p

DetailLands ==
  /\ p.detail # None
  /\ LET e == p.detail
         q == [p EXCEPT !.detail = None, !.full = @ \cup {e}]
     IN p' = IF p.cur = e /\ ~p.playing THEN [q EXCEPT !.pane = PaneOf(p, e, TRUE)] ELSE q
  /\ UNCHANGED <<requests, budget>>

DetailFails ==
  /\ p.detail # None /\ Spend("fails") /\ p' = [p EXCEPT !.detail = None] /\ UNCHANGED requests

(***************************************************************************)
(* The Session panel, which hosts the score as its first lens.             *)
(***************************************************************************)
Left(q) == [CancelDetail(q) EXCEPT !.connected = FALSE, !.departed = TRUE, !.playing = FALSE]

\* enter: followWindow, then activate, or showEmpty without a session.
Enters(q) ==
  LET r == ApplyWindow([q EXCEPT !.connected = TRUE, !.departed = FALSE])
  IN IF r.session # None THEN Opens(r, r.session) ELSE p' = Emptied(r) /\ requests' = OutOfForce

Enter == ~p.connected /\ Spend("moves") /\ Enters(p)

Leave == p.connected /\ Spend("moves") /\ p' = Left(p) /\ UNCHANGED requests

\* openScore: the scope takes the session, the panel is shown again.
OpenSession ==
  /\ Spend("opens")
  /\ \E s \in Sessions :
       LET q == IF s = p.session THEN p ELSE [p EXCEPT !.session = s, !.window = Live]
       IN Enters(IF q.connected THEN Left(q) ELSE q)

\* The session is cleared; while the score is shown it is emptied.
SessionCleared ==
  /\ p.session # None /\ Spend("moves")
  /\ LET q == [p EXCEPT !.session = None, !.window = Live]
     IN IF p.connected THEN p' = Emptied(q) /\ requests' = OutOfForce ELSE p' = q /\ UNCHANGED requests

\* The transport, and the "whole session" chip.
WindowMoves ==
  /\ Spend("moves")
  /\ \E w \in {[from |-> 0, to |-> 1], Live} \ {p.window} : p' = ApplyWindow([p EXCEPT !.window = w])
  /\ UNCHANGED requests

\* refresh: another view may have taken the pane.
Refresh == p.connected /\ Spend("moves") /\ p' = [CancelDetail(p) EXCEPT !.shown = FALSE] /\ UNCHANGED requests

OtherTakesPane == ~p.connected /\ Spend("moves") /\ p' = [p EXCEPT !.pane = Other] /\ UNCHANGED requests

(***************************************************************************)
(* The user and the frame loop.                                            *)
(***************************************************************************)
Close ==
  /\ p.pane # None /\ Spend("gestures") /\ p' = (IF Own(p) THEN Dismiss(p) ELSE [p EXCEPT !.pane = None]) /\ UNCHANGED requests

Gesture(q) == p.connected /\ p.drawn # None /\ Spend("gestures") /\ p' = q /\ UNCHANGED requests

PlayButton ==
  Gesture(IF p.playing THEN SetPlaying(p, FALSE)
          ELSE SetPlaying(IF p.at >= Bounds(p.drawn).to THEN SetPlayhead(p, Bounds(p.drawn).from, TRUE) ELSE p, TRUE))

\* The step buttons, the arrow keys, Enter on a track and a click on a mark.
Step ==
  /\ p.drawn # None
  /\ \E e \in {NextAfter(p.drawn, p.at), PrevBefore(p.drawn, p.at)} : e \in Events /\ Gesture(Select(p, e))

ClickChart == p.drawn # None /\ \E t \in p.view.from..p.view.to : Gesture(SetPlayhead(p, t, FALSE))

Fit == p.drawn # None /\ Gesture(SetView(p, Bounds(p.drawn), TRUE))
Zoom ==
  p.drawn # None /\ LET anchor == IF OnScreen(p, p.at) THEN p.at ELSE (p.view.from + p.view.to) \div 2
  IN Gesture(SetView(p, ZoomIn(p.view, anchor, Bounds(p.drawn)), TRUE))

Frame == p.playing /\ p.drawn # None /\ p' = Advance(p) /\ UNCHANGED <<requests, budget>>

Next ==
  \/ Serve \/ EventsLand \/ SignaturesLand \/ Fails \/ DetailLands \/ DetailFails
  \/ Enter \/ Leave \/ OpenSession \/ SessionCleared \/ WindowMoves \/ Refresh \/ OtherTakesPane
  \/ Close \/ PlayButton \/ Step \/ ClickChart \/ Fit \/ Zoom \/ Frame

Spec == Init /\ [][Next]_vars

(***************************************************************************)
(* Properties.                                                             *)
(***************************************************************************)
\* The pane that the user closed is not opened again by a fetch that lands, by
\* the signatures, by playback or by a pause: only by a selection or a load.
ClosedStaysClosed == p.dismissed => ~Own(p)

\* While the cursor moves no detail fetch is under way.
NoFetchInPlayback == p.playing => p.detail = None

\* The score never writes the pane while another panel is shown.
HiddenNeverWrites == ~p.connected /\ p'.pane # p.pane /\ ~p'.connected => p'.pane \in {None, Other}

\* The window it publishes is a window of the session that the scope names.
PublishesOwn ==
  p'.window # p.window /\ p'.session = p.session /\ budget'.moves = budget.moves
  => p.connected /\ p'.drawn = p'.session /\ p'.window \in {Live, p'.view}
=============================================================================
