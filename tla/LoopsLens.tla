----------------------------- MODULE LoopsLens -----------------------------
(***************************************************************************)
(* The Loop Observatory (ui/loops): the recurring errors of one session,   *)
(* the interval between two recurrences, and the comparison of two         *)
(* intervals.  It is a tab of the session panel: the host delivers the     *)
(* scope; its own pickers write the scope, and the host delivers that too, *)
(* within the same step.                                                   *)
(*                                                                         *)
(* History and signatures are fetched side by side; groups come from the   *)
(* fallback identity of an error until the signatures arrive, and are      *)
(* derived again then.                                                     *)
(***************************************************************************)
EXTENDS ScopeStore, Naturals, FiniteSets

CONSTANTS
  Errors,         \* error observations: [id, session, source, time]
  Fallback,       \* [error -> its local identity]
  Authoritative,  \* [error -> the signature that has it as a member, or None]
  Windows, Times, \* windows, and the times each of them holds
  Projects,
  Budgets

VARIABLES
  scope, active,
  panel,          \* the lens
  histories,      \* requests for the history of a session
  signatures,     \* requests for its error signatures
  timer,          \* the timeout of the signature request in force is running
  budget

vars == <<scope, active, panel, histories, signatures, timer, budget>>
Spend(what) == budget[what] > 0 /\ budget' = [budget EXCEPT ![what] = @ - 1]
Ids == {e.session : e \in Errors}
Sources == {e.source : e \in Errors}
Refs == [id : Ids, source : Sources \cup {None}]
AnyWindow == Windows \cup {Live}
Scopes == [project : Projects \cup {None}, worktree : {None}, session : Refs \cup {None}, cell : {None}, window : AnyWindow]
InWindow(e, w) == w # Live => e.time \in Times[w]

Init ==
  /\ \E p \in Projects \cup {None}, r \in Refs \cup {None} : scope = [EmptyScope EXCEPT !.project = p, !.session = r]
  /\ active = FALSE /\ histories = {} /\ signatures = {} /\ timer = FALSE /\ budget \in Budgets
  /\ panel = [phase |-> "idle", ref |-> None, last |-> None, selfWritten |-> FALSE, win |-> Live, events |-> {},
              status |-> "pending", key |-> None, interval |-> None, comparison |-> None, detail |-> None, details |-> {}]

(***************************************************************************)
(* buildLoops.                                                             *)
(***************************************************************************)
Shown(p) == {e \in p.events : e.session = p.ref.id /\ (p.ref.source # None => e.source = p.ref.source)}
KeyOf(p, e) == IF p.status = "ready" /\ Authoritative[e] # None THEN Authoritative[e] ELSE Fallback[e]
Group(p, k) == {e \in Shown(p) : KeyOf(p, e) = k}
Recurring(p) == {k \in {KeyOf(p, e) : e \in Shown(p)} : Cardinality(Group(p, k)) >= 2}
\* Each recurrence after the first, with the one before it.
Intervals(p, k) ==
  {i \in Group(p, k) \X Group(p, k) :
     i[1].time < i[2].time /\ ~\E e \in Group(p, k) : i[1].time < e.time /\ e.time < i[2].time}
IntervalIn(i, w) == InWindow(i[1], w) /\ InWindow(i[2], w)
FirstKey(p) ==
  CHOOSE k \in Recurring(p) : \A j \in Recurring(p) : \E e \in Group(p, k) : \A f \in Group(p, j) : e.time <= f.time

(***************************************************************************)
(* The panel.                                                              *)
(***************************************************************************)
CancelDetail(p) == [p EXCEPT !.detail = None, !.details = {[d EXCEPT !.inForce = FALSE] : d \in @}]
ResetComparison(p) == CancelDetail([p EXCEPT !.comparison = None])
NoSelection(p) == [ResetComparison(p) EXCEPT !.key = None, !.interval = None]

\* derive: groups have changed; what was selected is found again or dropped,
\* and the first group is shown when there is none.
Derive(p) ==
  LET found == p.key \in Recurring(p)
      a == IF p.key # None /\ ~found THEN NoSelection(p) ELSE p
      b == IF found /\ a.interval # None /\ a.interval \notin Intervals(a, a.key)
           THEN CancelDetail([a EXCEPT !.interval = None]) ELSE a
      c == IF found /\ b.comparison # None /\ ~({b.comparison[1], b.comparison[2]} \subseteq Intervals(b, b.key))
           THEN ResetComparison(b) ELSE b
  IN IF c.key = None /\ Recurring(c) # {} THEN [c EXCEPT !.key = FirstKey(c)] ELSE c

\* derive is for a loaded history.
DeriveIfLoaded(p) == IF p.phase = "ready" THEN Derive(p) ELSE p

WindowChanged(p) ==
  LET outside == p.comparison # None /\ ~(IntervalIn(p.comparison[1], p.win) /\ IntervalIn(p.comparison[2], p.win))
      a == IF outside THEN ResetComparison(p) ELSE p
      b == IF a.interval # None /\ ~IntervalIn(a.interval, a.win) THEN ResetComparison([a EXCEPT !.interval = None]) ELSE a
  IN IF b.detail # None /\ ~InWindow(b.detail, b.win) THEN CancelDetail(b) ELSE b

Opened(p, ref) ==
  [NoSelection(p) EXCEPT !.phase = "loading", !.ref = ref, !.events = {}, !.status = "pending"]
Dropped(requests) == {[r EXCEPT !.inForce = FALSE] : r \in requests}
Requests(old, ref) == Dropped(old) \cup {[ref |-> ref, inForce |-> TRUE]}

\* open, or the panel as it is; a request replaces the one before.
Settle(p, ref) ==
  IF ref = None THEN panel' = p /\ UNCHANGED <<histories, signatures, timer>>
  ELSE /\ panel' = Opened(p, ref) /\ timer' = TRUE
       /\ histories' = Requests(histories, ref) /\ signatures' = Requests(signatures, ref)

\* setContext: what the host delivers; opens the session once per key.
Delivered(p, sc) ==
  LET q == [p EXCEPT !.win = sc.window, !.last = sc.session,
                     !.selfWritten = @ /\ sc.session # None /\ sc.session = p.last]
  IN IF sc.window # p.win /\ (sc.session = None \/ sc.session = p.last) THEN WindowChanged(q) ELSE q
ToOpen(p, sc) == IF sc.session # None /\ sc.session # p.last THEN sc.session ELSE None

(***************************************************************************)
(* The host and the other panels.                                          *)
(***************************************************************************)
\* Shown: the context, then a refresh that reconciles with the scope.
Enter ==
  /\ ~active /\ Spend("moves") /\ active' = TRUE
  /\ LET p == Delivered(panel, scope)
         want == ToOpen(panel, scope)
     IN Settle(p, IF want = None /\ scope.session # None /\ scope.session # p.ref THEN scope.session ELSE want)
  /\ UNCHANGED scope

\* Left: a load under way is paused, and the next visit opens again.
Leave ==
  /\ active /\ active' = FALSE
  /\ LET p == [panel EXCEPT !.last = None, !.selfWritten = FALSE]
     IN IF p.phase = "loading"
        THEN /\ panel' = CancelDetail([p EXCEPT !.phase = "error"])
             /\ histories' = Dropped(histories) /\ signatures' = Dropped(signatures) /\ timer' = FALSE
        ELSE panel' = p /\ UNCHANGED <<histories, signatures, timer>>
  /\ UNCHANGED <<scope, budget>>

ScopeMoves ==
  /\ Spend("moves")
  /\ \E sc \in Scopes :
       /\ sc # scope /\ scope' = sc
       /\ IF active THEN Settle(Delivered(panel, sc), ToOpen(panel, sc))
          ELSE UNCHANGED <<panel, histories, signatures, timer>>
  /\ UNCHANGED active

(***************************************************************************)
(* The pickers.                                                            *)
(***************************************************************************)
\* A source for the session in scope refines it and keeps the window; any other
\* pick is a chosen session.  Whether the parents contain it is the resolver's.
Written(sc, ref, member) ==
  IF sc.session # None /\ sc.session.id = ref.id /\ sc.session.source = None
  THEN IF sc.project = None \/ member THEN Narrow(sc, [session |-> ref, window |-> sc.window])
       ELSE ReplaceContext(sc, [session |-> ref, window |-> sc.window])
  ELSE SelectSession(sc, ref, member)

Own(p, ref) == [p EXCEPT !.last = ref, !.selfWritten = TRUE]

\* The session picker is usable while the scope has no session, or has the one
\* that this panel wrote.
PickSession ==
  /\ active /\ (scope.session = None \/ panel.selfWritten) /\ Spend("picks")
  /\ \E id \in Ids, member \in BOOLEAN :
       LET ref == [id |-> id, source |-> None]
           sc == Written(scope, ref, member)
           p == Own(Opened(panel, ref), ref)
       IN /\ scope' = sc /\ panel' = Delivered(p, sc) /\ timer' = TRUE
          /\ histories' = Requests(histories, ref) /\ signatures' = Requests(signatures, ref)
  /\ UNCHANGED active

\* The empty choice clears the session of the scope.
PickNone ==
  /\ active /\ (scope.session = None \/ panel.selfWritten) /\ panel.ref # None /\ Spend("picks")
  /\ scope' = Narrow(scope, [session |-> None])
  /\ panel' = [NoSelection(Delivered(panel, scope')) EXCEPT !.phase = "idle", !.ref = None, !.events = {}]
  /\ histories' = Dropped(histories) /\ signatures' = Dropped(signatures) /\ timer' = FALSE
  /\ UNCHANGED active

\* The source picker filters what is loaded.
PickSource ==
  /\ active /\ panel.phase = "ready" /\ Spend("picks")
  /\ scope.session # None /\ scope.session.source # None => panel.selfWritten
  /\ \E s \in Sources \cup {None}, member \in BOOLEAN :
       LET ref == [panel.ref EXCEPT !.source = s]
           sc == Written(scope, ref, member)
           p == Own([panel EXCEPT !.ref = ref], ref)
       IN /\ s # panel.ref.source /\ scope' = sc
          /\ Settle(DeriveIfLoaded(NoSelection(Delivered(p, sc))), ToOpen(p, sc))
  /\ UNCHANGED active

\* The refresh of the panel, or Retry after an error or a pause.
Reopen ==
  /\ active /\ panel.ref # None /\ Spend("picks") /\ Settle(panel, panel.ref) /\ UNCHANGED <<scope, active>>

(***************************************************************************)
(* The daemon and the timeout.                                             *)
(***************************************************************************)
HistoryAnswered ==
  /\ \E h \in histories :
       /\ histories' = histories \ {h}
       /\ panel' = IF h.inForce THEN Derive([panel EXCEPT !.phase = "ready", !.events = {e \in Errors : e.session = h.ref.id}])
                   ELSE panel
  /\ UNCHANGED <<scope, active, signatures, timer, budget>>

HistoryFails ==
  /\ \E h \in histories :
       /\ h.inForce /\ histories' = histories \ {h}
       /\ panel' = [panel EXCEPT !.phase = "error"] /\ signatures' = Dropped(signatures) /\ timer' = FALSE
  /\ Spend("fails") /\ UNCHANGED <<scope, active>>

SignaturesEnd(s, status) ==
  /\ signatures' = signatures \ {s}
  /\ IF s.inForce THEN panel' = DeriveIfLoaded([panel EXCEPT !.status = status]) /\ timer' = FALSE
     ELSE UNCHANGED <<panel, timer>>
  /\ UNCHANGED <<scope, active, histories>>

SignaturesAnswered == UNCHANGED budget /\ \E s \in signatures : SignaturesEnd(s, "ready")
SignaturesFail == Spend("fails") /\ \E s \in signatures : SignaturesEnd(s, "unavailable")

\* The timeout gives the signatures up; an answer after it is dropped.
SignaturesTimeOut ==
  /\ timer /\ timer' = FALSE /\ signatures' = Dropped(signatures)
  /\ panel' = DeriveIfLoaded([panel EXCEPT !.status = "unavailable"])
  /\ UNCHANGED <<scope, active, histories, budget>>

(***************************************************************************)
(* Groups, intervals, comparison and detail.                               *)
(***************************************************************************)
Ready == active /\ panel.phase = "ready" /\ Spend("clicks") /\ UNCHANGED <<scope, active, histories, signatures, timer>>

ClickSignature ==
  Ready /\ \E k \in Recurring(panel) : k # panel.key /\ panel' = [NoSelection(panel) EXCEPT !.key = k]

ClickInterval ==
  /\ Ready /\ panel.key # None
  /\ \E i \in Intervals(panel, panel.key) : IntervalIn(i, panel.win) /\ panel' = ResetComparison([panel EXCEPT !.interval = i])

Compare ==
  /\ Ready /\ panel.interval # None
  /\ \E i \in Intervals(panel, panel.key) :
       /\ i # panel.interval /\ IntervalIn(i, panel.win)
       /\ panel' = [CancelDetail(panel) EXCEPT !.comparison = <<panel.interval, i>>]

\* An occurrence on the list: the loaded envelope at once, then the full one.
SelectEvent ==
  /\ Ready /\ panel.key # None
  /\ \E e \in Group(panel, panel.key) :
       InWindow(e, panel.win) /\ panel' = [CancelDetail(panel) EXCEPT !.detail = e, !.details = @ \cup {[event |-> e, inForce |-> TRUE]}]

CloseDetail == Ready /\ panel.detail # None /\ panel' = CancelDetail(panel)

DetailAnswered ==
  /\ \E d \in panel.details : panel' = [panel EXCEPT !.details = @ \ {d}, !.detail = IF d.inForce THEN d.event ELSE @]
  /\ UNCHANGED <<scope, active, histories, signatures, timer, budget>>

Next ==
  \/ Enter \/ Leave \/ ScopeMoves
  \/ PickSession \/ PickNone \/ PickSource \/ Reopen
  \/ HistoryAnswered \/ HistoryFails \/ SignaturesAnswered \/ SignaturesFail \/ SignaturesTimeOut
  \/ ClickSignature \/ ClickInterval \/ Compare \/ SelectEvent \/ CloseDetail \/ DetailAnswered

Spec == Init /\ [][Next]_vars

(***************************************************************************)
(* Properties.                                                             *)
(***************************************************************************)
TypeOK ==
  /\ scope \in Scopes /\ {active, timer, panel.selfWritten} \subseteq BOOLEAN
  /\ panel.phase \in {"idle", "loading", "error", "ready"} /\ panel.status \in {"pending", "ready", "unavailable"}
  /\ {panel.ref, panel.last} \subseteq Refs \cup {None} /\ panel.win \in AnyWindow /\ panel.events \subseteq Errors
  /\ \A r \in histories \cup signatures : r.ref \in Refs /\ r.inForce \in BOOLEAN
  /\ panel.interval # None => panel.interval \in Errors \X Errors
  /\ panel.comparison # None => {panel.comparison[1], panel.comparison[2]} \subseteq Errors \X Errors

\* On the screen the lens shows the session and the window of the scope, whoever
\* wrote them, and loads exactly while a request of it is under way.
LoopsOfScope ==
  active =>
    /\ panel.win = scope.window
    /\ scope.session # None => panel.ref = scope.session
    /\ (panel.phase = "loading") <=> (\E h \in histories : h.inForce /\ h.ref.id = panel.ref.id)

\* What is selected exists: the interval and both sides of the comparison are
\* intervals of the signature shown, under the membership of the moment, and
\* all of it lies in the window.
SelectionExists ==
  panel.phase = "ready" =>
    /\ panel.key # None => panel.key \in Recurring(panel)
    /\ panel.interval # None => panel.interval \in Intervals(panel, panel.key) /\ IntervalIn(panel.interval, panel.win)
    /\ panel.comparison # None =>
         \A n \in 1..2 : panel.comparison[n] \in Intervals(panel, panel.key) /\ IntervalIn(panel.comparison[n], panel.win)
    /\ panel.detail # None => panel.detail \in Shown(panel) /\ InWindow(panel.detail, panel.win)

\* A pick in the source picker filters what is loaded: the write comes back to
\* the lens through the host, and does not load the session again.
PicksInPlace == PickSource => panel'.phase = "ready" /\ histories' = histories /\ signatures' = signatures
=============================================================================
