---------------------------- MODULE RouteLenses ----------------------------
(***************************************************************************)
(* The lenses that load one exact source and session and inspect receipts  *)
(* in it: Loom (ui/loom), Replay (ui/replay) and the Patch ecosystem       *)
(* (ui/ecosystem).  Loom and Replay are tabs of a session and get the scope*)
(* from the host; the ecosystem is a panel with fields of its own.         *)
(*                                                                         *)
(* A behaviour is about one of the three.  A record is an observation as   *)
(* the daemon returns it; two records of one id with different bodies are  *)
(* a conflict, and the route leaves both out.                              *)
(***************************************************************************)
EXTENDS FiniteSets, Naturals

CONSTANTS
  None, Live,         \* nothing; the window that follows live
  Records,            \* [id, source, session, time, body]
  Kept,               \* the records captured from the start
  Sessions, Sources,  \* session ids and sources
  Windows,            \* sets of times, or Live
  Budgets

VARIABLES
  kind,
  captured,
  scope,              \* [session : [id, source] or None, win]
  active,             \* the lens is on the screen
  fields,             \* [source, session] as typed or filled in
  given,              \* what the host delivered: [key, win]
  route,              \* the records of the loaded route, or None
  failed,             \* the last load ended without one
  loads, receipts,    \* requests
  focus,              \* the observation in focus; of the ecosystem, the one inspected
  shown,              \* the receipt on the screen
  budget

vars == <<kind, captured, scope, active, fields, given, route, failed, loads, receipts, focus, shown, budget>>
Spend(what) == budget[what] > 0 /\ budget' = [budget EXCEPT ![what] = @ - 1]
Refs == [id : Sessions, source : Sources \cup {None}]
Tabbed == kind \in {"loom", "replay"}

TypeOK ==
  /\ kind \in {"loom", "replay", "ecosystem"} /\ captured \subseteq Records
  /\ scope.session \in Refs \cup {None} /\ scope.win \in Windows /\ {active, failed} \subseteq BOOLEAN
  /\ fields.session \in Sessions \cup {None} /\ fields.source \in Sources \cup {None}
  /\ given.key \in Refs \cup {None} /\ given.win \in Windows
  /\ route # None => route \subseteq Records
  /\ \A x \in loads : x.served = None \/ x.served \subseteq Records
  /\ \A x \in receipts : x.record \in Records /\ x.inForce \in BOOLEAN
  /\ {focus, shown} \subseteq Records \cup {None}

Init ==
  /\ kind \in {"loom", "replay", "ecosystem"} /\ captured = Kept
  /\ scope \in [session : Refs \cup {None}, win : {Live}] /\ active = FALSE
  /\ fields = [session |-> None, source |-> None] /\ given = [key |-> None, win |-> Live]
  /\ route = None /\ failed = FALSE /\ loads = {} /\ receipts = {} /\ focus = None /\ shown = None
  /\ budget \in Budgets

(***************************************************************************)
(* The panel as a record, so that handlers compose.                        *)
(***************************************************************************)
Panel == [fields |-> fields, given |-> given, route |-> route, failed |-> failed, loads |-> loads,
          receipts |-> receipts, focus |-> focus, shown |-> shown]
Become(p) ==
  /\ fields' = p.fields /\ given' = p.given /\ route' = p.route /\ failed' = p.failed /\ loads' = p.loads
  /\ receipts' = p.receipts /\ focus' = p.focus /\ shown' = p.shown

Dropped(requests) == {[r EXCEPT !.inForce = FALSE] : r \in requests}
CancelReceipt(p) == [p EXCEPT !.receipts = Dropped(@), !.shown = None]
ClearFocus(p) == [CancelReceipt(p) EXCEPT !.focus = None]
\* Another scope: nothing of the old one stays.
ClearScope(p) == [ClearFocus(p) EXCEPT !.loads = Dropped(@), !.route = None, !.failed = FALSE]

\* load: explicit, or by the host; both fields are needed.
Load(p) ==
  LET q == ClearScope(p)
  IN IF None \in {q.fields.source, q.fields.session} THEN q
     ELSE [q EXCEPT !.loads = @ \cup {[source |-> q.fields.source, session |-> q.fields.session, served |-> None, inForce |-> TRUE]}]

InWindow(r, w) == w # Live => r.time \in w

\* windowChanged: only what is loaded, and the focus leaves with its time.
WindowChanged(p) ==
  IF p.route # None /\ p.focus # None /\ ~InWindow(p.focus, p.given.win) THEN ClearFocus(p) ELSE p

\* setContext: a session is loaded once per key, a window filters.
SetContext(p, s) ==
  LET changed == s.win # p.given.win
      q == [p EXCEPT !.given = [key |-> s.session, win |-> s.win]]
      kept == IF s.session.source = None /\ p.fields.session = s.session.id THEN p.fields.source ELSE None
      moved == [ClearScope(q) EXCEPT !.fields =
                  [session |-> s.session.id, source |-> IF s.session.source # None THEN s.session.source ELSE kept]]
  IN IF s.session # None /\ s.session # p.given.key
     THEN IF s.session.source # None THEN Load(moved) ELSE moved
     ELSE IF changed THEN WindowChanged(q) ELSE q

(***************************************************************************)
(* The host and the scope.                                                 *)
(***************************************************************************)
\* A tab gets its context and its refresh drops the receipt; the ecosystem
\* only asks for choices.
Enter ==
  /\ ~active /\ Spend("moves") /\ active' = TRUE
  /\ Become(IF Tabbed THEN CancelReceipt(SetContext(Panel, scope)) ELSE Panel)
  /\ UNCHANGED <<kind, captured, scope>>

\* Variant: the tab is left with its key, as if it had been delivered.
LeftKeeping(p) == [CancelReceipt(p) EXCEPT !.loads = Dropped(@)]

Left(p) == [CancelReceipt(p) EXCEPT !.loads = Dropped(@), !.given.key = None]

Leave == active /\ active' = FALSE /\ Become(Left(Panel)) /\ UNCHANGED <<kind, captured, scope, budget>>

ScopeMoves ==
  /\ Tabbed /\ Spend("moves")
  /\ \E s \in [session : Refs \cup {None}, win : Windows] :
       s # scope /\ scope' = s /\ Become(IF active THEN SetContext(Panel, s) ELSE Panel)
  /\ UNCHANGED <<kind, captured, active>>

(***************************************************************************)
(* The fields.                                                             *)
(***************************************************************************)
SessionLocked == Tabbed /\ scope.session # None
SourceLocked == Tabbed /\ scope.session # None /\ scope.session.source # None

Typed(p, f) == [ClearScope(p) EXCEPT !.fields = f]

\* Typing into a field, or a choice that fills both.
TypeFields ==
  /\ active /\ ~SourceLocked /\ Spend("edits")
  /\ \E f \in [session : Sessions, source : Sources] :
       f # fields /\ (SessionLocked => f.session = fields.session) /\ Become(Typed(Panel, f))
  /\ UNCHANGED <<kind, captured, scope, active>>

ClickLoad == active /\ Spend("edits") /\ Become(Load(Panel)) /\ UNCHANGED <<kind, captured, scope, active>>

\* Under a session in scope only its own branches can be loaded.
OfScope(b) ==
  scope.session # None =>
    b.session = scope.session.id /\ (scope.session.source # None => b.source = scope.session.source)

\* The route of the branch in the editor of Replay (LocalNotebooks).
LoadBranch ==
  /\ kind = "replay" /\ active /\ Spend("edits")
  /\ \E b \in [session : Sessions, source : Sources] : OfScope(b) /\ Become(Load([Panel EXCEPT !.fields = b]))
  /\ UNCHANGED <<kind, captured, scope, active>>

(***************************************************************************)
(* The daemon.                                                             *)
(***************************************************************************)
Capture ==
  /\ Spend("captures") /\ \E r \in Records \ captured : captured' = captured \cup {r}
  /\ UNCHANGED <<kind, scope, active, fields, given, route, failed, loads, receipts, focus, shown>>

ServeRoute ==
  /\ \E x \in loads : x.inForce /\ x.served = None /\
       loads' = (loads \ {x}) \cup {[x EXCEPT !.served = {r \in captured : r.session = x.session}]}
  /\ UNCHANGED <<kind, captured, scope, active, fields, given, route, failed, receipts, focus, shown, budget>>

\* buildLoom, buildReplayRoute, buildEcosystem: the exact scope, without
\* conflicting ids.
Build(served, source) ==
  LET own == {r \in served : r.source = source}
  IN {r \in own : \A q \in own : q.id = r.id => q = r}

Current(x) == x.inForce /\ fields = [session |-> x.session, source |-> x.source]

LoadAnswered ==
  /\ \E x \in loads :
       /\ x.served # None
       /\ Become(IF Current(x) THEN [ClearFocus(Panel) EXCEPT !.loads = @ \ {x}, !.route = Build(x.served, x.source)]
                 ELSE [Panel EXCEPT !.loads = @ \ {x}])
  /\ UNCHANGED <<kind, captured, scope, active, budget>>

LoadFails ==
  /\ \E x \in loads :
       /\ IF x.inForce THEN Spend("fails") ELSE UNCHANGED budget
       /\ Become([Panel EXCEPT !.loads = @ \ {x}, !.failed = @ \/ x.inForce])
  /\ UNCHANGED <<kind, captured, scope, active>>

(***************************************************************************)
(* Observations and their receipts.                                        *)
(***************************************************************************)
Focus ==
  /\ active /\ route # None /\ Spend("edits")
  /\ \E r \in route : InWindow(r, given.win) /\ Become([ClearFocus(Panel) EXCEPT !.focus = r])
  /\ UNCHANGED <<kind, captured, scope, active>>

\* Searching, filtering and paging drop the focus or the receipt.
Browse ==
  /\ active /\ Spend("edits") /\ Become(ClearFocus(Panel)) /\ UNCHANGED <<kind, captured, scope, active>>

Inspect ==
  /\ active /\ focus # None /\ Spend("edits")
  /\ Become([CancelReceipt(Panel) EXCEPT !.receipts = @ \cup {[record |-> focus, inForce |-> TRUE]}])
  /\ UNCHANGED <<kind, captured, scope, active>>

\* Variant: the identity of the answer is not compared.
IdentityAny(full) == TRUE

Identity(full) == full.source = fields.source /\ full.session = fields.session

\* The store may answer an id with the record of another session.
ReceiptAnswered ==
  /\ \E x \in receipts, full \in captured :
       /\ full.id = x.record.id
       /\ Become([Panel EXCEPT !.receipts = @ \ {x}, !.shown = IF x.inForce /\ Identity(full) THEN full ELSE @])
  /\ UNCHANGED <<kind, captured, scope, active, budget>>

ReceiptFails ==
  /\ \E x \in receipts :
       Become([Panel EXCEPT !.receipts = @ \ {x}])
  /\ Spend("fails") /\ UNCHANGED <<kind, captured, scope, active>>

Next ==
  \/ Enter \/ Leave \/ ScopeMoves
  \/ TypeFields \/ ClickLoad \/ LoadBranch
  \/ Capture \/ ServeRoute \/ LoadAnswered \/ LoadFails
  \/ Focus \/ Browse \/ Inspect \/ ReceiptAnswered \/ ReceiptFails

Spec == Init /\ [][Next]_vars

(***************************************************************************)
(* Properties.                                                             *)
(***************************************************************************)
Covers(f, ref) == f.session = ref.id /\ (ref.source # None => f.source = ref.source)

\* What is loaded is what the fields say, and under a session in scope the
\* fields say that session.
RouteOfScope ==
  /\ route # None => \A r \in route : r.source = fields.source /\ r.session = fields.session
  /\ active /\ Tabbed /\ scope.session # None => Covers(fields, scope.session)

\* A receipt belongs to the observation in focus and to the loaded scope, and
\* the focus is on the screen: of the route, inside the window.
ReceiptOfFocus ==
  /\ shown # None => focus # None /\ shown.id = focus.id /\ shown.source = focus.source /\ shown.session = focus.session
  /\ focus # None => route # None /\ focus \in route /\ InWindow(focus, given.win)

\* A session in scope with its source is loaded without being asked for, also
\* when the tab was left while it was loading.
ScopeArrives ==
  active /\ Tabbed /\ scope.session # None /\ scope.session.source # None => route # None \/ failed
=============================================================================
