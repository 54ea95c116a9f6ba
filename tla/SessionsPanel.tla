--------------------------- MODULE SessionsPanel ---------------------------
(***************************************************************************)
(* The Worktree panel of the viewer (ui/sessions.ts): the list of the      *)
(* worktrees or the sessions of the shared scope, rebuilt from requests    *)
(* that settle in any order or not at all, and the history of one session  *)
(* beside it.                                                              *)
(*                                                                         *)
(* Two agents, a and b, share the native id 1; /sessions knows one row for *)
(* an id, /attention one entry for each agent.  A refresh or a history is  *)
(* in force (its generation is the panel's) or it has been superseded.     *)
(***************************************************************************)
EXTENDS ScopeStore, Naturals, FiniteSets

CONSTANTS
  Failed,        \* what a request settles with that failed, hung or was not needed
  MaxOverlap,    \* bound: refreshes, and histories, under way at a time
  Budgets        \* bound: events of id 1, moves of the scope, clicks, failures, departures

Sources == {"a", "b"}
Worktrees == {"wa", "wb"}
ProjectOf == [w \in Worktrees |-> IF w = "wa" THEN "pa" ELSE "pb"]
Ref(i, s) == [id |-> i, source |-> s]
Holds == [w \in Worktrees |-> {Ref(1, IF w = "wa" THEN "a" ELSE "b")}]
Refs == {Ref(1, "a"), Ref(1, "b"), Ref(2, "a")}
Blank == [kind |-> "blank", project |-> None, worktree |-> None, read |-> None, rows |-> {}]

VARIABLES
  scope,
  shown,         \* the panel is on screen
  first,         \* the agent whose event came first: the source of the row of id 1
  captured,      \* events of id 1 by each agent
  rowsHeld,      \* the resolver holds the projects' lifetime rows
  refreshes,     \* in force, and what each request settled with: None, Failed, an answer
  list,          \* what the list shows: its kind, the scope and the answer it was drawn for
  histories,     \* histories being fetched: in force, ref, filtered, served
  historyRef, loaded,
  selectedWt,
  budget

vars == <<scope, shown, first, captured, rowsHeld, refreshes, list, histories, historyRef, loaded, selectedWt, budget>>
historyVars == <<histories, historyRef, loaded>>
Spend(what) == budget[what] > 0 /\ budget' = [budget EXCEPT ![what] = @ - 1]

Total(n) == n["a"] + n["b"]

TypeOK ==
  /\ scope \in [project : {"pa", "pb", None}, worktree : Worktrees \cup {None},
                session : Refs \cup {None}, cell : Sources \cup {None}, window : {Live}]
  /\ shown \in BOOLEAN /\ rowsHeld \in BOOLEAN /\ first \in Sources /\ captured \in [Sources -> Nat]
  /\ Cardinality({r \in refreshes : r.inForce}) <= 1 /\ Cardinality({h \in histories : h.inForce}) <= 1
  /\ historyRef \in Refs \cup {None} /\ (loaded # None => loaded.id \in {1, 2})
  /\ selectedWt \in Worktrees \cup {None}

Init ==
  /\ scope = EmptyScope /\ shown = TRUE /\ first \in Sources /\ captured = [s \in Sources |-> 0]
  /\ rowsHeld \in BOOLEAN /\ refreshes = {} /\ list = Blank /\ histories = {}
  /\ historyRef = None /\ loaded = None /\ selectedWt = None /\ budget \in Budgets

Capture ==
  /\ Spend("events")
  /\ \E s \in Sources : /\ s = first \/ captured[first] > 0
                        /\ captured' = [captured EXCEPT ![s] = @ + 1]
  /\ UNCHANGED <<scope, shown, first, rowsHeld, refreshes, list, historyVars, selectedWt>>

(***************************************************************************)
(* The history and the scope.                                              *)
(***************************************************************************)
Superseded(set) == {[x EXCEPT !.inForce = FALSE] : x \in set}

DropHistory == histories' = Superseded(histories) /\ historyRef' = None /\ loaded' = None

\* Variant: only a cell that opens drops the history.
DepartsWithCell(prev, next) == next.cell # None /\ next.cell # prev.cell

\* The history leaves with a cell that opens and with a context that no longer names it.
Departs(prev, next) ==
  \/ next.cell # None /\ next.cell # prev.cell
  \/ /\ \E f \in {"project", "worktree", "session"} : next[f] # prev[f]
     /\ next.session = None \/ next.session # historyRef

\* The panel's subscription: the mark of the worktree last left, and the history.
Follow(prev, next) ==
  /\ selectedWt' = IF prev.worktree # None /\ next.worktree = None /\ next.project = prev.project
                   THEN prev.worktree
                   ELSE IF next.project # prev.project THEN None ELSE selectedWt
  /\ IF historyRef # None /\ Departs(prev, next) THEN DropHistory ELSE UNCHANGED historyVars

\* Of a superseded refresh the list's answer tells enough.
StartRefresh ==
  /\ Cardinality(refreshes) < MaxOverlap
  /\ refreshes' = {[r EXCEPT !.inForce = FALSE, !.attended = Failed] : r \in refreshes} \cup
       {[inForce |-> TRUE, list |-> None, attended |-> None]}

\* Other panels, the breadcrumb and Escape move the scope; the list is not redrawn then.
ScopeMoves ==
  /\ Spend("moves")
  /\ \E next \in {Narrow(scope, [project |-> p, cell |-> None]) : p \in {"pa", "pb"}}
                 \cup {Narrow(scope, [project |-> ProjectOf[w], worktree |-> w, cell |-> None]) : w \in Worktrees}
                 \cup {SelectSession(scope, r, FALSE) : r \in {Ref(2, "a")}}
                 \cup {Narrow(scope, [cell |-> "a"]), Ascend(scope)} :
       next # scope /\ scope' = next /\ Follow(scope, next)
  /\ UNCHANGED <<shown, first, captured, rowsHeld, refreshes, list>>

\* openSession: the heading stays empty until the events and the summary are there.
OpenHistory(ref, filtered) ==
  /\ Cardinality(histories) < MaxOverlap
  /\ histories' = Superseded(histories) \cup {[inForce |-> TRUE, id |-> ref.id, served |-> FALSE,
                                               source |-> IF filtered THEN ref.source ELSE None]}
  /\ historyRef' = ref

\* A session opened from another panel: the scope moves first, dropping another history.
OpenFromElsewhere ==
  /\ Spend("clicks")
  /\ \E r \in Refs \ {Ref(2, "a")} :
       LET member == scope.worktree # None /\ rowsHeld /\ r \in Holds[scope.worktree]
           next == IF member THEN Narrow(scope, [session |-> r, cell |-> None])
                   ELSE ReplaceContext(scope, [session |-> r])
       IN /\ scope' = next
          /\ selectedWt' = IF next.project # scope.project THEN None ELSE selectedWt
          /\ OpenHistory(r, TRUE)
          /\ loaded' = IF historyRef # None /\ Departs(scope, next) THEN None ELSE loaded
  /\ shown' = TRUE /\ StartRefresh
  /\ UNCHANGED <<first, captured, rowsHeld, list>>

\* A session row: chosen in the scope, then opened, within a worktree for its agent only.
ClickSession ==
  /\ shown /\ list.kind = "sessions" /\ Spend("clicks")
  /\ \E row \in list.rows :
       LET r == Ref(row.id, row.source)
           member == (scope.worktree # None /\ rowsHeld /\ r \in Holds[scope.worktree])
                     \/ (scope.worktree = None /\ scope.project # None /\ rowsHeld
                         /\ \E w \in Worktrees : ProjectOf[w] = scope.project /\ r \in Holds[w])
           next == SelectSession(scope, r, member)
       IN /\ scope' = next
          /\ selectedWt' = IF next.project # scope.project THEN None ELSE selectedWt
          /\ OpenHistory(r, next.worktree # None)
          /\ loaded' = IF historyRef # None /\ Departs(scope, next) THEN None ELSE loaded
  /\ UNCHANGED <<shown, first, captured, rowsHeld, refreshes, list>>

ServeHistory ==
  /\ \E h \in histories : ~h.served /\ histories' = (histories \ {h}) \cup {[h EXCEPT !.served = TRUE]}
  /\ UNCHANGED <<scope, shown, first, captured, rowsHeld, refreshes, list, historyRef, loaded, selectedWt, budget>>

\* Variant: whichever history answers is shown.
InForceAny(x) == TRUE

InForce(x) == x.inForce

HistoryAnswered ==
  /\ \E h \in histories : h.served /\ histories' = histories \ {h} /\
       loaded' = (IF InForce(h) THEN [id |-> h.id, source |-> h.source] ELSE loaded)
  /\ UNCHANGED <<scope, shown, first, captured, rowsHeld, refreshes, list, historyRef, selectedWt, budget>>

\* The error takes the place of the events, but loaded stays.
HistoryFails ==
  /\ Spend("fails")
  /\ \E h \in histories : ~h.served /\ histories' = histories \ {h} /\
       historyRef' = (IF InForce(h) THEN None ELSE historyRef)
  /\ UNCHANGED <<scope, shown, first, captured, rowsHeld, refreshes, list, loaded, selectedWt>>

(***************************************************************************)
(* The list.                                                               *)
(***************************************************************************)
\* A worktree row of a list that has outlived its project does nothing.
ClickWorktree ==
  /\ shown /\ list.kind = "worktrees" /\ Spend("clicks") /\ scope.project = list.project
  /\ \E w \in Worktrees :
       /\ ProjectOf[w] = list.project
       /\ scope' = Narrow(scope, [worktree |-> w, cell |-> None]) /\ Follow(scope, scope') /\ StartRefresh
  /\ UNCHANGED <<shown, first, captured, rowsHeld, list>>

\* The chip of a cell, and All worktrees.
ClickBack ==
  /\ shown /\ list.kind = "sessions" /\ Spend("clicks")
  /\ \/ scope.cell # None /\ scope' = Narrow(scope, [cell |-> None])
     \/ scope.worktree # None /\ scope' = Narrow(scope, [worktree |-> None])
  /\ Follow(scope, scope') /\ StartRefresh
  /\ UNCHANGED <<shown, first, captured, rowsHeld, list>>

\* Variant: the timer starts a refresh whether or not one is pending.
PollStarving ==
  /\ shown /\ StartRefresh
  /\ UNCHANGED <<scope, shown, first, captured, rowsHeld, list, historyVars, selectedWt, budget>>

\* Every 5 s, unless a refresh is pending.
Poll ==
  /\ shown /\ refreshes = {} /\ scope' = scope /\ StartRefresh
  /\ UNCHANGED <<shown, first, captured, rowsHeld, list, historyVars, selectedWt, budget>>

Show ==
  /\ ~shown /\ Spend("visits") /\ shown' = TRUE /\ scope' = scope /\ StartRefresh
  /\ UNCHANGED <<first, captured, rowsHeld, list, historyVars, selectedWt>>
Leave ==
  /\ shown /\ Spend("visits") /\ shown' = FALSE
  /\ UNCHANGED <<scope, first, captured, rowsHeld, refreshes, list, historyVars, selectedWt>>

\* One of the requests settles with what the daemon holds then.
Serve ==
  /\ \E r \in refreshes : \E what \in {"list", "attended"} :
       r[what] = None /\ refreshes' = (refreshes \ {r}) \cup {[r EXCEPT ![what] = captured]}
  /\ UNCHANGED <<scope, shown, first, captured, rowsHeld, list, historyVars, selectedWt, budget>>

\* The third, the resolver's refresh: what it waits for arrives for any panel that asks.
ServeRows ==
  /\ ~rowsHeld /\ refreshes # {} /\ rowsHeld' = TRUE
  /\ UNCHANGED <<scope, shown, first, captured, refreshes, list, historyVars, selectedWt, budget>>

ServeFails ==
  /\ Spend("fails")
  /\ \E r \in refreshes : \E what \in {"list", "attended"} :
       r[what] = None /\ refreshes' = (refreshes \ {r}) \cup {[r EXCEPT ![what] = Failed]}
  /\ UNCHANGED <<scope, shown, first, captured, rowsHeld, list, historyVars, selectedWt>>

Settle(answer) == IF answer = None THEN Failed ELSE answer

\* The signal's timeout settles every request of a refresh that still hangs.
Deadline ==
  /\ \E r \in refreshes :
       /\ \E what \in {"list", "attended"} : r[what] = None
       /\ refreshes' = (refreshes \ {r}) \cup {[r EXCEPT !.list = Settle(@), !.attended = Settle(@)]}
  /\ UNCHANGED <<scope, shown, first, captured, rowsHeld, list, historyVars, selectedWt, budget>>

\* listRows: the worktrees of the project, unless a worktree or a cell is selected.
ListsWorktrees == scope.project # None /\ scope.worktree = None /\ scope.cell = None /\ rowsHeld

\* The rows of /sessions: the source of id 1 is the agent that came first.
Listed(n) == {[id |-> 2, source |-> "a", of |-> {"a"}, own |-> FALSE]} \cup
             (IF Total(n) = 0 THEN {}
              ELSE {[id |-> 1, source |-> first, of |-> {s \in Sources : n[s] > 0}, own |-> FALSE]})

\* The row of id 1 stands for its own agent when that agent's entry of /attention
\* accounts for all the events of the row.
OwnRow(n, attended, m) == first = m.source /\ attended # Failed /\ attended[m.source] = Total(n)

\* rowsInScope: within a worktree a member has a row of its own, the listed one when it
\* is proven, else one rebuilt from the lifetime's reference; the other rows stay.
RowsInScope(n, attended) ==
  IF scope.worktree = None \/ ~rowsHeld THEN Listed(n)
  ELSE LET members == Holds[scope.worktree]
           Own(m) == {[x EXCEPT !.own = TRUE] : x \in {x \in Listed(n) : Ref(x.id, x.source) = m
                                                                     /\ OwnRow(n, attended, m)}}
           Rebuilt(m) == {[id |-> m.id, source |-> m.source, of |-> {m.source}, own |-> TRUE]}
       IN {x \in Listed(n) : Ref(x.id, x.source) \notin members}
          \cup UNION {IF Own(m) # {} THEN Own(m) ELSE Rebuilt(m) : m \in members}

InScope(x) ==
  /\ scope.cell = None \/ x.source = scope.cell
  /\ ~rowsHeld \/ (scope.project = None /\ scope.worktree = None)
     \/ \E w \in Worktrees : /\ (IF scope.worktree # None THEN w = scope.worktree ELSE ProjectOf[w] = scope.project)
                             /\ Ref(x.id, x.source) \in Holds[w]

\* All have settled: the refresh in force draws the list for the scope of now.
Settled ==
  /\ \E r \in refreshes :
       /\ r.list # None /\ r.attended # None /\ refreshes' = refreshes \ {r}
       /\ list' = IF ~InForce(r) THEN list
                  ELSE [kind |-> IF ListsWorktrees THEN "worktrees"
                                 ELSE IF r.list = Failed THEN "error" ELSE "sessions",
                        project |-> scope.project, worktree |-> scope.worktree,
                        read |-> IF r.list = Failed THEN None ELSE r.list,
                        rows |-> IF ListsWorktrees \/ r.list = Failed THEN {}
                                 ELSE {x \in RowsInScope(r.list, r.attended) : InScope(x)}]
  /\ UNCHANGED <<scope, shown, first, captured, rowsHeld, historyVars, selectedWt, budget>>

Next ==
  \/ Capture \/ ScopeMoves \/ OpenFromElsewhere \/ ClickSession \/ ServeHistory \/ HistoryAnswered
  \/ HistoryFails \/ ClickWorktree \/ ClickBack \/ Poll \/ Show \/ Leave \/ Serve \/ ServeRows \/ ServeFails
  \/ Deadline \/ Settled

Spec == Init /\ [][Next]_vars

(***************************************************************************)
(* Properties.                                                             *)
(***************************************************************************)
\* A history on screen or on its way is the one of the session in scope, and once it has
\* arrived the events shown are of that session, whatever is clicked while older histories
\* still load.  (Until then loaded may be of another session, when a fetch has failed.)
HistoryOfScope ==
  /\ historyRef # None /\ scope.session # None => historyRef = scope.session
  /\ historyRef # None => IF \E h \in histories : h.inForce
                           THEN \A h \in histories : h.inForce => h.id = historyRef.id
                           ELSE loaded # None /\ loaded.id = historyRef.id

\* A selected worktree belongs to the selected project, however late the click on a
\* list drawn for another project; and so does the worktree marked as last left.
WorktreeInProject ==
  /\ scope.worktree # None => scope.project = ProjectOf[scope.worktree]
  /\ selectedWt # None => scope.project = ProjectOf[selectedWt]

\* The list never goes back to fewer events: a slow refresh does not overwrite a newer one.
ListForward == list.read # None /\ list'.read # None => \A s \in Sources : list'.read[s] >= list.read[s]

\* On screen, the list comes to be drawn for the scope of now, also when requests hang.
ListFollowsScope ==
  ~shown \/ (list.kind # "blank" /\ list.project = scope.project /\ list.worktree = scope.worktree)
=============================================================================
