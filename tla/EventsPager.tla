---------------------------- MODULE EventsPager ----------------------------
(***************************************************************************)
(* The Events view of the hosted workspace graph (ui/graph/index.ts with   *)
(* its TimelineState): live events and pages of the durable history merged *)
(* into one bounded set, with the cursor from which "Load older" goes on.  *)
(*                                                                         *)
(* An event is its place in the durable log, in the order of event times,  *)
(* and is of a worktree: w, which the topology holds, or gone, one that it *)
(* holds no more.  A query for one category stands for every filter; it    *)
(* finds the events of w.  A request is in force or it has been aborted,   *)
(* perhaps after it was answered.                                          *)
(***************************************************************************)
EXTENDS Naturals, Sequences, FiniteSets

CONSTANTS
  None,
  Cap,           \* TIMELINE_CAP
  Page,          \* TIMELINE_PAGE
  Recent,        \* ACTIVITY_PAGE
  Budgets        \* bounds: events captured, choices of the user, moves of the scope, failures, visits

VARIABLES
  log,           \* the worktree of each captured event
  fed,           \* events that the stream has delivered
  held,          \* TimelineState.events
  shown, tab,
  workspace,     \* the graph's own selection
  scopeWorktree, \* scope.worktree
  category,      \* the filter is set
  cursor, hasMore,
  missed,        \* missedWhileHidden > 0
  requests, historyError,
  crowded,       \* a full set lost rows of a page of this query, or others while one was on its way,
                 \* or older rows to a page of the Graph tab, which restarts nothing; or the scope
                 \* came from or to the worktree that is gone, and nothing restarted
  arriving,      \* the refresh that show started has not landed
  budget

vars == <<log, fed, held, shown, tab, workspace, scopeWorktree, category, cursor, hasMore, missed, requests, historyError, arriving, crowded, budget>>
pageVars == <<cursor, hasMore>>
Spend(what) == budget[what] > 0 /\ budget' = [budget EXCEPT ![what] = @ - 1]
Events == 1..Len(log)

TypeOK ==
  /\ log \in Seq({"w", "gone"}) /\ fed \in 0..Len(log) /\ held \subseteq Events /\ Cardinality(held) <= Cap
  /\ {shown, category, hasMore, missed, historyError, arriving, crowded} \subseteq BOOLEAN /\ tab \in {"timeline", "graph"}
  /\ workspace \in {None, "w"} /\ scopeWorktree \in {None, "w", "gone"} /\ cursor \in Events \cup {None}
  /\ Cardinality({r \in requests : r.inForce}) <= 1

Init ==
  /\ log = <<>> /\ fed = 0 /\ held = {} /\ shown = FALSE /\ tab = "graph" /\ workspace = None
  /\ scopeWorktree = None /\ category = FALSE /\ cursor = None /\ hasMore = FALSE /\ missed = FALSE
  /\ requests = {} /\ historyError = FALSE /\ arriving = FALSE /\ crowded = FALSE /\ budget \in Budgets

Capture ==
  /\ Spend("events") /\ \E w \in {"w", "gone"} : log' = Append(log, w)
  /\ UNCHANGED <<arriving, crowded, fed, held, shown, tab, workspace, scopeWorktree, category, pageVars, missed, requests, historyError>>

(***************************************************************************)
(* The bounded set.                                                        *)
(***************************************************************************)
Newest(n, set) == {p \in set : Cardinality({q \in set : q > p}) < n}
Oldest(n, set) == {p \in set : Cardinality({q \in set : q < p}) < n}

\* Variant: the set has no bound.
EvictNone(set, older) == set

\* Over the cap an older page evicts the newest, anything else the oldest.
Evict(set, older) == IF older THEN Oldest(Cap, set) ELSE Newest(Cap, set)

EvictsOlder(set, older) == ~older /\ Cardinality(set) > Cap

(***************************************************************************)
(* Requests.                                                               *)
(***************************************************************************)
EventsWorktree(ws, sc) == IF ws # None THEN ws ELSE sc

Matches(p, wt, cat) == (wt = None \/ log[p] = wt) /\ (~cat \/ log[p] = "w")

Superseded == {[r EXCEPT !.inForce = FALSE] : r \in {r \in requests : r.inForce /\ r.served}}

\* loadHistory: aborts what is under way; the view decides what is asked for, if anything.
Loads(older) ==
  LET kind == IF tab' = "timeline" THEN "timeline" ELSE "activity"
  IN requests' =
       IF ~shown' \/ (kind = "activity" /\ workspace' = None) THEN Superseded
       ELSE Superseded \cup
            {[inForce |-> TRUE, kind |-> kind, older |-> older, served |-> FALSE,
              wt |-> (IF kind = "timeline" THEN EventsWorktree(workspace', scopeWorktree') ELSE workspace'),
              cat |-> (kind = "timeline" /\ category'),
              at |-> (IF kind = "timeline" /\ older THEN cursor' ELSE None),
              events |-> {}, more |-> FALSE, crowded |-> FALSE]}

\* The daemon's page: the newest that match, before the cursor if there is one.
Serve ==
  /\ \E r \in requests : ~r.served /\
       LET found == {p \in Events : Matches(p, r.wt, r.cat) /\ (r.at = None \/ p < r.at)}
           page == Newest(IF r.kind = "timeline" THEN Page ELSE Recent, found)
       IN requests' = (requests \ {r}) \cup {[r EXCEPT !.served = TRUE, !.events = page, !.more = (page # found)]}
  /\ UNCHANGED <<arriving, crowded, log, fed, held, shown, tab, workspace, scopeWorktree, category, pageVars, missed, historyError, budget>>

NextCursor(r) == IF r.more THEN CHOOSE p \in r.events : \A q \in r.events : p <= q ELSE None

\* Variant: a head page that evicts leaves the cursor where it was.
PagesKeeping(r, evicted) ==
  IF r.older \/ cursor = None THEN cursor' = NextCursor(r) /\ hasMore' = r.more ELSE UNCHANGED pageVars

\* A first or an older page moves the cursor; another one that evicts the oldest
\* restarts the pagination at the head (olderEvicted).
Pages(r, evicted) ==
  IF r.older \/ cursor = None THEN cursor' = NextCursor(r) /\ hasMore' = r.more
  ELSE IF evicted THEN cursor' = None /\ hasMore' = TRUE ELSE UNCHANGED pageVars

Current(r) == r.inForce

Answered ==
  \E r \in requests :
    /\ r.served /\ requests' = requests \ {r}
    /\ IF Current(r)
       THEN LET all == held \cup r.events
            IN /\ held' = Evict(all, r.at # None)
               /\ crowded' = \/ r.crowded
                             \/ r.at = None /\ ~(r.events \subseteq held')
                             \/ r.kind = "activity" /\ EvictsOlder(all, FALSE)
                             \/ /\ crowded
                                /\ \/ cursor # None \/ r.at # None \/ r.kind = "activity"
                                   \/ r.wt # EventsWorktree(workspace, scopeWorktree)
               /\ IF r.kind = "timeline"
                  THEN /\ Pages(r, EvictsOlder(all, r.at # None)) /\ historyError' = FALSE
                       /\ missed' = (missed /\ r.older)
                  ELSE UNCHANGED <<pageVars, historyError, missed>>
       ELSE UNCHANGED <<held, pageVars, historyError, missed, crowded>>
    /\ UNCHANGED <<arriving, log, fed, shown, tab, workspace, scopeWorktree, category, budget>>

Fails ==
  /\ Spend("fails")
  /\ \E r \in requests :
       /\ ~r.served /\ requests' = requests \ {r}
       /\ historyError' = (historyError \/ r.kind = "timeline")
  /\ UNCHANGED <<arriving, crowded, log, fed, held, shown, tab, workspace, scopeWorktree, category, pageVars, missed>>

\* onEvent: a hidden view merges nothing and remembers that it missed something.
Deliver ==
  /\ fed < Len(log) /\ fed' = fed + 1
  /\ IF shown
     THEN /\ held' = Evict(held \cup {fed + 1}, FALSE) /\ UNCHANGED missed
          /\ requests' = {[r EXCEPT !.crowded = @ \/ Cardinality(held) = Cap] : r \in requests}
          /\ IF EvictsOlder(held \cup {fed + 1}, FALSE) THEN cursor' = None /\ hasMore' = TRUE
             ELSE UNCHANGED pageVars
     ELSE missed' = TRUE /\ UNCHANGED <<held, pageVars, requests>>
  /\ UNCHANGED <<arriving, crowded, log, shown, tab, workspace, scopeWorktree, category, historyError, budget>>

(***************************************************************************)
(* The view.                                                               *)
(***************************************************************************)
LoadOlder ==
  /\ shown /\ tab = "timeline" /\ hasMore /\ ~\E r \in requests : r.inForce /\ r.older
  /\ Spend("choices") /\ UNCHANGED <<shown, tab, workspace, scopeWorktree, category, pageVars>> /\ Loads(TRUE)
  /\ UNCHANGED <<arriving, crowded, log, fed, held, missed, historyError>>

\* A snapshot that lands takes up the worktree of the scope, then asks for history
\* unless a request is under way.
SnapshotLands ==
  /\ shown /\ arriving' = FALSE
  /\ IF scopeWorktree = "w" /\ workspace # "w"
     THEN workspace' = "w" /\ cursor' = None ELSE UNCHANGED <<workspace, cursor>>
  /\ UNCHANGED <<hasMore, shown, tab, scopeWorktree, category>>
  /\ IF \E r \in requests : r.inForce THEN UNCHANGED requests ELSE Loads(FALSE)
  /\ UNCHANGED <<crowded, log, fed, held, missed, historyError, budget>>

SetQuery ==
  /\ shown /\ tab = "timeline" /\ Spend("choices") /\ category' = ~category /\ cursor' = None
  /\ UNCHANGED <<hasMore, shown, tab, workspace, scopeWorktree>> /\ Loads(FALSE)
  /\ UNCHANGED <<arriving, crowded, log, fed, held, missed, historyError>>

\* The canvas and the Worktree choice of the Events view; published to the scope.  What is
\* selected may be selected again, and a revision alone is no worktree.
SelectWorkspace ==
  /\ shown /\ Spend("choices") /\ \E w \in {None, "w"} : workspace' = w /\ scopeWorktree' = w
  /\ cursor' = None /\ UNCHANGED <<hasMore, shown, tab, category>> /\ Loads(FALSE)
  /\ UNCHANGED <<arriving, crowded, log, fed, held, missed, historyError>>

\* Show in Graph, from a row of w: the cursor stays.
ShowInGraph ==
  /\ shown /\ tab = "timeline" /\ Spend("choices")
  /\ \E p \in held : Matches(p, EventsWorktree(workspace, scopeWorktree), category) /\ log[p] = "w"
  /\ workspace' = "w" /\ scopeWorktree' = "w" /\ tab' = "graph"
  /\ UNCHANGED <<pageVars, shown, category>> /\ Loads(FALSE)
  /\ UNCHANGED <<arriving, crowded, log, fed, held, missed, historyError>>

Unrestarted ==
  EventsWorktree(workspace', scopeWorktree') # EventsWorktree(workspace, scopeWorktree) /\ requests' = requests

\* A worktree that the topology holds is selected, or its selection cleared.
Applies(w) == workspace' = w /\ cursor' = None /\ UNCHANGED hasMore /\ Loads(FALSE)
Stays == UNCHANGED <<workspace, pageVars, requests>>

\* clearLocal: without a selection there is nothing to clear; that may be a revision alone.
ClearsLocal == Applies(None) \/ (workspace = None /\ Stays)

\* The Events view is narrowed to the worktree of the scope, and begins again at the head.
NarrowsFeed ==
  IF tab = "timeline" THEN UNCHANGED workspace /\ cursor' = None /\ hasMore' = FALSE /\ Loads(FALSE) ELSE Stays

\* The scope moves: an absent worktree clears the selection there is, one of the topology is
\* selected, and one that is selected already, or that the topology does not hold (it is gone, or
\* the first snapshot has not landed), narrows the feed.
ScopeMoves ==
  /\ Spend("moves") /\ \E w \in {None, "w", "gone"} \ {scopeWorktree} : scopeWorktree' = w
  /\ UNCHANGED <<shown, tab, category>>
  /\ \/ ~shown /\ Stays
     \/ shown /\ scopeWorktree' = None /\ ClearsLocal
     \/ shown /\ scopeWorktree' = "w" /\ workspace # "w" /\ Applies("w")
     \/ shown /\ scopeWorktree' # None /\ (scopeWorktree' \in {"gone", workspace} \/ arriving) /\ NarrowsFeed
  /\ crowded' = (crowded \/ (shown /\ Unrestarted))
  /\ UNCHANGED <<arriving, log, fed, held, missed, historyError>>

Restarts == missed \/ (~shown /\ cursor # None)

\* show: a view that was hidden asks for a snapshot first.
Show ==
  /\ Spend("visits") /\ \E view \in {"timeline", "graph"} : tab' = view
  /\ ~(shown /\ tab' = tab)
  /\ shown' = TRUE /\ UNCHANGED <<workspace, scopeWorktree, category>>
  /\ IF Restarts THEN cursor' = None /\ hasMore' = FALSE ELSE UNCHANGED pageVars
  /\ arriving' = (arriving \/ ~shown)
  /\ IF shown THEN Loads(FALSE) ELSE UNCHANGED requests
  /\ UNCHANGED <<crowded, log, fed, held, missed, historyError>>

Hide ==
  /\ shown /\ Spend("visits") /\ shown' = FALSE /\ tab' = "graph" /\ workspace' = None /\ requests' = Superseded
  /\ arriving' = FALSE
  /\ UNCHANGED <<crowded, log, fed, held, scopeWorktree, category, pageVars, missed, historyError>>

Next ==
  \/ Capture \/ Serve \/ Answered \/ Fails \/ Deliver \/ LoadOlder \/ SnapshotLands \/ SetQuery
  \/ SelectWorkspace \/ ShowInGraph \/ ScopeMoves \/ Show \/ Hide

Spec == Init /\ [][Next]_vars

(***************************************************************************)
(* Properties.                                                             *)
(***************************************************************************)
Wanted == {p \in 1..fed : Matches(p, EventsWorktree(workspace, scopeWorktree), category)}
Older == IF ~hasMore THEN {} ELSE IF cursor = None THEN Events ELSE 1..(cursor - 1)

\* show: pagination restarts at the head "so 'Load older' walks contiguously from there".
\* Once a page has landed, no event of the view that is older than one of its rows is out
\* of reach: it is held, or a walk with Load older comes to it.
WalksContiguously ==
  shown /\ tab = "timeline" /\ ~arriving /\ ~historyError /\ ~(\E r \in requests : r.inForce) =>
    \A p \in Wanted : (\E q \in held \cap Wanted : q > p) => p \in held \cup Older

\* The same, as long as the full set loses nothing of the pages themselves.
WalksUncrowded == crowded \/ WalksContiguously

\* While the Events view of a whole project is shown, its newest event comes to be held, also
\* after pages of older history have pushed it out ("a later head refresh restores the newest").
HeadRestored ==
  ~shown \/ tab # "timeline" \/ category \/ EventsWorktree(workspace, scopeWorktree) # None \/ Newest(1, Events) \subseteq held
=============================================================================
