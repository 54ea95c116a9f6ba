---------------------------- MODULE ActivityMap ----------------------------
(***************************************************************************)
(* The activity map that the Project panel hosts (ui/activity/index.ts):   *)
(* one answer of /graph/activity for the repository, worktree and window   *)
(* of the shared scope, and the brush whose end commits a window.          *)
(*                                                                         *)
(* A key is a repository and a view: the worktree and window of the scope. *)
(* A brush in flight is live until the key it was begun on changes or the  *)
(* map is cancelled (generation); with two pointers there are two, of      *)
(* which the map can only tear down the later.                             *)
(***************************************************************************)
EXTENDS Naturals, FiniteSets

CONSTANTS
  None, Repos, Views,
  MaxOverlap,    \* bound: requests under way at once
  Budgets        \* bounds: updates by the host, gestures, failures

VARIABLES
  host,          \* the scope and privacy mode of the host
  repo, view, privacy, active,
  resp, requests, fetchedKey, failed,
  stale,         \* the clock: the live answer is older than LIVE_REFRESH_MS
  brush, drags,
  budget

vars == <<host, repo, view, privacy, active, resp, requests, fetchedKey, failed, stale, brush, drags, budget>>
answerVars == <<resp, requests, fetchedKey, failed, stale>>
scopeVars == <<repo, view, privacy>>
Spend(what) == budget[what] > 0 /\ budget' = [budget EXCEPT ![what] = @ - 1]
Keys == Repos \X Views
Pointers == 1..2

TypeOK ==
  /\ host \in [key : Keys, minimal : BOOLEAN] /\ repo \in Repos \cup {None} /\ view \in Views
  /\ resp \in Keys \cup {None} /\ fetchedKey \in Keys \cup {None}
  /\ {privacy, active, failed, stale, brush} \subseteq BOOLEAN
  /\ \A d \in drags : d.pointer \in Pointers /\ d.key \in Keys /\ d.latest \in BOOLEAN /\ d.gen \in BOOLEAN
  /\ Cardinality(requests) <= MaxOverlap

Init ==
  /\ host \in [key : Keys, minimal : {FALSE}] /\ repo = None /\ view = host.key[2] /\ privacy = FALSE /\ active = FALSE
  /\ resp = None /\ requests = {} /\ fetchedKey = None /\ failed = FALSE /\ stale = FALSE /\ brush = FALSE /\ drags = {}
  /\ budget \in Budgets

HostMoves ==
  /\ Spend("moves")
  /\ \/ \E k \in Keys \ {host.key} : host' = [host EXCEPT !.key = k]
     \/ host' = [host EXCEPT !.minimal = ~@]
  /\ UNCHANGED <<scopeVars, active, answerVars, brush, drags>>

ScopeKey == <<repo, view>>
InFlight == \E r \in requests : r.inForce
Aborted == {[r EXCEPT !.inForce = FALSE] : r \in requests}

\* load: the answer to another question goes at once.
Shown(kept) == IF fetchedKey' = fetchedKey THEN kept ELSE None

\* load, with what is left of the answer and of the key it was fetched for.
Load(force, kept, fetched) ==
  IF privacy'
  THEN resp' = kept /\ fetchedKey' = fetched /\ requests' = Aborted /\ UNCHANGED <<failed, stale>>
  ELSE IF ~force /\ ~failed /\ <<repo', view'>> = fetched /\ (~stale \/ InFlight)
  THEN resp' = kept /\ fetchedKey' = fetched /\ UNCHANGED <<requests, failed, stale>>
  ELSE /\ Cardinality(requests) < MaxOverlap
       /\ fetchedKey' = <<repo', view'>> /\ resp' = Shown(kept)
       /\ requests' = Aborted \cup {[inForce |-> TRUE, key |-> <<repo', view'>>, served |-> FALSE]}
       /\ failed' = FALSE /\ UNCHANGED stale

\* generation and cancelDrag: no brush goes on to commit, the later one is torn down.
Torn == {[d EXCEPT !.gen = FALSE] : d \in {d \in drags : ~d.latest}}

\* update: called on every render of the host.
Update ==
  /\ active
  /\ repo' = host.key[1] /\ view' = host.key[2] /\ privacy' = host.minimal
  /\ LET drops == repo' # repo \/ privacy' # privacy
     IN Load(FALSE, IF drops THEN None ELSE resp, IF drops THEN None ELSE fetchedKey)
  /\ IF <<repo', view'>> # ScopeKey THEN drags' = Torn /\ brush' = FALSE ELSE UNCHANGED <<drags, brush>>
  /\ UNCHANGED <<host, active, budget>>

\* The Retry of the error notice.
Retry ==
  /\ active /\ failed /\ resp = None /\ UNCHANGED scopeVars /\ Load(TRUE, resp, fetchedKey)
  /\ UNCHANGED <<host, active, brush, drags, budget>>

TimePasses ==
  /\ ~stale /\ resp # None /\ Spend("fails") /\ stale' = TRUE
  /\ UNCHANGED <<host, scopeVars, active, resp, requests, fetchedKey, failed, brush, drags>>

Serve ==
  /\ \E r \in requests : ~r.served /\ requests' = (requests \ {r}) \cup {[r EXCEPT !.served = TRUE]}
  /\ UNCHANGED <<host, scopeVars, active, resp, fetchedKey, failed, stale, brush, drags, budget>>

Current(r) == r.inForce

Answered ==
  /\ \E r \in requests :
       /\ r.served /\ requests' = requests \ {r}
       /\ IF Current(r) THEN resp' = r.key /\ stale' = FALSE ELSE UNCHANGED <<resp, stale>>
  /\ UNCHANGED <<host, scopeVars, active, fetchedKey, failed, brush, drags, budget>>

\* The cached key of a failed request is not an answer.
Failed(r) == failed \/ r.inForce

Fails ==
  /\ Spend("fails")
  /\ \E r \in requests : ~r.served /\ requests' = requests \ {r} /\ failed' = Failed(r) /\ stale' = (stale /\ ~r.inForce)
  /\ UNCHANGED <<host, scopeVars, active, resp, fetchedKey, brush, drags>>

\* setActive and cancel.
Activate ==
  /\ ~active /\ active' = TRUE /\ UNCHANGED <<host, scopeVars, answerVars, brush, drags, budget>>

Deactivate ==
  /\ active /\ Spend("moves") /\ active' = FALSE /\ drags' = Torn /\ brush' = FALSE
  /\ UNCHANGED <<host, scopeVars, answerVars>>

(***************************************************************************)
(* The brush.                                                              *)
(***************************************************************************)
PointerDown ==
  /\ active /\ resp # None /\ Spend("gestures")
  /\ \E p \in Pointers \ {d.pointer : d \in drags} :
       drags' = {[d EXCEPT !.latest = FALSE] : d \in drags} \cup {[pointer |-> p, key |-> ScopeKey, gen |-> TRUE, latest |-> TRUE]}
  /\ brush' = TRUE /\ UNCHANGED <<host, scopeVars, active, answerVars>>

\* The negation of live0.
Live(d) == active /\ d.gen /\ d.key = ScopeKey

PointerMove ==
  /\ \E d \in drags :
       IF Live(d) THEN brush' = TRUE /\ UNCHANGED drags ELSE brush' = FALSE /\ drags' = drags \ {d}
  /\ UNCHANGED <<host, scopeVars, active, answerVars, budget>>

\* The end of a brush commits its window once, through the host.
PointerUp ==
  /\ \E d \in drags :
       /\ drags' = drags \ {d} /\ brush' = FALSE
       /\ IF brush /\ Live(d) THEN \E v \in Views : host' = [host EXCEPT !.key = <<@[1], v>>] ELSE UNCHANGED host
  /\ UNCHANGED <<scopeVars, active, answerVars, budget>>

\* pointercancel, and Escape.
Abandon ==
  /\ \E d \in drags : drags' = drags \ {d} /\ brush' = FALSE
  /\ UNCHANGED <<host, scopeVars, active, answerVars, budget>>

\* The arrow keys on the strip pan the window.
Pan ==
  /\ active /\ resp # None /\ Spend("gestures") /\ \E v \in Views \ {view} : host' = [host EXCEPT !.key[2] = v]
  /\ UNCHANGED <<scopeVars, active, answerVars, brush, drags>>

Next ==
  \/ HostMoves \/ Update \/ Retry \/ TimePasses \/ Serve \/ Answered \/ Fails \/ Activate \/ Deactivate
  \/ PointerDown \/ PointerMove \/ PointerUp \/ Abandon \/ Pan

Spec == Init /\ [][Next]_vars

(***************************************************************************)
(* Properties.                                                             *)
(***************************************************************************)
\* The map is of the repository, worktree and window it says it is of.
AnswerOfScope == resp # None /\ ~privacy => resp = ScopeKey

\* Only a brush begun on what is still shown commits a window.
CommitsOwn == \A d \in drags : host'.key # host.key /\ brush /\ ~brush' /\ d \notin drags' /\ UNCHANGED budget => d.key = ScopeKey /\ active

\* While the map is shown it comes to show the scope of its host.
ShowsScope == ~active \/ host.minimal \/ resp = host.key
=============================================================================
