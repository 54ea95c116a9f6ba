----------------------------- MODULE FleetPanel -----------------------------
(***************************************************************************)
(* The Fleet panel of the viewer (ui/fleet/index.ts): its loads of         *)
(* /worktrees and /attention with their tokens and deadline, the drawing   *)
(* of the Map encoding with the marks of what changed, the encodings that  *)
(* host another panel, and the recovery from a daemon that was offline.    *)
(*                                                                         *)
(* The daemon is a stamp that grows; an answer is the stamp it was taken   *)
(* at, and a picture is drawn anew for every stamp.  None is "not there".  *)
(* A load is in force (loadToken is its token) or it has been superseded;  *)
(* of each kind one at most is under way: that bounds the overlap.         *)
(***************************************************************************)
EXTENDS Naturals, FiniteSets

CONSTANTS
  None,
  Budgets        \* bounds: changes of the daemon, requests that fail or hang, connection
                 \* changes, arrivals and departures, encodings chosen, loads asked for

Hosts == {"events"}                        \* encodings that mount another panel
Encodings == {"map", "lanes"} \cup Hosts
Whats == {"wt", "att"}

VARIABLES
  stamp,
  serves,        \* the daemon serves /worktrees (an older one answers 404)
  data,          \* wt, att: the stamp of the last applied answer, None before it
  failed,        \* wtFailed, attFailed (wtStale and attStale are set and reset with them)
  unsupported, failedOffline, connected, active, primed,
  encoding, mounted,
  inflight,
  loads,         \* loads that have not ended: TRUE for the one in force
  requests,      \* calls under way: of the load in force, what, served, hung, the stamp served
  eventTimer,    \* an event asked for a load
  drawn,         \* prevStates: what Map drew last, None for nothing
  changed,       \* rows are marked as changed
  budget

vars == <<stamp, serves, data, failed, unsupported, failedOffline, connected, active, primed, encoding,
          mounted, inflight, loads, requests, eventTimer, drawn, changed, budget>>
loadVars == <<inflight, loads, requests>>
viewVars == <<drawn, changed, mounted>>
Spend(what) == budget[what] > 0 /\ budget' = [budget EXCEPT ![what] = @ - 1]

TypeOK ==
  /\ stamp \in Nat /\ serves \in BOOLEAN
  /\ data \in [Whats -> 0..stamp \cup {None}] /\ failed \in [Whats -> BOOLEAN]
  /\ {unsupported, failedOffline, connected, active, primed, inflight, eventTimer, changed} \subseteq BOOLEAN
  /\ encoding \in Encodings /\ mounted \in Hosts \cup {None}
  /\ loads \subseteq BOOLEAN
  /\ \A r \in requests : r.inForce \in loads /\ r.what \in Whats /\ r.at \in 0..stamp

Init ==
  /\ stamp = 0 /\ serves \in BOOLEAN /\ data = [w \in Whats |-> None] /\ failed = [w \in Whats |-> FALSE]
  /\ unsupported = FALSE /\ failedOffline = FALSE /\ connected = FALSE /\ active = FALSE /\ primed = FALSE
  /\ encoding = "map" /\ mounted = None /\ inflight = FALSE /\ loads = {}
  /\ requests = {} /\ eventTimer = FALSE /\ drawn = None /\ changed = FALSE 
  /\ budget \in Budgets

(***************************************************************************)
(* Drawing.                                                                *)
(***************************************************************************)
Picture == data'
HasRows == \E w \in Whats : data'[w] # None

\* recompute and draw: Map remembers the rows it drew and marks, once primed, the
\* ones that differ; a host is mounted once, and leaves with its encoding.
Draws ==
  /\ mounted' = IF encoding' \in Hosts THEN encoding' ELSE None
  /\ IF encoding' = "map" /\ HasRows
     THEN /\ drawn' = Picture /\ changed' = (changed \/ (primed /\ drawn # Picture))
     ELSE drawn' = (IF encoding' = "map" THEN None ELSE drawn) /\ UNCHANGED changed

\* The mark of a change expires, or leaves with the panel.
MarkExpires ==
  /\ changed /\ changed' = FALSE
  /\ UNCHANGED <<stamp, serves, data, failed, unsupported, failedOffline, connected, active, primed,
                 encoding, mounted, loadVars, eventTimer, drawn, budget>>

(***************************************************************************)
(* Loads.                                                                  *)
(***************************************************************************)
\* The load in force is aborted; a call of it may already have answered.
Aborts == /\ loads # BOOLEAN
          /\ loads' = (IF TRUE \in loads THEN {FALSE} ELSE loads)
          /\ requests' = {[r EXCEPT !.hung = FALSE, !.inForce = FALSE] : r \in requests}

Starts ==
  /\ loads # BOOLEAN /\ inflight' = TRUE
  /\ loads' = (IF TRUE \in loads THEN BOOLEAN ELSE loads \cup {TRUE})
  /\ requests' = {[r EXCEPT !.hung = FALSE, !.inForce = FALSE] : r \in requests} \cup
       {[inForce |-> TRUE, what |-> w, served |-> FALSE, hung |-> FALSE, at |-> 0] : w \in Whats}

Live(inForce) == inForce /\ active

Load == \* Retry, refresh by the shell
  /\ active /\ Spend("retries") /\ Starts
  /\ UNCHANGED <<stamp, serves, data, failed, unsupported, failedOffline, connected, active, primed,
                 encoding, viewVars, eventTimer>>

\* The timers: every refreshMs, and a second after an event; skipped while a load runs.
TimerLoad ==
  /\ active /\ ~inflight /\ Starts /\ eventTimer' = FALSE
  /\ UNCHANGED <<stamp, serves, data, failed, unsupported, failedOffline, connected, active, primed,
                 encoding, viewVars, budget>>
EventTimerSkips ==
  /\ eventTimer /\ inflight /\ eventTimer' = FALSE
  /\ UNCHANGED <<stamp, serves, data, failed, unsupported, failedOffline, connected, active, primed,
                 encoding, viewVars, loadVars, budget>>
OnEvent ==
  /\ active /\ ~eventTimer /\ eventTimer' = TRUE /\ Spend("changes") /\ stamp' = stamp + 1
  /\ UNCHANGED <<serves, data, failed, unsupported, failedOffline, connected, active, primed,
                 encoding, viewVars, loadVars>>

Serve ==
  /\ connected
  /\ \E r \in requests : r.inForce /\ ~r.served /\ ~r.hung /\
       requests' = (requests \ {r}) \cup {[r EXCEPT !.served = TRUE, !.at = stamp]}
  /\ UNCHANGED <<stamp, serves, data, failed, unsupported, failedOffline, connected, active, primed,
                 encoding, viewVars, inflight, loads, eventTimer, budget>>

Hang ==
  /\ Spend("fails")
  /\ \E r \in requests : r.inForce /\ ~r.served /\ ~r.hung /\ requests' = (requests \ {r}) \cup {[r EXCEPT !.hung = TRUE]}
  /\ UNCHANGED <<stamp, serves, data, failed, unsupported, failedOffline, connected, active, primed,
                 encoding, viewVars, inflight, loads, eventTimer>>

Missing(r) == r.what = "wt" /\ ~serves

\* One of the two answers is applied and drawn without waiting for the other.
Answered ==
  \E r \in requests :
    /\ r.served /\ requests' = requests \ {r}
    /\ IF Live(r.inForce)
       THEN /\ data' = [data EXCEPT ![r.what] = IF Missing(r) THEN None ELSE r.at]
            /\ failed' = [failed EXCEPT ![r.what] = FALSE]
            /\ unsupported' = (IF r.what = "wt" THEN Missing(r) ELSE unsupported)
            /\ encoding' = encoding /\ Draws
       ELSE UNCHANGED <<data, failed, unsupported, encoding, viewVars>>
    /\ UNCHANGED <<stamp, serves, failedOffline, connected, active, primed, inflight, loads,
                   eventTimer, budget>>

Fails(r, refused) ==
  /\ requests' = requests \ {r}
  /\ IF Live(r.inForce)
     THEN /\ failed' = [failed EXCEPT ![r.what] = TRUE]
          /\ failedOffline' = (failedOffline \/ (refused /\ ~connected))
          /\ UNCHANGED data /\ unsupported' = unsupported /\ encoding' = encoding /\ Draws
     ELSE UNCHANGED <<data, failed, failedOffline, unsupported, encoding, viewVars>>
  /\ UNCHANGED <<stamp, serves, connected, active, primed, inflight, loads, eventTimer>>

\* Refused: by a daemon that is not there, or by one that fails.
Refused == \E r \in requests : r.inForce /\ ~r.served /\ Fails(r, TRUE) /\ IF connected THEN Spend("fails") ELSE UNCHANGED budget

\* The call of an aborted load rejects.
Aborted == \E r \in requests : ~r.inForce /\ ~r.served /\ Fails(r, FALSE) /\ UNCHANGED budget

\* The deadline aborts the calls of the newest load that still hang.
Deadline == \E r \in requests : r.inForce /\ r.hung /\ Fails(r, FALSE) /\ UNCHANGED budget

Held(inForce) == inflight /\ ~inForce

\* Both calls have settled: the slot is released; the first load that ends primes
\* the marks, and a load without a failure forgets the offline one.
LoadEnds ==
  \E t \in loads :
    /\ ~\E r \in requests : r.inForce = t
    /\ loads' = loads \ {t} /\ inflight' = Held(t)
    /\ IF Live(t)
       THEN /\ failedOffline' = (failedOffline /\ \E w \in Whats : failed[w]) /\ primed' = TRUE
            /\ UNCHANGED <<data, unsupported, encoding>> /\ Draws
       ELSE UNCHANGED <<failedOffline, primed, data, unsupported, encoding, viewVars>>
    /\ UNCHANGED <<stamp, serves, failed, connected, active, requests, eventTimer, budget>>

(***************************************************************************)
(* The panel.                                                              *)
(***************************************************************************)
Activate ==
  /\ ~active /\ Spend("visits") /\ active' = TRUE /\ Starts
  /\ UNCHANGED <<data, encoding, unsupported>> /\ Draws
  /\ UNCHANGED <<stamp, serves, failed, failedOffline, connected, primed, eventTimer>>

\* deactivate: the token moves on, so that no answer is applied.
Deactivate ==
  /\ active /\ Spend("visits") /\ active' = FALSE /\ mounted' = None /\ changed' = FALSE
  /\ Aborts /\ inflight' = FALSE /\ eventTimer' = FALSE
  /\ UNCHANGED <<stamp, serves, data, failed, unsupported, failedOffline, connected, primed,
                 encoding, drawn>>

\* setEncoding, by the user or by an alias while the panel is away.
SetEncoding ==
  /\ Spend("encodings") /\ \E e \in Encodings \ {encoding} : encoding' = e
  /\ UNCHANGED <<data, unsupported>>
  /\ IF active THEN Draws ELSE mounted' = None /\ UNCHANGED <<drawn, changed>>
  /\ UNCHANGED <<stamp, serves, failed, failedOffline, connected, active, primed, loadVars, eventTimer>>

\* Back online, a load that failed offline is tried again at once.
SetConnected ==
  /\ Spend("connections") /\ connected' = ~connected
  /\ IF ~connected /\ failedOffline /\ active THEN Starts ELSE UNCHANGED loadVars
  /\ UNCHANGED <<stamp, serves, data, failed, unsupported, failedOffline, active, primed, encoding,
                 viewVars, eventTimer>>

Next ==
  \/ MarkExpires \/ Load \/ TimerLoad \/ EventTimerSkips \/ OnEvent \/ Serve \/ Hang \/ Answered
  \/ Refused \/ Aborted \/ Deadline \/ LoadEnds \/ Activate \/ Deactivate \/ SetEncoding \/ SetConnected

Spec == Init /\ [][Next]_vars

(***************************************************************************)
(* Properties.                                                             *)
(***************************************************************************)
\* Neither half of the picture goes back in time, whatever the order in which the
\* answers of overlapping loads and of earlier visits arrive.
PictureForward == \A w \in Whats : data[w] # None /\ data'[w] # None => data'[w] >= data[w]

\* Exactly one host is mounted, the one of the encoding, and only while Fleet is shown.
HostFollowsEncoding == mounted = IF active /\ encoding \in Hosts THEN encoding ELSE None

\* The slot is held exactly while the newest load runs.
SlotHeldByNewest == inflight <=> active /\ TRUE \in loads

\* While Fleet is shown and the daemon is there, the picture catches up with it, also
\* after loads that hung, failed or were cut short.
CaughtUp ==
  \/ ~active \/ ~connected
  \/ (data["att"] = stamp /\ ~failed["att"] /\ (data["wt"] = stamp \/ unsupported))
=============================================================================
