------------------------------ MODULE NeedsYou ------------------------------
(***************************************************************************)
(* The viewer's "Needs you" (src/apps/tauri-desktop/src/ui/attention.ts):  *)
(* the poll of /attention with its epochs, the desktop notifications that  *)
(* follow a load, and the preferences kept in local storage                *)
(* (ui/attention-preferences.ts) across restarts of the app.               *)
(*                                                                         *)
(* An episode is new, pending, then gone; the daemon, the permission of    *)
(* the operating system (notifications.ts) and the user are external.      *)
(***************************************************************************)
EXTENDS Naturals, FiniteSets

CONSTANTS
  Episodes,
  Old,             \* episodes whose evidence is older than 24 hours
  MaxDeliveries,   \* bound: deliveries of notifications under way
  Budgets          \* bounds: episode changes, connection changes, clicks, snoozes, failures,
                   \* permission changes, restarts

VARIABLES
  status,        \* the daemon: new, pending or gone
  stamp,         \* changes of the daemon so far
  granted,       \* the system's permission
  connected, fresh, epoch, initialized,
  loads,         \* requests of /attention, at most one per epoch
  inFlight,      \* epoch of the load that refresh waits for, if any
  snapshot,      \* pending episodes of the last applied answer, and its stamp
  deliveries,    \* deliverNotifications under way
  enabled, enabling, notified, snoozed,      \* preferences
  stored,        \* local storage
  storable,      \* local storage works
  sent,          \* history: notifications the system showed
  known,         \* history: pending before notifications could be wanted
  budget

vars == <<status, stamp, granted, connected, fresh, epoch, initialized, loads, inFlight, snapshot,
          deliveries, enabled, enabling, notified, snoozed, stored, storable, sent, known, budget>>
daemonVars == <<status, stamp, granted>>
netVars == <<connected, fresh, epoch, initialized, loads, inFlight, snapshot>>
prefVars == <<enabled, notified, snoozed, stored, storable>>

Slots == 1..MaxDeliveries
Free == [at |-> "free", version |-> 0, todo |-> {}, key |-> {}]
Nothing == [pending |-> {}, at |-> 0]
Pending == {k \in Episodes : status[k] = "pending"}
Spend(what) == budget[what] > 0 /\ budget' = [budget EXCEPT ![what] = @ - 1]

TypeOK ==
  /\ status \in [Episodes -> {"new", "pending", "gone"}] /\ stamp \in Nat /\ granted \in BOOLEAN
  /\ connected \in BOOLEAN /\ fresh \in BOOLEAN /\ epoch \in Nat /\ initialized \in BOOLEAN
  /\ \A l \in loads : l.version \in 0..epoch /\ l.served \in BOOLEAN /\ l.pending \subseteq Episodes
  /\ inFlight \in {{}} \cup {{e} : e \in 0..epoch}
  /\ snapshot.pending \subseteq Episodes /\ snapshot.at \in 0..stamp
  /\ \A i \in Slots : LET d == deliveries[i] IN
       /\ d.at \in {"free", "loop", "asking", "sending"} /\ d.version \in 0..epoch
       /\ d.todo \subseteq Episodes /\ d.key \subseteq Episodes /\ Cardinality(d.key) <= 1
  /\ enabled \in BOOLEAN /\ enabling \in BOOLEAN /\ storable \in BOOLEAN
  /\ notified \subseteq Episodes /\ snoozed \subseteq Episodes /\ known \subseteq Episodes
  /\ stored.enabled \in BOOLEAN /\ stored.notified \subseteq Episodes /\ stored.snoozed \subseteq Episodes
  /\ sent \in [Episodes -> Nat]

Init ==
  /\ status \in [Episodes -> {"new", "pending"}] /\ stamp = 0 /\ granted = TRUE
  /\ connected = FALSE /\ fresh = FALSE /\ epoch = 0 /\ initialized = FALSE
  /\ loads = {} /\ inFlight = {} /\ snapshot = Nothing
  /\ deliveries = [i \in Slots |-> Free]
  /\ enabled = FALSE /\ enabling = FALSE /\ notified = {} /\ snoozed = {}
  /\ stored = [enabled |-> FALSE, notified |-> {}, snoozed |-> {}] /\ storable \in BOOLEAN
  /\ sent = [k \in Episodes |-> 0] /\ known = {} /\ budget \in Budgets

(***************************************************************************)
(* External.                                                               *)
(***************************************************************************)
EpisodeChanges ==
  /\ Spend("changes") /\ stamp' = stamp + 1
  /\ \E k \in Episodes :
       /\ status[k] # "gone"
       /\ status' = [status EXCEPT ![k] = IF @ = "new" THEN "pending" ELSE "gone"]
  /\ UNCHANGED <<granted, netVars, deliveries, prefVars, enabling, sent, known>>

PermissionChanges ==
  /\ Spend("permissions") /\ granted' = ~granted
  /\ UNCHANGED <<status, stamp, netVars, deliveries, prefVars, enabling, sent, known>>

ServeLoad ==
  /\ \E l \in loads : ~l.served /\ loads' = (loads \ {l}) \cup
       {[l EXCEPT !.served = TRUE, !.pending = Pending, !.at = stamp]}
  /\ UNCHANGED <<daemonVars, connected, fresh, epoch, initialized, inFlight, snapshot, deliveries,
                 prefVars, enabling, sent, known, budget>>

(***************************************************************************)
(* Preferences: every change is saved when local storage works.            *)
(***************************************************************************)
Prefer(e, n, z) ==
  /\ enabled' = e /\ notified' = n /\ snoozed' = z /\ UNCHANGED storable
  /\ stored' = IF storable THEN [enabled |-> e, notified |-> n, snoozed |-> z] ELSE stored
MarkNotified(keys) == Prefer(enabled, notified \cup keys, snoozed)

Snooze ==
  /\ Spend("snoozes")
  /\ \E k \in snapshot.pending :
       Prefer(enabled, notified, IF k \in snoozed THEN snoozed \ {k} ELSE snoozed \cup {k})
  /\ UNCHANGED <<daemonVars, netVars, deliveries, enabling, sent, known>>

\* Fifteen minutes pass.
SnoozeEnds ==
  /\ \E k \in snoozed : Prefer(enabled, notified, snoozed \ {k})
  /\ UNCHANGED <<daemonVars, netVars, deliveries, enabling, sent, known, budget>>

(***************************************************************************)
(* The poll.                                                               *)
(***************************************************************************)
StartLoad(e) == loads' = loads \cup {[version |-> e, served |-> FALSE, pending |-> {}, at |-> 0]}
                /\ inFlight' = {e}

\* The timer: a refresh joins the load in flight.
Refresh ==
  /\ connected /\ inFlight = {} /\ StartLoad(epoch)
  /\ UNCHANGED <<daemonVars, connected, fresh, epoch, initialized, snapshot, deliveries,
                 prefVars, enabling, sent, known, budget>>

Settled(l) == IF inFlight = {l.version} THEN {} ELSE inFlight

Current(l) == connected /\ l.version = epoch

\* The first load of a run, and any load while notifications are off, is backlog.
Backlog == ~initialized \/ ~enabled

\* load: preferences of episodes that ended are dropped, the backlog of a first or
\* unwanted load is marked, the slot is freed and the delivery begins.
LoadAnswered ==
  \E l \in loads :
    /\ l.served /\ loads' = loads \ {l}
    /\ IF Current(l)
       THEN /\ snapshot' = [pending |-> l.pending, at |-> l.at] /\ fresh' = TRUE /\ initialized' = TRUE
            /\ Prefer(enabled, IF Backlog THEN l.pending ELSE notified \cap l.pending, snoozed \cap l.pending)
            /\ known' = IF initialized /\ enabled THEN known ELSE known \cup (l.pending \ notified)
            /\ inFlight' = {}
            /\ \E i \in Slots : deliveries[i] = Free /\ deliveries' = [deliveries EXCEPT ![i] =
                 [at |-> "loop", version |-> l.version, todo |-> l.pending, key |-> {}]]
       ELSE /\ inFlight' = Settled(l)
            /\ UNCHANGED <<snapshot, fresh, initialized, prefVars, known, deliveries>>
    /\ UNCHANGED <<daemonVars, connected, epoch, enabling, sent, budget>>

\* The daemon refuses, or ten seconds pass.
LoadFails ==
  \E l \in loads :
    /\ Spend("fails") /\ loads' = loads \ {l} /\ inFlight' = Settled(l)
    /\ fresh' = (fresh /\ l.version # epoch)
    /\ UNCHANGED <<daemonVars, connected, epoch, initialized, snapshot, deliveries, prefVars, enabling,
                   sent, known>>

\* An abort that overtakes the answer; it may come too late.
AbortedLoad ==
  \E l \in loads :
    /\ l.version # epoch /\ loads' = loads \ {l} /\ inFlight' = Settled(l)
    /\ UNCHANGED <<daemonVars, connected, fresh, epoch, initialized, snapshot, deliveries, prefVars,
                   enabling, sent, known, budget>>

SetConnected ==
  /\ Spend("connections") /\ connected' = ~connected /\ fresh' = FALSE /\ epoch' = epoch + 1
  /\ IF connected THEN inFlight' = {} /\ UNCHANGED loads ELSE StartLoad(epoch + 1)
  /\ UNCHANGED <<daemonVars, initialized, snapshot, deliveries, prefVars, enabling, sent, known>>

(***************************************************************************)
(* Notifications.                                                          *)
(***************************************************************************)
Wanted(d, k) ==
  /\ connected /\ fresh /\ d.version = epoch /\ enabled
  /\ k \notin notified /\ k \notin snoozed /\ k \in snapshot.pending

Delivers(i, d) == deliveries' = [deliveries EXCEPT ![i] = d]

\* The loop over the sessions of the load: an old episode is only marked.
DeliverNext ==
  \E i \in Slots :
    LET d == deliveries[i] IN
    /\ d.at = "loop"
    /\ IF d.todo = {} THEN Delivers(i, Free) /\ UNCHANGED prefVars
       ELSE \E k \in d.todo :
              IF Wanted(d, k) /\ k \notin Old
              THEN Delivers(i, [d EXCEPT !.at = "asking", !.todo = @ \ {k}, !.key = {k}]) /\ UNCHANGED prefVars
              ELSE /\ Delivers(i, [d EXCEPT !.todo = @ \ {k}])
                   /\ IF Wanted(d, k) THEN MarkNotified({k}) ELSE UNCHANGED prefVars
    /\ UNCHANGED <<daemonVars, netVars, enabling, sent, known, budget>>

StillWanted(d, k) == Wanted(d, k)

\* The attempt is recorded before it is made.
Attempt(keys) == MarkNotified(keys)

PermissionAnswered ==
  \E i \in Slots :
    LET d == deliveries[i] IN
    /\ d.at = "asking"
    /\ IF ~granted THEN Delivers(i, Free) /\ UNCHANGED prefVars
       ELSE IF \E k \in d.key : StillWanted(d, k)
       THEN Delivers(i, [d EXCEPT !.at = "sending"]) /\ Attempt(d.key)
       ELSE Delivers(i, [d EXCEPT !.at = "loop", !.key = {}]) /\ UNCHANGED prefVars
    /\ UNCHANGED <<daemonVars, netVars, enabling, sent, known, budget>>

PermissionFails ==
  \E i \in Slots :
    /\ Spend("fails") /\ deliveries[i].at = "asking"
    /\ Delivers(i, [deliveries[i] EXCEPT !.at = "loop", !.key = {}])
    /\ UNCHANGED <<daemonVars, netVars, prefVars, enabling, sent, known>>

Shown(d) == [k \in Episodes |-> IF k \in d.key THEN sent[k] + 1 ELSE sent[k]]

\* The system shows the notification, and answers or fails.
Send ==
  \E i \in Slots :
    LET d == deliveries[i] IN
    /\ d.at = "sending" /\ Delivers(i, [d EXCEPT !.at = "loop", !.key = {}])
    /\ \/ sent' = Shown(d) /\ UNCHANGED budget
       \/ Spend("fails") /\ UNCHANGED sent
    /\ UNCHANGED <<daemonVars, netVars, prefVars, enabling, known>>

ClickEnable ==
  /\ ~enabling /\ Spend("clicks")
  /\ IF enabled THEN Prefer(FALSE, notified, snoozed) /\ UNCHANGED enabling
     ELSE enabling' = TRUE /\ UNCHANGED prefVars
  /\ UNCHANGED <<daemonVars, netVars, deliveries, sent, known>>

\* Enabling marks what is pending now, granted or not.
EnableAnswered ==
  /\ enabling /\ enabling' = FALSE
  /\ Prefer(granted, notified \cup snapshot.pending, snoozed)
  /\ known' = known \cup (snapshot.pending \ notified)
  /\ UNCHANGED <<daemonVars, netVars, deliveries, sent, budget>>

EnableFails ==
  /\ enabling /\ Spend("fails") /\ enabling' = FALSE
  /\ UNCHANGED <<daemonVars, netVars, deliveries, prefVars, sent, known>>

(***************************************************************************)
(* The app ends, at any step, and starts again with what was stored; a     *)
(* notification under way was shown or not.                                *)
(***************************************************************************)
Restart ==
  /\ Spend("restarts")
  /\ connected' = FALSE /\ fresh' = FALSE /\ epoch' = 0 /\ initialized' = FALSE
  /\ loads' = {} /\ inFlight' = {} /\ snapshot' = Nothing
  /\ deliveries' = [i \in Slots |-> Free] /\ enabling' = FALSE
  /\ enabled' = stored.enabled /\ notified' = stored.notified /\ snoozed' = stored.snoozed
  /\ \/ UNCHANGED sent
     \/ \E i \in Slots : deliveries[i].at = "sending" /\ sent' = Shown(deliveries[i])
  /\ UNCHANGED <<daemonVars, stored, storable, known>>

Next ==
  \/ EpisodeChanges \/ PermissionChanges \/ ServeLoad \/ Snooze \/ SnoozeEnds
  \/ Refresh \/ LoadAnswered \/ LoadFails \/ AbortedLoad \/ SetConnected
  \/ DeliverNext \/ PermissionAnswered \/ PermissionFails \/ Send
  \/ ClickEnable \/ EnableAnswered \/ EnableFails \/ Restart

Spec == Init /\ [][Next]_vars

(***************************************************************************)
(* Properties.                                                             *)
(***************************************************************************)
\* An episode is shown at most once, although loads and deliveries overlap, the app
\* may end between any two steps and local storage may not work.
NotifiedOnce == \A k \in Episodes : sent[k] <= 1

\* What was pending when the app started, or when the user enabled notifications,
\* is never announced afterwards.
NoBacklog == \A k \in known : sent'[k] = sent[k]

\* Within one run of the app the snapshot never goes back in time, whatever the
\* order in which the answers of old and new connections arrive.
SnapshotForward == snapshot'.at >= snapshot.at \/ (epoch' = 0 /\ ~connected')

\* An episode that stays wanted is attempted, unless the backlog rule marked it.
Wants(k) ==
  status[k] = "pending" /\ connected /\ enabled /\ granted /\ k \notin snoozed
Attempted(k) == ~Wants(k) \/ k \in notified
=============================================================================
