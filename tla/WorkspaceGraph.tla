---------------------------- MODULE WorkspaceGraph ----------------------------
(***************************************************************************)
(* The cached graph of one repository and the requests around it:          *)
(* Service.Snapshot and SetPrivacy in src/internal/workspacegraph/         *)
(* service.go; the reconcile loop, the change poller, the handlers behind  *)
(* graphResponse and handleConfigUpdate in src/internal/daemon.            *)
(*                                                                         *)
(* A scan yields the version of the repository it read.  A repository has  *)
(* one id in each privacy mode.  Pages, workspaces and registration are    *)
(* left out.                                                               *)
(***************************************************************************)
EXTENDS Naturals

CONSTANTS
  Clients,        \* requests that handlers serve at a time
  Loop, Poller,   \* runGraphDiscovery and runGraphChanges
  Modes, None, Error, Failed,
  MaxMoves,       \* bound on what changes in the repository
  MaxRequests,    \* bound on the requests of all clients
  MaxUpdates,     \* bound on the updates of the privacy mode
  MaxFaults       \* bound on failing scans and failing saves

Workers == Clients \cup {Loop, Poller}
Versions == 0..MaxMoves
Scans == [epoch: 0..MaxUpdates, mode: Modes, seen: Versions \cup {None, Failed}]
Snapshots == [version: Versions, mode: Modes, stale: BOOLEAN]

ASSUME GraphAssumption ==
  /\ Loop \notin Clients /\ Poller \notin Clients /\ Loop # Poller
  /\ None \notin Snapshots \cup Scans \cup Versions \cup Workers \cup {Error, Failed}
  /\ Error \notin Snapshots /\ Failed \notin Versions
  /\ {MaxMoves, MaxRequests, MaxUpdates, MaxFaults} \subseteq Nat

VARIABLES
  repo,      \* the version on disk
  hint,      \* the last version the poller acted on
  mode, epoch, snapshot,
  last,      \* whose scan took the last sequence number
  pc, req,   \* [Workers -> ...]: progress, and the id and refresh asked for
  scan,      \* [Workers -> a scan: the epoch and the mode it started in, what it read]
  reply,
  update,    \* progress of handleConfigUpdate: it waits for, then holds the gate
  target,
  requests, updates, faults

counts == <<requests, updates, faults>>
service == <<mode, epoch, snapshot, last>>
workers == <<pc, req, scan, reply>>
vars == <<repo, hint, service, workers, update, target, counts>>

TypeOK ==
  /\ repo \in Versions /\ hint \in Versions
  /\ mode \in Modes /\ epoch \in 0..MaxUpdates
  /\ snapshot \in Snapshots \cup {None} /\ last \in Workers \cup {None}
  /\ pc \in [Workers -> {"idle", "gate", "call", "scan", "read", "reply"}]
  /\ req \in [Workers -> [id: Modes, refresh: BOOLEAN] \cup {None}]
  /\ scan \in [Workers -> Scans \cup {None}]
  /\ reply \in [Workers -> Snapshots \cup {None, Error}]
  /\ \A w \in Workers : pc[w] = "reply" <=> reply[w] # None
  /\ update \in {"idle", "waiting", "held"} /\ target \in Modes
  /\ requests \in 0..MaxRequests /\ updates \in 0..MaxUpdates /\ faults \in 0..MaxFaults

Move ==
  /\ repo < MaxMoves
  /\ repo' = repo + 1
  /\ UNCHANGED <<hint, service, workers, update, target, counts>>

Goto(w, label) == pc' = [pc EXCEPT ![w] = label]

----------------------------------------------------------------------------
(* Who asks for a snapshot.                                                *)

\* A client knows the id of some mode, the current one or an older one.
Ask(c) ==
  /\ pc[c] = "idle" /\ requests < MaxRequests
  /\ requests' = requests + 1
  /\ \E id \in Modes, refresh \in BOOLEAN :
       req' = [req EXCEPT ![c] = [id |-> id, refresh |-> refresh]]
  /\ Goto(c, "gate")
  /\ UNCHANGED <<repo, hint, service, scan, reply, update, target, updates, faults>>

\* graphResponse: RLock blocks behind a writer that waits.
Enter(c) ==
  /\ pc[c] = "gate" /\ update = "idle"
  /\ Goto(c, "call")
  /\ UNCHANGED <<repo, hint, service, req, scan, reply, update, target, counts>>

Answer(w) ==
  /\ pc[w] = "reply"
  /\ reply' = [reply EXCEPT ![w] = None]
  /\ req' = [req EXCEPT ![w] = None]
  /\ scan' = [scan EXCEPT ![w] = None]
  /\ Goto(w, "idle")
  /\ UNCHANGED <<repo, hint, service, update, target, counts>>

\* The id is the one Repositories lists now; the loops do not pass the gate.
Refresh(w) ==
  /\ pc[w] = "idle"
  /\ req' = [req EXCEPT ![w] = [id |-> mode, refresh |-> TRUE]]
  /\ Goto(w, "call")
  /\ UNCHANGED <<repo, service, scan, reply, update, target, counts>>

Reconcile == Refresh(Loop) /\ UNCHANGED hint

\* A change that has settled.
Poll == hint # repo /\ Refresh(Poller) /\ hint' = repo

----------------------------------------------------------------------------
(* Service.Snapshot, up to and after the scan.                             *)

\* The loops drop the answer.
Reply(w, answer) ==
  \/ /\ w \in Clients
     /\ reply' = [reply EXCEPT ![w] = answer]
     /\ Goto(w, "reply")
     /\ UNCHANGED <<req, scan>>
  \/ /\ w \notin Clients
     /\ req' = [req EXCEPT ![w] = None] /\ scan' = [scan EXCEPT ![w] = None]
     /\ Goto(w, "idle")
     /\ UNCHANGED reply

NotFound(w) ==
  /\ pc[w] = "call" /\ req[w].id # mode
  /\ Reply(w, Error)
  /\ UNCHANGED <<repo, hint, service, update, target, counts>>

Cached(w) ==
  /\ pc[w] = "call" /\ req[w].id = mode
  /\ ~req[w].refresh /\ snapshot # None
  /\ Reply(w, snapshot)
  /\ UNCHANGED <<repo, hint, service, update, target, counts>>

StartScan(w) ==
  /\ pc[w] = "call" /\ req[w].id = mode
  /\ req[w].refresh \/ snapshot = None
  /\ last' = w
  /\ scan' = [scan EXCEPT ![w] = [epoch |-> epoch, mode |-> mode, seen |-> None]]
  /\ Goto(w, "scan")
  /\ UNCHANGED <<repo, hint, mode, epoch, snapshot, req, reply, update, target, counts>>

ScanReads(w) ==
  /\ pc[w] = "scan"
  /\ scan' = [scan EXCEPT ![w].seen = repo]
  /\ Goto(w, "read")
  /\ UNCHANGED <<repo, hint, service, req, reply, update, target, counts>>

\* It failed, or ran out of its 20 seconds.
ScanFails(w) ==
  /\ pc[w] = "scan" /\ faults < MaxFaults
  /\ faults' = faults + 1
  /\ scan' = [scan EXCEPT ![w].seen = Failed]
  /\ Goto(w, "read")
  /\ UNCHANGED <<repo, hint, service, req, reply, update, target, requests, updates>>

\* Variant: an older scan may finish last.
SupersededNever(w) == FALSE

Superseded(w) == last # w

Outdated(w) == scan[w].epoch # epoch

Retained == IF snapshot = None THEN None ELSE [snapshot EXCEPT !.stale = TRUE]

OrError(snap) == IF snap = None THEN Error ELSE snap

\* Variant: what a scan left behind stays marked.
ScannedAgain(w) ==
  [version |-> scan[w].seen, mode |-> scan[w].mode,
   stale |-> IF snapshot = None THEN FALSE ELSE snapshot.stale]

Scanned(w) == [version |-> scan[w].seen, mode |-> scan[w].mode, stale |-> FALSE]

FinishScan(w) ==
  /\ pc[w] = "read"
  /\ \/ Outdated(w) /\ Reply(w, Error) /\ UNCHANGED snapshot
     \/ ~Outdated(w) /\ Superseded(w) /\ Reply(w, OrError(snapshot)) /\ UNCHANGED snapshot
     \/ /\ ~Outdated(w) /\ ~Superseded(w)
        /\ snapshot' = IF scan[w].seen = Failed THEN Retained ELSE Scanned(w)
        /\ Reply(w, OrError(snapshot'))
  /\ UNCHANGED <<repo, hint, mode, epoch, last, update, target, counts>>

----------------------------------------------------------------------------
(* POST /config with another mode.                                         *)

AskUpdate ==
  /\ update = "idle" /\ updates < MaxUpdates
  /\ updates' = updates + 1
  /\ update' = "waiting" /\ target' \in Modes
  /\ UNCHANGED <<repo, hint, service, workers, requests, faults>>

Reading(c) == pc[c] \notin {"idle", "gate"}

\* Variant: the gate is not waited for.
LockUpdateAtOnce ==
  /\ update = "waiting"
  /\ update' = "held"
  /\ UNCHANGED <<repo, hint, service, workers, target, counts>>

LockUpdate ==
  /\ update = "waiting" /\ \A c \in Clients : ~Reading(c)
  /\ update' = "held"
  /\ UNCHANGED <<repo, hint, service, workers, target, counts>>

SetPrivacy ==
  /\ update = "held"
  /\ IF target = mode THEN UNCHANGED <<mode, epoch, snapshot>>
     ELSE mode' = target /\ epoch' = epoch + 1 /\ snapshot' = None
  /\ update' = "idle"
  /\ UNCHANGED <<repo, hint, last, workers, target, counts>>

SaveFails ==
  /\ update = "held" /\ faults < MaxFaults
  /\ faults' = faults + 1
  /\ update' = "idle"
  /\ UNCHANGED <<repo, hint, service, workers, target, requests, updates>>

----------------------------------------------------------------------------
Init ==
  /\ repo = 0 /\ hint = 0
  /\ mode \in Modes /\ epoch = 0 /\ snapshot = None /\ last = None
  /\ pc = [w \in Workers |-> "idle"]
  /\ req = [w \in Workers |-> None]
  /\ scan = [w \in Workers |-> None] /\ reply = [w \in Workers |-> None]
  /\ update = "idle" /\ target = mode
  /\ requests = 0 /\ updates = 0 /\ faults = 0

Snapshot(w) == NotFound(w) \/ Cached(w) \/ StartScan(w) \/ ScanReads(w) \/ FinishScan(w) \/ Answer(w)
Update == LockUpdate \/ SetPrivacy

Next ==
  \/ Move \/ Reconcile \/ Poll \/ AskUpdate \/ Update \/ SaveFails
  \/ \E c \in Clients : Ask(c) \/ Enter(c)
  \/ \E w \in Workers : Snapshot(w) \/ ScanFails(w)

Spec == Init /\ [][Next]_vars

\* Commands end within their timeouts, the loop ticks for ever, and a RWMutex
\* lets a waiting writer in before later readers.
FairSpec ==
  /\ Spec /\ WF_vars(Reconcile) /\ WF_vars(Update)
  /\ \A c \in Clients : WF_vars(Enter(c))
  /\ \A w \in Workers : WF_vars(Snapshot(w))

----------------------------------------------------------------------------
(* Properties.                                                             *)

\* "A privacy-mode transition invalidates graph caches" (docs/contracts.md:269):
\* also the scans that were under way, whatever modes came and went meanwhile.
CachedUnderMode == snapshot # None => snapshot.mode = mode

\* No handler writes a response under another mode than the one in force.
AnsweredUnderMode ==
  \A c \in Clients : pc[c] = "reply" /\ reply[c] # Error => reply[c].mode = mode

\* Whichever scan ends last, the cache does not go back to an older version.
NeverBackwards ==
  [][snapshot # None /\ snapshot' # None => snapshot'.version >= snapshot.version]_vars

\* "full reconciliation every 30 seconds catches missed signals"
\* (docs/contracts.md:265): once requests and changes stop, the cache agrees
\* with the repository and is not marked.
Converges == <>[](snapshot # None /\ snapshot.version = repo /\ ~snapshot.stale)
=============================================================================
