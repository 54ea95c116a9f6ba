------------------------- MODULE WorkspaceGraphProofs -------------------------
(***************************************************************************)
(* The cache and every response of a handler are of the privacy mode in    *)
(* force, and the cache never goes back to an older version, for any set   *)
(* of clients and modes and any numbers of changes, requests and faults.   *)
(*                                                                         *)
(* The argument: a scan of the current epoch names ids by the current      *)
(* mode, and no handler reads while an update holds the gate; the scan     *)
(* that started last read a version at least as new as the cached one.     *)
(***************************************************************************)
EXTENDS WorkspaceGraph, TLAPS

\* A scan that is under way, or that has ended, says what it is.
Scanning ==
  \A w \in Workers :
    /\ pc[w] \in {"scan", "read"} => scan[w] # None
    /\ pc[w] = "read" => scan[w].seen # None

\* Each epoch is the work of one update.
Counted == epoch <= updates /\ (update # "idle" => epoch < updates)

\* Within an epoch, the mode is one.
ScannedUnderMode ==
  \A w \in Workers :
    scan[w] # None =>
      scan[w].epoch <= epoch /\ (scan[w].epoch = epoch => scan[w].mode = mode)

Gated == update = "held" => \A c \in Clients : ~Reading(c)

\* The inductive invariant about modes.
ModeInv ==
  /\ TypeOK /\ Scanning /\ Counted /\ ScannedUnderMode /\ Gated
  /\ CachedUnderMode /\ AnsweredUnderMode

\* Nothing shows a version that is still to come.
Past ==
  /\ snapshot # None => snapshot.version <= repo
  /\ \A w \in Workers :
       scan[w] # None => (scan[w].seen \in Versions => scan[w].seen <= repo)

\* What the scan that started last has read is not older than the cache.
Newest ==
  \A w \in Workers :
    (/\ pc[w] = "read" /\ last = w /\ scan[w].epoch = epoch
     /\ scan[w].seen # Failed /\ snapshot # None)
      => snapshot.version <= scan[w].seen

VersionInv == ModeInv /\ Past /\ Newest

USE GraphAssumption DEF Workers

----------------------------------------------------------------------------
\* Init establishes both invariants.
LEMMA InitInv == Init => VersionInv
BY DEF Init, VersionInv, ModeInv, TypeOK, Scanning, Counted, ScannedUnderMode, Gated, CachedUnderMode,
       AnsweredUnderMode, Past, Newest, Versions

\* Finishing a scan: what is cached, and what is answered.
LEMMA Finished ==
  ASSUME ModeInv, NEW w \in Workers, FinishScan(w)
  PROVE  /\ snapshot' \in Snapshots \cup {None}
         /\ snapshot' # None => snapshot'.mode = mode
         /\ \E answer \in Snapshots \cup {Error} :
              Reply(w, answer) /\ (answer # Error => answer.mode = mode)
<1>1. CASE Outdated(w) /\ Reply(w, Error) /\ UNCHANGED snapshot
  BY <1>1 DEF ModeInv, TypeOK, CachedUnderMode
<1>2. CASE ~Outdated(w) /\ Superseded(w) /\ Reply(w, OrError(snapshot)) /\ UNCHANGED snapshot
  BY <1>2 DEF ModeInv, TypeOK, CachedUnderMode, OrError
<1>3. CASE /\ ~Outdated(w) /\ ~Superseded(w)
           /\ snapshot' = IF scan[w].seen = Failed THEN Retained ELSE Scanned(w)
           /\ Reply(w, OrError(snapshot'))
  <2>1. scan[w] \in Scans /\ scan[w].mode = mode /\ scan[w].seen # None
    BY <1>3 DEF ModeInv, TypeOK, Scanning, ScannedUnderMode, Outdated, FinishScan
  <2>2. /\ Retained \in Snapshots \cup {None}
        /\ Retained # None => Retained.mode = mode
    BY DEF ModeInv, TypeOK, CachedUnderMode, Retained, Snapshots
  <2>3. scan[w].seen # Failed => Scanned(w) \in Snapshots /\ Scanned(w).mode = mode
    BY <2>1 DEF Scanned, Snapshots, Scans
  <2>4. PICK snap \in Snapshots \cup {None} :
          /\ snap = snapshot' /\ Reply(w, OrError(snap))
          /\ snap # None => snap.mode = mode
    BY <1>3, <2>2, <2>3
  <2>5. OrError(snap) \in Snapshots \cup {Error} /\ (OrError(snap) # Error => OrError(snap).mode = mode)
    BY <2>4 DEF OrError
  <2> QED BY <2>4, <2>5
<1> QED BY <1>1, <1>2, <1>3 DEF FinishScan

\* An answer under the mode in force keeps what is known of the workers.
LEMMA Replied ==
  ASSUME ModeInv, NEW w \in Workers, NEW answer \in Snapshots \cup {Error},
         pc[w] \in {"call", "read"}, Reply(w, answer), answer # Error => answer.mode = mode,
         UNCHANGED <<mode, epoch, update>>
  PROVE  /\ pc' \in [Workers -> {"idle", "gate", "call", "scan", "read", "reply"}]
         /\ req' \in [Workers -> [id: Modes, refresh: BOOLEAN] \cup {None}]
         /\ scan' \in [Workers -> Scans \cup {None}]
         /\ reply' \in [Workers -> Snapshots \cup {None, Error}]
         /\ (\A v \in Workers : pc[v] = "reply" <=> reply[v] # None)'
         /\ Scanning' /\ ScannedUnderMode' /\ AnsweredUnderMode'
         /\ \A c \in Clients : Reading(c)' => Reading(c)
<1>1. CASE /\ w \in Clients
           /\ reply' = [reply EXCEPT ![w] = answer]
           /\ Goto(w, "reply")
           /\ UNCHANGED <<req, scan>>
  BY <1>1 DEF ModeInv, TypeOK, Goto, Scanning, ScannedUnderMode, AnsweredUnderMode, Reading
<1>2. CASE /\ w \notin Clients
           /\ req' = [req EXCEPT ![w] = None] /\ scan' = [scan EXCEPT ![w] = None]
           /\ Goto(w, "idle")
           /\ UNCHANGED reply
  BY <1>2 DEF ModeInv, TypeOK, Goto, Scanning, ScannedUnderMode, AnsweredUnderMode, Reading
<1> QED BY <1>1, <1>2 DEF Reply

----------------------------------------------------------------------------
\* Every step keeps the invariant about modes.
LEMMA ModeStep == ModeInv /\ [Next]_vars => ModeInv'
<1> SUFFICES ASSUME ModeInv, [Next]_vars PROVE ModeInv'
  OBVIOUS
<1> USE DEF ModeInv
<1>1. CASE Move
  BY <1>1 DEF Move, service, workers, counts, TypeOK, Versions, Scanning, Counted, ScannedUnderMode, Gated,
              Reading, CachedUnderMode, AnsweredUnderMode
<1>2. ASSUME NEW w \in {Loop, Poller}, Refresh(w), hint' \in Versions PROVE ModeInv'
  BY <1>2 DEF Refresh, Goto, service, counts, TypeOK, Scanning, Counted, ScannedUnderMode, Gated,
              Reading, CachedUnderMode, AnsweredUnderMode
<1>3. CASE AskUpdate
  BY <1>3 DEF AskUpdate, service, workers, TypeOK, Scanning, Counted, ScannedUnderMode, Gated,
              Reading, CachedUnderMode, AnsweredUnderMode
<1>4. CASE LockUpdate
  BY <1>4 DEF LockUpdate, service, workers, counts, TypeOK, Scanning, Counted, ScannedUnderMode, Gated,
              Reading, CachedUnderMode, AnsweredUnderMode
<1>5. CASE SetPrivacy
  <2>1. /\ update = "held" /\ update' = "idle"
        /\ UNCHANGED <<repo, hint, last, workers, target, counts>>
    BY <1>5 DEF SetPrivacy
  <2>2. Scanning' /\ Gated'
    BY <2>1 DEF Scanning, Gated, workers
  <2>3. CASE target = mode /\ UNCHANGED <<mode, epoch, snapshot>>
    BY <2>1, <2>2, <2>3 DEF workers, counts, TypeOK, Counted, ScannedUnderMode, CachedUnderMode, AnsweredUnderMode
  <2>4. CASE mode' = target /\ epoch' = epoch + 1 /\ snapshot' = None
    <3>1. \A c \in Clients : pc[c] # "reply"
      BY <2>1 DEF Gated, Reading
    <3>2. AnsweredUnderMode' /\ CachedUnderMode'
      BY <2>1, <2>4, <3>1 DEF AnsweredUnderMode, CachedUnderMode, workers
    <3>3. epoch' \in 0..MaxUpdates /\ Counted'
      BY <2>1, <2>4 DEF Counted, TypeOK, counts
    <3>4. ScannedUnderMode'
      BY <2>1, <2>4 DEF ScannedUnderMode, workers, TypeOK, Scans
    <3>5. TypeOK'
      BY <2>1, <2>4, <3>3 DEF TypeOK, workers, counts
    <3> QED BY <2>2, <3>2, <3>3, <3>4, <3>5
  <2> QED BY <1>5, <2>3, <2>4 DEF SetPrivacy
<1>6. CASE SaveFails
  BY <1>6 DEF SaveFails, service, workers, TypeOK, Scanning, Counted, ScannedUnderMode, Gated,
              Reading, CachedUnderMode, AnsweredUnderMode
<1>7. ASSUME NEW c \in Clients, Ask(c) PROVE ModeInv'
  <2>1. PICK id \in Modes, refresh \in BOOLEAN :
          req' = [req EXCEPT ![c] = [id |-> id, refresh |-> refresh]]
    BY <1>7 DEF Ask
  <2> QED BY <1>7, <2>1 DEF Ask, Goto, service, TypeOK, Scanning, Counted, ScannedUnderMode, Gated,
              Reading, CachedUnderMode, AnsweredUnderMode
<1>8. ASSUME NEW c \in Clients, Enter(c) PROVE ModeInv'
  BY <1>8 DEF Enter, Goto, service, counts, TypeOK, Scanning, Counted, ScannedUnderMode, Gated,
              Reading, CachedUnderMode, AnsweredUnderMode
<1>9. ASSUME NEW w \in Workers, NotFound(w) PROVE ModeInv'
  <2>1. Error \in Snapshots \cup {Error} /\ pc[w] = "call" /\ Reply(w, Error) /\ UNCHANGED <<mode, epoch, update>>
    BY <1>9 DEF NotFound, service
  <2>2. UNCHANGED <<repo, hint, service, update, target, counts>>
    BY <1>9 DEF NotFound
  <2> HIDE DEF ModeInv
  <2> QED BY <2>1, <2>2, Replied DEF ModeInv, service, counts, TypeOK, Counted, Gated, CachedUnderMode
<1>10. ASSUME NEW w \in Workers, Cached(w) PROVE ModeInv'
  <2>1. /\ snapshot \in Snapshots /\ snapshot.mode = mode
        /\ pc[w] = "call" /\ Reply(w, snapshot) /\ UNCHANGED <<mode, epoch, update>>
    BY <1>10 DEF Cached, service, TypeOK, CachedUnderMode
  <2>2. UNCHANGED <<repo, hint, service, update, target, counts>>
    BY <1>10 DEF Cached
  <2> HIDE DEF ModeInv
  <2> QED BY <2>1, <2>2, Replied DEF ModeInv, service, counts, TypeOK, Counted, Gated, CachedUnderMode
<1>11. ASSUME NEW w \in Workers, StartScan(w) PROVE ModeInv'
  <2>1. [epoch |-> epoch, mode |-> mode, seen |-> None] \in Scans
    BY DEF TypeOK, Scans
  <2> QED BY <1>11, <2>1 DEF StartScan, Goto, counts, TypeOK, Scanning, Counted, ScannedUnderMode, Gated,
              Reading, CachedUnderMode, AnsweredUnderMode
<1>12. ASSUME NEW w \in Workers, NEW seen \in Versions \cup {Failed}, pc[w] = "scan",
              scan' = [scan EXCEPT ![w].seen = seen], Goto(w, "read"), faults' \in 0..MaxFaults,
              UNCHANGED <<repo, hint, service, req, reply, update, target, requests, updates>>
       PROVE  ModeInv'
  <2>1. scan[w] \in Scans
    BY <1>12 DEF TypeOK, Scanning
  <2>2. [scan[w] EXCEPT !.seen = seen] \in Scans
    BY <2>1 DEF Scans
  <2>3. \A v \in Workers : scan'[v] = IF v = w THEN [scan[w] EXCEPT !.seen = seen] ELSE scan[v]
    BY <1>12 DEF TypeOK
  <2>4. scan' \in [Workers -> Scans \cup {None}]
    BY <1>12, <2>2 DEF TypeOK
  <2>5. /\ scan'[w].epoch = scan[w].epoch /\ scan'[w].mode = scan[w].mode
        /\ scan'[w].seen = seen /\ scan'[w] # None
    BY <2>1, <2>2, <2>3 DEF Scans
  <2>6. ScannedUnderMode'
    BY <1>12, <2>1, <2>3, <2>5 DEF ScannedUnderMode, service
  <2>7. Scanning'
    BY <1>12, <2>3, <2>5 DEF Scanning, Goto, TypeOK, Versions
  <2>8. TypeOK'
    BY <1>12, <2>4 DEF TypeOK, Goto, service
  <2>9. Gated' /\ CachedUnderMode' /\ AnsweredUnderMode' /\ Counted'
    BY <1>12 DEF Gated, CachedUnderMode, AnsweredUnderMode, Counted, Reading, Goto, TypeOK, service
  <2> QED BY <2>6, <2>7, <2>8, <2>9
<1>13. ASSUME NEW w \in Workers, FinishScan(w) PROVE ModeInv'
  <2>1. PICK answer \in Snapshots \cup {Error} :
          Reply(w, answer) /\ (answer # Error => answer.mode = mode)
    BY <1>13, Finished
  <2>2. snapshot' \in Snapshots \cup {None} /\ (snapshot' # None => snapshot'.mode = mode)
    BY <1>13, Finished
  <2>3. pc[w] = "read" /\ UNCHANGED <<repo, hint, mode, epoch, last, update, target, counts>>
    BY <1>13 DEF FinishScan
  <2> HIDE DEF ModeInv
  <2> QED BY <2>1, <2>2, <2>3, Replied DEF ModeInv, counts, TypeOK, Counted, Gated, CachedUnderMode
<1>14. ASSUME NEW w \in Workers, Answer(w) PROVE ModeInv'
  BY <1>14 DEF Answer, Goto, service, counts, TypeOK, Scanning, Counted, ScannedUnderMode, Gated,
              Reading, CachedUnderMode, AnsweredUnderMode
<1>15. CASE UNCHANGED vars
  BY <1>15 DEF vars, service, workers, counts, TypeOK, Scanning, Counted, ScannedUnderMode, Gated,
               Reading, CachedUnderMode, AnsweredUnderMode
<1>16. CASE Reconcile
  BY <1>2, <1>16 DEF Reconcile, TypeOK
<1>17. CASE Poll
  BY <1>2, <1>17 DEF Poll, TypeOK
<1>18. ASSUME NEW w \in Workers, ScanReads(w) PROVE ModeInv'
  <2>1. repo \in Versions \cup {Failed} /\ faults' \in 0..MaxFaults
    BY <1>18 DEF ScanReads, TypeOK, counts
  <2> QED BY <1>12, <1>18, <2>1 DEF ScanReads, counts
<1>19. ASSUME NEW w \in Workers, ScanFails(w) PROVE ModeInv'
  <2>1. Failed \in Versions \cup {Failed} /\ faults' \in 0..MaxFaults
    BY <1>19 DEF ScanFails, TypeOK
  <2> QED BY <1>12, <1>19, <2>1 DEF ScanFails
<1> QED
  BY <1>1, <1>3, <1>4, <1>5, <1>6, <1>7, <1>8, <1>9, <1>10, <1>11, <1>13, <1>14, <1>15, <1>16, <1>17, <1>18, <1>19
     DEF Next, Snapshot, Update

\* Types, for every value of the constants.
THEOREM Typing == Spec => []TypeOK
<1>1. Init => ModeInv
  BY InitInv DEF VersionInv
<1>2. ModeInv => TypeOK
  BY DEF ModeInv
<1> QED BY <1>1, <1>2, ModeStep, PTL DEF Spec

\* The epoch keeps scans of an earlier mode out of the cache.
THEOREM CacheOfMode == Spec => []CachedUnderMode
<1>1. Init => ModeInv
  BY InitInv DEF VersionInv
<1>2. ModeInv => CachedUnderMode
  BY DEF ModeInv
<1> QED BY <1>1, <1>2, ModeStep, PTL DEF Spec

\* The gate keeps responses of an earlier mode from being written.
THEOREM AnswersOfMode == Spec => []AnsweredUnderMode
<1>1. Init => ModeInv
  BY InitInv DEF VersionInv
<1>2. ModeInv => AnsweredUnderMode
  BY DEF ModeInv
<1> QED BY <1>1, <1>2, ModeStep, PTL DEF Spec

----------------------------------------------------------------------------
\* A worker that answers has nothing left to cache.
LEMMA RepliedVersions ==
  ASSUME VersionInv, NEW w \in Workers, NEW answer, Reply(w, answer),
         UNCHANGED <<repo, epoch, last>>,
         snapshot' # None => snapshot'.version <= repo,
         snapshot' = snapshot \/ last = w
  PROVE  Past' /\ Newest'
<1>1. \A v \in Workers \ {w} : pc'[v] = pc[v] /\ scan'[v] = scan[v]
  BY DEF Reply, Goto, VersionInv, ModeInv, TypeOK
<1>2. pc'[w] # "read" /\ (scan'[w] = scan[w] \/ scan'[w] = None)
  BY DEF Reply, Goto, VersionInv, ModeInv, TypeOK
<1>3. Past'
  BY <1>1, <1>2 DEF VersionInv, Past
<1>4. Newest'
  BY <1>1, <1>2 DEF VersionInv, Newest
<1> QED BY <1>3, <1>4

\* What a step caches is not older than what was cached.
LEMMA StoredNewer ==
  ASSUME VersionInv, NEW w \in Workers, FinishScan(w)
  PROVE  /\ snapshot' # None => snapshot'.version <= repo
         /\ snapshot # None /\ snapshot' # None => snapshot'.version >= snapshot.version
         /\ snapshot' = snapshot \/ last = w
<1>1. snapshot \in Snapshots \cup {None} /\ repo \in Versions
  BY DEF VersionInv, ModeInv, TypeOK
<1>2. CASE UNCHANGED snapshot
  BY <1>1, <1>2 DEF VersionInv, Past, Snapshots, Versions
<1>3. CASE /\ ~Outdated(w) /\ ~Superseded(w)
           /\ snapshot' = IF scan[w].seen = Failed THEN Retained ELSE Scanned(w)
  <2>1. last = w /\ pc[w] = "read" /\ scan[w].epoch = epoch
    BY <1>3 DEF Outdated, Superseded, FinishScan
  <2>2. CASE scan[w].seen = Failed
    <3>1. snapshot' = Retained
      BY <1>3, <2>2
    <3> QED BY <1>1, <2>1, <3>1 DEF Retained, VersionInv, Past, Snapshots, Versions
  <2>3. CASE scan[w].seen # Failed
    <3>1. scan[w] \in Scans /\ scan[w].seen \in Versions /\ scan[w] # None
      BY <2>1, <2>3 DEF VersionInv, ModeInv, TypeOK, Scanning, Scans
    <3>2. snapshot' = Scanned(w) /\ snapshot'.version = scan[w].seen
      BY <1>3, <2>3 DEF Scanned
    <3>3. scan[w].seen <= repo
      BY <3>1 DEF VersionInv, Past
    <3>4. snapshot # None => snapshot.version <= scan[w].seen
      BY <2>1, <2>3 DEF VersionInv, Newest
    <3> QED BY <1>1, <2>1, <3>1, <3>2, <3>3, <3>4 DEF Snapshots, Versions
  <2> QED BY <2>2, <2>3
<1> QED BY <1>2, <1>3 DEF FinishScan

\* Every step keeps the invariant about versions, and the cache moves forward.
LEMMA VersionStep ==
  VersionInv /\ [Next]_vars =>
    /\ VersionInv'
    /\ snapshot # None /\ snapshot' # None => snapshot'.version >= snapshot.version
<1> SUFFICES ASSUME VersionInv, [Next]_vars
             PROVE  /\ Past' /\ Newest'
                    /\ snapshot # None /\ snapshot' # None => snapshot'.version >= snapshot.version
  BY ModeStep DEF VersionInv
<1> DEFINE Kept == /\ Past' /\ Newest'
                   /\ snapshot # None /\ snapshot' # None => snapshot'.version >= snapshot.version
<1>0. /\ TypeOK /\ Past /\ Newest /\ repo \in Nat
      /\ snapshot # None => snapshot.version \in Nat
      /\ \A w \in Workers : scan[w] # None => scan[w] \in Scans
  BY DEF VersionInv, ModeInv, TypeOK, Versions, Snapshots
<1>a. ASSUME UNCHANGED <<snapshot, last, epoch, scan>>, repo' \in Nat, repo' >= repo,
             \A w \in Workers : pc'[w] = "read" => pc[w] = "read"
      PROVE  Kept
  <2>1. Past'
    BY <1>0, <1>a DEF Past, Versions
  <2>2. Newest'
    BY <1>0, <1>a DEF Newest
  <2> QED BY <1>0, <1>a, <2>1, <2>2
<1>1. CASE Move
  BY <1>0, <1>1, <1>a DEF Move, service, workers
<1>2. ASSUME NEW w \in Workers, Refresh(w) PROVE Kept
  BY <1>0, <1>2, <1>a DEF Refresh, Goto, service, TypeOK
<1>3. CASE AskUpdate \/ LockUpdate \/ SaveFails \/ UNCHANGED vars
  BY <1>0, <1>3, <1>a DEF AskUpdate, LockUpdate, SaveFails, vars, service, workers
<1>4. CASE SetPrivacy
  <2>1. CASE target = mode /\ UNCHANGED <<mode, epoch, snapshot>>
    BY <1>0, <1>4, <1>a, <2>1 DEF SetPrivacy, workers
  <2>2. CASE snapshot' = None
    BY <1>0, <1>4, <2>2 DEF SetPrivacy, workers, Past, Newest
  <2> QED BY <1>4, <2>1, <2>2 DEF SetPrivacy
<1>5. ASSUME NEW c \in Clients, Ask(c) \/ Enter(c) PROVE Kept
  BY <1>0, <1>5, <1>a DEF Ask, Enter, Goto, service, TypeOK
<1>6. ASSUME NEW w \in Workers, NotFound(w) \/ Cached(w) PROVE Kept
  <2>1. PICK answer : Reply(w, answer)
    BY <1>6 DEF NotFound, Cached
  <2>2. UNCHANGED <<repo, epoch, last, snapshot>>
    BY <1>6 DEF NotFound, Cached, service
  <2> QED BY <1>0, <2>1, <2>2, RepliedVersions DEF Past
<1>7. ASSUME NEW w \in Workers, StartScan(w) PROVE Kept
  <2>1. /\ \A v \in Workers : v # w => pc'[v] = pc[v] /\ scan'[v] = scan[v]
        /\ pc'[w] = "scan" /\ scan'[w].seen = None
        /\ last' = w /\ UNCHANGED <<repo, epoch, snapshot>>
    BY <1>0, <1>7 DEF StartScan, Goto, TypeOK
  <2>2. Past'
    BY <1>0, <2>1 DEF Past
  <2>3. Newest'
    BY <2>1 DEF Newest
  <2> QED BY <1>0, <2>1, <2>2, <2>3
<1>8. ASSUME NEW w \in Workers, NEW seen \in {repo, Failed}, pc[w] = "scan",
             scan' = [scan EXCEPT ![w].seen = seen], UNCHANGED <<repo, service>>, Goto(w, "read")
      PROVE  Kept
  <2>1. /\ \A v \in Workers : v # w => pc'[v] = pc[v] /\ scan'[v] = scan[v]
        /\ UNCHANGED <<repo, epoch, snapshot, last>>
    BY <1>0, <1>8 DEF Goto, service, TypeOK
  <2>2. scan[w] \in Scans
    BY <1>0, <1>8 DEF VersionInv, ModeInv, Scanning
  <2>3. scan'[w].seen = seen
    BY <1>0, <1>8, <2>2 DEF TypeOK, Scans
  <2>4. Past'
    BY <1>0, <2>1, <2>3 DEF Past
  <2>5. Newest'
    BY <1>0, <2>1, <2>3 DEF Past, Newest
  <2> QED BY <1>0, <2>1, <2>4, <2>5
<1>9. ASSUME NEW w \in Workers, ScanReads(w) PROVE Kept
  BY <1>8, <1>9 DEF ScanReads
<1>10. ASSUME NEW w \in Workers, ScanFails(w) PROVE Kept
  BY <1>8, <1>10 DEF ScanFails
<1>11. ASSUME NEW w \in Workers, FinishScan(w) PROVE Kept
  <2>1. PICK answer : Reply(w, answer)
    BY <1>11 DEF FinishScan
  <2>2. UNCHANGED <<repo, epoch, last>>
    BY <1>11 DEF FinishScan
  <2> QED BY <1>11, <2>1, <2>2, StoredNewer, RepliedVersions
<1>12. ASSUME NEW w \in Workers, Answer(w) PROVE Kept
  <2>1. /\ \A v \in Workers : v # w => pc'[v] = pc[v] /\ scan'[v] = scan[v]
        /\ pc'[w] = "idle" /\ scan'[w] = None
        /\ UNCHANGED <<repo, epoch, snapshot, last>>
    BY <1>0, <1>12 DEF Answer, Goto, service, TypeOK
  <2>2. Past' /\ Newest'
    BY <1>0, <2>1 DEF Past, Newest
  <2> QED BY <1>0, <2>1, <2>2
<1> QED
  BY <1>1, <1>2, <1>3, <1>4, <1>5, <1>6, <1>7, <1>9, <1>10, <1>11, <1>12
     DEF Next, Reconcile, Poll, Snapshot, Update

\* Whatever order scans end in, the cache never goes back to an older version.
THEOREM CacheForward == Spec => NeverBackwards
<1>1. VersionInv /\ [Next]_vars =>
        [snapshot # None /\ snapshot' # None => snapshot'.version >= snapshot.version]_vars
  BY VersionStep
<1>2. VersionInv /\ [Next]_vars => VersionInv'
  BY VersionStep
<1> QED BY <1>1, <1>2, InitInv, PTL DEF Spec, NeverBackwards
=============================================================================
