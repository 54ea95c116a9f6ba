------------------------ MODULE SourceOwnershipProofs ------------------------
(***************************************************************************)
(* At most one host runs the Sources, a line of the rollout file is        *)
(* admitted once and once more for each crash or failed save before its    *)
(* checkpoint, and the watch of the process table is that of the one host  *)
(* and tells the truth, for any set of host processes, any pids and        *)
(* agents, any number of lines, starts and faults.                         *)
(*                                                                         *)
(* The argument: a process counts exactly the Sources that use its file    *)
(* and owns the OS lock exactly while that count is positive; so nobody    *)
(* else moves the checkpoint under a watcher that has read it.             *)
(***************************************************************************)
EXTENDS SourceOwnership, SequenceTheorems, TLAPS

USE DEF Holding

Uses(p, s) == at[p][s] \in Holding

\* The count of the lease is the number of Sources that use it.
Counted ==
  \A p \in Processes :
    refs[p] = (IF Uses(p, "codex") THEN 1 ELSE 0) + (IF Uses(p, "process") THEN 1 ELSE 0)

\* A process owns the OS lock exactly while its count is positive.
Owned == \A p \in Processes : refs[p] > 0 <=> owner = p

\* The checkpoint is read once in the life of a process.
PreparedOnce ==
  \A p \in Processes : at[p]["codex"] \in {"claiming", "preparing", "waiting"} => ~prepared[p]

\* A line past the checkpoint was admitted at most once for each crash or failed save, but
\* for the one that is being saved.
Saving(l) == \E p \in Processes : at[p]["codex"] = "saving" /\ cursor[p] = l
Open(l) == (l <= disk) \/ Saving(l)
AccountedAt(l) ==
  \/ admitted[l] <= unsaved[l]
  \/ Open(l) /\ admitted[l] <= 1 + unsaved[l]
Accounted == \A l \in Lines : AccountedAt(l)

Lease == Counted /\ Owned
Checkpoint == PreparedOnce /\ FreshCursor /\ Accounted

\* The inductive invariant.
IInv == TypeOK /\ Lease /\ Checkpoint

----------------------------------------------------------------------------
\* Move changes the place of one Source of one process.
LEMMA Moved ==
  ASSUME TypeOK, NEW p \in Processes, NEW s \in Sources, NEW place \in Places,
         Move(p, s, place)
  PROVE  /\ at' \in [Processes -> [Sources -> Places]]
         /\ \A q \in Processes, t \in Sources :
              at'[q][t] = IF q = p /\ t = s THEN place ELSE at[q][t]
BY DEF TypeOK, Move

\* Only one process uses its Sources.
LEMMA LeaseExcludes == ASSUME TypeOK, Lease PROVE OneHost
BY DEF TypeOK, Lease, Counted, Owned, OneHost, Active, Uses, Sources

\* A step that leaves the lease alone and moves no Source in or out of use.
LEMMA LeaseKept ==
  ASSUME Lease, UNCHANGED lease,
         \A p \in Processes, s \in Sources : Uses(p, s)' <=> Uses(p, s)
  PROVE  Lease'
BY DEF Lease, Counted, Owned, lease, Sources

\* A Source that was not in use takes the lease.
LEMMA LeaseTaken ==
  ASSUME TypeOK, Lease, NEW p \in Processes, NEW s \in Sources, NEW place \in Holding,
         ~Uses(p, s), Lock(p), Move(p, s, place)
  PROVE  Lease' /\ refs' \in [Processes -> 0..2] /\ owner' = p
<1>1. \A q \in Processes, t \in Sources :
        at'[q][t] = IF q = p /\ t = s THEN place ELSE at[q][t]
  BY Moved DEF Places
<1>2. refs \in [Processes -> 0..2] /\ refs' = [refs EXCEPT ![p] = @ + 1]
  BY DEF TypeOK, Lock
<1>3. owner' = p /\ owner \in {p, Nobody}
  BY DEF Lock, Lease, Owned
<1>4. Counted'
  BY <1>1, <1>2 DEF Lease, Counted, Uses, Sources
<1>5. refs[p] <= 1
  BY DEF Lease, Counted, Uses, Sources
<1>6. Owned'
  BY <1>2, <1>3, OwnershipAssumption DEF Lease, Owned
<1> QED BY <1>2, <1>3, <1>4, <1>5, <1>6 DEF Lease

\* A Source that was in use gives the lease back.
LEMMA LeaseGiven ==
  ASSUME TypeOK, Lease, NEW p \in Processes, NEW s \in Sources, NEW place \in Places \ Holding,
         Uses(p, s), Release(p), Move(p, s, place)
  PROVE  Lease' /\ refs' \in [Processes -> 0..2] /\ owner' \in Processes \cup {Nobody}
<1>1. \A q \in Processes, t \in Sources :
        at'[q][t] = IF q = p /\ t = s THEN place ELSE at[q][t]
  BY Moved
<1>2. refs \in [Processes -> 0..2] /\ refs' = [refs EXCEPT ![p] = @ - 1]
  BY DEF TypeOK, Release
<1>3. refs[p] > 0 /\ owner = p
  BY DEF Lease, Counted, Owned, Uses, Sources
<1>4. owner' = IF refs[p] = 1 THEN Nobody ELSE p
  BY <1>3 DEF Release
<1>5. Counted'
  BY <1>1, <1>2, <1>3 DEF Lease, Counted, Uses, Sources
<1>6. Owned'
  BY <1>2, <1>3, <1>4, OwnershipAssumption DEF Lease, Owned
<1> QED BY <1>2, <1>3, <1>4, <1>5, <1>6 DEF Lease

\* A step that leaves the cursors, the checkpoint and the counts alone, and
\* moves the codex Source of a process into claiming or waiting only if it has
\* not read the checkpoint, and never into running or saving.
LEMMA CheckpointKept ==
  ASSUME TypeOK, Checkpoint, UNCHANGED codex,
         \A p \in Processes :
           \/ at'[p]["codex"] = at[p]["codex"]
           \/ /\ at'[p]["codex"] \in {"claiming", "preparing", "waiting", "off"}
              /\ at[p]["codex"] # "saving"
              /\ at'[p]["codex"] = "off" \/ ~prepared[p]
  PROVE  Checkpoint'
<1> USE DEF codex
<1>1. PreparedOnce' /\ FreshCursor'
  BY DEF Checkpoint, PreparedOnce, FreshCursor
<1>2. \A l \in Lines : Open(l) => Open(l)'
  BY DEF Open, Saving
<1>3. Accounted'
  BY <1>2 DEF Checkpoint, Accounted, AccountedAt
<1> QED BY <1>1, <1>3 DEF Checkpoint

----------------------------------------------------------------------------
\* Every action of one process keeps the invariant.
LEMMA StartStep ==
  ASSUME IInv, NEW p \in Processes, Start(p)
  PROVE  IInv'
<1>1. at' = [at EXCEPT ![p] = [s \in Sources |-> "claiming"]] /\ Off(p)
      /\ lease' = lease /\ stopping' = stopping /\ disk' = disk
      /\ admitted' = admitted /\ unsaved' = unsaved
  BY DEF Start
<1>2. TypeOK'
  <2>1. at' \in [Processes -> [Sources -> Places]]
    BY <1>1 DEF IInv, TypeOK, Places
  <2>2. /\ starts' \in 0..MaxStarts /\ faults' = faults
        /\ prepared' \in [Processes -> BOOLEAN] /\ cursor' \in [Processes -> 0..MaxLine]
    BY OwnershipAssumption DEF IInv, TypeOK, Start
  <2> QED BY <1>1, <2>1, <2>2 DEF IInv, TypeOK, lease
<1>3. \A q \in Processes, s \in Sources : Uses(q, s)' <=> Uses(q, s)
  BY <1>1 DEF IInv, TypeOK, Uses, Off
<1>4. Lease'
  BY <1>1, <1>3, LeaseKept DEF IInv
<1>5. \A q \in Processes : q # p => /\ at'[q] = at[q] /\ cursor'[q] = cursor[q]
                                    /\ prepared'[q] = prepared[q]
  BY DEF IInv, TypeOK, Start
<1>6. at'[p]["codex"] = "claiming" /\ at[p]["codex"] = "off" /\ prepared'[p] = FALSE
  BY DEF IInv, TypeOK, Start, Off, Sources
<1>7. PreparedOnce' /\ FreshCursor'
  BY <1>1, <1>5, <1>6 DEF IInv, Checkpoint, PreparedOnce, FreshCursor
<1>8. \A l \in Lines : Open(l) => Open(l)'
  BY <1>1, <1>5, <1>6 DEF Open, Saving
<1>9. Accounted'
  BY <1>1, <1>8 DEF IInv, Checkpoint, Accounted, AccountedAt
<1> QED BY <1>2, <1>4, <1>7, <1>9 DEF IInv, Checkpoint

\* The actions that only move a supervisor.
LEMMA MoveStep ==
  ASSUME IInv, NEW p \in Processes, NEW s \in Sources,
         ClaimFails(p, s) \/ Retry(p, s) \/ StopWaiting(p, s)
  PROVE  IInv'
<1>1. PICK place \in {"waiting", "claiming", "off"} :
        /\ Move(p, s, place) /\ at[p][s] \in {"claiming", "waiting"}
        /\ UNCHANGED <<lease, stopping, codex, starts>>
        /\ faults' \in 0..MaxFaults
  BY OwnershipAssumption DEF ClaimFails, Retry, StopWaiting, IInv, TypeOK
<1>2. \A q \in Processes, t \in Sources :
        at'[q][t] = IF q = p /\ t = s THEN place ELSE at[q][t]
  BY <1>1, Moved DEF IInv, Places
<1>3. TypeOK'
  BY <1>1, Moved DEF IInv, TypeOK, lease, codex, Places
<1>4. Lease'
  BY <1>1, <1>2, LeaseKept DEF IInv, Uses
<1>5. Checkpoint'
  BY <1>1, <1>2, CheckpointKept DEF IInv, Checkpoint, PreparedOnce, Sources
<1> QED BY <1>3, <1>4, <1>5 DEF IInv

LEMMA ClaimStep ==
  ASSUME IInv, NEW p \in Processes, NEW s \in Sources, Claim(p, s)
  PROVE  IInv'
<1>1. PICK place \in {"preparing", "running"} :
        /\ Move(p, s, place) /\ at[p][s] = "claiming" /\ Lock(p)
        /\ UNCHANGED <<stopping, codex, starts, faults>>
        /\ s = "codex" => place = "preparing"
  BY DEF Claim
<1>2. \A q \in Processes, t \in Sources :
        at'[q][t] = IF q = p /\ t = s THEN place ELSE at[q][t]
  BY <1>1, Moved DEF IInv, Places
<1>3. Lease' /\ refs' \in [Processes -> 0..2] /\ owner' = p
  BY <1>1, LeaseTaken DEF IInv, Uses
<1>4. TypeOK'
  BY <1>1, <1>3, Moved DEF IInv, TypeOK, codex, Places
<1>5. Checkpoint'
  BY <1>1, <1>2, CheckpointKept DEF IInv, Checkpoint, PreparedOnce, Sources
<1> QED BY <1>3, <1>4, <1>5 DEF IInv

\* The actions that give the lease back and leave the checkpoint alone.
LEMMA GiveStep ==
  ASSUME IInv, NEW p \in Processes,
         PrepareFails(p) \/ ProcessFails(p) \/ (\E s \in Sources : StopRunning(p, s))
  PROVE  IInv'
<1>1. PICK s \in Sources, place \in {"waiting", "off"} :
        /\ Move(p, s, place) /\ Uses(p, s) /\ at[p][s] # "saving" /\ Release(p)
        /\ UNCHANGED <<stopping, codex, starts>>
        /\ faults' \in 0..MaxFaults
        /\ s = "codex" => (place = "off" \/ ~prepared[p])
  <2>1. CASE PrepareFails(p)
    BY <2>1, OwnershipAssumption DEF PrepareFails, IInv, TypeOK, Uses, Sources
  <2>2. CASE ProcessFails(p)
    BY <2>2, OwnershipAssumption DEF ProcessFails, IInv, TypeOK, Uses, Sources
  <2>3. CASE \E s \in Sources : StopRunning(p, s)
    BY <2>3 DEF StopRunning, IInv, TypeOK, Uses
  <2> QED BY <2>1, <2>2, <2>3
<1>2. \A q \in Processes, t \in Sources :
        at'[q][t] = IF q = p /\ t = s THEN place ELSE at[q][t]
  BY <1>1, Moved DEF IInv, Places
<1>3. Lease' /\ refs' \in [Processes -> 0..2] /\ owner' \in Processes \cup {Nobody}
  BY <1>1, LeaseGiven DEF IInv, Places
<1>4. TypeOK'
  BY <1>1, <1>3, Moved DEF IInv, TypeOK, codex, Places
<1>5. Checkpoint'
  BY <1>1, <1>2, CheckpointKept DEF IInv, Sources
<1> QED BY <1>3, <1>4, <1>5 DEF IInv

LEMMA PrepareStep ==
  ASSUME IInv, NEW p \in Processes, Prepare(p)
  PROVE  IInv'
<1>1. /\ Move(p, "codex", "running") /\ at[p]["codex"] = "preparing"
      /\ UNCHANGED <<lease, stopping, disk, admitted, unsaved, starts, faults>>
      /\ ~prepared[p]
  BY DEF Prepare, IInv, Checkpoint, PreparedOnce
<1>2. \A q \in Processes, t \in Sources :
        at'[q][t] = IF q = p /\ t = "codex" THEN "running" ELSE at[q][t]
  BY <1>1, Moved DEF IInv, Places, Sources
<1>3. /\ cursor' = [cursor EXCEPT ![p] = disk]
      /\ prepared' = [prepared EXCEPT ![p] = TRUE]
  BY <1>1 DEF Prepare
<1>4. TypeOK'
  BY <1>1, <1>3, Moved DEF IInv, TypeOK, lease, Places, Sources
<1>5. Lease'
  BY <1>1, <1>2, LeaseKept DEF IInv, Uses
<1>6. PreparedOnce' /\ FreshCursor'
  BY <1>1, <1>2, <1>3 DEF IInv, TypeOK, Checkpoint, PreparedOnce, FreshCursor, Sources
<1>7. \A l \in Lines : Open(l) => Open(l)'
  BY <1>1, <1>2, <1>3 DEF IInv, TypeOK, Open, Saving, Sources
<1>8. Accounted'
  BY <1>1, <1>7 DEF IInv, Checkpoint, Accounted, AccountedAt
<1> QED BY <1>4, <1>5, <1>6, <1>8 DEF IInv, Checkpoint

\* The codex Source of no other process is in use.
LEMMA CodexAlone ==
  ASSUME IInv, NEW p \in Processes, at[p]["codex"] \in Holding
  PROVE  \A q \in Processes : q # p => at[q]["codex"] \notin Holding
BY LeaseExcludes DEF IInv, OneHost, Active, Sources

LEMMA AdmitStep ==
  ASSUME IInv, NEW p \in Processes, AdmitLine(p)
  PROVE  IInv'
<1>0. PICK l0 : l0 = cursor[p] + 1
  OBVIOUS
<1>1. /\ Move(p, "codex", "saving") /\ at[p]["codex"] = "running"
      /\ UNCHANGED <<lease, stopping, prepared, disk, unsaved, starts, faults>>
      /\ cursor' = [cursor EXCEPT ![p] = l0]
      /\ admitted' = [admitted EXCEPT ![l0] = @ + 1]
      /\ cursor[p] < MaxLine
  BY <1>0 DEF AdmitLine
<1>2. \A q \in Processes, t \in Sources :
        at'[q][t] = IF q = p /\ t = "codex" THEN "saving" ELSE at[q][t]
  BY <1>1, Moved DEF IInv, Places, Sources
<1>3. /\ cursor[p] \in 0..MaxLine /\ l0 \in Lines /\ disk = cursor[p] /\ MaxLine \in Nat
      /\ l0 = disk + 1
  BY <1>0, <1>1, OwnershipAssumption DEF IInv, TypeOK, Checkpoint, FreshCursor, Lines
<1>4. admitted' \in [Lines -> Nat] /\ cursor' \in [Processes -> 0..MaxLine]
  BY <1>1, <1>3 DEF IInv, TypeOK, Lines
<1>5. TypeOK'
  BY <1>1, <1>4, Moved DEF IInv, TypeOK, lease, Places, Sources
<1>6. Lease'
  BY <1>1, <1>2, LeaseKept DEF IInv, Uses
<1>7. PreparedOnce' /\ FreshCursor'
  BY <1>1, <1>2, <1>3 DEF IInv, TypeOK, Checkpoint, PreparedOnce, FreshCursor, Sources
<1>8. \A l \in Lines : ~Saving(l)
  BY <1>1, CodexAlone DEF Saving
<1>9. Saving(l0)'
  BY <1>1, <1>2 DEF IInv, TypeOK, Saving, Sources
<1>10. ASSUME NEW l \in Lines PROVE AccountedAt(l)'
  <2>1. admitted[l] \in Nat /\ unsaved[l] \in Nat
    BY DEF IInv, TypeOK
  <2>2. \/ admitted[l] <= unsaved[l]
        \/ (l <= disk) /\ admitted[l] <= 1 + unsaved[l]
    BY <1>8 DEF IInv, Checkpoint, Accounted, AccountedAt, Open
  <2>3. CASE l = l0
    <3>1. ~(l <= disk)
      BY <2>3, <1>3 DEF IInv, TypeOK
    <3>2. admitted'[l] = admitted[l] + 1 /\ unsaved'[l] = unsaved[l]
      BY <2>3, <1>1, <1>3 DEF IInv, TypeOK
    <3>3. Open(l)'
      BY <2>3, <1>9 DEF Open
    <3>4. admitted'[l] <= 1 + unsaved'[l]
      BY <3>1, <3>2, <2>1, <2>2
    <3> QED BY <3>3, <3>4 DEF AccountedAt
  <2>4. CASE l # l0
    <3>1. admitted'[l] = admitted[l] /\ unsaved'[l] = unsaved[l] /\ disk' = disk
      BY <2>4, <1>1, <1>3 DEF IInv, TypeOK
    <3> QED BY <3>1, <2>2 DEF AccountedAt, Open
  <2> QED BY <2>3, <2>4
<1>11. Accounted'
  BY <1>1, <1>10 DEF Accounted
<1> QED BY <1>5, <1>6, <1>7, <1>11 DEF IInv, Checkpoint

LEMMA SaveStep ==
  ASSUME IInv, NEW p \in Processes, SaveLine(p)
  PROVE  IInv'
<1>1. /\ Move(p, "codex", "running") /\ at[p]["codex"] = "saving"
      /\ UNCHANGED <<lease, stopping, prepared, cursor, admitted, unsaved, starts, faults>>
      /\ disk' = cursor[p]
  BY DEF SaveLine
<1>2. \A q \in Processes, t \in Sources :
        at'[q][t] = IF q = p /\ t = "codex" THEN "running" ELSE at[q][t]
  BY <1>1, Moved DEF IInv, Places, Sources
<1>3. /\ cursor[p] = disk + 1 /\ cursor[p] \in 0..MaxLine /\ disk \in 0..MaxLine
      /\ MaxLine \in Nat
  BY <1>1, OwnershipAssumption DEF IInv, TypeOK, Checkpoint, FreshCursor
<1>4. TypeOK'
  BY <1>1, <1>3, Moved DEF IInv, TypeOK, lease, Places, Sources
<1>5. Lease'
  BY <1>1, <1>2, LeaseKept DEF IInv, Uses
<1>6. \A q \in Processes : q # p => at[q]["codex"] \notin Holding
  BY <1>1, CodexAlone
<1>7. PreparedOnce' /\ FreshCursor'
  BY <1>1, <1>2, <1>3, <1>6 DEF IInv, Checkpoint, PreparedOnce, FreshCursor, Sources
<1>8. \A l \in Lines : Saving(l) => l <= disk'
  BY <1>1, <1>3, <1>6 DEF Saving
<1>9. \A l \in Lines : Open(l) => Open(l)'
  BY <1>1, <1>3, <1>8 DEF Lines, Open
<1>10. Accounted'
  BY <1>1, <1>9 DEF IInv, Checkpoint, Accounted, AccountedAt
<1> QED BY <1>4, <1>5, <1>7, <1>10 DEF IInv, Checkpoint

\* The line that could not be saved is accounted for by the failure, and the cursor is
\* again that of the checkpoint.
LEMMA SaveFailsStep ==
  ASSUME IInv, NEW p \in Processes, SaveFails(p)
  PROVE  IInv'
<1>1. /\ Move(p, "codex", "running") /\ at[p]["codex"] = "saving"
      /\ UNCHANGED <<lease, stopping, prepared, disk, admitted, starts>>
      /\ cursor' = [cursor EXCEPT ![p] = cursor[p] - 1]
      /\ unsaved' = [unsaved EXCEPT ![cursor[p]] = @ + 1]
      /\ faults < MaxFaults /\ faults' = faults + 1
  BY DEF SaveFails
<1>2. \A q \in Processes, t \in Sources :
        at'[q][t] = IF q = p /\ t = "codex" THEN "running" ELSE at[q][t]
  BY <1>1, Moved DEF IInv, Places, Sources
<1>3. /\ cursor[p] = disk + 1 /\ cursor[p] \in Lines /\ disk \in 0..MaxLine
      /\ MaxLine \in Nat /\ MaxFaults \in Nat
  BY <1>1, OwnershipAssumption DEF IInv, TypeOK, Checkpoint, FreshCursor, Lines
<1>4. /\ cursor' \in [Processes -> 0..MaxLine] /\ unsaved' \in [Lines -> Nat]
      /\ faults' \in 0..MaxFaults
  BY <1>1, <1>3 DEF IInv, TypeOK, Lines
<1>5. TypeOK'
  BY <1>1, <1>4, Moved DEF IInv, TypeOK, lease, Places, Sources
<1>6. Lease'
  BY <1>1, <1>2, LeaseKept DEF IInv, Uses
<1>7. cursor'[p] = disk /\ \A q \in Processes : q # p => cursor'[q] = cursor[q]
  BY <1>1, <1>3 DEF IInv, TypeOK
<1>8. PreparedOnce' /\ FreshCursor'
  BY <1>1, <1>2, <1>7 DEF IInv, Checkpoint, PreparedOnce, FreshCursor, Sources
<1>9. ASSUME NEW l \in Lines PROVE AccountedAt(l)'
  <2>1. /\ admitted[l] \in Nat /\ unsaved[l] \in Nat
        /\ admitted'[l] = admitted[l] /\ disk' = disk
    BY <1>1 DEF IInv, TypeOK
  <2>2. AccountedAt(l)
    BY DEF IInv, Checkpoint, Accounted
  <2>3. CASE cursor[p] = l
    <3>1. unsaved'[l] = unsaved[l] + 1
      BY <2>3, <1>1 DEF IInv, TypeOK
    <3>2. admitted[l] <= unsaved'[l]
      BY <3>1, <2>1, <2>2 DEF AccountedAt
    <3> QED BY <3>2, <2>1 DEF AccountedAt
  <2>4. CASE cursor[p] # l
    <3>1. Saving(l) => Saving(l)'
      BY <2>4, <1>2, <1>7 DEF Saving, Sources
    <3>2. unsaved'[l] = unsaved[l]
      BY <2>4, <1>1, <1>3 DEF IInv, TypeOK
    <3> QED BY <3>1, <3>2, <2>1, <2>2 DEF AccountedAt, Open
  <2> QED BY <2>3, <2>4
<1>10. Accounted'
  BY <1>1, <1>9 DEF Accounted
<1> QED BY <1>5, <1>6, <1>8, <1>10 DEF IInv, Checkpoint

LEMMA CrashStep ==
  ASSUME IInv, NEW p \in Processes, Crash(p)
  PROVE  IInv'
<1>1. /\ owner' = (IF owner = p THEN Nobody ELSE owner)
      /\ refs' = [refs EXCEPT ![p] = 0]
      /\ at' = [at EXCEPT ![p] = [s \in Sources |-> "off"]]
      /\ stopping' = stopping \ {p}
      /\ unsaved' = (IF at[p]["codex"] = "saving"
                  THEN [unsaved EXCEPT ![cursor[p]] = @ + 1] ELSE unsaved)
      /\ UNCHANGED <<prepared, cursor, disk, admitted, starts, faults>>
  BY DEF Crash
<1>2. \A q \in Processes, t \in Sources :
        at'[q][t] = IF q = p THEN "off" ELSE at[q][t]
  BY <1>1 DEF IInv, TypeOK
<1>3. at[p]["codex"] = "saving" => cursor[p] = disk + 1 /\ cursor[p] \in Lines
  BY OwnershipAssumption DEF IInv, TypeOK, Checkpoint, FreshCursor, Lines
<1>4. unsaved' \in [Lines -> Nat] /\ at' \in [Processes -> [Sources -> Places]]
  BY <1>1, <1>3 DEF IInv, TypeOK, Places
<1>5. TypeOK'
  BY <1>1, <1>4 DEF IInv, TypeOK
<1>6. Counted'
  BY <1>1, <1>2 DEF IInv, TypeOK, Lease, Counted, Uses, Sources
<1>7. Owned'
  BY <1>1, OwnershipAssumption DEF IInv, TypeOK, Lease, Owned
<1>8. PreparedOnce' /\ FreshCursor'
  BY <1>1, <1>2 DEF IInv, Checkpoint, PreparedOnce, FreshCursor, Sources
<1>9. ASSUME NEW l \in Lines PROVE AccountedAt(l)'
  <2>1. /\ admitted[l] \in Nat /\ unsaved[l] \in Nat
        /\ admitted'[l] = admitted[l] /\ disk' = disk
    BY <1>1 DEF IInv, TypeOK
  <2>2. AccountedAt(l)
    BY DEF IInv, Checkpoint, Accounted
  <2>3. CASE at[p]["codex"] = "saving" /\ cursor[p] = l
    <3>1. unsaved'[l] = unsaved[l] + 1
      BY <2>3, <1>1 DEF IInv, TypeOK
    <3>2. admitted[l] <= unsaved'[l]
      BY <3>1, <2>1, <2>2 DEF AccountedAt
    <3> QED BY <3>2, <2>1 DEF AccountedAt
  <2>4. CASE ~(at[p]["codex"] = "saving" /\ cursor[p] = l)
    <3>1. Saving(l) => Saving(l)'
      BY <2>4, <1>1, <1>2 DEF Saving, Sources
    <3>2. unsaved'[l] = unsaved[l]
      BY <2>4, <1>1, <1>3 DEF IInv, TypeOK
    <3> QED BY <3>1, <3>2, <2>1, <2>2 DEF AccountedAt, Open
  <2> QED BY <2>3, <2>4
<1>10. Accounted'
  BY <1>1, <1>9 DEF Accounted
<1> QED BY <1>5, <1>6, <1>7, <1>8, <1>10 DEF IInv, Lease, Checkpoint

\* A step that changes only the cancellation, or counts a fault, or nothing.
LEMMA QuietStep ==
  ASSUME IInv, UNCHANGED <<lease, at, codex, starts>>, stopping' \subseteq Processes, faults' \in 0..MaxFaults
  PROVE  IInv'
<1>1. TypeOK'
  BY DEF IInv, TypeOK, lease, codex
<1>2. Lease'
  BY LeaseKept DEF IInv, Uses
<1>3. Checkpoint'
  BY CheckpointKept DEF IInv
<1> QED BY <1>1, <1>2, <1>3 DEF IInv

----------------------------------------------------------------------------
\* IInv is inductive.
LEMMA OwnershipInit == ASSUME Init PROVE IInv
<1>1. TypeOK
  BY OwnershipAssumption DEF Init, TypeOK, Places
<1>2. Lease
  BY OwnershipAssumption DEF Init, Lease, Counted, Owned, Uses, Sources
<1>3. Checkpoint
  BY DEF Init, Checkpoint, PreparedOnce, FreshCursor, Accounted, AccountedAt, Sources
<1> QED BY <1>1, <1>2, <1>3 DEF IInv

LEMMA OwnershipStep == ASSUME IInv, [Next]_vars PROVE IInv'
<1>1. CASE UNCHANGED vars
  BY <1>1, QuietStep DEF vars, IInv, TypeOK
<1>2. ASSUME NEW p \in Processes, Cancel(p) \/ Exit(p) PROVE IInv'
  BY <1>2, QuietStep DEF Cancel, Exit, IInv, TypeOK
<1>3. ASSUME NEW p \in Processes, Start(p) PROVE IInv'
  BY <1>3, StartStep
<1>4. ASSUME NEW p \in Processes, Crash(p) PROVE IInv'
  BY <1>4, CrashStep
<1>5. ASSUME NEW p \in Processes, Prepare(p) \/ AdmitLine(p) \/ SaveLine(p) \/ SaveFails(p) PROVE IInv'
  BY <1>5, PrepareStep, AdmitStep, SaveStep, SaveFailsStep
<1>6. ASSUME NEW p \in Processes, PrepareFails(p) \/ ProcessFails(p) PROVE IInv'
  BY <1>6, GiveStep
<1>7. ASSUME NEW p \in Processes, NEW s \in Sources,
             (Claim(p, s) \/ ClaimFails(p, s) \/ Retry(p, s)) \/ (StopWaiting(p, s) \/ StopRunning(p, s))
      PROVE  IInv'
  BY <1>7, ClaimStep, MoveStep, GiveStep
<1> QED BY <1>1, <1>2, <1>3, <1>4, <1>5, <1>6, <1>7 DEF Next, Supervise

LEMMA OwnershipInvariance == Spec => []IInv
<1> QED BY OwnershipInit, OwnershipStep, PTL DEF Spec

\* Ownership is granted to only one host.
THEOREM OwnershipExcludes == Spec => []OneHost
<1>1. IInv => OneHost
  BY LeaseExcludes DEF IInv
<1> QED BY <1>1, OwnershipInvariance, PTL

\* A line is admitted once, and again only after a crash or a failed save before its checkpoint
\* (readAppends of watcher.go): at most once for each.
THEOREM LinesCapturedOnce == Spec => []CapturedOnce
<1>1. ASSUME IInv PROVE CapturedOnce
  <2>1. ASSUME NEW l \in Lines PROVE admitted[l] <= 1 + unsaved[l]
    BY <1>1 DEF IInv, TypeOK, Checkpoint, Accounted, AccountedAt
  <2> QED BY <2>1 DEF CapturedOnce
<1> QED BY <1>1, OwnershipInvariance, PTL

\* A running watcher holds the cursors of the checkpoint.
THEOREM CursorsFresh == Spec => []FreshCursor
BY OwnershipInvariance, PTL DEF IInv, Checkpoint
----------------------------------------------------------------------------
(* The watch of the process table, run by the owner.                       *)

\* One watch is on exactly while a host runs the process Source, so that the one record of it
\* stands for every host's and never keeps a host from its claim.
WatchOfHost == (watch # "off") <=> \E p \in Processes : at[p]["process"] = "running"

WatchTyped ==
  /\ table \in [Pids -> Agents \cup {Nothing}]
  /\ watch \in {"off", "starting", "idle", "sending"}
  /\ running \in [Pids -> Agents \cup {Nothing}] /\ current \in [Pids -> Agents \cup {Nothing}]
  /\ todo \subseteq Watch!Report
  /\ channel \in Seq(Watch!Report) /\ Len(channel) <= Capacity
  /\ last \in [Pids -> Watch!Names \cup {"none"}]
  /\ base \subseteq Pids /\ fresh \in BOOLEAN
  /\ lives \in 0..MaxLives

\* With what the channel ch still holds, the watch has said that pid i runs.
SaysOn(ch, l, b, i) ==
  \/ \E k \in 1..Len(ch) : ch[k].name = "agent-start" /\ ch[k].pid = i /\ \A j \in k + 1..Len(ch) : ch[j].pid # i
  \/ (\A j \in 1..Len(ch) : ch[j].pid # i) /\ (l[i] = "agent-start" \/ (l[i] = "none" /\ i \in b))

\* Nothing is left of the watch before.
Rested == running = Watch!NoAgents /\ channel = <<>> /\ last = [i \in Pids |-> "none"] /\ base = {} /\ ~fresh

\* Of a pid with a difference still to be sent, the listing; of any other, what was said agrees with it.
Sending(i) ==
  /\ \A r \in todo : r.pid = i => (r.name = "agent-start" <=> current[i] # Nothing)
  /\ (\A r \in todo : r.pid # i) => (current[i] # Nothing <=> SaysOn(channel, last, base, i))

Polling ==
  /\ watch \in {"off", "starting"} => Rested
  /\ watch = "idle" => \A i \in Pids : running[i] # Nothing <=> SaysOn(channel, last, base, i)
  /\ watch = "sending" => \A i \in Pids : Sending(i)
  /\ fresh => \/ watch = "idle" /\ running = table
              \/ watch = "sending" /\ current = table

\* A report that is sent decides what was said of its pid, and of no other.
LEMMA SaidSent ==
  ASSUME NEW ch \in Seq(Watch!Report), NEW r \in Watch!Report, NEW l, NEW b, NEW i
  PROVE  SaysOn(Append(ch, r), l, b, i) <=> IF r.pid = i THEN r.name = "agent-start" ELSE SaysOn(ch, l, b, i)
<1> DEFINE d == Append(ch, r)
<1>1. Len(ch) \in Nat /\ Len(d) = Len(ch) + 1 /\ d[Len(ch) + 1] = r /\ \A k \in 1..Len(ch) : d[k] = ch[k]
  BY AppendProperties
<1> HIDE DEF d
<1>2. \A k \in 1..Len(d) : k \in 1..Len(ch) \/ k = Len(ch) + 1
  BY <1>1
<1>3. \A k \in 1..Len(ch) : k \in 1..Len(d) /\ Len(ch) + 1 \in k + 1..Len(d)
  BY <1>1
<1>4. Len(ch) + 1 \in 1..Len(d) /\ \A j \in Len(ch) + 2..Len(d) : FALSE
  BY <1>1
<1>5. CASE r.pid = i
  <2>1. ASSUME SaysOn(d, l, b, i)
        PROVE  r.name = "agent-start"
    <3>1. PICK k \in 1..Len(d) : d[k].name = "agent-start" /\ d[k].pid = i /\ \A j \in k + 1..Len(d) : d[j].pid # i
      BY <1>1, <1>4, <1>5, <2>1 DEF SaysOn
    <3>2. k = Len(ch) + 1
      BY <1>1, <1>2, <1>3, <1>5, <3>1
    <3> QED
      BY <1>1, <3>1, <3>2
  <2>2. ASSUME r.name = "agent-start"
        PROVE  SaysOn(d, l, b, i)
    <3>1. \A j \in Len(ch) + 1 + 1..Len(d) : d[j].pid # i
      BY <1>1
    <3> QED
      BY <1>1, <1>4, <1>5, <2>2, <3>1 DEF SaysOn
  <2> QED
    BY <1>5, <2>1, <2>2 DEF d
<1>6. CASE r.pid # i
  <2>1. (\A j \in 1..Len(d) : d[j].pid # i) <=> \A j \in 1..Len(ch) : ch[j].pid # i
    BY <1>1, <1>2, <1>3, <1>6
  <2>2. ASSUME NEW k \in 1..Len(ch)
        PROVE  (\A j \in k + 1..Len(d) : d[j].pid # i) <=> \A j \in k + 1..Len(ch) : ch[j].pid # i
    <3>1. \A j \in k + 1..Len(d) : (j \in k + 1..Len(ch) /\ j \in 1..Len(ch)) \/ j = Len(ch) + 1
      BY <1>1
    <3>2. \A j \in k + 1..Len(ch) : j \in k + 1..Len(d) /\ j \in 1..Len(ch)
      BY <1>1
    <3> QED
      BY <1>1, <1>6, <3>1, <3>2
  <2>3. SaysOn(d, l, b, i) <=> SaysOn(ch, l, b, i)
    BY <1>1, <1>2, <1>3, <1>6, <2>1, <2>2 DEF SaysOn
  <2> QED
    BY <1>6, <2>3 DEF d
<1> QED
  BY <1>5, <1>6

\* Admitting a report changes nothing of what was said.
LEMMA SaidAdmitted ==
  ASSUME NEW ch \in Seq(Watch!Report), ch # <<>>, NEW l \in [Pids -> Watch!Names \cup {"none"}], NEW b, NEW i \in Pids
  PROVE  SaysOn(Tail(ch), [l EXCEPT ![Head(ch).pid] = Head(ch).name], b, i) <=> SaysOn(ch, l, b, i)
<1> DEFINE d == Tail(ch)
           m == [l EXCEPT ![Head(ch).pid] = Head(ch).name]
<1>1. /\ Len(ch) \in Nat /\ Len(ch) > 0 /\ Len(d) = Len(ch) - 1 /\ Head(ch) = ch[1]
      /\ \A k \in 1..Len(d) : d[k] = ch[k + 1]
  BY HeadTailProperties, EmptySeq
<1> HIDE DEF d
<1>2. ch[1] \in Watch!Report
  BY <1>1
<1>3. ch[1].pid \in Pids /\ ch[1].name \in {"agent-start", "agent-stop"}
  BY <1>2 DEF Watch!Report, Watch!Names
<1>4. m[i] = IF ch[1].pid = i THEN ch[1].name ELSE l[i]
  BY <1>1, <1>3
<1> HIDE DEF m
<1>5. (\A j \in 1..Len(ch) : ch[j].pid # i) <=> ch[1].pid # i /\ \A j \in 1..Len(d) : d[j].pid # i
  <2>1. \A j \in 1..Len(d) : j + 1 \in 1..Len(ch)
    BY <1>1
  <2>2. \A j \in 1..Len(ch) : j = 1 \/ (j - 1 \in 1..Len(d) /\ (j - 1) + 1 = j)
    BY <1>1
  <2>3. 1 \in 1..Len(ch)
    BY <1>1
  <2>4. \A j \in 1..Len(ch) : j = 1 \/ ch[j] = d[j - 1]
    BY <1>1, <2>2
  <2> QED
    BY <1>1, <2>1, <2>2, <2>3, <2>4
<1>6. ASSUME NEW k \in 1..Len(d)
      PROVE  (\A j \in k + 1..Len(d) : d[j].pid # i) <=> \A j \in (k + 1) + 1..Len(ch) : ch[j].pid # i
  <2>1. \A j \in k + 1..Len(d) : j + 1 \in (k + 1) + 1..Len(ch) /\ d[j] = ch[j + 1]
    BY <1>1
  <2>2. \A j \in (k + 1) + 1..Len(ch) : j - 1 \in k + 1..Len(d) /\ d[j - 1] = ch[j]
    <3>1. \A j \in (k + 1) + 1..Len(ch) : j - 1 \in k + 1..Len(d) /\ j - 1 \in 1..Len(d) /\ (j - 1) + 1 = j
      BY <1>1
    <3> QED
      BY <1>1, <3>1
  <2> QED
    BY <2>1, <2>2
<1>7. (\A j \in 1 + 1..Len(ch) : ch[j].pid # i) <=> \A j \in 1..Len(d) : d[j].pid # i
  <2>1. \A j \in 1..Len(d) : j + 1 \in 1 + 1..Len(ch) /\ d[j] = ch[j + 1]
    BY <1>1
  <2>2. \A j \in 1 + 1..Len(ch) : j - 1 \in 1..Len(d) /\ d[j - 1] = ch[j]
    <3>1. \A j \in 1 + 1..Len(ch) : j - 1 \in 1..Len(d) /\ (j - 1) + 1 = j
      BY <1>1
    <3> QED
      BY <1>1, <3>1
  <2> QED
    BY <2>1, <2>2
<1>8. ASSUME SaysOn(ch, l, b, i)
      PROVE  SaysOn(d, m, b, i)
  <2>1. CASE \A j \in 1..Len(ch) : ch[j].pid # i
    <3>1. l[i] = "agent-start" \/ (l[i] = "none" /\ i \in b)
      BY <1>8, <2>1 DEF SaysOn
    <3> QED
      BY <1>4, <1>5, <2>1, <3>1 DEF SaysOn
  <2>2. CASE ~\A j \in 1..Len(ch) : ch[j].pid # i
    <3>1. PICK k \in 1..Len(ch) : ch[k].name = "agent-start" /\ ch[k].pid = i /\ \A j \in k + 1..Len(ch) : ch[j].pid # i
      BY <1>8, <2>2 DEF SaysOn
    <3>2. CASE k = 1
      BY <1>4, <1>7, <3>1, <3>2 DEF SaysOn
    <3>3. CASE k # 1
      <4>1. k - 1 \in 1..Len(d) /\ (k - 1) + 1 = k
        BY <1>1, <3>3
      <4>2. d[k - 1] = ch[k]
        BY <1>1, <4>1
      <4>3. \A j \in (k - 1) + 1..Len(d) : d[j].pid # i
        BY <1>6, <3>1, <4>1
      <4> QED
        BY <3>1, <4>1, <4>2, <4>3 DEF SaysOn
    <3> QED
      BY <3>2, <3>3
  <2> QED
    BY <2>1, <2>2
<1>9. ASSUME SaysOn(d, m, b, i)
      PROVE  SaysOn(ch, l, b, i)
  <2>1. CASE \A j \in 1..Len(d) : d[j].pid # i
    <3>1. m[i] = "agent-start" \/ (m[i] = "none" /\ i \in b)
      BY <1>9, <2>1 DEF SaysOn
    <3>2. CASE ch[1].pid = i
      <4>1. ch[1].name = "agent-start" /\ 1 \in 1..Len(ch)
        BY <1>1, <1>3, <1>4, <3>1, <3>2
      <4> QED
        BY <1>7, <2>1, <3>2, <4>1 DEF SaysOn
    <3>3. CASE ch[1].pid # i
      BY <1>4, <1>5, <2>1, <3>1, <3>3 DEF SaysOn
    <3> QED
      BY <3>2, <3>3
  <2>2. CASE ~\A j \in 1..Len(d) : d[j].pid # i
    <3>1. PICK k \in 1..Len(d) : d[k].name = "agent-start" /\ d[k].pid = i /\ \A j \in k + 1..Len(d) : d[j].pid # i
      BY <1>9, <2>2 DEF SaysOn
    <3>2. k + 1 \in 1..Len(ch) /\ d[k] = ch[k + 1] /\ \A j \in (k + 1) + 1..Len(ch) : ch[j].pid # i
      BY <1>1, <1>6, <3>1
    <3> QED
      BY <3>1, <3>2 DEF SaysOn
  <2> QED
    BY <2>1, <2>2
<1> QED
  BY <1>8, <1>9 DEF d, m
\* A watch ends with its host's process Source.
LEMMA WatchEnds ==
  ASSUME WatchTyped, Watch!End, UNCHANGED <<table, lives>>
  PROVE  WatchTyped' /\ Polling'
<1>1. Capacity \in Nat
  BY WatchConstants DEF Watch!WatchAssumption
<1>2. WatchTyped'
  <2>1. channel' \in Seq(Watch!Report) /\ Len(channel') <= Capacity
    BY <1>1 DEF Watch!End
  <2>2. last' \in [Pids -> Watch!Names \cup {"none"}] /\ base' \subseteq Pids /\ fresh' \in BOOLEAN /\ todo' \subseteq Watch!Report
    BY DEF Watch!End
  <2> QED
    BY <2>1, <2>2 DEF WatchTyped, Watch!End, Watch!NoAgents
<1>3. Polling'
  BY DEF Polling, Rested, Watch!End, Watch!NoAgents
<1> QED
  BY <1>2, <1>3

LEMMA WatchBegins ==
  ASSUME WatchTyped, Polling, Watch!StartWatch
  PROVE  WatchTyped' /\ Polling'
<1>1. WatchTyped'
  BY DEF WatchTyped, Watch!StartWatch
<1>2. Polling'
  BY DEF WatchTyped, Polling, Rested, Watch!StartWatch
<1> QED
  BY <1>1, <1>2

\* The first listing is remembered and not reported; one that fails finds nothing to remember.
LEMMA WatchBaseline ==
  ASSUME WatchTyped, Polling, Watch!Baseline \/ Watch!BaselineFails
  PROVE  WatchTyped' /\ Polling'
<1>1. Rested /\ watch' = "idle" /\ UNCHANGED <<table, current, todo, channel, last, lives>>
  BY DEF Polling, Watch!Baseline, Watch!BaselineFails
<1>2. channel' = <<>> /\ \A i \in Pids : last'[i] = "none"
  BY <1>1 DEF Rested
<1>3. \A i \in Pids : SaysOn(channel', last', base', i) <=> i \in base'
  BY <1>2 DEF SaysOn
<1>4. \/ running' = table /\ fresh' = TRUE /\ base' = {i \in Pids : table[i] # Nothing}
      \/ running' = Watch!NoAgents /\ ~fresh' /\ base' = {} /\ fresh' = fresh /\ running' = running
  BY <1>1 DEF Rested, Watch!Baseline, Watch!BaselineFails
<1>5. WatchTyped'
  BY <1>1, <1>4 DEF WatchTyped
<1>6. Polling'
  BY <1>1, <1>3, <1>4 DEF Polling, Watch!NoAgents
<1> QED
  BY <1>5, <1>6

\* A listing leaves to be sent exactly the differences with what was said.
LEMMA WatchLists ==
  ASSUME WatchTyped, Polling, Watch!List
  PROVE  WatchTyped' /\ Polling'
<1>1. /\ watch = "idle" /\ watch' = "sending" /\ current' = table /\ fresh' = TRUE /\ todo' = Watch!Diff(running, table)
      /\ UNCHANGED <<table, running, channel, last, base, lives>>
  BY DEF Watch!List
<1>2. todo' \subseteq Watch!Report
  BY <1>1 DEF Watch!Diff, Watch!Report, Watch!Names
<1>3. WatchTyped'
  BY <1>1, <1>2 DEF WatchTyped
<1>4. ASSUME NEW i \in Pids
      PROVE  Sending(i)'
  <2>1. \A r \in todo' : r.pid = i => (r.name = "agent-start" <=> table[i] # Nothing)
    BY <1>1 DEF Watch!Diff
  <2>2. ASSUME \A r \in todo' : r.pid # i
        PROVE  running[i] # Nothing <=> table[i] # Nothing
    <3>1. CASE running[i] = Nothing /\ table[i] # Nothing
      <4>1. [name |-> "agent-start", pid |-> i] \in todo'
        BY <1>1, <3>1 DEF Watch!Diff
      <4> QED
        BY <2>2, <4>1
    <3>2. CASE running[i] # Nothing /\ table[i] = Nothing
      <4>1. [name |-> "agent-stop", pid |-> i] \in todo'
        BY <1>1, <3>2 DEF Watch!Diff
      <4> QED
        BY <2>2, <4>1
    <3> QED
      BY <3>1, <3>2
  <2>3. running[i] # Nothing <=> SaysOn(channel, last, base, i)
    BY <1>1 DEF Polling
  <2> QED
    BY <1>1, <2>1, <2>2, <2>3 DEF Sending
<1>5. Polling'
  BY <1>1, <1>4 DEF Polling
<1> QED
  BY <1>3, <1>5

LEMMA WatchSends ==
  ASSUME WatchTyped, Polling, Watch!Send
  PROVE  WatchTyped' /\ Polling'
<1>1. PICK r \in todo : todo' = todo \ {r} /\ channel' = Append(channel, r)
  BY DEF Watch!Send
<1>2. /\ watch = "sending" /\ Len(channel) < Capacity
      /\ UNCHANGED <<table, watch, running, current, last, base, fresh, lives>>
  BY DEF Watch!Send
<1>3. r \in Watch!Report /\ channel \in Seq(Watch!Report) /\ Capacity \in Nat
  BY WatchConstants DEF WatchTyped, Watch!WatchAssumption
<1>4. channel' \in Seq(Watch!Report) /\ Len(channel') <= Capacity
  BY <1>1, <1>2, <1>3, AppendProperties
<1>5. WatchTyped'
  BY <1>1, <1>2, <1>4 DEF WatchTyped
<1>6. ASSUME NEW i \in Pids
      PROVE  Sending(i)'
  <2>1. Sending(i)
    BY <1>2 DEF Polling
  <2>2. SaysOn(channel', last', base', i) <=> IF r.pid = i THEN r.name = "agent-start" ELSE SaysOn(channel, last, base, i)
    BY <1>1, <1>2, <1>3, SaidSent
  <2>3. \A q \in todo' : q.pid = i => (q.name = "agent-start" <=> current[i] # Nothing)
    BY <1>1, <2>1 DEF Sending
  <2>4. ASSUME \A q \in todo' : q.pid # i
        PROVE  current[i] # Nothing <=> SaysOn(channel', last', base', i)
    <3>1. CASE r.pid = i
      BY <2>1, <2>2, <3>1 DEF Sending
    <3>2. CASE r.pid # i
      <4>1. \A q \in todo : q.pid # i
        BY <1>1, <2>4, <3>2
      <4> QED
        BY <2>1, <2>2, <3>2, <4>1 DEF Sending
    <3> QED
      BY <3>1, <3>2
  <2> QED
    BY <1>2, <2>3, <2>4 DEF Sending
<1>7. Polling'
  BY <1>2, <1>6 DEF Polling
<1> QED
  BY <1>5, <1>7

LEMMA WatchPolled ==
  ASSUME WatchTyped, Polling, Watch!PollDone
  PROVE  WatchTyped' /\ Polling'
<1>1. /\ watch = "sending" /\ todo = {} /\ watch' = "idle" /\ running' = current /\ current' = Watch!NoAgents
      /\ UNCHANGED <<table, todo, channel, last, base, fresh, lives>>
  BY DEF Watch!PollDone
<1>2. WatchTyped'
  BY <1>1 DEF WatchTyped, Watch!NoAgents
<1>3. Polling'
  BY <1>1 DEF Polling, Sending
<1> QED
  BY <1>2, <1>3

LEMMA WatchAdmits ==
  ASSUME WatchTyped, Polling, Watch!Admit
  PROVE  WatchTyped' /\ Polling'
<1>1. /\ watch # "off" /\ channel # <<>> /\ channel' = Tail(channel)
      /\ last' = [last EXCEPT ![Head(channel).pid] = Head(channel).name]
      /\ UNCHANGED <<table, watch, running, current, todo, base, fresh, lives>>
  BY DEF Watch!Admit, Watch!watcher
<1>2. channel \in Seq(Watch!Report) /\ last \in [Pids -> Watch!Names \cup {"none"}] /\ Capacity \in Nat
  BY WatchConstants DEF WatchTyped, Watch!WatchAssumption
<1>3. Head(channel) \in Watch!Report /\ Tail(channel) \in Seq(Watch!Report) /\ Len(Tail(channel)) = Len(channel) - 1
  BY <1>1, <1>2, HeadTailProperties
<1>4. Len(channel') <= Capacity
  BY <1>1, <1>2, <1>3 DEF WatchTyped
<1>5. last' \in [Pids -> Watch!Names \cup {"none"}]
  BY <1>1, <1>2, <1>3 DEF Watch!Report
<1>6. WatchTyped'
  BY <1>1, <1>3, <1>4, <1>5 DEF WatchTyped
<1>7. ASSUME NEW i \in Pids
      PROVE  SaysOn(channel', last', base', i) <=> SaysOn(channel, last, base, i)
  <2>1. SaysOn(Tail(channel), last', base, i) <=> SaysOn(channel, last, base, i)
    BY <1>1, <1>2, SaidAdmitted
  <2> QED
    BY <1>1, <2>1
<1>8. ASSUME NEW i \in Pids, Sending(i)
      PROVE  Sending(i)'
  BY <1>1, <1>7, <1>8 DEF Sending
<1>9. watch \notin {"off", "starting"}
  BY <1>1 DEF Polling, Rested
<1>10. Polling'
  BY <1>1, <1>7, <1>8, <1>9 DEF Polling
<1> QED
  BY <1>6, <1>10

LEMMA MachineMoves ==
  ASSUME WatchTyped, Polling, Watch!Machine
  PROVE  WatchTyped' /\ Polling'
<1>1. /\ UNCHANGED <<watch, running, current, todo, channel, last, base>> /\ fresh' = FALSE
      /\ table' \in [Pids -> Agents \cup {Nothing}] /\ lives' \in 0..MaxLives
  <2>1. CASE \E i \in Pids : Watch!AgentExits(i)
    BY <2>1 DEF WatchTyped, Watch!AgentExits, Watch!watcher
  <2>2. CASE \E i \in Pids, a \in Agents : Watch!AgentStarts(i, a)
    <3>1. MaxLives \in Nat
      BY WatchConstants DEF Watch!WatchAssumption
    <3> QED
      BY <2>2, <3>1 DEF WatchTyped, Watch!AgentStarts, Watch!watcher
  <2> QED
    BY <2>1, <2>2 DEF Watch!Machine
<1>2. WatchTyped'
  BY <1>1 DEF WatchTyped
<1>3. Polling'
  BY <1>1 DEF Polling, Rested, Sending
<1> QED
  BY <1>2, <1>3

\* A step of the watch or of the machine under it neither begins nor ends the watch.
LEMMA WatchSteps ==
  ASSUME WatchTyped, Polling, WatchStep \/ BaselineFails
  PROVE  WatchTyped' /\ Polling' /\ (watch' # "off" <=> watch # "off") /\ UNCHANGED hosts
<1>1. WatchTyped' /\ Polling'
  BY WatchBaseline, WatchLists, WatchSends, WatchPolled, WatchAdmits, MachineMoves DEF WatchStep, BaselineFails
<1>2. watch' # "off" <=> watch # "off"
  BY DEF WatchStep, BaselineFails, Watch!Baseline, Watch!BaselineFails, Watch!List, Watch!Send, Watch!PollDone, Watch!Admit,
     Watch!Machine, Watch!AgentExits, Watch!AgentStarts, Watch!watcher
<1> QED
  BY <1>1, <1>2 DEF WatchStep, BaselineFails

\* A step of a host that leaves the watch alone moves no process Source in or out of running.
LEMMA HostSteps ==
  ASSUME IInv, WatchOfHost, NEW p \in Processes, HostStep(p)
  PROVE  [Next]_vars /\ WatchOfHost' /\ UNCHANGED watching
<1>1. Next
  BY DEF HostStep, RunCodex, Next, Supervise, Sources
<1>2. ASSUME NEW q \in Processes
      PROVE  at'[q]["process"] = "running" <=> at[q]["process"] = "running"
  <2>1. at \in [Processes -> [Sources -> Places]] /\ "process" \in Sources /\ "codex" \in Sources
    BY DEF IInv, TypeOK, Sources
  <2>2. CASE Start(p)
    BY <2>1, <2>2 DEF Start, Off
  <2>3. CASE Cancel(p) \/ Exit(p)
    BY <2>3 DEF Cancel, Exit
  <2>4. CASE Claim(p, "codex") \/ RunCodex(p) \/ StopRunning(p, "codex")
    <3>1. PICK place \in Places : Move(p, "codex", place)
      BY <2>4 DEF Claim, RunCodex, Prepare, PrepareFails, AdmitLine, SaveLine, SaveFails, StopRunning, Places
    <3> QED
      BY <2>1, <3>1, Moved DEF IInv
  <2>5. CASE \E s \in Sources : ClaimFails(p, s) \/ Retry(p, s) \/ StopWaiting(p, s)
    <3>1. PICK s \in Sources, place \in {"waiting", "claiming", "off"} : Move(p, s, place) /\ at[p][s] \in {"claiming", "waiting"}
      BY <2>5 DEF ClaimFails, Retry, StopWaiting
    <3>2. place \in Places /\ place # "running"
      BY DEF Places
    <3>3. at'[q]["process"] = IF q = p /\ "process" = s THEN place ELSE at[q]["process"]
      BY <2>1, <3>1, <3>2, Moved DEF IInv
    <3> QED
      BY <3>1, <3>2, <3>3
  <2> QED
    BY <2>2, <2>3, <2>4, <2>5 DEF HostStep
<1>3. watch' = watch /\ UNCHANGED watching
  BY DEF HostStep, watching
<1> QED
  BY <1>1, <1>2, <1>3 DEF WatchOfHost

WInv == IInv /\ WatchOfHost /\ WatchTyped /\ Polling

LEMMA SourcesBegin ==
  ASSUME SourcesInit
  PROVE  WInv
<1>1. IInv
  BY OwnershipInit DEF SourcesInit
<1>2. WatchOfHost
  BY DEF SourcesInit, Init, Watch!Init, WatchOfHost, Sources
<1>3. WatchTyped
  <2>1. Capacity \in Nat /\ MaxLives \in Nat
    BY WatchConstants DEF Watch!WatchAssumption
  <2>2. channel \in Seq(Watch!Report) /\ Len(channel) <= Capacity
    BY <2>1 DEF SourcesInit, Watch!Init
  <2>3. last \in [Pids -> Watch!Names \cup {"none"}] /\ base \subseteq Pids /\ fresh \in BOOLEAN /\ todo \subseteq Watch!Report
    BY DEF SourcesInit, Watch!Init
  <2> QED
    BY <2>1, <2>2, <2>3 DEF SourcesInit, Watch!Init, Watch!NoAgents, WatchTyped
<1>4. Polling
  BY DEF SourcesInit, Watch!Init, Polling, Rested
<1> QED
  BY <1>1, <1>2, <1>3, <1>4 DEF WInv

\* Every step of the hosts together is one of SourceOwnership, or the watch's own, which counts a
\* fault at most; and the watch begins and ends with the process Source of the one host.
LEMMA SourcesStep ==
  ASSUME WInv, [SourcesNext]_allVars
  PROVE  WInv'
<1> USE DEF WInv
<1>1. at \in [Processes -> [Sources -> Places]] /\ "process" \in Sources /\ OneHost
  BY LeaseExcludes DEF IInv, TypeOK, Sources
<1>2. ASSUME NEW p \in Processes, NEW q \in Processes, at[p]["process"] = "running", at[q]["process"] = "running"
      PROVE  p = q
  BY <1>1, <1>2 DEF OneHost, Active, Holding
<1>3. CASE UNCHANGED allVars
  <2>1. UNCHANGED vars /\ UNCHANGED watching
    BY <1>3 DEF allVars, hosts, vars
  <2>2. IInv'
    BY <2>1, OwnershipStep
  <2> QED
    BY <2>1, <2>2 DEF vars, watching, WatchOfHost, WatchTyped, Polling, Rested, Sending
<1>4. CASE WatchStep \/ BaselineFails
  <2>1. faults' \in 0..MaxFaults
    <3>1. faults' = faults \/ (faults < MaxFaults /\ faults' = faults + 1)
      BY <1>4 DEF WatchStep, BaselineFails, Watch!Baseline, Watch!BaselineFails, Watch!List, Watch!Send, Watch!PollDone, Watch!Admit,
         Watch!Machine, Watch!AgentExits, Watch!AgentStarts
    <3> QED
      BY <3>1, OwnershipAssumption DEF IInv, TypeOK
  <2>2. WatchTyped' /\ Polling' /\ (watch' # "off" <=> watch # "off") /\ UNCHANGED hosts
    BY <1>4, WatchSteps
  <2>3. IInv'
    BY <2>1, <2>2, QuietStep DEF hosts, IInv, TypeOK
  <2> QED
    BY <2>2, <2>3 DEF hosts, WatchOfHost
<1>5. ASSUME NEW p \in Processes, HostStep(p)
      PROVE  WInv'
  <2>1. [Next]_vars /\ WatchOfHost' /\ UNCHANGED watching
    BY <1>5, HostSteps
  <2> QED
    BY <2>1, OwnershipStep DEF watching, WatchTyped, Polling, Rested, Sending
<1>6. ASSUME NEW p \in Processes, ClaimProcess(p)
      PROVE  WInv'
  <2>1. IInv'
    BY <1>6, ClaimStep DEF ClaimProcess, Sources
  <2>2. WatchTyped' /\ Polling'
    BY <1>6, WatchBegins DEF ClaimProcess
  <2>3. at'[p]["process"] = "running" /\ watch' # "off"
    BY <1>1, <1>6 DEF ClaimProcess, Claim, Move, Watch!StartWatch
  <2> QED
    BY <2>1, <2>2, <2>3 DEF WatchOfHost
<1>7. ASSUME NEW p \in Processes, AdmitFails(p) \/ StopProcess(p)
      PROVE  WInv'
  <2>1. IInv'
    BY <1>7, GiveStep DEF AdmitFails, StopProcess, Sources
  <2>2. WatchTyped' /\ Polling'
    BY <1>7, WatchEnds DEF AdmitFails, StopProcess, Watch!AdmitFails, Watch!StopWatch
  <2>3. PICK place \in {"waiting", "off"} : at[p]["process"] = "running" /\ Move(p, "process", place)
    BY <1>7 DEF AdmitFails, StopProcess, ProcessFails, StopRunning
  <2>4. \A q \in Processes : at'[q]["process"] # "running"
    BY <1>1, <1>2, <2>3 DEF Move
  <2>5. watch' = "off"
    BY <1>7 DEF AdmitFails, StopProcess, Watch!AdmitFails, Watch!StopWatch, Watch!End
  <2> QED
    BY <2>1, <2>2, <2>4, <2>5 DEF WatchOfHost
<1>8. ASSUME NEW p \in Processes, CrashHost(p)
      PROVE  WInv'
  <2>1. IInv'
    BY <1>8, CrashStep DEF CrashHost
  <2>2. at' = [at EXCEPT ![p] = [s \in Sources |-> "off"]]
    BY <1>8 DEF CrashHost, Crash
  <2>3. CASE at[p]["process"] = "running"
    <3>1. Watch!StopWatch
      BY <1>8, <2>3 DEF CrashHost
    <3>2. WatchTyped' /\ Polling' /\ watch' = "off"
      BY <3>1, WatchEnds DEF Watch!StopWatch, Watch!End
    <3>3. \A q \in Processes : at'[q]["process"] # "running"
      BY <1>1, <1>2, <2>2, <2>3
    <3> QED
      BY <2>1, <3>2, <3>3 DEF WatchOfHost
  <2>4. CASE at[p]["process"] # "running"
    <3>1. UNCHANGED watching
      BY <1>8, <2>4 DEF CrashHost
    <3>2. \A q \in Processes : at'[q]["process"] = "running" <=> at[q]["process"] = "running"
      BY <1>1, <2>2, <2>4
    <3> QED
      BY <2>1, <3>1, <3>2 DEF watching, WatchOfHost, WatchTyped, Polling, Rested, Sending
  <2> QED
    BY <2>3, <2>4
<1> QED
  BY <1>3, <1>4, <1>5, <1>6, <1>7, <1>8 DEF SourcesNext

\* Whatever a watch has said agrees with the table it listed last.
LEMMA PollingIsTrue ==
  ASSUME WInv
  PROVE  OneHost /\ CapturedOnce /\ Watch!TypeOK /\ Watch!CaughtUpIsTrue /\ WatchOfHost
<1> USE DEF WInv
<1>1. OneHost
  BY LeaseExcludes DEF IInv
<1>2. CapturedOnce
  BY DEF CapturedOnce, IInv, TypeOK, Checkpoint, Accounted, AccountedAt
<1>3. Watch!TypeOK
  BY DEF Watch!TypeOK, WatchTyped, IInv, TypeOK
<1>4. ASSUME watch = "idle", fresh, channel = <<>>, NEW i \in Pids
      PROVE  (table[i] # Nothing) <=> (last[i] = "agent-start" \/ (last[i] = "none" /\ i \in base))
  <2>1. table[i] # Nothing <=> SaysOn(channel, last, base, i)
    BY <1>4 DEF Polling
  <2> QED
    BY <1>4, <2>1 DEF SaysOn
<1>5. Watch!CaughtUpIsTrue
  BY <1>4 DEF Watch!CaughtUpIsTrue
<1> QED
  BY <1>1, <1>2, <1>3, <1>5

LEMMA SourcesInvariance == SourcesSpec => []WInv
<1> QED BY SourcesBegin, SourcesStep, PTL DEF SourcesSpec

\* Also with the watch under them, only one host runs the Sources: each step of a host is one of
\* SourceOwnership, and no failure of the watch gives the lease away.
THEOREM SourcesExclude == SourcesSpec => []OneHost
<1> QED BY SourcesInvariance, PollingIsTrue, PTL

\* And a line is admitted once, and once more at most for each crash and each failed save
\* before its checkpoint.
THEOREM SourcesCaptureOnce == SourcesSpec => []CapturedOnce
<1> QED BY SourcesInvariance, PollingIsTrue, PTL

\* While hosts come, go and crash and listings and Admissions fail, a watch is on exactly when a
\* host runs the process Source, and one that has caught up with a table at rest has said the
\* truth of every pid (procwatch.go, processSource): the safety half of ReportsAreTrue.
THEOREM WatchTellsTruth == SourcesSpec => [](WatchOfHost /\ Watch!TypeOK /\ Watch!CaughtUpIsTrue)
<1> QED BY SourcesInvariance, PollingIsTrue, PTL
=============================================================================
