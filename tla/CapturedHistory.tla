-------------------------- MODULE CapturedHistory --------------------------
(***************************************************************************)
(* What the Capture Engine promises its queries, without locks, files or   *)
(* scans: an event is committed to durable history first and only then     *)
(* becomes visible, it stays visible for the life of the process, and a    *)
(* new process starts from what was committed.                             *)
(***************************************************************************)
EXTENDS FiniteSets

CONSTANT Ids

VARIABLES committed, visible, up

hvars == <<committed, visible, up>>

HInit == committed = {} /\ visible = {} /\ up = FALSE

Commit(i) ==
  /\ committed' = committed \cup {i}
  /\ UNCHANGED <<visible, up>>

Reveal(i) ==
  /\ up /\ i \in committed \ visible
  /\ visible' = visible \cup {i}
  /\ UNCHANGED <<committed, up>>

Recover ==
  /\ ~up /\ up' = TRUE
  /\ visible' \in SUBSET committed
  /\ UNCHANGED committed

\* The process dies; a commit it was inside may have reached the disk.
Fail ==
  /\ up /\ up' = FALSE
  /\ visible' = {}
  /\ \/ UNCHANGED committed
     \/ \E i \in Ids : committed' = committed \cup {i}

HNext == Recover \/ Fail \/ \E i \in Ids : Commit(i) \/ Reveal(i)

HSpec == HInit /\ [][HNext]_hvars
=============================================================================
