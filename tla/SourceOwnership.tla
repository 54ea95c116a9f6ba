--------------------------- MODULE SourceOwnership ---------------------------
(***************************************************************************)
(* Which host runs the passive Sources, and what they tell                 *)
(* (src/internal/capture: source_lock.go, superviseSource in reconcile.go, *)
(* codexSource and processSource in sources.go).                           *)
(*                                                                         *)
(* Every host process builds both Sources around one sourceLease: a file   *)
(* locked by the OS for the process, counted by the Sources that use it.   *)
(* The codex Source admits the lines of one rollout file past the cursor   *)
(* its process read from the shared checkpoint.  The process Source runs   *)
(* the watch of ProcWatch from its claim until it fails, stops or dies;    *)
(* the second half of the module composes the two.  Hosts share the        *)
(* machine: agents start and exit while ownership moves.                   *)
(***************************************************************************)
EXTENDS Naturals, FiniteSets, Sequences

CONSTANTS
  Processes, Nobody,
  MaxLine,        \* lines of the rollout file
  MaxStarts, MaxFaults

Sources == {"codex", "process"}

ASSUME OwnershipAssumption ==
  /\ Nobody \notin Processes
  /\ MaxLine \in Nat /\ MaxStarts \in Nat /\ MaxFaults \in Nat

VARIABLES
  owner,      \* the process whose open file holds the OS lock, or Nobody
  refs,       \* [Processes -> Nat]: sourceLease.refs, file # nil iff it is positive
  at,         \* [Processes -> [Sources -> where the supervisor of that Source is]]
  stopping,   \* the processes whose context is cancelled
  prepared,   \* [Processes -> BOOLEAN]: codexSource.prepared
  cursor,     \* [Processes -> lines the codex watcher of the process is past]
  disk,       \* the checkpoint file
  admitted,   \* [lines -> how often it was admitted]
  unsaved,    \* [lines -> crashes and failed saves between its Admission and its checkpoint]
  starts, faults

lease == <<owner, refs>>
codex == <<prepared, cursor, disk, admitted, unsaved>>
vars == <<lease, at, stopping, codex, starts, faults>>

Places == {"off", "claiming", "preparing", "running", "saving", "waiting"}
Holding == {"preparing", "running", "saving"}
Lines == 1..MaxLine

TypeOK ==
  /\ owner \in Processes \cup {Nobody}
  /\ refs \in [Processes -> 0..2]
  /\ at \in [Processes -> [Sources -> Places]]
  /\ stopping \subseteq Processes
  /\ prepared \in [Processes -> BOOLEAN]
  /\ cursor \in [Processes -> 0..MaxLine]
  /\ disk \in 0..MaxLine
  /\ admitted \in [Lines -> Nat] /\ unsaved \in [Lines -> Nat]
  /\ starts \in 0..MaxStarts /\ faults \in 0..MaxFaults

Off(p) == \A s \in Sources : at[p][s] = "off"
Move(p, s, place) == at' = [at EXCEPT ![p][s] = place]

----------------------------------------------------------------------------
(* sourceLease.                                                            *)

\* Variant: a lock that is held elsewhere does not stop the claim.
LockUnchecked(p) ==
  /\ owner' = p
  /\ refs' = [refs EXCEPT ![p] = @ + 1]

\* tryClaim: share the file this process holds, else lock it without waiting.
Lock(p) ==
  /\ \/ refs[p] > 0 /\ owner' = owner
     \/ refs[p] = 0 /\ owner = Nobody /\ owner' = p
  /\ refs' = [refs EXCEPT ![p] = @ + 1]

\* Variant: the first Source that stops gives the file up.
ReleaseAll(p) ==
  /\ refs' = [refs EXCEPT ![p] = 0]
  /\ owner' = IF owner = p THEN Nobody ELSE owner

\* Variant: the file is never unlocked while its process lives.
ReleaseNever(p) ==
  /\ refs' = [refs EXCEPT ![p] = IF @ = 1 THEN 1 ELSE @ - 1]
  /\ UNCHANGED owner

\* release: the last reference unlocks and closes the file.
Release(p) ==
  /\ refs' = [refs EXCEPT ![p] = @ - 1]
  /\ owner' = IF refs[p] = 1 THEN Nobody ELSE owner

----------------------------------------------------------------------------
(* superviseSource around leasedSource.Run.                                *)

\* A host starts its engine: one supervisor for each Source.
Start(p) ==
  /\ Off(p) /\ p \notin stopping /\ starts < MaxStarts
  /\ starts' = starts + 1
  /\ at' = [at EXCEPT ![p] = [s \in Sources |-> "claiming"]]
  /\ prepared' = [prepared EXCEPT ![p] = FALSE]
  /\ cursor' = [cursor EXCEPT ![p] = 0]
  /\ UNCHANGED <<lease, stopping, disk, admitted, unsaved, faults>>

\* claim succeeds, cancelled or not; the process Source has no prepare and runs.
Claim(p, s) ==
  /\ at[p][s] = "claiming"
  /\ Lock(p)
  /\ Move(p, s, IF s = "codex" THEN "preparing" ELSE "running")
  /\ UNCHANGED <<stopping, codex, starts, faults>>

\* The directory or the lock file cannot be opened: a warning and a retry.
ClaimFails(p, s) ==
  /\ at[p][s] = "claiming" /\ refs[p] = 0 /\ faults < MaxFaults
  /\ faults' = faults + 1
  /\ Move(p, s, "waiting")
  /\ UNCHANGED <<lease, stopping, codex, starts>>

\* codexSource.prepare: the checkpoint is read once in the life of a process.
Prepare(p) ==
  /\ at[p]["codex"] = "preparing"
  /\ prepared' = [prepared EXCEPT ![p] = TRUE]
  /\ cursor' = IF prepared[p] THEN cursor ELSE [cursor EXCEPT ![p] = disk]
  /\ Move(p, "codex", "running")
  /\ UNCHANGED <<lease, stopping, disk, admitted, unsaved, starts, faults>>

\* Initialize fails: the deferred release runs, the supervisor retries.
PrepareFails(p) ==
  /\ at[p]["codex"] = "preparing" /\ ~prepared[p] /\ faults < MaxFaults
  /\ faults' = faults + 1
  /\ Release(p)
  /\ Move(p, "codex", "waiting")
  /\ UNCHANGED <<stopping, codex, starts>>

\* The watcher's Sink admits a line, then its checkpoint is saved.  A Sink that fails, or
\* the save of the pending id before it, leaves all of this as it was (DurableTail).
AdmitLine(p) ==
  /\ at[p]["codex"] = "running" /\ cursor[p] < MaxLine /\ p \notin stopping
  /\ cursor' = [cursor EXCEPT ![p] = @ + 1]
  /\ admitted' = [admitted EXCEPT ![cursor[p] + 1] = @ + 1]
  /\ Move(p, "codex", "saving")
  /\ UNCHANGED <<lease, stopping, prepared, disk, unsaved, starts, faults>>
SaveLine(p) ==
  /\ at[p]["codex"] = "saving"
  /\ disk' = cursor[p]
  /\ Move(p, "codex", "running")
  /\ UNCHANGED <<lease, stopping, prepared, cursor, admitted, unsaved, starts, faults>>

\* That save fails: the cursor is again the one before the line, which the next Poll
\* admits once more.
SaveFails(p) ==
  /\ at[p]["codex"] = "saving" /\ faults < MaxFaults
  /\ faults' = faults + 1
  /\ cursor' = [cursor EXCEPT ![p] = @ - 1]
  /\ unsaved' = [unsaved EXCEPT ![cursor[p]] = @ + 1]
  /\ Move(p, "codex", "running")
  /\ UNCHANGED <<lease, stopping, prepared, disk, admitted, starts>>

\* processSource.Run returns when an Admission fails; codexSource.Run does not.
ProcessFails(p) ==
  /\ at[p]["process"] = "running" /\ faults < MaxFaults
  /\ faults' = faults + 1
  /\ Release(p)
  /\ Move(p, "process", "waiting")
  /\ UNCHANGED <<stopping, codex, starts>>

Retry(p, s) ==
  /\ at[p][s] = "waiting" /\ p \notin stopping
  /\ Move(p, s, "claiming")
  /\ UNCHANGED <<lease, stopping, codex, starts, faults>>

\* Engine.Run is cancelled; each Source notices on its own.
Cancel(p) ==
  /\ ~Off(p) /\ p \notin stopping
  /\ stopping' = stopping \cup {p}
  /\ UNCHANGED <<lease, at, codex, starts, faults>>
StopWaiting(p, s) ==
  /\ p \in stopping /\ at[p][s] \in {"claiming", "waiting"}
  /\ Move(p, s, "off")
  /\ UNCHANGED <<lease, stopping, codex, starts, faults>>
StopRunning(p, s) ==
  /\ p \in stopping /\ at[p][s] = "running"
  /\ Release(p)
  /\ Move(p, s, "off")
  /\ UNCHANGED <<stopping, codex, starts, faults>>

\* workers.Wait: the process exits when both have stopped.
Exit(p) ==
  /\ p \in stopping /\ Off(p)
  /\ stopping' = stopping \ {p}
  /\ UNCHANGED <<lease, at, codex, starts, faults>>

\* The process is killed: the OS drops its lock.
Crash(p) ==
  /\ ~Off(p)
  /\ owner' = IF owner = p THEN Nobody ELSE owner
  /\ refs' = [refs EXCEPT ![p] = 0]
  /\ at' = [at EXCEPT ![p] = [s \in Sources |-> "off"]]
  /\ stopping' = stopping \ {p}
  /\ unsaved' = IF at[p]["codex"] = "saving"
             THEN [unsaved EXCEPT ![cursor[p]] = @ + 1] ELSE unsaved
  /\ UNCHANGED <<prepared, cursor, disk, admitted, starts, faults>>

Init ==
  /\ owner = Nobody /\ refs = [p \in Processes |-> 0]
  /\ at = [p \in Processes |-> [s \in Sources |-> "off"]]
  /\ stopping = {}
  /\ prepared = [p \in Processes |-> FALSE]
  /\ cursor = [p \in Processes |-> 0] /\ disk = 0
  /\ admitted = [l \in Lines |-> 0] /\ unsaved = [l \in Lines |-> 0]
  /\ starts = 0 /\ faults = 0

Supervise(p) ==
  \/ Prepare(p) \/ PrepareFails(p) \/ AdmitLine(p) \/ SaveLine(p) \/ SaveFails(p)
  \/ \E s \in Sources : \/ Claim(p, s) \/ ClaimFails(p, s) \/ Retry(p, s)
                        \/ StopWaiting(p, s) \/ StopRunning(p, s)
  \/ Exit(p)

Next ==
  \E p \in Processes : Start(p) \/ Supervise(p) \/ ProcessFails(p) \/ Cancel(p) \/ Crash(p)

Spec == Init /\ [][Next]_vars

----------------------------------------------------------------------------
(* Properties.                                                             *)

Active(p) == \E s \in Sources : at[p][s] \in Holding

\* Ownership is granted to only one host, through shared claims, failures that
\* leave one Source running, cancellation and crashes.
OneHost == \A p, q \in Processes : Active(p) /\ Active(q) => p = q

\* What ownership is for: a line is admitted once, and again only if, between
\* its Admission and its checkpoint, the host crashed or the save failed: once for each.
CapturedOnce == \A l \in Lines : admitted[l] <= 1 + unsaved[l]

\* The cursors a running watcher holds are those of the checkpoint: no other
\* host moved it since they were read.
FreshCursor ==
  \A p \in Processes :
    /\ at[p]["codex"] = "running" => cursor[p] = disk
    /\ at[p]["codex"] = "saving" => cursor[p] = disk + 1

\* A host that waited takes over when the owner exits: if from some time on one
\* host is up and no other, it captures the whole file.
Alone(p) == ~Off(p) /\ p \notin stopping /\ \A q \in Processes \ {p} : Off(q)
TakesOver ==
  \A p \in Processes : <>[]Alone(p) => <>(disk = MaxLine)

----------------------------------------------------------------------------
(* The Sources of all hosts, with the watch that the owner runs.           *)

CONSTANTS Pids, Agents, Nothing, Capacity, MaxLives

VARIABLES table, watch, running, current, todo, channel, last, base, fresh, lives

\* Failing listings and Admissions are faults of the host.
Watch == INSTANCE ProcWatch
ASSUME WatchConstants == Watch!WatchAssumption

hosts == <<lease, at, stopping, codex, starts>>
watching == <<table, watch, running, current, todo, channel, last, base, fresh, lives>>
allVars == <<hosts, faults, watching>>

\* Two watches at once are excluded by OneHost: one record of a watch is enough.
ClaimProcess(p) == Claim(p, "process") /\ Watch!StartWatch
AdmitFails(p) == ProcessFails(p) /\ Watch!AdmitFails
StopProcess(p) == StopRunning(p, "process") /\ Watch!StopWatch
CrashHost(p) ==
  /\ Crash(p)
  /\ IF at[p]["process"] = "running" THEN Watch!StopWatch ELSE UNCHANGED watching

\* What a host does without touching the watch.
RunCodex(p) == Prepare(p) \/ PrepareFails(p) \/ AdmitLine(p) \/ SaveLine(p) \/ SaveFails(p)
HostStep(p) ==
  /\ \/ Start(p) \/ Cancel(p) \/ Exit(p)
     \/ Claim(p, "codex") \/ RunCodex(p) \/ StopRunning(p, "codex")
     \/ \E s \in Sources : ClaimFails(p, s) \/ Retry(p, s) \/ StopWaiting(p, s)
  /\ UNCHANGED watching

\* What the watch and the machine do without the host.
WatchStep ==
  /\ Watch!Baseline \/ Watch!List \/ Watch!Send \/ Watch!PollDone \/ Watch!Admit \/ Watch!Machine
  /\ UNCHANGED hosts
BaselineFails == Watch!BaselineFails /\ UNCHANGED hosts

SourcesInit == Init /\ Watch!Init
SourcesNext ==
  \/ WatchStep \/ BaselineFails
  \/ \E p \in Processes :
       HostStep(p) \/ ClaimProcess(p) \/ AdmitFails(p) \/ StopProcess(p) \/ CrashHost(p)
SourcesSpec == SourcesInit /\ [][SourcesNext]_allVars

\* Every goroutine is scheduled and its timers fire: the two supervisors of a
\* host, with the Source each one runs, and the poller of the watch. Nothing is
\* assumed of agents, of whoever starts and stops hosts, or of faults.
CodexTurn(p) ==
  \/ Claim(p, "codex") \/ RunCodex(p) \/ StopRunning(p, "codex")
  \/ ClaimFails(p, "codex") \/ Retry(p, "codex") \/ StopWaiting(p, "codex")
ProcessTurn(p) ==
  \/ ClaimProcess(p) \/ StopProcess(p)
  \/ /\ ClaimFails(p, "process") \/ Retry(p, "process") \/ StopWaiting(p, "process")
     /\ UNCHANGED watching
PollTurn ==
  Watch!Baseline \/ Watch!BaselineFails \/ Watch!List \/ Watch!Send \/ Watch!PollDone
Fair(p) ==
  /\ WF_allVars(CodexTurn(p) /\ UNCHANGED watching) /\ WF_allVars(ProcessTurn(p))
  /\ WF_allVars(Exit(p) /\ UNCHANGED watching)
SourcesFairSpec ==
  SourcesSpec
    /\ (\A p \in Processes : Fair(p))
    /\ WF_allVars(PollTurn /\ UNCHANGED hosts) /\ WF_allVars(Watch!Admit /\ UNCHANGED hosts)

----------------------------------------------------------------------------
(* What the watch tells.                                                   *)

\* When the watch of whichever host runs it has caught up with a table that
\* rests, what it said of every pid is true; and whatever failed on the way, a
\* change of the table is reported in the end.
ReportsAreTrue ==
  /\ [](Watch!TypeOK /\ Watch!CaughtUpIsTrue)
  /\ Watch!EventuallyTrue
=============================================================================
