--------------------------- MODULE CaptureEngine ---------------------------
(***************************************************************************)
(* The Capture Engine of the daemon (src/internal/capture) over its sealed *)
(* spool (src/internal/capture/internal/spool): Admission, reconciliation  *)
(* of what other processes append, start-up by Prime-then-Build, Live      *)
(* Subscriptions, crash and restart.                                       *)
(*                                                                         *)
(* A day file is the sequence of its newline-terminated lines plus the     *)
(* unterminated bytes that an interrupted write left at its end.  A record *)
(* is abstracted to its event id; redaction, enrichment and the contents   *)
(* of the projections are left to other modules.                           *)
(***************************************************************************)
EXTENDS Naturals, Sequences, FiniteSets

CONSTANTS
  Ids,            \* event ids; a replayed observation carries its old id
  LastDay,        \* day files are 1..LastDay, in name (= date) order
  DayOf,          \* [Ids -> Days]: the file an event's own time selects
  Admitters,      \* goroutines that call Engine.Admit: sources, handlers
  Subs,           \* Live Subscriptions
  Capacity,       \* Engine.subscriptionCapacity
  Tailer, Idle, None,
  Fragment,       \* bytes of a record cut short: they never parse
  MaxLines,       \* bound on the lines of one day file
  MaxTears,       \* bound on writes cut short
  MaxCrashes,     \* bound on crashes of the engine's process
  MaxFails,       \* bound on failing projections (0 in production)
  MaxTransitions  \* bound on derived frames published by one process

\* Choices of DayOf for events that are numbered: all in one file, or each in its own.
SameDay == [i \in Ids |-> 1]
OwnDays == [i \in Ids |-> i]

Days == 1..LastDay
Pieces == Ids \cup {Fragment}
Actors == Admitters \cup {Tailer, Idle}

ASSUME ConstantsAssumption ==
  /\ LastDay \in Nat \ {0}
  /\ DayOf \in [Ids -> Days]
  /\ Capacity \in Nat \ {0}
  /\ MaxLines \in Nat /\ MaxTears \in Nat /\ MaxCrashes \in Nat
  /\ MaxFails \in Nat /\ MaxTransitions \in Nat
  /\ Tailer # Idle /\ None \notin Actors /\ None \notin Ids
  /\ Tailer \notin Admitters /\ Idle \notin Admitters
  /\ Fragment \notin Ids

VARIABLES
  spool,      \* [Days -> Seq(Line)]: the terminated lines of each file
  tail,       \* [Days -> Seq(Pieces)]: unterminated bytes at the file's end
  phase,      \* life of the engine's process
  todo,       \* files the scan in progress (prime, build, poll) has left
  offset,     \* Tailer.offsets, in lines
  skip,       \* pieces of the next line that lie before the offset
  seen,       \* Projection.seen
  lock,       \* holder of Engine.sequence
  pc, arg,    \* progress and observation of each Admit call
  tpc,        \* progress of the tailer goroutine
  outbox,     \* frames the lock holder has still to publish
  published,  \* every frame published by this process, in order
  sub,        \* state of each subscription
  chan,       \* its bounded channel
  pos,        \* frames of published that its consumer is past
  budget      \* what is left of the bounds above

disk == <<spool, tail>>
scan == <<offset, skip>>
calls == <<pc, arg>>
subs == <<sub, chan, pos>>
vars == <<spool, tail, phase, todo, offset, skip, seen, lock, pc, arg, tpc,
          outbox, published, sub, chan, pos, budget>>

Lines == [head: Seq(Pieces), id: Ids]
Frames == [kind: {"event"}, id: Ids]
            \cup [kind: {"transition", "warning"}, id: {None}]
EventFrame(i) == [kind |-> "event", id |-> i]
Transition == [kind |-> "transition", id |-> None]
Warning == [kind |-> "warning", id |-> None]
Transitions(n) == [m \in 1..n |-> Transition]

Phases == {"down", "prime", "build", "ready", "running", "stopping"}
Live == phase \in {"ready", "running", "stopping"}
Looping == phase \in {"running", "stopping"}

TypeOK ==
  /\ spool \in [Days -> Seq(Lines)]
  /\ tail \in [Days -> Seq(Pieces)]
  /\ phase \in Phases
  /\ todo \in SUBSET Days
  /\ offset \in [Days -> Nat]
  /\ skip \in [Days -> Nat]
  /\ seen \in SUBSET Ids
  /\ lock \in Actors \cup {None}
  /\ pc \in [Admitters -> {"idle", "waiting", "admitting", "committed", "publishing"}]
  /\ arg \in [Admitters -> Ids \cup {None}]
  /\ tpc \in {"idle", "polling", "read", "publishing"}
  /\ outbox \in Seq(Frames)
  /\ published \in Seq(Frames)
  /\ sub \in [Subs -> {"none", "open", "closed", "overflowed"}]
  /\ chan \in [Subs -> Seq(Frames)]
  /\ pos \in [Subs -> Nat]
  /\ budget \in [tears: Nat, crashes: Nat, fails: Nat, transitions: Nat]

----------------------------------------------------------------------------
(* The spool.                                                              *)

\* A file is listed once something was ever written to it.
Exists(d) == spool[d] # <<>> \/ tail[d] # <<>>
Files == {d \in Days : Exists(d)}
First(S) == CHOOSE d \in S : \A e \in S : d <= e

\* Writer.Append: one O_APPEND write of the record and its newline.  It lands
\* after whatever an interrupted write left there, and terminates that too.
WriteLine(i) ==
  LET d == DayOf[i] IN
  /\ Len(spool[d]) < MaxLines
  /\ spool' = [spool EXCEPT ![d] = Append(@, [head |-> tail[d], id |-> i])]
  /\ tail' = [tail EXCEPT ![d] = <<>>]

\* The same write cut short by a full disk or the death of the writer: some
\* bytes of the record, perhaps all but its newline, stay at the end.
TearLine(i) ==
  /\ budget.tears > 0
  /\ \E piece \in {Fragment, i} :
       tail' = [tail EXCEPT ![DayOf[i]] = Append(@, piece)]
  /\ UNCHANGED spool

\* ScanForProjection accepts a final record without its newline.
SnapshotIds(d) ==
  {spool[d][n].id : n \in {m \in DOMAIN spool[d] : spool[d][m].head = <<>>}}
    \cup (IF Len(tail[d]) = 1 THEN {tail[d][1]} \ {Fragment} ELSE {})

\* The tailer takes only terminated lines past its offset.
Unread(d) == offset[d] < Len(spool[d])
NextLine(d) == spool[d][offset[d] + 1]
Parses(d) == Len(NextLine(d).head) = skip[d]

----------------------------------------------------------------------------
(* Projection and publication, by the holder of Engine.sequence.           *)

\* Variant: the projection forgets which ids it has applied.
ApplyRepeating(frame) ==
  /\ outbox' = <<frame>>
  /\ seen' = IF frame.kind = "event" THEN seen \cup {frame.id} ELSE seen
  /\ UNCHANGED budget

\* Projection.ApplyResult drops an id it has seen.  Otherwise applyProjection
\* announces first what the event did to its session: an idle crossing its
\* arrival reveals, its own change of state, both or neither.
Apply(frame) ==
  IF frame.kind = "event" /\ frame.id \in seen
  THEN /\ outbox' = <<>>
       /\ UNCHANGED <<seen, budget>>
  ELSE /\ seen' = IF frame.kind = "event" THEN seen \cup {frame.id} ELSE seen
       /\ \E n \in 0..(IF frame.kind = "event" THEN 2 ELSE 0) :
            /\ n <= budget.transitions
            /\ outbox' = Append(Transitions(n), frame)
            /\ budget' = [budget EXCEPT !.transitions = @ - n]

\* A projection that returns an error (a test seam: production never does).
ProjectFails ==
  /\ budget.fails > 0
  /\ budget' = [budget EXCEPT !.fails = @ - 1]
  /\ outbox' = <<>>
  /\ UNCHANGED seen

Full(s) == Len(chan[s]) >= Capacity

\* Variant: a full subscriber misses the frame and stays subscribed.
PublishDropping ==
  /\ outbox # <<>>
  /\ published' = Append(published, Head(outbox))
  /\ outbox' = Tail(outbox)
  /\ chan' = [s \in Subs |-> IF sub[s] = "open" /\ ~Full(s)
                             THEN Append(chan[s], Head(outbox)) ELSE chan[s]]
  /\ UNCHANGED <<disk, phase, todo, scan, seen, lock, calls, tpc, sub, pos, budget>>

\* Variant: publication waits for the slowest subscriber.
PublishWaiting ==
  /\ outbox # <<>>
  /\ \A s \in Subs : sub[s] = "open" => ~Full(s)
  /\ published' = Append(published, Head(outbox))
  /\ outbox' = Tail(outbox)
  /\ chan' = [s \in Subs |-> IF sub[s] = "open"
                             THEN Append(chan[s], Head(outbox)) ELSE chan[s]]
  /\ UNCHANGED <<disk, phase, todo, scan, seen, lock, calls, tpc, sub, pos, budget>>

\* Engine.publish: a full subscriber is terminated, never waited for.
Publish ==
  /\ outbox # <<>>
  /\ published' = Append(published, Head(outbox))
  /\ outbox' = Tail(outbox)
  /\ sub' = [s \in Subs |-> IF sub[s] = "open" /\ Full(s)
                            THEN "overflowed" ELSE sub[s]]
  /\ chan' = [s \in Subs |-> IF sub[s] = "open" /\ ~Full(s)
                             THEN Append(chan[s], Head(outbox)) ELSE chan[s]]
  /\ UNCHANGED <<disk, phase, todo, scan, seen, lock, calls, tpc, pos, budget>>

----------------------------------------------------------------------------
(* Start-up: Tailer.Prime pins every file's size before projection.Build   *)
(* reads the files; another process may append between any two steps.      *)

StartProcess ==
  /\ phase = "down"
  /\ phase' = "prime"
  /\ todo' = Files
  /\ UNCHANGED <<disk, scan, seen, lock, calls, tpc, outbox, published, subs, budget>>

PrimeFile ==
  /\ phase = "prime" /\ todo # {}
  /\ LET d == First(todo) IN
       /\ offset' = [offset EXCEPT ![d] = Len(spool[d])]
       /\ skip' = [skip EXCEPT ![d] = Len(tail[d])]
       /\ todo' = todo \ {d}
  /\ UNCHANGED <<disk, phase, seen, lock, calls, tpc, outbox, published, subs, budget>>

StartBuild ==
  /\ phase = "prime" /\ todo = {}
  /\ phase' = "build"
  /\ todo' = Files
  /\ UNCHANGED <<disk, scan, seen, lock, calls, tpc, outbox, published, subs, budget>>

BuildFile ==
  /\ phase = "build" /\ todo # {}
  /\ LET d == First(todo) IN
       /\ seen' = seen \cup SnapshotIds(d)
       /\ todo' = todo \ {d}
  /\ UNCHANGED <<disk, phase, scan, lock, calls, tpc, outbox, published, subs, budget>>

\* Variant: the sizes are pinned again once the files have been read.
EngineReadyPinning ==
  /\ phase = "build" /\ todo = {}
  /\ phase' = "ready"
  /\ offset' = [d \in Days |-> Len(spool[d])]
  /\ skip' = [d \in Days |-> Len(tail[d])]
  /\ UNCHANGED <<disk, todo, seen, lock, calls, tpc, outbox, published, subs, budget>>

EngineReady ==
  /\ phase = "build" /\ todo = {}
  /\ phase' = "ready"
  /\ UNCHANGED <<disk, todo, scan, seen, lock, calls, tpc, outbox, published, subs, budget>>

----------------------------------------------------------------------------
(* Admission.                                                              *)

AdmitCall(a, i) ==
  /\ Live /\ pc[a] = "idle"
  /\ pc' = [pc EXCEPT ![a] = "waiting"]
  /\ arg' = [arg EXCEPT ![a] = i]
  /\ UNCHANGED <<disk, phase, todo, scan, seen, lock, tpc, outbox, published, subs, budget>>

AdmitLock(a) ==
  /\ pc[a] = "waiting" /\ lock = None
  /\ lock' = a
  /\ pc' = [pc EXCEPT ![a] = "admitting"]
  /\ UNCHANGED <<disk, phase, todo, scan, seen, arg, tpc, outbox, published, subs, budget>>

\* The call ends: the deferred Unlock, on the error paths and on success.
AdmitReturn(a) ==
  /\ lock' = None
  /\ pc' = [pc EXCEPT ![a] = "idle"]
  /\ arg' = [arg EXCEPT ![a] = None]

\* A cancelled context or an observation that does not validate.
AdmitRefuse(a) ==
  /\ pc[a] = "admitting"
  /\ AdmitReturn(a)
  /\ UNCHANGED <<disk, phase, todo, scan, seen, tpc, outbox, published, subs, budget>>

\* Variant: the error of a failed write is lost and the record is projected.
AdmitWriteFailsSilently(a) ==
  /\ pc[a] = "admitting"
  /\ TearLine(arg[a])
  /\ budget' = [budget EXCEPT !.tears = @ - 1]
  /\ pc' = [pc EXCEPT ![a] = "committed"]
  /\ UNCHANGED <<phase, todo, scan, seen, lock, arg, tpc, outbox, published, subs>>

\* Append returns an error: nothing, or part of the record, was written, and
\* the record is not projected.
AdmitWriteFails(a) ==
  /\ pc[a] = "admitting"
  /\ TearLine(arg[a])
  /\ budget' = [budget EXCEPT !.tears = @ - 1]
  /\ AdmitReturn(a)
  /\ UNCHANGED <<phase, todo, scan, seen, tpc, outbox, published, subs>>

\* Variant: the record is projected first and written by nobody.
AdmitAppendLater(a) ==
  /\ pc[a] = "admitting"
  /\ pc' = [pc EXCEPT ![a] = "committed"]
  /\ UNCHANGED <<disk, phase, todo, scan, seen, lock, arg, tpc, outbox, published, subs, budget>>

\* The commit point.
AdmitAppend(a) ==
  /\ pc[a] = "admitting"
  /\ WriteLine(arg[a])
  /\ pc' = [pc EXCEPT ![a] = "committed"]
  /\ UNCHANGED <<phase, todo, scan, seen, lock, arg, tpc, outbox, published, subs, budget>>

AdmitProject(a) ==
  /\ pc[a] = "committed"
  /\ Apply(EventFrame(arg[a])) \/ ProjectFails
  /\ pc' = [pc EXCEPT ![a] = "publishing"]
  /\ UNCHANGED <<disk, phase, todo, scan, lock, arg, tpc, published, subs>>

AdmitDone(a) ==
  /\ pc[a] = "publishing" /\ outbox = <<>>
  /\ AdmitReturn(a)
  /\ UNCHANGED <<disk, phase, todo, scan, seen, tpc, outbox, published, subs, budget>>

\* AdmitOnce in a short-lived process: no lock, no projection.
OneShotAppend(i) ==
  /\ WriteLine(i)
  /\ UNCHANGED <<phase, todo, scan, seen, lock, calls, tpc, outbox, published, subs, budget>>

\* A short-lived process dies, or its disk fills up, in the middle of a write.
OneShotTear(i) ==
  /\ TearLine(i)
  /\ budget' = [budget EXCEPT !.tears = @ - 1]
  /\ UNCHANGED <<phase, todo, scan, seen, lock, calls, tpc, outbox, published, subs>>

----------------------------------------------------------------------------
(* Reconciliation: Tailer.RunAck delivering to Engine.reconcile.           *)

TailTick ==
  /\ Looping /\ tpc = "idle"
  /\ tpc' = "polling"
  /\ todo' = Files
  /\ UNCHANGED <<disk, phase, scan, seen, lock, calls, outbox, published, subs, budget>>

TailRead ==
  /\ tpc = "polling" /\ todo # {} /\ Unread(First(todo))
  /\ tpc' = "read"
  /\ UNCHANGED <<disk, phase, todo, scan, seen, lock, calls, outbox, published, subs, budget>>

TailNextFile ==
  /\ tpc = "polling" /\ todo # {} /\ ~Unread(First(todo))
  /\ todo' = todo \ {First(todo)}
  /\ UNCHANGED <<disk, phase, scan, seen, lock, calls, tpc, outbox, published, subs, budget>>

TailPollDone ==
  /\ tpc = "polling" /\ todo = {}
  /\ tpc' = "idle"
  /\ UNCHANGED <<disk, phase, todo, scan, seen, lock, calls, outbox, published, subs, budget>>

\* A line that does not parse is delivered as a warning with an id of its own.
TailProject ==
  /\ tpc = "read" /\ lock = None
  /\ LET d == First(todo) IN
       Apply(IF Parses(d) THEN EventFrame(NextLine(d).id) ELSE Warning)
  /\ lock' = Tailer
  /\ tpc' = "publishing"
  /\ UNCHANGED <<disk, phase, todo, scan, calls, published, subs>>

\* The offset moves only now, when deliver has acknowledged the record.
TailAck ==
  /\ tpc = "publishing" /\ outbox = <<>>
  /\ LET d == First(todo) IN
       /\ offset' = [offset EXCEPT ![d] = @ + 1]
       /\ skip' = [skip EXCEPT ![d] = 0]
  /\ lock' = None
  /\ tpc' = "polling"
  /\ UNCHANGED <<disk, phase, todo, seen, calls, outbox, published, subs, budget>>

\* Variant: the offset passes a record whose delivery failed.
TailSkipFailed ==
  /\ tpc = "read" /\ lock = None
  /\ ProjectFails
  /\ tpc' = "polling"
  /\ offset' = [offset EXCEPT ![First(todo)] = @ + 1]
  /\ skip' = [skip EXCEPT ![First(todo)] = 0]
  /\ UNCHANGED <<disk, phase, todo, lock, calls, published, subs>>

\* deliver fails: the offset stays, the poll goes on with the next file.
TailRetryLater ==
  /\ tpc = "read" /\ lock = None
  /\ ProjectFails
  /\ tpc' = "polling"
  /\ todo' = todo \ {First(todo)}
  /\ UNCHANGED <<disk, phase, scan, lock, calls, published, subs>>

----------------------------------------------------------------------------
(* Engine.Run, the idle sweep, subscriptions, crash.                       *)

\* advanceIdle publishes one transition for each session that went quiet.
IdleSweep ==
  /\ Looping /\ lock = None
  /\ lock' = Idle
  /\ \E n \in 0..budget.transitions :
       /\ outbox' = Transitions(n)
       /\ budget' = [budget EXCEPT !.transitions = @ - n]
  /\ UNCHANGED <<disk, phase, todo, scan, seen, calls, tpc, published, subs>>

IdleDone ==
  /\ lock = Idle /\ outbox = <<>>
  /\ lock' = None
  /\ UNCHANGED <<disk, phase, todo, scan, seen, calls, tpc, outbox, published, subs, budget>>

StartRun ==
  /\ phase = "ready"
  /\ phase' = "running"
  /\ UNCHANGED <<disk, todo, scan, seen, lock, calls, tpc, outbox, published, subs, budget>>

CancelRun ==
  /\ phase = "running"
  /\ phase' = "stopping"
  /\ UNCHANGED <<disk, todo, scan, seen, lock, calls, tpc, outbox, published, subs, budget>>

CloseAll == sub' = [s \in Subs |-> IF sub[s] = "open" THEN "closed" ELSE sub[s]]

\* workers.Wait, then closeSubscriptions.  A handler may still be admitting.
RunReturns ==
  /\ phase = "stopping" /\ tpc = "idle" /\ lock # Idle
  /\ phase' = "ready"
  /\ CloseAll
  /\ UNCHANGED <<disk, todo, scan, seen, lock, calls, tpc, outbox, published, chan, pos, budget>>

Subscribe(s) ==
  /\ Live /\ sub[s] = "none"
  /\ sub' = [sub EXCEPT ![s] = "open"]
  /\ chan' = [chan EXCEPT ![s] = <<>>]
  /\ pos' = [pos EXCEPT ![s] = Len(published)]
  /\ UNCHANGED <<disk, phase, todo, scan, seen, lock, calls, tpc, outbox, published, budget>>

\* The subscriber's context ends.
Unsubscribe(s) ==
  /\ sub[s] = "open"
  /\ sub' = [sub EXCEPT ![s] = "closed"]
  /\ UNCHANGED <<disk, phase, todo, scan, seen, lock, calls, tpc, outbox, published, chan, pos, budget>>

\* What was buffered when the channel closed can still be received.
Receive(s) ==
  /\ chan[s] # <<>>
  /\ chan' = [chan EXCEPT ![s] = Tail(@)]
  /\ pos' = [pos EXCEPT ![s] = @ + 1]
  /\ UNCHANGED <<disk, phase, todo, scan, seen, lock, calls, tpc, outbox, published, sub, budget>>

\* The consumer lets go of an ended subscription; it may then subscribe anew.
Drop(s) ==
  /\ sub[s] \in {"closed", "overflowed"}
  /\ sub' = [sub EXCEPT ![s] = "none"]
  /\ chan' = [chan EXCEPT ![s] = <<>>]
  /\ UNCHANGED <<disk, phase, todo, scan, seen, lock, calls, tpc, outbox, published, pos, budget>>

\* What a new process starts from: everything but the disk and the bounds.
Volatile(b) ==
  /\ phase' = "down" /\ todo' = {} /\ seen' = {} /\ lock' = None
  /\ offset' = [d \in Days |-> 0] /\ skip' = [d \in Days |-> 0]
  /\ pc' = [a \in Admitters |-> "idle"] /\ arg' = [a \in Admitters |-> None]
  /\ tpc' = "idle" /\ outbox' = <<>> /\ published' = <<>>
  /\ sub' = [s \in Subs |-> "none"] /\ chan' = [s \in Subs |-> <<>>]
  /\ pos' = [s \in Subs |-> 0]
  /\ budget' = b

Crash ==
  /\ phase # "down" /\ budget.crashes > 0
  /\ Volatile([budget EXCEPT !.crashes = @ - 1])
  /\ UNCHANGED disk

\* The process dies while an Admit call is inside its write.
CrashInWrite(a) ==
  /\ pc[a] = "admitting" /\ budget.crashes > 0
  /\ TearLine(arg[a])
  /\ Volatile([budget EXCEPT !.crashes = @ - 1, !.tears = @ - 1])

----------------------------------------------------------------------------
Init ==
  /\ spool = [d \in Days |-> <<>>] /\ tail = [d \in Days |-> <<>>]
  /\ phase = "down" /\ todo = {} /\ seen = {} /\ lock = None
  /\ offset = [d \in Days |-> 0] /\ skip = [d \in Days |-> 0]
  /\ pc = [a \in Admitters |-> "idle"] /\ arg = [a \in Admitters |-> None]
  /\ tpc = "idle" /\ outbox = <<>> /\ published = <<>>
  /\ sub = [s \in Subs |-> "none"] /\ chan = [s \in Subs |-> <<>>]
  /\ pos = [s \in Subs |-> 0]
  /\ budget = [tears |-> MaxTears, crashes |-> MaxCrashes, fails |-> MaxFails,
               transitions |-> MaxTransitions]

Startup == StartProcess \/ PrimeFile \/ StartBuild \/ BuildFile \/ EngineReady

Admission(a) ==
  \/ AdmitLock(a) \/ AdmitRefuse(a) \/ AdmitWriteFails(a)
  \/ AdmitAppend(a) \/ AdmitProject(a) \/ AdmitDone(a)

Tailing == TailTick \/ TailRead \/ TailNextFile \/ TailPollDone
             \/ TailProject \/ TailAck \/ TailRetryLater

Subscription(s) == Subscribe(s) \/ Unsubscribe(s) \/ Receive(s) \/ Drop(s)

Next ==
  \/ Startup \/ Tailing \/ Publish
  \/ IdleSweep \/ IdleDone \/ StartRun \/ CancelRun \/ RunReturns
  \/ \E a \in Admitters, i \in Ids : AdmitCall(a, i)
  \/ \E a \in Admitters : Admission(a)
  \/ \E i \in Ids : OneShotAppend(i) \/ OneShotTear(i)
  \/ \E s \in Subs : Subscription(s)
  \/ Crash \/ \E a \in Admitters : CrashInWrite(a)

Spec == Init /\ [][Next]_vars

(* The goroutines of a running engine are scheduled, and a Go mutex in its  *)
(* starvation mode hands the lock to whoever has waited: weak fairness of   *)
(* each step, strong fairness of taking the lock.  Nothing is assumed of    *)
(* callers, of consumers, of other processes or of whoever stops the run;   *)
(* the supervisor restarts the process and starts the run.                  *)
LockFairness ==
  /\ SF_vars(TailProject)
  /\ \A a \in Admitters : SF_vars(AdmitLock(a))

StepFairness ==
  /\ WF_vars(Startup) /\ WF_vars(StartRun)
  /\ WF_vars(Publish) /\ WF_vars(IdleDone)
  /\ WF_vars(TailTick \/ TailRead \/ TailNextFile \/ TailPollDone \/ TailAck)
  /\ \A a \in Admitters :
       WF_vars(AdmitRefuse(a) \/ AdmitAppend(a) \/ AdmitProject(a) \/ AdmitDone(a))

FairSpec == Spec /\ StepFairness /\ LockFairness

----------------------------------------------------------------------------
(* What the engine promises.                                               *)

EventIds(frames) ==
  {frames[n].id : n \in {m \in DOMAIN frames : frames[m].kind = "event"}}

\* The record of i is among the bytes of file d, whether it parses or not.
Holds(d, i) ==
  \/ \E n \in DOMAIN tail[d] : tail[d][n] = i
  \/ \E n \in DOMAIN spool[d] :
       \/ spool[d][n].id = i
       \/ \E m \in DOMAIN spool[d][n].head : spool[d][n].head[m] = i
Written == {i \in Ids : \E d \in Days : Holds(d, i)}
\* Append is the commit point: no projection and no Live Subscription is ever
\* ahead of the spool, whichever step a write fails or the process dies at.
ProjectedIsWritten ==
  /\ seen \subseteq Written
  /\ EventIds(published) \cup EventIds(outbox) \subseteq seen

\* Prime before Build leaves no hole between the rebuilt projection and the
\* tailer: every intact record behind a file's offset has been projected.
NoSkippedRecord ==
  Live => \A d \in Days : \A n \in 1..offset[d] :
            spool[d][n].head = <<>> => spool[d][n].id \in seen

\* However often an id is replayed, reconciled or admitted again, one process
\* streams it once.
StreamedOnce ==
  LET frames == published \o outbox IN
  \A m, n \in DOMAIN frames :
    frames[m].kind = "event" /\ frames[m] = frames[n] => m = n

\* A subscription is a gapless, ordered window of what was published: its
\* channel continues exactly where its consumer is, and while it is open it
\* reaches the newest frame.  Overflow ends it instead of tearing a hole.
GaplessDelivery ==
  \A s \in Subs :
    /\ sub[s] # "none" =>
         /\ pos[s] + Len(chan[s]) <= Len(published)
         /\ chan[s] = SubSeq(published, pos[s] + 1, pos[s] + Len(chan[s]))
    /\ sub[s] = "open" => pos[s] + Len(chan[s]) = Len(published)

\* Queries see committed history only, and never lose sight of an event while
\* the process lives: the engine implements the module CapturedHistory.
History == INSTANCE CapturedHistory WITH
  committed <- Written, visible <- IF Live THEN seen ELSE {}, up <- Live
ImplementsHistory == History!HSpec

\* A record that another process wrote, or whose projection failed after the
\* commit, is projected by the tailer as long as the engine keeps running.
Intact(i) == \E d \in Days : \E n \in DOMAIN spool[d] :
               spool[d][n].head = <<>> /\ spool[d][n].id = i
Reconciled ==
  \A i \in Ids :
    (phase = "running" /\ Intact(i)) ~> (i \in seen \/ phase # "running")

\* No subscriber, sweep or poll can hold up an Admit call for ever.
AdmissionFinishes ==
  \A a \in Admitters : (pc[a] = "waiting") ~> (pc[a] = "idle")
=============================================================================
