------------------------ MODULE CaptureEngineProofs ------------------------
(***************************************************************************)
(* Proofs about CaptureEngine for any number of ids, day files, callers    *)
(* and subscribers: the type invariant, the discipline of Engine.sequence, *)
(* and what a subscriber is handed, a gapless window of a stream that      *)
(* repeats no event. On that invariant, in the second half: nothing is     *)
(* projected or streamed before it is on disk, whatever crashes or is cut  *)
(* short; the engine implements CapturedHistory; and Prime-then-Build      *)
(* leaves no record behind the tailer's offset unprojected.                *)
(***************************************************************************)
EXTENDS CaptureEngine, SequenceTheorems, WellFoundedInduction, TLAPS

Holding == {"admitting", "committed", "publishing"}

\* Who holds Engine.sequence and what a holder has at hand; a process that is
\* not up holds and owes nothing; the tailer has a line when it reads one.
Discipline ==
  /\ \A a \in Admitters : pc[a] \in Holding <=> lock = a
  /\ \A a \in Admitters : pc[a] # "idle" => arg[a] \in Ids
  /\ \A a \in Admitters : pc[a] \in {"admitting", "committed"} => outbox = <<>>
  /\ tpc = "publishing" <=> lock = Tailer
  /\ lock = None => outbox = <<>>
  /\ tpc # "idle" => Looping
  /\ lock # None => Live
  /\ tpc \in {"read", "publishing"} => todo # {} /\ Unread(First(todo))
  /\ \A a \in Admitters : pc[a] # "idle" => Live

Inv == TypeOK /\ Discipline

\* First picks the earliest of the files that are left.
LEMMA FirstMember ==
  ASSUME NEW S \in SUBSET Days, S # {}
  PROVE  First(S) \in S /\ First(S) \in Days /\ \A e \in S : First(S) <= e
<1>1. Days \subseteq Nat
  BY ConstantsAssumption DEF Days
<1>2. \E x \in S : \A y \in S : <<y, x>> \notin OpToRel(<, Nat)
  BY <1>1, NatLessThanWellFounded, WFMin, Zenon
<1>3. PICK x \in S : \A y \in S : <<y, x>> \notin OpToRel(<, Nat)
  BY <1>2
<1>4. \A y \in S : ~(y < x)
  BY <1>1, <1>3 DEF OpToRel
<1>5. \A y \in S : x <= y
  BY <1>1, <1>4
<1> QED
  BY <1>5 DEF First

LEMMA DayOfType == \A i \in Ids : DayOf[i] \in Days
BY ConstantsAssumption

\* What one write, whole or cut short, does to the types of the disk.
LEMMA WriteLineType ==
  ASSUME TypeOK, NEW i \in Ids, WriteLine(i)
  PROVE  /\ spool' \in [Days -> Seq(Lines)] /\ tail' \in [Days -> Seq(Pieces)]
         /\ \A d \in Days : Len(spool[d]) <= Len(spool'[d])
<1>1. DayOf[i] \in Days
  BY DayOfType
<1>2. [head |-> tail[DayOf[i]], id |-> i] \in Lines
  BY <1>1 DEF TypeOK, Lines
<1>3. Append(spool[DayOf[i]], [head |-> tail[DayOf[i]], id |-> i]) \in Seq(Lines)
  BY <1>1, <1>2 DEF TypeOK
<1>4. spool' \in [Days -> Seq(Lines)] /\ tail' \in [Days -> Seq(Pieces)]
  BY <1>1, <1>3 DEF TypeOK, WriteLine
<1>5. \A d \in Days : Len(spool[d]) <= Len(spool'[d])
  BY <1>1, <1>2 DEF TypeOK, WriteLine
<1> QED
  BY <1>4, <1>5

LEMMA TearLineType ==
  ASSUME TypeOK, NEW i \in Ids, TearLine(i)
  PROVE  spool' \in [Days -> Seq(Lines)] /\ tail' \in [Days -> Seq(Pieces)]
<1>1. DayOf[i] \in Days
  BY DayOfType
<1>2. PICK piece \in {Fragment, i} : tail' = [tail EXCEPT ![DayOf[i]] = Append(@, piece)]
  BY DEF TearLine
<1>3. Append(tail[DayOf[i]], piece) \in Seq(Pieces)
  BY <1>1 DEF TypeOK, Pieces
<1> QED
  BY <1>1, <1>2, <1>3 DEF TypeOK, TearLine

\* Frames put into the outbox are frames, and leave the bounds natural.
LEMMA FrameTypes ==
  /\ Transition \in Frames /\ Warning \in Frames
  /\ \A i \in Ids : EventFrame(i) \in Frames
BY DEF Transition, Warning, EventFrame, Frames

LEMMA TransitionsType ==
  ASSUME NEW n \in Nat
  PROVE  Transitions(n) \in Seq(Frames) /\ Len(Transitions(n)) = n
BY FrameTypes DEF Transitions

LEMMA ApplyType ==
  ASSUME TypeOK, NEW frame \in Frames, Apply(frame)
  PROVE  /\ seen' \in SUBSET Ids /\ outbox' \in Seq(Frames)
         /\ budget' \in [tears: Nat, crashes: Nat, fails: Nat, transitions: Nat]
<1>1. CASE frame.kind = "event" /\ frame.id \in seen
  BY <1>1 DEF Apply, TypeOK
<1>2. CASE ~(frame.kind = "event" /\ frame.id \in seen)
  <2>1. frame.kind = "event" => frame.id \in Ids
    BY DEF Frames
  <2>2. seen' \in SUBSET Ids
    BY <1>2, <2>1 DEF Apply, TypeOK
  <2>3. PICK n \in 0..2 : /\ n <= budget.transitions
                          /\ outbox' = Append(Transitions(n), frame)
                          /\ budget' = [budget EXCEPT !.transitions = @ - n]
    BY <1>2 DEF Apply
  <2>4. outbox' \in Seq(Frames)
    BY <2>3, TransitionsType
  <2>5. budget' \in [tears: Nat, crashes: Nat, fails: Nat, transitions: Nat]
    <3>1. budget.transitions - n \in Nat
      BY <2>3 DEF TypeOK
    <3> QED
      BY <2>3, <3>1 DEF TypeOK
  <2> QED
    BY <2>2, <2>4, <2>5
<1> QED
  BY <1>1, <1>2

LEMMA FailType ==
  ASSUME TypeOK, ProjectFails
  PROVE  /\ seen' \in SUBSET Ids /\ outbox' \in Seq(Frames)
         /\ budget' \in [tears: Nat, crashes: Nat, fails: Nat, transitions: Nat]
<1>1. outbox' \in Seq(Frames)
  BY DEF ProjectFails
<1>2. budget.fails - 1 \in Nat
  BY DEF ProjectFails, TypeOK
<1>3. budget' \in [tears: Nat, crashes: Nat, fails: Nat, transitions: Nat]
  BY <1>2 DEF ProjectFails, TypeOK
<1> QED
  BY <1>1, <1>3 DEF ProjectFails, TypeOK

\* What a snapshot reader finds in a file are ids.
LEMMA SnapshotType ==
  ASSUME TypeOK, NEW d \in Days
  PROVE  SnapshotIds(d) \subseteq Ids
<1>1. \A n \in DOMAIN spool[d] : spool[d][n].id \in Ids
  <2>1. spool[d] \in Seq(Lines)
    BY DEF TypeOK
  <2>2. \A n \in DOMAIN spool[d] : spool[d][n] \in Lines
    BY <2>1
  <2> QED
    BY <2>2 DEF Lines
<1>2. Len(tail[d]) = 1 => {tail[d][1]} \ {Fragment} \subseteq Ids
  <2>1. tail[d] \in Seq(Pieces)
    BY DEF TypeOK
  <2>2. Len(tail[d]) = 1 => tail[d][1] \in Pieces
    BY <2>1
  <2> QED
    BY <2>2 DEF Pieces
<1> QED
  BY <1>1, <1>2 DEF SnapshotIds

LEMMA PublishType ==
  ASSUME TypeOK, Publish
  PROVE  TypeOK'
<1>1. Head(outbox) \in Frames /\ Tail(outbox) \in Seq(Frames)
  BY HeadTailProperties DEF TypeOK, Publish
<1>2. published' \in Seq(Frames) /\ outbox' \in Seq(Frames)
  BY <1>1 DEF TypeOK, Publish
<1>3. chan' \in [Subs -> Seq(Frames)]
  BY <1>1 DEF TypeOK, Publish
<1>4. sub' \in [Subs -> {"none", "open", "closed", "overflowed"}]
  BY DEF TypeOK, Publish
<1> QED
  BY <1>2, <1>3, <1>4 DEF TypeOK, Publish, disk, scan, calls


USE DEF disk, scan, calls, subs

LEMMA TypeStartup == ASSUME Inv, Startup PROVE TypeOK'
<1>1. CASE StartProcess
  BY <1>1 DEF Inv, TypeOK, StartProcess, Files, Phases
<1>2. CASE PrimeFile
  <2>1. First(todo) \in Days
    BY <1>2, FirstMember DEF PrimeFile, Inv, TypeOK
  <2> QED
    BY <1>2, <2>1, SMTT(20) DEF Inv, TypeOK, PrimeFile
<1>3. CASE StartBuild
  BY <1>3 DEF Inv, TypeOK, StartBuild, Files, Phases
<1>4. CASE BuildFile
  <2>1. First(todo) \in Days
    BY <1>4, FirstMember DEF BuildFile, Inv, TypeOK
  <2>2. SnapshotIds(First(todo)) \subseteq Ids
    BY <2>1, SnapshotType DEF Inv
  <2> QED
    BY <1>4, <2>2 DEF Inv, TypeOK, BuildFile
<1>5. CASE EngineReady
  BY <1>5 DEF Inv, TypeOK, EngineReady, Phases
<1> QED
  BY <1>1, <1>2, <1>3, <1>4, <1>5 DEF Startup

LEMMA TypeAdmission ==
  ASSUME Inv, NEW a \in Admitters, NEW i \in Ids,
         AdmitCall(a, i) \/ Admission(a)
  PROVE  TypeOK'
<1>1. CASE AdmitCall(a, i)
  BY <1>1 DEF Inv, TypeOK, AdmitCall
<1>2. CASE AdmitLock(a)
  BY <1>2 DEF Inv, TypeOK, AdmitLock, Actors
<1>3. CASE AdmitRefuse(a)
  BY <1>3 DEF Inv, TypeOK, AdmitRefuse, AdmitReturn
<1>4. CASE AdmitWriteFails(a)
  <2>1. arg[a] \in Ids
    BY <1>4 DEF Inv, Discipline, AdmitWriteFails, TypeOK
  <2>2. spool' \in [Days -> Seq(Lines)] /\ tail' \in [Days -> Seq(Pieces)]
    BY <1>4, <2>1, TearLineType DEF AdmitWriteFails, Inv
  <2>3. budget.tears - 1 \in Nat
    BY <1>4 DEF AdmitWriteFails, TearLine, Inv, TypeOK
  <2> QED
    BY <1>4, <2>2, <2>3 DEF Inv, TypeOK, AdmitWriteFails, AdmitReturn
<1>5. CASE AdmitAppend(a)
  <2>1. arg[a] \in Ids
    BY <1>5 DEF Inv, Discipline, AdmitAppend, TypeOK
  <2>2. spool' \in [Days -> Seq(Lines)] /\ tail' \in [Days -> Seq(Pieces)]
    BY <1>5, <2>1, WriteLineType DEF AdmitAppend, Inv
  <2> QED
    BY <1>5, <2>2 DEF Inv, TypeOK, AdmitAppend
<1>6. CASE AdmitProject(a)
  <2>1. EventFrame(arg[a]) \in Frames
    BY <1>6, FrameTypes DEF Inv, Discipline, AdmitProject, TypeOK
  <2>2. /\ seen' \in SUBSET Ids /\ outbox' \in Seq(Frames)
        /\ budget' \in [tears: Nat, crashes: Nat, fails: Nat, transitions: Nat]
    <3>1. CASE Apply(EventFrame(arg[a]))
      BY <2>1, <3>1, ApplyType DEF Inv
    <3>2. CASE ProjectFails
      BY <3>2, FailType DEF Inv
    <3> QED
      BY <1>6, <3>1, <3>2 DEF AdmitProject
  <2> QED
    BY <1>6, <2>2 DEF Inv, TypeOK, AdmitProject
<1>7. CASE AdmitDone(a)
  BY <1>7 DEF Inv, TypeOK, AdmitDone, AdmitReturn
<1> QED
  BY <1>1, <1>2, <1>3, <1>4, <1>5, <1>6, <1>7 DEF Admission

LEMMA TypeOneShot ==
  ASSUME Inv, NEW i \in Ids, OneShotAppend(i) \/ OneShotTear(i)
  PROVE  TypeOK'
<1>1. CASE OneShotAppend(i)
  <2>1. spool' \in [Days -> Seq(Lines)] /\ tail' \in [Days -> Seq(Pieces)]
    BY <1>1, WriteLineType DEF OneShotAppend, Inv
  <2> QED
    BY <1>1, <2>1 DEF Inv, TypeOK, OneShotAppend
<1>2. CASE OneShotTear(i)
  <2>1. spool' \in [Days -> Seq(Lines)] /\ tail' \in [Days -> Seq(Pieces)]
    BY <1>2, TearLineType DEF OneShotTear, Inv
  <2>2. budget.tears - 1 \in Nat
    BY <1>2 DEF OneShotTear, TearLine, Inv, TypeOK
  <2> QED
    BY <1>2, <2>1, <2>2 DEF Inv, TypeOK, OneShotTear
<1> QED
  BY <1>1, <1>2

\* The line the tailer has in hand exists, and its frame is well formed.
LEMMA LineInHand ==
  ASSUME Inv, tpc \in {"read", "publishing"}
  PROVE  /\ First(todo) \in Days /\ Unread(First(todo))
         /\ NextLine(First(todo)) \in Lines
<1>1. First(todo) \in Days /\ Unread(First(todo))
  BY FirstMember DEF Inv, TypeOK, Discipline
<1>2. offset[First(todo)] + 1 \in 1..Len(spool[First(todo)])
  BY <1>1 DEF Unread, Inv, TypeOK
<1> QED
  BY <1>1, <1>2 DEF NextLine, Inv, TypeOK

LEMMA TypeTailing == ASSUME Inv, Tailing PROVE TypeOK'
<1>1. CASE TailTick
  BY <1>1 DEF Inv, TypeOK, TailTick, Files
<1>2. CASE TailRead
  BY <1>2 DEF Inv, TypeOK, TailRead
<1>3. CASE TailNextFile
  BY <1>3 DEF Inv, TypeOK, TailNextFile
<1>4. CASE TailPollDone
  BY <1>4 DEF Inv, TypeOK, TailPollDone
<1>5. CASE TailProject
  <2> DEFINE d == First(todo)
             frame == IF Parses(d) THEN EventFrame(NextLine(d).id) ELSE Warning
  <2>1. frame \in Frames
    BY <1>5, LineInHand, FrameTypes DEF TailProject, Lines
  <2>2. Apply(frame)
    BY <1>5 DEF TailProject
  <2>3. /\ seen' \in SUBSET Ids /\ outbox' \in Seq(Frames)
        /\ budget' \in [tears: Nat, crashes: Nat, fails: Nat, transitions: Nat]
    BY <2>1, <2>2, ApplyType DEF Inv
  <2> QED
    BY <1>5, <2>3 DEF Inv, TypeOK, TailProject, Actors
<1>6. CASE TailAck
  <2>1. First(todo) \in Days
    BY <1>6, LineInHand DEF TailAck
  <2> QED
    BY <1>6, <2>1 DEF Inv, TypeOK, TailAck
<1>7. CASE TailRetryLater
  <2>1. /\ seen' \in SUBSET Ids /\ outbox' \in Seq(Frames)
        /\ budget' \in [tears: Nat, crashes: Nat, fails: Nat, transitions: Nat]
    BY <1>7, FailType DEF TailRetryLater, Inv
  <2> QED
    BY <1>7, <2>1 DEF Inv, TypeOK, TailRetryLater
<1> QED
  BY <1>1, <1>2, <1>3, <1>4, <1>5, <1>6, <1>7 DEF Tailing

LEMMA TypeRuntime ==
  ASSUME Inv, IdleSweep \/ IdleDone \/ StartRun \/ CancelRun \/ RunReturns
  PROVE  TypeOK'
<1>1. CASE IdleSweep
  <2>1. PICK n \in 0..budget.transitions :
          /\ outbox' = Transitions(n)
          /\ budget' = [budget EXCEPT !.transitions = @ - n]
    BY <1>1 DEF IdleSweep
  <2>2. budget.transitions - n \in Nat /\ n \in Nat
    BY <2>1 DEF Inv, TypeOK
  <2>3. outbox' \in Seq(Frames)
    BY <2>1, <2>2, TransitionsType
  <2>4. budget' \in [tears: Nat, crashes: Nat, fails: Nat, transitions: Nat]
    BY <2>1, <2>2 DEF Inv, TypeOK
  <2> QED
    BY <1>1, <2>3, <2>4 DEF Inv, TypeOK, IdleSweep, Actors
<1>2. CASE IdleDone
  BY <1>2 DEF Inv, TypeOK, IdleDone
<1>3. CASE StartRun
  BY <1>3 DEF Inv, TypeOK, StartRun, Phases
<1>4. CASE CancelRun
  BY <1>4 DEF Inv, TypeOK, CancelRun, Phases
<1>5. CASE RunReturns
  BY <1>5 DEF Inv, TypeOK, RunReturns, CloseAll, Phases
<1> QED
  BY <1>1, <1>2, <1>3, <1>4, <1>5

LEMMA TypeSubscription ==
  ASSUME Inv, NEW s \in Subs, Subscription(s)
  PROVE  TypeOK'
<1>1. CASE Subscribe(s)
  <2>1. Len(published) \in Nat
    BY DEF Inv, TypeOK
  <2>2. chan' \in [Subs -> Seq(Frames)]
    BY <1>1 DEF Inv, TypeOK, Subscribe
  <2> QED
    BY <1>1, <2>1, <2>2 DEF Inv, TypeOK, Subscribe
<1>2. CASE Unsubscribe(s)
  BY <1>2 DEF Inv, TypeOK, Unsubscribe
<1>3. CASE Receive(s)
  <2>1. chan[s] \in Seq(Frames) /\ chan[s] # <<>>
    BY <1>3 DEF Inv, TypeOK, Receive
  <2>2. Tail(chan[s]) \in Seq(Frames)
    BY <2>1, HeadTailProperties
  <2>3. chan' \in [Subs -> Seq(Frames)]
    BY <1>3, <2>2 DEF Inv, TypeOK, Receive
  <2> QED
    BY <1>3, <2>3 DEF Inv, TypeOK, Receive
<1>4. CASE Drop(s)
  <2>1. chan' \in [Subs -> Seq(Frames)]
    BY <1>4 DEF Inv, TypeOK, Drop
  <2> QED
    BY <1>4, <2>1 DEF Inv, TypeOK, Drop
<1> QED
  BY <1>1, <1>2, <1>3, <1>4 DEF Subscription

LEMMA VolatileType ==
  ASSUME NEW b \in [tears: Nat, crashes: Nat, fails: Nat, transitions: Nat],
         Volatile(b), spool' \in [Days -> Seq(Lines)], tail' \in [Days -> Seq(Pieces)]
  PROVE  TypeOK'
<1>1. /\ outbox' \in Seq(Frames) /\ published' \in Seq(Frames)
      /\ chan' \in [Subs -> Seq(Frames)]
  BY DEF Volatile
<1> QED
  BY <1>1 DEF Volatile, TypeOK, Phases

LEMMA TypeCrash == ASSUME Inv, Crash PROVE TypeOK'
<1>1. budget.crashes - 1 \in Nat
  BY DEF Crash, Inv, TypeOK
<1>2. [budget EXCEPT !.crashes = @ - 1]
        \in [tears: Nat, crashes: Nat, fails: Nat, transitions: Nat]
  BY <1>1 DEF Inv, TypeOK
<1>3. spool' \in [Days -> Seq(Lines)] /\ tail' \in [Days -> Seq(Pieces)]
  BY DEF Crash, Inv, TypeOK
<1> QED
  BY <1>2, <1>3, VolatileType DEF Crash

LEMMA TypeCrashInWrite ==
  ASSUME Inv, NEW a \in Admitters, CrashInWrite(a)
  PROVE  TypeOK'
<1>1. budget.crashes - 1 \in Nat /\ budget.tears - 1 \in Nat
  BY DEF CrashInWrite, TearLine, Inv, TypeOK
<1>2. [budget EXCEPT !.crashes = @ - 1, !.tears = @ - 1]
        \in [tears: Nat, crashes: Nat, fails: Nat, transitions: Nat]
  BY <1>1 DEF Inv, TypeOK
<1>3. arg[a] \in Ids
  BY DEF CrashInWrite, Inv, Discipline
<1>4. spool' \in [Days -> Seq(Lines)] /\ tail' \in [Days -> Seq(Pieces)]
  BY <1>3, TearLineType DEF CrashInWrite, Inv
<1> QED
  BY <1>2, <1>4, VolatileType DEF CrashInWrite

----------------------------------------------------------------------------
(* The discipline of the lock.                                             *)

\* Other writers only lengthen files, so the line in hand stays in hand.
LEMMA StillUnread ==
  ASSUME TypeOK, UNCHANGED <<todo, offset>>,
         \A d \in Days : Len(spool[d]) <= Len(spool'[d]),
         spool' \in [Days -> Seq(Lines)],
         todo # {}, Unread(First(todo))
  PROVE  todo' # {} /\ Unread(First(todo))'
<1>1. First(todo) \in Days
  BY FirstMember DEF TypeOK
<1>2. First(todo)' = First(todo)
  OBVIOUS
<1>3. Len(spool[First(todo)]) \in Nat /\ Len(spool'[First(todo)]) \in Nat
  BY <1>1 DEF TypeOK
<1>4. offset[First(todo)] \in Nat
  BY <1>1 DEF TypeOK
<1> QED
  BY <1>1, <1>2, <1>3, <1>4 DEF Unread

LEMMA DisciplineStartup == ASSUME Inv, Startup PROVE Discipline'
<1>1. ~Live /\ ~Looping /\ lock = None /\ tpc = "idle"
  BY DEF Startup, StartProcess, PrimeFile, StartBuild, BuildFile, EngineReady,
         Inv, Discipline, Live, Looping
<1>2. UNCHANGED <<lock, pc, arg, tpc, outbox>>
  BY DEF Startup, StartProcess, PrimeFile, StartBuild, BuildFile, EngineReady
<1>3. ~Looping'
  BY DEF Startup, StartProcess, PrimeFile, StartBuild, BuildFile, EngineReady, Looping
<1> QED
  BY <1>1, <1>2, <1>3 DEF Inv, Discipline, Live, Looping

LEMMA DisciplineAdmission ==
  ASSUME Inv, NEW a \in Admitters, NEW i \in Ids,
         AdmitCall(a, i) \/ Admission(a)
  PROVE  Discipline'
<1> USE ConstantsAssumption DEF Actors, Holding
<1>1. CASE AdmitCall(a, i)
  BY <1>1 DEF Inv, TypeOK, Discipline, AdmitCall, Live, Looping, Unread
<1>2. CASE AdmitLock(a)
  BY <1>2 DEF Inv, TypeOK, Discipline, AdmitLock, Live, Looping, Unread
<1>3. CASE AdmitRefuse(a)
  BY <1>3 DEF Inv, TypeOK, Discipline, AdmitRefuse, AdmitReturn, Live, Looping, Unread
<1>4. CASE AdmitWriteFails(a)
  BY <1>4 DEF Inv, TypeOK, Discipline, AdmitWriteFails, AdmitReturn, TearLine, Live,
              Looping, Unread
<1>5. CASE AdmitAppend(a)
  <2>1. arg[a] \in Ids
    BY <1>5 DEF Inv, Discipline, AdmitAppend, TypeOK
  <2>2. /\ \A d \in Days : Len(spool[d]) <= Len(spool'[d])
        /\ spool' \in [Days -> Seq(Lines)]
    BY <1>5, <2>1, WriteLineType DEF AdmitAppend, Inv
  <2>3. tpc \in {"read", "publishing"} => todo' # {} /\ Unread(First(todo))'
    BY <1>5, <2>2, StillUnread DEF AdmitAppend, Inv, Discipline
  <2> QED
    BY <1>5, <2>3 DEF Inv, TypeOK, Discipline, AdmitAppend, Live, Looping
<1>6. CASE AdmitProject(a)
  BY <1>6 DEF Inv, TypeOK, Discipline, AdmitProject, Live, Looping, Unread
<1>7. CASE AdmitDone(a)
  BY <1>7 DEF Inv, TypeOK, Discipline, AdmitDone, AdmitReturn, Live, Looping, Unread
<1> QED
  BY <1>1, <1>2, <1>3, <1>4, <1>5, <1>6, <1>7 DEF Admission

LEMMA DisciplineOneShot ==
  ASSUME Inv, NEW i \in Ids, OneShotAppend(i) \/ OneShotTear(i)
  PROVE  Discipline'
<1> USE ConstantsAssumption DEF Actors, Holding
<1>1. CASE OneShotAppend(i)
  <2>1. /\ \A d \in Days : Len(spool[d]) <= Len(spool'[d])
        /\ spool' \in [Days -> Seq(Lines)]
    BY <1>1, WriteLineType DEF OneShotAppend, Inv
  <2>2. tpc \in {"read", "publishing"} => todo' # {} /\ Unread(First(todo))'
    BY <1>1, <2>1, StillUnread DEF OneShotAppend, Inv, Discipline
  <2> QED
    BY <1>1, <2>2 DEF Inv, TypeOK, Discipline, OneShotAppend, Live, Looping
<1>2. CASE OneShotTear(i)
  BY <1>2 DEF Inv, TypeOK, Discipline, OneShotTear, TearLine, Live, Looping, Unread
<1> QED
  BY <1>1, <1>2

LEMMA DisciplineTailing == ASSUME Inv, Tailing PROVE Discipline'
<1> USE ConstantsAssumption DEF Actors, Holding
<1>1. CASE TailTick
  BY <1>1 DEF Inv, TypeOK, Discipline, TailTick, Live, Looping
<1>2. CASE TailRead
  BY <1>2 DEF Inv, TypeOK, Discipline, TailRead, Live, Looping, Unread
<1>3. CASE TailNextFile
  BY <1>3 DEF Inv, TypeOK, Discipline, TailNextFile, Live, Looping
<1>4. CASE TailPollDone
  BY <1>4 DEF Inv, TypeOK, Discipline, TailPollDone, Live, Looping
<1>5. CASE TailProject
  BY <1>5 DEF Inv, TypeOK, Discipline, TailProject, Live, Looping, Unread
<1>6. CASE TailAck
  BY <1>6 DEF Inv, TypeOK, Discipline, TailAck, Live, Looping
<1>7. CASE TailRetryLater
  BY <1>7 DEF Inv, TypeOK, Discipline, TailRetryLater, ProjectFails, Live, Looping
<1> QED
  BY <1>1, <1>2, <1>3, <1>4, <1>5, <1>6, <1>7 DEF Tailing

LEMMA DisciplineRuntime ==
  ASSUME Inv, Publish \/ IdleSweep \/ IdleDone \/ StartRun \/ CancelRun \/ RunReturns
  PROVE  Discipline'
<1> USE ConstantsAssumption DEF Actors, Holding
<1>1. CASE Publish
  BY <1>1 DEF Inv, TypeOK, Discipline, Publish, Live, Looping, Unread
<1>2. CASE IdleSweep
  BY <1>2 DEF Inv, TypeOK, Discipline, IdleSweep, Live, Looping, Unread
<1>3. CASE IdleDone
  BY <1>3 DEF Inv, TypeOK, Discipline, IdleDone, Live, Looping, Unread
<1>4. CASE StartRun
  BY <1>4 DEF Inv, TypeOK, Discipline, StartRun, Live, Looping, Unread
<1>5. CASE CancelRun
  BY <1>5 DEF Inv, TypeOK, Discipline, CancelRun, Live, Looping, Unread
<1>6. CASE RunReturns
  BY <1>6 DEF Inv, TypeOK, Discipline, RunReturns, Live, Looping
<1> QED
  BY <1>1, <1>2, <1>3, <1>4, <1>5, <1>6

LEMMA DisciplineSubscription ==
  ASSUME Inv, NEW s \in Subs, Subscription(s)
  PROVE  Discipline'
<1>1. UNCHANGED <<spool, phase, todo, offset, lock, pc, arg, tpc, outbox>>
  BY DEF Subscription, Subscribe, Unsubscribe, Receive, Drop
<1> QED
  BY <1>1 DEF Inv, Discipline, Holding, Live, Looping, Unread

LEMMA DisciplineVolatile ==
  ASSUME NEW b, Volatile(b)
  PROVE  Discipline'
BY ConstantsAssumption DEF Volatile, Discipline, Holding, Live, Looping, Actors

\* The type invariant together with the discipline is inductive.
THEOREM Invariance == Spec => []Inv
<1>1. Init => Inv
  <2> SUFFICES ASSUME Init PROVE Inv
    OBVIOUS
  <2>1. /\ outbox \in Seq(Frames) /\ published \in Seq(Frames)
        /\ chan \in [Subs -> Seq(Frames)]
        /\ spool \in [Days -> Seq(Lines)] /\ tail \in [Days -> Seq(Pieces)]
    BY DEF Init
  <2>2. TypeOK
    BY <2>1, ConstantsAssumption DEF Init, TypeOK, Phases
  <2>3. Discipline
    BY ConstantsAssumption DEF Init, Discipline, Holding, Live, Looping, Actors
  <2> QED
    BY <2>2, <2>3 DEF Inv
<1>2. Inv /\ [Next]_vars => Inv'
  <2> SUFFICES ASSUME Inv, [Next]_vars PROVE Inv'
    OBVIOUS
  <2>1. CASE Startup
    BY <2>1, TypeStartup, DisciplineStartup DEF Inv
  <2>2. CASE Tailing
    BY <2>2, TypeTailing, DisciplineTailing DEF Inv
  <2>3. CASE Publish
    BY <2>3, PublishType, DisciplineRuntime DEF Inv
  <2>4. CASE IdleSweep \/ IdleDone \/ StartRun \/ CancelRun \/ RunReturns
    BY <2>4, TypeRuntime, DisciplineRuntime DEF Inv
  <2>5. CASE \E a \in Admitters, i \in Ids : AdmitCall(a, i)
    BY <2>5, TypeAdmission, DisciplineAdmission DEF Inv
  <2>6. CASE \E a \in Admitters : Admission(a)
    <3>1. PICK a \in Admitters : Admission(a)
      BY <2>6
    <3>2. arg[a] \in Ids
      BY <3>1 DEF Inv, Discipline, TypeOK, Admission, AdmitLock, AdmitRefuse,
                  AdmitWriteFails, AdmitAppend, AdmitProject, AdmitDone
    <3> QED
      BY <3>1, <3>2, TypeAdmission, DisciplineAdmission DEF Inv
  <2>7. CASE \E i \in Ids : OneShotAppend(i) \/ OneShotTear(i)
    <3>1. PICK i \in Ids : OneShotAppend(i) \/ OneShotTear(i)
      BY <2>7
    <3> QED
      BY <3>1, TypeOneShot, DisciplineOneShot DEF Inv
  <2>8. CASE \E s \in Subs : Subscription(s)
    BY <2>8, TypeSubscription, DisciplineSubscription DEF Inv
  <2>9. CASE Crash
    BY <2>9, TypeCrash, DisciplineVolatile DEF Inv, Crash
  <2>10. CASE \E a \in Admitters : CrashInWrite(a)
    BY <2>10, TypeCrashInWrite, DisciplineVolatile DEF Inv, CrashInWrite
  <2>11. CASE UNCHANGED vars
    BY <2>11 DEF vars, Inv, TypeOK, Discipline, Live, Looping, Unread
  <2> QED
    BY <2>1, <2>2, <2>3, <2>4, <2>5, <2>6, <2>7, <2>8, <2>9, <2>10, <2>11 DEF Next
<1> QED
  BY <1>1, <1>2, PTL DEF Spec

\* The type invariant: every variable of the engine, its disk and its
\* subscribers keeps to the shape the code gives it.
THEOREM Typing == Spec => []TypeOK
<1>1. Inv => TypeOK
  BY DEF Inv
<1> QED
  BY <1>1, Invariance, PTL

----------------------------------------------------------------------------
(* What a process streams: no event twice.                                 *)

Once(frames) ==
  \A m, n \in DOMAIN frames :
    frames[m].kind = "event" /\ frames[m] = frames[n] => m = n
AllSeen(frames) ==
  \A n \in DOMAIN frames : frames[n].kind = "event" => frames[n].id \in seen

\* What was streamed, or is about to be, is behind the memory of ids: that is
\* what lets the projection refuse a replay.
Streaming ==
  /\ Once(published \o outbox)
  /\ AllSeen(published) /\ AllSeen(outbox)

\* A holder with nothing to publish may line up derived frames and, last, one
\* event that was never streamed.
LEMMA OnceExtended ==
  ASSUME NEW p \in Seq(Frames), NEW o \in Seq(Frames), Once(p), AllSeen(p),
         \A n \in DOMAIN o : o[n].kind = "event" => n = Len(o) /\ o[n].id \notin seen
  PROVE  Once(p \o o)
<1> SUFFICES ASSUME NEW m \in DOMAIN (p \o o), NEW n \in DOMAIN (p \o o),
                    (p \o o)[m].kind = "event", (p \o o)[m] = (p \o o)[n]
             PROVE  m = n
  BY DEF Once
<1>1. /\ m \in 1..(Len(p) + Len(o)) /\ n \in 1..(Len(p) + Len(o))
      /\ Len(p) \in Nat /\ Len(o) \in Nat
  OBVIOUS
<1>2. \A k \in 1..(Len(p) + Len(o)) :
        (p \o o)[k] = IF k <= Len(p) THEN p[k] ELSE o[k - Len(p)]
  OBVIOUS
<1>3. CASE m <= Len(p) /\ n <= Len(p)
  BY <1>1, <1>2, <1>3 DEF Once
<1>4. CASE m <= Len(p) /\ ~(n <= Len(p))
  <2>1. p[m].id \in seen
    BY <1>1, <1>2, <1>4 DEF AllSeen
  <2>2. n - Len(p) \in DOMAIN o /\ o[n - Len(p)] = p[m] /\ o[n - Len(p)].kind = "event"
    BY <1>1, <1>2, <1>4
  <2> QED
    BY <2>1, <2>2
<1>5. CASE ~(m <= Len(p)) /\ n <= Len(p)
  <2>1. p[n].id \in seen
    BY <1>1, <1>2, <1>5 DEF AllSeen
  <2>2. m - Len(p) \in DOMAIN o /\ o[m - Len(p)] = p[n] /\ o[m - Len(p)].kind = "event"
    BY <1>1, <1>2, <1>5
  <2> QED
    BY <2>1, <2>2
<1>6. CASE ~(m <= Len(p)) /\ ~(n <= Len(p))
  <2>1. /\ m - Len(p) \in DOMAIN o /\ n - Len(p) \in DOMAIN o
        /\ o[m - Len(p)].kind = "event" /\ o[n - Len(p)].kind = "event"
    BY <1>1, <1>2, <1>6
  <2>2. m - Len(p) = Len(o) /\ n - Len(p) = Len(o)
    BY <2>1
  <2> QED
    BY <1>1, <2>2
<1> QED
  BY <1>3, <1>4, <1>5, <1>6

\* Derived frames are no events, and the frame that follows them is the last.
LEMMA TransitionsThen ==
  ASSUME NEW n \in Nat, NEW frame \in Frames,
         NEW o, o = Append(Transitions(n), frame)
  PROVE  /\ o \in Seq(Frames) /\ Len(o) = n + 1 /\ o[n + 1] = frame
         /\ \A k \in DOMAIN o : o[k].kind = "event" => k = n + 1
<1>1. Transitions(n) \in Seq(Frames) /\ Len(Transitions(n)) = n
  BY TransitionsType
<1>2. \A k \in 1..n : Transitions(n)[k].kind = "transition"
  BY DEF Transitions, Transition
<1> QED
  BY <1>1, <1>2

LEMMA StreamingApply ==
  ASSUME Inv, Streaming, NEW frame \in Frames, Apply(frame), outbox = <<>>,
         UNCHANGED published
  PROVE  Streaming'
<1>1. published \in Seq(Frames) /\ published \o outbox = published
  BY DEF Inv, TypeOK
<1>2. Once(published)
  BY <1>1 DEF Streaming
<1>3. CASE frame.kind = "event" /\ frame.id \in seen
  BY <1>3 DEF Apply, Streaming, Once, AllSeen
<1>4. CASE ~(frame.kind = "event" /\ frame.id \in seen)
  <2>1. PICK n \in 0..2 : outbox' = Append(Transitions(n), frame)
    BY <1>4 DEF Apply
  <2>2. seen' = IF frame.kind = "event" THEN seen \cup {frame.id} ELSE seen
    BY <1>4 DEF Apply
  <2>3. /\ outbox' \in Seq(Frames) /\ Len(outbox') = n + 1 /\ outbox'[n + 1] = frame
        /\ \A k \in DOMAIN outbox' : outbox'[k].kind = "event" => k = n + 1
    <3>1. n \in Nat
      BY <2>1
    <3> QED
      BY <2>1, <3>1, TransitionsThen
  <2>4. \A k \in DOMAIN outbox' : outbox'[k].kind = "event" =>
           k = Len(outbox') /\ outbox'[k].id \notin seen
    BY <1>4, <2>3
  <2>5. Once(published \o outbox')
    BY <1>1, <1>2, <2>3, <2>4, OnceExtended DEF Streaming
  <2>6. AllSeen(published)' /\ AllSeen(outbox)'
    BY <2>2, <2>3 DEF Streaming, AllSeen
  <2> QED
    BY <2>5, <2>6 DEF Streaming, Once
<1> QED
  BY <1>3, <1>4

\* Nothing is lined up and nothing was: what was streamed stays as it is.
LEMMA StreamingNothing ==
  ASSUME Inv, Streaming, outbox = <<>>, outbox' = <<>>, UNCHANGED <<published, seen>>
  PROVE  Streaming'
BY DEF Streaming, Once, AllSeen

LEMMA StreamingKept ==
  ASSUME Streaming, UNCHANGED <<published, outbox>>, seen \subseteq seen'
  PROVE  Streaming'
BY DEF Streaming, Once, AllSeen

LEMMA StreamingPublish == ASSUME Inv, Streaming, Publish PROVE Streaming'
<1>1. /\ published \in Seq(Frames) /\ outbox \in Seq(Frames) /\ outbox # <<>>
      /\ published' = Append(published, Head(outbox)) /\ outbox' = Tail(outbox)
      /\ seen' = seen
  BY DEF Publish, Inv, TypeOK
<1>2. published' \o outbox' = published \o outbox
  <2>1. /\ published' \o outbox' \in Seq(Frames) /\ published \o outbox \in Seq(Frames)
        /\ Len(published' \o outbox') = Len(published \o outbox)
    BY <1>1, HeadTailProperties
  <2>2. \A k \in 1..Len(published \o outbox) :
          (published' \o outbox')[k] = (published \o outbox)[k]
    BY <1>1
  <2> QED
    BY <2>1, <2>2, SeqEqual
<1>3. AllSeen(published') /\ AllSeen(outbox')
  <2>1. Head(outbox).kind = "event" => Head(outbox).id \in seen
    BY <1>1 DEF Streaming, AllSeen
  <2>2. AllSeen(published')
    BY <1>1, <2>1 DEF Streaming, AllSeen
  <2>3. AllSeen(outbox')
    BY <1>1 DEF Streaming, AllSeen
  <2> QED
    BY <2>2, <2>3
<1>4. Once(published' \o outbox')
  BY <1>2 DEF Streaming
<1>5. Streaming' = (/\ Once(published' \o outbox')
                   /\ AllSeen(published)' /\ AllSeen(outbox)')
  BY DEF Streaming, Once
<1>6. AllSeen(published)' /\ AllSeen(outbox)'
  BY <1>1, <1>3 DEF AllSeen
<1> QED
  BY <1>4, <1>5, <1>6

LEMMA StreamingSweep == ASSUME Inv, Streaming, IdleSweep PROVE Streaming'
<1>1. PICK n \in 0..budget.transitions : outbox' = Transitions(n)
  BY DEF IdleSweep
<1>2. n \in Nat
  BY DEF Inv, TypeOK
<1>3. /\ outbox' \in Seq(Frames)
      /\ \A k \in DOMAIN outbox' : outbox'[k].kind # "event"
  BY <1>1, <1>2, TransitionsType DEF Transitions, Transition
<1>4. published \in Seq(Frames) /\ published \o outbox = published
  BY DEF IdleSweep, Inv, Discipline, TypeOK
<1>5. Once(published \o outbox')
  BY <1>3, <1>4, OnceExtended DEF Streaming
<1> QED
  BY <1>3, <1>5 DEF IdleSweep, Streaming, Once, AllSeen

LEMMA StreamingVolatile == ASSUME NEW b, Volatile(b) PROVE Streaming'
<1>1. published' = <<>> /\ outbox' = <<>> /\ published' \o outbox' = <<>>
  BY DEF Volatile
<1> QED
  BY <1>1 DEF Streaming, Once, AllSeen

LEMMA StreamingNext == ASSUME Inv, Streaming, [Next]_vars PROVE Streaming'
<1>1. CASE Startup
  BY <1>1, StreamingKept DEF Startup, StartProcess, PrimeFile, StartBuild, BuildFile,
                             EngineReady
<1>2. CASE Tailing
  <2>1. CASE TailProject
    <3> DEFINE frame == IF Parses(First(todo)) THEN EventFrame(NextLine(First(todo)).id)
                                              ELSE Warning
    <3>1. frame \in Frames
      BY <2>1, LineInHand, FrameTypes DEF TailProject, Lines
    <3>2. Apply(frame) /\ outbox = <<>> /\ UNCHANGED published
      BY <2>1 DEF TailProject, Inv, Discipline
    <3> HIDE DEF frame
    <3> QED
      BY <3>1, <3>2, StreamingApply
  <2>2. CASE TailRetryLater
    BY <2>2, StreamingNothing DEF TailRetryLater, ProjectFails, Inv, Discipline
  <2> QED
    BY <1>2, <2>1, <2>2, StreamingKept
       DEF Tailing, TailTick, TailRead, TailNextFile, TailPollDone, TailAck
<1>3. CASE Publish
  BY <1>3, StreamingPublish
<1>4. CASE IdleSweep
  BY <1>4, StreamingSweep
<1>5. CASE IdleDone \/ StartRun \/ CancelRun \/ RunReturns
  BY <1>5, StreamingKept DEF IdleDone, StartRun, CancelRun, RunReturns
<1>6. CASE \E a \in Admitters, i \in Ids : AdmitCall(a, i)
  BY <1>6, StreamingKept DEF AdmitCall
<1>7. CASE \E a \in Admitters : Admission(a)
  <2>1. PICK a \in Admitters : Admission(a)
    BY <1>7
  <2>2. CASE AdmitProject(a)
    <3>1. EventFrame(arg[a]) \in Frames
      BY <2>2, FrameTypes DEF Inv, Discipline, AdmitProject, TypeOK
    <3>2. outbox = <<>> /\ UNCHANGED published
      BY <2>2 DEF AdmitProject, Inv, Discipline
    <3>3. CASE Apply(EventFrame(arg[a]))
      BY <3>1, <3>2, <3>3, StreamingApply
    <3>4. CASE ProjectFails
      BY <3>2, <3>4, StreamingNothing DEF ProjectFails
    <3> QED
      BY <2>2, <3>3, <3>4 DEF AdmitProject
  <2> QED
    BY <2>1, <2>2, StreamingKept
       DEF Admission, AdmitLock, AdmitRefuse, AdmitWriteFails, AdmitAppend, AdmitDone
<1>8. CASE \E i \in Ids : OneShotAppend(i) \/ OneShotTear(i)
  BY <1>8, StreamingKept DEF OneShotAppend, OneShotTear
<1>9. CASE \E s \in Subs : Subscription(s)
  BY <1>9, StreamingKept DEF Subscription, Subscribe, Unsubscribe, Receive, Drop
<1>10. CASE Crash \/ \E a \in Admitters : CrashInWrite(a)
  BY <1>10, StreamingVolatile DEF Crash, CrashInWrite
<1>11. CASE UNCHANGED vars
  BY <1>11, StreamingKept DEF vars
<1> QED
  BY <1>1, <1>2, <1>3, <1>4, <1>5, <1>6, <1>7, <1>8, <1>9, <1>10, <1>11 DEF Next

\* However often an id is admitted, replayed or met again by the tailer, one
\* process hands it to its subscribers once.
THEOREM NeverStreamedTwice == Spec => []StreamedOnce
<1>1. Init => Streaming
  <2> SUFFICES ASSUME Init PROVE Streaming
    OBVIOUS
  <2>1. published = <<>> /\ outbox = <<>> /\ published \o outbox = <<>>
    BY DEF Init
  <2> QED
    BY <2>1 DEF Streaming, Once, AllSeen
<1>2. Inv /\ Streaming /\ [Next]_vars => Streaming'
  BY StreamingNext
<1>3. Streaming => StreamedOnce
  BY DEF Streaming, Once, StreamedOnce
<1> QED
  BY <1>1, <1>2, <1>3, Invariance, PTL DEF Spec

----------------------------------------------------------------------------
(* What a subscriber has been handed: a window of that stream.             *)

\* The channel read frame by frame, which is what the provers can follow.
Window(s) ==
  /\ sub[s] # "none" =>
       /\ pos[s] + Len(chan[s]) <= Len(published)
       /\ \A k \in 1..Len(chan[s]) : chan[s][k] = published[pos[s] + k]
  /\ sub[s] = "open" => pos[s] + Len(chan[s]) = Len(published)
Windows == \A s \in Subs : Window(s)

LEMMA WindowIsSubSeq ==
  ASSUME TypeOK, NEW s \in Subs, sub[s] # "none", Window(s)
  PROVE  chan[s] = SubSeq(published, pos[s] + 1, pos[s] + Len(chan[s]))
<1>1. /\ chan[s] \in Seq(Frames) /\ published \in Seq(Frames)
      /\ pos[s] \in Nat /\ Len(chan[s]) \in Nat /\ Len(published) \in Nat
  BY DEF TypeOK
<1> DEFINE w == SubSeq(published, pos[s] + 1, pos[s] + Len(chan[s]))
<1>2. /\ w \in Seq(Frames) /\ Len(w) = Len(chan[s])
      /\ \A k \in 1..Len(chan[s]) : w[k] = published[pos[s] + k]
  <2>1. pos[s] + Len(chan[s]) <= Len(published)
    BY DEF Window
  <2>2. \A k \in (pos[s] + 1)..(pos[s] + Len(chan[s])) : published[k] \in Frames
    BY <1>1, <2>1
  <2>3. w \in Seq(Frames) /\ Len(w) = Len(chan[s])
    BY <1>1, <2>1, <2>2
  <2>4. \A k \in 1..Len(chan[s]) : w[k] = published[pos[s] + k]
    BY <1>1, <2>1
  <2> QED
    BY <2>3, <2>4
<1> HIDE DEF w
<1>3. w = chan[s]
  BY <1>1, <1>2, SeqEqual DEF Window
<1> QED
  BY <1>3 DEF w

LEMMA WindowsKept ==
  ASSUME Windows, UNCHANGED <<published, sub, chan, pos>>
  PROVE  Windows'
BY DEF Windows, Window

\* A full subscriber is closed where it stands; the others get the frame.
LEMMA WindowsPublish == ASSUME TypeOK, Windows, Publish PROVE Windows'
<1> SUFFICES ASSUME NEW s \in Subs PROVE Window(s)'
  BY DEF Windows
<1>1. /\ published \in Seq(Frames) /\ chan[s] \in Seq(Frames) /\ pos[s] \in Nat
      /\ Head(outbox) \in Frames
  BY HeadTailProperties DEF TypeOK, Publish
<1>2. /\ published' = Append(published, Head(outbox)) /\ pos' = pos
      /\ sub'[s] = IF sub[s] = "open" /\ Full(s) THEN "overflowed" ELSE sub[s]
      /\ chan'[s] = IF sub[s] = "open" /\ ~Full(s)
                    THEN Append(chan[s], Head(outbox)) ELSE chan[s]
  BY DEF Publish
<1>3. Window(s)
  BY DEF Windows
<1>4. CASE sub[s] = "open" /\ ~Full(s)
  <2>1. /\ chan'[s] = Append(chan[s], Head(outbox)) /\ sub'[s] = "open"
        /\ pos[s] + Len(chan[s]) = Len(published)
        /\ \A k \in 1..Len(chan[s]) : chan[s][k] = published[pos[s] + k]
    BY <1>2, <1>3, <1>4 DEF Window
  <2>2. /\ Len(chan'[s]) = Len(chan[s]) + 1 /\ Len(published') = Len(published) + 1
        /\ \A k \in 1..Len(chan'[s]) :
             chan'[s][k] = IF k <= Len(chan[s]) THEN chan[s][k] ELSE Head(outbox)
        /\ \A k \in 1..Len(published') :
             published'[k] = IF k <= Len(published) THEN published[k] ELSE Head(outbox)
    BY <1>1, <1>2, <2>1
  <2>3. /\ Len(chan[s]) \in Nat /\ Len(published) \in Nat
    BY <1>1
  <2>4. \A k \in 1..Len(chan'[s]) : chan'[s][k] = published'[pos[s] + k]
    <3> SUFFICES ASSUME NEW k \in 1..Len(chan'[s])
                 PROVE  chan'[s][k] = published'[pos[s] + k]
      OBVIOUS
    <3>1. pos[s] + k \in 1..Len(published')
      BY <1>1, <2>1, <2>2, <2>3
    <3>2. CASE k <= Len(chan[s])
      BY <1>1, <2>1, <2>2, <2>3, <3>1, <3>2
    <3>3. CASE ~(k <= Len(chan[s]))
      BY <1>1, <2>1, <2>2, <2>3, <3>1, <3>3
    <3> QED
      BY <3>2, <3>3
  <2>5. pos'[s] + Len(chan'[s]) = Len(published')
    <3>1. /\ pos'[s] = pos[s] /\ pos[s] \in Nat
          /\ Len(chan'[s]) = Len(chan[s]) + 1 /\ Len(published') = Len(published) + 1
          /\ pos[s] + Len(chan[s]) = Len(published)
      BY <1>1, <1>2, <2>1, <2>2
    <3>2. pos'[s] + Len(chan'[s]) = pos[s] + (Len(chan[s]) + 1)
      BY <3>1
    <3>3. pos[s] + (Len(chan[s]) + 1) = Len(published) + 1
      <4>1. pos[s] \in Nat
        BY <3>1
      <4>2. pos[s] + Len(chan[s]) = Len(published)
        BY <3>1
      <4>3. pos[s] + (Len(chan[s]) + 1) = (pos[s] + Len(chan[s])) + 1
        BY <2>3, <4>1
      <4> QED
        BY <4>2, <4>3
    <3> QED
      BY <3>1, <3>2, <3>3
  <2>6. pos'[s] + Len(chan'[s]) <= Len(published')
    BY <1>1, <1>2, <2>2, <2>3, <2>5
  <2>7. \A k \in 1..Len(chan'[s]) : chan'[s][k] = published'[pos'[s] + k]
    BY <1>2, <2>4
  <2> QED
    BY <2>5, <2>6, <2>7 DEF Window
<1>5. CASE ~(sub[s] = "open" /\ ~Full(s))
  <2>1. chan'[s] = chan[s] /\ sub'[s] # "open"
    BY <1>2, <1>5
  <2>2. sub'[s] # "none" => sub[s] # "none"
    BY <1>2
  <2>3. /\ Len(published') = Len(published) + 1 /\ Len(published) \in Nat
        /\ \A k \in 1..Len(published) : published'[k] = published[k]
        /\ Len(chan[s]) \in Nat
    BY <1>1, <1>2
  <2>4. ASSUME sub'[s] # "none"
        PROVE  /\ pos[s] + Len(chan[s]) <= Len(published')
               /\ \A k \in 1..Len(chan[s]) : chan[s][k] = published'[pos[s] + k]
    <3>1. /\ pos[s] + Len(chan[s]) <= Len(published)
          /\ \A k \in 1..Len(chan[s]) : chan[s][k] = published[pos[s] + k]
      BY <1>3, <2>2, <2>4 DEF Window
    <3>2. \A k \in 1..Len(chan[s]) : pos[s] + k \in 1..Len(published)
      BY <1>1, <2>3, <3>1
    <3> QED
      BY <1>1, <2>3, <3>1, <3>2, SMTT(20)
  <2> QED
    BY <1>2, <2>1, <2>4 DEF Window
<1> QED
  BY <1>4, <1>5

LEMMA WindowsSubscription ==
  ASSUME TypeOK, Windows, NEW s \in Subs, Subscription(s)
  PROVE  Windows'
<1> SUFFICES ASSUME NEW t \in Subs PROVE Window(t)'
  BY DEF Windows
<1>1. Window(t) /\ published \in Seq(Frames) /\ chan[t] \in Seq(Frames) /\ pos[t] \in Nat
  BY DEF Windows, TypeOK
<1>2. CASE t # s
  <2>1. sub'[t] = sub[t] /\ chan'[t] = chan[t] /\ pos'[t] = pos[t] /\ UNCHANGED published
    BY <1>2 DEF Subscription, Subscribe, Unsubscribe, Receive, Drop, TypeOK
  <2> QED
    BY <1>1, <2>1 DEF Window
<1>3. CASE t = s
  <2>1. CASE Subscribe(s)
    <3>1. /\ chan'[t] = <<>> /\ pos'[t] = Len(published) /\ sub'[t] = "open"
          /\ published' = published
      BY <1>3, <2>1 DEF Subscribe, TypeOK
    <3> QED
      BY <1>1, <3>1 DEF Window
  <2>2. CASE Unsubscribe(s)
    <3>1. /\ chan'[t] = chan[t] /\ pos'[t] = pos[t] /\ sub[t] = "open" /\ sub'[t] = "closed"
          /\ published' = published
      BY <1>3, <2>2 DEF Unsubscribe, TypeOK
    <3> QED
      BY <1>1, <3>1 DEF Window
  <2>3. CASE Receive(s)
    <3>1. /\ chan[t] # <<>> /\ chan'[t] = Tail(chan[t]) /\ pos'[t] = pos[t] + 1
          /\ sub'[t] = sub[t] /\ published' = published
      BY <1>3, <2>3 DEF Receive, TypeOK
    <3>2. /\ Len(chan'[t]) = Len(chan[t]) - 1 /\ Len(chan[t]) \in Nat
          /\ \A k \in 1..Len(chan'[t]) : chan'[t][k] = chan[t][k + 1]
      BY <1>1, <3>1
    <3>3. pos'[t] + Len(chan'[t]) = pos[t] + Len(chan[t])
      BY <1>1, <3>1, <3>2
    <3>4. \A k \in 1..Len(chan'[t]) :
             k + 1 \in 1..Len(chan[t]) /\ pos'[t] + k = pos[t] + (k + 1)
      BY <1>1, <3>1, <3>2
    <3> QED
      BY <1>1, <3>1, <3>2, <3>3, <3>4 DEF Window
  <2>4. CASE Drop(s)
    BY <1>3, <2>4 DEF Drop, Window, TypeOK
  <2> QED
    BY <2>1, <2>2, <2>3, <2>4 DEF Subscription
<1> QED
  BY <1>2, <1>3

LEMMA WindowsNext == ASSUME TypeOK, Windows, [Next]_vars PROVE Windows'
<1>1. CASE Startup
  BY <1>1, WindowsKept DEF Startup, StartProcess, PrimeFile, StartBuild, BuildFile,
                           EngineReady
<1>2. CASE Tailing
  BY <1>2, WindowsKept DEF Tailing, TailTick, TailRead, TailNextFile, TailPollDone,
                           TailProject, TailAck, TailRetryLater
<1>3. CASE Publish
  BY <1>3, WindowsPublish
<1>4. CASE IdleSweep \/ IdleDone \/ StartRun \/ CancelRun
  BY <1>4, WindowsKept DEF IdleSweep, IdleDone, StartRun, CancelRun
<1>5. CASE RunReturns
  BY <1>5 DEF RunReturns, CloseAll, Windows, Window
<1>6. CASE \E a \in Admitters, i \in Ids : AdmitCall(a, i)
  BY <1>6, WindowsKept DEF AdmitCall
<1>7. CASE \E a \in Admitters : Admission(a)
  BY <1>7, WindowsKept DEF Admission, AdmitLock, AdmitRefuse, AdmitWriteFails,
                           AdmitAppend, AdmitProject, AdmitDone
<1>8. CASE \E i \in Ids : OneShotAppend(i) \/ OneShotTear(i)
  BY <1>8, WindowsKept DEF OneShotAppend, OneShotTear
<1>9. CASE \E s \in Subs : Subscription(s)
  BY <1>9, WindowsSubscription
<1>10. CASE Crash \/ \E a \in Admitters : CrashInWrite(a)
  BY <1>10 DEF Crash, CrashInWrite, Volatile, Windows, Window
<1>11. CASE UNCHANGED vars
  BY <1>11, WindowsKept DEF vars
<1> QED
  BY <1>1, <1>2, <1>3, <1>4, <1>5, <1>6, <1>7, <1>8, <1>9, <1>10, <1>11 DEF Next

\* No subscriber ever has a hole or a repetition in what it receives: overflow
\* ends its subscription, and an open one has everything published so far.
THEOREM DeliveryIsGapless == Spec => []GaplessDelivery
<1>1. Init => Windows
  BY DEF Init, Windows, Window
<1>2. Inv /\ Windows /\ [Next]_vars => Windows'
  BY WindowsNext DEF Inv
<1>3. Inv /\ Windows => GaplessDelivery
  <2> SUFFICES ASSUME TypeOK, Windows, NEW s \in Subs
               PROVE  /\ sub[s] # "none" =>
                           /\ pos[s] + Len(chan[s]) <= Len(published)
                           /\ chan[s] = SubSeq(published, pos[s] + 1, pos[s] + Len(chan[s]))
                      /\ sub[s] = "open" => pos[s] + Len(chan[s]) = Len(published)
    BY DEF Inv, GaplessDelivery
  <2>1. Window(s)
    BY DEF Windows
  <2>2. sub[s] # "none" => chan[s] = SubSeq(published, pos[s] + 1, pos[s] + Len(chan[s]))
    BY <2>1, WindowIsSubSeq
  <2> QED
    BY <2>1, <2>2 DEF Window
<1> QED
  BY <1>1, <1>2, <1>3, Invariance, PTL DEF Spec

----------------------------------------------------------------------------
(* Durable before visible.                                                 *)

\* A call past its commit has its record on disk.
Durable ==
  /\ ProjectedIsWritten
  /\ \A a \in Admitters : pc[a] = "committed" => arg[a] \in Written

\* Bytes on disk stay there: a write joins what an earlier one left.
LEMMA WriteKeeps ==
  ASSUME TypeOK, NEW i \in Ids, WriteLine(i)
  PROVE  Written' = Written \cup {i}
<1> DEFINE d == DayOf[i]
           line == [head |-> tail[d], id |-> i]
<1>1. d \in Days /\ line \in Lines
  BY DayOfType DEF TypeOK, Lines
<1>2. /\ spool' = [spool EXCEPT ![d] = Append(@, line)]
      /\ tail' = [tail EXCEPT ![d] = <<>>]
  BY DEF WriteLine
<1>3. spool[d] \in Seq(Lines) /\ tail[d] \in Seq(Pieces)
  BY <1>1 DEF TypeOK
<1>4. spool'[d] = Append(spool[d], line)
  BY <1>1, <1>2 DEF TypeOK
<1>5. /\ Len(spool'[d]) = Len(spool[d]) + 1
      /\ spool'[d][Len(spool[d]) + 1] = line
      /\ \A n \in DOMAIN spool[d] : n \in DOMAIN spool'[d] /\ spool'[d][n] = spool[d][n]
      /\ Len(spool[d]) + 1 \in DOMAIN spool'[d]
  BY <1>1, <1>3, <1>4
<1>6. i \in Written'
  BY <1>1, <1>5 DEF Written, Holds
<1>7. ASSUME NEW j \in Ids, NEW e \in Days, Holds(e, j)
      PROVE  Holds(e, j)'
  <2>1. CASE e # d
    BY <1>2, <1>7, <2>1 DEF Holds, TypeOK
  <2>2. CASE e = d /\ \E n \in DOMAIN tail[d] : tail[d][n] = j
    BY <1>5, <2>2 DEF Holds
  <2>3. CASE e = d /\ ~ \E n \in DOMAIN tail[d] : tail[d][n] = j
    BY <1>5, <1>7, <2>3 DEF Holds
  <2> QED
    BY <2>1, <2>2, <2>3
<1>8. \A n \in DOMAIN spool'[d] : n \in DOMAIN spool[d] \/ n = Len(spool[d]) + 1
  BY <1>1, <1>3, <1>4
<1>9. ASSUME NEW j \in Ids, NEW e \in Days, Holds(e, j)', j # i
      PROVE  Holds(e, j)
  <2>1. CASE e # d
    BY <1>2, <1>9, <2>1 DEF Holds, TypeOK
  <2>2. CASE e = d
    <3>1. tail'[d] = <<>>
      BY <1>1, <1>2 DEF TypeOK
    <3>2. PICK n \in DOMAIN spool'[d] :
            \/ spool'[d][n].id = j
            \/ \E m \in DOMAIN spool'[d][n].head : spool'[d][n].head[m] = j
      BY <1>9, <2>2, <3>1 DEF Holds
    <3>3. CASE n \in DOMAIN spool[d]
      BY <1>5, <2>2, <3>2, <3>3 DEF Holds
    <3>4. CASE n = Len(spool[d]) + 1
      <4>1. \E m \in DOMAIN tail[d] : tail[d][m] = j
        BY <1>5, <1>9, <3>2, <3>4
      <4> QED
        BY <2>2, <4>1 DEF Holds
    <3> QED
      BY <1>8, <3>3, <3>4
  <2> QED
    BY <2>1, <2>2
<1>10. Written \subseteq Written' /\ Written' \subseteq Written \cup {i}
  BY <1>7, <1>9 DEF Written
<1> QED
  BY <1>6, <1>10

LEMMA TearKeeps ==
  ASSUME TypeOK, NEW i \in Ids, TearLine(i)
  PROVE  /\ Written \subseteq Written'
         /\ \/ Written' = Written
            \/ Written' = Written \cup {i}
<1> DEFINE d == DayOf[i]
<1>1. d \in Days
  BY DayOfType
<1>2. PICK piece \in {Fragment, i} : tail' = [tail EXCEPT ![d] = Append(@, piece)]
  BY DEF TearLine
<1>3. tail[d] \in Seq(Pieces) /\ piece \in Pieces
  BY <1>1 DEF TypeOK, Pieces
<1>4. spool' = spool
  BY DEF TearLine
<1>5. /\ \A n \in DOMAIN tail[d] : n \in DOMAIN tail'[d] /\ tail'[d][n] = tail[d][n]
      /\ Len(tail[d]) + 1 \in DOMAIN tail'[d] /\ tail'[d][Len(tail[d]) + 1] = piece
      /\ \A n \in DOMAIN tail'[d] : n \in DOMAIN tail[d] \/ n = Len(tail[d]) + 1
  <2>1. tail'[d] = Append(tail[d], piece)
    BY <1>1, <1>2 DEF TypeOK
  <2> QED
    BY <1>3, <2>1
<1>6. \A e \in Days : e # d => tail'[e] = tail[e]
  BY <1>2 DEF TypeOK
<1>7. ASSUME NEW j \in Ids, NEW e \in Days
      PROVE  /\ Holds(e, j) => Holds(e, j)'
             /\ Holds(e, j)' => Holds(e, j) \/ (e = d /\ piece = j)
  <2> DEFINE InLine == \E n \in DOMAIN spool[e] :
                         \/ spool[e][n].id = j
                         \/ \E m \in DOMAIN spool[e][n].head : spool[e][n].head[m] = j
             InTail == \E n \in DOMAIN tail[e] : tail[e][n] = j
             InTail2 == \E n \in DOMAIN tail'[e] : tail'[e][n] = j
  <2>1. Holds(e, j) <=> InLine \/ InTail
    BY DEF Holds
  <2>2. Holds(e, j)' <=> InLine \/ InTail2
    BY <1>4 DEF Holds
  <2>3. CASE e # d
    BY <1>6, <2>1, <2>2, <2>3
  <2>4. CASE e = d
    <3>1. InTail => InTail2
      BY <1>5, <2>4
    <3>2. InTail2 => InTail \/ piece = j
      BY <1>5, <2>4
    <3> QED
      BY <2>1, <2>2, <2>4, <3>1, <3>2
  <2> QED
    BY <2>3, <2>4
<1>8. piece = i => i \in Written'
  BY <1>1, <1>5 DEF Written, Holds
<1>9. Written \subseteq Written'
  BY <1>7 DEF Written
<1>10. \A j \in Written' : j \in Written \/ j = piece
  BY <1>7 DEF Written
<1>11. Written' \subseteq Ids
  BY DEF Written
<1>12. CASE piece = i
  BY <1>8, <1>9, <1>10, <1>12
<1>13. CASE piece = Fragment
  BY <1>9, <1>10, <1>11, <1>13, ConstantsAssumption
<1> QED
  BY <1>9, <1>12, <1>13

LEMMA DiskStays == ASSUME UNCHANGED disk PROVE Written' = Written
BY DEF Written, Holds

\* The line the tailer reads is on disk.
LEMMA LineIsWritten ==
  ASSUME Inv, tpc \in {"read", "publishing"}
  PROVE  NextLine(First(todo)).id \in Written
<1>1. /\ First(todo) \in Days /\ Unread(First(todo))
      /\ NextLine(First(todo)) \in Lines
  BY LineInHand
<1>2. offset[First(todo)] + 1 \in DOMAIN spool[First(todo)]
  BY <1>1 DEF Unread, Inv, TypeOK
<1> QED
  BY <1>1, <1>2 DEF NextLine, Written, Holds, Lines

LEMMA SnapshotIsWritten ==
  ASSUME TypeOK, NEW d \in Days
  PROVE  SnapshotIds(d) \subseteq Written
<1>1. SnapshotIds(d) \subseteq Ids
  BY SnapshotType
<1>2. \A i \in SnapshotIds(d) : Holds(d, i)
  BY DEF SnapshotIds, Holds, TypeOK
<1> QED
  BY <1>1, <1>2 DEF Written

\* Applying a frame reveals at most its own event.
LEMMA ApplyReveals ==
  ASSUME TypeOK, NEW frame \in Frames, Apply(frame)
  PROVE  /\ \/ seen' = seen
            \/ frame.kind = "event" /\ frame.id \notin seen /\ seen' = seen \cup {frame.id}
         /\ EventIds(outbox') \subseteq seen'
         /\ frame.kind = "event" => frame.id \in seen'
<1>1. CASE frame.kind = "event" /\ frame.id \in seen
  BY <1>1 DEF Apply, EventIds
<1>2. CASE ~(frame.kind = "event" /\ frame.id \in seen)
  <2>1. PICK n \in 0..2 : outbox' = Append(Transitions(n), frame)
    BY <1>2 DEF Apply
  <2>2. Transitions(n) \in Seq(Frames) /\ Len(Transitions(n)) = n
    BY TransitionsType
  <2>3. \A m \in 1..n : Transitions(n)[m] = Transition
    BY DEF Transitions
  <2>4. \A m \in DOMAIN outbox' : outbox'[m] = Transition \/ outbox'[m] = frame
    BY <2>1, <2>2, <2>3
  <2>5. \A m \in DOMAIN outbox' : outbox'[m].kind = "event" => outbox'[m] = frame
    BY <2>4 DEF Transition
  <2>6. seen' = IF frame.kind = "event" THEN seen \cup {frame.id} ELSE seen
    BY <1>2 DEF Apply
  <2> QED
    BY <1>2, <2>5, <2>6 DEF EventIds
<1> QED
  BY <1>1, <1>2

LEMMA PublishEvents ==
  ASSUME TypeOK, Publish
  PROVE  EventIds(published') \cup EventIds(outbox') = EventIds(published) \cup EventIds(outbox)
<1>1. published \in Seq(Frames) /\ outbox \in Seq(Frames) /\ outbox # <<>>
  BY DEF TypeOK, Publish
<1>2. published' = Append(published, Head(outbox)) /\ outbox' = Tail(outbox)
  BY DEF Publish
<1>3. /\ Len(outbox) \in Nat \ {0} /\ Head(outbox) = outbox[1] /\ Len(Tail(outbox)) = Len(outbox) - 1
      /\ Tail(outbox) \in Seq(Frames) /\ Head(outbox) \in Frames
      /\ \A n \in 1..Len(Tail(outbox)) : Tail(outbox)[n] = outbox[n + 1]
  BY <1>1, HeadTailProperties
<1>4. EventIds(published') = EventIds(published) \cup
        (IF Head(outbox).kind = "event" THEN {Head(outbox).id} ELSE {})
  <2>1. /\ DOMAIN published' = DOMAIN published \cup {Len(published) + 1}
        /\ \A n \in DOMAIN published : published'[n] = published[n]
        /\ published'[Len(published) + 1] = Head(outbox)
    BY <1>1, <1>2, <1>3
  <2> QED
    BY <2>1 DEF EventIds
<1>5. EventIds(outbox) = EventIds(Tail(outbox)) \cup
        (IF Head(outbox).kind = "event" THEN {Head(outbox).id} ELSE {})
  <2> DEFINE rest == Tail(outbox)
  <2>1. DOMAIN outbox = 1..Len(outbox) /\ DOMAIN rest = 1..(Len(outbox) - 1)
    BY <1>1, <1>3
  <2>2. \A n \in DOMAIN outbox : n = 1 \/ (n - 1 \in DOMAIN rest /\ outbox[n] = rest[n - 1])
    BY <1>3, <2>1
  <2>3. \A n \in DOMAIN rest : n + 1 \in DOMAIN outbox /\ rest[n] = outbox[n + 1]
    BY <1>3, <2>1
  <2>4. 1 \in DOMAIN outbox /\ outbox[1] = Head(outbox)
    BY <1>3, <2>1
  <2>5. ASSUME NEW i \in EventIds(outbox)
        PROVE  i \in EventIds(rest) \/ (Head(outbox).kind = "event" /\ i = Head(outbox).id)
    <3>1. PICK n \in DOMAIN outbox : outbox[n].kind = "event" /\ outbox[n].id = i
      BY <2>5 DEF EventIds
    <3> QED
      BY <2>2, <2>4, <3>1 DEF EventIds
  <2>6. ASSUME NEW i \in EventIds(rest)
        PROVE  i \in EventIds(outbox)
    <3>1. PICK n \in DOMAIN rest : rest[n].kind = "event" /\ rest[n].id = i
      BY <2>6 DEF EventIds
    <3> QED
      BY <2>3, <3>1 DEF EventIds
  <2>7. Head(outbox).kind = "event" => Head(outbox).id \in EventIds(outbox)
    BY <2>4 DEF EventIds
  <2> QED
    BY <2>5, <2>6, <2>7
<1> QED
  BY <1>2, <1>4, <1>5

\* Actions that leave the projection and the frames alone keep Durable as long
\* as the bytes on disk stay.
LEMMA DurableStays ==
  ASSUME Inv, Durable, Written \subseteq Written',
         UNCHANGED <<seen, published, outbox>>,
         \A a \in Admitters : pc'[a] = "committed" =>
             arg'[a] \in Written' \/ (pc[a] = "committed" /\ arg'[a] = arg[a])
  PROVE  Durable'
BY DEF Durable, ProjectedIsWritten

\* Applying an event that is on disk keeps Durable.
LEMMA DurableApply ==
  ASSUME Inv, Durable, NEW frame \in Frames, Apply(frame),
         frame.kind = "event" => frame.id \in Written,
         UNCHANGED <<spool, tail, published, arg>>,
         \A a \in Admitters : pc'[a] = "committed" => pc[a] = "committed"
  PROVE  Durable'
<1>1. Written' = Written
  BY DiskStays
<1>2. /\ seen' = seen \/ (frame.kind = "event" /\ seen' = seen \cup {frame.id})
      /\ EventIds(outbox') \subseteq seen'
  BY ApplyReveals DEF Inv
<1>3. seen \subseteq seen' /\ seen' \subseteq Written'
  BY <1>1, <1>2 DEF Durable, ProjectedIsWritten
<1>4. EventIds(published') \cup EventIds(outbox') \subseteq seen'
  BY <1>2, <1>3 DEF Durable, ProjectedIsWritten
<1> QED
  BY <1>1, <1>3, <1>4 DEF Durable, ProjectedIsWritten

LEMMA NoFrames == EventIds(<<>>) = {}
BY DEF EventIds

LEMMA DurableFail ==
  ASSUME Inv, Durable, ProjectFails, UNCHANGED <<spool, tail, published, arg>>,
         \A a \in Admitters : pc'[a] = "committed" => pc[a] = "committed"
  PROVE  Durable'
<1>1. Written' = Written
  BY DiskStays
<1> QED
  BY <1>1, NoFrames DEF Durable, ProjectedIsWritten, ProjectFails

LEMMA DurableVolatile == ASSUME NEW b, Volatile(b) PROVE Durable'
BY NoFrames DEF Volatile, Durable, ProjectedIsWritten

LEMMA DurableStep == ASSUME Inv, Durable, [Next]_vars PROVE Durable'
<1>1. CASE Startup
  <2>1. Written' = Written
    BY <1>1, DiskStays DEF Startup, StartProcess, PrimeFile, StartBuild, BuildFile, EngineReady
  <2>2. CASE BuildFile
    <3>1. First(todo) \in Days
      BY <2>2, FirstMember DEF BuildFile, Inv, TypeOK
    <3>2. SnapshotIds(First(todo)) \subseteq Written
      BY <3>1, SnapshotIsWritten DEF Inv
    <3> QED
      BY <2>1, <2>2, <3>2 DEF BuildFile, Durable, ProjectedIsWritten
  <2>3. CASE StartProcess \/ PrimeFile \/ StartBuild \/ EngineReady
    BY <2>1, <2>3, DurableStays DEF StartProcess, PrimeFile, StartBuild, EngineReady
  <2> QED
    BY <1>1, <2>2, <2>3 DEF Startup
<1>2. CASE Tailing
  <2>1. CASE TailProject
    <3> DEFINE d == First(todo)
               frame == IF Parses(d) THEN EventFrame(NextLine(d).id) ELSE Warning
    <3>1. frame \in Frames
      BY <2>1, LineInHand, FrameTypes DEF TailProject, Lines
    <3>2. frame.kind = "event" => frame.id \in Written
      BY <2>1, LineIsWritten DEF TailProject, EventFrame, Warning
    <3>3. Apply(frame)
      BY <2>1 DEF TailProject
    <3> QED
      BY <2>1, <3>1, <3>2, <3>3, DurableApply DEF TailProject
  <2>2. CASE TailRetryLater
    BY <2>2, DurableFail DEF TailRetryLater
  <2>3. CASE TailTick \/ TailRead \/ TailNextFile \/ TailPollDone \/ TailAck
    <3>1. Written' = Written
      BY <2>3, DiskStays DEF TailTick, TailRead, TailNextFile, TailPollDone, TailAck
    <3> QED
      BY <2>3, <3>1, DurableStays DEF TailTick, TailRead, TailNextFile, TailPollDone, TailAck
  <2> QED
    BY <1>2, <2>1, <2>2, <2>3 DEF Tailing
<1>3. CASE Publish
  <2>1. Written' = Written
    BY <1>3, DiskStays DEF Publish
  <2>2. EventIds(published') \cup EventIds(outbox') = EventIds(published) \cup EventIds(outbox)
    BY <1>3, PublishEvents DEF Inv
  <2> QED
    BY <1>3, <2>1, <2>2 DEF Publish, Durable, ProjectedIsWritten
<1>4. CASE IdleSweep
  <2>1. Written' = Written
    BY <1>4, DiskStays DEF IdleSweep
  <2>2. PICK n \in 0..budget.transitions : outbox' = Transitions(n)
    BY <1>4 DEF IdleSweep
  <2>3. EventIds(outbox') = {}
    BY <2>2 DEF EventIds, Transitions, Transition
  <2> QED
    BY <1>4, <2>1, <2>3 DEF IdleSweep, Durable, ProjectedIsWritten
<1>5. CASE IdleDone \/ StartRun \/ CancelRun \/ RunReturns
  <2>1. Written' = Written
    BY <1>5, DiskStays DEF IdleDone, StartRun, CancelRun, RunReturns
  <2> QED
    BY <1>5, <2>1, DurableStays DEF IdleDone, StartRun, CancelRun, RunReturns
<1>6. CASE \E a \in Admitters, i \in Ids : AdmitCall(a, i)
  <2>1. Written' = Written
    BY <1>6, DiskStays DEF AdmitCall
  <2> QED
    BY <1>6, <2>1, DurableStays DEF AdmitCall, Inv, TypeOK
<1>7. CASE \E a \in Admitters : Admission(a)
  <2>1. PICK a \in Admitters : Admission(a)
    BY <1>7
  <2>2. CASE AdmitLock(a) \/ AdmitRefuse(a) \/ AdmitDone(a)
    <3>1. Written' = Written
      BY <2>2, DiskStays DEF AdmitLock, AdmitRefuse, AdmitDone
    <3> QED
      BY <2>2, <3>1, DurableStays
         DEF AdmitLock, AdmitRefuse, AdmitDone, AdmitReturn, Inv, TypeOK
  <2>3. CASE AdmitWriteFails(a)
    <3>1. arg[a] \in Ids
      BY <2>3 DEF AdmitWriteFails, Inv, Discipline
    <3>2. Written \subseteq Written'
      BY <2>3, <3>1, TearKeeps DEF AdmitWriteFails, Inv
    <3> QED
      BY <2>3, <3>2, DurableStays DEF AdmitWriteFails, AdmitReturn, Inv, TypeOK
  <2>4. CASE AdmitAppend(a)
    <3>1. arg[a] \in Ids
      BY <2>4 DEF AdmitAppend, Inv, Discipline
    <3>2. Written \subseteq Written' /\ arg[a] \in Written'
      BY <2>4, <3>1, WriteKeeps DEF AdmitAppend, Inv
    <3> QED
      BY <2>4, <3>2, DurableStays DEF AdmitAppend, Inv, TypeOK
  <2>5. CASE AdmitProject(a)
    <3>1. EventFrame(arg[a]) \in Frames /\ arg[a] \in Written
      BY <2>5, FrameTypes DEF AdmitProject, Inv, Discipline, Durable
    <3>2. \A b \in Admitters : pc'[b] = "committed" => pc[b] = "committed"
      BY <2>5 DEF AdmitProject, Inv, TypeOK
    <3>3. CASE Apply(EventFrame(arg[a]))
      BY <2>5, <3>1, <3>2, <3>3, DurableApply DEF AdmitProject, EventFrame
    <3>4. CASE ProjectFails
      BY <2>5, <3>2, <3>4, DurableFail DEF AdmitProject
    <3> QED
      BY <2>5, <3>3, <3>4 DEF AdmitProject
  <2> QED
    BY <2>1, <2>2, <2>3, <2>4, <2>5 DEF Admission
<1>8. CASE \E i \in Ids : OneShotAppend(i) \/ OneShotTear(i)
  <2>1. Written \subseteq Written'
    BY <1>8, WriteKeeps, TearKeeps DEF OneShotAppend, OneShotTear, Inv
  <2> QED
    BY <1>8, <2>1, DurableStays DEF OneShotAppend, OneShotTear
<1>9. CASE \E s \in Subs : Subscription(s)
  <2>1. Written' = Written
    BY <1>9, DiskStays DEF Subscription, Subscribe, Unsubscribe, Receive, Drop
  <2> QED
    BY <1>9, <2>1, DurableStays DEF Subscription, Subscribe, Unsubscribe, Receive, Drop
<1>10. CASE Crash \/ \E a \in Admitters : CrashInWrite(a)
  BY <1>10, DurableVolatile DEF Crash, CrashInWrite
<1>11. CASE UNCHANGED vars
  <2>1. Written' = Written
    BY <1>11, DiskStays DEF vars
  <2> QED
    BY <1>11, <2>1, DurableStays DEF vars
<1> QED
  BY <1>1, <1>2, <1>3, <1>4, <1>5, <1>6, <1>7, <1>8, <1>9, <1>10, <1>11 DEF Next

\* Append is the commit point: neither the projection nor any frame of a Live
\* Subscription is ever ahead of the bytes on disk.
THEOREM DurableFirst == Spec => []ProjectedIsWritten
<1>1. Init => Durable
  BY NoFrames DEF Init, Durable, ProjectedIsWritten
<1>2. Inv /\ Durable /\ [Next]_vars => Durable'
  BY DurableStep
<1>3. Durable => ProjectedIsWritten
  BY DEF Durable
<1> QED
  BY <1>1, <1>2, <1>3, Invariance, PTL DEF Spec

----------------------------------------------------------------------------
(* The engine implements CapturedHistory.                                  *)

LEMMA HistoryStutters ==
  ASSUME Written' = Written, UNCHANGED <<phase, seen>>
  PROVE  UNCHANGED History!hvars
BY DEF History!hvars, Live

\* While no query is answered, only the disk is visible to the history.
LEMMA HistoryHidden ==
  ASSUME Written' = Written, ~Live, ~Live'
  PROVE  UNCHANGED History!hvars
<1>1. Live = FALSE /\ Live' = FALSE
  BY DEF Live
<1>2. (IF Live THEN seen ELSE {})' = (IF Live THEN seen ELSE {})
  BY <1>1
<1> QED
  BY <1>1, <1>2 DEF History!hvars

LEMMA HistoryReveals ==
  ASSUME Inv, Live, UNCHANGED <<spool, tail, phase>>, NEW frame \in Frames, Apply(frame),
         frame.kind = "event" => frame.id \in Written
  PROVE  [History!HNext]_(History!hvars)
<1>1. Written' = Written
  BY DiskStays
<1>2. CASE seen' = seen
  BY <1>1, <1>2, HistoryStutters
<1>3. CASE frame.kind = "event" /\ frame.id \notin seen /\ seen' = seen \cup {frame.id}
  <2>1. frame.id \in Ids
    BY <1>3 DEF Frames
  <2>2. History!Reveal(frame.id)
    BY <1>1, <1>3 DEF History!Reveal, Live
  <2> QED
    BY <2>1, <2>2 DEF History!HNext
<1> QED
  BY <1>2, <1>3, ApplyReveals DEF Inv

LEMMA HistoryCommits ==
  ASSUME NEW i \in Ids, Written' = Written \/ Written' = Written \cup {i},
         UNCHANGED <<phase, seen>>
  PROVE  [History!HNext]_(History!hvars)
<1>1. CASE Written' = Written
  BY <1>1, HistoryStutters
<1>2. CASE Written' = Written \cup {i}
  BY <1>2 DEF History!HNext, History!Commit, Live
<1> QED
  BY <1>1, <1>2

LEMMA HistoryStep ==
  ASSUME Inv, Durable, [Next]_vars
  PROVE  [History!HNext]_(History!hvars)
<1>1. CASE Startup
  <2>1. Written' = Written
    BY <1>1, DiskStays DEF Startup, StartProcess, PrimeFile, StartBuild, BuildFile, EngineReady
  <2>2. CASE EngineReady
    <3>1. ~Live /\ Live' /\ seen' = seen /\ seen \subseteq Written
      BY <2>2 DEF EngineReady, Live, Durable, ProjectedIsWritten
    <3>2. History!Recover
      BY <2>1, <3>1 DEF History!Recover
    <3> QED
      BY <3>2 DEF History!HNext
  <2>3. CASE StartProcess \/ PrimeFile \/ StartBuild \/ BuildFile
    <3>1. ~Live /\ ~Live'
      BY <2>3 DEF StartProcess, PrimeFile, StartBuild, BuildFile, Live
    <3> QED
      BY <2>1, <3>1, HistoryHidden
  <2> QED
    BY <1>1, <2>2, <2>3 DEF Startup
<1>2. CASE Tailing
  <2>1. CASE TailProject
    <3> DEFINE d == First(todo)
               frame == IF Parses(d) THEN EventFrame(NextLine(d).id) ELSE Warning
    <3>1. frame \in Frames
      BY <2>1, LineInHand, FrameTypes DEF TailProject, Lines
    <3>2. frame.kind = "event" => frame.id \in Written
      BY <2>1, LineIsWritten DEF TailProject, EventFrame, Warning
    <3>3. Apply(frame)
      BY <2>1 DEF TailProject
    <3>4. Live
      BY <2>1 DEF TailProject, Inv, Discipline, Live, Looping
    <3> QED
      BY <2>1, <3>1, <3>2, <3>3, <3>4, HistoryReveals DEF TailProject
  <2>2. CASE TailTick \/ TailRead \/ TailNextFile \/ TailPollDone \/ TailAck \/ TailRetryLater
    <3>1. Written' = Written
      BY <2>2, DiskStays
         DEF TailTick, TailRead, TailNextFile, TailPollDone, TailAck, TailRetryLater
    <3> QED
      BY <2>2, <3>1, HistoryStutters
         DEF TailTick, TailRead, TailNextFile, TailPollDone, TailAck, TailRetryLater,
             ProjectFails
  <2> QED
    BY <1>2, <2>1, <2>2 DEF Tailing
<1>3. CASE Publish \/ IdleSweep \/ IdleDone
  <2>1. Written' = Written
    BY <1>3, DiskStays DEF Publish, IdleSweep, IdleDone
  <2> QED
    BY <1>3, <2>1, HistoryStutters DEF Publish, IdleSweep, IdleDone
<1>4. CASE StartRun \/ CancelRun \/ RunReturns
  <2>1. Written' = Written /\ seen' = seen /\ Live /\ Live'
    BY <1>4, DiskStays DEF StartRun, CancelRun, RunReturns, Live
  <2> QED
    BY <2>1 DEF History!hvars
<1>5. CASE \E a \in Admitters, i \in Ids : AdmitCall(a, i)
  <2>1. Written' = Written
    BY <1>5, DiskStays DEF AdmitCall
  <2> QED
    BY <1>5, <2>1, HistoryStutters DEF AdmitCall
<1>6. CASE \E a \in Admitters : Admission(a)
  <2>1. PICK a \in Admitters : Admission(a)
    BY <1>6
  <2>2. arg[a] \in Ids /\ Live
    BY <2>1 DEF Inv, Discipline, TypeOK, Admission, AdmitLock, AdmitRefuse,
                AdmitWriteFails, AdmitAppend, AdmitProject, AdmitDone
  <2>3. CASE AdmitLock(a) \/ AdmitRefuse(a) \/ AdmitDone(a)
    <3>1. Written' = Written
      BY <2>3, DiskStays DEF AdmitLock, AdmitRefuse, AdmitDone
    <3> QED
      BY <2>3, <3>1, HistoryStutters DEF AdmitLock, AdmitRefuse, AdmitDone
  <2>4. CASE AdmitWriteFails(a)
    BY <2>2, <2>4, TearKeeps, HistoryCommits DEF AdmitWriteFails, Inv
  <2>5. CASE AdmitAppend(a)
    BY <2>2, <2>5, WriteKeeps, HistoryCommits DEF AdmitAppend, Inv
  <2>6. CASE AdmitProject(a)
    <3>1. CASE ProjectFails
      BY <2>6, <3>1, DiskStays, HistoryStutters DEF AdmitProject, ProjectFails
    <3>2. CASE Apply(EventFrame(arg[a]))
      <4>1. EventFrame(arg[a]) \in Frames /\ EventFrame(arg[a]).id \in Written
        BY <2>2, <2>6, FrameTypes DEF AdmitProject, Durable, EventFrame
      <4> QED
        BY <2>2, <2>6, <3>2, <4>1, HistoryReveals DEF AdmitProject
    <3> QED
      BY <2>6, <3>1, <3>2 DEF AdmitProject
  <2> QED
    BY <2>1, <2>3, <2>4, <2>5, <2>6 DEF Admission
<1>7. CASE \E i \in Ids : OneShotAppend(i) \/ OneShotTear(i)
  <2>1. PICK i \in Ids : OneShotAppend(i) \/ OneShotTear(i)
    BY <1>7
  <2>2. Written' = Written \/ Written' = Written \cup {i}
    BY <2>1, WriteKeeps, TearKeeps DEF OneShotAppend, OneShotTear, Inv
  <2> QED
    BY <2>1, <2>2, HistoryCommits DEF OneShotAppend, OneShotTear
<1>8. CASE \E s \in Subs : Subscription(s)
  <2>1. Written' = Written
    BY <1>8, DiskStays DEF Subscription, Subscribe, Unsubscribe, Receive, Drop
  <2> QED
    BY <1>8, <2>1, HistoryStutters DEF Subscription, Subscribe, Unsubscribe, Receive, Drop
<1>9. CASE Crash
  <2>1. Written' = Written
    BY <1>9, DiskStays DEF Crash
  <2>2. ~Live'
    BY <1>9 DEF Crash, Volatile, Live
  <2>3. CASE Live
    BY <2>1, <2>2, <2>3 DEF History!HNext, History!Fail
  <2>4. CASE ~Live
    BY <2>1, <2>2, <2>4, HistoryHidden
  <2> QED
    BY <2>3, <2>4
<1>10. CASE \E a \in Admitters : CrashInWrite(a)
  <2>1. PICK a \in Admitters : CrashInWrite(a)
    BY <1>10
  <2>2. arg[a] \in Ids /\ Live
    BY <2>1 DEF CrashInWrite, Inv, Discipline
  <2>3. Written' = Written \/ Written' = Written \cup {arg[a]}
    BY <2>1, <2>2, TearKeeps DEF CrashInWrite, Inv
  <2>4. ~Live'
    BY <2>1 DEF CrashInWrite, Volatile, Live
  <2>5. History!Fail
    BY <2>2, <2>3, <2>4 DEF History!Fail
  <2> QED
    BY <2>5 DEF History!HNext
<1>11. CASE UNCHANGED vars
  BY <1>11, DiskStays, HistoryStutters DEF vars
<1> QED
  BY <1>1, <1>2, <1>3, <1>4, <1>5, <1>6, <1>7, <1>8, <1>9, <1>10, <1>11 DEF Next

\* Under locks, scans, crashes and writes cut short, queries still see what
\* CapturedHistory says: committed events only, none lost while a process lives.
THEOREM HistoryRefined == Spec => ImplementsHistory
<1>1. Init => History!HInit
  BY DEF Init, History!HInit, Live, Written, Holds
<1>2. Init => Durable
  BY NoFrames DEF Init, Durable, ProjectedIsWritten
<1>3. Inv /\ Durable /\ [Next]_vars => Durable'
  BY DurableStep
<1>4. Inv /\ Durable /\ [Next]_vars => [History!HNext]_(History!hvars)
  BY HistoryStep
<1> QED
  BY <1>1, <1>2, <1>3, <1>4, Invariance, PTL
     DEF Spec, ImplementsHistory, History!HSpec

----------------------------------------------------------------------------
(* Start-up and reconciliation leave no hole: every intact record behind  *)
(* the offset of the tailer has been projected by this process.            *)

\* An offset stays within its file, and what it skips of the next line are
\* bytes that were in the file when it was pinned.
OffsetBound ==
  \A d \in Days :
    /\ offset[d] <= Len(spool[d])
    /\ Unread(d) => skip[d] <= Len(NextLine(d).head)
    /\ ~Unread(d) => skip[d] <= Len(tail[d])

Behind(d) ==
  \A n \in 1..offset[d] : spool[d][n].head = <<>> => spool[d][n].id \in seen

\* Build catches up file by file with what Prime passed over, and the record
\* that the tailer is about to acknowledge has been projected.
Recovered ==
  /\ OffsetBound
  /\ Live => \A d \in Days : Behind(d)
  /\ phase = "build" => \A d \in Days \ todo : Behind(d)
  /\ (tpc = "publishing" /\ Parses(First(todo))) => NextLine(First(todo)).id \in seen

\* Lines on disk never change.
LinesKept ==
  \A d \in Days : \A n \in DOMAIN spool[d] :
    n \in DOMAIN spool'[d] /\ spool'[d][n] = spool[d][n]

LEMMA WriteOffsets ==
  ASSUME Inv, OffsetBound, NEW i \in Ids, WriteLine(i), UNCHANGED <<offset, skip>>
  PROVE  OffsetBound' /\ LinesKept
<1> DEFINE d == DayOf[i]
           line == [head |-> tail[d], id |-> i]
<1>1. d \in Days /\ line \in Lines
  BY DayOfType DEF Inv, TypeOK, Lines
<1>2. /\ spool' = [spool EXCEPT ![d] = Append(@, line)]
      /\ tail' = [tail EXCEPT ![d] = <<>>]
  BY DEF WriteLine
<1>3. spool[d] \in Seq(Lines) /\ tail[d] \in Seq(Pieces)
  BY <1>1 DEF Inv, TypeOK
<1>4. spool'[d] = Append(spool[d], line)
  BY <1>1, <1>2 DEF Inv, TypeOK
<1>5. /\ Len(spool'[d]) = Len(spool[d]) + 1
      /\ spool'[d][Len(spool[d]) + 1] = line
      /\ \A n \in DOMAIN spool[d] : n \in DOMAIN spool'[d] /\ spool'[d][n] = spool[d][n]
  BY <1>1, <1>3, <1>4
<1>6. LinesKept
  BY <1>1, <1>2, <1>5 DEF LinesKept, Inv, TypeOK
<1>7. ASSUME NEW e \in Days
      PROVE  /\ offset'[e] <= Len(spool'[e])
             /\ Unread(e)' => skip'[e] <= Len(NextLine(e)'.head)
             /\ ~Unread(e)' => skip'[e] <= Len(tail'[e])
  <2>1. CASE e # d
    <3>1. spool'[e] = spool[e] /\ tail'[e] = tail[e]
      BY <1>2, <2>1 DEF Inv, TypeOK
    <3> QED
      BY <3>1 DEF OffsetBound, Unread, NextLine
  <2>2. CASE e = d
    <3>1. offset[d] \in Nat /\ skip[d] \in Nat /\ Len(spool[d]) \in Nat
      BY <1>1, <1>3 DEF Inv, TypeOK
    <3>2. offset[d] <= Len(spool[d])
      BY <1>1 DEF OffsetBound
    <3>3. Unread(d)'
      BY <1>5, <3>1, <3>2 DEF Unread
    <3>4. CASE Unread(d)
      <4>1. offset[d] + 1 \in DOMAIN spool[d]
        BY <1>3, <3>1, <3>4 DEF Unread
      <4>2. NextLine(d)' = NextLine(d)
        BY <1>5, <4>1 DEF NextLine
      <4> QED
        BY <1>1, <1>5, <2>2, <3>1, <3>2, <3>3, <3>4, <4>2 DEF OffsetBound
    <3>5. CASE ~Unread(d)
      <4>1. offset[d] = Len(spool[d])
        BY <3>1, <3>2, <3>5 DEF Unread
      <4>2. NextLine(d)' = line
        BY <1>5, <4>1 DEF NextLine
      <4> QED
        BY <1>1, <1>5, <2>2, <3>1, <3>2, <3>3, <3>5, <4>2 DEF OffsetBound
    <3> QED
      BY <3>4, <3>5
  <2> QED
    BY <2>1, <2>2
<1> QED
  BY <1>6, <1>7 DEF OffsetBound

LEMMA TearOffsets ==
  ASSUME Inv, OffsetBound, NEW i \in Ids, TearLine(i), UNCHANGED <<offset, skip>>
  PROVE  OffsetBound' /\ LinesKept
<1> DEFINE d == DayOf[i]
<1>1. d \in Days
  BY DayOfType
<1>2. PICK piece \in {Fragment, i} : tail' = [tail EXCEPT ![d] = Append(@, piece)]
  BY DEF TearLine
<1>3. tail[d] \in Seq(Pieces) /\ piece \in Pieces
  BY <1>1 DEF Inv, TypeOK, Pieces
<1>4. spool' = spool
  BY DEF TearLine
<1>5. Len(tail'[d]) = Len(tail[d]) + 1
  BY <1>1, <1>2, <1>3 DEF Inv, TypeOK
<1>6. \A e \in Days : Len(tail[e]) <= Len(tail'[e]) /\ Len(tail[e]) \in Nat /\ Len(tail'[e]) \in Nat
  <2>1. ASSUME NEW e \in Days, e # d PROVE tail'[e] = tail[e]
    BY <1>2, <2>1 DEF Inv, TypeOK
  <2>2. \A e \in Days : Len(tail[e]) \in Nat
    BY DEF Inv, TypeOK
  <2> QED
    BY <1>1, <1>5, <2>1, <2>2
<1>7. \A e \in Days : skip[e] \in Nat
  BY DEF Inv, TypeOK
<1> QED
  BY <1>4, <1>6, <1>7 DEF OffsetBound, LinesKept, Unread, NextLine

\* Longer files and a larger projection keep what was behind an offset behind.
LEMMA BehindStays ==
  ASSUME Inv, OffsetBound, LinesKept, seen \subseteq seen', UNCHANGED offset,
         NEW d \in Days, Behind(d)
  PROVE  Behind(d)'
<1>1. ASSUME NEW n \in 1..offset[d]
      PROVE  n \in DOMAIN spool[d]
  BY DEF OffsetBound, Inv, TypeOK
<1> QED
  BY <1>1 DEF Behind, LinesKept

\* Steps that leave the tailer alone keep the invariant.
LEMMA RecoveredStays ==
  ASSUME Inv, Recovered, OffsetBound', LinesKept, seen \subseteq seen',
         UNCHANGED <<phase, todo, offset, skip, tpc>>
  PROVE  Recovered'
<1>1. Live' => \A d \in Days : Behind(d)'
  BY BehindStays DEF Recovered, Live
<1>2. phase' = "build" => \A d \in Days \ todo' : Behind(d)'
  BY BehindStays DEF Recovered
<1>3. ASSUME tpc' = "publishing", Parses(First(todo))'
      PROVE  NextLine(First(todo))'.id \in seen'
  <2>1. First(todo) \in Days /\ Unread(First(todo))
    BY <1>3, LineInHand
  <2>2. offset[First(todo)] + 1 \in DOMAIN spool[First(todo)]
    BY <2>1 DEF Unread, Inv, TypeOK
  <2>3. NextLine(First(todo))' = NextLine(First(todo)) /\ First(todo)' = First(todo)
    BY <2>1, <2>2 DEF NextLine, LinesKept
  <2>4. Parses(First(todo))
    BY <1>3, <2>3 DEF Parses
  <2> QED
    BY <1>3, <2>3, <2>4 DEF Recovered
<1> QED
  BY <1>1, <1>2, <1>3 DEF Recovered

LEMMA SpoolStays ==
  ASSUME Recovered, UNCHANGED <<spool, tail, offset, skip>>
  PROVE  OffsetBound' /\ LinesKept
BY DEF Recovered, OffsetBound, LinesKept, Unread, NextLine

LEMMA RecoveredStartup == ASSUME Inv, Recovered, Startup PROVE Recovered'
<1>1. /\ UNCHANGED <<spool, tail, tpc>> /\ tpc = "idle"
  BY DEF Startup, StartProcess, PrimeFile, StartBuild, BuildFile, EngineReady,
         Inv, Discipline, Looping
<1>2. CASE StartProcess
  BY <1>1, <1>2, SpoolStays DEF StartProcess, Recovered, Live
<1>3. CASE PrimeFile
  <2> DEFINE d == First(todo)
  <2>1. d \in Days
    BY <1>3, FirstMember DEF PrimeFile, Inv, TypeOK
  <2>2. /\ offset' = [offset EXCEPT ![d] = Len(spool[d])]
        /\ skip' = [skip EXCEPT ![d] = Len(tail[d])]
        /\ UNCHANGED <<spool, tail>>
    BY <1>3 DEF PrimeFile
  <2>3. ~Live' /\ phase' # "build"
    BY <1>3 DEF PrimeFile, Live
  <2>4. Len(spool[d]) \in Nat /\ Len(tail[d]) \in Nat
    BY <2>1 DEF Inv, TypeOK
  <2>5. OffsetBound'
    BY <2>1, <2>2, <2>4, SMTT(20) DEF Recovered, OffsetBound, Unread, NextLine, Inv, TypeOK
  <2> QED
    BY <1>1, <2>3, <2>5 DEF Recovered
<1>4. CASE StartBuild
  <2>1. OffsetBound' /\ ~Live' /\ phase' = "build" /\ todo' = Files
    BY <1>4, SpoolStays DEF StartBuild, Live
  <2>2. ASSUME NEW d \in Days, d \notin Files PROVE Behind(d)'
    <3>1. Len(spool[d]) = 0
      BY <2>2 DEF Files, Exists
    <3>2. offset[d] = 0
      BY <3>1 DEF Recovered, OffsetBound, Inv, TypeOK
    <3> QED
      BY <1>4, <3>2 DEF StartBuild, Behind
  <2> QED
    BY <1>1, <2>1, <2>2 DEF Recovered
<1>5. CASE BuildFile
  <2>1. PICK d \in Days : d = First(todo)
    BY <1>5, FirstMember DEF BuildFile, Inv, TypeOK
  <2>2. OffsetBound' /\ LinesKept /\ seen \subseteq seen' /\ ~Live' /\ offset' = offset
        /\ todo' = todo \ {d} /\ seen' = seen \cup SnapshotIds(d) /\ phase = "build"
    BY <1>5, <2>1, SpoolStays DEF BuildFile, Live
  <2>3. Behind(d)'
    <3>1. ASSUME NEW n \in 1..offset[d], spool[d][n].head = <<>>
          PROVE  spool[d][n].id \in seen'
      <4>1. n \in DOMAIN spool[d]
        BY <2>1 DEF Recovered, OffsetBound, Inv, TypeOK
      <4> QED
        BY <2>2, <3>1, <4>1 DEF SnapshotIds
    <3> QED
      BY <1>1, <2>2, <3>1 DEF Behind
  <2>4. \A e \in Days \ todo : Behind(e)'
    BY <2>2, BehindStays DEF Recovered
  <2> QED
    BY <1>1, <2>2, <2>3, <2>4 DEF Recovered
<1>6. CASE EngineReady
  <2>1. OffsetBound' /\ phase = "build" /\ phase' = "ready" /\ todo = {}
    BY <1>6, SpoolStays DEF EngineReady
  <2>2. \A d \in Days : Behind(d)'
    BY <1>6, <2>1 DEF EngineReady, Recovered, Behind
  <2> QED
    BY <1>1, <2>1, <2>2 DEF Recovered
<1> QED
  BY <1>2, <1>3, <1>4, <1>5, <1>6 DEF Startup

LEMMA RecoveredTailing == ASSUME Inv, Recovered, Tailing PROVE Recovered'
<1>1. Live /\ Live' /\ phase' = phase /\ phase # "build"
  BY DEF Tailing, TailTick, TailRead, TailNextFile, TailPollDone, TailProject,
         TailAck, TailRetryLater, Inv, Discipline, Live, Looping
<1>2. UNCHANGED <<spool, tail>>
  BY DEF Tailing, TailTick, TailRead, TailNextFile, TailPollDone, TailProject,
         TailAck, TailRetryLater
<1>3. CASE TailTick \/ TailRead \/ TailNextFile \/ TailPollDone \/ TailRetryLater
  <2>1. UNCHANGED <<offset, skip, seen>> /\ tpc' # "publishing"
    BY <1>3 DEF TailTick, TailRead, TailNextFile, TailPollDone, TailRetryLater, ProjectFails
  <2>2. OffsetBound' /\ \A d \in Days : Behind(d)'
    BY <1>1, <1>2, <2>1, SpoolStays DEF Recovered, Behind
  <2> QED
    BY <1>1, <2>1, <2>2 DEF Recovered
<1>4. CASE TailProject
  <2> DEFINE d == First(todo)
             frame == IF Parses(d) THEN EventFrame(NextLine(d).id) ELSE Warning
  <2>1. frame \in Frames /\ d \in Days
    BY <1>4, LineInHand, FrameTypes DEF TailProject, Lines
  <2>2. Apply(frame) /\ UNCHANGED <<offset, skip, todo>>
    BY <1>4 DEF TailProject
  <2>3. seen \subseteq seen' /\ (frame.kind = "event" => frame.id \in seen')
    BY <2>1, <2>2, ApplyReveals DEF Inv
  <2>4. OffsetBound' /\ LinesKept
    BY <1>2, <2>2, SpoolStays
  <2>5. \A e \in Days : Behind(e)'
    BY <1>1, <2>2, <2>3, <2>4, BehindStays DEF Recovered
  <2>6. Parses(d)' => NextLine(d)'.id \in seen'
    BY <1>2, <2>2, <2>3 DEF Parses, NextLine, EventFrame
  <2> QED
    BY <1>1, <2>2, <2>4, <2>5, <2>6 DEF Recovered
<1>5. CASE TailAck
  <2>0. PICK d \in Days : d = First(todo)
    BY <1>5, LineInHand DEF TailAck
  <2>1. d \in Days /\ Unread(d) /\ NextLine(d) \in Lines
    BY <1>5, <2>0, LineInHand DEF TailAck
  <2>2. /\ offset' = [offset EXCEPT ![d] = @ + 1] /\ skip' = [skip EXCEPT ![d] = 0]
        /\ seen' = seen /\ tpc = "publishing" /\ tpc' = "polling"
    BY <1>5, <2>0 DEF TailAck
  <2>3. /\ offset[d] \in Nat /\ Len(spool[d]) \in Nat /\ offset[d] < Len(spool[d])
        /\ offset'[d] = offset[d] + 1 /\ skip'[d] = 0
    BY <2>1, <2>2 DEF Inv, TypeOK, Unread
  <2>4. NextLine(d).head = <<>> => NextLine(d).id \in seen
    <3>1. ASSUME NextLine(d).head = <<>> PROVE Parses(d)
      BY <2>1, <3>1 DEF Recovered, OffsetBound, Parses, Inv, TypeOK
    <3> QED
      BY <2>0, <2>2, <3>1 DEF Recovered
  <2>5. Behind(d)'
    <3>1. \A n \in 1..offset[d] : spool[d][n].head = <<>> => spool[d][n].id \in seen
      BY <1>1, <2>1 DEF Recovered, Behind
    <3>2. \A n \in 1..(offset[d] + 1) : n \in 1..offset[d] \/ n = offset[d] + 1
      BY <2>3
    <3>3. \A n \in 1..(offset[d] + 1) : spool[d][n].head = <<>> => spool[d][n].id \in seen
      BY <2>4, <3>1, <3>2 DEF NextLine
    <3> QED
      BY <1>2, <2>2, <2>3, <3>3 DEF Behind
  <2>6. \A e \in Days : e # d => offset'[e] = offset[e] /\ skip'[e] = skip[e]
    BY <2>2 DEF Inv, TypeOK
  <2>7. \A e \in Days : Behind(e)'
    <3>1. ASSUME NEW e \in Days, e # d PROVE Behind(e)'
      BY <1>1, <1>2, <2>2, <2>6, <3>1 DEF Recovered, Behind
    <3> QED
      BY <2>5, <3>1
  <2>8. OffsetBound'
    <3>1. ASSUME NEW e \in Days
          PROVE  /\ offset'[e] <= Len(spool'[e])
                 /\ Unread(e)' => skip'[e] <= Len(NextLine(e)'.head)
                 /\ ~Unread(e)' => skip'[e] <= Len(tail'[e])
      <4>1. CASE e # d
        BY <1>2, <2>6, <4>1 DEF Recovered, OffsetBound, Unread, NextLine
      <4>2. CASE e = d
        <5>1. offset'[d] <= Len(spool'[d])
          BY <1>2, <2>3
        <5>2. Len(tail'[d]) \in Nat
          BY <1>2, <2>1 DEF Inv, TypeOK
        <5>3. Unread(d)' => Len(NextLine(d)'.head) \in Nat
          <6>0. spool[d] \in Seq(Lines) /\ DOMAIN spool[d] = 1..Len(spool[d])
            BY <2>1 DEF Inv, TypeOK
          <6>1. ASSUME Unread(d)' PROVE offset[d] + 2 \in DOMAIN spool[d]
            <7>1. offset[d] + 1 < Len(spool[d])
              BY <1>2, <2>3, <6>1 DEF Unread
            <7> QED
              BY <2>3, <6>0, <7>1
          <6>2. ASSUME Unread(d)' PROVE spool[d][offset[d] + 2] \in Lines
            BY <6>0, <6>1, <6>2
          <6>3. NextLine(d)' = spool[d][offset[d] + 2]
            <7>1. offset'[d] + 1 = offset[d] + 2
              BY <2>3
            <7> QED
              BY <1>2, <7>1 DEF NextLine
          <6> QED
            BY <6>2, <6>3 DEF Lines
        <5> QED
          BY <2>3, <4>2, <5>1, <5>2, <5>3
      <4> QED
        BY <4>1, <4>2
    <3> QED
      BY <3>1 DEF OffsetBound
  <2> QED
    BY <1>1, <2>2, <2>7, <2>8 DEF Recovered
<1> QED
  BY <1>3, <1>4, <1>5 DEF Tailing

LEMMA RecoveredVolatile ==
  ASSUME Inv, NEW b, Volatile(b),
         spool' \in [Days -> Seq(Lines)], tail' \in [Days -> Seq(Pieces)]
  PROVE  Recovered'
<1>1. \A d \in Days : /\ offset'[d] = 0 /\ skip'[d] = 0
                      /\ Len(spool'[d]) \in Nat /\ Len(tail'[d]) \in Nat
  BY DEF Volatile
<1>2. ASSUME NEW d \in Days, Unread(d)' PROVE Len(NextLine(d)'.head) \in Nat
  <2>1. spool'[d] \in Seq(Lines) /\ 1 \in 1..Len(spool'[d])
    BY <1>1, <1>2 DEF Unread
  <2>2. spool'[d][1] \in Lines
    BY <2>1
  <2> QED
    BY <1>1, <2>2 DEF NextLine, Lines
<1>3. OffsetBound'
  BY <1>1, <1>2 DEF OffsetBound
<1> QED
  BY <1>3 DEF Volatile, Recovered, Live

LEMMA RecoveredStep == ASSUME Inv, Recovered, [Next]_vars PROVE Recovered'
<1>1. CASE Startup
  BY <1>1, RecoveredStartup
<1>2. CASE Tailing
  BY <1>2, RecoveredTailing
<1>3. CASE Publish \/ IdleSweep \/ IdleDone
  BY <1>3, SpoolStays, RecoveredStays DEF Publish, IdleSweep, IdleDone
<1>4. CASE StartRun \/ CancelRun \/ RunReturns
  <2>1. UNCHANGED <<spool, tail, todo, offset, skip, seen, tpc>> /\ Live /\ phase' # "build"
    BY <1>4 DEF StartRun, CancelRun, RunReturns, Live
  <2>2. OffsetBound' /\ \A d \in Days : Behind(d)'
    BY <2>1, SpoolStays DEF Recovered, Behind
  <2> QED
    BY <2>1, <2>2 DEF Recovered, Parses, NextLine
<1>5. CASE \E a \in Admitters, i \in Ids : AdmitCall(a, i)
  BY <1>5, SpoolStays, RecoveredStays DEF AdmitCall
<1>6. CASE \E a \in Admitters : Admission(a)
  <2>1. PICK a \in Admitters : Admission(a)
    BY <1>6
  <2>2. arg[a] \in Ids
    BY <2>1 DEF Inv, Discipline, TypeOK, Admission, AdmitLock, AdmitRefuse,
                AdmitWriteFails, AdmitAppend, AdmitProject, AdmitDone
  <2>3. UNCHANGED <<phase, todo, offset, skip, tpc>>
    BY <2>1 DEF Admission, AdmitLock, AdmitRefuse, AdmitWriteFails, AdmitAppend,
                AdmitProject, AdmitDone
  <2>4. OffsetBound' /\ LinesKept
    <3>1. CASE AdmitAppend(a)
      BY <2>2, <2>3, <3>1, WriteOffsets DEF AdmitAppend, Recovered
    <3>2. CASE AdmitWriteFails(a)
      BY <2>2, <2>3, <3>2, TearOffsets DEF AdmitWriteFails, Recovered
    <3>3. CASE AdmitLock(a) \/ AdmitRefuse(a) \/ AdmitProject(a) \/ AdmitDone(a)
      BY <3>3, SpoolStays DEF AdmitLock, AdmitRefuse, AdmitProject, AdmitDone
    <3> QED
      BY <2>1, <3>1, <3>2, <3>3 DEF Admission
  <2>5. seen \subseteq seen'
    <3>1. CASE AdmitProject(a)
      <4>1. EventFrame(arg[a]) \in Frames
        BY <2>2, FrameTypes
      <4> QED
        BY <3>1, <4>1, ApplyReveals DEF AdmitProject, ProjectFails, Inv
    <3>2. CASE AdmitLock(a) \/ AdmitRefuse(a) \/ AdmitWriteFails(a) \/ AdmitAppend(a)
                 \/ AdmitDone(a)
      BY <3>2 DEF AdmitLock, AdmitRefuse, AdmitWriteFails, AdmitAppend, AdmitDone
    <3> QED
      BY <2>1, <3>1, <3>2 DEF Admission
  <2> QED
    BY <2>3, <2>4, <2>5, RecoveredStays
<1>7. CASE \E i \in Ids : OneShotAppend(i) \/ OneShotTear(i)
  <2>1. PICK i \in Ids : OneShotAppend(i) \/ OneShotTear(i)
    BY <1>7
  <2>2. OffsetBound' /\ LinesKept
    BY <2>1, WriteOffsets, TearOffsets DEF OneShotAppend, OneShotTear, Recovered
  <2> QED
    BY <2>1, <2>2, RecoveredStays DEF OneShotAppend, OneShotTear
<1>8. CASE \E s \in Subs : Subscription(s)
  BY <1>8, SpoolStays, RecoveredStays DEF Subscription, Subscribe, Unsubscribe, Receive, Drop
<1>9. CASE Crash
  BY <1>9, RecoveredVolatile DEF Crash, Inv, TypeOK
<1>10. CASE \E a \in Admitters : CrashInWrite(a)
  <2>1. PICK a \in Admitters : CrashInWrite(a)
    BY <1>10
  <2>2. arg[a] \in Ids
    BY <2>1 DEF CrashInWrite, Inv, Discipline
  <2>3. spool' \in [Days -> Seq(Lines)] /\ tail' \in [Days -> Seq(Pieces)]
    BY <2>1, <2>2, TearLineType DEF CrashInWrite, Inv
  <2> QED
    BY <2>1, <2>3, RecoveredVolatile DEF CrashInWrite
<1>11. CASE UNCHANGED vars
  BY <1>11, SpoolStays, RecoveredStays DEF vars
<1> QED
  BY <1>1, <1>2, <1>3, <1>4, <1>5, <1>6, <1>7, <1>8, <1>9, <1>10, <1>11 DEF Next

\* Prime before Build, acknowledge after projecting: a running engine has
\* projected every intact record behind its offsets, whatever other processes
\* appended between any two steps of its start-up.
THEOREM NoRecordSkipped == Spec => []NoSkippedRecord
<1>1. Init => Recovered
  BY DEF Init, Recovered, OffsetBound, Unread, Live
<1>2. Inv /\ Recovered /\ [Next]_vars => Recovered'
  BY RecoveredStep
<1>3. Recovered => NoSkippedRecord
  BY DEF Recovered, Behind, NoSkippedRecord
<1> QED
  BY <1>1, <1>2, <1>3, Invariance, PTL DEF Spec
=============================================================================
