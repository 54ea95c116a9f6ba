------------------------ MODULE MCDesktopShellProofs ------------------------
(***************************************************************************)
(* Proofs about the machines of MCDesktopShell, for any choice of them and *)
(* any bounds: what the feed shows, what the scope names, what is removed  *)
(* and what is notified.  A section for each machine proves an inductive   *)
(* invariant of it; the last one puts them together.                       *)
(***************************************************************************)
EXTENDS MCDesktopShell, Sequences, FiniteSetTheorems, TLAPS

\* The cells by the names that the machines know them by; those of several machines first.
scope == x4
budget == x20
status == x13

----------------------------------------------------------------------------
(* The live feed.                                                          *)

log == x1
link == x2
wire == x3
held == x4
pc == x5
limit == x6
reconnecting == x7
streamFailed == x8
history == x9
pending == x10
queue == x11
reconciled == x12
buf == x14
paused == x15
frozen == x16
arrived == x17
beyond == x18
disturbed == x19
USE DEF log, link, wire, held, pc, limit, reconnecting, streamFailed, history, pending, queue,
        reconciled, buf, paused, frozen, arrived, beyond, disturbed, budget, status

Holds(s, e) == \E n \in 1..Len(s) : s[n] = e
\* Increasing, said so that the distance of the places bounds that of the events.
Spaced(s) == \A i, j \in 1..Len(s) : i <= j => s[i] + (j - i) <= s[j]

\* An open or awaited stream is held; LIVE is shown while one is, or one is being opened.
FeedHeld ==
  /\ held = (link # "none")
  /\ link \in {"none", "connecting"} => wire = <<>>
  /\ pc = "history" => link = "none"
  /\ status = "ok" => held \/ pc \in {"health", "history"}

\* What arrived is the end of the buffer, and the rest of it is frozen.
FeedRing ==
  /\ Len(buf) <= Ring /\ \A i, j \in 1..Len(buf) : buf[i] = buf[j] => i = j
  /\ Len(arrived) <= Ring
  /\ paused => /\ Len(arrived) <= Len(buf)
               /\ \A i \in 1..Len(arrived) : arrived[i] = buf[Len(buf) - Len(arrived) + i]
               /\ \A i \in 1..(Len(buf) - Len(arrived)) : Holds(frozen, buf[i])

LEMMA FeedConstants ==
  /\ Ring \in Nat /\ Ring >= 1 /\ FirstLimit \in Nat /\ FirstLimit >= 1 /\ ReplayLimit \in Nat /\ ReplayLimit >= 1
  /\ Frames \in Nat /\ MaxLog \in Nat /\ MaxBreaks \in Nat /\ MaxFails \in Nat
BY ShellAssumption

LEMMA EventOf ==
  /\ \A e \in Feed!Event : e \in Nat /\ e >= 1
  /\ \A s \in Seq(Feed!Event) : \A i \in 1..Len(s) : s[i] \in Feed!Event /\ s[i] \in Nat
<1>1. \A e \in Feed!Event : e \in Nat /\ e >= 1
  BY DEF Feed!Event
<1>2. \A s \in Seq(Feed!Event) : \A i \in 1..Len(s) : s[i] \in Feed!Event
  OBVIOUS
<1> QED
  BY <1>1, <1>2

LEMMA ElementsHeld ==
  ASSUME NEW s \in Seq(Feed!Event), NEW e
  PROVE  e \in Feed!Elements(s) <=> Holds(s, e)
BY DEF Feed!Elements, Holds

\* The newest n events of the log.
LEMMA RecentRead ==
  ASSUME log \in 0..MaxLog, NEW n \in Nat
  PROVE  /\ Feed!Recent(n) \in Seq(Feed!Event) /\ Spaced(Feed!Recent(n))
         /\ \A e \in Feed!Event : Holds(Feed!Recent(n), e) <=> e <= log /\ e + n > log
<1> DEFINE first == IF log > n THEN log - n ELSE 0
<1>1. first \in Nat /\ first <= log /\ log \in Nat /\ MaxLog \in Nat /\ log <= MaxLog
  BY FeedConstants
<1>2. Feed!Recent(n) = [i \in 1..(log - first) |-> first + i]
  BY DEF Feed!Recent
<1>3. \A i \in 1..(log - first) : first + i \in Feed!Event
  BY <1>1 DEF Feed!Event
<1>4. Feed!Recent(n) \in Seq(Feed!Event) /\ Len(Feed!Recent(n)) = log - first
  BY <1>1, <1>2, <1>3
<1>5. \A i \in 1..(log - first) : Feed!Recent(n)[i] = first + i
  BY <1>2
<1>6. Spaced(Feed!Recent(n))
  BY <1>1, <1>4, <1>5 DEF Spaced
<1>7. ASSUME NEW e \in Feed!Event, Holds(Feed!Recent(n), e)
      PROVE  e <= log /\ e + n > log
  BY <1>1, <1>4, <1>5, <1>7 DEF Holds
<1>8. ASSUME NEW e \in Feed!Event, e <= log, e + n > log
      PROVE  Holds(Feed!Recent(n), e)
  <2>1. e - first \in 1..(log - first)
    BY <1>1, <1>8 DEF Feed!Event
  <2>2. Feed!Recent(n)[e - first] = e
    BY <1>1, <1>5, <2>1 DEF Feed!Event
  <2> QED
    BY <1>4, <2>1, <2>2 DEF Holds
<1> QED
  BY <1>4, <1>6, <1>7, <1>8

\* What a bounded list holds after one more.
LEMMA BoundedList ==
  ASSUME NEW s \in Seq(Feed!Event), NEW e \in Feed!Event, NEW n \in Nat \ {0}
  PROVE  LET b == Feed!Bounded(s, e, n)
         IN /\ b \in Seq(Feed!Event)
            /\ Len(s) < n => /\ Len(b) = Len(s) + 1 /\ b[Len(s) + 1] = e
                             /\ \A i \in 1..Len(s) : b[i] = s[i]
            /\ Len(s) = n => /\ Len(b) = n /\ b[n] = e
                             /\ \A i \in 1..(n - 1) : b[i] = s[i + 1]
<1> DEFINE a == Append(s, e)
<1>1. /\ a \in Seq(Feed!Event) /\ Len(a) = Len(s) + 1 /\ Len(s) \in Nat
      /\ \A i \in 1..Len(s) : a[i] = s[i]
  OBVIOUS
<1>2. a # <<>>
  BY <1>1
<1>3. Tail(a) \in Seq(Feed!Event) /\ Len(Tail(a)) = Len(s) /\ \A i \in 1..Len(s) : Tail(a)[i] = a[i + 1]
  BY <1>1, <1>2
<1> HIDE DEF a
<1>4. CASE Len(s) < n
  <2>1. Feed!Bounded(s, e, n) = a
    BY <1>4 DEF Feed!Bounded, a
  <2>2. a[Len(s) + 1] = e
    BY <1>1 DEF a
  <2> QED
    BY <1>1, <1>4, <2>1, <2>2
<1>5. CASE ~(Len(s) < n)
  <2>1. Feed!Bounded(s, e, n) = Tail(a)
    BY <1>5 DEF Feed!Bounded, a
  <2>2. a[Len(s) + 1] = e
    BY <1>1 DEF a
  <2>3. ASSUME Len(s) = n
        PROVE  Tail(a)[n] = e /\ \A i \in 1..(n - 1) : Tail(a)[i] = s[i + 1]
    BY <1>1, <1>3, <2>2, <2>3
  <2> QED
    BY <1>1, <1>3, <1>5, <2>1, <2>3
<1> QED
  BY <1>4, <1>5

LEMMA BoundedRoom ==
  ASSUME NEW s \in Seq(Feed!Event), NEW e \in Feed!Event, NEW n \in Nat \ {0}, Len(s) < n
  PROVE  /\ Len(Feed!Bounded(s, e, n)) = Len(s) + 1 /\ Feed!Bounded(s, e, n)[Len(s) + 1] = e
         /\ \A i \in 1..Len(s) : Feed!Bounded(s, e, n)[i] = s[i]
<1>1. Feed!Bounded(s, e, n) = Append(s, e)
  BY DEF Feed!Bounded
<1>2. Len(Append(s, e)) = Len(s) + 1 /\ Append(s, e)[Len(s) + 1] = e
  OBVIOUS
<1>3. \A i \in 1..Len(s) : Append(s, e)[i] = s[i]
  OBVIOUS
<1> QED
  BY <1>1, <1>2, <1>3, Zenon

LEMMA BoundedFull ==
  ASSUME NEW s \in Seq(Feed!Event), NEW e \in Feed!Event, NEW n \in Nat \ {0}, Len(s) = n
  PROVE  /\ Len(Feed!Bounded(s, e, n)) = n /\ Feed!Bounded(s, e, n)[n] = e
         /\ \A i \in 1..(n - 1) : Feed!Bounded(s, e, n)[i] = s[i + 1]
<1> DEFINE a == Append(s, e)
<1>1. Feed!Bounded(s, e, n) = Tail(a)
  BY DEF Feed!Bounded
<1>2. /\ a \in Seq(Feed!Event) /\ a # <<>> /\ Len(a) = n + 1 /\ a[n + 1] = e
      /\ \A i \in 1..n : a[i] = s[i]
  OBVIOUS
<1> HIDE DEF a
<1>3. Len(Tail(a)) = n /\ \A i \in 1..n : Tail(a)[i] = a[i + 1]
  BY <1>2
<1> QED
  BY <1>1, <1>2, <1>3

LEMMA FeedTypes ==
  ASSUME Feed!TypeOK, Feed!Next
  PROVE  Feed!TypeOK'
<1> USE FeedConstants
<1>1. Feed!Recent(limit) \in Seq(Feed!Event)
  BY RecentRead DEF Feed!TypeOK
<1>2. \A e \in Feed!Event : /\ Feed!Bounded(buf, e, Ring) \in Seq(Feed!Event)
                            /\ Feed!Bounded(arrived, e, Ring) \in Seq(Feed!Event)
                            /\ Feed!Bounded(pending, e, ReplayLimit) \in Seq(Feed!Event)
  <2>1. Ring \in Nat \ {0} /\ ReplayLimit \in Nat \ {0}
    OBVIOUS
  <2>2. buf \in Seq(Feed!Event) /\ arrived \in Seq(Feed!Event) /\ pending \in Seq(Feed!Event)
    BY DEF Feed!TypeOK
  <2> QED
    BY <2>1, <2>2, BoundedList
<1>3. ASSUME NEW e \in Feed!Event, Feed!Push(e)
      PROVE  buf' \in Seq(Feed!Event) /\ arrived' \in Seq(Feed!Event) /\ paused' \in BOOLEAN /\ frozen' \in Seq(Feed!Event)
  <2>1. CASE UNCHANGED Feed!feed
    BY <2>1 DEF Feed!TypeOK, Feed!feed
  <2>2. CASE ~(UNCHANGED Feed!feed)
    <3>1. /\ buf' = Feed!Bounded(buf, e, Ring)
          /\ arrived' = IF paused THEN Feed!Bounded(arrived, e, Ring) ELSE arrived
          /\ UNCHANGED <<paused, frozen>>
      BY <1>3, <2>2 DEF Feed!Push
    <3> QED
      BY <1>2, <3>1 DEF Feed!TypeOK
  <2> QED
    BY <2>1, <2>2
<1>4. CASE Feed!Emit
  <2>1. log + 1 \in Feed!Event /\ log' \in 0..MaxLog
    BY <1>4 DEF Feed!Emit, Feed!TypeOK, Feed!Event
  <2>2. wire' \in Seq(Feed!Event)
    <3>1. wire' = wire \/ wire' = Append(wire, log + 1)
      BY <1>4 DEF Feed!Emit
    <3>2. wire \in Seq(Feed!Event)
      BY DEF Feed!TypeOK
    <3>3. Append(wire, log + 1) \in Seq(Feed!Event)
      BY <2>1, <3>2
    <3> QED
      BY <3>1, <3>2, <3>3
  <2>3. link' \in {"none", "connecting", "open", "closed"}
    BY <1>4 DEF Feed!Emit, Feed!TypeOK
  <2>4. disturbed' \in SUBSET Feed!Disturbances
    BY <1>4 DEF Feed!Emit, Feed!TypeOK, Feed!Disturbances
  <2> QED
    BY <1>4, <2>1, <2>2, <2>3, <2>4 DEF Feed!Emit, Feed!TypeOK, Feed!attempt, Feed!feed
<1>0. /\ budget' = budget => budget' \in [breaks: 0..MaxBreaks, fails: 0..MaxFails]
      /\ budget.fails > 0 /\ budget' = [budget EXCEPT !.fails = @ - 1] => budget' \in [breaks: 0..MaxBreaks, fails: 0..MaxFails]
      /\ budget.breaks > 0 /\ budget' = [budget EXCEPT !.breaks = @ - 1] => budget' \in [breaks: 0..MaxBreaks, fails: 0..MaxFails]
  <2>1. budget \in [breaks: 0..MaxBreaks, fails: 0..MaxFails]
    BY DEF Feed!TypeOK
  <2> QED
    BY <2>1
<1>5. <<>> \in Seq(Feed!Event)
  OBVIOUS
<1>6. CASE Feed!StreamOpens \/ Feed!Connect
  BY <1>6 DEF Feed!StreamOpens, Feed!Connect, Feed!TypeOK, Feed!attempt, Feed!feed, Feed!daemon, Feed!ghosts
<1>7. CASE Feed!Pause
  BY <1>5, <1>7 DEF Feed!Pause, Feed!TypeOK, Feed!attempt, Feed!daemon, Feed!ghosts
<1>13. CASE Feed!Resume
  BY <1>5, <1>13 DEF Feed!Resume, Feed!TypeOK, Feed!attempt, Feed!daemon, Feed!ghosts
<1>14. CASE Feed!HealthOk
  BY <1>14 DEF Feed!HealthOk, Feed!LimitNow, Feed!TypeOK, Feed!feed, Feed!daemon, Feed!ghosts
<1>15. CASE Feed!Incompatible
  <2>1. budget' \in [breaks: 0..MaxBreaks, fails: 0..MaxFails]
    BY <1>0, <1>15 DEF Feed!Incompatible
  <2> QED
    BY <1>15, <2>1 DEF Feed!Incompatible, Feed!TypeOK, Feed!feed, Feed!daemon, Feed!ghosts
<1>16. CASE Feed!RequestFails
  <2>1. budget' \in [breaks: 0..MaxBreaks, fails: 0..MaxFails]
    BY <1>0, <1>16 DEF Feed!RequestFails
  <2> QED
    BY <1>5, <1>16, <2>1 DEF Feed!RequestFails, Feed!TypeOK, Feed!feed, Feed!ghosts
<1>17. CASE Feed!HistoryAnswered
  BY <1>1, <1>5, <1>17 DEF Feed!HistoryAnswered, Feed!TypeOK, Feed!feed, Feed!ghosts
<1>8. CASE Feed!CatchupAnswered
  <2>1. queue' \in Seq(Feed!Event)
    BY <1>1, <1>8 DEF Feed!CatchupAnswered, Feed!TypeOK
  <2>2. disturbed' \in SUBSET Feed!Disturbances /\ beyond' \in SUBSET Feed!Event
    BY <1>8 DEF Feed!CatchupAnswered, Feed!TypeOK, Feed!Disturbances
  <2> QED
    BY <1>8, <2>1, <2>2 DEF Feed!CatchupAnswered, Feed!TypeOK, Feed!feed, Feed!daemon
<1>9. CASE Feed!Deliver
  <2>1. Head(queue) \in Feed!Event /\ queue' \in Seq(Feed!Event)
    BY <1>9 DEF Feed!Deliver, Feed!TypeOK
  <2>2. \/ UNCHANGED Feed!feed /\ UNCHANGED reconciled
        \/ Feed!Push(Head(queue)) /\ reconciled' = reconciled \cup {Head(queue)}
    BY <1>9 DEF Feed!Deliver
  <2>3. buf' \in Seq(Feed!Event) /\ arrived' \in Seq(Feed!Event) /\ paused' \in BOOLEAN /\ frozen' \in Seq(Feed!Event)
    BY <1>3, <2>1, <2>2 DEF Feed!TypeOK, Feed!feed
  <2>4. reconciled' \in SUBSET Feed!Event
    BY <2>1, <2>2 DEF Feed!TypeOK
  <2> QED
    BY <1>9, <2>1, <2>3, <2>4 DEF Feed!Deliver, Feed!TypeOK, Feed!daemon, Feed!ghosts
<1>10. CASE Feed!DeliverEnds
  <2>1. reconnecting' \in BOOLEAN
    <3>1. streamFailed \in BOOLEAN /\ reconnecting \in BOOLEAN /\ reconnecting' = (streamFailed /\ reconnecting)
      BY <1>10 DEF Feed!DeliverEnds, Feed!TypeOK
    <3> QED
      BY <3>1, Zenon
  <2> QED
    BY <1>10, <2>1 DEF Feed!DeliverEnds, Feed!TypeOK, Feed!feed, Feed!daemon, Feed!ghosts
<1>11. CASE Feed!Receive
  <2>1. Head(wire) \in Feed!Event /\ wire' \in Seq(Feed!Event)
    BY <1>11 DEF Feed!Receive, Feed!TypeOK
  <2>2. \/ pending' = Feed!Bounded(pending, Head(wire), ReplayLimit) /\ UNCHANGED Feed!feed
        \/ Feed!Push(Head(wire)) /\ UNCHANGED pending
    BY <1>11 DEF Feed!Receive
  <2>3. buf' \in Seq(Feed!Event) /\ arrived' \in Seq(Feed!Event) /\ paused' \in BOOLEAN /\ frozen' \in Seq(Feed!Event)
    BY <1>3, <2>1, <2>2 DEF Feed!TypeOK, Feed!feed
  <2>4. pending' \in Seq(Feed!Event)
    BY <1>2, <2>1, <2>2 DEF Feed!TypeOK
  <2>5. disturbed' \in SUBSET Feed!Disturbances
    BY <1>11 DEF Feed!Receive, Feed!TypeOK, Feed!Disturbances
  <2> QED
    BY <1>11, <2>1, <2>3, <2>4, <2>5 DEF Feed!Receive, Feed!TypeOK
<1>12. CASE Feed!StreamFails
  <2>1. budget' \in [breaks: 0..MaxBreaks, fails: 0..MaxFails]
    BY <1>0, <1>12 DEF Feed!StreamFails, Feed!Breaks
  <2> QED
    BY <1>5, <1>12, <2>1 DEF Feed!StreamFails, Feed!TypeOK, Feed!feed, Feed!ghosts
<1> QED
  BY <1>4, <1>6, <1>7, <1>8, <1>9, <1>10, <1>11, <1>12, <1>13, <1>14, <1>15, <1>16, <1>17 DEF Feed!Next

\* An event that is shown already changes nothing; another is added to both lists.
LEMMA PushEffect ==
  ASSUME Feed!TypeOK, NEW e \in Feed!Event, Feed!Push(e)
  PROVE  \/ Holds(buf, e) /\ UNCHANGED Feed!feed
         \/ /\ ~Holds(buf, e) /\ buf' = Feed!Bounded(buf, e, Ring) /\ UNCHANGED <<paused, frozen>>
            /\ arrived' = IF paused THEN Feed!Bounded(arrived, e, Ring) ELSE arrived
<1>1. e \in Feed!Elements(buf) <=> Holds(buf, e)
  BY ElementsHeld DEF Feed!TypeOK
<1> QED
  BY <1>1, Zenon DEF Feed!Push

LEMMA PushRing ==
  ASSUME Feed!TypeOK, FeedRing, NEW e \in Feed!Event, Feed!Push(e)
  PROVE  FeedRing'
<1>1. CASE UNCHANGED Feed!feed
  BY <1>1 DEF FeedRing, Feed!feed, Holds
<1>2. CASE /\ ~Holds(buf, e) /\ buf' = Feed!Bounded(buf, e, Ring) /\ UNCHANGED <<paused, frozen>>
           /\ arrived' = IF paused THEN Feed!Bounded(arrived, e, Ring) ELSE arrived
  <2> DEFINE b == Len(buf)
             a == Len(arrived)
  <2>1. /\ buf \in Seq(Feed!Event) /\ arrived \in Seq(Feed!Event) /\ a \in Nat /\ b \in Nat /\ Ring \in Nat \ {0}
        /\ b <= Ring /\ a <= Ring /\ paused \in BOOLEAN
    BY FeedConstants DEF Feed!TypeOK, FeedRing
  <2> HIDE DEF a, b
  <2>2. /\ b < Ring => Len(buf') = b + 1 /\ buf'[b + 1] = e /\ \A i \in 1..b : buf'[i] = buf[i]
        /\ b = Ring => Len(buf') = b /\ buf'[b] = e /\ \A i \in 1..(b - 1) : buf'[i] = buf[i + 1]
    BY <1>2, <2>1, BoundedRoom, BoundedFull DEF b
  <2>3. /\ paused /\ a < Ring => Len(arrived') = a + 1 /\ arrived'[a + 1] = e /\ \A i \in 1..a : arrived'[i] = arrived[i]
        /\ paused /\ a = Ring => Len(arrived') = a /\ arrived'[a] = e /\ \A i \in 1..(a - 1) : arrived'[i] = arrived[i + 1]
        /\ ~paused => Len(arrived') = a
    BY <1>2, <2>1, BoundedRoom, BoundedFull DEF a
  <2>4. Len(buf') <= Ring /\ Len(arrived') <= Ring
    BY <1>2, <2>1, <2>2, <2>3
  <2>5. \A i, j \in 1..Len(buf') : buf'[i] = buf'[j] => i = j
    <3>1. \A i \in 1..b : buf[i] # e
      BY <1>2 DEF Holds, b
    <3>2. \A i, j \in 1..b : buf[i] = buf[j] => i = j
      BY DEF FeedRing, b
    <3>3. CASE b < Ring
      <4>1. \A i \in 1..Len(buf') : i \in 1..b \/ i = b + 1
        BY <2>1, <2>2, <3>3
      <4> QED
        BY <2>1, <2>2, <3>1, <3>2, <3>3, <4>1
    <3>4. CASE b = Ring
      <4>1. \A i \in 1..Len(buf') : (i \in 1..(b - 1) /\ i + 1 \in 1..b) \/ i = b
        BY <2>1, <2>2, <3>4
      <4> QED
        BY <2>1, <2>2, <3>1, <3>2, <3>4, <4>1
    <3> QED
      BY <2>1, <3>3, <3>4
  <2>6. ASSUME paused'
        PROVE  /\ Len(arrived') <= Len(buf')
               /\ \A i \in 1..Len(arrived') : arrived'[i] = buf'[Len(buf') - Len(arrived') + i]
               /\ \A i \in 1..(Len(buf') - Len(arrived')) : Holds(frozen', buf'[i])
    <3>0. paused /\ frozen' = frozen
      BY <1>2, <2>6
    <3>1. /\ a <= b /\ \A i \in 1..a : arrived[i] = buf[b - a + i]
          /\ \A i \in 1..(b - a) : Holds(frozen, buf[i])
      BY <3>0 DEF FeedRing, a, b
    <3>5. a <= b /\ a \in Nat /\ b \in Nat /\ Ring \in Nat /\ a <= Ring
      BY <2>1, <3>1
    <3>6. /\ a < Ring => Len(arrived') = a + 1 /\ arrived'[a + 1] = e /\ \A i \in 1..a : arrived'[i] = arrived[i]
          /\ a = Ring => Len(arrived') = a /\ arrived'[a] = e /\ \A i \in 1..(a - 1) : arrived'[i] = arrived[i + 1]
      BY <2>3, <3>0, Zenon
    <3>7. \A i \in 1..a : arrived[i] = buf[b - a + i]
      BY <3>1
    <3>2. CASE b < Ring
      <4>1. Len(arrived') = a + 1 /\ Len(buf') = b + 1 /\ Len(buf') - Len(arrived') = b - a
        BY <2>2, <3>2, <3>5, <3>6
      <4>2. \A i \in 1..(a + 1) : arrived'[i] = buf'[b - a + i]
        <5>1. \A i \in 1..a : b - a + i \in 1..b
          BY <2>1, <3>1
        <5>2. b - a + (a + 1) = b + 1 /\ \A i \in 1..(a + 1) : i \in 1..a \/ i = a + 1
          BY <2>1
        <5>3. a < Ring
          BY <3>2, <3>5
        <5> QED
          BY <2>2, <3>2, <3>6, <3>7, <5>1, <5>2, <5>3
      <4>3. \A i \in 1..(b - a) : i \in 1..b
        BY <2>1
      <4> QED
        BY <2>1, <2>2, <3>0, <3>1, <3>2, <4>1, <4>2, <4>3
    <3>3. CASE b = Ring /\ a < Ring
      <4>1. Len(arrived') = a + 1 /\ Len(buf') = b /\ Len(buf') - Len(arrived') = b - a - 1
        BY <2>1, <2>2, <2>3, <3>0, <3>1, <3>3
      <4>2. \A i \in 1..(a + 1) : arrived'[i] = buf'[b - a - 1 + i]
        <5>1. \A i \in 1..a : b - a - 1 + i \in 1..(b - 1) /\ (b - a - 1 + i) + 1 = b - a + i
          BY <3>3, <3>5
        <5>2. b - a - 1 + (a + 1) = b /\ \A i \in 1..(a + 1) : i \in 1..a \/ i = a + 1
          BY <2>1
        <5> QED
          BY <2>2, <3>3, <3>6, <3>7, <5>1, <5>2
      <4>3. \A i \in 1..(b - a - 1) : i \in 1..(b - 1) /\ i + 1 \in 1..(b - a)
        BY <2>1
      <4> QED
        BY <2>1, <2>2, <3>0, <3>1, <3>3, <4>1, <4>2, <4>3
    <3>4. CASE b = Ring /\ a = Ring
      <4>1. Len(arrived') = a /\ Len(buf') = a /\ Len(buf') - Len(arrived') = 0
        BY <2>1, <2>2, <2>3, <3>0, <3>1, <3>4
      <4>2. \A i \in 1..a : arrived'[i] = buf'[0 + i]
        <5>1. \A i \in 1..(a - 1) : i + 1 \in 1..a /\ b - a + (i + 1) = i + 1
          BY <2>1, <3>4
        <5>2. \A i \in 1..a : i \in 1..(a - 1) \/ i = a
          BY <2>1
        <5> QED
          BY <2>1, <2>2, <2>3, <3>0, <3>1, <3>4, <5>1, <5>2
      <4> QED
        BY <2>1, <4>1, <4>2
    <3>8. \/ b < Ring
          \/ b = Ring /\ a < Ring
          \/ b = Ring /\ a = Ring
      BY <2>1, <3>5
    <3> QED
      BY <3>2, <3>3, <3>4, <3>8, Zenon
  <2> QED
    BY <2>4, <2>5, <2>6 DEF FeedRing
<1> QED
  BY <1>1, <1>2, PushEffect

LEMMA RingStep ==
  ASSUME Feed!TypeOK, FeedRing, Feed!Next
  PROVE  FeedRing'
<1>1. CASE Feed!Deliver
  <2>1. UNCHANGED Feed!feed \/ (Feed!Push(Head(queue)) /\ Head(queue) \in Feed!Event)
    BY <1>1 DEF Feed!Deliver, Feed!TypeOK
  <2>2. UNCHANGED Feed!feed => FeedRing'
    BY DEF FeedRing, Feed!feed, Holds
  <2> QED
    BY <2>1, <2>2, PushRing
<1>2. CASE Feed!Receive
  <2>1. UNCHANGED Feed!feed \/ (Feed!Push(Head(wire)) /\ Head(wire) \in Feed!Event)
    BY <1>2 DEF Feed!Receive, Feed!TypeOK
  <2>2. UNCHANGED Feed!feed => FeedRing'
    BY DEF FeedRing, Feed!feed, Holds
  <2> QED
    BY <2>1, <2>2, PushRing
<1>3. CASE Feed!Pause
  <2>1. buf' = buf /\ frozen' = buf /\ arrived' = <<>> /\ Len(buf) \in Nat
    BY <1>3 DEF Feed!Pause, Feed!TypeOK
  <2> QED
    BY <2>1, FeedConstants DEF FeedRing, Holds
<1>4. CASE Feed!Resume
  BY <1>4, FeedConstants DEF Feed!Resume, FeedRing
<1>5. CASE UNCHANGED Feed!feed
  BY <1>5 DEF FeedRing, Feed!feed, Holds
<1>6. Feed!Deliver \/ Feed!Receive \/ Feed!Pause \/ Feed!Resume \/ UNCHANGED Feed!feed
  BY DEF Feed!Next, Feed!Emit, Feed!StreamOpens, Feed!Connect, Feed!HealthOk, Feed!Incompatible, Feed!RequestFails,
         Feed!HistoryAnswered, Feed!CatchupAnswered, Feed!DeliverEnds, Feed!StreamFails
<1> QED
  BY <1>1, <1>2, <1>3, <1>4, <1>5, <1>6

LEMMA HeldStep ==
  ASSUME Feed!TypeOK, FeedHeld, Feed!Next
  PROVE  FeedHeld'
<1>1. CASE Feed!Emit
  BY <1>1 DEF Feed!Emit, FeedHeld, Feed!attempt, Feed!TypeOK
<1>2. CASE Feed!StreamOpens
  <2>1. held = (link # "none") /\ link = "connecting" /\ pc \notin {"history"} /\ held' = held /\ link' = "open" /\ pc' = pc
    BY <1>2 DEF Feed!StreamOpens, FeedHeld, Feed!attempt
  <2> QED
    BY <2>1 DEF FeedHeld
<1>8. CASE Feed!Pause \/ Feed!Resume
  BY <1>8 DEF Feed!Pause, Feed!Resume, FeedHeld, Feed!attempt, Feed!daemon
<1>6. CASE Feed!Connect \/ Feed!Incompatible
  BY <1>6 DEF Feed!Connect, Feed!Incompatible, FeedHeld, Feed!daemon, Feed!TypeOK
<1>7. CASE Feed!HealthOk
  <2>1. CASE held
    BY <1>7, <2>1 DEF Feed!HealthOk, FeedHeld, Feed!daemon, Feed!TypeOK
  <2>2. CASE ~held
    <3>1. link = "none"
      BY <2>2, Zenon DEF FeedHeld
    <3> QED
      BY <1>7, <2>2, <3>1 DEF Feed!HealthOk, FeedHeld, Feed!daemon
  <2> QED
    BY <2>1, <2>2
<1>3. CASE Feed!RequestFails \/ Feed!HistoryAnswered \/ Feed!StreamFails
  BY <1>3 DEF Feed!RequestFails, Feed!HistoryAnswered, Feed!StreamFails, FeedHeld, Feed!TypeOK
<1>4. CASE Feed!CatchupAnswered \/ Feed!Deliver \/ Feed!DeliverEnds
  BY <1>4 DEF Feed!CatchupAnswered, Feed!Deliver, Feed!DeliverEnds, FeedHeld, Feed!daemon, Feed!TypeOK
<1>5. CASE Feed!Receive
  BY <1>5 DEF Feed!Receive, FeedHeld, Feed!TypeOK
<1> QED
  BY <1>1, <1>2, <1>3, <1>4, <1>5, <1>6, <1>7, <1>8 DEF Feed!Next

\* Shown, or shown once and pushed out of a full buffer, or beyond what was read.
Covered(e) == e \in beyond \/ Holds(buf, e) \/ (Len(buf) = Ring /\ e < buf[1])
\* On its way to the viewer, or written after the stream was closed.
Unread(e) == Holds(wire, e) \/ (link \in {"closed", "none"} /\ \A i \in 1..Len(wire) : wire[i] < e)
\* Handed over by the reconciliation, or still to be.
Given(e) == e \in reconciled \/ Holds(queue, e)
Rising(s) == \A i, j \in 1..Len(s) : i < j => s[i] < s[j]

Logged(s) == \A i \in 1..Len(s) : s[i] <= log
\* What is anywhere was written; what a read leaves out is beyond, and so is all before that.
FeedLogged ==
  /\ Logged(buf) /\ Logged(wire) /\ Logged(pending) /\ Logged(history) /\ Logged(queue)
  /\ Rising(wire) /\ Rising(history)
  /\ pc = "catchup" => \A i \in 1..Len(history), e \in Feed!Event :
                         e <= history[i] => e + limit <= log \/ Holds(history, e)
  /\ \A x \in beyond, e \in Feed!Event : e <= x => e \in beyond

FeedOrdered == Spaced(buf) /\ \A i \in 1..Len(buf), e \in Feed!Event : e <= buf[i] => Covered(e)
FeedLive == \A e \in Feed!Event : e <= log => Covered(e) \/ Unread(e)

\* The queue comes in order but for what it repeats, and leaves out only what is beyond.
FeedHanded ==
  /\ \A i, j \in 1..Len(queue) :
       i < j => queue[i] < queue[j] \/ queue[j] \in reconciled \/ \E k \in 1..i : queue[k] = queue[j]
  /\ \A i \in 1..Len(queue), r \in reconciled : queue[i] \in reconciled \/ r < queue[i]
  /\ \A x, e \in Feed!Event : Given(x) /\ e <= x => e \in beyond \/ Given(e)
  /\ \A e \in Feed!Event : e <= log => e \in beyond \/ Given(e) \/ Unread(e)

\* The queue goes on where the buffer ends...
FeedFollows ==
  /\ FeedOrdered /\ \A r \in reconciled : Covered(r)
  /\ \A i \in 1..Len(queue) :
       queue[i] \in reconciled \/ Holds(buf, queue[i]) \/ \A j \in 1..Len(buf) : buf[j] < queue[i]
\* ...or brings enough older events, those of T, to push out what is left of the old buffer,
\* its first k events.
Renews(k, T) ==
  /\ Cardinality(T) + Len(buf) >= Ring + k
  /\ \A t \in T : Holds(queue, t) /\ t \notin reconciled /\ ~Holds(buf, t)
  /\ \A i \in 1..k : buf[i] \in beyond \/ \A t \in T : t < buf[i]
  /\ \A i \in (k + 1)..Len(buf) : buf[i] \in reconciled
  /\ \A i, j \in (k + 1)..Len(buf) : i <= j => buf[i] + (j - i) <= buf[j]
  /\ \A r \in reconciled : r \in beyond \/ \E i \in (k + 1)..Len(buf) : buf[i] = r
FeedRenews == \E k \in 1..Len(buf), T \in SUBSET Feed!Event : Renews(k, T)

FeedShows ==
  disturbed = {} =>
    /\ pc # "deliver" => FeedOrdered
    /\ pc \notin {"catchup", "deliver"} => FeedLive
    /\ pc = "deliver" => FeedHanded /\ (FeedFollows \/ FeedRenews)

LEMMA TailOf ==
  ASSUME NEW s \in Seq(Feed!Event), s # <<>>
  PROVE  /\ Tail(s) \in Seq(Feed!Event) /\ Len(s) \in Nat /\ Len(s) >= 1 /\ Len(Tail(s)) = Len(s) - 1
         /\ Head(s) = s[1] /\ s[1] \in Feed!Event
         /\ \A i \in 1..Len(Tail(s)) : Tail(s)[i] = s[i + 1] /\ i + 1 \in 1..Len(s)
         /\ \A e : Holds(s, e) => e = s[1] \/ Holds(Tail(s), e)
         /\ \A e : Holds(Tail(s), e) => Holds(s, e)
<1>1. /\ Tail(s) \in Seq(Feed!Event) /\ Len(s) \in Nat /\ Len(s) >= 1 /\ Len(Tail(s)) = Len(s) - 1
      /\ Head(s) = s[1] /\ s[1] \in Feed!Event
  OBVIOUS
<1>2. \A i \in 1..Len(Tail(s)) : Tail(s)[i] = s[i + 1] /\ i + 1 \in 1..Len(s)
  BY <1>1
<1>3. ASSUME NEW n \in 1..Len(s)
      PROVE  n = 1 \/ (n - 1 \in 1..Len(Tail(s)) /\ Tail(s)[n - 1] = s[n])
  BY <1>1, <1>2
<1>4. \A e : Holds(s, e) => e = s[1] \/ Holds(Tail(s), e)
  BY <1>3 DEF Holds
<1>5. \A e : Holds(Tail(s), e) => Holds(s, e)
  BY <1>2 DEF Holds
<1> QED
  BY <1>1, <1>2, <1>4, <1>5

\* An event later than all that are shown is added, and all between them is beyond.
LEMMA PushFollows ==
  ASSUME buf \in Seq(Feed!Event), Len(buf) <= Ring, FeedOrdered, NEW e \in Feed!Event,
         \A i \in 1..Len(buf) : buf[i] < e,
         \A f \in Feed!Event : f < e /\ (\A i \in 1..Len(buf) : buf[i] < f) => Covered(f),
         buf' = Feed!Bounded(buf, e, Ring), beyond' = beyond
  PROVE  /\ FeedOrdered' /\ Covered(e)' /\ \A f \in Feed!Event : Covered(f) => Covered(f)'
         /\ \A i \in 1..Len(buf') : buf'[i] = e \/ Holds(buf, buf'[i])
<1> DEFINE b == Len(buf)
<1>1. b \in Nat /\ Ring \in Nat \ {0} /\ b <= Ring /\ e \in Nat /\ \A i \in 1..b : buf[i] \in Nat
  BY FeedConstants DEF Feed!Event
<1>2. b < Ring => Len(buf') = b + 1 /\ buf'[b + 1] = e /\ \A i \in 1..b : buf'[i] = buf[i]
  BY <1>1, BoundedRoom
<1>3. b = Ring => Len(buf') = b /\ buf'[b] = e /\ \A i \in 1..(b - 1) : buf'[i] = buf[i + 1]
  BY <1>1, BoundedFull
<1>4. /\ \A i, j \in 1..b : i <= j => buf[i] + (j - i) <= buf[j]
      /\ \A i \in 1..b, f \in Feed!Event : f <= buf[i] => Covered(f)
  BY DEF FeedOrdered, Spaced
<1> HIDE DEF b
<1>8. \A i \in 1..b : buf[i] < e
  BY DEF b
<1>5. \A i \in 1..b : buf[i] + (b - i) + 1 <= e
  <2>1. ASSUME NEW i \in 1..b
        PROVE  buf[i] + (b - i) <= buf[b] /\ buf[b] < e /\ buf[i] \in Nat /\ buf[b] \in Nat
    BY <1>1, <1>4, <1>8
  <2> QED
    BY <1>1, <2>1
<1>6. CASE b < Ring
  <2>1. \A f \in Feed!Event : Covered(f) => Covered(f)'
    BY <1>1, <1>2, <1>6 DEF Covered, Holds, b
  <2>2. Covered(e)'
    <3>1. Len(buf') \in 1..Len(buf') /\ buf'[Len(buf')] = e
      BY <1>1, <1>2, <1>6
    <3> QED
      BY <3>1 DEF Covered, Holds
  <2>3. ASSUME NEW i \in 1..Len(buf')
        PROVE  (i = b + 1 /\ buf'[i] = e) \/ (i \in 1..b /\ buf'[i] = buf[i])
    BY <1>1, <1>2, <1>6
  <2>4. Spaced(buf)'
    <3>1. ASSUME NEW i \in 1..Len(buf'), NEW j \in 1..Len(buf'), i <= j
          PROVE  buf'[i] + (j - i) <= buf'[j]
      <4>1. CASE i = b + 1 /\ j = b + 1
        BY <1>1, <2>3, <4>1
      <4>2. CASE i \in 1..b /\ j = b + 1
        <5>1. buf[i] + (b - i) + 1 <= e /\ buf'[i] = buf[i] /\ buf'[j] = e /\ buf[i] \in Nat
          BY <1>1, <1>5, <2>3, <4>2
        <5> QED
          BY <1>1, <4>2, <5>1
      <4>3. CASE i \in 1..b /\ j \in 1..b
        BY <1>1, <1>4, <2>3, <3>1, <4>3
      <4> QED
        BY <1>1, <2>3, <3>1, <4>1, <4>2, <4>3
    <3> QED
      BY <3>1 DEF Spaced
  <2>5. \A i \in 1..Len(buf') : buf'[i] = e \/ Holds(buf, buf'[i])
    BY <2>3 DEF Holds, b
  <2> QED
    <3>1. ASSUME NEW i \in 1..Len(buf'), NEW f \in Feed!Event, f <= buf'[i]
          PROVE  Covered(f)'
      <4>1. CASE f = e
        BY <2>2, <4>1
      <4>2. CASE \E j \in 1..b : f <= buf[j]
        BY <1>4, <2>1, <4>2
      <4>3. CASE f # e /\ \A j \in 1..b : ~(f <= buf[j])
        <5>1. f < e /\ \A j \in 1..b : buf[j] < f
          BY <1>1, <2>3, <3>1, <4>3 DEF Feed!Event
        <5> QED
          BY <2>1, <5>1 DEF b
      <4> QED
        BY <4>1, <4>2, <4>3
    <3> QED
      BY <2>1, <2>2, <2>4, <2>5, <3>1 DEF FeedOrdered
<1>7. CASE b = Ring
  <2>0. buf[1] < buf'[1] /\ buf'[1] \in Nat /\ Len(buf') = Ring /\ b >= 1
    <3>1. CASE b = 1
      BY <1>1, <1>3, <1>5, <1>7, <3>1
    <3>2. CASE b > 1
      <4>1. buf'[1] = buf[2]
        BY <1>1, <1>3, <1>7, <3>2
      <4>2. buf[1] + (2 - 1) <= buf[2] /\ buf[1] \in Nat /\ buf[2] \in Nat
        BY <1>1, <1>4, <3>2
      <4> QED
        BY <1>1, <1>3, <1>7, <4>1, <4>2
    <3> QED
      BY <1>1, <1>7, <3>1, <3>2
  <2>1. ASSUME NEW f \in Feed!Event, Covered(f)
        PROVE  Covered(f)'
    <3>1. CASE f \in beyond
      BY <3>1 DEF Covered
    <3>2. CASE f <= buf[1]
      BY <1>1, <2>0, <3>2 DEF Covered, Feed!Event
    <3>3. CASE Holds(buf, f) /\ ~(f <= buf[1])
      <4>1. PICK n \in 1..b : buf[n] = f
        BY <3>3 DEF Holds, b
      <4>2. n - 1 \in 1..Len(buf') /\ buf'[n - 1] = f
        BY <1>1, <1>3, <1>7, <3>3, <4>1 DEF Feed!Event
      <4> QED
        BY <4>2 DEF Covered, Holds
    <3> QED
      BY <1>1, <2>0, <2>1, <3>1, <3>2, <3>3 DEF Covered, Feed!Event
  <2>2. Covered(e)'
    <3>1. Len(buf') \in 1..Len(buf') /\ buf'[Len(buf')] = e
      BY <1>1, <1>3, <1>7
    <3> QED
      BY <3>1 DEF Covered, Holds
  <2>3. ASSUME NEW i \in 1..Len(buf')
        PROVE  (i = b /\ buf'[i] = e) \/ (i \in 1..(b - 1) /\ i + 1 \in 1..b /\ buf'[i] = buf[i + 1])
    BY <1>1, <1>3, <1>7
  <2>4. Spaced(buf)'
    <3>1. ASSUME NEW i \in 1..Len(buf'), NEW j \in 1..Len(buf'), i <= j
          PROVE  buf'[i] + (j - i) <= buf'[j]
      <4>1. CASE i = b /\ j = b
        BY <1>1, <2>3, <4>1
      <4>2. CASE i \in 1..(b - 1) /\ j = b
        <5>1. buf[i + 1] + (b - (i + 1)) + 1 <= e /\ buf'[i] = buf[i + 1] /\ buf[i + 1] \in Nat
          BY <1>1, <1>5, <2>3, <4>2
        <5> QED
          BY <1>1, <2>3, <4>2, <5>1
      <4>3. CASE i \in 1..(b - 1) /\ j \in 1..(b - 1)
        <5>1. buf[i + 1] + ((j + 1) - (i + 1)) <= buf[j + 1] /\ buf'[i] = buf[i + 1] /\ buf'[j] = buf[j + 1]
          BY <1>1, <1>4, <2>3, <3>1, <4>3
        <5>2. (j + 1) - (i + 1) = j - i
          BY <1>1, <4>3
        <5> QED
          BY <5>1, <5>2
      <4> QED
        BY <1>1, <2>3, <3>1, <4>1, <4>2, <4>3
    <3> QED
      BY <3>1 DEF Spaced
  <2>5. \A i \in 1..Len(buf') : buf'[i] = e \/ Holds(buf, buf'[i])
    BY <2>3 DEF Holds, b
  <2> QED
    <3>1. ASSUME NEW i \in 1..Len(buf'), NEW f \in Feed!Event, f <= buf'[i]
          PROVE  Covered(f)'
      <4>1. CASE f = e
        BY <2>2, <4>1
      <4>2. CASE \E j \in 1..b : f <= buf[j]
        BY <1>4, <2>1, <4>2
      <4>3. CASE f # e /\ \A j \in 1..b : ~(f <= buf[j])
        <5>1. f < e /\ \A j \in 1..b : buf[j] < f
          BY <1>1, <2>3, <3>1, <4>3 DEF Feed!Event
        <5> QED
          BY <2>1, <5>1 DEF b
      <4> QED
        BY <4>1, <4>2, <4>3
    <3> QED
      BY <2>1, <2>2, <2>4, <2>5, <3>1 DEF FeedOrdered
<1> QED
  BY <1>1, <1>6, <1>7

\* One event of the queue is handed over, whether it is shown or not.
LEMMA HandedStep ==
  ASSUME Feed!TypeOK, FeedHanded, queue # <<>>, queue' = Tail(queue), reconciled' = reconciled \cup {Head(queue)},
         UNCHANGED <<log, link, wire, beyond>>
  PROVE  FeedHanded'
<1> DEFINE h == queue[1]
<1>1. queue \in Seq(Feed!Event) /\ reconciled \subseteq Feed!Event
  BY DEF Feed!TypeOK
<1>2. /\ Len(queue) \in Nat /\ Len(queue) >= 1 /\ Len(queue') = Len(queue) - 1 /\ Head(queue) = h /\ h \in Feed!Event
      /\ \A i \in 1..Len(queue') : queue'[i] = queue[i + 1] /\ i + 1 \in 1..Len(queue)
      /\ \A e : Holds(queue, e) => e = h \/ Holds(queue', e)
      /\ \A e : Holds(queue', e) => Holds(queue, e)
  BY <1>1, TailOf
<1>3. reconciled' = reconciled \cup {h}
  BY <1>2
<1>4. \A e \in Feed!Event : Given(e) => Given(e)'
  BY <1>2, <1>3 DEF Given
<1>5. \A e \in Feed!Event : Given(e)' => Given(e)
  <2>1. Holds(queue, h)
    BY <1>2 DEF Holds
  <2> QED
    BY <1>2, <1>3, <2>1 DEF Given
<1>6. ASSUME NEW i \in 1..Len(queue'), NEW j \in 1..Len(queue'), i < j
      PROVE  queue'[i] < queue'[j] \/ queue'[j] \in reconciled' \/ \E k \in 1..i : queue'[k] = queue'[j]
  <2>1. i + 1 \in 1..Len(queue) /\ j + 1 \in 1..Len(queue) /\ i + 1 < j + 1
        /\ queue'[i] = queue[i + 1] /\ queue'[j] = queue[j + 1]
    BY <1>2, <1>6
  <2>2. \/ queue[i + 1] < queue[j + 1] \/ queue[j + 1] \in reconciled
        \/ \E k \in 1..(i + 1) : queue[k] = queue[j + 1]
    BY <2>1 DEF FeedHanded
  <2>3. ASSUME NEW k \in 1..(i + 1), queue[k] = queue[j + 1]
        PROVE  queue'[j] \in reconciled' \/ \E m \in 1..i : queue'[m] = queue'[j]
    <3>1. CASE k = 1
      BY <1>3, <2>1, <2>3, <3>1
    <3>2. CASE k # 1
      <4>1. k - 1 \in 1..i /\ k - 1 \in 1..Len(queue') /\ (k - 1) + 1 = k
        BY <1>2, <3>2
      <4>2. queue'[k - 1] = queue[k]
        BY <1>2, <4>1
      <4> QED
        BY <2>1, <2>3, <4>1, <4>2
    <3> QED
      BY <3>1, <3>2
  <2> QED
    BY <1>3, <2>1, <2>2, <2>3
<1>7. ASSUME NEW i \in 1..Len(queue'), NEW r \in reconciled'
      PROVE  queue'[i] \in reconciled' \/ r < queue'[i]
  <2>1. i + 1 \in 1..Len(queue) /\ queue'[i] = queue[i + 1] /\ 1 \in 1..Len(queue) /\ 1 < i + 1
    BY <1>2
  <2>2. CASE r \in reconciled
    BY <1>3, <2>1, <2>2 DEF FeedHanded
  <2>3. CASE r = h
    <3>1. h < queue[i + 1] \/ queue[i + 1] \in reconciled \/ \E k \in 1..1 : queue[k] = queue[i + 1]
      BY <2>1 DEF FeedHanded
    <3> QED
      BY <1>3, <2>1, <2>3, <3>1
  <2> QED
    BY <1>3, <2>2, <2>3
<1>8. \A x, e \in Feed!Event : Given(x)' /\ e <= x => e \in beyond' \/ Given(e)'
  BY <1>4, <1>5 DEF FeedHanded
<1>9. \A e \in Feed!Event : e <= log' => e \in beyond' \/ Given(e)' \/ Unread(e)'
  BY <1>4 DEF FeedHanded, Unread
<1> QED
  BY <1>6, <1>7, <1>8, <1>9 DEF FeedHanded

LEMMA DeliverShape ==
  ASSUME Feed!TypeOK, Feed!Deliver
  PROVE  /\ pc = "deliver" /\ queue # <<>> /\ queue' = Tail(queue) /\ reconciled' = reconciled \cup {queue[1]}
         /\ Head(queue) = queue[1] /\ queue[1] \in Feed!Event /\ 1 \in 1..Len(queue)
         /\ UNCHANGED <<log, link, wire, pc, beyond, disturbed, limit, history, pending, held, status>>
         /\ \/ queue[1] \in reconciled /\ buf' = buf
            \/ queue[1] \notin reconciled /\ Holds(buf, queue[1]) /\ buf' = buf
            \/ queue[1] \notin reconciled /\ ~Holds(buf, queue[1]) /\ buf' = Feed!Bounded(buf, queue[1], Ring)
<1>1. /\ pc = "deliver" /\ queue # <<>> /\ queue' = Tail(queue)
      /\ UNCHANGED <<log, link, wire, pc, beyond, disturbed, limit, history, pending, held, status>>
  BY DEF Feed!Deliver, Feed!daemon, Feed!ghosts
<1>2. Head(queue) = queue[1] /\ queue[1] \in Feed!Event /\ 1 \in 1..Len(queue)
  BY <1>1, TailOf DEF Feed!TypeOK
<1>3. CASE queue[1] \in reconciled
  <2>1. reconciled' = reconciled /\ buf' = buf
    BY <1>2, <1>3 DEF Feed!Deliver, Feed!feed
  <2> QED
    BY <1>1, <1>2, <1>3, <2>1
<1>4. CASE queue[1] \notin reconciled
  <2>1. Feed!Push(queue[1]) /\ reconciled' = reconciled \cup {queue[1]}
    BY <1>2, <1>4 DEF Feed!Deliver
  <2>2. (Holds(buf, queue[1]) /\ buf' = buf) \/ (~Holds(buf, queue[1]) /\ buf' = Feed!Bounded(buf, queue[1], Ring))
    BY <1>2, <2>1, PushEffect DEF Feed!feed
  <2> QED
    BY <1>1, <1>2, <1>4, <2>1, <2>2
<1> QED
  BY <1>3, <1>4

\* What the queue holds after its head is later, or was handed over, or is the head again.
LEMMA HeadFirst ==
  ASSUME Feed!TypeOK, FeedHanded, queue # <<>>, NEW i \in 1..Len(queue)
  PROVE  queue[1] < queue[i] \/ queue[i] \in reconciled \/ queue[i] = queue[1]
<1>1. Len(queue) \in Nat /\ 1 \in 1..Len(queue)
  BY TailOf DEF Feed!TypeOK
<1>2. CASE i = 1
  BY <1>2
<1>3. CASE 1 < i
  <2>1. queue[1] < queue[i] \/ queue[i] \in reconciled \/ \E k \in 1..1 : queue[k] = queue[i]
    BY <1>1, <1>3 DEF FeedHanded
  <2> QED
    BY <2>1
<1> QED
  BY <1>1, <1>2, <1>3

LEMMA FollowsStep ==
  ASSUME Feed!TypeOK, FeedRing, FeedHanded, FeedFollows, Feed!Deliver
  PROVE  FeedFollows'
<1>0. PICK h \in Feed!Event : h = queue[1]
  BY DeliverShape
<1>1. /\ queue # <<>> /\ queue' = Tail(queue) /\ reconciled' = reconciled \cup {h} /\ h \in Feed!Event
      /\ 1 \in 1..Len(queue) /\ beyond' = beyond
      /\ \/ h \in reconciled /\ buf' = buf
         \/ h \notin reconciled /\ Holds(buf, h) /\ buf' = buf
         \/ h \notin reconciled /\ ~Holds(buf, h) /\ buf' = Feed!Bounded(buf, h, Ring)
  BY <1>0, DeliverShape
<1>2. /\ queue \in Seq(Feed!Event) /\ buf \in Seq(Feed!Event) /\ reconciled \subseteq Feed!Event /\ Len(buf) <= Ring
  BY DEF Feed!TypeOK, FeedRing
<1>3. \A i \in 1..Len(queue') : queue'[i] = queue[i + 1] /\ i + 1 \in 1..Len(queue)
  BY <1>1, <1>2, TailOf
<1>4. \A i \in 1..Len(queue) : h < queue[i] \/ queue[i] \in reconciled \/ queue[i] = h
  BY <1>0, <1>1, HeadFirst
<1>5. CASE buf' = buf /\ (h \in reconciled \/ Holds(buf, h))
  <2>1. Covered(h)
    BY <1>5 DEF FeedFollows, Covered
  <2>2. \A e : Covered(e)' <=> Covered(e)
    BY <1>1, <1>5 DEF Covered, Holds
  <2>3. FeedOrdered'
    BY <1>5, <2>2 DEF FeedFollows, FeedOrdered, Spaced
  <2>4. \A r \in reconciled' : Covered(r)'
    BY <1>1, <2>1, <2>2 DEF FeedFollows
  <2>5. \A i \in 1..Len(queue') :
          queue'[i] \in reconciled' \/ Holds(buf', queue'[i]) \/ \A j \in 1..Len(buf') : buf'[j] < queue'[i]
    BY <1>1, <1>3, <1>5 DEF FeedFollows
  <2> QED
    BY <2>3, <2>4, <2>5 DEF FeedFollows
<1>6. CASE h \notin reconciled /\ ~Holds(buf, h) /\ buf' = Feed!Bounded(buf, h, Ring)
  <2>1. \A j \in 1..Len(buf) : buf[j] < h
    BY <1>0, <1>1, <1>6 DEF FeedFollows
  <2>2. ASSUME NEW f \in Feed!Event, f < h, \A i \in 1..Len(buf) : buf[i] < f
        PROVE  Covered(f)
    <3>1. f \in beyond \/ Given(f)
      <4>1. Given(h)
        BY <1>0, <1>1 DEF Given, Holds
      <4>2. f <= h
        BY <1>1, <2>2 DEF Feed!Event
      <4> QED
        BY <1>1, <4>1, <4>2 DEF FeedHanded
    <3>2. ASSUME Holds(queue, f)
          PROVE  f \in reconciled
      <4>1. PICK k \in 1..Len(queue) : queue[k] = f
        BY <3>2 DEF Holds
      <4>2. h < f \/ f \in reconciled \/ f = h
        BY <1>4, <4>1
      <4> QED
        BY <1>1, <2>2, <4>2 DEF Feed!Event
    <3> QED
      BY <3>1, <3>2 DEF Given, Covered, FeedFollows
  <2>3. /\ FeedOrdered' /\ Covered(h)' /\ \A f \in Feed!Event : Covered(f) => Covered(f)'
        /\ \A i \in 1..Len(buf') : buf'[i] = h \/ Holds(buf, buf'[i])
    <3>1. FeedOrdered
      BY DEF FeedFollows
    <3> QED
      BY <1>1, <1>2, <1>6, <2>1, <2>2, <3>1, PushFollows
  <2>4. \A r \in reconciled' : Covered(r)'
    BY <1>1, <1>2, <2>3 DEF FeedFollows
  <2>5. ASSUME NEW i \in 1..Len(queue'), queue'[i] \notin reconciled'
        PROVE  \A j \in 1..Len(buf') : buf'[j] < queue'[i]
    <3> DEFINE v == queue[i + 1]
    <3>1. i + 1 \in 1..Len(queue) /\ queue'[i] = v /\ v \notin reconciled /\ v # h
      BY <1>1, <1>3, <2>5
    <3>2. h < v
      BY <1>4, <3>1
    <3>3. ~Holds(buf, v)
      <4>1. v \in Feed!Event
        BY <1>2, <3>1
      <4> QED
        BY <1>1, <2>1, <3>2, <4>1 DEF Holds, Feed!Event
    <3>4. \A j \in 1..Len(buf) : buf[j] < v
      BY <3>1, <3>3 DEF FeedFollows
    <3> QED
      BY <2>3, <3>1, <3>2, <3>4 DEF Holds
  <2> QED
    BY <2>3, <2>4, <2>5 DEF FeedFollows
<1> QED
  BY <1>1, <1>5, <1>6

LEMMA EventSets ==
  ASSUME NEW T \in SUBSET Feed!Event, NEW h
  PROVE  /\ IsFiniteSet(T) /\ Cardinality(T) \in Nat /\ Cardinality(T \ {h}) >= Cardinality(T) - 1
         /\ Cardinality(T) >= 1 => \E t : t \in T
<1>1. IsFiniteSet(T) /\ Cardinality(T) \in Nat
  <2>1. IsFiniteSet(1..MaxLog)
    BY FeedConstants, FS_Interval
  <2>2. T \subseteq 1..MaxLog
    BY DEF Feed!Event
  <2> QED
    BY <2>1, <2>2, FS_Subset, FS_CardinalityType
<1>2. Cardinality(T \ {h}) >= Cardinality(T) - 1
  <2>1. CASE h \in T
    <3>1. Cardinality(T \ {h}) = Cardinality(T) - 1
      BY <1>1, <2>1, FS_RemoveElement
    <3> QED
      BY <1>1, <3>1
  <2>2. CASE h \notin T
    <3>1. T \ {h} = T
      BY <2>2
    <3> QED
      BY <1>1, <3>1
  <2> QED
    BY <2>1, <2>2
<1>3. Cardinality(T) >= 1 => \E t : t \in T
  BY <1>1, FS_EmptySet
<1> QED
  BY <1>1, <1>2, <1>3

\* The head is pushed behind the events handed over, and what it pushes out was of the old buffer.
LEMMA RenewsPush ==
  ASSUME Feed!TypeOK, FeedRing, FeedHanded, FeedHanded', NEW h \in Feed!Event, h = queue[1],
         NEW k \in 1..Len(buf), NEW T \in SUBSET Feed!Event, Renews(k, T),
         queue # <<>>, queue' = Tail(queue), reconciled' = reconciled \cup {h}, beyond' = beyond,
         h \notin reconciled, ~Holds(buf, h), buf' = Feed!Bounded(buf, h, Ring)
  PROVE  FeedFollows' \/ FeedRenews'
<1> DEFINE b == Len(buf)
<1>1. /\ b \in Nat /\ b >= 1 /\ b <= Ring /\ Ring \in Nat \ {0} /\ k \in Nat /\ k >= 1 /\ k <= b
      /\ queue \in Seq(Feed!Event) /\ buf \in Seq(Feed!Event) /\ h \in Nat
      /\ reconciled \subseteq Feed!Event /\ \A i \in 1..b : buf[i] \in Nat
  <2>1. /\ queue \in Seq(Feed!Event) /\ buf \in Seq(Feed!Event) /\ reconciled \subseteq Feed!Event /\ b <= Ring
        /\ Ring \in Nat \ {0}
    BY FeedConstants DEF Feed!TypeOK, FeedRing
  <2>2. b \in Nat /\ \A i \in 1..b : buf[i] \in Nat
    <3>1. b \in Nat /\ \A i \in 1..b : buf[i] \in Feed!Event
      BY <2>1
    <3>2. Feed!Event \subseteq Nat
      BY DEF Feed!Event
    <3> QED
      BY <3>1, <3>2
  <2>3. h \in Nat /\ k \in Nat /\ k >= 1 /\ k <= b
    BY <2>2 DEF Feed!Event
  <2> QED
    BY <2>1, <2>2, <2>3
<1>2. b < Ring => Len(buf') = b + 1 /\ buf'[b + 1] = h /\ \A i \in 1..b : buf'[i] = buf[i]
  BY <1>1, BoundedRoom
<1>3. b = Ring => Len(buf') = b /\ buf'[b] = h /\ \A i \in 1..(b - 1) : buf'[i] = buf[i + 1]
  BY <1>1, BoundedFull
<1>4. /\ Cardinality(T) + b >= Ring + k
      /\ \A t \in T : Holds(queue, t) /\ t \notin reconciled /\ ~Holds(buf, t)
      /\ \A i \in 1..k : buf[i] \in beyond \/ \A t \in T : t < buf[i]
      /\ \A i \in (k + 1)..b : buf[i] \in reconciled
      /\ \A i, j \in (k + 1)..b : i <= j => buf[i] + (j - i) <= buf[j]
      /\ \A r \in reconciled : r \in beyond \/ \E i \in (k + 1)..b : buf[i] = r
  BY DEF Renews
<1> HIDE DEF b
<1>5. \A r \in reconciled : r < h
  <2>1. 1 \in 1..Len(queue)
    BY <1>1, TailOf
  <2> QED
    BY <2>1 DEF FeedHanded
<1>6. \A i \in (k + 1)..b : buf[i] + (b - i) + 1 <= h
  <2>1. ASSUME NEW i \in (k + 1)..b
        PROVE  buf[i] + (b - i) <= buf[b] /\ buf[b] < h /\ buf[i] \in Nat /\ buf[b] \in Nat
    <3>1. b \in (k + 1)..b /\ i \in 1..b /\ b \in 1..b
      BY <1>1
    <3>2. buf[b] < h
      BY <1>4, <1>5, <3>1
    <3> QED
      BY <1>1, <1>4, <3>1, <3>2
  <2> QED
    BY <1>1, <2>1
<1> DEFINE U == T \ {h}
<1>7. /\ U \in SUBSET Feed!Event /\ Cardinality(U) \in Nat /\ Cardinality(T) \in Nat
      /\ Cardinality(U) >= Cardinality(T) - 1
  BY EventSets
<1>8. \A t \in U : Holds(queue', t) /\ t \notin reconciled' /\ ~Holds(buf, t) /\ t # h
  BY <1>1, <1>4, TailOf
<1>9. CASE b < Ring
  <2>1. \A i \in 1..(b + 1) : (i = b + 1 /\ buf'[i] = h) \/ (i \in 1..b /\ buf'[i] = buf[i])
    BY <1>1, <1>2, <1>9
  <2>2. Cardinality(U) + Len(buf') >= Ring + k
    BY <1>1, <1>2, <1>4, <1>7, <1>9
  <2>3. \A t \in U : Holds(queue', t) /\ t \notin reconciled' /\ ~Holds(buf', t)
    BY <1>2, <1>8, <1>9, <2>1 DEF Holds, b
  <2>4. \A i \in 1..k : buf'[i] \in beyond' \/ \A t \in U : t < buf'[i]
    <3>1. \A i \in 1..k : i \in 1..b
      BY <1>1
    <3> QED
      BY <1>2, <1>4, <1>9, <3>1
  <2>5. \A i \in (k + 1)..Len(buf') : (i = b + 1 /\ buf'[i] = h) \/ (i \in (k + 1)..b /\ buf'[i] = buf[i])
    BY <1>1, <1>2, <1>9
  <2>6. \A i \in (k + 1)..Len(buf') : buf'[i] \in reconciled'
    BY <1>4, <2>5
  <2>7. ASSUME NEW i \in (k + 1)..Len(buf'), NEW j \in (k + 1)..Len(buf'), i <= j
        PROVE  buf'[i] + (j - i) <= buf'[j]
    <3>1. CASE i = b + 1 /\ j = b + 1
      BY <1>1, <2>5, <3>1
    <3>2. CASE i \in (k + 1)..b /\ j = b + 1
      <4>1. buf[i] + (b - i) + 1 <= h /\ buf'[i] = buf[i] /\ buf'[j] = h /\ buf[i] \in Nat /\ i \in Nat
        BY <1>1, <1>2, <1>6, <1>9, <3>2
      <4> QED
        BY <1>1, <3>2, <4>1
    <3>3. CASE i \in (k + 1)..b /\ j \in (k + 1)..b
      <4>1. buf'[i] = buf[i] /\ buf'[j] = buf[j]
        BY <1>1, <1>2, <1>9, <3>3
      <4> QED
        BY <1>4, <2>7, <3>3, <4>1
    <3> QED
      BY <1>1, <2>5, <2>7, <3>1, <3>2, <3>3
  <2>8. ASSUME NEW r \in reconciled'
        PROVE  r \in beyond' \/ \E i \in (k + 1)..Len(buf') : buf'[i] = r
    <3>1. CASE r = h
      <4>1. b + 1 \in (k + 1)..Len(buf') /\ buf'[b + 1] = h
        BY <1>1, <1>2, <1>9
      <4> QED
        BY <3>1, <4>1
    <3>2. CASE r \in reconciled /\ r \notin beyond
      <4>1. PICK i \in (k + 1)..b : buf[i] = r
        BY <1>4, <3>2
      <4>2. i \in (k + 1)..Len(buf') /\ buf'[i] = r
        BY <1>1, <1>2, <1>9, <4>1
      <4> QED
        BY <4>2
    <3> QED
      BY <3>1, <3>2
  <2>9. Renews(k, U)'
    BY <2>2, <2>3, <2>4, <2>6, <2>7, <2>8 DEF Renews
  <2> QED
    <3>1. k \in 1..Len(buf')
      BY <1>1, <1>2, <1>9
    <3> HIDE DEF U
    <3> QED
      BY <1>7, <2>9, <3>1 DEF FeedRenews
<1>10. CASE b = Ring
  <2>1. ASSUME NEW i \in k..b
        PROVE  (i = b /\ buf'[i] = h) \/ (i \in k..(b - 1) /\ i + 1 \in (k + 1)..b /\ buf'[i] = buf[i + 1])
    BY <1>1, <1>3, <1>10
  <2>2. Cardinality(U) + Len(buf') >= Ring + (k - 1)
    BY <1>1, <1>3, <1>4, <1>7, <1>10
  <2>3. \A t \in U : Holds(queue', t) /\ t \notin reconciled' /\ ~Holds(buf', t)
    <3>1. \A i \in 1..Len(buf') : (i = b /\ buf'[i] = h) \/ (i + 1 \in 1..b /\ buf'[i] = buf[i + 1])
      BY <1>1, <1>3, <1>10
    <3>2. \A i \in 1..Len(buf') : buf'[i] = h \/ Holds(buf, buf'[i])
      BY <3>1 DEF Holds, b
    <3>3. \A t : Holds(buf', t) => t = h \/ Holds(buf, t)
      BY <3>2 DEF Holds
    <3> QED
      BY <1>8, <3>3
  <2>4. \A i \in 1..(k - 1) : buf'[i] \in beyond' \/ \A t \in U : t < buf'[i]
    <3>1. \A i \in 1..(k - 1) : i \in 1..(b - 1) /\ i + 1 \in 1..k
      BY <1>1
    <3> QED
      BY <1>3, <1>4, <1>10, <3>1
  <2>6. \A i \in k..Len(buf') : buf'[i] \in reconciled'
    <3>1. \A i \in k..Len(buf') : i \in k..b
      BY <1>3, <1>10
    <3> QED
      BY <1>4, <2>1, <3>1
  <2>7. ASSUME NEW i \in k..Len(buf'), NEW j \in k..Len(buf'), i <= j
        PROVE  buf'[i] + (j - i) <= buf'[j]
    <3>0. i \in k..b /\ j \in k..b /\ i \in Nat /\ j \in Nat
      BY <1>1, <1>3, <1>10
    <3>1. CASE i = b /\ j = b
      <4>1. buf'[i] = h /\ buf'[j] = h
        BY <1>3, <1>10, <3>1
      <4> QED
        BY <1>1, <3>1, <4>1
    <3>2. CASE i \in k..(b - 1) /\ j = b
      <4>1. i + 1 \in (k + 1)..b /\ buf'[i] = buf[i + 1] /\ buf'[j] = h
        BY <1>1, <1>3, <1>10, <3>2
      <4>2. buf[i + 1] + (b - (i + 1)) + 1 <= h /\ buf[i + 1] \in Nat
        BY <1>1, <1>6, <4>1
      <4>3. i \in Int /\ b \in Int /\ h \in Int
        BY <1>1, <3>0
      <4>4. buf[i + 1] + (b - i) <= h
        BY <4>2, <4>3
      <4> QED
        BY <3>2, <4>1, <4>4, Zenon
    <3>3. CASE i \in k..(b - 1) /\ j \in k..(b - 1)
      <4>1. /\ i + 1 \in (k + 1)..b /\ j + 1 \in (k + 1)..b /\ i + 1 <= j + 1 /\ (j + 1) - (i + 1) = j - i
            /\ buf'[i] = buf[i + 1] /\ buf'[j] = buf[j + 1]
        BY <1>1, <1>3, <1>10, <2>7, <3>3
      <4>2. buf[i + 1] + ((j + 1) - (i + 1)) <= buf[j + 1]
        BY <1>4, <4>1
      <4> QED
        BY <4>1, <4>2
    <3> QED
      BY <1>1, <2>7, <3>0, <3>1, <3>2, <3>3
  <2>8. ASSUME NEW r \in reconciled'
        PROVE  r \in beyond' \/ \E i \in k..Len(buf') : buf'[i] = r
    <3>1. CASE r = h
      <4>1. b \in k..Len(buf') /\ buf'[b] = h
        BY <1>1, <1>3, <1>10
      <4> QED
        BY <3>1, <4>1
    <3>2. CASE r \in reconciled /\ r \notin beyond
      <4>1. PICK i \in (k + 1)..b : buf[i] = r
        BY <1>4, <3>2
      <4>2. i - 1 \in k..Len(buf') /\ i - 1 \in 1..(b - 1) /\ (i - 1) + 1 = i
        BY <1>1, <1>3, <1>10, <4>1
      <4>3. buf'[i - 1] = r
        BY <1>3, <1>10, <4>1, <4>2
      <4> QED
        BY <4>2, <4>3
    <3> QED
      BY <3>1, <3>2
  <2>9. CASE k > 1
    <3>1. (k - 1) + 1 = k /\ k - 1 \in 1..Len(buf')
      BY <1>1, <1>3, <1>10, <2>9
    <3>2. Renews(k - 1, U)'
      BY <2>2, <2>3, <2>4, <2>6, <2>7, <2>8, <3>1 DEF Renews
    <3> HIDE DEF U
    <3> QED
      BY <1>7, <3>1, <3>2 DEF FeedRenews
  <2>10. CASE k = 1
    <3>1. Spaced(buf)'
      BY <2>7, <2>10 DEF Spaced
    <3>2. \A i \in 1..Len(buf') : buf'[i] \in reconciled'
      BY <2>6, <2>10
    <3>3. \A r \in reconciled' : Covered(r)'
      BY <2>8, <2>10 DEF Covered, Holds
    <3>4. reconciled' \subseteq Feed!Event
      BY <1>1
    <3>5. ASSUME NEW i \in 1..Len(buf'), NEW f \in Feed!Event, f <= buf'[i]
          PROVE  Covered(f)'
      <4>1. buf'[i] \in reconciled' /\ buf'[i] \in Feed!Event
        BY <3>2, <3>4
      <4>2. f \in beyond' \/ Given(f)'
        BY <3>5, <4>1 DEF FeedHanded, Given
      <4>3. ASSUME Holds(queue', f)
            PROVE  f \in reconciled'
        <5>1. PICK n \in 1..Len(queue') : queue'[n] = f
          BY <4>3 DEF Holds
        <5>2. f \in reconciled' \/ buf'[i] < f
          BY <4>1, <5>1 DEF FeedHanded
        <5> QED
          BY <3>5, <4>1, <5>2 DEF Feed!Event
      <4> QED
        BY <3>3, <4>2, <4>3 DEF Given, Covered
    <3>6. \A i \in 1..Len(queue') : queue'[i] \in reconciled' \/ \A j \in 1..Len(buf') : buf'[j] < queue'[i]
      BY <3>2 DEF FeedHanded
    <3> QED
      BY <3>1, <3>3, <3>5, <3>6 DEF FeedFollows, FeedOrdered
  <2> QED
    BY <1>1, <2>9, <2>10
<1> QED
  BY <1>1, <1>9, <1>10

LEMMA RenewsStep ==
  ASSUME Feed!TypeOK, FeedRing, FeedHanded, FeedHanded', FeedRenews, Feed!Deliver
  PROVE  FeedFollows' \/ FeedRenews'
<1>1. PICK k \in 1..Len(buf), T \in SUBSET Feed!Event : Renews(k, T)
  BY DEF FeedRenews
<1>2. PICK h \in Feed!Event : h = queue[1]
  BY DeliverShape
<1>3. /\ queue # <<>> /\ queue' = Tail(queue) /\ reconciled' = reconciled \cup {h}
      /\ 1 \in 1..Len(queue) /\ beyond' = beyond
      /\ \/ h \in reconciled /\ buf' = buf
         \/ h \notin reconciled /\ Holds(buf, h) /\ buf' = buf
         \/ h \notin reconciled /\ ~Holds(buf, h) /\ buf' = Feed!Bounded(buf, h, Ring)
  BY <1>2, DeliverShape
<1>4. /\ Cardinality(T) + Len(buf) >= Ring + k
      /\ \A t \in T : Holds(queue, t) /\ t \notin reconciled /\ ~Holds(buf, t)
      /\ \A i \in 1..k : buf[i] \in beyond \/ \A t \in T : t < buf[i]
      /\ \A i \in (k + 1)..Len(buf) : buf[i] \in reconciled
      /\ \A i, j \in (k + 1)..Len(buf) : i <= j => buf[i] + (j - i) <= buf[j]
      /\ \A r \in reconciled : r \in beyond \/ \E i \in (k + 1)..Len(buf) : buf[i] = r
  BY <1>1 DEF Renews
<1>5. ASSUME buf' = buf, h \in reconciled \/ h \in beyond, \A t \in T : t # h
      PROVE  FeedRenews'
  <2>1. \A t \in T : Holds(queue', t) /\ t \notin reconciled' /\ ~Holds(buf', t)
    <3>1. \A t \in T : Holds(queue', t)
      BY <1>2, <1>3, <1>4, <1>5, TailOf DEF Feed!TypeOK
    <3> QED
      BY <1>3, <1>4, <1>5, <3>1
  <2>2. \A i \in (k + 1)..Len(buf') : buf'[i] \in reconciled'
    BY <1>3, <1>4, <1>5
  <2>3. \A r \in reconciled' : r \in beyond' \/ \E i \in (k + 1)..Len(buf') : buf'[i] = r
    BY <1>3, <1>4, <1>5
  <2>4. Renews(k, T)'
    BY <1>3, <1>4, <1>5, <2>1, <2>2, <2>3 DEF Renews
  <2> QED
    BY <1>5, <2>4 DEF FeedRenews
<1>6. CASE h \in reconciled /\ buf' = buf
  BY <1>4, <1>5, <1>6
<1>7. CASE h \notin reconciled /\ Holds(buf, h) /\ buf' = buf
  <2>1. \A t \in T : t # h
    BY <1>4, <1>7
  <2>2. PICK i \in 1..Len(buf) : buf[i] = h
    BY <1>7 DEF Holds
  <2>3. Len(buf) \in Nat /\ Ring \in Nat /\ Len(buf) <= Ring /\ k \in Nat /\ k >= 1
    BY FeedConstants DEF Feed!TypeOK, FeedRing
  <2>4. i \in 1..k
    BY <1>4, <1>7, <2>2, <2>3
  <2>5. PICK t \in T : TRUE
    <3>1. Cardinality(T) \in Nat /\ (Cardinality(T) >= 1 => \E t : t \in T)
      BY EventSets
    <3>2. Cardinality(T) >= 1
      BY <1>4, <2>3, <3>1
    <3> QED
      BY <3>1, <3>2
  <2>6. h < t
    <3>1. PICK n \in 1..Len(queue) : queue[n] = t
      BY <1>4 DEF Holds
    <3> QED
      BY <1>2, <1>3, <1>4, <2>1, <3>1, HeadFirst
  <2>7. ~(t < h)
    BY <2>6 DEF Feed!Event
  <2>8. h \in beyond
    BY <1>4, <2>2, <2>4, <2>7
  <2> QED
    BY <1>5, <1>7, <2>1, <2>8
<1>8. CASE h \notin reconciled /\ ~Holds(buf, h) /\ buf' = Feed!Bounded(buf, h, Ring)
  BY <1>1, <1>2, <1>3, <1>8, RenewsPush
<1> QED
  BY <1>3, <1>6, <1>7, <1>8

LEMMA BoundedHolds ==
  ASSUME NEW s \in Seq(Feed!Event), NEW e \in Feed!Event, NEW n \in Nat \ {0}
  PROVE  \A i \in 1..Len(Feed!Bounded(s, e, n)) : Feed!Bounded(s, e, n)[i] = e \/ Holds(s, Feed!Bounded(s, e, n)[i])
<1> DEFINE a == Append(s, e)
<1>1. a \in Seq(Feed!Event) /\ a # <<>> /\ Len(a) = Len(s) + 1 /\ Len(s) \in Nat
  OBVIOUS
<1>2. \A i \in 1..Len(a) : a[i] = e \/ Holds(s, a[i])
  <2>1. \A i \in 1..Len(s) : a[i] = s[i]
    OBVIOUS
  <2>2. a[Len(s) + 1] = e
    OBVIOUS
  <2>3. \A i \in 1..Len(a) : i \in 1..Len(s) \/ i = Len(s) + 1
    BY <1>1
  <2> HIDE DEF a
  <2> QED
    BY <2>1, <2>2, <2>3 DEF Holds
<1>3. \A i \in 1..Len(Tail(a)) : Tail(a)[i] = a[i + 1] /\ i + 1 \in 1..Len(a)
  <2> HIDE DEF a
  <2> QED
    BY <1>1, TailOf
<1>4. Feed!Bounded(s, e, n) = a \/ Feed!Bounded(s, e, n) = Tail(a)
  BY DEF Feed!Bounded
<1> HIDE DEF a
<1> QED
  BY <1>2, <1>3, <1>4

LEMMA PushLogged ==
  ASSUME Feed!TypeOK, NEW e \in Feed!Event, Feed!Push(e), \A i \in 1..Len(buf) : buf[i] <= log, e <= log
  PROVE  \A i \in 1..Len(buf') : buf'[i] <= log
<1>1. buf \in Seq(Feed!Event) /\ Ring \in Nat \ {0}
  BY FeedConstants DEF Feed!TypeOK
<1>2. CASE buf' = buf
  BY <1>2
<1>3. CASE buf' = Feed!Bounded(buf, e, Ring)
  <2>1. \A i \in 1..Len(buf') : buf'[i] = e \/ Holds(buf, buf'[i])
    BY <1>1, <1>3, BoundedHolds
  <2> QED
    BY <2>1 DEF Holds
<1> QED
  BY <1>2, <1>3, PushEffect DEF Feed!feed

LEMMA ConcatOf ==
  ASSUME NEW s \in Seq(Feed!Event), NEW p \in Seq(Feed!Event)
  PROVE  Len(s \o p) = Len(s) + Len(p)
OBVIOUS

\* s is made of h, r and p, one after the other.
MadeOf(s, h, r, p) ==
  /\ Len(s) = Len(h) + Len(r) + Len(p)
  /\ \A i \in 1..Len(h) : s[i] = h[i]
  /\ \A i \in 1..Len(r) : s[Len(h) + i] = r[i]
  /\ \A i \in 1..Len(p) : s[Len(h) + Len(r) + i] = p[i]
  /\ \A i \in 1..Len(s) : \/ i \in 1..Len(h)
                          \/ \E m \in 1..Len(r) : i = Len(h) + m
                          \/ \E m \in 1..Len(p) : i = Len(h) + Len(r) + m
  /\ \A e : Holds(s, e) <=> Holds(h, e) \/ Holds(r, e) \/ Holds(p, e)

\* What the second read leaves to be handed over.
LEMMA QueueOf ==
  ASSUME NEW h \in Seq(Feed!Event), NEW r \in Seq(Feed!Event), NEW p \in Seq(Feed!Event)
  PROVE  MadeOf(h \o r \o p, h, r, p)
<1> DEFINE q == h \o r
<1>1. q \in Seq(Feed!Event) /\ Len(q) = Len(h) + Len(r) /\ Len(h) \in Nat /\ Len(r) \in Nat /\ Len(p) \in Nat
  OBVIOUS
<1>2. (\A i \in 1..Len(h) : q[i] = h[i]) /\ \A i \in 1..Len(r) : q[Len(h) + i] = r[i]
  OBVIOUS
<1> HIDE DEF q
<1> DEFINE s == q \o p
<1>3. Len(s) = Len(h) + Len(r) + Len(p)
  <2>1. Len(s) = Len(q) + Len(p)
    BY <1>1, ConcatOf
  <2> QED
    BY <1>1, <2>1
<1>4. (\A i \in 1..Len(q) : s[i] = q[i]) /\ \A i \in 1..Len(p) : s[Len(q) + i] = p[i]
  <2>1. \A i \in 1..Len(q) : s[i] = q[i]
    BY <1>1
  <2>2. \A i \in 1..Len(p) : s[Len(q) + i] = p[i]
    BY <1>1
  <2> QED
    BY <2>1, <2>2
<1> HIDE DEF s
<1>5. \A i \in 1..Len(h) : s[i] = h[i]
  <2>1. \A i \in 1..Len(h) : i \in 1..Len(q)
    BY <1>1
  <2> QED
    BY <1>2, <1>4, <2>1
<1>6. \A i \in 1..Len(r) : s[Len(h) + i] = r[i]
  <2>1. \A i \in 1..Len(r) : Len(h) + i \in 1..Len(q)
    BY <1>1
  <2> QED
    BY <1>2, <1>4, <2>1
<1>7. \A i \in 1..Len(p) : s[Len(h) + Len(r) + i] = p[i]
  BY <1>1, <1>4
<1>8. ASSUME NEW i \in 1..Len(s)
      PROVE  \/ i \in 1..Len(h)
             \/ \E m \in 1..Len(r) : i = Len(h) + m
             \/ \E m \in 1..Len(p) : i = Len(h) + Len(r) + m
  <2>1. CASE i <= Len(h)
    BY <1>1, <1>3, <2>1
  <2>2. CASE Len(h) < i /\ i <= Len(h) + Len(r)
    <3>1. i - Len(h) \in 1..Len(r) /\ i = Len(h) + (i - Len(h))
      BY <1>1, <1>3, <2>2
    <3> QED
      BY <3>1
  <2>3. CASE Len(h) + Len(r) < i
    <3>1. i - (Len(h) + Len(r)) \in 1..Len(p) /\ i = Len(h) + Len(r) + (i - (Len(h) + Len(r)))
      BY <1>1, <1>3, <2>3
    <3> QED
      BY <3>1
  <2> QED
    BY <1>1, <1>3, <2>1, <2>2, <2>3
<1>9. ASSUME NEW e
      PROVE  Holds(s, e) <=> Holds(h, e) \/ Holds(r, e) \/ Holds(p, e)
  <2>1. ASSUME Holds(s, e)
        PROVE  Holds(h, e) \/ Holds(r, e) \/ Holds(p, e)
    <3>1. PICK i \in 1..Len(s) : s[i] = e
      BY <2>1, Zenon DEF Holds
    <3>2. CASE i \in 1..Len(h)
      BY <1>5, <3>1, <3>2, Zenon DEF Holds
    <3>3. CASE \E m \in 1..Len(r) : i = Len(h) + m
      <4>1. PICK m \in 1..Len(r) : i = Len(h) + m
        BY <3>3, Zenon
      <4>2. r[m] = e
        BY <1>6, <3>1, <4>1, Zenon
      <4> QED
        BY <4>2, Zenon DEF Holds
    <3>4. CASE \E m \in 1..Len(p) : i = Len(h) + Len(r) + m
      <4>1. PICK m \in 1..Len(p) : i = Len(h) + Len(r) + m
        BY <3>4, Zenon
      <4>2. p[m] = e
        BY <1>7, <3>1, <4>1, Zenon
      <4> QED
        BY <4>2, Zenon DEF Holds
    <3> QED
      BY <1>8, <3>2, <3>3, <3>4, Zenon
  <2>2. ASSUME NEW n \in 1..Len(h) PROVE n \in 1..Len(s)
    BY <1>1, <1>3
  <2>3. ASSUME NEW n \in 1..Len(r) PROVE Len(h) + n \in 1..Len(s)
    BY <1>1, <1>3
  <2>4. ASSUME NEW n \in 1..Len(p) PROVE Len(h) + Len(r) + n \in 1..Len(s)
    BY <1>1, <1>3
  <2> QED
    BY <1>5, <1>6, <1>7, <2>1, <2>2, <2>3, <2>4 DEF Holds
<1>10. MadeOf(s, h, r, p)
  <2>1. \A e : Holds(s, e) <=> Holds(h, e) \/ Holds(r, e) \/ Holds(p, e)
    BY <1>9, Zenon
  <2>2. \A i \in 1..Len(s) : \/ i \in 1..Len(h)
                             \/ \E m \in 1..Len(r) : i = Len(h) + m
                             \/ \E m \in 1..Len(p) : i = Len(h) + Len(r) + m
    BY <1>8
  <2> QED
    BY <1>3, <1>5, <1>6, <1>7, <2>1, <2>2, Zenon DEF MadeOf
<1> QED
  BY <1>10, Zenon DEF s, q

LEMMA LoggedStep ==
  ASSUME Feed!TypeOK, FeedLogged, Feed!Next
  PROVE  FeedLogged'
<1>1. /\ log \in Nat /\ limit \in Nat /\ buf \in Seq(Feed!Event) /\ wire \in Seq(Feed!Event)
      /\ pending \in Seq(Feed!Event) /\ history \in Seq(Feed!Event) /\ queue \in Seq(Feed!Event)
      /\ Ring \in Nat \ {0} /\ ReplayLimit \in Nat \ {0} /\ Feed!Event \subseteq Nat
  BY FeedConstants DEF Feed!TypeOK, Feed!Event
<1>2. Feed!Emit => log' = log + 1 /\ log + 1 \in Feed!Event
  BY FeedConstants DEF Feed!Emit, Feed!TypeOK, Feed!Event
<1>3. ~Feed!Emit => log' = log
  BY DEF Feed!Next, Feed!StreamOpens, Feed!Pause, Feed!Resume, Feed!Connect, Feed!HealthOk, Feed!Incompatible,
         Feed!RequestFails, Feed!HistoryAnswered, Feed!CatchupAnswered, Feed!Deliver, Feed!DeliverEnds,
         Feed!Receive, Feed!StreamFails, Feed!daemon
<1>4. log' \in Nat /\ log <= log'
  BY <1>1, <1>2, <1>3
<1>5. ASSUME NEW s \in Seq(Feed!Event), \A i \in 1..Len(s) : s[i] <= log
      PROVE  \A i \in 1..Len(s) : s[i] <= log'
  <2>1. \A i \in 1..Len(s) : s[i] \in Nat
    <3>1. \A i \in 1..Len(s) : s[i] \in Feed!Event
      OBVIOUS
    <3> QED
      BY <1>1, <3>1
  <2> QED
    BY <1>1, <1>4, <1>5, <2>1
<1>6. Logged(wire)' /\ Rising(wire)'
  <2>1. CASE wire' = wire
    BY <1>1, <1>5, <2>1 DEF FeedLogged, Logged, Rising
  <2>2. CASE wire' = <<>>
    BY <2>2 DEF Logged, Rising
  <2>3. CASE wire # <<>> /\ wire' = Tail(wire)
    <3>1. Len(wire) \in Nat /\ Len(wire') = Len(wire) - 1
          /\ \A i \in 1..Len(wire') : wire'[i] = wire[i + 1] /\ i + 1 \in 1..Len(wire)
      BY <1>1, <2>3, TailOf
    <3>2. \A i \in 1..Len(wire) : wire[i] <= log'
      BY <1>1, <1>5 DEF FeedLogged, Logged
    <3>3. ASSUME NEW i \in 1..Len(wire'), NEW j \in 1..Len(wire'), i < j
          PROVE  wire'[i] < wire'[j]
      <4>1. i + 1 < j + 1
        BY <3>1, <3>3
      <4> QED
        BY <3>1, <4>1 DEF FeedLogged, Rising
    <3> QED
      BY <3>1, <3>2, <3>3 DEF Logged, Rising
  <2>4. CASE Feed!Emit /\ wire' = Append(wire, log + 1)
    <3>1. Len(wire) \in Nat /\ Len(wire') = Len(wire) + 1
      BY <1>1, <2>4
    <3>2. \A i \in 1..Len(wire) : wire'[i] = wire[i] /\ wire[i] \in Nat
      <4>1. \A i \in 1..Len(wire) : wire[i] \in Feed!Event
        BY <1>1
      <4>2. \A i \in 1..Len(wire) : wire'[i] = wire[i]
        BY <1>1, <2>4
      <4> QED
        BY <1>1, <4>1, <4>2
    <3>3. wire'[Len(wire) + 1] = log + 1
      BY <1>1, <2>4
    <3>4. \A i \in 1..Len(wire') : i \in 1..Len(wire) \/ i = Len(wire) + 1
      BY <3>1
    <3>5. \A i \in 1..Len(wire) : wire[i] <= log
      BY DEF FeedLogged, Logged
    <3>6. \A i \in 1..Len(wire') : wire'[i] <= log'
      BY <1>1, <1>2, <2>4, <3>2, <3>3, <3>4, <3>5
    <3>7. ASSUME NEW i \in 1..Len(wire'), NEW j \in 1..Len(wire'), i < j
          PROVE  wire'[i] < wire'[j]
      <4>1. CASE j = Len(wire) + 1
        <5>1. i \in 1..Len(wire)
          BY <3>1, <3>4, <3>7, <4>1
        <5>2. wire[i] \in Nat /\ wire[i] <= log /\ wire'[i] = wire[i] /\ wire'[j] = log + 1
          BY <3>2, <3>3, <3>5, <4>1, <5>1, Zenon
        <5> QED
          BY <1>1, <5>2
      <4>2. CASE j \in 1..Len(wire)
        <5>1. i \in 1..Len(wire)
          BY <3>1, <3>7, <4>2
        <5> QED
          BY <3>2, <3>7, <4>2, <5>1 DEF FeedLogged, Rising
      <4> QED
        BY <3>4, <4>1, <4>2
    <3> QED
      BY <3>6, <3>7 DEF Logged, Rising
  <2>5. \/ wire' = wire \/ wire' = <<>> \/ (wire # <<>> /\ wire' = Tail(wire))
        \/ (Feed!Emit /\ wire' = Append(wire, log + 1))
    BY DEF Feed!Next, Feed!Emit, Feed!StreamOpens, Feed!Pause, Feed!Resume, Feed!Connect, Feed!HealthOk,
           Feed!Incompatible, Feed!RequestFails, Feed!HistoryAnswered, Feed!CatchupAnswered, Feed!Deliver,
           Feed!DeliverEnds, Feed!Receive, Feed!StreamFails, Feed!daemon
  <2> QED
    BY <2>1, <2>2, <2>3, <2>4, <2>5
<1>7. Logged(buf)'
  <2>1. CASE buf' = buf
    BY <1>1, <1>5, <2>1 DEF FeedLogged, Logged
  <2>2. ASSUME NEW e \in Feed!Event, Feed!Push(e), e <= log, log' = log
        PROVE  Logged(buf)'
    BY <2>2, PushLogged DEF FeedLogged, Logged
  <2>3. CASE Feed!Deliver
    <3>1. queue # <<>> /\ (UNCHANGED Feed!feed \/ Feed!Push(Head(queue)))
      BY <2>3 DEF Feed!Deliver
    <3>2. Head(queue) \in Feed!Event /\ Head(queue) <= log /\ log' = log
      <4>1. Head(queue) = queue[1] /\ 1 \in 1..Len(queue) /\ queue[1] \in Feed!Event
        BY <1>1, <3>1, TailOf
      <4> QED
        BY <2>3, <4>1 DEF FeedLogged, Logged, Feed!Deliver, Feed!daemon
    <3> QED
      BY <2>1, <2>2, <3>1, <3>2 DEF Feed!feed
  <2>4. CASE Feed!Receive
    <3>1. wire # <<>> /\ (UNCHANGED Feed!feed \/ Feed!Push(Head(wire)))
      BY <2>4 DEF Feed!Receive
    <3>2. Head(wire) \in Feed!Event /\ Head(wire) <= log /\ log' = log
      <4>1. Head(wire) = wire[1] /\ 1 \in 1..Len(wire) /\ wire[1] \in Feed!Event
        BY <1>1, <3>1, TailOf
      <4> QED
        BY <2>4, <4>1 DEF FeedLogged, Logged, Feed!Receive
    <3> QED
      BY <2>1, <2>2, <3>1, <3>2 DEF Feed!feed
  <2>5. Feed!Deliver \/ Feed!Receive \/ buf' = buf
    BY DEF Feed!Next, Feed!Emit, Feed!StreamOpens, Feed!Pause, Feed!Resume, Feed!Connect, Feed!HealthOk,
           Feed!Incompatible, Feed!RequestFails, Feed!HistoryAnswered, Feed!CatchupAnswered,
           Feed!DeliverEnds, Feed!StreamFails, Feed!feed
  <2> QED
    BY <2>1, <2>3, <2>4, <2>5
<1>8. Logged(pending)'
  <2>1. CASE pending' = pending
    BY <1>1, <1>5, <2>1 DEF FeedLogged, Logged
  <2>2. CASE pending' = <<>>
    BY <2>2 DEF Logged
  <2>3. CASE Feed!Receive /\ pending' = Feed!Bounded(pending, Head(wire), ReplayLimit)
    <3>1. wire # <<>> /\ log' = log
      BY <2>3 DEF Feed!Receive
    <3>2. Head(wire) \in Feed!Event /\ Head(wire) <= log
      <4>1. Head(wire) = wire[1] /\ 1 \in 1..Len(wire) /\ wire[1] \in Feed!Event
        BY <1>1, <3>1, TailOf
      <4> QED
        BY <4>1 DEF FeedLogged, Logged
    <3>3. \A i \in 1..Len(pending') : pending'[i] = Head(wire) \/ Holds(pending, pending'[i])
      BY <1>1, <2>3, <3>2, BoundedHolds
    <3> QED
      BY <3>1, <3>2, <3>3 DEF FeedLogged, Logged, Holds
  <2>4. \/ pending' = pending \/ pending' = <<>>
        \/ (Feed!Receive /\ pending' = Feed!Bounded(pending, Head(wire), ReplayLimit))
    BY DEF Feed!Next, Feed!Emit, Feed!StreamOpens, Feed!Pause, Feed!Resume, Feed!Connect, Feed!HealthOk,
           Feed!Incompatible, Feed!RequestFails, Feed!HistoryAnswered, Feed!CatchupAnswered, Feed!Deliver,
           Feed!DeliverEnds, Feed!Receive, Feed!StreamFails, Feed!attempt
  <2> QED
    BY <2>1, <2>2, <2>3, <2>4
<1>9. /\ Logged(history)' /\ Rising(history)'
      /\ pc' = "catchup" => \A i \in 1..Len(history'), e \in Feed!Event :
                              e <= history'[i] => e + limit' <= log' \/ Holds(history', e)
  <2>1. CASE Feed!HistoryAnswered
    <3>1. history' = Feed!Recent(limit) /\ log' = log /\ limit' = limit
      BY <2>1 DEF Feed!HistoryAnswered
    <3>2. /\ history' \in Seq(Feed!Event) /\ Spaced(history')
          /\ \A e \in Feed!Event : Holds(history', e) <=> e <= log /\ e + limit > log
      BY <1>1, <3>1, RecentRead DEF Feed!TypeOK
    <3>3. \A i \in 1..Len(history') : history'[i] \in Nat /\ history'[i] <= log
      <4>1. \A i \in 1..Len(history') : history'[i] \in Feed!Event /\ Holds(history', history'[i])
        BY <3>2 DEF Holds
      <4> QED
        BY <1>1, <3>2, <4>1
    <3>4. ASSUME NEW i \in 1..Len(history'), NEW j \in 1..Len(history'), i < j
          PROVE  history'[i] < history'[j]
      <4>1. history'[i] + (j - i) <= history'[j] /\ j - i >= 1 /\ history'[i] \in Nat /\ history'[j] \in Nat
        BY <3>2, <3>3, <3>4 DEF Spaced
      <4> QED
        BY <4>1
    <3>5. ASSUME NEW i \in 1..Len(history'), NEW e \in Feed!Event, e <= history'[i]
          PROVE  e + limit <= log \/ Holds(history', e)
      BY <1>1, <3>2, <3>3, <3>5
    <3> QED
      BY <3>1, <3>3, <3>4, <3>5 DEF Logged, Rising
  <2>2. CASE history' = history /\ (pc' = "catchup" => pc = "catchup" /\ limit' = limit)
    <3>1. Logged(history)' /\ Rising(history)'
      BY <1>1, <1>5, <2>2 DEF FeedLogged, Logged, Rising
    <3>2. ASSUME pc' = "catchup", NEW i \in 1..Len(history'), NEW e \in Feed!Event, e <= history'[i]
          PROVE  e + limit' <= log' \/ Holds(history', e)
      <4>1. e + limit <= log \/ Holds(history, e)
        BY <2>2, <3>2 DEF FeedLogged
      <4>2. e + limit <= log => e + limit' <= log'
        BY <1>1, <1>4, <2>2, <3>2
      <4> QED
        BY <2>2, <4>1, <4>2
    <3> QED
      BY <3>1, <3>2
  <2>3. CASE history' = <<>>
    BY <2>3 DEF Logged, Rising
  <2>4. \/ Feed!HistoryAnswered \/ history' = <<>>
        \/ (history' = history /\ (pc' = "catchup" => pc = "catchup" /\ limit' = limit))
    BY DEF Feed!Next, Feed!Emit, Feed!StreamOpens, Feed!Pause, Feed!Resume, Feed!Connect, Feed!HealthOk,
           Feed!Incompatible, Feed!RequestFails, Feed!CatchupAnswered, Feed!Deliver,
           Feed!DeliverEnds, Feed!Receive, Feed!StreamFails, Feed!attempt
  <2> QED
    BY <2>1, <2>2, <2>3, <2>4
<1>10. Logged(queue)'
  <2>1. CASE queue' = queue
    BY <1>1, <1>5, <2>1 DEF FeedLogged, Logged
  <2>2. CASE queue # <<>> /\ queue' = Tail(queue)
    <3>1. \A i \in 1..Len(queue') : queue'[i] = queue[i + 1] /\ i + 1 \in 1..Len(queue)
      BY <1>1, <2>2, TailOf
    <3>2. \A i \in 1..Len(queue) : queue[i] <= log'
      BY <1>1, <1>5 DEF FeedLogged, Logged
    <3> QED
      BY <3>1, <3>2 DEF Logged
  <2>3. CASE Feed!CatchupAnswered
    <3>1. queue' = history \o Feed!Recent(limit) \o pending /\ log' = log
      BY <2>3 DEF Feed!CatchupAnswered, Feed!daemon
    <3>2. /\ Feed!Recent(limit) \in Seq(Feed!Event)
          /\ \A e \in Feed!Event : Holds(Feed!Recent(limit), e) <=> e <= log /\ e + limit > log
      BY <1>1, RecentRead DEF Feed!TypeOK
    <3>3. \A e \in Feed!Event : Holds(history, e) \/ Holds(pending, e) => e <= log
      BY DEF FeedLogged, Logged, Holds
    <3>4. queue' \in Seq(Feed!Event)
      BY <1>1, <3>1, <3>2
    <3>5. \A i \in 1..Len(queue') : queue'[i] \in Feed!Event /\ Holds(queue', queue'[i])
      BY <3>4 DEF Holds
    <3>6. \A e : Holds(queue', e) <=> Holds(history, e) \/ Holds(Feed!Recent(limit), e) \/ Holds(pending, e)
      <4>1. /\ history \in Seq(Feed!Event) /\ Feed!Recent(limit) \in Seq(Feed!Event) /\ pending \in Seq(Feed!Event)
            /\ queue' = history \o Feed!Recent(limit) \o pending
        BY <1>1, <3>1, <3>2
      <4> QED
        BY <4>1, QueueOf DEF MadeOf
    <3> QED
      BY <3>1, <3>2, <3>3, <3>5, <3>6 DEF Logged
  <2>4. queue' = queue \/ (queue # <<>> /\ queue' = Tail(queue)) \/ Feed!CatchupAnswered
    BY DEF Feed!Next, Feed!Emit, Feed!StreamOpens, Feed!Pause, Feed!Resume, Feed!Connect, Feed!HealthOk,
           Feed!Incompatible, Feed!RequestFails, Feed!HistoryAnswered, Feed!Deliver,
           Feed!DeliverEnds, Feed!Receive, Feed!StreamFails, Feed!attempt
  <2> QED
    BY <2>1, <2>2, <2>3, <2>4
<1>11. \A x \in beyond', e \in Feed!Event : e <= x => e \in beyond'
  <2>1. CASE beyond' = beyond
    BY <2>1 DEF FeedLogged
  <2>2. CASE beyond' = beyond \cup {e \in Feed!Event : e + limit <= log}
    <3>1. ASSUME NEW x \in Feed!Event, NEW e \in Feed!Event, e <= x, x + limit <= log
          PROVE  e + limit <= log
      BY <1>1, <3>1
    <3> QED
      BY <2>2, <3>1 DEF FeedLogged
  <2>3. beyond' = beyond \/ beyond' = beyond \cup {e \in Feed!Event : e + limit <= log}
    BY DEF Feed!Next, Feed!Emit, Feed!StreamOpens, Feed!Pause, Feed!Resume, Feed!Connect, Feed!HealthOk,
           Feed!Incompatible, Feed!RequestFails, Feed!HistoryAnswered, Feed!CatchupAnswered, Feed!Deliver,
           Feed!DeliverEnds, Feed!Receive, Feed!StreamFails, Feed!ghosts
  <2> QED
    BY <2>1, <2>2, <2>3
<1> QED
  BY <1>6, <1>7, <1>8, <1>9, <1>10, <1>11 DEF FeedLogged

\* A frame that arrives in time is shown already, or follows all that is shown.
LEMMA FrameFollows ==
  ASSUME Feed!TypeOK, FeedRing, FeedLogged, FeedOrdered, FeedLive, wire # <<>>, NEW e \in Feed!Event, e = wire[1],
         e \notin beyond, ~(e + Ring <= log), ~Holds(buf, e)
  PROVE  /\ \A i \in 1..Len(buf) : buf[i] < e
         /\ \A f \in Feed!Event : f < e /\ (\A i \in 1..Len(buf) : buf[i] < f) => Covered(f)
<1>1. /\ log \in Nat /\ buf \in Seq(Feed!Event) /\ wire \in Seq(Feed!Event) /\ Feed!Event \subseteq Nat
      /\ Ring \in Nat /\ Ring >= 1
  BY FeedConstants DEF Feed!TypeOK, Feed!Event
<1>2. Len(wire) \in Nat /\ 1 \in 1..Len(wire) /\ Len(buf) \in Nat
  BY <1>1, TailOf
<1>3. e <= log
  BY <1>2 DEF FeedLogged, Logged
<1>4. ~(Len(buf) = Ring /\ e < buf[1])
  <2>1. SUFFICES ASSUME Len(buf) = Ring, e < buf[1]
                 PROVE  FALSE
    OBVIOUS
  <2>2. 1 \in 1..Len(buf) /\ Ring \in 1..Len(buf)
    BY <1>1, <2>1
  <2>3. buf[1] + (Ring - 1) <= buf[Ring]
    BY <1>1, <2>2 DEF FeedOrdered, Spaced
  <2>4. buf[Ring] <= log
    BY <2>2 DEF FeedLogged, Logged
  <2>5. buf[1] \in Nat /\ buf[Ring] \in Nat /\ e \in Nat
    <3>1. buf[1] \in Feed!Event /\ buf[Ring] \in Feed!Event
      BY <1>1, <2>2
    <3> QED
      BY <1>1, <3>1
  <2> QED
    BY <1>1, <2>1, <2>3, <2>4, <2>5
<1>5. ~Covered(e)
  BY <1>4 DEF Covered
<1>6. ASSUME NEW i \in 1..Len(buf)
      PROVE  buf[i] < e
  <2>1. ~(e <= buf[i])
    BY <1>5 DEF FeedOrdered
  <2>2. buf[i] \in Nat /\ e \in Nat
    BY <1>1, EventOf
  <2> QED
    BY <2>1, <2>2
<1>7. ASSUME NEW f \in Feed!Event, f < e
      PROVE  Covered(f)
  <2>1. f \in Nat /\ e \in Nat
    BY <1>1
  <2>2. Covered(f) \/ Unread(f)
    BY <1>1, <1>3, <1>7, <2>1 DEF FeedLive
  <2>3. ASSUME Holds(wire, f)
        PROVE  FALSE
    <3>1. PICK n \in 1..Len(wire) : wire[n] = f
      BY <2>3 DEF Holds
    <3>2. n = 1 \/ wire[1] < wire[n]
      BY <1>2, <3>1 DEF FeedLogged, Rising
    <3> QED
      BY <1>7, <2>1, <3>1, <3>2
  <2>4. ~(\A i \in 1..Len(wire) : wire[i] < f)
    BY <1>2, <1>7, <2>1
  <2> QED
    BY <2>2, <2>3, <2>4 DEF Unread
<1> QED
  BY <1>6, <1>7

LEMMA ReceiveShows ==
  ASSUME Feed!TypeOK, FeedRing, FeedLogged, disturbed = {}, disturbed' = {}, Feed!Receive, pc # "catchup",
         FeedOrdered, FeedLive
  PROVE  FeedOrdered' /\ FeedLive'
<1>1. /\ wire # <<>> /\ wire' = Tail(wire) /\ UNCHANGED <<log, link, beyond>> /\ Feed!Push(Head(wire))
      /\ Head(wire) \notin beyond /\ ~(Head(wire) + Ring <= log)
  BY DEF Feed!Receive
<1>2. /\ wire \in Seq(Feed!Event) /\ buf \in Seq(Feed!Event) /\ Len(buf) <= Ring
  BY DEF Feed!TypeOK, FeedRing
<1>3. /\ Head(wire) = wire[1] /\ wire[1] \in Feed!Event /\ 1 \in 1..Len(wire)
      /\ \A f : Holds(wire, f) => f = wire[1] \/ Holds(wire', f)
      /\ \A i \in 1..Len(wire') : wire'[i] = wire[i + 1] /\ i + 1 \in 1..Len(wire)
  BY <1>1, <1>2, TailOf
<1>4. PICK e \in Feed!Event : e = wire[1]
  BY <1>3
<1>5. FeedOrdered' /\ Covered(e)' /\ \A f \in Feed!Event : Covered(f) => Covered(f)'
  <2>1. CASE Holds(buf, e) /\ buf' = buf
    <3>1. \A f : Covered(f)' <=> Covered(f)
      BY <1>1, <2>1 DEF Covered, Holds
    <3>2. Covered(e)
      BY <2>1 DEF Covered
    <3>3. FeedOrdered'
      BY <2>1, <3>1 DEF FeedOrdered, Spaced
    <3> QED
      BY <3>1, <3>2, <3>3
  <2>2. CASE ~Holds(buf, e) /\ buf' = Feed!Bounded(buf, e, Ring)
    <3>1. /\ \A i \in 1..Len(buf) : buf[i] < e
          /\ \A f \in Feed!Event : f < e /\ (\A i \in 1..Len(buf) : buf[i] < f) => Covered(f)
      BY <1>1, <1>3, <1>4, <2>2, FrameFollows
    <3> QED
      BY <1>1, <1>2, <2>2, <3>1, PushFollows
  <2> QED
    BY <1>1, <1>3, <1>4, <2>1, <2>2, PushEffect DEF Feed!feed
<1>6. ASSUME NEW f \in Feed!Event, f <= log'
      PROVE  Covered(f)' \/ Unread(f)'
  <2>1. Covered(f) \/ Unread(f)
    BY <1>1, <1>6 DEF FeedLive
  <2>2. CASE Covered(f)
    BY <1>5, <2>2
  <2>3. CASE Holds(wire, f)
    <3>1. f = e \/ Holds(wire', f)
      BY <1>3, <1>4, <2>3
    <3> QED
      BY <1>5, <3>1 DEF Unread
  <2>4. CASE link \in {"closed", "none"} /\ \A i \in 1..Len(wire) : wire[i] < f
    BY <1>1, <1>3, <2>4 DEF Unread
  <2> QED
    BY <2>1, <2>2, <2>3, <2>4 DEF Unread
<1> QED
  BY <1>5, <1>6 DEF FeedLive

\* What the queue holds when the second read is answered.
LEMMA CatchupQueue ==
  ASSUME Feed!TypeOK, FeedLogged, disturbed' = {}, Feed!CatchupAnswered
  PROVE  /\ FeedHanded'
         /\ \A i \in 1..Len(queue') : Holds(history, queue'[i]) \/ Holds(Feed!Recent(limit), queue'[i])
         /\ \A e : Holds(history, e) \/ Holds(Feed!Recent(limit), e) => Holds(queue', e)
<1> DEFINE Reread == Feed!Recent(limit)
<1>1. /\ queue' = history \o Reread \o pending /\ pc = "catchup" /\ reconciled' = {}
      /\ beyond' = beyond \cup {e \in Feed!Event : e + limit <= log} /\ UNCHANGED <<log, link, wire>>
  BY DEF Feed!CatchupAnswered, Feed!daemon
<1>2. /\ log \in Nat /\ limit \in Nat /\ history \in Seq(Feed!Event) /\ pending \in Seq(Feed!Event)
      /\ Feed!Event \subseteq Nat
  BY FeedConstants DEF Feed!TypeOK, Feed!Event
<1>3. /\ Reread \in Seq(Feed!Event) /\ Spaced(Reread)
      /\ \A e \in Feed!Event : Holds(Reread, e) <=> e <= log /\ e + limit > log
  BY <1>2, RecentRead DEF Feed!TypeOK
<1>4. \A i \in 1..Len(pending) : pending[i] + limit > log /\ pending[i] <= log /\ pending[i] \in Feed!Event
  <2>1. \A e \in Feed!Elements(pending) : ~(e + limit <= log)
    BY DEF Feed!CatchupAnswered
  <2>2. ASSUME NEW i \in 1..Len(pending)
        PROVE  pending[i] + limit > log /\ pending[i] <= log /\ pending[i] \in Feed!Event
    <3>1. pending[i] \in Feed!Event /\ Holds(pending, pending[i])
      BY <1>2 DEF Holds
    <3>2. pending[i] \in Feed!Elements(pending)
      BY <1>2, <3>1, ElementsHeld
    <3>3. pending[i] <= log
      BY DEF FeedLogged, Logged
    <3>4. ~(pending[i] + limit <= log) /\ pending[i] \in Nat
      BY <2>1, <3>1, <3>2, EventOf
    <3> QED
      BY <1>2, <3>1, <3>3, <3>4
  <2> QED
    BY <2>2
<1>5. \A i \in 1..Len(pending) : Holds(Reread, pending[i])
  BY <1>3, <1>4
<1> HIDE DEF Reread
<1>0. /\ history \in Seq(Feed!Event) /\ Reread \in Seq(Feed!Event) /\ pending \in Seq(Feed!Event)
      /\ queue' = history \o Reread \o pending
  BY <1>1, <1>2, <1>3
<1>6. /\ Len(queue') = Len(history) + Len(Reread) + Len(pending)
      /\ \A i \in 1..Len(history) : queue'[i] = history[i]
      /\ \A i \in 1..Len(Reread) : queue'[Len(history) + i] = Reread[i]
      /\ \A i \in 1..Len(pending) : queue'[Len(history) + Len(Reread) + i] = pending[i]
      /\ \A i \in 1..Len(queue') : \/ i \in 1..Len(history)
                                   \/ \E m \in 1..Len(Reread) : i = Len(history) + m
                                   \/ \E m \in 1..Len(pending) : i = Len(history) + Len(Reread) + m
      /\ \A e : Holds(queue', e) <=> Holds(history, e) \/ Holds(Reread, e) \/ Holds(pending, e)
  <2>1. MadeOf(history \o Reread \o pending, history, Reread, pending)
    BY <1>0, QueueOf, Zenon
  <2>2. MadeOf(queue', history, Reread, pending)
    BY <1>0, <2>1, Zenon
  <2> QED
    BY <2>2 DEF MadeOf
<1>7. Len(history) \in Nat /\ Len(Reread) \in Nat /\ Len(pending) \in Nat
  BY <1>2, <1>3
<1>8. \A e : Holds(pending, e) => Holds(Reread, e)
  BY <1>5 DEF Holds
<1>9. queue' \in Seq(Feed!Event) /\ \A i \in 1..Len(queue') : queue'[i] \in Feed!Event /\ Holds(queue', queue'[i])
  <2>1. queue' \in Seq(Feed!Event)
    BY <1>1, <1>2, <1>3
  <2> QED
    BY <2>1 DEF Holds
<1>10. ASSUME NEW i \in 1..Len(queue'), NEW j \in 1..Len(queue'), i < j, ~(queue'[i] < queue'[j])
       PROVE  \E k \in 1..i : queue'[k] = queue'[j]
  <2> DEFINE u == queue'[i]
             v == queue'[j]
  <2>0. v \in Feed!Event /\ u \in Feed!Event /\ u \in Nat /\ v \in Nat /\ v <= u
    <3>1. v \in Feed!Event /\ u \in Feed!Event
      BY <1>9
    <3>2. u \in Nat /\ v \in Nat
      BY <3>1, EventOf
    <3> QED
      BY <1>10, <3>1, <3>2
  <2>1. CASE j \in 1..Len(history)
    <3>1. i \in 1..Len(history)
      BY <1>7, <1>10, <2>1
    <3> QED
      BY <1>6, <1>10, <2>1, <3>1 DEF FeedLogged, Rising
  <2>2. CASE ~(j \in 1..Len(history))
    <3>1. Holds(Reread, v)
      <4>1. CASE \E m \in 1..Len(Reread) : j = Len(history) + m
        BY <1>6, <4>1 DEF Holds
      <4>2. CASE \E m \in 1..Len(pending) : j = Len(history) + Len(Reread) + m
        BY <1>5, <1>6, <4>2
      <4> QED
        BY <1>6, <2>2, <4>1, <4>2
    <3>2. v <= log /\ v + limit > log
      BY <1>3, <2>0, <3>1
    <3>3. PICK m \in 1..Len(Reread) : Reread[m] = v
      BY <3>1 DEF Holds
    <3> HIDE DEF u, v
    <3>4. queue'[Len(history) + m] = v
      BY <1>6, <3>3
    <3>5. CASE i \in 1..Len(history)
      <4>1. history[i] = u
        BY <1>6, <3>5 DEF u
      <4>2. Holds(history, v)
        BY <1>1, <1>2, <2>0, <3>2, <3>5, <4>1 DEF FeedLogged
      <4>3. PICK k \in 1..Len(history) : history[k] = v
        BY <4>2 DEF Holds
      <4>4. ~(i < k)
        BY <2>0, <3>5, <4>1, <4>3 DEF FeedLogged, Rising
      <4>5. k \in 1..i
        BY <1>7, <3>5, <4>4
      <4> QED
        BY <1>6, <4>3, <4>5 DEF v
    <3>6. CASE \E n \in 1..Len(Reread) : i = Len(history) + n
      <4>1. PICK n \in 1..Len(Reread) : i = Len(history) + n
        BY <3>6
      <4>2. Reread[n] = u
        BY <1>6, <4>1 DEF u
      <4>3. m <= n
        <5>1. n <= m => u + (m - n) <= v
          BY <1>3, <3>3, <4>2 DEF Spaced
        <5> QED
          BY <1>7, <2>0, <5>1
      <4>4. Len(history) + m \in 1..i
        BY <1>7, <4>1, <4>3
      <4> QED
        BY <3>4, <4>4 DEF v
    <3>7. CASE \E n \in 1..Len(pending) : i = Len(history) + Len(Reread) + n
      <4>1. Len(history) + m \in 1..i
        BY <1>7, <3>7
      <4> QED
        BY <3>4, <4>1 DEF v
    <3> QED
      BY <1>6, <3>5, <3>6, <3>7
  <2> QED
    BY <2>1, <2>2
<1>11. ASSUME NEW e \in Feed!Event, e <= log
       PROVE  e \in beyond' \/ Given(e)'
  <2>1. e + limit <= log \/ e + limit > log
    BY <1>2
  <2>2. e + limit > log => Holds(queue', e)
    BY <1>3, <1>6, <1>11
  <2> QED
    BY <1>1, <2>1, <2>2 DEF Given
<1>12. ASSUME NEW x \in Feed!Event, NEW e \in Feed!Event, Given(x)', e <= x
       PROVE  e \in beyond' \/ Given(e)'
  <2>1. Holds(history, x) \/ Holds(Reread, x)
    BY <1>1, <1>6, <1>8, <1>12 DEF Given
  <2>2. x <= log
    BY <1>3, <2>1 DEF FeedLogged, Logged, Holds
  <2>3. e <= log
    BY <1>2, <1>12, <2>2
  <2> QED
    BY <1>11, <2>3
<1>13. FeedHanded'
  BY <1>1, <1>10, <1>11, <1>12 DEF FeedHanded
<1> QED
  BY <1>6, <1>8, <1>9, <1>13 DEF Reread

\* The queue follows what is shown, or brings a ring of older events.
LEMMA CatchupShows ==
  ASSUME Feed!TypeOK, FeedRing, FeedLogged, disturbed' = {}, Feed!CatchupAnswered, FeedOrdered
  PROVE  FeedFollows' \/ FeedRenews'
<1> DEFINE Old1 == Feed!Older
<1>1. /\ reconciled' = {} /\ beyond' = beyond \cup {e \in Feed!Event : e + limit <= log} /\ buf' = buf
  BY DEF Feed!CatchupAnswered, Feed!feed
<1>2. /\ buf \in Seq(Feed!Event) /\ history \in Seq(Feed!Event) /\ Feed!Recent(limit) \in Seq(Feed!Event)
      /\ Feed!Event \subseteq Nat /\ Ring \in Nat /\ Ring >= 1 /\ Len(buf) \in Nat /\ Len(buf) <= Ring
  <2>1. limit \in Nat /\ log \in 0..MaxLog
    BY FeedConstants DEF Feed!TypeOK
  <2>2. Feed!Recent(limit) \in Seq(Feed!Event)
    BY <2>1, RecentRead
  <2>3. buf \in Seq(Feed!Event) /\ history \in Seq(Feed!Event) /\ Len(buf) <= Ring
    BY DEF Feed!TypeOK, FeedRing
  <2> QED
    BY <2>2, <2>3, FeedConstants, EventOf
<1>3. /\ \A i \in 1..Len(queue') : Holds(history, queue'[i]) \/ Holds(Feed!Recent(limit), queue'[i])
      /\ \A e : Holds(history, e) \/ Holds(Feed!Recent(limit), e) => Holds(queue', e)
  BY CatchupQueue
<1>4. /\ Feed!Older \in SUBSET Feed!Event
      /\ \A e : e \in Feed!Older <=> /\ Holds(history, e) \/ Holds(Feed!Recent(limit), e)
                                     /\ ~Holds(buf, e) /\ \E i \in 1..Len(buf) : e < buf[i]
  <2>1. \A s \in Seq(Feed!Event) : \A e : e \in Feed!Elements(s) <=> Holds(s, e)
    BY ElementsHeld
  <2>2. \A s \in Seq(Feed!Event) : \A e : Holds(s, e) => e \in Feed!Event
    BY DEF Holds
  <2>3. \A e : (\E b \in Feed!Elements(buf) : e < b) <=> \E i \in 1..Len(buf) : e < buf[i]
    BY <1>2, <2>1 DEF Holds
  <2> QED
    BY <1>2, <2>1, <2>2, <2>3 DEF Feed!Older
<1>5. \A f \in Feed!Event : Covered(f) => Covered(f)'
  BY <1>1 DEF Covered, Holds
<1>6. CASE Cardinality(Feed!Older) = 0
  <2>1. Feed!Older = {}
    BY <1>4, <1>6, EventSets, FS_EmptySet
  <2>2. FeedOrdered'
    BY <1>1, <1>5 DEF FeedOrdered, Spaced
  <2>3. ASSUME NEW i \in 1..Len(queue'), ~Holds(buf', queue'[i])
        PROVE  \A j \in 1..Len(buf') : buf'[j] < queue'[i]
    <3>1. queue'[i] \in Feed!Event
      BY <1>2, <1>3 DEF Holds
    <3>2. \A j \in 1..Len(buf) : ~(queue'[i] < buf[j]) /\ buf[j] # queue'[i] /\ buf[j] \in Feed!Event
      <4>1. ~Holds(buf, queue'[i])
        BY <1>1, <2>3 DEF Holds
      <4>2. \A j \in 1..Len(buf) : ~(queue'[i] < buf[j])
        BY <1>3, <1>4, <2>1, <4>1
      <4> QED
        BY <1>2, <4>1, <4>2 DEF Holds
    <3>3. \A j \in 1..Len(buf) : buf[j] \in Nat /\ queue'[i] \in Nat
      BY <3>1, <3>2, EventOf
    <3> QED
      BY <1>1, <3>2, <3>3
  <2> QED
    BY <1>1, <2>2, <2>3 DEF FeedFollows
<1>7. CASE Cardinality(Feed!Older) >= Ring
  <2>0. Cardinality(Feed!Older) \in Nat /\ \E t : t \in Feed!Older
    <3>1. Cardinality(Feed!Older) \in Nat /\ (Cardinality(Feed!Older) >= 1 => \E t : t \in Feed!Older)
      BY <1>4, EventSets
    <3> QED
      BY <1>2, <1>7, <3>1
  <2>1. Len(buf) \in 1..Len(buf)
    BY <1>2, <1>4, <2>0
  <2>2. PICK T \in SUBSET Feed!Event : T = Feed!Older
    BY <1>4
  <2>3. \A t \in T : Holds(queue', t) /\ t \notin reconciled' /\ ~Holds(buf', t)
    BY <1>1, <1>3, <1>4, <2>2 DEF Holds
  <2>4. ASSUME NEW i \in 1..Len(buf), buf[i] \notin beyond', NEW t \in T
        PROVE  t < buf[i]
    <3>1. t \in Feed!Event /\ buf[i] \in Feed!Event /\ ~Holds(buf, t)
      BY <1>2, <1>4, <2>2
    <3>2. t # buf[i]
      BY <3>1 DEF Holds
    <3>0. t \in Nat /\ buf[i] \in Nat /\ buf[1] \in Nat
      <4>1. 1 \in 1..Len(buf)
        BY <1>2
      <4> QED
        BY <1>2, <3>1, <4>1, EventOf
    <3>3. SUFFICES ASSUME buf[i] < t
                   PROVE  FALSE
      BY <3>0, <3>2
    <3>4. t \notin beyond
      <4>1. buf[i] <= t /\ buf[i] \notin beyond
        BY <1>1, <2>4, <3>0, <3>3
      <4> QED
        BY <3>1, <4>1 DEF FeedLogged
    <3>5. PICK j \in 1..Len(buf) : t < buf[j]
      BY <1>4, <2>2
    <3>6. Covered(t)
      <4>1. buf[j] \in Nat
        BY <1>2, EventOf
      <4>2. t <= buf[j]
        BY <3>0, <3>5, <4>1
      <4> QED
        BY <3>1, <4>2 DEF FeedOrdered
    <3>7. t < buf[1]
      BY <3>1, <3>4, <3>6 DEF Covered
    <3>8. buf[1] + (i - 1) <= buf[i] /\ buf[1] \in Feed!Event
      <4>1. 1 \in 1..Len(buf) /\ 1 <= i
        BY <1>2
      <4> QED
        BY <1>2, <4>1 DEF FeedOrdered, Spaced
    <3>9. i \in Nat /\ i >= 1
      BY <1>2
    <3> QED
      BY <3>0, <3>3, <3>7, <3>8, <3>9
  <2>5. Cardinality(T) + Len(buf') >= Ring + Len(buf)
    BY <1>1, <1>2, <1>7, <2>0, <2>2
  <2>6. \A i \in (Len(buf) + 1)..Len(buf') : FALSE
    BY <1>1, <1>2
  <2>7. PICK k \in 1..Len(buf) : k = Len(buf)
    BY <2>1
  <2>8. Renews(k, T)'
    BY <1>1, <2>3, <2>4, <2>5, <2>6, <2>7 DEF Renews
  <2> QED
    BY <1>1, <2>8 DEF FeedRenews
<1>8. Cardinality(Feed!Older) \in Nat
  BY <1>4, EventSets
<1>9. ~(Cardinality(Feed!Older) \in 1..(Ring - 1))
  <2>1. Feed!Cardinality(Feed!Older) = Cardinality(Feed!Older)
    BY Zenon DEF Feed!Cardinality, Cardinality
  <2>2. ~(Feed!Cardinality(Feed!Older) \in 1..(Ring - 1))
    BY DEF Feed!CatchupAnswered
  <2> QED
    BY <2>1, <2>2, Zenon
<1> QED
  BY <1>2, <1>6, <1>7, <1>8, <1>9

LEMMA EmitUnread ==
  ASSUME Feed!TypeOK, FeedHeld, FeedLogged, disturbed' = {}, Feed!Emit, pc # "catchup", NEW f \in Feed!Event, f <= log'
  PROVE  Unread(f)' \/ (f <= log /\ (Unread(f) => Unread(f)'))
<1>1. /\ log \in Nat /\ wire \in Seq(Feed!Event) /\ log' = log + 1 /\ log + 1 \in Feed!Event /\ f \in Nat
      /\ link \in {"none", "connecting", "open", "closed"}
  BY FeedConstants, EventOf DEF Feed!TypeOK, Feed!Emit, Feed!Event
<1>2. link # "connecting"
  BY DEF Feed!Emit
<1>3. f <= log \/ f = log + 1
  BY <1>1
<1>4. ASSUME f = log + 1
      PROVE  \A i \in 1..Len(wire) : wire[i] < f
  <2>1. \A i \in 1..Len(wire) : wire[i] <= log /\ wire[i] \in Nat
    BY <1>1, EventOf DEF FeedLogged, Logged
  <2> QED
    BY <1>1, <1>4, <2>1
<1>5. CASE link = "open" /\ Len(wire) = Frames
  <2>1. link' = "closed" /\ wire' = wire
    BY <1>5 DEF Feed!Emit
  <2> QED
    BY <1>3, <1>4, <1>5, <2>1 DEF Unread, Holds
<1>6. CASE link = "open" /\ Len(wire) # Frames
  <2>1. link' = "open" /\ wire' = Append(wire, log + 1)
    BY <1>6 DEF Feed!Emit
  <2>2. Len(wire) \in Nat /\ Len(wire') = Len(wire) + 1
    BY <1>1, <2>1
  <2>3. \A i \in 1..Len(wire) : wire'[i] = wire[i]
    BY <1>1, <2>1
  <2>4. wire'[Len(wire) + 1] = log + 1
    BY <1>1, <2>1
  <2>5. Len(wire) + 1 \in 1..Len(wire') /\ \A i \in 1..Len(wire) : i \in 1..Len(wire')
    BY <2>2
  <2> QED
    BY <1>3, <1>6, <2>1, <2>3, <2>4, <2>5 DEF Unread, Holds
<1>7. CASE link \in {"none", "closed"}
  <2>1. link' = link /\ wire' = wire
    BY <1>7 DEF Feed!Emit
  <2> QED
    BY <1>3, <1>4, <1>7, <2>1 DEF Unread, Holds
<1> QED
  BY <1>1, <1>2, <1>5, <1>6, <1>7

LEMMA ShowsStep ==
  ASSUME Feed!TypeOK, FeedHeld, FeedRing, FeedLogged, FeedShows, Feed!Next
  PROVE  FeedShows'
<1>1. disturbed \subseteq disturbed'
  BY DEF Feed!Next, Feed!Emit, Feed!StreamOpens, Feed!Pause, Feed!Resume, Feed!Connect, Feed!HealthOk,
         Feed!Incompatible, Feed!RequestFails, Feed!HistoryAnswered, Feed!CatchupAnswered, Feed!Deliver,
         Feed!DeliverEnds, Feed!Receive, Feed!StreamFails, Feed!ghosts
<1> SUFFICES ASSUME disturbed' = {}
             PROVE  FeedShows'
  BY DEF FeedShows
<1>2. disturbed = {}
  BY <1>1
<1>3. /\ pc # "deliver" => FeedOrdered
      /\ pc \notin {"catchup", "deliver"} => FeedLive
      /\ pc = "deliver" => FeedHanded /\ (FeedFollows \/ FeedRenews)
  BY <1>2 DEF FeedShows
<1>4. ASSUME UNCHANGED <<buf, beyond>>
      PROVE  (\A f : Covered(f)' <=> Covered(f)) /\ (FeedOrdered => FeedOrdered')
  BY <1>4 DEF Covered, Holds, FeedOrdered, Spaced
<1>5. CASE Feed!Emit
  <2>1. UNCHANGED <<buf, beyond, pc, queue, reconciled>>
    BY <1>5 DEF Feed!Emit, Feed!attempt, Feed!feed
  <2>2. CASE pc = "catchup"
    BY <1>3, <1>4, <2>1, <2>2 DEF FeedShows
  <2>3. CASE pc # "catchup" /\ pc # "deliver"
    <3>1. FeedLive'
      BY <1>3, <1>4, <1>5, <2>1, <2>3, EmitUnread DEF FeedLive
    <3> QED
      BY <1>3, <1>4, <2>1, <2>3, <3>1 DEF FeedShows
  <2>4. CASE pc = "deliver"
    <3>1. \A e : Given(e)' <=> Given(e)
      BY <2>1 DEF Given, Holds
    <3>2. \A e \in Feed!Event : e <= log' => e \in beyond' \/ Given(e)' \/ Unread(e)'
      BY <1>3, <1>5, <2>1, <2>4, <3>1, EmitUnread DEF FeedHanded
    <3>3. FeedHanded'
      BY <1>3, <2>1, <2>4, <3>1, <3>2 DEF FeedHanded
    <3>4. FeedFollows => FeedFollows'
      BY <1>4, <2>1 DEF FeedFollows, Holds
    <3>5. FeedRenews => FeedRenews'
      BY <2>1 DEF FeedRenews, Renews, Holds
    <3> QED
      BY <1>3, <2>1, <2>4, <3>3, <3>4, <3>5 DEF FeedShows
  <2> QED
    BY <2>2, <2>3, <2>4
<1>6. CASE Feed!StreamOpens
  <2>1. /\ UNCHANGED <<buf, beyond, pc, log, wire>> /\ link = "connecting" /\ pc # "deliver"
    BY <1>6 DEF Feed!StreamOpens, Feed!attempt, Feed!feed, Feed!ghosts
  <2>2. FeedLive => FeedLive'
    BY <1>4, <2>1 DEF FeedLive, Unread, Holds
  <2> QED
    BY <1>3, <1>4, <2>1, <2>2 DEF FeedShows
<1>7. CASE Feed!Pause \/ Feed!Resume
  <2>1. UNCHANGED <<buf, beyond, pc, log, wire, link>> /\ pc # "deliver"
    BY <1>7 DEF Feed!Pause, Feed!Resume, Feed!attempt, Feed!daemon, Feed!ghosts
  <2>2. FeedLive => FeedLive'
    BY <1>4, <2>1 DEF FeedLive, Unread, Holds
  <2> QED
    BY <1>3, <1>4, <2>1, <2>2 DEF FeedShows
<1>8. CASE Feed!Connect \/ Feed!HealthOk \/ Feed!Incompatible
  <2>1. /\ UNCHANGED <<buf, beyond, log, wire, link>>
        /\ pc \notin {"catchup", "deliver"} /\ pc' \notin {"catchup", "deliver"}
    BY <1>8 DEF Feed!Connect, Feed!HealthOk, Feed!Incompatible, Feed!daemon, Feed!feed, Feed!ghosts
  <2>2. FeedLive => FeedLive'
    BY <1>4, <2>1 DEF FeedLive, Unread, Holds
  <2> QED
    BY <1>3, <1>4, <2>1, <2>2 DEF FeedShows
<1>9. CASE Feed!RequestFails \/ Feed!StreamFails
  <2>1. UNCHANGED <<buf, beyond>> /\ link' = "none" /\ wire' = <<>> /\ pc # "deliver" /\ pc' # "deliver"
    BY <1>9 DEF Feed!RequestFails, Feed!StreamFails, Feed!Breaks, Feed!feed, Feed!ghosts
  <2>2. \A f : Unread(f)'
    BY <2>1 DEF Unread
  <2> QED
    BY <1>3, <1>4, <2>1, <2>2 DEF FeedShows, FeedLive
<1>10. CASE Feed!HistoryAnswered
  <2>1. UNCHANGED <<buf, beyond>> /\ pc = "history" /\ pc' = "catchup"
    BY <1>10 DEF Feed!HistoryAnswered, Feed!feed, Feed!ghosts
  <2> QED
    BY <1>3, <1>4, <2>1 DEF FeedShows
<1>11. CASE Feed!CatchupAnswered
  <2>1. pc = "catchup" /\ pc' = "deliver"
    BY <1>11 DEF Feed!CatchupAnswered
  <2> QED
    BY <1>3, <1>11, <2>1, CatchupQueue, CatchupShows DEF FeedShows
<1>12. CASE Feed!Deliver
  <2>1. pc = "deliver" /\ pc' = "deliver"
    BY <1>12, DeliverShape
  <2>2. FeedHanded'
    BY <1>3, <1>12, <2>1, DeliverShape, HandedStep
  <2> QED
    BY <1>3, <1>12, <2>1, <2>2, FollowsStep, RenewsStep DEF FeedShows
<1>13. CASE Feed!DeliverEnds
  <2>1. /\ pc = "deliver" /\ pc' = "idle" /\ queue = <<>> /\ UNCHANGED <<buf, beyond, log, wire, link>>
    BY <1>13 DEF Feed!DeliverEnds, Feed!daemon, Feed!feed, Feed!ghosts
  <2>2. \A e : ~Holds(queue, e)
    BY <2>1 DEF Holds
  <2>3. ~FeedRenews
    <3>1. SUFFICES ASSUME NEW k \in 1..Len(buf), NEW T \in SUBSET Feed!Event, Renews(k, T)
                   PROVE  FALSE
      BY DEF FeedRenews
    <3>2. T = {}
      BY <2>2, <3>1 DEF Renews
    <3>3. Cardinality(T) = 0
      BY <3>2, FS_EmptySet
    <3>4. Len(buf) \in Nat /\ Len(buf) <= Ring /\ Ring \in Nat
      BY FeedConstants DEF Feed!TypeOK, FeedRing
    <3> QED
      BY <3>1, <3>3, <3>4 DEF Renews
  <2>4. FeedFollows /\ FeedHanded
    BY <1>3, <2>1, <2>3
  <2>5. FeedLive'
    <3>1. ASSUME NEW f \in Feed!Event, f <= log'
          PROVE  Covered(f)' \/ Unread(f)'
      <4>1. f \in beyond \/ Given(f) \/ Unread(f)
        BY <2>1, <2>4, <3>1 DEF FeedHanded
      <4>2. f \in beyond \/ Given(f) => Covered(f)
        BY <2>2, <2>4 DEF Given, FeedFollows, Covered
      <4>3. Unread(f) => Unread(f)'
        BY <2>1 DEF Unread, Holds
      <4> QED
        BY <1>4, <2>1, <4>1, <4>2, <4>3
    <3> QED
      BY <3>1 DEF FeedLive
  <2> QED
    BY <1>4, <2>1, <2>4, <2>5 DEF FeedShows, FeedFollows
<1>14. CASE Feed!Receive
  <2>1. pc' = pc /\ pc # "deliver" /\ beyond' = beyond
    BY <1>14 DEF Feed!Receive
  <2>2. CASE pc = "catchup"
    <3>1. buf' = buf
      BY <1>14, <2>2 DEF Feed!Receive, Feed!feed
    <3> QED
      BY <1>3, <1>4, <2>1, <2>2, <3>1 DEF FeedShows
  <2>3. CASE pc # "catchup"
    BY <1>2, <1>3, <1>14, <2>1, <2>3, ReceiveShows DEF FeedShows
  <2> QED
    BY <2>2, <2>3
<1> QED
  BY <1>5, <1>6, <1>7, <1>8, <1>9, <1>10, <1>11, <1>12, <1>13, <1>14 DEF Feed!Next

FeedInv == Feed!TypeOK /\ FeedHeld /\ FeedRing /\ FeedLogged /\ FeedShows

LEMMA FeedStep ==
  ASSUME FeedInv, [Feed!Next]_(Feed!vars)
  PROVE  FeedInv'
<1>1. CASE Feed!Next
  BY <1>1, FeedTypes, HeldStep, RingStep, LoggedStep, ShowsStep DEF FeedInv
<1>2. CASE UNCHANGED Feed!vars
  <2>1. UNCHANGED <<log, link, wire, held, pc, limit, reconnecting, streamFailed, history, pending>>
    BY <1>2 DEF Feed!vars
  <2>2. UNCHANGED <<queue, reconciled, status, buf, paused, frozen, arrived, beyond, disturbed, budget>>
    BY <1>2 DEF Feed!vars
  <2>3. Feed!TypeOK'
    BY <2>1, <2>2 DEF FeedInv, Feed!TypeOK
  <2>4. FeedHeld' /\ FeedRing' /\ FeedLogged'
    BY <2>1, <2>2 DEF FeedInv, FeedHeld, FeedRing, FeedLogged, Logged, Rising, Holds
  <2>5. \A e : (Covered(e)' <=> Covered(e)) /\ (Given(e)' <=> Given(e)) /\ (Unread(e)' <=> Unread(e))
    BY <2>1, <2>2 DEF Covered, Given, Unread, Holds
  <2>6. (FeedOrdered' <=> FeedOrdered) /\ (FeedLive' <=> FeedLive)
    BY <2>1, <2>2, <2>5 DEF FeedOrdered, FeedLive, Spaced
  <2>7. FeedHanded => FeedHanded'
    BY <2>1, <2>2, <2>5 DEF FeedHanded
  <2>8. FeedFollows => FeedFollows'
    BY <2>2, <2>5, <2>6 DEF FeedFollows, Holds
  <2>9. FeedRenews => FeedRenews'
    BY <2>2 DEF FeedRenews, Renews, Holds
  <2>10. FeedShows'
    BY <2>1, <2>2, <2>6, <2>7, <2>8, <2>9 DEF FeedInv, FeedShows
  <2> QED
    BY <2>3, <2>4, <2>10 DEF FeedInv
<1> QED
  BY <1>1, <1>2

LEMMA FeedInit ==
  ASSUME Feed!Init
  PROVE  FeedInv
<1>1. <<>> \in Seq(Feed!Event) /\ Len(<<>>) = 0 /\ \A e : ~Holds(<<>>, e)
  BY DEF Holds
<1>2. /\ buf = <<>> /\ arrived = <<>> /\ frozen = <<>> /\ wire = <<>>
      /\ history = <<>> /\ pending = <<>> /\ queue = <<>> /\ reconciled = {} /\ beyond = {} /\ disturbed = {}
      /\ log = 0 /\ link = "none" /\ held = FALSE /\ pc = "idle" /\ status = "none" /\ paused = FALSE
  BY DEF Feed!Init
<1>3. Feed!TypeOK
  <2>1. budget \in [breaks: 0..MaxBreaks, fails: 0..MaxFails]
    BY FeedConstants DEF Feed!Init
  <2>2. limit \in {FirstLimit, ReplayLimit} /\ reconnecting \in BOOLEAN /\ streamFailed \in BOOLEAN
    BY DEF Feed!Init
  <2>3. log \in 0..MaxLog
    BY <1>2, FeedConstants
  <2>4. /\ buf \in Seq(Feed!Event) /\ arrived \in Seq(Feed!Event) /\ frozen \in Seq(Feed!Event)
        /\ wire \in Seq(Feed!Event) /\ history \in Seq(Feed!Event) /\ pending \in Seq(Feed!Event)
        /\ queue \in Seq(Feed!Event)
    BY <1>1, <1>2
  <2>5. /\ link \in {"none", "connecting", "open", "closed"} /\ status \in {"none", "ok", "warn", "err"}
        /\ pc \in {"idle", "health", "history", "catchup", "deliver"}
    BY <1>2
  <2>6. held \in BOOLEAN /\ paused \in BOOLEAN
    BY <1>2
  <2>7. reconciled \in SUBSET Feed!Event /\ beyond \in SUBSET Feed!Event /\ disturbed \in SUBSET Feed!Disturbances
    BY <1>2
  <2> QED
    BY <2>1, <2>2, <2>3, <2>4, <2>5, <2>6, <2>7 DEF Feed!TypeOK
<1>4. FeedHeld
  BY <1>2 DEF FeedHeld
<1>5. FeedRing
  <2>1. Len(buf) = 0 /\ Len(arrived) = 0 /\ ~paused
    BY <1>1, <1>2
  <2> QED
    BY <2>1, FeedConstants DEF FeedRing
<1>6. FeedLogged
  <2>1. \A s : s = <<>> => Rising(s) /\ Logged(s) /\ Len(s) = 0
    BY <1>1 DEF Rising, Logged
  <2> QED
    BY <1>1, <1>2, <2>1 DEF FeedLogged
<1>7. FeedOrdered
  BY <1>1, <1>2 DEF FeedOrdered, Spaced
<1>8. FeedLive
  BY <1>2, EventOf DEF FeedLive
<1> QED
  BY <1>2, <1>3, <1>4, <1>5, <1>6, <1>7, <1>8 DEF FeedInv, FeedShows

LEMMA FeedMeans ==
  ASSUME FeedInv
  PROVE  Feed!TypeOK /\ Feed!RingSound /\ Feed!Contiguous /\ Feed!ResumeShowsCounted /\ Feed!LiveMeansAttached
<1>1. /\ buf \in Seq(Feed!Event) /\ frozen \in Seq(Feed!Event) /\ arrived \in Seq(Feed!Event)
      /\ Len(buf) \in Nat /\ Len(arrived) \in Nat
  BY DEF FeedInv, Feed!TypeOK
<1>2. Feed!RingSound
  BY DEF FeedInv, FeedRing, Feed!RingSound, Feed!Distinct
<1>3. Feed!ResumeShowsCounted
  <2>1. ASSUME paused, NEW i \in 1..Len(buf)
        PROVE  Holds(frozen, buf[i]) \/ Holds(arrived, buf[i])
    <3>1. CASE i \in 1..(Len(buf) - Len(arrived))
      BY <2>1, <3>1 DEF FeedInv, FeedRing
    <3>2. CASE Len(buf) - Len(arrived) < i
      <4>1. /\ i - (Len(buf) - Len(arrived)) \in 1..Len(arrived)
            /\ Len(buf) - Len(arrived) + (i - (Len(buf) - Len(arrived))) = i
        BY <1>1, <3>2
      <4>2. arrived[i - (Len(buf) - Len(arrived))] = buf[i]
        BY <2>1, <4>1 DEF FeedInv, FeedRing
      <4> QED
        BY <4>1, <4>2 DEF Holds
    <3> QED
      BY <1>1, <3>1, <3>2
  <2>2. \A s \in Seq(Feed!Event) : \A e : e \in Feed!Elements(s) <=> Holds(s, e)
    BY ElementsHeld
  <2>3. ASSUME paused, NEW e \in Feed!Elements(buf)
        PROVE  e \in Feed!Elements(frozen) \cup Feed!Elements(arrived)
    <3>1. PICK i \in 1..Len(buf) : buf[i] = e
      BY <1>1, <2>2, <2>3 DEF Holds
    <3>2. Holds(frozen, e) \/ Holds(arrived, e)
      BY <2>1, <2>3, <3>1
    <3> QED
      BY <1>1, <2>2, <3>2
  <2> QED
    BY <2>3 DEF Feed!ResumeShowsCounted
<1>4. Feed!LiveMeansAttached
  BY DEF FeedInv, FeedHeld, Feed!LiveMeansAttached
<1>5. Feed!Contiguous
  <2>1. SUFFICES ASSUME pc # "deliver", disturbed = {}, NEW i \in 1..(Len(buf) - 1)
                 PROVE  buf[i] < buf[i + 1] /\ (buf[i] + 1)..(buf[i + 1] - 1) \subseteq beyond
    BY DEF Feed!Contiguous
  <2>2. FeedOrdered
    BY <2>1 DEF FeedInv, FeedShows
  <2>3. i \in 1..Len(buf) /\ i + 1 \in 1..Len(buf) /\ 1 \in 1..Len(buf) /\ i \in Nat /\ (i + 1) - i = 1 /\ 1 <= i
    BY <1>1, <2>1
  <2>4. \A n \in 1..Len(buf) : buf[n] \in Feed!Event /\ buf[n] \in Nat
    BY <1>1, EventOf
  <2>5. buf[i] < buf[i + 1]
    <3>1. buf[i] + ((i + 1) - i) <= buf[i + 1]
      BY <2>2, <2>3 DEF FeedOrdered, Spaced
    <3> QED
      BY <2>3, <2>4, <3>1
  <2>6. ASSUME NEW f \in (buf[i] + 1)..(buf[i + 1] - 1)
        PROVE  f \in beyond
    <3>1. f \in Nat /\ buf[i] < f /\ f < buf[i + 1] /\ f <= buf[i + 1] /\ f \in Feed!Event
      <4>1. buf[i + 1] \in 1..MaxLog /\ buf[i] \in Nat
        BY <2>3, <2>4 DEF Feed!Event
      <4> QED
        BY <4>1, FeedConstants DEF Feed!Event
    <3>2. Covered(f)
      BY <2>2, <2>3, <3>1 DEF FeedOrdered
    <3>3. ASSUME NEW n \in 1..Len(buf), buf[n] = f
          PROVE  FALSE
      <4>1. CASE n <= i
        <5>1. buf[n] + (i - n) <= buf[i] /\ i - n >= 0 /\ i - n \in Nat
          BY <2>2, <2>3, <4>1 DEF FeedOrdered, Spaced
        <5> QED
          BY <2>3, <2>4, <3>1, <3>3, <5>1
      <4>2. CASE i + 1 <= n
        <5>1. buf[i + 1] + (n - (i + 1)) <= buf[n] /\ n - (i + 1) \in Nat
          BY <2>2, <2>3, <4>2 DEF FeedOrdered, Spaced
        <5> QED
          BY <2>3, <2>4, <3>1, <3>3, <5>1
      <4> QED
        BY <2>3, <4>1, <4>2
    <3>4. ~(f < buf[1])
      <4>1. buf[1] + (i - 1) <= buf[i] /\ i - 1 \in Nat
        BY <2>2, <2>3 DEF FeedOrdered, Spaced
      <4> QED
        BY <2>3, <2>4, <3>1, <4>1
    <3> QED
      BY <3>2, <3>3, <3>4 DEF Covered, Holds
  <2> QED
    BY <2>5, <2>6
<1> QED
  BY <1>2, <1>3, <1>4, <1>5 DEF FeedInv

HIDE DEF log, link, wire, held, pc, limit, reconnecting, streamFailed, history, pending, queue,
         reconciled, buf, paused, frozen, arrived, beyond, disturbed, budget, status

----------------------------------------------------------------------------
(* Navigation: the shell, its detail pane and the drag of the transport.   *)

active == x1
tab == x2
hosted == x3
navGeneration == x5
inspectClickGeneration == x6
inspection == x7
fetches == x8
pane == x9
landingPending == x10
drag == x11
decided == x12


USE DEF active, tab, hosted, navGeneration, inspectClickGeneration, inspection, fetches, pane,
        landingPending, drag, decided, scope

Drags == [on: {TRUE}, from: Navigation!Scopes, wrote: Navigation!AnyWindow,
          at: Navigation!AnyWindow, dirty: BOOLEAN]

\* The state of the shell, with the fields of a drag only while there is one.
NavTyped ==
  /\ active \in Navigation!Panels /\ tab \in Navigation!Tabs /\ hosted \in BOOLEAN
  /\ scope \in Navigation!Scopes
  /\ navGeneration \in Nat /\ inspectClickGeneration \in 0..navGeneration /\ inspection \in Nat
  /\ fetches \subseteq [n: 1..inspection, event: Events, at: 0..navGeneration]
  /\ pane \in Events \cup {None} /\ landingPending \in BOOLEAN /\ decided \in BOOLEAN
  /\ drag \in {Navigation!NoDrag} \cup Drags

\* The newest inspection was asked for at the click that was recorded last, and the
\* landing rule is pending only as long as nothing decided it.
NavKept ==
  /\ \A f \in fetches : f.n = inspection => f.at = inspectClickGeneration
  /\ landingPending => ~decided

NavInv == NavTyped /\ NavKept /\ Navigation!DragOwnsScope

\* The calls of the scope store keep to scopes.
LEMMA NavScopes ==
  ASSUME NEW sc \in Navigation!Scopes
  PROVE  /\ \A w \in Navigation!AnyWindow :
              /\ Navigation!Narrow(sc, [window |-> w]) = [sc EXCEPT !.window = w]
              /\ Navigation!Narrow(sc, [window |-> w]) \in Navigation!Scopes
         /\ Navigation!Ascend(sc) \in Navigation!Scopes
         /\ \A p \in Projects : Navigation!Narrow(sc, [project |-> p]) \in Navigation!Scopes
         /\ \A w \in Worktrees : Navigation!Narrow(sc, [worktree |-> w]) \in Navigation!Scopes
         /\ \A w \in Worktrees \cup {None} :
              Navigation!Narrow(sc, [worktree |-> w, window |-> sc.window]) \in Navigation!Scopes
         /\ \A s \in Sessions : /\ Navigation!Narrow(sc, [session |-> s]) \in Navigation!Scopes
                                /\ Navigation!ReplaceContext(sc, [session |-> s]) \in Navigation!Scopes
         /\ \A s \in Sessions : Navigation!Narrow(sc, [session |-> s, cell |-> None]) \in Navigation!Scopes
         /\ Navigation!Narrow(sc, [project |-> None, worktree |-> None, session |-> None,
                                   window |-> sc.window]) \in Navigation!Scopes
         /\ Navigation!EmptyScope \in Navigation!Scopes
<1> USE DEF Navigation!Scopes, Navigation!Narrow, Navigation!Compute, Navigation!Context,
            Navigation!AnyWindow, Navigation!Live
<1>1. /\ \A w \in Navigation!AnyWindow : Navigation!Narrow(sc, [window |-> w]) = [sc EXCEPT !.window = w]
  OBVIOUS
<1>2. \A w \in Navigation!AnyWindow : Navigation!Narrow(sc, [window |-> w]) \in Navigation!Scopes
  OBVIOUS
<1>3. Navigation!Ascend(sc) \in Navigation!Scopes
  BY DEF Navigation!Ascend
<1>4. \A p \in Projects : Navigation!Narrow(sc, [project |-> p]) \in Navigation!Scopes
  OBVIOUS
<1>5. \A w \in Worktrees : Navigation!Narrow(sc, [worktree |-> w]) \in Navigation!Scopes
  OBVIOUS
<1>6. \A w \in Worktrees \cup {None} :
        Navigation!Narrow(sc, [worktree |-> w, window |-> sc.window]) \in Navigation!Scopes
  OBVIOUS
<1>7. \A s \in Sessions : Navigation!Narrow(sc, [session |-> s]) \in Navigation!Scopes
  OBVIOUS
<1>8. \A s \in Sessions : Navigation!ReplaceContext(sc, [session |-> s]) \in Navigation!Scopes
  BY DEF Navigation!ReplaceContext, Navigation!EmptyScope
<1>9. \A s \in Sessions : Navigation!Narrow(sc, [session |-> s, cell |-> None]) \in Navigation!Scopes
  OBVIOUS
<1>10. Navigation!Narrow(sc, [project |-> None, worktree |-> None, session |-> None,
                              window |-> sc.window]) \in Navigation!Scopes
  OBVIOUS
<1>11. Navigation!EmptyScope \in Navigation!Scopes
  BY DEF Navigation!EmptyScope
<1> HIDE DEF Navigation!Scopes, Navigation!Narrow, Navigation!Compute, Navigation!Context,
             Navigation!AnyWindow, Navigation!Live
<1> QED
  BY <1>1, <1>2, <1>3, <1>4, <1>5, <1>6, <1>7, <1>8, <1>9, <1>10, <1>11, Zenon

\* The generation counts up, whatever it counts.
LEMMA NavCounts ==
  ASSUME NavTyped, NEW sc, NEW name, Navigation!Counts(sc, name)
  PROVE  navGeneration' \in Nat /\ navGeneration <= navGeneration'
BY DEF NavTyped, Navigation!Counts, Navigation!Steps

\* A change of panel, with or without one of scope.
LEMMA NavShows ==
  ASSUME NavInv, NEW sc \in Navigation!Scopes, NEW name \in Navigation!Panels, NEW t \in Navigation!Tabs,
         Navigation!Shows(sc, name, t), hosted' \in BOOLEAN, UNCHANGED Navigation!inspectVars
  PROVE  NavInv'
<1>1. navGeneration' \in Nat /\ navGeneration <= navGeneration'
  BY NavCounts DEF NavInv, Navigation!Shows
<1>2. NavTyped'
  BY <1>1 DEF NavInv, NavTyped, Navigation!Shows, Navigation!inspectVars
<1>3. NavKept' /\ Navigation!DragOwnsScope'
  BY DEF NavInv, NavTyped, NavKept, Navigation!Shows, Navigation!inspectVars, Navigation!DragOwnsScope, Navigation!NoDrag
<1> QED
  BY <1>2, <1>3 DEF NavInv

\* A change of scope that the transport did not write: a real one ends the drag.
LEMMA NavNarrows ==
  ASSUME NavInv, NEW sc \in Navigation!Scopes, Navigation!Narrows(sc)
  PROVE  NavInv'
<1>1. navGeneration' \in Nat /\ navGeneration <= navGeneration'
  BY NavCounts DEF NavInv, Navigation!Narrows
<1>2. NavTyped'
  BY <1>1 DEF NavInv, NavTyped, Navigation!Narrows, Navigation!DragAfter, Navigation!inspectVars
<1>3. NavKept' /\ Navigation!DragOwnsScope'
  BY DEF NavInv, NavTyped, NavKept, Navigation!Narrows, Navigation!DragAfter, Navigation!inspectVars,
         Navigation!DragOwnsScope, Navigation!NoDrag, Navigation!Drawn
<1> QED
  BY <1>2, <1>3 DEF NavInv

\* A write of the transport, that ends the drag or is recorded in it.
LEMMA NavWrites ==
  ASSUME NavInv, NEW w \in Navigation!AnyWindow, NEW d \in {Navigation!NoDrag} \cup Drags, Navigation!Write(w, d),
         d # Navigation!NoDrag => /\ drag.on /\ d.from = drag.from /\ d.wrote = w
  PROVE  NavInv'
<1>1. navGeneration' \in Nat /\ navGeneration <= navGeneration'
  BY NavCounts DEF NavInv, Navigation!Write
<1>2. scope' = [scope EXCEPT !.window = w] /\ scope' \in Navigation!Scopes
  BY NavScopes DEF NavInv, NavTyped, Navigation!Write
<1>3. NavTyped'
  BY <1>1, <1>2 DEF NavInv, NavTyped, Navigation!Write, Navigation!inspectVars
<1>4. NavKept'
  BY DEF NavInv, NavTyped, NavKept, Navigation!Write, Navigation!inspectVars
<1>5. Navigation!DragOwnsScope'
  <2>1. drag' = d /\ UNCHANGED <<active, hosted>>
    BY DEF Navigation!Write
  <2>2. CASE d = Navigation!NoDrag
    BY <2>1, <2>2 DEF Navigation!DragOwnsScope, Navigation!NoDrag
  <2>3. CASE d # Navigation!NoDrag
    <3>1. scope = [drag.from EXCEPT !.window = drag.wrote] /\ Navigation!Drawn /\ drag.from \in Navigation!Scopes
      BY <2>3 DEF NavInv, NavTyped, Navigation!DragOwnsScope, Drags
    <3>2. scope' = [drag.from EXCEPT !.window = w]
      BY <1>2, <3>1 DEF Navigation!Scopes
    <3> QED
      BY <2>1, <2>3, <3>1, <3>2 DEF Navigation!DragOwnsScope, Navigation!Drawn
  <2> QED
    BY <2>2, <2>3
<1> QED
  BY <1>3, <1>4, <1>5 DEF NavInv

LEMMA NavPane ==
  ASSUME NavInv, NEW ev \in Events \cup {None}, Navigation!Pane(ev),
         UNCHANGED <<inspectClickGeneration, inspection>>, fetches' \subseteq fetches
  PROVE  NavInv'
<1>1. NavTyped'
  BY DEF NavInv, NavTyped, Navigation!Pane
<1>2. NavKept' /\ Navigation!DragOwnsScope'
  BY DEF NavInv, NavTyped, NavKept, Navigation!Pane, Navigation!DragOwnsScope, Navigation!Drawn
<1> QED
  BY <1>1, <1>2 DEF NavInv

LEMMA NavStep == ASSUME NavInv, [Navigation!Next]_(Navigation!vars) PROVE NavInv'
<1> USE DEF Navigation!inspectVars
<1>0. /\ scope \in Navigation!Scopes /\ active \in Navigation!Panels /\ tab \in Navigation!Tabs
      /\ pane \in Events \cup {None} /\ drag \in {Navigation!NoDrag} \cup Drags
      /\ Navigation!NoDrag.on = FALSE
  BY DEF NavInv, NavTyped, Navigation!NoDrag
<1>1. CASE Navigation!ClickNav \/ Navigation!Descend \/ Navigation!OpenScore \/ Navigation!OpenSession
            \/ Navigation!Alias \/ (\E name \in {"fleet"} : Navigation!Go(scope, name, tab))
  <2>1. PICK sc \in Navigation!Scopes, name \in Navigation!Panels, t \in Navigation!Tabs :
          Navigation!Shows(sc, name, t) /\ hosted' \in BOOLEAN /\ UNCHANGED Navigation!inspectVars
    <3>1. hosted \in BOOLEAN
      BY DEF NavInv, NavTyped
    <3>2. CASE Navigation!ClickNav
      BY <1>0, <3>1, <3>2 DEF Navigation!ClickNav, Navigation!Go
    <3>3. CASE Navigation!Descend
      <4>1. \A p \in Projects : Navigation!Narrow(scope, [project |-> p]) \in Navigation!Scopes
        BY <1>0, NavScopes
      <4>2. \A w \in Worktrees : Navigation!Narrow(scope, [worktree |-> w]) \in Navigation!Scopes
        BY <1>0, NavScopes
      <4>3. {"project", "sessions"} \subseteq Navigation!Panels
        BY DEF Navigation!Panels
      <4> QED
        BY <1>0, <3>1, <3>3, <4>1, <4>2, <4>3 DEF Navigation!Descend, Navigation!Go
    <3>4. CASE Navigation!OpenScore
      <4>1. \A s \in Sessions, member \in BOOLEAN : Navigation!SelectSession(scope, s, member) \in Navigation!Scopes
        BY <1>0, NavScopes DEF Navigation!SelectSession
      <4>2. "session" \in Navigation!Panels /\ "score" \in Navigation!Tabs
        BY DEF Navigation!Panels, Navigation!Tabs
      <4> QED
        BY <1>0, <3>1, <3>4, <4>1, <4>2 DEF Navigation!OpenScore, Navigation!Go
    <3>5. CASE Navigation!OpenSession
      <4>1. PICK s \in Sessions, member \in BOOLEAN, name \in {"sessions", "session"} :
              Navigation!Go(IF member /\ (scope.project # None \/ scope.worktree # None)
                            THEN Navigation!Narrow(scope, [session |-> s, cell |-> None])
                            ELSE Navigation!ReplaceContext(scope, [session |-> s]),
                            name, IF name = "session" THEN "score" ELSE tab)
        BY <3>5 DEF Navigation!OpenSession
      <4>2. /\ Navigation!Narrow(scope, [session |-> s, cell |-> None]) \in Navigation!Scopes
            /\ Navigation!ReplaceContext(scope, [session |-> s]) \in Navigation!Scopes
        BY <1>0, NavScopes
      <4>3. name \in Navigation!Panels /\ (IF name = "session" THEN "score" ELSE tab) \in Navigation!Tabs
        BY <1>0 DEF Navigation!Panels, Navigation!Tabs
      <4> QED
        BY <3>1, <4>1, <4>2, <4>3 DEF Navigation!Go
    <3>6. CASE Navigation!Alias
      <4>1. {"fleet", "project", "sessions"} \subseteq Navigation!Panels
        BY DEF Navigation!Panels
      <4> QED
        BY <1>0, <3>1, <3>6, <4>1 DEF Navigation!Alias, Navigation!Go
    <3>7. CASE \E name \in {"fleet"} : Navigation!Go(scope, name, tab)
      BY <1>0, <3>1, <3>7 DEF Navigation!Go, Navigation!Panels
    <3> QED
      BY <1>1, <3>2, <3>3, <3>4, <3>5, <3>6, <3>7
  <2> QED
    BY <2>1, NavShows
<1>2. CASE Navigation!SelectRow \/ Navigation!ClearContext \/ Navigation!PanelWrites
  <2>1. PICK sc \in Navigation!Scopes : Navigation!Narrows(sc)
    <3>1. CASE Navigation!SelectRow
      <4>1. \A s \in Sessions, member \in BOOLEAN : Navigation!SelectSession(scope, s, member) \in Navigation!Scopes
        BY <1>0, NavScopes DEF Navigation!SelectSession
      <4> QED
        BY <3>1, <4>1 DEF Navigation!SelectRow
    <3>2. CASE Navigation!ClearContext
      BY <1>0, <3>2, NavScopes DEF Navigation!ClearContext
    <3>3. CASE Navigation!PanelWrites
      <4>1. \A w \in Navigation!AnyWindow : Navigation!Narrow(scope, [window |-> w]) \in Navigation!Scopes
        BY <1>0, NavScopes
      <4>2. \A w \in Worktrees \cup {None} :
              Navigation!Narrow(scope, [worktree |-> w, window |-> scope.window]) \in Navigation!Scopes
        BY <1>0, NavScopes
      <4> QED
        BY <3>3, <4>1, <4>2 DEF Navigation!PanelWrites
    <3> QED
      BY <1>2, <3>1, <3>2, <3>3
  <2> QED
    BY <2>1, NavNarrows
<1>3. CASE Navigation!PickEncoding
  <2>1. NavTyped'
    BY <1>3 DEF NavInv, NavTyped, Navigation!PickEncoding
  <2>2. NavKept' /\ Navigation!DragOwnsScope'
    BY <1>3, <1>0 DEF NavInv, NavTyped, NavKept, Navigation!PickEncoding, Navigation!DragOwnsScope, Navigation!Drawn
  <2> QED
    BY <2>1, <2>2 DEF NavInv
<1>4. CASE Navigation!RowsLoaded \/ Navigation!RowsFail
  <2>1. CASE \E name \in {"fleet"} : Navigation!Go(scope, name, tab)
    BY <2>1, <1>1
  <2>2. CASE /\ landingPending' = FALSE /\ decided' = TRUE
             /\ UNCHANGED <<active, tab, hosted, scope, navGeneration, Navigation!inspectVars, pane, drag>>
    <3>1. NavTyped'
      BY <2>2 DEF NavInv, NavTyped
    <3>2. NavKept' /\ Navigation!DragOwnsScope'
      BY <2>2 DEF NavInv, NavKept, Navigation!DragOwnsScope, Navigation!Drawn
    <3> QED
      BY <3>1, <3>2 DEF NavInv
  <2> QED
    BY <1>4, <2>1, <2>2 DEF Navigation!RowsLoaded, Navigation!RowsFail
<1>5. CASE Navigation!EscapeAscends
  <2>1. Navigation!Ascend(scope) \in Navigation!Scopes
    BY <1>0, NavScopes
  <2>2. \A prev, alt, from, hasList :
           Navigation!AscentTarget(prev, alt, from, hasList) \in Navigation!Panels \cup {"stay"}
    BY DEF Navigation!AscentTarget, Navigation!Panels
  <2>3. PICK hasList \in BOOLEAN :
          LET target == Navigation!AscentTarget(scope, Navigation!Altitude(Navigation!Ascend(scope)), active, hasList)
          IN IF target = "stay" THEN Navigation!Narrows(Navigation!Ascend(scope))
             ELSE Navigation!Go(Navigation!Ascend(scope), target, tab)
    BY <1>5 DEF Navigation!EscapeAscends
  <2> DEFINE up == Navigation!Ascend(scope)
             target == Navigation!AscentTarget(scope, Navigation!Altitude(up), active, hasList)
  <2>4. up \in Navigation!Scopes /\ target \in Navigation!Panels \cup {"stay"}
    BY <2>1, <2>2
  <2>5. IF target = "stay" THEN Navigation!Narrows(up) ELSE Navigation!Go(up, target, tab)
    BY <2>3
  <2> HIDE DEF up, target
  <2>6. CASE target = "stay"
    BY <2>4, <2>5, <2>6, NavNarrows
  <2>7. CASE target # "stay"
    <3>1. Navigation!Go(up, target, tab) /\ target \in Navigation!Panels
      BY <2>4, <2>5, <2>7
    <3>2. Navigation!Shows(up, target, tab) /\ UNCHANGED Navigation!inspectVars
      BY <3>1 DEF Navigation!Go
    <3>3. hosted' \in BOOLEAN
      BY <3>1 DEF Navigation!Go, NavInv, NavTyped
    <3> QED
      BY <1>0, <2>4, <3>1, <3>2, <3>3, NavShows
  <2> QED
    BY <2>6, <2>7
<1>6. CASE Navigation!ShowDetail \/ Navigation!CloseDetail
  BY <1>6, NavPane DEF Navigation!ShowDetail, Navigation!CloseDetail
<1>7. CASE Navigation!OfferEvidence
  <2>1. navGeneration' \in Nat /\ navGeneration <= navGeneration'
    BY <1>7, NavCounts DEF NavInv, Navigation!OfferEvidence
  <2>2. NavTyped'
    <3>1. /\ active' \in Navigation!Panels /\ tab' \in Navigation!Tabs /\ hosted' \in BOOLEAN
          /\ scope' \in Navigation!Scopes /\ pane' \in Events \cup {None} /\ landingPending' \in BOOLEAN
          /\ decided' \in BOOLEAN
      BY <1>7 DEF NavInv, NavTyped, Navigation!OfferEvidence, Navigation!Panels, Navigation!Tabs
    <3>2. /\ inspectClickGeneration' \in 0..navGeneration' /\ inspection' \in Nat
          /\ fetches' \subseteq [n: 1..inspection', event: Events, at: 0..navGeneration']
      BY <1>7, <2>1 DEF NavInv, NavTyped, Navigation!OfferEvidence
    <3>3. drag' = Navigation!NoDrag
      BY <1>7 DEF Navigation!OfferEvidence
    <3> QED
      BY <2>1, <3>1, <3>2, <3>3 DEF NavTyped
  <2>3. NavKept' /\ Navigation!DragOwnsScope'
    BY <1>7, <1>0 DEF NavInv, NavKept, Navigation!OfferEvidence, Navigation!DragOwnsScope
  <2> QED
    BY <2>2, <2>3 DEF NavInv
<1>8. CASE Navigation!InspectClick
  <2>1. PICK ev \in Events :
          /\ inspectClickGeneration' = navGeneration /\ inspection' = inspection + 1
          /\ fetches' = fetches \cup {[n |-> inspection + 1, event |-> ev, at |-> navGeneration]}
          /\ UNCHANGED <<active, tab, hosted, scope, navGeneration, pane, landingPending, drag, decided>>
    BY <1>8 DEF Navigation!InspectClick
  <2>2. NavTyped'
    BY <2>1 DEF NavInv, NavTyped
  <2>3. \A f \in fetches : f.n # inspection + 1
    BY DEF NavInv, NavTyped
  <2>4. NavKept' /\ Navigation!DragOwnsScope'
    BY <2>1, <2>3 DEF NavInv, NavTyped, NavKept, Navigation!DragOwnsScope, Navigation!Drawn
  <2> QED
    BY <2>2, <2>4 DEF NavInv
<1>9. CASE Navigation!InspectAnswered \/ Navigation!InspectFails
  <2>1. PICK f \in fetches, ev \in Events \cup {None} :
          /\ fetches' = fetches \ {f} /\ UNCHANGED <<inspectClickGeneration, inspection>> /\ Navigation!Pane(ev)
    BY <1>0, <1>9 DEF Navigation!InspectAnswered, Navigation!InspectFails, NavInv, NavTyped
  <2> QED
    BY <2>1, NavPane
<1>10. CASE Navigation!PointerDown \/ Navigation!PointerMove \/ Navigation!DragCancel
  <2>1. UNCHANGED <<active, tab, hosted, scope, navGeneration, inspectClickGeneration, inspection, fetches, pane,
                    landingPending, decided>>
    BY <1>10 DEF Navigation!PointerDown, Navigation!PointerMove, Navigation!DragCancel
  <2>2. drag' \in {Navigation!NoDrag} \cup Drags /\ Navigation!DragOwnsScope'
    <3>1. CASE Navigation!PointerDown
      <4>1. drag' = [on |-> TRUE, from |-> scope, wrote |-> scope.window, at |-> scope.window, dirty |-> FALSE]
        BY <3>1 DEF Navigation!PointerDown
      <4>2. scope.window \in Navigation!AnyWindow /\ scope = [scope EXCEPT !.window = scope.window]
        BY <1>0 DEF Navigation!Scopes
      <4> QED
        BY <1>0, <2>1, <3>1, <4>1, <4>2 DEF Drags, Navigation!DragOwnsScope, Navigation!Drawn, Navigation!PointerDown
    <3>2. CASE Navigation!PointerMove
      <4>1. PICK w \in Navigation!AnyWindow : drag.on /\ drag' = [drag EXCEPT !.at = w, !.dirty = TRUE]
        BY <3>2 DEF Navigation!PointerMove
      <4>2. drag \in Drags
        BY <1>0, <4>1
      <4>3. drag' \in Drags /\ drag'.on = drag.on /\ drag'.from = drag.from /\ drag'.wrote = drag.wrote
        BY <4>1, <4>2 DEF Drags
      <4> QED
        BY <2>1, <4>3 DEF NavInv, Navigation!DragOwnsScope, Navigation!Drawn
    <3>3. CASE Navigation!DragCancel
      BY <1>0, <3>3 DEF Navigation!DragCancel, Navigation!DragOwnsScope
    <3> QED
      BY <1>10, <3>1, <3>2, <3>3
  <2> QED
    BY <2>1, <2>2 DEF NavInv, NavTyped, NavKept
<1>11. CASE Navigation!Frame
  <2>1. drag \in Drags /\ drag.on /\ Navigation!Write(drag.at, [drag EXCEPT !.wrote = drag.at, !.dirty = FALSE])
    BY <1>0, <1>11 DEF Navigation!Frame
  <2> DEFINE d == [drag EXCEPT !.wrote = drag.at, !.dirty = FALSE]
  <2>2. d \in Drags /\ d.from = drag.from /\ d.wrote = drag.at /\ drag.at \in Navigation!AnyWindow
    BY <2>1 DEF Drags
  <2> HIDE DEF d
  <2> QED
    BY <2>1, <2>2, NavWrites DEF d
<1>12. CASE Navigation!PointerUp \/ Navigation!DragEscape \/ Navigation!TransportButton \/ Navigation!LiveButton
  <2>1. PICK w \in Navigation!AnyWindow : Navigation!Write(w, Navigation!NoDrag)
    <3>1. scope.window \in Navigation!AnyWindow
      BY <1>0 DEF Navigation!Scopes
    <3>2. drag.on => drag.at \in Navigation!AnyWindow /\ drag.from.window \in Navigation!AnyWindow
      BY <1>0 DEF Drags, Navigation!Scopes
    <3>3. Navigation!Live \in Navigation!AnyWindow
      BY DEF Navigation!AnyWindow
    <3> QED
      BY <1>12, <3>1, <3>2, <3>3 DEF Navigation!PointerUp, Navigation!DragEscape, Navigation!TransportButton, Navigation!LiveButton
  <2> QED
    BY <2>1, NavWrites
<1>13. CASE UNCHANGED Navigation!vars
  BY <1>13 DEF Navigation!vars, NavInv, NavTyped, NavKept, Navigation!DragOwnsScope, Navigation!Drawn
<1> QED
  BY <1>1, <1>2, <1>3, <1>4, <1>5, <1>6, <1>7, <1>8, <1>9, <1>10, <1>11, <1>12, <1>13 DEF Navigation!Next

LEMMA NavInit == ASSUME Navigation!Init PROVE NavInv
<1>1. Navigation!EmptyScope \in Navigation!Scopes
  BY DEF Navigation!Scopes, Navigation!EmptyScope, Navigation!Context, Navigation!AnyWindow, Navigation!Live
<1>2. NavTyped
  <2>1. /\ active \in Navigation!Panels /\ tab \in Navigation!Tabs /\ hosted \in BOOLEAN
        /\ pane \in Events \cup {None} /\ landingPending \in BOOLEAN /\ decided \in BOOLEAN
        /\ scope \in Navigation!Scopes
    BY <1>1 DEF Navigation!Init, Navigation!Panels, Navigation!Tabs
  <2>2. /\ navGeneration \in Nat /\ inspectClickGeneration \in 0..navGeneration /\ inspection \in Nat
        /\ fetches \subseteq [n: 1..inspection, event: Events, at: 0..navGeneration]
    BY DEF Navigation!Init
  <2>3. drag = Navigation!NoDrag
    BY DEF Navigation!Init
  <2> QED
    BY <2>1, <2>2, <2>3 DEF NavTyped
<1>3. NavKept /\ Navigation!DragOwnsScope
  BY DEF Navigation!Init, NavKept, Navigation!DragOwnsScope, Navigation!NoDrag
<1> QED
  BY <1>2, <1>3 DEF NavInv

LEMMA NavMeans ==
  ASSUME NavInv
  PROVE  Navigation!TypeOK
<1>1. drag.on => /\ drag.from \in Navigation!Scopes /\ drag.wrote \in Navigation!AnyWindow
                 /\ drag.at \in Navigation!AnyWindow /\ drag.dirty \in BOOLEAN
  <2>1. CASE drag = Navigation!NoDrag
    BY <2>1 DEF Navigation!NoDrag
  <2>2. CASE drag \in Drags
    BY <2>2 DEF Drags
  <2> QED
    BY <2>1, <2>2 DEF NavInv, NavTyped
<1>2. \A f \in fetches : f.n \in 1..inspection /\ f.event \in Events /\ f.at \in 0..navGeneration
  BY DEF NavInv, NavTyped
<1> QED
  BY <1>1, <1>2 DEF NavInv, NavTyped, Navigation!TypeOK

LEMMA NavActs ==
  ASSUME NavInv, [Navigation!Next]_(Navigation!vars)
  PROVE  Navigation!InspectIsLatest /\ Navigation!LandsOnce
<1>1. ASSUME NEW f \in fetches \ fetches', pane' # pane
      PROVE  f.event = pane' /\ f.n = inspection /\ f.at = navGeneration
  <2>1. Navigation!InspectAnswered
    <3>1. fetches' # fetches
      BY <1>1
    <3>2. ~Navigation!InspectClick /\ ~Navigation!InspectFails
      BY <1>1 DEF Navigation!InspectClick, Navigation!InspectFails, Navigation!Pane
    <3>3. UNCHANGED fetches \/ Navigation!InspectClick \/ Navigation!InspectFails \/ Navigation!InspectAnswered
      BY DEF Navigation!Next, Navigation!vars, Navigation!inspectVars, Navigation!ClickNav, Navigation!Descend,
             Navigation!OpenScore, Navigation!SelectRow, Navigation!OpenSession, Navigation!Alias,
             Navigation!PickEncoding, Navigation!ClearContext, Navigation!PanelWrites, Navigation!RowsLoaded,
             Navigation!RowsFail, Navigation!EscapeAscends, Navigation!ShowDetail, Navigation!CloseDetail,
             Navigation!OfferEvidence, Navigation!PointerDown, Navigation!PointerMove, Navigation!Frame,
             Navigation!PointerUp, Navigation!DragCancel, Navigation!DragEscape, Navigation!TransportButton,
             Navigation!LiveButton, Navigation!Go, Navigation!Narrows, Navigation!Write
    <3> QED
      BY <3>1, <3>2, <3>3
  <2>2. PICK g \in fetches : /\ fetches' = fetches \ {g}
                             /\ pane' = IF Navigation!Shown(g) THEN g.event ELSE pane
    BY <2>1 DEF Navigation!InspectAnswered, Navigation!Pane
  <2>3. g = f /\ Navigation!Shown(f)
    BY <1>1, <2>2
  <2> QED
    BY <2>2, <2>3 DEF Navigation!Shown, NavInv, NavKept
<1>2. Navigation!LandsOnce
  BY DEF Navigation!LandsOnce, Navigation!RowsLoaded, NavInv, NavKept
<1> QED
  BY <1>1, <1>2 DEF Navigation!InspectIsLatest

HIDE DEF active, tab, hosted, navGeneration, inspectClickGeneration, inspection, fetches, pane,
         landingPending, drag, decided, scope

----------------------------------------------------------------------------
(* The change of the privacy mode.                                         *)

class == x1
registered == x2
version == x3
issued == x5
calls == x6
roots == x7
saves == x8
handler == x9
lost == x10
USE DEF class, registered, version, issued, calls, roots, saves, handler, lost, scope, budget

RemapScopes ==
  [project: Remap!Ids \cup {None}, worktree: Worktrees \cup {None}, session: Sessions \cup {None},
   cell: {None}, window: RemapWindows \cup {Remap!Live}]
RemapCall == [n: Nat, served: BOOLEAN, ids: SUBSET Remap!Ids, at: Nat]
RemapSave == [n: Nat, applied: BOOLEAN, before: SUBSET Remap!Ids]
RemapRoots == [loaded: BOOLEAN, ids: SUBSET Remap!Ids, at: Nat]
RemapHandler == [at: {"idle", "sleeping", "waiting"}, attempt: 0..(MaxAttempts - 1),
                 before: SUBSET Remap!Ids, call: Nat]
RemapBudget == [refreshes: Nat, saves: Nat, repos: Nat, selections: Nat, fails: Nat]

RemapTyped ==
  /\ class \in {0, 1} /\ registered \in SUBSET Repos /\ version \in Nat /\ issued \in Nat
  /\ scope \in RemapScopes /\ calls \subseteq RemapCall /\ roots \in RemapRoots
  /\ saves \subseteq RemapSave /\ handler \in RemapHandler /\ lost \in BOOLEAN /\ budget \in RemapBudget

\* A call is known by its number; the answer to the newest one is not older than what is shown.
RemapOrder ==
  /\ roots.at <= version /\ handler.call <= issued
  /\ \A c \in calls : /\ c.n <= issued /\ c.n > 0 /\ c.at <= version
                      /\ c.served /\ c.n = issued => roots.at <= c.at
  /\ \A c, d \in calls : c.n = d.n => c = d

\* No mode took effect that the viewer has not heard of.
Heard == ~lost /\ \A s \in saves : ~s.applied

\* Then the project selected is named as the daemon names it, or the handler is under way
\* and what answers the call it waits for, or a later one, is.
RemapNamed ==
  Heard => /\ handler.at = "idle" /\ scope.project # None => Remap!ClassOf(scope.project) = class
           /\ handler.at = "waiting" =>
                \A c \in calls : c.served /\ c.n >= handler.call => \A id \in c.ids : Remap!ClassOf(id) = class

RemapInv == RemapTyped /\ RemapOrder /\ RemapNamed /\ Remap!SessionInProject

\* SessionInProject of any scope.
Inside(sc) == sc.project # None /\ sc.session # None => Owner[sc.session] = Remap!RepoOf(sc.project)

\* What the calls of the scope store do to the project and the session.
LEMMA RemapOps ==
  ASSUME NEW sc \in RemapScopes, Inside(sc)
  PROVE  /\ \A id \in Remap!Ids : LET new == Remap!Narrow(sc, [project |-> id])
                                  IN new \in RemapScopes /\ Inside(new) /\ new.project = id
         /\ \A w \in Worktrees : LET new == Remap!Narrow(sc, [worktree |-> w])
                                 IN new \in RemapScopes /\ Inside(new) /\ new.project = sc.project
         /\ \A w \in RemapWindows : LET new == Remap!Narrow(sc, [window |-> w])
                                    IN new \in RemapScopes /\ Inside(new) /\ new.project = sc.project
         /\ \A s \in Sessions, member \in BOOLEAN :
              (member => sc.project # None /\ Remap!RepoOf(sc.project) = Owner[s]) =>
                LET new == Remap!SelectSession(sc, s, member)
                IN new \in RemapScopes /\ Inside(new) /\ new.project \in {sc.project, None}
         /\ LET new == Remap!Ascend(sc) IN new \in RemapScopes /\ Inside(new) /\ new.project \in {sc.project, None}
         /\ Remap!Cleared(sc) \in RemapScopes /\ Inside(Remap!Cleared(sc)) /\ Remap!Cleared(sc).project = None
<1> USE DEF RemapScopes, Inside, Remap!Narrow, Remap!Compute, Remap!Context, Remap!Live
<1>1. ASSUME NEW id \in Remap!Ids, NEW new, new = Remap!Narrow(sc, [project |-> id])
      PROVE  new \in RemapScopes /\ Inside(new) /\ new.project = id
  <2>1. new = [f \in Remap!Context \cup {"window"} |->
                 IF f = "project" THEN id
                 ELSE IF f \in {"worktree", "session"} /\ id # sc.project THEN None
                 ELSE IF f = "window" /\ id # sc.project /\ sc.session # None THEN Remap!Live ELSE sc[f]]
    BY <1>1
  <2> QED
    BY <2>1
<1>2. ASSUME NEW w \in Worktrees, NEW new, new = Remap!Narrow(sc, [worktree |-> w])
      PROVE  new \in RemapScopes /\ Inside(new) /\ new.project = sc.project
  BY <1>2
<1>3. ASSUME NEW w \in RemapWindows, NEW new, new = Remap!Narrow(sc, [window |-> w])
      PROVE  new \in RemapScopes /\ Inside(new) /\ new.project = sc.project
  BY <1>3
<1>4. ASSUME NEW s \in Sessions, NEW member \in BOOLEAN, NEW new, new = Remap!SelectSession(sc, s, member),
             member => sc.project # None /\ Remap!RepoOf(sc.project) = Owner[s]
      PROVE  new \in RemapScopes /\ Inside(new) /\ new.project \in {sc.project, None}
  <2>1. CASE new = Remap!Narrow(sc, [session |-> s]) /\ ((sc.project = None /\ sc.worktree = None) \/ sc.session = s \/ member)
    BY <1>4, <2>1
  <2>2. CASE new = Remap!ReplaceContext(sc, [session |-> s])
    BY <2>2 DEF Remap!ReplaceContext, Remap!EmptyScope
  <2> QED
    BY <1>4, <2>1, <2>2 DEF Remap!SelectSession
<1>5. LET new == Remap!Ascend(sc) IN new \in RemapScopes /\ Inside(new) /\ new.project \in {sc.project, None}
  BY DEF Remap!Ascend
<1>6. Remap!Cleared(sc) \in RemapScopes /\ Inside(Remap!Cleared(sc)) /\ Remap!Cleared(sc).project = None
  BY DEF Remap!Cleared
<1> HIDE DEF RemapScopes, Inside, Remap!Narrow, Remap!Compute, Remap!Context, Remap!Live
<1> QED
  BY <1>1, <1>2, <1>3, <1>4, <1>5, <1>6

LEMMA RemapCardinality == \A S : Remap!Cardinality(S) = Cardinality(S)
BY Zenon DEF Remap!Cardinality, Cardinality

\* What remapScope keeps is in the answer, with its session; another repository of the
\* name is taken only if it is new and the selected one is gone.
Kept(sc, before, after, new) ==
  /\ new \in RemapScopes /\ Inside(new) /\ new.project \in after \cup {None}
  /\ \/ new.project = None
     \/ Remap!RepoOf(new.project) = Remap!RepoOf(sc.project)
     \/ /\ Remap!LabelOf(new.project) = Remap!LabelOf(sc.project)
        /\ \A id \in after : Remap!RepoOf(id) # Remap!RepoOf(sc.project)
        /\ \A id \in before : Remap!RepoOf(id) # Remap!RepoOf(new.project)

LEMMA RemapKeeps ==
  ASSUME NEW sc \in RemapScopes, Inside(sc), NEW before \in SUBSET Remap!Ids, NEW after \in SUBSET Remap!Ids
  PROVE  Kept(sc, before, after, Remap!Remapped(sc, before, after))
<1> DEFINE new == Remap!Remapped(sc, before, after)
<1> SUFFICES Kept(sc, before, after, new)
  OBVIOUS
<1>new. new = Remap!Remapped(sc, before, after)
  OBVIOUS
<1> HIDE DEF new
<1>0. Remap!Cleared(sc) \in RemapScopes /\ Inside(Remap!Cleared(sc)) /\ Remap!Cleared(sc).project = None
  BY RemapOps
<1>1. CASE new = Remap!Cleared(sc)
  BY <1>0, <1>1 DEF Kept
<1>2. CASE new = sc /\ (sc.project = None \/ sc.project \in after)
  BY <1>2 DEF Kept
<1>3. CASE /\ sc.project \in before
           /\ Cardinality(Remap!SameName(sc.project, before)) = 1
           /\ Cardinality(Remap!SameName(sc.project, after)) = 1
           /\ new = Remap!Narrow(sc, [project |-> CHOOSE x \in Remap!SameName(sc.project, after) : TRUE,
                                      worktree |-> None, session |-> None, window |-> sc.window])
  <2> DEFINE olds == Remap!SameName(sc.project, before)
             names == Remap!SameName(sc.project, after)
             x == CHOOSE y \in names : TRUE
  <2>1. IsFiniteSet(Remap!Ids)
    <3>1. IsFiniteSet({0, 1})
      <4>1. IsFiniteSet(0..1)
        <5>1. 0 \in Int /\ 1 \in Int
          OBVIOUS
        <5> QED
          BY <5>1, FS_Interval
      <4>2. 0..1 = {0, 1}
        OBVIOUS
      <4> QED
        BY <4>1, <4>2
    <3> QED
      BY <3>1, ShellAssumption, FS_Product DEF Remap!Ids
  <2>2. IsFiniteSet(olds) /\ IsFiniteSet(names)
    BY <2>1, FS_Subset DEF Remap!SameName
  <2>3. PICK o : olds = {o}
    BY <1>3, <2>2, FS_Singleton
  <2>4. PICK y : names = {y}
    BY <1>3, <2>2, FS_Singleton
  <2>5. o = sc.project /\ x = y /\ y \in after /\ Remap!LabelOf(y) = Remap!LabelOf(sc.project)
    BY <1>3, <2>3, <2>4 DEF Remap!SameName
  <2>6. new.project = y /\ new.session = None /\ new \in RemapScopes
    <3>1. y \in Remap!Ids /\ new = Remap!Narrow(sc, [project |-> y, worktree |-> None, session |-> None, window |-> sc.window])
      BY <1>3, <2>5
    <3> QED
      BY <3>1 DEF RemapScopes, Remap!Narrow, Remap!Compute, Remap!Context
  <2>7. ASSUME NEW id \in after, Remap!RepoOf(id) = Remap!RepoOf(sc.project) PROVE id = y
    BY <2>4, <2>7 DEF Remap!SameName, Remap!LabelOf, Remap!RepoOf
  <2>8. ASSUME NEW id \in before, Remap!RepoOf(id) = Remap!RepoOf(y) PROVE id = sc.project
    BY <2>3, <2>5, <2>8 DEF Remap!SameName, Remap!LabelOf, Remap!RepoOf
  <2> QED
    BY <2>5, <2>6, <2>7, <2>8 DEF Inside, Kept
<1>4. CASE sc.project = None
  BY <1>new, <1>1, <1>2, <1>4 DEF Remap!Remapped
<1>5. CASE sc.project # None
  <2>1. CASE sc.project \in after
    BY <1>new, <1>2, <1>5, <2>1 DEF Remap!Remapped
  <2>2. CASE sc.project \notin after
    <3> DEFINE one == /\ sc.project \in before
                      /\ Cardinality(Remap!SameName(sc.project, before)) = 1
                      /\ Cardinality(Remap!SameName(sc.project, after)) = 1
               named == Remap!Narrow(sc, [project |-> CHOOSE x \in Remap!SameName(sc.project, after) : TRUE,
                                          worktree |-> None, session |-> None, window |-> sc.window])
    <3>1. new = IF sc.project = None
                THEN IF sc.worktree # None \/ sc.session # None THEN Remap!Cleared(sc) ELSE sc
                ELSE IF sc.project \in after THEN sc ELSE IF one THEN named ELSE Remap!Cleared(sc)
      BY <1>new, RemapCardinality DEF Remap!Remapped
    <3>2. CASE one
      <4>1. new = named
        <5> HIDE DEF named
        <5> QED
          BY <1>5, <2>2, <3>1, <3>2
      <4> QED
        BY <1>3, <3>2, <4>1
    <3>3. CASE ~one
      <4> HIDE DEF one, named
      <4> QED
        BY <1>1, <1>5, <2>2, <3>1, <3>3
    <3> QED
      BY <3>2, <3>3
  <2> QED
    BY <2>1, <2>2
<1> QED
  BY <1>4, <1>5

LEMMA RemapSpend ==
  ASSUME RemapTyped, NEW what \in {"refreshes", "saves", "repos", "selections", "fails"}, Remap!Spend(what)
  PROVE  budget' \in RemapBudget
<1>1. budget[what] \in Nat /\ budget[what] - 1 \in Nat
  BY DEF RemapTyped, RemapBudget, Remap!Spend
<1> QED
  BY <1>1 DEF RemapTyped, RemapBudget, Remap!Spend

\* A selection: of the same project, of none, or of one that the list shows.
LEMMA RemapSelects ==
  ASSUME RemapInv, NEW sc \in RemapScopes, Inside(sc), NEW stale \in BOOLEAN, Remap!Selected(sc, stale),
         \/ sc.project \in {scope.project, None}
         \/ (~stale /\ handler.at = "idle" /\ \A s \in saves : ~s.applied) => Remap!ClassOf(sc.project) = class
  PROVE  RemapInv'
<1>1. budget' \in RemapBudget
  BY RemapSpend DEF RemapInv, Remap!Selected
<1>2. RemapTyped'
  BY <1>1 DEF RemapInv, RemapTyped, Remap!Selected
<1>3. RemapOrder'
  BY DEF RemapInv, RemapOrder, Remap!Selected
<1>4. RemapNamed'
  BY DEF RemapInv, RemapNamed, Remap!Selected, Heard
<1>5. Remap!SessionInProject'
  BY DEF Remap!SessionInProject, Inside, Remap!Selected
<1> QED
  BY <1>2, <1>3, <1>4, <1>5 DEF RemapInv

\* An attempt that fails leaves the scope for the next one, or clears it.
LEMMA RemapAttempt ==
  ASSUME RemapInv, handler.at = "waiting", Remap!AttemptFails
  PROVE  /\ scope' \in RemapScopes /\ handler' \in RemapHandler /\ handler'.call <= issued
         /\ Inside(scope') /\ (handler'.at = "idle" => scope'.project = None) /\ handler'.at # "waiting"
<1>1. scope \in RemapScopes /\ Inside(scope) /\ handler \in RemapHandler /\ handler.call <= issued
  BY DEF RemapInv, RemapTyped, RemapOrder, Remap!SessionInProject, Inside
<1>2. CASE /\ handler.attempt + 1 < MaxAttempts /\ UNCHANGED scope
           /\ handler' = [handler EXCEPT !.at = "sleeping", !.attempt = @ + 1]
  <2>1. handler.attempt + 1 \in 0..(MaxAttempts - 1)
    BY <1>1, <1>2, ShellAssumption DEF RemapHandler
  <2> QED
    BY <1>1, <1>2, <2>1 DEF RemapHandler
<1>3. CASE handler' = Remap!Idle /\ scope' = Remap!Cleared(scope)
  <2>1. MaxAttempts \in Nat \ {0} /\ issued \in Nat
    BY ShellAssumption DEF RemapInv, RemapTyped
  <2>2. Remap!Idle \in RemapHandler /\ Remap!Idle.call <= issued /\ Remap!Idle.at = "idle"
    BY <2>1 DEF RemapHandler, Remap!Idle
  <2> QED
    BY <1>1, <1>3, <2>2, RemapOps
<1> QED
  BY <1>2, <1>3 DEF Remap!AttemptFails

\* Calls are issued, answered and lost; the handler goes on or ends with the scope cleared.
LEMMA RemapAsks ==
  ASSUME RemapInv, Remap!Issue, UNCHANGED <<class, registered, version, scope, roots, lost>>,
         saves' \subseteq saves, budget' \in RemapBudget, handler' \in RemapHandler,
         handler' = handler \/ (handler'.at = "waiting" /\ handler'.call = issued + 1),
         Heard' /\ ~Heard => handler'.at = "waiting" /\ handler'.call = issued + 1
  PROVE  RemapInv'
<1> DEFINE new == [n |-> issued + 1, served |-> FALSE, ids |-> {}, at |-> 0]
<1>1. /\ issued \in Nat /\ issued' = issued + 1 /\ calls' = calls \cup {new} /\ new \in RemapCall
      /\ new.n = issued + 1 /\ new.served = FALSE /\ new.at = 0
  BY DEF RemapInv, RemapTyped, RemapCall, Remap!Issue
<1> HIDE DEF new
<1>2. RemapTyped'
  BY <1>1 DEF RemapInv, RemapTyped
<1>3. version \in Nat /\ roots.at \in Nat /\ \A c \in calls : c.n \in Nat /\ c.at \in Nat
  BY DEF RemapInv, RemapTyped, RemapCall, RemapRoots
<1>4. RemapOrder'
  BY <1>1, <1>3 DEF RemapInv, RemapOrder, RemapTyped, RemapHandler
<1>5. RemapNamed'
  <2>1. CASE handler'.at = "waiting" /\ handler'.call = issued + 1
    BY <1>1, <1>3, <2>1 DEF RemapInv, RemapOrder, RemapNamed
  <2>2. CASE handler' = handler /\ (Heard' => Heard)
    BY <1>1, <1>3, <2>2 DEF RemapInv, RemapNamed
  <2> QED
    BY <2>1, <2>2
<1>6. Remap!SessionInProject'
  BY DEF RemapInv, Remap!SessionInProject
<1> QED
  BY <1>2, <1>4, <1>5, <1>6 DEF RemapInv

LEMMA RemapStep == ASSUME RemapInv, [Remap!Next]_(Remap!vars) PROVE RemapInv'
<1>0. /\ class \in {0, 1} /\ registered \in SUBSET Repos /\ version \in Nat /\ issued \in Nat
      /\ scope \in RemapScopes /\ calls \subseteq RemapCall /\ roots \in RemapRoots
      /\ saves \subseteq RemapSave /\ handler \in RemapHandler /\ lost \in BOOLEAN /\ budget \in RemapBudget
      /\ Inside(scope)
  BY DEF RemapInv, RemapTyped, Remap!SessionInProject, Inside
<1>1. CASE Remap!ChangeRepos
  <2>1. budget' \in RemapBudget /\ version' = version + 1
    BY <1>1, RemapSpend DEF RemapInv, Remap!ChangeRepos
  <2>2. RemapTyped'
    BY <1>0, <1>1, <2>1 DEF RemapTyped, Remap!ChangeRepos
  <2>3. roots.at \in Nat /\ \A c \in calls : c.at \in Nat
    BY <1>0 DEF RemapCall, RemapRoots
  <2>4. RemapOrder'
    BY <1>0, <1>1, <2>1, <2>3 DEF RemapInv, RemapOrder, Remap!ChangeRepos
  <2>5. RemapNamed' /\ Remap!SessionInProject'
    BY <1>1 DEF RemapInv, RemapNamed, Remap!SessionInProject, Heard, Remap!ChangeRepos
  <2> QED
    BY <2>2, <2>4, <2>5 DEF RemapInv
<1>2. CASE Remap!ServeRepos
  <2>1. PICK c \in calls :
          /\ ~c.served
          /\ calls' = (calls \ {c}) \cup {[c EXCEPT !.served = TRUE, !.ids = Remap!DaemonIds, !.at = version]}
    BY <1>2 DEF Remap!ServeRepos
  <2> DEFINE new == [c EXCEPT !.served = TRUE, !.ids = Remap!DaemonIds, !.at = version]
  <2>2. Remap!DaemonIds \in SUBSET Remap!Ids /\ \A id \in Remap!DaemonIds : Remap!ClassOf(id) = class
    BY <1>0 DEF Remap!DaemonIds, Remap!Ids, Remap!ClassOf
  <2>3. new \in RemapCall /\ new.n = c.n /\ new.served /\ new.at = version /\ new.ids = Remap!DaemonIds
    BY <1>0, <2>2 DEF RemapCall
  <2>4. calls' = (calls \ {c}) \cup {new}
    BY <2>1
  <2>5. UNCHANGED <<class, registered, version, scope, issued, roots, saves, handler, lost, budget>>
    BY <1>2 DEF Remap!ServeRepos
  <2> HIDE DEF new
  <2>6. RemapTyped'
    BY <1>0, <2>3, <2>4, <2>5 DEF RemapTyped
  <2>7. RemapOrder'
    BY <1>0, <2>3, <2>4, <2>5 DEF RemapInv, RemapOrder
  <2>8. RemapNamed' /\ Remap!SessionInProject'
    BY <2>2, <2>3, <2>4, <2>5 DEF RemapInv, RemapNamed, Remap!SessionInProject, Heard
  <2> QED
    BY <2>6, <2>7, <2>8 DEF RemapInv
<1>3. CASE Remap!ApplySave
  <2>1. PICK s \in saves : ~s.applied /\ saves' = (saves \ {s}) \cup {[s EXCEPT !.applied = TRUE]}
    BY <1>3 DEF Remap!ApplySave
  <2>2. [s EXCEPT !.applied = TRUE] \in RemapSave /\ [s EXCEPT !.applied = TRUE].applied
    BY <1>0 DEF RemapSave
  <2>3. /\ class' \in {0, 1} /\ version' = version + 1
        /\ UNCHANGED <<registered, scope, issued, calls, roots, handler, lost, budget>>
    BY <1>3 DEF Remap!ApplySave
  <2>4. RemapTyped'
    <3>1. saves' \subseteq RemapSave
      BY <1>0, <2>1, <2>2
    <3>2. version' \in Nat
      BY <1>0, <2>3
    <3> QED
      BY <1>0, <2>3, <3>1, <3>2 DEF RemapTyped
  <2>5. roots.at \in Nat /\ \A c \in calls : c.at \in Nat
    BY <1>0 DEF RemapCall, RemapRoots
  <2>6. RemapOrder'
    BY <1>0, <2>3, <2>5 DEF RemapInv, RemapOrder
  <2>7. ~Heard'
    BY <2>1, <2>2 DEF Heard
  <2>8. RemapNamed' /\ Remap!SessionInProject'
    BY <2>3, <2>7 DEF RemapInv, RemapNamed, Remap!SessionInProject
  <2> QED
    BY <2>4, <2>6, <2>8 DEF RemapInv
<1>4. CASE Remap!SelectProject
  <2>1. PICK id \in roots.ids :
          Remap!Selected(Remap!Narrow(scope, [project |-> id]),
                         Remap!ClassOf(id) # class /\ handler.at = "idle" /\ ~\E s \in saves : s.applied)
    BY <1>4 DEF Remap!SelectProject
  <2> DEFINE stale == Remap!ClassOf(id) # class /\ handler.at = "idle" /\ ~\E s \in saves : s.applied
             sc == Remap!Narrow(scope, [project |-> id])
  <2>2. id \in Remap!Ids
    BY <1>0 DEF RemapRoots
  <2>3. sc \in RemapScopes /\ Inside(sc) /\ sc.project = id
    BY <1>0, <2>2, RemapOps
  <2>4. stale \in BOOLEAN /\ Remap!Selected(sc, stale)
    BY <2>1
  <2>5. (~stale /\ handler.at = "idle" /\ \A s \in saves : ~s.applied) => Remap!ClassOf(sc.project) = class
    BY <2>3
  <2> HIDE DEF stale, sc
  <2> QED
    BY <2>3, <2>4, <2>5, RemapSelects
<1>5. CASE Remap!SelectWorktree \/ Remap!HoldWindow \/ Remap!OpenSession \/ Remap!Ascends
  <2>1. PICK sc \in RemapScopes : Inside(sc) /\ Remap!Selected(sc, FALSE) /\ sc.project \in {scope.project, None}
    <3>1. CASE Remap!SelectWorktree
      <4>1. PICK w \in Worktrees : Remap!Selected(Remap!Narrow(scope, [worktree |-> w]), FALSE)
        BY <3>1 DEF Remap!SelectWorktree
      <4>2. LET sc == Remap!Narrow(scope, [worktree |-> w])
            IN sc \in RemapScopes /\ Inside(sc) /\ sc.project = scope.project
        BY <1>0, RemapOps
      <4> QED
        BY <4>1, <4>2
    <3>2. CASE Remap!HoldWindow
      <4>1. PICK w \in RemapWindows : Remap!Selected(Remap!Narrow(scope, [window |-> w]), FALSE)
        BY <3>2 DEF Remap!HoldWindow
      <4>2. LET sc == Remap!Narrow(scope, [window |-> w])
            IN sc \in RemapScopes /\ Inside(sc) /\ sc.project = scope.project
        BY <1>0, RemapOps
      <4> QED
        BY <4>1, <4>2
    <3>3. CASE Remap!OpenSession
      <4>1. PICK s \in Sessions, member \in BOOLEAN :
              /\ member => scope.project # None /\ Remap!RepoOf(scope.project) = Owner[s]
              /\ Remap!Selected(Remap!SelectSession(scope, s, member), FALSE)
        BY <3>3 DEF Remap!OpenSession
      <4>2. LET sc == Remap!SelectSession(scope, s, member)
            IN sc \in RemapScopes /\ Inside(sc) /\ sc.project \in {scope.project, None}
        BY <1>0, <4>1, RemapOps
      <4> QED
        BY <4>1, <4>2
    <3>4. CASE Remap!Ascends
      <4>1. LET sc == Remap!Ascend(scope)
            IN sc \in RemapScopes /\ Inside(sc) /\ sc.project \in {scope.project, None}
        BY <1>0, RemapOps
      <4> QED
        BY <3>4, <4>1 DEF Remap!Ascends
    <3> QED
      BY <1>5, <3>1, <3>2, <3>3, <3>4
  <2> QED
    BY <2>1, RemapSelects
<1>6. CASE Remap!Refresh
  <2>1. budget' \in RemapBudget
    BY <1>6, RemapSpend DEF RemapInv, Remap!Refresh
  <2> QED
    BY <1>0, <1>6, <2>1, RemapAsks DEF Remap!Refresh, Heard
<1>7. CASE Remap!RootsAnswered
  <2>1. PICK c \in calls :
          /\ c.served /\ calls' = calls \ {c}
          /\ IF Remap!Newest(c)
             THEN /\ roots' = [loaded |-> TRUE, ids |-> c.ids, at |-> c.at]
                  /\ IF handler.at = "waiting" THEN Remap!SettleWith(c.ids) ELSE UNCHANGED <<scope, handler>>
             ELSE /\ UNCHANGED roots
                  /\ IF handler.at = "waiting" /\ handler.call = c.n THEN Remap!AttemptFails
                     ELSE UNCHANGED <<scope, handler>>
          /\ UNCHANGED <<class, registered, version, issued, saves, lost, budget>>
    BY <1>7 DEF Remap!RootsAnswered
  <2>2. /\ c \in RemapCall /\ roots' \in RemapRoots /\ roots'.at <= version
        /\ \A d \in calls' : d.served /\ d.n = issued => roots'.at <= d.at
    <3>1. c \in RemapCall /\ c.at <= version
      BY <1>0, <2>1 DEF RemapInv, RemapOrder
    <3>2. CASE Remap!Newest(c)
      <4>1. roots' = [loaded |-> TRUE, ids |-> c.ids, at |-> c.at]
        BY <2>1, <3>2
      <4>2. roots' \in RemapRoots /\ roots'.at = c.at
        BY <3>1, <4>1 DEF RemapCall, RemapRoots
      <4>3. \A d \in calls' : d.n # issued
        BY <2>1, <3>2 DEF RemapInv, RemapOrder, Remap!Newest
      <4> QED
        BY <3>1, <4>2, <4>3
    <3>3. CASE ~Remap!Newest(c)
      BY <1>0, <2>1, <3>1, <3>3 DEF RemapInv, RemapOrder
    <3> QED
      BY <3>2, <3>3
  <2>3. CASE UNCHANGED <<scope, handler>>
    <3>1. RemapTyped'
      BY <1>0, <2>1, <2>2, <2>3 DEF RemapTyped
    <3>2. RemapOrder'
      BY <2>1, <2>2, <2>3 DEF RemapInv, RemapOrder
    <3>3. RemapNamed' /\ Remap!SessionInProject'
      BY <2>1, <2>3 DEF RemapInv, RemapNamed, Heard, Remap!SessionInProject
    <3> QED
      BY <3>1, <3>2, <3>3 DEF RemapInv
  <2>4. CASE handler.at = "waiting" /\ Remap!AttemptFails
    <3>1. /\ scope' \in RemapScopes /\ handler' \in RemapHandler /\ handler'.call <= issued
          /\ Inside(scope') /\ (handler'.at = "idle" => scope'.project = None) /\ handler'.at # "waiting"
      BY <2>4, RemapAttempt
    <3>2. RemapTyped'
      BY <1>0, <2>1, <2>2, <3>1 DEF RemapTyped
    <3>3. RemapOrder'
      BY <2>1, <2>2, <3>1 DEF RemapInv, RemapOrder
    <3>4. RemapNamed' /\ Remap!SessionInProject'
      BY <2>1, <3>1 DEF RemapNamed, Remap!SessionInProject, Inside
    <3> QED
      BY <3>2, <3>3, <3>4 DEF RemapInv
  <2>5. CASE Remap!Newest(c) /\ handler.at = "waiting" /\ Remap!SettleWith(c.ids)
    <3>1. c.ids \in SUBSET Remap!Ids /\ handler.before \in SUBSET Remap!Ids
      BY <1>0, <2>2 DEF RemapCall, RemapHandler
    <3>2. scope' \in RemapScopes /\ Inside(scope') /\ scope'.project \in c.ids \cup {None}
      <4>1. scope' = Remap!Remapped(scope, handler.before, c.ids)
        BY <2>5 DEF Remap!SettleWith
      <4> QED
        BY <1>0, <3>1, <4>1, RemapKeeps DEF Kept
    <3>3. handler' \in RemapHandler /\ handler'.call <= issued /\ handler'.at = "idle"
      <4>1. MaxAttempts \in Nat \ {0}
        BY ShellAssumption
      <4> QED
        BY <1>0, <2>5, <4>1 DEF RemapHandler, Remap!Idle, Remap!SettleWith
    <3>4. RemapTyped'
      BY <1>0, <2>1, <2>2, <3>2, <3>3 DEF RemapTyped
    <3>5. RemapOrder'
      BY <2>1, <2>2, <3>3 DEF RemapInv, RemapOrder
    <3>6. Heard => \A id \in c.ids : Remap!ClassOf(id) = class
      BY <2>1, <2>5 DEF RemapInv, RemapNamed, RemapOrder, Remap!Newest
    <3>7. RemapNamed' /\ Remap!SessionInProject'
      BY <2>1, <3>2, <3>3, <3>6 DEF RemapNamed, Heard, Remap!SessionInProject, Inside
    <3> QED
      BY <3>4, <3>5, <3>7 DEF RemapInv
  <2> QED
    BY <2>1, <2>3, <2>4, <2>5
<1>8. CASE Remap!RootsFail \/ Remap!HandlerTimesOut
  <2>1. /\ calls' \subseteq calls /\ budget' \in RemapBudget
        /\ UNCHANGED <<class, registered, version, issued, roots, saves, lost>>
        /\ (handler.at = "waiting" /\ Remap!AttemptFails) \/ UNCHANGED <<scope, handler>>
    BY <1>0, <1>8, RemapSpend DEF RemapInv, Remap!RootsFail, Remap!HandlerTimesOut
  <2>2. CASE UNCHANGED <<scope, handler>>
    <3>1. RemapTyped'
      BY <1>0, <2>1, <2>2 DEF RemapTyped
    <3>2. RemapOrder'
      BY <2>1, <2>2 DEF RemapInv, RemapOrder
    <3>3. RemapNamed' /\ Remap!SessionInProject'
      BY <2>1, <2>2 DEF RemapInv, RemapNamed, Heard, Remap!SessionInProject
    <3> QED
      BY <3>1, <3>2, <3>3 DEF RemapInv
  <2>3. CASE handler.at = "waiting" /\ Remap!AttemptFails
    <3>1. /\ scope' \in RemapScopes /\ handler' \in RemapHandler /\ handler'.call <= issued
          /\ Inside(scope') /\ (handler'.at = "idle" => scope'.project = None) /\ handler'.at # "waiting"
      BY <2>3, RemapAttempt
    <3>2. RemapTyped'
      BY <1>0, <2>1, <3>1 DEF RemapTyped
    <3>3. RemapOrder'
      BY <2>1, <3>1 DEF RemapInv, RemapOrder
    <3>4. RemapNamed' /\ Remap!SessionInProject'
      BY <2>1, <3>1 DEF RemapNamed, Remap!SessionInProject, Inside
    <3> QED
      BY <3>2, <3>3, <3>4 DEF RemapInv
  <2> QED
    BY <2>1, <2>2, <2>3
<1>9. CASE Remap!SaveMode \/ Remap!SaveFails
  <2>1. /\ budget' \in RemapBudget /\ saves' \subseteq RemapSave /\ lost' \in BOOLEAN /\ (Heard' => Heard)
        /\ UNCHANGED <<class, registered, version, scope, issued, calls, roots, handler>>
    <3>1. CASE Remap!SaveMode
      <4>1. budget' \in RemapBudget
        BY <3>1, RemapSpend DEF RemapInv, Remap!SaveMode
      <4>2. [n |-> budget.saves, applied |-> FALSE, before |-> roots.ids] \in RemapSave
        BY <1>0 DEF RemapSave, RemapBudget, RemapRoots
      <4> QED
        BY <1>0, <3>1, <4>1, <4>2 DEF Remap!SaveMode, Heard
    <3>2. CASE Remap!SaveFails
      <4>1. budget' \in RemapBudget
        BY <3>2, RemapSpend DEF RemapInv, Remap!SaveFails
      <4>2. PICK s \in saves : saves' = saves \ {s} /\ lost' = (lost \/ s.applied)
        BY <3>2 DEF Remap!SaveFails
      <4>3. lost' \in BOOLEAN
        BY <4>2
      <4>4. Heard' => Heard
        BY <4>2 DEF Heard
      <4> QED
        BY <1>0, <3>2, <4>1, <4>2, <4>3, <4>4 DEF Remap!SaveFails
    <3> QED
      BY <1>9, <3>1, <3>2
  <2>2. RemapTyped'
    BY <1>0, <2>1 DEF RemapTyped
  <2>3. RemapOrder' /\ RemapNamed' /\ Remap!SessionInProject'
    BY <2>1 DEF RemapInv, RemapOrder, RemapNamed, Remap!SessionInProject
  <2> QED
    BY <2>2, <2>3 DEF RemapInv
<1>10. CASE Remap!SaveAnswered
  <2>1. PICK s \in saves :
          /\ s.applied /\ saves' = saves \ {s}
          /\ handler' = [at |-> "waiting", attempt |-> 0, before |-> s.before, call |-> issued + 1]
          /\ Remap!Issue
          /\ UNCHANGED <<class, registered, version, scope, roots, lost, budget>>
    BY <1>10 DEF Remap!SaveAnswered
  <2>2. handler' \in RemapHandler /\ handler'.at = "waiting" /\ handler'.call = issued + 1
    <3>1. 0 \in 0..(MaxAttempts - 1)
      BY ShellAssumption
    <3> QED
      BY <1>0, <2>1, <3>1 DEF RemapHandler, RemapSave
  <2> QED
    BY <1>0, <2>1, <2>2, RemapAsks
<1>11. CASE Remap!HandlerWakes
  <2>1. handler' \in RemapHandler /\ handler'.at = "waiting" /\ handler'.call = issued + 1
    <3>1. handler' = [handler EXCEPT !.at = "waiting", !.call = issued + 1] /\ issued + 1 \in Nat
      BY <1>0, <1>11 DEF Remap!HandlerWakes
    <3> QED
      BY <1>0, <3>1 DEF RemapHandler
  <2> QED
    BY <1>0, <1>11, <2>1, RemapAsks DEF Remap!HandlerWakes
<1>12. CASE UNCHANGED Remap!vars
  BY <1>12 DEF Remap!vars, RemapInv, RemapTyped, RemapOrder, RemapNamed, Heard, Remap!SessionInProject
<1> QED
  BY <1>1, <1>2, <1>3, <1>4, <1>5, <1>6, <1>7, <1>8, <1>9, <1>10, <1>11, <1>12 DEF Remap!Next

LEMMA RemapInit == ASSUME Remap!Init PROVE RemapInv
<1>1. scope \in RemapScopes /\ scope.project = None
  BY DEF Remap!Init, RemapScopes, Remap!EmptyScope, Remap!Context, Remap!Live
<1>2. handler \in RemapHandler /\ handler.call = 0 /\ handler.at = "idle"
  <2>1. MaxAttempts \in Nat \ {0}
    BY ShellAssumption
  <2> QED
    BY <2>1 DEF Remap!Init, RemapHandler, Remap!Idle
<1>3. budget \in RemapBudget
  BY ShellAssumption DEF Remap!Init, RemapBudget
<1>4. roots \in RemapRoots /\ roots.at = 0
  BY DEF Remap!Init, RemapRoots, Remap!NotLoaded
<1>5. RemapTyped
  BY <1>1, <1>2, <1>3, <1>4 DEF Remap!Init, RemapTyped
<1>6. RemapOrder /\ RemapNamed /\ Remap!SessionInProject
  BY <1>1, <1>2, <1>4 DEF Remap!Init, RemapOrder, RemapNamed, Remap!SessionInProject
<1> QED
  BY <1>5, <1>6 DEF RemapInv

LEMMA RemapMeans ==
  ASSUME RemapInv
  PROVE  Remap!TypeOK /\ Remap!NoDanglingProject /\ Remap!SessionInProject
<1>1. Remap!TypeOK
  <2>1. \A c \in calls : c.n \in 1..issued /\ c.served \in BOOLEAN /\ c.ids \in SUBSET Remap!Ids
    BY DEF RemapInv, RemapTyped, RemapOrder, RemapCall
  <2>2. roots.ids \in SUBSET Remap!Ids /\ roots.loaded \in BOOLEAN /\ roots.at \in 0..version
    BY DEF RemapInv, RemapTyped, RemapOrder, RemapRoots
  <2>3. \A s \in saves : s.before \in SUBSET Remap!Ids /\ s.applied \in BOOLEAN
    BY DEF RemapInv, RemapTyped, RemapSave
  <2>4. handler \in [at: {"idle", "sleeping", "waiting"}, attempt: 0..(MaxAttempts - 1),
                     before: SUBSET Remap!Ids, call: 0..issued]
    BY DEF RemapInv, RemapTyped, RemapOrder, RemapHandler
  <2> QED
    BY <2>1, <2>2, <2>3, <2>4 DEF RemapInv, RemapTyped, RemapScopes, Remap!TypeOK
<1>2. Remap!NoDanglingProject
  BY DEF RemapInv, RemapNamed, Heard, Remap!NoDanglingProject
<1> QED
  BY <1>1, <1>2 DEF RemapInv

LEMMA RemapActs ==
  ASSUME RemapInv, [Remap!Next]_(Remap!vars)
  PROVE  Remap!ProjectKept /\ Remap!RootsForward
<1> USE DEF Remap!vars
<1>1. \/ Remap!RootsAnswered
      \/ UNCHANGED roots
  BY DEF Remap!Next, Remap!ChangeRepos, Remap!ServeRepos, Remap!ApplySave, Remap!SelectProject,
         Remap!SelectWorktree, Remap!OpenSession, Remap!HoldWindow, Remap!Ascends, Remap!Selected, Remap!Refresh,
         Remap!RootsFail, Remap!SaveMode, Remap!SaveAnswered, Remap!SaveFails, Remap!HandlerTimesOut,
         Remap!HandlerWakes
<1>2. Remap!RootsForward
  <2>1. roots.at \in Nat
    BY DEF RemapInv, RemapTyped, RemapRoots
  <2>2. CASE Remap!RootsAnswered
    <3>1. PICK c \in calls : c.served /\ \/ UNCHANGED roots
                                         \/ Remap!Newest(c) /\ roots' = [loaded |-> TRUE, ids |-> c.ids, at |-> c.at]
      BY <2>2 DEF Remap!RootsAnswered
    <3> QED
      BY <2>1, <3>1 DEF RemapInv, RemapOrder, Remap!Newest, Remap!RootsForward
  <2> QED
    BY <1>1, <2>1, <2>2 DEF Remap!RootsForward
<1>3. ASSUME Remap!Settles PROVE Remap!ProjectKept
  <2>1. \/ scope' = Remap!Cleared(scope)
        \/ \E c \in calls : roots' = [loaded |-> TRUE, ids |-> c.ids, at |-> c.at] /\ Remap!SettleWith(c.ids)
    <3>1. handler' # handler
      BY <1>3 DEF Remap!Settles
    <3>2. \/ Remap!RootsAnswered \/ Remap!RootsFail \/ Remap!HandlerTimesOut
          \/ Remap!SaveAnswered \/ Remap!HandlerWakes
      BY <3>1 DEF Remap!Next, Remap!ChangeRepos, Remap!ServeRepos, Remap!ApplySave, Remap!SelectProject,
         Remap!SelectWorktree, Remap!OpenSession, Remap!HoldWindow, Remap!Ascends, Remap!Selected, Remap!Refresh,
         Remap!SaveMode, Remap!SaveFails
    <3>3. ~Remap!SaveAnswered
      BY <1>3 DEF Remap!Settles, Remap!SaveAnswered
    <3>4. ~Remap!HandlerWakes
      BY <1>3 DEF Remap!Settles, Remap!HandlerWakes, RemapInv, RemapTyped, RemapHandler
    <3>5. Remap!AttemptFails => scope' = Remap!Cleared(scope)
      <4>1. handler' # [handler EXCEPT !.at = "sleeping", !.attempt = @ + 1]
        BY <1>3 DEF Remap!Settles, RemapInv, RemapTyped, RemapHandler
      <4> QED
        BY <4>1 DEF Remap!AttemptFails
    <3>6. Remap!RootsFail \/ Remap!HandlerTimesOut => Remap!AttemptFails
      BY <3>1 DEF Remap!RootsFail, Remap!HandlerTimesOut
    <3>7. Remap!RootsAnswered =>
            \/ Remap!AttemptFails
            \/ \E c \in calls : roots' = [loaded |-> TRUE, ids |-> c.ids, at |-> c.at] /\ Remap!SettleWith(c.ids)
      BY <3>1 DEF Remap!RootsAnswered
    <3> QED
      BY <3>2, <3>3, <3>4, <3>5, <3>6, <3>7
  <2>2. scope \in RemapScopes /\ Inside(scope) /\ handler.before \in SUBSET Remap!Ids
    BY DEF RemapInv, RemapTyped, RemapHandler, Remap!SessionInProject, Inside
  <2>3. CASE scope' = Remap!Cleared(scope)
    BY <2>2, <2>3, RemapOps DEF Remap!ProjectKept
  <2>4. ASSUME NEW c \in calls, roots' = [loaded |-> TRUE, ids |-> c.ids, at |-> c.at], Remap!SettleWith(c.ids)
        PROVE  Remap!ProjectKept
    <3>1. c.ids \in SUBSET Remap!Ids /\ roots'.ids = c.ids /\ scope' = Remap!Remapped(scope, handler.before, c.ids)
      BY <2>4 DEF RemapInv, RemapTyped, RemapCall, Remap!SettleWith
    <3>2. \/ scope'.project = None
          \/ Remap!RepoOf(scope'.project) = Remap!RepoOf(scope.project)
          \/ /\ Remap!LabelOf(scope'.project) = Remap!LabelOf(scope.project)
             /\ \A id \in c.ids : Remap!RepoOf(id) # Remap!RepoOf(scope.project)
             /\ \A id \in handler.before : Remap!RepoOf(id) # Remap!RepoOf(scope'.project)
      BY <2>2, <3>1, RemapKeeps DEF Kept
    <3> QED
      BY <3>1, <3>2 DEF Remap!ProjectKept
  <2> QED
    BY <2>1, <2>3, <2>4
<1> QED
  BY <1>2, <1>3 DEF Remap!ProjectKept

HIDE DEF class, registered, version, issued, calls, roots, saves, handler, lost, scope, budget

----------------------------------------------------------------------------
(* Stale prune.                                                            *)

disk == x1
changes == x2
record == x3
runs == x4
gen == x5
busy == x6
cancelPending == x7
dialog == x8
behind == x9
USE DEF disk, changes, record, runs, gen, busy, cancelPending, dialog, behind

PruneRun ==
  [gen: Nat \ {0}, at: Prune!Stages, shown: SUBSET Prune!Snapshot, token: Nat, ok: BOOLEAN,
   todo: SUBSET Prune!Snapshot, removed: BOOLEAN, failed: BOOLEAN]

PruneTyped ==
  /\ DOMAIN disk \subseteq Entries
  /\ \A e \in DOMAIN disk : disk[e] \in [rev: Nat, locked: BOOLEAN, live: BOOLEAN]
  /\ changes \in Nat /\ dialog \in Nat /\ cancelPending \in Nat
  /\ gen \in Nat /\ runs \subseteq PruneRun
  /\ record \in [token: Nat, snaps: SUBSET Prune!Snapshot, expired: BOOLEAN]

\* A generation is of one run, and a confirmation of one that has previewed.
PruneTold ==
  /\ record.token <= gen
  /\ \A q, r \in runs : q.gen = r.gen => q = r
  /\ \A r \in runs :
       /\ r.gen <= gen
       /\ r.at \in {"other", "previewing"} => record.token # r.gen
       /\ r.at \notin {"other", "previewing"} => r.token = r.gen

\* What is pending is what its run showed; what is being deleted was shown and confirmed.
PruneShown ==
  \A r \in runs :
    /\ record.token = r.gen => record.snaps \subseteq r.shown
    /\ r.at \in {"applying", "deleting"} => r.ok
    /\ r.at = "deleting" => r.todo \subseteq r.shown

PruneInv == PruneTyped /\ PruneTold /\ PruneShown

\* A run that has previewed moves on, with the confirmation as it is or consumed.
LEMMA PruneMoves ==
  ASSUME PruneInv, NEW r \in runs, NEW new \in PruneRun, Prune!Becomes(r, new),
         UNCHANGED <<disk, changes, gen>>,
         dialog' \in Nat, cancelPending' \in Nat,
         new.gen = r.gen, new.shown = r.shown, new.token = r.token, record' = record \/ record' = Prune!NoRecord,
         r.at \notin {"other", "previewing"}, new.at \notin {"other", "previewing"},
         new.at \in {"applying", "deleting"} => new.ok,
         new.at = "deleting" => new.todo \subseteq new.shown
  PROVE  PruneInv'
<1>1. runs' = (runs \ {r}) \cup {new}
  BY DEF Prune!Becomes
<1>2. /\ Prune!NoRecord \in [token: Nat, snaps: SUBSET Prune!Snapshot, expired: BOOLEAN]
      /\ Prune!NoRecord.token = 0 /\ Prune!NoRecord.snaps = {}
  BY DEF Prune!NoRecord, Prune!NoOne
<1>3. PruneTyped'
  BY <1>1, <1>2 DEF PruneInv, PruneTyped
<1>4. PruneTold'
  BY <1>1, <1>2, SMT DEF PruneInv, PruneTyped, PruneTold, PruneRun
<1>5. PruneShown'
  BY <1>1, <1>2, SMT DEF PruneInv, PruneTyped, PruneTold, PruneShown, PruneRun
<1> QED
  BY <1>3, <1>4, <1>5 DEF PruneInv

\* A run ends, or nothing happens to the runs; the confirmation stays.
LEMMA PruneEnds ==
  ASSUME PruneInv, runs' \subseteq runs, UNCHANGED <<disk, changes, gen, record>>,
         dialog' \in Nat, cancelPending' \in Nat
  PROVE  PruneInv'
  BY DEF PruneInv, PruneTyped, PruneTold, PruneShown

LEMMA PruneSnap ==
  ASSUME PruneTyped, NEW e \in Entries, Prune!Stale(e)
  PROVE  Prune!Snap(e) \in Prune!Snapshot
  BY DEF PruneTyped, Prune!Stale, Prune!Snap, Prune!Snapshot

LEMMA PruneStep == ASSUME PruneInv, [Prune!Next]_(Prune!vars) PROVE PruneInv'
<1> USE DEF Prune!diskVars, Prune!uiVars
<1>1. CASE Prune!Change
  <2>1. /\ DOMAIN disk' \subseteq Entries
        /\ \A e \in DOMAIN disk' : disk'[e] \in [rev: Nat, locked: BOOLEAN, live: BOOLEAN]
        /\ changes' \in Nat
    <3>1. PICK e \in Entries :
            \/ e \in DOMAIN disk /\ \E l, v \in BOOLEAN : disk' = [disk EXCEPT ![e].locked = l, ![e].live = v]
            \/ e \in DOMAIN disk /\ disk' = [disk EXCEPT ![e] = [rev |-> changes + 1, locked |-> FALSE, live |-> FALSE]]
            \/ disk' = [d \in DOMAIN disk \cup {e} |->
                          IF d = e THEN [rev |-> changes + 1, locked |-> FALSE, live |-> FALSE] ELSE disk[d]]
      BY <1>1 DEF Prune!Change
    <3>2. changes' = changes + 1 /\ changes \in Nat
      BY <1>1 DEF Prune!Change, PruneInv, PruneTyped
    <3>3. DOMAIN disk \subseteq Entries /\ \A d \in DOMAIN disk : disk[d] \in [rev: Nat, locked: BOOLEAN, live: BOOLEAN]
      BY DEF PruneInv, PruneTyped
    <3>4. CASE e \in DOMAIN disk /\ \E l, v \in BOOLEAN : disk' = [disk EXCEPT ![e].locked = l, ![e].live = v]
      <4>1. PICK l \in BOOLEAN, v \in BOOLEAN : disk' = [disk EXCEPT ![e].locked = l, ![e].live = v]
        BY <3>4
      <4>2. disk'[e] = [disk[e] EXCEPT !.locked = l, !.live = v] /\ DOMAIN disk' = DOMAIN disk
        BY <3>4, <4>1
      <4>3. \A d \in DOMAIN disk : d # e => disk'[d] = disk[d]
        BY <4>1
      <4> QED
        BY <3>2, <3>3, <3>4, <4>2, <4>3
    <3>5. CASE e \in DOMAIN disk /\ disk' = [disk EXCEPT ![e] = [rev |-> changes + 1, locked |-> FALSE, live |-> FALSE]]
      BY <3>2, <3>3, <3>5
    <3>6. CASE disk' = [d \in DOMAIN disk \cup {e} |->
                          IF d = e THEN [rev |-> changes + 1, locked |-> FALSE, live |-> FALSE] ELSE disk[d]]
      BY <3>2, <3>3, <3>6
    <3> QED
      BY <3>1, <3>4, <3>5, <3>6
  <2> QED
    BY <1>1, <2>1 DEF Prune!Change, PruneInv, PruneTyped, PruneTold, PruneShown
<1>2. CASE Prune!Expire
  <2>1. /\ record' \in [token: Nat, snaps: SUBSET Prune!Snapshot, expired: BOOLEAN]
        /\ record'.token = record.token /\ record'.snaps = record.snaps
    BY <1>2 DEF Prune!Expire, PruneInv, PruneTyped
  <2> QED
    BY <1>2, <2>1 DEF Prune!Expire, PruneInv, PruneTyped, PruneTold, PruneShown
<1>3. CASE Prune!Run
  <2>1. PICK at \in {"other", "previewing"} :
          runs' = runs \cup {[gen |-> gen + 1, at |-> at, shown |-> {}, token |-> Prune!NoOne, ok |-> FALSE,
                              todo |-> {}, removed |-> FALSE, failed |-> FALSE]}
    BY <1>3 DEF Prune!Run
  <2> DEFINE new == [gen |-> gen + 1, at |-> at, shown |-> {}, token |-> Prune!NoOne, ok |-> FALSE,
                     todo |-> {}, removed |-> FALSE, failed |-> FALSE]
  <2>2. new \in PruneRun
    BY DEF PruneRun, Prune!Stages, Prune!NoOne, PruneInv, PruneTyped
  <2>3. gen' = gen + 1 /\ UNCHANGED <<disk, changes, record, cancelPending, dialog>> /\ runs' = runs \cup {new}
    BY <1>3, <2>1 DEF Prune!Run
  <2>4. new.gen = gen + 1 /\ new.at \in {"other", "previewing"}
    OBVIOUS
  <2> HIDE DEF new
  <2>5. PruneTyped'
    BY <2>2, <2>3 DEF PruneInv, PruneTyped
  <2>6. PruneTold'
    BY <2>2, <2>3, <2>4, SMT DEF PruneInv, PruneTyped, PruneTold, PruneRun
  <2>7. PruneShown'
    BY <2>2, <2>3, <2>4, SMT DEF PruneInv, PruneTyped, PruneTold, PruneShown, PruneRun
  <2> QED
    BY <2>5, <2>6, <2>7 DEF PruneInv
<1>4. CASE Prune!OtherEnds
  BY <1>4, PruneEnds DEF Prune!OtherEnds, Prune!Finally, PruneInv, PruneTyped, Prune!NoOne
<1>5. CASE Prune!ServePreview
  <2>1. PICK r \in runs :
          LET snaps == {Prune!Snap(e) : e \in {x \in Entries : Prune!Stale(x)}}
          IN /\ r.at = "previewing"
             /\ Prune!Becomes(r, [r EXCEPT !.at = "previewed", !.shown = snaps, !.token = r.gen])
             /\ record' = IF snaps = {} THEN record ELSE [token |-> r.gen, snaps |-> snaps, expired |-> FALSE]
             /\ UNCHANGED <<Prune!diskVars, Prune!uiVars, behind>>
    BY <1>5 DEF Prune!ServePreview
  <2> DEFINE snaps == {Prune!Snap(e) : e \in {x \in Entries : Prune!Stale(x)}}
             new == [r EXCEPT !.at = "previewed", !.shown = snaps, !.token = r.gen]
  <2>2. snaps \subseteq Prune!Snapshot
    BY PruneSnap DEF PruneInv
  <2>3. r \in PruneRun /\ new \in PruneRun
    BY <2>2 DEF PruneRun, Prune!Stages, PruneInv, PruneTyped
  <2>4. new.gen = r.gen /\ new.at = "previewed" /\ new.token = r.gen /\ new.shown = snaps
    BY <2>3 DEF PruneRun
  <2>5. runs' = (runs \ {r}) \cup {new} /\ UNCHANGED <<disk, changes, gen, cancelPending, dialog>>
    BY <2>1 DEF Prune!Becomes
  <2>6. \/ record' = record
        \/ record' = [token |-> r.gen, snaps |-> snaps, expired |-> FALSE]
    BY <2>1
  <2>7. record' \in [token: Nat, snaps: SUBSET Prune!Snapshot, expired: BOOLEAN]
    <3>1. r.gen \in Nat /\ snaps \in SUBSET Prune!Snapshot
      BY <2>2, <2>3 DEF PruneRun
    <3> HIDE DEF snaps
    <3>2. record \in [token: Nat, snaps: SUBSET Prune!Snapshot, expired: BOOLEAN]
      BY DEF PruneInv, PruneTyped
    <3>3. [token |-> r.gen, snaps |-> snaps, expired |-> FALSE] \in [token: Nat, snaps: SUBSET Prune!Snapshot, expired: BOOLEAN]
      BY <3>1
    <3> QED
      BY <2>6, <3>2, <3>3
  <2>8. /\ record.token # r.gen
        /\ (record'.token = record.token /\ record'.snaps = record.snaps) \/ (record'.token = r.gen /\ record'.snaps = snaps)
    BY <2>1, <2>6 DEF PruneInv, PruneTold
  <2> HIDE DEF new, snaps
  <2>9. PruneTyped'
    BY <2>3, <2>5, <2>7 DEF PruneInv, PruneTyped
  <2>10. PruneTold'
    BY <2>1, <2>3, <2>4, <2>5, <2>8, SMT DEF PruneInv, PruneTyped, PruneTold, PruneRun
  <2>11. PruneShown'
    BY <2>1, <2>3, <2>4, <2>5, <2>8, SMT DEF PruneInv, PruneTyped, PruneTold, PruneShown, PruneRun
  <2> QED
    BY <2>9, <2>10, <2>11 DEF PruneInv
<1>6. CASE Prune!PreviewFails
  BY <1>6, PruneEnds DEF Prune!PreviewFails, Prune!Finally, PruneInv, PruneTyped, Prune!NoOne
<1>7. CASE Prune!AskConfirmation
  <2>1. PICK r \in runs :
          /\ r.at = "previewed"
          /\ \/ cancelPending' = r.gen /\ dialog' = r.gen /\ Prune!Becomes(r, [r EXCEPT !.at = "confirming"])
             \/ Prune!Finally(r) /\ UNCHANGED dialog
          /\ UNCHANGED <<Prune!diskVars, record, gen, behind>>
    BY <1>7 DEF Prune!AskConfirmation
  <2>2. r \in PruneRun /\ [r EXCEPT !.at = "confirming"] \in PruneRun
    BY DEF PruneRun, Prune!Stages, PruneInv, PruneTyped
  <2>3. CASE cancelPending' = r.gen /\ dialog' = r.gen /\ Prune!Becomes(r, [r EXCEPT !.at = "confirming"])
    BY <2>1, <2>2, <2>3, PruneMoves DEF PruneRun
  <2>4. CASE Prune!Finally(r) /\ UNCHANGED dialog
    BY <2>1, <2>4, PruneEnds DEF Prune!Finally, PruneInv, PruneTyped, Prune!NoOne
  <2> QED
    BY <2>1, <2>3, <2>4
<1>8. CASE Prune!Answer
  <2>1. PICK r \in runs, yes \in BOOLEAN :
          /\ r.at = "confirming" /\ dialog' = Prune!NoOne /\ Prune!Becomes(r, [r EXCEPT !.at = "decided", !.ok = yes])
          /\ UNCHANGED <<Prune!diskVars, record, gen, cancelPending>>
    BY <1>8 DEF Prune!Answer
  <2>2. r \in PruneRun /\ [r EXCEPT !.at = "decided", !.ok = yes] \in PruneRun
    BY DEF PruneRun, Prune!Stages, PruneInv, PruneTyped
  <2> QED
    BY <2>1, <2>2, PruneMoves DEF PruneRun, PruneInv, PruneTyped, Prune!NoOne
<1>9. CASE Prune!Decided
  <2>1. PICK r \in runs :
          /\ r.at = "decided"
          /\ \/ r.ok /\ Prune!Becomes(r, [r EXCEPT !.at = "applying"]) /\ cancelPending' = Prune!NoOne
             \/ Prune!Finally(r)
             \/ runs' = runs \ {r} /\ cancelPending' = Prune!NoOne
          /\ UNCHANGED <<Prune!diskVars, record, gen, dialog>>
    BY <1>9 DEF Prune!Decided
  <2>2. r \in PruneRun /\ [r EXCEPT !.at = "applying"] \in PruneRun
    BY DEF PruneRun, Prune!Stages, PruneInv, PruneTyped
  <2>3. CASE r.ok /\ Prune!Becomes(r, [r EXCEPT !.at = "applying"]) /\ cancelPending' = Prune!NoOne
    BY <2>1, <2>2, <2>3, PruneMoves DEF PruneRun, PruneInv, PruneTyped, Prune!NoOne
  <2>4. CASE Prune!Finally(r) \/ (runs' = runs \ {r} /\ cancelPending' = Prune!NoOne)
    BY <2>1, <2>4, PruneEnds DEF Prune!Finally, PruneInv, PruneTyped, Prune!NoOne
  <2> QED
    BY <2>1, <2>3, <2>4
<1>10. CASE Prune!CancelAll
  <2> DEFINE After(r) == IF r.at = "confirming" /\ r.gen \in {cancelPending, dialog}
                         THEN [r EXCEPT !.at = "decided"] ELSE r
  <2>1. /\ runs' = {After(r) : r \in runs} /\ gen' = gen + 1 /\ UNCHANGED <<disk, changes, record>>
        /\ cancelPending' = 0 /\ dialog' = 0
    BY <1>10 DEF Prune!CancelAll, Prune!NoOne
  <2>2. \A r \in runs :
          /\ After(r) \in PruneRun /\ After(r).gen = r.gen /\ After(r).shown = r.shown /\ After(r).token = r.token
          /\ \/ After(r).at = r.at /\ After(r).ok = r.ok /\ After(r).todo = r.todo
             \/ After(r).at = "decided" /\ r.at = "confirming"
    BY DEF PruneInv, PruneTyped, PruneRun, Prune!Stages
  <2> HIDE DEF After
  <2>3. PruneTyped'
    BY <2>1, <2>2 DEF PruneInv, PruneTyped
  <2>4. PruneTold'
    <3>1. \A r \in runs : r.gen \in Nat
      BY DEF PruneInv, PruneTyped, PruneRun
    <3> QED
      BY <2>1, <2>2, <3>1 DEF PruneInv, PruneTyped, PruneTold
  <2>5. PruneShown'
    BY <2>1, <2>2 DEF PruneInv, PruneTyped, PruneTold, PruneShown
  <2> QED
    BY <2>3, <2>4, <2>5 DEF PruneInv
<1>11. CASE Prune!StartApply
  <2>1. PICK r \in runs :
          /\ r.at = "applying" /\ record' = Prune!NoRecord
          /\ \/ Prune!Accepted(r) /\ Prune!Becomes(r, [r EXCEPT !.at = "deleting", !.todo = record.snaps])
             \/ Prune!Becomes(r, [r EXCEPT !.at = "applied", !.failed = TRUE])
          /\ UNCHANGED <<Prune!diskVars, Prune!uiVars, behind>>
    BY <1>11 DEF Prune!StartApply
  <2>2. /\ r \in PruneRun /\ [r EXCEPT !.at = "deleting", !.todo = record.snaps] \in PruneRun
        /\ [r EXCEPT !.at = "applied", !.failed = TRUE] \in PruneRun
    BY DEF PruneRun, Prune!Stages, PruneInv, PruneTyped
  <2>3. CASE Prune!Accepted(r) /\ Prune!Becomes(r, [r EXCEPT !.at = "deleting", !.todo = record.snaps])
    <3>1. record.snaps \subseteq r.shown /\ r.ok
      BY <2>1, <2>3 DEF Prune!Accepted, PruneInv, PruneTold, PruneShown
    <3> QED
      BY <2>1, <2>2, <2>3, <3>1, PruneMoves DEF PruneRun, PruneInv, PruneTyped
  <2>4. CASE Prune!Becomes(r, [r EXCEPT !.at = "applied", !.failed = TRUE])
    BY <2>1, <2>2, <2>4, PruneMoves DEF PruneRun, PruneInv, PruneTyped
  <2> QED
    BY <2>1, <2>3, <2>4
<1>12. CASE Prune!DeleteEntry
  <2>1. PICK r \in runs, s \in UNION {q.todo : q \in runs} :
          /\ r.at = "deleting" /\ s \in r.todo
          /\ disk' = disk \/ disk' = [e \in DOMAIN disk \ {s.id} |-> disk[e]]
          /\ Prune!Becomes(r, [r EXCEPT !.todo = @ \ {s}, !.removed = @ \/ s.id \notin DOMAIN disk'])
          /\ UNCHANGED <<changes, record, Prune!uiVars>>
    BY <1>12 DEF Prune!DeleteEntry
  <2> DEFINE new == [r EXCEPT !.todo = @ \ {s}, !.removed = @ \/ s.id \notin DOMAIN disk']
  <2>2. r \in PruneRun /\ new \in PruneRun
    BY DEF PruneRun, Prune!Stages, PruneInv, PruneTyped
  <2>3. new.gen = r.gen /\ new.at = "deleting" /\ new.token = r.token /\ new.shown = r.shown /\ new.ok = r.ok /\ new.todo \subseteq r.todo
    BY <2>1, <2>2 DEF PruneRun
  <2>4. runs' = (runs \ {r}) \cup {new} /\ UNCHANGED <<changes, record, gen, cancelPending, dialog>>
    BY <2>1 DEF Prune!Becomes
  <2>5. DOMAIN disk' \subseteq Entries /\ \A e \in DOMAIN disk' : disk'[e] \in [rev: Nat, locked: BOOLEAN, live: BOOLEAN]
    BY <2>1 DEF PruneInv, PruneTyped
  <2> HIDE DEF new
  <2>6. PruneTyped'
    BY <2>2, <2>4, <2>5 DEF PruneInv, PruneTyped
  <2>7. PruneTold'
    BY <2>1, <2>2, <2>3, <2>4, SMT DEF PruneInv, PruneTyped, PruneTold, PruneRun
  <2>8. PruneShown'
    BY <2>1, <2>2, <2>3, <2>4, SMT DEF PruneInv, PruneTyped, PruneTold, PruneShown, PruneRun
  <2> QED
    BY <2>6, <2>7, <2>8 DEF PruneInv
<1>13. CASE Prune!ApplyDone
  <2>1. PICK r \in runs : r.at = "deleting" /\ Prune!Becomes(r, [r EXCEPT !.at = "applied"])
    BY <1>13 DEF Prune!ApplyDone
  <2>2. r \in PruneRun /\ [r EXCEPT !.at = "applied"] \in PruneRun
    BY DEF PruneRun, Prune!Stages, PruneInv, PruneTyped
  <2> QED
    BY <1>13, <2>1, <2>2, PruneMoves DEF Prune!ApplyDone, PruneRun, PruneInv, PruneTyped
<1>14. CASE Prune!Applied
  BY <1>14, PruneEnds DEF Prune!Applied, Prune!Finally, PruneInv, PruneTyped, Prune!NoOne
<1>15. CASE UNCHANGED Prune!vars
  BY <1>15, PruneEnds DEF Prune!vars, PruneInv, PruneTyped
<1> QED
  BY <1>1, <1>2, <1>3, <1>4, <1>5, <1>6, <1>7, <1>8, <1>9, <1>10, <1>11, <1>12, <1>13, <1>14, <1>15 DEF Prune!Next

\* Whatever runs overlap and whatever changes the entries meanwhile: what a step removes
\* is stale now, and the dialog that showed just this entry was answered with yes.
LEMMA PruneActs == ASSUME PruneInv, [Prune!Next]_(Prune!vars) PROVE Prune!RemovesOnlyConfirmed
<1> SUFFICES ASSUME NEW e \in Prune!Pruned
             PROVE  Prune!Stale(e) /\ \E r \in runs : r.at = "deleting" /\ r.ok /\ Prune!Snap(e) \in r.shown
  BY DEF Prune!RemovesOnlyConfirmed
<1>1. Prune!DeleteEntry
  <2>1. disk' # disk
    BY DEF Prune!Pruned
  <2>2. ~Prune!Change
    BY DEF Prune!Change, Prune!Pruned
  <2> QED
    BY <2>1, <2>2 DEF Prune!Next, Prune!vars, Prune!Expire, Prune!Run, Prune!OtherEnds, Prune!ServePreview,
                       Prune!PreviewFails, Prune!AskConfirmation, Prune!Answer, Prune!Decided, Prune!CancelAll,
                       Prune!StartApply, Prune!ApplyDone, Prune!Applied, Prune!diskVars
<1>2. PICK r \in runs, s \in UNION {q.todo : q \in runs} :
        r.at = "deleting" /\ s \in r.todo /\ Prune!Verified(s) /\ disk' = [x \in DOMAIN disk \ {s.id} |-> disk[x]]
  BY <1>1 DEF Prune!DeleteEntry, Prune!Pruned
<1>3. e = s.id
  BY <1>2 DEF Prune!Pruned
<1> QED
  BY <1>2, <1>3 DEF Prune!Verified, Prune!Unchanged, PruneInv, PruneShown

----------------------------------------------------------------------------
(* The runner.                                                             *)

\* The live run goes on being what it is: no step but its own moves it.
LEMMA RunnerStays ==
  ASSUME PruneInv, Prune!OneLiveRun, NEW r \in runs, NEW new, runs' = (runs \ {r}) \cup {new},
         new.gen = r.gen, r.at # "confirming", UNCHANGED <<gen, busy, dialog>>
  PROVE  Prune!OneLiveRun'
<1>1. \A q \in runs : q # r => q \in runs'
  OBVIOUS
<1>2. (\E q \in runs : Prune!LiveRun(q)) <=> (\E q \in runs' : Prune!LiveRun(q)')
  BY <1>1 DEF Prune!LiveRun
<1>3. dialog # Prune!NoOne => \E q \in runs' : Prune!LiveRun(q)' /\ q.at = "confirming"
  BY <1>1 DEF Prune!OneLiveRun, Prune!LiveRun
<1> QED
  BY <1>2, <1>3 DEF Prune!OneLiveRun

\* A run ends that no dialog is open for.
LEMMA RunnerEnds ==
  ASSUME PruneInv, Prune!OneLiveRun, NEW r \in runs, Prune!Finally(r), r.at # "confirming", UNCHANGED <<gen, dialog>>
  PROVE  Prune!OneLiveRun'
<1>1. runs' = runs \ {r}
  BY DEF Prune!Finally
<1>2. \A q \in runs : Prune!LiveRun(q) /\ Prune!LiveRun(r) => q = r
  BY DEF Prune!LiveRun, PruneInv, PruneTold
<1>3. CASE Prune!LiveRun(r)
  <2>1. busy' = FALSE /\ ~\E q \in runs' : Prune!LiveRun(q)'
    BY <1>1, <1>2, <1>3 DEF Prune!Finally, Prune!LiveRun
  <2>2. dialog' = Prune!NoOne
    BY <1>2, <1>3 DEF Prune!OneLiveRun
  <2> QED
    BY <2>1, <2>2 DEF Prune!OneLiveRun
<1>4. CASE ~Prune!LiveRun(r)
  <2>1. busy' = busy /\ \A q \in runs : Prune!LiveRun(q) => q \in runs'
    BY <1>1, <1>4 DEF Prune!Finally
  <2> QED
    BY <1>1, <2>1 DEF Prune!OneLiveRun, Prune!LiveRun
<1> QED
  BY <1>3, <1>4

LEMMA RunnerStep == ASSUME PruneInv, Prune!OneLiveRun, [Prune!Next]_(Prune!vars) PROVE Prune!OneLiveRun'
<1> USE DEF Prune!diskVars, Prune!uiVars
<1>1. CASE Prune!Change \/ Prune!Expire
  <2>1. UNCHANGED <<runs, gen, busy, dialog>>
    BY <1>1 DEF Prune!Change, Prune!Expire
  <2> QED
    BY <2>1 DEF Prune!OneLiveRun, Prune!LiveRun
<1>2. CASE Prune!Run
  <2>1. PICK at \in {"other", "previewing"} :
          runs' = runs \cup {[gen |-> gen + 1, at |-> at, shown |-> {}, token |-> Prune!NoOne, ok |-> FALSE,
                              todo |-> {}, removed |-> FALSE, failed |-> FALSE]}
    BY <1>2 DEF Prune!Run
  <2>2. gen' = gen + 1 /\ busy' /\ UNCHANGED dialog /\ ~busy
    BY <1>2 DEF Prune!Run
  <2>3. dialog = Prune!NoOne
    BY <2>2 DEF Prune!OneLiveRun
  <2>4. \E q \in runs' : Prune!LiveRun(q)'
    <3> DEFINE new == [gen |-> gen + 1, at |-> at, shown |-> {}, token |-> Prune!NoOne, ok |-> FALSE,
                       todo |-> {}, removed |-> FALSE, failed |-> FALSE]
    <3>1. new \in runs' /\ new.gen = gen'
      BY <2>1, <2>2
    <3> QED
      BY <3>1 DEF Prune!LiveRun
  <2> QED
    BY <2>2, <2>3, <2>4 DEF Prune!OneLiveRun
<1>3. CASE Prune!OtherEnds \/ Prune!PreviewFails \/ Prune!Applied
  BY <1>3, RunnerEnds DEF Prune!OtherEnds, Prune!PreviewFails, Prune!Applied
<1>4. CASE Prune!ServePreview
  <2>1. PICK r \in runs, shown \in {{Prune!Snap(e) : e \in {x \in Entries : Prune!Stale(x)}}} :
          r.at = "previewing" /\ Prune!Becomes(r, [r EXCEPT !.at = "previewed", !.shown = shown, !.token = r.gen])
    BY <1>4 DEF Prune!ServePreview
  <2> DEFINE new == [r EXCEPT !.at = "previewed", !.shown = shown, !.token = r.gen]
  <2>2. new.gen = r.gen
    BY DEF PruneInv, PruneTyped, PruneRun
  <2>3. runs' = (runs \ {r}) \cup {new} /\ UNCHANGED <<gen, busy, dialog>>
    BY <1>4, <2>1 DEF Prune!ServePreview, Prune!Becomes
  <2> HIDE DEF new
  <2> QED
    BY <2>1, <2>2, <2>3, RunnerStays
<1>5. CASE Prune!AskConfirmation
  <2>1. PICK r \in runs :
          /\ r.at = "previewed"
          /\ \/ Prune!LiveRun(r) /\ dialog' = r.gen /\ UNCHANGED busy /\ Prune!Becomes(r, [r EXCEPT !.at = "confirming"])
             \/ Prune!Finally(r) /\ UNCHANGED dialog
          /\ UNCHANGED gen
    BY <1>5 DEF Prune!AskConfirmation
  <2>2. CASE Prune!LiveRun(r) /\ dialog' = r.gen /\ UNCHANGED busy /\ Prune!Becomes(r, [r EXCEPT !.at = "confirming"])
    <3> DEFINE new == [r EXCEPT !.at = "confirming"]
    <3>1. new \in runs' /\ new.gen = r.gen /\ new.at = "confirming"
      BY <2>2 DEF Prune!Becomes, PruneInv, PruneTyped, PruneRun
    <3>2. r.gen = gen /\ UNCHANGED gen
      BY <2>1, <2>2 DEF Prune!LiveRun
    <3>3. busy
      BY <2>2 DEF Prune!OneLiveRun
    <3> HIDE DEF new
    <3> QED
      BY <2>2, <3>1, <3>2, <3>3 DEF Prune!OneLiveRun, Prune!LiveRun
  <2>3. CASE Prune!Finally(r) /\ UNCHANGED dialog
    BY <2>1, <2>3, RunnerEnds
  <2> QED
    BY <2>1, <2>2, <2>3
<1>6. CASE Prune!Answer
  <2>1. PICK r \in runs, yes \in BOOLEAN :
          r.at = "confirming" /\ dialog' = Prune!NoOne /\ Prune!Becomes(r, [r EXCEPT !.at = "decided", !.ok = yes])
    BY <1>6 DEF Prune!Answer
  <2> DEFINE new == [r EXCEPT !.at = "decided", !.ok = yes]
  <2>2. runs' = (runs \ {r}) \cup {new} /\ new.gen = r.gen
    BY <2>1 DEF Prune!Becomes, PruneInv, PruneTyped, PruneRun
  <2>3. UNCHANGED <<gen, busy>>
    BY <1>6 DEF Prune!Answer
  <2> HIDE DEF new
  <2>4. (\E q \in runs : Prune!LiveRun(q)) <=> (\E q \in runs' : Prune!LiveRun(q)')
    BY <2>2, <2>3 DEF Prune!LiveRun
  <2> QED
    BY <2>1, <2>3, <2>4 DEF Prune!OneLiveRun
<1>7. CASE Prune!Decided
  <2>1. PICK r \in runs :
          /\ r.at = "decided"
          /\ \/ Prune!Becomes(r, [r EXCEPT !.at = "applying"]) /\ UNCHANGED busy
             \/ Prune!Finally(r)
             \/ ~Prune!LiveRun(r) /\ runs' = runs \ {r} /\ UNCHANGED busy
          /\ UNCHANGED <<gen, dialog>>
    BY <1>7 DEF Prune!Decided
  <2>2. CASE Prune!Becomes(r, [r EXCEPT !.at = "applying"]) /\ UNCHANGED busy
    <3> DEFINE new == [r EXCEPT !.at = "applying"]
    <3>1. new.gen = r.gen
      BY DEF PruneInv, PruneTyped, PruneRun
    <3>2. runs' = (runs \ {r}) \cup {new}
      BY <2>2 DEF Prune!Becomes
    <3> HIDE DEF new
    <3> QED
      BY <2>1, <2>2, <3>1, <3>2, RunnerStays
  <2>3. CASE Prune!Finally(r)
    BY <2>1, <2>3, RunnerEnds
  <2>4. CASE ~Prune!LiveRun(r) /\ runs' = runs \ {r} /\ UNCHANGED busy
    <3>1. \A q \in runs : Prune!LiveRun(q) => q \in runs'
      BY <2>4
    <3> QED
      BY <2>1, <2>4, <3>1 DEF Prune!OneLiveRun, Prune!LiveRun
  <2> QED
    BY <2>1, <2>2, <2>3, <2>4
<1>8. CASE Prune!CancelAll
  <2>1. \A q \in runs' : q.gen <= gen
    <3>1. \A r \in runs : r.gen <= gen /\ [r EXCEPT !.at = "decided"].gen = r.gen
      BY DEF PruneInv, PruneTyped, PruneTold, PruneRun
    <3> QED
      BY <1>8, <3>1 DEF Prune!CancelAll
  <2>2. ~\E q \in runs' : Prune!LiveRun(q)'
    BY <1>8, <2>1 DEF Prune!CancelAll, Prune!LiveRun, PruneInv, PruneTyped
  <2> QED
    BY <1>8, <2>2 DEF Prune!CancelAll, Prune!OneLiveRun
<1>9. CASE Prune!StartApply
  <2>1. PICK r \in runs :
          /\ r.at = "applying"
          /\ \/ Prune!Becomes(r, [r EXCEPT !.at = "deleting", !.todo = record.snaps])
             \/ Prune!Becomes(r, [r EXCEPT !.at = "applied", !.failed = TRUE])
          /\ UNCHANGED <<gen, busy, dialog>>
    BY <1>9 DEF Prune!StartApply
  <2> DEFINE starts == [r EXCEPT !.at = "deleting", !.todo = record.snaps]
             fails  == [r EXCEPT !.at = "applied", !.failed = TRUE]
  <2>2. starts.gen = r.gen /\ fails.gen = r.gen
    BY DEF PruneInv, PruneTyped, PruneRun
  <2>3. UNCHANGED <<gen, busy, dialog>> /\ r.at # "confirming"
    BY <2>1
  <2>4. runs' = (runs \ {r}) \cup {starts} \/ runs' = (runs \ {r}) \cup {fails}
    BY <2>1 DEF Prune!Becomes
  <2> HIDE DEF starts, fails
  <2>5. CASE runs' = (runs \ {r}) \cup {starts}
    BY <2>2, <2>3, <2>5, RunnerStays
  <2>6. CASE runs' = (runs \ {r}) \cup {fails}
    BY <2>2, <2>3, <2>6, RunnerStays
  <2> QED
    BY <2>4, <2>5, <2>6
<1>10. CASE Prune!DeleteEntry
  <2>1. PICK r \in runs, s \in UNION {q.todo : q \in runs} :
          r.at = "deleting" /\ Prune!Becomes(r, [r EXCEPT !.todo = @ \ {s}, !.removed = @ \/ s.id \notin DOMAIN disk'])
    BY <1>10 DEF Prune!DeleteEntry
  <2> DEFINE new == [r EXCEPT !.todo = @ \ {s}, !.removed = @ \/ s.id \notin DOMAIN disk']
  <2>2. new.gen = r.gen
    BY DEF PruneInv, PruneTyped, PruneRun
  <2>3. runs' = (runs \ {r}) \cup {new} /\ UNCHANGED <<gen, busy, dialog>>
    BY <1>10, <2>1 DEF Prune!DeleteEntry, Prune!Becomes
  <2> HIDE DEF new
  <2> QED
    BY <2>1, <2>2, <2>3, RunnerStays
<1>11. CASE Prune!ApplyDone
  <2>1. PICK r \in runs : r.at = "deleting" /\ Prune!Becomes(r, [r EXCEPT !.at = "applied"])
    BY <1>11 DEF Prune!ApplyDone
  <2> DEFINE new == [r EXCEPT !.at = "applied"]
  <2>2. new.gen = r.gen
    BY DEF PruneInv, PruneTyped, PruneRun
  <2>3. runs' = (runs \ {r}) \cup {new} /\ UNCHANGED <<gen, busy, dialog>>
    BY <1>11, <2>1 DEF Prune!ApplyDone, Prune!Becomes
  <2> HIDE DEF new
  <2> QED
    BY <2>1, <2>2, <2>3, RunnerStays
<1>12. CASE UNCHANGED Prune!vars
  BY <1>12 DEF Prune!vars, Prune!OneLiveRun, Prune!LiveRun
<1> QED
  BY <1>1, <1>2, <1>3, <1>4, <1>5, <1>6, <1>7, <1>8, <1>9, <1>10, <1>11, <1>12 DEF Prune!Next

----------------------------------------------------------------------------
(* What was removed and what the lists show.                               *)

\* A run that removed something is not through before it has reported.
PruneCaught ==
  /\ Prune!ListsCatchUp
  /\ \A r \in runs : r.removed => r.at \in {"deleting", "applied"}

LEMMA CaughtMoves ==
  ASSUME PruneCaught, NEW r \in runs, NEW new, runs' = (runs \ {r}) \cup {new},
         r.removed => new.removed, new.removed => new.at \in {"deleting", "applied"},
         behind' => behind \/ new.removed
  PROVE  PruneCaught'
BY DEF PruneCaught, Prune!ListsCatchUp

LEMMA CaughtEnds ==
  ASSUME PruneCaught, NEW r \in runs, runs' = runs \ {r}, behind' => behind /\ ~r.removed
  PROVE  PruneCaught'
BY DEF PruneCaught, Prune!ListsCatchUp

LEMMA CaughtStep == ASSUME PruneInv, PruneCaught, [Prune!Next]_(Prune!vars) PROVE PruneCaught'
<1>0. runs \subseteq PruneRun
  BY DEF PruneInv, PruneTyped
<1>1. CASE UNCHANGED <<runs, behind>>
  BY <1>1 DEF PruneCaught, Prune!ListsCatchUp
<1>2. CASE Prune!Run
  <2>1. PICK at \in {"other", "previewing"} :
          runs' = runs \cup {[gen |-> gen + 1, at |-> at, shown |-> {}, token |-> Prune!NoOne, ok |-> FALSE,
                              todo |-> {}, removed |-> FALSE, failed |-> FALSE]} /\ UNCHANGED behind
    BY <1>2 DEF Prune!Run
  <2> QED
    BY <2>1 DEF PruneCaught, Prune!ListsCatchUp
<1>3. CASE Prune!OtherEnds \/ Prune!PreviewFails
  <2>1. PICK r \in runs : r.at \in {"other", "previewing"} /\ runs' = runs \ {r} /\ behind' = behind
    BY <1>3 DEF Prune!OtherEnds, Prune!PreviewFails, Prune!Finally
  <2> QED
    BY <2>1, CaughtEnds DEF PruneCaught
<1>4. CASE Prune!ServePreview
  <2>1. PICK r \in runs : \E shown : r.at = "previewing" /\ UNCHANGED behind
                                    /\ Prune!Becomes(r, [r EXCEPT !.at = "previewed", !.shown = shown, !.token = r.gen])
    BY <1>4 DEF Prune!ServePreview
  <2>2. PICK shown : Prune!Becomes(r, [r EXCEPT !.at = "previewed", !.shown = shown, !.token = r.gen])
    BY <2>1
  <2> DEFINE new == [r EXCEPT !.at = "previewed", !.shown = shown, !.token = r.gen]
  <2>3. new.removed = r.removed /\ ~r.removed
    BY <1>0, <2>1 DEF PruneRun, PruneCaught
  <2>4. runs' = (runs \ {r}) \cup {new}
    BY <2>2 DEF Prune!Becomes
  <2> HIDE DEF new
  <2> QED
    BY <2>1, <2>3, <2>4, CaughtMoves
<1>5. CASE Prune!AskConfirmation \/ Prune!Answer \/ Prune!Decided
  <2>1. PICK r \in runs : /\ r.at \in {"previewed", "confirming", "decided"} /\ UNCHANGED behind
                          /\ \/ runs' = runs \ {r}
                             \/ Prune!Becomes(r, [r EXCEPT !.at = "confirming"])
                             \/ \E yes \in BOOLEAN : Prune!Becomes(r, [r EXCEPT !.at = "decided", !.ok = yes])
                             \/ Prune!Becomes(r, [r EXCEPT !.at = "applying"])
    BY <1>5 DEF Prune!AskConfirmation, Prune!Answer, Prune!Decided, Prune!Finally
  <2>2. ~r.removed
    BY <2>1 DEF PruneCaught
  <2>3. CASE runs' = runs \ {r}
    BY <2>1, <2>2, <2>3, CaughtEnds
  <2>4. ASSUME NEW new, new.removed = r.removed, Prune!Becomes(r, new) PROVE PruneCaught'
    BY <2>1, <2>2, <2>4, CaughtMoves DEF Prune!Becomes
  <2>5. /\ [r EXCEPT !.at = "confirming"].removed = r.removed /\ [r EXCEPT !.at = "applying"].removed = r.removed
        /\ \A yes \in BOOLEAN : [r EXCEPT !.at = "decided", !.ok = yes].removed = r.removed
    BY <1>0 DEF PruneRun
  <2> QED
    BY <2>1, <2>3, <2>4, <2>5
<1>6. CASE Prune!CancelAll
  <2> DEFINE After(r) == IF r.at = "confirming" /\ r.gen \in {cancelPending, dialog}
                         THEN [r EXCEPT !.at = "decided"] ELSE r
  <2>1. runs' = {After(r) : r \in runs} /\ UNCHANGED behind
    BY <1>6 DEF Prune!CancelAll
  <2>2. \A r \in runs : After(r).removed = r.removed /\ (r.removed => After(r).at = r.at)
    BY <1>0 DEF PruneRun, PruneCaught
  <2> HIDE DEF After
  <2> QED
    BY <2>1, <2>2 DEF PruneCaught, Prune!ListsCatchUp
<1>7. CASE Prune!StartApply \/ Prune!ApplyDone
  <2>1. PICK r \in runs : /\ r.at \in {"applying", "deleting"} /\ UNCHANGED behind
                          /\ \/ \E todo : Prune!Becomes(r, [r EXCEPT !.at = "deleting", !.todo = todo])
                             \/ Prune!Becomes(r, [r EXCEPT !.at = "applied", !.failed = TRUE])
                             \/ Prune!Becomes(r, [r EXCEPT !.at = "applied"])
    BY <1>7 DEF Prune!StartApply, Prune!ApplyDone
  <2>2. ASSUME NEW new, new.removed = r.removed, new.at \in {"deleting", "applied"}, Prune!Becomes(r, new)
        PROVE  PruneCaught'
    BY <2>1, <2>2, CaughtMoves DEF Prune!Becomes
  <2>3. /\ \A todo : LET new == [r EXCEPT !.at = "deleting", !.todo = todo]
                     IN new.removed = r.removed /\ new.at = "deleting"
        /\ LET new == [r EXCEPT !.at = "applied", !.failed = TRUE] IN new.removed = r.removed /\ new.at = "applied"
        /\ LET new == [r EXCEPT !.at = "applied"] IN new.removed = r.removed /\ new.at = "applied"
    BY <1>0 DEF PruneRun
  <2> QED
    BY <2>1, <2>2, <2>3
<1>8. CASE Prune!DeleteEntry
  <2>1. PICK r \in runs, s \in UNION {q.todo : q \in runs} :
          /\ r.at = "deleting" /\ behind' = (behind \/ s.id \notin DOMAIN disk')
          /\ Prune!Becomes(r, [r EXCEPT !.todo = @ \ {s}, !.removed = @ \/ s.id \notin DOMAIN disk'])
    BY <1>8 DEF Prune!DeleteEntry
  <2> DEFINE new == [r EXCEPT !.todo = @ \ {s}, !.removed = @ \/ s.id \notin DOMAIN disk']
  <2>2. new.removed = (r.removed \/ s.id \notin DOMAIN disk') /\ new.at = "deleting"
    BY <1>0, <2>1 DEF PruneRun
  <2>3. runs' = (runs \ {r}) \cup {new}
    BY <2>1 DEF Prune!Becomes
  <2> HIDE DEF new
  <2> QED
    BY <2>1, <2>2, <2>3, CaughtMoves
<1>9. CASE Prune!Applied
  <2>1. PICK r \in runs : runs' = runs \ {r} /\ behind' = IF r.removed THEN FALSE ELSE behind
    BY <1>9 DEF Prune!Applied, Prune!Finally
  <2> QED
    BY <2>1, CaughtEnds
<1>10. CASE Prune!Change \/ Prune!Expire \/ UNCHANGED Prune!vars
  BY <1>1, <1>10 DEF Prune!Change, Prune!Expire, Prune!vars, Prune!uiVars
<1> QED
  BY <1>2, <1>3, <1>4, <1>5, <1>6, <1>7, <1>8, <1>9, <1>10 DEF Prune!Next

----------------------------------------------------------------------------
(* The whole invariant of the stale prune.                                 *)

PruneBounds ==
  /\ changes \in 0..MaxChanges /\ gen \in 0..MaxRuns /\ busy \in BOOLEAN /\ behind \in BOOLEAN
  /\ dialog \in 0..gen /\ cancelPending \in 0..gen

PruneWhole == PruneInv /\ PruneBounds /\ Prune!OneLiveRun /\ PruneCaught

LEMMA BoundsStep == ASSUME PruneInv, PruneBounds, [Prune!Next]_(Prune!vars) PROVE PruneBounds'
<1> USE DEF Prune!diskVars, Prune!uiVars, Prune!NoOne
<1>1. changes' \in 0..MaxChanges /\ gen' \in 0..MaxRuns /\ (gen' = gen \/ gen' = gen + 1)
  <2>1. changes \in Nat /\ gen \in Nat /\ MaxChanges \in Nat /\ MaxRuns \in Nat
    BY ShellAssumption DEF PruneInv, PruneTyped
  <2>2. changes' = changes \/ (changes' = changes + 1 /\ changes < MaxChanges)
    BY DEF Prune!Next, Prune!vars, Prune!Change, Prune!Expire, Prune!Run, Prune!OtherEnds, Prune!ServePreview,
           Prune!PreviewFails, Prune!AskConfirmation, Prune!Answer, Prune!Decided, Prune!CancelAll,
           Prune!StartApply, Prune!DeleteEntry, Prune!ApplyDone, Prune!Applied
  <2>3. gen' = gen \/ (gen' = gen + 1 /\ gen < MaxRuns)
    BY DEF Prune!Next, Prune!vars, Prune!Change, Prune!Expire, Prune!Run, Prune!OtherEnds, Prune!ServePreview,
           Prune!PreviewFails, Prune!AskConfirmation, Prune!Answer, Prune!Decided, Prune!CancelAll,
           Prune!StartApply, Prune!DeleteEntry, Prune!ApplyDone, Prune!Applied
  <2> QED
    BY <2>1, <2>2, <2>3 DEF PruneBounds
<1>2. \A r \in runs : r.gen \in 0..gen
  BY DEF PruneInv, PruneTyped, PruneTold, PruneRun
<1>3. /\ busy' \in {busy, TRUE, FALSE}
      /\ dialog' \in {dialog, 0} \cup {r.gen : r \in runs}
      /\ cancelPending' \in {cancelPending, 0} \cup {r.gen : r \in runs}
  BY DEF Prune!Next, Prune!vars, Prune!Change, Prune!Expire, Prune!Run, Prune!OtherEnds, Prune!ServePreview,
         Prune!PreviewFails, Prune!AskConfirmation, Prune!Answer, Prune!Decided, Prune!CancelAll, Prune!Finally,
         Prune!StartApply, Prune!DeleteEntry, Prune!ApplyDone, Prune!Applied
<1>4. behind' \in BOOLEAN
  BY DEF PruneBounds, Prune!Next, Prune!vars, Prune!Change, Prune!Expire, Prune!Run, Prune!OtherEnds,
         Prune!ServePreview, Prune!PreviewFails, Prune!AskConfirmation, Prune!Answer, Prune!Decided,
         Prune!CancelAll, Prune!StartApply, Prune!DeleteEntry, Prune!ApplyDone, Prune!Applied
<1>5. dialog' \in 0..gen' /\ cancelPending' \in 0..gen'
  BY <1>1, <1>2, <1>3 DEF PruneBounds
<1> QED
  BY <1>1, <1>3, <1>4, <1>5 DEF PruneBounds

LEMMA PruneInit == ASSUME Prune!Init PROVE PruneWhole
<1>1. PruneTyped
  <2>1. DOMAIN disk \subseteq Entries /\ \A e \in DOMAIN disk : disk[e] \in [rev: Nat, locked: BOOLEAN, live: BOOLEAN]
    BY DEF Prune!Init
  <2>2. record \in [token: Nat, snaps: SUBSET Prune!Snapshot, expired: BOOLEAN]
    BY DEF Prune!Init, Prune!NoRecord, Prune!NoOne
  <2> QED
    BY <2>1, <2>2 DEF Prune!Init, PruneTyped, Prune!NoOne
<1>2. PruneBounds
  <2>1. MaxRuns \in Nat /\ MaxChanges \in Nat
    BY ShellAssumption
  <2>2. changes \in 0..MaxChanges /\ gen \in 0..MaxRuns /\ dialog \in 0..gen /\ cancelPending \in 0..gen
    BY <2>1 DEF Prune!Init, Prune!NoOne
  <2>3. busy \in BOOLEAN /\ behind \in BOOLEAN
    BY DEF Prune!Init
  <2> QED
    BY <2>2, <2>3 DEF PruneBounds
<1> QED
  BY <1>1, <1>2 DEF Prune!Init, PruneWhole, PruneInv, PruneTold, PruneShown, PruneCaught, Prune!NoRecord, Prune!NoOne,
              Prune!OneLiveRun, Prune!ListsCatchUp

LEMMA PruneMeans ==
  ASSUME PruneWhole
  PROVE  Prune!TypeOK /\ Prune!OneLiveRun /\ Prune!ListsCatchUp
<1>1. record.token \in 0..gen /\ record.snaps \subseteq Prune!Snapshot
  BY DEF PruneWhole, PruneInv, PruneTyped, PruneTold
<1>2. \A r \in runs : /\ r.gen \in 1..gen /\ r.at \in Prune!Stages /\ r.ok \in BOOLEAN /\ r.failed \in BOOLEAN
                     /\ r.shown \subseteq Prune!Snapshot /\ r.todo \subseteq Prune!Snapshot /\ r.removed \in BOOLEAN
  BY DEF PruneWhole, PruneInv, PruneTyped, PruneTold, PruneRun
<1> QED
  BY <1>1, <1>2 DEF PruneWhole, PruneInv, PruneTyped, PruneBounds, PruneCaught, Prune!TypeOK

HIDE DEF disk, changes, record, runs, gen, busy, cancelPending, dialog, behind

----------------------------------------------------------------------------
(* What needs the user.                                                    *)

enabling == x1
stamp == x2
granted == x3
connected == x4
fresh == x5
epoch == x6
initialized == x7
loads == x8
inFlight == x9
snapshot == x10
deliveries == x11
enabled == x12
notified == x14
snoozed == x15
stored == x16
storable == x17
sent == x18
known == x19
USE DEF enabling, stamp, granted, connected, fresh, epoch, initialized, loads, inFlight, snapshot,
        deliveries, enabled, notified, snoozed, stored, storable, sent, known, budget, status

NeedsLoad == [version: Nat, served: BOOLEAN, pending: SUBSET Episodes, at: Nat]
NeedsDelivery == [at: {"free", "loop", "asking", "sending"}, version: Nat, todo: SUBSET Episodes,
                  key: {{}} \cup {{k} : k \in Episodes}]
NeedsPrefs == [enabled: BOOLEAN, notified: SUBSET Episodes, snoozed: SUBSET Episodes]

PrefsTyped ==
  /\ enabled \in BOOLEAN /\ enabling \in BOOLEAN /\ storable \in BOOLEAN
  /\ notified \subseteq Episodes /\ snoozed \subseteq Episodes /\ stored \in NeedsPrefs
NeedsTyped ==
  /\ status \in [Episodes -> {"new", "pending", "gone"}] /\ stamp \in Nat /\ granted \in BOOLEAN
  /\ connected \in BOOLEAN /\ fresh \in BOOLEAN /\ epoch \in Nat /\ initialized \in BOOLEAN
  /\ loads \subseteq NeedsLoad /\ inFlight \in {{}} \cup {{e} : e \in 0..epoch}
  /\ snapshot \in [pending: SUBSET Episodes, at: Nat]
  /\ deliveries \in [Attention!Slots -> NeedsDelivery]
  /\ known \subseteq Episodes /\ sent \in [Episodes -> Nat]

\* One load of an epoch at a time, that refresh waits for; deliveries follow a load.
NeedsOrder ==
  /\ snapshot.at <= stamp /\ \A l \in loads : l.version <= epoch /\ l.at <= stamp
  /\ \A l \in loads : l.version = epoch => inFlight = {epoch} /\ \A m \in loads : m.version = epoch => m = l
  /\ fresh => initialized
  /\ ~initialized => snapshot.pending = {}
DeliveriesOrder ==
  \A i \in Attention!Slots : /\ deliveries[i].version <= epoch
                             /\ deliveries[i] # Attention!Free => initialized
                             /\ deliveries[i].at \in {"asking", "sending"} => deliveries[i].key # {}

Sending(i, k) == deliveries[i].at = "sending" /\ k \in deliveries[i].key
\* Announced, about to be, or pending before announcements could be wanted.
Seen(k) == sent[k] > 0 \/ k \in known \/ \E i \in Attention!Slots : Sending(i, k)
Answers(l) == l.served /\ l.version = epoch

\* What the viewer holds has been, and an answer that is still to be applied knows of it.
NeedsPast ==
  /\ \A l \in loads : \A k \in l.pending : status[k] # "new"
  /\ \A k \in Episodes : k \in snapshot.pending \/ Seen(k) =>
       status[k] # "new" /\ \A l \in loads : Answers(l) => k \in l.pending \/ status[k] = "gone"
  /\ \A l \in loads : Answers(l) => snapshot.at <= l.at

\* What was seen is marked, or over; before the first load nothing is wanted.
Over(k) == status[k] = "gone" /\ k \notin snapshot.pending /\ \A l \in loads : Answers(l) => k \notin l.pending
NeedsMarked == \A k \in Episodes : Seen(k) => k \in notified \/ ~initialized \/ Over(k)

\* A notification under way is the only one of its episode.
NeedsOnce ==
  \A k \in Episodes :
    /\ sent[k] <= 1
    /\ \A i \in Attention!Slots : Sending(i, k) =>
         sent[k] = 0 /\ k \notin known /\ \A j \in Attention!Slots : Sending(j, k) => j = i

NeedsInv == PrefsTyped /\ NeedsTyped /\ NeedsOrder /\ DeliveriesOrder /\ NeedsPast /\ NeedsMarked /\ NeedsOnce

\* What is wanted was not seen.
LEMMA WantedIsUnseen ==
  ASSUME NeedsInv, NEW d, NEW k \in Episodes, Attention!Wanted(d, k)
  PROVE  ~Seen(k) /\ k \in snapshot.pending
BY DEF NeedsInv, NeedsOrder, NeedsMarked, Over, Attention!Wanted

\* The preferences and the deliveries change, the loads do not.
LEMMA NeedsQuiet ==
  ASSUME NeedsInv, UNCHANGED <<status, stamp, connected, fresh, epoch, initialized, loads, inFlight, snapshot>>,
         PrefsTyped', notified \subseteq notified', granted' \in BOOLEAN,
         deliveries' \in [Attention!Slots -> NeedsDelivery], DeliveriesOrder',
         known' \subseteq Episodes, sent' \in [Episodes -> Nat], NeedsOnce',
         \A k \in Episodes : Seen(k)' => Seen(k) \/ k \in snapshot.pending \cap notified'
  PROVE  NeedsInv'
<1>1. NeedsTyped' /\ NeedsOrder'
  BY DEF NeedsInv, NeedsTyped, NeedsOrder
<1>2. NeedsPast'
  BY DEF NeedsInv, NeedsPast, Answers
<1>3. NeedsMarked'
  BY DEF NeedsInv, NeedsMarked, Over, Answers
<1> QED
  BY <1>1, <1>2, <1>3 DEF NeedsInv

\* A slot that is not free holds a delivery of an answer, so one was applied.
LEMMA NeedsBusy ==
  ASSUME NeedsInv, NEW i \in Attention!Slots, deliveries[i].at # "free"
  PROVE  initialized
<1>1. Attention!Free.at = "free"
  BY DEF Attention!Free
<1>2. deliveries[i] # Attention!Free
  BY <1>1
<1> QED
  BY <1>2, Zenon DEF NeedsInv, DeliveriesOrder

LEMMA NeedsPrefer ==
  ASSUME PrefsTyped, NEW e \in BOOLEAN, NEW n \in SUBSET Episodes, NEW z \in SUBSET Episodes,
         Attention!Prefer(e, n, z), enabling' \in BOOLEAN
  PROVE  PrefsTyped' /\ notified' = n
<1>1. [enabled |-> e, notified |-> n, snoozed |-> z] \in NeedsPrefs
  BY DEF NeedsPrefs
<1>2. stored' \in NeedsPrefs
  BY <1>1 DEF PrefsTyped, Attention!Prefer
<1> QED
  BY <1>2 DEF PrefsTyped, Attention!Prefer

\* The preferences change alone.
LEMMA NeedsPrefers ==
  ASSUME NeedsInv, UNCHANGED <<status, stamp, Attention!netVars, deliveries, sent, known>>, PrefsTyped',
         notified \subseteq notified', granted' \in BOOLEAN
  PROVE  NeedsInv'
<1>1. DeliveriesOrder' /\ NeedsOnce' /\ \A k : Seen(k)' = Seen(k)
  BY DEF NeedsInv, DeliveriesOrder, NeedsOnce, Seen, Sending, Attention!netVars
<1> QED
  BY <1>1, NeedsQuiet DEF NeedsInv, NeedsTyped, Attention!netVars

\* One delivery goes on; if it was sending it sends no more.
LEMMA NeedsDelivers ==
  ASSUME NeedsInv, UNCHANGED <<Attention!daemonVars, Attention!netVars, known>>,
         PrefsTyped', notified \subseteq notified', NEW i \in Attention!Slots, NEW d \in NeedsDelivery,
         Attention!Delivers(i, d), d.version <= epoch, d # Attention!Free => initialized,
         d.at = "asking" => d.key # {}, d.at # "sending",
         \/ UNCHANGED sent
         \/ /\ sent' = [k \in Episodes |-> IF k \in deliveries[i].key THEN sent[k] + 1 ELSE sent[k]]
            /\ deliveries[i].at = "sending"
  PROVE  NeedsInv'
<1>1. /\ deliveries' = [deliveries EXCEPT ![i] = d] /\ deliveries \in [Attention!Slots -> NeedsDelivery]
      /\ sent \in [Episodes -> Nat] /\ granted \in BOOLEAN
  BY DEF NeedsInv, NeedsTyped, Attention!Delivers
<1>2. deliveries' \in [Attention!Slots -> NeedsDelivery] /\ sent' \in [Episodes -> Nat]
  BY <1>1
<1>3. deliveries'[i] = d /\ \A j \in Attention!Slots : j # i => deliveries'[j] = deliveries[j]
  BY <1>1
<1>4. DeliveriesOrder'
  BY <1>3 DEF NeedsInv, DeliveriesOrder, Attention!netVars
<1>5. \A j \in Attention!Slots : \A k : Sending(j, k)' => j # i /\ Sending(j, k)
  BY <1>3 DEF Sending
<1>6. CASE UNCHANGED sent
  <2>1. NeedsOnce'
    BY <1>5, <1>6 DEF NeedsInv, NeedsOnce
  <2>2. \A k \in Episodes : Seen(k)' => Seen(k)
    BY <1>5, <1>6 DEF Seen
  <2> QED
    BY <1>1, <1>2, <1>4, <2>1, <2>2, NeedsQuiet DEF NeedsInv, NeedsTyped, Attention!netVars, Attention!daemonVars
<1>7. CASE /\ sent' = [k \in Episodes |-> IF k \in deliveries[i].key THEN sent[k] + 1 ELSE sent[k]]
           /\ deliveries[i].at = "sending"
  <2>1. \A k \in Episodes : sent'[k] = IF Sending(i, k) THEN sent[k] + 1 ELSE sent[k]
    BY <1>7 DEF Sending
  <2>2. NeedsOnce'
    BY <1>1, <1>5, <2>1 DEF NeedsInv, NeedsOnce
  <2>3. \A k \in Episodes : Seen(k)' => Seen(k)
    BY <1>1, <1>5, <2>1 DEF Seen
  <2> QED
    BY <1>1, <1>2, <1>4, <2>2, <2>3, NeedsQuiet DEF NeedsInv, NeedsTyped, Attention!netVars, Attention!daemonVars
<1> QED
  BY <1>6, <1>7

\* A load ends without an answer that is applied.
LEMMA NeedsEnds ==
  ASSUME NeedsInv, NEW l \in loads, loads' = loads \ {l}, inFlight' = Attention!Settled(l),
         fresh' \in BOOLEAN, fresh' => fresh,
         UNCHANGED <<Attention!daemonVars, connected, epoch, initialized, snapshot, deliveries,
                     Attention!prefVars, enabling, sent, known>>
  PROVE  NeedsInv'
<1> USE DEF Attention!daemonVars, Attention!prefVars
<1>1. NeedsTyped' /\ PrefsTyped'
  BY DEF NeedsInv, NeedsTyped, PrefsTyped, Attention!Settled
<1>2. NeedsOrder'
  <2>1. \A m \in loads' : m.version = epoch => l.version # epoch /\ inFlight = {epoch}
    BY DEF NeedsInv, NeedsOrder
  <2>2. \A m \in loads' : m.version = epoch => inFlight' = {epoch}
    BY <2>1 DEF Attention!Settled
  <2> QED
    BY <2>2 DEF NeedsInv, NeedsOrder
<1>3. DeliveriesOrder' /\ NeedsOnce' /\ \A k : Seen(k)' = Seen(k)
  BY DEF NeedsInv, DeliveriesOrder, NeedsOnce, Seen, Sending
<1>4. NeedsPast' /\ NeedsMarked'
  BY <1>3 DEF NeedsInv, NeedsPast, NeedsMarked, Over, Answers
<1> QED
  BY <1>1, <1>2, <1>3, <1>4 DEF NeedsInv

\* A load begins that is the only one of its epoch.
LEMMA NeedsStarts ==
  ASSUME NeedsInv, epoch' \in Nat, epoch <= epoch', Attention!StartLoad(epoch'), \A l \in loads : l.version # epoch',
         connected' \in BOOLEAN, fresh' \in BOOLEAN, fresh' => fresh,
         UNCHANGED <<Attention!daemonVars, initialized, snapshot, deliveries,
                     Attention!prefVars, enabling, sent, known>>
  PROVE  NeedsInv'
<1> USE DEF Attention!daemonVars, Attention!prefVars
<1> DEFINE new == [version |-> epoch', served |-> FALSE, pending |-> {}, at |-> 0]
<1>1. /\ loads' = loads \cup {new} /\ new \in NeedsLoad /\ inFlight' = {epoch'}
      /\ new.version = epoch' /\ new.served = FALSE /\ new.pending = {} /\ new.at = 0
  BY DEF Attention!StartLoad, NeedsLoad
<1> HIDE DEF new
<1>2. NeedsTyped' /\ PrefsTyped'
  BY <1>1 DEF NeedsInv, NeedsTyped, PrefsTyped
<1>3. epoch \in Nat /\ stamp \in Nat /\ \A l \in loads : l.version \in Nat
  BY DEF NeedsInv, NeedsTyped, NeedsLoad
<1>4. NeedsOrder'
  BY <1>1, <1>3 DEF NeedsInv, NeedsOrder
<1>5. DeliveriesOrder'
  BY <1>3 DEF NeedsInv, NeedsTyped, NeedsDelivery, DeliveriesOrder
<1>6. NeedsOnce' /\ \A k : Seen(k)' = Seen(k)
  BY DEF NeedsInv, NeedsOnce, Seen, Sending
<1>7. \A l \in loads' : ~Answers(l)'
  BY <1>1 DEF Answers
<1>8. NeedsPast' /\ NeedsMarked'
  BY <1>1, <1>6, <1>7 DEF NeedsInv, NeedsPast, NeedsMarked, Over
<1> QED
  BY <1>2, <1>4, <1>5, <1>6, <1>8 DEF NeedsInv

\* An answer is applied: nothing that was seen can be wanted again by it.
LEMMA NeedsAnswer ==
  ASSUME NeedsInv, NEW l \in loads, l.served, Attention!Current(l), Attention!LoadAnswered,
         loads' = loads \ {l}, snapshot' = [pending |-> l.pending, at |-> l.at], fresh' = TRUE, initialized' = TRUE,
         Attention!Prefer(enabled, IF Attention!Backlog THEN l.pending ELSE notified \cap l.pending,
                          snoozed \cap l.pending),
         known' = IF initialized /\ enabled THEN known ELSE known \cup (l.pending \ notified),
         inFlight' = {}, NEW i \in Attention!Slots, deliveries[i] = Attention!Free,
         deliveries' = [deliveries EXCEPT ![i] = [at |-> "loop", version |-> l.version, todo |-> l.pending, key |-> {}]]
  PROVE  NeedsInv'
<1>0. /\ UNCHANGED <<Attention!daemonVars, connected, epoch, enabling, sent>>
      /\ l \in NeedsLoad /\ l.version = epoch /\ l.pending \in SUBSET Episodes
      /\ deliveries \in [Attention!Slots -> NeedsDelivery]
  BY DEF Attention!LoadAnswered, Attention!Current, NeedsInv, NeedsTyped, NeedsLoad
<1> USE DEF Attention!daemonVars
<1>1. PrefsTyped' /\ notified' = IF Attention!Backlog THEN l.pending ELSE notified \cap l.pending
  <2> DEFINE n == IF Attention!Backlog THEN l.pending ELSE notified \cap l.pending
  <2>1. n \in SUBSET Episodes /\ snoozed \cap l.pending \in SUBSET Episodes /\ enabled \in BOOLEAN
        /\ enabling' \in BOOLEAN /\ PrefsTyped
    BY <1>0 DEF NeedsInv, PrefsTyped
  <2> HIDE DEF n
  <2>2. Attention!Prefer(enabled, n, snoozed \cap l.pending)
    BY DEF n
  <2> QED
    BY <2>1, <2>2, NeedsPrefer DEF n
<1> DEFINE d == [at |-> "loop", version |-> l.version, todo |-> l.pending, key |-> {}]
<1>2. d \in NeedsDelivery /\ d.at = "loop" /\ d.version = epoch /\ deliveries' = [deliveries EXCEPT ![i] = d]
  BY <1>0 DEF NeedsDelivery, NeedsLoad
<1>3. deliveries' \in [Attention!Slots -> NeedsDelivery] /\ deliveries'[i] = d
      /\ \A j \in Attention!Slots : j # i => deliveries'[j] = deliveries[j]
  BY <1>0, <1>2
<1> HIDE DEF d
<1>4. DeliveriesOrder'
  BY <1>0, <1>2, <1>3 DEF NeedsInv, NeedsTyped, DeliveriesOrder
<1>5. \A m \in loads' : m \in loads /\ m.version # epoch
  BY <1>0 DEF NeedsInv, NeedsOrder
<1>6. NeedsTyped'
  <2>1. l.at \in Nat /\ fresh' \in BOOLEAN /\ initialized' \in BOOLEAN
    BY <1>0 DEF NeedsLoad
  <2>2. snapshot' \in [pending: SUBSET Episodes, at: Nat]
    BY <1>0, <2>1
  <2>3. known' \subseteq Episodes /\ loads' \subseteq NeedsLoad
    BY <1>0 DEF NeedsInv, NeedsTyped
  <2> QED
    BY <1>0, <1>3, <2>1, <2>2, <2>3 DEF NeedsInv, NeedsTyped
<1>7. NeedsOrder'
  BY <1>0, <1>5 DEF NeedsInv, NeedsOrder
<1>8. \A m \in loads' : ~Answers(m)'
  BY <1>0, <1>5 DEF Answers
<1>9. \A j \in Attention!Slots : \A k : Sending(j, k)' <=> Sending(j, k)
  BY <1>2, <1>3 DEF Sending, Attention!Free
<1>10. \A k \in Episodes : Seen(k)' => Seen(k) \/ (k \in l.pending /\ k \in notified' /\ k \notin notified)
  <2>1. CASE initialized /\ enabled
    BY <1>0, <1>9, <2>1 DEF Seen
  <2>2. CASE ~(initialized /\ enabled)
    <3>1. notified' = l.pending /\ known' = known \cup (l.pending \ notified)
      BY <1>1, <2>2 DEF Attention!Backlog
    <3> QED
      BY <1>0, <1>9, <3>1 DEF Seen
  <2> QED
    BY <2>1, <2>2
<1>11. NeedsPast'
  <2>1. \A k \in Episodes : k \in l.pending \/ Seen(k) => status[k] # "new"
    BY DEF NeedsInv, NeedsPast
  <2> QED
    BY <1>0, <1>5, <1>8, <1>10, <2>1 DEF NeedsInv, NeedsPast
<1>12. NeedsMarked'
  <2> SUFFICES ASSUME NEW k \in Episodes, Seen(k), k \notin notified'
               PROVE  Over(k)'
    BY <1>10 DEF NeedsMarked
  <2>1. status[k] = "gone" \/ k \in l.pending
    BY <1>0 DEF NeedsInv, NeedsPast, Answers
  <2>2. k \notin l.pending
    <3>1. CASE Attention!Backlog
      BY <1>1, <3>1
    <3>2. CASE ~Attention!Backlog
      <4>1. initialized /\ notified' = notified \cap l.pending
        BY <1>1, <3>2 DEF Attention!Backlog
      <4> QED
        BY <1>0, <4>1 DEF NeedsInv, NeedsMarked, Over, Answers
    <3> QED
      BY <3>1, <3>2
  <2> QED
    BY <1>0, <1>8, <2>1, <2>2 DEF Over
<1>13. NeedsOnce'
  <2>1. \A k \in Episodes : k \in known' => k \in known \/ ~\E j \in Attention!Slots : Sending(j, k)
    <3> SUFFICES ASSUME NEW k \in l.pending \ notified, k \in Episodes, ~(initialized /\ enabled),
                        NEW j \in Attention!Slots, Sending(j, k)
                 PROVE  FALSE
      OBVIOUS
    <3>1. initialized
      BY DEF NeedsInv, DeliveriesOrder, Sending, Attention!Free
    <3>2. Seen(k)
      BY DEF Seen
    <3> QED
      BY <1>0, <3>1, <3>2 DEF NeedsInv, NeedsMarked, Over, Answers
  <2> QED
    BY <1>0, <1>9, <2>1 DEF NeedsInv, NeedsOnce
<1> QED
  BY <1>1, <1>4, <1>6, <1>7, <1>11, <1>12, <1>13 DEF NeedsInv

LEMMA NeedsStep == ASSUME NeedsInv, [Attention!Next]_(Attention!vars) PROVE NeedsInv'
<1> USE DEF Attention!daemonVars, Attention!netVars
<1>0. /\ PrefsTyped /\ deliveries \in [Attention!Slots -> NeedsDelivery] /\ loads \subseteq NeedsLoad
      /\ granted \in BOOLEAN /\ enabling \in BOOLEAN /\ enabled \in BOOLEAN /\ storable \in BOOLEAN
      /\ notified \in SUBSET Episodes /\ snoozed \in SUBSET Episodes
      /\ epoch \in Nat /\ stamp \in Nat /\ snapshot.pending \in SUBSET Episodes
      /\ status \in [Episodes -> {"new", "pending", "gone"}]
  BY DEF NeedsInv, NeedsTyped, PrefsTyped
<1>1. CASE Attention!EpisodeChanges
  <2>1. PICK k \in Episodes :
          status[k] # "gone" /\ status' = [status EXCEPT ![k] = IF @ = "new" THEN "pending" ELSE "gone"]
    BY <1>1 DEF Attention!EpisodeChanges
  <2>2. /\ stamp' = stamp + 1
        /\ UNCHANGED <<granted, Attention!netVars, deliveries, Attention!prefVars, enabling, sent, known>>
    BY <1>1 DEF Attention!EpisodeChanges
  <2>3. /\ status' \in [Episodes -> {"new", "pending", "gone"}]
        /\ \A e \in Episodes : /\ status[e] # "new" => status'[e] # "new"
                               /\ status[e] = "gone" => status'[e] = "gone"
    BY <1>0, <2>1
  <2>4. NeedsTyped' /\ PrefsTyped'
    BY <1>0, <2>2, <2>3 DEF NeedsInv, NeedsTyped, PrefsTyped, Attention!prefVars
  <2>5. snapshot.at \in Nat /\ \A l \in loads : l.at \in Nat /\ l.pending \in SUBSET Episodes
    BY DEF NeedsInv, NeedsTyped, NeedsLoad
  <2>6. NeedsOrder' /\ DeliveriesOrder'
    BY <1>0, <2>2, <2>5 DEF NeedsInv, NeedsOrder, DeliveriesOrder
  <2>7. NeedsOnce' /\ \A e : Seen(e)' = Seen(e)
    BY <2>2 DEF NeedsInv, NeedsOnce, Seen, Sending
  <2>8. NeedsPast'
    BY <2>2, <2>3, <2>5, <2>7 DEF NeedsInv, NeedsPast, Answers
  <2>9. NeedsMarked'
    BY <2>2, <2>3, <2>7 DEF NeedsInv, NeedsMarked, Over, Answers, Attention!prefVars
  <2> QED
    BY <2>4, <2>6, <2>7, <2>8, <2>9 DEF NeedsInv
<1>2. CASE Attention!PermissionChanges
  <2>1. granted' \in BOOLEAN
    BY <1>2 DEF Attention!PermissionChanges
  <2> QED
    BY <1>0, <1>2, <2>1, NeedsPrefers DEF Attention!PermissionChanges, Attention!prefVars, PrefsTyped
<1>3. CASE Attention!ServeLoad
  <2>1. PICK l \in loads :
          ~l.served /\ loads' = (loads \ {l}) \cup
             {[l EXCEPT !.served = TRUE, !.pending = Attention!Pending, !.at = stamp]}
    BY <1>3 DEF Attention!ServeLoad
  <2> DEFINE new == [l EXCEPT !.served = TRUE, !.pending = Attention!Pending, !.at = stamp]
  <2>2. Attention!Pending \in SUBSET Episodes /\ \A k \in Episodes : k \in Attention!Pending <=> status[k] = "pending"
    BY DEF Attention!Pending
  <2>3. /\ new \in NeedsLoad /\ new.version = l.version /\ new.served /\ new.pending = Attention!Pending
        /\ new.at = stamp
    BY <1>0, <2>2 DEF NeedsLoad
  <2>4. loads' = (loads \ {l}) \cup {new}
    BY <2>1
  <2>5. UNCHANGED <<Attention!daemonVars, connected, fresh, epoch, initialized, inFlight, snapshot, deliveries,
                    Attention!prefVars, enabling, sent, known>>
    BY <1>3 DEF Attention!ServeLoad
  <2> HIDE DEF new
  <2>6. NeedsTyped' /\ PrefsTyped'
    BY <1>0, <2>3, <2>4, <2>5 DEF NeedsInv, NeedsTyped, PrefsTyped, Attention!prefVars
  <2>7. NeedsOrder'
    BY <1>0, <2>3, <2>4, <2>5 DEF NeedsInv, NeedsOrder
  <2>8. DeliveriesOrder' /\ NeedsOnce' /\ \A k : Seen(k)' = Seen(k)
    BY <2>5 DEF NeedsInv, DeliveriesOrder, NeedsOnce, Seen, Sending
  <2>9. NeedsPast'
    <3>1. \A m \in loads' : \A k \in m.pending : status[k] # "new"
      BY <2>2, <2>3, <2>4 DEF NeedsInv, NeedsPast
    <3>2. \A k \in Episodes : status[k] # "new" => k \in new.pending \/ status[k] = "gone"
      BY <1>0, <2>2, <2>3
    <3> QED
      BY <2>3, <2>4, <2>5, <2>8, <3>1, <3>2 DEF NeedsInv, NeedsOrder, NeedsPast, Answers
  <2>10. NeedsMarked'
    <3>1. \A k \in Episodes : status[k] = "gone" => k \notin new.pending
      BY <2>2, <2>3
    <3> QED
      BY <2>3, <2>4, <2>5, <2>8, <3>1 DEF NeedsInv, NeedsMarked, Over, Answers, Attention!prefVars
  <2> QED
    BY <2>6, <2>7, <2>8, <2>9, <2>10 DEF NeedsInv
<1>4. CASE Attention!Snooze \/ Attention!SnoozeEnds \/ Attention!ClickEnable
  <2>1. /\ UNCHANGED <<Attention!daemonVars, Attention!netVars, deliveries, sent, known>> /\ enabling' \in BOOLEAN
        /\ \/ UNCHANGED Attention!prefVars
           \/ \E e \in BOOLEAN, z \in SUBSET Episodes : Attention!Prefer(e, notified, z)
    <3>1. CASE Attention!Snooze
      <4>1. PICK k \in snapshot.pending :
              Attention!Prefer(enabled, notified, IF k \in snoozed THEN snoozed \ {k} ELSE snoozed \cup {k})
        BY <3>1 DEF Attention!Snooze
      <4>2. (IF k \in snoozed THEN snoozed \ {k} ELSE snoozed \cup {k}) \in SUBSET Episodes
        BY <1>0
      <4>3. UNCHANGED <<Attention!daemonVars, Attention!netVars, deliveries, enabling, sent, known>>
        BY <3>1 DEF Attention!Snooze
      <4> QED
        BY <1>0, <4>1, <4>2, <4>3
    <3>2. CASE Attention!SnoozeEnds
      <4>1. PICK k \in snoozed : Attention!Prefer(enabled, notified, snoozed \ {k})
        BY <3>2 DEF Attention!SnoozeEnds
      <4>2. UNCHANGED <<Attention!daemonVars, Attention!netVars, deliveries, enabling, sent, known>>
        BY <3>2 DEF Attention!SnoozeEnds
      <4> QED
        BY <1>0, <4>1, <4>2
    <3>3. CASE Attention!ClickEnable
      <4>1. /\ UNCHANGED <<Attention!daemonVars, Attention!netVars, deliveries, sent, known>>
            /\ \/ Attention!Prefer(FALSE, notified, snoozed) /\ UNCHANGED enabling
               \/ enabling' = TRUE /\ UNCHANGED Attention!prefVars
        BY <3>3 DEF Attention!ClickEnable
      <4> QED
        BY <1>0, <4>1
    <3> QED
      BY <1>4, <3>1, <3>2, <3>3
  <2>2. CASE UNCHANGED Attention!prefVars
    <3>1. PrefsTyped' /\ notified' = notified
      BY <1>0, <2>1, <2>2 DEF PrefsTyped, Attention!prefVars
    <3> QED
      BY <1>0, <2>1, <3>1, NeedsPrefers
  <2>3. ASSUME NEW e \in BOOLEAN, NEW z \in SUBSET Episodes, Attention!Prefer(e, notified, z) PROVE NeedsInv'
    <3>1. PrefsTyped' /\ notified' = notified
      BY <1>0, <2>1, <2>3, NeedsPrefer
    <3> QED
      BY <1>0, <2>1, <3>1, NeedsPrefers
  <2> QED
    BY <2>1, <2>2, <2>3
<1>5. CASE Attention!EnableFails
  BY <1>0, <1>5, NeedsPrefers DEF Attention!EnableFails, Attention!prefVars, PrefsTyped
<1>6. CASE Attention!EnableAnswered
  <2>1. /\ Attention!Prefer(granted, notified \cup snapshot.pending, snoozed) /\ enabling' = FALSE
        /\ known' = known \cup (snapshot.pending \ notified)
        /\ UNCHANGED <<Attention!daemonVars, Attention!netVars, deliveries, sent>>
    BY <1>6 DEF Attention!EnableAnswered
  <2>2. PrefsTyped' /\ notified' = notified \cup snapshot.pending
    <3>1. notified \cup snapshot.pending \in SUBSET Episodes
      BY <1>0
    <3> QED
      BY <1>0, <2>1, <3>1, NeedsPrefer
  <2>3. \A i \in Attention!Slots : \A k : Sending(i, k)' = Sending(i, k)
    BY <2>1 DEF Sending
  <2>4. \A k \in snapshot.pending \ notified : ~Seen(k)
    BY <1>0 DEF NeedsInv, NeedsOrder, NeedsMarked, Over
  <2>5. NeedsOnce'
    BY <1>0, <2>1, <2>3, <2>4 DEF NeedsInv, NeedsOnce, Seen
  <2>6. \A k \in Episodes : Seen(k)' => Seen(k) \/ k \in snapshot.pending \cap notified'
    BY <2>1, <2>2, <2>3 DEF Seen
  <2>7. DeliveriesOrder' /\ known' \subseteq Episodes /\ sent' \in [Episodes -> Nat]
    BY <1>0, <2>1 DEF NeedsInv, NeedsTyped, DeliveriesOrder
  <2> QED
    BY <1>0, <2>1, <2>2, <2>5, <2>6, <2>7, NeedsQuiet
<1>7. CASE Attention!Refresh
  <2>1. \A l \in loads : l.version # epoch
    BY <1>7 DEF NeedsInv, NeedsOrder, Attention!Refresh
  <2>2. connected' \in BOOLEAN /\ fresh' \in BOOLEAN
    BY <1>7 DEF NeedsInv, NeedsTyped, Attention!Refresh
  <2> QED
    BY <1>0, <1>7, <2>1, <2>2, NeedsStarts DEF Attention!Refresh
<1>8. CASE Attention!SetConnected
  <2>1. /\ connected' = ~connected /\ fresh' = FALSE /\ epoch' = epoch + 1
        /\ UNCHANGED <<Attention!daemonVars, initialized, snapshot, deliveries, Attention!prefVars, enabling, sent, known>>
        /\ (inFlight' = {} /\ UNCHANGED loads) \/ Attention!StartLoad(epoch + 1)
    BY <1>8 DEF Attention!SetConnected
  <2>2. /\ connected' \in BOOLEAN /\ fresh' \in BOOLEAN /\ epoch' \in Nat /\ epoch <= epoch'
        /\ \A l \in loads : l.version # epoch' /\ l.version <= epoch'
    <3>1. \A l \in loads : l.version \in Nat /\ l.version <= epoch
      BY DEF NeedsInv, NeedsTyped, NeedsOrder, NeedsLoad
    <3>2. connected' \in BOOLEAN
      BY <2>1, Zenon
    <3>3. fresh' \in BOOLEAN
      BY <2>1, Zenon
    <3>4. epoch' \in Nat /\ epoch <= epoch' /\ \A l \in loads : l.version # epoch' /\ l.version <= epoch'
      BY <1>0, <2>1, <3>1
    <3> QED
      BY <3>2, <3>3, <3>4
  <2>3. CASE Attention!StartLoad(epoch + 1)
    BY <2>1, <2>2, <2>3, NeedsStarts
  <2>4. CASE inFlight' = {} /\ UNCHANGED loads
    <3>1. NeedsTyped' /\ PrefsTyped'
      BY <2>1, <2>2, <2>4 DEF NeedsInv, NeedsTyped, PrefsTyped, Attention!prefVars
    <3>2. NeedsOrder'
      BY <2>1, <2>2, <2>4 DEF NeedsInv, NeedsOrder
    <3>3. DeliveriesOrder'
      <4>1. \A i \in Attention!Slots : deliveries[i].version \in Nat
        BY <1>0 DEF NeedsDelivery
      <4> QED
        BY <1>0, <2>1, <4>1 DEF NeedsInv, DeliveriesOrder
    <3>4. NeedsOnce' /\ \A k : Seen(k)' = Seen(k)
      BY <2>1 DEF NeedsInv, NeedsOnce, Seen, Sending
    <3>5. \A l \in loads' : ~Answers(l)'
      BY <2>2, <2>4 DEF Answers
    <3>6. NeedsPast' /\ NeedsMarked'
      BY <2>1, <2>4, <3>4, <3>5 DEF NeedsInv, NeedsPast, NeedsMarked, Over, Attention!prefVars
    <3> QED
      BY <3>1, <3>2, <3>3, <3>4, <3>6 DEF NeedsInv
  <2> QED
    BY <2>1, <2>3, <2>4
<1>9. CASE Attention!LoadFails \/ Attention!AbortedLoad
  <2>1. PICK l \in loads : /\ loads' = loads \ {l} /\ inFlight' = Attention!Settled(l)
                           /\ fresh' = (fresh /\ l.version # epoch) \/ fresh' = fresh
    BY <1>9 DEF Attention!LoadFails, Attention!AbortedLoad
  <2>2. fresh' \in BOOLEAN /\ (fresh' => fresh)
    <3>1. fresh \in BOOLEAN
      BY DEF NeedsInv, NeedsTyped
    <3>2. CASE fresh' = fresh
      BY <3>1, <3>2, Zenon
    <3>3. CASE fresh' = (fresh /\ l.version # epoch)
      BY <3>1, <3>3, Zenon
    <3> QED
      BY <2>1, <3>2, <3>3, Zenon
  <2>3. UNCHANGED <<Attention!daemonVars, connected, epoch, initialized, snapshot, deliveries,
                    Attention!prefVars, enabling, sent, known>>
    BY <1>9 DEF Attention!LoadFails, Attention!AbortedLoad
  <2> QED
    BY <2>1, <2>2, <2>3, NeedsEnds
<1>10. CASE Attention!LoadAnswered
  <2>1. PICK l \in loads :
          /\ l.served /\ loads' = loads \ {l}
          /\ IF Attention!Current(l)
             THEN /\ snapshot' = [pending |-> l.pending, at |-> l.at] /\ fresh' = TRUE /\ initialized' = TRUE
                  /\ Attention!Prefer(enabled, IF Attention!Backlog THEN l.pending ELSE notified \cap l.pending,
                                      snoozed \cap l.pending)
                  /\ known' = IF initialized /\ enabled THEN known ELSE known \cup (l.pending \ notified)
                  /\ inFlight' = {}
                  /\ \E i \in Attention!Slots :
                       deliveries[i] = Attention!Free /\ deliveries' = [deliveries EXCEPT ![i] =
                         [at |-> "loop", version |-> l.version, todo |-> l.pending, key |-> {}]]
             ELSE /\ inFlight' = Attention!Settled(l)
                  /\ UNCHANGED <<snapshot, fresh, initialized, Attention!prefVars, known, deliveries>>
    BY <1>10 DEF Attention!LoadAnswered
  <2>2. CASE Attention!Current(l)
    <3>1. PICK i \in Attention!Slots :
            deliveries[i] = Attention!Free /\ deliveries' = [deliveries EXCEPT ![i] =
              [at |-> "loop", version |-> l.version, todo |-> l.pending, key |-> {}]]
      BY <2>1, <2>2
    <3> QED
      BY <1>10, <2>1, <2>2, <3>1, NeedsAnswer
  <2>3. CASE ~Attention!Current(l)
    <3>1. UNCHANGED <<Attention!daemonVars, connected, epoch, enabling, sent>>
      BY <1>10 DEF Attention!LoadAnswered
    <3>2. fresh' \in BOOLEAN /\ fresh' = fresh
      BY <2>1, <2>3 DEF NeedsInv, NeedsTyped
    <3> QED
      BY <2>1, <2>3, <3>1, <3>2, NeedsEnds
  <2> QED
    BY <2>2, <2>3
<1>11. CASE Attention!DeliverNext
  <2>1. PICK i \in Attention!Slots :
          /\ deliveries[i].at = "loop"
          /\ IF deliveries[i].todo = {} THEN Attention!Delivers(i, Attention!Free) /\ UNCHANGED Attention!prefVars
             ELSE \E k \in deliveries[i].todo :
                    IF Attention!Wanted(deliveries[i], k) /\ k \notin Old
                    THEN /\ Attention!Delivers(i, [deliveries[i] EXCEPT !.at = "asking", !.todo = @ \ {k}, !.key = {k}])
                         /\ UNCHANGED Attention!prefVars
                    ELSE /\ Attention!Delivers(i, [deliveries[i] EXCEPT !.todo = @ \ {k}])
                         /\ IF Attention!Wanted(deliveries[i], k) THEN Attention!MarkNotified({k})
                            ELSE UNCHANGED Attention!prefVars
    BY <1>11 DEF Attention!DeliverNext
  <2>2. UNCHANGED <<Attention!daemonVars, Attention!netVars, enabling, sent, known>>
    BY <1>11 DEF Attention!DeliverNext
  <2>3. /\ deliveries[i] \in NeedsDelivery /\ deliveries[i].version <= epoch /\ initialized
    BY <1>0, <2>1, NeedsBusy DEF NeedsInv, NeedsTyped, DeliveriesOrder
  <2>4. CASE UNCHANGED Attention!prefVars
    <3>1. PrefsTyped' /\ notified' = notified
      BY <1>0, <2>2, <2>4 DEF PrefsTyped, Attention!prefVars
    <3>2. CASE Attention!Delivers(i, Attention!Free)
      <4>1. Attention!Free \in NeedsDelivery /\ Attention!Free.version <= epoch /\ Attention!Free.at = "free"
        BY <1>0 DEF NeedsDelivery, Attention!Free
      <4> QED
        BY <2>2, <2>3, <3>1, <3>2, <4>1, NeedsDelivers
    <3>3. ASSUME NEW k \in deliveries[i].todo, NEW d,
                 \/ d = [deliveries[i] EXCEPT !.at = "asking", !.todo = @ \ {k}, !.key = {k}]
                 \/ d = [deliveries[i] EXCEPT !.todo = @ \ {k}],
                 Attention!Delivers(i, d)
          PROVE  NeedsInv'
      <4>1. /\ d \in NeedsDelivery /\ d.version = deliveries[i].version
            /\ (d.at = "asking" /\ d.key = {k}) \/ d.at = "loop"
        BY <2>1, <2>3, <3>3 DEF NeedsDelivery
      <4> QED
        BY <2>2, <2>3, <3>1, <3>3, <4>1, NeedsDelivers
    <3> QED
      BY <2>1, <3>2, <3>3
  <2>5. ASSUME NEW k \in deliveries[i].todo, Attention!Delivers(i, [deliveries[i] EXCEPT !.todo = @ \ {k}]),
               Attention!MarkNotified({k})
        PROVE  NeedsInv'
    <3> DEFINE d == [deliveries[i] EXCEPT !.todo = @ \ {k}]
    <3>1. d \in NeedsDelivery /\ d.version = deliveries[i].version /\ d.at = "loop" /\ k \in Episodes
      BY <2>1, <2>3, <2>5 DEF NeedsDelivery
    <3>2. PrefsTyped' /\ notified' = notified \cup {k}
      <4>1. notified \cup {k} \in SUBSET Episodes
        BY <1>0, <3>1
      <4> QED
        BY <1>0, <2>2, <2>5, <4>1, NeedsPrefer DEF Attention!MarkNotified
    <3>3. Attention!Delivers(i, d)
      BY <2>5
    <3> HIDE DEF d
    <3> QED
      BY <2>2, <2>3, <3>1, <3>2, <3>3, NeedsDelivers
  <2> QED
    BY <2>1, <2>4, <2>5
<1>12. CASE Attention!PermissionAnswered
  <2>1. PICK i \in Attention!Slots :
          /\ deliveries[i].at = "asking"
          /\ \/ Attention!Delivers(i, Attention!Free) /\ UNCHANGED Attention!prefVars
             \/ /\ \E k \in deliveries[i].key : Attention!StillWanted(deliveries[i], k)
                /\ Attention!Delivers(i, [deliveries[i] EXCEPT !.at = "sending"])
                /\ Attention!Attempt(deliveries[i].key)
             \/ /\ Attention!Delivers(i, [deliveries[i] EXCEPT !.at = "loop", !.key = {}])
                /\ UNCHANGED Attention!prefVars
    BY <1>12 DEF Attention!PermissionAnswered
  <2>2. UNCHANGED <<Attention!daemonVars, Attention!netVars, enabling, sent, known>>
    BY <1>12 DEF Attention!PermissionAnswered
  <2>3. /\ deliveries[i] \in NeedsDelivery /\ deliveries[i].version <= epoch /\ initialized
    BY <1>0, <2>1, NeedsBusy DEF NeedsInv, NeedsTyped, DeliveriesOrder
  <2>4. CASE UNCHANGED Attention!prefVars /\ Attention!Delivers(i, Attention!Free)
    <3>1. PrefsTyped' /\ notified' = notified
      BY <1>0, <2>2, <2>4 DEF PrefsTyped, Attention!prefVars
    <3>2. Attention!Free \in NeedsDelivery /\ Attention!Free.version <= epoch /\ Attention!Free.at = "free"
      BY <1>0 DEF NeedsDelivery, Attention!Free
    <3> QED
      BY <2>2, <2>3, <2>4, <3>1, <3>2, NeedsDelivers
  <2>5. CASE /\ UNCHANGED Attention!prefVars
             /\ Attention!Delivers(i, [deliveries[i] EXCEPT !.at = "loop", !.key = {}])
    <3> DEFINE d == [deliveries[i] EXCEPT !.at = "loop", !.key = {}]
    <3>1. PrefsTyped' /\ notified' = notified
      BY <1>0, <2>2, <2>5 DEF PrefsTyped, Attention!prefVars
    <3>2. d \in NeedsDelivery /\ d.version = deliveries[i].version /\ d.at = "loop"
      BY <2>3 DEF NeedsDelivery
    <3>3. Attention!Delivers(i, d)
      BY <2>5
    <3> HIDE DEF d
    <3> QED
      BY <2>2, <2>3, <3>1, <3>2, <3>3, NeedsDelivers
  <2>6. CASE /\ \E k \in deliveries[i].key : Attention!StillWanted(deliveries[i], k)
             /\ Attention!Delivers(i, [deliveries[i] EXCEPT !.at = "sending"])
             /\ Attention!Attempt(deliveries[i].key)
    <3> DEFINE d == [deliveries[i] EXCEPT !.at = "sending"]
    <3>1. PICK k \in Episodes : deliveries[i].key = {k} /\ Attention!Wanted(deliveries[i], k)
      BY <2>3, <2>6 DEF NeedsDelivery, Attention!StillWanted
    <3>2. ~Seen(k) /\ k \in snapshot.pending
      BY <3>1, WantedIsUnseen
    <3>3. PrefsTyped' /\ notified' = notified \cup {k}
      <4>1. notified \cup {k} \in SUBSET Episodes
        BY <1>0
      <4> QED
        BY <1>0, <2>2, <2>6, <3>1, <4>1, NeedsPrefer DEF Attention!Attempt, Attention!MarkNotified
    <3>4. /\ d \in NeedsDelivery /\ d.version = deliveries[i].version /\ d.at = "sending" /\ d.key = {k}
          /\ deliveries' = [deliveries EXCEPT ![i] = d]
      BY <2>3, <2>6, <3>1 DEF NeedsDelivery, Attention!Delivers
    <3> HIDE DEF d
    <3>5. /\ deliveries' \in [Attention!Slots -> NeedsDelivery] /\ deliveries'[i] = d
          /\ \A j \in Attention!Slots : j # i => deliveries'[j] = deliveries[j]
      BY <1>0, <3>4
    <3>6. DeliveriesOrder'
      BY <2>2, <2>3, <3>4, <3>5 DEF NeedsInv, DeliveriesOrder
    <3>7. \A j \in Attention!Slots : \A e : Sending(j, e)' <=> IF j = i THEN e = k ELSE Sending(j, e)
      BY <3>4, <3>5 DEF Sending
    <3>8. NeedsOnce'
      <4>1. sent[k] = 0 /\ k \notin known /\ \A j \in Attention!Slots : ~Sending(j, k)
        <5>1. sent[k] \in Nat
          BY DEF NeedsInv, NeedsTyped
        <5> QED
          BY <3>2, <5>1 DEF Seen
      <4>2. ~Sending(i, k)
        BY <4>1
      <4>3. \A e : ~Sending(i, e)
        BY <2>1 DEF Sending
      <4> QED
        BY <2>2, <3>7, <4>1, <4>3 DEF NeedsInv, NeedsOnce
    <3>9. \A e \in Episodes : Seen(e)' => Seen(e) \/ e \in snapshot.pending \cap notified'
      BY <2>2, <3>2, <3>3, <3>7 DEF Seen
    <3> QED
      BY <1>0, <2>2, <3>3, <3>5, <3>6, <3>8, <3>9, NeedsQuiet DEF NeedsInv, NeedsTyped
  <2> QED
    BY <2>1, <2>4, <2>5, <2>6
<1>13. CASE Attention!PermissionFails \/ Attention!Send
  <2>1. PICK i \in Attention!Slots :
          /\ Attention!Delivers(i, [deliveries[i] EXCEPT !.at = "loop", !.key = {}])
          /\ deliveries[i].at \in {"asking", "sending"}
          /\ UNCHANGED sent \/ (deliveries[i].at = "sending" /\ sent' = Attention!Shown(deliveries[i]))
    BY <1>13 DEF Attention!PermissionFails, Attention!Send
  <2>2. UNCHANGED <<Attention!daemonVars, Attention!netVars, Attention!prefVars, enabling, known>>
    BY <1>13 DEF Attention!PermissionFails, Attention!Send
  <2> DEFINE d == [deliveries[i] EXCEPT !.at = "loop", !.key = {}]
  <2>3. PrefsTyped' /\ notified' = notified
    BY <1>0, <2>2 DEF PrefsTyped, Attention!prefVars
  <2>4. d \in NeedsDelivery /\ d.version <= epoch /\ d.at = "loop" /\ initialized
    <3>1. initialized /\ deliveries[i] \in NeedsDelivery /\ deliveries[i].version <= epoch
      BY <2>1, NeedsBusy DEF NeedsInv, NeedsTyped, DeliveriesOrder
    <3> QED
      BY <3>1 DEF NeedsDelivery
  <2>5. Attention!Delivers(i, d)
    BY <2>1
  <2> HIDE DEF d
  <2> QED
    BY <2>1, <2>2, <2>3, <2>4, <2>5, NeedsDelivers DEF Attention!Shown
<1>14. CASE Attention!Restart
  <2>1. /\ connected' = FALSE /\ fresh' = FALSE /\ epoch' = 0 /\ initialized' = FALSE
        /\ loads' = {} /\ inFlight' = {} /\ snapshot' = Attention!Nothing
        /\ deliveries' = [i \in Attention!Slots |-> Attention!Free] /\ enabling' = FALSE
        /\ enabled' = stored.enabled /\ notified' = stored.notified /\ snoozed' = stored.snoozed
        /\ UNCHANGED <<Attention!daemonVars, stored, storable, known>>
        /\ \/ UNCHANGED sent
           \/ \E i \in Attention!Slots : deliveries[i].at = "sending" /\ sent' = Attention!Shown(deliveries[i])
    BY <1>14 DEF Attention!Restart
  <2>2. PrefsTyped'
    BY <1>0, <2>1 DEF PrefsTyped, NeedsPrefs
  <2>3. sent \in [Episodes -> Nat]
    BY DEF NeedsInv, NeedsTyped
  <2>4. /\ sent' \in [Episodes -> Nat]
        /\ \A k \in Episodes : \/ sent'[k] = sent[k]
                               \/ sent'[k] = sent[k] + 1 /\ \E i \in Attention!Slots : Sending(i, k)
    BY <2>1, <2>3 DEF Attention!Shown, Sending
  <2>5. /\ \A i \in Attention!Slots : deliveries'[i] = Attention!Free
        /\ deliveries' \in [Attention!Slots -> NeedsDelivery]
    BY <2>1 DEF NeedsDelivery, Attention!Free
  <2>6. \A i \in Attention!Slots : \A k : ~Sending(i, k)'
    BY <2>5 DEF Sending, Attention!Free
  <2>7. snapshot'.pending = {} /\ snapshot'.at = 0 /\ snapshot' \in [pending: SUBSET Episodes, at: Nat]
    BY <2>1 DEF Attention!Nothing
  <2>8. NeedsTyped'
    BY <2>1, <2>4, <2>5, <2>7 DEF NeedsInv, NeedsTyped
  <2>9. NeedsOrder' /\ DeliveriesOrder'
    BY <1>0, <2>1, <2>5, <2>7 DEF NeedsOrder, DeliveriesOrder, Attention!Free
  <2>10. NeedsOnce'
    BY <2>3, <2>4, <2>6 DEF NeedsInv, NeedsOnce
  <2>11. \A k \in Episodes : Seen(k)' => Seen(k)
    BY <2>1, <2>3, <2>4, <2>6 DEF Seen
  <2>12. NeedsPast' /\ NeedsMarked'
    BY <2>1, <2>7, <2>11 DEF NeedsInv, NeedsPast, NeedsMarked
  <2> QED
    BY <2>2, <2>8, <2>9, <2>10, <2>12 DEF NeedsInv
<1>15. CASE UNCHANGED Attention!vars
  <2>1. PrefsTyped' /\ notified' = notified
    BY <1>0, <1>15 DEF Attention!vars, PrefsTyped
  <2> QED
    BY <1>0, <1>15, <2>1, NeedsPrefers DEF Attention!vars
<1> QED
  BY <1>1, <1>2, <1>3, <1>4, <1>5, <1>6, <1>7, <1>8, <1>9, <1>10, <1>11, <1>12, <1>13, <1>14, <1>15
     DEF Attention!Next

LEMMA NeedsInit == ASSUME Attention!Init PROVE NeedsInv
<1>1. PrefsTyped
  BY DEF Attention!Init, PrefsTyped, NeedsPrefs
<1>2. /\ deliveries \in [Attention!Slots -> NeedsDelivery]
      /\ \A i \in Attention!Slots : deliveries[i] = Attention!Free
  BY DEF Attention!Init, NeedsDelivery, Attention!Free
<1>3. \A i \in Attention!Slots : \A k : ~Sending(i, k)
  BY <1>2 DEF Sending, Attention!Free
<1>4. snapshot \in [pending: SUBSET Episodes, at: Nat] /\ snapshot.pending = {} /\ snapshot.at = 0
  BY DEF Attention!Init, Attention!Nothing
<1>5. NeedsTyped
  <2>1. status \in [Episodes -> {"new", "pending", "gone"}] /\ sent \in [Episodes -> Nat]
    BY DEF Attention!Init
  <2>2. granted \in BOOLEAN /\ connected \in BOOLEAN /\ fresh \in BOOLEAN /\ initialized \in BOOLEAN
    BY DEF Attention!Init
  <2> QED
    BY <1>2, <1>4, <2>1, <2>2 DEF Attention!Init, NeedsTyped
<1>6. NeedsOrder
  BY <1>4 DEF Attention!Init, NeedsOrder
<1>7. DeliveriesOrder
  BY <1>2 DEF Attention!Init, DeliveriesOrder, Attention!Free
<1>8. \A k \in Episodes : sent[k] = 0 /\ ~Seen(k)
  BY <1>3 DEF Attention!Init, Seen
<1> QED
  BY <1>1, <1>3, <1>4, <1>5, <1>6, <1>7, <1>8 DEF Attention!Init, NeedsInv, NeedsPast, NeedsMarked, NeedsOnce

LEMMA NeedsCardinality == \A S : Attention!Cardinality(S) = Cardinality(S)
BY Zenon DEF Attention!Cardinality, Cardinality

LEMMA NeedsMeans ==
  ASSUME NeedsInv
  PROVE  Attention!TypeOK /\ Attention!NotifiedOnce
<1>1. \A l \in loads : l.version \in 0..epoch /\ l.served \in BOOLEAN /\ l.pending \subseteq Episodes
  BY DEF NeedsInv, NeedsTyped, NeedsOrder, NeedsLoad
<1>2. snapshot.pending \subseteq Episodes /\ snapshot.at \in 0..stamp
  BY DEF NeedsInv, NeedsTyped, NeedsOrder
<1>3. \A S \in {{}} \cup {{k} : k \in Episodes} : S \subseteq Episodes /\ Attention!Cardinality(S) <= 1
  <2>1. Cardinality({}) = 0 /\ \A k : Cardinality({k}) = 1
    BY FS_EmptySet, FS_Singleton
  <2>2. Attention!Cardinality({}) = 0 /\ \A k : Attention!Cardinality({k}) = 1
    BY <2>1, NeedsCardinality, Zenon
  <2>3. ASSUME NEW k \in Episodes
        PROVE  Attention!Cardinality({k}) <= 1
    <3>1. Attention!Cardinality({k}) = 1
      BY <2>2, Zenon
    <3> QED
      BY <3>1
  <2>4. Attention!Cardinality({}) <= 1
    BY <2>2
  <2> QED
    BY <2>3, <2>4
<1>4. ASSUME NEW i \in Attention!Slots
      PROVE  LET d == deliveries[i]
             IN /\ d.at \in {"free", "loop", "asking", "sending"} /\ d.version \in 0..epoch
                /\ d.todo \subseteq Episodes /\ d.key \subseteq Episodes /\ Attention!Cardinality(d.key) <= 1
  <2>1. deliveries[i] \in NeedsDelivery /\ deliveries[i].version <= epoch /\ epoch \in Nat
    BY DEF NeedsInv, NeedsTyped, DeliveriesOrder
  <2> QED
    BY <1>3, <2>1 DEF NeedsDelivery
<1>5. stored.enabled \in BOOLEAN /\ stored.notified \subseteq Episodes /\ stored.snoozed \subseteq Episodes
  BY DEF NeedsInv, PrefsTyped, NeedsPrefs
<1>6. Attention!TypeOK
  BY <1>1, <1>2, <1>4, <1>5 DEF NeedsInv, NeedsTyped, PrefsTyped, Attention!TypeOK
<1>7. Attention!NotifiedOnce
  BY DEF NeedsInv, NeedsOnce, Attention!NotifiedOnce
<1> QED
  BY <1>6, <1>7

LEMMA NeedsActs ==
  ASSUME NeedsInv, [Attention!Next]_(Attention!vars)
  PROVE  Attention!NoBacklog /\ Attention!SnapshotForward
<1>1. ASSUME NEW k \in known PROVE sent'[k] = sent[k]
  <2>1. k \in Episodes /\ \A i \in Attention!Slots : ~Sending(i, k)
    BY DEF NeedsInv, NeedsTyped, NeedsOnce
  <2>2. \/ UNCHANGED sent
        \/ \E i \in Attention!Slots : deliveries[i].at = "sending" /\ sent' = Attention!Shown(deliveries[i])
    BY DEF Attention!Next, Attention!vars, Attention!EpisodeChanges, Attention!PermissionChanges,
           Attention!ServeLoad, Attention!Snooze, Attention!SnoozeEnds, Attention!Refresh, Attention!LoadAnswered,
           Attention!LoadFails, Attention!AbortedLoad, Attention!SetConnected, Attention!DeliverNext,
           Attention!PermissionAnswered, Attention!PermissionFails, Attention!Send, Attention!ClickEnable,
           Attention!EnableAnswered, Attention!EnableFails, Attention!Restart
  <2> QED
    BY <2>1, <2>2 DEF Attention!Shown, Sending
<1>2. Attention!SnapshotForward
  <2>1. \/ UNCHANGED snapshot
        \/ epoch' = 0 /\ ~connected'
        \/ \E l \in loads : l.served /\ l.version = epoch /\ snapshot' = [pending |-> l.pending, at |-> l.at]
    BY DEF Attention!Next, Attention!vars, Attention!EpisodeChanges, Attention!PermissionChanges,
           Attention!ServeLoad, Attention!Snooze, Attention!SnoozeEnds, Attention!Refresh, Attention!LoadAnswered,
           Attention!LoadFails, Attention!AbortedLoad, Attention!SetConnected, Attention!DeliverNext,
           Attention!PermissionAnswered, Attention!PermissionFails, Attention!Send, Attention!ClickEnable,
           Attention!EnableAnswered, Attention!EnableFails, Attention!Restart, Attention!netVars, Attention!Current
  <2>2. snapshot.at \in Nat
    BY DEF NeedsInv, NeedsTyped
  <2> QED
    BY <2>1, <2>2 DEF NeedsInv, NeedsPast, Answers, Attention!SnapshotForward
<1> QED
  BY <1>1, <1>2 DEF Attention!NoBacklog

HIDE DEF enabling, stamp, granted, connected, fresh, epoch, initialized, loads, inFlight, snapshot,
         deliveries, enabled, notified, snoozed, stored, storable, sent, known, budget, status

----------------------------------------------------------------------------
(* The whole.                                                              *)

\* The invariant of the machine that was chosen.
ShellInv ==
  /\ machine \in Machines
  /\ On("feed") => FeedInv
  /\ On("navigation") => NavInv
  /\ On("remap") => RemapInv
  /\ On("prune") => PruneWhole
  /\ On("attention") => NeedsInv

LEMMA ShellInit == Init => ShellInv
<1> SUFFICES ASSUME Init PROVE ShellInv
  OBVIOUS
<1>1. On("feed") => Feed!Init
  BY DEF Init, On
<1>2. On("navigation") => Navigation!Init
  BY DEF Init, On
<1>3. On("remap") => Remap!Init
  BY DEF Init, On
<1>4. On("prune") => Prune!Init
  BY DEF Init, On
<1>5. On("attention") => Attention!Init
  BY DEF Init, On
<1>6. machine \in Machines
  BY DEF Init
<1> QED
  BY <1>1, <1>2, <1>3, <1>4, <1>5, <1>6, FeedInit, NavInit, RemapInit, PruneInit, NeedsInit DEF ShellInv

\* A step of the whole is one of the chosen machine, or leaves its cells alone.
LEMMA ShellMoves ==
  ASSUME [Next]_cells
  PROVE  /\ machine' = machine
         /\ On("feed") => [Feed!Next]_(Feed!vars)
         /\ On("navigation") => [Navigation!Next]_(Navigation!vars)
         /\ On("remap") => [Remap!Next]_(Remap!vars)
         /\ On("prune") => [Prune!Next]_(Prune!vars)
         /\ On("attention") => [Attention!Next]_(Attention!vars)
<1>1. CASE UNCHANGED cells
  BY <1>1 DEF cells, Feed!vars, Navigation!vars, Remap!vars, Prune!vars, Attention!vars
<1>2. CASE Next
  <2>1. machine' = machine
    BY <1>2 DEF Next
  <2>2. On("feed") => Feed!Next
    BY <1>2 DEF Next, On
  <2>3. On("navigation") => Navigation!Next
    BY <1>2 DEF Next, On
  <2>4. On("remap") => Remap!Next
    BY <1>2 DEF Next, On
  <2>5. On("prune") => Prune!Next
    BY <1>2 DEF Next, On
  <2>6. On("attention") => Attention!Next
    BY <1>2 DEF Next, On
  <2> QED
    BY <2>1, <2>2, <2>3, <2>4, <2>5, <2>6
<1> QED
  BY <1>1, <1>2

LEMMA ShellStep == ShellInv /\ [Next]_cells => ShellInv'
<1> SUFFICES ASSUME ShellInv, [Next]_cells PROVE ShellInv'
  OBVIOUS
<1>0. machine' = machine /\ machine \in Machines
  BY ShellMoves DEF ShellInv
<1>1. On("feed") => FeedInv'
  BY ShellMoves, FeedStep DEF ShellInv
<1>2. On("navigation") => NavInv'
  BY ShellMoves, NavStep DEF ShellInv
<1>3. On("remap") => RemapInv'
  BY ShellMoves, RemapStep DEF ShellInv
<1>4. On("prune") => PruneWhole'
  <2> SUFFICES ASSUME On("prune") PROVE PruneWhole'
    OBVIOUS
  <2>1. PruneInv /\ PruneBounds /\ Prune!OneLiveRun /\ PruneCaught /\ [Prune!Next]_(Prune!vars)
    BY ShellMoves DEF ShellInv, PruneWhole
  <2> QED
    BY <2>1, PruneStep, RunnerStep, CaughtStep, BoundsStep DEF PruneWhole
<1>5. On("attention") => NeedsInv'
  BY ShellMoves, NeedsStep DEF ShellInv
<1> QED
  BY <1>0, <1>1, <1>2, <1>3, <1>4, <1>5 DEF ShellInv, On

LEMMA ShellChoice == machine \in Machines => machine \in {"feed", "remap", "navigation", "prune", "attention"}
BY ShellAssumption

LEMMA ShellMeans == ShellInv => TypeOK /\ FeedAccounts /\ ScopeStands /\ DoneOnce
<1> SUFFICES ASSUME ShellInv PROVE TypeOK /\ FeedAccounts /\ ScopeStands /\ DoneOnce
  OBVIOUS
<1>1. CASE On("feed")
  BY <1>1, FeedMeans DEF ShellInv, On, TypeOK, FeedAccounts, ScopeStands, DoneOnce
<1>2. CASE On("navigation")
  <2>1. Navigation!DragOwnsScope
    BY <1>2 DEF ShellInv, NavInv
  <2> QED
    BY <1>2, <2>1, NavMeans DEF ShellInv, On, TypeOK, FeedAccounts, ScopeStands, DoneOnce
<1>3. CASE On("remap")
  BY <1>3, RemapMeans DEF ShellInv, On, TypeOK, FeedAccounts, ScopeStands, DoneOnce
<1>4. CASE On("prune")
  BY <1>4, PruneMeans DEF ShellInv, On, TypeOK, FeedAccounts, ScopeStands, DoneOnce
<1>5. CASE On("attention")
  BY <1>5, NeedsMeans DEF ShellInv, On, TypeOK, FeedAccounts, ScopeStands, DoneOnce
<1> QED
  BY <1>1, <1>2, <1>3, <1>4, <1>5, ShellChoice DEF ShellInv, On

\* StepsAsMeant, of one step.
Meant ==
  CASE On("remap") -> Remap!ProjectKept /\ Remap!RootsForward
    [] On("navigation") -> Navigation!InspectIsLatest /\ Navigation!LandsOnce
    [] On("prune") -> Prune!RemovesOnlyConfirmed
    [] On("attention") -> Attention!NoBacklog /\ Attention!SnapshotForward
    [] OTHER -> TRUE

LEMMA ShellMeant == ShellInv /\ [Next]_cells => Meant
<1> SUFFICES ASSUME ShellInv, [Next]_cells PROVE Meant
  OBVIOUS
<1>1. CASE On("feed")
  BY <1>1 DEF Meant, On
<1>2. CASE On("navigation")
  BY <1>2, ShellMoves, NavActs DEF ShellInv, Meant, On
<1>3. CASE On("remap")
  BY <1>3, ShellMoves, RemapActs DEF ShellInv, Meant, On
<1>4. CASE On("prune")
  <2>1. PruneInv
    BY <1>4 DEF ShellInv, PruneWhole
  <2> QED
    BY <1>4, <2>1, ShellMoves, PruneActs DEF Meant, On
<1>5. CASE On("attention")
  BY <1>5, ShellMoves, NeedsActs DEF ShellInv, Meant, On
<1> QED
  BY <1>1, <1>2, <1>3, <1>4, <1>5, ShellChoice DEF ShellInv, On

\* The cells of the chosen machine always hold what its variables may hold.
THEOREM ShellTyping == Spec => []TypeOK
<1> QED
  BY ShellInit, ShellStep, ShellMeans, PTL DEF Spec

\* The feed keeps at most a ring of events, each once and in order; a hole in it is one that
\* the bounded history explains (state.ts, connect.ts); a pause loses nothing that it counts,
\* and LIVE is shown only by an attempt that is under way or holds a stream.
THEOREM FeedShowsAll == Spec => []FeedAccounts
<1> QED
  BY ShellInit, ShellStep, ShellMeans, PTL DEF Spec

\* After the ids changed under it, the scope names a project that there is and a session of
\* that project (privacy remap); a drag of the window keeps the scope that it is about.
THEOREM ScopeAlwaysStands == Spec => []ScopeStands
<1> QED
  BY ShellInit, ShellStep, ShellMeans, PTL DEF Spec

\* An episode is notified once whatever connections overlap or restart, one action runs at a
\* time, and the lists catch up with what it removed.
THEOREM DoneOnlyOnce == Spec => []DoneOnce
<1> QED
  BY ShellInit, ShellStep, ShellMeans, PTL DEF Spec

\* No step acts on what the user did not see, choose or confirm: a remap keeps the project,
\* unless it is gone and one namesake was registered meanwhile, or clears it; an inspection shows the last
\* event clicked, a deletion is of what was shown and confirmed unchanged, what was known
\* before is not notified; and no older answer replaces a newer one.
THEOREM StepsMeant == Spec => StepsAsMeant
<1>1. ShellInv /\ [Next]_cells => [Meant]_cells
  BY ShellMeant
<1> QED
  BY <1>1, ShellInit, ShellStep, PTL DEF Spec, StepsAsMeant, Meant
=============================================================================
