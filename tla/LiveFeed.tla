------------------------------ MODULE LiveFeed ------------------------------
(***************************************************************************)
(* The desktop viewer's live feed (src/apps/tauri-desktop/src): the        *)
(* connector that brackets a stream between two reads of the durable       *)
(* history (connect.ts), and the bounded feed that shows the events        *)
(* (state.ts).  The daemon is a log of events numbered in the order it     *)
(* wrote them, and a stream that carries those written while it is open.   *)
(***************************************************************************)
EXTENDS Naturals, Sequences, FiniteSets

CONSTANTS
  Ring,           \* FEED_RING: events the feed keeps
  FirstLimit,     \* events read at the first connection (500)
  ReplayLimit,    \* events read after an interruption, and pending frames (10000)
  Frames,         \* frames a subscription holds before the daemon closes it (256)
  MaxLog,         \* bound: events the daemon writes
  MaxBreaks,      \* bound: streams that break
  MaxFails        \* bound: requests that fail

Event == 1..MaxLog

\* An event was written between the second read and the opening of the stream; a
\* frame was overtaken by a whole read or ring of later events; a longer read
\* brought, but fewer than a ring of them, events older than those shown.
Disturbances == {"race", "late", "backfill"}

VARIABLES
  log,           \* events 1..log are durable
  link,          \* the EventSource: "none", "connecting", "open", or "closed" by the daemon
  wire,          \* frames on their way to the viewer
  held,          \* stopStream is set
  pc,            \* where attempt() is waiting
  limit,         \* limit of this attempt
  reconnecting,
  streamFailed,
  history,       \* answer of the first read
  pending,       \* frames buffered while reconciling
  queue,         \* what the reconciliation has still to hand over
  reconciled,    \* reconciledIds
  status,        \* kind of the last setStatus
  buf,           \* FeedState.buf
  paused,
  frozen,        \* the copy shown while paused
  arrived,       \* events since the pause
  beyond,        \* history: events older than what a second read returned
  disturbed,     \* history: what has disturbed the order (see Disturbances)
  budget

daemon == <<log, link, wire>>
attempt == <<pc, limit, history, pending, queue, reconciled, streamFailed>>
feed == <<buf, paused, frozen, arrived>>
ghosts == <<beyond, disturbed>>
vars == <<log, link, wire, held, pc, limit, reconnecting, streamFailed, history, pending,
          queue, reconciled, status, buf, paused, frozen, arrived, beyond, disturbed, budget>>

TypeOK ==
  /\ log \in 0..MaxLog /\ link \in {"none", "connecting", "open", "closed"} /\ wire \in Seq(Event)
  /\ held \in BOOLEAN /\ pc \in {"idle", "health", "history", "catchup", "deliver"}
  /\ limit \in {FirstLimit, ReplayLimit} /\ reconnecting \in BOOLEAN /\ streamFailed \in BOOLEAN
  /\ history \in Seq(Event) /\ pending \in Seq(Event)
  /\ queue \in Seq(Event) /\ reconciled \in SUBSET Event
  /\ status \in {"none", "ok", "warn", "err"}
  /\ buf \in Seq(Event) /\ arrived \in Seq(Event)
  /\ paused \in BOOLEAN /\ frozen \in Seq(Event)
  /\ beyond \in SUBSET Event /\ disturbed \in SUBSET Disturbances
  /\ budget \in [breaks: 0..MaxBreaks, fails: 0..MaxFails]

Elements(s) == {s[n] : n \in DOMAIN s}

\* GET /events/recent: the newest n events, oldest first.
Recent(n) == LET first == IF log > n THEN log - n ELSE 0
             IN [i \in 1..(log - first) |-> first + i]

\* Variant: the ring is never trimmed.
Unbounded(s, e, n) == Append(s, e)

\* A list that forgets its oldest element when it would hold more than n.
Bounded(s, e, n) == IF Len(s) < n THEN Append(s, e) ELSE Tail(Append(s, e))

Init ==
  /\ log = 0 /\ link = "none" /\ wire = <<>> /\ held = FALSE
  /\ pc = "idle" /\ limit = FirstLimit /\ reconnecting = FALSE /\ streamFailed = FALSE
  /\ history = <<>> /\ pending = <<>> /\ queue = <<>> /\ reconciled = {}
  /\ status = "none" /\ buf = <<>> /\ paused = FALSE /\ frozen = <<>> /\ arrived = <<>>
  /\ beyond = {} /\ disturbed = {}
  /\ budget = [breaks |-> MaxBreaks, fails |-> MaxFails]

(***************************************************************************)
(* The daemon.                                                             *)
(***************************************************************************)
\* The engine writes an event. An open stream carries it; one that is full is closed.
Emit ==
  /\ log < MaxLog /\ log' = log + 1
  /\ IF link = "open" /\ Len(wire) = Frames THEN link' = "closed" /\ UNCHANGED wire
     ELSE /\ wire' = IF link = "open" THEN Append(wire, log + 1) ELSE wire
          /\ UNCHANGED link
  /\ disturbed' = disturbed \cup {d \in {"race"} : link = "connecting" /\ pc # "catchup"}
  /\ UNCHANGED <<held, attempt, reconnecting, status, feed, beyond, budget>>

\* The daemon subscribes the stream and answers its headers: onopen.
StreamOpens ==
  /\ link = "connecting" /\ link' = "open" /\ status' = "ok" /\ pc # "deliver"
  /\ UNCHANGED <<log, wire, held, attempt, reconnecting, feed, ghosts, budget>>

(***************************************************************************)
(* FeedState.                                                              *)
(***************************************************************************)
\* An event already in the buffer is dropped; its id leaves seenIds with it.
Push(e) ==
  IF e \in Elements(buf) THEN UNCHANGED feed
  ELSE /\ buf' = Bounded(buf, e, Ring)
       /\ arrived' = IF paused THEN Bounded(arrived, e, Ring) ELSE arrived
       /\ UNCHANGED <<paused, frozen>>

Pause ==
  /\ ~paused /\ pc # "deliver"
  /\ paused' = TRUE /\ frozen' = buf /\ arrived' = <<>>
  /\ UNCHANGED <<daemon, held, attempt, reconnecting, status, buf, ghosts, budget>>

Resume ==
  /\ paused /\ pc # "deliver"
  /\ paused' = FALSE /\ frozen' = <<>> /\ arrived' = <<>>
  /\ UNCHANGED <<daemon, held, attempt, reconnecting, status, buf, ghosts, budget>>

(***************************************************************************)
(* The connector.  connect() is called every three seconds and does        *)
(* nothing while an attempt is in flight.                                  *)
(***************************************************************************)
Connect ==
  /\ pc = "idle" /\ pc' = "health"
  /\ UNCHANGED <<daemon, held, limit, history, pending, queue, reconciled, streamFailed,
                 reconnecting, status, feed, ghosts, budget>>

LimitNow == IF reconnecting THEN ReplayLimit ELSE FirstLimit

\* A compatible daemon: nothing more to do while a stream is held.
HealthOk ==
  /\ pc = "health" /\ status' = "ok"
  /\ IF held THEN pc' = "idle" /\ UNCHANGED limit
     ELSE pc' = "history" /\ limit' = LimitNow
  /\ UNCHANGED <<daemon, held, history, pending, queue, reconciled, streamFailed,
                 reconnecting, feed, ghosts, budget>>

Incompatible ==
  /\ pc = "health" /\ budget.fails > 0 /\ budget' = [budget EXCEPT !.fails = @ - 1]
  /\ pc' = "idle" /\ status' = "err"
  /\ UNCHANGED <<daemon, held, limit, history, pending, queue, reconciled, streamFailed,
                 reconnecting, feed, ghosts>>

\* Any request of the attempt fails: the stream is stopped.
RequestFails ==
  /\ pc \in {"health", "history", "catchup"}
  /\ budget.fails > 0 /\ budget' = [budget EXCEPT !.fails = @ - 1]
  /\ pc' = "idle" /\ held' = FALSE /\ status' = "err"
  /\ link' = "none" /\ wire' = <<>> /\ pending' = <<>> /\ history' = <<>>
  /\ UNCHANGED <<log, limit, queue, reconciled, streamFailed, reconnecting, feed, ghosts>>

\* The first read is answered and the stream is opened, its frames buffered.
HistoryAnswered ==
  /\ pc = "history" /\ pc' = "catchup"
  /\ history' = Recent(limit) /\ pending' = <<>> /\ streamFailed' = FALSE
  /\ link' = "connecting" /\ wire' = <<>> /\ held' = TRUE
  /\ UNCHANGED <<log, limit, queue, reconciled, reconnecting, status, feed, ghosts, budget>>

\* Events the read brings that are older than one already shown.
Older == {e \in Elements(history) \cup Elements(Recent(limit)) :
            e \notin Elements(buf) /\ \E b \in Elements(buf) : e < b}

\* The second read is answered: what it did not reach back to is beyond it.
CatchupAnswered ==
  /\ pc = "catchup" /\ pc' = "deliver"
  /\ queue' = history \o Recent(limit) \o pending /\ reconciled' = {}
  /\ beyond' = beyond \cup {e \in Event : e + limit <= log}
  /\ disturbed' = disturbed
                  \cup {d \in {"late"} : \E e \in Elements(pending) : e + limit <= log}
                  \cup {d \in {"backfill"} : Cardinality(Older) \in 1..(Ring - 1)}
  /\ history' = <<>> /\ pending' = <<>>
  /\ UNCHANGED <<daemon, held, limit, streamFailed, reconnecting, status, feed, budget>>

\* One turn of the loop that hands over both reads and the buffered frames.
Deliver ==
  /\ pc = "deliver" /\ queue # <<>> /\ queue' = Tail(queue)
  /\ IF Head(queue) \in reconciled THEN UNCHANGED <<feed, reconciled>>
     ELSE Push(Head(queue)) /\ reconciled' = reconciled \cup {Head(queue)}
  /\ UNCHANGED <<daemon, held, pc, limit, history, pending, streamFailed, reconnecting, status,
                 ghosts, budget>>

DeliverEnds ==
  /\ pc = "deliver" /\ queue = <<>> /\ pc' = "idle" /\ reconciled' = {}
  /\ reconnecting' = (streamFailed /\ reconnecting)
  /\ UNCHANGED <<daemon, held, limit, history, pending, queue, streamFailed, status, feed,
                 ghosts, budget>>

\* A frame arrives: buffered while the reads are out, shown otherwise.
Receive ==
  /\ wire # <<>> /\ wire' = Tail(wire) /\ pc # "deliver"
  /\ IF pc = "catchup" THEN pending' = Bounded(pending, Head(wire), ReplayLimit) /\ UNCHANGED feed
     ELSE Push(Head(wire)) /\ UNCHANGED pending
  /\ disturbed' = disturbed \cup {d \in {"late"} : Head(wire) \in beyond \/ Head(wire) + Ring <= log}
  /\ UNCHANGED <<log, link, held, pc, limit, history, queue, reconciled, streamFailed,
                 reconnecting, status, beyond, budget>>

\* The daemon closed the stream, or the connection is lost.
Breaks ==
  /\ pc # "deliver"
  /\ \/ link = "closed" /\ wire = <<>> /\ UNCHANGED budget
     \/ /\ link # "none" /\ budget.breaks > 0
        /\ budget' = [budget EXCEPT !.breaks = @ - 1]

\* onerror: the connector owns recovery, so the EventSource is closed.
StreamFails ==
  /\ Breaks
  /\ link' = "none" /\ wire' = <<>> /\ held' = FALSE /\ reconnecting' = TRUE
  /\ streamFailed' = TRUE /\ status' = "warn"
  /\ UNCHANGED <<log, pc, limit, history, pending, queue, reconciled, feed, ghosts>>

\* A stream that the daemon closed is noticed; one that nobody closes may stay.
ClosedIsNoticed == link = "closed" /\ StreamFails

Next ==
  \/ Emit \/ StreamOpens \/ Pause \/ Resume
  \/ Connect \/ HealthOk \/ Incompatible \/ RequestFails
  \/ HistoryAnswered \/ CatchupAnswered \/ Deliver \/ DeliverEnds
  \/ Receive \/ StreamFails

Spec == Init /\ [][Next]_vars

(***************************************************************************)
(* Properties.                                                             *)
(***************************************************************************)
\* The feed holds each event once, at most Ring of them, although an event that
\* left the buffer may be handed over again by a longer history.
Distinct(s) == \A i, j \in 1..Len(s) : s[i] = s[j] => i = j
RingSound ==
  /\ Len(buf) <= Ring /\ Distinct(buf)
  /\ Len(arrived) <= Ring

\* Between reconciliations the feed shows the log in its order and without a hole,
\* but for events older than the read that attached the stream reaches, as long as
\* nothing has disturbed it.
Contiguous ==
  pc # "deliver" /\ disturbed = {} =>
    \A i \in 1..(Len(buf) - 1) :
      buf[i] < buf[i + 1] /\ (buf[i] + 1)..(buf[i + 1] - 1) \subseteq beyond

\* While the feed is paused, what it shows and what it counts as arrived account
\* for the whole live buffer: resuming shows nothing that was not counted.
ResumeShowsCounted ==
  paused => Elements(buf) \subseteq Elements(frozen) \cup Elements(arrived)

\* Between attempts "LIVE" is shown only while a stream is held.
LiveMeansAttached == pc = "idle" /\ status = "ok" => held /\ link # "none"

\* What comes again and again while requests and streams stop failing: the viewer
\* is attached.
Reattached == link = "open" /\ status = "ok"

\* docs/contracts.md:190-193: the second snapshot closes the race between the
\* history and the live stream: attached and with nothing under way, the newest
\* event is in the feed.
NoHistoryLiveRace ==
  pc = "idle" /\ link = "open" /\ wire = <<>> /\ log > 0 => log \in Elements(buf)
=============================================================================
