-------------------------- MODULE SessionProjection --------------------------
(***************************************************************************)
(* The attention state of one Session in the engine's Projection           *)
(* (src/internal/capture/internal/projection: ApplyResult, AdvanceIdle,    *)
(* Transition, TickIdle): the fold of the Session's events, the idle sweep *)
(* the engine runs every few seconds, the transition frames both publish,  *)
(* and the rebuild from the spool's day files after a restart.             *)
(***************************************************************************)
EXTENDS Naturals, Sequences

CONSTANTS
  IdleAfter,      \* in ticks of the clock
  DayLength,      \* ticks covered by one day file
  MaxTime, MaxEvents,
  MaxLate         \* how late an event may arrive after its own time

Kinds == {"activity", "pre", "post", "failed", "request", "reply", "end", "error", "meta"}
Times == 0..MaxTime
States == {"working", "needs_input", "idle", "done"}

VARIABLES
  clock,
  log,     \* the spool: the Session's events in append order
  p,       \* the sessionEntry of the running engine
  frames,  \* the transition frames the last step published
  shown,   \* what a subscriber of those frames believes
  delayed  \* history: some event arrived after its own time

vars == <<clock, log, p, frames, shown, delayed>>

Attention == [state: States, since: Nat, reason: BOOLEAN, error: BOOLEAN]
Entry == [known: BOOLEAN, events: Nat, firstTime: Nat, lastTime: Nat,
          lastActivity: Nat, openTools: Nat, attention: Attention]
Event == [time: Times, kind: Kinds]
Frame == [prev: States, next: Attention]

TypeOK ==
  /\ clock \in Times /\ log \in Seq(Event) /\ p \in Entry
  /\ frames \in Seq(Frame) /\ Len(frames) <= 2
  /\ shown \in Attention /\ delayed \in BOOLEAN
  /\ p.openTools <= p.events

----------------------------------------------------------------------------
(* attention.go                                                            *)

IsActivity(e) == e.kind \in {"activity", "pre", "post", "failed"}
IsError(e) == e.kind \in {"failed", "error"}

\* Variant: an error ends nothing, but a request is taken back by it.
TransitionOnError(a, e) ==
  LET next ==
        CASE e.kind = "reply" -> [a EXCEPT !.state = "working", !.since = e.time, !.reason = FALSE]
          [] e.kind = "request" -> [a EXCEPT !.state = "needs_input", !.since = e.time, !.reason = TRUE]
          [] e.kind = "end" -> [a EXCEPT !.state = "done", !.since = e.time, !.reason = FALSE]
          [] IsActivity(e) \/ IsError(e) ->
               [state |-> "working", since |-> e.time, reason |-> FALSE, error |-> FALSE]
          [] OTHER -> a
  IN IF IsError(e) THEN [next EXCEPT !.error = TRUE] ELSE next

\* Transition: the state that an event leads to.
Transition(a, e) ==
  LET next ==
        CASE e.kind = "reply" -> [a EXCEPT !.state = "working", !.since = e.time, !.reason = FALSE]
          [] e.kind = "request" -> [a EXCEPT !.state = "needs_input", !.since = e.time, !.reason = TRUE]
          [] e.kind = "end" -> [a EXCEPT !.state = "done", !.since = e.time, !.reason = FALSE]
          [] IsActivity(e) /\ (a.state # "working" \/ a.error \/ a.reason) ->
               [state |-> "working", since |-> e.time, reason |-> FALSE, error |-> FALSE]
          [] OTHER -> a
  IN IF IsError(e) THEN [next EXCEPT !.error = TRUE] ELSE next

\* A step that only moves since is not a change, and is not kept.
Changed(a, b) == a.state # b.state \/ a.reason # b.reason \/ a.error # b.error

\* TickIdle: since is the instant the session became idle, not the sweep's.
TickIdle(a, lastActivity, now, open) ==
  IF a.state = "working" /\ open = 0 /\ now >= lastActivity + IdleAfter
  THEN [a EXCEPT !.state = "idle", !.since = lastActivity + IdleAfter, !.reason = FALSE]
  ELSE a

----------------------------------------------------------------------------
(* projection.go                                                           *)

Unknown == [known |-> FALSE, events |-> 0, firstTime |-> 0, lastTime |-> 0,
            lastActivity |-> 0, openTools |-> 0,
            attention |-> [state |-> "working", since |-> 0, reason |-> FALSE, error |-> FALSE]]

NewEntry(e) ==
  [Unknown EXCEPT !.known = TRUE, !.firstTime = e.time, !.lastTime = e.time,
                  !.lastActivity = e.time, !.attention.since = e.time]

OpenTools(n, e) ==
  CASE e.kind = "pre" -> n + 1
    [] e.kind \in {"post", "failed"} /\ n > 0 -> n - 1
    [] e.kind = "end" -> 0
    [] OTHER -> n

\* Variant: the crossing an event's arrival reveals is not looked for.
CrossedNever(s, e) == s.attention

\* The idle crossing between the previous event and this one.
Crossed(s, e) == TickIdle(s.attention, s.lastActivity, e.time, s.openTools)

\* lastActivity is monotone: append order is not timestamp order.
ActivityAt(s, e) == IF e.time >= s.lastActivity THEN e.time ELSE s.lastActivity

Fold(q, e) ==
  LET s == IF q.known THEN q ELSE NewEntry(e)
      crossed == Crossed(s, e)
      next == Transition(crossed, e)
  IN [known |-> TRUE, events |-> s.events + 1,
      firstTime |-> IF e.time < s.firstTime THEN e.time ELSE s.firstTime,
      lastTime |-> IF e.time >= s.lastTime THEN e.time ELSE s.lastTime,
      lastActivity |-> ActivityAt(s, e),
      openTools |-> OpenTools(s.openTools, e),
      attention |-> IF Changed(crossed, next) THEN next ELSE crossed]

\* The frames of ApplyResult: the crossing first, then the event's own change.
FoldFrames(q, e) ==
  LET s == IF q.known THEN q ELSE NewEntry(e)
      crossed == Crossed(s, e)
      next == Transition(crossed, e)
  IN (IF Changed(s.attention, crossed)
      THEN <<[prev |-> s.attention.state, next |-> crossed]>> ELSE <<>>)
     \o (IF Changed(crossed, next)
         THEN <<[prev |-> crossed.state, next |-> next]>> ELSE <<>>)

\* AdvanceIdle, for the one Session.
Sweep(q, now) ==
  IF q.known
  THEN [q EXCEPT !.attention = TickIdle(@, q.lastActivity, now, q.openTools)] ELSE q

SweepFrames(q, now) ==
  IF Changed(q.attention, Sweep(q, now).attention)
  THEN <<[prev |-> q.attention.state, next |-> Sweep(q, now).attention]>> ELSE <<>>

\* Build: the day files in name order, each in append order, no sweep between.
DayOf(e) == e.time \div DayLength
LastDay == MaxTime \div DayLength

\* A scan of one day file, from the entry that the files before it left.
ReadDay(s, day, q) ==
  LET read[n \in 0..Len(s)] ==
        IF n = 0 THEN q
        ELSE IF DayOf(s[n]) = day THEN Fold(read[n - 1], s[n]) ELSE read[n - 1]
  IN read[Len(s)]

Build(s) ==
  LET built[n \in 0..(LastDay + 1)] ==
        IF n = 0 THEN Unknown ELSE ReadDay(s, n - 1, built[n - 1])
  IN built[LastDay + 1]

Rebuilt == Build(log)

LastShown(fs, a) == IF fs = <<>> THEN a ELSE fs[Len(fs)].next

----------------------------------------------------------------------------
Tick ==
  /\ clock < MaxTime
  /\ clock' = clock + 1
  /\ frames' = <<>>
  /\ UNCHANGED <<log, p, shown, delayed>>

\* An event is appended and projected; its time is its source's.  A subscriber
\* that meets a Session in its first frame takes it to be working since then.
Observe(kind, late) ==
  /\ Len(log) < MaxEvents /\ late <= clock
  /\ LET e == [time |-> clock - late, kind |-> kind] IN
       /\ log' = Append(log, e)
       /\ p' = Fold(p, e)
       /\ frames' = FoldFrames(p, e)
       /\ shown' = LastShown(frames', IF p.known THEN shown ELSE NewEntry(e).attention)
  /\ delayed' = (delayed \/ late > 0)
  /\ UNCHANGED clock

AdvanceIdle ==
  /\ p' = Sweep(p, clock)
  /\ frames' = SweepFrames(p, clock)
  /\ shown' = LastShown(frames', shown)
  /\ UNCHANGED <<clock, log, delayed>>

\* The process restarts; a subscriber reconciles with the snapshot.
Restart ==
  /\ p' = Rebuilt
  /\ frames' = <<>>
  /\ shown' = p'.attention
  /\ UNCHANGED <<clock, log, delayed>>

Init ==
  /\ clock = 0 /\ log = <<>> /\ p = Unknown /\ frames = <<>>
  /\ shown = Unknown.attention /\ delayed = FALSE

Next ==
  \/ Tick \/ AdvanceIdle \/ Restart
  \/ \E k \in Kinds, late \in 0..MaxLate : Observe(k, late)

Spec == Init /\ [][Next]_vars

----------------------------------------------------------------------------
(* Properties.                                                             *)

\* The answer does not depend on restarts: at any moment, the entry the engine
\* holds and the one it would rebuild from the spool agree once both have been
\* swept, since and error overlay included. This needs events that arrive at
\* their own time: the crossing that a late event reveals is another one.
RebuildAgrees == ~delayed => Sweep(p, clock) = Sweep(Rebuilt, clock)

\* A session is idle only if it was quiet: no activity is less than IdleAfter
\* older than the instant it is said to be idle since.
IdleMeansQuiet ==
  p.known /\ p.attention.state = "idle" =>
    /\ p.attention.since <= clock
    /\ \A n \in DOMAIN log : IsActivity(log[n]) =>
         log[n].time + IdleAfter <= p.attention.since

\* The frames are complete: a subscriber that only ever applies them knows the
\* state, its since, its reason and the error overlay.
StreamMatchesState == TypeOK /\ (p.known => shown = p.attention)

\* A request waits for the human: no sweep, error, or restart takes it back. A
\* restart (the step without a frame) may, once an event came late: its day file
\* puts it before events that it followed.
RequestHeld ==
  p.known /\ p.attention.state = "needs_input" /\ p'.attention.state # "needs_input"
    => \/ delayed /\ frames' = <<>>
       \/ /\ Len(log') > Len(log)
          /\ log'[Len(log')].kind \in {"reply", "end"} \/ IsActivity(log'[Len(log')])
=============================================================================
