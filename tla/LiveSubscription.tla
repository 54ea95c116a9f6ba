-------------------------- MODULE LiveSubscription --------------------------
(***************************************************************************)
(* The viewer's Live Subscription (src/internal/livesubscription): durable *)
(* history, one live channel and the session Projection, reconciled after  *)
(* every interruption.  The engine is the one of CaptureEngine, reduced to *)
(* what a viewer can tell: a spool, one Session whose attention state is a *)
(* version number, and one bounded channel, in process or over the         *)
(* daemon's event stream (src/internal/daemon/stream.go, client.Stream).   *)
(***************************************************************************)
EXTENDS Naturals, Sequences, FiniteSets

CONSTANTS
  Events,         \* ids of the events of the instance
  Limit,          \* reconcileLimit (and initialLimit)
  SeenCapacity,   \* seenCapacity
  Capacity,       \* frames between the engine and the viewer
  MaxSpool,       \* lines of the spool: an id may be written twice
  MaxVersions,    \* attention states of the Session
  MaxDrops,       \* connections that break
  MaxFails        \* reads of the engine that fail

Versions == 0..MaxVersions
EventFrame(i) == <<"event", i>>
TransitionFrame(v) == <<"transition", v>>
Frames == ({"event"} \X Events) \cup ({"transition"} \X Versions)

VARIABLES
  spool,      \* Seq(Events)
  projected,  \* Projection.seen
  state,      \* the Session's attention state
  outbox,     \* frames the sequencer has still to publish
  link,       \* the live channel: "none", "open" or "closed"
  chan,       \* frames in it
  pc,         \* where Open or pump is
  history,    \* what the reads of this bracket returned, oldest first
  pending,    \* frames to hand over before the channel is read
  seen,       \* seenIDs, oldest first
  shown,      \* events handed to the viewer, in order
  view,       \* the attention state the viewer shows
  budget

engine == <<spool, projected, state, outbox>>
bracket == <<history, pending>>
viewer == <<seen, shown, view>>
vars == <<spool, projected, state, outbox, link, chan, pc, history,
          pending, seen, shown, view, budget>>

TypeOK ==
  /\ spool \in Seq(Events) /\ projected \in SUBSET Events /\ state \in Versions
  /\ outbox \in Seq(Frames)
  /\ link \in {"none", "open", "closed"}
  /\ chan \in Seq(Frames) /\ Len(chan) <= Capacity
  /\ pc \in {"recent", "subscribe", "catchup", "sessions", "forward", "attached"}
  /\ history \in Seq(Events) /\ pending \in Seq(Frames)
  /\ seen \in Seq(Frames) /\ shown \in Seq(Events) /\ view \in Versions
  /\ budget \in [drops: 0..MaxDrops, fails: 0..MaxFails]

Elements(s) == {s[n] : n \in DOMAIN s}

\* The first occurrence of each element that is not in S, in order
\* (deduplicateStableIDs, novel).
Distinct(s, S) ==
  LET Fresh(n) == s[n] \notin S /\ \A m \in 1..(n - 1) : s[m] # s[n]
      keep[n \in 0..Len(s)] ==
        IF n = 0 THEN <<>>
        ELSE IF Fresh(n) THEN Append(keep[n - 1], s[n]) ELSE keep[n - 1]
  IN keep[Len(s)]

LastN(s, n) == SubSeq(s, (IF Len(s) > n THEN Len(s) - n ELSE 0) + 1, Len(s))

\* Engine.Recent: the last distinct records, oldest first.
Recent == LastN(Distinct(spool, {}), Limit)

----------------------------------------------------------------------------
(* The engine.                                                             *)

Write(i) ==
  /\ Len(spool) < MaxSpool
  /\ spool' = Append(spool, i)
  /\ UNCHANGED <<projected, state, outbox, link, chan, pc, bracket, viewer, budget>>

\* Projection and publication are one critical section of the sequencer; a
\* reader of the spool or of the Projection may come between its steps.
Project(i) ==
  /\ outbox = <<>> /\ i \in Elements(spool) \ projected
  /\ projected' = projected \cup {i}
  /\ \/ outbox' = <<EventFrame(i)>> /\ UNCHANGED state
     \/ /\ state < MaxVersions
        /\ state' = state + 1
        /\ outbox' = <<TransitionFrame(state + 1), EventFrame(i)>>
  /\ UNCHANGED <<spool, link, chan, pc, bracket, viewer, budget>>

IdleSweep ==
  /\ outbox = <<>> /\ projected # {} /\ state < MaxVersions
  /\ state' = state + 1
  /\ outbox' = <<TransitionFrame(state + 1)>>
  /\ UNCHANGED <<spool, projected, link, chan, pc, bracket, viewer, budget>>

Publish ==
  /\ outbox # <<>>
  /\ outbox' = Tail(outbox)
  /\ \/ link = "open" /\ Len(chan) < Capacity
        /\ chan' = Append(chan, Head(outbox)) /\ UNCHANGED link
     \/ link = "open" /\ Len(chan) >= Capacity
        /\ link' = "closed" /\ UNCHANGED chan
     \/ link # "open" /\ UNCHANGED <<link, chan>>
  /\ UNCHANGED <<spool, projected, state, pc, bracket, viewer, budget>>

\* The connection breaks, the run ends, or the stream handler prefers Done to
\* the frames that are left: what was in flight may be lost from some point on.
Drop ==
  /\ link = "open" /\ budget.drops > 0
  /\ budget' = [budget EXCEPT !.drops = @ - 1]
  /\ link' = "closed"
  /\ \E n \in 0..Len(chan) : chan' = SubSeq(chan, 1, n)
  /\ UNCHANGED <<engine, pc, bracket, viewer>>

----------------------------------------------------------------------------
(* openBracket.  A read that fails drops the channel and starts over.      *)

ReadRecent ==
  /\ pc = "recent"
  /\ history' = Recent
  /\ pc' = "subscribe"
  /\ UNCHANGED <<engine, link, chan, pending, viewer, budget>>

Subscribe ==
  /\ pc = "subscribe"
  /\ link' = "open" /\ chan' = <<>>
  /\ pc' = "catchup"
  /\ UNCHANGED <<engine, bracket, viewer, budget>>

ReadCatchup ==
  /\ pc = "catchup"
  /\ history' = history \o Recent
  /\ pc' = "sessions"
  /\ UNCHANGED <<engine, link, chan, pending, viewer, budget>>

Novel == Distinct(history, {f[2] : f \in {g \in Elements(seen) : g[1] = "event"}})

\* The last read.  What is new of the history goes to the viewer, then the
\* snapshot as one reconciled transition, then the channel.
ReadSessions ==
  /\ pc = "sessions"
  /\ pending' = Append([n \in DOMAIN Novel |-> EventFrame(Novel[n])], TransitionFrame(state))
  /\ history' = <<>>
  /\ pc' = "forward"
  /\ UNCHANGED <<engine, link, chan, viewer, budget>>

BracketFails ==
  /\ pc \in {"recent", "subscribe", "catchup", "sessions"} /\ budget.fails > 0
  /\ budget' = [budget EXCEPT !.fails = @ - 1]
  /\ pc' = "recent" /\ history' = <<>>
  /\ link' = "none" /\ chan' = <<>>
  /\ UNCHANGED <<engine, pending, viewer>>

----------------------------------------------------------------------------
(* pump.                                                                   *)

Remember(frame) ==
  IF frame \in Elements(seen) THEN seen
  ELSE LastN(Append(seen, frame), SeenCapacity)

\* Recovered events, then the reconciled transition (which has no id).
ForwardPending ==
  /\ pc = "forward" /\ pending # <<>>
  /\ LET frame == Head(pending) IN
       IF frame[1] = "event"
       THEN /\ shown' = IF frame \in Elements(seen) THEN shown ELSE Append(shown, frame[2])
            /\ seen' = Remember(frame)
            /\ UNCHANGED view
       ELSE view' = frame[2] /\ UNCHANGED <<seen, shown>>
  /\ pending' = Tail(pending)
  /\ UNCHANGED <<engine, link, chan, pc, history, budget>>

Attach ==
  /\ pc = "forward" /\ pending = <<>>
  /\ pc' = "attached"
  /\ UNCHANGED <<engine, link, chan, bracket, viewer, budget>>

ForwardLive ==
  /\ pc = "attached" /\ chan # <<>>
  /\ LET frame == Head(chan) IN
       IF frame \in Elements(seen) THEN UNCHANGED viewer
       ELSE /\ seen' = Remember(frame)
            /\ IF frame[1] = "event"
               THEN shown' = Append(shown, frame[2]) /\ UNCHANGED view
               ELSE view' = frame[2] /\ UNCHANGED shown
  /\ chan' = Tail(chan)
  /\ UNCHANGED <<engine, link, pc, bracket, budget>>

\* The channel is closed and drained: reconcile.
Reopen ==
  /\ pc = "attached" /\ chan = <<>> /\ link = "closed"
  /\ link' = "none"
  /\ pc' = "recent"
  /\ UNCHANGED <<engine, chan, bracket, viewer, budget>>

----------------------------------------------------------------------------
Init ==
  /\ spool = <<>> /\ projected = {} /\ state = 0 /\ outbox = <<>>
  /\ link = "none" /\ chan = <<>> /\ pc = "recent"
  /\ history = <<>> /\ pending = <<>>
  /\ seen = <<>> /\ shown = <<>> /\ view = 0
  /\ budget = [drops |-> MaxDrops, fails |-> MaxFails]

Bracket == ReadRecent \/ Subscribe \/ ReadCatchup \/ ReadSessions
Pump == ForwardPending \/ Attach \/ ForwardLive \/ Reopen

Next ==
  \/ \E i \in Events : Write(i) \/ Project(i)
  \/ IdleSweep \/ Publish \/ Drop
  \/ Bracket \/ BracketFails \/ Pump

Spec == Init /\ [][Next]_vars

----------------------------------------------------------------------------
(* What the viewer is promised.                                            *)

Quiet == outbox = <<>> /\ Elements(spool) \subseteq projected
Attached == pc = "attached" /\ link = "open" /\ chan = <<>>

\* Without a history/live race: once the engine is quiet and the channel empty,
\* the viewer has every event and the current state, however often its channel
\* overflowed or broke and whatever came between the reads of a bracket.
QuietIsComplete ==
  /\ TypeOK
  /\ Quiet /\ Attached => Elements(shown) = Elements(spool) /\ view = state

\* Exact-ID deduplication over both history reads, the buffered live frames and
\* the replays of the spool: an event is shown once.
ShownOnce == \A m, n \in DOMAIN shown : shown[m] = shown[n] => m = n

\* The viewer gets to that point: every event is shown in the end, and the
\* state it shows catches up or the engine moves on.
EventuallyShown == Elements(spool) \subseteq Elements(shown)
=============================================================================
