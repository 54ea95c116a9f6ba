---------------------------- MODULE OTelForwarding ----------------------------
(***************************************************************************)
(* The relay of Claude's telemetry from end to end: the commands of        *)
(* OTelInstall write and remove otel-forward.json while the daemon         *)
(* (src/internal/daemon/otel_forward.go, called by handleOTLP in otel.go)  *)
(* reads it for every accepted batch of one signal and queues the batch    *)
(* for the user's collector.  The exporter is never kept waiting; a        *)
(* collector that stalls costs the oldest batches.  Signals share nothing  *)
(* but the cached record.                                                  *)
(***************************************************************************)
EXTENDS OTelInstall, Sequences, Functions

CONSTANTS
  Signal,
  Batches,    \* one request, and so one handler, each
  Depth,      \* forwardQueueDepth: 64 in the code
  MaxWrites   \* times the record is written or removed

VARIABLES
  file,       \* the record as the daemon sees it: [target, stamp]; stamp 0 when there is none
  writes,     \* how often it was replaced: the source of new stamps
  cache,      \* f.cached with f.modTime and f.size: [target, stamp, loaded]
  handler,    \* [Batches -> where its request is]
  info,       \* [Batches -> the stamp that its os.Stat returned]
  target,     \* [Batches -> the target it goes to]
  held,       \* [Batches -> the targets the record had while they were looked up]
  queue,      \* the channel of the signal
  sending,    \* what run holds, or Absent
  stopped,    \* f.stop is closed and run has returned
  accepted,   \* the batches in the order in which the queue took them
  sent, dropped,  \* tried, and taken out to make room
  due         \* ghost: [Batches -> the collector that the user's block named for it]

request == <<handler, info, target, held>>
disk == <<file, writes>>
worker == <<sending, stopped, sent>>
relay == <<file, writes, cache, handler, info, target, held, queue, sending,
           stopped, accepted, sent, dropped>>
allVars == <<vars, relay, due>>

Stamps == 0..MaxWrites

RelayTypeOK ==
  /\ file \in [target : Collectors \cup {Absent}, stamp : Stamps]
  /\ writes \in Stamps
  /\ cache \in [target : Collectors \cup {Absent}, stamp : Stamps, loaded : BOOLEAN]
  /\ handler \in [Batches -> {"new", "load", "push", "drop", "done"}]
  /\ info \in [Batches -> Stamps]
  /\ target \in [Batches -> Collectors \cup {Absent}]
  /\ held \in [Batches -> SUBSET (Collectors \cup {Absent})]
  /\ queue \in Seq(Batches) /\ Len(queue) <= Depth
  /\ sending \in Batches \cup {Absent}
  /\ stopped \in BOOLEAN
  /\ accepted \in Seq(Batches)
  /\ sent \subseteq Batches /\ dropped \subseteq Batches

----------------------------------------------------------------------------
(* install and uninstall: the record is renamed into place, or removed.    *)

Hold == [b \in Batches |-> IF handler[b] = "load" THEN held[b] \cup {file'.target} ELSE held[b]]

WriteRecord(t) ==
  /\ writes < MaxWrites
  /\ writes' = writes + 1 /\ file' = [target |-> t, stamp |-> writes + 1]
  /\ held' = Hold
  /\ UNCHANGED <<cache, handler, info, target, queue, accepted, dropped, worker>>
RemoveRecord ==
  /\ writes < MaxWrites /\ file.stamp # 0
  /\ writes' = writes + 1 /\ file' = [target |-> Absent, stamp |-> 0]
  /\ held' = Hold
  /\ UNCHANGED <<cache, handler, info, target, queue, accepted, dropped, worker>>

----------------------------------------------------------------------------
(* otelForwarder.forward, called by the handler of one request.            *)

Locked == \E b \in Batches : handler[b] = "load"

\* What a handler does with the target it found: nothing, or the queue.
Choose(b, t) ==
  /\ target' = [target EXCEPT ![b] = t]
  /\ handler' = [handler EXCEPT ![b] = IF t = Absent THEN "done" ELSE "push"]

\* targets, under f.mu: os.Stat, and the cached record if the file is the same.
StatRecord(b) ==
  /\ handler[b] = "new" /\ ~Locked
  /\ info' = [info EXCEPT ![b] = file.stamp]
  /\ held' = [held EXCEPT ![b] = {file.target}]
  /\ IF file.stamp = 0
       THEN Choose(b, Absent) /\ cache' = [cache EXCEPT !.target = Absent, !.loaded = FALSE]
     ELSE IF cache.loaded /\ cache.stamp = file.stamp
       THEN Choose(b, cache.target) /\ UNCHANGED cache
     ELSE handler' = [handler EXCEPT ![b] = "load"] /\ UNCHANGED <<target, cache>>
  /\ UNCHANGED <<disk, queue, accepted, dropped, worker>>

\* LoadOTelForward reads what is there now; it is kept with the earlier stamp.
LoadRecord(b) ==
  /\ handler[b] = "load"
  /\ cache' = [target |-> file.target, stamp |-> info[b], loaded |-> TRUE]
  /\ Choose(b, file.target)
  /\ UNCHANGED <<disk, info, held, queue, accepted, dropped, worker>>

\* The first select: room in the queue, or on to the second.
Push(b) ==
  /\ handler[b] = "push"
  /\ IF Len(queue) < Depth
     THEN /\ queue' = Append(queue, b) /\ accepted' = Append(accepted, b)
          /\ handler' = [handler EXCEPT ![b] = "done"]
     ELSE /\ handler' = [handler EXCEPT ![b] = "drop"] /\ UNCHANGED <<queue, accepted>>
  /\ UNCHANGED <<disk, cache, info, target, held, dropped, worker>>

\* The second select: the oldest batch makes room, also when run has made some
\* in the meantime.
DropOldest(b) ==
  /\ handler[b] = "drop"
  /\ handler' = [handler EXCEPT ![b] = "push"]
  /\ IF queue = <<>> THEN UNCHANGED <<queue, dropped>>
     ELSE dropped' = dropped \cup {Head(queue)} /\ queue' = Tail(queue)
  /\ UNCHANGED <<disk, cache, info, target, held, accepted, worker>>

----------------------------------------------------------------------------
(* otelForwarder.run: one goroutine per signal.                            *)

Take ==
  /\ ~stopped /\ sending = Absent /\ queue # <<>>
  /\ sending' = Head(queue) /\ queue' = Tail(queue)
  /\ UNCHANGED <<disk, cache, request, accepted, dropped, stopped, sent>>

\* Answered, refused, not reached, or timed out: each batch is tried once.
SendEnds ==
  /\ sending # Absent
  /\ sent' = sent \cup {sending} /\ sending' = Absent
  /\ UNCHANGED <<disk, cache, request, queue, accepted, dropped, stopped>>

\* The daemon shuts down between two batches.
Stop ==
  /\ ~stopped /\ sending = Absent
  /\ stopped' = TRUE
  /\ UNCHANGED <<disk, cache, request, queue, accepted, dropped, sending, sent>>

RelayInit ==
  /\ file = [target |-> Absent, stamp |-> 0] /\ writes = 0
  /\ cache = [target |-> Absent, stamp |-> 0, loaded |-> FALSE]
  /\ handler = [b \in Batches |-> "new"] /\ info = [b \in Batches |-> 0]
  /\ target = [b \in Batches |-> Absent] /\ held = [b \in Batches |-> {}]
  /\ queue = <<>> /\ sending = Absent /\ stopped = FALSE
  /\ accepted = <<>> /\ sent = {} /\ dropped = {}
  /\ due = [b \in Batches |-> Absent]

Run == Take \/ SendEnds \/ Stop

----------------------------------------------------------------------------
(* Commands and daemon.                                                    *)

TargetOf(r) == IF Relayable(r.targets[Signal]) THEN r.targets[Signal] ELSE Absent

\* The collector the user means a batch for that Claude exports now.
Meant ==
  IF claim = "kept" /\ DestOf(env, Signal) = Addr /\ DestOf(own, Signal) \in Collectors
  THEN DestOf(own, Signal) ELSE Absent

\* Commands replace and remove the file that the daemon reads.
SaveShared == SaveRecord /\ WriteRecord(TargetOf(plan.record)) /\ UNCHANGED due
ClearShared ==
  /\ ClearRecord
  /\ IF record = Absent THEN UNCHANGED relay ELSE RemoveRecord
  /\ UNCHANGED due
Command ==
  /\ User \/ InstallPlain \/ InstallForward \/ InstallReplace \/ Uninstall \/ WriteSettings \/ Abort
  /\ UNCHANGED <<relay, due>>

\* A batch arrives, also from a Claude that read older settings.
Arrive(b) ==
  /\ StatRecord(b)
  /\ due' = [due EXCEPT ![b] = Meant]
  /\ UNCHANGED vars
Handle(b) ==
  /\ LoadRecord(b) \/ Push(b) \/ DropOldest(b)
  /\ UNCHANGED <<vars, due>>
Daemon == Run /\ UNCHANGED <<vars, due>>

ForwardingInit == Init /\ RelayInit
ForwardingNext ==
  \/ SaveShared \/ ClearShared \/ Command \/ Daemon
  \/ \E b \in Batches : Arrive(b) \/ Handle(b)

----------------------------------------------------------------------------
(* Properties. CollectorKept and RestoresOriginal: see OTelInstall.        *)

\* A batch of a user who keeps a collector goes there, through the installed
\* settings, the record and the daemon's cache of it, unless the record changes
\* while it is looked up ("re-read live by the daemon", docs/adapters.md:117).
BatchKept ==
  \A b \in Batches :
    (due[b] # Absent /\ handler[b] \in {"push", "drop", "done"} /\ Cardinality(held[b]) = 1)
      => target[b] = due[b]

Position(b) == CHOOSE i \in DOMAIN accepted : accepted[i] = b

\* What the queue took is queued, with run, tried, or counted as dropped, and a
\* dropped batch is older than all that wait.
OnlyOldestDropped ==
  /\ RelayTypeOK
  /\ Range(accepted) =
       Range(queue) \cup sent \cup dropped \cup ({sending} \ {Absent})
  /\ dropped \cap (Range(queue) \cup sent \cup {sending}) = {}
  /\ \A d \in dropped, q \in Range(queue) : Position(d) < Position(q)

\* The exporter gets its answer though run never moves: "it never delays the
\* exporter" (docs/adapters.md:119).
NeverDelays == \A b \in Batches : handler[b] = "done"
=============================================================================
