------------------------------- MODULE MCDaemon -------------------------------
(*****************************************************************************)
(* The parts of the daemon, the hooks and the viewer that surround the     *)
(* capture engine.  They share no state that both sides write, so each is  *)
(* checked alone: a behaviour is one of them, chosen at the start, and all *)
(* of them keep their variables in the same cells.                         *)
(*****************************************************************************)
EXTENDS Naturals, FiniteSets, TLC

CONSTANTS
  Machines,      \* the machines to choose from
  None, Torn, Keep,
  LastFile, Silent, Tolerance, MaxLines, TailTime, MaxIds, TailBudgets,                       \* DurableTail
  Events, Limit, SeenCapacity, Capacity, MaxSpool, MaxVersions, MaxDrops, MaxFails,           \* LiveSubscription
  Collectors, Remote, Addr, UserEnvs, MaxEdits, Signals, Signal, Batches, Depth, MaxWrites,   \* OTelForwarding
  IdleAfter, DayLength, SessionTime, MaxEvents, MaxLate,                                      \* SessionProjection
  Hooks, HookBudgets,                                                                         \* HookCapture
  Paths, Commits, TreeBudgets                                                                 \* WorktreeStates

\* The modes in the order of what they store.
Amount == [minimal |-> 0, balanced |-> 1, full |-> 2]
Modes == DOMAIN Amount
StoresMore(a, b) == Amount[a] > Amount[b]

ASSUME DaemonAssumption ==
  /\ LastFile \in Nat /\ Tolerance \in Nat /\ MaxLines \in Nat /\ TailTime \in Nat /\ MaxIds \in Nat
  /\ \A b \in TailBudgets : b \in [crashes: Nat, saves: Nat, sinks: Nat, replaces: Nat, corruptions: Nat,
                                    moves: Nat, calm: {TRUE}]
  /\ Torn \notin Modes
  /\ \A b \in HookBudgets : b \in [updates: Nat, faults: Nat, starts: Nat]
  /\ IsFiniteSet(Paths)
  /\ \A b \in TreeBudgets : b \in [moves: Nat, faults: Nat]

VARIABLES machine, x1, x2, x3, x4, x5, x6, x7, x8, x9, x10, x11, x12, x13, x14, x15, x16, x17, x18, x19, x20,
          x21, x22
cells == <<machine, x1, x2, x3, x4, x5, x6, x7, x8, x9, x10, x11, x12, x13, x14, x15, x16, x17, x18, x19, x20,
           x21, x22>>
On(m) == machine = m

\* Budgets of the tailer, the hooks and the worktrees.
B(c, s, k, r, d, m) ==
  [crashes |-> c, saves |-> s, sinks |-> k, replaces |-> r, corruptions |-> d, moves |-> m, calm |-> TRUE]
Tails == {B(2, 1, 1, 0, 0, 0), B(1, 1, 1, 1, 1, 1)}
Updates == {[updates |-> 2, faults |-> 1, starts |-> 2], [updates |-> 1, faults |-> 2, starts |-> 1]}
Life == {[moves |-> 5, faults |-> 1], [moves |-> 3, faults |-> 2]}

\* The telemetry keys, and the blocks that a user writes.
Keys == ({"exporter", "endpoint"} \X Signals) \cup {<<"endpoint", "all">>, <<"headers", "all">>}
Block(pairs) == [k \in Keys |-> IF k \in DOMAIN pairs THEN pairs[k] ELSE None]
Exports(s) == <<"exporter", s>> :> "otlp"
To(s, v) == <<"endpoint", s>> :> v
Both == Exports("logs") @@ Exports("metrics")
Blocks == {
  Block(Both @@ To("all", "A")),
  Block(Both @@ To("logs", "B") @@ To("metrics", "A")),
  Block(Exports("logs") @@ To("logs", "p1")),
  Block(Both @@ To("all", "far")) }

Tailer == INSTANCE DurableTail WITH
  MaxTime <- TailTime, Budgets <- TailBudgets,
  content <- x1, modTime <- x2, stamp <- x3, written <- x4, clock <- x5, saved <- x6, phase <- x7,
  cursors <- x8, files <- x9, observed <- x10, watermark <- x11, pc <- x12, todo <- x13, job <- x14,
  admitted <- x15, skipped <- x16, budget <- x17
View == INSTANCE LiveSubscription WITH
  spool <- x1, projected <- x2, state <- x3, outbox <- x4, link <- x5, chan <- x6, pc <- x7, history <- x8,
  pending <- x9, seen <- x10, shown <- x11, view <- x12, budget <- x13
Telemetry == INSTANCE OTelForwarding WITH
  Absent <- None,
  env <- x1, record <- x2, step <- x3, plan <- x4, own <- x5, claim <- x6, restored <- x7, edits <- x8,
  file <- x9, writes <- x10, cache <- x11, handler <- x12, info <- x13, target <- x14, held <- x15,
  queue <- x16, sending <- x17, stopped <- x18, accepted <- x19, sent <- x20, dropped <- x21, due <- x22
Session == INSTANCE SessionProjection WITH
  MaxTime <- SessionTime,
  clock <- x1, log <- x2, p <- x3, frames <- x4, shown <- x5, delayed <- x6
Hooked == INSTANCE HookCapture WITH
  DefaultMode <- "balanced", Exceeds <- StoresMore, Budgets <- HookBudgets,
  file <- x1, wanted <- x2, up <- x3, cfg <- x4, policy <- x5, update <- x6, hook <- x7, request <- x8,
  stored <- x9, gaveUp <- x10, lost <- x11, early <- x12, excess <- x13, updates <- x14, faults <- x15,
  starts <- x16
Worktree == INSTANCE WorktreeStates WITH
  Budgets <- TreeBudgets,
  main <- x1, tree <- x2, diverged <- x3, mark <- x4, clock <- x5, up <- x6, listing <- x7, snap <- x8,
  step <- x9, now <- x10, records <- x11, file <- x12, latest <- x13, failed <- x14, told <- x15,
  moves <- x16, faults <- x17

ASSUME NoneAssumption ==
  /\ None \notin Worktree!Records /\ None \notin Worktree!Listed /\ None \notin Worktree!Snapshots
  /\ None \notin [head: SUBSET Commits, life: Nat, ok: BOOLEAN]
  /\ None \notin [Paths -> Worktree!Listed \cup {None}]
  /\ None \notin [reason: {"", "graph_unavailable", "graph_stale"}, records: [Paths -> Worktree!Records \cup {None}]]
  /\ None \notin Telemetry!Record /\ None \notin Collectors \cup Batches \cup {Addr, "otlp"}

ASSUME SessionAssumption ==
  /\ IdleAfter \in Nat /\ DayLength \in Nat \ {0} /\ SessionTime \in Nat /\ MaxEvents \in Nat /\ MaxLate \in Nat

ASSUME ViewAssumption ==
  /\ Limit \in Nat /\ SeenCapacity \in Nat /\ Capacity \in Nat
  /\ MaxVersions \in Nat /\ MaxDrops \in Nat /\ MaxFails \in Nat /\ IsFiniteSet(Events)

\* Users write telemetry keys only, and Firehose is none of their collectors.
ASSUME TelemetryAssumption ==
  /\ UserEnvs \subseteq Telemetry!Env /\ Addr \notin Collectors /\ Signal \in Signals
  /\ MaxEdits \in Nat /\ MaxWrites \in Nat /\ Depth \in Nat

\* The cells that a machine does not use stay as they are.
Init ==
  /\ machine \in Machines
  /\ \/ On("tail") /\ Tailer!Init /\ x18 = 0 /\ x19 = 0 /\ x20 = 0 /\ x21 = 0 /\ x22 = 0
     \/ On("view") /\ View!Init /\ x14 = 0 /\ x15 = 0 /\ x16 = 0 /\ x17 = 0 /\ x18 = 0 /\ x19 = 0 /\ x20 = 0 /\ x21 = 0 /\ x22 = 0
     \/ On("otel") /\ Telemetry!ForwardingInit
     \/ On("session") /\ Session!Init /\ x7 = 0 /\ x8 = 0 /\ x9 = 0 /\ x10 = 0 /\ x11 = 0 /\ x12 = 0 /\ x13 = 0 /\ x14 = 0 /\ x15 = 0 /\ x16 = 0 /\ x17 = 0 /\ x18 = 0 /\ x19 = 0 /\ x20 = 0 /\ x21 = 0 /\ x22 = 0
     \/ On("hook") /\ Hooked!Init /\ x17 = 0 /\ x18 = 0 /\ x19 = 0 /\ x20 = 0 /\ x21 = 0 /\ x22 = 0
     \/ On("worktree") /\ Worktree!Init /\ x18 = 0 /\ x19 = 0 /\ x20 = 0 /\ x21 = 0 /\ x22 = 0

Next ==
  /\ UNCHANGED machine
  /\ \/ On("tail") /\ Tailer!Next /\ UNCHANGED <<x18, x19, x20, x21, x22>>
     \/ On("view") /\ View!Next /\ UNCHANGED <<x14, x15, x16, x17, x18, x19, x20, x21, x22>>
     \/ On("otel") /\ Telemetry!ForwardingNext
     \/ On("session") /\ Session!Next /\ UNCHANGED <<x7, x8, x9, x10, x11, x12, x13, x14, x15, x16, x17, x18, x19, x20, x21, x22>>
     \/ On("hook") /\ Hooked!Next /\ UNCHANGED <<x17, x18, x19, x20, x21, x22>>
     \/ On("worktree") /\ Worktree!Next /\ UNCHANGED <<x18, x19, x20, x21, x22>>

\* The supervisor restarts the daemon, its ticker fires, and a poll runs to its end; the
\* sequencer and the viewer's goroutine run, the viewer keeps receiving; goroutines of
\* handlers are scheduled.  Nothing is assumed of agents, of users and their commands, or
\* of the goroutine that waits for a collector.
FairSpec ==
  /\ Init /\ [][Next]_cells
  /\ WF_(Tailer!vars)(On("tail") /\ Tailer!Initialize) /\ WF_(Tailer!vars)(On("tail") /\ Tailer!Poll)
  /\ \A i \in Events : SF_(View!vars)(On("view") /\ View!Project(i))
  /\ WF_(View!vars)(On("view") /\ View!Publish) /\ WF_(View!vars)(On("view") /\ View!Bracket) /\ WF_(View!vars)(On("view") /\ View!Pump)
  /\ \A b \in Batches : WF_(Telemetry!allVars)(On("otel") /\ (Telemetry!Arrive(b) \/ Telemetry!Handle(b)))

Spec == Init /\ [][Next]_cells

\* No line, frame or batch is lost on the way, whatever fails, crashes,
\* overflows or is replaced in between; only the oldest of a full queue gives way.
NothingLost ==
  CASE On("tail") -> Tailer!AppendBeforeCheckpoint
    [] On("view") -> View!QuietIsComplete
    [] On("otel") -> Telemetry!BatchKept /\ Telemetry!OnlyOldestDropped /\ Telemetry!CollectorKept
    [] OTHER -> TRUE

\* What is repeated, replayed or restored is the same thing again, once.
OnceAndSame ==
  CASE On("tail") -> Tailer!StableIdentity /\ Tailer!ContextFits
    [] On("view") -> View!ShownOnce
    [] On("otel") -> Telemetry!RestoresOriginal
    [] OTHER -> TRUE

\* What is said of a session is so, to a subscriber of its frames and after a restart too.
SessionAgrees ==
  On("session") => Session!RebuildAgrees /\ Session!IdleMeansQuiet /\ Session!StreamMatchesState

\* An observation is stored, twice only if its hook got no answer, and within the mode; what
\* is said of a worktree is so.
Truthful ==
  CASE On("hook") -> Hooked!NeverLost /\ Hooked!TwiceOnlyIfUnanswered /\ Hooked!WithinMode
    [] On("worktree") -> Worktree!NoFalseFuneral /\ Worktree!LandedIsReachable /\ Worktree!OwnDivergence
    [] OTHER -> TRUE

\* A request for input, and the outcome of a worktree, stand until something answers the
\* one and a new lifetime begins for the other.
Stands ==
  [][CASE On("session") -> Session!RequestHeld
       [] On("worktree") -> Worktree!SettledOnce
       [] OTHER -> TRUE]_cells

\* Every line that stays in its file is captured, every event is shown, every exporter is
\* answered, in the end.
Arrives ==
  []<>(CASE On("tail") -> Tailer!CaughtUp
         [] On("view") -> View!EventuallyShown
         [] On("otel") -> Telemetry!NeverDelays
         [] OTHER -> TRUE)

\* A repeated uninstall changes no setting.
RepeatIsNoop == [][On("otel") => Telemetry!RepeatIsNoop]_cells
=============================================================================
