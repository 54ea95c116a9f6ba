------------------------------ MODULE ProcWatch ------------------------------
(***************************************************************************)
(* The process watcher and the Source around it                            *)
(* (src/internal/adapters/procwatch/procwatch.go, processSource in         *)
(* src/internal/capture/sources.go): successive listings of the process    *)
(* table are compared, the differences sent through a bounded channel to   *)
(* the loop that admits them; a failing Admission ends the watch, and the  *)
(* supervisor starts another one.                                          *)
(***************************************************************************)
EXTENDS Naturals, Sequences

CONSTANTS
  Pids, Agents, Nothing,
  Capacity,       \* of the channel: 64 in the code
  MaxLives,       \* agent processes ever started
  MaxFaults       \* failing listings and Admissions

WatchAssumption ==
  /\ Nothing \notin Agents
  /\ Capacity \in Nat \ {0} /\ MaxLives \in Nat /\ MaxFaults \in Nat

VARIABLES
  table,      \* the process table: [Pids -> Agents \cup {Nothing}]
  watch,      \* "off", "starting", "idle" or "sending"
  running,    \* Watcher.running
  current,    \* what the poll in progress listed
  todo,       \* the differences it still has to send, starts before stops
  channel,    \* sent and not yet admitted
  last,       \* [Pids -> the last event this watch admitted of the pid]
  base,       \* the pids of its baseline
  fresh,      \* nothing has changed in the table since the watch last listed it
  lives, faults

watcher == <<watch, running, current, todo>>
vars == <<table, watcher, channel, last, base, fresh, lives, faults>>

Names == {"agent-start", "agent-stop"}
Report == [name: Names, pid: Pids]
NoAgents == [i \in Pids |-> Nothing]

TypeOK ==
  /\ table \in [Pids -> Agents \cup {Nothing}]
  /\ watch \in {"off", "starting", "idle", "sending"}
  /\ running \in [Pids -> Agents \cup {Nothing}]
  /\ current \in [Pids -> Agents \cup {Nothing}]
  /\ todo \subseteq Report
  /\ channel \in Seq(Report) /\ Len(channel) <= Capacity
  /\ last \in [Pids -> Names \cup {"none"}]
  /\ base \subseteq Pids /\ fresh \in BOOLEAN
  /\ lives \in 0..MaxLives /\ faults \in 0..MaxFaults

----------------------------------------------------------------------------
(* The machine: agents start and exit, their pids are used again.          *)

AgentStarts(i, a) ==
  /\ table[i] = Nothing /\ lives < MaxLives
  /\ table' = [table EXCEPT ![i] = a]
  /\ lives' = lives + 1 /\ fresh' = FALSE
  /\ UNCHANGED <<watcher, channel, last, base, faults>>
AgentExits(i) ==
  /\ table[i] # Nothing
  /\ table' = [table EXCEPT ![i] = Nothing]
  /\ fresh' = FALSE
  /\ UNCHANGED <<watcher, channel, last, base, lives, faults>>

----------------------------------------------------------------------------
(* processSource.Run: a new Watcher and a new channel for every watch.     *)

StartWatch ==
  /\ watch = "off"
  /\ watch' = "starting"
  /\ UNCHANGED <<table, running, current, todo, channel, last, base, fresh, lives, faults>>

\* The first poll: what runs already is remembered and not reported.
Baseline ==
  /\ watch = "starting"
  /\ watch' = "idle" /\ running' = table /\ fresh' = TRUE
  /\ base' = {i \in Pids : table[i] # Nothing}
  /\ UNCHANGED <<table, current, todo, channel, last, lives, faults>>

\* The first poll fails: poll returns, and the next one is no baseline.
BaselineFails ==
  /\ watch = "starting" /\ faults < MaxFaults
  /\ watch' = "idle" /\ faults' = faults + 1
  /\ UNCHANGED <<table, running, current, todo, channel, last, base, fresh, lives>>

\* What a poll reports: pids are compared, not the agents that run on them.
Diff(before, after) ==
  {[name |-> "agent-start", pid |-> i] : i \in {j \in Pids : before[j] = Nothing /\ after[j] # Nothing}}
  \cup {[name |-> "agent-stop", pid |-> i] : i \in {j \in Pids : before[j] # Nothing /\ after[j] = Nothing}}

\* A listing that fails is skipped: the next tick lists again.
List ==
  /\ watch = "idle"
  /\ watch' = "sending" /\ current' = table /\ fresh' = TRUE
  /\ todo' = Diff(running, table)
  /\ UNCHANGED <<table, running, channel, last, base, lives, faults>>

\* Variant: a full channel loses the report.
SendDropping ==
  /\ watch = "sending"
  /\ \E r \in todo :
       /\ todo' = todo \ {r}
       /\ channel' = IF Len(channel) < Capacity THEN Append(channel, r) ELSE channel
  /\ UNCHANGED <<table, watch, running, current, last, base, fresh, lives, faults>>

\* emit blocks while the channel is full.
Send ==
  /\ watch = "sending" /\ Len(channel) < Capacity
  /\ \E r \in todo :
       /\ r.name = "agent-stop" => \A q \in todo : q.name = "agent-stop"
       /\ todo' = todo \ {r}
       /\ channel' = Append(channel, r)
  /\ UNCHANGED <<table, watch, running, current, last, base, fresh, lives, faults>>

PollDone ==
  /\ watch = "sending" /\ todo = {}
  /\ watch' = "idle" /\ running' = current /\ current' = NoAgents
  /\ UNCHANGED <<table, todo, channel, last, base, fresh, lives, faults>>

Admit ==
  /\ watch # "off" /\ channel # <<>>
  /\ last' = [last EXCEPT ![Head(channel).pid] = Head(channel).name]
  /\ channel' = Tail(channel)
  /\ UNCHANGED <<table, watcher, base, fresh, lives, faults>>

\* What is left of a watch that ended: nothing.
End ==
  /\ watch' = "off" /\ running' = NoAgents /\ current' = NoAgents /\ todo' = {}
  /\ channel' = <<>> /\ last' = [i \in Pids |-> "none"] /\ base' = {} /\ fresh' = FALSE

\* An Admission fails: Run returns, its watcher is cancelled wherever it is,
\* what it had sent is lost; the supervisor waits before the next watch.
AdmitFails ==
  /\ watch # "off" /\ channel # <<>> /\ faults < MaxFaults
  /\ faults' = faults + 1
  /\ End
  /\ UNCHANGED <<table, lives>>

\* The context of Run is cancelled: so is the watcher's, wherever it is.
StopWatch ==
  /\ watch # "off"
  /\ End
  /\ UNCHANGED <<table, lives, faults>>

Init ==
  /\ table \in [Pids -> Agents \cup {Nothing}]
  /\ watch = "off" /\ running = NoAgents /\ current = NoAgents /\ todo = {}
  /\ channel = <<>> /\ last = [i \in Pids |-> "none"] /\ base = {}
  /\ fresh = FALSE /\ lives = 0 /\ faults = 0

Machine == \E i \in Pids : AgentExits(i) \/ \E a \in Agents : AgentStarts(i, a)

----------------------------------------------------------------------------
(* Properties.                                                             *)

\* When the watcher has caught up with a table that rests, the last it said of
\* a pid is true, and a pid it never spoke of is as it was in the baseline.
CaughtUpIsTrue ==
  (watch = "idle" /\ fresh /\ channel = <<>>) =>
    \A i \in Pids :
      (table[i] # Nothing) <=>
        \/ last[i] = "agent-start"
        \/ (last[i] = "none" /\ i \in base)

\* A change of the table is reported in the end: once the table rests, the
\* watcher comes to agree with it and stays so, despite failures.
EventuallyTrue ==
  <>[](watch # "off") =>
    \A i \in Pids :
      /\ <>[](table[i] = Nothing) => <>[](last[i] # "agent-start")
      /\ <>[](table[i] # Nothing) => <>[](last[i] # "agent-stop")
=============================================================================
