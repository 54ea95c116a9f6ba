----------------------------- MODULE DurableTail -----------------------------
(***************************************************************************)
(* The crash-safe tailer of append-oriented JSONL sources                  *)
(* (src/internal/durablejsonl), as the Codex adapter drives it.  It polls  *)
(* the files of a tree, maps each complete line to an event, and keeps a   *)
(* checkpoint: for every file an offset, the parser's context, the         *)
(* fingerprints of its first and last line, and the id of a pending event. *)
(*                                                                         *)
(* Lines are numbered in the order they are written and all have the same  *)
(* length, so that offsets count lines.  A parser's context is the         *)
(* sequence of the lines it has consumed.  0 stands for "no line", "no id".*)
(***************************************************************************)
EXTENDS Naturals, Sequences, FiniteSets

CONSTANTS
  LastFile,       \* files 1..LastFile, in the order scan sorts them
  Silent,         \* lines the parser maps to no event
  Tolerance,      \* discoveryClockTolerance
  MaxLines, MaxTime, MaxIds,
  Budgets         \* bounds: crashes, failed saves and sinks, replaced and moved files,
                  \* damaged checkpoints

Files == 1..LastFile
Lines == 1..MaxLines
Ids == 1..MaxIds

VARIABLES
  content,    \* [Files -> Seq(Lines)]: the complete lines of each file
  modTime,    \* [Files -> time of the last write]
  stamp,      \* [Files -> Nat]: size and mtime, distinct after every write
  written,    \* how many lines were ever written
  clock,
  saved,      \* the checkpoint on disk
  phase,      \* "down", "up", "baselined" (checkpoint still to save), "loaded"
  cursors,    \* Watcher.state.Files
  files,      \* Watcher.files
  observed,   \* Watcher.observed
  watermark,  \* Watcher.discoveryWatermark
  pc,         \* where Poll is
  todo,       \* files this poll has left
  job,        \* the line in hand: its id and the parser's context before it
  admitted,   \* events the sink has accepted
  skipped,    \* history: lines a baseline passed over
  budget      \* what is left of each; calm: no save failed so far, no checkpoint was
              \* damaged, no file replaced

source == <<content, modTime, stamp, written>>
memory == <<cursors, files, observed, watermark>>
poll == <<pc, todo, job>>
vars == <<content, modTime, stamp, written, clock, saved, phase, cursors, files,
          observed, watermark, pc, todo, job, admitted, skipped, budget>>

NoCursor == [known |-> FALSE, offset |-> 0, parser |-> <<>>, identity |-> 0,
             last |-> 0, pendingId |-> 0, pendingNext |-> 0]
NoFile == [known |-> FALSE, offset |-> 0, parser |-> <<>>, identity |-> 0, last |-> 0]
NoJob == [line |-> 0, id |-> 0, before |-> <<>>]

Cursor == [known: BOOLEAN, offset: Nat, parser: Seq(Lines), identity: Nat,
           last: Nat, pendingId: Nat, pendingNext: Nat]
File == [known: BOOLEAN, offset: Nat, parser: Seq(Lines), identity: Nat, last: Nat]

TypeOK ==
  /\ content \in [Files -> Seq(Lines)]
  /\ written \in Nat /\ modTime \in [Files -> Nat] /\ stamp \in [Files -> Nat] /\ clock \in Nat
  /\ saved \in [kind: {"none", "corrupt", "ok"}, at: Nat, cursors: [Files -> Cursor]]
  /\ phase \in {"down", "up", "baselined", "loaded"}
  /\ cursors \in [Files -> Cursor] /\ files \in [Files -> File]
  /\ observed \in [Files -> Nat] /\ watermark \in Nat
  /\ pc \in {"idle", "polling", "reading", "sink", "checkpoint"}
  /\ todo \in SUBSET Files
  /\ job \in [line: Nat, id: Nat, before: Seq(Lines)]
  /\ admitted \in SUBSET [id: Ids, line: Lines]
  /\ skipped \in SUBSET Lines

First(S) == CHOOSE f \in S : \A g \in S : f <= g
Exists(f) == content[f] # <<>>
LineAt(f, n) == IF n \in DOMAIN content[f] THEN content[f][n] ELSE 0

----------------------------------------------------------------------------
(* The checkpoint: a new file, synced and renamed over the old one.        *)

Save ==
  /\ saved' = [kind |-> "ok", at |-> clock, cursors |-> cursors']
  /\ UNCHANGED budget

SaveFails ==
  /\ budget.saves > 0
  /\ budget' = [budget EXCEPT !.saves = @ - 1, !.calm = FALSE]
  /\ UNCHANGED saved

EndPoll == pc' = "idle" /\ todo' = {} /\ job' = NoJob
NextFile(f) == pc' = "polling" /\ todo' = todo \ {f} /\ job' = NoJob

----------------------------------------------------------------------------
(* The agents that write the tree.                                         *)

Write(f, old, time) ==
  /\ written < MaxLines
  /\ written' = written + 1
  /\ content' = [content EXCEPT ![f] = Append(old, written + 1)]
  /\ modTime' = [modTime EXCEPT ![f] = time]
  /\ stamp' = [stamp EXCEPT ![f] = @ + 1]
  /\ UNCHANGED <<clock, saved, phase, memory, poll, admitted, skipped>>

AppendLine(f) ==
  /\ Write(f, content[f], clock)
  /\ UNCHANGED budget

\* Truncated and written anew, or replaced by another file.
ReplaceFile(f) ==
  /\ Exists(f) /\ budget.replaces > 0
  /\ Write(f, <<>>, clock)
  /\ budget' = [budget EXCEPT !.replaces = @ - 1, !.calm = FALSE]

\* An old file is moved into the tree.
MoveIn(f) ==
  /\ ~Exists(f) /\ budget.moves > 0
  /\ Write(f, <<>>, 0)
  /\ budget' = [budget EXCEPT !.moves = @ - 1]

Tick ==
  /\ clock < MaxTime
  /\ clock' = clock + 1
  /\ UNCHANGED <<source, saved, phase, memory, poll, admitted, skipped, budget>>

----------------------------------------------------------------------------
(* Initialize.                                                             *)

StartProcess ==
  /\ phase = "down"
  /\ phase' = "up"
  /\ UNCHANGED <<source, clock, saved, memory, poll, admitted, skipped, budget>>

LoadCheckpoint ==
  /\ phase = "up" /\ saved.kind = "ok"
  /\ cursors' = saved.cursors
  /\ files' = [f \in Files |->
       LET c == saved.cursors[f] IN
       [known |-> c.known, offset |-> c.offset, parser |-> c.parser,
        identity |-> c.identity, last |-> c.last]]
  /\ observed' = [f \in Files |-> 0]
  /\ watermark' = saved.at
  /\ phase' = "loaded"
  /\ UNCHANGED <<source, clock, saved, poll, admitted, skipped, budget>>

\* baseline reads a file to its end for the parser's context alone.
BaselineFile(f) ==
  [known |-> TRUE, offset |-> Len(content[f]), parser |-> content[f],
   identity |-> LineAt(f, 1), last |-> LineAt(f, Len(content[f]))]

CursorOf(file) ==
  [known |-> file.known, offset |-> file.offset, parser |-> file.parser,
   identity |-> file.identity, last |-> file.last, pendingId |-> 0, pendingNext |-> 0]

LinesOf(f) == {content[f][n] : n \in DOMAIN content[f]}

\* No checkpoint, or one that does not decode and is renamed out of the way.
InitializeBaseline ==
  /\ phase = "up" /\ saved.kind # "ok"
  /\ files' = [f \in Files |-> IF Exists(f) THEN BaselineFile(f) ELSE NoFile]
  /\ cursors' = [f \in Files |-> IF Exists(f) THEN CursorOf(BaselineFile(f)) ELSE NoCursor]
  /\ observed' = [f \in Files |-> IF Exists(f) THEN stamp[f] ELSE 0]
  /\ watermark' = clock
  /\ skipped' = skipped \cup UNION {LinesOf(f) : f \in Files}
  /\ saved' = IF saved.kind = "corrupt" THEN [saved EXCEPT !.kind = "none"] ELSE saved
  /\ phase' = "baselined"
  /\ UNCHANGED <<source, clock, poll, admitted, budget>>

SaveBaseline ==
  /\ phase = "baselined"
  /\ UNCHANGED <<source, clock, memory, poll, admitted, skipped>>
  /\ \/ Save /\ phase' = "loaded"
     \/ SaveFails /\ phase' = "up"

----------------------------------------------------------------------------
(* Poll.                                                                   *)

PollStart ==
  /\ phase = "loaded" /\ pc = "idle"
  /\ pc' = "polling" /\ todo' = {f \in Files : Exists(f)}
  /\ UNCHANGED <<source, clock, saved, phase, memory, job, admitted, skipped, budget>>

PollEnd ==
  /\ pc = "polling" /\ todo = {}
  /\ EndPoll
  /\ UNCHANGED <<source, clock, saved, phase, memory, admitted, skipped, budget>>

\* A file that is new to the watcher but clearly older than its watermark.
Old(f) == ~files[f].known /\ modTime[f] + Tolerance < watermark

PollBaseline(f) ==
  /\ pc = "polling" /\ todo # {} /\ f = First(todo) /\ Old(f)
  /\ files' = [files EXCEPT ![f] = BaselineFile(f)]
  /\ cursors' = [cursors EXCEPT ![f] = CursorOf(BaselineFile(f))]
  /\ observed' = [observed EXCEPT ![f] = stamp[f]]
  /\ skipped' = skipped \cup LinesOf(f)
  /\ \/ Save /\ NextFile(f)
     \/ SaveFails /\ EndPoll
  /\ UNCHANGED <<source, clock, phase, watermark, admitted>>

\* Variant: only a file that became shorter counts as another file.
ChangedShrinkOnly(f, file) == Len(content[f]) < file.offset

\* resetIfChanged: the file behind the path is not the one the offset is of.
Changed(f, file) ==
  \/ Len(content[f]) < file.offset
  \/ /\ file.offset > 0
     /\ \/ LineAt(f, 1) # file.identity
        \/ LineAt(f, file.offset) # file.last

\* Discovery and resetIfChanged, before the first read of a file.
PollFile(f) ==
  /\ pc = "polling" /\ todo # {} /\ f = First(todo) /\ ~Old(f)
  /\ LET file == [files[f] EXCEPT !.known = TRUE] IN
     IF stamp[f] # observed[f] /\ Changed(f, file)
     THEN /\ files' = [files EXCEPT ![f] = [NoFile EXCEPT !.known = TRUE]]
          /\ cursors' = [cursors EXCEPT ![f] = [NoCursor EXCEPT !.known = TRUE]]
          /\ \/ Save /\ pc' = "reading" /\ UNCHANGED <<todo, job>>
             \/ SaveFails /\ EndPoll
     ELSE /\ files' = [files EXCEPT ![f] = file]
          /\ pc' = "reading"
          /\ UNCHANGED <<cursors, saved, budget, todo, job>>
  /\ observed' = [observed EXCEPT ![f] = stamp[f]]
  /\ UNCHANGED <<source, clock, phase, watermark, admitted, skipped>>

\* A file that cannot be read or fingerprinted leaves the others alone.
PollUnreadable(f) ==
  /\ pc = "polling" /\ todo # {} /\ f = First(todo)
  /\ budget.sinks > 0 /\ budget' = [budget EXCEPT !.sinks = @ - 1]
  /\ NextFile(f)
  /\ UNCHANGED <<source, clock, saved, phase, memory, admitted, skipped>>

ReadToEnd(f) ==
  /\ pc = "reading" /\ f = First(todo)
  /\ files[f].offset >= Len(content[f])
  /\ NextFile(f)
  /\ UNCHANGED <<source, clock, saved, phase, memory, admitted, skipped, budget>>

UsedIds ==
  {e.id : e \in admitted} \cup {cursors[f].pendingId : f \in Files}
    \cup {saved.cursors[f].pendingId : f \in Files}
FreshIds == Ids \ UsedIds

\* What a read changes whatever its outcome: the parser takes the line.
Parse(f) == files' = [files EXCEPT ![f].parser = Append(@, content[f][files[f].offset + 1])]
\* rollbackParser
Rollback(f) == files' = [files EXCEPT ![f].parser = job.before]

HasLine(f) == pc = "reading" /\ f = First(todo) /\ files[f].offset < Len(content[f])
Job(f, id) == [line |-> content[f][files[f].offset + 1], id |-> id,
               before |-> files[f].parser]
Pending(f, id) ==
  [CursorOf(files[f]) EXCEPT !.pendingId = id, !.pendingNext = files[f].offset + 1]

\* A line without an event goes straight to the checkpoint.
ReadSilent(f) ==
  /\ HasLine(f) /\ content[f][files[f].offset + 1] \in Silent
  /\ Parse(f)
  /\ job' = Job(f, 0)
  /\ pc' = "checkpoint"
  /\ UNCHANGED <<source, clock, saved, phase, cursors, observed, watermark, todo,
                 admitted, skipped, budget>>

\* The event of this very offset was pending: it keeps its id.
IsPending(f) == cursors[f].pendingId # 0 /\ cursors[f].pendingNext = files[f].offset + 1

ReadPending(f) ==
  /\ HasLine(f) /\ content[f][files[f].offset + 1] \notin Silent /\ IsPending(f)
  /\ Parse(f)
  /\ job' = Job(f, cursors[f].pendingId)
  /\ pc' = "sink"
  /\ UNCHANGED <<source, clock, saved, phase, cursors, observed, watermark, todo,
                 admitted, skipped, budget>>

\* Variant: the pending id is remembered in memory only.
ReadNewUnsaved(f) ==
  /\ HasLine(f) /\ content[f][files[f].offset + 1] \notin Silent /\ ~IsPending(f)
  /\ FreshIds # {}
  /\ LET id == First(FreshIds) IN
       cursors' = [cursors EXCEPT ![f] = Pending(f, id)] /\ job' = Job(f, id)
  /\ Parse(f) /\ pc' = "sink"
  /\ UNCHANGED <<source, clock, saved, phase, observed, watermark, todo, admitted,
                 skipped, budget>>

\* A new event: its id is checkpointed before the sink sees it.
ReadNew(f) ==
  /\ HasLine(f) /\ content[f][files[f].offset + 1] \notin Silent /\ ~IsPending(f)
  /\ FreshIds # {}
  /\ LET id == First(FreshIds) IN
       /\ cursors' = [cursors EXCEPT ![f] = Pending(f, id)]
       /\ \/ Save /\ Parse(f) /\ job' = Job(f, id) /\ pc' = "sink" /\ UNCHANGED todo
          \/ SaveFails /\ UNCHANGED files /\ EndPoll
  /\ UNCHANGED <<source, clock, phase, observed, watermark, admitted, skipped>>

Accept ==
  /\ pc = "sink"
  /\ admitted' = admitted \cup {[id |-> job.id, line |-> job.line]}
  /\ pc' = "checkpoint"
  /\ UNCHANGED <<source, clock, saved, phase, memory, todo, job, skipped, budget>>

\* Variant: a sink that fails is treated like one that accepted.
SinkFailsAdvancing ==
  /\ pc = "sink" /\ budget.sinks > 0
  /\ budget' = [budget EXCEPT !.sinks = @ - 1]
  /\ pc' = "checkpoint"
  /\ UNCHANGED <<source, clock, saved, phase, memory, todo, job, admitted, skipped>>

SinkFails ==
  /\ pc = "sink" /\ budget.sinks > 0
  /\ budget' = [budget EXCEPT !.sinks = @ - 1]
  /\ Rollback(First(todo))
  /\ EndPoll
  /\ UNCHANGED <<source, clock, saved, phase, cursors, observed, watermark, admitted, skipped>>

\* The cursor moves past the line only now.  When it cannot be saved it falls
\* back to the pending one, or to the same without an id for a silent line.
Checkpoint ==
  /\ pc = "checkpoint"
  /\ LET f == First(todo)
         next == files[f].offset + 1
         identity == IF next = 1 THEN job.line ELSE files[f].identity
         moved == [known |-> TRUE, offset |-> next, parser |-> files[f].parser,
                   identity |-> identity, last |-> job.line]
     IN \/ /\ cursors' = [cursors EXCEPT ![f] = CursorOf(moved)]
           /\ files' = [files EXCEPT ![f] = moved]
           /\ Save
           /\ pc' = "reading" /\ job' = NoJob /\ UNCHANGED todo
        \/ /\ cursors' = [cursors EXCEPT ![f] =
                CursorOf([files[f] EXCEPT !.parser = job.before])]
           /\ job.id = 0 /\ SaveFails /\ Rollback(f) /\ EndPoll
        \/ /\ job.id # 0 /\ SaveFails /\ Rollback(f) /\ EndPoll
           /\ UNCHANGED cursors
  /\ UNCHANGED <<source, clock, phase, observed, watermark, admitted, skipped>>

----------------------------------------------------------------------------
(* Crash of the daemon, damage to the checkpoint while it is down.         *)

Crash ==
  /\ phase # "down" /\ budget.crashes > 0
  /\ budget' = [budget EXCEPT !.crashes = @ - 1]
  /\ phase' = "down"
  /\ cursors' = [f \in Files |-> NoCursor] /\ files' = [f \in Files |-> NoFile]
  /\ observed' = [f \in Files |-> 0] /\ watermark' = 0
  /\ EndPoll
  /\ UNCHANGED <<source, clock, saved, admitted, skipped>>

Corrupt ==
  /\ phase = "down" /\ saved.kind = "ok" /\ budget.corruptions > 0
  /\ budget' = [budget EXCEPT !.corruptions = @ - 1, !.calm = FALSE]
  /\ saved' = [kind |-> "corrupt", at |-> 0, cursors |-> [f \in Files |-> NoCursor]]
  /\ UNCHANGED <<source, clock, phase, memory, poll, admitted, skipped>>

Init ==
  /\ content = [f \in Files |-> <<>>] /\ modTime = [f \in Files |-> 0]
  /\ stamp = [f \in Files |-> 0] /\ written = 0 /\ clock = 0
  /\ saved = [kind |-> "none", at |-> 0, cursors |-> [f \in Files |-> NoCursor]]
  /\ phase = "down"
  /\ cursors = [f \in Files |-> NoCursor] /\ files = [f \in Files |-> NoFile]
  /\ observed = [f \in Files |-> 0] /\ watermark = 0
  /\ pc = "idle" /\ todo = {} /\ job = NoJob
  /\ admitted = {} /\ skipped = {}
  /\ budget \in Budgets

Initialize == StartProcess \/ LoadCheckpoint \/ InitializeBaseline \/ SaveBaseline

Poll ==
  \/ PollStart \/ PollEnd
  \/ \E f \in Files :
       \/ PollBaseline(f) \/ PollFile(f) \/ ReadToEnd(f)
       \/ ReadSilent(f) \/ ReadPending(f) \/ ReadNew(f)
  \/ Accept \/ Checkpoint

Next ==
  \/ Initialize \/ Poll
  \/ SinkFails \/ \E f \in Files : PollUnreadable(f)
  \/ \E f \in Files : AppendLine(f) \/ ReplaceFile(f) \/ MoveIn(f)
  \/ Tick \/ Crash \/ Corrupt

Spec == Init /\ [][Next]_vars

----------------------------------------------------------------------------
(* What the tailer promises.                                               *)

\* The cursor c is of the file that is now behind the path f.
Fits(c, f) ==
  /\ c.known /\ c.offset > 0 /\ c.offset <= Len(content[f])
  /\ LineAt(f, 1) = c.identity /\ LineAt(f, c.offset) = c.last

Captured(line) ==
  line \in Silent \cup skipped \/ \E e \in admitted : e.line = line

\* Append before checkpoint: no cursor, in memory or on disk, is past a line
\* whose event the sink has not accepted, wherever a poll failed or died.
AppendBeforeCheckpoint ==
  \A f \in Files : \A c \in {cursors[f], saved.cursors[f]} :
    Fits(c, f) => \A n \in 1..c.offset : Captured(content[f][n])

\* A parser resumes with the context of exactly the lines before its cursor:
\* nothing is fed to it twice, nothing is left out, baselined lines included.
ContextFits ==
  /\ TypeOK
  /\ \A f \in Files : \A c \in {cursors[f], saved.cursors[f]} :
       Fits(c, f) => c.parser = SubSeq(content[f], 1, c.offset)

\* A replay after a crash or a failed sink is the same event: one id a line, as
\* long as every checkpoint could be saved, none was damaged and no file replaced.
StableIdentity ==
  budget.calm => \A d, e \in admitted : d.line = e.line => d = e

\* Every line that stays in the tree is captured in the end, whatever fails a
\* bounded number of times on the way.
CaughtUp ==
  \A f \in Files : \A line \in LinesOf(f) : Captured(line)
=============================================================================
