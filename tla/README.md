# TLA+ models of Firehose

Firehose records what coding agents do on one machine. Hooks, log tailers, a
process watcher and a telemetry receiver observe agents; the Capture Engine
appends each observation to a durable spool of day files and projects it into
sessions, an attention inbox and derived views; viewers read history and follow
a Live Subscription. A daemon hosts the engine, and a terminal viewer hosts one
of its own when no daemon is up.

This directory holds TLA+ modules of the parts of that system in which order,
concurrency, failure and restart decide whether it is right, the TLC
configurations that check them on small instances, and proofs that TLAPS checks
for every instance. Paths below are relative to `src/`.

Contents: [1 inventory](#1-the-system), [2 modules and code](#2-modules-and-code),
[3 runs](#3-what-the-runs-check), [4 bounds](#4-bounds-and-why-they-are-enough),
[5 fairness and deadlock](#5-fairness-and-deadlock), [6 proofs](#6-what-is-proved),
[7 findings](#7-where-code-and-documentation-part), [8 not modelled](#8-what-is-not-modelled-and-why),
[9 plan](#9-plan).

To use it: `tlc -config MCDaemon_state.cfg MCDaemon` checks a
run, `tlapm AttentionInboxProofs.tla` checks the proofs of a module.
`PROJECT.json` maps each definition to the lines it stands for and lists the
runs, the hazards with the properties that cover them, and, for every property,
a mutation of the model after which TLC finds the property violated.

## 1. The system

### 1.1 How the parts interact

```
 agent hooks ---- POST /emit ----> daemon ---.
     |  (fallback: one-shot append)          |
     |                                       v
 codex rollouts -> durablejsonl tailer -> Capture Engine --- append ---> spool (day files)
 process table --> procwatch ------------> (Admission)                     ^     |
 Claude OTLP ----> daemon receiver ------->    |                           |     | tail
                        | relay                |    other processes append-'     v
                        v                      v                         Reconciliation
                  user's collector       Projection: sessions, inbox, titles,  <-'
                                          files, error signatures, commit marks
                                               |
                                               v
                              Live Subscriptions --> viewers (TUI, desktop)
 git / jj repositories --> workspace graph service, worktree observer --> GET endpoints
```

- Calls: sources and handlers call `Engine.Admit`; the daemon's handlers query
  the engine, the graph service and the worktree observer.
- Shared files: the spool (many writers, no lock between processes), the
  checkpoint of the tailer and the lock of the Sources (one holder),
  `config.json` (CLI and daemon), the forwarding record and Claude's settings (CLI writes,
  daemon reads), the records of worktrees (daemon).
- Inside the desktop viewer: one shared scope (project, worktree, session, window) that
  every panel reads, writes and is told of before the write returns; requests to the
  daemon, each with a generation that says whether its answer still counts; timers;
  local storage shared by the windows; commands of the Rust shell.
- Messages: frames from the engine to subscribers over bounded channels; starts
  and exits from the process watcher over a bounded channel; batches to the
  relay over a bounded queue; HTTP between hooks, viewers and daemon.

### 1.2 The parts that are modelled

**Capture Engine** (`internal/capture`, `internal/capture/internal/spool`).
State: the day files with whatever an interrupted write left at their ends; the
ids already projected; the tail offset of each file; the mutex `sequence`; the
frames still to be published; per subscription a channel and its end. Operations:
`New` (Prime, then Build), `Admit`, `Run` (reconciliation, idle sweep),
`Subscribe` and cancel, one-shot appends of other processes. Hard: the append is
the commit point and everything after it may fail; the tailer reads what Admission
just wrote; a write may be cut short; a subscriber may not read. Correct if nothing
is visible before it is durable, nothing durable stays invisible, an id is streamed
once, a subscription is gapless or ended, and no subscriber holds up Admission.

**Durable JSONL tailer** (`internal/durablejsonl`, driven by `internal/adapters/codex/durable.go`).
State: per file a cursor (offset, fingerprints of first and last line, parser
context, pending event id), in memory and in the checkpoint; the watermark of
discovery. Operations: Initialize (baseline or load), Poll (scan, match, read,
admit, save), crash. Hard: two saves around each delivery, files that are replaced
or moved in, a checkpoint that is damaged. Correct if nothing is checkpointed
before it is admitted, a replay is the same event, the parser resumes in the right
context, and every line that stays is captured.

**Live Subscription** (`internal/livesubscription`, `internal/host/feed.go`,
`internal/daemon/stream.go`, `internal/client`). State: the bounded set of ids already
shown, the phase of a bracket, the channel. Operations: open, the four reads of a
bracket, pump, reconcile, reopen. Hard: the reads of a bracket happen at different
moments. Correct if the viewer comes to show the whole history once, and the
current state whenever the engine is quiet.

**Session projection and attention state** (`internal/capture/internal/projection`).
State: per session the lifecycle and attention state with its since, reason and
error overlay, and its last activity. Operations: apply an event, sweep, rebuild.
Hard: time is in the events, in the clock of the sweep, and in the order of the day files. Correct
if a rebuild agrees with the live state, idle means quiet, every change has a frame,
and a request for input is held until it is answered.

**Attention inbox and titles** (same package). State: per (source, session) the
latest episode, its uncertainty, VCS families, title. Operation: apply an event, in
any order. Correct if replicas converge and an old event neither reopens nor
resolves a newer episode.

**Source ownership and supervision, process watcher** (`internal/capture/source_lock.go`,
`reconcile.go`, `sources.go`, `internal/adapters/procwatch`). State: the OS lock, the
reference count of each host's lease, the place of each Source's supervisor; the
table of known processes and the channel of reports. Operations: claim, prepare,
run, fail, back off, release, crash; list, compare, report. Correct if one host runs
the Sources, a line has one reader, a waiting host takes over, and what was reported
of a process becomes true.

**Emit route and configuration** (`internal/cli/cli.go`, `privacy.go`, `internal/daemon/daemon.go`).
State: `config.json`, the daemon's configuration in memory, hooks on their way.
Operations: hook forward with its fallback, POST /emit, POST /config, `firehose
privacy`, start and crash of the daemon. Correct if an observation is not lost, is
doubled only if the answer was, and is stored at most at the configured mode.

**Worktree observer** (`internal/daemon/worktree_states.go`, `worktrees.go`). State: per linked
worktree a record (seen, ever ahead, head, outcome), persisted; the last
observation. Operations: scan, observe, compare, settle, save, restart, derive the
state of a read. Correct if no living worktree is settled as gone, landed means
reachable, a new worktree does not inherit the history of an old one at its place,
and an outcome is told once.

**Workspace graph service** (`internal/workspacegraph/service.go`,
`internal/daemon/workspace_graph.go`, `graph_changes.go`). State: the cached snapshot,
the epoch of the privacy mode, the last started scan, the response gate. Operations:
request, refresh of the loop and of the poller, scan, mode transition. Correct if no
response is of another mode than the one in force, the cache never goes back, and it
agrees with the repository in the end.

**OTLP relay, telemetry install** (`internal/daemon/otel_forward.go`,
`internal/cli/install.go`, `otelforward.go`). State: the telemetry block of Claude's
settings, the forwarding record, the daemon's cache of it, one queue a signal.
Operations: install (plain, forwarding, replacing), uninstall, each write of them,
receive, push, drop, send, stop. Correct if a collector keeps getting its signal
until it is given up, an uninstall restores what was there, a batch goes where the
user meant it, and the exporter never waits.

**Desktop viewer** (`apps/tauri-desktop/src`; paths below are relative to it). A page
of panels over one shared scope. JavaScript runs one callback at a time, so the
interleavings are those of awaits: what a callback read before an await may be stale
after it, and answers come in any order, late, or never. Each part guards itself with
generations, aborts and deadlines of its own; whether these suffice is the question
the models ask.

| Part | State | Operations | Hard | Correct if |
|---|---|---|---|---|
| Live feed (`connect.ts`, `state.ts`) | a ring of events, the frozen copy of a pause, the stream, two snapshots | connect every 3 s, deliver, receive, break, pause, resume | three requests without an order | the ring has each event once and no unexplained hole; LIVE means attached; it attaches again |
| Scope and navigation (`scope.ts`, `main.ts`, `escape.ts`, `transport.ts`, `ui/detail.ts`) | the scope, the panel, the pane, a drag | select, narrow, ascend, go, inspect, drag a window | a drag spans frames in which anything else may write the scope | a drag owns the scope; only the last click opens the pane; the landing happens once |
| Privacy remap (`privacy-remap.ts`, `main.ts`, `ui/settings.ts`, `ui/actions/roots.ts`) | saves, the handler and its attempts, the known roots | save a mode, remap the scope, refresh the roots | ids change with the mode; saves overlap | no dangling project, never another repository |
| Actions and prune (`ui/actions`, `src-tauri/src/actions.rs`) | the live generation, the dialog, the record of a preview | run, preview, confirm, cancel, apply | what was previewed changes before it is applied | only what was confirmed is removed |
| Needs you (`ui/attention.ts`, `ui/attention-preferences.ts`) | the snapshot, deliveries, marks of notified and snoozed episodes | load, deliver, enable, snooze, restart | two awaits between deciding and sending | none twice, none of the backlog, each wanted one attempted |
| Fleet (`ui/fleet`) | two halves of a picture, a load slot, the hosted encoding | load by timer and event, deadline, show, hide | hung loads | the slot is the newest load's, the picture goes forward and catches up |
| Sessions (`ui/sessions.ts`) | list, history, selection | poll, click, follow the scope | answers of another scope | what is shown is of the scope |
| Graph: events and topology (`ui/graph/index.ts`) | a bounded set with a cursor; a snapshot with its selection | page, filter, deliver; refresh, register | eviction under a cursor; two awaits of a refresh | older pages are walked without a hole; the snapshot is of the scope |
| Project, activity (`ui/project`, `ui/activity`) | the encoding of each repository, rows, brush; the map | mount, choose, load, brush, pan | callbacks that call one another | one encoding is mounted, the chosen one; a brush commits what was seen |
| Session lenses (`ui/session`, `ui/score`, `ui/loops`, `ui/loom`, `ui/replay`, `ui/ecosystem`) | tab and lens, playhead, groups and intervals, route and receipt | enter, leave, load, select, play | shared pane and scope, requests of each | a lens shows and writes its own |
| Notebooks (`ui/replay`, `ui/handoffs`, `ui/court`) | three books in local storage, forms of two windows | look up, edit, save, discard | two windows, typing during a lookup | a save changes one entry, unsaved text is kept |
| Evidence (`ui/files.ts`, `ui/strata`) | list, receipt, page | filter, inspect, page | rows that change | the receipt is of a listed row |
| Layout and canvas (`ui/graph/layout.ts`, `canvas.ts`) | lanes, labels, camera, focus | lay out, refine, label, rebuild, repaint, pan | greedy placement; a repaint of differences | nothing overlaps; stops, camera and highlight are those of the picture |

### 1.3 The parts that are not modelled

| Part | State | Why not (yet) |
|---|---|---|
| Push adapters, event schema | none | pure tables from a payload to an event; for tests |
| Codex and OTLP parsers | context of a parser | `DurableTail` has the context, the field mapping is for tests |
| Privacy policy, workspace identity | none | pure; which mode is in force when they run is in `HookCapture`, `WorkspaceGraph` |
| Derived views (files, error signatures, commit marks) | capped tables | planned: order-independence of the folds under their caps |
| History, graph and activity queries | none | reads under the lock of Admission; paging by cursor is planned |
| Git and Jujutsu scans, comparison | jj shadow directory | processes and parsing; their reads are steps of the two modules above |
| Daemon read endpoints | none | decoding and limits |
| Hooks, doctor, export, status | hook files | idempotent edits of files; planned |
| Shell verbs | none | a classification of command lines |
| Terminal viewer | ring of events | rendering; the ring and its grouping are planned |
| Desktop: views of events, workspace, airspace, dwell, lanes | none | pure; `createSharedFiles` in `ui/airspace/shared-files.ts` has no caller |
| Desktop: wording, colours, keys, onboarding, doctor | none | formatting and static views |
| Desktop shell (`lib.rs`) | none | registers commands; those of the prune are in `StalePrune` |

## 2. Modules and code

| Module | Models | Composed with |
|---|---|---|
| `CapturedHistory` | what the engine promises its queries: committed, then visible | implemented by `CaptureEngine` |
| `CaptureEngine` | `Admit`, `New`, `Run`, `Subscribe`, the spool | |
| `DurableTail` | `durablejsonl` as the Codex adapter drives it | |
| `LiveSubscription` | bracket and pump of a viewer | a reduced engine inside |
| `SessionProjection` | one session, its sweep and its rebuild | |
| `AttentionInbox` | one (source, session) inbox, several replicas | |
| `SourceOwnership` | lease, supervisors, the cursor behind the lease (`Spec`); then all hosts, with the watch that the owner runs (`SourcesSpec`) | INSTANCE `ProcWatch` |
| `ProcWatch` | the process watcher | `SourceOwnership` |
| `HookCapture` | hooks, daemon and CLI over one `config.json` | |
| `WorktreeStates` | the worktree observer | |
| `WorkspaceGraph` | the cached graph of one repository | |
| `OTelInstall` | install and uninstall over settings and record | `OTelForwarding` |
| `OTelForwarding` | handlers, queue and worker of one signal, and the record between CLI and daemon | EXTENDS `OTelInstall` |
| `ScopeStore` | the calls of the shared scope, as operators | extended by `PrivacyRemap`, `ShellNavigation`, `SessionsPanel`, `LoopsLens` |
| `LiveFeed`, `PrivacyRemap`, `ShellNavigation`, `StalePrune`, `NeedsYou` | the viewer behind its panels | `MCDesktopShell` |
| `FleetPanel`, `SessionsPanel`, `EventsPager`, `GraphTopology`, `ProjectPanel`, `ActivityMap` | the panels | `MCDesktopPanels` |
| `ScorePanel`, `LocalNotebooks`, `SessionTabs`, `RouteLenses`, `LoopsLens`, `EvidencePanels`, `GraphLanes`, `GraphLabels`, `GraphCanvas` | lenses, notebooks, evidence, the picture of the graph | `MCDesktopLenses` |

`CaptureEngine`, `AttentionInbox`, `SourceOwnership` and `WorkspaceGraph` are checked as they
stand. `MCDaemon` and the three
`MCDesktop*` modules are sums: several modules that share no state, of which a
behaviour chooses one at its start (`machine`) and then is a behaviour of that
module; all keep their variables in the same cells `x1`, `x2`, ... A property of
a sum is a CASE over the machines whose arms are properties of the modules (the
table in section 3), and a fairness condition is one of its machine. Checking a sum
is checking each of its modules; it is no claim about their interaction. Where parts do interact, one module
has both sides: `SourceOwnership`, `OTelForwarding`, or, in the viewer, an
action (`ScopeMoves`, `PanelWrites`, `HostMoves`) by which the rest of the
page writes the scope at any moment.
The `*Proofs` modules hold the theorems of section 6.

### 2.1 CaptureEngine

| Variable | Code |
|---|---|
| `spool`, `tail` | the terminated lines of each day file, and the bytes an interrupted write left at its end (`spool.go`) |
| `phase` | `New` (prime, build), ready, `Run` running or being cancelled, process down |
| `todo`, `offset`, `skip` | the files a scan or a poll still has to visit, `Tailer.offsets`, the part of the next line that lies before a pinned offset |
| `seen` | the ids the Projection has applied |
| `lock` | `Engine.sequence`: an Admit call, the tailer or the idle sweep |
| `pc`, `arg` | each goroutine inside `Admit`, with its event |
| `tpc` | `RunAck`: idle, polling, with a line read, publishing |
| `outbox`, `published` | frames to publish under the lock, and all frames of this process |
| `sub`, `chan`, `pos` | a subscription, its channel, how far its consumer is |

`Admit` is five steps: lock, append, project, publish frame by frame, unlock;
each error return is a step of its own. The append writes its line after
whatever is at the end of the file, so a record behind a torn write becomes one
unparseable line with it, as in the code. `TearLine` leaves a fragment, or a
record without its newline. `Apply` drops an id that was seen and otherwise
publishes up to two attention frames before the event. The tailer projects under
the lock and moves its offset after delivery; a delivery that fails leaves the
offset and the poll goes on with the next file. A crash may fall between any two
steps, and inside the write.

### 2.2 DurableTail

`cursors` is the checkpoint in memory and `saved` the one on disk; `files` has the
parser, offset and fingerprints of each open file, `content` the lines of each file
in the order in which they were written. A line is admitted in three steps: save the
pending id, admit, save the cursor. Each may fail, each may be the last. A file may be
appended to, replaced, or moved into the tree at any step; the checkpoint may be
damaged. Lines have one length, so that an offset counts lines; the context of a
parser is the sequence of lines it consumed, the finest a parser can have.

### 2.3 LiveSubscription

The engine is reduced to what a viewer can tell: the spool, what is projected,
one Session with a version number for its state, one bounded channel. The bracket
of `Open` and of `reconcile` (recent, subscribe, recent, sessions) is four steps;
between any two, events are appended, projected and published. `Pump` shows a
frame that was not shown, or notices that the channel has ended and reconciles.
`BracketFails` also stands for the fresh `Open` that follows an error.

### 2.4 SessionProjection, AttentionInbox

`SessionProjection` has one session, a clock in ticks, days of `DayLength` ticks,
and events that are appended up to `MaxLate` ticks after their own time. `Rebuilt`
replays the day files in order with the crossings of the idle threshold in between,
exactly as `Apply` does in the code; the live entry meets the same events in the
order of their arrival, with sweeps anywhere. `delayed` records that some event
came late, which makes the two differ (section 7).

`AttentionInbox` represents a field by the id of the observation it came from
and keeps the set of ids each replica applied. `Replaces` is the order the code
prefers evidence in: source time, then observation time, then id; for a title an
authoritative one before a prompt, the latest of the former, the first of the latter.

### 2.5 SourceOwnership, ProcWatch

`refs` and `owner` are `sourceLease.refs` and the flock; `at` is where each
supervisor of a host is (claiming, preparing, running, waiting after a failure).
The Codex cursor is in the checkpoint they share and in the host's memory.
A checkpoint that cannot be saved takes the cursor in memory back (`SaveFails`, `watcher.go:418-421`), so that the
next Poll admits the line again with no crash between; `unsaved` is a ghost that
counts, line by line, the failed saves and the crashes between an Admission and its checkpoint, and
`CapturedOnce` allows one more Admission for each. A Sink or a save of the pending id that
fails leaves cursor, checkpoint and spool as they were; that step, and the id of the repetition, are in `DurableTail`.
`ProcWatch` has the table of the machine (`table`), the snapshot being compared
(`current`), the known processes (`running`), the reports not yet sent (`todo`)
and the channel. The second half of `SourceOwnership` ties them: the process Source of a host starts the
watch as it enters its Run, and its failure, end or crash ends it. One record of a
watch is enough because `OneHost` excludes two. Agents that run already when a host takes
over are its baseline; an exit in the gap between two watches is reported by nobody.

### 2.6 HookCapture

A hook reads the configuration (a torn file gives the default mode and no daemon),
posts its observation, and falls back to an append of its own with the mode it
read; the daemon redacts with the mode in memory. `POST /config` truncates, writes
and applies in three steps; `firehose privacy` goes through the daemon, or edits
the file itself when there is none. 
`excess` and `early` are ghosts: the observations stored beyond the mode that is
configured, and those that were on their way as an update ended or met a torn file.

### 2.7 WorktreeStates, WorkspaceGraph

`WorktreeStates` represents a revision by the set of commits it reaches, so that
"ahead" and "landed" are set comparisons. A scan reads the list and the heads in
two steps, an observation compares each worktree, settles records of those that
are gone, saves, publishes. `nth`, `from` and `to` are ghosts: which incarnation of
a path a record began with, and the times between which it was seen. The clock
gives commit marks even times and observations odd ones: the model does not look
at marks of the very same instant as an observation. The Lstat and the comparisons of one observation are one step.

`WorkspaceGraph` has clients, the reconcile loop (every 30 s) and the change poller.
A scan reads one version. The sequence numbers of scans are modelled by `last`, the
worker that started last: it is what they are compared for. `UpdateMode` waits
for the responses under the gate, then changes the epoch and clears the cache.

### 2.8 OTelInstall, OTelForwarding

A block of settings gives each key of the block a value or `Absent`; endpoints
stand for address and protocol, `Remote` for one that Firehose may not relay to.
A command reads both files into `plan`, then writes record and settings in the
order of the code, and may break off before each write. Users edit the block
between commands. `OTelForwarding` has the handlers of the requests (stat, load, push, drop
oldest), the queue and `run`, and makes the record that the commands
write the one that the daemon reads. A handler may drop a batch although `run` has
just made room: the batch is older than all that wait and is counted.

### 2.9 The desktop viewer: conventions

A callback that runs to its end is one action, with every synchronous call it makes:
a write of the scope tells its subscribers before it returns, and what they do is part
of the step. A request is a record that the daemon serves (it reads the state of
that moment), that may fail or hang, and whose answer is handled by a step of its own.
Where the code compares a captured generation with the current one, the record has
`inForce`, which the step that advances the generation clears for all others: the
comparison is all that a generation is read for. Two records that are out of force
and equal are one. A `budget` bounds what the user and the daemon do.

| Module | State and code |
|---|---|
| `LiveFeed` | `log` numbers the daemon's events; `pc` is where `connect` is (health, history, catch-up, deliver); `wire` and `pending` the frames on the way and the buffer of the reconciliation; `buf`, `frozen`, `arrived` the ring and the pause. `beyond` and `disturbed` are ghosts: what the limit of a read leaves out, and what may open a hole |
| `ScopeStore` | no state: what each call of the store commits |
| `PrivacyRemap` | `class` and `registered` are the daemon's; `issued`, `calls` and `roots` the list of roots with its numbered requests, `saves` the POSTs of a mode, `handler` the attempt of `handlePrivacyChange` in force |
| `ShellNavigation` | `active`, `tab`, `hosted`, `scope`; `fetches` the receipts asked for; `pane`; `landingPending`; `drag` with the scope of the press and the window written last |
| `StalePrune` | `disk` the admin entries; `record` the one preview that the Rust side keeps under its lock; `runs` each run of the runner with its stage; `gen`, `busy`, `cancelPending`, `dialog`. Checking an entry and deleting it are one step, as close as the code has them |
| `NeedsYou` | `status` of two episodes; `loads`, `snapshot`, `epoch`, `initialized`; `deliveries` with the await each is in; preferences in memory and as `stored` |
| `FleetPanel` | `stamp` of the daemon; `serves`, `loads`, `requests`; `data` and `drawn`; `inflight` the slot; `encoding`, `mounted` |
| `SessionsPanel` | `refreshes`, each with what its three requests settled with; `list`; `histories`, `historyRef`, `loaded`; `selectedWt` |
| `EventsPager` | `log` and `held` are sets of places in the log; `cursor`, `hasMore`, `missed`; `crowded` is a ghost, see section 7. `ScopeMoves` has the three branches of the store's subscriber; that a revision without a worktree is selected, and that the first snapshot has not landed, are choices where the code would look, since neither is a variable |
| `GraphTopology` | `repo`, `snapshot`, `workspace` of the graph beside `project`, `worktree` of the scope; `refreshes` in their two awaits; `registering`; `Known` says whether the resolver of the scope knows worktrees that were removed |
| `ProjectPanel` | `captured` and `rows` as the time of the last row of each repository, which is what `repoIds` sorts by; `panel` holds what the mutually recursive callbacks (`narrow`, `render`, `syncRepo`, `mountEncoding`) read and write; each is an operator on it, so that they nest as in the code |
| `ActivityMap` | `requests`, `resp`, `failed`, `stale`; `drags`, two at most, with the view each began on |
| `ScorePanel`, `LoopsLens`, `RouteLenses` | the panel as a record on which the handlers compose; requests beside it |
| `SessionTabs` | the host, each lens as what it was last told, the directory of titles with its cooling |
| `LocalNotebooks` | `stored` the text under the key, `win` each window: what it read last, its form, its lookups |
| `EvidencePanels` | list, receipt, page and their loads |
| `GraphLanes` | `present` (each loaded parent once, as the index of the code), `rank`, `head` (the chains), `lanes`: a history is laid out, then each sweep of the refinement moves chains as the code does, towards the mean of what they are joined to and only if their edges get shorter. The height of the rows follows the highest rank, as `rowH`. Of the crossings that the code counts last, either outcome is taken |
| `GraphLabels` | labels placed greedily in the order of the code, in pixels, each a pill and its badges and, when it was moved, a leader; `strip` the box of those without a revision with its caption and rows; with no revision loaded there is only the strip |
| `GraphCanvas` | the picture asked for and the one drawn, focus and keyboard stops; `view` the camera as an offset and one of four scales (smallest, readable, life-size, largest), a pan as two frames; `auto` a fit of worktrees and the history that joins them, or of everything, with its least scale, taken again of what a new picture holds of them; `lit` and `active` the revisions and edges drawn as highlighted and as worked on |

## 3. What the runs check

| Run | Question | Properties |
|---|---|---|
| `engine_recovery` | Prime-then-Build while other processes append, torn writes, crashes at every step | `ProjectedIsWritten`, `NoSkippedRecord`, refinement `ImplementsHistory` |
| `engine_service` | a caller, the tailer, the sweep, other processes, a failing projection, a subscriber that may never read | `StreamedOnce`, `GaplessDelivery`; liveness `Reconciled`, `AdmissionFinishes` |
| `inbox` | observations of six kinds with every tie, in every order on two replicas | `Converged`, `PendingIsUnanswered`, `OneFamily` |
| `sources` | ownership moves between two hosts while an agent starts and exits; a save fails or a host dies behind an Admission | `OneHost`, `CapturedOnce`; liveness `TakesOver`; `ReportsAreTrue` |
| `graph` | scans that overlap in every order while the privacy mode goes there and back | `AnsweredUnderMode`; action property `NeverBackwards`; liveness `Converges` |
| `daemon_delivery` | tailer, viewer's bracket, telemetry relay and its installation, each under its failures | `NothingLost`, `OnceAndSame`; liveness `Arrives` |
| `daemon_state` | session, hooks, worktree observer | `SessionAgrees`, `Truthful`; action property `Stands` |
| `desktop_shell` | feed, remap, navigation, prune, notifications | `TypeOK`, `FeedAccounts`, `ScopeStands`, `DoneOnce`; action property `StepsAsMeant`; liveness `Recovers` |
| `desktop_panels` | fleet, sessions, events, topology, project, activity | `TypeOK`, `ShowsItsScope`, `OneOwner`, `WalksUncrowded`; action property `AnswersForward`; liveness `CatchesUp` |
| `desktop_lenses` | score, notebooks, tabs, routes, loops, evidence, lanes, labels, canvas | `TypeOK`, `ShowsOwn`, `DrawsTheGraph`; action property `WritesOwn`; liveness `RouteArrives` |
| `otel_repeat` | "Repeat runs are no-ops" | `RepeatIsNoop`, violated (section 7) |
| `stream_race` | "without a history/live race" | `NoHistoryLiveRace`, violated (section 7) |

The properties of the sums are made of those of their modules:

| Property | Arms |
|---|---|
| `NothingLost` | `DurableTail!AppendBeforeCheckpoint`; `LiveSubscription!QuietIsComplete`; `OTelForwarding!BatchKept`, `OnlyOldestDropped`, `CollectorKept` |
| `OnceAndSame` | `DurableTail!StableIdentity`, `ContextFits`; `LiveSubscription!ShownOnce`; `OTelForwarding!RestoresOriginal` |
| `SessionAgrees` | `SessionProjection!RebuildAgrees`, `IdleMeansQuiet`, `StreamMatchesState` |
| `Arrives` | `DurableTail!CaughtUp`; `LiveSubscription!EventuallyShown`; `OTelForwarding!NeverDelays` |
| `Truthful` | `HookCapture!NeverLost`, `TwiceOnlyIfUnanswered`, `WithinMode`; `WorktreeStates!NoFalseFuneral`, `LandedIsReachable`, `OwnDivergence` |
| `Stands` | `SessionProjection!RequestHeld`; `WorktreeStates!SettledOnce` |
| `FeedAccounts` | `LiveFeed!RingSound`, `Contiguous`, `ResumeShowsCounted`, `LiveMeansAttached` |
| `ScopeStands` | `PrivacyRemap!NoDanglingProject`, `SessionInProject`; `ShellNavigation!DragOwnsScope` |
| `DoneOnce` | `NeedsYou!NotifiedOnce`; `StalePrune!OneLiveRun`, `ListsCatchUp` |
| `StepsAsMeant` | `PrivacyRemap!ProjectKept`, `RootsForward`; `ShellNavigation!InspectIsLatest`, `LandsOnce`; `StalePrune!RemovesOnlyConfirmed`; `NeedsYou!NoBacklog`, `SnapshotForward` |
| `Recovers` | `LiveFeed!Reattached`; `PrivacyRemap!RemapOver`; `NeedsYou!Attempted` |
| `ShowsItsScope` | `SessionsPanel!HistoryOfScope`, `WorktreeInProject`; `GraphTopology!SnapshotOfScope`, `SelectionOfScope`; `ActivityMap!AnswerOfScope`; `ProjectPanel!EncodingOfRepo` |
| `OneOwner` | `FleetPanel!HostFollowsEncoding`, `SlotHeldByNewest`; `ProjectPanel!OneMounted` |
| `WalksUncrowded` | `EventsPager!WalksUncrowded` |
| `AnswersForward` | `FleetPanel!PictureForward`; `SessionsPanel!ListForward`; `GraphTopology!RegistrationYields`; `ProjectPanel!RowsForward`; `ActivityMap!CommitsOwn` |
| `CatchesUp` | `FleetPanel!CaughtUp`; `SessionsPanel!ListFollowsScope`; `EventsPager!HeadRestored`; `GraphTopology!CaughtUp`; `ProjectPanel!RowsCaughtUp`; `ActivityMap!ShowsScope` |
| `ShowsOwn` | `ScorePanel!ClosedStaysClosed`, `NoFetchInPlayback`; `LocalNotebooks!VerifiedIsTyped`; `SessionTabs!OneLens`, `LensOfScope`; `RouteLenses!RouteOfScope`, `ReceiptOfFocus`; `LoopsLens!LoopsOfScope`, `SelectionExists`; `EvidencePanels!ReceiptOfListed`, `PageOfSignature` |
| `DrawsTheGraph` | `GraphLanes!NodesApart`, `RoomBesideTip`, `FitJoins`; `GraphLabels!NoCollision`, `AllLabelled`; `GraphCanvas!StopsDrawn`, `AutoFits`, `PaintExact` |
| `WritesOwn` | `ScorePanel!HiddenNeverWrites`, `PublishesOwn`; `LocalNotebooks!WritesOne`, `EditsKept`, `AttachesReviewed`; `SessionTabs!RememberedStays`; `LoopsLens!PicksInPlace` |
| `RouteArrives` | `RouteLenses!ScopeArrives` |
| `TypeOK` of a sum | the `TypeOK` of each module |

What a reader learns beyond the list:

- `ProjectedIsWritten` and `ImplementsHistory` together are the durability
  contract: what a query or a frame shows is on disk, and a restart loses nothing
  that was shown and whose line can be read.
- `NoSkippedRecord` is why Prime precedes Build. Pinning the sizes afterwards
  violates it by one append between the two.
- `GaplessDelivery` relates each channel to the sequence of all published frames:
  ending a full subscriber satisfies it, and dropping a frame for it does not.
- `StableIdentity` holds for lines whose pending id could be saved. Without
  that restriction it is false (section 7).
- `RebuildAgrees` needs both entries to be swept to the same instant, since the
  sweep is periodic, and needs events that came in time (section 7).
- `WithinMode` says how far the sentence of docs/contracts.md:58 is true: an
  observation on its way as the mode is lowered may still be stored under the old mode.
- `NoFalseFuneral` depends on telling "cannot be read" from "is not there"
  (`checkoutMissing`).
- `BatchKept` goes through three copies of one fact: the settings, the record, and
  the daemon's cache of it. Keeping the cache across a rename breaks it.
- `ProjectKept` is why the remap matches by label and vcs only if the match is
  unique: with two repositories of one name the scope is cleared rather than guessed. Another
  repository of the name is taken only if it was not there when the save began and the
  selected one is gone at its end: then the ids of two classes cannot tell them apart.
- `RemovesOnlyConfirmed` needs both the token of the preview (an apply after another
  preview is refused) and the comparison of each entry with its snapshot.
- `NotifiedOnce` is bought by marking before sending: an end of the app between the two
  loses a notification (`Attempted` asks for the attempt only).
- `ListFollowsScope` holds because the poll waits for the refresh in flight until its
  deadline: a poll that always supersedes it never draws anything (the mutant).
- `NodesApart` and `RoomBesideTip` hold after each sweep of the refinement and whichever way
  the count of crossings decides: what a move checks is enough, the label's room beside a tip included.

`MCDaemon`, `MCDesktopShell` and `MCDesktopPanels` are parametric: which machines take part (`Machines`), and the bounds of each, are
constants that the configurations give, so that what is proved of them is proved of any choice.

Type invariants are proved where a module has proofs. In `MCDaemon` they are a conjunct of one arm: `ContextFits`,
`QuietIsComplete`, `StreamMatchesState`, `NoFalseFuneral`, `WithinMode`,
`CollectorKept`, `OnlyOldestDropped`; in `sources` of `ReportsAreTrue`.

## 4. Bounds, and why they are enough

Every counter that grows is bounded by a constant: lines and tears
(`MaxLines`, `MaxTears`), crashes, failures, events, moves, edits, starts. The
bounds limit how often the environment acts; a bound on a failure makes "fails
finitely often" precise for the liveness properties and does not touch the others.

| Run | Instance | What it contains |
|---|---|---|
| `engine_recovery` | 2 ids in 2 day files, 1 caller, 1 tear, 1 crash, 1 failing projection | an append between Prime and Build of either file, a torn line with a record joined to it, a crash inside the write and a restart on what it left |
| `engine_service` | 2 ids in 1 file, 1 caller, 1 subscriber of capacity 1, 1 attention frame, 1 failing projection | overflow, an ended and a renewed subscription, the tailer on a record that Admission holds; one caller, because the liveness check is costly and a second caller competes for the lock as the tailer and the sweep do |
| `inbox` | 3 ids, 2 replicas, 2 source times, 2 observation times | every tie and every order of three; the theorems lift the bound |
| `sources` | 2 hosts, 2 starts, 1 line, 1 fault, 1 process that lives once, channel of 1 | a claim that fails while the other Source of the host runs, a hand-over with a report in the channel |
| `graph` | 1 client beside the two loops, 2 modes, 1 change of the repository, 2 requests, 2 transitions, 1 failure | three overlapping scans; a mode that comes back while a scan of it still runs |
| tailer | 1 file, 3 lines, one of them silent; two crashes with failing save and sink, or one of each with a replacement, a damaged checkpoint and a file moved in | a crash while a crash is repaired, a replay of a replay |
| viewer's bracket | 2 events, one replayed, capacity 1, set of 8 ids | overflow in each phase of a bracket; the set is larger than what the instance shows (section 7 for one that is not) |
| telemetry | 2 signals, 2 collectors, 4 blocks, 1 edit, 2 writes while a batch is on its way, 2 batches, queue of 1 | any sequence of commands, since a block and a record have finitely many values; a full queue with its worker at the same end |
| session | 3 events, idle after 2 ticks, days of 3 ticks, 5 ticks, lateness up to 2 | a request, a crossing and a late event on both sides of midnight |
| hooks | 2 hooks, 3 modes, 2 updates with 1 fault or 1 with 2 | an update cut short, a second one over it, a fall-back with the mode of a torn file |
| worktree | 1 path, 1 commit, 5 moves with 1 fault or 3 with 2 | two incarnations, each with a commit of its own or a merge, and a restart between |
| live feed | 4 events, ring of 2, first history of 1, replays of 4, 1 break, 1 failing request | a ring that overflows while paused, a break during the reconciliation, a reconnection that reads further back than the ring |
| remap | 2 repositories of one name, 2 classes of ids, 2 attempts, 1 or 2 saves, up to 2 repositories registered or removed | a repository replaced by its namesake around a save, two handlers that overlap, an attempt that fails and sleeps while the user selects |
| navigation | 1 project, 1 worktree, 1 session, 1 window, 2 events, 3 navigations, 2 clicks | a drag interrupted by each writer of the scope; two receipts in either order |
| prune | 2 entries, 3 runs, 1 change of the disk | a run cancelled in its dialog, a second previewing under it, a third after that |
| needs you | 2 episodes, one of them old, 3 connections, 1 restart, 1 failure, 1 permission withdrawn | a backlog met again by each connection, a delivery across a restart |
| panels | 1 or 2 of each of: changes, moves of the scope, clicks, failures, visits; 2 requests that overlap | an answer for each of: another scope, another visit, an aborted request, a later request |
| events page | 3 or 4 events, a set of 2, pages of 1 | eviction at either end with the cursor between, by a page of either tab |
| lenses | 1 to 3 gestures, loads, moves and failures each | a load left and entered again, an answer after a later selection |
| notebooks | 2 windows, 2 ids, 2 events | a save over a stale reading, a lookup that lands in an edited form |
| lanes | every history of six revisions with merges, of the shapes listed in `Histories`, among them a parent named twice, one not loaded and a revision that names itself, and 96 of eight revisions, a third of which the refinement moves | side branches on either side, merges of merges, ramps that meet |
| labels | 16 crowds of 6 revisions in two components, placed where the lanes put them, up to 5 worktrees at each, with widths of real names; and nothing loaded | stacks, clusters, labels that have to give way, the strip |
| canvas | 5 pictures of up to 3 revisions, one empty, 2 widths, 4 scales | a stop that vanishes, a pan over a rebuild |

The budgets of the viewer's machines are sets of records: each lists combinations in
which two or three of the user, the daemon and the failures act together. A module
has more behaviours than their union, and the combinations were chosen so that
each guard of each handler is met both ways: TLC's coverage shows every disjunct of
every action taken.

No run uses symmetry.

## 5. Fairness and deadlock

Only liveness properties need fairness, and it is stated of what the program
schedules itself, never of users, agents, other processes, consumers or failures.

- `CaptureEngine`: weak fairness of each goroutine's own steps; strong fairness of
  taking `Engine.sequence`, because a Go mutex in starvation mode hands itself to the
  longest waiter. Start-up and the start of `Run` are fair: the host does both.
- `DurableTail`: weak fairness of Initialize and Poll, which a ticker drives.
- `LiveSubscription`: weak fairness of the viewer's goroutine and of publication; strong
  fairness of projecting, for the same lock.
- `SourceOwnership`: weak fairness of each supervisor, of the poller and of the
  admitting loop: timers fire and goroutines run. `TakesOver` asks for one host that stays.
- `WorkspaceGraph`: weak fairness of the two loops, of the response gate and of each scan
  (a scan has a deadline). Client requests are bounded: refreshes that overlap
  for ever can supersede each other for ever, so that `Converges` is about requests that stop.
- `OTelForwarding`: weak fairness of the handlers, and none of the worker: the exporter
  gets its answer although the relay never moves.
- `LiveFeed`: weak fairness of `connect` (an interval of three seconds), of the answers of
  its requests and of the stream's delivery. A request that hangs for ever is not
  assumed away by a deadline, as the code has none there: `Recovers` is about requests that end.
- `PrivacyRemap`: weak fairness of the handler's deadline (1.2 s an attempt) and of its sleep, and none
  of the daemon: a remap ends although nothing is answered.
- `NeedsYou`: weak fairness of the refresh, of the load and of each await of a delivery.
- Panels: weak fairness of each poll and deadline, and of the daemon where the panel has no
  deadline of its own (`EventsPager`, `GraphTopology`, `ProjectPanel`, `ActivityMap`, `RouteLenses`).
  Where it has one (`FleetPanel`, `SessionsPanel`) a request may hang, and the deadline is what is fair.
- The user is never fair; nobody has to press Retry or come back to a panel.

Deadlock is checked in `engine_*` and `graph`, where the program never ends. In
the other configurations the environment has a bounded amount of work and then
nothing is left: all observations applied, all hooks done, all hosts down, all
events shown, no command or click left.

## 6. What is proved

For every value of the constants that satisfies the assumptions of the module
(`ConstantsAssumption`, `InboxAssumption`, `OwnershipAssumption`, `WatchAssumption`, `GraphAssumption`, `ShellAssumption`,
`PanelsAssumption`, `LensesAssumption`, `DaemonAssumption`, `TelemetryAssumption`, `ViewAssumption`, `SessionAssumption`, `NoneAssumption`: kinds
and ranges, and that names which stand for "none" are none of the others):

| Theorem | Property | Argument |
|---|---|---|
| `CaptureEngineProofs!Typing` | type invariant | with `Discipline`: who holds the lock and what a holder has at hand. Needed because a step of the holder reads what only the lock protects |
| `CaptureEngineProofs!DurableFirst` | `ProjectedIsWritten` | `Durable` adds: a call past its commit has its record on disk. Without it, the projection step of that call could show an unwritten id |
| `CaptureEngineProofs!HistoryRefined` | `ImplementsHistory` | on `Inv` and `Durable`, each step commits, reveals, starts or ends a process of `CapturedHistory`, or changes nothing it sees |
| `CaptureEngineProofs!NoRecordSkipped` | `NoSkippedRecord` | `Recovered`: offsets stay within their files; during the build only the files still to be read have a gap; the record the tailer is about to acknowledge is projected |
| `AttentionInboxProofs!InboxTyping` | types, each id counted once | as below |
| `AttentionInboxProofs!InboxConverges` | `Converged` | `Replaces` is a strict total order on the observations that speak of a slot, and a slot holds the greatest of those applied; what is shown is a function of the set applied |
| `AttentionInboxProofs!PendingUnanswered` | `PendingIsUnanswered` | the greatest speaker of the signal slot decides |
| `SourceOwnershipProofs!OwnershipExcludes` | `OneHost` | `Lease`: the counter of a host is the number of its Sources that hold the lease, and is positive only for the owner |
| `SourceOwnershipProofs!LinesCapturedOnce` | `CapturedOnce` | `Checkpoint`: the cursor of the running watcher is the shared one, and every line before, at and behind it is accounted for: a line past the checkpoint was admitted at most once for each crash or failed save, but for the one that is being saved |
| `SourceOwnershipProofs!CursorsFresh` | a running watcher's cursor is the shared one | part of the above |
| `SourceOwnershipProofs!SourcesExclude`, `!SourcesCaptureOnce` | `OneHost`, `CapturedOnce`, of `SourcesSpec` | the same invariant: each step of a host is one of `Spec`, and the watch under it counts a fault at most |
| `SourceOwnershipProofs!WatchTellsTruth` | the safety half of `ReportsAreTrue`, and `WatchOfHost` | see below |
| `WorkspaceGraphProofs!Typing` | type invariant | |
| `WorkspaceGraphProofs!CacheOfMode` | `CachedUnderMode` | within one epoch the mode is one, and a scan of an earlier epoch is never installed |
| `WorkspaceGraphProofs!AnswersOfMode` | `AnsweredUnderMode` | with the gate: while a response is being written the transition waits |
| `WorkspaceGraphProofs!CacheForward` | `NeverBackwards` | `VersionInv`: a scan that started last saw at least what the cache holds |
| `CaptureEngineProofs!NeverStreamedTwice` | `StreamedOnce` | `Streaming`: what was streamed or is about to be is behind the memory of ids, which is what lets the projection refuse a replay |
| `CaptureEngineProofs!DeliveryIsGapless` | `GaplessDelivery` | `Window`: place by place, a channel is what was published from where its consumer is |
| `AttentionInboxProofs!FamiliesExclude` | `OneFamily` | git and jj identities have the same speakers, so the greatest of them fills both slots |
| `MCDesktopShellProofs!ShellTyping` | `TypeOK` of the sum | the invariants below |
| `MCDesktopShellProofs!FeedShowsAll` | `FeedAccounts` | see below |
| `MCDesktopShellProofs!ScopeAlwaysStands` | `ScopeStands` | `RemapNamed`: once the viewer has heard of every mode that took effect, the selected project has an id of that mode, or the handler waits for a list that has. `NavInv`: a drag owns the window from press to release, and the shell's writers end it first |
| `MCDesktopShellProofs!DoneOnlyOnce` | `DoneOnce` | `NeedsMarked` and `NeedsOnce`: what was announced, is being announced, or was there before is marked, or over and unknown to any load still to be applied; a send under way is the only one of its episode. Prune: generations are not reused, so a run that ends late is not the live one and frees nothing; a run that removed an entry reports before it is through |
| `MCDesktopShellProofs!StepsMeant` | `StepsAsMeant` | each step on the same invariants. Prune: the record whose token is a run's generation holds what that run showed, and what is left to delete was shown and confirmed; without the token an apply could take the record of a later preview. Remap and notifications: a request is known by its number, and an answer that is still to be applied is not older than what is shown |
| `MCDesktopPanelsProofs!PanelsTyping` | `TypeOK` of the sum | the invariants below; of the events view `EventsInv`: the n newest and the n oldest of a set are at most n (`NewestBound`, `OldestBound`), and a page that says there is more is not empty, so that the cursor it leaves is an event |
| `MCDesktopPanelsProofs!PanelsShowTheirScope` | `ShowsItsScope`, given `Known` of the topology | see below |
| `MCDesktopPanelsProofs!PanelsHaveOneOwner` | `OneOwner` | of the fleet both arms are inductive beside `FleetCalls`. `ProjectShows`: while the panel is shown, what is mounted is the encoding chosen for the repository shown, which every chain of callbacks restores before it returns |
| `MCDesktopPanelsProofs!PanelsWalkOn` | `WalksUncrowded` | `WalkInv`, see below |
| `MCDesktopPanelsProofs!PanelsAnswersForward` | `AnswersForward` | `FleetCalls`, `ProjectCalls`, `ListKept`: one request of a kind is in force, and what it was served with is not older than what is shown. `RegistrationKept`: a registration in force knows where the scope is |
| `MCDesktopLensesProofs!LensesShowOwn` | `ShowsOwn` | one inductive invariant per machine, see below |
| `MCDesktopLensesProofs!LensesWriteOwn` | `WritesOwn` | each step on the same invariants. Score: `ScoreGoes`, every call keeps the window or publishes it while the drawn session is the one in scope, and a hidden panel is left with what it held or with nothing (`WindowOwn`, `HiddenRests`). Notebooks: `Keeps`, `Reviews`, of the one window that acts. Tabs: a name has a later number than the load that it came after (`Numbered`) |
| `MCDaemonProofs!ToldTruthfully` | `Truthful` | Hooks: `HookInv`, which of the stores an observation is in or on its way to (`Count`), and that the mode it is stored under is the one in force or the one a running update leaves (`Allowed`, `Updating`). Worktrees: `TreeInv`, what a record, a snapshot or a list says was so when it was written, a snapshot follows its records and a list both (`SnapFollows`, `ListFollows`) |
| `MCDaemonProofs!LinesAndBatches` | `NothingLost`, `OnceAndSame`, of the tailer and the telemetry | see below |
| `MCDaemonProofs!NothingIsLost` | `NothingLost`, given `Room` | `ViewInv`, see below |
| `MCDaemonProofs!SameThingOnce` | `OnceAndSame`, given `Room` | `ViewRemembers`: the set of ids knows what was shown |
| `MCDaemonProofs!SessionsAgree` | `SessionAgrees` | `SessionInv`, see below |
| `MCDaemonProofs!AnswersStand` | `Stands` | Sessions: what a restart rebuilds, swept, is what was there, and no sweep takes a request back. Worktrees: `ToldInv`, the record that was told is in the file and in memory, or a later lifetime's is; a save that did not fail leaves the two alike, so that what is published is what a restart would load |

`MCDesktopShellProofs` proves each machine of the sum under the names of the sum's cells, so that
`Machines` may be any subset of them, and its last section puts the five together. The
invariant of the feed, `FeedInv`, is the one that took most strengthening:

- `FeedRing`: while paused, the last `Len(arrived)` events of the buffer are those that arrived, and
  the rest is in the frozen copy. `ResumeShowsCounted` follows; without the order of `arrived` a
  full ring could drop an event from one and not from the other.
- `FeedLogged`: everything anywhere was written, the wire is in order, and what a read leaves out is
  `beyond`, with all that came before it.
- `FeedShows`, unless something has disturbed the order: every event up to the newest shown is in the buffer,
  beyond, or older than a full ring (`FeedOrdered`); every event written is that, or on its way
  (`FeedLive`). While a reconciliation is handed over this does not hold, and one of two things does
  instead: the queue goes on where the buffer ends (`FeedFollows`), or it brings at least as many older events
  as it takes to push out what is left of the old buffer (`FeedRenews`), the second being the
  reconnection that reads further back. Both end in `FeedOrdered` when the queue is empty.

`SourceOwnershipProofs` goes on to the composition. `WatchOfHost`: the one record of a watch that `SourceOwnership` keeps
is on exactly while some host runs the process Source, so it stands for every host's watch and never keeps a host from its claim; that follows
from `OneHost`, and is why the composition hides no behaviour. `Polling`: with the reports still in the channel counted in (`SaysOn`), what
the watch has said agrees with the listing it compares with, pid by pid, except for the differences it has yet to send; admitting
changes nothing of it (`SaidAdmitted`), and sending decides one pid (`SaidSent`).

`MCDesktopPanelsProofs` does the same for the six panels. What it adds:

- `SessionInv`: a history is of the reference in force, or on its way for it; when there is neither there is no reference.
  A first form said that then nothing is loaded either, and was false: after a history that failed, the one before is
  still held (`apps/tauri-desktop/src/ui/sessions.ts:345` resets the reference and not `loaded`; section 7).
- `TopologyInv`: the snapshot is of the repository of the graph, and the graph's repository is that of the scope; a snapshot has
  worktrees by the names of one privacy mode only, so that an answer of an old mode cannot bring a selection of a new one.
  `SelectionOfScope` needs `Known`, and the theorem says so: without it TLC finds a counterexample in a larger instance (section 7).
- `WalkInv`, of the Events view. `KeptFrom`: of the events of the view from a place on, those that are not held are newer than all that
  is held, and the set is full; this is what an older page may do (it evicts the newest), and what a set that only grows keeps (`KeptGrows`).
  `WalkCursor`: it holds from the cursor on, and from the start of the history once there is no more to load.
  `InWalk`: it holds from the cursor that an older request was sent with, and a page at the head together with the held events is without a hole, unless
  a full set lost something meanwhile; that mark, `crowded`, is taken by the request and not by the answer, since what is evicted
  while a page is on its way cannot be told from the page. `PageSound`: what a page leaves out is newer than all of it, or not before its cursor.
  The merge needs that the n oldest of a set leave out only what is newer, and are n if they leave out anything (`OldestBottom`).
- `ActivityKept`: the answer, and the request in force, are for the key that was fetched last and that is of the scope.

`MCDesktopLensesProofs` does the same for the six machines of the lenses; those of the graph's picture contribute nothing to the two
properties. The sessions, records, errors, rows, windows, notebook ids and bounds are constants, and no step uses what they are.

- `ScoreInv`: a pane that was closed is nobody's or another view's, and nothing is fetched for it (`Shut`); nothing is fetched while the cursor
  moves (`Sound`); a panel that is not shown neither fetches nor plays. The last is what `HiddenNeverWrites` rests on: a fetch that
  outlived the panel would write the pane of whoever came after. The calls are functions of the panel, so each has a lemma that
  says what it returns, and an action is a chain of them.
- `TabsInv`: a lens that has the focus was told the scope that the host delivered last (`Followed`); `Numbered` as above.
- `RoutesInv`: a route is of the fields, what is in focus is of the route and in the window, the receipt shown or awaited is of the focus
  (`RouteKept`); while the tab is shown the fields cover the session of the scope (`RouteScoped`). An answer that comes for other fields is out of force before it lands.
- `LoopsInv`: `Exists`, what is selected is a loop of the events that are loaded, under the membership of the moment, both before and after the
  signatures land, which may merge and split groups; `Loading`, one history is in force exactly while the panel loads, and it is of its session.
- `CourtInv` (files, strata): one list and one page is in force, of the signature that is picked; an event awaited is behind a row that is still listed.
- `NotesInv`: what is verified, or about to be, is what the field says, and in the Court for the requirement selected (`PadOk`); ids are not given twice, which is what makes
  `WritesOne` one entry (`BookOk`).

`MCDaemonProofs` is laid out in the same way. The invariants of the tailer and of the relay are the
larger ones there:

- `TailInv`: the lines of a file are apart (`LinesApart`); what the parser of a cursor, and what the
  parser behind each saved checkpoint, was fed is the file up to that place, and every line of it is in the spool,
  silent, or given up (`CursorSound`, `FileSound`); the line that is being handled is the next one, with the id
  that memory or disk holds for it (`Handled`); unless a save failed, memory and checkpoint agree, and an event that
  is in the spool is behind them or the pending one (`Calm`). The last is
  why a replay finds the same id, and is false without `Undisturbed` (section 7).
- `RelayInv`: until the user gives the collectors up, the block is the user's or Firehose's with the
  user's on record (`Claimed`), after `--replace` nothing holds them (`GivenUp`), a record is what
  `planOTelForward` makes of its original (`Planning`); the daemon's file is that record, and a cached target belongs to
  the stamp it is kept under (`Followed`), which is where a stamp of the file read *before* its contents is what makes the cache
  safe; the target of a batch is one that the record had while it was looked up (`Routed`); and the queue is the end of the
  sequence it accepted, the rest of it being sent, with the worker, or dropped (`Queued`).
- `ViewInv`: from the second read on, what the engine has projected is in the history that was read, among the frames
  set aside meanwhile, shown, or on its way (`ViewReaches`), which is why the subscription has to come before that
  read; transitions are on their way in the order of their versions, and the newest of them behind all others
  (`ViewRising`, `ViewCurrent`), which is why the frames set aside are handed over before the live ones. It needs `Room`: one read returns
  every event, and the set of ids has a place for every frame there can be. Without the first the bracket itself leaves a gap
  after a long absence, without the second ids fall out of the set (section 7); the code promises neither more.
- `SessionInv`: an entry is as late as the last of its events, and idle only if all their activity is old enough
  (`EntrySound`, of the live entry and of any that a rebuild comes past); unless an event came late, the live
  entry and the rebuilt one agree after a sweep. The two meet in three lemmas: a sweep can be put before a fold or another sweep without changing
  what comes out (`SweepFold`, `SweepTwice`), because a fold looks for the idle crossing itself; so entries that agree after a
  sweep agree after the next event (`AgreeFold`); and of a spool in the order of its days
  the day files, read one by one, end with the event that was appended last (`BuildAppend`).

The inductive invariants were model-checked before they were proved. The proofs
use nothing but the assumptions above and the library's facts on sequences and finite sets.
One property changed on the way: the first form of `ProjectKept` was false as soon as two
repositories may change around a save, which the instance did not contain; both were corrected.

Three of the proofs go by induction over data: the distinct events of a read, the scan of a day file, and the rebuild over the
days are recursive functions. The library's induction theorems take an operator and are of no use here; the
steps are instead taken up a set of numbers (`UpTo`, whose own proof takes the least counterexample), and a recursive
function is first shown to exist (`StepByStep`).

Only model-checked: all liveness (fairness and ENABLED are beyond the prover); and of `MCDesktopLenses` the type
invariant and `DrawsTheGraph`. The latter is about coordinates, computed by folds over the revisions, of which the proof would need
what a fold returns for any picture; that is induction over data again, with an invariant for each pass of the layout.

## 7. Where code and documentation part

Two are shown by runs. **The viewer's feed does not close the race between history
and stream** (`apps/tauri-desktop/src/connect.ts:94` against docs/contracts.md:190-193): the second snapshot is asked for
right after the stream was created, and may be answered before the daemon has attached
it; an event captured in between is in neither and appears with the next reload only.
`stream_race` finds it with one event. The daemon subscribes before it sends the headers (`internal/daemon/stream.go:18`) and the Go client waits for them
before its second read: `LiveSubscription` shows that this suffices. In `LiveFeed`, `beyond` and
`disturbed` keep `Contiguous` apart from this case.

And **a second uninstall of the telemetry deletes the exporter keys
that the first one restored** (`internal/cli/otelforward.go:222` against :197, "Repeat
runs are no-ops"). The record is gone then, and a user's `OTEL_LOGS_EXPORTER=otlp`
equals Firehose's own value. `otel_repeat` finds it.

The following were met while the models were written. No run shows them; the
models have the code's behaviour, and the properties are restricted where one of
these would refute them.

- A record appended behind a torn write is acknowledged and cannot be read
  (`internal/capture/internal/spool/spool.go:74` against :44-45, docs/contracts.md:92-93).
- The watermark of discovery passes over a fresh file when the process ends between its
  creation and the next poll (`internal/durablejsonl/watcher.go:255`, docs/adapters.md:138-140).
- A pending id that could not be saved is not the one of the retry (`watcher.go:383`,
  docs/adapters.md:170-173): `StableIdentity` is restricted by `Undisturbed`.
- A file replaced while its cursor is at 0 passes its pending id on to the new first line
  (`watcher.go:300`, docs/adapters.md:140-141).
- Ids fall out of the viewer's bounded set and are shown again
  (`internal/livesubscription/livesubscription.go:229`, docs/contracts.md:189-195): the instance of the viewer has a set that is large enough.
- An event that comes late makes a rebuild differ from the live state
  (`internal/capture/internal/projection/projection.go:301` against :294-296): `RebuildAgrees` and `RequestHeld` exclude it by
  `delayed`. When it crosses midnight, a restart can take a request back.
- A first listing of processes that fails makes the next one no baseline
  (`internal/adapters/procwatch/procwatch.go:82` against :64-65).
- A patch of the configuration reverts fields that an earlier one set and that
  need a restart (`internal/daemon/daemon.go:258`, 275, 280 against docs/contracts.md:160).
- An observation on its way while the mode is lowered is stored under the old one
  (`internal/capture/admission.go:31`, `internal/cli/cli.go:124`, 168, docs/contracts.md:58-59): `early`.
- A worktree's outcome can rest on the commit mark of its successor or predecessor
  (`internal/daemon/worktree_states.go:362` against :451-453; :496, docs/contracts.md:613).
- A graph scan that fails after it was superseded does not mark the cache stale
  (`internal/workspacegraph/service.go:202-208`).
- An uninstall after the daemon's address changed loses the originals
  (`internal/cli/otelforward.go:228`, docs/adapters.md:116-118): the address is a constant of the model.

In the viewer (`apps/tauri-desktop/src`):

- A reload that reaches further back than the buffer hands older events over behind newer
  ones (`state.ts:155`, 160, which take the buffer for oldest first): `Contiguous` excludes it by `disturbed`.
- Live events and head refreshes can push rows of an older page out of the bounded set while the cursor
  stays behind them, and "Load older" then continues below the hole (`ui/graph/index.ts:1276-1287`).
  The activity that the Graph tab loads for a selected worktree is merged into the same set, and when it evicts the oldest
  rows nothing restarts the pagination (:1281 is reached for the Events tab only), although the comment at :1301 says of such an eviction that "a
  held cursor points past a gap. Restart pagination at the head".
  Leaving the scope of a worktree that was removed reloads nothing, because the selection that
  would be cleared is already empty (:625-634, 672-702), unless a revision alone is selected: the cursor stays the one of the narrowed query. The
  comment at :1550-1555 speaks of walking "contiguously". The ghost `crowded` marks all three, and
  `WalksUncrowded` is about all other walks.
- While a second history is asked for, and after it failed, the first stays in `loaded` (`ui/sessions.ts:322-347`): if the window of the
  scope moves during the request, its events are drawn again (:215) in place of the second's until the answer comes.
- If no other resolver knows a removed worktree to which the scope was moved, the next snapshot takes it out of the scope, and the graph keeps
  its own selection (`ui/graph/index.ts:735-737` clears it only if it was the same): the graph highlights a worktree and the scope has none.
- A pick made in Lanes is paired with the repository of the moment in which the encoding changes
  (`ui/project/index.ts:604-608`), not of the one in which it was made.
- `ui/graph/canvas.ts:316` says that whatever else moves the view stops a running pan; a rebuild shifts the view
  with its anchor (853-862) and lets the pan go on to a place of the old picture.

## 8. What is not modelled, and why

Beyond the parts of 1.3, within the modelled ones:

- Engine: records above 8 MiB, unreadable files; the queries over the spool.
- Session projection: summaries, paths, traces, day totals, and fields that the
  first event to arrive decides (`Repo`, `CWD`, `Source`, `Agent`).
- Inbox: capture warnings, gaps, records without an id.
- Sources: backoff times. Process watcher: the listing itself, names of agents.
- Hooks: payloads that an adapter refuses, a daemon that is up but slow to answer /health.
- Worktrees: the primary checkout, unborn heads, a missing default branch, the limit of
  2000 records (`worktree_states.go:269`), which needs more than 2000 records to show. A comparison that times out
  at settlement settles as unknown for good (:517), which the model allows.
- Graph: registration, which takes effect before it is saved
  (`internal/daemon/workspace_graph.go:199-206`); pages; the poller's hints, which are keyed by an id that depends on
  the mode (`graph_changes.go:47`), and which no property needs since a transition empties the cache.
- Telemetry: managed settings and environment, which only refuse; damaged files; two
  commands at once; the Admission of mapped events, which is that of `CaptureEngine`.
- Viewer: what is drawn of what a panel holds; keys and their parsing, but for Escape and the
  arrows of canvas and lanes; the inspector and the comparison of the graph; in the notebooks the preview of a saved
  receipt and the inspection of a saved link; sound; curves in the layout,
  and with them which edges cross; the vertical of the canvas; the click that follows a drag.
- Viewer: two parts at once. They meet in the scope only, which a part lets the others write at any
  moment, so their product would add states and no question.

## 9. Plan

Done, in this order, the most important first: the engine and its refinement of
`CapturedHistory`; the tailer; ownership; projection and inbox; the viewer's bracket; hooks and
configuration; worktrees and graph; telemetry; the desktop viewer with its feed, scope,
panels, lenses, notebooks and graph; the proofs of the engine's delivery, of the viewer's machines behind the panels,
of every safety property of the daemon's, and of the viewer's panels and lenses.

Next:

1. Derived views: the folds behind error signatures, files and commit marks are meant to be
   order-independent under their caps; check a rebuilt view against a live one, as
   an addition to the inbox's replicas, since the question is the same.
2. Paging of history, graph history and activity by cursor while events are appended: no
   event twice or missing over a sequence of pages, composed with `EventsPager`.
3. Registration of repositories in `WorkspaceGraph`, with the failed save after the effect, and the
   fields of the configuration that need a restart in `HookCapture`.
4. The terminal viewer's ring and its grouping; installing and removing hooks of agents.
5. Proofs: the type invariant of the lenses; and the layout of the graph, pass by pass, with a fact of its own for each fold.
