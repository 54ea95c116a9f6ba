----------------------------- MODULE HookCapture -----------------------------
(***************************************************************************)
(* Hook processes, the daemon and config.json: the route of an observation *)
(* (EmitNamed, HookForward and RunHookForwardCommand in                    *)
(* src/internal/cli/cli.go, handleEmit in src/internal/daemon/daemon.go)   *)
(* while the configuration is updated (handleConfigUpdate, Privacy in      *)
(* src/internal/cli/privacy.go).                                           *)
(*                                                                         *)
(* SaveConfig truncates the file and then writes it: a reader between the  *)
(* two finds it Torn.                                                      *)
(***************************************************************************)
EXTENDS Naturals, FiniteSets

CONSTANTS
  Hooks,
  Modes, DefaultMode,
  Torn, Keep,          \* Keep: the patch leaves the mode alone
  Exceeds(_, _),       \* the first mode stores more than the second
  Budgets              \* bounds: updates, faults, starts of the daemon

Patches == Modes \cup {Keep}

VARIABLES
  file,       \* the mode that config.json says, or Torn
  wanted,     \* ghost: the mode configured, as of the last update that ended
  up,         \* the daemon runs
  cfg,        \* the mode in Server.cfg
  policy,     \* Engine.policy
  update,     \* the POST /config or the command in progress
  hook,       \* [Hooks -> its place and the mode it read]
  request,    \* [Hooks -> its POST /emit]
  stored,     \* [Hooks -> number of records]
  gaveUp,     \* ghosts: the hooks that were not told what became of their request,
  lost,       \* those whose last resort failed,
  early,      \* those on their way as an update ended, or that met a torn file,
  excess,     \* those with a record beyond the mode configured as it was appended
  updates, faults, starts  \* what is left of the budget

daemon == <<up, cfg, policy>>
ghosts == <<gaveUp, lost, early>>
bounds == <<updates, faults, starts>>
vars == <<file, wanted, daemon, update, hook, request, stored, ghosts, excess, bounds>>

Places == {"new", "loaded", "sending", "local", "done"}
Requests == {"none", "flying", "admitting", "ok", "failed", "lost"}
Idle == [step |-> "none", by |-> "none", to |-> DefaultMode]

TypeOK ==
  /\ file \in Modes \cup {Torn} /\ wanted \in Modes
  /\ up \in BOOLEAN /\ cfg \in Modes /\ policy \in Modes
  /\ update \in [step: {"none", "truncated", "written"}, by: {"none", "daemon", "cli"}, to: Modes]
  /\ hook \in [Hooks -> [at: Places, mode: Modes, route: BOOLEAN]]
  /\ request \in [Hooks -> [state: Requests, mode: Modes]]
  /\ stored \in [Hooks -> Nat]
  /\ gaveUp \subseteq Hooks /\ lost \subseteq Hooks
  /\ early \subseteq Hooks /\ excess \subseteq Hooks
  /\ {updates, faults, starts} \subseteq Nat

----------------------------------------------------------------------------
(* POST /config, one at a time under Server.mu, and firehose privacy.      *)

\* SaveConfig truncates the file first.
Truncate(by, to) ==
  /\ update.step = "none" /\ updates > 0
  /\ updates' = updates - 1
  /\ update' = [step |-> "truncated", by |-> by, to |-> to]
  /\ file' = Torn
  /\ UNCHANGED <<wanted, daemon, hook, request, stored, ghosts, excess, faults, starts>>

\* A patch is merged into the daemon's own configuration, not into the file.
UpdateConfig(p) == up /\ Truncate("daemon", IF p = Keep THEN cfg ELSE p)

\* firehose privacy without a daemon: the file is read, one field is changed.
SetPrivacy(m) == ~up /\ file # Torn /\ Truncate("cli", m)

\* SaveConfig fails behind the truncation: a 500, nothing is applied.
WriteConfigFails ==
  /\ update.step = "truncated" /\ faults > 0
  /\ faults' = faults - 1
  /\ update' = Idle
  /\ UNCHANGED <<file, wanted, daemon, hook, request, stored, ghosts, excess, updates, starts>>

\* The file is written: what it says is configured from now on.
WriteConfig ==
  /\ update.step = "truncated"
  /\ update' = [update EXCEPT !.step = "written"]
  /\ file' = update.to
  /\ UNCHANGED <<wanted, daemon, hook, request, stored, ghosts, excess, bounds>>

\* Ghost: what is still on its way may hold what the mode before it allowed.
OnTheirWay ==
  {h \in Hooks : hook[h].at \notin {"new", "done"} \/ request[h].state \in {"flying", "admitting"}}
Configured(m) == wanted' = m /\ early' = early \cup OnTheirWay

\* Variant: the mode is saved, and the engine goes on as before.
FinishUpdateSaved ==
  /\ update.step = "written"
  /\ update' = Idle
  /\ IF update.by = "daemon" THEN cfg' = update.to /\ UNCHANGED policy ELSE UNCHANGED <<cfg, policy>>
  /\ Configured(update.to)
  /\ UNCHANGED <<file, up, hook, request, stored, gaveUp, lost, excess, bounds>>

\* The privacy mode is applied to the running daemon.
FinishUpdate ==
  /\ update.step = "written"
  /\ update' = Idle
  /\ IF update.by = "daemon"
     THEN cfg' = update.to /\ policy' = update.to ELSE UNCHANGED <<cfg, policy>>
  /\ Configured(update.to)
  /\ UNCHANGED <<file, up, hook, request, stored, gaveUp, lost, excess, bounds>>

----------------------------------------------------------------------------
(* The daemon.                                                             *)

\* LoadConfig; a torn file is a fatal error.
DaemonStarts ==
  /\ ~up /\ file # Torn /\ update.step = "none" /\ starts > 0
  /\ starts' = starts - 1
  /\ up' = TRUE /\ cfg' = file /\ policy' = file
  /\ UNCHANGED <<file, wanted, update, hook, request, stored, ghosts, excess, updates, faults>>

\* It is killed: an update in progress stops where it is, requests fail. What
\* is configured then is what the file says.
DaemonDies ==
  /\ up /\ faults > 0
  /\ faults' = faults - 1
  /\ up' = FALSE
  /\ update' = IF update.by = "daemon" THEN Idle ELSE update
  /\ request' = [h \in Hooks |-> IF request[h].state \in {"flying", "admitting", "ok"}
                                 THEN [request[h] EXCEPT !.state = "lost"] ELSE request[h]]
  /\ Configured(IF file = Torn THEN wanted ELSE file)
  /\ UNCHANGED <<file, cfg, policy, hook, stored, gaveUp, lost, excess, updates, starts>>

\* Admit: the policy is read, then the redacted event is appended.  A client
\* that has gone does not stop it (WithoutCancel).
Redact(h) ==
  /\ up /\ request[h].state = "flying" /\ \A g \in Hooks : request[g].state # "admitting"
  /\ request' = [request EXCEPT ![h] = [state |-> "admitting", mode |-> policy]]
  /\ UNCHANGED <<file, wanted, daemon, update, hook, stored, ghosts, excess, bounds>>

\* One record; ghost: does it hold more than the mode the last finished update set?
Store(h, m) ==
  /\ stored' = [stored EXCEPT ![h] = @ + 1]
  /\ excess' = IF update.step = "none" /\ Exceeds(m, wanted) THEN excess \cup {h} ELSE excess

Append(h) ==
  /\ up /\ request[h].state = "admitting"
  /\ Store(h, request[h].mode)
  /\ request' = [request EXCEPT ![h].state = "ok"]
  /\ UNCHANGED <<file, wanted, daemon, update, hook, ghosts, bounds>>

\* A failing append is a 503.
AppendFails(h) ==
  /\ up /\ request[h].state = "admitting" /\ faults > 0
  /\ faults' = faults - 1
  /\ request' = [request EXCEPT ![h].state = "failed"]
  /\ UNCHANGED <<file, wanted, daemon, update, hook, stored, ghosts, excess, updates, starts>>

----------------------------------------------------------------------------
(* A hook process.                                                         *)

\* LoadConfig; a torn file gives the defaults, and no daemon.
Load(h) ==
  /\ hook[h].at = "new"
  /\ hook' = [hook EXCEPT ![h] = IF file = Torn
                                 THEN [at |-> "loaded", mode |-> DefaultMode, route |-> FALSE]
                                 ELSE [at |-> "loaded", mode |-> file, route |-> TRUE]]
  /\ early' = IF file = Torn THEN early \cup {h} ELSE early
  /\ UNCHANGED <<file, wanted, daemon, update, request, stored, gaveUp, lost, excess, bounds>>

Goes(h, place) == hook' = [hook EXCEPT ![h].at = place]

Send(h) ==
  /\ hook[h].at = "loaded" /\ hook[h].route /\ up
  /\ Goes(h, "sending")
  /\ request' = [request EXCEPT ![h].state = "flying"]
  /\ UNCHANGED <<file, wanted, daemon, update, stored, ghosts, excess, bounds>>

\* No route, or no daemon listens.
TakeLocalRoute(h) ==
  /\ hook[h].at = "loaded" /\ (hook[h].route => ~up)
  /\ Goes(h, "local")
  /\ UNCHANGED <<file, wanted, daemon, update, request, stored, ghosts, excess, bounds>>

\* 204: nothing is left to do.
Answered(h) ==
  /\ hook[h].at = "sending" /\ request[h].state = "ok"
  /\ Goes(h, "done")
  /\ UNCHANGED <<file, wanted, daemon, update, request, stored, ghosts, excess, bounds>>

\* A 503 or a broken connection: EmitLocalNamed.
FallBack(h) ==
  /\ hook[h].at = "sending" /\ request[h].state \in {"failed", "lost"}
  /\ Goes(h, "local")
  /\ gaveUp' = IF request[h].state = "lost" THEN gaveUp \cup {h} ELSE gaveUp
  /\ UNCHANGED <<file, wanted, daemon, update, request, stored, lost, early, excess, bounds>>

\* The client's three seconds are over, whatever becomes of the request.
TimesOut(h) ==
  /\ hook[h].at = "sending" /\ request[h].state \in {"flying", "admitting", "ok"}
  /\ faults > 0
  /\ faults' = faults - 1
  /\ Goes(h, "local")
  /\ gaveUp' = gaveUp \cup {h}
  /\ UNCHANGED <<file, wanted, daemon, update, request, stored, lost, early, excess, updates, starts>>

\* AdmitOnce with the configuration the hook read.
StoreLocally(h) ==
  /\ hook[h].at = "local"
  /\ Store(h, hook[h].mode)
  /\ Goes(h, "done")
  /\ UNCHANGED <<file, wanted, daemon, update, request, ghosts, bounds>>

\* The last resort fails too; the agent is answered all the same.
StoreLocallyFails(h) ==
  /\ hook[h].at = "local" /\ faults > 0
  /\ faults' = faults - 1
  /\ lost' = lost \cup {h}
  /\ Goes(h, "done")
  /\ UNCHANGED <<file, wanted, daemon, update, request, stored, gaveUp, early, excess, updates, starts>>

Init ==
  /\ file \in Modes /\ wanted = file
  /\ up = FALSE /\ cfg = DefaultMode /\ policy = DefaultMode
  /\ update = Idle
  /\ hook = [h \in Hooks |-> [at |-> "new", mode |-> DefaultMode, route |-> FALSE]]
  /\ request = [h \in Hooks |-> [state |-> "none", mode |-> DefaultMode]]
  /\ stored = [h \in Hooks |-> 0]
  /\ gaveUp = {} /\ lost = {} /\ early = {} /\ excess = {}
  /\ \E b \in Budgets : updates = b.updates /\ faults = b.faults /\ starts = b.starts

Daemon(h) == Redact(h) \/ Append(h) \/ AppendFails(h)
Hook(h) ==
  \/ Load(h) \/ Send(h) \/ TakeLocalRoute(h)
  \/ Answered(h) \/ FallBack(h) \/ TimesOut(h)
  \/ StoreLocally(h) \/ StoreLocallyFails(h)
Configure ==
  \/ \E p \in Patches : UpdateConfig(p)
  \/ \E m \in Modes : SetPrivacy(m)
  \/ WriteConfig \/ WriteConfigFails \/ FinishUpdate

Next ==
  \/ \E h \in Hooks : Hook(h) \/ Daemon(h)
  \/ Configure \/ DaemonStarts \/ DaemonDies

Spec == Init /\ [][Next]_vars

----------------------------------------------------------------------------
(* Properties.                                                             *)

Finished(h) == hook[h].at = "done"

\* Capture never depends on the daemon being up: an observation is recorded
\* unless the last resort itself failed.
NeverLost == \A h \in Hooks : Finished(h) /\ h \notin lost => stored[h] > 0

\* It is recorded twice only if the hook could not know the daemon's answer.
TwiceOnlyIfUnanswered ==
  \A h \in Hooks : stored[h] <= (IF h \in gaveUp THEN 2 ELSE 1)

\* "the spool never contains more than the configured mode allows"
\* (docs/contracts.md:58), over hooks, daemon and updates that race and break
\* off: only an observation that was on its way as an update ended, or whose
\* hook met a torn file, may hold more than the mode configured then.
WithinMode == TypeOK /\ excess \subseteq early
=============================================================================
