----------------------------- MODULE OTelInstall -----------------------------
(***************************************************************************)
(* firehose install and uninstall claude-otel                              *)
(* (src/internal/cli/install.go, src/internal/cli/otelforward.go): the     *)
(* telemetry keys of ~/.claude/settings.json point Claude at Firehose, and *)
(* the record otel-forward.json says where Firehose passes each signal on, *)
(* and what the user had. A command writes the two files one after the     *)
(* other and may end between the writes. One command runs at a time, and   *)
(* the user edits the telemetry keys between commands. An endpoint stands  *)
(* for its protocol too, and Remote for all that is not relayed.           *)
(***************************************************************************)
EXTENDS Naturals, FiniteSets

CONSTANTS
  Signals,        \* logs and metrics
  Collectors,     \* loopback http/json endpoints of the user
  Remote,         \* any other endpoint
  Addr,           \* daemon_addr: the endpoint of Firehose
  Absent,         \* no value, no record
  UserEnvs,       \* telemetry blocks that users write
  MaxEdits        \* of the telemetry keys by the user

Exporter(s) == <<"exporter", s>>
Endpoint(s) == <<"endpoint", s>>
Base == <<"endpoint", "all">>
Headers == <<"headers", "all">>
Keys == ({"exporter", "endpoint"} \X Signals) \cup {Base, Headers}
Values == {"otlp", "console", "set", Remote, Addr, Absent} \cup Collectors
Env == [Keys -> Values]
NoEnv == [k \in Keys |-> Absent]
NoTargets == [s \in Signals |-> Absent]

VARIABLES
  env,       \* the telemetry keys of settings.json
  record,    \* otel-forward.json: [targets, original], or Absent
  step,      \* where the running command is
  plan,      \* what it is going to write: [env, record, kind]
  own,       \* the block that the user wrote last
  claim,     \* on it: "kept", "replaced" by a finished --replace, or "released" by
             \* an unfinished one, or by an uninstall that had no record of it
  restored,  \* the last thing that happened is the end of an uninstall
  edits

files == <<env, record>>
vars == <<files, step, plan, own, claim, restored, edits>>

Record == [targets : [Signals -> Values], original : Env]
Kinds == {"plain", "replace", "forward", "uninstall"}
NoPlan == [env |-> NoEnv, record |-> Absent, kind |-> "plain"]

TypeOK ==
  /\ env \in Env /\ own \in Env
  /\ record # Absent => record \in Record
  /\ step \in {"idle", "record", "settings", "clear"}
  /\ plan.env \in Env /\ plan.kind \in Kinds
  /\ plan.record # Absent => plan.record \in Record
  /\ claim \in {"kept", "replaced", "released"} /\ restored \in BOOLEAN
  /\ edits \in 0..MaxEdits

----------------------------------------------------------------------------
(* Helpers.                                                                *)

\* ClaudeOTelEnvironment: the block that points Claude at Firehose.
Ours ==
  [k \in Keys |-> IF k[2] \notin Signals THEN Absent ELSE IF k[1] = "exporter" THEN "otlp" ELSE Addr]

Foreign(e) == {k \in Keys : e[k] # Absent /\ e[k] # Ours[k]}

\* Where an exporter sends a signal: the endpoint of the signal, or the base.
DestOf(e, s) ==
  IF e[Exporter(s)] # "otlp" THEN Absent
  ELSE IF e[Endpoint(s)] # Absent THEN e[Endpoint(s)] ELSE e[Base]

\* validateForwardTarget, with the protocol.
Relayable(v) == v \in Collectors

\* planOTelForward: refused, or a record of every signal that is exported.
Plannable(e) ==
  /\ \A k \in Foreign(e) : k # Headers /\ k[1] # "exporter"
  /\ \A s \in Signals : DestOf(e, s) # Absent => Relayable(DestOf(e, s))
  /\ \E s \in Signals : DestOf(e, s) # Absent
Planned(e) == [targets |-> [s \in Signals |-> DestOf(e, s)], original |-> e]

\* What a signal that Claude exports reaches in the end: the daemon passes on
\* what it gets, never to itself.
Reaches(s) ==
  IF DestOf(env, s) # Addr THEN DestOf(env, s)
  ELSE IF record = Absent THEN Absent
  ELSE IF Relayable(record.targets[s]) THEN record.targets[s] ELSE Absent

----------------------------------------------------------------------------
(* The user.                                                               *)

Edit(e) ==
  /\ step = "idle" /\ edits < MaxEdits /\ e # env
  /\ env' = e /\ own' = e /\ claim' = "kept" /\ restored' = FALSE
  /\ edits' = edits + 1
  /\ UNCHANGED <<record, step, plan>>

----------------------------------------------------------------------------
(* InstallClaudeOTelWith. A refused install leaves everything as it is.    *)

\* The new block, the record to save first, and what is left to do.
Proceed(kind, e, r, first) ==
  /\ plan' = [env |-> e, record |-> r, kind |-> kind]
  /\ step' = first /\ restored' = FALSE
  /\ UNCHANGED <<files, own, edits>>

InstallPlain ==
  /\ step = "idle" /\ Foreign(env) = {} /\ env # Ours
  /\ Proceed("plain", Ours, Absent, "settings")
  /\ UNCHANGED claim

\* Without a foreign key the record must be there; a new plan replaces it.
InstallForward ==
  /\ step = "idle"
  /\ IF Foreign(env) = {}
     THEN /\ record # Absent /\ \E s \in Signals : record.targets[s] # Absent
          /\ env # Ours
          /\ Proceed("forward", Ours, Absent, "settings")
     ELSE /\ Plannable(env)
          /\ Proceed("forward", Ours, Planned(env), "record")
  /\ UNCHANGED claim

InstallReplace ==
  /\ step = "idle"
  /\ Proceed("replace", Ours, Absent, IF env = Ours THEN "clear" ELSE "settings")
  /\ claim' = "released"

SaveRecord ==
  /\ step = "record"
  /\ record' = plan.record /\ step' = "settings"
  /\ UNCHANGED <<env, plan, own, claim, restored, edits>>

----------------------------------------------------------------------------
(* UninstallClaudeOTel.                                                    *)

\* Firehose's values go, the user's come back where there is none now.
WithoutOurs(e) == [k \in Keys |-> IF e[k] = Ours[k] THEN Absent ELSE e[k]]
Restored(e) ==
  [k \in Keys |->
    IF WithoutOurs(e)[k] = Absent /\ record # Absent
    THEN record.original[k] ELSE WithoutOurs(e)[k]]

Recorded == IF record = Absent THEN FALSE ELSE record.original = own

Uninstall ==
  /\ step = "idle"
  /\ Proceed("uninstall", Restored(env), Absent, IF Restored(env) = env THEN "clear" ELSE "settings")
  /\ claim' = IF claim = "kept" /\ ~Recorded THEN "released" ELSE claim

----------------------------------------------------------------------------
(* The last writes of both commands.                                       *)

WriteSettings ==
  /\ step = "settings"
  /\ env' = plan.env
  /\ step' = IF plan.kind \in {"replace", "uninstall"} THEN "clear" ELSE "idle"
  /\ plan' = IF plan.kind \in {"replace", "uninstall"} THEN plan ELSE NoPlan
  /\ UNCHANGED <<record, own, claim, restored, edits>>

ClearRecord ==
  /\ step = "clear"
  /\ record' = Absent /\ step' = "idle" /\ plan' = NoPlan
  /\ claim' = IF plan.kind = "replace" THEN "replaced" ELSE claim
  /\ restored' = (plan.kind = "uninstall")
  /\ UNCHANGED <<env, own, edits>>

\* A write fails, or the command is killed: the rest is not done.
Abort ==
  /\ step # "idle"
  /\ step' = "idle" /\ plan' = NoPlan
  /\ UNCHANGED <<files, own, claim, restored, edits>>

Init ==
  /\ env \in UserEnvs /\ own = env
  /\ record = Absent
  /\ step = "idle" /\ plan = NoPlan
  /\ claim = "kept" /\ restored = FALSE /\ edits = 0

User == \E e \in UserEnvs : Edit(e)
Install == InstallPlain \/ InstallForward \/ InstallReplace \/ SaveRecord
Next == User \/ Install \/ Uninstall \/ WriteSettings \/ ClearRecord \/ Abort
Spec == Init /\ [][Next]_vars

----------------------------------------------------------------------------
(* Properties.                                                             *)

\* Until the user gives it up, a collector gets its signal after every write and
\* every command that breaks off, from Claude or through Firehose: "The
\* forwarding record goes first: if the settings write then fails, Claude still
\* talks to the original collector" (install.go:208-210).
\* After --replace no later command brings it back: "it must still end the relay
\* the user is choosing to give up" (cli_test.go:908-909).
CollectorKept ==
  /\ TypeOK
  /\ claim = "kept" =>
       \A s \in Signals : DestOf(own, s) \in Collectors => Reaches(s) = DestOf(own, s)
  /\ (claim = "replaced" /\ step = "idle") => \A s \in Signals : Reaches(s) \notin Collectors

\* An uninstall that had the record gives the user's block back as it was: "and
\* `firehose uninstall claude-otel` restores them" (docs/adapters.md:118).
RestoresOriginal == (restored /\ claim = "kept") => env = own

\* An uninstall right after an uninstall changes no setting: "Repeat runs are
\* no-ops" (otelforward.go:197).
RepeatIsNoop == (Uninstall /\ restored) => plan'.env = env
=============================================================================
