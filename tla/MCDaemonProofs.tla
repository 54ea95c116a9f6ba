--------------------------- MODULE MCDaemonProofs ---------------------------
(***************************************************************************)
(* Proofs about the machines of MCDaemon, for any choice of them and any   *)
(* bounds. A section for each machine proves an inductive invariant of it; *)
(* the last one puts them together.                                        *)
(***************************************************************************)
EXTENDS MCDaemon, SequenceTheorems, FiniteSetTheorems, NaturalsInduction, WellFoundedInduction, TLAPS

----------------------------------------------------------------------------
(* Hooks and updates of the configuration.                                 *)

file == x1
wanted == x2
up == x3
cfg == x4
policy == x5
update == x6
hook == x7
request == x8
stored == x9
gaveUp == x10
lost == x11
early == x12
excess == x13
updates == x14
faults == x15
starts == x16
USE DEF file, wanted, up, cfg, policy, update, hook, request, stored, gaveUp, lost, early, excess,
        updates, faults, starts

HookPlace == [at: Hooked!Places, mode: Modes, route: BOOLEAN]
HookRequest == [state: Hooked!Requests, mode: Modes]
HookUpdate == [step: {"none", "truncated", "written"}, by: {"none", "daemon", "cli"}, to: Modes]
HookTyped ==
  /\ file \in Modes \cup {Torn} /\ wanted \in Modes
  /\ up \in BOOLEAN /\ cfg \in Modes /\ policy \in Modes
  /\ update \in HookUpdate
  /\ hook \in [Hooks -> HookPlace] /\ request \in [Hooks -> HookRequest]
  /\ stored \in [Hooks -> Nat]
  /\ gaveUp \subseteq Hooks /\ lost \subseteq Hooks /\ early \subseteq Hooks /\ excess \subseteq Hooks
  /\ updates \in Nat /\ faults \in Nat /\ starts \in Nat

\* One update at a time: of the daemon while it runs, of a command while it does not; the file
\* is torn while it is written, and otherwise says what is configured or is about to be.
Updating ==
  /\ update.step = "none" <=> update.by = "none"
  /\ update.by = "daemon" => up
  /\ update.by = "cli" => ~up
  /\ update.step = "none" => file \in {wanted, Torn}
  /\ update.step = "truncated" => file = Torn
  /\ update.step = "written" => file = update.to
  /\ up => policy = wanted

\* Whoever is on the way with another mode than the one configured set out before that, or
\* meets it only now that the file has been written.
Allowed(h) ==
  \/ h \in early
  \/ update.step = "written"
  \/ /\ hook[h].at \in {"loaded", "sending", "local"} => hook[h].mode = wanted
     /\ request[h].state = "admitting" => request[h].mode = wanted

\* What was stored comes from the daemon once and from the hook itself once; from both, only
\* if the hook gave up on an answer.
Count(h) ==
  LET at == hook[h].at
      state == request[h].state
      own == IF at = "done" THEN 1 ELSE 0
      others == IF state \in {"ok", "lost"} THEN 1 ELSE 0
  IN /\ stored[h] <= own + others
     /\ state = "ok" => stored[h] >= 1
     /\ at \in {"new", "loaded"} => state = "none"
     /\ at = "sending" => state # "none"
     /\ at = "local" /\ h \notin gaveUp => state \in {"none", "failed"}
     /\ at = "done" /\ h \notin gaveUp => stored[h] <= 1 /\ state \notin {"flying", "admitting"}
     /\ at = "done" /\ h \notin lost => stored[h] >= 1

HookInv ==
  /\ HookTyped /\ Updating
  /\ \A h \in Hooks : Allowed(h)
  /\ \A h \in Hooks : Count(h)
  /\ excess \subseteq early

LEMMA HookConstants ==
  /\ Torn \notin Modes /\ "balanced" \in Modes
  /\ \A m \in Modes : ~StoresMore(m, m)
  /\ \A b \in HookBudgets : b.updates \in Nat /\ b.faults \in Nat /\ b.starts \in Nat
<1>1. Torn \notin Modes /\ "balanced" \in Modes
  BY DaemonAssumption DEF Modes, Amount
<1>2. \A m \in Modes : ~StoresMore(m, m)
  BY DEF Modes, Amount, StoresMore
<1>3. \A b \in HookBudgets : b.updates \in Nat /\ b.faults \in Nat /\ b.starts \in Nat
  BY DaemonAssumption
<1> QED
  BY <1>1, <1>2, <1>3

LEMMA HookCases ==
  ASSUME HookTyped, Hooked!Next
  PROVE  \/ \E by \in {"daemon", "cli"}, to \in Modes : Hooked!Truncate(by, to) /\ (by = "daemon" <=> up)
         \/ Hooked!WriteConfig \/ Hooked!WriteConfigFails \/ Hooked!FinishUpdate
         \/ Hooked!DaemonStarts \/ Hooked!DaemonDies
         \/ \E h \in Hooks : \/ Hooked!Load(h) \/ Hooked!Send(h) \/ Hooked!TakeLocalRoute(h)
                             \/ Hooked!Answered(h) \/ Hooked!FallBack(h) \/ Hooked!TimesOut(h)
                             \/ Hooked!StoreLocally(h) \/ Hooked!StoreLocallyFails(h)
                             \/ Hooked!Redact(h) \/ Hooked!Append(h) \/ Hooked!AppendFails(h)
<1>1. ASSUME NEW p \in Hooked!Patches, Hooked!UpdateConfig(p)
      PROVE  \E by \in {"daemon", "cli"}, to \in Modes : Hooked!Truncate(by, to) /\ (by = "daemon" <=> up)
  <2> DEFINE to == IF p = Keep THEN cfg ELSE p
  <2>1. to \in Modes
    BY DEF HookTyped, Hooked!Patches
  <2>2. Hooked!Truncate("daemon", to) /\ up
    BY <1>1 DEF Hooked!UpdateConfig
  <2> QED
    BY <2>1, <2>2, Zenon
<1>2. ASSUME NEW m \in Modes, Hooked!SetPrivacy(m)
      PROVE  \E by \in {"daemon", "cli"}, to \in Modes : Hooked!Truncate(by, to) /\ (by = "daemon" <=> up)
  <2>1. Hooked!Truncate("cli", m) /\ ~up /\ "cli" # "daemon"
    BY <1>2 DEF Hooked!SetPrivacy
  <2> QED
    BY <2>1, Zenon
<1> QED
  BY <1>1, <1>2, Zenon DEF Hooked!Next, Hooked!Hook, Hooked!Daemon, Hooked!Configure

\* What a step of one hook, or of its request, may do to its record and to its request.
LEMMA HookTypes ==
  ASSUME HookTyped, Hooked!Next
  PROVE  HookTyped'
<1> USE HookConstants
<1>1. ASSUME NEW by \in {"daemon", "cli"}, NEW to \in Modes, Hooked!Truncate(by, to)
      PROVE  HookTyped'
  BY <1>1 DEF HookTyped, HookUpdate, Hooked!Truncate, Hooked!daemon, Hooked!ghosts
<1>2. CASE Hooked!WriteConfig
  BY <1>2 DEF HookTyped, HookUpdate, Hooked!WriteConfig, Hooked!daemon, Hooked!ghosts, Hooked!bounds
<1>3. CASE Hooked!WriteConfigFails
  BY <1>3 DEF HookTyped, HookUpdate, Hooked!WriteConfigFails, Hooked!Idle, Hooked!daemon, Hooked!ghosts
<1>4. CASE Hooked!FinishUpdate
  BY <1>4 DEF HookTyped, HookUpdate, Hooked!FinishUpdate, Hooked!Idle, Hooked!Configured, Hooked!OnTheirWay, Hooked!bounds
<1>5. CASE Hooked!DaemonStarts
  BY <1>5 DEF HookTyped, Hooked!DaemonStarts, Hooked!ghosts
<1>6. CASE Hooked!DaemonDies
  <2>1. request' \in [Hooks -> HookRequest]
    BY <1>6 DEF HookTyped, HookRequest, Hooked!DaemonDies, Hooked!Requests
  <2>2. update' \in HookUpdate
    BY <1>6 DEF HookTyped, HookUpdate, Hooked!DaemonDies, Hooked!Idle
  <2>3. wanted' \in Modes /\ early' \subseteq Hooks
    BY <1>6 DEF HookTyped, Hooked!DaemonDies, Hooked!Configured, Hooked!OnTheirWay
  <2>4. faults' \in Nat
    <3>1. faults > 0 /\ faults' = faults - 1
      BY <1>6, Zenon DEF Hooked!DaemonDies
    <3>2. faults \in Nat
      BY DEF HookTyped
    <3> QED
      BY <3>1, <3>2
  <2>6. up' \in BOOLEAN
    BY <1>6 DEF Hooked!DaemonDies
  <2>5. UNCHANGED <<file, cfg, policy, hook, stored, gaveUp, lost, excess, updates, starts>>
    BY <1>6 DEF Hooked!DaemonDies
  <2> HIDE DEF file, wanted, up, cfg, policy, update, hook, request, stored, gaveUp, lost, early, excess,
               updates, faults, starts
  <2> QED
    BY <2>1, <2>2, <2>3, <2>4, <2>5, <2>6 DEF HookTyped
<1>7. ASSUME NEW h \in Hooks
      PROVE  /\ \A place \in Hooked!Places : Hooked!Goes(h, place) => hook' \in [Hooks -> HookPlace]
             /\ \A state \in Hooked!Requests :
                  request' = [request EXCEPT ![h].state = state] => request' \in [Hooks -> HookRequest]
             /\ \A m \in Modes : Hooked!Store(h, m) => /\ stored' \in [Hooks -> Nat]
                                                       /\ excess' \subseteq Hooks
  <2>1. ASSUME NEW place \in Hooked!Places, Hooked!Goes(h, place)
        PROVE  hook' \in [Hooks -> HookPlace]
    BY <2>1 DEF HookTyped, HookPlace, Hooked!Goes
  <2>2. ASSUME NEW state \in Hooked!Requests, request' = [request EXCEPT ![h].state = state]
        PROVE  request' \in [Hooks -> HookRequest]
    BY <2>2 DEF HookTyped, HookRequest
  <2>3. ASSUME NEW m \in Modes, Hooked!Store(h, m)
        PROVE  stored' \in [Hooks -> Nat] /\ excess' \subseteq Hooks
    BY <2>3 DEF HookTyped, Hooked!Store
  <2> QED
    BY <2>1, <2>2, <2>3
<1>8. ASSUME NEW h \in Hooks, Hooked!Load(h)
      PROVE  HookTyped'
  <2>1. hook' \in [Hooks -> HookPlace]
    BY <1>8 DEF HookTyped, HookPlace, Hooked!Load, Hooked!Places
  <2> QED
    BY <1>8, <2>1 DEF HookTyped, Hooked!Load, Hooked!daemon, Hooked!bounds
<1>9. ASSUME NEW h \in Hooks, Hooked!Send(h) \/ Hooked!TakeLocalRoute(h) \/ Hooked!Answered(h)
      PROVE  HookTyped'
  <2>1. hook' \in [Hooks -> HookPlace] /\ request' \in [Hooks -> HookRequest]
    BY <1>7, <1>9 DEF HookTyped, Hooked!Send, Hooked!TakeLocalRoute, Hooked!Answered, Hooked!Places, Hooked!Requests
  <2> QED
    BY <1>9, <2>1 DEF HookTyped, Hooked!Send, Hooked!TakeLocalRoute, Hooked!Answered, Hooked!daemon,
                      Hooked!ghosts, Hooked!bounds
<1>10. ASSUME NEW h \in Hooks, Hooked!FallBack(h) \/ Hooked!TimesOut(h)
       PROVE  HookTyped'
  <2>1. hook' \in [Hooks -> HookPlace]
    BY <1>7, <1>10 DEF Hooked!FallBack, Hooked!TimesOut, Hooked!Places
  <2> QED
    BY <1>10, <2>1 DEF HookTyped, Hooked!FallBack, Hooked!TimesOut, Hooked!daemon, Hooked!bounds
<1>11. ASSUME NEW h \in Hooks, Hooked!StoreLocally(h)
       PROVE  HookTyped'
  <2>1. hook' \in [Hooks -> HookPlace] /\ hook[h].mode \in Modes
    BY <1>7, <1>11 DEF HookTyped, HookPlace, Hooked!StoreLocally, Hooked!Places
  <2>2. stored' \in [Hooks -> Nat] /\ excess' \subseteq Hooks
    BY <1>7, <1>11, <2>1 DEF Hooked!StoreLocally
  <2> QED
    BY <1>11, <2>1, <2>2 DEF HookTyped, Hooked!StoreLocally, Hooked!daemon, Hooked!ghosts, Hooked!bounds
<1>12. ASSUME NEW h \in Hooks, Hooked!StoreLocallyFails(h)
       PROVE  HookTyped'
  <2>1. hook' \in [Hooks -> HookPlace]
    BY <1>7, <1>12 DEF Hooked!StoreLocallyFails, Hooked!Places
  <2> QED
    BY <1>12, <2>1 DEF HookTyped, Hooked!StoreLocallyFails, Hooked!daemon
<1>13. ASSUME NEW h \in Hooks, Hooked!Redact(h)
       PROVE  HookTyped'
  <2>1. request' \in [Hooks -> HookRequest]
    BY <1>13 DEF HookTyped, HookRequest, Hooked!Redact, Hooked!Requests
  <2> QED
    BY <1>13, <2>1 DEF HookTyped, Hooked!Redact, Hooked!daemon, Hooked!ghosts, Hooked!bounds
<1>14. ASSUME NEW h \in Hooks, Hooked!Append(h)
       PROVE  HookTyped'
  <2>1. request' \in [Hooks -> HookRequest] /\ request[h].mode \in Modes
    BY <1>7, <1>14 DEF HookTyped, HookRequest, Hooked!Append, Hooked!Requests
  <2>2. stored' \in [Hooks -> Nat] /\ excess' \subseteq Hooks
    BY <1>7, <1>14, <2>1 DEF Hooked!Append
  <2> QED
    BY <1>14, <2>1, <2>2 DEF HookTyped, Hooked!Append, Hooked!daemon, Hooked!ghosts, Hooked!bounds
<1>15. ASSUME NEW h \in Hooks, Hooked!AppendFails(h)
       PROVE  HookTyped'
  <2>1. request' \in [Hooks -> HookRequest]
    BY <1>7, <1>15 DEF Hooked!AppendFails, Hooked!Requests
  <2> QED
    BY <1>15, <2>1 DEF HookTyped, Hooked!AppendFails, Hooked!daemon, Hooked!ghosts
<1> QED
  BY <1>1, <1>2, <1>3, <1>4, <1>5, <1>6, <1>8, <1>9, <1>10, <1>11, <1>12, <1>13, <1>14, <1>15, HookCases, Zenon

LEMMA HookUpdating ==
  ASSUME HookTyped, Updating, Hooked!Next
  PROVE  Updating'
<1> USE HookConstants
<1>1. ASSUME NEW by \in {"daemon", "cli"}, NEW to \in Modes, Hooked!Truncate(by, to), by = "daemon" <=> up
      PROVE  Updating'
  BY <1>1 DEF HookTyped, Updating, Hooked!Truncate, Hooked!daemon
<1>2. CASE Hooked!WriteConfig
  BY <1>2 DEF HookTyped, HookUpdate, Updating, Hooked!WriteConfig, Hooked!daemon
<1>3. CASE Hooked!WriteConfigFails
  BY <1>3 DEF HookTyped, Updating, Hooked!WriteConfigFails, Hooked!Idle, Hooked!daemon
<1>4. CASE Hooked!FinishUpdate
  BY <1>4 DEF HookTyped, HookUpdate, Updating, Hooked!FinishUpdate, Hooked!Idle, Hooked!Configured
<1>5. CASE Hooked!DaemonStarts
  BY <1>5 DEF HookTyped, Updating, Hooked!DaemonStarts
<1>6. CASE Hooked!DaemonDies
  BY <1>6 DEF HookTyped, HookUpdate, Updating, Hooked!DaemonDies, Hooked!Idle, Hooked!Configured
<1>7. ASSUME UNCHANGED <<file, wanted, up, policy, update>>
      PROVE  Updating'
  BY <1>7 DEF Updating
<1>8. ASSUME NEW h \in Hooks,
             \/ Hooked!Load(h) \/ Hooked!Send(h) \/ Hooked!TakeLocalRoute(h)
             \/ Hooked!Answered(h) \/ Hooked!FallBack(h) \/ Hooked!TimesOut(h)
             \/ Hooked!StoreLocally(h) \/ Hooked!StoreLocallyFails(h)
             \/ Hooked!Redact(h) \/ Hooked!Append(h) \/ Hooked!AppendFails(h)
      PROVE  UNCHANGED <<file, wanted, up, policy, update>>
  BY <1>8, Zenon DEF Hooked!Load, Hooked!Send, Hooked!TakeLocalRoute, Hooked!Answered, Hooked!FallBack, Hooked!TimesOut,
             Hooked!StoreLocally, Hooked!StoreLocallyFails, Hooked!Redact, Hooked!Append, Hooked!AppendFails,
             Hooked!daemon
<1> QED
  BY <1>1, <1>2, <1>3, <1>4, <1>5, <1>6, <1>7, <1>8, HookCases, Zenon

\* A hook whose own record and request do not move stays allowed, unless what is configured
\* changes, and then it is early.
LEMMA HookAllowed ==
  ASSUME HookInv, Hooked!Next
  PROVE  \A h \in Hooks : Allowed(h)'
<1> USE HookConstants
<1>1. ASSUME NEW by \in {"daemon", "cli"}, NEW to \in Modes, Hooked!Truncate(by, to), by = "daemon" <=> up
      PROVE  \A h \in Hooks : Allowed(h)'
  BY <1>1 DEF HookInv, Allowed, Hooked!Truncate, Hooked!ghosts
<1>2. CASE Hooked!WriteConfig
  BY <1>2 DEF HookInv, HookTyped, HookUpdate, Allowed, Hooked!WriteConfig
<1>3. CASE Hooked!WriteConfigFails
  BY <1>3 DEF HookInv, Allowed, Hooked!WriteConfigFails, Hooked!ghosts
<1>4. CASE Hooked!FinishUpdate
  BY <1>4 DEF Allowed, HookInv, HookTyped, HookPlace, Hooked!Places, Hooked!FinishUpdate, Hooked!Configured, Hooked!OnTheirWay
<1>5. CASE Hooked!DaemonStarts
  BY <1>5 DEF HookInv, Allowed, Hooked!DaemonStarts, Hooked!ghosts
<1>6. CASE Hooked!DaemonDies
  <2>1. early' = early \cup Hooked!OnTheirWay /\ hook' = hook
    BY <1>6 DEF Hooked!DaemonDies, Hooked!Configured
  <2>2. \A h \in Hooks : request'[h].state # "admitting"
    BY <1>6 DEF Hooked!DaemonDies, HookInv, HookTyped, HookRequest
  <2> QED
    BY <2>1, <2>2 DEF Allowed, HookInv, HookTyped, HookPlace, Hooked!Places, Hooked!OnTheirWay
<1>7. ASSUME NEW h \in Hooks, UNCHANGED <<wanted, update>>, early \subseteq early',
             hook'[h] = hook[h], request'[h] = request[h]
      PROVE  Allowed(h)'
  BY <1>7 DEF HookInv, Allowed
<1>8. ASSUME NEW h \in Hooks,
             \/ Hooked!Load(h) \/ Hooked!Send(h) \/ Hooked!TakeLocalRoute(h)
             \/ Hooked!Answered(h) \/ Hooked!FallBack(h) \/ Hooked!TimesOut(h)
             \/ Hooked!StoreLocally(h) \/ Hooked!StoreLocallyFails(h)
             \/ Hooked!Redact(h) \/ Hooked!Append(h) \/ Hooked!AppendFails(h)
      PROVE  /\ UNCHANGED <<wanted, update>> /\ early \subseteq early'
             /\ \A g \in Hooks \ {h} : hook'[g] = hook[g] /\ request'[g] = request[g]
  BY <1>8 DEF HookInv, HookTyped, Hooked!Load, Hooked!Send, Hooked!TakeLocalRoute, Hooked!Answered, Hooked!FallBack,
              Hooked!TimesOut, Hooked!StoreLocally, Hooked!StoreLocallyFails, Hooked!Redact, Hooked!Append,
              Hooked!AppendFails, Hooked!Goes, Hooked!ghosts
<1>9. ASSUME NEW h \in Hooks, Hooked!Load(h)
      PROVE  Allowed(h)'
  BY <1>9 DEF HookInv, HookTyped, HookUpdate, HookRequest, Updating, Allowed, Count, Hooked!Load
<1>10. ASSUME NEW h \in Hooks, Hooked!Redact(h)
       PROVE  Allowed(h)'
  BY <1>10 DEF HookInv, HookTyped, Updating, Allowed, Hooked!Redact, Hooked!ghosts
<1>11. ASSUME NEW h \in Hooks,
              \/ Hooked!Send(h) \/ Hooked!TakeLocalRoute(h)
              \/ Hooked!Answered(h) \/ Hooked!FallBack(h) \/ Hooked!TimesOut(h)
              \/ Hooked!StoreLocally(h) \/ Hooked!StoreLocallyFails(h) \/ Hooked!Append(h) \/ Hooked!AppendFails(h)
       PROVE  Allowed(h)'
  <2>1. /\ hook'[h].mode = hook[h].mode /\ UNCHANGED <<wanted, update, early>>
        /\ hook[h].at \in {"loaded", "sending", "local"} \/ hook'[h].at = hook[h].at
    BY <1>11 DEF HookInv, HookTyped, HookPlace, Hooked!Send, Hooked!TakeLocalRoute, Hooked!Answered, Hooked!FallBack,
              Hooked!TimesOut, Hooked!StoreLocally, Hooked!StoreLocallyFails, Hooked!Append,
              Hooked!AppendFails, Hooked!Goes, Hooked!ghosts
  <2>2. request'[h].mode = request[h].mode /\ (request'[h].state = request[h].state \/ request'[h].state # "admitting")
    BY <1>11 DEF HookInv, HookTyped, HookRequest, Hooked!Send, Hooked!TakeLocalRoute, Hooked!Answered, Hooked!FallBack,
              Hooked!TimesOut, Hooked!StoreLocally, Hooked!StoreLocallyFails, Hooked!Append,
              Hooked!AppendFails
  <2> QED
    BY <2>1, <2>2 DEF HookInv, Allowed
<1>12. ASSUME NEW h \in Hooks,
              \/ Hooked!Load(h) \/ Hooked!Send(h) \/ Hooked!TakeLocalRoute(h)
              \/ Hooked!Answered(h) \/ Hooked!FallBack(h) \/ Hooked!TimesOut(h)
              \/ Hooked!StoreLocally(h) \/ Hooked!StoreLocallyFails(h)
              \/ Hooked!Redact(h) \/ Hooked!Append(h) \/ Hooked!AppendFails(h)
       PROVE  \A g \in Hooks : Allowed(g)'
  <2>1. Allowed(h)'
    BY <1>9, <1>10, <1>11, <1>12, Zenon
  <2> QED
    BY <1>7, <1>8, <1>12, <2>1, Zenon
<1> QED
  BY <1>1, <1>2, <1>3, <1>4, <1>5, <1>6, <1>12, HookCases, Zenon DEF HookInv

LEMMA HookCounts ==
  ASSUME HookInv, Hooked!Next
  PROVE  \A h \in Hooks : Count(h)'
<1>1. ASSUME UNCHANGED <<hook, request, stored, gaveUp, lost>>
      PROVE  \A h \in Hooks : Count(h)'
  BY <1>1 DEF HookInv, Count
<1>2. ASSUME \/ \E by \in {"daemon", "cli"}, to \in Modes : Hooked!Truncate(by, to)
             \/ Hooked!WriteConfig \/ Hooked!WriteConfigFails \/ Hooked!FinishUpdate \/ Hooked!DaemonStarts
      PROVE  UNCHANGED <<hook, request, stored, gaveUp, lost>>
  BY <1>2, Zenon DEF Hooked!Truncate, Hooked!WriteConfig, Hooked!WriteConfigFails, Hooked!FinishUpdate,
                     Hooked!DaemonStarts, Hooked!Configured, Hooked!ghosts
<1>3. CASE Hooked!DaemonDies
  <2>1. UNCHANGED <<hook, stored, gaveUp, lost>>
    BY <1>3 DEF Hooked!DaemonDies
  <2>2. \A h \in Hooks : \/ request'[h].state = request[h].state /\ request[h].state # "ok"
                         \/ request'[h].state = "lost" /\ request[h].state \in {"flying", "admitting", "ok"}
    BY <1>3 DEF Hooked!DaemonDies, HookInv, HookTyped, HookRequest
  <2> QED
    BY <2>1, <2>2 DEF HookInv, HookTyped, Count
<1>4. ASSUME NEW h \in Hooks, hook'[h] = hook[h], request'[h] = request[h], stored'[h] = stored[h],
             gaveUp \subseteq gaveUp', lost \subseteq lost', h \in lost' => h \in lost
      PROVE  Count(h)'
  BY <1>4 DEF HookInv, HookTyped, Count
<1>5. ASSUME NEW h \in Hooks,
             \/ Hooked!Load(h) \/ Hooked!Send(h) \/ Hooked!TakeLocalRoute(h)
             \/ Hooked!Answered(h) \/ Hooked!FallBack(h) \/ Hooked!TimesOut(h)
             \/ Hooked!StoreLocally(h) \/ Hooked!StoreLocallyFails(h)
             \/ Hooked!Redact(h) \/ Hooked!Append(h) \/ Hooked!AppendFails(h)
      PROVE  /\ gaveUp \subseteq gaveUp' /\ lost \subseteq lost'
             /\ \A g \in Hooks \ {h} : /\ hook'[g] = hook[g] /\ request'[g] = request[g] /\ stored'[g] = stored[g]
                                       /\ g \in lost' => g \in lost
  BY <1>5 DEF HookInv, HookTyped, Hooked!Load, Hooked!Send, Hooked!TakeLocalRoute, Hooked!Answered, Hooked!FallBack,
              Hooked!TimesOut, Hooked!StoreLocally, Hooked!StoreLocallyFails, Hooked!Redact, Hooked!Append,
              Hooked!AppendFails, Hooked!Goes, Hooked!Store, Hooked!ghosts
<1>6. ASSUME NEW h \in Hooks, Hooked!Load(h)
      PROVE  Count(h)'
  BY <1>6 DEF HookInv, HookTyped, HookRequest, Count, Hooked!Load
<1>7. ASSUME NEW h \in Hooks, Hooked!Send(h) \/ Hooked!TakeLocalRoute(h)
      PROVE  Count(h)'
  BY <1>7 DEF HookInv, HookTyped, HookPlace, HookRequest, Count, Hooked!Send, Hooked!TakeLocalRoute, Hooked!Goes, Hooked!ghosts
<1>8. ASSUME NEW h \in Hooks, Hooked!Answered(h)
      PROVE  Count(h)'
  BY <1>8 DEF HookInv, HookTyped, HookPlace, HookRequest, Count, Hooked!Answered, Hooked!Goes, Hooked!ghosts
<1>9. ASSUME NEW h \in Hooks, Hooked!FallBack(h)
      PROVE  Count(h)'
  BY <1>9 DEF HookInv, HookTyped, HookPlace, HookRequest, Count, Hooked!FallBack, Hooked!Goes
<1>10. ASSUME NEW h \in Hooks, Hooked!TimesOut(h)
       PROVE  Count(h)'
  BY <1>10 DEF HookInv, HookTyped, HookPlace, HookRequest, Count, Hooked!TimesOut, Hooked!Goes
<1>11. ASSUME NEW h \in Hooks, Hooked!StoreLocally(h)
       PROVE  Count(h)'
  BY <1>11 DEF HookInv, HookTyped, HookPlace, HookRequest, Count, Hooked!StoreLocally, Hooked!Store, Hooked!Goes, Hooked!ghosts
<1>12. ASSUME NEW h \in Hooks, Hooked!StoreLocallyFails(h)
       PROVE  Count(h)'
  BY <1>12 DEF HookInv, HookTyped, HookPlace, HookRequest, Count, Hooked!StoreLocallyFails, Hooked!Goes
<1>13. ASSUME NEW h \in Hooks, Hooked!Redact(h)
       PROVE  Count(h)'
  BY <1>13 DEF HookInv, HookTyped, HookPlace, HookRequest, Count, Hooked!Redact, Hooked!ghosts
<1>14. ASSUME NEW h \in Hooks, Hooked!Append(h)
       PROVE  Count(h)'
  BY <1>14 DEF HookInv, HookTyped, HookPlace, HookRequest, Count, Hooked!Append, Hooked!Store, Hooked!ghosts
<1>15. ASSUME NEW h \in Hooks, Hooked!AppendFails(h)
       PROVE  Count(h)'
  BY <1>15 DEF HookInv, HookTyped, HookPlace, HookRequest, Count, Hooked!AppendFails, Hooked!ghosts
<1>16. ASSUME NEW h \in Hooks,
             \/ Hooked!Load(h) \/ Hooked!Send(h) \/ Hooked!TakeLocalRoute(h)
             \/ Hooked!Answered(h) \/ Hooked!FallBack(h) \/ Hooked!TimesOut(h)
             \/ Hooked!StoreLocally(h) \/ Hooked!StoreLocallyFails(h)
             \/ Hooked!Redact(h) \/ Hooked!Append(h) \/ Hooked!AppendFails(h)
       PROVE  \A g \in Hooks : Count(g)'
  <2>1. Count(h)'
    BY <1>6, <1>7, <1>8, <1>9, <1>10, <1>11, <1>12, <1>13, <1>14, <1>15, <1>16, Zenon
  <2> QED
    BY <1>4, <1>5, <1>16, <2>1, Zenon
<1> QED
  BY <1>1, <1>2, <1>3, <1>16, HookCases, Zenon DEF HookInv

LEMMA HookExcess ==
  ASSUME HookInv, Hooked!Next
  PROVE  excess' \subseteq early'
<1> USE HookConstants
<1>1. ASSUME NEW h \in Hooks, NEW m \in Modes, Hooked!Store(h, m),
             h \in early \/ m = wanted \/ update.step # "none"
      PROVE  excess' \subseteq early
  BY <1>1 DEF HookInv, Hooked!Store
<1>2. ASSUME NEW h \in Hooks, Hooked!Append(h)
      PROVE  excess' \subseteq early'
  BY <1>1, <1>2 DEF HookInv, HookTyped, HookRequest, Allowed, Hooked!Append, Hooked!ghosts
<1>3. ASSUME NEW h \in Hooks, Hooked!StoreLocally(h)
      PROVE  excess' \subseteq early'
  BY <1>1, <1>3 DEF HookInv, HookTyped, HookPlace, Allowed, Hooked!StoreLocally, Hooked!ghosts
<1>4. ASSUME \/ \E by \in {"daemon", "cli"}, to \in Modes : Hooked!Truncate(by, to)
             \/ Hooked!WriteConfig \/ Hooked!WriteConfigFails \/ Hooked!FinishUpdate
             \/ Hooked!DaemonStarts \/ Hooked!DaemonDies
             \/ \E h \in Hooks : \/ Hooked!Load(h) \/ Hooked!Send(h) \/ Hooked!TakeLocalRoute(h)
                                 \/ Hooked!Answered(h) \/ Hooked!FallBack(h) \/ Hooked!TimesOut(h)
                                 \/ Hooked!StoreLocallyFails(h) \/ Hooked!Redact(h) \/ Hooked!AppendFails(h)
      PROVE  excess' = excess /\ early \subseteq early'
  BY <1>4 DEF Hooked!Truncate, Hooked!WriteConfig, Hooked!WriteConfigFails, Hooked!FinishUpdate, Hooked!DaemonStarts,
              Hooked!DaemonDies, Hooked!Configured, Hooked!Load, Hooked!Send, Hooked!TakeLocalRoute, Hooked!Answered,
              Hooked!FallBack, Hooked!TimesOut, Hooked!StoreLocallyFails, Hooked!Redact, Hooked!AppendFails, Hooked!ghosts
<1>5. excess \subseteq early
  BY DEF HookInv
<1>6. excess' = excess /\ early \subseteq early' => excess' \subseteq early'
  BY <1>5
<1> QED
  BY <1>2, <1>3, <1>4, <1>6, HookCases, Zenon DEF HookInv

LEMMA HookStep == ASSUME HookInv, [Hooked!Next]_(Hooked!vars) PROVE HookInv'
<1>1. CASE Hooked!Next
  BY <1>1, HookTypes, HookUpdating, HookAllowed, HookCounts, HookExcess DEF HookInv
<1>2. CASE UNCHANGED Hooked!vars
  BY <1>2 DEF HookInv, HookTyped, Updating, Allowed, Count, Hooked!vars, Hooked!daemon, Hooked!ghosts, Hooked!bounds
<1> QED
  BY <1>1, <1>2

LEMMA HookInit == ASSUME Hooked!Init PROVE HookInv
<1> USE HookConstants
<1>1. HookTyped
  BY DEF Hooked!Init, Hooked!Idle, HookTyped, HookUpdate, HookPlace, HookRequest, Hooked!Places, Hooked!Requests
<1>2. Updating
  BY DEF Hooked!Init, Hooked!Idle, Updating
<1> QED
  BY <1>1, <1>2 DEF Hooked!Init, HookInv, Allowed, Count

LEMMA HookMeans ==
  ASSUME HookInv
  PROVE  Hooked!NeverLost /\ Hooked!TwiceOnlyIfUnanswered /\ Hooked!WithinMode
<1>1. Hooked!NeverLost
  BY DEF HookInv, HookTyped, Count, Hooked!NeverLost, Hooked!Finished
<1>2. Hooked!TwiceOnlyIfUnanswered
  BY DEF HookInv, HookTyped, HookPlace, HookRequest, Count, Hooked!Places, Hooked!TwiceOnlyIfUnanswered
<1>3. Hooked!WithinMode
  BY DEF HookInv, HookTyped, HookUpdate, HookPlace, HookRequest, Hooked!WithinMode, Hooked!TypeOK
<1> QED
  BY <1>1, <1>2, <1>3

----------------------------------------------------------------------------
(* Worktrees.                                                              *)

main == x1
tree == x2
diverged == x3
mark == x4
clock == x5
alive == x6
listing == x7
snap == x8
step == x9
now == x10
records == x11
kept == x12
latest == x13
failed == x14
told == x15
moves == x16
mishaps == x17
USE DEF main, tree, diverged, mark, clock, alive, listing, snap, step, now, records, kept, latest,
        failed, told, moves, mishaps

\* The incarnation n of a worktree is over: a later one may be there.
Over(p, n) == ~tree[p].there \/ tree[p].life > n

\* Git lists what is there; commits of its own are remembered of an incarnation.
TreesSound ==
  \A p \in Paths :
    /\ tree[p].there => tree[p].listed
    /\ tree[p].head \subseteq main \/ <<p, tree[p].life>> \in diverged

\* A head that was seen was of an incarnation that diverged, or was reachable then.
HeadSound(p, head, life, rev) ==
  /\ life <= tree[p].life
  /\ head \subseteq rev \/ <<p, life>> \in diverged

\* What a record says was so when it was written: it began and ended with incarnations that
\* there were, diverged with one of them, and is settled after it is over.
RecordSound(p, r) ==
  /\ r.from <= r.to /\ r.to <= tree[p].life
  /\ ~r.present => Over(p, r.to) /\ r.outcome \in Worktree!Outcomes
  /\ r.ever => \E life \in r.from..r.to : <<p, life>> \in diverged
  /\ r.present /\ r.compared /\ ~r.ahead => r.head \subseteq main
  /\ ~r.present /\ r.outcome \in {"landed", "never_diverged"} => r.head \subseteq main

RecordsSound ==
  \A p \in Paths :
    /\ records[p] # None => RecordSound(p, records[p])
    /\ kept[p] # None => RecordSound(p, kept[p])
    /\ latest # None /\ latest.records[p] # None => RecordSound(p, latest.records[p])

\* The incarnation n is no later than what a later look found, and over if that found none.
After(p, n, e) == IF e = None THEN Over(p, n) ELSE n <= e.life

\* The snapshot is later than the records, and a list that is not yet one is later than both.
SnapFollows ==
  snap # None =>
    /\ snap.target \subseteq main
    /\ \A p \in Paths :
         /\ snap.trees[p] # None => HeadSound(p, snap.trees[p].head, snap.trees[p].life, snap.target)
         /\ records[p] # None => After(p, records[p].to, snap.trees[p])
ListFollows ==
  listing # None => \A p \in Paths :
    /\ listing[p] # None => HeadSound(p, listing[p].head, listing[p].life, main)
    /\ records[p] # None => After(p, records[p].to, listing[p])
    /\ snap # None /\ snap.trees[p] # None => After(p, snap.trees[p].life, listing[p])
Down == ~alive => listing = None /\ snap = None /\ \A p \in Paths : records[p] = None

TreeInv ==
  /\ Worktree!TypeOK /\ TreesSound /\ RecordsSound /\ SnapFollows /\ ListFollows /\ Down

LEMMA TreeCardinality ==
  ASSUME NEW bad \in SUBSET Paths
  PROVE  Worktree!Cardinality(bad) \in Nat
<1>1. IsFiniteSet(Paths)
  BY DaemonAssumption
<1>2. Cardinality(bad) \in Nat
  BY <1>1, FS_Subset, FS_CardinalityType
<1>3. Worktree!Cardinality(bad) = Cardinality(bad)
  BY Zenon DEF Worktree!Cardinality, Cardinality
<1> QED
  BY <1>2, <1>3

\* What git and its users do only adds commits, divergence and incarnations.
WorldGoes ==
  /\ main \subseteq main' /\ diverged \subseteq diverged'
  /\ \A p \in Paths : /\ tree[p].life <= tree'[p].life
                      /\ \A n \in 0..tree[p].life : Over(p, n) => Over(p, n)'

LEMMA WorldSame ==
  ASSUME Worktree!TypeOK, TreesSound, tree' \in [Paths -> Worktree!Trees], UNCHANGED <<main, diverged>>,
         \A q \in Paths : /\ tree'[q].there => tree[q].there /\ tree'[q].listed
                          /\ tree'[q].head = tree[q].head /\ tree'[q].life = tree[q].life
  PROVE  WorldGoes /\ TreesSound'
<1>1. \A p \in Paths : tree[p].life \in Nat
  BY DEF Worktree!TypeOK, Worktree!Trees
<1>2. \A p \in Paths, n \in Nat : Over(p, n) => Over(p, n)'
  BY Zenon DEF Over
<1>3. \A p \in Paths : tree[p].life <= tree'[p].life
  BY <1>1
<1>4. TreesSound'
  BY Zenon DEF TreesSound
<1> QED
  BY <1>1, <1>2, <1>3, <1>4 DEF WorldGoes

LEMMA WorldSteps ==
  ASSUME Worktree!TypeOK, TreesSound, Worktree!World
  PROVE  /\ WorldGoes /\ TreesSound'
         /\ main' \in Worktree!Revisions /\ tree' \in [Paths -> Worktree!Trees] /\ diverged' \subseteq Paths \X Nat
         /\ mark' \in [Paths -> Nat] /\ clock' \in Nat /\ moves' \in Nat
         /\ UNCHANGED <<alive, listing, snap, step, now, records, kept, latest, failed, told, mishaps>>
<1> DEFINE Typed == /\ main' \in Worktree!Revisions /\ tree' \in [Paths -> Worktree!Trees] /\ diverged' \subseteq Paths \X Nat
                    /\ mark' \in [Paths -> Nat] /\ clock' \in Nat
<1>1. /\ moves' \in Nat
      /\ UNCHANGED <<alive, listing, snap, step, now, records, kept, latest, failed, told, mishaps>>
  <2>1. moves \in Nat /\ moves > 0 /\ moves' = moves - 1
    BY Zenon DEF Worktree!TypeOK, Worktree!World, Worktree!Move
  <2>2. UNCHANGED <<alive, listing, snap, step, now, records, kept, latest, failed, told, mishaps>>
    BY Zenon DEF Worktree!World, Worktree!Move, Worktree!ghosts
  <2> QED
    BY <2>1, <2>2
<1>0. /\ main \in Worktree!Revisions /\ tree \in [Paths -> Worktree!Trees] /\ diverged \subseteq Paths \X Nat
      /\ mark \in [Paths -> Nat] /\ clock \in Nat
  BY DEF Worktree!TypeOK
<1>2. ASSUME NEW p \in Paths, Worktree!Add(p)
      PROVE  WorldGoes /\ TreesSound' /\ Typed
  BY <1>0, <1>2 DEF TreesSound, WorldGoes, Over, Worktree!Add, Worktree!Trees, Worktree!Revisions
<1>3. ASSUME NEW p \in Paths, Worktree!Merge(p)
      PROVE  WorldGoes /\ TreesSound' /\ Typed
  BY <1>0, <1>3 DEF TreesSound, WorldGoes, Over, Worktree!Merge, Worktree!Trees, Worktree!Revisions
<1>4. ASSUME NEW p \in Paths, Worktree!Reset(p)
      PROVE  WorldGoes /\ TreesSound' /\ Typed
  BY <1>0, <1>4 DEF TreesSound, WorldGoes, Over, Worktree!Reset, Worktree!Trees, Worktree!Revisions
<1>5. ASSUME NEW p \in Paths, Worktree!Hide(p)
      PROVE  WorldGoes /\ TreesSound' /\ Typed
  <2>1. tree' \in [Paths -> Worktree!Trees]
    BY <1>0, <1>5 DEF Worktree!Hide, Worktree!Trees
  <2>2. /\ UNCHANGED <<main, diverged, mark, clock>>
        /\ \A q \in Paths : /\ tree'[q].there = tree[q].there /\ tree'[q].listed = tree[q].listed
                            /\ tree'[q].head = tree[q].head /\ tree'[q].life = tree[q].life
    BY <1>0, <1>5 DEF Worktree!Hide, Worktree!Trees
  <2>3. \A q \in Paths : tree'[q].there => tree[q].there /\ tree'[q].listed
    BY <2>2, Zenon DEF TreesSound
  <2> QED
    BY <1>0, <2>1, <2>2, <2>3, WorldSame
<1>6. ASSUME NEW p \in Paths, NEW c \in Commits, NEW marked \in BOOLEAN, Worktree!Work(p, c, marked)
      PROVE  WorldGoes /\ TreesSound' /\ Typed
  BY <1>0, <1>6 DEF TreesSound, WorldGoes, Over, Worktree!Work, Worktree!Trees, Worktree!Revisions
<1>7. ASSUME NEW p \in Paths, NEW listed \in BOOLEAN, Worktree!Remove(p, listed)
      PROVE  WorldGoes /\ TreesSound' /\ Typed
  <2>1. tree' \in [Paths -> Worktree!Trees]
    BY <1>0, <1>7 DEF Worktree!Remove, Worktree!Trees
  <2>2. /\ UNCHANGED <<main, diverged, mark, clock>>
        /\ \A q \in Paths : /\ tree'[q].there => tree[q].there /\ tree'[q].listed
                            /\ tree'[q].head = tree[q].head /\ tree'[q].life = tree[q].life
    BY <1>0, <1>7 DEF Worktree!Remove, Worktree!Trees, TreesSound
  <2> QED
    BY <1>0, <2>1, <2>2, WorldSame
<1>8. WorldGoes /\ TreesSound' /\ Typed
  BY <1>2, <1>3, <1>4, <1>5, <1>6, <1>7, Zenon DEF Worktree!World
<1> QED
  BY <1>1, <1>8

LEMMA WorldRests ==
  ASSUME Worktree!TypeOK, TreesSound, UNCHANGED <<main, tree, diverged>>
  PROVE  WorldGoes /\ TreesSound'
<1>1. tree' \in [Paths -> Worktree!Trees]
  BY DEF Worktree!TypeOK
<1>2. \A q \in Paths : /\ tree'[q].there => tree[q].there /\ tree'[q].listed
                       /\ tree'[q].head = tree[q].head /\ tree'[q].life = tree[q].life
  BY Zenon DEF TreesSound
<1> QED
  BY <1>1, <1>2, WorldSame

\* What was sound of a head or of a record stays so.
LEMMA HeadStays ==
  ASSUME Worktree!TypeOK, TreesSound, WorldGoes, TreesSound', tree' \in [Paths -> Worktree!Trees],
         NEW p \in Paths, NEW head, NEW life \in Nat, NEW rev, NEW later, rev \subseteq later, HeadSound(p, head, life, rev)
  PROVE  /\ HeadSound(p, head, life, later)'
         /\ Over(p, life) => Over(p, life)'
<1>1. tree[p].life \in Nat /\ tree'[p].life \in Nat
  BY DEF Worktree!TypeOK, Worktree!Trees
<1>2. life \in 0..tree[p].life /\ life <= tree'[p].life
  BY <1>1 DEF HeadSound, WorldGoes
<1>3. head \subseteq later \/ <<p, life>> \in diverged'
  BY DEF HeadSound, WorldGoes
<1> QED
  BY <1>2, <1>3 DEF HeadSound, WorldGoes

LEMMA RecordStays ==
  ASSUME Worktree!TypeOK, WorldGoes, tree' \in [Paths -> Worktree!Trees],
         NEW p \in Paths, NEW r \in Worktree!Records, RecordSound(p, r)
  PROVE  RecordSound(p, r)' /\ (Over(p, r.to) => Over(p, r.to)')
<1>1. r.from \in Nat /\ r.to \in Nat /\ tree[p].life \in Nat /\ tree'[p].life \in Nat
  BY DEF Worktree!TypeOK, Worktree!Trees, Worktree!Records
<1>2. r.to \in 0..tree[p].life /\ r.to <= tree'[p].life
  BY <1>1 DEF RecordSound, WorldGoes
<1>3. Over(p, r.to) => Over(p, r.to)'
  BY <1>2 DEF WorldGoes
<1> QED
  BY <1>1, <1>2, <1>3 DEF RecordSound, WorldGoes

LEMMA TreeNone ==
  /\ None \notin Worktree!Records /\ None \notin Worktree!Listed /\ None \notin Worktree!Snapshots
  /\ None \notin [head: Worktree!Revisions, life: Nat, ok: BOOLEAN]
  /\ None \notin [Paths -> Worktree!Listed \cup {None}]
  /\ None \notin [reason: {"", "graph_unavailable", "graph_stale"}, records: [Paths -> Worktree!Records \cup {None}]]
BY NoneAssumption DEF Worktree!Revisions

\* A step of the world, or of the daemon while the world rests, that leaves the records, what
\* was kept and what was published as they are.
LEMMA RecordsStay ==
  ASSUME Worktree!TypeOK, RecordsSound, WorldGoes, tree' \in [Paths -> Worktree!Trees], UNCHANGED <<records, kept, latest>>
  PROVE  RecordsSound'
<1> SUFFICES ASSUME NEW p \in Paths
             PROVE  /\ records[p] # None => RecordSound(p, records[p])'
                    /\ kept[p] # None => RecordSound(p, kept[p])'
                    /\ latest # None /\ latest.records[p] # None => RecordSound(p, latest.records[p])'
  BY DEF RecordsSound
<1>1. ASSUME NEW r \in Worktree!Records, RecordSound(p, r)
      PROVE  RecordSound(p, r)'
  BY <1>1, RecordStays
<1>2. ASSUME records[p] # None
      PROVE  RecordSound(p, records[p])'
  <2>1. PICK r \in Worktree!Records : r = records[p]
    BY <1>2 DEF Worktree!TypeOK
  <2>2. RecordSound(p, r)'
    BY <1>1, <1>2, <2>1 DEF RecordsSound
  <2>3. records'[p] = r
    BY <2>1
  <2> QED
    BY <2>2, <2>3, Zenon DEF RecordSound
<1>3. ASSUME kept[p] # None
      PROVE  RecordSound(p, kept[p])'
  <2>1. PICK r \in Worktree!Records : r = kept[p]
    BY <1>3 DEF Worktree!TypeOK
  <2>2. RecordSound(p, r)'
    BY <1>1, <1>3, <2>1 DEF RecordsSound
  <2>3. kept'[p] = r
    BY <2>1
  <2> QED
    BY <2>2, <2>3, Zenon DEF RecordSound
<1>4. ASSUME latest # None, latest.records[p] # None
      PROVE  RecordSound(p, latest.records[p])'
  <2>1. PICK r \in Worktree!Records : r = latest.records[p]
    BY <1>4 DEF Worktree!TypeOK
  <2>2. RecordSound(p, r)'
    BY <1>1, <1>4, <2>1 DEF RecordsSound
  <2>3. latest'.records[p] = r
    BY <2>1
  <2> QED
    BY <2>2, <2>3, Zenon DEF RecordSound
<1> QED
  BY <1>2, <1>3, <1>4

LEMMA RecordTo ==
  ASSUME Worktree!TypeOK, RecordsSound, NEW p \in Paths, records[p] # None
  PROVE  records[p].to \in 0..tree[p].life
<1>1. tree[p].life \in Nat
  BY DEF Worktree!TypeOK, Worktree!Trees
<1>2. records[p] \in Worktree!Records
  BY DEF Worktree!TypeOK
<1>3. RecordSound(p, records[p])
  BY DEF RecordsSound
<1>4. records[p].to \in Nat /\ records[p].to <= tree[p].life
  BY <1>2, <1>3 DEF RecordSound, Worktree!Records
<1> QED
  BY <1>1, <1>4

LEMMA SnapLife ==
  ASSUME Worktree!TypeOK, SnapFollows, NEW p \in Paths, snap # None, snap.trees[p] # None
  PROVE  snap.trees[p].life \in 0..tree[p].life
<1>1. tree[p].life \in Nat
  BY DEF Worktree!TypeOK, Worktree!Trees
<1>2. snap.trees[p].life \in Nat
  BY DEF Worktree!TypeOK, Worktree!Snapshots
<1>3. snap.trees[p].life <= tree[p].life
  BY DEF SnapFollows, HeadSound
<1> QED
  BY <1>1, <1>2, <1>3

LEMMA AfterStays ==
  ASSUME Worktree!TypeOK, WorldGoes, NEW p \in Paths, NEW n \in 0..tree[p].life, NEW e, After(p, n, e)
  PROVE  After(p, n, e)'
<1>1. Over(p, n) => Over(p, n)'
  BY DEF WorldGoes
<1> QED
  BY <1>1, Zenon DEF After

\* So does what the snapshot and the list say of the records and of one another.
LEMMA SnapStays ==
  ASSUME Worktree!TypeOK, TreesSound, RecordsSound, SnapFollows, WorldGoes, TreesSound',
         tree' \in [Paths -> Worktree!Trees], UNCHANGED <<records, snap>>
  PROVE  SnapFollows'
<1> SUFFICES ASSUME snap # None PROVE SnapFollows'
  BY DEF SnapFollows
<1>1. snap \in Worktree!Snapshots
  BY DEF Worktree!TypeOK
<1>2. PICK rev, trees : rev = snap.target /\ trees = snap.trees /\ trees \in [Paths -> [head: Worktree!Revisions, life: Nat, ok: BOOLEAN] \cup {None}]
  BY <1>1 DEF Worktree!Snapshots
<1>3. rev \subseteq main'
  BY <1>2 DEF SnapFollows, WorldGoes
<1>4. ASSUME NEW p \in Paths, trees[p] # None
      PROVE  HeadSound(p, trees[p].head, trees[p].life, rev)'
  <2>1. HeadSound(p, trees[p].head, trees[p].life, rev) /\ trees[p].life \in Nat
    BY <1>2, <1>4 DEF SnapFollows
  <2> QED
    BY <2>1, HeadStays
<1>5. ASSUME NEW p \in Paths, records[p] # None
      PROVE  After(p, records[p].to, trees[p])'
  <2>1. PICK n : n = records[p].to
    OBVIOUS
  <2>2. n \in 0..tree[p].life
    BY <1>5, <2>1, RecordTo
  <2>3. After(p, n, trees[p])'
    BY <1>2, <1>5, <2>1, <2>2, AfterStays DEF SnapFollows
  <2>4. records'[p].to = n
    BY <2>1
  <2> QED
    BY <2>3, <2>4, Zenon DEF After
<1>6. snap'.target = rev /\ snap'.trees = trees /\ records' = records
  BY <1>2
<1> QED
  BY <1>3, <1>4, <1>5, <1>6, Zenon DEF SnapFollows, HeadSound, After

LEMMA ListStays ==
  ASSUME Worktree!TypeOK, TreesSound, RecordsSound, SnapFollows, ListFollows, WorldGoes, TreesSound',
         tree' \in [Paths -> Worktree!Trees], UNCHANGED <<records, snap, listing>>
  PROVE  ListFollows'
<1> SUFFICES ASSUME listing # None PROVE ListFollows'
  BY DEF ListFollows
<1>1. PICK list \in [Paths -> Worktree!Listed \cup {None}] : list = listing
  BY DEF Worktree!TypeOK
<1>2. ASSUME NEW p \in Paths, list[p] # None
      PROVE  HeadSound(p, list[p].head, list[p].life, main)'
  <2>1. PICK rev : rev = main
    OBVIOUS
  <2>2. HeadSound(p, list[p].head, list[p].life, rev) /\ list[p].life \in Nat
    BY <1>1, <1>2, <2>1 DEF ListFollows, Worktree!Listed
  <2>3. PICK later : later = main'
    OBVIOUS
  <2>4. rev \subseteq later
    BY <2>1, <2>3 DEF WorldGoes
  <2>5. HeadSound(p, list[p].head, list[p].life, later)'
    BY <2>2, <2>4, HeadStays
  <2> QED
    BY <2>3, <2>5, Zenon DEF HeadSound
<1>3. ASSUME NEW p \in Paths, NEW n \in 0..tree[p].life, After(p, n, listing[p])
      PROVE  After(p, n, list[p])'
  BY <1>1, <1>3, AfterStays
<1>4. ASSUME NEW p \in Paths, records[p] # None
      PROVE  After(p, records[p].to, list[p])'
  <2>1. PICK n : n = records[p].to
    OBVIOUS
  <2>2. n \in 0..tree[p].life
    BY <1>4, <2>1, RecordTo
  <2>3. After(p, n, list[p])'
    BY <1>3, <1>4, <2>1, <2>2 DEF ListFollows
  <2>4. records'[p].to = n
    BY <2>1
  <2> QED
    BY <2>3, <2>4, Zenon DEF After
<1>5. ASSUME NEW p \in Paths, snap # None, snap.trees[p] # None
      PROVE  After(p, snap.trees[p].life, list[p])'
  <2>1. PICK n : n = snap.trees[p].life
    OBVIOUS
  <2>2. n \in 0..tree[p].life
    BY <1>5, <2>1, SnapLife
  <2>3. After(p, n, list[p])'
    BY <1>3, <1>5, <2>1, <2>2 DEF ListFollows
  <2>4. snap'.trees[p].life = n
    BY <2>1
  <2> QED
    BY <2>3, <2>4, Zenon DEF After
<1>6. listing' = list /\ records' = records /\ snap' = snap
  BY <1>1
<1> QED
  BY <1>2, <1>4, <1>5, <1>6, Zenon DEF ListFollows, HeadSound, After

\* What an observation makes of a record: of a worktree that it sees, and of one that it misses.
LEMMA ApplySeen ==
  ASSUME Worktree!TypeOK, NEW bad \in SUBSET Paths, Worktree!Apply(bad), NEW p \in Paths, Worktree!Seen(p)
  PROVE  LET e == snap.trees[p]
             r == records'[p]
         IN /\ snap # None /\ e \in [head: Worktree!Revisions, life: Nat, ok: BOOLEAN]
            /\ r \in Worktree!Records
            /\ r.present /\ r.to = e.life /\ r.head = e.head
            /\ r.ahead => ~(e.head \subseteq snap.target)
            /\ r.compared /\ ~r.ahead => e.head \subseteq snap.target
            /\ r.ever => r.ahead \/ (Worktree!Present(p) /\ records[p].ever)
            /\ r.from = IF Worktree!Present(p) THEN records[p].from ELSE e.life
<1> DEFINE e == snap.trees[p]
           ok == p \notin bad
           ahead == ok /\ ~(e.head \subseteq snap.target)
           r == records'[p]
<1>1. snap # None
  BY DEF Worktree!Apply, Worktree!Fresh
<1>2. snap \in Worktree!Snapshots
  BY <1>1 DEF Worktree!TypeOK
<1>3. e \in [head: Worktree!Revisions, life: Nat, ok: BOOLEAN]
  BY <1>2 DEF Worktree!Seen, Worktree!Snapshots
<1>4. r = Worktree!ObservedPresent(p, ok)
  BY DEF Worktree!Apply
<1>5. records[p] \in Worktree!Records \cup {None} /\ (Worktree!Known(p) => records[p] \in Worktree!Records)
  BY DEF Worktree!TypeOK, Worktree!Known
<1>6. Worktree!Present(p) => Worktree!Known(p)
  BY DEF Worktree!Present
<1> DEFINE ever == ahead \/ (Worktree!Present(p) /\ records[p].ever)
           start == IF Worktree!Present(p) THEN records[p].start ELSE IF Worktree!Known(p) THEN records[p].goneAt ELSE 0
           goneAt == IF Worktree!Present(p) THEN records[p].goneAt ELSE 0
           nth == (IF Worktree!Known(p) THEN records[p].nth ELSE 0) + (IF Worktree!Present(p) THEN 0 ELSE 1)
           from == IF Worktree!Present(p) THEN records[p].from ELSE e.life
<1>7. /\ r.head = e.head /\ r.present /\ r.to = e.life /\ r.from = from
      /\ r.ahead = ahead /\ r.compared = ok
      /\ r.ever = ever
  BY <1>4 DEF Worktree!ObservedPresent, Worktree!Compared, Worktree!Ahead, Worktree!Begins
<1>8. start \in Nat /\ goneAt \in Nat /\ nth \in Nat /\ from \in Nat
  BY <1>3, <1>5, <1>6 DEF Worktree!Records
<1>9. r = [head |-> e.head, ahead |-> ahead, compared |-> ok, unavailable |-> ~e.ok, ever |-> ever, present |-> TRUE,
           start |-> start, goneAt |-> goneAt, outcome |-> None, nth |-> nth, from |-> from, to |-> e.life]
  BY <1>4 DEF Worktree!ObservedPresent, Worktree!Compared, Worktree!Ahead, Worktree!Begins
<1>10. ok \in BOOLEAN /\ ahead \in BOOLEAN /\ ever \in BOOLEAN /\ (~e.ok) \in BOOLEAN
  OBVIOUS
<1>11. e.head \in Worktree!Revisions /\ e.life \in Nat
  BY <1>3
<1> HIDE DEF ok, ahead, ever, start, goneAt, nth, from
<1>12. r \in Worktree!Records
  BY <1>8, <1>9, <1>10, <1>11 DEF Worktree!Records
<1> QED
  BY <1>1, <1>3, <1>7, <1>12, Zenon DEF ok, ahead, ever, from

LEMMA ApplyMissed ==
  ASSUME Worktree!TypeOK, NEW bad \in SUBSET Paths, Worktree!Apply(bad), NEW p \in Paths, ~Worktree!Seen(p)
  PROVE  LET old == records[p]
             r == records'[p]
         IN \/ r = old /\ ~Worktree!Present(p)
            \/ /\ old \in Worktree!Records /\ old.present
               /\ r \in Worktree!Records /\ ~r.present /\ r.outcome \in Worktree!Outcomes
               /\ r.from = old.from /\ r.to = old.to /\ r.ever = old.ever /\ r.head = old.head
               /\ snap # None /\ (snap.trees[p] = None \/ ~tree[p].there)
               /\ r.outcome \in {"landed", "never_diverged"} => r.head \subseteq snap.target
<1> DEFINE old == records[p]
           r == records'[p]
           ok == p \notin bad
           outcome == Worktree!GoneOutcome(p, ok)
<1>1. r = Worktree!ObservedAbsent(p, ok)
  BY DEF Worktree!Apply
<1>2. CASE ~Worktree!Present(p)
  BY <1>1, <1>2 DEF Worktree!ObservedAbsent
<1>3. CASE Worktree!Present(p)
  <2>1. old \in Worktree!Records /\ old.present
    BY <1>3 DEF Worktree!TypeOK, Worktree!Present, Worktree!Known
  <2>2. snap # None /\ (snap.trees[p] = None \/ ~tree[p].there)
    BY DEF Worktree!Apply, Worktree!Fresh, Worktree!Seen, Worktree!Missing
  <2>3. /\ outcome \in Worktree!Outcomes
        /\ outcome \in {"landed", "never_diverged"} => old.head \subseteq snap.target
    BY DEF Worktree!GoneOutcome, Worktree!Compared, Worktree!Ahead, Worktree!Outcomes
  <2>4. r = [old EXCEPT !.present = FALSE, !.compared = FALSE, !.goneAt = now, !.outcome = outcome]
    BY <1>1, <1>3 DEF Worktree!ObservedAbsent
  <2>5. now \in Nat
    BY DEF Worktree!TypeOK
  <2> HIDE DEF old, r, outcome
  <2>6. /\ r \in Worktree!Records /\ ~r.present /\ r.outcome = outcome
        /\ r.from = old.from /\ r.to = old.to /\ r.ever = old.ever /\ r.head = old.head
    <3>1. PICK o \in Worktree!Records : o = old
      BY <2>1
    <3>2. PICK x \in Worktree!Outcomes : x = outcome
      BY <2>3
    <3>3. PICK t \in Nat : t = now
      BY <2>5
    <3>4. PICK new : new = [o EXCEPT !.present = FALSE, !.compared = FALSE, !.goneAt = t, !.outcome = x]
      OBVIOUS
    <3>7. o \in Worktree!Records /\ x \in Worktree!Outcomes /\ t \in Nat
      OBVIOUS
    <3>5. new \in Worktree!Records
      BY <3>4, <3>7 DEF Worktree!Records
    <3>9. new.present = FALSE /\ new.outcome = x
      BY <3>4, <3>7 DEF Worktree!Records
    <3>10. new.from = o.from /\ new.to = o.to /\ new.ever = o.ever /\ new.head = o.head
      BY <3>4, <3>7 DEF Worktree!Records
    <3>6. r = new
      BY <2>4, <3>1, <3>2, <3>3, <3>4, Zenon
    <3>8. ~r.present
      BY <3>6, <3>9
    <3> QED
      BY <3>1, <3>2, <3>5, <3>6, <3>8, <3>9, <3>10, Zenon
  <2> QED
    BY <2>1, <2>2, <2>3, <2>6, Zenon DEF old, r
<1> QED
  BY <1>2, <1>3

LEMMA ApplyRecord ==
  ASSUME Worktree!TypeOK, NEW bad \in SUBSET Paths, Worktree!Apply(bad), NEW p \in Paths
  PROVE  records'[p] \in Worktree!Records \cup {None}
BY ApplySeen, ApplyMissed DEF Worktree!TypeOK

LEMMA TreeTypes ==
  ASSUME Worktree!TypeOK, TreesSound, RecordsSound, Worktree!Next
  PROVE  Worktree!TypeOK'
<1>0. /\ clock \in Nat /\ mishaps \in Nat
  BY DEF Worktree!TypeOK
<1>1. CASE Worktree!World
  BY <1>1, WorldSteps DEF Worktree!TypeOK
<1>2. CASE Worktree!ScanList
  <2>1. listing' \in [Paths -> Worktree!Listed \cup {None}]
    BY <1>2 DEF Worktree!ScanList, Worktree!TypeOK, Worktree!Listed, Worktree!Trees
  <2> QED
    BY <1>2, <2>1 DEF Worktree!ScanList, Worktree!TypeOK, Worktree!world, Worktree!ghosts
<1>3. CASE Worktree!ScanStatus
  <2>1. listing \in [Paths -> Worktree!Listed \cup {None}] /\ main \in Worktree!Revisions
    BY <1>3 DEF Worktree!ScanStatus, Worktree!TypeOK
  <2> DEFINE entry(p) == IF listing[p] = None THEN None
                         ELSE [head |-> listing[p].head, life |-> listing[p].life,
                               ok |-> tree[p].there /\ tree[p].readable]
             trees == [p \in Paths |-> entry(p)]
  <2>2. ASSUME NEW p \in Paths
        PROVE  entry(p) \in [head: Worktree!Revisions, life: Nat, ok: BOOLEAN] \cup {None}
    <3>1. (tree[p].there /\ tree[p].readable) \in BOOLEAN
      OBVIOUS
    <3> QED
      BY <2>1, <3>1 DEF Worktree!Listed
  <2>3. snap' = [trees |-> trees, target |-> main, stale |-> FALSE]
    BY <1>3 DEF Worktree!ScanStatus
  <2> HIDE DEF entry
  <2>4. trees \in [Paths -> [head: Worktree!Revisions, life: Nat, ok: BOOLEAN] \cup {None}]
    BY <2>2
  <2> HIDE DEF trees
  <2>5. snap' \in Worktree!Snapshots
    BY <2>1, <2>3, <2>4 DEF Worktree!Snapshots
  <2>6. listing' = None /\ UNCHANGED <<main, tree, diverged, mark, clock, alive, step, now, records, kept, latest,
                                       failed, told, moves, mishaps>>
    BY <1>3, Zenon DEF Worktree!ScanStatus, Worktree!world, Worktree!ghosts
  <2> QED
    BY <2>5, <2>6 DEF Worktree!TypeOK
<1>4. CASE Worktree!ScanFails
  <2>1. snap' \in Worktree!Snapshots \cup {None}
    <3>1. snap \in Worktree!Snapshots \cup {None}
      BY DEF Worktree!TypeOK
    <3>2. snap' = IF snap = None THEN None ELSE [snap EXCEPT !.stale = TRUE]
      BY <1>4 DEF Worktree!ScanFails
    <3> QED
      BY <3>1, <3>2 DEF Worktree!Snapshots
  <2>2. listing' = None /\ UNCHANGED <<main, tree, diverged, mark, clock, alive, step, now, records, kept, latest,
                                       failed, told, moves>>
    BY <1>4, Zenon DEF Worktree!ScanFails, Worktree!world, Worktree!ghosts
  <2>3. mishaps' \in Nat
    <3>1. mishaps > 0 /\ mishaps' = mishaps - 1
      BY <1>4, Zenon DEF Worktree!ScanFails
    <3> QED
      BY <1>0, <3>1
  <2> QED
    BY <2>1, <2>2, <2>3 DEF Worktree!TypeOK
<1>5. CASE Worktree!StartObserve
  <2>1. now' \in Nat
    <3>1. now' = 2 * clock + 1
      BY <1>5, Zenon DEF Worktree!StartObserve
    <3> QED
      BY <1>0, <3>1
  <2>2. step' = "started" /\ UNCHANGED <<main, tree, diverged, mark, clock, alive, listing, snap, records, kept, latest,
                                         failed, told, moves, mishaps>>
    BY <1>5, Zenon DEF Worktree!StartObserve, Worktree!world, Worktree!ghosts
  <2> QED
    BY <2>1, <2>2 DEF Worktree!TypeOK
<1>6. CASE Worktree!ApplyNothing
  BY <1>6 DEF Worktree!ApplyNothing, Worktree!TypeOK, Worktree!world, Worktree!ghosts
<1>7. CASE Worktree!Save
  BY <1>7 DEF Worktree!Save, Worktree!TypeOK, Worktree!world
<1>8. CASE Worktree!SaveFails
  <2>1. mishaps' \in Nat
    <3>1. mishaps > 0 /\ mishaps' = mishaps - 1
      BY <1>8, Zenon DEF Worktree!SaveFails
    <3> QED
      BY <1>0, <3>1
  <2>2. step' = "saved" /\ failed' = TRUE
        /\ UNCHANGED <<main, tree, diverged, mark, clock, alive, listing, snap, now, records, kept, latest, told, moves>>
    BY <1>8, Zenon DEF Worktree!SaveFails, Worktree!world
  <2> QED
    BY <2>1, <2>2 DEF Worktree!TypeOK
<1>9. CASE Worktree!Publish
  <2>1. records \in [Paths -> Worktree!Records \cup {None}] /\ told \in [Paths -> [outcome: Worktree!Outcomes, nth: Nat] \cup {None}]
    BY DEF Worktree!TypeOK
  <2>2. told' \in [Paths -> [outcome: Worktree!Outcomes, nth: Nat] \cup {None}]
    BY <1>9, <2>1 DEF Worktree!Publish, Worktree!Records, RecordsSound, RecordSound
  <2>3. PICK reason \in {"", "graph_unavailable", "graph_stale"} : latest' = [reason |-> reason, records |-> records]
    BY <1>9 DEF Worktree!Publish
  <2>4. latest' \in [reason: {"", "graph_unavailable", "graph_stale"}, records: [Paths -> Worktree!Records \cup {None}]]
    BY <2>1, <2>3
  <2>5. step' = "idle" /\ UNCHANGED <<main, tree, diverged, mark, clock, alive, listing, snap, now, records, kept,
                                      failed, moves, mishaps>>
    BY <1>9, Zenon DEF Worktree!Publish, Worktree!world
  <2> QED
    BY <2>2, <2>4, <2>5 DEF Worktree!TypeOK
<1>10. ASSUME NEW bad \in SUBSET Paths, Worktree!Apply(bad)
       PROVE  Worktree!TypeOK'
  <2>1. mishaps' \in Nat
    <3>1. mishaps \in Nat /\ Worktree!Cardinality(bad) \in Nat
      BY TreeCardinality DEF Worktree!TypeOK
    <3>2. Worktree!Cardinality(bad) <= mishaps /\ mishaps' = mishaps - Worktree!Cardinality(bad)
      BY <1>10, Zenon DEF Worktree!Apply
    <3> QED
      BY <3>1, <3>2
  <2>2. records' \in [Paths -> Worktree!Records \cup {None}]
    <3>1. ASSUME NEW p \in Paths
          PROVE  records'[p] \in Worktree!Records \cup {None}
      BY <1>10, ApplyRecord DEF Worktree!TypeOK
    <3>2. records' = [p \in Paths |-> IF Worktree!Seen(p) THEN Worktree!ObservedPresent(p, p \notin bad)
                                      ELSE Worktree!ObservedAbsent(p, p \notin bad)]
      BY <1>10, Zenon DEF Worktree!Apply
    <3> QED
      BY <3>1, <3>2
  <2>3. step' = "applied" /\ UNCHANGED <<main, tree, diverged, mark, clock, alive, listing, snap, now, kept, latest,
                                         failed, told, moves>>
    BY <1>10, Zenon DEF Worktree!Apply, Worktree!world, Worktree!ghosts
  <2> QED
    BY <2>1, <2>2, <2>3 DEF Worktree!TypeOK
<1>11. CASE Worktree!Stop
  <2>1. mishaps' \in Nat
    <3>1. mishaps > 0 /\ mishaps' = mishaps - 1
      BY <1>11, Zenon DEF Worktree!Stop
    <3> QED
      BY <1>0, <3>1
  <2>2. /\ alive' = FALSE /\ listing' = None /\ snap' = None /\ step' = "idle" /\ now' = 0 /\ latest' = None
        /\ records' = [p \in Paths |-> None]
        /\ UNCHANGED <<main, tree, diverged, mark, clock, kept, failed, told, moves>>
    BY <1>11, Zenon DEF Worktree!Stop, Worktree!world, Worktree!ghosts
  <2> QED
    BY <2>1, <2>2 DEF Worktree!TypeOK
<1>12. CASE Worktree!Load
  BY <1>12 DEF Worktree!Load, Worktree!TypeOK, Worktree!world, Worktree!ghosts
<1> QED
  BY <1>1, <1>2, <1>3, <1>4, <1>5, <1>6, <1>7, <1>8, <1>9, <1>10, <1>11, <1>12, Zenon DEF Worktree!Next

\* An observation.
LEMMA ApplyKeeps ==
  ASSUME TreeInv, NEW bad \in SUBSET Paths, Worktree!Apply(bad), NEW p \in Paths, records'[p] # None
  PROVE  /\ RecordSound(p, records'[p])
         /\ After(p, records'[p].to, snap.trees[p])
         /\ listing # None => After(p, records'[p].to, listing[p])
<1> DEFINE e == snap.trees[p]
           old == records[p]
           r == records'[p]
<1>1. /\ Worktree!TypeOK /\ RecordsSound /\ SnapFollows /\ ListFollows
      /\ snap # None /\ tree[p].life \in Nat
  BY DEF TreeInv, Worktree!Apply, Worktree!Fresh, Worktree!TypeOK, Worktree!Trees
<1>2. /\ snap.target \subseteq main
      /\ e # None => HeadSound(p, e.head, e.life, snap.target)
      /\ old # None => After(p, old.to, e) /\ RecordSound(p, old)
  BY <1>1 DEF SnapFollows, RecordsSound
<1>3. listing # None => (old # None => After(p, old.to, listing[p])) /\ (e # None => After(p, e.life, listing[p]))
  BY <1>1 DEF ListFollows
<1>4. CASE Worktree!Seen(p)
  <2>1. /\ e \in [head: Worktree!Revisions, life: Nat, ok: BOOLEAN] /\ e # None /\ r \in Worktree!Records
        /\ r.present /\ r.to = e.life /\ r.head = e.head
        /\ r.ahead => ~(e.head \subseteq snap.target)
        /\ r.compared /\ ~r.ahead => e.head \subseteq snap.target
        /\ r.ever => r.ahead \/ (Worktree!Present(p) /\ old.ever)
        /\ r.from = IF Worktree!Present(p) THEN old.from ELSE e.life
    BY <1>1, <1>4, ApplySeen DEF Worktree!Seen
  <2>2. Worktree!Present(p) => old # None /\ old \in Worktree!Records
    BY <1>1 DEF Worktree!Present, Worktree!Known, Worktree!TypeOK
  <2>3. /\ e.life \in Nat /\ e.life <= tree[p].life
        /\ Worktree!Present(p) => old.from \in Nat /\ old.to \in Nat /\ old.from <= old.to /\ old.to <= e.life
    BY <1>2, <2>1, <2>2 DEF HeadSound, RecordSound, After, Worktree!Records
  <2>4. r.from \in Nat /\ r.from <= r.to /\ r.to <= tree[p].life
    BY <2>1, <2>3
  <2>5. r.ahead => \E life \in r.from..r.to : <<p, life>> \in diverged
    BY <1>2, <2>1, <2>3, <2>4 DEF HeadSound
  <2>6. Worktree!Present(p) /\ old.ever => \E life \in r.from..r.to : <<p, life>> \in diverged
    BY <1>2, <2>1, <2>2, <2>3 DEF RecordSound
  <2>7. r.present /\ r.compared /\ ~r.ahead => r.head \subseteq main
    BY <1>2, <2>1
  <2>8. RecordSound(p, r)
    BY <2>1, <2>4, <2>5, <2>6, <2>7 DEF RecordSound
  <2>9. After(p, r.to, e)
    BY <2>1, <2>3 DEF After
  <2>10. listing # None => After(p, r.to, listing[p])
    BY <1>3, <2>1
  <2> QED
    BY <2>8, <2>9, <2>10
<1>5. CASE ~Worktree!Seen(p) /\ r = old
  BY <1>2, <1>3, <1>5
<1>6. CASE /\ old \in Worktree!Records
           /\ ~r.present /\ r.outcome \in Worktree!Outcomes
           /\ r.from = old.from /\ r.to = old.to /\ r.ever = old.ever /\ r.head = old.head
           /\ (e = None \/ ~tree[p].there)
           /\ r.outcome \in {"landed", "never_diverged"} => r.head \subseteq snap.target
  <2>1. old # None
    BY <1>6, TreeNone
  <2>2. Over(p, r.to)
    BY <1>2, <1>6, <2>1 DEF After, Over
  <2>3. RecordSound(p, r)
    BY <1>2, <1>6, <2>1, <2>2 DEF RecordSound
  <2> QED
    BY <1>2, <1>3, <1>6, <2>1, <2>3
<1> QED
  BY <1>1, <1>4, <1>5, <1>6, ApplyMissed

\* What a list finds: nothing where there is no worktree.
LEMMA ListFinds ==
  ASSUME TreeInv, Worktree!ScanList, NEW p \in Paths
  PROVE  /\ listing'[p] # None => HeadSound(p, listing'[p].head, listing'[p].life, main)
         /\ \A n \in 0..tree[p].life : After(p, n, listing'[p])
<1>1. /\ tree[p].life \in Nat
      /\ tree[p].there => tree[p].listed
      /\ tree[p].head \subseteq main \/ <<p, tree[p].life>> \in diverged
  BY DEF TreeInv, TreesSound, Worktree!TypeOK, Worktree!Trees
<1>2. listing'[p] = IF tree[p].listed THEN [head |-> tree[p].head, life |-> tree[p].life] ELSE None
  BY DEF Worktree!ScanList
<1>3. [head |-> tree[p].head, life |-> tree[p].life] # None
  <2>1. [head |-> tree[p].head, life |-> tree[p].life] \in Worktree!Listed
    BY DEF TreeInv, Worktree!TypeOK, Worktree!Trees, Worktree!Listed
  <2> QED
    BY <2>1, TreeNone
<1>4. CASE tree[p].listed
  BY <1>1, <1>2, <1>3, <1>4 DEF HeadSound, After
<1>5. CASE ~tree[p].listed
  BY <1>1, <1>2, <1>5 DEF After, Over
<1> QED
  BY <1>4, <1>5

LEMMA TreeStep == ASSUME TreeInv, [Worktree!Next]_(Worktree!vars) PROVE TreeInv'
<1>1. /\ Worktree!TypeOK /\ TreesSound /\ RecordsSound /\ SnapFollows /\ ListFollows /\ Down
  BY DEF TreeInv
<1> DEFINE Rest == WorldGoes /\ TreesSound' /\ tree' \in [Paths -> Worktree!Trees]
<1>2. ASSUME UNCHANGED <<main, tree, diverged>>
      PROVE  Rest
  BY <1>1, <1>2, WorldRests DEF Worktree!TypeOK
<1>3. ASSUME Rest, UNCHANGED <<alive, listing, snap, records, kept, latest>>
      PROVE  TreesSound' /\ RecordsSound' /\ SnapFollows' /\ ListFollows' /\ Down'
  <2>1. RecordsSound' /\ SnapFollows' /\ ListFollows'
    BY <1>1, <1>3, RecordsStay, SnapStays, ListStays
  <2>2. Down'
    BY <1>1, <1>3 DEF Down
  <2> QED
    BY <1>3, <2>1, <2>2
<1> HIDE DEF Rest
<1> DEFINE Sound == TreesSound' /\ RecordsSound' /\ SnapFollows' /\ ListFollows' /\ Down'
<1>4. ASSUME Worktree!World
      PROVE  Sound
  <2>1. Rest
    BY <1>1, <1>4, WorldSteps DEF Rest
  <2>2. UNCHANGED <<alive, listing, snap, records, kept, latest>>
    BY <1>1, <1>4, WorldSteps
  <2> QED
    BY <1>3, <2>1, <2>2
<1>5. ASSUME Worktree!ScanList
      PROVE  Sound
  <2>1. /\ Rest /\ UNCHANGED <<main, tree, diverged, alive, snap, records, kept, latest>> /\ alive
    BY <1>2, <1>5, Zenon DEF Worktree!ScanList, Worktree!world
  <2>2. RecordsSound' /\ SnapFollows' /\ TreesSound'
    BY <1>1, <2>1, RecordsStay, SnapStays DEF Rest
  <2>3. ASSUME NEW p \in Paths
        PROVE  /\ listing'[p] # None => HeadSound(p, listing'[p].head, listing'[p].life, main)
               /\ records[p] # None => After(p, records[p].to, listing'[p])
               /\ snap # None /\ snap.trees[p] # None => After(p, snap.trees[p].life, listing'[p])
    <3>1. listing'[p] # None => HeadSound(p, listing'[p].head, listing'[p].life, main)
      BY <1>5, ListFinds
    <3>2. records[p] # None => After(p, records[p].to, listing'[p])
      BY <1>1, <1>5, ListFinds, RecordTo
    <3>3. snap # None /\ snap.trees[p] # None => After(p, snap.trees[p].life, listing'[p])
      BY <1>1, <1>5, ListFinds, SnapLife
    <3> QED
      BY <3>1, <3>2, <3>3
  <2>4. ListFollows'
    BY <2>1, <2>3, Zenon DEF ListFollows, HeadSound, After, Over
  <2>5. Down'
    BY <2>1 DEF Down
  <2> QED
    BY <2>2, <2>4, <2>5
<1>6. ASSUME Worktree!ScanStatus
      PROVE  Sound
  <2>1. /\ Rest /\ UNCHANGED <<main, tree, diverged, alive, records, kept, latest>> /\ alive /\ listing' = None
        /\ listing # None
    BY <1>2, <1>6, Zenon DEF Worktree!ScanStatus, Worktree!world
  <2>2. RecordsSound' /\ TreesSound'
    BY <1>1, <2>1, RecordsStay DEF Rest
  <2>3. snap'.target = main /\ \A p \in Paths :
           snap'.trees[p] = IF listing[p] = None THEN None
                            ELSE [head |-> listing[p].head, life |-> listing[p].life, ok |-> tree[p].there /\ tree[p].readable]
    BY <1>6 DEF Worktree!ScanStatus
  <2>4. ASSUME NEW p \in Paths
        PROVE  /\ snap'.trees[p] # None => HeadSound(p, snap'.trees[p].head, snap'.trees[p].life, main)
               /\ records[p] # None => After(p, records[p].to, snap'.trees[p])
    <3>1. /\ listing[p] # None => HeadSound(p, listing[p].head, listing[p].life, main)
          /\ records[p] # None => After(p, records[p].to, listing[p])
      BY <1>1, <2>1 DEF ListFollows
    <3>2. CASE listing[p] = None
      BY <2>3, <3>1, <3>2 DEF After
    <3>3. CASE listing[p] # None
      <4>1. PICK ok \in BOOLEAN : snap'.trees[p] = [head |-> listing[p].head, life |-> listing[p].life, ok |-> ok]
        BY <2>3, <3>3
      <4>2. snap'.trees[p].head = listing[p].head /\ snap'.trees[p].life = listing[p].life /\ snap'.trees[p] # None
        <5>1. listing[p] \in Worktree!Listed
          BY <1>1, <2>1, <3>3 DEF Worktree!TypeOK
        <5>2. snap'.trees[p] \in [head: Worktree!Revisions, life: Nat, ok: BOOLEAN]
          BY <4>1, <5>1 DEF Worktree!Listed
        <5>3. snap'.trees[p] # None
          BY <5>2, TreeNone, Zenon
        <5> QED
          BY <4>1, <5>3
      <4> QED
        BY <3>1, <3>3, <4>2 DEF After
    <3> QED
      BY <3>2, <3>3
  <2>5. SnapFollows'
    BY <2>1, <2>3, <2>4, Zenon DEF SnapFollows, HeadSound, After, Over
  <2>6. ListFollows' /\ Down'
    BY <2>1 DEF ListFollows, Down
  <2> QED
    BY <2>2, <2>5, <2>6
<1>7. ASSUME Worktree!ScanFails
      PROVE  Sound
  <2>1. /\ Rest /\ UNCHANGED <<main, tree, diverged, alive, records, kept, latest>> /\ alive /\ listing' = None
    BY <1>2, <1>7, Zenon DEF Worktree!ScanFails, Worktree!world
  <2>2. RecordsSound' /\ TreesSound'
    BY <1>1, <2>1, RecordsStay DEF Rest
  <2>3. snap' = None \/ (snap # None /\ snap'.target = snap.target /\ snap'.trees = snap.trees)
    <3>1. snap \in Worktree!Snapshots \cup {None}
      BY <1>1 DEF Worktree!TypeOK
    <3>2. snap' = IF snap = None THEN None ELSE [snap EXCEPT !.stale = TRUE]
      BY <1>7 DEF Worktree!ScanFails
    <3> QED
      BY <3>1, <3>2 DEF Worktree!Snapshots
  <2>4. SnapFollows'
    BY <1>1, <2>1, <2>3, Zenon DEF SnapFollows, HeadSound, After, Over
  <2>5. ListFollows' /\ Down'
    BY <2>1 DEF ListFollows, Down
  <2> QED
    BY <2>2, <2>4, <2>5
<1>8. ASSUME \/ Worktree!StartObserve \/ Worktree!ApplyNothing \/ Worktree!SaveFails \/ UNCHANGED Worktree!vars
      PROVE  Sound
  <2>1. UNCHANGED <<main, tree, diverged, alive, listing, snap, records, kept, latest>>
    BY <1>8, Zenon DEF Worktree!StartObserve, Worktree!ApplyNothing, Worktree!SaveFails, Worktree!vars, Worktree!world
  <2> QED
    BY <1>2, <1>3, <2>1
<1>9. ASSUME Worktree!Save \/ Worktree!Publish
      PROVE  Sound
  <2>1. Rest /\ UNCHANGED <<main, tree, diverged, alive, listing, snap, records>>
    BY <1>2, <1>9, Zenon DEF Worktree!Save, Worktree!Publish, Worktree!world
  <2>2. SnapFollows' /\ ListFollows' /\ TreesSound'
    BY <1>1, <2>1, SnapStays, ListStays DEF Rest
  <2>3. (kept' = kept \/ kept' = records) /\ (latest' = latest \/ latest'.records = records)
    <3>1. CASE Worktree!Save
      BY <3>1, Zenon DEF Worktree!Save
    <3>2. CASE Worktree!Publish
      <4>1. PICK reason \in {"", "graph_unavailable", "graph_stale"} : latest' = [reason |-> reason, records |-> records]
        BY <3>2 DEF Worktree!Publish
      <4>2. kept' = kept
        BY <3>2, Zenon DEF Worktree!Publish
      <4> QED
        BY <4>1, <4>2
    <3> QED
      BY <1>9, <3>1, <3>2
  <2>4. RecordsSound'
    BY <1>1, <2>1, <2>3, Zenon DEF RecordsSound, RecordSound, Over
  <2>5. Down'
    BY <1>1, <2>1 DEF Down
  <2> QED
    BY <2>2, <2>4, <2>5
<1>10. ASSUME NEW bad \in SUBSET Paths, Worktree!Apply(bad)
       PROVE  Sound
  <2>1. Rest /\ UNCHANGED <<main, tree, diverged, alive, listing, snap, kept, latest>> /\ alive
    BY <1>2, <1>10, Zenon DEF Worktree!Apply, Worktree!world
  <2>2. \A p \in Paths : records'[p] # None =>
          /\ RecordSound(p, records'[p])
          /\ After(p, records'[p].to, snap.trees[p])
          /\ listing # None => After(p, records'[p].to, listing[p])
    BY <1>10, ApplyKeeps
  <2>3. RecordsSound'
    BY <1>1, <2>1, <2>2, Zenon DEF RecordsSound, RecordSound, Over
  <2>4. SnapFollows'
    BY <1>1, <2>1, <2>2, Zenon DEF SnapFollows, HeadSound, After, Over
  <2>5. ListFollows'
    BY <1>1, <2>1, <2>2, Zenon DEF ListFollows, HeadSound, After, Over
  <2>6. Down' /\ TreesSound'
    BY <2>1 DEF Down, Rest
  <2> QED
    BY <2>3, <2>4, <2>5, <2>6
<1>11. ASSUME Worktree!Stop \/ Worktree!Load
      PROVE  Sound
  <2>1. /\ Rest /\ UNCHANGED <<main, tree, diverged, kept>> /\ listing' = None /\ snap' = None
        /\ latest' = None \/ latest' = latest
        /\ alive' \/ \A p \in Paths : records'[p] = None
        /\ \A p \in Paths : records'[p] = None \/ records'[p] = kept[p]
    <3>1. CASE Worktree!Stop
      BY <1>2, <3>1 DEF Worktree!Stop, Worktree!world
    <3>2. CASE Worktree!Load
      BY <1>1, <1>2, <3>2 DEF Worktree!Load, Worktree!world, Down
    <3> QED
      BY <1>11, <3>1, <3>2
  <2>2. RecordsSound'
    BY <1>1, <2>1, Zenon DEF RecordsSound, RecordSound, Over
  <2>3. SnapFollows' /\ ListFollows' /\ Down'
    BY <2>1 DEF SnapFollows, ListFollows, Down
  <2> QED
    BY <2>1, <2>2, <2>3 DEF Rest
<1>12. Worktree!TypeOK'
  <2>1. CASE Worktree!Next
    BY <1>1, <2>1, TreeTypes
  <2>2. CASE UNCHANGED Worktree!vars
    <3>1. UNCHANGED <<main, tree, diverged, mark, clock, alive, listing, snap, step, now, records, kept, latest,
                      failed, told, moves, mishaps>>
      BY <2>2, Zenon DEF Worktree!vars, Worktree!world, Worktree!ghosts
    <3> QED
      BY <1>1, <3>1, Zenon DEF Worktree!TypeOK
  <2> QED
    BY <2>1, <2>2
<1> HIDE DEF Sound
<1>13. Sound
  BY <1>4, <1>5, <1>6, <1>7, <1>8, <1>9, <1>10, <1>11, Zenon DEF Sound, Worktree!Next
<1> QED
  BY <1>12, <1>13, Zenon DEF Sound, TreeInv

LEMMA TreeInit == ASSUME Worktree!Init PROVE TreeInv
<1>1. PICK b \in TreeBudgets : moves = b.moves /\ mishaps = b.faults
  BY DEF Worktree!Init
<1>2. moves \in Nat /\ mishaps \in Nat
  BY <1>1, DaemonAssumption
<1>3. Worktree!TypeOK
  BY <1>2 DEF Worktree!Init, Worktree!TypeOK, Worktree!Revisions, Worktree!Trees
<1>4. TreesSound /\ RecordsSound /\ SnapFollows /\ ListFollows /\ Down
  BY DEF Worktree!Init, TreesSound, RecordsSound, SnapFollows, ListFollows, Down
<1> QED
  BY <1>3, <1>4 DEF TreeInv

LEMMA TreeMeans ==
  ASSUME TreeInv
  PROVE  Worktree!NoFalseFuneral /\ Worktree!LandedIsReachable /\ Worktree!OwnDivergence
<1>1. /\ Worktree!TypeOK /\ RecordsSound
  BY DEF TreeInv
<1>2. Worktree!NoFalseFuneral
  <2>1. ASSUME NEW p \in Paths, records[p] # None, ~records[p].present
        PROVE  ~tree[p].there \/ tree[p].life > records[p].from
    <3>1. /\ records[p] \in Worktree!Records /\ tree[p].life \in Nat /\ RecordSound(p, records[p])
      BY <1>1, <2>1 DEF Worktree!TypeOK, Worktree!Trees, RecordsSound
    <3> QED
      BY <2>1, <3>1 DEF RecordSound, Over, Worktree!Records
  <2> QED
    BY <1>1, <2>1 DEF Worktree!NoFalseFuneral
<1>3. Worktree!OwnDivergence
  BY <1>1 DEF Worktree!OwnDivergence, RecordsSound, RecordSound
<1>4. ASSUME NEW p \in Paths, Worktree!Landed(p)
      PROVE  Worktree!Record(p).head \subseteq main
  <2>1. latest # None /\ Worktree!Record(p) # None
    BY <1>4 DEF Worktree!Landed, Worktree!State, Worktree!Outcome
  <2>2. RecordSound(p, Worktree!Record(p))
    BY <1>1, <2>1 DEF RecordsSound, Worktree!Record
  <2>3. CASE Worktree!State(p) = "landed"
    BY <2>1, <2>2, <2>3 DEF Worktree!State, RecordSound
  <2>4. CASE Worktree!State(p) = "gone" /\ Worktree!Outcome(p) = "landed"
    BY <2>1, <2>2, <2>4 DEF Worktree!State, Worktree!Outcome, RecordSound
  <2> QED
    BY <1>4, <2>3, <2>4 DEF Worktree!Landed
<1> QED
  BY <1>2, <1>3, <1>4 DEF Worktree!LandedIsReachable

\* A record of the lifetime that was told of, or of a later one.
Follows(t, r) == r # None /\ t.nth <= r.nth /\ (t.nth = r.nth => ~r.present /\ r.outcome = t.outcome)

\* What was told is in the file, and in memory; a save that did not fail left them alike.
ToldInv ==
  /\ \A p \in Paths : told[p] # None => Follows(told[p], kept[p]) /\ (alive => Follows(told[p], records[p]))
  /\ step = "saved" /\ ~failed => records = kept

LEMMA ToldInit == Worktree!Init => ToldInv
BY DEF Worktree!Init, ToldInv

LEMMA ToldKept ==
  ASSUME Worktree!TypeOK, ToldInv, UNCHANGED <<told, kept, records>>, alive' => alive,
         step' = "saved" /\ ~failed' => records = kept
  PROVE  ToldInv'
BY Zenon DEF ToldInv

LEMMA ToldStep == ASSUME Worktree!TypeOK, ToldInv, [Worktree!Next]_(Worktree!vars) PROVE ToldInv'
<1>1. CASE Worktree!World \/ Worktree!ScanList \/ Worktree!ScanStatus \/ Worktree!ScanFails
  <2>1. UNCHANGED <<told, kept, records, alive, step, failed>>
    BY <1>1, Zenon DEF Worktree!World, Worktree!Move, Worktree!ScanList, Worktree!ScanStatus, Worktree!ScanFails, Worktree!ghosts
  <2> QED
    BY <2>1, ToldKept, Zenon DEF ToldInv
<1>2. CASE Worktree!StartObserve \/ Worktree!ApplyNothing
  <2>1. UNCHANGED <<told, kept, records, alive>> /\ step' \in {"started", "applied"}
    BY <1>2 DEF Worktree!StartObserve, Worktree!ApplyNothing, Worktree!ghosts
  <2> QED
    BY <2>1, ToldKept DEF ToldInv
<1>3. CASE Worktree!Save
  <2>1. told' = told /\ alive' = alive /\ alive /\ records' = records /\ kept' = records
    BY <1>3 DEF Worktree!Save, Worktree!Material
  <2> QED
    BY <2>1, Zenon DEF ToldInv
<1>4. CASE Worktree!SaveFails
  <2>1. UNCHANGED <<told, kept, records, alive>> /\ failed' = TRUE
    BY <1>4 DEF Worktree!SaveFails
  <2> QED
    BY <2>1, ToldKept
<1>5. CASE Worktree!Publish
  <2>1. /\ alive /\ step = "saved" /\ step' = "idle" /\ alive' = alive /\ records' = records /\ kept' = kept
        /\ told' = IF failed THEN told
                   ELSE [p \in Paths |-> IF records[p] = None \/ records[p].present THEN told[p]
                                         ELSE [outcome |-> records[p].outcome, nth |-> records[p].nth]]
    BY <1>5 DEF Worktree!Publish
  <2>2. CASE failed
    <3>1. told' = told /\ step' # "saved"
      BY <2>1, <2>2
    <3> QED
      BY <2>1, <3>1, ToldKept
  <2>3. CASE ~failed
    <3>1. records = kept
      BY <2>1, <2>3 DEF ToldInv
    <3>2. ASSUME NEW p \in Paths, told'[p] # None
          PROVE  Follows(told'[p], records[p])
      <4>1. CASE records[p] = None \/ records[p].present
        BY <2>1, <2>3, <3>2, <4>1 DEF ToldInv
      <4>2. CASE records[p] # None /\ ~records[p].present
        <5>1. told'[p] = [outcome |-> records[p].outcome, nth |-> records[p].nth]
          BY <2>1, <2>3, <4>2
        <5>2. records[p].nth \in Nat
          BY <4>2 DEF Worktree!TypeOK, Worktree!Records
        <5> QED
          BY <4>2, <5>1, <5>2 DEF Follows
      <4> QED
        BY <4>1, <4>2
    <3> QED
      BY <2>1, <3>1, <3>2 DEF ToldInv
  <2> QED
    BY <2>2, <2>3
<1>6. ASSUME NEW bad \in SUBSET Paths, Worktree!Apply(bad)
      PROVE  ToldInv'
  <2>1. /\ alive /\ alive' = alive /\ told' = told /\ kept' = kept /\ step' = "applied"
        /\ records' = [p \in Paths |-> IF Worktree!Seen(p) THEN Worktree!ObservedPresent(p, p \notin bad)
                                       ELSE Worktree!ObservedAbsent(p, p \notin bad)]
    BY <1>6 DEF Worktree!Apply, Worktree!ghosts
  <2>2. ASSUME NEW p \in Paths, told[p] # None
        PROVE  Follows(told[p], records'[p])
    <3>1. PICK r \in Worktree!Records, m \in Nat, n \in Nat : r = records[p] /\ m = told[p].nth /\ n = r.nth
      BY <2>1, <2>2 DEF ToldInv, Follows, Worktree!TypeOK, Worktree!Records
    <3>2. r # None /\ m <= n /\ (m = n => ~r.present /\ r.outcome = told[p].outcome) /\ r.present \in BOOLEAN
      BY <2>1, <2>2, <3>1 DEF ToldInv, Follows, Worktree!Records
    <3>3. CASE Worktree!Seen(p)
      <4>1. records'[p] = Worktree!ObservedPresent(p, p \notin bad)
        BY <2>1, <3>3
      <4>2. PICK s : s = records'[p]
        OBVIOUS
      <4>3. s.nth = n + (IF r.present THEN 0 ELSE 1)
        BY <3>1, <3>2, <4>1, <4>2 DEF Worktree!ObservedPresent, Worktree!Present, Worktree!Known
      <4>4. m < s.nth /\ s.nth \in Nat
        BY <3>2, <4>3
      <4>5. s # None
        <5>1. records'[p] \in Worktree!Records
          BY <1>6, <3>3, ApplySeen
        <5> QED
          BY <4>2, <5>1, TreeNone
      <4> QED
        BY <3>1, <4>2, <4>4, <4>5 DEF Follows
    <3>4. CASE ~Worktree!Seen(p)
      <4>1. records'[p] = Worktree!ObservedAbsent(p, p \notin bad)
        BY <2>1, <3>4
      <4>2. CASE ~r.present
        <5>1. records'[p] = r
          BY <3>1, <3>2, <4>1, <4>2 DEF Worktree!ObservedAbsent, Worktree!Present, Worktree!Known
        <5> QED
          BY <3>1, <3>2, <5>1 DEF Follows
      <4>3. CASE r.present
        <5>1. PICK o : o = Worktree!GoneOutcome(p, p \notin bad)
          OBVIOUS
        <5>2. PICK s : s = [r EXCEPT !.present = FALSE, !.compared = FALSE, !.goneAt = now, !.outcome = o]
          OBVIOUS
        <5>3. records'[p] = s
          BY <3>1, <3>2, <4>1, <4>3, <5>1, <5>2 DEF Worktree!ObservedAbsent, Worktree!Present, Worktree!Known
        <5>4. s.nth = n
          BY <3>1, <5>2 DEF Worktree!Records
        <5>5. s # None
          <6>1. Worktree!Present(p)
            BY <3>1, <3>2, <4>3 DEF Worktree!Present, Worktree!Known
          <6>2. records'[p] \in Worktree!Records
            BY <1>6, <3>4, <6>1, ApplyMissed
          <6> QED
            BY <5>3, <6>2, TreeNone
        <5> QED
          BY <3>1, <3>2, <4>3, <5>3, <5>4, <5>5 DEF Follows
      <4> QED
        BY <4>2, <4>3
    <3> QED
      BY <3>3, <3>4
  <2> QED
    BY <2>1, <2>2 DEF ToldInv
<1>7. CASE Worktree!Stop
  <2>1. alive' = FALSE /\ step' = "idle" /\ told' = told /\ kept' = kept
    BY <1>7 DEF Worktree!Stop, Worktree!ghosts
  <2> QED
    BY <2>1 DEF ToldInv
<1>8. CASE Worktree!Load
  <2>1. records' = kept /\ told' = told /\ kept' = kept
    BY <1>8 DEF Worktree!Load, Worktree!ghosts
  <2> QED
    BY <2>1 DEF ToldInv
<1>9. CASE UNCHANGED Worktree!vars
  <2>1. UNCHANGED <<told, kept, records, alive, step, failed>>
    BY <1>9, Zenon DEF Worktree!vars, Worktree!ghosts
  <2> QED
    BY <2>1, ToldKept, Zenon DEF ToldInv
<1> QED
  BY <1>1, <1>2, <1>3, <1>4, <1>5, <1>6, <1>7, <1>8, <1>9 DEF Worktree!Next

LEMMA ToldStands == ASSUME Worktree!TypeOK, ToldInv, [Worktree!Next]_(Worktree!vars) PROVE Worktree!SettledOnce
<1> SUFFICES ASSUME NEW p \in Paths, told[p] # None, told'[p] # None, told[p].nth = told'[p].nth
             PROVE  told'[p].outcome = told[p].outcome
  BY DEF Worktree!SettledOnce
<1>1. CASE told'[p] = told[p]
  BY <1>1
<1>2. CASE told'[p] # told[p]
  <2>1. Worktree!Publish
    BY <1>2, Zenon DEF Worktree!Next, Worktree!World, Worktree!Move, Worktree!ScanList, Worktree!ScanStatus, Worktree!ScanFails,
       Worktree!StartObserve, Worktree!ApplyNothing, Worktree!Save, Worktree!SaveFails, Worktree!Apply, Worktree!Stop,
       Worktree!Load, Worktree!vars, Worktree!ghosts
  <2>2. alive /\ told'[p] = [outcome |-> records[p].outcome, nth |-> records[p].nth]
    BY <1>2, <2>1 DEF Worktree!Publish
  <2>3. Follows(told[p], records[p])
    BY <2>2 DEF ToldInv
  <2> QED
    BY <2>2, <2>3 DEF Follows
<1> QED
  BY <1>1, <1>2

----------------------------------------------------------------------------
(* The tailer.                                                             *)

content == x1
modTime == x2
stamp == x3
written == x4
time == x5
saved == x6
phase == x7
cursors == x8
files == x9
observed == x10
watermark == x11
pc == x12
todo == x13
job == x14
admitted == x15
skipped == x16
budget == x17
USE DEF content, modTime, stamp, written, time, saved, phase, cursors, files, observed, watermark, pc, todo, job,
        admitted, skipped, budget

\* Lines are numbered as they are written, so that each is in one place at most.
LinesApart ==
  /\ written <= MaxLines
  /\ \A f \in Tailer!Files : \A n \in 1..Len(content[f]) : content[f][n] \in 1..written
  /\ \A f, g \in Tailer!Files : \A n \in 1..Len(content[f]), m \in 1..Len(content[g]) :
       content[f][n] = content[g][m] => f = g /\ n = m

\* What a parser was fed, p, begins the file, s, as long as that begins with the same line; w is
\* the last line that was written.
Trace(p, s, w) ==
  /\ \A n \in 1..Len(p) : p[n] \in 1..w
  /\ Len(p) > 0 /\ Len(s) > 0 /\ s[1] = p[1] =>
       Len(p) <= Len(s) /\ \A n \in 1..Len(p) : p[n] = s[n]

\* A cursor, or the state of a file, that stands behind p, all of it captured.
Marks(c, p) == c.offset = Len(p) /\ (Len(p) > 0 => c.identity = p[1] /\ c.last = p[Len(p)])
Sound(c, p, s, w, S) == Trace(p, s, w) /\ Marks(c, p) /\ \A n \in 1..Len(p) : p[n] \in S

Covered == Silent \cup skipped \cup {e.line : e \in admitted}
CursorSound(c, f) == Sound(c, c.parser, content[f], written, Covered) /\ c.pendingId \in 0..MaxIds

\* The parser of a file, without the line in hand.
InHand(f) == pc \in {"sink", "checkpoint"} /\ f = Tailer!First(todo)
Fed(f) == IF InHand(f) THEN job.before ELSE files[f].parser
Handled(f) ==
  /\ files[f].parser = Append(job.before, job.line) /\ Trace(files[f].parser, content[f], written)
  /\ job.line \in 1..written
  /\ pc = "sink" => job.id \in Tailer!Ids
  /\ pc = "checkpoint" => job.line \in Covered
FileSound(f) == Sound(files[f], Fed(f), content[f], written, Covered) /\ (InHand(f) => Handled(f))

Stages ==
  /\ phase # "loaded" => pc = "idle"
  /\ phase = "baselined" => saved.kind # "ok"
  /\ pc \in {"sink", "checkpoint"} => Tailer!First(todo) \in Tailer!Files

\* As long as all is calm: memory and checkpoint agree, files only grow, and an event that was
\* accepted is behind the checkpoint or the pending one.
Past(e, c, n) == n <= c.offset \/ (n = c.offset + 1 /\ c.pendingNext = n /\ c.pendingId = e.id)
Begun(p, s) == Len(p) > 0 => Len(s) > 0 /\ s[1] = p[1]
CalmFile(f) ==
  /\ Begun(cursors[f].parser, content[f]) /\ Begun(saved.cursors[f].parser, content[f])
  /\ Begun(files[f].parser, content[f])
  /\ phase \in {"baselined", "loaded"} => files[f].offset = cursors[f].offset
  /\ InHand(f) /\ pc = "sink" => /\ cursors[f].pendingId = job.id /\ cursors[f].pendingNext = files[f].offset + 1
                                 /\ files[f].offset < Len(content[f]) /\ job.line = content[f][files[f].offset + 1]
CalmEvent(e) ==
  \E f \in Tailer!Files : \E n \in 1..Len(content[f]) : content[f][n] = e.line /\ Past(e, saved.cursors[f], n)
Calm ==
  /\ phase = "loaded" => saved.kind = "ok" /\ cursors = saved.cursors
  /\ saved.kind # "ok" => admitted = {}
  /\ \A e \in admitted : CalmEvent(e)
  /\ \A d, e \in admitted : d.line = e.line => d = e
  /\ \A f \in Tailer!Files : CalmFile(f)

TailInv ==
  /\ Tailer!TypeOK /\ LinesApart /\ Stages
  /\ \A f \in Tailer!Files : CursorSound(cursors[f], f) /\ CursorSound(saved.cursors[f], f) /\ FileSound(f)
  /\ budget.calm => Calm
  /\ "calm" \in DOMAIN budget


LEMMA TailConstants ==
  /\ LastFile \in Nat /\ MaxLines \in Nat /\ MaxIds \in Nat /\ Tolerance \in Nat
  /\ Tailer!Files = 1..LastFile /\ Tailer!Lines = 1..MaxLines /\ Tailer!Ids = 1..MaxIds
BY DaemonAssumption DEF Tailer!Files, Tailer!Lines, Tailer!Ids

LEMMA LeastFirst ==
  ASSUME NEW S \in SUBSET Nat, S # {}
  PROVE  Tailer!First(S) \in S
<1>1. PICK x \in S : \A y \in S : <<y, x>> \notin OpToRel(<, Nat)
  <2>1. \E x \in S : \A y \in S : <<y, x>> \notin OpToRel(<, Nat)
    BY NatLessThanWellFounded, WFMin, Zenon
  <2> QED
    BY <2>1
<1>2. \A y \in S : ~(y < x)
  BY <1>1 DEF OpToRel
<1>3. \A y \in S : x <= y
  BY <1>2
<1> QED
  BY <1>3 DEF Tailer!First

\* What becomes of a file: nothing, one line more, or that line alone.
Grown(s, t, w, v) ==
  \/ t = s /\ v \in {w, w + 1}
  \/ v = w + 1 /\ (t = Append(s, v) \/ t = Append(<<>>, v))

LEMMA TraceGrows ==
  ASSUME NEW p \in Seq(Nat), NEW s \in Seq(Nat), NEW t \in Seq(Nat), NEW w \in Nat, NEW v \in Nat,
         Trace(p, s, w), Grown(s, t, w, v)
  PROVE  Trace(p, t, v)
<1>1. \A n \in 1..Len(p) : p[n] \in 1..v /\ p[n] \in 1..w
  BY DEF Trace, Grown
<1> SUFFICES ASSUME Len(p) > 0, Len(t) > 0, t[1] = p[1]
             PROVE  Len(p) <= Len(t) /\ \A n \in 1..Len(p) : p[n] = t[n]
  BY <1>1 DEF Trace
<1>2. p[1] <= w
  BY <1>1
<1>3. CASE t = s
  BY <1>3 DEF Trace
<1>4. CASE t = Append(s, v) /\ v = w + 1
  <2>1. Len(s) > 0
    BY <1>2, <1>4
  <2>2. s[1] = p[1] /\ Len(t) = Len(s) + 1 /\ \A n \in 1..Len(s) : t[n] = s[n]
    BY <1>4, <2>1
  <2>3. Len(p) <= Len(s) /\ \A n \in 1..Len(p) : p[n] = s[n]
    BY <2>1, <2>2 DEF Trace
  <2> QED
    BY <2>2, <2>3
<1>5. CASE t = Append(<<>>, v) /\ v = w + 1
  BY <1>2, <1>5
<1> QED
  BY <1>3, <1>4, <1>5 DEF Grown

LEMMA SoundGrows ==
  ASSUME NEW c, NEW p \in Seq(Nat), NEW s \in Seq(Nat), NEW t \in Seq(Nat), NEW w \in Nat, NEW v \in Nat,
         NEW S, NEW T, S \subseteq T, Sound(c, p, s, w, S), Grown(s, t, w, v)
  PROVE  Sound(c, p, t, v, T)
BY TraceGrows DEF Sound

LEMMA SoundEmpty ==
  ASSUME NEW c, c.offset = 0, NEW s, NEW w, NEW S
  PROVE  Sound(c, <<>>, s, w, S)
BY DEF Sound, Trace, Marks

\* A file that is read to its end.
LEMMA SoundWhole ==
  ASSUME NEW c, NEW s \in Seq(Nat), NEW w \in Nat, NEW S, Marks(c, s), \A n \in 1..Len(s) : s[n] \in 1..w /\ s[n] \in S
  PROVE  Sound(c, s, s, w, S)
BY DEF Sound, Trace

\* The next line, taken by the parser and then by the cursor.
LEMMA SoundNext ==
  ASSUME NEW c, NEW p \in Seq(Nat), NEW s \in Seq(Nat), NEW w \in Nat, NEW S, Sound(c, p, s, w, S),
         c.offset < Len(s), s[c.offset + 1] \in 1..w
  PROVE  Trace(Append(p, s[c.offset + 1]), s, w)
<1> DEFINE line == s[c.offset + 1]
           q == Append(p, line)
<1>1. c.offset = Len(p) /\ Len(q) = Len(p) + 1 /\ q[Len(p) + 1] = line /\ \A n \in 1..Len(p) : q[n] = p[n]
  BY DEF Sound, Marks
<1>2. \A n \in 1..Len(q) : q[n] \in 1..w
  BY <1>1 DEF Sound, Trace
<1>3. ASSUME s[1] = q[1]
      PROVE  Len(q) <= Len(s) /\ \A n \in 1..Len(q) : q[n] = s[n]
  <2>1. ASSUME Len(p) > 0
        PROVE  \A n \in 1..Len(p) : p[n] = s[n]
    <3>1. Len(s) > 0 /\ s[1] = p[1]
      BY <1>1, <1>3, <2>1
    <3> QED
      BY <2>1, <3>1 DEF Sound, Trace
  <2> QED
    BY <1>1, <2>1
<1> QED
  BY <1>2, <1>3 DEF Trace

LEMMA SoundMoved ==
  ASSUME NEW c, NEW d, NEW p \in Seq(Nat), NEW s, NEW w, NEW S, NEW line \in Nat, Sound(c, p, s, w, S),
         Trace(Append(p, line), s, w), line \in S,
         d.offset = c.offset + 1, d.identity = (IF c.offset + 1 = 1 THEN line ELSE c.identity), d.last = line
  PROVE  Sound(d, Append(p, line), s, w, S)
<1> DEFINE q == Append(p, line)
<1>1. c.offset = Len(p) /\ Len(q) = Len(p) + 1 /\ q[Len(p) + 1] = line /\ \A n \in 1..Len(p) : q[n] = p[n]
  BY DEF Sound, Marks
<1>2. Marks(d, q)
  BY <1>1 DEF Sound, Marks
<1>3. \A n \in 1..Len(q) : q[n] \in S
  BY <1>1 DEF Sound
<1> QED
  BY <1>2, <1>3 DEF Sound

LEMMA LineSequence ==
  ASSUME NEW p \in Seq(Tailer!Lines)
  PROVE  p \in Seq(Nat) /\ Len(p) \in Nat /\ \A n \in 1..Len(p) : p[n] \in Tailer!Lines
BY TailConstants

\* What the proofs below need of the types.
LEMMA TailTyped ==
  ASSUME TailInv, NEW f \in Tailer!Files
  PROVE  /\ content[f] \in Seq(Tailer!Lines) /\ content[f] \in Seq(Nat) /\ written \in Nat
         /\ cursors[f] \in Tailer!Cursor /\ cursors[f].parser \in Seq(Nat)
         /\ saved.cursors[f] \in Tailer!Cursor /\ saved.cursors[f].parser \in Seq(Nat)
         /\ files[f] \in Tailer!File /\ files[f].parser \in Seq(Nat) /\ job.before \in Seq(Nat) /\ Fed(f) \in Seq(Nat)
         /\ CursorSound(cursors[f], f) /\ CursorSound(saved.cursors[f], f) /\ FileSound(f)
<1>1. /\ content \in [Tailer!Files -> Seq(Tailer!Lines)] /\ written \in Nat
      /\ cursors \in [Tailer!Files -> Tailer!Cursor] /\ files \in [Tailer!Files -> Tailer!File]
      /\ saved.cursors \in [Tailer!Files -> Tailer!Cursor] /\ job.before \in Seq(Tailer!Lines)
  BY DEF TailInv, Tailer!TypeOK
<1>2. \A c \in Tailer!Cursor : c.parser \in Seq(Nat)
  BY LineSequence DEF Tailer!Cursor
<1>3. \A c \in Tailer!File : c.parser \in Seq(Nat)
  BY LineSequence DEF Tailer!File
<1>4. content[f] \in Seq(Nat) /\ job.before \in Seq(Nat)
  BY <1>1, LineSequence
<1>5. CursorSound(cursors[f], f) /\ CursorSound(saved.cursors[f], f) /\ FileSound(f)
  BY DEF TailInv
<1>6. Fed(f) \in Seq(Nat)
  BY <1>1, <1>3, <1>4 DEF Fed
<1> QED
  BY <1>1, <1>2, <1>3, <1>4, <1>5, <1>6

\* Every step leaves the files or adds a line, and captures more.
TailGoes ==
  /\ \A f \in Tailer!Files : Grown(content[f], content'[f], written, written') /\ content'[f] \in Seq(Nat)
  /\ written' \in Nat /\ Covered \subseteq Covered'
CursorNext(c, f) == Sound(c, c.parser, content'[f], written', Covered') /\ c.pendingId \in 0..MaxIds

LEMMA CursorGoes ==
  ASSUME TailInv, TailGoes, NEW f \in Tailer!Files, NEW c, c.parser \in Seq(Nat), CursorSound(c, f)
  PROVE  CursorNext(c, f)
BY TailTyped, SoundGrows DEF TailGoes, CursorNext, CursorSound

LEMMA TailRests ==
  ASSUME TailInv, UNCHANGED <<content, written>>, skipped \subseteq skipped', admitted \subseteq admitted'
  PROVE  TailGoes /\ LinesApart'
<1>1. Covered \subseteq Covered'
  BY DEF Covered
<1>2. \A f \in Tailer!Files : Grown(content[f], content'[f], written, written') /\ content'[f] \in Seq(Nat)
  BY TailTyped DEF Grown
<1>3. LinesApart'
  BY Zenon DEF TailInv, LinesApart
<1>4. written' \in Nat
  BY DEF TailInv, Tailer!TypeOK
<1> QED
  BY <1>1, <1>2, <1>3, <1>4 DEF TailGoes

\* A file that no step handles, or that is handed over without a line in hand.
LEMMA FileRests ==
  ASSUME TailInv, TailGoes, NEW f \in Tailer!Files, files'[f] = files[f],
         \/ UNCHANGED <<pc, todo, job>>
         \/ ~InHand(f) /\ pc' \notin {"sink", "checkpoint"}
         \/ ~InHand(f) /\ f # Tailer!First(todo) /\ todo' = todo
  PROVE  FileSound(f)'
<1>1. /\ content[f] \in Seq(Nat) /\ written \in Nat /\ Fed(f) \in Seq(Nat) /\ FileSound(f) /\ files[f].parser \in Seq(Nat)
      /\ Grown(content[f], content'[f], written, written') /\ content'[f] \in Seq(Nat) /\ written' \in Nat
      /\ Covered \subseteq Covered'
  BY TailTyped DEF TailGoes
<1>2. Sound(files[f], Fed(f), content'[f], written', Covered')
  BY <1>1, SoundGrows DEF FileSound
<1>3. CASE ~InHand(f) /\ ~InHand(f)'
  <2>1. Fed(f)' = Fed(f)
    BY <1>3 DEF Fed
  <2> QED
    BY <1>2, <1>3, <2>1 DEF FileSound
<1>4. CASE UNCHANGED <<pc, todo, job>>
  <2>1. (InHand(f)' <=> InHand(f)) /\ Fed(f)' = Fed(f)
    BY <1>4, Zenon DEF InHand, Fed
  <2>2. ASSUME InHand(f)
        PROVE  Handled(f)'
    <3>1. Handled(f)
      BY <1>1, <2>2 DEF FileSound
    <3>2. Trace(files[f].parser, content'[f], written')
      BY <1>1, <3>1, TraceGrows DEF Handled
    <3>3. job.line \in 1..written' /\ (pc = "checkpoint" => job.line \in Covered')
      <4>1. written' >= written
        BY <1>1 DEF Grown
      <4> QED
        BY <1>1, <3>1, <4>1 DEF Handled
    <3> QED
      BY <1>4, <3>1, <3>2, <3>3, Zenon DEF Handled
  <2> QED
    BY <1>2, <2>1, <2>2 DEF FileSound
<1>5. ~InHand(f)' \/ UNCHANGED <<pc, todo, job>>
  BY DEF InHand
<1> QED
  BY <1>3, <1>4, <1>5 DEF InHand

TailSaved == [kind: {"none", "corrupt", "ok"}, at: Nat, cursors: [Tailer!Files -> Tailer!Cursor]]

\* A save leaves the new checkpoint or the old one, and the latter is not calm.
LEMMA SaveEither ==
  ASSUME TailInv, cursors' \in [Tailer!Files -> Tailer!Cursor], Tailer!Save \/ Tailer!SaveFails
  PROVE  /\ saved' \in TailSaved /\ "calm" \in DOMAIN budget'
         /\ \/ Tailer!Save /\ saved'.kind = "ok" /\ saved'.cursors = cursors' /\ budget' = budget
            \/ Tailer!SaveFails /\ saved' = saved /\ ~budget'.calm
<1>1. saved \in TailSaved /\ time \in Nat /\ "calm" \in DOMAIN budget
  BY DEF TailInv, Tailer!TypeOK, TailSaved
<1>2. CASE Tailer!Save
  <2>1. saved' = [kind |-> "ok", at |-> time, cursors |-> cursors'] /\ budget' = budget
    BY <1>2, Zenon DEF Tailer!Save
  <2> QED
    BY <1>1, <1>2, <2>1 DEF TailSaved
<1>3. CASE Tailer!SaveFails
  <2>1. saved' = saved /\ budget' = [budget EXCEPT !.saves = @ - 1, !.calm = FALSE]
    BY <1>3, Zenon DEF Tailer!SaveFails
  <2> QED
    BY <1>1, <1>3, <2>1
<1> QED
  BY <1>2, <1>3

LEMMA TailFiles ==
  ASSUME TailInv, NEW f \in Tailer!Files
  PROVE  /\ Tailer!NoCursor \in Tailer!Cursor /\ Tailer!NoFile \in Tailer!File
         /\ Tailer!BaselineFile(f) \in Tailer!File
         /\ Tailer!CursorOf(Tailer!BaselineFile(f)) \in Tailer!Cursor
         /\ [Tailer!NoFile EXCEPT !.known = TRUE] \in Tailer!File
         /\ [Tailer!NoCursor EXCEPT !.known = TRUE] \in Tailer!Cursor
         /\ \A b \in Tailer!File : Tailer!CursorOf(b) \in Tailer!Cursor
<1>1. <<>> \in Seq(Tailer!Lines)
  OBVIOUS
<1>2. content[f] \in Seq(Tailer!Lines)
  BY TailTyped
<1>3. \A n \in Nat : Tailer!LineAt(f, n) \in Nat
  BY <1>2, LineSequence, TailConstants DEF Tailer!LineAt
<1>4. Len(content[f]) \in Nat
  BY <1>2
<1>5. Tailer!BaselineFile(f) \in Tailer!File
  BY <1>2, <1>3, <1>4 DEF Tailer!BaselineFile, Tailer!File
<1>6. \A b \in Tailer!File : Tailer!CursorOf(b) \in Tailer!Cursor
  BY DEF Tailer!CursorOf, Tailer!File, Tailer!Cursor
<1>7. /\ Tailer!NoCursor \in Tailer!Cursor /\ Tailer!NoFile \in Tailer!File
      /\ [Tailer!NoFile EXCEPT !.known = TRUE] \in Tailer!File
      /\ [Tailer!NoCursor EXCEPT !.known = TRUE] \in Tailer!Cursor
  BY <1>1 DEF Tailer!NoCursor, Tailer!NoFile, Tailer!File, Tailer!Cursor
<1> QED
  BY <1>5, <1>6, <1>7

\* The file of the poll.
LEMMA TailFirst ==
  ASSUME TailInv, todo # {}
  PROVE  Tailer!First(todo) \in todo /\ Tailer!First(todo) \in Tailer!Files
<1>1. todo \subseteq Tailer!Files /\ Tailer!Files \subseteq Nat
  BY TailConstants DEF TailInv, Tailer!TypeOK
<1> QED
  BY <1>1, LeastFirst

\* The agents that write.
LEMMA TailWrite ==
  ASSUME TailInv, NEW f \in Tailer!Files, NEW old \in {content[f], <<>>}, NEW t \in Nat, Tailer!Write(f, old, t)
  PROVE  /\ TailGoes /\ LinesApart' /\ written' \in Nat
         /\ content' \in [Tailer!Files -> Seq(Tailer!Lines)] /\ modTime' \in [Tailer!Files -> Nat] /\ stamp' \in [Tailer!Files -> Nat]
         /\ content'[f] = Append(old, written') /\ \A g \in Tailer!Files \ {f} : content'[g] = content[g]
         /\ UNCHANGED <<time, saved, phase, cursors, files, observed, watermark, pc, todo, job, admitted, skipped>>
<1>1. /\ content \in [Tailer!Files -> Seq(Tailer!Lines)] /\ modTime \in [Tailer!Files -> Nat] /\ stamp \in [Tailer!Files -> Nat]
      /\ written \in Nat /\ MaxLines \in Nat /\ LinesApart
  BY TailConstants DEF TailInv, Tailer!TypeOK
<1>2. /\ written < MaxLines /\ written' = written + 1
      /\ content' = [content EXCEPT ![f] = Append(old, written + 1)]
      /\ modTime' = [modTime EXCEPT ![f] = t] /\ stamp' = [stamp EXCEPT ![f] = @ + 1]
      /\ UNCHANGED <<time, saved, phase, cursors, files, observed, watermark, pc, todo, job, admitted, skipped>>
  BY Zenon DEF Tailer!Write, Tailer!memory, Tailer!poll
<1>3. written + 1 \in Tailer!Lines /\ written' \in Nat
  BY <1>1, <1>2, TailConstants
<1>4. old \in Seq(Tailer!Lines) /\ Append(old, written + 1) \in Seq(Tailer!Lines)
  <2>1. content[f] \in Seq(Tailer!Lines) /\ <<>> \in Seq(Tailer!Lines)
    BY <1>1
  <2>2. old \in Seq(Tailer!Lines)
    BY <2>1
  <2> HIDE DEF written
  <2> QED
    BY <1>3, <2>2, AppendProperties
<1>5. content' \in [Tailer!Files -> Seq(Tailer!Lines)] /\ modTime' \in [Tailer!Files -> Nat] /\ stamp' \in [Tailer!Files -> Nat]
  BY <1>1, <1>2, <1>4
<1>6. content'[f] = Append(old, written') /\ \A g \in Tailer!Files \ {f} : content'[g] = content[g]
  BY <1>1, <1>2
<1>7. \A g \in Tailer!Files : Grown(content[g], content'[g], written, written') /\ content'[g] \in Seq(Nat)
  BY <1>2, <1>5, <1>6, LineSequence DEF Grown
<1>8. Covered' = Covered
  BY <1>2 DEF Covered
<1>9. LinesApart'
  <2>1. \A n \in 1..Len(old) : old[n] \in 1..written
    BY <1>1 DEF LinesApart
  <2>2. Len(content'[f]) = Len(old) + 1 /\ content'[f][Len(old) + 1] = written' /\ \A n \in 1..Len(old) : content'[f][n] = old[n]
    BY <1>4, <1>6
  <2>3. \A n, m \in 1..Len(old) : old[n] = old[m] => n = m
    BY <1>1 DEF LinesApart
  <2>4. \A g \in Tailer!Files \ {f} : \A n \in 1..Len(old), m \in 1..Len(content[g]) : old[n] # content[g][m]
    BY <1>1 DEF LinesApart
  <2>5. written' <= MaxLines
    BY <1>1, <1>2
  <2>6. \A g \in Tailer!Files : \A n \in 1..Len(content'[g]) : content'[g][n] \in 1..written'
    <3>1. ASSUME NEW g \in Tailer!Files, NEW n \in 1..Len(content'[g])
          PROVE  content'[g][n] \in 1..written'
      <4>1. CASE g = f
        BY <1>1, <1>2, <1>4, <2>1, <2>2, <3>1, <4>1
      <4>2. CASE g # f
        <5>1. content[g][n] \in 1..written
          BY <1>1, <1>6, <3>1, <4>2 DEF LinesApart
        <5> QED
          BY <1>1, <1>2, <1>6, <4>2, <5>1
      <4> QED
        BY <4>1, <4>2
    <3> QED
      BY <3>1
  <2>7. ASSUME NEW g \in Tailer!Files, NEW h \in Tailer!Files, NEW n \in 1..Len(content'[g]), NEW m \in 1..Len(content'[h]),
               content'[g][n] = content'[h][m]
        PROVE  g = h /\ n = m
    <3>1. CASE g = f /\ h = f
      BY <1>1, <1>2, <1>4, <2>1, <2>2, <2>3, <2>7, <3>1
    <3>2. CASE g # f /\ h # f
      <4>1. content'[g] = content[g] /\ content'[h] = content[h]
        BY <1>6, <3>2
      <4>2. n \in 1..Len(content[g]) /\ m \in 1..Len(content[h]) /\ content[g][n] = content[h][m]
        BY <2>7, <4>1
      <4> QED
        BY <1>1, <4>2, Zenon DEF LinesApart
    <3>3. CASE g = f /\ h # f
      <4>1. content[h][m] \in 1..written /\ content'[h][m] = content[h][m]
        BY <1>1, <1>6, <2>7, <3>3 DEF LinesApart
      <4> QED
        BY <1>1, <1>2, <1>4, <1>6, <2>2, <2>4, <2>7, <3>3, <4>1
    <3>4. CASE g # f /\ h = f
      <4>1. content[g][n] \in 1..written /\ content'[g][n] = content[g][n]
        BY <1>1, <1>6, <2>7, <3>4 DEF LinesApart
      <4> QED
        BY <1>1, <1>2, <1>4, <1>6, <2>2, <2>4, <2>7, <3>4, <4>1
    <3> QED
      BY <3>1, <3>2, <3>3, <3>4
  <2> QED
    BY <2>5, <2>6, <2>7 DEF LinesApart
<1> QED
  BY <1>2, <1>3, <1>5, <1>6, <1>7, <1>8, <1>9 DEF TailGoes

\* While all is calm files only grow, and what was so stays so.
Appended ==
  \A f \in Tailer!Files : content'[f] \in Seq(Nat) /\ (content'[f] = content[f] \/ content'[f] = Append(content[f], written'))

LEMMA BegunGrows ==
  ASSUME NEW p, NEW s \in Seq(Nat), NEW t, NEW v, t = s \/ t = Append(s, v), Begun(p, s)
  PROVE  Begun(p, t)
BY DEF Begun

LEMMA AppendKeeps ==
  ASSUME NEW s \in Seq(Nat), NEW t, NEW v, t = s \/ t = Append(s, v), NEW n \in 1..Len(s)
  PROVE  n \in 1..Len(t) /\ t[n] = s[n]
<1>1. CASE t = s
  BY <1>1
<1>2. CASE t = Append(s, v)
  BY <1>2
<1> QED
  BY <1>1, <1>2

LEMMA EventStays ==
  ASSUME TailInv, Appended, NEW e, CalmEvent(e),
         \A f \in Tailer!Files : \A n \in 1..Len(content[f]) :
           content[f][n] = e.line /\ Past(e, saved.cursors[f], n) => Past(e, saved'.cursors[f], n)
  PROVE  CalmEvent(e)'
<1>0. PICK f \in Tailer!Files : \E n \in 1..Len(content[f]) : content[f][n] = e.line /\ Past(e, saved.cursors[f], n)
  BY DEF CalmEvent
<1>1. PICK n \in 1..Len(content[f]) : content[f][n] = e.line /\ Past(e, saved.cursors[f], n)
  BY <1>0
<1>2. Past(e, saved'.cursors[f], n)
  BY <1>1
<1>3. n \in 1..Len(content'[f]) /\ content'[f][n] = e.line
  <2>1. content[f] \in Seq(Nat) /\ (content'[f] = content[f] \/ content'[f] = Append(content[f], written'))
    BY TailTyped DEF Appended
  <2>2. n \in 1..Len(content'[f]) /\ content'[f][n] = content[f][n]
    BY <2>1, AppendKeeps
  <2> QED
    BY <1>1, <2>2
<1>4. Past(e, saved.cursors[f], n)'
  BY <1>2 DEF Past
<1> QED
  BY <1>3, <1>4 DEF CalmEvent

LEMMA CalmFileStays ==
  ASSUME TailInv, Calm, Appended, NEW f \in Tailer!Files,
         cursors'[f] = cursors[f], saved'.cursors[f] = saved.cursors[f], files'[f] = files[f],
         phase' = phase \/ phase' \in {"down", "up"},
         \/ UNCHANGED <<pc, todo, job>>
         \/ pc' # "sink"
         \/ f # Tailer!First(todo) /\ todo' = todo
  PROVE  CalmFile(f)'
<1>1. CalmFile(f)
  BY DEF Calm
<1>2. content[f] \in Seq(Nat) /\ (content'[f] = content[f] \/ content'[f] = Append(content[f], written'))
  BY TailTyped DEF Appended
<1>3. /\ Begun(cursors'[f].parser, content'[f]) /\ Begun(saved'.cursors[f].parser, content'[f])
      /\ Begun(files'[f].parser, content'[f])
  BY <1>1, <1>2, BegunGrows DEF CalmFile
<1>4. phase' \in {"baselined", "loaded"} => files'[f].offset = cursors'[f].offset
  BY <1>1 DEF CalmFile
<1>5. InHand(f)' /\ pc' = "sink" => InHand(f) /\ pc = "sink" /\ job' = job
  BY Zenon DEF InHand
<1>6. InHand(f)' /\ pc' = "sink" =>
        /\ cursors'[f].pendingId = job'.id /\ cursors'[f].pendingNext = files'[f].offset + 1
        /\ files'[f].offset < Len(content'[f]) /\ job'.line = content'[f][files'[f].offset + 1]
  <2> SUFFICES ASSUME InHand(f)', pc' = "sink"
               PROVE  /\ cursors'[f].pendingId = job'.id /\ cursors'[f].pendingNext = files'[f].offset + 1
                      /\ files'[f].offset < Len(content'[f]) /\ job'.line = content'[f][files'[f].offset + 1]
    OBVIOUS
  <2>1. /\ cursors[f].pendingId = job.id /\ cursors[f].pendingNext = files[f].offset + 1
        /\ files[f].offset < Len(content[f]) /\ job.line = content[f][files[f].offset + 1] /\ job' = job
    BY <1>1, <1>5 DEF CalmFile
  <2>2. files[f].offset \in Nat
    BY TailTyped DEF Tailer!File
  <2>3. files[f].offset < Len(content'[f]) /\ content'[f][files[f].offset + 1] = content[f][files[f].offset + 1]
    <3>1. PICK n : n = files[f].offset + 1
      OBVIOUS
    <3>2. n \in 1..Len(content[f])
      BY <1>2, <2>1, <2>2, <3>1
    <3>3. n \in 1..Len(content'[f]) /\ content'[f][n] = content[f][n]
      BY <1>2, <3>2, AppendKeeps
    <3> QED
      BY <2>2, <3>1, <3>3
  <2> QED
    BY <2>1, <2>3
<1> QED
  BY <1>3, <1>4, <1>6, Zenon DEF CalmFile, Begun

\* A step that leaves cursors and files alone, and hands on no line.
LEMMA TailFrame ==
  ASSUME TailInv, TailGoes, LinesApart', Tailer!TypeOK', Stages', "calm" \in DOMAIN budget',
         UNCHANGED <<saved, cursors, files, admitted>>,
         budget'.calm => budget.calm /\ Appended,
         phase' = phase \/ phase' \in {"down", "up"},
         UNCHANGED <<pc, todo, job>> \/ (pc \notin {"sink", "checkpoint"} /\ pc' \notin {"sink", "checkpoint"})
  PROVE  TailInv'
<1>1. ASSUME NEW f \in Tailer!Files
      PROVE  (CursorSound(cursors[f], f) /\ CursorSound(saved.cursors[f], f) /\ FileSound(f))'
  <2>1. CursorNext(cursors[f], f) /\ CursorNext(saved.cursors[f], f)
    BY TailTyped, CursorGoes
  <2>2. CursorNext(cursors'[f], f) /\ CursorNext(saved'.cursors[f], f)
    BY <2>1
  <2>3. FileSound(f)'
    BY FileRests DEF InHand
  <2> QED
    BY <2>2, <2>3, Zenon DEF CursorNext, CursorSound
<1>2. ASSUME budget'.calm
      PROVE  Calm'
  <2>1. Calm /\ Appended
    BY <1>2 DEF TailInv
  <2>2. \A f \in Tailer!Files : CalmFile(f)'
    BY <2>1, CalmFileStays
  <2>3. \A e \in admitted : CalmEvent(e)'
    <3>1. ASSUME NEW e \in admitted
          PROVE  CalmEvent(e)'
      <4>1. CalmEvent(e)
        BY <2>1 DEF Calm
      <4> QED
        BY <2>1, <4>1, EventStays
    <3> QED
      BY <3>1
  <2>4. /\ phase' = "loaded" => saved'.kind = "ok" /\ cursors' = saved'.cursors
        /\ saved'.kind # "ok" => admitted' = {}
        /\ \A d, e \in admitted' : d.line = e.line => d = e
    BY <2>1 DEF Calm
  <2>5. \A e \in admitted' : CalmEvent(e)'
    BY <2>3
  <2> QED
    BY <2>2, <2>4, <2>5, Zenon DEF Calm
<1> QED
  BY <1>1, <1>2 DEF TailInv

LEMMA TailSources ==
  ASSUME TailInv, NEW f \in Tailer!Files, Tailer!AppendLine(f) \/ Tailer!ReplaceFile(f) \/ Tailer!MoveIn(f)
  PROVE  TailInv'
<1>1. PICK old \in {content[f], <<>>}, t \in Nat :
        /\ Tailer!Write(f, old, t)
        /\ "calm" \in DOMAIN budget'
        /\ budget'.calm => budget.calm /\ old = content[f]
  <2>1. time \in Nat /\ "calm" \in DOMAIN budget
    BY DEF TailInv, Tailer!TypeOK
  <2>2. CASE Tailer!AppendLine(f)
    BY <2>1, <2>2 DEF Tailer!AppendLine
  <2>3. CASE Tailer!ReplaceFile(f)
    <3>1. Tailer!Write(f, <<>>, time) /\ budget' = [budget EXCEPT !.replaces = @ - 1, !.calm = FALSE]
      BY <2>3, Zenon DEF Tailer!ReplaceFile
    <3> QED
      BY <2>1, <3>1
  <2>4. CASE Tailer!MoveIn(f)
    <3>1. Tailer!Write(f, <<>>, 0) /\ budget' = [budget EXCEPT !.moves = @ - 1] /\ content[f] = <<>>
      BY <2>4, Zenon DEF Tailer!MoveIn, Tailer!Exists
    <3> QED
      BY <2>1, <3>1
  <2> QED
    BY <2>2, <2>3, <2>4
<1>2. /\ TailGoes /\ LinesApart' /\ written' \in Nat
      /\ content' \in [Tailer!Files -> Seq(Tailer!Lines)] /\ modTime' \in [Tailer!Files -> Nat] /\ stamp' \in [Tailer!Files -> Nat]
      /\ content'[f] = Append(old, written') /\ \A g \in Tailer!Files \ {f} : content'[g] = content[g]
      /\ UNCHANGED <<time, saved, phase, cursors, files, observed, watermark, pc, todo, job, admitted, skipped>>
  BY <1>1, TailWrite
<1>3. Tailer!TypeOK'
  BY <1>2, Zenon DEF TailInv, Tailer!TypeOK
<1>4. budget'.calm => Appended
  BY <1>1, <1>2 DEF Appended, TailGoes
<1>5. Stages'
  BY <1>2, Zenon DEF TailInv, Stages
<1> QED
  BY <1>1, <1>2, <1>3, <1>4, <1>5, TailFrame

LEMMA TailTicks ==
  ASSUME TailInv, \/ Tailer!Tick \/ Tailer!StartProcess \/ Tailer!PollStart \/ Tailer!PollEnd
                  \/ \E f \in Tailer!Files : Tailer!PollUnreadable(f) \/ Tailer!ReadToEnd(f)
  PROVE  TailInv'
<1>1. /\ UNCHANGED <<content, modTime, stamp, written, saved, cursors, files, observed, watermark, admitted, skipped>>
      /\ phase' = phase \/ phase' = "up"
      /\ UNCHANGED <<pc, todo, job>> \/ (pc \notin {"sink", "checkpoint"} /\ pc' \notin {"sink", "checkpoint"})
  BY Zenon DEF Tailer!Tick, Tailer!StartProcess, Tailer!PollStart, Tailer!PollEnd, Tailer!PollUnreadable, Tailer!ReadToEnd,
     Tailer!EndPoll, Tailer!NextFile, Tailer!source, Tailer!memory, Tailer!poll
<1>2. "calm" \in DOMAIN budget' /\ (budget'.calm => budget.calm)
  <2>1. budget' = budget \/ budget' = [budget EXCEPT !.sinks = @ - 1]
    BY Zenon DEF Tailer!Tick, Tailer!StartProcess, Tailer!PollStart, Tailer!PollEnd, Tailer!PollUnreadable, Tailer!ReadToEnd
  <2>2. "calm" \in DOMAIN budget
    BY DEF TailInv
  <2> QED
    BY <2>1, <2>2
<1>3. Tailer!TypeOK'
  <2>1. time' \in Nat
    <3>1. time' = time \/ time' = time + 1
      BY Zenon DEF Tailer!Tick, Tailer!StartProcess, Tailer!PollStart, Tailer!PollEnd, Tailer!PollUnreadable, Tailer!ReadToEnd
    <3>2. time \in Nat
      BY DEF TailInv, Tailer!TypeOK
    <3> QED
      BY <3>1, <3>2
  <2>2. pc' \in {"idle", "polling", "reading", "sink", "checkpoint"} /\ todo' \in SUBSET Tailer!Files
        /\ job' \in [line: Nat, id: Nat, before: Seq(Tailer!Lines)] /\ phase' \in {"down", "up", "baselined", "loaded"}
    <3>1. /\ pc' = pc \/ pc' \in {"idle", "polling"}
          /\ todo' = todo \/ todo' = {} \/ todo' = {f \in Tailer!Files : Tailer!Exists(f)} \/ \E f \in Tailer!Files : todo' = todo \ {f}
          /\ job' = job \/ job' = Tailer!NoJob
          /\ phase' = phase \/ phase' = "up"
      BY Zenon DEF Tailer!Tick, Tailer!StartProcess, Tailer!PollStart, Tailer!PollEnd, Tailer!PollUnreadable,
         Tailer!ReadToEnd, Tailer!EndPoll, Tailer!NextFile, Tailer!poll
    <3>2. /\ pc \in {"idle", "polling", "reading", "sink", "checkpoint"} /\ todo \in SUBSET Tailer!Files
          /\ job \in [line: Nat, id: Nat, before: Seq(Tailer!Lines)] /\ phase \in {"down", "up", "baselined", "loaded"}
      BY DEF TailInv, Tailer!TypeOK
    <3>3. Tailer!NoJob \in [line: Nat, id: Nat, before: Seq(Tailer!Lines)]
      BY DEF Tailer!NoJob
    <3>4. todo' \in SUBSET Tailer!Files
      BY <3>1, <3>2
    <3> QED
      BY <3>1, <3>2, <3>3, <3>4
  <2> QED
    BY <1>1, <2>1, <2>2, Zenon DEF TailInv, Tailer!TypeOK
<1>4. TailGoes /\ LinesApart'
  BY <1>1, TailRests
<1>5. Appended
  BY <1>1, TailTyped DEF Appended
<1>6. Stages'
  BY DEF TailInv, Stages, Tailer!Tick, Tailer!StartProcess, Tailer!PollStart, Tailer!PollEnd, Tailer!PollUnreadable,
     Tailer!ReadToEnd, Tailer!EndPoll, Tailer!NextFile, Tailer!poll
<1> QED
  BY <1>1, <1>2, <1>3, <1>4, <1>5, <1>6, TailFrame

LEMMA TailTogether ==
  ASSUME Tailer!TypeOK', LinesApart', Stages', "calm" \in DOMAIN budget', budget'.calm => Calm',
         \A f \in Tailer!Files : CursorNext(cursors'[f], f) /\ CursorNext(saved'.cursors[f], f) /\ FileSound(f)'
  PROVE  TailInv'
BY Zenon DEF TailInv, CursorNext, CursorSound

LEMMA SavedGoes ==
  ASSUME TailInv, TailGoes, saved'.cursors = cursors' \/ saved'.cursors = saved.cursors,
         NEW f \in Tailer!Files, CursorNext(cursors'[f], f)
  PROVE  CursorNext(saved'.cursors[f], f)
<1>1. CursorNext(saved.cursors[f], f)
  BY TailTyped, CursorGoes
<1> QED
  BY <1>1

LEMMA SoundSame ==
  ASSUME NEW c, NEW d, NEW p, NEW s, NEW w, NEW S, Sound(c, p, s, w, S),
         d.offset = c.offset, d.identity = c.identity, d.last = c.last
  PROVE  Sound(d, p, s, w, S)
BY DEF Sound, Marks

\* An empty cursor, and one at the end of the file.
LEMMA EmptyNext ==
  /\ \A f \in Tailer!Files : /\ CursorNext(Tailer!NoCursor, f) /\ CursorNext([Tailer!NoCursor EXCEPT !.known = TRUE], f)
                             /\ \A b \in {Tailer!NoFile, [Tailer!NoFile EXCEPT !.known = TRUE]} :
                                  b.parser = <<>> /\ b.offset = 0 /\ Sound(b, <<>>, content'[f], written', Covered')
<1>1. /\ \A c \in {Tailer!NoCursor, [Tailer!NoCursor EXCEPT !.known = TRUE]} : c.parser = <<>> /\ c.offset = 0 /\ c.pendingId \in 0..MaxIds
      /\ \A b \in {Tailer!NoFile, [Tailer!NoFile EXCEPT !.known = TRUE]} : b.parser = <<>> /\ b.offset = 0
  BY TailConstants DEF Tailer!NoCursor, Tailer!NoFile
<1> QED
  BY <1>1, SoundEmpty, Zenon DEF CursorNext

LEMMA BaselineNext ==
  ASSUME TailInv, UNCHANGED <<content, written>>, NEW f \in Tailer!Files, Tailer!LinesOf(f) \subseteq skipped'
  PROVE  LET b == Tailer!BaselineFile(f)
         IN /\ b.parser = content[f] /\ b.offset = Len(content[f]) /\ Sound(b, content[f], content'[f], written', Covered')
            /\ LET c == Tailer!CursorOf(b)
               IN c.parser = content[f] /\ c.offset = b.offset /\ c.pendingId = 0 /\ CursorNext(c, f)
<1> DEFINE b == Tailer!BaselineFile(f)
           c == Tailer!CursorOf(b)
<1>1. content[f] \in Seq(Nat) /\ written \in Nat /\ LinesApart
  BY TailTyped DEF TailInv
<1>2. /\ b.parser = content[f] /\ b.offset = Len(content[f])
      /\ b.identity = Tailer!LineAt(f, 1) /\ b.last = Tailer!LineAt(f, Len(content[f]))
  BY DEF Tailer!BaselineFile
<1>3. c.parser = b.parser /\ c.offset = b.offset /\ c.identity = b.identity /\ c.last = b.last /\ c.pendingId = 0
  BY DEF Tailer!CursorOf
<1>4. Marks(b, content[f])
  <2>1. Len(content[f]) > 0 => Tailer!LineAt(f, 1) = content[f][1] /\ Tailer!LineAt(f, Len(content[f])) = content[f][Len(content[f])]
    BY <1>1 DEF Tailer!LineAt
  <2> QED
    BY <1>2, <2>1 DEF Marks
<1>5. \A n \in 1..Len(content[f]) : content[f][n] \in 1..written /\ content[f][n] \in Covered'
  <2>1. \A n \in 1..Len(content[f]) : content[f][n] \in Tailer!LinesOf(f)
    BY <1>1 DEF Tailer!LinesOf
  <2> QED
    BY <1>1, <2>1 DEF LinesApart, Covered
<1> HIDE DEF b, c
<1>6. Sound(b, content[f], content[f], written, Covered')
  BY <1>1, <1>4, <1>5, SoundWhole
<1>7. Sound(b, content[f], content'[f], written', Covered') /\ Sound(c, content[f], content'[f], written', Covered')
  BY <1>3, <1>6, SoundSame
<1>8. 0 \in 0..MaxIds
  BY TailConstants
<1> QED
  BY <1>2, <1>3, <1>7, <1>8 DEF b, c, CursorNext

LEMMA TailLoads == ASSUME TailInv, Tailer!LoadCheckpoint PROVE TailInv'
<1>1. /\ phase = "up" /\ saved.kind = "ok" /\ cursors' = saved.cursors /\ phase' = "loaded" /\ pc = "idle"
      /\ UNCHANGED <<content, modTime, stamp, written, time, saved, pc, todo, job, admitted, skipped, budget>>
      /\ watermark' = saved.at
  BY Zenon DEF TailInv, Stages, Tailer!LoadCheckpoint, Tailer!source, Tailer!poll
<1>2. TailGoes /\ LinesApart'
  BY <1>1, TailRests
<1>3. ASSUME NEW f \in Tailer!Files
      PROVE  LET c == saved.cursors[f]
             IN /\ files'[f] \in Tailer!File
                /\ files'[f].parser = c.parser /\ files'[f].offset = c.offset
                /\ files'[f].identity = c.identity /\ files'[f].last = c.last
  <2>1. PICK c \in Tailer!Cursor : c = saved.cursors[f]
    BY TailTyped
  <2>2. files'[f] = [known |-> c.known, offset |-> c.offset, parser |-> c.parser, identity |-> c.identity, last |-> c.last]
    BY <2>1 DEF Tailer!LoadCheckpoint
  <2>3. files'[f] \in Tailer!File
    BY <2>1, <2>2 DEF Tailer!Cursor, Tailer!File
  <2> QED
    BY <2>1, <2>2, <2>3
<1>4. Tailer!TypeOK'
  <2>1. saved.cursors \in [Tailer!Files -> Tailer!Cursor] /\ saved.at \in Nat
    BY DEF TailInv, Tailer!TypeOK
  <2>2. files' = [f \in Tailer!Files |-> files'[f]] /\ observed' \in [Tailer!Files -> Nat]
    BY DEF Tailer!LoadCheckpoint
  <2>3. files' \in [Tailer!Files -> Tailer!File]
    BY <1>3, <2>2
  <2> QED
    BY <1>1, <2>1, <2>2, <2>3, Zenon DEF TailInv, Tailer!TypeOK
<1>5. ASSUME NEW f \in Tailer!Files
      PROVE  CursorNext(cursors'[f], f) /\ CursorNext(saved'.cursors[f], f) /\ FileSound(f)'
  <2>1. CursorNext(saved.cursors[f], f)
    BY <1>2, TailTyped, CursorGoes
  <2>2. Sound(files'[f], files'[f].parser, content'[f], written', Covered')
    BY <1>3, <2>1, SoundSame DEF CursorNext
  <2>3. ~InHand(f)'
    BY <1>1 DEF InHand
  <2> QED
    BY <1>1, <2>1, <2>2, <2>3 DEF FileSound, Fed
<1>6. ASSUME budget'.calm
      PROVE  Calm'
  <2>1. Calm
    BY <1>1, <1>6 DEF TailInv
  <2>2. \A f \in Tailer!Files : CalmFile(f)'
    <3>1. ASSUME NEW f \in Tailer!Files
          PROVE  CalmFile(f)'
      <4>1. CalmFile(f)
        BY <2>1 DEF Calm
      <4>2. ~InHand(f)'
        BY <1>1 DEF InHand
      <4> QED
        BY <1>1, <1>3, <4>1, <4>2, Zenon DEF CalmFile, Begun
    <3> QED
      BY <3>1
  <2>3. \A e \in admitted' : CalmEvent(e)'
    BY <1>1, <2>1, Zenon DEF Calm, CalmEvent, Past
  <2>4. /\ phase' = "loaded" => saved'.kind = "ok" /\ cursors' = saved'.cursors
        /\ saved'.kind # "ok" => admitted' = {}
        /\ \A d, e \in admitted' : d.line = e.line => d = e
    BY <1>1, <2>1 DEF Calm
  <2> QED
    BY <2>2, <2>3, <2>4, Zenon DEF Calm
<1>7. Stages' /\ "calm" \in DOMAIN budget'
  BY <1>1 DEF TailInv, Stages
<1> QED
  BY <1>2, <1>4, <1>5, <1>6, <1>7, TailTogether

LEMMA TailBaselines == ASSUME TailInv, Tailer!InitializeBaseline PROVE TailInv'
<1>1. /\ phase = "up" /\ saved.kind # "ok" /\ phase' = "baselined" /\ pc = "idle" /\ watermark' = time
      /\ UNCHANGED <<content, modTime, stamp, written, time, pc, todo, job, admitted, budget>>
      /\ skipped' = skipped \cup UNION {Tailer!LinesOf(f) : f \in Tailer!Files}
  BY Zenon DEF TailInv, Stages, Tailer!InitializeBaseline, Tailer!source, Tailer!poll
<1>2. saved' \in TailSaved /\ saved'.cursors = saved.cursors /\ saved'.kind # "ok"
  <2>1. saved' = IF saved.kind = "corrupt" THEN [saved EXCEPT !.kind = "none"] ELSE saved
    BY DEF Tailer!InitializeBaseline
  <2>2. saved \in TailSaved
    BY DEF TailInv, Tailer!TypeOK, TailSaved
  <2> QED
    BY <1>1, <2>1, <2>2 DEF TailSaved
<1>3. TailGoes /\ LinesApart'
  BY <1>1, TailRests
<1>4. ASSUME NEW f \in Tailer!Files
      PROVE  /\ files'[f] \in Tailer!File /\ cursors'[f] \in Tailer!Cursor
             /\ files'[f].offset = cursors'[f].offset
             /\ Begun(files'[f].parser, content[f]) /\ Begun(cursors'[f].parser, content[f])
             /\ Sound(files'[f], files'[f].parser, content'[f], written', Covered') /\ CursorNext(cursors'[f], f)
  <2>1. Tailer!LinesOf(f) \subseteq skipped'
    BY <1>1
  <2>2. CASE Tailer!Exists(f)
    <3>1. files'[f] = Tailer!BaselineFile(f) /\ cursors'[f] = Tailer!CursorOf(Tailer!BaselineFile(f))
      BY <2>2 DEF Tailer!InitializeBaseline
    <3>2. content'[f] = content[f]
      BY <1>1
    <3>3. Begun(content[f], content[f])
      BY DEF Begun
    <3> QED
      BY <1>1, <2>1, <3>1, <3>3, TailFiles, BaselineNext
  <2>3. CASE ~Tailer!Exists(f)
    <3>1. files'[f] = Tailer!NoFile /\ cursors'[f] = Tailer!NoCursor
      BY <2>3 DEF Tailer!InitializeBaseline
    <3>2. Tailer!NoCursor.parser = <<>> /\ Tailer!NoCursor.offset = 0
      BY DEF Tailer!NoCursor
    <3>3. Begun(<<>>, content[f])
      BY DEF Begun
    <3> QED
      BY <3>1, <3>2, <3>3, TailFiles, EmptyNext
  <2> QED
    BY <2>2, <2>3
<1>5. Tailer!TypeOK'
  <2>1. files' \in [Tailer!Files -> Tailer!File] /\ cursors' \in [Tailer!Files -> Tailer!Cursor]
    <3>1. files' = [f \in Tailer!Files |-> files'[f]] /\ cursors' = [f \in Tailer!Files |-> cursors'[f]]
      BY DEF Tailer!InitializeBaseline
    <3> QED
      BY <1>4, <3>1
  <2>2. observed' \in [Tailer!Files -> Nat]
    <3>1. stamp \in [Tailer!Files -> Nat]
      BY DEF TailInv, Tailer!TypeOK
    <3> QED
      BY <3>1 DEF Tailer!InitializeBaseline
  <2>3. skipped' \in SUBSET Tailer!Lines
    <3>1. \A f \in Tailer!Files : Tailer!LinesOf(f) \subseteq Tailer!Lines
      BY TailTyped DEF Tailer!LinesOf
    <3>2. skipped \subseteq Tailer!Lines
      BY DEF TailInv, Tailer!TypeOK
    <3> QED
      BY <1>1, <3>1, <3>2
  <2> QED
    BY <1>1, <1>2, <2>1, <2>2, <2>3, Zenon DEF TailInv, Tailer!TypeOK, TailSaved
<1>6. ASSUME NEW f \in Tailer!Files
      PROVE  CursorNext(cursors'[f], f) /\ CursorNext(saved'.cursors[f], f) /\ FileSound(f)'
  <2>1. CursorNext(saved'.cursors[f], f)
    BY <1>2, <1>3, <1>4, SavedGoes
  <2>2. ~InHand(f)'
    BY <1>1 DEF InHand
  <2> QED
    BY <1>4, <2>1, <2>2 DEF FileSound, Fed
<1>7. ASSUME budget'.calm
      PROVE  Calm'
  <2>1. Calm /\ admitted' = {}
    BY <1>1, <1>7 DEF TailInv, Calm
  <2>2. \A f \in Tailer!Files : CalmFile(f)'
    <3>1. ASSUME NEW f \in Tailer!Files
          PROVE  CalmFile(f)'
      <4>1. CalmFile(f)
        BY <2>1 DEF Calm
      <4>2. ~InHand(f)'
        BY <1>1 DEF InHand
      <4> QED
        BY <1>1, <1>2, <1>4, <4>1, <4>2, Zenon DEF CalmFile, Begun
    <3> QED
      BY <3>1
  <2> QED
    BY <1>1, <1>2, <2>1, <2>2 DEF Calm
<1>8. Stages' /\ "calm" \in DOMAIN budget'
  BY <1>1, <1>2 DEF TailInv, Stages
<1> QED
  BY <1>3, <1>5, <1>6, <1>7, <1>8, TailTogether

LEMMA TailSavesBaseline == ASSUME TailInv, Tailer!SaveBaseline PROVE TailInv'
<1>1. /\ phase = "baselined" /\ pc = "idle" /\ saved.kind # "ok"
      /\ UNCHANGED <<content, modTime, stamp, written, time, cursors, files, observed, watermark, pc, todo, job,
                     admitted, skipped>>
      /\ (Tailer!Save /\ phase' = "loaded") \/ (Tailer!SaveFails /\ phase' = "up")
  BY Zenon DEF TailInv, Stages, Tailer!SaveBaseline, Tailer!source, Tailer!memory, Tailer!poll
<1>2. cursors' \in [Tailer!Files -> Tailer!Cursor]
  BY <1>1 DEF TailInv, Tailer!TypeOK
<1>3. /\ saved' \in TailSaved /\ "calm" \in DOMAIN budget'
      /\ \/ phase' = "loaded" /\ saved'.kind = "ok" /\ saved'.cursors = cursors' /\ budget' = budget
         \/ phase' = "up" /\ saved' = saved /\ ~budget'.calm
  <2>1. CASE Tailer!Save /\ phase' = "loaded"
    <3>1. saved' = [kind |-> "ok", at |-> time, cursors |-> cursors'] /\ budget' = budget
      BY <2>1, Zenon DEF Tailer!Save
    <3> QED
      BY <1>2, <2>1, <3>1, SaveEither
  <2>2. CASE Tailer!SaveFails /\ phase' = "up"
    <3>1. saved' = saved /\ budget' = [budget EXCEPT !.saves = @ - 1, !.calm = FALSE]
      BY <2>2, Zenon DEF Tailer!SaveFails
    <3>2. "calm" \in DOMAIN budget
      BY DEF TailInv
    <3> QED
      BY <1>2, <2>2, <3>1, <3>2, SaveEither
  <2> QED
    BY <1>1, <2>1, <2>2
<1>4. TailGoes /\ LinesApart'
  BY <1>1, TailRests
<1>5. Tailer!TypeOK'
  <2>1. phase' \in {"down", "up", "baselined", "loaded"}
    BY <1>3
  <2> QED
    BY <1>1, <1>3, <2>1, Zenon DEF TailInv, Tailer!TypeOK, TailSaved
<1>6. ASSUME NEW f \in Tailer!Files
      PROVE  CursorNext(cursors'[f], f) /\ CursorNext(saved'.cursors[f], f) /\ FileSound(f)'
  <2>1. CursorNext(cursors'[f], f)
    BY <1>1, <1>4, TailTyped, CursorGoes
  <2>2. CursorNext(saved'.cursors[f], f)
    BY <1>3, <1>4, <2>1, SavedGoes
  <2>3. FileSound(f)'
    BY <1>1, <1>4, FileRests
  <2> QED
    BY <2>1, <2>2, <2>3
<1>7. ASSUME budget'.calm
      PROVE  Calm'
  <2>1. Calm /\ admitted' = {} /\ phase' = "loaded" /\ saved'.kind = "ok" /\ saved'.cursors = cursors'
    BY <1>1, <1>3, <1>7 DEF TailInv, Calm
  <2>2. \A f \in Tailer!Files : CalmFile(f)'
    <3>1. ASSUME NEW f \in Tailer!Files
          PROVE  CalmFile(f)'
      <4>1. CalmFile(f)
        BY <2>1 DEF Calm
      <4>2. ~InHand(f)'
        BY <1>1 DEF InHand
      <4> QED
        BY <1>1, <2>1, <4>1, <4>2, Zenon DEF CalmFile, Begun
    <3> QED
      BY <3>1
  <2> QED
    BY <2>1, <2>2 DEF Calm
<1>8. Stages'
  BY <1>1, <1>3 DEF Stages
<1> QED
  BY <1>3, <1>4, <1>5, <1>6, <1>7, <1>8, TailTogether

\* What a save in a poll, or its failure, does to the whole.
LEMMA PollSaves ==
  ASSUME TailInv, phase = "loaded", UNCHANGED <<content, modTime, stamp, written, time, phase, watermark>>,
         skipped \subseteq skipped', admitted \subseteq admitted',
         pc' \in {"idle", "polling", "reading", "sink", "checkpoint"}, todo' \in SUBSET Tailer!Files,
         job' \in [line: Nat, id: Nat, before: Seq(Tailer!Lines)],
         pc' \in {"sink", "checkpoint"} => Tailer!First(todo') \in Tailer!Files,
         cursors' \in [Tailer!Files -> Tailer!Cursor], files' \in [Tailer!Files -> Tailer!File],
         observed' \in [Tailer!Files -> Nat], skipped' \in SUBSET Tailer!Lines, admitted' \in SUBSET [id: Tailer!Ids, line: Tailer!Lines],
         saved' \in TailSaved, "calm" \in DOMAIN budget', saved'.cursors = cursors' \/ saved'.cursors = saved.cursors,
         \A f \in Tailer!Files : CursorNext(cursors'[f], f) /\ FileSound(f)', budget'.calm => Calm'
  PROVE  TailInv'
<1>1. TailGoes /\ LinesApart'
  BY TailRests
<1>2. Tailer!TypeOK'
  BY Zenon DEF TailInv, Tailer!TypeOK, TailSaved
<1>3. \A f \in Tailer!Files : CursorNext(saved'.cursors[f], f)
  BY <1>1, SavedGoes
<1>4. Stages'
  BY Zenon DEF TailInv, Stages
<1> QED
  BY <1>1, <1>2, <1>3, <1>4, TailTogether

LEMMA TailPollBaseline ==
  ASSUME TailInv, NEW f \in Tailer!Files, Tailer!PollBaseline(f)
  PROVE  TailInv'
<1> DEFINE b == Tailer!BaselineFile(f)
           c == Tailer!CursorOf(b)
<1>1. /\ phase = "loaded" /\ pc = "polling" /\ todo # {} /\ pc' \in {"polling", "idle"} /\ todo' \in SUBSET todo /\ job' = Tailer!NoJob
      /\ UNCHANGED <<content, modTime, stamp, written, time, phase, watermark, admitted>>
      /\ files' = [files EXCEPT ![f] = b] /\ cursors' = [cursors EXCEPT ![f] = c]
      /\ observed' = [observed EXCEPT ![f] = stamp[f]] /\ skipped' = skipped \cup Tailer!LinesOf(f)
      /\ Tailer!Save \/ Tailer!SaveFails
  <2>1. /\ pc = "polling" /\ todo # {} /\ phase' = phase
        /\ UNCHANGED <<content, modTime, stamp, written, time, phase, watermark, admitted>>
        /\ files' = [files EXCEPT ![f] = b] /\ cursors' = [cursors EXCEPT ![f] = c]
        /\ observed' = [observed EXCEPT ![f] = stamp[f]] /\ skipped' = skipped \cup Tailer!LinesOf(f)
        /\ (Tailer!Save /\ Tailer!NextFile(f)) \/ (Tailer!SaveFails /\ Tailer!EndPoll)
    BY Zenon DEF Tailer!PollBaseline, Tailer!source
  <2>2. phase = "loaded"
    BY <2>1 DEF TailInv, Stages
  <2>3. pc' \in {"polling", "idle"} /\ todo' \in SUBSET todo /\ job' = Tailer!NoJob
    BY <2>1 DEF Tailer!NextFile, Tailer!EndPoll
  <2> QED
    BY <2>1, <2>2, <2>3
<1>2. /\ files \in [Tailer!Files -> Tailer!File] /\ cursors \in [Tailer!Files -> Tailer!Cursor] /\ observed \in [Tailer!Files -> Nat]
      /\ stamp \in [Tailer!Files -> Nat] /\ skipped \in SUBSET Tailer!Lines /\ todo \in SUBSET Tailer!Files
      /\ admitted \in SUBSET [id: Tailer!Ids, line: Tailer!Lines]
  BY DEF TailInv, Tailer!TypeOK
<1>3. b \in Tailer!File /\ c \in Tailer!Cursor
  BY TailFiles
<1>4. /\ b.parser = content[f] /\ b.offset = Len(content[f]) /\ Sound(b, content[f], content'[f], written', Covered')
      /\ c.parser = content[f] /\ c.offset = b.offset /\ CursorNext(c, f)
  BY <1>1, BaselineNext
<1> HIDE DEF b, c
<1>5. /\ files' \in [Tailer!Files -> Tailer!File] /\ cursors' \in [Tailer!Files -> Tailer!Cursor] /\ observed' \in [Tailer!Files -> Nat]
      /\ files'[f] = b /\ cursors'[f] = c
      /\ \A g \in Tailer!Files \ {f} : files'[g] = files[g] /\ cursors'[g] = cursors[g]
  BY <1>1, <1>2, <1>3
<1>6. skipped' \in SUBSET Tailer!Lines /\ job' \in [line: Nat, id: Nat, before: Seq(Tailer!Lines)]
  <2>1. Tailer!LinesOf(f) \subseteq Tailer!Lines
    BY TailTyped DEF Tailer!LinesOf
  <2> QED
    BY <1>1, <1>2, <2>1 DEF Tailer!NoJob
<1>7. /\ saved' \in TailSaved /\ "calm" \in DOMAIN budget'
      /\ \/ saved'.kind = "ok" /\ saved'.cursors = cursors' /\ budget' = budget
         \/ saved' = saved /\ ~budget'.calm
  BY <1>1, <1>5, SaveEither
<1>8. TailGoes
  BY <1>1, TailRests
<1>9. ASSUME NEW g \in Tailer!Files
      PROVE  CursorNext(cursors'[g], g) /\ FileSound(g)'
  <2>1. ~InHand(g) /\ ~InHand(g)' /\ pc' \notin {"sink", "checkpoint"}
    BY <1>1 DEF InHand
  <2>2. CASE g = f
    BY <1>4, <1>5, <2>1, <2>2 DEF FileSound, Fed
  <2>3. CASE g # f
    BY <1>5, <1>8, <2>1, <2>3, TailTyped, CursorGoes, FileRests
  <2> QED
    BY <2>2, <2>3
<1>10. ASSUME budget'.calm
       PROVE  Calm'
  <2>1. Calm /\ saved'.kind = "ok" /\ saved'.cursors = cursors' /\ saved.cursors = cursors /\ saved.kind = "ok"
    BY <1>1, <1>7, <1>10 DEF TailInv, Calm
  <2>2. Appended
    BY <1>1, TailTyped DEF Appended
  <2>3. \A g \in Tailer!Files : CalmFile(g)'
    <3>1. ASSUME NEW g \in Tailer!Files
          PROVE  CalmFile(g)'
      <4>1. CASE g = f
        <5>1. ~(InHand(g)') /\ content'[g] = content[g]
          BY <1>1 DEF InHand
        <5>2. Begun(content[f], content[f])
          BY DEF Begun
        <5>3. cursors'[f] = c /\ saved'.cursors[f] = c /\ files'[f] = b
          BY <1>5, <2>1
        <5>4. /\ Begun(cursors'[g].parser, content'[g]) /\ Begun(saved'.cursors[g].parser, content'[g])
              /\ Begun(files'[g].parser, content'[g]) /\ files'[g].offset = cursors'[g].offset
          BY <1>4, <4>1, <5>1, <5>2, <5>3
        <5> QED
          BY <5>1, <5>4, Zenon DEF CalmFile, Begun
      <4>2. CASE g # f
        <5>1. cursors'[g] = cursors[g] /\ saved'.cursors[g] = saved.cursors[g] /\ files'[g] = files[g] /\ phase' = phase /\ pc' # "sink"
          BY <1>1, <1>5, <2>1, <4>2
        <5> QED
          BY <2>1, <2>2, <5>1, CalmFileStays
      <4> QED
        BY <4>1, <4>2
    <3> QED
      BY <3>1
  <2>4. ASSUME NEW e \in admitted
        PROVE  CalmEvent(e)'
    <3>1. CalmEvent(e)
      BY <2>1 DEF Calm
    <3>2. ASSUME NEW g \in Tailer!Files, NEW n \in 1..Len(content[g]), Past(e, saved.cursors[g], n)
          PROVE  Past(e, saved'.cursors[g], n)
      <4>1. CASE g = f
        <5>1. saved'.cursors[g].offset = Len(content[g])
          BY <1>4, <1>5, <2>1, <4>1
        <5> QED
          BY <5>1 DEF Past
      <4>2. CASE g # f
        BY <1>5, <2>1, <3>2, <4>2
      <4> QED
        BY <4>1, <4>2
    <3> QED
      BY <2>2, <3>1, <3>2, EventStays
  <2>5. \A e \in admitted' : CalmEvent(e)'
    BY <1>1, <2>4
  <2>6. /\ \A d, e \in admitted' : d.line = e.line => d = e
        /\ phase' = "loaded" => saved'.kind = "ok" /\ cursors' = saved'.cursors
        /\ saved'.kind # "ok" => admitted' = {}
    BY <1>1, <2>1 DEF Calm
  <2> QED
    BY <2>3, <2>5, <2>6, Zenon DEF Calm
<1> QED
  BY <1>1, <1>2, <1>5, <1>6, <1>7, <1>9, <1>10, PollSaves

\* A step of the poll that turns to one file.
PollTyped ==
  /\ pc' \in {"idle", "polling", "reading", "sink", "checkpoint"} /\ todo' \in SUBSET Tailer!Files
  /\ job' \in [line: Nat, id: Nat, before: Seq(Tailer!Lines)]
  /\ cursors' \in [Tailer!Files -> Tailer!Cursor] /\ files' \in [Tailer!Files -> Tailer!File]
  /\ observed' \in [Tailer!Files -> Nat] /\ admitted' \in SUBSET [id: Tailer!Ids, line: Tailer!Lines]
  /\ saved' \in TailSaved /\ "calm" \in DOMAIN budget'
Turns(f) ==
  /\ f = Tailer!First(todo)
  /\ UNCHANGED <<content, modTime, stamp, written, time, phase, watermark, skipped>>
  /\ (pc' \notin {"sink", "checkpoint"} /\ todo' \in SUBSET todo) \/ todo' = todo
  /\ \A g \in Tailer!Files \ {f} : cursors'[g] = cursors[g] /\ files'[g] = files[g]

LEMMA PollOne ==
  ASSUME TailInv, NEW f \in Tailer!Files, Turns(f), PollTyped, pc # "idle", admitted \subseteq admitted',
         saved'.cursors = cursors' \/ saved'.cursors = saved.cursors,
         CursorNext(cursors'[f], f), FileSound(f)', budget'.calm => Calm'
  PROVE  TailInv'
<1>1. TailGoes
  BY TailRests DEF Turns
<1>2. ASSUME NEW g \in Tailer!Files
      PROVE  CursorNext(cursors'[g], g) /\ FileSound(g)'
  <2>1. CASE g = f
    BY <2>1
  <2>2. CASE g # f
    <3>1. cursors'[g] = cursors[g] /\ files'[g] = files[g] /\ ~InHand(g) /\ g # Tailer!First(todo)
      BY <2>2 DEF Turns, InHand
    <3> QED
      BY <1>1, <3>1, TailTyped, CursorGoes, FileRests DEF Turns
  <2> QED
    BY <2>1, <2>2
<1>3. phase = "loaded"
  BY DEF TailInv, Stages
<1>4. pc' \in {"sink", "checkpoint"} => Tailer!First(todo') \in Tailer!Files
  BY DEF Turns
<1>5. skipped' \in SUBSET Tailer!Lines /\ skipped \subseteq skipped'
  BY DEF TailInv, Tailer!TypeOK, Turns
<1>6. UNCHANGED <<content, modTime, stamp, written, time, phase, watermark>>
  BY DEF Turns
<1> QED
  BY <1>2, <1>3, <1>4, <1>5, <1>6, PollSaves, Zenon DEF PollTyped

LEMMA PollCalm ==
  ASSUME TailInv, Calm, NEW f \in Tailer!Files, Turns(f), pc # "idle", admitted' = admitted,
         saved'.kind = "ok", saved'.cursors = cursors', CalmFile(f)',
         \A e \in admitted : \A n \in 1..Len(content[f]) : Past(e, cursors[f], n) => Past(e, cursors'[f], n)
  PROVE  Calm'
<1>1. phase = "loaded" /\ saved.kind = "ok" /\ cursors = saved.cursors
  BY DEF TailInv, Stages, Calm
<1>2. Appended
  BY TailTyped DEF Appended, Turns
<1>3. ASSUME NEW g \in Tailer!Files
      PROVE  CalmFile(g)'
  <2>1. CASE g = f
    BY <2>1
  <2>2. CASE g # f
    <3>1. /\ cursors'[g] = cursors[g] /\ saved'.cursors[g] = saved.cursors[g] /\ files'[g] = files[g] /\ phase' = phase
          /\ pc' # "sink" \/ (g # Tailer!First(todo) /\ todo' = todo)
      BY <1>1, <2>2 DEF Turns
    <3> QED
      BY <1>2, <3>1, CalmFileStays
  <2> QED
    BY <2>1, <2>2
<1>4. ASSUME NEW e \in admitted
      PROVE  CalmEvent(e)'
  <2>1. CalmEvent(e)
    BY DEF Calm
  <2>2. ASSUME NEW g \in Tailer!Files, NEW n \in 1..Len(content[g]), Past(e, saved.cursors[g], n)
        PROVE  Past(e, saved'.cursors[g], n)
    <3>1. CASE g = f
      BY <1>1, <2>2, <3>1
    <3>2. CASE g # f
      BY <1>1, <2>2, <3>2 DEF Turns
    <3> QED
      BY <3>1, <3>2
  <2> QED
    BY <1>2, <2>1, <2>2, EventStays
<1>5. \A e \in admitted' : CalmEvent(e)'
  BY <1>4
<1>6. /\ \A d, e \in admitted' : d.line = e.line => d = e
      /\ phase' = "loaded" => saved'.kind = "ok" /\ cursors' = saved'.cursors
      /\ saved'.kind # "ok" => admitted' = {}
  BY DEF Calm
<1> QED
  BY <1>3, <1>5, <1>6, Zenon DEF Calm

\* As long as all is calm no file is taken for another one.
LEMMA CalmUnchanged ==
  ASSUME TailInv, Calm, NEW f \in Tailer!Files, pc = "polling", NEW b, b.offset = files[f].offset,
         b.identity = files[f].identity, b.last = files[f].last
  PROVE  ~Tailer!Changed(f, b)
<1>1. /\ content[f] \in Seq(Nat) /\ files[f].parser \in Seq(Nat)
      /\ Sound(files[f], files[f].parser, content[f], written, Covered) /\ Begun(files[f].parser, content[f])
  BY TailTyped DEF FileSound, Fed, InHand, Calm, CalmFile
<1>2. PICK p \in Seq(Nat) : p = files[f].parser
  BY <1>1
<1>3. b.offset = Len(p)
  BY <1>1, <1>2 DEF Sound, Marks
<1>4. CASE Len(p) = 0
  BY <1>1, <1>3, <1>4 DEF Tailer!Changed
<1>5. CASE Len(p) > 0
  <2>1. Len(content[f]) > 0 /\ content[f][1] = p[1] /\ b.identity = p[1] /\ b.last = p[Len(p)]
    BY <1>1, <1>2, <1>5 DEF Begun, Sound, Marks
  <2>2. Len(p) <= Len(content[f]) /\ p[Len(p)] = content[f][Len(p)]
    BY <1>1, <1>2, <1>5, <2>1 DEF Sound, Trace
  <2>3. Tailer!LineAt(f, 1) = p[1] /\ Tailer!LineAt(f, Len(p)) = p[Len(p)]
    BY <1>1, <1>2, <1>5, <2>1, <2>2 DEF Tailer!LineAt
  <2> QED
    BY <1>1, <1>3, <2>1, <2>2, <2>3 DEF Tailer!Changed
<1> QED
  BY <1>2, <1>4, <1>5

LEMMA TailPollFile ==
  ASSUME TailInv, NEW f \in Tailer!Files, Tailer!PollFile(f)
  PROVE  TailInv'
<1> DEFINE b == [files[f] EXCEPT !.known = TRUE]
           nob == [Tailer!NoFile EXCEPT !.known = TRUE]
           noc == [Tailer!NoCursor EXCEPT !.known = TRUE]
<1>1. /\ pc = "polling" /\ todo # {} /\ f = Tailer!First(todo)
      /\ UNCHANGED <<content, modTime, stamp, written, time, phase, watermark, admitted, skipped>>
      /\ observed' = [observed EXCEPT ![f] = stamp[f]]
  BY Zenon DEF Tailer!PollFile, Tailer!source
<1>2. \/ /\ Tailer!Changed(f, b) /\ files' = [files EXCEPT ![f] = nob] /\ cursors' = [cursors EXCEPT ![f] = noc]
         /\ (Tailer!Save /\ pc' = "reading" /\ UNCHANGED <<todo, job>>) \/ (Tailer!SaveFails /\ Tailer!EndPoll)
      \/ files' = [files EXCEPT ![f] = b] /\ pc' = "reading" /\ UNCHANGED <<cursors, saved, budget, todo, job>>
  BY Zenon DEF Tailer!PollFile
<1>3. /\ files \in [Tailer!Files -> Tailer!File] /\ cursors \in [Tailer!Files -> Tailer!Cursor] /\ observed \in [Tailer!Files -> Nat]
      /\ stamp \in [Tailer!Files -> Nat] /\ todo \in SUBSET Tailer!Files /\ saved \in TailSaved /\ "calm" \in DOMAIN budget
      /\ admitted \in SUBSET [id: Tailer!Ids, line: Tailer!Lines] /\ job \in [line: Nat, id: Nat, before: Seq(Tailer!Lines)]
  BY DEF TailInv, Tailer!TypeOK, TailSaved
<1>4. /\ b \in Tailer!File /\ b.offset = files[f].offset /\ b.identity = files[f].identity /\ b.last = files[f].last
      /\ b.parser = files[f].parser
  BY <1>3 DEF Tailer!File
<1>5. nob \in Tailer!File /\ noc \in Tailer!Cursor /\ CursorNext(noc, f) /\ nob.parser = <<>> /\ Sound(nob, <<>>, content'[f], written', Covered')
  BY TailFiles, EmptyNext
<1>6. TailGoes
  BY <1>1, TailRests
<1>7. observed' \in [Tailer!Files -> Nat] /\ ~InHand(f) /\ phase = "loaded"
  BY <1>1, <1>3 DEF InHand, TailInv, Stages
<1> HIDE DEF b, nob, noc
<1>8. CASE /\ Tailer!Changed(f, b) /\ files' = [files EXCEPT ![f] = nob] /\ cursors' = [cursors EXCEPT ![f] = noc]
           /\ (Tailer!Save /\ pc' = "reading" /\ UNCHANGED <<todo, job>>) \/ (Tailer!SaveFails /\ Tailer!EndPoll)
  <2>1. /\ files' \in [Tailer!Files -> Tailer!File] /\ cursors' \in [Tailer!Files -> Tailer!Cursor]
        /\ files'[f] = nob /\ cursors'[f] = noc
        /\ \A g \in Tailer!Files \ {f} : cursors'[g] = cursors[g] /\ files'[g] = files[g]
    BY <1>3, <1>5, <1>8
  <2>2. /\ saved' \in TailSaved /\ "calm" \in DOMAIN budget'
        /\ \/ saved'.cursors = cursors' /\ budget' = budget
           \/ saved' = saved /\ ~budget'.calm
    BY <1>8, <2>1, SaveEither
  <2>3. pc' \in {"reading", "idle"} /\ todo' \in SUBSET todo /\ job' \in [line: Nat, id: Nat, before: Seq(Tailer!Lines)]
    <3>1. Tailer!NoJob \in [line: Nat, id: Nat, before: Seq(Tailer!Lines)]
      BY DEF Tailer!NoJob
    <3> QED
      BY <1>3, <1>8, <3>1 DEF Tailer!EndPoll
  <2>4. ~budget'.calm
    <3>1. ASSUME budget'.calm PROVE FALSE
      <4>1. Calm
        BY <2>2, <3>1 DEF TailInv
      <4> QED
        BY <1>1, <1>4, <1>8, <4>1, CalmUnchanged
    <3> QED
      BY <3>1
  <2>5. FileSound(f)'
    BY <1>5, <2>1, <2>3 DEF FileSound, Fed, InHand
  <2>6. Turns(f) /\ PollTyped
    BY <1>1, <1>3, <1>7, <2>1, <2>2, <2>3 DEF Turns, PollTyped
  <2> QED
    BY <1>1, <1>5, <2>1, <2>2, <2>4, <2>5, <2>6, PollOne
<1>9. CASE files' = [files EXCEPT ![f] = b] /\ pc' = "reading" /\ UNCHANGED <<cursors, saved, budget, todo, job>>
  <2>1. /\ files' \in [Tailer!Files -> Tailer!File] /\ files'[f] = b
        /\ \A g \in Tailer!Files \ {f} : cursors'[g] = cursors[g] /\ files'[g] = files[g]
    BY <1>3, <1>4, <1>9
  <2>2. Turns(f) /\ PollTyped
    BY <1>1, <1>3, <1>7, <1>9, <2>1 DEF Turns, PollTyped
  <2>3. CursorNext(cursors'[f], f)
    BY <1>6, <1>9, TailTyped, CursorGoes
  <2>4. FileSound(f)'
    <3>1. Sound(files[f], files[f].parser, content[f], written, Covered) /\ Grown(content[f], content'[f], written, written')
      BY <1>6, <1>7, TailTyped DEF FileSound, Fed, TailGoes
    <3>2. Sound(files[f], files[f].parser, content'[f], written', Covered')
      BY <1>6, <3>1, TailTyped, SoundGrows DEF TailGoes
    <3>3. Sound(b, files[f].parser, content'[f], written', Covered')
      BY <1>4, <3>2, SoundSame
    <3> QED
      BY <1>4, <1>9, <2>1, <3>3 DEF FileSound, Fed, InHand
  <2>5. ASSUME budget'.calm
        PROVE  Calm'
    <3>1. Calm /\ saved'.kind = "ok" /\ saved'.cursors = cursors'
      BY <1>7, <1>9, <2>5 DEF TailInv, Calm
    <3>2. CalmFile(f)
      BY <3>1 DEF Calm
    <3>3. ~(InHand(f)') /\ content'[f] = content[f]
      BY <1>1, <1>9 DEF InHand
    <3>4. CalmFile(f)'
      <4>1. /\ Begun(cursors'[f].parser, content'[f]) /\ Begun(saved'.cursors[f].parser, content'[f])
            /\ Begun(files'[f].parser, content'[f]) /\ files'[f].offset = cursors'[f].offset
        BY <1>4, <1>7, <1>9, <2>1, <3>2, <3>3 DEF CalmFile
      <4> QED
        BY <3>3, <4>1, Zenon DEF CalmFile, Begun
    <3>5. \A e \in admitted : \A n \in 1..Len(content[f]) : Past(e, cursors[f], n) => Past(e, cursors'[f], n)
      BY <1>9 
    <3> QED
      BY <1>1, <2>2, <3>1, <3>4, <3>5, PollCalm
  <2> QED
    BY <1>1, <1>9, <2>2, <2>3, <2>4, <2>5, PollOne
<1> QED
  BY <1>2, <1>8, <1>9

\* The parser takes the next line of a file, for the sink or for the checkpoint.
LEMMA TakesLine ==
  ASSUME TailInv, NEW f \in Tailer!Files, NEW id \in Nat, Tailer!HasLine(f), Tailer!Parse(f), job' = Tailer!Job(f, id),
         UNCHANGED <<content, written, todo, admitted, skipped>>,
         \/ pc' = "checkpoint" /\ content[f][files[f].offset + 1] \in Silent
         \/ pc' = "sink" /\ id \in Tailer!Ids
  PROVE  /\ files' \in [Tailer!Files -> Tailer!File] /\ \A g \in Tailer!Files \ {f} : files'[g] = files[g]
         /\ job' \in [line: Nat, id: Nat, before: Seq(Tailer!Lines)]
         /\ FileSound(f)' /\ files'[f].offset = files[f].offset
         /\ job'.id = id /\ job'.line = content[f][files[f].offset + 1] /\ files[f].offset < Len(content[f])
         /\ Begun(files[f].parser, content[f]) => Begun(files'[f].parser, content[f])
<1>1. /\ files \in [Tailer!Files -> Tailer!File] /\ content[f] \in Seq(Tailer!Lines) /\ written \in Nat /\ LinesApart
      /\ files[f].parser \in Seq(Tailer!Lines) /\ files[f].offset \in Nat /\ content[f] \in Seq(Nat)
  <2>1. files \in [Tailer!Files -> Tailer!File] /\ content[f] \in Seq(Tailer!Lines) /\ written \in Nat /\ LinesApart
    BY TailTyped DEF TailInv, Tailer!TypeOK
  <2>2. files[f] \in Tailer!File
    BY <2>1
  <2> QED
    BY <2>1, <2>2, TailTyped DEF Tailer!File
<1>2. pc = "reading" /\ f = Tailer!First(todo) /\ files[f].offset < Len(content[f])
  BY DEF Tailer!HasLine
<1>3. PICK line : line = content[f][files[f].offset + 1]
  OBVIOUS
<1>4. line \in 1..written /\ line \in Tailer!Lines /\ line \in Nat
  <2>1. files[f].offset + 1 \in 1..Len(content[f])
    BY <1>1, <1>2
  <2>2. line \in 1..written /\ written <= MaxLines
    BY <1>1, <1>3, <2>1 DEF LinesApart
  <2>3. MaxLines \in Nat /\ Tailer!Lines = 1..MaxLines
    BY TailConstants
  <2> HIDE DEF written
  <2> QED
    BY <1>1, <2>2, <2>3
<1>5. PICK p \in Seq(Tailer!Lines) : p = files[f].parser
  BY <1>1
<1>6. Append(p, line) \in Seq(Tailer!Lines) /\ p \in Seq(Nat)
  BY <1>4, <1>5, AppendProperties, LineSequence
<1>7. /\ files' = [files EXCEPT ![f].parser = Append(p, line)]
      /\ job' = [line |-> line, id |-> id, before |-> p]
  BY <1>1, <1>3, <1>5 DEF Tailer!Parse, Tailer!Job
<1>8. /\ files' \in [Tailer!Files -> Tailer!File] /\ \A g \in Tailer!Files \ {f} : files'[g] = files[g]
      /\ files'[f].parser = Append(p, line) /\ files'[f].offset = files[f].offset
      /\ files'[f].identity = files[f].identity /\ files'[f].last = files[f].last
  <2> DEFINE new == [files[f] EXCEPT !.parser = Append(p, line)]
  <2>1. files' = [files EXCEPT ![f] = new]
    BY <1>1, <1>7
  <2>2. /\ new \in Tailer!File /\ new.parser = Append(p, line) /\ new.offset = files[f].offset
        /\ new.identity = files[f].identity /\ new.last = files[f].last
    BY <1>1, <1>6 DEF Tailer!File
  <2> HIDE DEF new
  <2> QED
    BY <1>1, <2>1, <2>2
<1>9. Sound(files[f], p, content[f], written, Covered)
  BY <1>2, <1>5, TailTyped DEF FileSound, Fed, InHand
<1>10. Trace(Append(p, line), content[f], written)
  BY <1>1, <1>2, <1>3, <1>4, <1>6, <1>9, SoundNext
<1>11. Covered' = Covered
  BY DEF Covered
<1>12. FileSound(f)'
  <2>1. InHand(f)' /\ Fed(f)' = p
    BY <1>2, <1>7 DEF InHand, Fed
  <2>2. Sound(files'[f], p, content'[f], written', Covered')
    BY <1>8, <1>9, <1>11, SoundSame
  <2>3. /\ job'.line = line /\ job'.id = id /\ job'.before = p
    BY <1>7
  <2>4. pc' = "checkpoint" => line \in Covered'
    BY <1>3 DEF Covered
  <2>5. Handled(f)'
    BY <1>4, <1>8, <1>10, <2>3, <2>4, Zenon DEF Handled
  <2> QED
    BY <2>1, <2>2, <2>5 DEF FileSound
<1>13. Begun(p, content[f]) => Begun(Append(p, line), content[f])
  <2>1. CASE Len(p) = 0
    <3>1. files[f].offset = 0 /\ Append(p, line)[1] = line
      BY <1>6, <1>9, <2>1 DEF Sound, Marks
    <3> QED
      BY <1>1, <1>2, <1>3, <3>1 DEF Begun
  <2>2. CASE Len(p) > 0
    <3>1. Append(p, line)[1] = p[1]
      BY <1>6, <2>2
    <3> QED
      BY <2>2, <3>1 DEF Begun
  <2> QED
    BY <1>6, <2>1, <2>2
<1>14. job' \in [line: Nat, id: Nat, before: Seq(Tailer!Lines)] /\ job'.id = id /\ job'.line = line
  BY <1>4, <1>5, <1>7
<1> QED
  BY <1>2, <1>3, <1>5, <1>8, <1>12, <1>13, <1>14

LEMMA TailReads ==
  ASSUME TailInv, NEW f \in Tailer!Files, Tailer!ReadSilent(f) \/ Tailer!ReadPending(f)
  PROVE  TailInv'
<1>1. PICK id \in Nat :
        /\ Tailer!HasLine(f) /\ Tailer!Parse(f) /\ job' = Tailer!Job(f, id)
        /\ UNCHANGED <<content, modTime, stamp, written, time, saved, phase, cursors, observed, watermark, todo, admitted,
                       skipped, budget>>
        /\ \/ pc' = "checkpoint" /\ content[f][files[f].offset + 1] \in Silent
           \/ pc' = "sink" /\ id \in Tailer!Ids /\ id = cursors[f].pendingId /\ cursors[f].pendingNext = files[f].offset + 1
  <2>1. CASE Tailer!ReadSilent(f)
    BY <2>1, Zenon DEF Tailer!ReadSilent, Tailer!source
  <2>2. CASE Tailer!ReadPending(f)
    <3>1. /\ Tailer!HasLine(f) /\ Tailer!Parse(f) /\ job' = Tailer!Job(f, cursors[f].pendingId)
          /\ UNCHANGED <<content, modTime, stamp, written, time, saved, phase, cursors, observed, watermark, todo, admitted,
                         skipped, budget>>
          /\ pc' = "sink" /\ cursors[f].pendingId # 0 /\ cursors[f].pendingNext = files[f].offset + 1
      BY <2>2, Zenon DEF Tailer!ReadPending, Tailer!source, Tailer!IsPending
    <3>2. cursors[f].pendingId \in 0..MaxIds
      BY TailTyped DEF CursorSound
    <3>3. cursors[f].pendingId \in Tailer!Ids /\ cursors[f].pendingId \in Nat
      BY <3>1, <3>2, TailConstants
    <3> QED
      BY <3>1, <3>3, Zenon
  <2> QED
    BY <2>1, <2>2
<1>2. /\ files' \in [Tailer!Files -> Tailer!File] /\ \A g \in Tailer!Files \ {f} : files'[g] = files[g]
      /\ job' \in [line: Nat, id: Nat, before: Seq(Tailer!Lines)]
      /\ FileSound(f)' /\ files'[f].offset = files[f].offset
      /\ job'.id = id /\ job'.line = content[f][files[f].offset + 1] /\ files[f].offset < Len(content[f])
      /\ Begun(files[f].parser, content[f]) => Begun(files'[f].parser, content[f])
  BY <1>1, TakesLine
<1>3. pc = "reading" /\ f = Tailer!First(todo) /\ phase = "loaded"
  BY <1>1 DEF Tailer!HasLine, TailInv, Stages
<1>4. Turns(f)
  BY <1>1, <1>2, <1>3 DEF Turns
<1>5. PollTyped
  <2>1. pc' \in {"idle", "polling", "reading", "sink", "checkpoint"}
    BY <1>1
  <2> QED
    BY <1>1, <1>2, <2>1, Zenon DEF PollTyped, TailInv, Tailer!TypeOK, TailSaved
<1>6. CursorNext(cursors'[f], f)
  BY <1>1, TailRests, TailTyped, CursorGoes
<1>7. ASSUME budget'.calm
      PROVE  Calm'
  <2>1. Calm /\ saved'.kind = "ok" /\ saved'.cursors = cursors'
    BY <1>1, <1>3, <1>7 DEF TailInv, Calm
  <2>2. CalmFile(f)
    BY <2>1 DEF Calm
  <2>3. /\ Begun(cursors'[f].parser, content'[f]) /\ Begun(saved'.cursors[f].parser, content'[f])
        /\ Begun(files'[f].parser, content'[f]) /\ files'[f].offset = cursors'[f].offset
    BY <1>1, <1>2, <1>3, <2>2 DEF CalmFile
  <2>4. pc' = "sink" => /\ cursors'[f].pendingId = job'.id /\ cursors'[f].pendingNext = files'[f].offset + 1
                        /\ files'[f].offset < Len(content'[f]) /\ job'.line = content'[f][files'[f].offset + 1]
    BY <1>1, <1>2
  <2>5. CalmFile(f)'
    BY <2>3, <2>4, Zenon DEF CalmFile, Begun
  <2> QED
    BY <1>1, <1>3, <1>4, <2>1, <2>5, PollCalm
<1> QED
  BY <1>1, <1>2, <1>3, <1>4, <1>5, <1>6, <1>7, PollOne

LEMMA TailReadsNew ==
  ASSUME TailInv, NEW f \in Tailer!Files, Tailer!ReadNew(f)
  PROVE  TailInv'
<1>1. PICK id \in Tailer!Ids :
        /\ Tailer!HasLine(f) /\ ~Tailer!IsPending(f)
        /\ UNCHANGED <<content, modTime, stamp, written, time, phase, observed, watermark, admitted, skipped>>
        /\ cursors' = [cursors EXCEPT ![f] = Tailer!Pending(f, id)]
        /\ \/ Tailer!Save /\ Tailer!Parse(f) /\ job' = Tailer!Job(f, id) /\ pc' = "sink" /\ UNCHANGED todo
           \/ Tailer!SaveFails /\ UNCHANGED files /\ Tailer!EndPoll
  <2>1. Tailer!FreshIds # {} /\ Tailer!FreshIds \in SUBSET Nat /\ Tailer!FreshIds \subseteq Tailer!Ids
    BY TailConstants DEF Tailer!ReadNew, Tailer!FreshIds
  <2>2. Tailer!First(Tailer!FreshIds) \in Tailer!Ids
    BY <2>1, LeastFirst
  <2> QED
    BY <2>2, Zenon DEF Tailer!ReadNew, Tailer!source
<1>2. pc = "reading" /\ f = Tailer!First(todo) /\ phase = "loaded" /\ id \in Nat /\ id \in 0..MaxIds
  BY <1>1, TailConstants DEF Tailer!HasLine, TailInv, Stages
<1>3. /\ files \in [Tailer!Files -> Tailer!File] /\ cursors \in [Tailer!Files -> Tailer!Cursor] /\ observed \in [Tailer!Files -> Nat]
      /\ todo \in SUBSET Tailer!Files /\ admitted \in SUBSET [id: Tailer!Ids, line: Tailer!Lines]
  BY DEF TailInv, Tailer!TypeOK
<1> DEFINE c == Tailer!Pending(f, id)
<1>4. /\ c \in Tailer!Cursor /\ c.parser = files[f].parser /\ c.offset = files[f].offset /\ c.identity = files[f].identity
      /\ c.last = files[f].last /\ c.pendingId = id /\ c.pendingNext = files[f].offset + 1
  <2>1. files[f] \in Tailer!File
    BY <1>3
  <2>2. files[f].offset + 1 \in Nat
    BY <2>1 DEF Tailer!File
  <2> QED
    BY <1>2, <2>1, <2>2 DEF Tailer!Pending, Tailer!CursorOf, Tailer!File, Tailer!Cursor
<1> HIDE DEF c
<1>5. /\ cursors' \in [Tailer!Files -> Tailer!Cursor] /\ cursors'[f] = c
      /\ \A g \in Tailer!Files \ {f} : cursors'[g] = cursors[g]
  BY <1>1, <1>3, <1>4 DEF c
<1>6. TailGoes
  BY <1>1, TailRests
<1>7. CursorNext(cursors'[f], f)
  <2>1. Sound(files[f], files[f].parser, content[f], written, Covered)
    BY <1>2, TailTyped DEF FileSound, Fed, InHand
  <2>2. Sound(files[f], files[f].parser, content'[f], written', Covered')
    BY <1>6, <2>1, TailTyped, SoundGrows DEF TailGoes
  <2>3. Sound(c, c.parser, content'[f], written', Covered')
    BY <1>4, <2>2, SoundSame
  <2> QED
    BY <1>2, <1>4, <1>5, <2>3 DEF CursorNext
<1>8. /\ saved' \in TailSaved /\ "calm" \in DOMAIN budget'
      /\ \/ Tailer!Save /\ saved'.kind = "ok" /\ saved'.cursors = cursors' /\ budget' = budget
         \/ Tailer!SaveFails /\ saved' = saved /\ ~budget'.calm
  BY <1>1, <1>5, SaveEither
<1>9. CASE Tailer!Save /\ Tailer!Parse(f) /\ job' = Tailer!Job(f, id) /\ pc' = "sink" /\ UNCHANGED todo
  <2>1. /\ files' \in [Tailer!Files -> Tailer!File] /\ \A g \in Tailer!Files \ {f} : files'[g] = files[g]
        /\ job' \in [line: Nat, id: Nat, before: Seq(Tailer!Lines)]
        /\ FileSound(f)' /\ files'[f].offset = files[f].offset
        /\ job'.id = id /\ job'.line = content[f][files[f].offset + 1] /\ files[f].offset < Len(content[f])
        /\ Begun(files[f].parser, content[f]) => Begun(files'[f].parser, content[f])
    BY <1>1, <1>2, <1>9, TakesLine
  <2>2. Turns(f)
    BY <1>1, <1>2, <1>5, <1>9, <2>1 DEF Turns
  <2>3. PollTyped
    BY <1>1, <1>3, <1>5, <1>8, <1>9, <2>1 DEF PollTyped
  <2>4. ASSUME budget'.calm
        PROVE  Calm'
    <3>1. Calm /\ saved'.kind = "ok" /\ saved'.cursors = cursors' /\ cursors = saved.cursors
      BY <1>2, <1>8, <2>4 DEF TailInv, Calm
    <3>2. CalmFile(f)
      BY <3>1 DEF Calm
    <3>3. files[f].offset = cursors[f].offset /\ Begun(files[f].parser, content[f])
      BY <1>2, <3>2 DEF CalmFile
    <3>4. /\ Begun(cursors'[f].parser, content'[f]) /\ Begun(saved'.cursors[f].parser, content'[f])
          /\ Begun(files'[f].parser, content'[f]) /\ files'[f].offset = cursors'[f].offset
      BY <1>1, <1>4, <1>5, <2>1, <3>1, <3>3
    <3>5. /\ cursors'[f].pendingId = job'.id /\ cursors'[f].pendingNext = files'[f].offset + 1
          /\ files'[f].offset < Len(content'[f]) /\ job'.line = content'[f][files'[f].offset + 1]
      BY <1>1, <1>4, <1>5, <2>1
    <3>6. CalmFile(f)'
      BY <3>4, <3>5, Zenon DEF CalmFile, Begun
    <3>7. ASSUME NEW e \in admitted, NEW n \in 1..Len(content[f]), Past(e, cursors[f], n)
          PROVE  Past(e, cursors'[f], n)
      <4>1. e.id # 0
        BY <1>3, TailConstants
      <4>2. n <= cursors[f].offset
        BY <1>1, <3>3, <3>7, <4>1 DEF Past, Tailer!IsPending
      <4> QED
        BY <1>4, <1>5, <3>3, <4>2 DEF Past
    <3> QED
      BY <1>1, <1>2, <2>2, <3>1, <3>6, <3>7, PollCalm
  <2> QED
    BY <1>1, <1>2, <1>7, <1>8, <2>1, <2>2, <2>3, <2>4, PollOne
<1>10. CASE Tailer!SaveFails /\ UNCHANGED files /\ Tailer!EndPoll
  <2>1. pc' = "idle" /\ todo' = {} /\ job' \in [line: Nat, id: Nat, before: Seq(Tailer!Lines)]
    BY <1>10 DEF Tailer!EndPoll, Tailer!NoJob
  <2>2. saved' = saved /\ ~budget'.calm /\ saved'.cursors = saved.cursors
    <3>1. budget' = [budget EXCEPT !.saves = @ - 1, !.calm = FALSE] /\ saved' = saved
      BY <1>10 DEF Tailer!SaveFails
    <3>2. "calm" \in DOMAIN budget
      BY DEF TailInv
    <3> QED
      BY <3>1, <3>2
  <2>3. Turns(f)
    BY <1>1, <1>2, <1>5, <1>10, <2>1 DEF Turns
  <2>4. PollTyped
    BY <1>1, <1>3, <1>5, <1>8, <1>10, <2>1 DEF PollTyped
  <2>5. FileSound(f)'
    BY <1>2, <1>6, <1>10, <2>1, FileRests DEF InHand
  <2> QED
    BY <1>1, <1>2, <1>7, <2>2, <2>3, <2>4, <2>5, PollOne
<1> QED
  BY <1>1, <1>9, <1>10

\* The sink accepts the line in hand.
LEMMA TailAccepts == ASSUME TailInv, Tailer!Accept PROVE TailInv'
<1>1. /\ pc = "sink" /\ pc' = "checkpoint" /\ phase = "loaded"
      /\ UNCHANGED <<content, modTime, stamp, written, time, saved, phase, cursors, files, observed, watermark, todo, job,
                     skipped, budget>>
      /\ admitted' = admitted \cup {[id |-> job.id, line |-> job.line]}
  <2>1. pc = "sink" /\ phase = "loaded"
    BY DEF Tailer!Accept, TailInv, Stages
  <2> QED
    BY <2>1, Zenon DEF Tailer!Accept, Tailer!source, Tailer!memory
<1>2. PICK f \in Tailer!Files : f = Tailer!First(todo)
  BY <1>1 DEF TailInv, Stages
<1>3. InHand(f) /\ FileSound(f) /\ Handled(f) /\ job.id \in Tailer!Ids /\ job.line \in 1..written
  BY <1>1, <1>2, TailTyped DEF InHand, FileSound, Handled
<1>0. PICK new : new = [id |-> job.id, line |-> job.line]
  OBVIOUS
<1>4. job.line \in Tailer!Lines
  <2>1. written <= MaxLines /\ written \in Nat
    BY DEF TailInv, LinesApart, Tailer!TypeOK
  <2>2. MaxLines \in Nat /\ Tailer!Lines = 1..MaxLines
    BY TailConstants
  <2> HIDE DEF written, job
  <2> QED
    BY <1>3, <2>1, <2>2
<1>5. new \in [id: Tailer!Ids, line: Tailer!Lines] /\ new.id = job.id /\ new.line = job.line
  BY <1>0, <1>3, <1>4
<1>6. admitted' = admitted \cup {new} /\ admitted \in SUBSET [id: Tailer!Ids, line: Tailer!Lines]
  BY <1>0, <1>1 DEF TailInv, Tailer!TypeOK
<1>7. TailGoes
  BY <1>1, <1>6, TailRests
<1>8. FileSound(f)'
  <2>1. Sound(files[f], job.before, content[f], written, Covered)
    BY <1>3 DEF FileSound, Fed
  <2>2. Covered \subseteq Covered' /\ job.line \in Covered'
    BY <1>1, <1>5, <1>6 DEF Covered
  <2>3. Sound(files[f], job.before, content[f], written, Covered')
    BY <2>1, <2>2 DEF Sound
  <2>4. Sound(files[f], job.before, content[f], written, Covered)'
    BY <1>1, <2>3
  <2>5. Handled(f)'
    BY <1>1, <1>3, <2>2, Zenon DEF Handled
  <2>6. InHand(f)' /\ Fed(f)' = job'.before
    BY <1>1, <1>2 DEF InHand, Fed
  <2> QED
    BY <1>1, <2>4, <2>5, <2>6 DEF FileSound
<1>9. Turns(f)
  BY <1>1, <1>2 DEF Turns
<1>10. PollTyped
  <2>1. pc' \in {"idle", "polling", "reading", "sink", "checkpoint"} /\ admitted' \in SUBSET [id: Tailer!Ids, line: Tailer!Lines]
    BY <1>1, <1>5, <1>6
  <2> QED
    BY <1>1, <2>1, Zenon DEF PollTyped, TailInv, Tailer!TypeOK, TailSaved
<1>11. CursorNext(cursors'[f], f)
  BY <1>1, <1>7, TailTyped, CursorGoes
<1>12. ASSUME budget'.calm
       PROVE  Calm'
  <2>1. Calm /\ saved.kind = "ok" /\ cursors = saved.cursors
    BY <1>1, <1>12 DEF TailInv, Calm
  <2>2. Appended
    BY <1>1, TailTyped DEF Appended
  <2>3. \A g \in Tailer!Files : CalmFile(g)'
    BY <1>1, <2>1, <2>2, CalmFileStays
  <2>4. \A e \in admitted : CalmEvent(e)'
    BY <1>1, <2>1, Zenon DEF Calm, CalmEvent, Past
  <2>5. CalmFile(f)
    BY <2>1 DEF Calm
  <2>6. /\ cursors[f].pendingId = job.id /\ cursors[f].pendingNext = files[f].offset + 1
        /\ files[f].offset < Len(content[f]) /\ job.line = content[f][files[f].offset + 1]
        /\ files[f].offset = cursors[f].offset
    BY <1>1, <1>3, <2>5 DEF CalmFile
  <2>7. files[f].offset \in Nat /\ content[f] \in Seq(Nat)
    BY TailTyped DEF Tailer!File
  <2>8. PICK n : n = files[f].offset + 1
    OBVIOUS
  <2>9. n \in 1..Len(content[f]) /\ content[f][n] = new.line /\ Past(new, saved.cursors[f], n)
    BY <1>5, <2>1, <2>6, <2>7, <2>8 DEF Past
  <2>10. CalmEvent(new)
    BY <2>9 DEF CalmEvent
  <2>11. CalmEvent(new)'
    BY <1>1, <2>10, Zenon DEF CalmEvent, Past
  <2>12. ASSUME NEW d \in admitted, d.line = new.line
         PROVE  d = new
    <3>1. CalmEvent(d)
      BY <2>1 DEF Calm
    <3>2. PICK g \in Tailer!Files : \E m \in 1..Len(content[g]) : content[g][m] = d.line /\ Past(d, saved.cursors[g], m)
      BY <3>1 DEF CalmEvent
    <3>3. PICK m \in 1..Len(content[g]) : content[g][m] = d.line /\ Past(d, saved.cursors[g], m)
      BY <3>2
    <3>4. g = f /\ m = n
      <4>1. LinesApart
        BY DEF TailInv
      <4>2. content[g][m] = content[f][n]
        BY <2>9, <2>12, <3>3
      <4> QED
        BY <2>9, <4>1, <4>2 DEF LinesApart
    <3>5. d.id = new.id
      BY <1>5, <2>1, <2>6, <2>7, <2>8, <3>3, <3>4 DEF Past
    <3>6. d \in [id: Tailer!Ids, line: Tailer!Lines]
      BY <1>6
    <3> QED
      BY <1>5, <2>12, <3>5, <3>6
  <2>13. \A d, e \in admitted' : d.line = e.line => d = e
    BY <1>6, <2>1, <2>12 DEF Calm
  <2>14. \A e \in admitted' : CalmEvent(e)'
    BY <1>6, <2>4, <2>11
  <2>15. saved'.kind = "ok" /\ cursors' = saved'.cursors
    BY <1>1, <2>1
  <2> QED
    BY <2>3, <2>13, <2>14, <2>15 DEF Calm
<1> QED
  BY <1>1, <1>6, <1>8, <1>9, <1>10, <1>11, <1>12, PollOne

\* A sink that fails takes the line back from the parser.
LEMMA RollsBack ==
  ASSUME TailInv, NEW f \in Tailer!Files, InHand(f), Tailer!Rollback(f), Tailer!EndPoll, TailGoes, UNCHANGED content
  PROVE  /\ files' \in [Tailer!Files -> Tailer!File] /\ \A g \in Tailer!Files \ {f} : files'[g] = files[g]
         /\ files'[f].offset = files[f].offset /\ files'[f].parser = job.before
         /\ FileSound(f)' /\ Sound(files[f], job.before, content'[f], written', Covered')
         /\ Begun(files[f].parser, content[f]) => Begun(job.before, content[f])
         /\ pc' = "idle" /\ todo' = {} /\ job' \in [line: Nat, id: Nat, before: Seq(Tailer!Lines)]
<1>1. files \in [Tailer!Files -> Tailer!File] /\ job.before \in Seq(Tailer!Lines) /\ job.before \in Seq(Nat) /\ FileSound(f)
  BY TailTyped DEF TailInv, Tailer!TypeOK
<1> DEFINE new == [files[f] EXCEPT !.parser = job.before]
<1>2. files' = [files EXCEPT ![f] = new]
  BY <1>1 DEF Tailer!Rollback
<1>3. /\ new \in Tailer!File /\ new.parser = job.before /\ new.offset = files[f].offset
      /\ new.identity = files[f].identity /\ new.last = files[f].last
  BY <1>1 DEF Tailer!File
<1> HIDE DEF new
<1>4. files' \in [Tailer!Files -> Tailer!File] /\ files'[f] = new /\ \A g \in Tailer!Files \ {f} : files'[g] = files[g]
  BY <1>1, <1>2, <1>3
<1>5. Sound(files[f], job.before, content[f], written, Covered) /\ Handled(f)
  BY <1>1 DEF FileSound, Fed
<1>6. Sound(files[f], job.before, content'[f], written', Covered')
  BY <1>1, <1>5, TailTyped, SoundGrows DEF TailGoes
<1>7. Sound(new, job.before, content'[f], written', Covered')
  BY <1>3, <1>6, SoundSame
<1>8. pc' = "idle" /\ todo' = {} /\ job' \in [line: Nat, id: Nat, before: Seq(Tailer!Lines)]
  BY DEF Tailer!EndPoll, Tailer!NoJob
<1>9. FileSound(f)'
  BY <1>3, <1>4, <1>7, <1>8 DEF FileSound, Fed, InHand
<1>10. Begun(files[f].parser, content[f]) => Begun(job.before, content[f])
  <2>1. PICK p \in Seq(Nat) : p = job.before
    BY <1>1
  <2>0. PICK x : x = job.line
    OBVIOUS
  <2>2. files[f].parser = Append(p, x)
    BY <1>5, <2>0, <2>1 DEF Handled
  <2>3. Len(p) > 0 => Len(Append(p, x)) > 0 /\ Append(p, x)[1] = p[1]
    BY <2>1
  <2> QED
    BY <2>1, <2>2, <2>3 DEF Begun
<1> QED
  BY <1>3, <1>4, <1>6, <1>8, <1>9, <1>10

LEMMA TailSinkFails == ASSUME TailInv, Tailer!SinkFails PROVE TailInv'
<1>1. /\ pc = "sink" /\ phase = "loaded" /\ budget' = [budget EXCEPT !.sinks = @ - 1]
      /\ Tailer!Rollback(Tailer!First(todo)) /\ Tailer!EndPoll
      /\ UNCHANGED <<content, modTime, stamp, written, time, saved, phase, cursors, observed, watermark, admitted, skipped>>
  <2>1. pc = "sink" /\ phase = "loaded"
    BY DEF Tailer!SinkFails, TailInv, Stages
  <2> QED
    BY <2>1, Zenon DEF Tailer!SinkFails, Tailer!source
<1>2. PICK f \in Tailer!Files : f = Tailer!First(todo)
  BY <1>1 DEF TailInv, Stages
<1>3. InHand(f) /\ Tailer!Rollback(f) /\ TailGoes
  BY <1>1, <1>2, TailRests DEF InHand
<1>4. /\ files' \in [Tailer!Files -> Tailer!File] /\ \A g \in Tailer!Files \ {f} : files'[g] = files[g]
      /\ files'[f].offset = files[f].offset /\ files'[f].parser = job.before /\ FileSound(f)'
      /\ Begun(files[f].parser, content[f]) => Begun(job.before, content[f])
      /\ pc' = "idle" /\ todo' = {} /\ job' \in [line: Nat, id: Nat, before: Seq(Tailer!Lines)]
  BY <1>1, <1>3, RollsBack
<1>5. Turns(f)
  BY <1>1, <1>2, <1>4 DEF Turns
<1>6. "calm" \in DOMAIN budget' /\ budget'.calm = budget.calm
  BY <1>1 DEF TailInv
<1>7. PollTyped
  <2>1. pc' \in {"idle", "polling", "reading", "sink", "checkpoint"} /\ todo' \in SUBSET Tailer!Files
    BY <1>4
  <2> QED
    BY <1>1, <1>4, <1>6, <2>1, Zenon DEF PollTyped, TailInv, Tailer!TypeOK, TailSaved
<1>8. CursorNext(cursors'[f], f)
  BY <1>1, <1>3, TailTyped, CursorGoes
<1>9. ASSUME budget'.calm
      PROVE  Calm'
  <2>1. Calm /\ saved'.kind = "ok" /\ saved'.cursors = cursors'
    BY <1>1, <1>6, <1>9 DEF TailInv, Calm
  <2>2. CalmFile(f)
    BY <2>1 DEF Calm
  <2>3. /\ Begun(cursors'[f].parser, content'[f]) /\ Begun(saved'.cursors[f].parser, content'[f])
        /\ Begun(files'[f].parser, content'[f]) /\ files'[f].offset = cursors'[f].offset
    BY <1>1, <1>4, <2>2 DEF CalmFile
  <2>4. CalmFile(f)'
    BY <1>4, <2>3 DEF CalmFile
  <2> QED
    BY <1>1, <1>5, <2>1, <2>4, PollCalm
<1> QED
  BY <1>1, <1>4, <1>5, <1>7, <1>8, <1>9, PollOne

\* The cursor moves past the line in hand, or its checkpoint cannot be saved.
LEMMA TailMoves ==
  ASSUME TailInv, NEW f \in Tailer!Files, InHand(f), pc = "checkpoint", phase = "loaded",
         UNCHANGED <<content, modTime, stamp, written, time, phase, observed, watermark, todo, admitted, skipped>>,
         NEW moved, files' = [files EXCEPT ![f] = moved], cursors' = [cursors EXCEPT ![f] = Tailer!CursorOf(moved)],
         moved = [known |-> TRUE, offset |-> files[f].offset + 1, parser |-> files[f].parser,
                  identity |-> IF files[f].offset + 1 = 1 THEN job.line ELSE files[f].identity, last |-> job.line],
         Tailer!Save, pc' = "reading", job' = Tailer!NoJob
  PROVE  TailInv'
<1>1. /\ files \in [Tailer!Files -> Tailer!File] /\ cursors \in [Tailer!Files -> Tailer!Cursor] /\ observed \in [Tailer!Files -> Nat]
      /\ todo \in SUBSET Tailer!Files /\ admitted \in SUBSET [id: Tailer!Ids, line: Tailer!Lines]
      /\ job.line \in Nat /\ job.before \in Seq(Nat) /\ FileSound(f) /\ CursorSound(cursors[f], f)
  BY TailTyped DEF TailInv, Tailer!TypeOK
<1>2. PICK b \in Tailer!File : b = files[f]
  BY <1>1
<1>3. /\ moved \in Tailer!File /\ moved.parser = b.parser /\ moved.offset = b.offset + 1
      /\ moved.identity = (IF b.offset + 1 = 1 THEN job.line ELSE b.identity) /\ moved.last = job.line
  BY <1>1, <1>2 DEF Tailer!File
<1> DEFINE c == Tailer!CursorOf(moved)
<1>4. /\ c \in Tailer!Cursor /\ c.parser = moved.parser /\ c.offset = moved.offset /\ c.identity = moved.identity
      /\ c.last = moved.last /\ c.pendingId = 0
  BY <1>3 DEF Tailer!CursorOf, Tailer!File, Tailer!Cursor
<1> HIDE DEF c
<1>5. /\ files' \in [Tailer!Files -> Tailer!File] /\ cursors' \in [Tailer!Files -> Tailer!Cursor]
      /\ files'[f] = moved /\ cursors'[f] = c
      /\ \A g \in Tailer!Files \ {f} : cursors'[g] = cursors[g] /\ files'[g] = files[g]
  BY <1>1, <1>3, <1>4 DEF c
<1>6. /\ Sound(b, job.before, content[f], written, Covered) /\ b.parser = Append(job.before, job.line)
      /\ Trace(b.parser, content[f], written) /\ job.line \in Covered
  BY <1>1, <1>2, Zenon DEF FileSound, Fed, Handled
<1>7. Sound(moved, b.parser, content[f], written, Covered)
  <2>1. PICK p \in Seq(Nat) : p = job.before
    BY <1>1
  <2>2. PICK line \in Nat : line = job.line
    BY <1>1
  <2>3. Sound(moved, Append(p, line), content[f], written, Covered)
    BY <1>3, <1>6, <2>1, <2>2, SoundMoved
  <2> QED
    BY <1>6, <2>1, <2>2, <2>3
<1>8. Covered' = Covered
  BY DEF Covered
<1>9. Sound(moved, b.parser, content'[f], written', Covered')
  BY <1>7, <1>8
<1>10. FileSound(f)'
  BY <1>3, <1>5, <1>9 DEF FileSound, Fed, InHand
<1>11. CursorNext(cursors'[f], f)
  <2>1. Sound(c, c.parser, content'[f], written', Covered')
    BY <1>3, <1>4, <1>9, SoundSame
  <2>2. 0 \in 0..MaxIds
    BY TailConstants
  <2> QED
    BY <1>4, <1>5, <2>1, <2>2 DEF CursorNext
<1>12. /\ saved' \in TailSaved /\ "calm" \in DOMAIN budget' /\ saved'.kind = "ok" /\ saved'.cursors = cursors' /\ budget' = budget
  <2>1. saved' = [kind |-> "ok", at |-> time, cursors |-> cursors'] /\ budget' = budget
    BY Zenon DEF Tailer!Save
  <2> QED
    BY <1>5, <2>1, SaveEither
<1>13. Turns(f)
  BY <1>5 DEF Turns, InHand
<1>14. PollTyped
  BY <1>1, <1>5, <1>12 DEF PollTyped, Tailer!NoJob
<1>15. ASSUME budget'.calm
       PROVE  Calm'
  <2>1. Calm /\ cursors = saved.cursors
    BY <1>12, <1>15 DEF TailInv, Calm
  <2>2. CalmFile(f)
    BY <2>1 DEF Calm
  <2>3. b.offset = cursors[f].offset /\ Begun(b.parser, content[f]) /\ b.offset \in Nat
    BY <1>2, <2>2 DEF CalmFile, Tailer!File
  <2>4. /\ Begun(cursors'[f].parser, content'[f]) /\ Begun(saved'.cursors[f].parser, content'[f])
        /\ Begun(files'[f].parser, content'[f]) /\ files'[f].offset = cursors'[f].offset
    <3>1. /\ cursors'[f].parser = b.parser /\ saved'.cursors[f] = cursors'[f] /\ files'[f].parser = b.parser
          /\ files'[f].offset = cursors'[f].offset
      BY <1>3, <1>4, <1>5, <1>12
    <3>2. Begun(b.parser, content'[f])
      BY <2>3
    <3> QED
      BY <3>1, <3>2
  <2>5. CalmFile(f)'
    BY <2>4 DEF CalmFile
  <2>6. ASSUME NEW e \in admitted, NEW n \in 1..Len(content[f]), Past(e, cursors[f], n)
        PROVE  Past(e, cursors'[f], n)
    <3>1. n <= cursors[f].offset + 1
      BY <2>3, <2>6 DEF Past
    <3> QED
      BY <1>3, <1>4, <1>5, <2>3, <3>1 DEF Past
  <2> QED
    BY <1>12, <1>13, <2>1, <2>5, <2>6, PollCalm
<1> QED
  BY <1>10, <1>11, <1>12, <1>13, <1>14, <1>15, PollOne

LEMMA TailStays ==
  ASSUME TailInv, NEW f \in Tailer!Files, InHand(f), pc = "checkpoint", phase = "loaded",
         UNCHANGED <<content, modTime, stamp, written, time, phase, observed, watermark, admitted, skipped>>,
         \/ cursors' = [cursors EXCEPT ![f] = Tailer!CursorOf([files[f] EXCEPT !.parser = job.before])]
         \/ cursors' = cursors,
         Tailer!SaveFails, Tailer!Rollback(f), Tailer!EndPoll
  PROVE  TailInv'
<1>1. TailGoes
  BY TailRests
<1>2. /\ files' \in [Tailer!Files -> Tailer!File] /\ \A g \in Tailer!Files \ {f} : files'[g] = files[g]
      /\ FileSound(f)' /\ Sound(files[f], job.before, content'[f], written', Covered')
      /\ pc' = "idle" /\ todo' = {} /\ job' \in [line: Nat, id: Nat, before: Seq(Tailer!Lines)]
  BY <1>1, RollsBack
<1>3. /\ files \in [Tailer!Files -> Tailer!File] /\ cursors \in [Tailer!Files -> Tailer!Cursor] /\ observed \in [Tailer!Files -> Nat]
      /\ admitted \in SUBSET [id: Tailer!Ids, line: Tailer!Lines] /\ job.before \in Seq(Tailer!Lines)
      /\ saved \in TailSaved /\ "calm" \in DOMAIN budget
  BY DEF TailInv, Tailer!TypeOK, TailSaved
<1> DEFINE c == Tailer!CursorOf([files[f] EXCEPT !.parser = job.before])
<1>4. /\ c \in Tailer!Cursor /\ c.parser = job.before /\ c.offset = files[f].offset /\ c.identity = files[f].identity
      /\ c.last = files[f].last /\ c.pendingId = 0
  <2>1. PICK b \in Tailer!File : b = [files[f] EXCEPT !.parser = job.before]
    BY <1>3 DEF Tailer!File
  <2>2. /\ b.parser = job.before /\ b.offset = files[f].offset /\ b.identity = files[f].identity /\ b.last = files[f].last
    BY <1>3, <2>1 DEF Tailer!File
  <2> QED
    BY <2>1, <2>2 DEF Tailer!CursorOf, Tailer!File, Tailer!Cursor
<1> HIDE DEF c
<1>5. CursorNext(c, f)
  <2>1. Sound(c, c.parser, content'[f], written', Covered')
    BY <1>2, <1>4, SoundSame
  <2>2. 0 \in 0..MaxIds
    BY TailConstants
  <2> QED
    BY <1>4, <2>1, <2>2 DEF CursorNext
<1>6. /\ cursors' \in [Tailer!Files -> Tailer!Cursor] /\ CursorNext(cursors'[f], f)
      /\ \A g \in Tailer!Files \ {f} : cursors'[g] = cursors[g]
  <2>1. CASE cursors' = [cursors EXCEPT ![f] = c]
    BY <1>3, <1>4, <1>5, <2>1
  <2>2. CASE cursors' = cursors
    BY <1>1, <1>3, <2>2, TailTyped, CursorGoes
  <2> QED
    BY <2>1, <2>2 DEF c
<1>7. saved' = saved /\ "calm" \in DOMAIN budget' /\ ~budget'.calm
  <2>1. saved' = saved /\ budget' = [budget EXCEPT !.saves = @ - 1, !.calm = FALSE]
    BY Zenon DEF Tailer!SaveFails
  <2> QED
    BY <1>3, <2>1
<1>8. Turns(f)
  BY <1>2, <1>6 DEF Turns, InHand
<1>9. PollTyped
  BY <1>2, <1>3, <1>6, <1>7 DEF PollTyped
<1> QED
  BY <1>2, <1>6, <1>7, <1>8, <1>9, PollOne

LEMMA TailCheckpoints == ASSUME TailInv, Tailer!Checkpoint PROVE TailInv'
<1>1. /\ pc = "checkpoint" /\ phase = "loaded"
      /\ UNCHANGED <<content, modTime, stamp, written, time, phase, observed, watermark, admitted, skipped>>
  <2>1. pc = "checkpoint" /\ phase = "loaded"
    BY DEF Tailer!Checkpoint, TailInv, Stages
  <2> QED
    BY <2>1, Zenon DEF Tailer!Checkpoint, Tailer!source
<1>2. PICK f \in Tailer!Files : f = Tailer!First(todo)
  BY <1>1 DEF TailInv, Stages
<1>3. InHand(f)
  BY <1>1, <1>2 DEF InHand
<1>4. PICK moved : moved = [known |-> TRUE, offset |-> files[f].offset + 1, parser |-> files[f].parser,
                            identity |-> IF files[f].offset + 1 = 1 THEN job.line ELSE files[f].identity, last |-> job.line]
  OBVIOUS
<1>5. \/ /\ cursors' = [cursors EXCEPT ![f] = Tailer!CursorOf(moved)] /\ files' = [files EXCEPT ![f] = moved]
         /\ Tailer!Save /\ pc' = "reading" /\ job' = Tailer!NoJob /\ UNCHANGED todo
      \/ /\ \/ cursors' = [cursors EXCEPT ![f] = Tailer!CursorOf([files[f] EXCEPT !.parser = job.before])]
            \/ cursors' = cursors
         /\ Tailer!SaveFails /\ Tailer!Rollback(f) /\ Tailer!EndPoll
  BY <1>2, <1>4, Zenon DEF Tailer!Checkpoint
<1>6. CASE /\ cursors' = [cursors EXCEPT ![f] = Tailer!CursorOf(moved)] /\ files' = [files EXCEPT ![f] = moved]
           /\ Tailer!Save /\ pc' = "reading" /\ job' = Tailer!NoJob /\ UNCHANGED todo
  BY <1>1, <1>3, <1>4, <1>6, TailMoves
<1>7. CASE /\ \/ cursors' = [cursors EXCEPT ![f] = Tailer!CursorOf([files[f] EXCEPT !.parser = job.before])]
              \/ cursors' = cursors
           /\ Tailer!SaveFails /\ Tailer!Rollback(f) /\ Tailer!EndPoll
  BY <1>1, <1>3, <1>7, TailStays
<1> QED
  BY <1>5, <1>6, <1>7

\* A crash of the daemon, and damage to the checkpoint while it is down.
LEMMA TailCrashes == ASSUME TailInv, Tailer!Crash PROVE TailInv'
<1>1. /\ phase' = "down" /\ pc' = "idle" /\ todo' = {} /\ job' = Tailer!NoJob /\ watermark' = 0
      /\ cursors' = [f \in Tailer!Files |-> Tailer!NoCursor] /\ files' = [f \in Tailer!Files |-> Tailer!NoFile]
      /\ observed' = [f \in Tailer!Files |-> 0]
      /\ UNCHANGED <<content, modTime, stamp, written, time, saved, admitted, skipped>>
      /\ budget' = [budget EXCEPT !.crashes = @ - 1]
  BY Zenon DEF Tailer!Crash, Tailer!EndPoll, Tailer!source
<1>2. TailGoes /\ LinesApart'
  BY <1>1, TailRests
<1>3. "calm" \in DOMAIN budget' /\ budget'.calm = budget.calm
  BY <1>1 DEF TailInv
<1>4. \A f \in Tailer!Files : Tailer!NoFile \in Tailer!File /\ Tailer!NoCursor \in Tailer!Cursor
  BY TailFiles
<1>5. Tailer!TypeOK'
  <2>1. cursors' \in [Tailer!Files -> Tailer!Cursor] /\ files' \in [Tailer!Files -> Tailer!File] /\ observed' \in [Tailer!Files -> Nat]
    BY <1>1, <1>4
  <2>2. /\ job' \in [line: Nat, id: Nat, before: Seq(Tailer!Lines)] /\ todo' \in SUBSET Tailer!Files /\ watermark' \in Nat
        /\ pc' \in {"idle", "polling", "reading", "sink", "checkpoint"} /\ phase' \in {"down", "up", "baselined", "loaded"}
    BY <1>1 DEF Tailer!NoJob
  <2> QED
    BY <1>1, <2>1, <2>2, Zenon DEF TailInv, Tailer!TypeOK
<1>6. ASSUME NEW f \in Tailer!Files
      PROVE  CursorNext(cursors'[f], f) /\ CursorNext(saved'.cursors[f], f) /\ FileSound(f)'
  <2>1. cursors'[f] = Tailer!NoCursor /\ files'[f] = Tailer!NoFile
    BY <1>1
  <2>2. CursorNext(saved'.cursors[f], f)
    BY <1>1, <1>2, TailTyped, CursorGoes
  <2>3. FileSound(f)'
    BY <1>1, <2>1, EmptyNext DEF FileSound, Fed, InHand
  <2> QED
    BY <2>1, <2>2, <2>3, EmptyNext
<1>7. ASSUME budget'.calm
      PROVE  Calm'
  <2>1. Calm
    BY <1>3, <1>7 DEF TailInv
  <2>2. ASSUME NEW f \in Tailer!Files
        PROVE  CalmFile(f)'
    <3>1. cursors'[f].parser = <<>> /\ files'[f].parser = <<>>
      BY <1>1 DEF Tailer!NoCursor, Tailer!NoFile
    <3>2. CalmFile(f)
      BY <2>1 DEF Calm
    <3>3. Begun(<<>>, content'[f])
      BY DEF Begun
    <3>4. /\ Begun(cursors'[f].parser, content'[f]) /\ Begun(saved'.cursors[f].parser, content'[f])
          /\ Begun(files'[f].parser, content'[f])
      BY <1>1, <3>1, <3>2, <3>3 DEF CalmFile
    <3> QED
      BY <1>1, <3>4 DEF CalmFile
  <2>3. \A e \in admitted' : CalmEvent(e)'
    BY <1>1, <2>1, Zenon DEF Calm, CalmEvent, Past
  <2>4. /\ phase' # "loaded" /\ (saved'.kind # "ok" => admitted' = {})
        /\ \A d, e \in admitted' : d.line = e.line => d = e
    BY <1>1, <2>1 DEF Calm
  <2> QED
    BY <2>2, <2>3, <2>4 DEF Calm
<1>8. Stages'
  BY <1>1 DEF Stages
<1> QED
  BY <1>2, <1>3, <1>5, <1>6, <1>7, <1>8, TailTogether

LEMMA TailCorrupts == ASSUME TailInv, Tailer!Corrupt PROVE TailInv'
<1>1. /\ phase = "down" /\ pc = "idle"
      /\ saved' = [kind |-> "corrupt", at |-> 0, cursors |-> [f \in Tailer!Files |-> Tailer!NoCursor]]
      /\ UNCHANGED <<content, modTime, stamp, written, time, phase, cursors, files, observed, watermark, pc, todo, job, admitted,
                     skipped>>
      /\ budget' = [budget EXCEPT !.corruptions = @ - 1, !.calm = FALSE]
  <2>1. phase = "down" /\ pc = "idle"
    BY DEF Tailer!Corrupt, TailInv, Stages
  <2> QED
    BY <2>1, Zenon DEF Tailer!Corrupt, Tailer!source, Tailer!memory, Tailer!poll
<1>2. TailGoes /\ LinesApart'
  BY <1>1, TailRests
<1>3. "calm" \in DOMAIN budget' /\ ~budget'.calm
  BY <1>1 DEF TailInv
<1>4. saved' \in TailSaved /\ saved'.kind = "corrupt" /\ \A f \in Tailer!Files : saved'.cursors[f] = Tailer!NoCursor
  <2>1. \A f \in Tailer!Files : Tailer!NoCursor \in Tailer!Cursor
    BY TailFiles
  <2> QED
    BY <1>1, <2>1 DEF TailSaved
<1>5. Tailer!TypeOK'
  BY <1>1, <1>4, Zenon DEF TailInv, Tailer!TypeOK, TailSaved
<1>6. ASSUME NEW f \in Tailer!Files
      PROVE  CursorNext(cursors'[f], f) /\ CursorNext(saved'.cursors[f], f) /\ FileSound(f)'
  BY <1>1, <1>2, <1>4, TailTyped, CursorGoes, FileRests, EmptyNext
<1>7. Stages'
  BY <1>1, <1>4 DEF Stages
<1> QED
  BY <1>2, <1>3, <1>5, <1>6, <1>7, TailTogether

LEMMA TailStep == ASSUME TailInv, [Tailer!Next]_(Tailer!vars) PROVE TailInv'
<1>1. CASE UNCHANGED Tailer!vars
  <2>1. UNCHANGED <<content, modTime, stamp, written, time, saved, phase, cursors, files, observed, watermark, pc, todo, job,
                    admitted, skipped, budget>>
    BY <1>1, Zenon DEF Tailer!vars
  <2>2. TailGoes /\ LinesApart'
    BY <2>1, TailRests
  <2>3. Tailer!TypeOK' /\ Stages' /\ "calm" \in DOMAIN budget'
    BY <2>1, Zenon DEF TailInv, Tailer!TypeOK, Stages
  <2>4. Appended
    BY <2>1, TailTyped DEF Appended
  <2> QED
    BY <2>1, <2>2, <2>3, <2>4, TailFrame
<1>2. CASE Tailer!Initialize
  BY <1>2, TailTicks, TailLoads, TailBaselines, TailSavesBaseline DEF Tailer!Initialize
<1>3. CASE Tailer!Poll
  <2>1. CASE Tailer!PollStart \/ Tailer!PollEnd
    BY <2>1, TailTicks
  <2>2. ASSUME NEW f \in Tailer!Files,
               \/ Tailer!PollBaseline(f) \/ Tailer!PollFile(f) \/ Tailer!ReadToEnd(f)
               \/ Tailer!ReadSilent(f) \/ Tailer!ReadPending(f) \/ Tailer!ReadNew(f)
        PROVE  TailInv'
    BY <2>2, TailPollBaseline, TailPollFile, TailTicks, TailReads, TailReadsNew
  <2>3. CASE Tailer!Accept \/ Tailer!Checkpoint
    BY <2>3, TailAccepts, TailCheckpoints
  <2> QED
    BY <1>3, <2>1, <2>2, <2>3 DEF Tailer!Poll
<1>4. CASE Tailer!SinkFails \/ \E f \in Tailer!Files : Tailer!PollUnreadable(f)
  BY <1>4, TailSinkFails, TailTicks
<1>5. CASE \E f \in Tailer!Files : Tailer!AppendLine(f) \/ Tailer!ReplaceFile(f) \/ Tailer!MoveIn(f)
  BY <1>5, TailSources
<1>6. CASE Tailer!Tick \/ Tailer!Crash \/ Tailer!Corrupt
  BY <1>6, TailTicks, TailCrashes, TailCorrupts
<1> QED
  BY <1>1, <1>2, <1>3, <1>4, <1>5, <1>6 DEF Tailer!Next

LEMMA TailInit == Tailer!Init => TailInv
<1> SUFFICES ASSUME Tailer!Init PROVE TailInv
  OBVIOUS
<1>1. /\ content = [f \in Tailer!Files |-> <<>>] /\ modTime = [f \in Tailer!Files |-> 0] /\ stamp = [f \in Tailer!Files |-> 0]
      /\ written = 0 /\ time = 0 /\ phase = "down" /\ watermark = 0 /\ pc = "idle" /\ todo = {} /\ job = Tailer!NoJob
      /\ saved = [kind |-> "none", at |-> 0, cursors |-> [f \in Tailer!Files |-> Tailer!NoCursor]]
      /\ cursors = [f \in Tailer!Files |-> Tailer!NoCursor] /\ files = [f \in Tailer!Files |-> Tailer!NoFile]
      /\ observed = [f \in Tailer!Files |-> 0] /\ admitted = {} /\ skipped = {} /\ budget \in TailBudgets
  BY Zenon DEF Tailer!Init
<1>2. /\ Tailer!NoCursor \in Tailer!Cursor /\ Tailer!NoFile \in Tailer!File
      /\ Tailer!NoJob \in [line: Nat, id: Nat, before: Seq(Tailer!Lines)]
      /\ Tailer!NoCursor.parser = <<>> /\ Tailer!NoCursor.offset = 0 /\ Tailer!NoCursor.pendingId = 0
      /\ Tailer!NoFile.parser = <<>> /\ Tailer!NoFile.offset = 0
  BY DEF Tailer!NoCursor, Tailer!NoFile, Tailer!NoJob, Tailer!Cursor, Tailer!File
<1>3. Tailer!TypeOK
  BY <1>1, <1>2 DEF Tailer!TypeOK
<1>4. LinesApart /\ Stages
  BY <1>1, TailConstants DEF LinesApart, Stages
<1>5. "calm" \in DOMAIN budget
  BY <1>1, DaemonAssumption
<1>6. ASSUME NEW f \in Tailer!Files
      PROVE  CursorSound(cursors[f], f) /\ CursorSound(saved.cursors[f], f) /\ FileSound(f)
  <2>1. cursors[f] = Tailer!NoCursor /\ saved.cursors[f] = Tailer!NoCursor /\ files[f] = Tailer!NoFile /\ ~InHand(f)
    BY <1>1 DEF InHand
  <2>2. 0 \in 0..MaxIds
    BY TailConstants
  <2> QED
    BY <1>2, <2>1, <2>2, SoundEmpty DEF CursorSound, FileSound, Fed
<1>7. Calm
  <2>1. ASSUME NEW f \in Tailer!Files
        PROVE  CalmFile(f)
    <3>1. cursors[f] = Tailer!NoCursor /\ saved.cursors[f] = Tailer!NoCursor /\ files[f] = Tailer!NoFile
      BY <1>1
    <3> QED
      BY <1>1, <1>2, <3>1 DEF CalmFile, Begun
  <2> QED
    BY <1>1, <2>1 DEF Calm
<1> QED
  BY <1>3, <1>4, <1>5, <1>6, <1>7 DEF TailInv

LEMMA TailMeans == TailInv => Tailer!AppendBeforeCheckpoint /\ Tailer!ContextFits /\ Tailer!StableIdentity
<1> SUFFICES ASSUME TailInv PROVE Tailer!AppendBeforeCheckpoint /\ Tailer!ContextFits /\ Tailer!StableIdentity
  OBVIOUS
<1>1. ASSUME NEW f \in Tailer!Files, NEW c \in {cursors[f], saved.cursors[f]}, Tailer!Fits(c, f)
      PROVE  /\ c.parser = SubSeq(content[f], 1, c.offset)
             /\ \A n \in 1..c.offset : Tailer!Captured(content[f][n])
  <2>1. c.parser \in Seq(Nat) /\ content[f] \in Seq(Nat) /\ CursorSound(c, f)
    BY <1>1, TailTyped
  <2>2. PICK p \in Seq(Nat), s \in Seq(Nat) : p = c.parser /\ s = content[f]
    BY <2>1
  <2>3. c.offset = Len(p) /\ Len(p) > 0 /\ c.identity = p[1] /\ Len(p) <= Len(s) /\ Tailer!LineAt(f, 1) = c.identity
    BY <1>1, <2>1, <2>2 DEF Tailer!Fits, CursorSound, Sound, Marks
  <2>4. s[1] = p[1] /\ Len(s) > 0
    BY <2>2, <2>3 DEF Tailer!LineAt
  <2>5. /\ \A n \in 1..Len(p) : p[n] = s[n]
        /\ \A n \in 1..Len(p) : p[n] \in Covered
    BY <2>1, <2>2, <2>3, <2>4 DEF CursorSound, Sound, Trace
  <2>6. p = SubSeq(s, 1, Len(p))
    BY <2>3, <2>5
  <2>7. \A x \in Covered : Tailer!Captured(x)
    BY DEF Covered, Tailer!Captured
  <2> QED
    BY <2>2, <2>3, <2>5, <2>6, <2>7
<1>2. Tailer!TypeOK
  BY DEF TailInv
<1>3. Tailer!StableIdentity
  BY DEF TailInv, Calm, Tailer!StableIdentity
<1> QED
  BY <1>1, <1>2, <1>3 DEF Tailer!AppendBeforeCheckpoint, Tailer!ContextFits

----------------------------------------------------------------------------
(* The telemetry relay.                                                    *)

env == x1
record == x2
stage == x3
plan == x4
own == x5
claim == x6
restored == x7
edits == x8
passing == x9
writes == x10
cache == x11
handler == x12
info == x13
target == x14
held == x15
queue == x16
sending == x17
stopped == x18
accepted == x19
sent == x20
dropped == x21
due == x22
USE DEF env, record, stage, plan, own, claim, restored, edits, passing, writes, cache, handler, info, target, held,
        queue, sending, stopped, accepted, sent, dropped, due

Ours == Telemetry!Ours
Home(e) == \E s \in Signals : Telemetry!DestOf(e, s) \in Collectors

\* A block whose collectors are on record.
OnRecord(e) == record # None /\ record.original = e

\* Until the user gives the collectors up the block is the user's or ours; ours only with
\* the user's on record, or without a collector in it, and so for the block that a command is
\* about to write.
Claimed ==
  claim = "kept" =>
    /\ env = own \/ (env = Ours /\ (OnRecord(own) \/ ~Home(own)))
    /\ stage = "record" => env = own /\ plan.record = Telemetry!Planned(own)
    /\ stage = "settings" =>
         IF plan.kind = "uninstall" THEN plan.env = own
         ELSE plan.kind # "replace" /\ plan.env = Ours /\ (OnRecord(own) \/ ~Home(own))
    /\ stage = "clear" => env = own /\ plan.kind = "uninstall"

\* Once it replaced them nothing brings them back.
GivenUp ==
  /\ plan.kind = "replace" /\ stage = "settings" => plan.env = Ours
  /\ plan.kind = "replace" /\ stage = "clear" => env = Ours
  /\ claim = "replaced" =>
       /\ record = None /\ env \in {Ours, Telemetry!NoEnv} /\ stage # "record"
       /\ stage = "settings" => plan.env \in {Ours, Telemetry!NoEnv}

Planning ==
  /\ stage = "record" => plan.kind = "forward" /\ plan.env = Ours /\ plan.record \in Telemetry!Record
                         /\ plan.record = Telemetry!Planned(plan.record.original)
  /\ record # None => record = Telemetry!Planned(record.original)
  /\ restored => stage = "idle" /\ (claim = "kept" => env = own)

\* The daemon sees the record there is; what it keeps of one is so as long as the stamp is.
Followed ==
  /\ due \in [Batches -> Collectors \cup {None}]
  /\ record = None <=> passing.stamp = 0
  /\ passing.target = (IF record = None THEN None ELSE Telemetry!TargetOf(record))
  /\ passing.stamp <= writes
  /\ cache.loaded => cache.stamp \in 1..writes /\ (cache.stamp = passing.stamp => cache.target = passing.target)

Routed(b) ==
  /\ IsFiniteSet(held[b])
  /\ handler[b] = "load" => info[b] \in 1..writes /\ passing.target \in held[b]
  /\ handler[b] \in {"push", "drop", "done"} => target[b] \in held[b]
  /\ due[b] # None => handler[b] # "new" /\ due[b] \in held[b]

\* The queue is the end of what it accepted, each batch once; the rest was taken or dropped.
EndOf(s, q) == Len(q) <= Len(s) /\ \A i \in 1..Len(q) : q[i] = s[Len(s) - Len(q) + i]
Apart(s) == \A i, j \in 1..Len(s) : s[i] = s[j] => i = j
Holds(s, e) == \E i \in 1..Len(s) : s[i] = e
Firsts(s, n) == {s[i] : i \in 1..n}
Before(s, q) == Firsts(s, Len(s) - Len(q))
Queued ==
  /\ EndOf(accepted, queue) /\ Apart(accepted)
  /\ \A b \in Batches : Holds(accepted, b) => handler[b] = "done"
  /\ Before(accepted, queue) = sent \cup dropped \cup ({sending} \ {None})
  /\ dropped \cap (sent \cup {sending}) = {}

CommandInv == Telemetry!TypeOK /\ Claimed /\ GivenUp /\ Planning
RelayRest == Telemetry!RelayTypeOK /\ Followed /\ Queued /\ \A b \in Batches : Routed(b)
RelayInv == CommandInv /\ RelayRest

LEMMA KeysHeld ==
  /\ Telemetry!Base \in Telemetry!Keys
  /\ \A s \in Signals : Telemetry!Exporter(s) \in Telemetry!Keys /\ Telemetry!Endpoint(s) \in Telemetry!Keys
                        /\ Telemetry!Exporter(s)[1] = "exporter" /\ Telemetry!Exporter(s)[2] = s
                        /\ Telemetry!Endpoint(s)[1] = "endpoint" /\ Telemetry!Endpoint(s)[2] = s
BY DEF Telemetry!Base, Telemetry!Headers, Telemetry!Exporter, Telemetry!Endpoint, Telemetry!Keys

LEMMA OursIs ==
  /\ Ours \in Telemetry!Env /\ Telemetry!NoEnv \in Telemetry!Env
  /\ \A k \in Telemetry!Keys : Telemetry!NoEnv[k] = None
  /\ \A k \in Telemetry!Keys : Ours[k] \in {None, "otlp", Addr}
  /\ \A s \in Signals : Telemetry!DestOf(Ours, s) = Addr /\ Telemetry!DestOf(Telemetry!NoEnv, s) = None
<1>1. Ours \in Telemetry!Env /\ Telemetry!NoEnv \in Telemetry!Env
  BY DEF Ours, Telemetry!Ours, Telemetry!NoEnv, Telemetry!Env, Telemetry!Values
<1>2. \A k \in Telemetry!Keys : Ours[k] \in {None, "otlp", Addr} /\ Telemetry!NoEnv[k] = None
  BY DEF Ours, Telemetry!Ours, Telemetry!NoEnv
<1>3. ASSUME NEW s \in Signals
      PROVE  Telemetry!DestOf(Ours, s) = Addr /\ Telemetry!DestOf(Telemetry!NoEnv, s) = None
  <2>1. /\ Ours[Telemetry!Exporter(s)] = "otlp" /\ Ours[Telemetry!Endpoint(s)] = Addr
        /\ Telemetry!NoEnv[Telemetry!Exporter(s)] = None
    BY KeysHeld DEF Ours, Telemetry!Ours, Telemetry!NoEnv
  <2> QED
    BY <2>1, NoneAssumption DEF Telemetry!DestOf
<1> QED
  BY <1>1, <1>2, <1>3

LEMMA DestHeld ==
  ASSUME NEW e \in Telemetry!Env, NEW s \in Signals
  PROVE  Telemetry!DestOf(e, s) \in Telemetry!Values
BY KeysHeld DEF Telemetry!DestOf, Telemetry!Env, Telemetry!Values

LEMMA PlannedIs ==
  ASSUME NEW e \in Telemetry!Env
  PROVE  /\ Telemetry!Planned(e) \in Telemetry!Record /\ Telemetry!Planned(e).original = e
         /\ \A s \in Signals : Telemetry!Planned(e).targets[s] = Telemetry!DestOf(e, s)
BY DestHeld DEF Telemetry!Planned, Telemetry!Record

\* Without a foreign key there is no collector.
LEMMA ForeignHome ==
  ASSUME NEW e \in Telemetry!Env, Telemetry!Foreign(e) = {}
  PROVE  ~Home(e)
<1>1. \A k \in Telemetry!Keys : e[k] = None \/ e[k] = Ours[k]
  BY DEF Telemetry!Foreign, Ours
<1>2. \A k \in Telemetry!Keys : e[k] \in {None, "otlp", Addr}
  BY <1>1, OursIs
<1>3. ASSUME NEW s \in Signals
      PROVE  Telemetry!DestOf(e, s) \notin Collectors
  <2>1. CASE e[Telemetry!Exporter(s)] # "otlp"
    BY <2>1, NoneAssumption DEF Telemetry!DestOf
  <2>2. CASE e[Telemetry!Exporter(s)] = "otlp"
    <3>1. e[Telemetry!Endpoint(s)] \in {None, Addr}
      <4>1. e[Telemetry!Endpoint(s)] = None \/ e[Telemetry!Endpoint(s)] = Ours[Telemetry!Endpoint(s)]
        BY <1>1, KeysHeld
      <4>2. Ours[Telemetry!Endpoint(s)] = Addr
        BY KeysHeld DEF Ours, Telemetry!Ours
      <4> QED
        BY <4>1, <4>2
    <3>2. e[Telemetry!Base] \in {None, Addr}
      <4>1. e[Telemetry!Base] = None \/ e[Telemetry!Base] = Ours[Telemetry!Base]
        BY <1>1, KeysHeld
      <4>2. Ours[Telemetry!Base] \in {None, Addr}
        BY KeysHeld DEF Ours, Telemetry!Ours, Telemetry!Base
      <4> QED
        BY <4>1, <4>2
    <3> QED
      BY <2>2, <3>1, <3>2, NoneAssumption, TelemetryAssumption DEF Telemetry!DestOf
  <2> QED
    BY <2>1, <2>2
<1> QED
  BY <1>3 DEF Home

LEMMA OursForeign == Telemetry!Foreign(Ours) = {} /\ Telemetry!Foreign(Telemetry!NoEnv) = {}
BY OursIs DEF Telemetry!Foreign, Ours

LEMMA RestoredTyped ==
  ASSUME NEW e \in Telemetry!Env, record # None => record \in Telemetry!Record
  PROVE  Telemetry!Restored(e) \in Telemetry!Env
<1>1. \A k \in Telemetry!Keys : Telemetry!WithoutOurs(e)[k] \in Telemetry!Values
  BY DEF Telemetry!WithoutOurs, Telemetry!Env, Telemetry!Values
<1>2. record # None => \A k \in Telemetry!Keys : record.original[k] \in Telemetry!Values
  BY DEF Telemetry!Record, Telemetry!Env
<1> QED
  BY <1>1, <1>2 DEF Telemetry!Restored, Telemetry!Env

\* An uninstall that has the record brings the user's block back.
LEMMA RestoredOwn ==
  ASSUME own \in Telemetry!Env, OnRecord(own), env \in {own, Ours}
  PROVE  Telemetry!Restored(env) = own
<1>1. \A k \in Telemetry!Keys : (IF Telemetry!WithoutOurs(env)[k] = None THEN own[k] ELSE Telemetry!WithoutOurs(env)[k]) = own[k]
  BY DEF Telemetry!WithoutOurs, Ours
<1>2. record # None /\ record.original = own
  BY DEF OnRecord
<1>3. Telemetry!Restored(env) = [k \in Telemetry!Keys |-> own[k]]
  BY <1>1, <1>2 DEF Telemetry!Restored
<1>4. own = [k \in Telemetry!Keys |-> own[k]]
  BY DEF Telemetry!Env
<1> QED
  BY <1>3, <1>4

LEMMA RestoredNone ==
  ASSUME record = None, env \in {Ours, Telemetry!NoEnv}
  PROVE  Telemetry!Restored(env) = Telemetry!NoEnv
<1>1. \A k \in Telemetry!Keys : Telemetry!WithoutOurs(env)[k] = None
  BY OursIs DEF Telemetry!WithoutOurs, Ours
<1> QED
  BY <1>1 DEF Telemetry!Restored, Telemetry!NoEnv

\* The commands.
LEMMA UserSteps == ASSUME CommandInv, Telemetry!User PROVE CommandInv'
<1>1. PICK e \in UserEnvs : Telemetry!Edit(e)
  BY DEF Telemetry!User
<1>2. /\ stage = "idle" /\ stage' = "idle" /\ edits < MaxEdits /\ env' = e /\ own' = e /\ claim' = "kept" /\ restored' = FALSE
      /\ edits' = edits + 1 /\ record' = record /\ plan' = plan /\ e \in Telemetry!Env
  BY <1>1, TelemetryAssumption DEF Telemetry!Edit
<1>3. Telemetry!TypeOK'
  <2>1. edits' \in 0..MaxEdits
    BY <1>2, TelemetryAssumption DEF CommandInv, Telemetry!TypeOK
  <2> QED
    BY <1>2, <2>1 DEF CommandInv, Telemetry!TypeOK
<1> QED
  BY <1>2, <1>3 DEF CommandInv, Claimed, GivenUp, Planning

\* A command that starts; refused ones do not.
LEMMA Proceeds ==
  ASSUME CommandInv, NEW kind \in Telemetry!Kinds, NEW e \in Telemetry!Env, NEW r, NEW first \in {"record", "settings", "clear"},
         stage = "idle", Telemetry!Proceed(kind, e, r, first), claim' \in {"kept", "replaced", "released"},
         r = None \/ r \in Telemetry!Record
  PROVE  /\ Telemetry!TypeOK' /\ plan'.env = e /\ plan'.record = r /\ plan'.kind = kind /\ stage' = first
         /\ UNCHANGED <<env, record, own, edits>> /\ restored' = FALSE
<1>1. /\ plan' = [env |-> e, record |-> r, kind |-> kind] /\ stage' = first /\ restored' = FALSE
      /\ UNCHANGED <<env, record, own, edits>>
  BY DEF Telemetry!Proceed, Telemetry!files
<1>2. plan'.env = e /\ plan'.record = r /\ plan'.kind = kind
  BY <1>1
<1> QED
  BY <1>1, <1>2 DEF CommandInv, Telemetry!TypeOK

LEMMA InstallSteps ==
  ASSUME CommandInv, Telemetry!InstallPlain \/ Telemetry!InstallForward \/ Telemetry!InstallReplace
  PROVE  CommandInv'
<1>0. /\ env \in Telemetry!Env /\ own \in Telemetry!Env /\ claim \in {"kept", "replaced", "released"} /\ stage = "idle"
      /\ Ours \in Telemetry!Env
  BY OursIs DEF CommandInv, Telemetry!TypeOK, Telemetry!InstallPlain, Telemetry!InstallForward, Telemetry!InstallReplace
<1>1. CASE \/ Telemetry!InstallPlain
           \/ Telemetry!InstallForward /\ Telemetry!Foreign(env) = {}
  <2>1. PICK kind \in {"plain", "forward"} : Telemetry!Proceed(kind, Ours, None, "settings")
    BY <1>1 DEF Telemetry!InstallPlain, Telemetry!InstallForward, Ours
  <2>2. claim' = claim /\ Telemetry!Foreign(env) = {} /\ env # Ours
    BY <1>1 DEF Telemetry!InstallPlain, Telemetry!InstallForward, Ours
  <2>3. kind \in Telemetry!Kinds
    BY <2>1 DEF Telemetry!Kinds
  <2>4. /\ Telemetry!TypeOK' /\ plan'.env = Ours /\ plan'.record = None /\ plan'.kind = kind /\ stage' = "settings"
        /\ UNCHANGED <<env, record, own, edits>> /\ restored' = FALSE
    BY <1>0, <2>1, <2>2, <2>3, Proceeds
  <2>5. ~Home(env)
    BY <1>0, <2>2, ForeignHome
  <2>6. Claimed'
    <3> SUFFICES ASSUME claim' = "kept" PROVE Claimed'
      BY DEF Claimed
    <3>1. env = own
      BY <2>2 DEF CommandInv, Claimed
    <3>2. env' = own' /\ ~Home(own')
      BY <2>4, <2>5, <3>1
    <3>3. (stage' = "settings" => plan'.kind \notin {"uninstall", "replace"} /\ plan'.env = Ours) /\ stage' \notin {"record", "clear"}
      BY <2>1, <2>4
    <3> QED
      BY <3>2, <3>3 DEF Claimed
  <2>7. GivenUp'
    BY <2>1, <2>2, <2>4 DEF CommandInv, GivenUp
  <2>8. Planning'
    BY <2>4 DEF CommandInv, Planning
  <2> QED
    BY <2>4, <2>6, <2>7, <2>8 DEF CommandInv
<1>2. CASE Telemetry!InstallForward /\ Telemetry!Foreign(env) # {}
  <2>1. Telemetry!Proceed("forward", Ours, Telemetry!Planned(env), "record") /\ claim' = claim
    BY <1>2 DEF Telemetry!InstallForward, Ours
  <2>2. Telemetry!Planned(env) \in Telemetry!Record /\ Telemetry!Planned(env).original = env
    BY <1>0, PlannedIs
  <2>3. /\ Telemetry!TypeOK' /\ plan'.env = Ours /\ plan'.record = Telemetry!Planned(env) /\ plan'.kind = "forward" /\ stage' = "record"
        /\ UNCHANGED <<env, record, own, edits>> /\ restored' = FALSE
    BY <1>0, <2>1, <2>2, Proceeds DEF Telemetry!Kinds
  <2>4. env # Ours /\ env # Telemetry!NoEnv
    BY <1>2, OursForeign
  <2>5. claim # "replaced"
    BY <2>4 DEF CommandInv, GivenUp
  <2>6. claim = "kept" => env = own
    BY <2>4 DEF CommandInv, Claimed
  <2>7. Claimed'
    BY <2>1, <2>3, <2>6 DEF Claimed
  <2>8. GivenUp'
    BY <2>1, <2>3, <2>5 DEF GivenUp
  <2>9. Planning'
    BY <2>2, <2>3 DEF CommandInv, Planning
  <2> QED
    BY <2>3, <2>7, <2>8, <2>9 DEF CommandInv
<1>3. CASE Telemetry!InstallReplace
  <2>1. PICK first \in {"settings", "clear"} : Telemetry!Proceed("replace", Ours, None, first) /\ (first = "clear" => env = Ours)
    BY <1>3 DEF Telemetry!InstallReplace, Ours
  <2>2. claim' = "released"
    BY <1>3 DEF Telemetry!InstallReplace
  <2>3. /\ Telemetry!TypeOK' /\ plan'.env = Ours /\ plan'.record = None /\ plan'.kind = "replace" /\ stage' = first
        /\ UNCHANGED <<env, record, own, edits>> /\ restored' = FALSE
    BY <1>0, <2>1, <2>2, Proceeds DEF Telemetry!Kinds
  <2> QED
    BY <2>1, <2>2, <2>3 DEF CommandInv, Claimed, GivenUp, Planning
<1> QED
  BY <1>1, <1>2, <1>3

LEMMA UninstallSteps == ASSUME CommandInv, Telemetry!Uninstall PROVE CommandInv'
<1>0. /\ env \in Telemetry!Env /\ own \in Telemetry!Env /\ claim \in {"kept", "replaced", "released"} /\ stage = "idle"
      /\ record # None => record \in Telemetry!Record
  BY DEF CommandInv, Telemetry!TypeOK, Telemetry!Uninstall
<1>1. PICK e : e = Telemetry!Restored(env)
  OBVIOUS
<1>2. e \in Telemetry!Env
  BY <1>0, <1>1, RestoredTyped
<1>3. PICK first \in {"settings", "clear"} : Telemetry!Proceed("uninstall", e, None, first) /\ (first = "clear" => e = env)
  BY <1>1 DEF Telemetry!Uninstall
<1>4. claim' = IF claim = "kept" /\ ~OnRecord(own) THEN "released" ELSE claim
  BY DEF Telemetry!Uninstall, Telemetry!Recorded, OnRecord
<1>5. /\ Telemetry!TypeOK' /\ plan'.env = e /\ plan'.record = None /\ plan'.kind = "uninstall" /\ stage' = first
      /\ UNCHANGED <<env, record, own, edits>> /\ restored' = FALSE
  BY <1>0, <1>2, <1>3, <1>4, Proceeds DEF Telemetry!Kinds
<1>6. Claimed'
  <2> SUFFICES ASSUME claim' = "kept" PROVE Claimed'
    BY DEF Claimed
  <2>1. claim = "kept" /\ OnRecord(own) /\ env \in {own, Ours}
    BY <1>4 DEF CommandInv, Claimed
  <2>2. e = own
    BY <1>0, <1>1, <2>1, RestoredOwn
  <2>3. OnRecord(own)' /\ env' = env /\ own' = own /\ plan'.env = own
    BY <1>5, <2>1, <2>2 DEF OnRecord
  <2> QED
    BY <1>3, <1>5, <2>1, <2>2, <2>3 DEF Claimed
<1>7. GivenUp'
  <2>1. claim' = "replaced" => claim = "replaced"
    BY <1>4
  <2>2. claim = "replaced" => e = Telemetry!NoEnv
    BY <1>1, RestoredNone DEF CommandInv, GivenUp
  <2> QED
    BY <1>3, <1>5, <2>1, <2>2 DEF CommandInv, GivenUp
<1>8. Planning'
  BY <1>3, <1>5 DEF CommandInv, Planning
<1> QED
  BY <1>5, <1>6, <1>7, <1>8 DEF CommandInv

LEMMA SaveSteps == ASSUME CommandInv, Telemetry!SaveRecord PROVE CommandInv' /\ record' = plan.record /\ record' \in Telemetry!Record
<1>1. /\ stage = "record" /\ record' = plan.record /\ stage' = "settings" /\ UNCHANGED <<env, plan, own, claim, restored, edits>>
  BY DEF Telemetry!SaveRecord
<1>2. /\ plan.record \in Telemetry!Record /\ plan.record # None /\ plan.record = Telemetry!Planned(plan.record.original)
      /\ plan.kind = "forward" /\ plan.env = Ours
  BY <1>1, NoneAssumption DEF CommandInv, Planning
<1>3. Telemetry!TypeOK'
  BY <1>1, <1>2 DEF CommandInv, Telemetry!TypeOK
<1>4. Claimed'
  <2> SUFFICES ASSUME claim' = "kept" PROVE Claimed'
    BY DEF Claimed
  <2>1. env = own /\ plan.record = Telemetry!Planned(own) /\ own \in Telemetry!Env
    BY <1>1 DEF CommandInv, Claimed, Telemetry!TypeOK
  <2>2. record'.original = own /\ record' # None
    BY <1>1, <1>2, <2>1, PlannedIs
  <2> QED
    BY <1>1, <1>2, <2>1, <2>2 DEF Claimed, OnRecord
<1>5. GivenUp'
  BY <1>1, <1>2 DEF CommandInv, GivenUp
<1>6. Planning'
  BY <1>1, <1>2 DEF CommandInv, Planning
<1> QED
  BY <1>1, <1>2, <1>3, <1>4, <1>5, <1>6 DEF CommandInv

LEMMA WriteSteps == ASSUME CommandInv, Telemetry!WriteSettings PROVE CommandInv'
<1>1. /\ stage = "settings" /\ env' = plan.env /\ UNCHANGED <<record, own, claim, restored, edits>>
      /\ \/ plan.kind \in {"replace", "uninstall"} /\ stage' = "clear" /\ plan' = plan
         \/ plan.kind \notin {"replace", "uninstall"} /\ stage' = "idle" /\ plan' = Telemetry!NoPlan
  BY DEF Telemetry!WriteSettings
<1>2. /\ Telemetry!NoPlan.env \in Telemetry!Env /\ Telemetry!NoPlan.kind = "plain" /\ Telemetry!NoPlan.record = None
      /\ Telemetry!NoPlan.kind \in Telemetry!Kinds
  BY OursIs DEF Telemetry!NoPlan, Telemetry!Kinds
<1>3. Telemetry!TypeOK'
  BY <1>1, <1>2 DEF CommandInv, Telemetry!TypeOK
<1>4. Claimed'
  <2>1. OnRecord(own)' <=> OnRecord(own)
    BY <1>1 DEF OnRecord
  <2>2. Home(own)' <=> Home(own)
    BY <1>1
  <2> QED
    BY <1>1, <1>2, <2>1, <2>2 DEF CommandInv, Claimed
<1>5. GivenUp'
  BY <1>1, <1>2 DEF CommandInv, GivenUp
<1>6. Planning'
  BY <1>1 DEF CommandInv, Planning
<1> QED
  BY <1>3, <1>4, <1>5, <1>6 DEF CommandInv

LEMMA ClearSteps == ASSUME CommandInv, Telemetry!ClearRecord PROVE CommandInv'
<1>1. /\ stage = "clear" /\ record' = None /\ stage' = "idle" /\ plan' = Telemetry!NoPlan
      /\ claim' = (IF plan.kind = "replace" THEN "replaced" ELSE claim) /\ restored' = (plan.kind = "uninstall")
      /\ UNCHANGED <<env, own, edits>>
  BY DEF Telemetry!ClearRecord
<1>2. /\ Telemetry!NoPlan.env \in Telemetry!Env /\ Telemetry!NoPlan.kind = "plain" /\ Telemetry!NoPlan.record = None
      /\ Telemetry!NoPlan.kind \in Telemetry!Kinds
  BY OursIs DEF Telemetry!NoPlan, Telemetry!Kinds
<1>3. claim' = "kept" => env = own
  BY <1>1 DEF CommandInv, Claimed
<1>4. Telemetry!TypeOK'
  BY <1>1, <1>2 DEF CommandInv, Telemetry!TypeOK
<1>5. Claimed'
  BY <1>1, <1>3 DEF Claimed
<1>6. GivenUp'
  BY <1>1, <1>2 DEF CommandInv, GivenUp
<1>7. Planning'
  BY <1>1, <1>3 DEF CommandInv, Planning
<1> QED
  BY <1>4, <1>5, <1>6, <1>7 DEF CommandInv

LEMMA AbortSteps == ASSUME CommandInv, Telemetry!Abort PROVE CommandInv'
<1>1. stage # "idle" /\ stage' = "idle" /\ plan' = Telemetry!NoPlan /\ UNCHANGED <<env, record, own, claim, restored, edits>>
  BY DEF Telemetry!Abort, Telemetry!files
<1>2. /\ Telemetry!NoPlan.env \in Telemetry!Env /\ Telemetry!NoPlan.kind = "plain" /\ Telemetry!NoPlan.record = None
      /\ Telemetry!NoPlan.kind \in Telemetry!Kinds
  BY OursIs DEF Telemetry!NoPlan, Telemetry!Kinds
<1>3. Telemetry!TypeOK'
  BY <1>1, <1>2 DEF CommandInv, Telemetry!TypeOK
<1>4. Claimed'
  <2>1. (OnRecord(own)' <=> OnRecord(own)) /\ (Home(own)' <=> Home(own))
    BY <1>1 DEF OnRecord
  <2> QED
    BY <1>1, <2>1 DEF CommandInv, Claimed
<1> QED
  BY <1>1, <1>2, <1>3, <1>4 DEF CommandInv, GivenUp, Planning

\* The daemon: the record that it reads.
LEMMA RelayStays ==
  ASSUME RelayRest, UNCHANGED <<record, passing, writes, cache, handler, info, target, held, queue, sending, stopped, accepted,
                                sent, dropped, due>>
  PROVE  RelayRest'
<1>1. Telemetry!RelayTypeOK'
  BY Zenon DEF RelayRest, Telemetry!RelayTypeOK
<1>2. Followed'
  BY Zenon DEF RelayRest, Followed, Telemetry!TargetOf, Telemetry!Relayable
<1>3. Queued'
  BY Zenon DEF RelayRest, Queued
<1>4. \A b \in Batches : Routed(b)'
  BY Zenon DEF RelayRest, Routed
<1> QED
  BY <1>1, <1>2, <1>3, <1>4 DEF RelayRest

\* What the commands write or remove.
LEMMA Rewrites ==
  ASSUME RelayRest, NEW t \in Collectors \cup {None}, NEW n \in {0, writes + 1}, writes < MaxWrites, writes' = writes + 1,
         passing' = [target |-> t, stamp |-> n], held' = Telemetry!Hold,
         UNCHANGED <<cache, handler, info, target, queue, accepted, dropped, sending, stopped, sent, due>>,
         record' = None <=> n = 0, t = (IF record' = None THEN None ELSE Telemetry!TargetOf(record'))
  PROVE  RelayRest'
<1>0. /\ writes \in 0..MaxWrites /\ MaxWrites \in Nat /\ held \in [Batches -> SUBSET (Collectors \cup {None})]
      /\ passing'.target = t /\ passing'.stamp = n
  BY TelemetryAssumption DEF RelayRest, Telemetry!RelayTypeOK, Telemetry!Stamps
<1>1. held' = [b \in Batches |-> IF handler[b] = "load" THEN held[b] \cup {t} ELSE held[b]]
  BY <1>0 DEF Telemetry!Hold
<1>2. Telemetry!RelayTypeOK'
  <2>1. held' \in [Batches -> SUBSET (Collectors \cup {None})]
    BY <1>0, <1>1
  <2>2. passing' \in [target : Collectors \cup {None}, stamp : Telemetry!Stamps] /\ writes' \in Telemetry!Stamps
    BY <1>0 DEF Telemetry!Stamps
  <2> QED
    BY <2>1, <2>2, Zenon DEF RelayRest, Telemetry!RelayTypeOK
<1>3. Followed'
  <2>1. cache.loaded => cache.stamp \in 1..writes
    BY DEF RelayRest, Followed
  <2>2. (cache'.loaded => cache'.stamp \in 1..writes' /\ cache'.stamp # n) /\ n <= writes'
    BY <1>0, <2>1
  <2>3. passing'.target = (IF record' = None THEN None ELSE Telemetry!TargetOf(record)')
    BY <1>0 DEF Telemetry!TargetOf
  <2>4. due' = due /\ due \in [Batches -> Collectors \cup {None}]
    BY DEF RelayRest, Followed
  <2> QED
    BY <1>0, <2>2, <2>3, <2>4 DEF Followed
<1>4. Queued'
  BY Zenon DEF RelayRest, Queued
<1>5. ASSUME NEW b \in Batches
      PROVE  Routed(b)'
  <2>1. Routed(b) /\ held'[b] \in {held[b], held[b] \cup {t}} /\ (handler[b] = "load" => t \in held'[b])
    BY <1>1 DEF RelayRest
  <2>2. IsFiniteSet(held'[b])
    BY <2>1, FS_AddElement DEF Routed
  <2>3. handler'[b] = "load" => info'[b] \in 1..writes'
    BY <1>0, <2>1 DEF Routed
  <2> QED
    BY <1>0, <2>1, <2>2, <2>3 DEF Routed
<1> QED
  BY <1>2, <1>3, <1>4, <1>5 DEF RelayRest

LEMMA TargetHeld == \A r \in Telemetry!Record : Telemetry!TargetOf(r) \in Collectors \cup {None}
BY DEF Telemetry!TargetOf, Telemetry!Relayable

LEMMA SavesShared == ASSUME CommandInv, RelayRest, Telemetry!SaveShared PROVE CommandInv' /\ RelayRest'
<1>1. Telemetry!SaveRecord /\ Telemetry!WriteRecord(Telemetry!TargetOf(plan.record)) /\ due' = due
  BY DEF Telemetry!SaveShared
<1>2. CommandInv' /\ record' = plan.record /\ record' \in Telemetry!Record /\ record' # None
  BY <1>1, SaveSteps, NoneAssumption
<1>3. PICK t \in Collectors \cup {None} : t = Telemetry!TargetOf(record')
  BY <1>2, TargetHeld
<1>4. /\ writes < MaxWrites /\ writes' = writes + 1 /\ passing' = [target |-> t, stamp |-> writes + 1]
      /\ held' = Telemetry!Hold
      /\ UNCHANGED <<cache, handler, info, target, queue, accepted, dropped, sending, stopped, sent, due>>
  BY <1>1, <1>2, <1>3 DEF Telemetry!WriteRecord, Telemetry!worker
<1>5. writes + 1 # 0
  BY TelemetryAssumption DEF RelayRest, Telemetry!RelayTypeOK, Telemetry!Stamps
<1> QED
  BY <1>2, <1>3, <1>4, <1>5, Rewrites

LEMMA ClearsShared == ASSUME CommandInv, RelayRest, Telemetry!ClearShared PROVE CommandInv' /\ RelayRest'
<1>1. Telemetry!ClearRecord /\ due' = due /\ CommandInv' /\ record' = None
  BY ClearSteps DEF Telemetry!ClearShared, Telemetry!ClearRecord
<1>2. CASE record = None
  <2>1. UNCHANGED <<record, passing, writes, cache, handler, info, target, held, queue, sending, stopped, accepted, sent, dropped, due>>
    BY <1>1, <1>2 DEF Telemetry!ClearShared, Telemetry!relay
  <2> QED
    BY <1>1, <2>1, RelayStays
<1>3. CASE record # None
  <2>1. /\ writes < MaxWrites /\ writes' = writes + 1 /\ passing' = [target |-> None, stamp |-> 0]
        /\ held' = Telemetry!Hold
        /\ UNCHANGED <<cache, handler, info, target, queue, accepted, dropped, sending, stopped, sent, due>>
    BY <1>1, <1>3 DEF Telemetry!ClearShared, Telemetry!RemoveRecord, Telemetry!worker
  <2> QED
    BY <1>1, <2>1, Rewrites
<1> QED
  BY <1>2, <1>3

\* A look at the record: what it finds was there while it looked.
LEMMA Routes ==
  ASSUME RelayRest, NEW b \in Batches, NEW h \in {"load", "push", "drop", "done"}, handler' = [handler EXCEPT ![b] = h],
         handler[b] # "done",
         UNCHANGED <<record, passing, writes, queue, accepted, dropped, sending, stopped, sent>>,
         info' \in [Batches -> Telemetry!Stamps], target' \in [Batches -> Collectors \cup {None}],
         held' \in [Batches -> SUBSET (Collectors \cup {None})],
         \A c \in Batches \ {b} : info'[c] = info[c] /\ target'[c] = target[c] /\ held'[c] = held[c] /\ due'[c] = due[c],
         cache' \in [target : Collectors \cup {None}, stamp : Telemetry!Stamps, loaded : BOOLEAN],
         cache'.loaded => cache'.stamp \in 1..writes /\ (cache'.stamp = passing.stamp => cache'.target = passing.target),
         due' \in [Batches -> Collectors \cup {None}], Routed(b)'
  PROVE  RelayRest'
<1>1. handler \in [Batches -> {"new", "load", "push", "drop", "done"}]
  BY DEF RelayRest, Telemetry!RelayTypeOK
<1>2. handler' \in [Batches -> {"new", "load", "push", "drop", "done"}] /\ \A c \in Batches \ {b} : handler'[c] = handler[c]
  BY <1>1
<1>3. Telemetry!RelayTypeOK'
  BY <1>2, Zenon DEF RelayRest, Telemetry!RelayTypeOK
<1>4. Followed'
  <2>1. Telemetry!TargetOf(record)' = Telemetry!TargetOf(record)
    BY DEF Telemetry!TargetOf
  <2> QED
    BY <2>1 DEF RelayRest, Followed
<1>5. Queued'
  <2>1. \A c \in Batches : Holds(accepted, c) => handler'[c] = "done"
    BY <1>2, Zenon DEF RelayRest, Queued
  <2> QED
    BY <2>1, Zenon DEF RelayRest, Queued
<1>6. ASSUME NEW c \in Batches
      PROVE  Routed(c)'
  <2>1. CASE c = b
    BY <2>1
  <2>2. CASE c # b
    <3>1. Routed(c) /\ handler'[c] = handler[c] /\ info'[c] = info[c] /\ target'[c] = target[c] /\ held'[c] = held[c] /\ due'[c] = due[c]
      BY <1>2, <2>2 DEF RelayRest
    <3> QED
      BY <3>1, Zenon DEF Routed
  <2> QED
    BY <2>1, <2>2
<1> QED
  BY <1>3, <1>4, <1>5, <1>6 DEF RelayRest

LEMMA CommandMeans == CommandInv => Telemetry!CollectorKept /\ Telemetry!RestoresOriginal
<1> SUFFICES ASSUME CommandInv PROVE Telemetry!CollectorKept /\ Telemetry!RestoresOriginal
  OBVIOUS
<1>1. ASSUME claim = "kept", NEW s \in Signals, Telemetry!DestOf(own, s) \in Collectors
      PROVE  Telemetry!Reaches(s) = Telemetry!DestOf(own, s)
  <2>1. CASE env = own
    BY <1>1, <2>1, TelemetryAssumption DEF Telemetry!Reaches
  <2>2. CASE env # own
    <3>1. env = Ours /\ OnRecord(own) /\ own \in Telemetry!Env
      BY <1>1, <2>2 DEF CommandInv, Claimed, Home, Telemetry!TypeOK
    <3>2. record # None /\ record = Telemetry!Planned(own)
      BY <3>1 DEF OnRecord, CommandInv, Planning
    <3>3. record.targets[s] = Telemetry!DestOf(own, s) /\ Telemetry!DestOf(env, s) = Addr
      BY <3>1, <3>2, PlannedIs, OursIs
    <3> QED
      BY <1>1, <3>2, <3>3 DEF Telemetry!Reaches, Telemetry!Relayable
  <2> QED
    BY <2>1, <2>2
<1>2. ASSUME claim = "replaced", NEW s \in Signals
      PROVE  Telemetry!Reaches(s) \notin Collectors
  <2>1. record = None /\ env \in {Ours, Telemetry!NoEnv}
    BY <1>2 DEF CommandInv, GivenUp
  <2>2. Telemetry!DestOf(env, s) \in {Addr, None}
    BY <2>1, OursIs
  <2> QED
    BY <2>1, <2>2, NoneAssumption DEF Telemetry!Reaches
<1>3. Telemetry!TypeOK /\ Telemetry!RestoresOriginal
  BY DEF CommandInv, Planning, Telemetry!RestoresOriginal
<1> QED
  BY <1>1, <1>2, <1>3 DEF Telemetry!CollectorKept

\* The collector that is meant for a batch is the one of the record.
LEMMA MeantThere ==
  ASSUME CommandInv, Followed
  PROVE  Telemetry!Meant \in Collectors \cup {None} /\ (Telemetry!Meant # None => Telemetry!Meant = passing.target)
<1>1. Telemetry!Meant \in Collectors \cup {None}
  BY DEF Telemetry!Meant
<1>2. ASSUME Telemetry!Meant # None
      PROVE  Telemetry!Meant = passing.target
  <2>1. /\ claim = "kept" /\ Telemetry!DestOf(env, Signal) = Addr /\ Telemetry!DestOf(own, Signal) \in Collectors
        /\ Telemetry!Meant = Telemetry!DestOf(own, Signal)
    BY <1>2 DEF Telemetry!Meant
  <2>2. Telemetry!Reaches(Signal) = Telemetry!DestOf(own, Signal)
    BY <2>1, CommandMeans, TelemetryAssumption DEF Telemetry!CollectorKept
  <2>3. record # None /\ Telemetry!Relayable(record.targets[Signal]) /\ record.targets[Signal] = Telemetry!DestOf(own, Signal)
    BY <2>1, <2>2, NoneAssumption DEF Telemetry!Reaches
  <2> QED
    BY <2>1, <2>3 DEF Followed, Telemetry!TargetOf
<1> QED
  BY <1>1, <1>2

LEMMA RelayTyped ==
  ASSUME RelayRest
  PROVE  /\ passing \in [target : Collectors \cup {None}, stamp : Telemetry!Stamps] /\ writes \in Nat
         /\ cache \in [target : Collectors \cup {None}, stamp : Telemetry!Stamps, loaded : BOOLEAN]
         /\ info \in [Batches -> Telemetry!Stamps] /\ target \in [Batches -> Collectors \cup {None}]
         /\ handler \in [Batches -> {"new", "load", "push", "drop", "done"}]
         /\ held \in [Batches -> SUBSET (Collectors \cup {None})] /\ due \in [Batches -> Collectors \cup {None}]
         /\ passing.stamp \in Nat
BY TelemetryAssumption DEF RelayRest, Followed, Telemetry!RelayTypeOK, Telemetry!Stamps

LEMMA Arrives1 == ASSUME CommandInv, RelayRest, NEW b \in Batches, Telemetry!Arrive(b) PROVE RelayRest'
<1>1. /\ handler[b] = "new" /\ info' = [info EXCEPT ![b] = passing.stamp] /\ held' = [held EXCEPT ![b] = {passing.target}]
      /\ due' = [due EXCEPT ![b] = Telemetry!Meant]
      /\ UNCHANGED <<record, passing, writes, queue, accepted, dropped, sending, stopped, sent>>
      /\ IF passing.stamp = 0
         THEN Telemetry!Choose(b, None) /\ cache' = [cache EXCEPT !.target = None, !.loaded = FALSE]
         ELSE IF cache.loaded /\ cache.stamp = passing.stamp
         THEN Telemetry!Choose(b, cache.target) /\ UNCHANGED cache
         ELSE handler' = [handler EXCEPT ![b] = "load"] /\ UNCHANGED <<target, cache>>
  BY DEF Telemetry!Arrive, Telemetry!StatRecord, Telemetry!disk, Telemetry!worker, Telemetry!vars, Telemetry!files
<1>2. /\ passing \in [target : Collectors \cup {None}, stamp : Telemetry!Stamps] /\ writes \in Nat
      /\ cache \in [target : Collectors \cup {None}, stamp : Telemetry!Stamps, loaded : BOOLEAN]
      /\ info \in [Batches -> Telemetry!Stamps] /\ target \in [Batches -> Collectors \cup {None}]
      /\ handler \in [Batches -> {"new", "load", "push", "drop", "done"}]
      /\ held \in [Batches -> SUBSET (Collectors \cup {None})] /\ due \in [Batches -> Collectors \cup {None}]
      /\ passing.stamp \in Nat
  BY RelayTyped
<1>3. /\ Followed /\ (passing.stamp = 0 => passing.target = None) /\ passing.stamp <= writes
      /\ cache.loaded => cache.stamp \in 1..writes /\ (cache.stamp = passing.stamp => cache.target = passing.target)
  BY DEF RelayRest, Followed
<1>4. PICK m \in Collectors \cup {None} : m = Telemetry!Meant /\ (m # None => m = passing.target)
  BY <1>3, MeantThere
<1>5. /\ info' \in [Batches -> Telemetry!Stamps] /\ held' \in [Batches -> SUBSET (Collectors \cup {None})]
      /\ due' \in [Batches -> Collectors \cup {None}]
      /\ info'[b] = passing.stamp /\ held'[b] = {passing.target} /\ due'[b] = m
      /\ \A c \in Batches \ {b} : info'[c] = info[c] /\ held'[c] = held[c] /\ due'[c] = due[c]
  BY <1>1, <1>2, <1>4
<1>6. IsFiniteSet(held'[b])
  BY <1>5, FS_Singleton
<1>7. ASSUME NEW t \in Collectors \cup {None}, t = passing.target, Telemetry!Choose(b, t),
             cache' \in [target : Collectors \cup {None}, stamp : Telemetry!Stamps, loaded : BOOLEAN],
             cache'.loaded => cache'.stamp \in 1..writes /\ (cache'.stamp = passing.stamp => cache'.target = passing.target)
      PROVE  RelayRest'
  <2>1. PICK h \in {"push", "done"} : handler' = [handler EXCEPT ![b] = h]
    BY <1>7 DEF Telemetry!Choose
  <2>2. target' = [target EXCEPT ![b] = t]
    BY <1>7 DEF Telemetry!Choose
  <2>3. target' \in [Batches -> Collectors \cup {None}] /\ target'[b] = t /\ \A c \in Batches \ {b} : target'[c] = target[c]
    BY <1>2, <2>2
  <2>4. handler'[b] = h
    BY <1>2, <2>1
  <2>5. Routed(b)'
    BY <1>1, <1>4, <1>5, <1>6, <1>7, <2>1, <2>3, <2>4 DEF Routed
  <2> QED
    BY <1>1, <1>5, <1>7, <2>1, <2>3, <2>5, Routes
<1>8. CASE passing.stamp = 0
  <2>1. Telemetry!Choose(b, None) /\ cache' = [cache EXCEPT !.target = None, !.loaded = FALSE]
    BY <1>1, <1>8
  <2>2. cache' \in [target : Collectors \cup {None}, stamp : Telemetry!Stamps, loaded : BOOLEAN] /\ ~cache'.loaded
    BY <1>2, <2>1
  <2> QED
    BY <1>3, <1>7, <1>8, <2>1, <2>2
<1>9. CASE passing.stamp # 0 /\ cache.loaded /\ cache.stamp = passing.stamp
  <2>1. Telemetry!Choose(b, cache.target) /\ cache' = cache
    BY <1>1, <1>9
  <2> QED
    BY <1>2, <1>3, <1>7, <1>9, <2>1
<1>10. CASE passing.stamp # 0 /\ ~(cache.loaded /\ cache.stamp = passing.stamp)
  <2>1. handler' = [handler EXCEPT ![b] = "load"] /\ target' = target /\ cache' = cache
    BY <1>1, <1>10
  <2>2. handler'[b] = "load"
    BY <1>2, <2>1
  <2>3. info'[b] \in 1..writes'
    BY <1>1, <1>2, <1>3, <1>5, <1>10
  <2>4. Routed(b)'
    BY <1>1, <1>4, <1>5, <1>6, <2>2, <2>3 DEF Routed
  <2> QED
    BY <1>1, <1>2, <1>3, <1>5, <2>1, <2>4, Routes
<1> QED
  BY <1>8, <1>9, <1>10

LEMMA LoadsRecord == ASSUME RelayRest, NEW b \in Batches, Telemetry!LoadRecord(b), record' = record, due' = due PROVE RelayRest'
<1>1. /\ handler[b] = "load" /\ cache' = [target |-> passing.target, stamp |-> info[b], loaded |-> TRUE]
      /\ target' = [target EXCEPT ![b] = passing.target]
      /\ UNCHANGED <<passing, writes, info, held, queue, accepted, dropped, sending, stopped, sent>>
  BY DEF Telemetry!LoadRecord, Telemetry!Choose, Telemetry!disk, Telemetry!worker
<1>2. PICK h \in {"push", "done"} : handler' = [handler EXCEPT ![b] = h]
  BY DEF Telemetry!LoadRecord, Telemetry!Choose
<1>3. /\ passing \in [target : Collectors \cup {None}, stamp : Telemetry!Stamps] /\ writes \in Nat
      /\ info \in [Batches -> Telemetry!Stamps] /\ target \in [Batches -> Collectors \cup {None}]
      /\ handler \in [Batches -> {"new", "load", "push", "drop", "done"}]
      /\ held \in [Batches -> SUBSET (Collectors \cup {None})] /\ due \in [Batches -> Collectors \cup {None}]
  BY RelayTyped
<1>4. Routed(b)
  BY DEF RelayRest
<1>5. info[b] \in 1..writes /\ passing.target \in held[b] /\ IsFiniteSet(held[b]) /\ (due[b] # None => due[b] \in held[b])
  BY <1>1, <1>4 DEF Routed
<1>6. /\ cache' \in [target : Collectors \cup {None}, stamp : Telemetry!Stamps, loaded : BOOLEAN]
      /\ cache'.stamp \in 1..writes /\ cache'.target = passing.target
  BY <1>1, <1>3, <1>5
<1>7. /\ target' \in [Batches -> Collectors \cup {None}] /\ target'[b] = passing.target
      /\ handler'[b] = h /\ \A c \in Batches \ {b} : target'[c] = target[c]
  BY <1>1, <1>2, <1>3
<1>8. Routed(b)'
  BY <1>1, <1>2, <1>5, <1>7 DEF Routed
<1> QED
  BY <1>1, <1>2, <1>3, <1>6, <1>7, <1>8, Routes

LEMMA SameFirsts == \A f, g, n : (\A i \in 1..n : f[i] = g[i]) => Firsts(f, n) = Firsts(g, n)
BY DEF Firsts

\* Taking the head of a queue that is the end of s.
LEMMA Shrinks ==
  ASSUME NEW S, NEW s \in Seq(S), NEW q \in Seq(S), q # <<>>, EndOf(s, q), Apart(s)
  PROVE  /\ Tail(q) \in Seq(S) /\ Len(Tail(q)) < Len(q) /\ Head(q) \in S
         /\ EndOf(s, Tail(q)) /\ Before(s, Tail(q)) = Before(s, q) \cup {Head(q)} /\ Head(q) \notin Before(s, q)
<1>1. /\ Len(q) \in Nat \ {0} /\ Len(s) \in Nat /\ Tail(q) \in Seq(S) /\ Len(Tail(q)) = Len(q) - 1
      /\ \A i \in 1..Len(Tail(q)) : Tail(q)[i] = q[i + 1]
  BY HeadTailProperties, EmptySeq
<1>2. Head(q) = q[1]
  OBVIOUS
<1>3. PICK n \in Nat : n = Len(s) - Len(q) /\ n < Len(s)
  <2>1. \A k, l \in Nat : k <= l /\ k # 0 => l - k \in Nat /\ l - k < l
    OBVIOUS
  <2>2. Len(s) - Len(q) \in Nat /\ Len(s) - Len(q) < Len(s)
    BY <1>1, <2>1 DEF EndOf
  <2> QED
    BY <2>2, Zenon
<1>4. Head(q) = s[n + 1] /\ Head(q) \in S
  BY <1>1, <1>2, <1>3 DEF EndOf
<1>5. Len(s) - Len(Tail(q)) = n + 1
  BY <1>1, <1>3
<1>6. EndOf(s, Tail(q))
  <2>1. ASSUME NEW i \in 1..Len(Tail(q))
        PROVE  Tail(q)[i] = s[Len(s) - Len(Tail(q)) + i]
    <3>1. Tail(q)[i] = q[i + 1] /\ i + 1 \in 1..Len(q) /\ Len(s) - Len(q) + (i + 1) = Len(s) - Len(Tail(q)) + i
      BY <1>1
    <3> QED
      BY <3>1 DEF EndOf
  <2>2. Len(Tail(q)) <= Len(s)
    BY <1>1 DEF EndOf
  <2> QED
    BY <2>1, <2>2, Zenon DEF EndOf
<1>7. Firsts(s, n + 1) = Firsts(s, n) \cup {s[n + 1]}
  <2>1. \A i : i \in 1..(n + 1) <=> i \in 1..n \/ i = n + 1
    BY <1>3
  <2> QED
    BY <2>1, Zenon DEF Firsts
<1>8. s[n + 1] \notin Firsts(s, n)
  <2>1. ASSUME NEW i \in 1..n
        PROVE  s[n + 1] # s[i]
    <3>1. n + 1 \in 1..Len(s) /\ i \in 1..Len(s) /\ i # n + 1
      BY <1>1, <1>3
    <3> QED
      BY <3>1 DEF Apart
  <2> QED
    BY <2>1, Zenon DEF Firsts
<1> QED
  BY <1>1, <1>3, <1>4, <1>5, <1>6, <1>7, <1>8 DEF Before

\* A batch that s does not hold joins both.
LEMMA Grows ==
  ASSUME NEW S, NEW s \in Seq(S), NEW q \in Seq(S), NEW e \in S, EndOf(s, q), Apart(s), ~Holds(s, e)
  PROVE  /\ Append(s, e) \in Seq(S) /\ Append(q, e) \in Seq(S) /\ Len(Append(q, e)) = Len(q) + 1
         /\ EndOf(Append(s, e), Append(q, e)) /\ Apart(Append(s, e))
         /\ Before(Append(s, e), Append(q, e)) = Before(s, q)
         /\ \A x : Holds(Append(s, e), x) => x = e \/ Holds(s, x)
<1>1. PICK ss \in Seq(S), qq \in Seq(S) : ss = Append(s, e) /\ qq = Append(q, e)
  BY AppendProperties
<1>2. /\ Len(s) \in Nat /\ Len(q) \in Nat /\ Len(ss) = Len(s) + 1 /\ Len(qq) = Len(q) + 1
      /\ \A i \in 1..Len(s) : ss[i] = s[i]
      /\ \A i \in 1..Len(q) : qq[i] = q[i]
      /\ ss[Len(s) + 1] = e /\ qq[Len(q) + 1] = e
  BY <1>1, AppendProperties
<1>3. PICK n \in Nat : n = Len(s) - Len(q) /\ n <= Len(s)
  <2>1. \A k, l \in Nat : k <= l => l - k \in Nat /\ l - k <= l
    OBVIOUS
  <2>2. Len(s) - Len(q) \in Nat /\ Len(s) - Len(q) <= Len(s)
    BY <1>2, <2>1 DEF EndOf
  <2> QED
    BY <2>2, Zenon
<1>4. Len(ss) - Len(qq) = n
  BY <1>2, <1>3
<1>5. ASSUME NEW i \in 1..(Len(q) + 1)
      PROVE  qq[i] = ss[n + i]
  <2>1. CASE i = Len(q) + 1
    BY <1>2, <1>3, <2>1
  <2>2. CASE i # Len(q) + 1
    <3>1. i \in 1..Len(q) /\ n + i \in 1..Len(s)
      BY <1>2, <1>3, <2>2
    <3> QED
      BY <1>2, <1>3, <3>1 DEF EndOf
  <2> QED
    BY <2>1, <2>2
<1>6. \A k \in 1..(Len(s) + 1) : k = Len(s) + 1 \/ k \in 1..Len(s)
  BY <1>2
<1>7. Apart(ss)
  <2>1. ASSUME NEW i \in 1..(Len(s) + 1), NEW j \in 1..(Len(s) + 1), ss[i] = ss[j]
        PROVE  i = j
    <3>1. \A k \in 1..Len(s) : s[k] # e
      BY Zenon DEF Holds
    <3>2. CASE i \in 1..Len(s) /\ j \in 1..Len(s)
      BY <1>2, <2>1, <3>2 DEF Apart
    <3>3. CASE i = Len(s) + 1 \/ j = Len(s) + 1
      BY <1>2, <1>6, <2>1, <3>1, <3>3
    <3> QED
      BY <1>6, <3>2, <3>3
  <2> QED
    BY <1>2, <2>1, Zenon DEF Apart
<1>8. ASSUME NEW x, Holds(ss, x)
      PROVE  x = e \/ Holds(s, x)
  <2>1. PICK i \in 1..(Len(s) + 1) : ss[i] = x
    BY <1>2, <1>8, Zenon DEF Holds
  <2> QED
    BY <1>2, <1>6, <2>1, Zenon DEF Holds
<1>9. Firsts(ss, n) = Firsts(s, n)
  <2>1. \A i \in 1..n : i \in 1..Len(s)
    BY <1>2, <1>3
  <2>2. \A i \in 1..n : ss[i] = s[i]
    BY <1>2, <2>1
  <2> QED
    BY <2>2, SameFirsts
<1>10. EndOf(ss, qq)
  <2>1. Len(qq) <= Len(ss)
    BY <1>2 DEF EndOf
  <2> QED
    BY <1>2, <1>4, <1>5, <2>1, Zenon DEF EndOf
<1> QED
  BY <1>1, <1>2, <1>3, <1>4, <1>7, <1>8, <1>9, <1>10, Zenon DEF Before

\* What the queue and its worker do: only that.
LEMMA QueueKeeps ==
  ASSUME RelayRest, Queued',
         NEW h \in [Batches -> {"new", "load", "push", "drop", "done"}], handler' = h,
         \A c \in Batches : h[c] = handler[c] \/ (handler[c] \in {"push", "drop"} /\ h[c] \in {"push", "drop", "done"}),
         UNCHANGED <<record, passing, writes, cache, info, target, held, due>>,
         queue' \in Seq(Batches), Len(queue') <= Depth, sending' \in Batches \cup {None}, stopped' \in BOOLEAN,
         accepted' \in Seq(Batches), sent' \subseteq Batches, dropped' \subseteq Batches
  PROVE  RelayRest'
<1>1. Telemetry!RelayTypeOK'
  BY Zenon DEF RelayRest, Telemetry!RelayTypeOK
<1>2. Followed'
  <2>1. Telemetry!TargetOf(record)' = Telemetry!TargetOf(record)
    BY DEF Telemetry!TargetOf
  <2> QED
    BY <2>1, Zenon DEF RelayRest, Followed
<1>3. ASSUME NEW c \in Batches
      PROVE  Routed(c)'
  <2>1. Routed(c) /\ UNCHANGED <<info, target, held, due, passing, writes>>
    BY DEF RelayRest
  <2>2. CASE h[c] = handler[c]
    <3>1. handler'[c] = handler[c]
      BY <2>2
    <3> QED
      BY <2>1, <3>1 DEF Routed
  <2>3. CASE handler[c] \in {"push", "drop"} /\ h[c] \in {"push", "drop", "done"}
    <3>1. handler'[c] \in {"push", "drop", "done"} /\ handler[c] \in {"push", "drop"}
      BY <2>3
    <3> QED
      BY <2>1, <3>1 DEF Routed
  <2> QED
    BY <2>2, <2>3
<1> QED
  BY <1>1, <1>2, <1>3 DEF RelayRest

LEMMA QueueTyped ==
  ASSUME RelayRest
  PROVE  /\ queue \in Seq(Batches) /\ Len(queue) <= Depth /\ sending \in Batches \cup {None} /\ stopped \in BOOLEAN
         /\ accepted \in Seq(Batches) /\ sent \subseteq Batches /\ dropped \subseteq Batches
         /\ handler \in [Batches -> {"new", "load", "push", "drop", "done"}]
         /\ Depth \in Nat /\ Len(queue) \in Nat
BY TelemetryAssumption DEF RelayRest, Telemetry!RelayTypeOK

\* Where no batch leaves or joins the queue.
LEMMA QueueStays ==
  ASSUME RelayRest, NEW b \in Batches, NEW k \in {"push", "drop", "done"}, handler[b] \in {"push", "drop"},
         handler' = [handler EXCEPT ![b] = k],
         UNCHANGED <<record, passing, writes, cache, info, target, held, due, queue, accepted, dropped, sending, stopped, sent>>
  PROVE  RelayRest'
<1>1. /\ handler \in [Batches -> {"new", "load", "push", "drop", "done"}] /\ queue \in Seq(Batches) /\ Len(queue) <= Depth
      /\ sending \in Batches \cup {None} /\ stopped \in BOOLEAN
      /\ accepted \in Seq(Batches) /\ sent \subseteq Batches /\ dropped \subseteq Batches
  BY QueueTyped
<1>2. PICK h \in [Batches -> {"new", "load", "push", "drop", "done"}] : h = [handler EXCEPT ![b] = k]
  BY <1>1
<1>3. \A c \in Batches : h[c] = handler[c] \/ (handler[c] \in {"push", "drop"} /\ h[c] \in {"push", "drop", "done"})
  BY <1>1, <1>2
<1>4. \A c \in Batches : Holds(accepted, c) => h[c] = "done"
  BY <1>3 DEF RelayRest, Queued
<1>5. Queued'
  BY <1>2, <1>4, Zenon DEF RelayRest, Queued
<1> QED
  BY <1>1, <1>2, <1>3, <1>5, QueueKeeps

LEMMA Pushes == ASSUME RelayRest, NEW b \in Batches, Telemetry!Push(b), record' = record, due' = due PROVE RelayRest'
<1>1. /\ handler[b] = "push"
      /\ UNCHANGED <<record, passing, writes, cache, info, target, held, due, dropped, sending, stopped, sent>>
  BY DEF Telemetry!Push, Telemetry!disk, Telemetry!worker
<1>2. CASE Len(queue) >= Depth
  <2>1. handler' = [handler EXCEPT ![b] = "drop"] /\ queue' = queue /\ accepted' = accepted
    BY <1>2, QueueTyped DEF Telemetry!Push
  <2> QED
    BY <1>1, <2>1, QueueStays
<1>3. CASE Len(queue) < Depth
  <2>1. /\ queue' = Append(queue, b) /\ accepted' = Append(accepted, b)
        /\ handler' = [handler EXCEPT ![b] = "done"]
    BY <1>3 DEF Telemetry!Push
  <2>2. /\ handler \in [Batches -> {"new", "load", "push", "drop", "done"}] /\ queue \in Seq(Batches) /\ Len(queue) <= Depth
        /\ sending \in Batches \cup {None} /\ stopped \in BOOLEAN
        /\ accepted \in Seq(Batches) /\ sent \subseteq Batches /\ dropped \subseteq Batches /\ Depth \in Nat /\ Len(queue) \in Nat
    BY QueueTyped
  <2>3. Queued /\ ~Holds(accepted, b)
    BY <1>1 DEF RelayRest, Queued
  <2>4. /\ accepted' \in Seq(Batches) /\ queue' \in Seq(Batches) /\ Len(queue') = Len(queue) + 1
        /\ EndOf(accepted', queue') /\ Apart(accepted') /\ Before(accepted', queue') = Before(accepted, queue)
        /\ \A x : Holds(accepted', x) => x = b \/ Holds(accepted, x)
    BY <2>1, <2>2, <2>3, Grows DEF Queued
  <2>5. PICK h \in [Batches -> {"new", "load", "push", "drop", "done"}] : h = [handler EXCEPT ![b] = "done"]
    BY <2>2
  <2>6. h[b] = "done" /\ \A c \in Batches \ {b} : h[c] = handler[c]
    BY <2>2, <2>5
  <2>7. \A c \in Batches : Holds(accepted', c) => h[c] = "done"
    BY <2>3, <2>4, <2>6, Zenon DEF Queued
  <2>8. Queued'
    BY <1>1, <2>1, <2>3, <2>4, <2>5, <2>7, Zenon DEF Queued
  <2>9. Len(queue') <= Depth
    BY <1>3, <2>2, <2>4
  <2>10. \A c \in Batches : h[c] = handler[c] \/ (handler[c] \in {"push", "drop"} /\ h[c] \in {"push", "drop", "done"})
    BY <1>1, <2>6
  <2> QED
    BY <1>1, <2>1, <2>2, <2>4, <2>5, <2>8, <2>9, <2>10, QueueKeeps
<1> QED
  BY <1>2, <1>3, QueueTyped

\* What leaves the queue is its oldest.
LEMMA Leaves ==
  ASSUME RelayRest, queue # <<>>, queue' = Tail(queue), accepted' = accepted,
         \A c \in Batches : Holds(accepted, c) => handler'[c] = "done",
         sent' \cup dropped' \cup ({sending'} \ {None}) = sent \cup dropped \cup ({sending} \ {None}) \cup {Head(queue)},
         dropped' \cap (sent' \cup {sending'}) = {}
  PROVE  Queued' /\ queue' \in Seq(Batches) /\ Len(queue') <= Depth
<1>1. /\ queue \in Seq(Batches) /\ Len(queue) <= Depth /\ Depth \in Nat /\ Len(queue) \in Nat /\ accepted \in Seq(Batches)
  BY QueueTyped
<1>2. Queued /\ EndOf(accepted, queue) /\ Apart(accepted)
  BY DEF RelayRest, Queued
<1>3. /\ queue' \in Seq(Batches) /\ Len(queue') < Len(queue)
      /\ EndOf(accepted, queue') /\ Before(accepted, queue') = Before(accepted, queue) \cup {Head(queue)}
  BY <1>1, <1>2, Shrinks
<1>4. Queued'
  BY <1>2, <1>3, Zenon DEF Queued
<1>5. Len(queue') \in Nat
  BY <1>3
<1> QED
  BY <1>1, <1>3, <1>4, <1>5

LEMMA OldestApart ==
  ASSUME RelayRest, queue # <<>>
  PROVE  Head(queue) \in Batches /\ Head(queue) \notin sent \cup dropped \cup ({sending} \ {None})
<1>1. queue \in Seq(Batches) /\ accepted \in Seq(Batches) /\ Queued /\ EndOf(accepted, queue) /\ Apart(accepted)
  BY QueueTyped DEF RelayRest, Queued
<1>2. Head(queue) \in Batches /\ Head(queue) \notin Before(accepted, queue)
  BY <1>1, Shrinks
<1> QED
  BY <1>1, <1>2, Zenon DEF Queued

LEMMA DropsOldest == ASSUME RelayRest, NEW b \in Batches, Telemetry!DropOldest(b), record' = record, due' = due PROVE RelayRest'
<1>1. /\ handler[b] = "drop" /\ handler' = [handler EXCEPT ![b] = "push"]
      /\ UNCHANGED <<record, passing, writes, cache, info, target, held, due, accepted, sending, stopped, sent>>
  BY DEF Telemetry!DropOldest, Telemetry!disk, Telemetry!worker
<1>2. CASE queue = <<>>
  <2>1. queue' = queue /\ dropped' = dropped
    BY <1>2 DEF Telemetry!DropOldest
  <2> QED
    BY <1>1, <2>1, QueueStays
<1>3. CASE queue # <<>>
  <2>1. dropped' = dropped \cup {Head(queue)} /\ queue' = Tail(queue)
    BY <1>3 DEF Telemetry!DropOldest
  <2>2. /\ handler \in [Batches -> {"new", "load", "push", "drop", "done"}]
        /\ sending \in Batches \cup {None} /\ stopped \in BOOLEAN
        /\ accepted \in Seq(Batches) /\ sent \subseteq Batches /\ dropped \subseteq Batches
    BY QueueTyped
  <2>3. PICK h \in [Batches -> {"new", "load", "push", "drop", "done"}] : h = [handler EXCEPT ![b] = "push"]
    BY <2>2
  <2>4. \A c \in Batches : h[c] = handler[c] \/ (handler[c] \in {"push", "drop"} /\ h[c] \in {"push", "drop", "done"})
    BY <1>1, <2>2, <2>3
  <2>5. \A c \in Batches : Holds(accepted, c) => h[c] = "done"
    BY <2>4 DEF RelayRest, Queued
  <2>6. Head(queue) \in Batches /\ Head(queue) \notin sent \cup dropped \cup ({sending} \ {None})
    BY <1>3, OldestApart
  <2>7. dropped \cap (sent \cup {sending}) = {} /\ Head(queue) # None
    BY <2>6, NoneAssumption DEF RelayRest, Queued
  <2>8. dropped' \cap (sent' \cup {sending'}) = {}
    <3>1. Head(queue) \notin sent \cup {sending}
      BY <2>6, <2>7
    <3> QED
      BY <1>1, <2>1, <2>7, <3>1
  <2>9. sent' \cup dropped' \cup ({sending'} \ {None}) = sent \cup dropped \cup ({sending} \ {None}) \cup {Head(queue)}
    BY <1>1, <2>1
  <2>10. handler' = h
    BY <1>1, <2>3
  <2>11. Queued' /\ queue' \in Seq(Batches) /\ Len(queue') <= Depth
    BY <1>1, <1>3, <2>1, <2>5, <2>8, <2>9, <2>10, Leaves
  <2>12. dropped' \subseteq Batches
    BY <2>1, <2>2, <2>6
  <2> QED
    BY <1>1, <2>2, <2>4, <2>10, <2>11, <2>12, QueueKeeps
<1> QED
  BY <1>2, <1>3

LEMMA Runs == ASSUME RelayRest, Telemetry!Run, record' = record, due' = due PROVE RelayRest'
<1>1. /\ handler \in [Batches -> {"new", "load", "push", "drop", "done"}] /\ queue \in Seq(Batches) /\ Len(queue) <= Depth
      /\ sending \in Batches \cup {None} /\ stopped \in BOOLEAN
      /\ accepted \in Seq(Batches) /\ sent \subseteq Batches /\ dropped \subseteq Batches /\ Queued
  BY QueueTyped DEF RelayRest
<1>2. \A c \in Batches : Holds(accepted, c) => handler[c] = "done"
  BY <1>1 DEF Queued
<1>3. CASE Telemetry!Take
  <2>1. /\ sending = None /\ queue # <<>> /\ sending' = Head(queue) /\ queue' = Tail(queue)
        /\ UNCHANGED <<record, passing, writes, cache, handler, info, target, held, due, accepted, dropped, stopped, sent>>
    BY <1>3 DEF Telemetry!Take, Telemetry!disk, Telemetry!request
  <2>2. Head(queue) \in Batches /\ Head(queue) \notin sent \cup dropped \cup ({sending} \ {None})
    BY <2>1, OldestApart
  <2>3. dropped' \cap (sent' \cup {sending'}) = {}
    BY <1>1, <2>1, <2>2 DEF Queued
  <2>4. sent' \cup dropped' \cup ({sending'} \ {None}) = sent \cup dropped \cup ({sending} \ {None}) \cup {Head(queue)}
    <3>1. Head(queue) # None
      BY <2>2, NoneAssumption
    <3> QED
      BY <2>1, <3>1
  <2>5. Queued' /\ queue' \in Seq(Batches) /\ Len(queue') <= Depth
    BY <1>2, <2>1, <2>3, <2>4, Leaves
  <2> QED
    BY <1>1, <2>1, <2>2, <2>5, QueueKeeps
<1>4. CASE Telemetry!SendEnds
  <2>1. /\ sending # None /\ sent' = sent \cup {sending} /\ sending' = None
        /\ UNCHANGED <<record, passing, writes, cache, handler, info, target, held, due, queue, accepted, dropped, stopped>>
    BY <1>4 DEF Telemetry!SendEnds, Telemetry!disk, Telemetry!request
  <2>2. None \notin dropped
    BY <1>1, NoneAssumption
  <2>3. sent' \cup dropped' \cup ({sending'} \ {None}) = sent \cup dropped \cup ({sending} \ {None})
    BY <2>1
  <2>4. dropped' \cap (sent' \cup {sending'}) = {}
    BY <1>1, <2>1, <2>2 DEF Queued
  <2>5. Queued'
    BY <1>1, <2>1, <2>3, <2>4, Zenon DEF Queued
  <2>6. sent' \subseteq Batches
    BY <1>1, <2>1
  <2> QED
    BY <1>1, <2>1, <2>5, <2>6, QueueKeeps
<1>5. CASE Telemetry!Stop
  <2>1. /\ stopped' = TRUE
        /\ UNCHANGED <<record, passing, writes, cache, handler, info, target, held, due, queue, accepted, dropped, sending, sent>>
    BY <1>5 DEF Telemetry!Stop, Telemetry!disk, Telemetry!request
  <2>2. Queued'
    BY <1>1, <2>1, Zenon DEF Queued
  <2> QED
    BY <1>1, <2>1, <2>2, QueueKeeps
<1> QED
  BY <1>3, <1>4, <1>5 DEF Telemetry!Run

\* What a queue is not the end of has left it, before all that it holds.
LEMMA Split ==
  ASSUME NEW S, NEW s \in Seq(S), NEW q \in Seq(S), EndOf(s, q), Apart(s)
  PROVE  /\ \A x : Holds(s, x) <=> Holds(q, x) \/ x \in Before(s, q)
         /\ \A x \in Before(s, q) : ~Holds(q, x)
         /\ \A x \in Before(s, q) : \A y : Holds(q, y) =>
              (CHOOSE i \in DOMAIN s : s[i] = x) < (CHOOSE i \in DOMAIN s : s[i] = y)
<1>1. Len(s) \in Nat /\ Len(q) \in Nat /\ Len(q) <= Len(s) /\ DOMAIN s = 1..Len(s)
  BY DEF EndOf
<1>2. PICK n \in Nat : n = Len(s) - Len(q) /\ n <= Len(s)
  <2>1. \A k, l \in Nat : k <= l => l - k \in Nat /\ l - k <= l
    OBVIOUS
  <2>2. Len(s) - Len(q) \in Nat /\ Len(s) - Len(q) <= Len(s)
    BY <1>1, <2>1
  <2> QED
    BY <2>2, Zenon
<1>3. \A x : x \in Before(s, q) <=> \E i \in 1..n : s[i] = x
  BY <1>2, Zenon DEF Before, Firsts
<1>4. ASSUME NEW x, Holds(q, x)
      PROVE  \E i \in 1..Len(s) : s[i] = x /\ n < i
  <2>1. PICK i \in 1..Len(q) : q[i] = x
    BY <1>4, Zenon DEF Holds
  <2>2. n + i \in 1..Len(s) /\ n < n + i
    BY <1>1, <1>2
  <2>3. s[n + i] = x
    BY <1>2, <2>1, Zenon DEF EndOf
  <2> QED
    BY <2>2, <2>3, Zenon
<1>5. ASSUME NEW i \in 1..Len(s), n < i
      PROVE  Holds(q, s[i])
  <2>1. i - n \in 1..Len(q) /\ n + (i - n) = i
    BY <1>1, <1>2, <1>5
  <2>2. q[i - n] = s[i]
    BY <1>2, <2>1, Zenon DEF EndOf
  <2> QED
    BY <2>1, <2>2, Zenon DEF Holds
<1>6. \A i \in 1..n : i \in 1..Len(s) /\ ~(n < i)
  BY <1>1, <1>2
<1>7. \A i \in 1..Len(s) : i \in 1..n \/ n < i
  BY <1>1, <1>2
<1>8. \A i \in 1..Len(s) : (CHOOSE j \in DOMAIN s : s[j] = s[i]) = i
  <2>1. ASSUME NEW i \in 1..Len(s)
        PROVE  (CHOOSE j \in DOMAIN s : s[j] = s[i]) = i
    <3>1. \A j \in DOMAIN s : s[j] = s[i] => j = i
      BY <1>1, Zenon DEF Apart
    <3> QED
      BY <1>1, <3>1, Zenon
  <2> QED
    BY <2>1
<1>9. \A x : Holds(s, x) <=> Holds(q, x) \/ x \in Before(s, q)
  BY <1>3, <1>4, <1>5, <1>6, <1>7, Zenon DEF Holds
<1>10. ASSUME NEW x \in Before(s, q), NEW y, Holds(q, y)
       PROVE  x # y /\ (CHOOSE i \in DOMAIN s : s[i] = x) < (CHOOSE i \in DOMAIN s : s[i] = y)
  <2>1. PICK i \in 1..n : s[i] = x
    BY <1>3
  <2>2. PICK j \in 1..Len(s) : s[j] = y /\ n < j
    BY <1>4, <1>10
  <2>3. i < j /\ i \in 1..Len(s)
    BY <1>2, <1>6, <2>1, <2>2
  <2>4. (CHOOSE k \in DOMAIN s : s[k] = x) = i /\ (CHOOSE k \in DOMAIN s : s[k] = y) = j
    BY <1>8, <2>1, <2>2, <2>3, Zenon
  <2>5. (CHOOSE k \in DOMAIN s : s[k] = x) < (CHOOSE k \in DOMAIN s : s[k] = y)
    BY <2>3, <2>4, Zenon
  <2>6. i # j
    BY <2>3
  <2> QED
    BY <2>4, <2>5, <2>6, Zenon
<1> QED
  BY <1>9, <1>10, Zenon

LEMMA RangeHolds == ASSUME NEW S, NEW s \in Seq(S) PROVE \A x : x \in Telemetry!Range(s) <=> Holds(s, x)
<1>1. DOMAIN s = 1..Len(s)
  OBVIOUS
<1> QED
  BY <1>1, Zenon DEF Telemetry!Range, Holds

LEMMA RelayInit == Telemetry!ForwardingInit => RelayInv
<1> SUFFICES ASSUME Telemetry!ForwardingInit PROVE RelayInv
  OBVIOUS
<1>1. Telemetry!Init /\ Telemetry!RelayInit
  BY DEF Telemetry!ForwardingInit
<1>2. CommandInv
  <2>1. /\ env \in Telemetry!Env /\ own = env /\ record = None /\ stage = "idle" /\ plan = Telemetry!NoPlan
        /\ claim = "kept" /\ restored = FALSE /\ edits = 0
    BY <1>1, TelemetryAssumption DEF Telemetry!Init
  <2>2. /\ Telemetry!NoPlan.env \in Telemetry!Env /\ Telemetry!NoPlan.kind = "plain" /\ Telemetry!NoPlan.record = None
    BY DEF Telemetry!NoPlan, Telemetry!NoEnv, Telemetry!Env, Telemetry!Values
  <2>3. Telemetry!TypeOK
    <3>1. edits \in 0..MaxEdits
      BY <2>1, TelemetryAssumption
    <3>2. plan.env \in Telemetry!Env /\ plan.kind \in Telemetry!Kinds /\ plan.record = None
      BY <2>1, <2>2 DEF Telemetry!Kinds
    <3> QED
      BY <2>1, <3>1, <3>2 DEF Telemetry!TypeOK
  <2>4. Claimed /\ GivenUp /\ Planning
    BY <2>1, <2>2 DEF Claimed, GivenUp, Planning
  <2> QED
    BY <2>3, <2>4 DEF CommandInv
<1>3. record = None
  BY <1>1 DEF Telemetry!Init
<1>4. /\ passing = [target |-> None, stamp |-> 0] /\ writes = 0 /\ cache = [target |-> None, stamp |-> 0, loaded |-> FALSE]
      /\ handler = [b \in Batches |-> "new"] /\ info = [b \in Batches |-> 0]
      /\ target = [b \in Batches |-> None] /\ held = [b \in Batches |-> {}]
      /\ queue = <<>> /\ sending = None /\ stopped = FALSE /\ accepted = <<>> /\ sent = {} /\ dropped = {}
      /\ due = [b \in Batches |-> None]
  BY <1>1 DEF Telemetry!RelayInit
<1>5. Telemetry!RelayTypeOK
  <2>1. queue \in Seq(Batches) /\ Len(queue) <= Depth /\ accepted \in Seq(Batches)
    BY <1>4, TelemetryAssumption
  <2>2. /\ passing \in [target : Collectors \cup {None}, stamp : Telemetry!Stamps] /\ writes \in Telemetry!Stamps
        /\ cache \in [target : Collectors \cup {None}, stamp : Telemetry!Stamps, loaded : BOOLEAN]
        /\ info \in [Batches -> Telemetry!Stamps]
    BY <1>4, TelemetryAssumption DEF Telemetry!Stamps
  <2>3. /\ handler \in [Batches -> {"new", "load", "push", "drop", "done"}] /\ target \in [Batches -> Collectors \cup {None}]
        /\ held \in [Batches -> SUBSET (Collectors \cup {None})]
    BY <1>4
  <2>4. sending \in Batches \cup {None} /\ stopped \in BOOLEAN /\ sent \subseteq Batches /\ dropped \subseteq Batches
    BY <1>4
  <2> QED
    BY <2>1, <2>2, <2>3, <2>4, Zenon DEF Telemetry!RelayTypeOK
<1>6. Followed
  BY <1>3, <1>4 DEF Followed
<1>7. Queued
  <2>1. Len(queue) = 0 /\ Len(accepted) = 0
    BY <1>4
  <2>2. EndOf(accepted, queue) /\ Apart(accepted) /\ Before(accepted, queue) = {} /\ \A x : ~Holds(accepted, x)
    BY <2>1 DEF EndOf, Apart, Before, Firsts, Holds
  <2> QED
    BY <1>4, <2>2 DEF Queued
<1>8. \A b \in Batches : Routed(b)
  BY <1>4, FS_EmptySet DEF Routed
<1> QED
  BY <1>2, <1>5, <1>6, <1>7, <1>8 DEF RelayInv, RelayRest

LEMMA RelayStep == RelayInv /\ [Telemetry!ForwardingNext]_(Telemetry!allVars) => RelayInv'
<1> SUFFICES ASSUME RelayInv, [Telemetry!ForwardingNext]_(Telemetry!allVars) PROVE RelayInv'
  OBVIOUS
<1>0. CommandInv /\ RelayRest
  BY DEF RelayInv
<1>1. ASSUME UNCHANGED Telemetry!vars
      PROVE  CommandInv' /\ record' = record
  <2>1. UNCHANGED <<env, record, stage, plan, own, claim, restored, edits>>
    BY <1>1 DEF Telemetry!vars, Telemetry!files
  <2>2. Telemetry!TypeOK'
    BY <1>0, <2>1, Zenon DEF CommandInv, Telemetry!TypeOK
  <2>3. Claimed' /\ GivenUp' /\ Planning'
    BY <1>0, <2>1, Zenon DEF CommandInv, Claimed, GivenUp, Planning, OnRecord, Home
  <2> QED
    BY <2>1, <2>2, <2>3 DEF CommandInv
<1>2. ASSUME UNCHANGED <<Telemetry!relay, due>>, record' = record
      PROVE  RelayRest'
  BY <1>0, <1>2, RelayStays DEF Telemetry!relay
<1>3. CASE UNCHANGED Telemetry!allVars
  BY <1>1, <1>2, <1>3 DEF Telemetry!allVars, RelayInv
<1>4. CASE Telemetry!SaveShared
  BY <1>0, <1>4, SavesShared DEF RelayInv
<1>5. CASE Telemetry!ClearShared
  BY <1>0, <1>5, ClearsShared DEF RelayInv
<1>6. CASE Telemetry!Command
  <2>1. CommandInv'
    BY <1>0, <1>6, UserSteps, InstallSteps, UninstallSteps, WriteSteps, AbortSteps DEF Telemetry!Command
  <2>2. record' = record /\ UNCHANGED <<Telemetry!relay, due>>
    BY <1>6 DEF Telemetry!Command, Telemetry!User, Telemetry!Edit, Telemetry!InstallPlain, Telemetry!InstallForward,
       Telemetry!InstallReplace, Telemetry!Uninstall, Telemetry!WriteSettings, Telemetry!Abort, Telemetry!Proceed, Telemetry!files
  <2> QED
    BY <1>2, <2>1, <2>2 DEF RelayInv
<1>7. CASE Telemetry!Daemon
  <2>1. Telemetry!Run /\ due' = due /\ CommandInv' /\ record' = record
    BY <1>1, <1>7 DEF Telemetry!Daemon
  <2> QED
    BY <1>0, <2>1, Runs DEF RelayInv
<1>8. ASSUME NEW b \in Batches, Telemetry!Arrive(b)
      PROVE  RelayInv'
  <2>1. CommandInv'
    BY <1>1, <1>8 DEF Telemetry!Arrive
  <2> QED
    BY <1>0, <1>8, <2>1, Arrives1 DEF RelayInv
<1>9. ASSUME NEW b \in Batches, Telemetry!Handle(b)
      PROVE  RelayInv'
  <2>1. /\ Telemetry!LoadRecord(b) \/ Telemetry!Push(b) \/ Telemetry!DropOldest(b)
        /\ due' = due /\ CommandInv' /\ record' = record
    BY <1>1, <1>9 DEF Telemetry!Handle
  <2> QED
    BY <1>0, <2>1, LoadsRecord, Pushes, DropsOldest DEF RelayInv
<1> QED
  BY <1>3, <1>4, <1>5, <1>6, <1>7, <1>8, <1>9 DEF Telemetry!ForwardingNext

LEMMA SameCardinality == ASSUME NEW S PROVE Telemetry!Cardinality(S) = Cardinality(S)
BY Zenon DEF Telemetry!Cardinality, Cardinality

LEMMA RelayMeans ==
  RelayInv => Telemetry!BatchKept /\ Telemetry!OnlyOldestDropped /\ Telemetry!CollectorKept /\ Telemetry!RestoresOriginal
<1> SUFFICES ASSUME RelayInv
             PROVE  Telemetry!BatchKept /\ Telemetry!OnlyOldestDropped /\ Telemetry!CollectorKept /\ Telemetry!RestoresOriginal
  OBVIOUS
<1>0. CommandInv /\ RelayRest
  BY DEF RelayInv
<1>1. ASSUME NEW b \in Batches, due[b] # None, handler[b] \in {"push", "drop", "done"}, Cardinality(held[b]) = 1
      PROVE  target[b] = due[b]
  <2>1. target[b] \in held[b] /\ due[b] \in held[b] /\ IsFiniteSet(held[b])
    BY <1>0, <1>1 DEF RelayRest, Routed
  <2>2. PICK t : held[b] = {t}
    BY <1>1, <2>1, FS_Singleton
  <2> QED
    BY <2>1, <2>2
<1>2. Telemetry!OnlyOldestDropped
  <2>1. /\ queue \in Seq(Batches) /\ accepted \in Seq(Batches) /\ Telemetry!RelayTypeOK
        /\ EndOf(accepted, queue) /\ Apart(accepted)
        /\ Before(accepted, queue) = sent \cup dropped \cup ({sending} \ {None})
        /\ dropped \cap (sent \cup {sending}) = {}
    BY <1>0, QueueTyped DEF RelayRest, Queued
  <2>2. PICK all, waiting : all = Telemetry!Range(accepted) /\ waiting = Telemetry!Range(queue)
    OBVIOUS
  <2>3. /\ \A x : x \in all <=> x \in waiting \/ x \in Before(accepted, queue)
        /\ \A x \in Before(accepted, queue) : x \notin waiting
        /\ \A x \in Before(accepted, queue), y \in waiting : Telemetry!Position(x) < Telemetry!Position(y)
    <3>1. (\A x : x \in all <=> Holds(accepted, x)) /\ (\A x : x \in waiting <=> Holds(queue, x))
      BY <2>1, <2>2, RangeHolds, Zenon
    <3>2. /\ \A x : Holds(accepted, x) <=> Holds(queue, x) \/ x \in Before(accepted, queue)
          /\ \A x \in Before(accepted, queue) : ~Holds(queue, x)
          /\ \A x \in Before(accepted, queue) : \A y : Holds(queue, y) =>
               (CHOOSE i \in DOMAIN accepted : accepted[i] = x) < (CHOOSE i \in DOMAIN accepted : accepted[i] = y)
      BY <2>1, Split, Zenon
    <3> QED
      BY <3>1, <3>2, Zenon DEF Telemetry!Position
  <2>4. all = waiting \cup sent \cup dropped \cup ({sending} \ {None})
    BY <2>1, <2>3
  <2>5. dropped \cap (waiting \cup sent \cup {sending}) = {}
    BY <2>1, <2>3
  <2>6. \A d \in dropped, q \in waiting : Telemetry!Position(d) < Telemetry!Position(q)
    BY <2>1, <2>3, Zenon
  <2> QED
    BY <2>1, <2>2, <2>4, <2>5, <2>6, Zenon DEF Telemetry!OnlyOldestDropped
<1>3. Telemetry!BatchKept
  <2>1. ASSUME NEW b \in Batches
        PROVE  due[b] # None /\ handler[b] \in {"push", "drop", "done"} /\ Cardinality(held[b]) = 1 => target[b] = due[b]
    BY <1>1, Zenon
  <2> QED
    BY <2>1, SameCardinality, Zenon DEF Telemetry!BatchKept
<1> QED
  BY <1>0, <1>2, <1>3, CommandMeans

----------------------------------------------------------------------------
(* What the sequences of the viewer's bracket hold.                        *)

LEMMA SmallestMember == ASSUME NEW S \in SUBSET Nat, S # {} PROVE \E x \in S : \A y \in S : x <= y
<1>1. PICK x \in S : \A y \in S : <<y, x>> \notin OpToRel(<, Nat)
  <2>1. \E x \in S : \A y \in S : <<y, x>> \notin OpToRel(<, Nat)
    BY NatLessThanWellFounded, WFMin, Zenon
  <2> QED
    BY <2>1
<1>2. \A y \in S : ~(y < x)
  BY <1>1 DEF OpToRel
<1> QED
  BY <1>2

LEMMA ElementsAre ==
  ASSUME NEW S, NEW s \in Seq(S)
  PROVE  \A x : x \in View!Elements(s) <=> \E i \in 1..Len(s) : s[i] = x
<1>1. DOMAIN s = 1..Len(s)
  OBVIOUS
<1> QED
  BY <1>1, Zenon DEF View!Elements

LEMMA ElementsEmpty == View!Elements(<<>>) = {}
BY DEF View!Elements

LEMMA ElementsTyped == ASSUME NEW S, NEW s \in Seq(S) PROVE View!Elements(s) \subseteq S
<1>1. \A i \in 1..Len(s) : s[i] \in S
  OBVIOUS
<1> QED
  BY <1>1, ElementsAre

LEMMA ElementsAppend ==
  ASSUME NEW S, NEW s \in Seq(S), NEW e \in S
  PROVE  /\ Append(s, e) \in Seq(S) /\ Append(s, e) # <<>>
         /\ View!Elements(Append(s, e)) = View!Elements(s) \cup {e}
<1>1. PICK t \in Seq(S) : t = Append(s, e) /\ t # <<>>
  BY AppendProperties
<1>2. /\ Len(s) \in Nat /\ Len(t) = Len(s) + 1 /\ t[Len(s) + 1] = e
      /\ \A i \in 1..Len(s) : t[i] = s[i]
  BY <1>1, AppendProperties
<1>3. \A i : i \in 1..Len(t) <=> i \in 1..Len(s) \/ i = Len(s) + 1
  BY <1>2
<1>4. \A x : (\E i \in 1..Len(t) : t[i] = x) <=> (\E i \in 1..Len(s) : s[i] = x) \/ x = e
  BY <1>2, <1>3, Zenon
<1>5. \A x : x \in View!Elements(t) <=> x \in View!Elements(s) \/ x = e
  BY <1>4, ElementsAre, Zenon
<1>6. View!Elements(t) = View!Elements(s) \cup {e}
  BY <1>5
<1> QED
  BY <1>1, <1>6

LEMMA ElementsTail ==
  ASSUME NEW S, NEW s \in Seq(S), s # <<>>
  PROVE  /\ Tail(s) \in Seq(S) /\ Head(s) \in S
         /\ View!Elements(s) = {Head(s)} \cup View!Elements(Tail(s))
<1>1. PICK t \in Seq(S) : t = Tail(s)
  BY HeadTailProperties
<1>2. /\ Len(s) \in Nat \ {0} /\ Len(t) = Len(s) - 1 /\ \A i \in 1..Len(t) : t[i] = s[i + 1]
      /\ Head(s) \in S
  BY <1>1, HeadTailProperties, EmptySeq
<1>3. Head(s) = s[1]
  OBVIOUS
<1>4. ASSUME NEW x, x \in View!Elements(s)
      PROVE  x = s[1] \/ x \in View!Elements(t)
  <2>1. PICK i \in 1..Len(s) : s[i] = x
    BY <1>4, ElementsAre, Zenon
  <2>2. i = 1 \/ (i - 1 \in 1..Len(t) /\ t[i - 1] = s[i])
    BY <1>2
  <2> QED
    BY <2>1, <2>2, ElementsAre, Zenon
<1>5. ASSUME NEW x, x \in View!Elements(t)
      PROVE  x \in View!Elements(s)
  <2>1. PICK i \in 1..Len(t) : t[i] = x
    BY <1>5, ElementsAre, Zenon
  <2>2. i + 1 \in 1..Len(s) /\ s[i + 1] = x
    BY <1>2, <2>1
  <2> QED
    BY <2>2, ElementsAre, Zenon
<1>6. s[1] \in View!Elements(s)
  <2>1. 1 \in 1..Len(s)
    BY <1>2
  <2> QED
    BY <2>1, ElementsAre, Zenon
<1> QED
  BY <1>1, <1>2, <1>3, <1>4, <1>5, <1>6

LEMMA ElementsConcat ==
  ASSUME NEW S, NEW s \in Seq(S), NEW t \in Seq(S)
  PROVE  s \o t \in Seq(S) /\ View!Elements(s \o t) = View!Elements(s) \cup View!Elements(t)
<1>1. PICK r \in Seq(S) : r = s \o t
  BY ConcatProperties
<1>2. /\ Len(s) \in Nat /\ Len(t) \in Nat /\ Len(r) = Len(s) + Len(t)
      /\ \A i \in 1..(Len(s) + Len(t)) : r[i] = IF i <= Len(s) THEN s[i] ELSE t[i - Len(s)]
  BY <1>1, ConcatProperties
<1>3. ASSUME NEW x, x \in View!Elements(r)
      PROVE  x \in View!Elements(s) \/ x \in View!Elements(t)
  <2>1. PICK i \in 1..Len(r) : r[i] = x
    BY <1>3, ElementsAre, Zenon
  <2>2. (i \in 1..Len(s) /\ s[i] = x) \/ (i - Len(s) \in 1..Len(t) /\ t[i - Len(s)] = x)
    BY <1>2, <2>1
  <2> QED
    BY <2>2, ElementsAre, Zenon
<1>4. ASSUME NEW x, x \in View!Elements(s)
      PROVE  x \in View!Elements(r)
  <2>1. PICK i \in 1..Len(s) : s[i] = x
    BY <1>4, ElementsAre, Zenon
  <2>2. i \in 1..Len(r) /\ r[i] = x
    BY <1>2, <2>1
  <2> QED
    BY <2>2, ElementsAre, Zenon
<1>5. ASSUME NEW x, x \in View!Elements(t)
      PROVE  x \in View!Elements(r)
  <2>1. PICK i \in 1..Len(t) : t[i] = x
    BY <1>5, ElementsAre, Zenon
  <2>2. Len(s) + i \in 1..Len(r) /\ r[Len(s) + i] = x
    BY <1>2, <2>1
  <2> QED
    BY <2>2, ElementsAre, Zenon
<1> QED
  BY <1>1, <1>3, <1>4, <1>5

LEMMA ElementsPrefix ==
  ASSUME NEW S, NEW s \in Seq(S), NEW n \in 0..Len(s)
  PROVE  /\ SubSeq(s, 1, n) \in Seq(S) /\ Len(SubSeq(s, 1, n)) = n
         /\ \A i \in 1..n : SubSeq(s, 1, n)[i] = s[i]
         /\ View!Elements(SubSeq(s, 1, n)) \subseteq View!Elements(s)
<1>1. n \in Nat /\ Len(s) \in Nat /\ \A i \in 1..n : i \in 1..Len(s) /\ s[i] \in S
  OBVIOUS
<1>2. PICK t : t = SubSeq(s, 1, n)
  OBVIOUS
<1>3. /\ t \in Seq(S) /\ Len(t) = (IF 1 <= n THEN n - 1 + 1 ELSE 0)
      /\ \A i \in 1..(n - 1 + 1) : t[i] = s[1 + i - 1]
  BY <1>1, <1>2, SubSeqProperties
<1>4. Len(t) = n /\ \A i \in 1..n : t[i] = s[i]
  BY <1>1, <1>3
<1>5. View!Elements(t) \subseteq View!Elements(s)
  <2>1. ASSUME NEW x, x \in View!Elements(t)
        PROVE  x \in View!Elements(s)
    <3>1. PICK i \in 1..Len(t) : t[i] = x
      BY <1>3, <2>1, ElementsAre, Zenon
    <3>2. i \in 1..Len(s) /\ s[i] = x
      BY <1>1, <1>4, <3>1
    <3> QED
      BY <3>2, ElementsAre, Zenon
  <2> QED
    BY <2>1
<1> QED
  BY <1>2, <1>3, <1>4, <1>5

LEMMA ApartAppend ==
  ASSUME NEW S, NEW s \in Seq(S), NEW e \in S, Apart(s), e \notin View!Elements(s)
  PROVE  Apart(Append(s, e))
<1>1. PICK t \in Seq(S) : t = Append(s, e)
  BY AppendProperties
<1>2. /\ Len(s) \in Nat /\ Len(t) = Len(s) + 1 /\ t[Len(s) + 1] = e
      /\ \A i \in 1..Len(s) : t[i] = s[i]
  BY <1>1, AppendProperties
<1>3. \A i \in 1..Len(s) : s[i] # e
  BY ElementsAre, Zenon
<1>4. \A i \in 1..Len(t) : i = Len(s) + 1 \/ i \in 1..Len(s)
  BY <1>2
<1>5. ASSUME NEW i \in 1..Len(t), NEW j \in 1..Len(t), t[i] = t[j]
      PROVE  i = j
  <2>1. CASE i \in 1..Len(s) /\ j \in 1..Len(s)
    BY <1>2, <1>5, <2>1 DEF Apart
  <2>2. CASE i = Len(s) + 1 \/ j = Len(s) + 1
    BY <1>2, <1>3, <1>4, <1>5, <2>2
  <2> QED
    BY <1>4, <2>1, <2>2
<1> QED
  BY <1>1, <1>5, Zenon DEF Apart

LEMMA ApartRoom ==
  ASSUME NEW S, NEW s \in Seq(S), IsFiniteSet(S), Apart(s)
  PROVE  Len(s) <= Cardinality(S)
<1>1. Len(s) \in Nat /\ s \in [1..Len(s) -> S] /\ \A i, j \in 1..Len(s) : s[i] = s[j] => i = j
  BY LenProperties, Zenon DEF Apart
<1>2. s \in Injection(1..Len(s), S)
  BY <1>1 DEF Injection, IsInjective
<1>3. Cardinality(1..Len(s)) <= Cardinality(S)
  BY <1>2, FS_Injection
<1>4. Cardinality(1..Len(s)) = Len(s)
  <2>1. Cardinality(1..Len(s)) = IF 1 > Len(s) THEN 0 ELSE Len(s) - 1 + 1
    BY <1>1, FS_Interval
  <2> QED
    BY <1>1, <2>1
<1> QED
  BY <1>3, <1>4

LEMMA LastNWhole ==
  ASSUME NEW S, NEW s \in Seq(S), NEW k \in Nat, Len(s) <= k
  PROVE  View!LastN(s, k) = s
<1>1. Len(s) \in Nat /\ ~(Len(s) > k)
  OBVIOUS
<1>2. View!LastN(s, k) = SubSeq(s, 1, Len(s))
  BY <1>1 DEF View!LastN
<1> QED
  BY <1>2, SubSeqFull

\* Distinct, place by place.
Kept(s, S, g, n) ==
  IF n = 0 THEN <<>>
  ELSE IF s[n] \notin S /\ \A m \in 1..(n - 1) : s[m] # s[n] THEN Append(g[n - 1], s[n]) ELSE g[n - 1]
Keeps(g, s, S) == g = [n \in 0..Len(s) |-> Kept(s, S, g, n)]

\* There is one function that the recursion of Distinct describes up to n: otherwise there were a least n without.
LEMMA KeepsUpTo ==
  ASSUME NEW T, NEW s \in Seq(T), NEW S
  PROVE  \E g : Keeps(g, s, S)
<1> DEFINE Partial(n) == \E g : g = [k \in 0..n |-> Kept(s, S, g, k)]
           Missing == {n \in Nat : ~Partial(n)}
<1>1. Partial(0)
  <2>1. PICK g : g = [k \in 0..0 |-> <<>>]
    OBVIOUS
  <2>2. g = [k \in 0..0 |-> Kept(s, S, g, k)]
    BY <2>1 DEF Kept
  <2> QED
    BY <2>2, Zenon
<1>2. ASSUME NEW n \in Nat, Partial(n)
      PROVE  Partial(n + 1)
  <2>1. PICK g : g = [k \in 0..n |-> Kept(s, S, g, k)]
    BY <1>2, Zenon
  <2>2. PICK h : h = [k \in 0..(n + 1) |-> IF k = n + 1 THEN Kept(s, S, g, n + 1) ELSE g[k]]
    OBVIOUS
  <2>3. \A k \in 0..(n + 1) : k = n + 1 \/ k \in 0..n
    OBVIOUS
  <2>4. \A k \in 0..n : k \in 0..(n + 1) /\ k # n + 1
    OBVIOUS
  <2>5. \A k \in 0..n : h[k] = g[k]
    BY <2>2, <2>4, Zenon
  <2>6. \A k \in 0..(n + 1) : k # 0 => k - 1 \in 0..n /\ h[k - 1] = g[k - 1]
    BY <2>5
  <2>7. ASSUME NEW k \in 0..(n + 1)
        PROVE  Kept(s, S, h, k) = Kept(s, S, g, k)
    BY <2>6, Zenon DEF Kept
  <2>8. ASSUME NEW k \in 0..(n + 1)
        PROVE  h[k] = Kept(s, S, h, k)
    <3>1. CASE k = n + 1
      BY <2>2, <2>7, <3>1
    <3>2. CASE k # n + 1
      <4>1. k \in 0..n
        BY <2>3, <3>2
      <4>2. g[k] = Kept(s, S, g, k)
        BY <2>1, <4>1, Zenon
      <4> QED
        BY <2>5, <2>7, <4>1, <4>2
    <3> QED
      BY <3>1, <3>2
  <2>9. DOMAIN h = 0..(n + 1) /\ h = [k \in 0..(n + 1) |-> h[k]]
    BY <2>2, Zenon
  <2>10. h = [k \in 0..(n + 1) |-> Kept(s, S, h, k)]
    BY <2>8, <2>9, Zenon
  <2> QED
    BY <2>10, Zenon
<1>3. Missing = {}
  <2> SUFFICES ASSUME Missing # {} PROVE FALSE
    OBVIOUS
  <2>1. PICK n \in Missing : \A m \in Missing : n <= m
    BY SmallestMember
  <2>2. n \in Nat /\ ~Partial(n) /\ n # 0
    BY <1>1
  <2> HIDE DEF Partial
  <2>3. n - 1 \in Nat /\ n - 1 \notin Missing /\ n = (n - 1) + 1
    BY <2>1, <2>2
  <2>4. Partial(n - 1)
    BY <2>3
  <2> QED
    BY <1>2, <2>2, <2>3, <2>4
<1>4. Partial(Len(s))
  <2>1. Len(s) \in Nat
    OBVIOUS
  <2> QED
    BY <1>3, <2>1, Zenon
<1> QED
  BY <1>4, Zenon DEF Keeps

LEMMA DistinctKeeps ==
  ASSUME NEW T, NEW s \in Seq(T), NEW S
  PROVE  \E g : Keeps(g, s, S) /\ View!Distinct(s, S) = g[Len(s)]
<1>1. PICK f : Keeps(f, s, S)
  BY KeepsUpTo
<1> DEFINE g == CHOOSE h : h = [n \in 0..Len(s) |-> Kept(s, S, h, n)]
<1>2. g = [n \in 0..Len(s) |-> Kept(s, S, g, n)]
  BY <1>1, Zenon DEF Keeps
<1>3. View!Distinct(s, S) = g[Len(s)]
  BY Zenon DEF View!Distinct, Kept
<1> QED
  BY <1>2, <1>3, Zenon DEF Keeps

\* What is kept of the first n: each once, and all but those in S.
Kept2(g, s, S, T, n) ==
  /\ g[n] \in Seq(T) /\ Apart(g[n])
  /\ \A x : x \in View!Elements(g[n]) <=> x \notin S /\ \E i \in 1..n : s[i] = x

LEMMA DistinctMeans ==
  ASSUME NEW T, NEW s \in Seq(T), NEW S
  PROVE  /\ View!Distinct(s, S) \in Seq(T) /\ Apart(View!Distinct(s, S))
         /\ View!Elements(View!Distinct(s, S)) = View!Elements(s) \ S
<1>1. PICK g : Keeps(g, s, S) /\ View!Distinct(s, S) = g[Len(s)]
  BY DistinctKeeps
<1>2. Len(s) \in Nat /\ \A i \in 1..Len(s) : s[i] \in T
  OBVIOUS
<1>3. \A n \in 0..Len(s) : g[n] = Kept(s, S, g, n)
  BY <1>1, Zenon DEF Keeps
<1>4. Kept2(g, s, S, T, 0)
  <2>1. g[0] = <<>>
    BY <1>2, <1>3 DEF Kept
  <2> QED
    BY <2>1, ElementsEmpty DEF Kept2, Apart
<1>5. ASSUME NEW n \in Nat, n < Len(s), Kept2(g, s, S, T, n)
      PROVE  Kept2(g, s, S, T, n + 1)
  <2>1. n + 1 \in 1..Len(s) /\ n + 1 \in 0..Len(s) /\ n + 1 # 0 /\ (n + 1) - 1 = n
    BY <1>2, <1>5
  <2>2. g[n + 1] = IF s[n + 1] \notin S /\ \A m \in 1..n : s[m] # s[n + 1] THEN Append(g[n], s[n + 1]) ELSE g[n]
    BY <1>3, <2>1, Zenon DEF Kept
  <2>3. \A i : i \in 1..(n + 1) <=> i \in 1..n \/ i = n + 1
    OBVIOUS
  <2>4. PICK a \in Seq(T) : a = g[n] /\ Apart(a) /\ \A x : x \in View!Elements(a) <=> x \notin S /\ \E i \in 1..n : s[i] = x
    BY <1>5, Zenon DEF Kept2
  <2>5. PICK e \in T : e = s[n + 1]
    BY <1>2, <2>1
  <2>6. CASE e \notin S /\ \A m \in 1..n : s[m] # e
    <3>1. g[n + 1] = Append(a, e)
      BY <2>2, <2>4, <2>5, <2>6
    <3>2. e \notin View!Elements(a)
      BY <2>4, <2>6, Zenon
    <3>3. Append(a, e) \in Seq(T) /\ Apart(Append(a, e)) /\ View!Elements(Append(a, e)) = View!Elements(a) \cup {e}
      BY <3>2, <2>4, ElementsAppend, ApartAppend
    <3>4. \A x : x \in View!Elements(a) \cup {e} <=> x \notin S /\ \E i \in 1..(n + 1) : s[i] = x
      <4>1. \A x : x \in View!Elements(a) \cup {e} <=> x \in View!Elements(a) \/ x = e
        OBVIOUS
      <4> QED
        BY <2>3, <2>4, <2>5, <2>6, <4>1, Zenon
    <3> QED
      BY <3>1, <3>3, <3>4, Zenon DEF Kept2
  <2>7. CASE ~(e \notin S /\ \A m \in 1..n : s[m] # e)
    <3>1. g[n + 1] = a
      BY <2>2, <2>4, <2>5, <2>7
    <3>2. \A x : x \in View!Elements(a) <=> x \notin S /\ \E i \in 1..(n + 1) : s[i] = x
      BY <2>3, <2>4, <2>5, <2>7, Zenon
    <3> QED
      BY <2>4, <3>1, <3>2, Zenon DEF Kept2
  <2> QED
    BY <2>6, <2>7
<1> DEFINE Wrong == {n \in Nat : n <= Len(s) /\ ~Kept2(g, s, S, T, n)}
<1>6. Wrong = {}
  <2> SUFFICES ASSUME Wrong # {} PROVE FALSE
    OBVIOUS
  <2>1. PICK n \in Wrong : \A m \in Wrong : n <= m
    BY SmallestMember
  <2>2. n \in Nat /\ n <= Len(s) /\ ~Kept2(g, s, S, T, n) /\ n # 0
    BY <1>4
  <2>3. n - 1 \in Nat /\ n - 1 \notin Wrong /\ n = (n - 1) + 1 /\ n - 1 < Len(s) /\ n - 1 <= Len(s)
    BY <1>2, <2>1, <2>2
  <2>4. Kept2(g, s, S, T, n - 1)
    BY <2>3
  <2> QED
    BY <1>5, <2>2, <2>3, <2>4
<1>7. Kept2(g, s, S, T, Len(s))
  <2>1. Len(s) <= Len(s)
    BY <1>2
  <2> QED
    BY <1>2, <1>6, <2>1, Zenon
<1>8. PICK d \in Seq(T) : d = View!Distinct(s, S) /\ Apart(d) /\ \A x : x \in View!Elements(d) <=> x \notin S /\ \E i \in 1..Len(s) : s[i] = x
  BY <1>1, <1>7, Zenon DEF Kept2
<1>9. \A x : x \in View!Elements(d) <=> x \notin S /\ x \in View!Elements(s)
  BY <1>8, ElementsAre, Zenon
<1>10. View!Elements(d) = View!Elements(s) \ S
  BY <1>9
<1> QED
  BY <1>8, <1>10, Zenon

----------------------------------------------------------------------------
(* The bracket of a viewer.                                                *)

spool == x1
projected == x2
state == x3
outbox == x4
link == x5
chan == x6
at == x7
history == x8
pending == x9
seen == x10
shown == x11
view == x12
limits == x13
USE DEF spool, projected, state, outbox, link, chan, at, history, pending, seen, shown, view, limits

\* No more events than one read returns, and no more frames than the viewer remembers.
Room == Cardinality(Events) <= Limit /\ Cardinality(View!Frames) <= SeenCapacity

IsTurn(f) == f[1] = "transition"
Current == View!TransitionFrame(state)
EventsIn(s) == {i \in Events : View!EventFrame(i) \in View!Elements(s)}
HasTurn(s) == \E f \in View!Elements(s) : IsTurn(f)
Rising(s) == \A m, n \in 1..Len(s) : m < n /\ IsTurn(s[m]) /\ IsTurn(s[n]) => s[m][2] < s[n][2]

\* What the sequencer may have left to publish.
Due(s, v) ==
  \/ s = <<>> \/ s = <<View!TransitionFrame(v)>>
  \/ \E i \in Events : s = <<View!EventFrame(i)>> \/ s = <<View!TransitionFrame(v), View!EventFrame(i)>>

\* What is empty where.
ViewPlaces ==
  /\ at \in {"recent", "subscribe"} <=> link = "none"
  /\ link = "none" => chan = <<>>
  /\ at # "forward" => pending = <<>>
  /\ at \in {"recent", "forward", "attached"} => history = <<>>

\* The set of ids knows what was shown, and nothing was forgotten.
ViewRemembers == Apart(seen) /\ Apart(shown) /\ EventsIn(seen) = View!Elements(shown)

\* Whatever is anywhere was written.
ViewWritten ==
  projected \cup View!Elements(shown) \cup View!Elements(history) \cup EventsIn(pending) \cup EventsIn(chan) \cup EventsIn(outbox)
    \subseteq View!Elements(spool)

\* Transitions come in their order, each once.
ViewRising ==
  /\ Due(outbox, state)
  /\ Rising(chan)
  /\ \A f \in View!Elements(chan) \cup View!Elements(seen) :
       IsTurn(f) => f[2] <= state /\ (Current \in View!Elements(outbox) => f[2] < state)
  /\ \A f \in View!Elements(seen), g \in View!Elements(chan) : IsTurn(f) /\ IsTurn(g) => f[2] < g[2]

\* From the second read on, what is projected is in hand or on its way.
ViewReaches ==
  link = "open" /\ at \in {"sessions", "forward", "attached"} =>
    projected \subseteq View!Elements(history) \cup EventsIn(pending) \cup View!Elements(shown) \cup EventsIn(chan) \cup EventsIn(outbox)

\* So is the state, behind all older ones.
ViewCurrent ==
  link = "open" =>
    /\ HasTurn(chan) => Current \in View!Elements(chan) \cup View!Elements(outbox)
    /\ at \in {"forward", "attached"} /\ ~HasTurn(chan) /\ Current \notin View!Elements(outbox) =>
         IF pending = <<>> THEN view = state ELSE pending[Len(pending)] = Current

ViewInv ==
  View!TypeOK /\ ViewPlaces /\ ViewRemembers /\ ViewWritten /\ ViewRising /\ ViewReaches /\ ViewCurrent

LEMMA FrameFacts ==
  /\ \A i \in Events : View!EventFrame(i) \in View!Frames /\ ~IsTurn(View!EventFrame(i))
                       /\ View!EventFrame(i)[1] = "event" /\ View!EventFrame(i)[2] = i
  /\ \A v \in View!Versions : View!TransitionFrame(v) \in View!Frames /\ IsTurn(View!TransitionFrame(v))
                              /\ View!TransitionFrame(v)[2] = v
  /\ \A f \in View!Frames :
       \/ IsTurn(f) /\ f[1] # "event" /\ f[2] \in View!Versions /\ f = View!TransitionFrame(f[2])
       \/ ~IsTurn(f) /\ f[1] = "event" /\ f[2] \in Events /\ f = View!EventFrame(f[2])
<1>1. \A i \in Events : View!EventFrame(i) \in View!Frames /\ ~IsTurn(View!EventFrame(i))
                        /\ View!EventFrame(i)[1] = "event" /\ View!EventFrame(i)[2] = i
  BY DEF View!EventFrame, View!Frames, IsTurn
<1>2. \A v \in View!Versions : View!TransitionFrame(v) \in View!Frames /\ IsTurn(View!TransitionFrame(v))
                               /\ View!TransitionFrame(v)[2] = v
  BY DEF View!TransitionFrame, View!Frames, IsTurn
<1>3. \A f \in View!Frames :
        \/ IsTurn(f) /\ f[1] # "event" /\ f[2] \in View!Versions /\ f = View!TransitionFrame(f[2])
        \/ ~IsTurn(f) /\ f[1] = "event" /\ f[2] \in Events /\ f = View!EventFrame(f[2])
  BY DEF View!TransitionFrame, View!EventFrame, View!Frames, IsTurn
<1> QED
  BY <1>1, <1>2, <1>3

LEMMA FramesFinite == IsFiniteSet(View!Frames)
<1>1. IsFiniteSet(Events) /\ MaxVersions \in Nat /\ MaxVersions \in Int /\ 0 \in Int
  BY ViewAssumption
<1>2. IsFiniteSet(0..MaxVersions)
  BY <1>1, FS_Interval
<1>3. IsFiniteSet({"event"} \X Events)
  BY <1>1, FS_Singleton, FS_Product
<1>4. IsFiniteSet({"transition"} \X (0..MaxVersions))
  BY <1>2, FS_Singleton, FS_Product
<1> QED
  BY <1>3, <1>4, FS_Union DEF View!Frames, View!Versions

LEMMA EventsInEmpty == EventsIn(<<>>) = {} /\ ~HasTurn(<<>>)
BY ElementsEmpty DEF EventsIn, HasTurn

\* What a frame carries.
Carried(f) == IF IsTurn(f) THEN {} ELSE {f[2]}

LEMMA EventsInAppend ==
  ASSUME NEW s \in Seq(View!Frames), NEW f \in View!Frames
  PROVE  /\ EventsIn(Append(s, f)) = EventsIn(s) \cup Carried(f)
         /\ HasTurn(Append(s, f)) <=> HasTurn(s) \/ IsTurn(f)
<1>1. PICK E, F : E = View!Elements(s) /\ F = View!Elements(Append(s, f))
  OBVIOUS
<1>2. \A x : x \in F <=> x \in E \/ x = f
  BY <1>1, ElementsAppend
<1>3. HasTurn(Append(s, f)) <=> HasTurn(s) \/ IsTurn(f)
  BY <1>1, <1>2, Zenon DEF HasTurn
<1>4. \A i \in Events : View!EventFrame(i) = f <=> i \in Carried(f)
  BY FrameFacts DEF Carried
<1>5. Carried(f) \subseteq Events
  BY FrameFacts DEF Carried
<1>6. EventsIn(s) = {i \in Events : View!EventFrame(i) \in E} /\ EventsIn(Append(s, f)) = {i \in Events : View!EventFrame(i) \in F}
  BY <1>1, Zenon DEF EventsIn
<1> QED
  BY <1>2, <1>3, <1>4, <1>5, <1>6

LEMMA EventsInTail ==
  ASSUME NEW s \in Seq(View!Frames), s # <<>>
  PROVE  /\ EventsIn(s) = EventsIn(Tail(s)) \cup Carried(Head(s))
         /\ HasTurn(s) <=> HasTurn(Tail(s)) \/ IsTurn(Head(s))
<1>1. PICK E, F, f : E = View!Elements(Tail(s)) /\ F = View!Elements(s) /\ f = Head(s)
  OBVIOUS
<1>2. f \in View!Frames /\ \A x : x \in F <=> x \in E \/ x = f
  BY <1>1, ElementsTail
<1>3. HasTurn(s) <=> HasTurn(Tail(s)) \/ IsTurn(f)
  BY <1>1, <1>2, Zenon DEF HasTurn
<1>4. \A i \in Events : View!EventFrame(i) = f <=> i \in Carried(f)
  BY <1>2, FrameFacts DEF Carried
<1>5. Carried(f) \subseteq Events
  BY <1>2, FrameFacts DEF Carried
<1>6. EventsIn(Tail(s)) = {i \in Events : View!EventFrame(i) \in E} /\ EventsIn(s) = {i \in Events : View!EventFrame(i) \in F}
  BY <1>1, Zenon DEF EventsIn
<1> QED
  BY <1>1, <1>2, <1>3, <1>4, <1>5, <1>6

LEMMA RisingAppend ==
  ASSUME NEW s \in Seq(View!Frames), NEW f \in View!Frames, Rising(s),
         \A g \in View!Elements(s) : IsTurn(g) /\ IsTurn(f) => g[2] < f[2]
  PROVE  Rising(Append(s, f))
<1>1. PICK t \in Seq(View!Frames) : t = Append(s, f)
  BY AppendProperties
<1>2. /\ Len(s) \in Nat /\ Len(t) = Len(s) + 1 /\ t[Len(s) + 1] = f
      /\ \A i \in 1..Len(s) : t[i] = s[i]
  BY <1>1, AppendProperties
<1>3. ASSUME NEW m \in 1..Len(t), NEW n \in 1..Len(t), m < n, IsTurn(t[m]), IsTurn(t[n])
      PROVE  t[m][2] < t[n][2]
  <2>1. m \in 1..Len(s) /\ (n \in 1..Len(s) \/ n = Len(s) + 1)
    BY <1>2, <1>3
  <2>2. CASE n \in 1..Len(s)
    BY <1>2, <1>3, <2>1, <2>2 DEF Rising
  <2>3. CASE n = Len(s) + 1
    <3>1. s[m] \in View!Elements(s)
      BY <2>1, ElementsAre
    <3>2. t[m] = s[m] /\ t[n] = f
      BY <1>2, <2>1, <2>3
    <3> QED
      BY <1>3, <3>1, <3>2
  <2> QED
    BY <2>1, <2>2, <2>3
<1> QED
  BY <1>1, <1>3, Zenon DEF Rising

LEMMA RisingTail ==
  ASSUME NEW s \in Seq(View!Frames), s # <<>>, Rising(s)
  PROVE  Rising(Tail(s)) /\ \A g \in View!Elements(Tail(s)) : IsTurn(Head(s)) /\ IsTurn(g) => Head(s)[2] < g[2]
<1>1. PICK t \in Seq(View!Frames) : t = Tail(s)
  BY HeadTailProperties
<1>2. /\ Len(s) \in Nat \ {0} /\ Len(t) = Len(s) - 1 /\ \A i \in 1..Len(t) : t[i] = s[i + 1]
  BY <1>1, HeadTailProperties, EmptySeq
<1>3. Head(s) = s[1]
  OBVIOUS
<1>4. ASSUME NEW m \in 1..Len(t), NEW n \in 1..Len(t), m < n, IsTurn(t[m]), IsTurn(t[n])
      PROVE  t[m][2] < t[n][2]
  <2>1. m + 1 \in 1..Len(s) /\ n + 1 \in 1..Len(s) /\ m + 1 < n + 1 /\ t[m] = s[m + 1] /\ t[n] = s[n + 1]
    BY <1>2, <1>4
  <2> QED
    BY <1>4, <2>1, Zenon DEF Rising
<1>5. ASSUME NEW g \in View!Elements(t), IsTurn(s[1]), IsTurn(g)
      PROVE  s[1][2] < g[2]
  <2>1. PICK n \in 1..Len(t) : t[n] = g
    BY <1>5, ElementsAre, Zenon
  <2>2. 1 \in 1..Len(s) /\ n + 1 \in 1..Len(s) /\ 1 < n + 1 /\ s[n + 1] = g
    BY <1>2, <2>1
  <2> QED
    BY <1>5, <2>2, Zenon DEF Rising
<1>6. Rising(t)
  BY <1>4, Zenon DEF Rising
<1> QED
  BY <1>1, <1>3, <1>5, <1>6, Zenon

LEMMA RisingPrefix ==
  ASSUME NEW s \in Seq(View!Frames), NEW n \in 0..Len(s), Rising(s)
  PROVE  Rising(SubSeq(s, 1, n))
<1>1. PICK t \in Seq(View!Frames) : t = SubSeq(s, 1, n) /\ Len(t) = n /\ \A i \in 1..n : t[i] = s[i]
  BY ElementsPrefix
<1>2. \A i \in 1..n : i \in 1..Len(s)
  OBVIOUS
<1>3. Rising(t)
  BY <1>1, <1>2, Zenon DEF Rising
<1> QED
  BY <1>1, <1>3

LEMMA Single ==
  ASSUME NEW S, NEW e \in S
  PROVE  <<e>> \in Seq(S) /\ <<e>> # <<>> /\ Head(<<e>>) = e /\ Tail(<<e>>) = <<>> /\ View!Elements(<<e>>) = {e}
<1>1. View!Elements(<<e>>) = {e}
  BY DEF View!Elements
<1> QED
  BY <1>1

LEMMA Pair ==
  ASSUME NEW S, NEW d \in S, NEW e \in S
  PROVE  /\ <<d, e>> \in Seq(S) /\ <<d, e>> # <<>> /\ Head(<<d, e>>) = d /\ Tail(<<d, e>>) = <<e>>
         /\ View!Elements(<<d, e>>) = {d, e}
<1>1. View!Elements(<<d, e>>) = {d, e}
  BY DEF View!Elements
<1> QED
  BY <1>1

LEMMA EventsInAre ==
  ASSUME NEW s, View!Elements(s) \subseteq View!Frames
  PROVE  /\ \A i \in Events : i \in EventsIn(s) <=> View!EventFrame(i) \in View!Elements(s)
         /\ EventsIn(s) \subseteq Events
         /\ \A f \in View!Elements(s) : IsTurn(f) \/ f[2] \in EventsIn(s)
<1>1. /\ \A i \in Events : i \in EventsIn(s) <=> View!EventFrame(i) \in View!Elements(s)
      /\ EventsIn(s) \subseteq Events
  BY DEF EventsIn
<1>2. ASSUME NEW f \in View!Elements(s), ~IsTurn(f)
      PROVE  f[2] \in EventsIn(s)
  <2>1. f[2] \in Events /\ f = View!EventFrame(f[2])
    BY <1>2, FrameFacts
  <2> QED
    BY <1>1, <2>1
<1> QED
  BY <1>1, <1>2

LEMMA DueEvent ==
  ASSUME NEW v \in View!Versions, NEW i \in Events
  PROVE  /\ <<View!EventFrame(i)>> \in Seq(View!Frames) /\ EventsIn(<<View!EventFrame(i)>>) = {i}
         /\ View!TransitionFrame(v) \notin View!Elements(<<View!EventFrame(i)>>)
<1>1. PICK e \in View!Frames : e = View!EventFrame(i) /\ ~IsTurn(e) /\ e # View!TransitionFrame(v)
  BY FrameFacts
<1>2. <<e>> \in Seq(View!Frames) /\ View!Elements(<<e>>) = {e}
  BY Single
<1>3. \A j \in Events : j \in EventsIn(<<e>>) <=> View!EventFrame(j) = e
  BY <1>2, EventsInAre
<1>4. \A j \in Events : View!EventFrame(j) = e <=> j = i
  BY <1>1, FrameFacts
<1>5. EventsIn(<<e>>) \subseteq Events
  BY DEF EventsIn
<1>6. EventsIn(<<e>>) = {i}
  BY <1>3, <1>4, <1>5
<1> QED
  BY <1>1, <1>2, <1>6

LEMMA DueTurn ==
  ASSUME NEW v \in View!Versions
  PROVE  /\ <<View!TransitionFrame(v)>> \in Seq(View!Frames) /\ EventsIn(<<View!TransitionFrame(v)>>) = {}
         /\ View!TransitionFrame(v) \in View!Elements(<<View!TransitionFrame(v)>>)
<1>1. PICK e \in View!Frames : e = View!TransitionFrame(v) /\ IsTurn(e)
  BY FrameFacts
<1>2. <<e>> \in Seq(View!Frames) /\ View!Elements(<<e>>) = {e}
  BY Single
<1>3. \A j \in Events : j \in EventsIn(<<e>>) <=> View!EventFrame(j) = e
  BY <1>2, EventsInAre
<1>4. \A j \in Events : View!EventFrame(j) # e
  BY <1>1, FrameFacts
<1>5. EventsIn(<<e>>) \subseteq Events
  BY DEF EventsIn
<1>6. EventsIn(<<e>>) = {}
  BY <1>3, <1>4, <1>5
<1> QED
  BY <1>1, <1>2, <1>6

LEMMA DueBoth ==
  ASSUME NEW v \in View!Versions, NEW i \in Events
  PROVE  /\ <<View!TransitionFrame(v), View!EventFrame(i)>> \in Seq(View!Frames)
         /\ EventsIn(<<View!TransitionFrame(v), View!EventFrame(i)>>) = {i}
         /\ View!TransitionFrame(v) \in View!Elements(<<View!TransitionFrame(v), View!EventFrame(i)>>)
<1>1. PICK d \in View!Frames : d = View!TransitionFrame(v) /\ IsTurn(d)
  BY FrameFacts
<1>2. PICK e \in View!Frames : e = View!EventFrame(i) /\ ~IsTurn(e)
  BY FrameFacts
<1>3. <<d, e>> \in Seq(View!Frames) /\ View!Elements(<<d, e>>) = {d, e}
  BY Pair
<1>4. \A j \in Events : j \in EventsIn(<<d, e>>) <=> View!EventFrame(j) = d \/ View!EventFrame(j) = e
  BY <1>3, EventsInAre
<1>5. \A j \in Events : View!EventFrame(j) # d /\ (View!EventFrame(j) = e <=> j = i)
  BY <1>1, <1>2, FrameFacts
<1>6. EventsIn(<<d, e>>) \subseteq Events
  BY DEF EventsIn
<1>7. EventsIn(<<d, e>>) = {i}
  BY <1>4, <1>5, <1>6
<1> QED
  BY <1>1, <1>2, <1>3, <1>7

LEMMA DueTail ==
  ASSUME NEW v \in View!Versions, NEW s \in Seq(View!Frames), s # <<>>, Due(s, v)
  PROVE  /\ Tail(s) \in Seq(View!Frames) /\ Head(s) \in View!Frames
         /\ Due(Tail(s), v) /\ View!TransitionFrame(v) \notin View!Elements(Tail(s))
         /\ IsTurn(Head(s)) => Head(s) = View!TransitionFrame(v)
         /\ View!TransitionFrame(v) \in View!Elements(s) <=> IsTurn(Head(s))
         /\ EventsIn(s) = EventsIn(Tail(s)) \cup Carried(Head(s))
<1>1. Tail(s) \in Seq(View!Frames) /\ Head(s) \in View!Frames /\ EventsIn(s) = EventsIn(Tail(s)) \cup Carried(Head(s))
      /\ View!Elements(s) = {Head(s)} \cup View!Elements(Tail(s))
  BY ElementsTail, EventsInTail
<1>2. PICK d \in View!Frames : d = View!TransitionFrame(v) /\ IsTurn(d)
  BY FrameFacts
<1>3. CASE s = <<d>>
  <2>1. Head(s) = d /\ Tail(s) = <<>>
    BY <1>3, Single
  <2> QED
    BY <1>1, <1>2, <2>1, ElementsEmpty DEF Due
<1>4. ASSUME NEW i \in Events, s = <<View!EventFrame(i)>>
      PROVE  Head(s) = View!EventFrame(i) /\ ~IsTurn(Head(s)) /\ Due(Tail(s), v) /\ d \notin View!Elements(Tail(s))
  <2>1. PICK e \in View!Frames : e = View!EventFrame(i) /\ ~IsTurn(e)
    BY FrameFacts
  <2>2. Head(s) = e /\ Tail(s) = <<>>
    BY <1>4, <2>1, Single
  <2> QED
    BY <2>1, <2>2, ElementsEmpty DEF Due
<1>5. ASSUME NEW i \in Events, s = <<d, View!EventFrame(i)>>
      PROVE  Head(s) = d /\ Due(Tail(s), v) /\ d \notin View!Elements(Tail(s))
  <2>1. PICK e \in View!Frames : e = View!EventFrame(i) /\ ~IsTurn(e)
    BY FrameFacts
  <2>2. Head(s) = d /\ Tail(s) = <<e>>
    BY <1>5, <2>1, Pair
  <2>3. View!Elements(<<e>>) = {e} /\ d # e
    BY <1>2, <2>1, Single
  <2>4. Due(Tail(s), v)
    BY <2>1, <2>2, Zenon DEF Due
  <2> QED
    BY <2>2, <2>3, <2>4
<1>6. \/ s = <<d>> \/ \E i \in Events : s = <<View!EventFrame(i)>> \/ s = <<d, View!EventFrame(i)>>
  BY <1>2, Zenon DEF Due
<1>7. CASE \E i \in Events : s = <<View!EventFrame(i)>>
  <2>1. ~IsTurn(Head(s)) /\ Due(Tail(s), v) /\ d \notin View!Elements(Tail(s))
    BY <1>4, <1>7
  <2> QED
    BY <1>1, <1>2, <2>1
<1>8. CASE \E i \in Events : s = <<d, View!EventFrame(i)>>
  <2>1. Head(s) = d /\ Due(Tail(s), v) /\ d \notin View!Elements(Tail(s))
    BY <1>5, <1>8
  <2> QED
    BY <1>1, <1>2, <2>1
<1> QED
  BY <1>3, <1>6, <1>7, <1>8

LEMMA RecentWhole ==
  ASSUME View!TypeOK, Room
  PROVE  View!Recent \in Seq(Events) /\ View!Elements(View!Recent) = View!Elements(spool)
<1>1. spool \in Seq(Events)
  BY DEF View!TypeOK
<1>2. PICK d \in Seq(Events) : d = View!Distinct(spool, {}) /\ Apart(d) /\ View!Elements(d) = View!Elements(spool)
  <2>1. View!Elements(spool) \ {} = View!Elements(spool)
    OBVIOUS
  <2> QED
    BY <1>1, <2>1, DistinctMeans, Zenon
<1>3. Len(d) <= Cardinality(Events)
  BY <1>2, ApartRoom, ViewAssumption
<1>4. Len(d) <= Limit /\ Limit \in Nat
  <2>1. Cardinality(Events) \in Nat
    BY ViewAssumption, FS_CardinalityType
  <2>2. Len(d) \in Nat /\ Limit \in Nat /\ Cardinality(Events) <= Limit
    BY ViewAssumption DEF Room
  <2> QED
    BY <1>3, <2>1, <2>2
<1>5. View!LastN(d, Limit) = d
  BY <1>4, LastNWhole
<1>6. View!Recent = d
  BY <1>2, <1>5, Zenon DEF View!Recent
<1> QED
  BY <1>2, <1>6

\* With room, a frame that is new is remembered behind all the others.
LEMMA Remembered ==
  ASSUME View!TypeOK, Room, Apart(seen), NEW f \in View!Frames, f \notin View!Elements(seen)
  PROVE  View!Remember(f) = Append(seen, f) /\ Append(seen, f) \in Seq(View!Frames)
         /\ Apart(Append(seen, f)) /\ View!Elements(Append(seen, f)) = View!Elements(seen) \cup {f}
<1>1. seen \in Seq(View!Frames)
  BY DEF View!TypeOK
<1>2. PICK s \in Seq(View!Frames) : s = Append(seen, f) /\ Apart(s) /\ View!Elements(s) = View!Elements(seen) \cup {f}
  BY <1>1, ElementsAppend, ApartAppend
<1>3. Len(s) <= Cardinality(View!Frames)
  BY <1>2, ApartRoom, FramesFinite
<1>4. Len(s) <= SeenCapacity /\ SeenCapacity \in Nat
  <2>1. Cardinality(View!Frames) \in Nat
    BY FramesFinite, FS_CardinalityType
  <2>2. Len(s) \in Nat /\ SeenCapacity \in Nat /\ Cardinality(View!Frames) <= SeenCapacity
    BY ViewAssumption DEF Room
  <2> QED
    BY <1>3, <2>1, <2>2
<1>5. View!LastN(s, SeenCapacity) = s
  BY <1>4, LastNWhole
<1>6. View!Remember(f) = s
  BY <1>2, <1>5, Zenon DEF View!Remember
<1> QED
  BY <1>2, <1>6

LEMMA ViewInit == View!Init => ViewInv
<1> SUFFICES ASSUME View!Init PROVE ViewInv
  OBVIOUS
<1>1. /\ spool = <<>> /\ projected = {} /\ state = 0 /\ outbox = <<>> /\ link = "none" /\ chan = <<>>
      /\ at = "recent" /\ history = <<>> /\ pending = <<>> /\ seen = <<>> /\ shown = <<>> /\ view = 0
      /\ limits = [drops |-> MaxDrops, fails |-> MaxFails]
  BY DEF View!Init
<1>2. View!Elements(<<>>) = {} /\ EventsIn(<<>>) = {} /\ ~HasTurn(<<>>) /\ <<>> = <<>>
  BY ElementsEmpty, EventsInEmpty
<1>3. View!TypeOK
  BY <1>1, ViewAssumption DEF View!TypeOK, View!Versions
<1>4. Rising(<<>>) /\ Apart(<<>>)
  BY DEF Rising, Apart
<1>5. ViewPlaces /\ ViewRemembers /\ ViewWritten
  BY <1>1, <1>2, <1>4 DEF ViewPlaces, ViewRemembers, ViewWritten
<1>6. ViewRising
  BY <1>1, <1>2, <1>4 DEF ViewRising, Due
<1>7. ViewReaches /\ ViewCurrent
  BY <1>1 DEF ViewReaches, ViewCurrent
<1> QED
  BY <1>3, <1>5, <1>6, <1>7 DEF ViewInv

LEMMA ViewWrite == ASSUME ViewInv, NEW i \in Events, View!Write(i) PROVE ViewInv'
<1>1. /\ spool' = Append(spool, i) /\ projected' = projected /\ state' = state /\ outbox' = outbox /\ link' = link /\ chan' = chan
      /\ at' = at /\ history' = history /\ pending' = pending /\ seen' = seen /\ shown' = shown /\ view' = view /\ limits' = limits
  BY Zenon DEF View!Write, View!bracket, View!viewer
<1>2. View!TypeOK
  BY DEF ViewInv
<1>3. spool' \in Seq(Events) /\ View!Elements(spool') = View!Elements(spool) \cup {i}
  BY <1>1, <1>2, ElementsAppend DEF View!TypeOK
<1>4. View!TypeOK'
  BY <1>1, <1>2, <1>3 DEF View!TypeOK
<1>5. ViewWritten'
  BY <1>1, <1>3 DEF ViewInv, ViewWritten
<1>6. ViewPlaces' /\ ViewRemembers' /\ ViewRising'
  BY <1>1, Zenon DEF ViewInv, ViewPlaces, ViewRemembers, ViewRising, Current
<1>7. ViewReaches' /\ ViewCurrent'
  BY <1>1, Zenon DEF ViewInv, ViewReaches, ViewCurrent, Current
<1> QED
  BY <1>4, <1>5, <1>6, <1>7 DEF ViewInv

\* What is projected at rest is one event, a turn of the session, or both.
LEMMA ViewQueues ==
  ASSUME ViewInv, outbox = <<>>, state' \in View!Versions, outbox' \in Seq(View!Frames), Due(outbox', state'),
         projected' = projected \cup EventsIn(outbox'), EventsIn(outbox') \subseteq View!Elements(spool),
         \/ state' = state /\ Current' \notin View!Elements(outbox')
         \/ state' = state + 1 /\ Current' \in View!Elements(outbox'),
         UNCHANGED <<spool, link, chan, at, history, pending, seen, shown, view, limits>>
  PROVE  ViewInv'
<1>1. /\ spool' = spool /\ link' = link /\ chan' = chan
      /\ at' = at /\ history' = history /\ pending' = pending /\ seen' = seen /\ shown' = shown /\ view' = view /\ limits' = limits
  BY Zenon
<1>2. View!TypeOK
  BY DEF ViewInv
<1>3. View!TypeOK'
  <2>1. View!Elements(spool) \subseteq Events /\ projected \subseteq Events
    BY <1>2, ElementsTyped DEF View!TypeOK
  <2>2. projected' \in SUBSET Events
    BY <2>1
  <2> QED
    BY <1>1, <1>2, <2>2 DEF View!TypeOK
<1>4. ViewPlaces' /\ ViewRemembers'
  BY <1>1, Zenon DEF ViewInv, ViewPlaces, ViewRemembers
<1>5. EventsIn(outbox) = {} /\ Current \notin View!Elements(outbox)
  BY EventsInEmpty, ElementsEmpty
<1>6. ViewWritten'
  <2>1. projected \cup View!Elements(shown) \cup View!Elements(history) \cup EventsIn(pending) \cup EventsIn(chan) \subseteq View!Elements(spool)
    BY DEF ViewInv, ViewWritten
  <2> QED
    BY <1>1, <2>1 DEF ViewWritten
<1>7. ViewRising'
  <2>1. Rising(chan') /\ \A f \in View!Elements(seen'), g \in View!Elements(chan') : IsTurn(f) /\ IsTurn(g) => f[2] < g[2]
    BY <1>1, Zenon DEF ViewInv, ViewRising
  <2>2. ASSUME NEW f \in View!Elements(chan) \cup View!Elements(seen), IsTurn(f)
        PROVE  f[2] <= state' /\ (Current' \in View!Elements(outbox') => f[2] < state')
    <3>1. f[2] <= state
      BY <2>2 DEF ViewInv, ViewRising
    <3>2. f \in View!Frames
      BY <1>2, ElementsTyped DEF View!TypeOK
    <3>3. f[2] \in Nat /\ state \in Nat
      BY <1>2, <2>2, <3>2, FrameFacts DEF View!TypeOK, View!Versions
    <3> QED
      BY <3>1, <3>3
  <2> QED
    BY <1>1, <2>1, <2>2, Zenon DEF ViewRising
<1>8. ViewReaches'
  <2>1. link = "open" /\ at \in {"sessions", "forward", "attached"} =>
          projected \subseteq View!Elements(history) \cup EventsIn(pending) \cup View!Elements(shown) \cup EventsIn(chan)
    BY <1>5 DEF ViewInv, ViewReaches
  <2> QED
    BY <1>1, <2>1 DEF ViewReaches
<1>9. ViewCurrent'
  <2>1. CASE state' = state /\ Current' \notin View!Elements(outbox')
    <3>1. Current' = Current
      BY <2>1 DEF Current
    <3> QED
      BY <1>1, <1>5, <2>1, <3>1, Zenon DEF ViewInv, ViewCurrent
  <2>2. CASE Current' \in View!Elements(outbox')
    BY <2>2 DEF ViewCurrent
  <2> QED
    BY <2>1, <2>2
<1> QED
  BY <1>3, <1>4, <1>6, <1>7, <1>8, <1>9 DEF ViewInv

LEMMA ViewProject == ASSUME ViewInv, NEW i \in Events, View!Project(i) PROVE ViewInv'
<1>1. /\ outbox = <<>> /\ i \in View!Elements(spool) /\ projected' = projected \cup {i}
      /\ \/ outbox' = <<View!EventFrame(i)>> /\ state' = state
         \/ state < MaxVersions /\ state' = state + 1 /\ outbox' = <<View!TransitionFrame(state + 1), View!EventFrame(i)>>
      /\ UNCHANGED <<spool, link, chan, at, history, pending, seen, shown, view, limits>>
  BY Zenon DEF View!Project, View!bracket, View!viewer
<1>2. state \in View!Versions /\ state \in Nat
  BY DEF ViewInv, View!TypeOK, View!Versions
<1>3. CASE outbox' = <<View!EventFrame(i)>> /\ state' = state
  <2>1. outbox' \in Seq(View!Frames) /\ EventsIn(outbox') = {i} /\ Current' \notin View!Elements(outbox')
    BY <1>2, <1>3, DueEvent DEF Current
  <2>2. Due(outbox', state')
    BY <1>3, Zenon DEF Due
  <2> QED
    BY <1>1, <1>2, <1>3, <2>1, <2>2, ViewQueues
<1>4. CASE state < MaxVersions /\ state' = state + 1 /\ outbox' = <<View!TransitionFrame(state + 1), View!EventFrame(i)>>
  <2>1. state' \in View!Versions
    BY <1>2, <1>4, ViewAssumption DEF View!Versions
  <2>2. outbox' = <<View!TransitionFrame(state'), View!EventFrame(i)>>
    BY <1>4
  <2>3. outbox' \in Seq(View!Frames) /\ EventsIn(outbox') = {i} /\ Current' \in View!Elements(outbox')
    BY <2>1, <2>2, DueBoth DEF Current
  <2>4. Due(outbox', state')
    BY <2>2, Zenon DEF Due
  <2> QED
    BY <1>1, <1>4, <2>1, <2>3, <2>4, ViewQueues
<1> QED
  BY <1>1, <1>3, <1>4

LEMMA ViewIdle == ASSUME ViewInv, View!IdleSweep PROVE ViewInv'
<1>1. /\ outbox = <<>> /\ projected' = projected /\ state < MaxVersions /\ state' = state + 1
      /\ outbox' = <<View!TransitionFrame(state + 1)>>
      /\ UNCHANGED <<spool, link, chan, at, history, pending, seen, shown, view, limits>>
  BY Zenon DEF View!IdleSweep, View!bracket, View!viewer
<1>2. state \in Nat
  BY DEF ViewInv, View!TypeOK, View!Versions
<1>3. state' \in View!Versions
  BY <1>1, <1>2, ViewAssumption DEF View!Versions
<1>4. outbox' = <<View!TransitionFrame(state')>>
  BY <1>1
<1>5. outbox' \in Seq(View!Frames) /\ EventsIn(outbox') = {} /\ Current' \in View!Elements(outbox')
  BY <1>3, <1>4, DueTurn DEF Current
<1>6. Due(outbox', state')
  BY <1>4, Zenon DEF Due
<1>7. projected' = projected \cup EventsIn(outbox') /\ EventsIn(outbox') \subseteq View!Elements(spool)
  BY <1>1, <1>5
<1> QED
  BY <1>1, <1>3, <1>5, <1>6, <1>7, ViewQueues

LEMMA ViewPublish == ASSUME ViewInv, View!Publish PROVE ViewInv'
<1>1. /\ outbox # <<>> /\ outbox' = Tail(outbox)
      /\ \/ link = "open" /\ Len(chan) < Capacity /\ chan' = Append(chan, Head(outbox)) /\ link' = link
         \/ link = "open" /\ link' = "closed" /\ chan' = chan
         \/ link # "open" /\ link' = link /\ chan' = chan
  BY Zenon DEF View!Publish
<1>2. /\ spool' = spool /\ projected' = projected /\ state' = state
      /\ at' = at /\ history' = history /\ pending' = pending /\ seen' = seen /\ shown' = shown /\ view' = view /\ limits' = limits
  BY Zenon DEF View!Publish, View!bracket, View!viewer
<1>3. View!TypeOK /\ outbox \in Seq(View!Frames) /\ chan \in Seq(View!Frames) /\ state \in View!Versions /\ Due(outbox, state)
  BY DEF ViewInv, View!TypeOK, ViewRising
<1>4. PICK h \in View!Frames : h = Head(outbox)
  BY <1>1, <1>3, DueTail
<1>5. /\ outbox' \in Seq(View!Frames) /\ Due(outbox', state) /\ Current \notin View!Elements(outbox')
      /\ IsTurn(h) => h = Current
      /\ Current \in View!Elements(outbox) <=> IsTurn(h)
      /\ EventsIn(outbox) = EventsIn(outbox') \cup Carried(h)
  BY <1>1, <1>3, <1>4, DueTail DEF Current
<1>6. Current' = Current
  BY <1>2 DEF Current
<1>7. ViewRemembers'
  BY <1>2, Zenon DEF ViewInv, ViewRemembers
<1>8. \A f \in View!Elements(chan) \cup View!Elements(seen) :
        IsTurn(f) => f[2] <= state /\ (IsTurn(h) => f[2] < state)
  BY <1>5 DEF ViewInv, ViewRising
<1>9. CASE link = "open" /\ Len(chan) < Capacity /\ chan' = Append(chan, h) /\ link' = link
  <2>1. /\ chan' \in Seq(View!Frames) /\ View!Elements(chan') = View!Elements(chan) \cup {h}
        /\ EventsIn(chan') = EventsIn(chan) \cup Carried(h)
        /\ HasTurn(chan') <=> HasTurn(chan) \/ IsTurn(h)
    BY <1>3, <1>9, ElementsAppend, EventsInAppend
  <2>2. Len(chan') <= Capacity
    <3>1. Len(chan) \in Nat /\ Len(chan') = Len(chan) + 1
      BY <1>3, <1>9
    <3> QED
      BY <1>9, <3>1, ViewAssumption
  <2>3. View!TypeOK'
    BY <1>2, <1>3, <1>5, <1>9, <2>1, <2>2 DEF View!TypeOK
  <2>4. ViewPlaces'
    BY <1>2, <1>9 DEF ViewInv, ViewPlaces
  <2>5. ViewWritten'
    BY <1>2, <1>5, <2>1 DEF ViewInv, ViewWritten
  <2>6. IsTurn(h) => h[2] = state
    BY <1>3, <1>5, FrameFacts DEF Current
  <2>7. ViewRising'
    <3>1. Rising(chan')
      <4>1. \A g \in View!Elements(chan) : IsTurn(g) /\ IsTurn(h) => g[2] < h[2]
        BY <1>8, <2>6
      <4> QED
        BY <1>3, <1>9, <4>1, RisingAppend DEF ViewInv, ViewRising
    <3>2. \A f \in View!Elements(chan') \cup View!Elements(seen') : IsTurn(f) => f[2] <= state
      <4>1. state \in Nat
        BY <1>3 DEF View!Versions
      <4>2. IsTurn(h) => h[2] <= state
        BY <2>6, <4>1
      <4> QED
        BY <1>2, <1>8, <2>1, <4>2
    <3>3. \A f \in View!Elements(seen), g \in View!Elements(chan) : IsTurn(f) /\ IsTurn(g) => f[2] < g[2]
      BY DEF ViewInv, ViewRising
    <3>4. \A f \in View!Elements(seen'), g \in View!Elements(chan') : IsTurn(f) /\ IsTurn(g) => f[2] < g[2]
      BY <1>2, <1>8, <2>1, <2>6, <3>3
    <3> QED
      BY <1>2, <1>5, <1>6, <3>1, <3>2, <3>4 DEF ViewRising
  <2>8. ViewReaches'
    BY <1>2, <1>5, <1>9, <2>1 DEF ViewInv, ViewReaches
  <2>9. ViewCurrent'
    <3>1. HasTurn(chan') => Current \in View!Elements(chan')
      <4>1. HasTurn(chan) => Current \in View!Elements(chan) \cup View!Elements(outbox)
        BY <1>9 DEF ViewInv, ViewCurrent
      <4> QED
        BY <1>5, <2>1, <4>1
    <3>2. ~HasTurn(chan') => ~HasTurn(chan) /\ Current \notin View!Elements(outbox)
      BY <1>5, <2>1
    <3> QED
      BY <1>2, <1>6, <1>9, <3>1, <3>2 DEF ViewInv, ViewCurrent
  <2> QED
    BY <1>7, <2>3, <2>4, <2>5, <2>7, <2>8, <2>9 DEF ViewInv
<1>10. CASE chan' = chan /\ link' # "open" /\ (link' = "none" <=> link = "none") /\ link' \in {"none", "closed"}
  <2>1. View!TypeOK'
    BY <1>2, <1>3, <1>5, <1>10 DEF View!TypeOK
  <2>2. ViewPlaces'
    BY <1>2, <1>10 DEF ViewInv, ViewPlaces
  <2>3. ViewWritten'
    BY <1>2, <1>5, <1>10 DEF ViewInv, ViewWritten
  <2>4. ViewRising'
    BY <1>2, <1>5, <1>6, <1>8, <1>10 DEF ViewInv, ViewRising
  <2>5. ViewReaches' /\ ViewCurrent'
    BY <1>10 DEF ViewReaches, ViewCurrent
  <2> QED
    BY <1>7, <2>1, <2>2, <2>3, <2>4, <2>5 DEF ViewInv
<1>11. link \in {"none", "open", "closed"}
  BY <1>3 DEF View!TypeOK
<1> QED
  BY <1>1, <1>4, <1>9, <1>10, <1>11

LEMMA ViewDrop == ASSUME ViewInv, View!Drop PROVE ViewInv'
<1>1. /\ link = "open" /\ link' = "closed" /\ limits.drops > 0 /\ limits' = [limits EXCEPT !.drops = @ - 1]
      /\ \E n \in 0..Len(chan) : chan' = SubSeq(chan, 1, n)
  BY Zenon DEF View!Drop
<1>2. /\ spool' = spool /\ projected' = projected /\ state' = state /\ outbox' = outbox
      /\ at' = at /\ history' = history /\ pending' = pending /\ seen' = seen /\ shown' = shown /\ view' = view
  BY Zenon DEF View!Drop, View!engine, View!bracket, View!viewer
<1>3. View!TypeOK /\ chan \in Seq(View!Frames) /\ Len(chan) <= Capacity /\ limits \in [drops: 0..MaxDrops, fails: 0..MaxFails]
  BY DEF ViewInv, View!TypeOK
<1>4. PICK n \in 0..Len(chan) : chan' = SubSeq(chan, 1, n)
  BY <1>1
<1>5. chan' \in Seq(View!Frames) /\ Len(chan') = n /\ View!Elements(chan') \subseteq View!Elements(chan)
  BY <1>3, <1>4, ElementsPrefix
<1>6. Rising(chan')
  BY <1>3, <1>4, RisingPrefix DEF ViewInv, ViewRising
<1>7. View!TypeOK'
  <2>1. limits' \in [drops: 0..MaxDrops, fails: 0..MaxFails]
    BY <1>1, <1>3, ViewAssumption
  <2>2. Len(chan') <= Capacity
    <3>1. Len(chan) \in Nat
      BY <1>3
    <3> QED
      BY <1>3, <1>5, <3>1, ViewAssumption
  <2> QED
    BY <1>1, <1>2, <1>3, <1>5, <2>1, <2>2 DEF View!TypeOK
<1>8. Current' = Current
  BY <1>2 DEF Current
<1>9. ViewPlaces' /\ ViewRemembers'
  BY <1>1, <1>2 DEF ViewInv, ViewPlaces, ViewRemembers
<1>10. ViewWritten'
  <2>1. EventsIn(chan') \subseteq EventsIn(chan)
    BY <1>5 DEF EventsIn
  <2> QED
    BY <1>2, <2>1 DEF ViewInv, ViewWritten
<1>11. ViewRising'
  BY <1>2, <1>5, <1>6, <1>8 DEF ViewInv, ViewRising
<1>12. ViewReaches' /\ ViewCurrent'
  BY <1>1 DEF ViewReaches, ViewCurrent
<1> QED
  BY <1>7, <1>9, <1>10, <1>11, <1>12 DEF ViewInv

LEMMA ViewReadRecent == ASSUME ViewInv, Room, View!ReadRecent PROVE ViewInv'
<1>1. /\ at = "recent" /\ history' = View!Recent /\ at' = "subscribe"
      /\ spool' = spool /\ projected' = projected /\ state' = state /\ outbox' = outbox /\ link' = link /\ chan' = chan
      /\ pending' = pending /\ seen' = seen /\ shown' = shown /\ view' = view /\ limits' = limits
  BY Zenon DEF View!ReadRecent, View!engine, View!viewer
<1>2. View!TypeOK /\ link = "none"
  BY <1>1 DEF ViewInv, ViewPlaces
<1>3. history' \in Seq(Events) /\ View!Elements(history') = View!Elements(spool)
  BY <1>1, <1>2, RecentWhole
<1>4. View!TypeOK'
  BY <1>1, <1>2, <1>3 DEF View!TypeOK
<1>5. ViewPlaces'
  BY <1>1, <1>2 DEF ViewInv, ViewPlaces
<1>6. ViewWritten'
  BY <1>1, <1>3 DEF ViewInv, ViewWritten
<1>7. ViewRemembers' /\ ViewRising'
  BY <1>1, Zenon DEF ViewInv, ViewRemembers, ViewRising, Current
<1>8. ViewReaches' /\ ViewCurrent'
  BY <1>1, <1>2 DEF ViewReaches, ViewCurrent
<1> QED
  BY <1>4, <1>5, <1>6, <1>7, <1>8 DEF ViewInv

LEMMA ViewSubscribe == ASSUME ViewInv, View!Subscribe PROVE ViewInv'
<1>1. /\ at = "subscribe" /\ link' = "open" /\ chan' = <<>> /\ at' = "catchup"
      /\ spool' = spool /\ projected' = projected /\ state' = state /\ outbox' = outbox
      /\ history' = history /\ pending' = pending /\ seen' = seen /\ shown' = shown /\ view' = view /\ limits' = limits
  BY Zenon DEF View!Subscribe, View!engine, View!bracket, View!viewer
<1>2. View!TypeOK /\ pending = <<>>
  BY <1>1 DEF ViewInv, ViewPlaces
<1>3. View!Elements(chan') = {} /\ EventsIn(chan') = {} /\ ~HasTurn(chan')
  BY <1>1, ElementsEmpty, EventsInEmpty
<1>4. View!TypeOK'
  BY <1>1, <1>2, ViewAssumption DEF View!TypeOK
<1>5. ViewPlaces'
  BY <1>1, <1>2 DEF ViewPlaces
<1>6. ViewWritten'
  BY <1>1, <1>3 DEF ViewInv, ViewWritten
<1>7. ViewRemembers'
  BY <1>1, Zenon DEF ViewInv, ViewRemembers
<1>8. ViewRising'
  <2>1. Rising(chan')
    BY <1>1 DEF Rising
  <2>2. Current' = Current
    BY <1>1 DEF Current
  <2> QED
    BY <1>1, <1>3, <2>1, <2>2 DEF ViewInv, ViewRising
<1>9. ViewReaches' /\ ViewCurrent'
  BY <1>1, <1>3 DEF ViewReaches, ViewCurrent
<1> QED
  BY <1>4, <1>5, <1>6, <1>7, <1>8, <1>9 DEF ViewInv

\* The second read, after the channel is there, has all that was projected.
LEMMA ViewCatchup == ASSUME ViewInv, Room, View!ReadCatchup PROVE ViewInv'
<1>1. /\ at = "catchup" /\ history' = history \o View!Recent /\ at' = "sessions"
      /\ spool' = spool /\ projected' = projected /\ state' = state /\ outbox' = outbox /\ link' = link /\ chan' = chan
      /\ pending' = pending /\ seen' = seen /\ shown' = shown /\ view' = view /\ limits' = limits
  BY Zenon DEF View!ReadCatchup, View!engine, View!viewer
<1>2. View!TypeOK /\ pending = <<>> /\ link # "none" /\ history \in Seq(Events)
  BY <1>1 DEF ViewInv, ViewPlaces, View!TypeOK
<1>3. /\ history' \in Seq(Events)
      /\ View!Elements(history') = View!Elements(history) \cup View!Elements(spool)
  BY <1>1, <1>2, RecentWhole, ElementsConcat
<1>4. View!TypeOK'
  BY <1>1, <1>2, <1>3 DEF View!TypeOK
<1>5. ViewPlaces'
  BY <1>1, <1>2 DEF ViewInv, ViewPlaces
<1>6. ViewWritten'
  BY <1>1, <1>3 DEF ViewInv, ViewWritten
<1>7. ViewRemembers' /\ ViewRising'
  BY <1>1, Zenon DEF ViewInv, ViewRemembers, ViewRising, Current
<1>8. ViewReaches'
  <2>1. projected \subseteq View!Elements(spool)
    BY DEF ViewInv, ViewWritten
  <2> QED
    BY <1>1, <1>3, <2>1 DEF ViewReaches
<1>9. ViewCurrent'
  <2>1. Current' = Current
    BY <1>1 DEF Current
  <2> QED
    BY <1>1, <2>1 DEF ViewInv, ViewCurrent
<1> QED
  BY <1>4, <1>5, <1>6, <1>7, <1>8, <1>9 DEF ViewInv

\* What is handed over then: the history that was not shown, and last the state.
LEMMA PendingIs ==
  ASSUME ViewInv, NEW p, p = Append([n \in DOMAIN View!Novel |-> View!EventFrame(View!Novel[n])], View!TransitionFrame(state))
  PROVE  /\ p \in Seq(View!Frames) /\ p # <<>> /\ p[Len(p)] = Current
         /\ EventsIn(p) = View!Elements(history) \ View!Elements(shown)
<1>1. View!TypeOK /\ history \in Seq(Events) /\ seen \in Seq(View!Frames) /\ state \in View!Versions
  BY DEF ViewInv, View!TypeOK
<1>2. PICK known : known = {f[2] : f \in {g \in View!Elements(seen) : g[1] = "event"}}
  OBVIOUS
<1>3. known = View!Elements(shown)
  <2>1. View!Elements(seen) \subseteq View!Frames
    BY <1>1, ElementsTyped
  <2>2. \A i \in known : i \in EventsIn(seen)
    <3>1. ASSUME NEW f \in View!Elements(seen), f[1] = "event"
          PROVE  f[2] \in EventsIn(seen)
      <4>1. ~IsTurn(f)
        BY <3>1 DEF IsTurn
      <4> QED
        BY <2>1, <4>1, EventsInAre
    <3> QED
      BY <1>2, <3>1
  <2>3. \A i \in EventsIn(seen) : i \in known
    <3>1. ASSUME NEW i \in EventsIn(seen)
          PROVE  i \in known
      <4>1. PICK f \in View!Elements(seen) : f = View!EventFrame(i) /\ i \in Events
        BY <2>1, <3>1, EventsInAre
      <4>2. f[1] = "event" /\ f[2] = i
        BY <4>1, FrameFacts
      <4> QED
        BY <1>2, <4>2
    <3> QED
      BY <3>1
  <2>4. known = EventsIn(seen)
    BY <2>2, <2>3
  <2> QED
    BY <2>4 DEF ViewInv, ViewRemembers
<1>4. PICK d \in Seq(Events) : d = View!Novel /\ View!Elements(d) = View!Elements(history) \ View!Elements(shown)
  <2>1. PICK e \in Seq(Events) : e = View!Distinct(history, known) /\ View!Elements(e) = View!Elements(history) \ known
    BY <1>1, DistinctMeans
  <2>2. View!Novel = e
    BY <1>2, <2>1, Zenon DEF View!Novel
  <2> QED
    BY <1>3, <2>1, <2>2
<1>5. PICK q : q = [n \in DOMAIN d |-> View!EventFrame(d[n])]
  OBVIOUS
<1>6. Len(d) \in Nat /\ DOMAIN d = 1..Len(d) /\ \A n \in 1..Len(d) : d[n] \in Events
  BY <1>4
<1>7. q \in Seq(View!Frames) /\ Len(q) = Len(d) /\ \A n \in 1..Len(d) : q[n] = View!EventFrame(d[n])
  <2>1. q = [n \in 1..Len(d) |-> View!EventFrame(d[n])]
    BY <1>5, <1>6
  <2>2. \A n \in 1..Len(d) : View!EventFrame(d[n]) \in View!Frames
    BY <1>6, FrameFacts
  <2> QED
    BY <1>6, <2>1, <2>2
<1>8. p = Append(q, Current) /\ Current \in View!Frames /\ Carried(Current) = {}
  BY <1>1, <1>4, <1>5, FrameFacts DEF Current, Carried
<1>9. EventsIn(q) = View!Elements(d)
  <2>1. View!Elements(q) \subseteq View!Frames /\ View!Elements(d) \subseteq Events
    BY <1>4, <1>7, ElementsTyped
  <2>2. ASSUME NEW i \in EventsIn(q)
        PROVE  i \in View!Elements(d)
    <3>1. i \in Events /\ View!EventFrame(i) \in View!Elements(q)
      BY <2>1, <2>2, EventsInAre
    <3>2. PICK n \in 1..Len(q) : q[n] = View!EventFrame(i)
      BY <1>7, <3>1, ElementsAre, Zenon
    <3>3. n \in 1..Len(d) /\ d[n] = i
      BY <1>6, <1>7, <3>1, <3>2, FrameFacts
    <3> QED
      BY <1>4, <3>3, ElementsAre, Zenon
  <2>3. ASSUME NEW i \in View!Elements(d)
        PROVE  i \in EventsIn(q)
    <3>1. PICK n \in 1..Len(d) : d[n] = i
      BY <1>4, <2>3, ElementsAre, Zenon
    <3>2. n \in 1..Len(q) /\ q[n] = View!EventFrame(i)
      BY <1>7, <3>1
    <3>3. View!EventFrame(i) \in View!Elements(q)
      BY <1>7, <3>2, ElementsAre, Zenon
    <3> QED
      BY <2>1, <2>3, <3>3, EventsInAre
  <2> QED
    BY <2>2, <2>3
<1>10. p \in Seq(View!Frames) /\ EventsIn(p) = EventsIn(q)
  <2>1. PICK c \in View!Frames : c = Current /\ Carried(c) = {} /\ p = Append(q, c)
    BY <1>8
  <2>2. Append(q, c) \in Seq(View!Frames)
    BY <1>7, ElementsAppend
  <2>3. EventsIn(Append(q, c)) = EventsIn(q) \cup Carried(c)
    BY <1>7, EventsInAppend
  <2> QED
    BY <2>1, <2>2, <2>3
<1>11. p # <<>> /\ p[Len(p)] = Current
  <2>1. PICK c \in View!Frames : c = Current
    BY <1>8
  <2>2. PICK t \in Seq(View!Frames) : t = Append(q, c) /\ Len(t) = Len(q) + 1 /\ t[Len(q) + 1] = c /\ t # <<>>
    BY <1>7, AppendProperties
  <2> QED
    BY <1>8, <2>1, <2>2
<1> QED
  BY <1>4, <1>9, <1>10, <1>11

LEMMA ViewSessions == ASSUME ViewInv, View!ReadSessions PROVE ViewInv'
<1>1. /\ at = "sessions" /\ history' = <<>> /\ at' = "forward"
      /\ pending' = Append([n \in DOMAIN View!Novel |-> View!EventFrame(View!Novel[n])], View!TransitionFrame(state))
      /\ spool' = spool /\ projected' = projected /\ state' = state /\ outbox' = outbox /\ link' = link /\ chan' = chan
      /\ seen' = seen /\ shown' = shown /\ view' = view /\ limits' = limits
  BY Zenon DEF View!ReadSessions, View!engine, View!viewer
<1>2. View!TypeOK /\ link # "none"
  BY <1>1 DEF ViewInv, ViewPlaces
<1>3. /\ pending' \in Seq(View!Frames) /\ pending' # <<>> /\ pending'[Len(pending')] = Current
      /\ EventsIn(pending') = View!Elements(history) \ View!Elements(shown)
  BY <1>1, PendingIs
<1>4. View!TypeOK'
  BY <1>1, <1>2, <1>3 DEF View!TypeOK
<1>5. ViewPlaces'
  BY <1>1, <1>2 DEF ViewInv, ViewPlaces
<1>6. View!Elements(history') = {}
  BY <1>1, ElementsEmpty
<1>7. ViewWritten'
  BY <1>1, <1>3, <1>6 DEF ViewInv, ViewWritten
<1>8. ViewRemembers' /\ ViewRising'
  BY <1>1, Zenon DEF ViewInv, ViewRemembers, ViewRising, Current
<1>9. ViewReaches'
  <2>1. EventsIn(pending) = {}
    BY <1>1, EventsInEmpty DEF ViewInv, ViewPlaces
  <2> QED
    BY <1>1, <1>3, <1>6, <2>1 DEF ViewInv, ViewReaches
<1>10. ViewCurrent'
  <2>1. Current' = Current
    BY <1>1 DEF Current
  <2> QED
    BY <1>1, <1>3, <2>1 DEF ViewInv, ViewCurrent
<1> QED
  BY <1>4, <1>5, <1>7, <1>8, <1>9, <1>10 DEF ViewInv

LEMMA ViewFails == ASSUME ViewInv, View!BracketFails PROVE ViewInv'
<1>1. /\ at \in {"recent", "subscribe", "catchup", "sessions"} /\ limits.fails > 0
      /\ limits' = [limits EXCEPT !.fails = @ - 1]
      /\ at' = "recent" /\ history' = <<>> /\ link' = "none" /\ chan' = <<>>
      /\ spool' = spool /\ projected' = projected /\ state' = state /\ outbox' = outbox
      /\ pending' = pending /\ seen' = seen /\ shown' = shown /\ view' = view
  BY Zenon DEF View!BracketFails, View!engine, View!viewer
<1>2. View!TypeOK /\ pending = <<>> /\ limits \in [drops: 0..MaxDrops, fails: 0..MaxFails]
  BY <1>1 DEF ViewInv, ViewPlaces, View!TypeOK
<1>3. View!Elements(chan') = {} /\ EventsIn(chan') = {} /\ View!Elements(history') = {}
  BY <1>1, ElementsEmpty, EventsInEmpty
<1>4. View!TypeOK'
  <2>1. limits' \in [drops: 0..MaxDrops, fails: 0..MaxFails]
    BY <1>1, <1>2, ViewAssumption
  <2> QED
    BY <1>1, <1>2, <2>1, ViewAssumption DEF View!TypeOK
<1>5. ViewPlaces'
  BY <1>1, <1>2 DEF ViewPlaces
<1>6. ViewWritten'
  BY <1>1, <1>3 DEF ViewInv, ViewWritten
<1>7. ViewRemembers'
  BY <1>1, Zenon DEF ViewInv, ViewRemembers
<1>8. ViewRising'
  <2>1. Rising(chan')
    BY <1>1 DEF Rising
  <2>2. Current' = Current
    BY <1>1 DEF Current
  <2> QED
    BY <1>1, <1>3, <2>1, <2>2 DEF ViewInv, ViewRising
<1>9. ViewReaches' /\ ViewCurrent'
  BY <1>1 DEF ViewReaches, ViewCurrent
<1> QED
  BY <1>4, <1>5, <1>6, <1>7, <1>8, <1>9 DEF ViewInv

\* The last of a sequence stays the last of its tail.
LEMMA LastOfTail ==
  ASSUME NEW S, NEW s \in Seq(S), s # <<>>
  PROVE  IF Tail(s) = <<>> THEN s[Len(s)] = Head(s) ELSE s[Len(s)] = Tail(s)[Len(Tail(s))]
<1>1. PICK t \in Seq(S) : t = Tail(s)
  BY HeadTailProperties
<1>2. /\ Len(s) \in Nat \ {0} /\ Len(t) = Len(s) - 1 /\ \A i \in 1..Len(t) : t[i] = s[i + 1]
  BY <1>1, HeadTailProperties, EmptySeq
<1>3. Head(s) = s[1]
  OBVIOUS
<1>4. CASE t = <<>>
  <2>1. Len(s) = 1
    BY <1>2, <1>4
  <2> QED
    BY <1>1, <1>3, <1>4, <2>1
<1>5. CASE t # <<>>
  <2>1. Len(t) \in 1..Len(t) /\ Len(t) + 1 = Len(s)
    BY <1>2, <1>5, EmptySeq
  <2> QED
    BY <1>1, <1>2, <1>5, <2>1
<1> QED
  BY <1>4, <1>5

\* An event that is remembered was shown.
LEMMA EventRemembered ==
  ASSUME ViewInv, NEW f \in View!Frames, ~IsTurn(f)
  PROVE  f[2] \in Events /\ (f \in View!Elements(seen) <=> f[2] \in View!Elements(shown))
<1>1. f[2] \in Events /\ f = View!EventFrame(f[2])
  BY FrameFacts
<1>2. View!Elements(seen) \subseteq View!Frames
  BY ElementsTyped DEF ViewInv, View!TypeOK
<1> QED
  BY <1>1, <1>2, EventsInAre DEF ViewInv, ViewRemembers

\* What a new frame does to what is remembered and shown.
LEMMA RemembersEvent ==
  ASSUME ViewInv, Room, NEW f \in View!Frames, ~IsTurn(f), f \notin View!Elements(seen),
         seen' = View!Remember(f), shown' = Append(shown, f[2])
  PROVE  /\ seen' \in Seq(View!Frames) /\ shown' \in Seq(Events) /\ ViewRemembers'
         /\ View!Elements(seen') = View!Elements(seen) \cup {f}
         /\ View!Elements(shown') = View!Elements(shown) \cup {f[2]}
<1>1. View!TypeOK /\ Apart(seen) /\ Apart(shown) /\ EventsIn(seen) = View!Elements(shown)
      /\ seen \in Seq(View!Frames) /\ shown \in Seq(Events)
  BY DEF ViewInv, ViewRemembers, View!TypeOK
<1>2. PICK i \in Events : i = f[2] /\ i \notin View!Elements(shown) /\ Carried(f) = {i}
  BY EventRemembered DEF Carried
<1>3. /\ seen' = Append(seen, f) /\ seen' \in Seq(View!Frames) /\ Apart(seen')
      /\ View!Elements(seen') = View!Elements(seen) \cup {f}
  BY <1>1, Remembered
<1>4. /\ shown' \in Seq(Events) /\ Apart(shown') /\ View!Elements(shown') = View!Elements(shown) \cup {i}
  BY <1>1, <1>2, ElementsAppend, ApartAppend
<1>5. EventsIn(seen') = EventsIn(seen) \cup {i}
  BY <1>1, <1>2, <1>3, EventsInAppend
<1>6. ViewRemembers'
  BY <1>1, <1>3, <1>4, <1>5 DEF ViewRemembers
<1> QED
  BY <1>2, <1>3, <1>4, <1>6

LEMMA RemembersTurn ==
  ASSUME ViewInv, Room, NEW f \in View!Frames, IsTurn(f), f \notin View!Elements(seen),
         seen' = View!Remember(f), shown' = shown
  PROVE  /\ seen' \in Seq(View!Frames) /\ ViewRemembers'
         /\ View!Elements(seen') = View!Elements(seen) \cup {f}
<1>1. View!TypeOK /\ Apart(seen) /\ Apart(shown) /\ EventsIn(seen) = View!Elements(shown)
      /\ seen \in Seq(View!Frames)
  BY DEF ViewInv, ViewRemembers, View!TypeOK
<1>2. /\ seen' = Append(seen, f) /\ seen' \in Seq(View!Frames) /\ Apart(seen')
      /\ View!Elements(seen') = View!Elements(seen) \cup {f}
  BY <1>1, Remembered
<1>3. EventsIn(seen') = EventsIn(seen)
  <2>1. EventsIn(seen') = EventsIn(seen) \cup Carried(f)
    BY <1>1, <1>2, EventsInAppend
  <2> QED
    BY <2>1 DEF Carried
<1>4. ViewRemembers'
  BY <1>1, <1>2, <1>3 DEF ViewRemembers
<1> QED
  BY <1>2, <1>4

LEMMA ViewPending == ASSUME ViewInv, Room, View!ForwardPending PROVE ViewInv'
<1>1. /\ at = "forward" /\ pending # <<>> /\ pending' = Tail(pending)
      /\ spool' = spool /\ projected' = projected /\ state' = state /\ outbox' = outbox /\ link' = link /\ chan' = chan
      /\ at' = at /\ history' = history /\ limits' = limits
  BY Zenon DEF View!ForwardPending, View!engine
<1>2. View!TypeOK /\ pending \in Seq(View!Frames) /\ seen \in Seq(View!Frames) /\ shown \in Seq(Events) /\ state \in View!Versions
  BY DEF ViewInv, View!TypeOK
<1>3. PICK f \in View!Frames : f = Head(pending)
  BY <1>1, <1>2, ElementsTail
<1>4. /\ f[1] = "event" => /\ shown' = IF f \in View!Elements(seen) THEN shown ELSE Append(shown, f[2])
                           /\ seen' = View!Remember(f) /\ view' = view
      /\ f[1] # "event" => view' = f[2] /\ seen' = seen /\ shown' = shown
  BY <1>3, Zenon DEF View!ForwardPending
<1>5. /\ pending' \in Seq(View!Frames) /\ EventsIn(pending) = EventsIn(pending') \cup Carried(f)
  BY <1>1, <1>2, <1>3, ElementsTail, EventsInTail
<1>6. \A g \in View!Elements(pending) : IsTurn(g) \/ g[2] \in EventsIn(pending)
  BY <1>2, ElementsTyped, EventsInAre
<1>7. Current' = Current
  BY <1>1 DEF Current
<1>8. /\ seen' \in Seq(View!Frames) /\ shown' \in Seq(Events) /\ view' \in View!Versions /\ ViewRemembers'
      /\ View!Elements(shown') = View!Elements(shown) \cup Carried(f)
      /\ \A g \in View!Elements(seen') : IsTurn(g) => g \in View!Elements(seen)
  <2>1. CASE IsTurn(f)
    <3>1. f[2] \in View!Versions /\ f[1] # "event" /\ Carried(f) = {}
      BY <2>1, FrameFacts DEF Carried
    <3>2. view' = f[2] /\ seen' = seen /\ shown' = shown
      BY <1>4, <3>1
    <3>3. ViewRemembers'
      BY <3>2, Zenon DEF ViewInv, ViewRemembers
    <3> QED
      BY <1>2, <3>1, <3>2, <3>3
  <2>2. CASE ~IsTurn(f)
    <3>1. f[1] = "event" /\ Carried(f) = {f[2]} /\ view' = view
      BY <1>4, <2>2, FrameFacts DEF Carried
    <3>2. view' \in View!Versions
      BY <1>2, <3>1 DEF View!TypeOK
    <3>3. CASE f \in View!Elements(seen)
      <4>1. seen' = seen /\ shown' = shown
        BY <1>4, <3>1, <3>3 DEF View!Remember
      <4>2. ViewRemembers'
        BY <4>1, Zenon DEF ViewInv, ViewRemembers
      <4>3. f[2] \in View!Elements(shown)
        BY <2>2, <3>3, EventRemembered
      <4> QED
        BY <1>2, <3>1, <3>2, <4>1, <4>2, <4>3
    <3>4. CASE f \notin View!Elements(seen)
      <4>1. seen' = View!Remember(f) /\ shown' = Append(shown, f[2])
        BY <1>4, <3>1, <3>4
      <4> QED
        BY <2>2, <3>1, <3>2, <3>4, <4>1, RemembersEvent
    <3> QED
      BY <3>3, <3>4
  <2> QED
    BY <2>1, <2>2
<1>9. View!TypeOK'
  BY <1>1, <1>2, <1>5, <1>8 DEF View!TypeOK
<1>10. ViewPlaces'
  BY <1>1 DEF ViewInv, ViewPlaces
<1>11. ViewWritten'
  BY <1>1, <1>5, <1>8 DEF ViewInv, ViewWritten
<1>12. ViewRising'
  <2>1. Due(outbox', state') /\ Rising(chan')
    BY <1>1, Zenon DEF ViewInv, ViewRising
  <2> QED
    BY <1>1, <1>7, <1>8, <2>1 DEF ViewInv, ViewRising
<1>13. ViewReaches'
  BY <1>1, <1>5, <1>8 DEF ViewInv, ViewReaches
<1>14. ViewCurrent'
  <2>1. link = "open" => (HasTurn(chan) => Current \in View!Elements(chan) \cup View!Elements(outbox))
    BY DEF ViewInv, ViewCurrent
  <2>2. ASSUME link = "open", ~HasTurn(chan), Current \notin View!Elements(outbox)
        PROVE  IF pending' = <<>> THEN view' = state ELSE pending'[Len(pending')] = Current
    <3>1. pending[Len(pending)] = Current
      BY <1>1, <2>2 DEF ViewInv, ViewCurrent
    <3>2. CASE pending' = <<>>
      <4>1. f = Current
        BY <1>1, <1>2, <1>3, <3>1, <3>2, LastOfTail
      <4>2. f[1] # "event" /\ f[2] = state
        BY <1>2, <4>1, FrameFacts DEF Current
      <4> QED
        BY <1>4, <3>2, <4>2
    <3>3. CASE pending' # <<>>
      BY <1>1, <1>2, <3>1, <3>3, LastOfTail
    <3> QED
      BY <3>2, <3>3
  <2> QED
    BY <1>1, <1>7, <2>1, <2>2 DEF ViewCurrent
<1> QED
  BY <1>8, <1>9, <1>10, <1>11, <1>12, <1>13, <1>14 DEF ViewInv

LEMMA ViewAttach == ASSUME ViewInv, View!Attach PROVE ViewInv'
<1>1. /\ at = "forward" /\ pending = <<>> /\ at' = "attached"
      /\ spool' = spool /\ projected' = projected /\ state' = state /\ outbox' = outbox /\ link' = link /\ chan' = chan
      /\ history' = history /\ pending' = pending /\ seen' = seen /\ shown' = shown /\ view' = view /\ limits' = limits
  BY Zenon DEF View!Attach, View!engine, View!bracket, View!viewer
<1>2. View!TypeOK'
  BY <1>1 DEF ViewInv, View!TypeOK
<1>3. ViewPlaces'
  BY <1>1 DEF ViewInv, ViewPlaces
<1>4. ViewWritten' /\ ViewRemembers' /\ ViewRising'
  BY <1>1, Zenon DEF ViewInv, ViewWritten, ViewRemembers, ViewRising, Current
<1>5. ViewReaches'
  BY <1>1 DEF ViewInv, ViewReaches
<1>6. ViewCurrent'
  <2>1. Current' = Current
    BY <1>1 DEF Current
  <2> QED
    BY <1>1, <2>1 DEF ViewInv, ViewCurrent
<1> QED
  BY <1>2, <1>3, <1>4, <1>5, <1>6 DEF ViewInv

LEMMA ViewReopen == ASSUME ViewInv, View!Reopen PROVE ViewInv'
<1>1. /\ at = "attached" /\ chan = <<>> /\ link' = "none" /\ at' = "recent"
      /\ spool' = spool /\ projected' = projected /\ state' = state /\ outbox' = outbox /\ chan' = chan
      /\ history' = history /\ pending' = pending /\ seen' = seen /\ shown' = shown /\ view' = view /\ limits' = limits
  BY Zenon DEF View!Reopen, View!engine, View!bracket, View!viewer
<1>2. View!TypeOK'
  BY <1>1 DEF ViewInv, View!TypeOK
<1>3. ViewPlaces'
  BY <1>1 DEF ViewInv, ViewPlaces
<1>4. ViewWritten' /\ ViewRemembers' /\ ViewRising'
  BY <1>1, Zenon DEF ViewInv, ViewWritten, ViewRemembers, ViewRising, Current
<1>5. ViewReaches' /\ ViewCurrent'
  BY <1>1 DEF ViewReaches, ViewCurrent
<1> QED
  BY <1>2, <1>3, <1>4, <1>5 DEF ViewInv

\* A live turn is new, and the newest that was received.
LEMMA ViewLive == ASSUME ViewInv, Room, View!ForwardLive PROVE ViewInv'
<1>1. /\ at = "attached" /\ chan # <<>> /\ chan' = Tail(chan)
      /\ spool' = spool /\ projected' = projected /\ state' = state /\ outbox' = outbox /\ link' = link
      /\ at' = at /\ history' = history /\ pending' = pending /\ limits' = limits
  BY Zenon DEF View!ForwardLive, View!engine, View!bracket
<1>2. View!TypeOK /\ chan \in Seq(View!Frames) /\ seen \in Seq(View!Frames) /\ shown \in Seq(Events)
      /\ state \in View!Versions /\ state \in Nat /\ Len(chan) <= Capacity /\ pending = <<>>
  BY <1>1 DEF ViewInv, ViewPlaces, View!TypeOK, View!Versions
<1>3. PICK f \in View!Frames : f = Head(chan)
  BY <1>1, <1>2, ElementsTail
<1>4. /\ f \in View!Elements(seen) => seen' = seen /\ shown' = shown /\ view' = view
      /\ f \notin View!Elements(seen) =>
           /\ seen' = View!Remember(f)
           /\ f[1] = "event" => shown' = Append(shown, f[2]) /\ view' = view
           /\ f[1] # "event" => view' = f[2] /\ shown' = shown
  BY <1>3, Zenon DEF View!ForwardLive, View!viewer
<1>5. /\ chan' \in Seq(View!Frames) /\ View!Elements(chan) = {f} \cup View!Elements(chan')
      /\ EventsIn(chan) = EventsIn(chan') \cup Carried(f)
      /\ HasTurn(chan) <=> HasTurn(chan') \/ IsTurn(f)
  BY <1>1, <1>2, <1>3, ElementsTail, EventsInTail
<1>6. Rising(chan') /\ \A g \in View!Elements(chan') : IsTurn(f) /\ IsTurn(g) => f[2] < g[2]
  BY <1>1, <1>2, <1>3, RisingTail DEF ViewInv, ViewRising
<1>7. Current' = Current /\ IsTurn(Current) /\ Current[2] = state
  BY <1>1, <1>2, FrameFacts DEF Current
<1>8. IsTurn(f) => f[2] \in Nat /\ f \notin View!Elements(seen)
  <2>1. ASSUME IsTurn(f), f \in View!Elements(seen)
        PROVE  f[2] < f[2]
    BY <1>5, <2>1 DEF ViewInv, ViewRising
  <2>2. IsTurn(f) => f[2] \in Nat
    BY FrameFacts DEF View!Versions
  <2> QED
    BY <2>1, <2>2
<1>9. /\ seen' \in Seq(View!Frames) /\ shown' \in Seq(Events) /\ view' \in View!Versions /\ ViewRemembers'
      /\ View!Elements(shown') = View!Elements(shown) \cup Carried(f)
      /\ \A g \in View!Elements(seen') : IsTurn(g) => g \in View!Elements(seen) \/ g = f
      /\ IsTurn(f) => view' = f[2]
      /\ ~IsTurn(f) => view' = view
  <2>1. CASE IsTurn(f)
    <3>1. f[2] \in View!Versions /\ f[1] # "event" /\ Carried(f) = {}
      BY <2>1, FrameFacts DEF Carried
    <3>2. view' = f[2] /\ seen' = View!Remember(f) /\ shown' = shown /\ f \notin View!Elements(seen)
      BY <1>4, <1>8, <2>1, <3>1
    <3>3. seen' \in Seq(View!Frames) /\ ViewRemembers' /\ View!Elements(seen') = View!Elements(seen) \cup {f}
      BY <2>1, <3>2, RemembersTurn
    <3> QED
      BY <1>2, <2>1, <3>1, <3>2, <3>3
  <2>2. CASE ~IsTurn(f)
    <3>1. f[1] = "event" /\ Carried(f) = {f[2]} /\ view' = view
      BY <1>4, <2>2, FrameFacts DEF Carried
    <3>2. view' \in View!Versions
      BY <1>2, <3>1 DEF View!TypeOK
    <3>3. CASE f \in View!Elements(seen)
      <4>1. seen' = seen /\ shown' = shown
        BY <1>4, <3>3
      <4>2. ViewRemembers'
        BY <4>1, Zenon DEF ViewInv, ViewRemembers
      <4>3. f[2] \in View!Elements(shown)
        BY <2>2, <3>3, EventRemembered
      <4> QED
        BY <1>2, <2>2, <3>1, <3>2, <4>1, <4>2, <4>3
    <3>4. CASE f \notin View!Elements(seen)
      <4>1. seen' = View!Remember(f) /\ shown' = Append(shown, f[2])
        BY <1>4, <3>1, <3>4
      <4>2. /\ seen' \in Seq(View!Frames) /\ shown' \in Seq(Events) /\ ViewRemembers'
            /\ View!Elements(seen') = View!Elements(seen) \cup {f}
            /\ View!Elements(shown') = View!Elements(shown) \cup {f[2]}
        BY <2>2, <3>4, <4>1, RemembersEvent
      <4> QED
        BY <2>2, <3>1, <3>2, <4>2
    <3> QED
      BY <3>3, <3>4
  <2> QED
    BY <2>1, <2>2
<1>10. View!TypeOK'
  <2>1. Len(chan') <= Capacity
    <3>1. Len(chan) \in Nat /\ Len(chan') = Len(chan) - 1
      BY <1>1, <1>2
    <3> QED
      BY <1>2, <3>1, ViewAssumption
  <2> QED
    BY <1>1, <1>2, <1>5, <1>9, <2>1 DEF View!TypeOK
<1>11. ViewPlaces'
  <2>1. link # "none"
    BY <1>1 DEF ViewInv, ViewPlaces
  <2> QED
    BY <1>1, <2>1 DEF ViewInv, ViewPlaces
<1>12. ViewWritten'
  BY <1>1, <1>5, <1>9 DEF ViewInv, ViewWritten
<1>13. ViewRising'
  <2>1. Due(outbox', state')
    BY <1>1, Zenon DEF ViewInv, ViewRising
  <2>2. \A g \in View!Elements(chan) \cup View!Elements(seen) :
          IsTurn(g) => g[2] <= state /\ (Current \in View!Elements(outbox) => g[2] < state)
    BY DEF ViewInv, ViewRising
  <2>3. \A g \in View!Elements(chan') \cup View!Elements(seen') :
          IsTurn(g) => g[2] <= state' /\ (Current' \in View!Elements(outbox') => g[2] < state')
    <3>1. \A g \in View!Elements(chan') \cup View!Elements(seen') :
            IsTurn(g) => g \in View!Elements(chan) \cup View!Elements(seen)
      BY <1>5, <1>9
    <3> QED
      BY <1>1, <1>7, <2>2, <3>1
  <2>4. \A g \in View!Elements(seen), h \in View!Elements(chan) : IsTurn(g) /\ IsTurn(h) => g[2] < h[2]
    BY DEF ViewInv, ViewRising
  <2>5. \A g \in View!Elements(seen'), h \in View!Elements(chan') : IsTurn(g) /\ IsTurn(h) => g[2] < h[2]
    BY <1>5, <1>6, <1>9, <2>4
  <2> QED
    BY <1>6, <2>1, <2>3, <2>5 DEF ViewRising
<1>14. ViewReaches'
  BY <1>1, <1>5, <1>9 DEF ViewInv, ViewReaches
<1>15. ViewCurrent'
  <2>1. ASSUME link = "open", HasTurn(chan')
        PROVE  Current \in View!Elements(chan') \cup View!Elements(outbox)
    <3>1. Current \in {f} \cup View!Elements(chan') \cup View!Elements(outbox)
      BY <1>5, <2>1 DEF ViewInv, ViewCurrent
    <3>2. PICK g \in View!Elements(chan') : IsTurn(g)
      BY <2>1 DEF HasTurn
    <3>3. g[2] <= state /\ g \in View!Frames
      BY <1>5, <1>2, <3>2, ElementsTyped DEF ViewInv, ViewRising
    <3>4. g[2] \in Nat
      BY <3>2, <3>3, FrameFacts DEF View!Versions
    <3>5. f # Current
      BY <1>2, <1>6, <1>7, <3>2, <3>3, <3>4
    <3> QED
      BY <3>1, <3>5
  <2>2. ASSUME link = "open", ~HasTurn(chan'), Current \notin View!Elements(outbox)
        PROVE  view' = state
    <3>1. CASE IsTurn(f)
      <4>1. Current \in {f} \cup View!Elements(chan')
        BY <1>5, <2>2, <3>1 DEF ViewInv, ViewCurrent
      <4>2. Current = f
        BY <1>7, <2>2, <4>1 DEF HasTurn
      <4> QED
        BY <1>7, <1>9, <3>1, <4>2
    <3>2. CASE ~IsTurn(f)
      BY <1>1, <1>2, <1>5, <1>9, <2>2, <3>2 DEF ViewInv, ViewCurrent
    <3> QED
      BY <3>1, <3>2
  <2> QED
    BY <1>1, <1>2, <1>7, <2>1, <2>2 DEF ViewCurrent
<1> QED
  BY <1>9, <1>10, <1>11, <1>12, <1>13, <1>14, <1>15 DEF ViewInv

LEMMA ViewStep == ASSUME ViewInv, Room, [View!Next]_(View!vars) PROVE ViewInv'
<1>1. CASE UNCHANGED View!vars
  <2>1. /\ spool' = spool /\ projected' = projected /\ state' = state /\ outbox' = outbox /\ link' = link /\ chan' = chan /\ at' = at
        /\ history' = history /\ pending' = pending /\ seen' = seen /\ shown' = shown /\ view' = view /\ limits' = limits
    BY <1>1, Zenon DEF View!vars
  <2>2. View!TypeOK'
    BY <2>1 DEF ViewInv, View!TypeOK
  <2>3. ViewPlaces' /\ ViewRemembers' /\ ViewWritten' /\ ViewRising'
    BY <2>1, Zenon DEF ViewInv, ViewPlaces, ViewRemembers, ViewWritten, ViewRising, Current
  <2>4. ViewReaches' /\ ViewCurrent'
    BY <2>1, Zenon DEF ViewInv, ViewReaches, ViewCurrent, Current
  <2> QED
    BY <2>2, <2>3, <2>4 DEF ViewInv
<1>2. ASSUME NEW i \in Events, View!Write(i) \/ View!Project(i) PROVE ViewInv'
  BY <1>2, ViewWrite, ViewProject
<1>3. CASE View!IdleSweep \/ View!Publish \/ View!Drop
  BY <1>3, ViewIdle, ViewPublish, ViewDrop
<1>4. CASE View!Bracket
  BY <1>4, ViewReadRecent, ViewSubscribe, ViewCatchup, ViewSessions DEF View!Bracket
<1>5. CASE View!BracketFails
  BY <1>5, ViewFails
<1>6. CASE View!Pump
  BY <1>6, ViewPending, ViewAttach, ViewLive, ViewReopen DEF View!Pump
<1> QED
  BY <1>1, <1>2, <1>3, <1>4, <1>5, <1>6 DEF View!Next

LEMMA ViewMeans == ASSUME ViewInv PROVE View!QuietIsComplete /\ View!ShownOnce
<1>1. View!TypeOK /\ shown \in Seq(Events)
  BY DEF ViewInv, View!TypeOK
<1>2. ASSUME View!Quiet, View!Attached
      PROVE  View!Elements(shown) = View!Elements(spool) /\ view = state
  <2>1. /\ outbox = <<>> /\ View!Elements(spool) \subseteq projected
        /\ at = "attached" /\ link = "open" /\ chan = <<>>
    BY <1>2 DEF View!Quiet, View!Attached
  <2>2. history = <<>> /\ pending = <<>>
    BY <2>1 DEF ViewInv, ViewPlaces
  <2>3. View!Elements(<<>>) = {} /\ EventsIn(<<>>) = {} /\ ~HasTurn(<<>>)
    BY ElementsEmpty, EventsInEmpty
  <2>4. projected \subseteq View!Elements(shown)
    BY <2>1, <2>2, <2>3 DEF ViewInv, ViewReaches
  <2>5. View!Elements(shown) \subseteq View!Elements(spool)
    BY DEF ViewInv, ViewWritten
  <2>6. view = state
    BY <2>1, <2>2, <2>3 DEF ViewInv, ViewCurrent
  <2> QED
    BY <2>1, <2>4, <2>5, <2>6
<1>3. View!ShownOnce
  <2>1. DOMAIN shown = 1..Len(shown) /\ Apart(shown)
    BY <1>1 DEF ViewInv, ViewRemembers
  <2> QED
    BY <2>1, Zenon DEF View!ShownOnce, Apart
<1> QED
  BY <1>1, <1>2, <1>3 DEF View!QuietIsComplete

----------------------------------------------------------------------------
(* The projection of a session.                                            *)

hour == x1
log == x2
entry == x3
frames == x4
believed == x5
delayed == x6
USE DEF hour, log, entry, frames, believed, delayed

\* The entries that a fold can hold: no more tools are open than events came.
Held == {q \in Session!Entry : q.openTools <= q.events}

\* What an entry says of the events E that it was folded from, at the time t: it knows of
\* them, is as late as the last of them, and idle only if all their activity is old enough.
EntrySound(q, E, t) ==
  /\ q.lastActivity <= t
  /\ ~q.known => q.attention.state = "working"
  /\ q.attention.state = "idle" => q.attention.since <= t
  /\ \A e \in E :
       /\ q.known /\ e.time <= q.lastActivity
       /\ q.attention.state = "idle" /\ Session!IsActivity(e) => e.time + IdleAfter <= q.attention.since

Lines(s) == {s[n] : n \in 1..Len(s)}

\* The spool is behind the clock, and in the order of its days if no event was late.
LogSound ==
  /\ \A n \in 1..Len(log) : log[n].time <= hour
  /\ ~delayed => \A m, n \in 1..Len(log) : m <= n => log[m].time <= log[n].time

SessionInv ==
  /\ Session!TypeOK /\ LogSound
  /\ entry \in Held /\ EntrySound(entry, Lines(log), hour)
  /\ ~delayed => Session!Sweep(entry, hour) = Session!Sweep(Session!Build(log), hour)
  /\ entry.known => believed = entry.attention

\* What a look at the clock makes of an attention state.
Ticked(a, l, t, n, c) ==
  \/ c = a /\ ~(a.state = "working" /\ n = 0 /\ t >= l + IdleAfter)
  \/ (/\ a.state = "working" /\ n = 0 /\ t >= l + IdleAfter
      /\ c.state = "idle" /\ c.since = l + IdleAfter /\ c.reason = FALSE /\ c.error = a.error)

LEMMA TickTyped ==
  ASSUME NEW a \in Session!Attention, NEW l \in Nat, NEW t \in Nat, NEW n \in Nat
  PROVE  \E c \in Session!Attention : c = Session!TickIdle(a, l, t, n) /\ Ticked(a, l, t, n, c)
<1>1. CASE a.state = "working" /\ n = 0 /\ t >= l + IdleAfter
  <2>1. Session!TickIdle(a, l, t, n) = [a EXCEPT !.state = "idle", !.since = l + IdleAfter, !.reason = FALSE]
    BY <1>1 DEF Session!TickIdle
  <2>2. l + IdleAfter \in Nat
    BY SessionAssumption
  <2>3. PICK r : r = [a EXCEPT !.state = "idle", !.since = l + IdleAfter, !.reason = FALSE]
    OBVIOUS
  <2>4. r \in Session!Attention /\ r.state = "idle" /\ r.since = l + IdleAfter /\ r.reason = FALSE /\ r.error = a.error
    BY <2>2, <2>3 DEF Session!Attention, Session!States
  <2> QED
    BY <1>1, <2>1, <2>3, <2>4 DEF Ticked
<1>2. CASE ~(a.state = "working" /\ n = 0 /\ t >= l + IdleAfter)
  BY <1>2 DEF Session!TickIdle, Ticked
<1> QED
  BY <1>1, <1>2

LEMMA TransitionTyped ==
  ASSUME NEW a \in Session!Attention, NEW e \in Session!Event
  PROVE  /\ Session!Transition(a, e) \in Session!Attention
         /\ Session!Transition(a, e).state = "idle" =>
              ~Session!IsActivity(e) /\ a.state = "idle" /\ Session!Transition(a, e).since = a.since
         /\ a.state = "needs_input" /\ Session!Transition(a, e).state # "needs_input" =>
              e.kind \in {"reply", "end"} \/ Session!IsActivity(e)
<1>1. e.time \in Nat /\ e.kind \in Session!Kinds
  BY SessionAssumption DEF Session!Event, Session!Times
<1> DEFINE next ==
        CASE e.kind = "reply" -> [a EXCEPT !.state = "working", !.since = e.time, !.reason = FALSE]
          [] e.kind = "request" -> [a EXCEPT !.state = "needs_input", !.since = e.time, !.reason = TRUE]
          [] e.kind = "end" -> [a EXCEPT !.state = "done", !.since = e.time, !.reason = FALSE]
          [] Session!IsActivity(e) /\ (a.state # "working" \/ a.error \/ a.reason) ->
               [state |-> "working", since |-> e.time, reason |-> FALSE, error |-> FALSE]
          [] OTHER -> a
<1>2. /\ next \in Session!Attention
      /\ next.state = "idle" => ~Session!IsActivity(e) /\ a.state = "idle" /\ next.since = a.since
      /\ a.state = "needs_input" /\ next.state # "needs_input" => e.kind \in {"reply", "end"} \/ Session!IsActivity(e)
  <2>1. CASE e.kind = "reply"
    BY <1>1, <2>1 DEF Session!Attention, Session!States
  <2>2. CASE e.kind = "request"
    BY <1>1, <2>2 DEF Session!Attention, Session!States
  <2>3. CASE e.kind = "end"
    BY <1>1, <2>3 DEF Session!Attention, Session!States
  <2>4. CASE e.kind \notin {"reply", "request", "end"} /\ Session!IsActivity(e) /\ (a.state # "working" \/ a.error \/ a.reason)
    BY <1>1, <2>4 DEF Session!Attention, Session!States
  <2>5. CASE e.kind \notin {"reply", "request", "end"} /\ ~(Session!IsActivity(e) /\ (a.state # "working" \/ a.error \/ a.reason))
    BY <1>1, <2>5 DEF Session!Attention, Session!States
  <2> QED
    BY <2>1, <2>2, <2>3, <2>4, <2>5
<1>3. Session!Transition(a, e) = IF Session!IsError(e) THEN [next EXCEPT !.error = TRUE] ELSE next
  BY DEF Session!Transition
<1> HIDE DEF next
<1> QED
  BY <1>2, <1>3 DEF Session!Attention

\* What an event is folded into.
Start(q, e) == IF q.known THEN q ELSE Session!NewEntry(e)

LEMMA StartTyped ==
  ASSUME NEW q \in Held, NEW e \in Session!Event
  PROVE  /\ Start(q, e) \in Held /\ Start(q, e).known
         /\ ~q.known => Start(q, e).attention.state = "working" /\ Start(q, e).lastActivity = e.time
<1>1. e.time \in Nat
  BY SessionAssumption DEF Session!Event, Session!Times
<1>2. CASE q.known
  BY <1>2 DEF Start
<1>3. CASE ~q.known
  <2>1. Start(q, e) = [known |-> TRUE, events |-> 0, firstTime |-> e.time, lastTime |-> e.time,
                       lastActivity |-> e.time, openTools |-> 0,
                       attention |-> [state |-> "working", since |-> e.time, reason |-> FALSE, error |-> FALSE]]
    BY <1>3 DEF Start, Session!NewEntry, Session!Unknown
  <2> QED
    BY <1>1, <1>3, <2>1 DEF Held, Session!Entry, Session!Attention, Session!States
<1> QED
  BY <1>2, <1>3

LEMMA OpenToolsTyped ==
  ASSUME NEW n \in Nat, NEW e
  PROVE  Session!OpenTools(n, e) \in Nat /\ Session!OpenTools(n, e) <= n + 1
<1>1. CASE e.kind = "pre"
  BY <1>1 DEF Session!OpenTools
<1>2. CASE e.kind \in {"post", "failed"} /\ n > 0
  BY <1>2 DEF Session!OpenTools
<1>3. CASE e.kind # "pre" /\ ~(e.kind \in {"post", "failed"} /\ n > 0)
  BY <1>3 DEF Session!OpenTools
<1> QED
  BY <1>1, <1>2, <1>3

\* A fold, part by part.
LEMMA FoldIs ==
  ASSUME NEW q \in Held, NEW e \in Session!Event
  PROVE  \E s \in Held, c \in Session!Attention, x \in Session!Attention :
           /\ s = Start(q, e) /\ c = Session!TickIdle(s.attention, s.lastActivity, e.time, s.openTools)
           /\ x = Session!Transition(c, e)
           /\ Session!Fold(q, e) \in Held
           /\ Session!Fold(q, e).known
           /\ Session!Fold(q, e).lastActivity = IF e.time >= s.lastActivity THEN e.time ELSE s.lastActivity
           /\ Session!Fold(q, e).attention = IF Session!Changed(c, x) THEN x ELSE c
<1>1. PICK s \in Held : s = Start(q, e) /\ s.known
  BY StartTyped
<1>2. /\ e.time \in Nat /\ s.attention \in Session!Attention /\ s.lastActivity \in Nat /\ s.openTools \in Nat
      /\ s.events \in Nat /\ s.firstTime \in Nat /\ s.lastTime \in Nat /\ s.openTools <= s.events
  BY SessionAssumption DEF Session!Event, Session!Times, Held, Session!Entry
<1>3. PICK c \in Session!Attention : /\ c = Session!TickIdle(s.attention, s.lastActivity, e.time, s.openTools)
                                    /\ Ticked(s.attention, s.lastActivity, e.time, s.openTools, c)
  BY <1>2, TickTyped
<1>4. PICK x \in Session!Attention : x = Session!Transition(c, e)
  BY TransitionTyped
<1>5. PICK n \in Nat : n = Session!OpenTools(s.openTools, e) /\ n <= s.openTools + 1
  BY <1>2, OpenToolsTyped
<1>6. Session!Fold(q, e) =
        [known |-> TRUE, events |-> s.events + 1,
         firstTime |-> IF e.time < s.firstTime THEN e.time ELSE s.firstTime,
         lastTime |-> IF e.time >= s.lastTime THEN e.time ELSE s.lastTime,
         lastActivity |-> IF e.time >= s.lastActivity THEN e.time ELSE s.lastActivity,
         openTools |-> n,
         attention |-> IF Session!Changed(c, x) THEN x ELSE c]
  BY <1>1, <1>3, <1>4, <1>5, Zenon DEF Session!Fold, Start, Session!Crossed, Session!ActivityAt
<1>7. PICK r : r = Session!Fold(q, e)
  OBVIOUS
<1>8. /\ r.known = TRUE /\ r.events = s.events + 1 /\ r.openTools = n
      /\ r.lastActivity = IF e.time >= s.lastActivity THEN e.time ELSE s.lastActivity
      /\ r.attention = IF Session!Changed(c, x) THEN x ELSE c
  BY <1>6, <1>7
<1>9. r \in Session!Entry
  BY <1>2, <1>6, <1>7 DEF Session!Entry
<1>10. r \in Held
  BY <1>2, <1>5, <1>8, <1>9 DEF Held
<1> QED
  BY <1>1, <1>3, <1>4, <1>7, <1>8, <1>10

\* Folding one more event, of any time up to now, keeps an entry sound of one more event.
LEMMA FoldSound ==
  ASSUME NEW q \in Held, NEW e \in Session!Event, NEW E \in SUBSET Session!Event, NEW t \in Nat,
         e.time <= t, EntrySound(q, E, t)
  PROVE  EntrySound(Session!Fold(q, e), E \cup {e}, t)
<1>1. PICK s \in Held, c \in Session!Attention, x \in Session!Attention, r \in Held :
        /\ s = Start(q, e) /\ c = Session!TickIdle(s.attention, s.lastActivity, e.time, s.openTools)
        /\ x = Session!Transition(c, e)
        /\ r = Session!Fold(q, e) /\ r.known
        /\ r.lastActivity = IF e.time >= s.lastActivity THEN e.time ELSE s.lastActivity
        /\ r.attention = IF Session!Changed(c, x) THEN x ELSE c
  BY FoldIs
<1>2. /\ e.time \in Nat /\ s.attention \in Session!Attention /\ s.lastActivity \in Nat /\ s.openTools \in Nat
      /\ c.since \in Nat /\ x.since \in Nat /\ s.attention.since \in Nat
  BY SessionAssumption DEF Session!Event, Session!Times, Held, Session!Entry, Session!Attention
<1>3. \A f \in E : f.time \in Nat
  BY SessionAssumption DEF Session!Event, Session!Times
<1>4. /\ s.lastActivity <= t
      /\ s.attention.state = "idle" => s.attention.since <= t
      /\ \A f \in E :
           /\ f.time <= s.lastActivity
           /\ s.attention.state = "idle" /\ Session!IsActivity(f) => f.time + IdleAfter <= s.attention.since
  <2>1. CASE q.known
    <3>1. s = q
      BY <1>1, <2>1 DEF Start
    <3> QED
      BY <3>1 DEF EntrySound
  <2>2. CASE ~q.known
    <3>1. E = {} /\ s.attention.state = "working" /\ s.lastActivity = e.time
      BY <1>1, <2>2, StartTyped DEF EntrySound
    <3> QED
      BY <3>1
  <2> QED
    BY <2>1, <2>2
<1>5. /\ c.state = "idle" => c.since <= t
      /\ \A f \in E : c.state = "idle" /\ Session!IsActivity(f) => f.time + IdleAfter <= c.since
  <2>1. CASE c = s.attention
    BY <1>4, <2>1
  <2>2. CASE e.time >= s.lastActivity + IdleAfter /\ c.since = s.lastActivity + IdleAfter
    BY <1>2, <1>3, <1>4, <2>2, SessionAssumption
  <2>3. c = s.attention \/ (e.time >= s.lastActivity + IdleAfter /\ c.since = s.lastActivity + IdleAfter)
    <3>1. PICK d \in Session!Attention :
            /\ d = Session!TickIdle(s.attention, s.lastActivity, e.time, s.openTools)
            /\ Ticked(s.attention, s.lastActivity, e.time, s.openTools, d)
      BY <1>2, TickTyped
    <3>2. d = c
      BY <1>1, <3>1
    <3> QED
      BY <3>1, <3>2 DEF Ticked
  <2> QED
    BY <2>1, <2>2, <2>3
<1>6. r.attention.state = "idle" => ~Session!IsActivity(e) /\ c.state = "idle" /\ r.attention.since = c.since
  <2>1. x.state = "idle" => ~Session!IsActivity(e) /\ c.state = "idle" /\ x.since = c.since
    BY <1>1, TransitionTyped
  <2>2. Session!Changed(c, x) => r.attention = x
    BY <1>1
  <2>3. ~Session!Changed(c, x) => r.attention = c /\ x.state = c.state
    BY <1>1 DEF Session!Changed
  <2> QED
    BY <2>1, <2>2, <2>3
<1>7. r.lastActivity <= t /\ \A f \in E \cup {e} : f.time <= r.lastActivity
  BY <1>1, <1>2, <1>3, <1>4
<1>8. EntrySound(r, E \cup {e}, t)
  BY <1>1, <1>5, <1>6, <1>7 DEF EntrySound
<1> QED
  BY <1>1, <1>8

----------------------------------------------------------------------------
(* The scan of the day files.                                              *)

LEMMA UpTo ==
  ASSUME NEW N \in Nat, NEW P \in SUBSET Nat, 0 \in P, \A n \in Nat : n < N /\ n \in P => n + 1 \in P
  PROVE  0..N \subseteq P
<1> DEFINE Missing == {n \in Nat : n <= N /\ n \notin P}
<1>1. Missing = {}
  <2> SUFFICES ASSUME Missing # {} PROVE FALSE
    OBVIOUS
  <2>1. PICK n \in Missing : \A m \in Missing : n <= m
    BY SmallestMember
  <2>2. n \in Nat /\ n <= N /\ n \notin P /\ n # 0
    OBVIOUS
  <2>3. n - 1 \in Nat /\ n - 1 < N /\ (n - 1) + 1 = n /\ n - 1 \notin Missing
    BY <2>1, <2>2
  <2>4. n - 1 \in P
    BY <2>3
  <2> QED
    BY <2>2, <2>3, <2>4
<1> QED
  BY <1>1

Described(g, b, F, k) == \A n \in 0..k : g[n] = IF n = 0 THEN b ELSE F[n][g[n - 1]]

\* A function that is described by its first value and its steps is there.
LEMMA StepByStep ==
  ASSUME NEW V, NEW b \in V, NEW N \in Nat, NEW F \in [1..N -> [V -> V]]
  PROVE  \E g \in [0..N -> V] : Described(g, b, F, N)
<1> DEFINE Upto(k) == \E g \in [0..k -> V] : Described(g, b, F, k)
           P == {k \in Nat : k <= N => Upto(k)}
<1> USE DEF Described
<1>1. Upto(0)
  <2>1. PICK g : g = [n \in 0..0 |-> b]
    OBVIOUS
  <2>2. g \in [0..0 -> V] /\ \A n \in 0..0 : n = 0 /\ g[n] = b
    BY <2>1
  <2> QED
    BY <2>2
<1>2. ASSUME NEW k \in Nat, k < N, Upto(k)
      PROVE  Upto(k + 1)
  <2>1. PICK g \in [0..k -> V] : \A n \in 0..k : g[n] = IF n = 0 THEN b ELSE F[n][g[n - 1]]
    BY <1>2
  <2>2. k + 1 \in 1..N /\ k \in 0..k
    BY <1>2
  <2>3. PICK v \in V : v = F[k + 1][g[k]]
    BY <2>2
  <2>4. PICK h : h = [n \in 0..(k + 1) |-> IF n = k + 1 THEN v ELSE g[n]]
    OBVIOUS
  <2>5. \A n \in 0..(k + 1) : n = k + 1 \/ n \in 0..k
    OBVIOUS
  <2>6. h \in [0..(k + 1) -> V] /\ \A n \in 0..k : h[n] = g[n]
    BY <2>4, <2>5
  <2>7. ASSUME NEW n \in 0..(k + 1)
        PROVE  h[n] = IF n = 0 THEN b ELSE F[n][h[n - 1]]
    <3>1. CASE n = k + 1
      <4>1. h[n] = v /\ n # 0 /\ n - 1 = k /\ h[k] = g[k]
        BY <2>2, <2>4, <2>6, <3>1
      <4> QED
        BY <2>3, <3>1, <4>1
    <3>2. CASE n \in 0..k
      <4>1. n # 0 => n - 1 \in 0..k
        BY <3>2
      <4> QED
        BY <2>1, <2>6, <3>2, <4>1
    <3> QED
      BY <2>5, <3>1, <3>2
  <2> QED
    BY <2>6, <2>7
<1> HIDE DEF Upto
<1>3. \A k \in Nat : k < N /\ k \in P => k + 1 \in P
  BY <1>2
<1>4. 0..N \subseteq P
  BY <1>1, <1>3, UpTo
<1>5. Upto(N)
  BY <1>4
<1> QED
  BY <1>5 DEF Upto

ReadStep(s, day, q, g, n) ==
  IF n = 0 THEN q ELSE IF Session!DayOf(s[n]) = day THEN Session!Fold(g[n - 1], s[n]) ELSE g[n - 1]

LEMMA FoldHeld == ASSUME NEW q \in Held, NEW e \in Session!Event PROVE Session!Fold(q, e) \in Held
BY FoldIs

LEMMA ReadDayIs ==
  ASSUME NEW s \in Seq(Session!Event), NEW day, NEW q \in Held
  PROVE  \E g \in [0..Len(s) -> Held] :
           /\ \A n \in 0..Len(s) : g[n] = ReadStep(s, day, q, g, n)
           /\ Session!ReadDay(s, day, q) = g[Len(s)]
<1>1. Len(s) \in Nat /\ \A n \in 1..Len(s) : s[n] \in Session!Event
  OBVIOUS
<1>2. PICK F : F = [n \in 1..Len(s) |-> [r \in Held |-> IF Session!DayOf(s[n]) = day THEN Session!Fold(r, s[n]) ELSE r]]
  OBVIOUS
<1>3. F \in [1..Len(s) -> [Held -> Held]]
  BY <1>1, <1>2, FoldHeld
<1>4. PICK g \in [0..Len(s) -> Held] : \A n \in 0..Len(s) : g[n] = IF n = 0 THEN q ELSE F[n][g[n - 1]]
  <2>1. PICK k \in Nat : k = Len(s)
    BY <1>1
  <2>2. F \in [1..k -> [Held -> Held]]
    BY <1>3, <2>1
  <2>3. \E g \in [0..k -> Held] : \A n \in 0..k : g[n] = IF n = 0 THEN q ELSE F[n][g[n - 1]]
    <3>1. \E g \in [0..k -> Held] : Described(g, q, F, k)
      BY <2>2, StepByStep, Zenon
    <3> QED
      BY <3>1, Zenon DEF Described
  <2> QED
    BY <2>1, <2>3
<1>5. ASSUME NEW n \in 0..Len(s)
      PROVE  g[n] = ReadStep(s, day, q, g, n)
  <2>1. CASE n = 0
    BY <1>4, <2>1 DEF ReadStep
  <2>2. CASE n # 0
    <3>1. n \in 1..Len(s) /\ n - 1 \in 0..Len(s)
      BY <1>1, <2>2
    <3>2. g[n - 1] \in Held
      BY <3>1
    <3>3. F[n][g[n - 1]] = IF Session!DayOf(s[n]) = day THEN Session!Fold(g[n - 1], s[n]) ELSE g[n - 1]
      BY <1>2, <3>1, <3>2
    <3> QED
      BY <1>4, <2>2, <3>3, Zenon DEF ReadStep
  <2> QED
    BY <2>1, <2>2
<1>6. g = [n \in 0..Len(s) |-> ReadStep(s, day, q, g, n)]
  BY <1>5
<1> DEFINE h == CHOOSE f : f = [n \in 0..Len(s) |-> ReadStep(s, day, q, f, n)]
<1>7. h = [n \in 0..Len(s) |-> ReadStep(s, day, q, h, n)]
  BY <1>6, Zenon
<1>8. Session!ReadDay(s, day, q) = h[Len(s)]
  BY Zenon DEF Session!ReadDay, ReadStep
<1> HIDE DEF h
<1>9. \A n \in 0..Len(s) : h[n] = ReadStep(s, day, q, h, n)
  BY <1>7, Zenon
<1> DEFINE P == {n \in Nat : n <= Len(s) => h[n] = g[n]}
<1>10. 0..Len(s) \subseteq P
  <2>1. 0 \in P
    BY <1>1, <1>5, <1>9 DEF ReadStep
  <2>2. ASSUME NEW n \in Nat, n < Len(s), n \in P
        PROVE  n + 1 \in P
    <3>1. n + 1 \in 0..Len(s) /\ n + 1 # 0 /\ (n + 1) - 1 = n /\ n <= Len(s)
      BY <1>1, <2>2
    <3>2. h[n] = g[n]
      BY <2>2, <3>1
    <3>3. h[n + 1] = g[n + 1]
      BY <1>5, <1>9, <3>1, <3>2, Zenon DEF ReadStep
    <3> QED
      BY <3>3
  <2> QED
    BY <1>1, <2>1, <2>2, UpTo
<1>11. h[Len(s)] = g[Len(s)]
  BY <1>1, <1>10
<1> QED
  BY <1>5, <1>8, <1>11

LEMMA ReadDayHeld ==
  ASSUME NEW s \in Seq(Session!Event), NEW day, NEW q \in Held
  PROVE  Session!ReadDay(s, day, q) \in Held
<1>1. PICK g \in [0..Len(s) -> Held] : Session!ReadDay(s, day, q) = g[Len(s)]
  BY ReadDayIs
<1>2. Len(s) \in 0..Len(s)
  <2>1. Len(s) \in Nat
    OBVIOUS
  <2> QED
    BY <2>1
<1> QED
  BY <1>1, <1>2

\* A line more, in that file or in another one.
LEMMA ReadDayAppend ==
  ASSUME NEW s \in Seq(Session!Event), NEW e \in Session!Event, NEW day, NEW q \in Held
  PROVE  Session!ReadDay(Append(s, e), day, q) =
           IF Session!DayOf(e) = day THEN Session!Fold(Session!ReadDay(s, day, q), e) ELSE Session!ReadDay(s, day, q)
<1>1. PICK t \in Seq(Session!Event) : t = Append(s, e)
  BY AppendProperties
<1>2. /\ Len(s) \in Nat /\ Len(t) = Len(s) + 1 /\ t[Len(s) + 1] = e
      /\ \A i \in 1..Len(s) : t[i] = s[i]
  BY <1>1, AppendProperties
<1>3. PICK g : (\A n \in 0..Len(s) : g[n] = ReadStep(s, day, q, g, n)) /\ Session!ReadDay(s, day, q) = g[Len(s)]
  BY ReadDayIs, Zenon
<1>4. PICK h : (\A n \in 0..Len(t) : h[n] = ReadStep(t, day, q, h, n)) /\ Session!ReadDay(t, day, q) = h[Len(t)]
  BY ReadDayIs, Zenon
<1> DEFINE P == {n \in Nat : n <= Len(s) => h[n] = g[n]}
<1>5. 0..Len(s) \subseteq P
  <2>1. 0 \in P
    <3>1. 0 \in 0..Len(s) /\ 0 \in 0..Len(t)
      BY <1>2
    <3> QED
      BY <1>3, <1>4, <3>1 DEF ReadStep
  <2>2. ASSUME NEW n \in Nat, n < Len(s), n \in P
        PROVE  n + 1 \in P
    <3>1. n + 1 \in 0..Len(s) /\ n + 1 \in 0..Len(t) /\ n + 1 \in 1..Len(s) /\ n + 1 # 0 /\ (n + 1) - 1 = n /\ n <= Len(s)
      BY <1>2, <2>2
    <3>2. h[n] = g[n]
      BY <2>2, <3>1
    <3>3. t[n + 1] = s[n + 1]
      BY <1>2, <3>1
    <3>4. h[n + 1] = g[n + 1]
      BY <1>3, <1>4, <3>1, <3>2, <3>3, Zenon DEF ReadStep
    <3> QED
      BY <3>4
  <2> QED
    BY <1>2, <2>1, <2>2, UpTo
<1>6. h[Len(s)] = g[Len(s)]
  BY <1>2, <1>5
<1>7. Len(t) \in 0..Len(t) /\ Len(t) # 0 /\ Len(t) - 1 = Len(s) /\ t[Len(t)] = e
  BY <1>2
<1>8. h[Len(t)] = IF Session!DayOf(e) = day THEN Session!Fold(g[Len(s)], e) ELSE g[Len(s)]
  BY <1>4, <1>6, <1>7, Zenon DEF ReadStep
<1> QED
  BY <1>1, <1>3, <1>4, <1>8, Zenon

\* What all lines of the file keep, the file keeps: nothing changes if there are none, and
\* the entry stays sound, of their events as well.
LEMMA ReadDayNone ==
  ASSUME NEW s \in Seq(Session!Event), NEW day, NEW q \in Held, \A n \in 1..Len(s) : Session!DayOf(s[n]) # day
  PROVE  Session!ReadDay(s, day, q) = q
<1>1. PICK g : (\A n \in 0..Len(s) : g[n] = ReadStep(s, day, q, g, n)) /\ Session!ReadDay(s, day, q) = g[Len(s)]
  BY ReadDayIs, Zenon
<1>2. Len(s) \in Nat
  OBVIOUS
<1> DEFINE P == {n \in Nat : n <= Len(s) => g[n] = q}
<1>3. 0..Len(s) \subseteq P
  <2>1. 0 \in P
    BY <1>1, <1>2 DEF ReadStep
  <2>2. ASSUME NEW n \in Nat, n < Len(s), n \in P
        PROVE  n + 1 \in P
    <3>1. n + 1 \in 0..Len(s) /\ n + 1 \in 1..Len(s) /\ n + 1 # 0 /\ (n + 1) - 1 = n /\ n <= Len(s)
      BY <1>2, <2>2
    <3>2. g[n] = q
      BY <2>2, <3>1
    <3>3. g[n + 1] = q
      BY <1>1, <3>1, <3>2, Zenon DEF ReadStep
    <3> QED
      BY <3>3
  <2> QED
    BY <1>2, <2>1, <2>2, UpTo
<1> QED
  BY <1>1, <1>2, <1>3

OfDay(s, day, n) == {s[m] : m \in {i \in 1..n : Session!DayOf(s[i]) = day}}

LEMMA ReadDaySound ==
  ASSUME NEW s \in Seq(Session!Event), NEW day, NEW q \in Held, NEW E \in SUBSET Session!Event, NEW t \in Nat,
         EntrySound(q, E, t), \A n \in 1..Len(s) : s[n].time <= t
  PROVE  EntrySound(Session!ReadDay(s, day, q), E \cup OfDay(s, day, Len(s)), t)
<1>1. PICK g \in [0..Len(s) -> Held] :
        (\A n \in 0..Len(s) : g[n] = ReadStep(s, day, q, g, n)) /\ Session!ReadDay(s, day, q) = g[Len(s)]
  BY ReadDayIs
<1>2. Len(s) \in Nat /\ \A n \in 1..Len(s) : s[n] \in Session!Event
  OBVIOUS
<1> DEFINE P == {n \in Nat : n <= Len(s) => EntrySound(g[n], E \cup OfDay(s, day, n), t)}
<1>3. 0..Len(s) \subseteq P
  <2>1. 0 \in P
    <3>1. g[0] = q
      BY <1>1, <1>2 DEF ReadStep
    <3>2. E \cup OfDay(s, day, 0) = E
      BY DEF OfDay
    <3> QED
      BY <3>1, <3>2
  <2>2. ASSUME NEW n \in Nat, n < Len(s), n \in P
        PROVE  n + 1 \in P
    <3>1. n + 1 \in 0..Len(s) /\ n + 1 \in 1..Len(s) /\ n + 1 # 0 /\ (n + 1) - 1 = n /\ n <= Len(s) /\ n \in 0..Len(s)
      BY <1>2, <2>2
    <3>2. PICK r \in Held : r = g[n] /\ EntrySound(r, E \cup OfDay(s, day, n), t)
      BY <1>1, <2>2, <3>1
    <3>3. PICK e \in Session!Event : e = s[n + 1] /\ e.time <= t
      BY <1>2, <3>1
    <3>4. g[n + 1] = IF Session!DayOf(e) = day THEN Session!Fold(r, e) ELSE r
      BY <1>1, <3>1, <3>2, <3>3, Zenon DEF ReadStep
    <3>5. \A i : i \in 1..(n + 1) <=> i \in 1..n \/ i = n + 1
      BY <2>2
    <3>6. OfDay(s, day, n) \subseteq Session!Event
      BY <1>2, <3>1 DEF OfDay
    <3>7. CASE Session!DayOf(e) = day
      <4>1. OfDay(s, day, n + 1) = OfDay(s, day, n) \cup {e}
        BY <3>3, <3>5, <3>7 DEF OfDay
      <4>2. EntrySound(Session!Fold(r, e), (E \cup OfDay(s, day, n)) \cup {e}, t)
        BY <3>2, <3>3, <3>6, FoldSound
      <4>3. (E \cup OfDay(s, day, n)) \cup {e} = E \cup OfDay(s, day, n + 1)
        BY <4>1
      <4>4. EntrySound(g[n + 1], E \cup OfDay(s, day, n + 1), t)
        BY <3>4, <3>7, <4>2, <4>3, Zenon
      <4> QED
        BY <4>4
    <3>8. CASE Session!DayOf(e) # day
      <4>1. OfDay(s, day, n + 1) = OfDay(s, day, n)
        BY <3>3, <3>5, <3>8 DEF OfDay
      <4> QED
        BY <3>2, <3>4, <3>8, <4>1
    <3> QED
      BY <3>7, <3>8
  <2>3. P \in SUBSET Nat
    OBVIOUS
  <2> HIDE DEF P
  <2> QED
    BY <1>2, <2>1, <2>2, <2>3, UpTo
<1>4. Len(s) \in P /\ Len(s) <= Len(s)
  BY <1>2, <1>3
<1> QED
  BY <1>1, <1>4

LEMMA Days ==
  /\ Session!LastDay \in Nat
  /\ \A e \in Session!Event : Session!DayOf(e) \in 0..Session!LastDay
  /\ \A d, e \in Session!Event : d.time <= e.time => Session!DayOf(d) <= Session!DayOf(e)
<1>1. PICK k \in Nat \ {0} : k = DayLength
  BY SessionAssumption
<1>2. PICK m \in Nat : m = SessionTime
  BY SessionAssumption
<1>3. ASSUME NEW a \in Nat, NEW b \in Nat, a <= b
      PROVE  a \div k \in Nat /\ b \div k \in Nat /\ a \div k <= b \div k
  BY <1>3
<1>4. \A e \in Session!Event : e.time \in Nat /\ e.time <= m /\ Session!DayOf(e) = e.time \div k
  BY <1>1, <1>2 DEF Session!Event, Session!Times, Session!DayOf
<1>5. Session!LastDay = m \div k
  BY <1>1, <1>2 DEF Session!LastDay
<1>6. m \div k \in Nat
  BY <1>3
<1>7. ASSUME NEW e \in Session!Event
      PROVE  Session!DayOf(e) \in 0..Session!LastDay
  BY <1>3, <1>4, <1>5, <1>6
<1>8. ASSUME NEW d \in Session!Event, NEW e \in Session!Event, d.time <= e.time
      PROVE  Session!DayOf(d) <= Session!DayOf(e)
  BY <1>3, <1>4, <1>8
<1> QED
  BY <1>5, <1>6, <1>7, <1>8

LEMMA UnknownHeld == Session!Unknown \in Held /\ \A t \in Nat : EntrySound(Session!Unknown, {}, t)
<1>1. PICK u : u = Session!Unknown
  OBVIOUS
<1>2. u = [known |-> FALSE, events |-> 0, firstTime |-> 0, lastTime |-> 0, lastActivity |-> 0, openTools |-> 0,
           attention |-> [state |-> "working", since |-> 0, reason |-> FALSE, error |-> FALSE]]
  BY <1>1 DEF Session!Unknown
<1>3. u \in Held
  BY <1>2 DEF Held, Session!Entry, Session!Attention, Session!States
<1>4. \A t \in Nat : EntrySound(u, {}, t)
  BY <1>2 DEF EntrySound
<1> QED
  BY <1>1, <1>3, <1>4

BuildStep(s, b, n) == IF n = 0 THEN Session!Unknown ELSE Session!ReadDay(s, n - 1, b[n - 1])

LEMMA BuildIs ==
  ASSUME NEW s \in Seq(Session!Event)
  PROVE  \E b \in [0..(Session!LastDay + 1) -> Held] :
           /\ \A n \in 0..(Session!LastDay + 1) : b[n] = BuildStep(s, b, n)
           /\ Session!Build(s) = b[Session!LastDay + 1]
<1>0. Session!LastDay \in Nat
  BY Days
<1>1. PICK N \in Nat : N = Session!LastDay + 1
  BY <1>0
<1>2. PICK F : F = [n \in 1..N |-> [r \in Held |-> Session!ReadDay(s, n - 1, r)]]
  OBVIOUS
<1>3. F \in [1..N -> [Held -> Held]]
  BY <1>2, ReadDayHeld
<1>4. PICK b \in [0..N -> Held] : Described(b, Session!Unknown, F, N)
  BY <1>3, StepByStep, UnknownHeld
<1>5. ASSUME NEW n \in 0..N
      PROVE  b[n] = BuildStep(s, b, n)
  <2>1. CASE n = 0
    BY <1>4, <2>1 DEF BuildStep, Described
  <2>2. CASE n # 0
    <3>1. n \in 1..N /\ n - 1 \in 0..N
      BY <2>2
    <3>2. b[n - 1] \in Held
      BY <3>1
    <3>3. F[n][b[n - 1]] = Session!ReadDay(s, n - 1, b[n - 1])
      BY <1>2, <3>1, <3>2
    <3> QED
      BY <1>4, <2>2, <3>3, Zenon DEF BuildStep, Described
  <2> QED
    BY <2>1, <2>2
<1>6. b = [n \in 0..N |-> BuildStep(s, b, n)]
  BY <1>5
<1> DEFINE h == CHOOSE f : f = [n \in 0..N |-> BuildStep(s, f, n)]
<1>7. h = [n \in 0..N |-> BuildStep(s, h, n)]
  BY <1>6, Zenon
<1>8. Session!Build(s) = h[N]
  BY <1>1, Zenon DEF Session!Build, BuildStep
<1> HIDE DEF h
<1>9. \A n \in 0..N : h[n] = BuildStep(s, h, n)
  BY <1>7, Zenon
<1> DEFINE P == {n \in Nat : n <= N => h[n] = b[n]}
<1>10. 0..N \subseteq P
  <2>1. 0 \in P
    BY <1>5, <1>9 DEF BuildStep
  <2>2. ASSUME NEW n \in Nat, n < N, n \in P
        PROVE  n + 1 \in P
    <3>1. n + 1 \in 0..N /\ n + 1 # 0 /\ (n + 1) - 1 = n /\ n <= N
      BY <2>2
    <3>2. h[n] = b[n]
      BY <2>2, <3>1
    <3>3. h[n + 1] = b[n + 1]
      BY <1>5, <1>9, <3>1, <3>2, Zenon DEF BuildStep
    <3> QED
      BY <3>3
  <2> QED
    BY <2>1, <2>2, UpTo
<1>11. h[N] = b[N]
  BY <1>10
<1> QED
  BY <1>1, <1>5, <1>8, <1>11

LEMMA BuildHeld == ASSUME NEW s \in Seq(Session!Event) PROVE Session!Build(s) \in Held
<1>1. PICK b \in [0..(Session!LastDay + 1) -> Held] : Session!Build(s) = b[Session!LastDay + 1]
  BY BuildIs
<1>2. Session!LastDay + 1 \in 0..(Session!LastDay + 1)
  BY Days
<1> QED
  BY <1>1, <1>2

\* An event of the last day that there is a file of is folded last.
LEMMA BuildAppend ==
  ASSUME NEW s \in Seq(Session!Event), NEW e \in Session!Event,
         \A n \in 1..Len(s) : Session!DayOf(s[n]) <= Session!DayOf(e)
  PROVE  Session!Build(Append(s, e)) = Session!Fold(Session!Build(s), e)
<1>0. Session!LastDay \in Nat /\ Session!DayOf(e) \in 0..Session!LastDay
  BY Days
<1>1. PICK N \in Nat, D \in Nat : N = Session!LastDay + 1 /\ D = Session!DayOf(e) /\ D < N
  <2>1. PICK d : d = Session!DayOf(e)
    OBVIOUS
  <2>2. PICK l : l = Session!LastDay
    OBVIOUS
  <2>3. l + 1 \in Nat /\ d \in Nat /\ d < l + 1
    BY <1>0, <2>1, <2>2
  <2> QED
    BY <2>1, <2>2, <2>3, Zenon
<1>2. PICK t \in Seq(Session!Event) : t = Append(s, e)
  BY AppendProperties
<1>3. PICK b \in [0..N -> Held] : (\A n \in 0..N : b[n] = BuildStep(s, b, n)) /\ Session!Build(s) = b[N]
  BY <1>1, BuildIs
<1>4. PICK c : (\A n \in 0..N : c[n] = BuildStep(t, c, n)) /\ Session!Build(t) = c[N]
  BY <1>1, BuildIs
<1>5. \A day, q \in Held : Session!ReadDay(t, day, q) =
        IF D = day THEN Session!Fold(Session!ReadDay(s, day, q), e) ELSE Session!ReadDay(s, day, q)
  BY <1>1, <1>2, ReadDayAppend
<1>6. ASSUME NEW day \in Nat, D < day, NEW q \in Held
      PROVE  Session!ReadDay(s, day, q) = q
  <2>1. \A n \in 1..Len(s) : Session!DayOf(s[n]) # day
    <3>1. ASSUME NEW n \in 1..Len(s)
          PROVE  Session!DayOf(s[n]) # day
      <4>1. s[n] \in Session!Event
        OBVIOUS
      <4>2. Session!DayOf(s[n]) <= D /\ Session!DayOf(s[n]) \in Nat
        BY <1>1, <4>1, Days
      <4> QED
        BY <1>6, <4>2
    <3> QED
      BY <3>1
  <2> QED
    BY <2>1, ReadDayNone
<1> DEFINE P == {n \in Nat : n <= N => c[n] = IF n <= D THEN b[n] ELSE Session!Fold(b[n], e)}
<1>7. 0 \in P
  <2>1. 0 \in 0..N /\ 0 <= D
    BY <1>1
  <2>2. b[0] = Session!Unknown /\ c[0] = Session!Unknown
    BY <1>3, <1>4, <2>1 DEF BuildStep
  <2> QED
    BY <2>1, <2>2
<1>8. ASSUME NEW n \in Nat, n < N, n \in P
      PROVE  n + 1 \in P
  <2>1. n + 1 \in 0..N /\ n + 1 # 0 /\ (n + 1) - 1 = n /\ n <= N /\ n \in 0..N
    BY <1>8
  <2>2. PICK q \in Held : q = b[n]
    BY <1>3, <2>1
  <2>3. b[n + 1] = Session!ReadDay(s, n, q) /\ c[n + 1] = Session!ReadDay(t, n, c[n])
    BY <1>3, <1>4, <2>1, <2>2, Zenon DEF BuildStep
  <2>4. CASE n < D
    <3>1. c[n] = q /\ n # D /\ n + 1 <= D
      BY <1>1, <1>8, <2>1, <2>2, <2>4
    <3>2. c[n + 1] = b[n + 1]
      BY <1>5, <2>3, <3>1
    <3> QED
      BY <3>1, <3>2
  <2>5. CASE n = D
    <3>1. c[n] = q /\ ~(n + 1 <= D)
      BY <1>1, <1>8, <2>1, <2>2, <2>5
    <3>2. c[n + 1] = Session!Fold(b[n + 1], e)
      BY <1>5, <2>3, <2>5, <3>1
    <3> QED
      BY <3>1, <3>2
  <2>6. CASE D < n
    <3>1. c[n] = Session!Fold(q, e) /\ n # D /\ ~(n + 1 <= D)
      BY <1>1, <1>8, <2>1, <2>2, <2>6
    <3>2. b[n + 1] = q
      BY <1>6, <2>3, <2>6
    <3>3. PICK r \in Held : r = Session!Fold(q, e)
      BY FoldHeld
    <3>4. Session!ReadDay(t, n, r) = Session!ReadDay(s, n, r) /\ Session!ReadDay(s, n, r) = r
      BY <1>5, <1>6, <2>6, <3>1
    <3>5. c[n + 1] = Session!Fold(b[n + 1], e)
      BY <2>3, <3>1, <3>2, <3>3, <3>4
    <3> QED
      BY <3>1, <3>5
  <2> QED
    BY <1>1, <2>4, <2>5, <2>6
<1>9. 0..N \subseteq P
  BY <1>7, <1>8, UpTo
<1>10. c[N] = Session!Fold(b[N], e)
  BY <1>1, <1>9
<1> QED
  BY <1>2, <1>3, <1>4, <1>10

LEMMA BuildSound ==
  ASSUME NEW s \in Seq(Session!Event), NEW t \in Nat, \A n \in 1..Len(s) : s[n].time <= t
  PROVE  EntrySound(Session!Build(s), Lines(s), t)
<1>0. Session!LastDay \in Nat
  BY Days
<1>1. PICK N \in Nat : N = Session!LastDay + 1
  BY <1>0
<1>2. PICK b \in [0..N -> Held] : (\A n \in 0..N : b[n] = BuildStep(s, b, n)) /\ Session!Build(s) = b[N]
  BY <1>1, BuildIs
<1>3. Len(s) \in Nat /\ \A i \in 1..Len(s) : s[i] \in Session!Event
  OBVIOUS
<1> DEFINE Before2(n) == {s[m] : m \in {i \in 1..Len(s) : Session!DayOf(s[i]) < n}}
           P == {n \in Nat : n <= N => EntrySound(b[n], Before2(n), t)}
<1>4. \A i \in 1..Len(s) : Session!DayOf(s[i]) \in 0..Session!LastDay
  BY <1>3, Days
<1>5. 0 \in P
  <2>1. Before2(0) = {}
    BY <1>4
  <2>2. b[0] = Session!Unknown
    BY <1>2 DEF BuildStep
  <2> HIDE DEF Before2
  <2>3. EntrySound(b[0], Before2(0), t)
    BY <2>1, <2>2, UnknownHeld
  <2> QED
    BY <2>3
<1>6. ASSUME NEW n \in Nat, n < N, n \in P
      PROVE  n + 1 \in P
  <2>1. n + 1 \in 0..N /\ n + 1 # 0 /\ (n + 1) - 1 = n /\ n <= N /\ n \in 0..N
    BY <1>6
  <2>2. PICK q \in Held : q = b[n] /\ EntrySound(q, Before2(n), t)
    BY <1>2, <1>6, <2>1
  <2>3. b[n + 1] = Session!ReadDay(s, n, q)
    BY <1>2, <2>1, <2>2, Zenon DEF BuildStep
  <2>4. \A i \in 1..Len(s) : Session!DayOf(s[i]) < n + 1 <=> Session!DayOf(s[i]) < n \/ Session!DayOf(s[i]) = n
    BY <1>4
  <2>5. Before2(n + 1) = Before2(n) \cup OfDay(s, n, Len(s))
    BY <2>4 DEF OfDay
  <2>6. Before2(n) \subseteq Session!Event
    BY <1>3
  <2> HIDE DEF Before2
  <2>7. EntrySound(Session!ReadDay(s, n, q), Before2(n) \cup OfDay(s, n, Len(s)), t)
    BY <2>2, <2>6, ReadDaySound
  <2>8. EntrySound(b[n + 1], Before2(n + 1), t)
    BY <2>3, <2>5, <2>7, Zenon
  <2> QED
    BY <2>8
<1>7. 0..N \subseteq P
  <2>1. P \in SUBSET Nat
    OBVIOUS
  <2> HIDE DEF P
  <2> QED
    BY <1>5, <1>6, <2>1, UpTo
<1>8. Before2(N) = Lines(s)
  BY <1>1, <1>4, Days DEF Lines
<1>9. N \in P /\ N <= N
  BY <1>7
<1> HIDE DEF Before2
<1> QED
  BY <1>2, <1>8, <1>9

\* A second look at the clock finds what the later of the two would have found.
LEMMA TickTwice ==
  ASSUME NEW a \in Session!Attention, NEW l \in Nat, NEW t \in Nat, NEW u \in Nat, NEW n \in Nat, t <= u
  PROVE  Session!TickIdle(Session!TickIdle(a, l, t, n), l, u, n) = Session!TickIdle(a, l, u, n)
<1>1. l + IdleAfter \in Nat
  BY SessionAssumption
<1>2. CASE a.state = "working" /\ n = 0 /\ t >= l + IdleAfter
  <2>1. PICK r : r = [a EXCEPT !.state = "idle", !.since = l + IdleAfter, !.reason = FALSE]
    OBVIOUS
  <2>2. r.state = "idle"
    BY <2>1 DEF Session!Attention
  <2>3. Session!TickIdle(a, l, t, n) = r
    BY <1>2, <2>1 DEF Session!TickIdle
  <2>4. Session!TickIdle(r, l, u, n) = r
    BY <2>2 DEF Session!TickIdle
  <2>5. u >= l + IdleAfter
    BY <1>1, <1>2
  <2>6. Session!TickIdle(a, l, u, n) = r
    BY <1>2, <2>1, <2>5 DEF Session!TickIdle
  <2> QED
    BY <2>3, <2>4, <2>6
<1>3. CASE ~(a.state = "working" /\ n = 0 /\ t >= l + IdleAfter)
  <2>1. Session!TickIdle(a, l, t, n) = a
    BY <1>3 DEF Session!TickIdle
  <2> QED
    BY <2>1
<1> QED
  BY <1>2, <1>3

\* A sweep, part by part.
LEMMA SweepIs ==
  ASSUME NEW q \in Held, NEW t \in Nat
  PROVE  \E r \in Held :
           /\ r = Session!Sweep(q, t)
           /\ r.known = q.known /\ r.lastActivity = q.lastActivity /\ r.openTools = q.openTools
           /\ ~q.known => r = q
           /\ q.known => /\ r = [q EXCEPT !.attention = r.attention]
                         /\ r.attention = Session!TickIdle(q.attention, q.lastActivity, t, q.openTools)
                         /\ Ticked(q.attention, q.lastActivity, t, q.openTools, r.attention)
<1>1. /\ q.attention \in Session!Attention /\ q.lastActivity \in Nat /\ q.openTools \in Nat
      /\ q \in Session!Entry /\ q.openTools <= q.events
  BY DEF Held, Session!Entry
<1>2. PICK c \in Session!Attention : /\ c = Session!TickIdle(q.attention, q.lastActivity, t, q.openTools)
                                    /\ Ticked(q.attention, q.lastActivity, t, q.openTools, c)
  BY <1>1, TickTyped
<1>3. CASE ~q.known
  BY <1>3 DEF Session!Sweep
<1>4. CASE q.known
  <2>1. PICK r : r = [q EXCEPT !.attention = c]
    OBVIOUS
  <2>2. r = Session!Sweep(q, t)
    BY <1>2, <1>4, <2>1 DEF Session!Sweep
  <2>3. /\ r \in Session!Entry /\ r.attention = c /\ r.openTools = q.openTools /\ r.events = q.events
        /\ r.known = q.known /\ r.lastActivity = q.lastActivity
    BY <1>1, <2>1 DEF Session!Entry
  <2>4. r \in Held
    BY <1>1, <2>3 DEF Held
  <2> QED
    BY <1>2, <1>4, <2>1, <2>2, <2>3, <2>4
<1> QED
  BY <1>3, <1>4

LEMMA SweepTwice ==
  ASSUME NEW q \in Held, NEW t \in Nat, NEW u \in Nat, t <= u
  PROVE  Session!Sweep(Session!Sweep(q, t), u) = Session!Sweep(q, u)
<1>1. PICK r \in Held :
        /\ r = Session!Sweep(q, t)
        /\ r.known = q.known /\ r.lastActivity = q.lastActivity /\ r.openTools = q.openTools
        /\ ~q.known => r = q
        /\ q.known => /\ r = [q EXCEPT !.attention = r.attention]
                      /\ r.attention = Session!TickIdle(q.attention, q.lastActivity, t, q.openTools)
  BY SweepIs
<1>2. CASE ~q.known
  BY <1>1, <1>2
<1>3. CASE q.known
  <2>1. q.attention \in Session!Attention /\ q.lastActivity \in Nat /\ q.openTools \in Nat /\ r.attention \in Session!Attention
    BY DEF Held, Session!Entry
  <2>2. PICK c \in Session!Attention : c = Session!TickIdle(q.attention, q.lastActivity, u, q.openTools)
    BY <2>1, TickTyped
  <2>3. Session!TickIdle(r.attention, r.lastActivity, u, r.openTools) = c
    BY <1>1, <1>3, <2>1, <2>2, TickTwice
  <2>4. Session!Sweep(r, u) = [r EXCEPT !.attention = c]
    BY <1>1, <1>3, <2>3 DEF Session!Sweep
  <2>5. Session!Sweep(q, u) = [q EXCEPT !.attention = c]
    BY <1>3, <2>2 DEF Session!Sweep
  <2>6. [r EXCEPT !.attention = c] = [q EXCEPT !.attention = c]
    <3>1. PICK b : b = r.attention
      OBVIOUS
    <3>2. r = [q EXCEPT !.attention = b]
      BY <1>1, <1>3, <3>1
    <3> QED
      BY <3>2 DEF Held, Session!Entry
  <2> QED
    BY <1>1, <2>4, <2>5, <2>6
<1> QED
  BY <1>2, <1>3

LEMMA SweepSound ==
  ASSUME NEW q \in Held, NEW E \in SUBSET Session!Event, NEW t \in Nat, EntrySound(q, E, t)
  PROVE  EntrySound(Session!Sweep(q, t), E, t)
<1>1. PICK r \in Held :
        /\ r = Session!Sweep(q, t)
        /\ r.known = q.known /\ r.lastActivity = q.lastActivity /\ r.openTools = q.openTools
        /\ ~q.known => r = q
        /\ q.known => Ticked(q.attention, q.lastActivity, t, q.openTools, r.attention)
  BY SweepIs
<1>2. CASE ~q.known
  BY <1>1, <1>2
<1>3. CASE q.known
  <2>1. q.lastActivity \in Nat /\ r.attention.since \in Nat /\ \A f \in E : f.time \in Nat
    BY SessionAssumption DEF Held, Session!Entry, Session!Attention, Session!Event, Session!Times
  <2>2. CASE r.attention = q.attention
    <3> QED
      BY <1>1, <1>3, <2>2 DEF EntrySound
  <2>3. CASE t >= q.lastActivity + IdleAfter /\ r.attention.since = q.lastActivity + IdleAfter
    <3>1. \A f \in E : f.time <= q.lastActivity
      BY DEF EntrySound
    <3>2. \A f \in E : f.time + IdleAfter <= r.attention.since
      BY <2>1, <2>3, <3>1, SessionAssumption
    <3>3. r.attention.since <= t
      BY <2>1, <2>3
    <3>4. r.lastActivity <= t /\ \A f \in E : f.time <= r.lastActivity
      BY <1>1, <3>1 DEF EntrySound
    <3>5. EntrySound(r, E, t)
      BY <1>1, <1>3, <3>2, <3>3, <3>4 DEF EntrySound
    <3> QED
      BY <1>1, <3>5
  <2> QED
    BY <1>1, <1>3, <2>2, <2>3 DEF Ticked
<1> QED
  BY <1>2, <1>3

\* A fold looks at the clock itself, so a sweep before it changes nothing.
LEMMA SweepFold ==
  ASSUME NEW q \in Held, NEW t \in Nat, NEW e \in Session!Event, t <= e.time
  PROVE  Session!Fold(Session!Sweep(q, t), e) = Session!Fold(q, e)
<1>1. PICK r \in Held :
        /\ r = Session!Sweep(q, t)
        /\ r.known = q.known
        /\ ~q.known => r = q
        /\ q.known => /\ r = [q EXCEPT !.attention = r.attention]
                      /\ r.attention = Session!TickIdle(q.attention, q.lastActivity, t, q.openTools)
  BY SweepIs
<1>2. CASE ~q.known
  BY <1>1, <1>2
<1>3. CASE q.known
  <2>1. /\ q.attention \in Session!Attention /\ q.lastActivity \in Nat /\ q.openTools \in Nat /\ r.attention \in Session!Attention
        /\ e.time \in Nat
    BY SessionAssumption DEF Held, Session!Entry, Session!Event, Session!Times
  <2>2. PICK b : b = r.attention
    OBVIOUS
  <2>3. /\ r.events = q.events /\ r.firstTime = q.firstTime /\ r.lastTime = q.lastTime
        /\ r.lastActivity = q.lastActivity /\ r.openTools = q.openTools
    <3>1. r = [q EXCEPT !.attention = b]
      BY <1>1, <1>3, <2>2
    <3> QED
      BY <3>1 DEF Held, Session!Entry
  <2>4. Session!TickIdle(r.attention, r.lastActivity, e.time, r.openTools)
          = Session!TickIdle(q.attention, q.lastActivity, e.time, q.openTools)
    BY <1>1, <1>3, <2>1, <2>3, TickTwice
  <2>5. Session!Crossed(r, e) = Session!Crossed(q, e)
    BY <2>4 DEF Session!Crossed
  <2>6. Session!Fold(r, e) = Session!Fold(q, e)
    BY <1>1, <1>3, <2>3, <2>5 DEF Session!Fold, Session!ActivityAt
  <2> QED
    BY <1>1, <2>6
<1> QED
  BY <1>2, <1>3

\* Two entries that agree once swept agree still when an event of that time is folded.
LEMMA AgreeFold ==
  ASSUME NEW q \in Held, NEW r \in Held, NEW t \in Nat, NEW e \in Session!Event, t = e.time,
         Session!Sweep(q, t) = Session!Sweep(r, t)
  PROVE  Session!Fold(q, e) = Session!Fold(r, e)
<1>1. PICK a \in Held : a = Session!Sweep(q, t)
  BY SweepIs
<1>2. t <= e.time
  OBVIOUS
<1>3. Session!Fold(a, e) = Session!Fold(q, e)
  BY <1>1, <1>2, SweepFold
<1>4. Session!Fold(a, e) = Session!Fold(r, e)
  BY <1>1, <1>2, SweepFold
<1> QED
  BY <1>3, <1>4

\* What agrees at one time agrees at every later one.
LEMMA AgreeLater ==
  ASSUME NEW q \in Held, NEW r \in Held, NEW t \in Nat, NEW u \in Nat, t <= u,
         Session!Sweep(q, t) = Session!Sweep(r, t)
  PROVE  Session!Sweep(q, u) = Session!Sweep(r, u)
<1>1. Session!Sweep(Session!Sweep(q, t), u) = Session!Sweep(q, u)
  BY SweepTwice
<1>2. Session!Sweep(Session!Sweep(r, t), u) = Session!Sweep(r, u)
  BY SweepTwice
<1> QED
  BY <1>1, <1>2

\* A change that is not published is none, for what a look at the clock can change.
LEMMA TickedUnchanged ==
  ASSUME NEW a, NEW l, NEW t, NEW n, NEW c, Ticked(a, l, t, n, c), ~Session!Changed(a, c)
  PROVE  c = a
BY DEF Ticked, Session!Changed

\* The frames of a fold tell whoever knew the entry the state it came to.
LEMMA FoldTold ==
  ASSUME NEW q \in Held, NEW e \in Session!Event, NEW fs, fs = Session!FoldFrames(q, e)
  PROVE  /\ fs \in Seq(Session!Frame) /\ Len(fs) <= 2
         /\ Session!LastShown(fs, Start(q, e).attention) = Session!Fold(q, e).attention
<1>1. PICK s \in Held, c \in Session!Attention, x \in Session!Attention :
        /\ s = Start(q, e) /\ c = Session!TickIdle(s.attention, s.lastActivity, e.time, s.openTools)
        /\ x = Session!Transition(c, e)
        /\ Session!Fold(q, e).attention = IF Session!Changed(c, x) THEN x ELSE c
  BY FoldIs
<1>2. /\ e.time \in Nat /\ s.attention \in Session!Attention /\ s.lastActivity \in Nat /\ s.openTools \in Nat
  BY SessionAssumption DEF Session!Event, Session!Times, Held, Session!Entry
<1>3. Ticked(s.attention, s.lastActivity, e.time, s.openTools, c)
  <2>1. PICK d \in Session!Attention : /\ d = Session!TickIdle(s.attention, s.lastActivity, e.time, s.openTools)
                                      /\ Ticked(s.attention, s.lastActivity, e.time, s.openTools, d)
    BY <1>2, TickTyped
  <2> QED
    BY <1>1, <2>1
<1>4. PICK a \in Session!Attention : a = s.attention
  BY <1>2
<1>5. PICK one : one = [prev |-> a.state, next |-> c]
  OBVIOUS
<1>6. PICK two : two = [prev |-> c.state, next |-> x]
  OBVIOUS
<1>7. one \in Session!Frame /\ two \in Session!Frame /\ one.next = c /\ two.next = x
  BY <1>5, <1>6 DEF Session!Frame, Session!Attention
<1>8. fs = (IF Session!Changed(a, c) THEN <<one>> ELSE <<>>) \o (IF Session!Changed(c, x) THEN <<two>> ELSE <<>>)
  BY <1>1, <1>4, <1>5, <1>6, Zenon DEF Session!FoldFrames, Start, Session!Crossed
<1>9. CASE Session!Changed(a, c) /\ Session!Changed(c, x)
  <2>1. fs = <<one>> \o <<two>>
    BY <1>8, <1>9
  <2>2. fs \in Seq(Session!Frame) /\ Len(fs) = 2 /\ fs # <<>> /\ fs[2] = two
    <3>1. PICK a1 \in Seq(Session!Frame), a2 \in Seq(Session!Frame) :
            a1 = <<one>> /\ a2 = <<two>> /\ Len(a1) = 1 /\ Len(a2) = 1 /\ a2[1] = two
      <4>1. <<one>> \in Seq(Session!Frame) /\ Len(<<one>>) = 1
        BY <1>7
      <4>2. <<two>> \in Seq(Session!Frame) /\ Len(<<two>>) = 1 /\ <<two>>[1] = two
        BY <1>7
      <4> QED
        BY <4>1, <4>2, Zenon
    <3>2. fs = a1 \o a2
      BY <2>1, <3>1
    <3>3. fs \in Seq(Session!Frame) /\ Len(fs) = 2 /\ fs[2] = a2[2 - 1]
      BY <3>1, <3>2, ConcatProperties
    <3> QED
      BY <3>1, <3>3
  <2> QED
    BY <1>1, <1>7, <1>9, <2>2 DEF Session!LastShown
<1>10. CASE Session!Changed(a, c) /\ ~Session!Changed(c, x)
  <2>1. fs = <<one>>
    BY <1>8, <1>10
  <2>2. fs \in Seq(Session!Frame) /\ Len(fs) = 1 /\ fs # <<>> /\ fs[1] = one
    BY <1>7, <2>1
  <2> QED
    BY <1>1, <1>7, <1>10, <2>2 DEF Session!LastShown
<1>11. CASE ~Session!Changed(a, c) /\ Session!Changed(c, x)
  <2>1. fs = <<two>>
    BY <1>8, <1>11
  <2>2. fs \in Seq(Session!Frame) /\ Len(fs) = 1 /\ fs # <<>> /\ fs[1] = two
    BY <1>7, <2>1
  <2> QED
    BY <1>1, <1>7, <1>11, <2>2 DEF Session!LastShown
<1>12. CASE ~Session!Changed(a, c) /\ ~Session!Changed(c, x)
  <2>1. fs = <<>>
    BY <1>8, <1>12
  <2>2. fs \in Seq(Session!Frame) /\ Len(fs) = 0
    BY <2>1
  <2>3. c = a
    BY <1>3, <1>4, <1>12, TickedUnchanged
  <2> QED
    BY <1>1, <1>4, <1>12, <2>1, <2>2, <2>3 DEF Session!LastShown
<1> QED
  BY <1>9, <1>10, <1>11, <1>12

\* So does the frame of a sweep.
LEMMA SweepTold ==
  ASSUME NEW q \in Held, NEW t \in Nat, NEW fs, fs = Session!SweepFrames(q, t)
  PROVE  /\ fs \in Seq(Session!Frame) /\ Len(fs) <= 2
         /\ Session!LastShown(fs, q.attention) = Session!Sweep(q, t).attention
         /\ ~q.known => fs = <<>>
<1>1. PICK r \in Held :
        /\ r = Session!Sweep(q, t)
        /\ ~q.known => r = q
        /\ q.known => Ticked(q.attention, q.lastActivity, t, q.openTools, r.attention)
  BY SweepIs
<1>2. PICK a \in Session!Attention, c \in Session!Attention : a = q.attention /\ c = r.attention
  BY DEF Held, Session!Entry
<1>3. PICK one : one = [prev |-> a.state, next |-> c]
  OBVIOUS
<1>4. one \in Session!Frame /\ one.next = c
  BY <1>3 DEF Session!Frame, Session!Attention
<1>5. fs = IF Session!Changed(a, c) THEN <<one>> ELSE <<>>
  BY <1>1, <1>2, <1>3, Zenon DEF Session!SweepFrames
<1>6. CASE Session!Changed(a, c)
  <2>1. fs \in Seq(Session!Frame) /\ Len(fs) = 1 /\ fs # <<>> /\ fs[1] = one
    BY <1>4, <1>5, <1>6
  <2>2. q.known
    BY <1>1, <1>2, <1>6 DEF Session!Changed
  <2> QED
    BY <1>1, <1>2, <1>4, <2>1, <2>2 DEF Session!LastShown
<1>7. CASE ~Session!Changed(a, c)
  <2>1. fs = <<>>
    BY <1>5, <1>7
  <2>2. fs \in Seq(Session!Frame) /\ Len(fs) = 0
    BY <2>1
  <2>3. c = a
    BY <1>1, <1>2, <1>7, TickedUnchanged
  <2> QED
    BY <1>1, <1>2, <2>1, <2>2, <2>3 DEF Session!LastShown
<1> QED
  BY <1>6, <1>7

\* Nothing is built from nothing.
LEMMA BuildEmpty == Session!Build(<<>>) = Session!Unknown
<1>0. <<>> \in Seq(Session!Event) /\ Len(<<>>) = 0
  BY EmptySeq
<1>1. PICK s \in Seq(Session!Event) : s = <<>> /\ Len(s) = 0
  BY <1>0
<1>2. Session!LastDay \in Nat
  BY Days
<1>3. PICK N \in Nat : N = Session!LastDay + 1
  BY <1>2
<1>4. PICK b \in [0..N -> Held] : (\A n \in 0..N : b[n] = BuildStep(s, b, n)) /\ Session!Build(s) = b[N]
  BY <1>3, BuildIs
<1> DEFINE P == {n \in Nat : n <= N => b[n] = Session!Unknown}
<1>5. 0 \in P
  BY <1>4 DEF BuildStep
<1>6. ASSUME NEW n \in Nat, n < N, n \in P
      PROVE  n + 1 \in P
  <2>1. n + 1 \in 0..N /\ n + 1 # 0 /\ (n + 1) - 1 = n /\ n <= N
    BY <1>6
  <2>2. b[n] = Session!Unknown
    BY <1>6, <2>1
  <2>3. b[n + 1] = Session!ReadDay(s, n, b[n])
    BY <1>4, <2>1, Zenon DEF BuildStep
  <2>4. \A m \in 1..Len(s) : Session!DayOf(s[m]) # n
    BY <1>1
  <2>5. Session!ReadDay(s, n, Session!Unknown) = Session!Unknown
    BY <2>4, ReadDayNone, UnknownHeld
  <2> QED
    BY <2>2, <2>3, <2>5
<1>7. 0..N \subseteq P
  <2>1. P \in SUBSET Nat
    OBVIOUS
  <2> HIDE DEF P
  <2> QED
    BY <1>5, <1>6, <2>1, UpTo
<1>8. b[N] = Session!Unknown
  BY <1>7
<1> QED
  BY <1>1, <1>4, <1>8

LEMMA SessionInit == Session!Init => SessionInv
<1> SUFFICES ASSUME Session!Init PROVE SessionInv
  OBVIOUS
<1>1. hour = 0 /\ log = <<>> /\ entry = Session!Unknown /\ frames = <<>> /\ believed = Session!Unknown.attention /\ delayed = FALSE
  BY DEF Session!Init
<1>2. Lines(log) = {} /\ LogSound
  BY <1>1 DEF Lines, LogSound
<1>3. entry \in Held /\ EntrySound(entry, Lines(log), hour)
  BY <1>1, <1>2, UnknownHeld
<1>4. Session!Build(log) = entry
  BY <1>1, BuildEmpty
<1>5. <<>> \in Seq(Session!Event) /\ <<>> \in Seq(Session!Frame) /\ Len(<<>>) = 0
  BY EmptySeq
<1>6. believed = entry.attention
  BY <1>1
<1>7. entry \in Session!Entry /\ entry.attention \in Session!Attention /\ entry.openTools <= entry.events
  BY <1>3 DEF Held, Session!Entry
<1>8. Session!TypeOK
  <2>1. hour \in Session!Times
    BY <1>1, SessionAssumption DEF Session!Times
  <2>2. log \in Seq(Session!Event) /\ frames \in Seq(Session!Frame) /\ Len(frames) <= 2 /\ delayed \in BOOLEAN
    <3>1. log \in Seq(Session!Event) /\ frames \in Seq(Session!Frame) /\ Len(frames) = 0 /\ delayed \in BOOLEAN
      BY <1>1, <1>5, Zenon
    <3> QED
      BY <3>1
  <2> QED
    BY <1>6, <1>7, <2>1, <2>2 DEF Session!TypeOK
<1> QED
  BY <1>2, <1>3, <1>4, <1>6, <1>8 DEF SessionInv

LEMMA SessionTick == ASSUME SessionInv, Session!Tick PROVE SessionInv'
<1>1. /\ hour < SessionTime /\ hour' = hour + 1 /\ frames' = <<>>
      /\ log' = log /\ entry' = entry /\ believed' = believed /\ delayed' = delayed
  BY DEF Session!Tick
<1>2. /\ hour \in Nat /\ log \in Seq(Session!Event) /\ entry \in Held
  BY SessionAssumption DEF SessionInv, Session!TypeOK, Session!Times
<1>3. PICK t \in Nat, u \in Nat, s \in Seq(Session!Event), q \in Held :
        t = hour /\ u = hour' /\ s = log /\ q = entry /\ u = t + 1 /\ u <= SessionTime
  BY <1>1, <1>2, SessionAssumption
<1>4. \A n \in 1..Len(s) : s[n].time \in Nat
  <2>1. \A n \in 1..Len(s) : s[n] \in Session!Event
    OBVIOUS
  <2>2. \A e \in Session!Event : e.time \in Nat
    BY SessionAssumption DEF Session!Event, Session!Times
  <2> QED
    BY <2>1, <2>2
<1>5. LogSound'
  <2>1. \A n \in 1..Len(s) : s[n].time <= t
    BY <1>3 DEF SessionInv, LogSound
  <2>2. \A n \in 1..Len(s) : s[n].time <= u
    BY <1>3, <1>4, <2>1
  <2>3. ~delayed => \A m, n \in 1..Len(log) : m <= n => log[m].time <= log[n].time
    BY DEF SessionInv, LogSound
  <2> QED
    BY <1>1, <1>3, <2>2, <2>3 DEF LogSound
<1>6. EntrySound(q, Lines(s), u)
  <2>1. EntrySound(q, Lines(s), t)
    BY <1>3, Zenon DEF SessionInv
  <2>2. q.lastActivity \in Nat /\ q.attention.since \in Nat
    BY DEF Held, Session!Entry, Session!Attention
  <2>3. q.lastActivity <= u
    BY <1>3, <2>1, <2>2 DEF EntrySound
  <2>4. q.attention.state = "idle" => q.attention.since <= u
    BY <1>3, <2>1, <2>2 DEF EntrySound
  <2> QED
    BY <2>1, <2>3, <2>4 DEF EntrySound
<1>7. ~delayed => Session!Sweep(q, u) = Session!Sweep(Session!Build(s), u)
  <2> SUFFICES ASSUME ~delayed PROVE Session!Sweep(q, u) = Session!Sweep(Session!Build(s), u)
    OBVIOUS
  <2>1. PICK b \in Held : b = Session!Build(s)
    BY BuildHeld
  <2>2. Session!Sweep(q, t) = Session!Sweep(b, t)
    BY <1>3, <2>1, Zenon DEF SessionInv
  <2>3. t <= u
    BY <1>3
  <2> QED
    BY <2>1, <2>2, <2>3, AgreeLater
<1>8. Session!TypeOK'
  <2>1. u \in Session!Times
    BY <1>3 DEF Session!Times
  <2>2. frames' \in Seq(Session!Frame) /\ Len(frames') <= 2
    BY <1>1, EmptySeq
  <2> QED
    BY <1>1, <1>3, <2>1, <2>2 DEF SessionInv, Session!TypeOK
<1>9. entry'.known => believed' = entry'.attention
  BY <1>1 DEF SessionInv
<1>10. EntrySound(entry, Lines(log), hour)'
  BY <1>1, <1>3, <1>6, Zenon DEF Lines
<1>11. (~delayed => Session!Sweep(entry, hour) = Session!Sweep(Session!Build(log), hour))'
  BY <1>1, <1>3, <1>7, Zenon
<1>12. entry' \in Held
  BY <1>1, <1>2
<1> QED
  BY <1>5, <1>8, <1>9, <1>10, <1>11, <1>12 DEF SessionInv

LEMMA SessionSweep == ASSUME SessionInv, Session!AdvanceIdle PROVE SessionInv'
<1>1. /\ entry' = Session!Sweep(entry, hour) /\ frames' = Session!SweepFrames(entry, hour)
      /\ believed' = Session!LastShown(frames', believed)
      /\ hour' = hour /\ log' = log /\ delayed' = delayed
  BY DEF Session!AdvanceIdle
<1>2. /\ hour \in Nat /\ hour \in Session!Times /\ log \in Seq(Session!Event) /\ entry \in Held
  BY SessionAssumption DEF SessionInv, Session!TypeOK, Session!Times
<1>3. PICK t \in Nat, s \in Seq(Session!Event), q \in Held : t = hour /\ s = log /\ q = entry
  BY <1>2
<1>0. PICK fs : fs = Session!SweepFrames(q, t)
  OBVIOUS
<1>4. PICK r \in Held : /\ r = Session!Sweep(q, t) /\ r.known = q.known /\ (~q.known => r = q)
  BY SweepIs
<1>5. entry' = r /\ frames' = fs /\ hour' = t /\ log' = s
  BY <1>0, <1>1, <1>3, <1>4, Zenon
<1>6. /\ fs \in Seq(Session!Frame) /\ Len(fs) <= 2
      /\ Session!LastShown(fs, q.attention) = r.attention
      /\ ~q.known => fs = <<>>
  BY <1>0, <1>4, SweepTold
<1>7. r.known => believed' = r.attention
  BY <1>1, <1>3, <1>4, <1>5, <1>6 DEF SessionInv
<1>8. believed' \in Session!Attention
  <2>1. r.attention \in Session!Attention
    BY DEF Held, Session!Entry
  <2>2. CASE r.known
    BY <1>7, <2>1, <2>2
  <2>3. CASE ~r.known
    <3>1. fs = <<>>
      BY <1>4, <1>6, <2>3
    <3>2. believed' = believed
      BY <1>1, <1>5, <3>1 DEF Session!LastShown
    <3> QED
      BY <3>2 DEF SessionInv, Session!TypeOK
  <2> QED
    BY <2>2, <2>3
<1>9. LogSound'
  BY <1>1 DEF SessionInv, LogSound
<1>10. EntrySound(r, Lines(s), t)
  <2>1. Lines(s) \in SUBSET Session!Event
    BY DEF Lines
  <2>2. EntrySound(q, Lines(s), t)
    BY <1>3, Zenon DEF SessionInv
  <2> QED
    BY <1>4, <2>1, <2>2, SweepSound
<1>11. ~delayed => Session!Sweep(r, t) = Session!Sweep(Session!Build(s), t)
  <2> SUFFICES ASSUME ~delayed PROVE Session!Sweep(r, t) = Session!Sweep(Session!Build(s), t)
    OBVIOUS
  <2>1. Session!Sweep(q, t) = Session!Sweep(Session!Build(s), t)
    BY <1>3, Zenon DEF SessionInv
  <2>2. t <= t
    OBVIOUS
  <2>3. Session!Sweep(r, t) = Session!Sweep(q, t)
    BY <1>4, <2>2, SweepTwice
  <2> QED
    BY <2>1, <2>3
<1>12. Session!TypeOK'
  <2>1. r \in Session!Entry /\ r.openTools <= r.events
    BY DEF Held
  <2>2. delayed' \in BOOLEAN /\ hour' \in Session!Times /\ log' \in Seq(Session!Event)
    BY <1>1, <1>2 DEF SessionInv, Session!TypeOK
  <2> QED
    BY <1>5, <1>6, <1>8, <2>1, <2>2 DEF Session!TypeOK
<1>13. EntrySound(entry, Lines(log), hour)'
  BY <1>5, <1>10, Zenon DEF Lines
<1>14. (~delayed => Session!Sweep(entry, hour) = Session!Sweep(Session!Build(log), hour))'
  BY <1>1, <1>5, <1>11, Zenon
<1>15. entry' \in Held /\ (entry'.known => believed' = entry'.attention)
  BY <1>5, <1>7
<1> QED
  BY <1>9, <1>12, <1>13, <1>14, <1>15 DEF SessionInv

LEMMA SessionRestart == ASSUME SessionInv, Session!Restart PROVE SessionInv'
<1>1. /\ entry' = Session!Build(log) /\ frames' = <<>> /\ believed' = entry'.attention
      /\ hour' = hour /\ log' = log /\ delayed' = delayed
  BY DEF Session!Restart, Session!Rebuilt
<1>2. /\ hour \in Nat /\ hour \in Session!Times /\ log \in Seq(Session!Event)
  BY SessionAssumption DEF SessionInv, Session!TypeOK, Session!Times
<1>3. PICK t \in Nat, s \in Seq(Session!Event) : t = hour /\ s = log
  BY <1>2
<1>4. PICK r \in Held : r = Session!Build(s)
  BY BuildHeld
<1>5. \A n \in 1..Len(s) : s[n].time <= t
  BY <1>3 DEF SessionInv, LogSound
<1>6. EntrySound(r, Lines(s), t)
  BY <1>4, <1>5, BuildSound
<1>7. entry' = r /\ hour' = t /\ log' = s
  BY <1>1, <1>3, <1>4, Zenon
<1>8. EntrySound(entry, Lines(log), hour)'
  BY <1>6, <1>7, Zenon DEF Lines
<1>9. (~delayed => Session!Sweep(entry, hour) = Session!Sweep(Session!Build(log), hour))'
  BY <1>4, <1>7, Zenon
<1>10. LogSound'
  BY <1>1 DEF SessionInv, LogSound
<1>11. Session!TypeOK'
  <2>1. r \in Session!Entry /\ r.openTools <= r.events /\ r.attention \in Session!Attention
    BY DEF Held, Session!Entry
  <2>2. delayed' \in BOOLEAN /\ hour' \in Session!Times /\ log' \in Seq(Session!Event)
    BY <1>1, <1>2 DEF SessionInv, Session!TypeOK
  <2>3. frames' \in Seq(Session!Frame) /\ Len(frames') <= 2
    BY <1>1, EmptySeq
  <2> QED
    BY <1>1, <1>7, <2>1, <2>2, <2>3 DEF Session!TypeOK
<1> QED
  BY <1>1, <1>7, <1>8, <1>9, <1>10, <1>11 DEF SessionInv

\* The spool is in the order of its days when it is in the order of its times.
LEMMA InOrder ==
  ASSUME NEW s \in Seq(Session!Event), NEW e \in Session!Event, \A n \in 1..Len(s) : s[n].time <= e.time
  PROVE  \A n \in 1..Len(s) : Session!DayOf(s[n]) <= Session!DayOf(e)
<1>1. \A n \in 1..Len(s) : s[n] \in Session!Event
  OBVIOUS
<1> QED
  BY <1>1, Days

LEMMA SessionObserve ==
  ASSUME SessionInv, NEW kind \in Session!Kinds, NEW late \in 0..MaxLate, Session!Observe(kind, late)
  PROVE  SessionInv'
<1>1. PICK e : e = [time |-> hour - late, kind |-> kind]
  OBVIOUS
<1>2. /\ late <= hour /\ log' = Append(log, e) /\ entry' = Session!Fold(entry, e)
      /\ frames' = Session!FoldFrames(entry, e)
      /\ believed' = Session!LastShown(frames', IF entry.known THEN believed ELSE Session!NewEntry(e).attention)
      /\ delayed' = (delayed \/ late > 0) /\ hour' = hour
  BY <1>1, Zenon DEF Session!Observe
<1>3. /\ hour \in Nat /\ hour \in Session!Times /\ log \in Seq(Session!Event) /\ entry \in Held /\ late \in Nat
  BY SessionAssumption DEF SessionInv, Session!TypeOK, Session!Times
<1>4. PICK t \in Nat, s \in Seq(Session!Event), q \in Held : t = hour /\ s = log /\ q = entry
  BY <1>3
<1>5. e.time = t - late /\ e.time \in Nat /\ e.time <= t /\ e \in Session!Event
  <2>1. e.time = t - late /\ e.kind = kind
    BY <1>1, <1>4
  <2>2. t - late \in Nat /\ t - late <= t
    BY <1>2, <1>3, <1>4
  <2>3. t - late \in Session!Times
    BY <1>3, <1>4, <2>2, SessionAssumption DEF Session!Times
  <2> QED
    BY <1>1, <1>4, <2>1, <2>2, <2>3 DEF Session!Event
<1>6. PICK r \in Held : r = Session!Fold(q, e)
  BY <1>5, FoldHeld
<1>0. PICK w \in Seq(Session!Event) : w = Append(s, e)
  BY <1>5, AppendProperties
<1>7. w = Append(s, e) /\ Len(w) = Len(s) + 1 /\ w[Len(s) + 1] = e /\ \A n \in 1..Len(s) : w[n] = s[n]
  BY <1>0, <1>5, AppendProperties
<1>8. PICK fs : fs = Session!FoldFrames(q, e)
  OBVIOUS
<1>9. hour' = t /\ log' = w /\ entry' = r /\ frames' = fs
  BY <1>2, <1>4, <1>6, <1>7, <1>8, Zenon
<1>10. Len(s) \in Nat /\ \A n \in 1..Len(s) : s[n] \in Session!Event /\ s[n].time <= t
  <2>1. \A n \in 1..Len(s) : s[n].time <= t
    BY <1>4 DEF SessionInv, LogSound
  <2> QED
    BY <2>1
<1>11. EntrySound(r, Lines(w), t)
  <2>1. Lines(w) = Lines(s) \cup {e}
    <3>1. \A n \in 1..Len(w) : w[n] \in Lines(s) \cup {e}
      BY <1>7, <1>10 DEF Lines
    <3>2. \A n \in 1..Len(s) : s[n] \in Lines(w)
      BY <1>7, <1>10 DEF Lines
    <3>3. e \in Lines(w)
      BY <1>7, <1>10 DEF Lines
    <3> QED
      BY <3>1, <3>2, <3>3 DEF Lines
  <2>2. Lines(s) \in SUBSET Session!Event
    BY <1>10 DEF Lines
  <2>3. EntrySound(q, Lines(s), t)
    BY <1>4, Zenon DEF SessionInv
  <2>4. EntrySound(Session!Fold(q, e), Lines(s) \cup {e}, t)
    BY <1>5, <2>2, <2>3, FoldSound
  <2> QED
    BY <1>6, <2>1, <2>4
<1>12. ~delayed' => ~delayed /\ late = 0
  <2>1. late > 0 \/ late = 0
    BY <1>3
  <2>2. late > 0 => delayed'
    BY <1>2, Zenon
  <2>3. delayed => delayed'
    BY <1>2, Zenon
  <2> QED
    BY <2>1, <2>2, <2>3, Zenon
<1>13. LogSound'
  <2>1. \A n \in 1..Len(w) : w[n].time <= t
    <3> SUFFICES ASSUME NEW n \in 1..Len(w) PROVE w[n].time <= t
      OBVIOUS
    <3>1. n \in 1..Len(s) \/ n = Len(s) + 1
      BY <1>7, <1>10
    <3> QED
      BY <1>5, <1>7, <1>10, <3>1
  <2>2. ASSUME ~delayed', NEW m \in 1..Len(w), NEW n \in 1..Len(w), m <= n
        PROVE  w[m].time <= w[n].time
    <3>1. e.time = t
      BY <1>4, <1>5, <1>12, <2>2
    <3>2. CASE n = Len(s) + 1
      BY <1>7, <2>1, <3>1, <3>2
    <3>3. CASE n # Len(s) + 1
      <4>1. m \in 1..Len(s) /\ n \in 1..Len(s)
        BY <1>7, <1>10, <2>2, <3>3
      <4>2. ~delayed => \A i, j \in 1..Len(s) : i <= j => s[i].time <= s[j].time
        BY <1>4 DEF SessionInv, LogSound
      <4> QED
        BY <1>7, <1>12, <2>2, <4>1, <4>2
    <3> QED
      BY <3>2, <3>3
  <2>3. ~delayed' => \A m, n \in 1..Len(w) : m <= n => w[m].time <= w[n].time
    BY <2>2
  <2> QED
    BY <1>9, <2>1, <2>3 DEF LogSound
<1>14. ~delayed' => Session!Sweep(r, t) = Session!Sweep(Session!Build(w), t)
  <2> SUFFICES ASSUME ~delayed' PROVE Session!Sweep(r, t) = Session!Sweep(Session!Build(w), t)
    OBVIOUS
  <2>1. e.time = t
    BY <1>4, <1>5, <1>12
  <2>2. PICK b \in Held : b = Session!Build(s)
    BY BuildHeld
  <2>3. Session!Sweep(q, t) = Session!Sweep(b, t)
    BY <1>4, <1>12, <2>2, Zenon DEF SessionInv
  <2>4. Session!Fold(q, e) = Session!Fold(b, e)
    BY <1>5, <2>1, <2>3, AgreeFold
  <2>5. Session!Build(Append(s, e)) = Session!Fold(b, e)
    <3>1. \A n \in 1..Len(s) : s[n].time <= e.time
      BY <1>10, <2>1
    <3> QED
      BY <1>5, <2>2, <3>1, InOrder, BuildAppend
  <2>6. Session!Build(w) = r
    BY <1>6, <1>7, <2>4, <2>5
  <2> QED
    BY <2>6
<1>15. fs \in Seq(Session!Frame) /\ Len(fs) <= 2 /\ Session!LastShown(fs, Start(q, e).attention) = r.attention
  BY <1>5, <1>6, <1>8, FoldTold
<1>16. believed' = r.attention
  <2>1. (IF entry.known THEN believed ELSE Session!NewEntry(e).attention) = Start(q, e).attention
    BY <1>4 DEF SessionInv, Start
  <2> QED
    BY <1>2, <1>9, <1>15, <2>1, Zenon
<1>17. Session!TypeOK'
  <2>1. r \in Session!Entry /\ r.openTools <= r.events /\ r.attention \in Session!Attention
    BY DEF Held, Session!Entry
  <2>2. delayed' \in BOOLEAN
    BY <1>2, Zenon
  <2> QED
    BY <1>3, <1>4, <1>9, <1>15, <1>16, <2>1, <2>2 DEF Session!TypeOK
<1>18. EntrySound(entry, Lines(log), hour)'
  BY <1>9, <1>11, Zenon DEF Lines
<1>19. (~delayed => Session!Sweep(entry, hour) = Session!Sweep(Session!Build(log), hour))'
  BY <1>9, <1>14, Zenon
<1>20. entry' \in Held /\ (entry'.known => believed' = entry'.attention)
  BY <1>9, <1>16
<1> QED
  BY <1>13, <1>17, <1>18, <1>19, <1>20 DEF SessionInv

LEMMA SessionStep == ASSUME SessionInv, [Session!Next]_(Session!vars) PROVE SessionInv'
<1>1. CASE Session!Tick
  BY <1>1, SessionTick
<1>2. CASE Session!AdvanceIdle
  BY <1>2, SessionSweep
<1>3. CASE Session!Restart
  BY <1>3, SessionRestart
<1>4. ASSUME NEW kind \in Session!Kinds, NEW late \in 0..MaxLate, Session!Observe(kind, late)
      PROVE  SessionInv'
  BY <1>4, SessionObserve
<1>5. CASE UNCHANGED Session!vars
  <2>1. hour' = hour /\ log' = log /\ entry' = entry /\ frames' = frames /\ believed' = believed /\ delayed' = delayed
    BY <1>5, Zenon DEF Session!vars
  <2> QED
    BY <2>1, Zenon DEF SessionInv, Session!TypeOK, LogSound, Lines
<1> QED
  BY <1>1, <1>2, <1>3, <1>4, <1>5 DEF Session!Next

LEMMA SessionMeans ==
  ASSUME SessionInv PROVE Session!RebuildAgrees /\ Session!IdleMeansQuiet /\ Session!StreamMatchesState
<1>1. Session!RebuildAgrees
  BY Zenon DEF SessionInv, Session!RebuildAgrees, Session!Rebuilt
<1>2. Session!IdleMeansQuiet
  <2>1. log \in Seq(Session!Event)
    BY DEF SessionInv, Session!TypeOK
  <2>2. DOMAIN log = 1..Len(log)
    BY <2>1
  <2>3. \A n \in 1..Len(log) : log[n] \in Lines(log)
    BY DEF Lines
  <2>4. EntrySound(entry, Lines(log), hour)
    BY DEF SessionInv
  <2> QED
    BY <2>2, <2>3, <2>4 DEF Session!IdleMeansQuiet, EntrySound
<1>3. Session!StreamMatchesState
  BY DEF SessionInv, Session!StreamMatchesState
<1> QED
  BY <1>1, <1>2, <1>3

\* A request stands until it is answered.
LEMMA SessionStands == ASSUME SessionInv, [Session!Next]_(Session!vars) PROVE Session!RequestHeld
<1> SUFFICES ASSUME entry.known, entry.attention.state = "needs_input", entry'.attention.state # "needs_input"
             PROVE  \/ delayed /\ frames' = <<>>
                    \/ /\ Len(log') > Len(log)
                       /\ log'[Len(log')].kind \in {"reply", "end"} \/ Session!IsActivity(log'[Len(log')])
  BY DEF Session!RequestHeld
<1>1. /\ hour \in Nat /\ log \in Seq(Session!Event) /\ entry \in Held
  BY SessionAssumption DEF SessionInv, Session!TypeOK, Session!Times
<1>2. PICK t \in Nat, s \in Seq(Session!Event), q \in Held : t = hour /\ s = log /\ q = entry
  BY <1>1
<1>3. q.known /\ q.attention.state = "needs_input" /\ q.attention \in Session!Attention
  BY <1>2 DEF Held, Session!Entry
<1>4. CASE Session!Tick
  BY <1>4 DEF Session!Tick
<1>5. CASE Session!AdvanceIdle
  <2>1. entry' = Session!Sweep(q, t)
    BY <1>2, <1>5, Zenon DEF Session!AdvanceIdle
  <2>2. PICK r \in Held : r = Session!Sweep(q, t) /\ Ticked(q.attention, q.lastActivity, t, q.openTools, r.attention)
    BY <1>3, SweepIs
  <2>3. r.attention.state = "needs_input"
    BY <1>3, <2>2 DEF Ticked
  <2> QED
    BY <2>1, <2>2, <2>3
<1>6. CASE Session!Restart
  <2>1. PICK b \in Held : b = Session!Build(s)
    BY BuildHeld
  <2>2. entry' = b /\ frames' = <<>>
    BY <1>2, <1>6, <2>1, Zenon DEF Session!Restart, Session!Rebuilt
  <2>3. CASE ~delayed
    <3>1. Session!Sweep(q, t) = Session!Sweep(b, t)
      BY <1>2, <2>1, <2>3, Zenon DEF SessionInv
    <3>0. PICK r \in Held : /\ r = Session!Sweep(q, t) /\ r.known = q.known
                            /\ Ticked(q.attention, q.lastActivity, t, q.openTools, r.attention)
      BY <1>3, SweepIs
    <3>2. r = Session!Sweep(q, t) /\ r.attention.state = "needs_input" /\ r.known
      BY <1>3, <3>0 DEF Ticked
    <3>3. b.known => Ticked(b.attention, b.lastActivity, t, b.openTools, r.attention)
      BY <3>1, <3>2, SweepIs
    <3>4. ~b.known => r = b
      BY <3>1, <3>2, SweepIs
    <3>5. b.attention.state = "needs_input"
      BY <3>2, <3>3, <3>4 DEF Ticked
    <3> QED
      BY <2>2, <3>5
  <2> QED
    BY <2>2, <2>3
<1>7. ASSUME NEW kind \in Session!Kinds, NEW late \in 0..MaxLate, Session!Observe(kind, late)
      PROVE  /\ Len(log') > Len(log)
             /\ log'[Len(log')].kind \in {"reply", "end"} \/ Session!IsActivity(log'[Len(log')])
  <2>1. PICK e : e = [time |-> hour - late, kind |-> kind]
    OBVIOUS
  <2>2. late <= hour /\ log' = Append(log, e) /\ entry' = Session!Fold(entry, e)
    BY <1>7, <2>1, Zenon DEF Session!Observe
  <2>3. e \in Session!Event
    <3>1. late \in Nat /\ hour \in 0..SessionTime
      BY SessionAssumption DEF SessionInv, Session!TypeOK, Session!Times
    <3>2. hour - late \in Session!Times
      BY <2>2, <3>1, SessionAssumption DEF Session!Times
    <3> QED
      BY <2>1, <3>2 DEF Session!Event
  <2>0. PICK w \in Seq(Session!Event) : w = Append(s, e)
    BY <2>3, AppendProperties
  <2>4. w = Append(s, e) /\ Len(w) = Len(s) + 1 /\ w[Len(s) + 1] = e
    BY <2>0, <2>3, AppendProperties
  <2>5. PICK h \in Held, c \in Session!Attention, x \in Session!Attention, r \in Held :
          /\ h = Start(q, e) /\ c = Session!TickIdle(h.attention, h.lastActivity, e.time, h.openTools)
          /\ x = Session!Transition(c, e)
          /\ r = Session!Fold(q, e)
          /\ r.attention = IF Session!Changed(c, x) THEN x ELSE c
    BY <2>3, FoldIs
  <2>6. h = q
    BY <1>3, <2>5 DEF Start
  <2>7. c = q.attention
    BY <1>3, <2>5, <2>6 DEF Session!TickIdle
  <2>8. r.attention.state # "needs_input"
    BY <1>2, <2>2, <2>5
  <2>9. x.state # "needs_input"
    BY <1>3, <2>5, <2>7, <2>8
  <2>10. e.kind \in {"reply", "end"} \/ Session!IsActivity(e)
    BY <1>3, <2>3, <2>5, <2>7, <2>9, TransitionTyped
  <2>11. log' = w /\ log = s /\ Len(s) \in Nat
    BY <1>2, <2>2, <2>4
  <2>12. Len(w) > Len(s) /\ w[Len(w)] = e
    BY <2>4, <2>11
  <2> QED
    BY <2>10, <2>11, <2>12
<1>8. CASE UNCHANGED Session!vars
  <2>1. entry' = entry
    BY <1>8, Zenon DEF Session!vars
  <2> QED
    BY <2>1
<1> QED
  BY <1>4, <1>5, <1>6, <1>7, <1>8 DEF Session!Next

----------------------------------------------------------------------------
(* The whole.                                                              *)

\* The invariant of the machine that was chosen.
DaemonInv ==
  /\ On("tail") => TailInv
  /\ On("otel") => RelayInv
  /\ On("hook") => HookInv
  /\ On("worktree") => TreeInv /\ ToldInv
  /\ On("session") => SessionInv

LEMMA DaemonInit == Init => DaemonInv
<1> SUFFICES ASSUME Init PROVE DaemonInv
  OBVIOUS
<1>0. On("tail") => Tailer!Init
  BY DEF Init, On
<1>3. On("otel") => Telemetry!ForwardingInit
  BY DEF Init, On
<1>1. On("hook") => Hooked!Init
  BY DEF Init, On
<1>2. On("worktree") => Worktree!Init
  BY DEF Init, On
<1>4. On("session") => Session!Init
  BY DEF Init, On
<1> QED
  BY <1>0, <1>1, <1>2, <1>3, <1>4, TailInit, RelayInit, HookInit, TreeInit, ToldInit, SessionInit DEF DaemonInv

\* A step of the whole is one of the chosen machine, or leaves its cells alone.
LEMMA DaemonMoves ==
  ASSUME [Next]_cells
  PROVE  /\ machine' = machine
         /\ On("tail") => [Tailer!Next]_(Tailer!vars)
         /\ On("otel") => [Telemetry!ForwardingNext]_(Telemetry!allVars)
         /\ On("hook") => [Hooked!Next]_(Hooked!vars)
         /\ On("worktree") => [Worktree!Next]_(Worktree!vars)
         /\ On("view") => [View!Next]_(View!vars)
         /\ On("session") => [Session!Next]_(Session!vars)
<1>1. CASE UNCHANGED cells
  BY <1>1 DEF cells, Tailer!vars, Telemetry!allVars, Telemetry!vars, Telemetry!files, Telemetry!relay, Hooked!vars, Hooked!daemon, Hooked!ghosts, Hooked!bounds, Worktree!vars, Worktree!world, Worktree!ghosts,
     View!vars, View!bracket, View!viewer, Session!vars
<1>2. CASE Next
  <2>1. machine' = machine
    BY <1>2 DEF Next
  <2>0. On("tail") => Tailer!Next
    BY <1>2 DEF Next, On
  <2>4. On("otel") => Telemetry!ForwardingNext
    BY <1>2 DEF Next, On
  <2>2. On("hook") => Hooked!Next
    BY <1>2 DEF Next, On
  <2>3. On("worktree") => Worktree!Next
    BY <1>2 DEF Next, On
  <2>5. On("view") => View!Next
    BY <1>2 DEF Next, On
  <2>6. On("session") => Session!Next
    BY <1>2 DEF Next, On
  <2> QED
    BY <2>0, <2>1, <2>2, <2>3, <2>4, <2>5, <2>6
<1> QED
  BY <1>1, <1>2

LEMMA DaemonStep == DaemonInv /\ [Next]_cells => DaemonInv'
<1> SUFFICES ASSUME DaemonInv, [Next]_cells PROVE DaemonInv'
  OBVIOUS
<1>0. machine' = machine
  BY DaemonMoves
<1>3. On("tail") => TailInv'
  BY DaemonMoves, TailStep DEF DaemonInv
<1>4. On("otel") => RelayInv'
  BY DaemonMoves, RelayStep DEF DaemonInv
<1>1. On("hook") => HookInv'
  BY DaemonMoves, HookStep DEF DaemonInv
<1>2. On("worktree") => TreeInv'
  BY DaemonMoves, TreeStep DEF DaemonInv
<1>5. On("worktree") => ToldInv'
  BY DaemonMoves, ToldStep DEF DaemonInv, TreeInv
<1>6. On("session") => SessionInv'
  BY DaemonMoves, SessionStep DEF DaemonInv
<1> QED
  BY <1>0, <1>1, <1>2, <1>3, <1>4, <1>5, <1>6 DEF DaemonInv, On

\* The viewer's bracket, which needs room.
BracketInv == On("view") => ViewInv

LEMMA BracketInit == Init => BracketInv
<1> SUFFICES ASSUME Init, On("view") PROVE ViewInv
  BY DEF BracketInv
<1>1. View!Init
  BY DEF Init, On
<1> QED
  BY <1>1, ViewInit

LEMMA BracketStep == ASSUME Room, BracketInv, [Next]_cells PROVE BracketInv'
<1>1. machine' = machine
  BY DaemonMoves
<1>2. On("view") => ViewInv'
  BY DaemonMoves, ViewStep DEF BracketInv
<1> QED
  BY <1>1, <1>2 DEF BracketInv, On

LEMMA DaemonKeeps == DaemonInv /\ BracketInv => NothingLost /\ OnceAndSame
<1> SUFFICES ASSUME DaemonInv, BracketInv PROVE NothingLost /\ OnceAndSame
  OBVIOUS
<1>1. CASE On("tail")
  BY <1>1, TailMeans DEF DaemonInv, On, NothingLost, OnceAndSame
<1>2. CASE On("otel")
  BY <1>2, RelayMeans DEF DaemonInv, On, NothingLost, OnceAndSame
<1>3. CASE On("view")
  BY <1>3, ViewMeans DEF BracketInv, On, NothingLost, OnceAndSame
<1>4. CASE ~On("tail") /\ ~On("otel") /\ ~On("view")
  BY <1>4 DEF NothingLost, OnceAndSame
<1> QED
  BY <1>1, <1>2, <1>3, <1>4

LEMMA DaemonMeans == DaemonInv => Truthful
<1> SUFFICES ASSUME DaemonInv PROVE Truthful
  OBVIOUS
<1>1. CASE On("hook")
  BY <1>1, HookMeans DEF DaemonInv, On, Truthful
<1>2. CASE On("worktree")
  BY <1>2, TreeMeans DEF DaemonInv, On, Truthful
<1>3. CASE ~On("hook") /\ ~On("worktree")
  BY <1>3 DEF Truthful
<1> QED
  BY <1>1, <1>2, <1>3

LEMMA DaemonStands ==
  DaemonInv /\ [Next]_cells =>
    [CASE On("session") -> Session!RequestHeld
       [] On("worktree") -> Worktree!SettledOnce
       [] OTHER -> TRUE]_cells
<1> SUFFICES ASSUME DaemonInv, [Next]_cells
             PROVE  CASE On("session") -> Session!RequestHeld
                      [] On("worktree") -> Worktree!SettledOnce
                      [] OTHER -> TRUE
  OBVIOUS
<1>1. CASE On("session")
  <2>1. Session!RequestHeld
    BY <1>1, DaemonMoves, SessionStands DEF DaemonInv
  <2> QED
    BY <1>1, <2>1 DEF On
<1>2. CASE On("worktree")
  <2>1. Worktree!SettledOnce
    BY <1>2, DaemonMoves, ToldStands DEF DaemonInv, TreeInv
  <2> QED
    BY <1>2, <2>1 DEF On
<1>3. CASE ~On("session") /\ ~On("worktree")
  BY <1>3
<1> QED
  BY <1>1, <1>2, <1>3

LEMMA DaemonAgrees == DaemonInv => SessionAgrees
BY SessionMeans DEF DaemonInv, SessionAgrees

\* What a hook observed is stored, by the daemon or by the hook itself; twice only if the hook
\* got no answer; and in no mode that stores more than the one configured when it set out. A
\* worktree that is there is not told as gone, one that landed is reachable from the
\* default branch, and what diverged did so in the lifetime that it is told of.
THEOREM ToldTruthfully == Spec => []Truthful
<1> QED
  BY DaemonInit, DaemonStep, DaemonMeans, PTL DEF Spec


\* No line of a session file is behind the checkpoint unless it is in the spool. A batch goes
\* to the collector that its user named, and the queue drops only its oldest. A viewer that is
\* attached to a quiet engine shows every event and the current state, whatever overflowed,
\* broke, or came between the reads that it put together; if one read returns every event.
THEOREM NothingIsLost == ASSUME Room PROVE Spec => []NothingLost
<1>1. BracketInv /\ [Next]_cells => BracketInv'
  BY BracketStep
<1>2. DaemonInv /\ BracketInv => NothingLost
  BY DaemonKeeps
<1> QED
  BY DaemonInit, DaemonStep, BracketInit, <1>1, <1>2, PTL DEF Spec

\* A line has one id however often it is read, and is read in the context it was written in.
\* Uninstall puts back the block there was. An event is shown once, from however many reads,
\* live frames and replays it comes; if the viewer has room to remember what it showed.
THEOREM SameThingOnce == ASSUME Room PROVE Spec => []OnceAndSame
<1>1. BracketInv /\ [Next]_cells => BracketInv'
  BY BracketStep
<1>2. DaemonInv /\ BracketInv => OnceAndSame
  BY DaemonKeeps
<1> QED
  BY DaemonInit, DaemonStep, BracketInit, <1>1, <1>2, PTL DEF Spec

\* The tailer and the relay promise that much with no room at all.
THEOREM LinesAndBatches == Spec => [](~On("view") => NothingLost /\ OnceAndSame)
<1>1. DaemonInv => (~On("view") => NothingLost /\ OnceAndSame)
  BY DaemonKeeps DEF BracketInv
<1> QED
  BY DaemonInit, DaemonStep, <1>1, PTL DEF Spec

\* The entry that the engine holds of a session and the one that it would rebuild from the day
\* files agree once swept, if no event came after its own time. A session that is said to be
\* idle was quiet for as long as that takes. A subscriber that applies every frame knows the
\* state, since when it holds, and its reason and error overlay.
THEOREM SessionsAgree == Spec => []SessionAgrees
<1> QED
  BY DaemonInit, DaemonStep, DaemonAgrees, PTL DEF Spec

\* A session that waits for input does so until an event answers it: no sweep and no error takes
\* the request back, and no restart before an event came late. An outcome of a worktree that was
\* saved and told is the one that any later process tells of that lifetime.
THEOREM AnswersStand == Spec => Stands
<1> QED
  BY DaemonInit, DaemonStep, DaemonStands, PTL DEF Spec, Stands

=============================================================================
