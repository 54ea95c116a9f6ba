---------------------------- MODULE SessionTabs ----------------------------
(***************************************************************************)
(* The session altitude (ui/session/index.ts): the lenses of one session   *)
(* as tabs over the shared scope, and the session directory that names     *)
(* sessions for all panels (session-directory.ts).                         *)
(*                                                                         *)
(* The store notifies its subscribers before a write returns: a change of  *)
(* the scope and what the panel does about it are one step.  What a lens   *)
(* does with its context is in LoopsLens, RouteLenses and ScorePanel; here *)
(* it is what it was last told.                                            *)
(***************************************************************************)
EXTENDS Naturals, FiniteSets

CONSTANTS
  None,
  Refs,            \* sessions as the scope names them
  Windows,         \* values of the transport, the live one included
  Tabs, Mode,      \* the lenses; [tab -> "transport", "filters" or "none"]
  First,           \* the tab of a session without memory
  Keys,            \* sessions of the directory: source and id
  MaxNames, MaxListings,
  Budgets          \* bounds: moves of the panel and the scope, lists and loads

VARIABLES
  scope,           \* [session, win]
  host,            \* [entered, current, memory, delivered]
  lens,            \* [tab -> [active, session, win, told]]
  world,           \* the name of each session at the daemon, a version
  dir,             \* the directory: [entries, counter]
  listings,        \* answers on their way to somebody else's list of sessions
  load,            \* the directory's own request, or None
  cooling,         \* less than the cooldown since it started
  budget

vars == <<scope, host, lens, world, dir, listings, load, cooling, budget>>
hostVars == <<scope, host, lens>>
dirVars == <<world, dir, listings, load, cooling>>
Spend(what) == budget[what] > 0 /\ budget' = [budget EXCEPT ![what] = @ - 1]
Scopes == [session : Refs \cup {None}, win : Windows]
Idle == [active |-> FALSE, session |-> None, win |-> None, told |-> FALSE]

TypeOK ==
  /\ scope \in Scopes
  /\ host.entered \in BOOLEAN /\ host.current \in Tabs /\ host.memory \in [Refs -> Tabs \cup {None}]
  /\ host.delivered \in Scopes \cup {None}
  /\ \A t \in Tabs : lens[t].active \in BOOLEAN /\ lens[t].session \in Refs \cup {None}
  /\ dir.counter \in Nat /\ \A k \in Keys : dir.entries[k].name \in Nat /\ dir.entries[k].gen <= dir.counter
  /\ cooling \in BOOLEAN /\ Cardinality(listings) <= MaxListings

Init ==
  /\ scope \in Scopes
  /\ host = [entered |-> FALSE, current |-> First, memory |-> [r \in Refs |-> None], delivered |-> None]
  /\ lens = [t \in Tabs |-> Idle] /\ budget \in Budgets
  /\ world = [k \in Keys |-> 1] /\ dir = [entries |-> [k \in Keys |-> [name |-> 0, gen |-> 0]], counter |-> 0]
  /\ listings = {} /\ load = None /\ cooling = FALSE

(***************************************************************************)
(* The host.                                                               *)
(***************************************************************************)
Remember(h, s) == IF s.session = None THEN h ELSE [h EXCEPT !.memory[s.session] = h.current]

\* A lens that is told its context.
Told(l, s) == [l EXCEPT !.session = s.session, !.win = s.win, !.told = TRUE]

\* enter: the lens of the tab under the scope of the moment.  A transport lens
\* reads the window and the session itself.
Enter(h, l, tab, s) ==
  [host |-> Remember([h EXCEPT !.current = tab, !.delivered = s], s),
   lens |-> [l EXCEPT ![tab] = IF Mode[tab] = "none" THEN [@ EXCEPT !.active = TRUE] ELSE [Told(@, s) EXCEPT !.active = TRUE]]]

Leave(h, l) == [l EXCEPT ![h.current] = [@ EXCEPT !.active = FALSE]]

Reenters(h, l, tab, s) == Enter([h EXCEPT !.entered = TRUE], IF h.entered THEN Leave(h, l) ELSE l, tab, s)

\* activate: at a tab, or at the one this session was last seen on.
Activate ==
  /\ Spend("moves")
  /\ \E asked \in Tabs \cup {None} :
       LET last == IF scope.session = None THEN host.current ELSE host.memory[scope.session]
           tab == IF asked # None THEN asked ELSE IF last = None THEN First ELSE last
           after == Reenters(host, lens, tab, scope)
       IN host' = after.host /\ lens' = after.lens
  /\ UNCHANGED <<scope, dirVars>>

Deactivate ==
  /\ host.entered
  /\ host' = [host EXCEPT !.entered = FALSE] /\ lens' = Leave(host, lens)
  /\ UNCHANGED <<scope, budget, dirVars>>

\* A click on a tab, the arrow keys, or a tab chosen before the panel is shown.
Select(tab) ==
  /\ IF ~host.entered
     THEN host' = Remember([host EXCEPT !.current = tab], scope) /\ UNCHANGED lens
     ELSE /\ tab # host.current
          /\ LET after == Enter(host, Leave(host, lens), tab, scope)
             IN host' = after.host /\ lens' = after.lens
  /\ Spend("moves")
  /\ UNCHANGED <<scope, dirVars>>

Same(d, s) == d # None /\ d.session = s.session /\ d.win = s.win

\* onStore: the host follows the store only while it is entered.
OnStore(h, l, s) ==
  IF ~h.entered THEN [host |-> h, lens |-> l]
  ELSE LET kept == Remember(h, s)
       IN CASE Mode[h.current] = "transport" ->
                 [host |-> kept, lens |-> IF s.session = None THEN [l EXCEPT ![h.current] = Told(@, s)] ELSE l]
            [] Mode[h.current] = "none" -> [host |-> kept, lens |-> l]
            [] OTHER -> IF Same(h.delivered, s) THEN [host |-> kept, lens |-> l]
                        ELSE [host |-> [kept EXCEPT !.delivered = s], lens |-> [l EXCEPT ![h.current] = Told(@, s)]]

\* Any panel writes the scope; "whole session" sets the window to live.
ScopeMoves ==
  /\ Spend("moves")
  /\ \E s \in Scopes :
       /\ s # scope /\ scope' = s
       /\ LET after == OnStore(host, lens, s) IN host' = after.host /\ lens' = after.lens
  /\ UNCHANGED dirVars

(***************************************************************************)
(* The directory.                                                          *)
(***************************************************************************)
\* Variant: the numbers do not go on.
PutUncounted(d, ks, names) ==
  [d EXCEPT !.entries = [k \in Keys |-> IF k \in ks THEN [name |-> names[k], gen |-> d.counter + 1] ELSE @[k]]]

\* put: the entries take the names of a list, each with the next number.
Put(d, ks, names) ==
  [entries |-> [k \in Keys |-> IF k \in ks THEN [name |-> names[k], gen |-> d.counter + 1] ELSE d.entries[k]],
   counter |-> d.counter + 1]

\* A session is renamed at the daemon (an attention answer, a title).
Renamed ==
  /\ \E k \in Keys : budget["lists"] > 0 /\ world[k] < MaxNames /\ world' = [world EXCEPT ![k] = @ + 1]
  /\ UNCHANGED <<dir, listings, load, cooling, budget, hostVars>>

\* A panel's list of sessions: served, later remembered.
ListServed ==
  /\ Cardinality(listings) < MaxListings /\ Spend("lists")
  /\ \E ks \in SUBSET Keys : ks # {} /\ listings' = listings \cup {[keys |-> ks, names |-> world]}
  /\ UNCHANGED <<world, dir, load, cooling, hostVars>>

ListRemembered ==
  /\ \E l \in listings :
       /\ listings' = listings \ {l} /\ dir' = Put(dir, l.keys, l.names)
       /\ load' = IF load = None THEN None ELSE [load EXCEPT !.since = @ \cup l.keys]
  /\ UNCHANGED <<world, cooling, budget, hostVars>>

\* lookup of a reference that nothing has named: one load at a time, at most
\* one per cooldown.
Ensure ==
  /\ load = None /\ ~cooling /\ Spend("lists")
  /\ \E k \in Keys : dir.entries[k].name = 0
  /\ load' = [start |-> dir.counter, served |-> None, since |-> {}] /\ cooling' = TRUE
  /\ UNCHANGED <<world, dir, listings, hostVars>>

Serve ==
  /\ load # None /\ load.served = None /\ load' = [load EXCEPT !.served = world]
  /\ UNCHANGED <<world, dir, listings, cooling, budget, hostVars>>

\* What was remembered after the load began.
Newer(k) == dir.entries[k].gen > load.start

Loaded ==
  /\ load # None /\ load.served # None
  /\ dir' = Put(dir, {k \in Keys : ~Newer(k)}, load.served) /\ load' = None
  /\ UNCHANGED <<world, listings, cooling, budget, hostVars>>

LoadFails == load # None /\ load' = None /\ UNCHANGED <<world, dir, listings, cooling, budget, hostVars>>

Cools == cooling /\ cooling' = FALSE /\ UNCHANGED <<world, dir, listings, load, budget, hostVars>>

Next ==
  \/ Activate \/ Deactivate \/ \E t \in Tabs : Select(t)
  \/ ScopeMoves
  \/ Renamed \/ ListServed \/ ListRemembered \/ Ensure \/ Serve \/ Loaded \/ LoadFails \/ Cools

Spec == Init /\ [][Next]_vars

(***************************************************************************)
(* Properties.                                                             *)
(***************************************************************************)
\* One lens at a time is up, the one of the current tab while the panel is shown.
OneLens == {t \in Tabs : lens[t].active} = IF host.entered THEN {host.current} ELSE {}

\* The lens on the screen works on the session and the window of the scope, and
\* the session reopens on the tab it was last seen on.
LensOfScope ==
  host.entered =>
    /\ Mode[host.current] = "filters" => lens[host.current].session = scope.session /\ lens[host.current].win = scope.win
    /\ scope.session # None => host.memory[scope.session] = host.current

\* A load never overwrites what was remembered after it began.
RememberedStays == load # None /\ load' = None => \A k \in load.since : dir'.entries[k] = dir.entries[k]
=============================================================================
