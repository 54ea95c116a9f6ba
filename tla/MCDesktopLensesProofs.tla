------------------------ MODULE MCDesktopLensesProofs ------------------------
(***************************************************************************)
(* Proofs about MCDesktopLenses, for any subset of its machines and any    *)
(* sessions, records, errors, rows, windows and bounds: whatever the       *)
(* daemon answers and in whatever order, a lens shows what the scope, the  *)
(* fields and the selection say (ShowsOwn), and a step writes only what is *)
(* its own (WritesOwn).  One section per machine; the last one composes    *)
(* them.  The three machines of the graph's picture stay with TLC.         *)
(*                                                                         *)
(* The cells of a machine are called by the names of its variables.        *)
(***************************************************************************)
EXTENDS MCDesktopLenses, FiniteSets, FiniteSetTheorems, NaturalsInduction, WellFoundedInduction, TLAPS

----------------------------------------------------------------------------
(* The tabs of a session.                                                  *)

scope == x1
host == x2
lens == x3
world == x4
dir == x5
listings == x6
load == x7
USE DEF scope, host, lens, world, dir, listings, load

Lenses == {"score", "loops", "court"}
SessionRefs == TabRefs
Hosts == [entered : BOOLEAN, current : Lenses, memory : [SessionRefs -> Lenses \cup {None}], delivered : Tabs!Scopes \cup {None}]
Lens == [active : BOOLEAN, session : SessionRefs \cup {None}, win : {"live", "range", None}, told : BOOLEAN]

\* The state of the host, of the lenses under it, and of the scope it has followed.
HostTyped(h, l) == h \in Hosts /\ l \in [Lenses -> Lens]
Followed(h, l, s) ==
  /\ \A t \in Lenses : l[t].active <=> h.entered /\ t = h.current
  /\ h.entered =>
       /\ Modes[h.current] = "filters" => Tabs!Same(h.delivered, s) /\ l[h.current].session = s.session /\ l[h.current].win = s.win
       /\ s.session # None => h.memory[s.session] = h.current

Loads == [start : Nat, served : {None} \cup [TabKeys -> Nat], since : SUBSET TabKeys]

\* What was remembered since a load began has a later number than its start.
Numbered ==
  /\ dir.counter \in Nat /\ dir = [entries |-> dir.entries, counter |-> dir.counter]
  /\ dir.entries \in [TabKeys -> [name : Nat, gen : Nat]]
  /\ world \in [TabKeys -> Nat]
  /\ \A l \in listings : l.keys \in SUBSET TabKeys /\ l.names \in [TabKeys -> Nat]
  /\ load # None =>
       /\ load \in Loads /\ load.start <= dir.counter
       /\ load.since \subseteq {k \in TabKeys : dir.entries[k].gen > load.start}

TabsInv == scope \in Tabs!Scopes /\ HostTyped(host, lens) /\ Followed(host, lens, scope) /\ Numbered

LEMMA NothingApart == None \notin SessionRefs /\ None \notin Lenses
BY LensesAssumption DEF SessionRefs, Lenses

LEMMA ScopeFields ==
  ASSUME NEW s \in Tabs!Scopes
  PROVE  s.session \in SessionRefs \cup {None} /\ s.win \in {"live", "range"} /\ s # None
<1>1. s.session \in SessionRefs \cup {None} /\ s.win \in {"live", "range"}
  BY DEF Tabs!Scopes, SessionRefs
<1> QED
  BY <1>1, LensesAssumption DEF Tabs!Scopes

LEMMA HostFields ==
  ASSUME NEW h \in Hosts
  PROVE  /\ h.entered \in BOOLEAN /\ h.current \in Lenses /\ h.memory \in [SessionRefs -> Lenses \cup {None}]
         /\ h.delivered \in Tabs!Scopes \cup {None}
         /\ \A b \in BOOLEAN : [h EXCEPT !.entered = b] \in Hosts /\ [h EXCEPT !.entered = b].entered = b
                                 /\ [h EXCEPT !.entered = b].current = h.current /\ [h EXCEPT !.entered = b].delivered = h.delivered
                                 /\ [h EXCEPT !.entered = b].memory = h.memory
BY DEF Hosts

\* The memory of the session takes the tab, and nothing else changes.
LEMMA Remembers ==
  ASSUME NEW h \in Hosts, NEW s \in Tabs!Scopes
  PROVE  /\ Tabs!Remember(h, s) \in Hosts
         /\ Tabs!Remember(h, s).entered = h.entered /\ Tabs!Remember(h, s).current = h.current
         /\ Tabs!Remember(h, s).delivered = h.delivered
         /\ s.session # None => Tabs!Remember(h, s).memory[s.session] = h.current
BY ScopeFields DEF Hosts, Tabs!Remember

LEMMA Tells ==
  ASSUME NEW l \in Lens, NEW s \in Tabs!Scopes
  PROVE  /\ Tabs!Told(l, s) \in Lens /\ Tabs!Told(l, s).active = l.active
         /\ Tabs!Told(l, s).session = s.session /\ Tabs!Told(l, s).win = s.win
BY ScopeFields DEF Lens, Tabs!Told

\* A lens is entered when no other is up.
LEMMA Enters ==
  ASSUME NEW h \in Hosts, NEW l \in [Lenses -> Lens], NEW tab \in Lenses, NEW s \in Tabs!Scopes,
         h.entered, \A t \in Lenses : ~l[t].active
  PROVE  LET a == Tabs!Enter(h, l, tab, s) IN HostTyped(a.host, a.lens) /\ Followed(a.host, a.lens, s)
<1> DEFINE g == [h EXCEPT !.current = tab, !.delivered = s]
           k == Tabs!Remember(g, s)
           m == IF Modes[tab] = "none" THEN [l[tab] EXCEPT !.active = TRUE] ELSE [Tabs!Told(l[tab], s) EXCEPT !.active = TRUE]
           n == [l EXCEPT ![tab] = m]
<1>1. g \in Hosts /\ g.entered /\ g.current = tab /\ g.delivered = s
  BY DEF Hosts
<1>2. l[tab] \in Lens
  OBVIOUS
<1>3. m \in Lens /\ m.active /\ (Modes[tab] # "none" => m.session = s.session /\ m.win = s.win)
  BY <1>2, Tells DEF Lens
<1>4. Tabs!Enter(h, l, tab, s) = [host |-> k, lens |-> n]
  BY DEF Tabs!Enter
<1> HIDE DEF g, m
<1>5. k \in Hosts /\ k.entered /\ k.current = tab /\ k.delivered = s /\ (s.session # None => k.memory[s.session] = tab)
  BY <1>1, Remembers
<1>6. n \in [Lenses -> Lens] /\ n[tab] = m /\ \A t \in Lenses : t # tab => ~n[t].active
  BY <1>3
<1>7. Tabs!Same(k.delivered, s)
  BY <1>5, ScopeFields DEF Tabs!Same
<1> HIDE DEF k, n
<1>8. HostTyped(k, n) /\ Followed(k, n, s)
  BY <1>3, <1>5, <1>6, <1>7 DEF HostTyped, Followed
<1> QED
  BY <1>4, <1>8

\* The lens of the current tab is left: none is up.
LEMMA Leaves ==
  ASSUME NEW h \in Hosts, NEW l \in [Lenses -> Lens], \A t \in Lenses : l[t].active => t = h.current
  PROVE  Tabs!Leave(h, l) \in [Lenses -> Lens] /\ \A t \in Lenses : ~Tabs!Leave(h, l)[t].active
<1>1. h.current \in Lenses /\ l[h.current] \in Lens
  BY HostFields
<1>2. [l[h.current] EXCEPT !.active = FALSE] \in Lens /\ ~[l[h.current] EXCEPT !.active = FALSE].active
  BY <1>1 DEF Lens
<1> QED
  BY <1>1, <1>2 DEF Tabs!Leave

\* The host follows the store.
LEMMA Follows ==
  ASSUME NEW h \in Hosts, NEW l \in [Lenses -> Lens], NEW s \in Tabs!Scopes, NEW o \in Tabs!Scopes, Followed(h, l, o)
  PROVE  LET a == Tabs!OnStore(h, l, s) IN HostTyped(a.host, a.lens) /\ Followed(a.host, a.lens, s)
<1> DEFINE kept == Tabs!Remember(h, s)
           c == h.current
           told == [l EXCEPT ![c] = Tabs!Told(l[c], s)]
           deliv == [kept EXCEPT !.delivered = s]
<1>0. c \in Lenses /\ h.entered \in BOOLEAN /\ l[c] \in Lens
  BY HostFields
<1>1. CASE ~h.entered
  BY <1>1 DEF Tabs!OnStore, HostTyped, Followed
<1>2. CASE h.entered
  <2>1. kept \in Hosts /\ kept.entered /\ kept.current = c /\ kept.delivered = h.delivered
        /\ (s.session # None => kept.memory[s.session] = c)
    BY <1>2, Remembers
  <2>2. told \in [Lenses -> Lens] /\ (\A t \in Lenses : told[t].active <=> l[t].active)
        /\ told[c].session = s.session /\ told[c].win = s.win
    <3>1. Tabs!Told(l[c], s) \in Lens /\ Tabs!Told(l[c], s).active = l[c].active
          /\ Tabs!Told(l[c], s).session = s.session /\ Tabs!Told(l[c], s).win = s.win
      BY <1>0, Tells
    <3> QED
      BY <1>0, <3>1
  <2>3. deliv \in Hosts /\ deliv.entered /\ deliv.current = c /\ deliv.delivered = s /\ deliv.memory = kept.memory
    BY <2>1 DEF Hosts
  <2>4. \A t \in Lenses : l[t].active <=> t = c
    BY <1>2 DEF Followed
  <2>5. Tabs!Same(deliv.delivered, s)
    BY <2>3, ScopeFields DEF Tabs!Same
  <2> HIDE DEF kept, told, deliv
  <2>6. CASE Modes[c] = "transport"
    <3>1. Followed(kept, told, s) /\ Followed(kept, l, s)
      BY <2>1, <2>2, <2>4, <2>6 DEF Followed
    <3> QED
      BY <1>2, <2>1, <2>2, <2>6, <3>1 DEF Tabs!OnStore, HostTyped, kept, told
  <2>7. CASE Modes[c] = "none"
    <3>1. Followed(kept, l, s)
      BY <2>1, <2>4, <2>7 DEF Followed
    <3> QED
      BY <1>2, <2>1, <2>7, <3>1 DEF Tabs!OnStore, HostTyped, kept
  <2>8. CASE Modes[c] \notin {"transport", "none"} /\ Tabs!Same(h.delivered, s)
    <3>1. Modes[c] = "filters" => l[c].session = s.session /\ l[c].win = s.win
      BY <1>2, <2>8 DEF Followed, Tabs!Same
    <3>2. Followed(kept, l, s)
      BY <2>1, <2>4, <2>8, <3>1 DEF Followed
    <3> QED
      BY <1>2, <2>1, <2>8, <3>2 DEF Tabs!OnStore, HostTyped, kept
  <2>9. CASE Modes[c] \notin {"transport", "none"} /\ ~Tabs!Same(h.delivered, s)
    <3>1. Followed(deliv, told, s)
      BY <2>1, <2>2, <2>3, <2>4, <2>5 DEF Followed
    <3> QED
      BY <1>2, <2>2, <2>3, <2>9, <3>1 DEF Tabs!OnStore, HostTyped, kept, told, deliv
  <2> QED
    BY <2>6, <2>7, <2>8, <2>9
<1> QED
  BY <1>0, <1>1, <1>2

LEMMA TabsInit == Tabs!Init => TabsInv
<1> SUFFICES ASSUME Tabs!Init PROVE TabsInv
  OBVIOUS
<1>1. scope \in Tabs!Scopes /\ HostTyped(host, lens)
  BY DEF Tabs!Init, Tabs!Idle, HostTyped, Hosts, Lens, Lenses, SessionRefs
<1>2. host.entered = FALSE /\ \A t \in Lenses : lens[t].active = FALSE
  BY DEF Tabs!Init, Tabs!Idle, Lenses
<1>3. Numbered
  BY DEF Tabs!Init, Numbered
<1> QED
  BY <1>1, <1>2, <1>3 DEF TabsInv, Followed

LEMMA TabsScoped ==
  ASSUME TabsInv, Tabs!Activate \/ Tabs!Deactivate \/ (\E t \in Lenses : Tabs!Select(t)) \/ Tabs!ScopeMoves
  PROVE  scope' \in Tabs!Scopes /\ HostTyped(host', lens') /\ Followed(host', lens', scope')
         /\ dir' = dir /\ world' = world /\ listings' = listings /\ load' = load
<1>0. /\ host \in Hosts /\ lens \in [Lenses -> Lens] /\ scope \in Tabs!Scopes /\ Followed(host, lens, scope)
      /\ host.current \in Lenses /\ host.entered \in BOOLEAN /\ host.memory \in [SessionRefs -> Lenses \cup {None}]
  BY HostFields DEF TabsInv, HostTyped
<1>1. \A t \in Lenses : lens[t].active => t = host.current
  BY <1>0 DEF Followed
<1>2. Tabs!Leave(host, lens) \in [Lenses -> Lens] /\ \A t \in Lenses : ~Tabs!Leave(host, lens)[t].active
  BY <1>0, <1>1, Leaves
<1>3. CASE Tabs!Activate
  <2>1. PICK asked \in Lenses \cup {None} :
          LET last == IF scope.session = None THEN host.current ELSE host.memory[scope.session]
              tab == IF asked # None THEN asked ELSE IF last = None THEN "score" ELSE last
              after == Tabs!Reenters(host, lens, tab, scope)
          IN host' = after.host /\ lens' = after.lens
    BY <1>3 DEF Tabs!Activate, Lenses
  <2> DEFINE last == IF scope.session = None THEN host.current ELSE host.memory[scope.session]
             tab == IF asked # None THEN asked ELSE IF last = None THEN "score" ELSE last
             h == [host EXCEPT !.entered = TRUE]
             l == IF host.entered THEN Tabs!Leave(host, lens) ELSE lens
  <2>2. last \in Lenses \cup {None}
    BY <1>0, ScopeFields
  <2>3. tab \in Lenses
    BY <2>2 DEF Lenses
  <2>4. h \in Hosts /\ h.entered
    BY <1>0, HostFields
  <2>5. l \in [Lenses -> Lens] /\ \A t \in Lenses : ~l[t].active
    BY <1>0, <1>2 DEF Followed
  <2>6. host' = Tabs!Enter(h, l, tab, scope).host /\ lens' = Tabs!Enter(h, l, tab, scope).lens
    BY <2>1 DEF Tabs!Reenters
  <2> HIDE DEF tab, h, l
  <2>7. HostTyped(host', lens') /\ Followed(host', lens', scope)
    BY <1>0, <2>3, <2>4, <2>5, <2>6, Enters
  <2> QED
    BY <1>0, <1>3, <2>7 DEF Tabs!Activate, Tabs!dirVars
<1>4. CASE Tabs!Deactivate
  <2>1. host' \in Hosts /\ host'.entered = FALSE /\ lens' = Tabs!Leave(host, lens)
    BY <1>0, <1>4, HostFields DEF Tabs!Deactivate
  <2> QED
    BY <1>0, <1>2, <1>4, <2>1 DEF Tabs!Deactivate, HostTyped, Followed, Tabs!dirVars
<1>5. ASSUME NEW tab \in Lenses, Tabs!Select(tab)
      PROVE  scope' \in Tabs!Scopes /\ HostTyped(host', lens') /\ Followed(host', lens', scope')
             /\ dir' = dir /\ world' = world /\ listings' = listings /\ load' = load
  <2>1. CASE ~host.entered
    <3>1. [host EXCEPT !.current = tab] \in Hosts /\ [host EXCEPT !.current = tab].entered = host.entered
      BY <1>0 DEF Hosts
    <3>2. host' \in Hosts /\ host'.entered = FALSE /\ lens' = lens
      BY <1>0, <1>5, <2>1, <3>1, Remembers DEF Tabs!Select
    <3> QED
      BY <1>0, <1>5, <2>1, <3>2 DEF Tabs!Select, HostTyped, Followed, Tabs!dirVars
  <2>2. CASE host.entered
    <3>1. /\ host' = Tabs!Enter(host, Tabs!Leave(host, lens), tab, scope).host
          /\ lens' = Tabs!Enter(host, Tabs!Leave(host, lens), tab, scope).lens
      BY <1>5, <2>2 DEF Tabs!Select
    <3>2. HostTyped(host', lens') /\ Followed(host', lens', scope)
      BY <1>0, <1>2, <2>2, <3>1, Enters
    <3> QED
      BY <1>0, <1>5, <3>2 DEF Tabs!Select, Tabs!dirVars
  <2> QED
    BY <1>0, <2>1, <2>2
<1>6. CASE Tabs!ScopeMoves
  <2>1. PICK s \in Tabs!Scopes : scope' = s /\ host' = Tabs!OnStore(host, lens, s).host /\ lens' = Tabs!OnStore(host, lens, s).lens
    BY <1>6 DEF Tabs!ScopeMoves
  <2>2. HostTyped(host', lens') /\ Followed(host', lens', s)
    BY <1>0, <2>1, Follows
  <2> QED
    BY <1>6, <2>1, <2>2 DEF Tabs!ScopeMoves, Tabs!dirVars
<1> QED
  BY <1>3, <1>4, <1>5, <1>6

\* A list puts later numbers on what it names.
LEMMA Puts ==
  ASSUME Numbered, NEW ks \in SUBSET TabKeys, NEW names \in [TabKeys -> Nat]
  PROVE  LET d == Tabs!Put(dir, ks, names)
         IN /\ d = [entries |-> d.entries, counter |-> d.counter] /\ d.counter = dir.counter + 1
            /\ d.entries \in [TabKeys -> [name : Nat, gen : Nat]]
            /\ \A k \in TabKeys : d.entries[k] = dir.entries[k] \/ (k \in ks /\ d.entries[k].gen = dir.counter + 1)
            /\ \A k \in ks : d.entries[k].gen = dir.counter + 1
<1> DEFINE e == [k \in TabKeys |-> IF k \in ks THEN [name |-> names[k], gen |-> dir.counter + 1] ELSE dir.entries[k]]
<1>1. Tabs!Put(dir, ks, names) = [entries |-> e, counter |-> dir.counter + 1]
  BY DEF Tabs!Put
<1>2. e \in [TabKeys -> [name : Nat, gen : Nat]]
  BY DEF Numbered
<1>3. /\ \A k \in TabKeys : e[k] = dir.entries[k] \/ (k \in ks /\ e[k].gen = dir.counter + 1)
      /\ \A k \in ks : e[k].gen = dir.counter + 1
  BY DEF Numbered
<1> HIDE DEF e
<1> QED
  BY <1>1, <1>2, <1>3

LEMMA TabsNamed ==
  ASSUME TabsInv,
         \/ Tabs!Renamed \/ Tabs!ListServed \/ Tabs!ListRemembered \/ Tabs!Ensure \/ Tabs!Serve
         \/ Tabs!Loaded \/ Tabs!LoadFails \/ Tabs!Cools
  PROVE  UNCHANGED <<scope, host, lens>> /\ Numbered'
<1> USE DEF Tabs!hostVars
<1>0. Numbered
  BY DEF TabsInv
<1>1. CASE Tabs!Renamed \/ Tabs!Cools
  <2>1. world' \in [TabKeys -> Nat]
    BY <1>0, <1>1 DEF Tabs!Renamed, Tabs!Cools, Numbered
  <2> QED
    BY <1>0, <1>1, <2>1 DEF Tabs!Renamed, Tabs!Cools, Numbered
<1>2. CASE Tabs!ListServed
  <2>1. PICK ks \in SUBSET TabKeys : listings' = listings \cup {[keys |-> ks, names |-> world]}
    BY <1>2 DEF Tabs!ListServed
  <2> QED
    BY <1>0, <1>2, <2>1 DEF Tabs!ListServed, Numbered
<1>3. CASE Tabs!ListRemembered
  <2>1. PICK l \in listings :
          /\ listings' = listings \ {l} /\ dir' = Tabs!Put(dir, l.keys, l.names)
          /\ load' = IF load = None THEN None ELSE [load EXCEPT !.since = @ \cup l.keys]
    BY <1>3 DEF Tabs!ListRemembered
  <2>2. l.keys \in SUBSET TabKeys /\ l.names \in [TabKeys -> Nat]
    BY <1>0 DEF Numbered
  <2>3. /\ dir' = [entries |-> dir'.entries, counter |-> dir'.counter] /\ dir'.counter = dir.counter + 1
        /\ dir'.entries \in [TabKeys -> [name : Nat, gen : Nat]]
        /\ \A k \in TabKeys : dir'.entries[k] = dir.entries[k] \/ (k \in l.keys /\ dir'.entries[k].gen = dir.counter + 1)
        /\ \A k \in l.keys : dir'.entries[k].gen = dir.counter + 1
    BY <1>0, <2>1, <2>2, Puts
  <2>4. ASSUME load' # None
        PROVE  /\ load' \in Loads /\ load'.start <= dir'.counter
               /\ load'.since \subseteq {k \in TabKeys : dir'.entries[k].gen > load'.start}
    <3>1. load # None /\ load' = [load EXCEPT !.since = load.since \cup l.keys]
      BY <2>1, <2>4
    <3>2. /\ load \in Loads /\ load.start \in Nat /\ load.start <= dir.counter /\ dir.counter \in Nat
          /\ load.since \subseteq {k \in TabKeys : dir.entries[k].gen > load.start}
      BY <1>0, <3>1 DEF Numbered, Loads
    <3>3. load' \in Loads /\ load'.start = load.start /\ load'.since = load.since \cup l.keys
      BY <2>2, <3>1, <3>2 DEF Loads
    <3>4. \A k \in load.since \cup l.keys : k \in TabKeys /\ dir'.entries[k].gen > load.start
      BY <2>2, <2>3, <3>2
    <3> QED
      BY <2>3, <3>2, <3>3, <3>4
  <2> QED
    BY <1>0, <1>3, <2>1, <2>3, <2>4 DEF Tabs!ListRemembered, Numbered
<1>4. CASE Tabs!Ensure
  <2>1. load' = [start |-> dir.counter, served |-> None, since |-> {}]
    BY <1>4 DEF Tabs!Ensure
  <2>2. load' \in Loads /\ load'.start = dir.counter /\ load'.since = {}
    BY <1>0, <2>1 DEF Loads, Numbered
  <2> QED
    BY <1>0, <1>4, <2>2 DEF Tabs!Ensure, Numbered
<1>5. CASE Tabs!Serve
  <2>1. load # None /\ load' = [load EXCEPT !.served = world]
    BY <1>5 DEF Tabs!Serve
  <2>2. load' \in Loads /\ load'.start = load.start /\ load'.since = load.since
    BY <1>0, <2>1 DEF Numbered, Loads
  <2> QED
    BY <1>0, <1>5, <2>1, <2>2 DEF Tabs!Serve, Numbered
<1>6. CASE Tabs!Loaded
  <2> DEFINE ks == {k \in TabKeys : ~Tabs!Newer(k)}
  <2>1. dir' = Tabs!Put(dir, ks, load.served) /\ load' = None /\ load.served \in [TabKeys -> Nat]
    BY <1>0, <1>6 DEF Tabs!Loaded, Numbered, Loads
  <2>2. /\ dir' = [entries |-> dir'.entries, counter |-> dir'.counter] /\ dir'.counter = dir.counter + 1
        /\ dir'.entries \in [TabKeys -> [name : Nat, gen : Nat]]
    BY <1>0, <2>1, Puts
  <2> QED
    BY <1>0, <1>6, <2>1, <2>2 DEF Tabs!Loaded, Numbered
<1>7. CASE Tabs!LoadFails
  BY <1>0, <1>7 DEF Tabs!LoadFails, Numbered
<1> QED
  BY <1>1, <1>2, <1>3, <1>4, <1>5, <1>6, <1>7 DEF Tabs!Renamed, Tabs!ListServed, Tabs!ListRemembered, Tabs!Ensure,
     Tabs!Serve, Tabs!Loaded, Tabs!LoadFails, Tabs!Cools

LEMMA TabsStep == TabsInv /\ [Tabs!Next]_(Tabs!vars) => TabsInv'
<1> SUFFICES ASSUME TabsInv, [Tabs!Next]_(Tabs!vars) PROVE TabsInv'
  OBVIOUS
<1>1. CASE UNCHANGED Tabs!vars
  BY <1>1 DEF TabsInv, Tabs!vars, Numbered
<1>2. CASE Tabs!Activate \/ Tabs!Deactivate \/ (\E t \in Lenses : Tabs!Select(t)) \/ Tabs!ScopeMoves
  BY <1>2, TabsScoped DEF TabsInv, Numbered
<1>3. CASE \/ Tabs!Renamed \/ Tabs!ListServed \/ Tabs!ListRemembered \/ Tabs!Ensure \/ Tabs!Serve
           \/ Tabs!Loaded \/ Tabs!LoadFails \/ Tabs!Cools
  BY <1>3, TabsNamed DEF TabsInv
<1> QED
  BY <1>1, <1>2, <1>3 DEF Tabs!Next, Lenses

LEMMA TabsMeans ==
  ASSUME TabsInv
  PROVE  Tabs!OneLens /\ Tabs!LensOfScope
<1>0. host \in Hosts /\ host.current \in Lenses /\ Followed(host, lens, scope)
  BY HostFields DEF TabsInv, HostTyped
<1>1. Tabs!OneLens
  BY <1>0 DEF Tabs!OneLens, Followed, Lenses
<1>2. Tabs!LensOfScope
  BY <1>0 DEF Tabs!LensOfScope, Followed
<1> QED
  BY <1>1, <1>2

\* A list that was remembered while a load was under way outlives its answer.
LEMMA TabsActs ==
  ASSUME TabsInv, [Tabs!Next]_(Tabs!vars)
  PROVE  Tabs!RememberedStays
<1> SUFFICES ASSUME load # None, load' = None, NEW k \in load.since PROVE dir'.entries[k] = dir.entries[k]
  BY DEF Tabs!RememberedStays
<1>1. Numbered /\ k \in TabKeys /\ Tabs!Newer(k)
  BY DEF TabsInv, Numbered, Tabs!Newer
<1>2. Tabs!Loaded \/ Tabs!LoadFails
  <2>1. load \in Loads /\ Numbered
    BY <1>1 DEF Numbered
  <2>2. CASE Tabs!ListRemembered
    <3>1. PICK l \in listings : load' = [load EXCEPT !.since = load.since \cup l.keys] /\ l.keys \in SUBSET TabKeys
      BY <2>1, <2>2 DEF Tabs!ListRemembered, Numbered
    <3>2. load' \in Loads
      BY <2>1, <3>1 DEF Loads
    <3> QED
      BY <3>2, LensesAssumption DEF Loads
  <2>3. CASE Tabs!Serve
    <3>1. load' \in Loads
      BY <2>1, <2>3 DEF Loads, Tabs!Serve, Numbered
    <3> QED
      BY <3>1, LensesAssumption DEF Loads
  <2> QED
    BY <2>2, <2>3 DEF Tabs!Next, Tabs!vars, Tabs!dirVars, Tabs!Activate, Tabs!Deactivate, Tabs!Select, Tabs!ScopeMoves,
       Tabs!Renamed, Tabs!ListServed, Tabs!Ensure, Tabs!Cools
<1>3. CASE Tabs!Loaded
  <2> DEFINE ks == {j \in TabKeys : ~Tabs!Newer(j)}
  <2>1. dir' = Tabs!Put(dir, ks, load.served) /\ load.served \in [TabKeys -> Nat]
    BY <1>1, <1>3 DEF Tabs!Loaded, Numbered, Loads
  <2>2. dir'.entries[k] = dir.entries[k] \/ k \in ks
    BY <1>1, <2>1, Puts
  <2> QED
    BY <1>1, <2>2
<1> QED
  BY <1>2, <1>3 DEF Tabs!LoadFails

HIDE DEF scope, host, lens, world, dir, listings, load

\* Three machines choose what they are about.
kind == x1

----------------------------------------------------------------------------
(* The lenses that load one route.                                         *)

captured == x2
routeScope == x3
onRoute == x4
fields == x5
given == x6
route == x7
routeFailed == x8
routeLoads == x9
routeReceipts == x10
focus == x11
routeShown == x12
USE DEF kind, captured, routeScope, onRoute, fields, given, route, routeFailed, routeLoads, routeReceipts, focus, routeShown

RouteScopes == [session : Route!Refs \cup {None}, win : RouteWindows]
Fields == [session : RouteSessions \cup {None}, source : RouteSources \cup {None}]
Givens == [key : Route!Refs \cup {None}, win : RouteWindows]
RouteCalls == [source : RouteSources \cup {None}, session : RouteSessions \cup {None}, served : {None} \cup SUBSET Records, inForce : BOOLEAN]
ReceiptCalls == [record : Records, inForce : BOOLEAN]
RoutePanels ==
  [fields : Fields, given : Givens, route : {None} \cup SUBSET Records, failed : BOOLEAN, loads : SUBSET RouteCalls,
   receipts : SUBSET ReceiptCalls, focus : Records \cup {None}, shown : Records \cup {None}]

\* What is loaded is of the fields, what is in focus is of what is loaded, and the receipt
\* shown or asked for is of what is in focus.
RouteBuilt(p) ==
  /\ p \in RoutePanels
  /\ \A x \in p.loads : x.served # None => \A r \in x.served : r.session = x.session
  /\ p.route # None => \A r \in p.route : r.source = p.fields.source /\ r.session = p.fields.session
  /\ p.focus # None => p.route # None /\ p.focus \in p.route
  /\ \A x \in p.receipts : x.inForce => p.focus # None /\ x.record = p.focus
  /\ p.shown # None =>
       p.focus # None /\ p.shown.id = p.focus.id /\ p.shown.source = p.focus.source /\ p.shown.session = p.focus.session

\* And what is in focus lies in the window.
RouteKept(p) == RouteBuilt(p) /\ (p.focus # None => Route!InWindow(p.focus, p.given.win))

\* The fields cover the session that the host delivered last, and while the tab is on the
\* screen that is the one of the scope.
RouteScoped(p, on, s) ==
  /\ p.given.key # None => Route!Covers(p.fields, p.given.key)
  /\ IF on /\ Route!Tabbed THEN p.given.key = s.session /\ p.given.win = s.win ELSE p.given.key = None

RoutesInv ==
  /\ kind \in {"loom", "replay", "ecosystem"} /\ captured \subseteq Records /\ onRoute \in BOOLEAN
  /\ routeScope \in RouteScopes
  /\ RouteKept(Route!Panel) /\ RouteScoped(Route!Panel, onRoute, routeScope)

LEMMA RouteApart ==
  /\ None \notin Route!Refs /\ None \notin Records /\ None \notin SUBSET Records
  /\ None \notin RouteSessions \cup RouteSources
BY LensesAssumption

LEMMA RouteFields ==
  ASSUME NEW p \in RoutePanels
  PROVE  /\ p.fields \in Fields /\ p.given \in Givens /\ p.route \in {None} \cup SUBSET Records /\ p.failed \in BOOLEAN
         /\ p.loads \subseteq RouteCalls /\ p.receipts \subseteq ReceiptCalls
         /\ p.focus \in Records \cup {None} /\ p.shown \in Records \cup {None}
BY DEF RoutePanels

LEMMA RouteDropped ==
  /\ \A c \in SUBSET RouteCalls :
       /\ Route!Dropped(c) \subseteq RouteCalls
       /\ \A x \in Route!Dropped(c) : \E y \in c : x.session = y.session /\ x.served = y.served
  /\ \A c \in SUBSET ReceiptCalls :
       Route!Dropped(c) \subseteq ReceiptCalls /\ \A x \in Route!Dropped(c) : ~x.inForce
BY DEF Route!Dropped, RouteCalls, ReceiptCalls

\* Cancelling, and clearing, take away what depends on what they take away.
LEMMA RouteCancels ==
  ASSUME NEW p, RouteBuilt(p)
  PROVE  LET q == Route!CancelReceipt(p)
         IN /\ RouteBuilt(q) /\ q.fields = p.fields /\ q.given = p.given /\ q.focus = p.focus /\ q.route = p.route
            /\ q.loads = p.loads /\ q.failed = p.failed /\ q.shown = None /\ \A x \in q.receipts : ~x.inForce
<1> DEFINE q == Route!CancelReceipt(p)
<1>1. p \in RoutePanels /\ p.receipts \subseteq ReceiptCalls
  BY RouteFields DEF RouteBuilt
<1>2. Route!Dropped(p.receipts) \subseteq ReceiptCalls /\ \A x \in Route!Dropped(p.receipts) : ~x.inForce
  BY <1>1, RouteDropped
<1>3. /\ q \in RoutePanels /\ q.fields = p.fields /\ q.given = p.given /\ q.focus = p.focus /\ q.route = p.route
      /\ q.loads = p.loads /\ q.failed = p.failed /\ q.shown = None /\ q.receipts = Route!Dropped(p.receipts)
  BY <1>1, <1>2 DEF Route!CancelReceipt, RoutePanels
<1> HIDE DEF q
<1>4. RouteBuilt(q)
  BY <1>2, <1>3 DEF RouteBuilt
<1> QED
  BY <1>2, <1>3, <1>4 DEF q

LEMMA RouteUnfocuses ==
  ASSUME NEW p, RouteBuilt(p)
  PROVE  LET q == Route!ClearFocus(p)
         IN /\ RouteKept(q) /\ q.fields = p.fields /\ q.given = p.given /\ q.focus = None /\ q.route = p.route
            /\ q.loads = p.loads /\ q.failed = p.failed /\ q.shown = None /\ \A x \in q.receipts : ~x.inForce
<1> DEFINE c == Route!CancelReceipt(p)
           q == Route!ClearFocus(p)
<1>1. /\ RouteBuilt(c) /\ c.fields = p.fields /\ c.given = p.given /\ c.route = p.route
      /\ c.loads = p.loads /\ c.failed = p.failed /\ c.shown = None /\ \A x \in c.receipts : ~x.inForce
  BY RouteCancels
<1>2. q = [c EXCEPT !.focus = None]
  BY DEF Route!ClearFocus
<1> HIDE DEF c, q
<1>3. /\ q \in RoutePanels /\ q.fields = c.fields /\ q.given = c.given /\ q.focus = None /\ q.route = c.route
      /\ q.loads = c.loads /\ q.failed = c.failed /\ q.shown = c.shown /\ q.receipts = c.receipts
  BY <1>1, <1>2 DEF RouteBuilt, RoutePanels
<1>4. RouteKept(q)
  BY <1>1, <1>3 DEF RouteBuilt, RouteKept
<1> QED
  BY <1>1, <1>3, <1>4 DEF q

\* Another scope, with whatever fields.
LEMMA RouteClears ==
  ASSUME NEW p, RouteBuilt(p)
  PROVE  LET q == Route!ClearScope(p)
         IN /\ RouteKept(q) /\ q.fields = p.fields /\ q.given = p.given /\ q.focus = None /\ q.route = None /\ q.shown = None
            /\ \A f \in Fields : RouteKept([q EXCEPT !.fields = f]) /\ [q EXCEPT !.fields = f].fields = f
                                 /\ [q EXCEPT !.fields = f].given = p.given
<1> DEFINE c == Route!ClearFocus(p)
           q == Route!ClearScope(p)
<1>1. /\ RouteKept(c) /\ c.fields = p.fields /\ c.given = p.given /\ c.focus = None
      /\ c.loads = p.loads /\ c.shown = None /\ \A x \in c.receipts : ~x.inForce
  BY RouteUnfocuses
<1>2. q = [c EXCEPT !.loads = Route!Dropped(c.loads), !.route = None, !.failed = FALSE]
  BY DEF Route!ClearScope
<1> HIDE DEF c, q
<1>3. c \in RoutePanels /\ c.loads \subseteq RouteCalls
  BY <1>1, RouteFields DEF RouteKept, RouteBuilt
<1>4. /\ Route!Dropped(c.loads) \subseteq RouteCalls
      /\ \A x \in Route!Dropped(c.loads) : \E y \in c.loads : x.session = y.session /\ x.served = y.served
  BY <1>3, RouteDropped
<1>5. /\ q \in RoutePanels /\ q.fields = c.fields /\ q.given = c.given /\ q.focus = None /\ q.route = None
      /\ q.loads = Route!Dropped(c.loads) /\ q.shown = None /\ q.receipts = c.receipts
  BY <1>1, <1>2, <1>3, <1>4 DEF RoutePanels
<1>6. \A x \in q.loads : x.served # None => \A r \in x.served : r.session = x.session
  BY <1>1, <1>4, <1>5 DEF RouteKept, RouteBuilt
<1>7. RouteKept(q)
  BY <1>1, <1>5, <1>6 DEF RouteKept, RouteBuilt
<1>8. ASSUME NEW f \in Fields
      PROVE  RouteKept([q EXCEPT !.fields = f]) /\ [q EXCEPT !.fields = f].fields = f /\ [q EXCEPT !.fields = f].given = p.given
  <2> DEFINE r == [q EXCEPT !.fields = f]
  <2>1. /\ r \in RoutePanels /\ r.fields = f /\ r.given = q.given /\ r.focus = None /\ r.route = None
        /\ r.loads = q.loads /\ r.shown = None /\ r.receipts = q.receipts
    BY <1>5 DEF RoutePanels
  <2> HIDE DEF r
  <2>2. RouteKept(r)
    BY <1>7, <2>1, <1>1, <1>5 DEF RouteKept, RouteBuilt
  <2> QED
    BY <1>1, <1>5, <2>1, <2>2 DEF r
<1> QED
  BY <1>1, <1>5, <1>7, <1>8 DEF q

LEMMA RouteAsks ==
  ASSUME NEW p, RouteBuilt(p)
  PROVE  RouteKept(Route!Load(p)) /\ Route!Load(p).fields = p.fields /\ Route!Load(p).given = p.given
<1> DEFINE q == Route!ClearScope(p)
           x == [source |-> q.fields.source, session |-> q.fields.session, served |-> None, inForce |-> TRUE]
           r == [q EXCEPT !.loads = q.loads \cup {x}]
<1>1. RouteKept(q) /\ q.fields = p.fields /\ q.given = p.given /\ q.focus = None /\ q.route = None /\ q.shown = None
  BY RouteClears
<1>2. Route!Load(p) = q \/ Route!Load(p) = r
  BY DEF Route!Load
<1> HIDE DEF q
<1>3. q \in RoutePanels /\ q.fields \in Fields
  BY <1>1, RouteFields DEF RouteKept, RouteBuilt
<1>4. x \in RouteCalls /\ x.served = None
  BY <1>3 DEF RouteCalls, Fields
<1> HIDE DEF x
<1>5. /\ r \in RoutePanels /\ r.fields = q.fields /\ r.given = q.given /\ r.focus = q.focus /\ r.route = q.route
      /\ r.shown = q.shown /\ r.receipts = q.receipts /\ r.loads = q.loads \cup {x}
  BY <1>3, <1>4 DEF RoutePanels
<1> HIDE DEF r
<1>6. RouteKept(r)
  BY <1>1, <1>4, <1>5 DEF RouteKept, RouteBuilt
<1> QED
  BY <1>1, <1>2, <1>5, <1>6

\* The window filters what is loaded.
\* The window filters what is loaded.
LEMMA RouteFilters ==
  ASSUME NEW p, RouteBuilt(p), p.focus # None => p.route # None
  PROVE  LET r == Route!WindowChanged(p) IN RouteKept(r) /\ r.fields = p.fields /\ r.given = p.given
<1> DEFINE q == Route!ClearFocus(p)
<1>1. RouteKept(q) /\ q.fields = p.fields /\ q.given = p.given
  BY RouteUnfocuses
<1> HIDE DEF q
<1>2. Route!WindowChanged(p) = IF p.route # None /\ p.focus # None /\ ~Route!InWindow(p.focus, p.given.win) THEN q ELSE p
  BY DEF Route!WindowChanged, q
<1>3. CASE p.route # None /\ p.focus # None /\ ~Route!InWindow(p.focus, p.given.win)
  BY <1>1, <1>2, <1>3
<1>4. CASE ~(p.route # None /\ p.focus # None /\ ~Route!InWindow(p.focus, p.given.win))
  <2>1. RouteKept(p)
    BY <1>4 DEF RouteKept
  <2> QED
    BY <1>2, <1>4, <2>1
<1> QED
  BY <1>3, <1>4

\* What the host delivers: the fields follow the session, or have covered it before.
LEMMA RouteDelivers ==
  ASSUME NEW p, RouteKept(p), NEW s \in RouteScopes, p.given.key # None => Route!Covers(p.fields, p.given.key)
  PROVE  LET r == Route!SetContext(p, s)
         IN /\ RouteKept(r) /\ r.given = [key |-> s.session, win |-> s.win]
            /\ s.session # None => Route!Covers(r.fields, s.session)
<1> DEFINE g == [key |-> s.session, win |-> s.win]
           q == [p EXCEPT !.given = g]
           kept == IF s.session.source = None /\ p.fields.session = s.session.id THEN p.fields.source ELSE None
           f == [session |-> s.session.id, source |-> IF s.session.source # None THEN s.session.source ELSE kept]
           moved == [Route!ClearScope(q) EXCEPT !.fields = f]
<1>1. p \in RoutePanels /\ p.fields \in Fields /\ s.session \in Route!Refs \cup {None} /\ s.win \in RouteWindows
  BY RouteFields DEF RouteKept, RouteBuilt, RouteScopes
<1>2. /\ q \in RoutePanels /\ q.given = g /\ q.fields = p.fields /\ q.route = p.route /\ q.focus = p.focus
      /\ q.loads = p.loads /\ q.receipts = p.receipts /\ q.shown = p.shown
  BY <1>1 DEF RoutePanels, Givens
<1>3. Route!SetContext(p, s) =
        IF s.session # None /\ s.session # p.given.key
        THEN IF s.session.source # None THEN Route!Load(moved) ELSE moved
        ELSE IF s.win # p.given.win THEN Route!WindowChanged(q) ELSE q
  BY DEF Route!SetContext
<1> HIDE DEF g, q
<1>4. RouteBuilt(q) /\ (q.focus # None => q.route # None)
  BY <1>2 DEF RouteKept, RouteBuilt
<1>5. CASE s.session # None /\ s.session # p.given.key
  <2>1. s.session.id \in RouteSessions /\ s.session.source \in RouteSources \cup {None}
    BY <1>1, <1>5 DEF Route!Refs
  <2>2. f \in Fields /\ Route!Covers(f, s.session)
    BY <1>1, <2>1 DEF Fields, Route!Covers
  <2> HIDE DEF f
  <2>3. RouteKept(moved) /\ moved.fields = f /\ moved.given = q.given
    BY <1>4, <2>2, RouteClears
  <2> HIDE DEF moved
  <2>4. RouteKept(Route!Load(moved)) /\ Route!Load(moved).fields = f /\ Route!Load(moved).given = q.given
    BY <2>3, RouteAsks DEF RouteKept
  <2>5. Route!SetContext(p, s) = Route!Load(moved) \/ Route!SetContext(p, s) = moved
    BY <1>3, <1>5
  <2> QED
    BY <1>2, <2>2, <2>3, <2>4, <2>5 DEF g
<1>6. CASE ~(s.session # None /\ s.session # p.given.key)
  <2>1. s.session # None => Route!Covers(p.fields, s.session)
    BY <1>6
  <2>2. CASE s.win # p.given.win
    <3>1. Route!SetContext(p, s) = Route!WindowChanged(q)
      BY <1>3, <1>6, <2>2
    <3>2. /\ RouteKept(Route!WindowChanged(q)) /\ Route!WindowChanged(q).fields = q.fields
          /\ Route!WindowChanged(q).given = q.given
      BY <1>4, RouteFilters
    <3> QED
      BY <1>2, <2>1, <3>1, <3>2 DEF g
  <2>3. CASE s.win = p.given.win
    <3>1. Route!SetContext(p, s) = q
      BY <1>3, <1>6, <2>3
    <3>2. g.win = p.given.win
      BY <2>3 DEF g
    <3>3. RouteKept(q)
      BY <1>2, <1>4, <3>2 DEF RouteKept
    <3> QED
      BY <1>2, <2>1, <3>1, <3>3 DEF g
  <2> QED
    BY <2>2, <2>3
<1> QED
  BY <1>5, <1>6

LEMMA RouteBecomes ==
  ASSUME NEW p, p \in RoutePanels, Route!Become(p)
  PROVE  Route!Panel' = p
<1>1. p = [fields |-> p.fields, given |-> p.given, route |-> p.route, failed |-> p.failed, loads |-> p.loads,
           receipts |-> p.receipts, focus |-> p.focus, shown |-> p.shown]
  BY DEF RoutePanels
<1>2. Route!Panel' = [fields |-> fields', given |-> given', route |-> route', failed |-> routeFailed', loads |-> routeLoads',
                      receipts |-> routeReceipts', focus |-> focus', shown |-> routeShown']
  BY DEF Route!Panel
<1> QED
  BY <1>1, <1>2 DEF Route!Become

\* The variables, by the names of the record.
LEMMA RoutePanel ==
  /\ Route!Panel.fields = fields /\ Route!Panel.given = given /\ Route!Panel.route = route /\ Route!Panel.failed = routeFailed
  /\ Route!Panel.loads = routeLoads /\ Route!Panel.receipts = routeReceipts /\ Route!Panel.focus = focus
  /\ Route!Panel.shown = routeShown
BY DEF Route!Panel

LEMMA RoutesInit == Route!Init => RoutesInv
<1> SUFFICES ASSUME Route!Init PROVE RoutesInv
  OBVIOUS
<1>1. /\ kind \in {"loom", "replay", "ecosystem"} /\ captured = Kept /\ onRoute = FALSE
      /\ routeScope \in [session : Route!Refs \cup {None}, win : {LiveWindow}]
      /\ fields = [session |-> None, source |-> None] /\ given = [key |-> None, win |-> LiveWindow] /\ route = None
      /\ routeFailed = FALSE /\ routeLoads = {} /\ routeReceipts = {} /\ focus = None /\ routeShown = None
  BY DEF Route!Init
<1>2. Kept \subseteq Records
  BY LensesAssumption
<1>3. routeScope \in RouteScopes /\ given \in Givens /\ fields \in Fields
  BY <1>1, LensesAssumption DEF RouteScopes, Givens, Fields
<1>4. Route!Panel \in RoutePanels
  BY <1>1, <1>3 DEF Route!Panel, RoutePanels
<1>5. RouteKept(Route!Panel)
  BY <1>1, <1>4, RoutePanel DEF RouteKept, RouteBuilt
<1>6. RouteScoped(Route!Panel, onRoute, routeScope)
  BY <1>1, RoutePanel DEF RouteScoped
<1> QED
  BY <1>1, <1>2, <1>3, <1>5, <1>6 DEF RoutesInv

\* A step of the panel under the scope that stays.
LEMMA RouteStays ==
  ASSUME RoutesInv, NEW p, RouteKept(p), p.given = given, p.fields = fields \/ Route!Covers(p.fields, given.key) \/ given.key = None,
         Route!Become(p), UNCHANGED <<kind, routeScope, onRoute>>, captured' \subseteq Records
  PROVE  RoutesInv'
<1>1. Route!Panel' = p
  BY RouteBecomes DEF RouteKept, RouteBuilt
<1>2. RouteScoped(p, onRoute, routeScope)
  BY RoutePanel DEF RoutesInv, RouteScoped
<1> QED
  BY <1>1, <1>2 DEF RoutesInv, RouteScoped, Route!Tabbed

LEMMA RouteMoves ==
  ASSUME RoutesInv, Route!Enter \/ Route!Leave \/ Route!ScopeMoves
  PROVE  RoutesInv'
<1> DEFINE P == Route!Panel
<1>0. /\ RouteKept(P) /\ P.given = given /\ routeScope \in RouteScopes /\ (given.key # None => Route!Covers(P.fields, P.given.key))
      /\ RouteScoped(P, onRoute, routeScope) /\ P \in RoutePanels
  BY RoutePanel DEF RoutesInv, RouteScoped, RouteKept, RouteBuilt
<1>a. \A s \in RouteScopes : LET r == Route!SetContext(P, s)
                             IN /\ RouteKept(r) /\ r.given = [key |-> s.session, win |-> s.win]
                                /\ s.session # None => Route!Covers(r.fields, s.session)
  BY <1>0, RouteDelivers
<1> HIDE DEF P
<1>1. CASE Route!Enter /\ Route!Tabbed
  <2> DEFINE r == Route!SetContext(P, routeScope)
             q == Route!CancelReceipt(r)
  <2>1. RouteKept(r) /\ r.given = [key |-> routeScope.session, win |-> routeScope.win]
        /\ (routeScope.session # None => Route!Covers(r.fields, routeScope.session))
    BY <1>0, <1>a
  <2> HIDE DEF r
  <2>2. RouteKept(q) /\ q.fields = r.fields /\ q.given = r.given
    BY <2>1, RouteCancels DEF RouteKept
  <2>3. Route!Become(q) /\ onRoute' = TRUE /\ UNCHANGED <<kind, captured, routeScope>>
    BY <1>1 DEF Route!Enter, q, r, P
  <2> HIDE DEF q
  <2>4. Route!Panel' = q
    BY <2>2, <2>3, RouteBecomes DEF RouteKept, RouteBuilt
  <2>5. RouteScoped(q, TRUE, routeScope)
    BY <1>1, <2>1, <2>2 DEF RouteScoped
  <2> QED
    BY <2>2, <2>3, <2>4, <2>5, <1>1 DEF RoutesInv, RouteScoped, Route!Tabbed
<1>2. CASE Route!Enter /\ ~Route!Tabbed
  <2>1. Route!Become(P) /\ onRoute' = TRUE /\ UNCHANGED <<kind, captured, routeScope>>
    BY <1>2 DEF Route!Enter, P
  <2>2. Route!Panel' = P
    BY <1>0, <2>1, RouteBecomes
  <2> QED
    BY <1>0, <1>2, <2>1, <2>2 DEF RoutesInv, RouteScoped, Route!Tabbed
<1>3. CASE Route!Leave
  <2> DEFINE c == Route!CancelReceipt(P)
             q == [c EXCEPT !.loads = Route!Dropped(c.loads), !.given.key = None]
  <2>1. RouteKept(c) /\ c.given = P.given /\ c \in RoutePanels
    BY <1>0, RouteCancels DEF RouteKept, RouteBuilt
  <2>2. Route!Become(q) /\ onRoute' = FALSE /\ UNCHANGED <<kind, captured, routeScope>>
    BY <1>3 DEF Route!Leave, Route!Left, P
  <2> HIDE DEF c
  <2>3. c.loads \subseteq RouteCalls /\ c.given \in Givens
    BY <2>1, RouteFields
  <2>4. /\ Route!Dropped(c.loads) \subseteq RouteCalls
        /\ \A x \in Route!Dropped(c.loads) : \E y \in c.loads : x.session = y.session /\ x.served = y.served
    BY <2>3, RouteDropped
  <2>5. [c.given EXCEPT !.key = None] \in Givens /\ [c.given EXCEPT !.key = None].key = None /\ [c.given EXCEPT !.key = None].win = c.given.win
    BY <2>3 DEF Givens
  <2>6. /\ q \in RoutePanels /\ q.fields = c.fields /\ q.given.key = None /\ q.given.win = c.given.win /\ q.route = c.route /\ q.focus = c.focus
        /\ q.receipts = c.receipts /\ q.shown = c.shown /\ q.loads = Route!Dropped(c.loads)
    BY <2>1, <2>4, <2>5 DEF RoutePanels
  <2> HIDE DEF q
  <2>7. \A x \in q.loads : x.served # None => \A r \in x.served : r.session = x.session
    BY <2>1, <2>4, <2>6 DEF RouteKept, RouteBuilt
  <2>8. RouteKept(q)
    BY <2>1, <2>6, <2>7 DEF RouteKept, RouteBuilt
  <2>9. Route!Panel' = q
    BY <2>2, <2>6, RouteBecomes
  <2> QED
    BY <2>2, <2>6, <2>8, <2>9 DEF RoutesInv, RouteScoped, Route!Tabbed
<1>4. CASE Route!ScopeMoves
  <2>1. PICK s \in RouteScopes : routeScope' = s /\ Route!Become(IF onRoute THEN Route!SetContext(P, s) ELSE P)
    BY <1>4 DEF Route!ScopeMoves, RouteScopes, P
  <2>2. Route!Tabbed /\ UNCHANGED <<kind, captured, onRoute>>
    BY <1>4 DEF Route!ScopeMoves
  <2>3. CASE onRoute
    <3> DEFINE r == Route!SetContext(P, s)
    <3>1. RouteKept(r) /\ r.given = [key |-> s.session, win |-> s.win] /\ (s.session # None => Route!Covers(r.fields, s.session))
      BY <1>a
    <3>2. Route!Become(r)
      BY <2>1, <2>3
    <3> HIDE DEF r
    <3>3. Route!Panel' = r
      BY <3>1, <3>2, RouteBecomes DEF RouteKept, RouteBuilt
    <3>4. RouteScoped(r, TRUE, s)
      BY <2>2, <3>1 DEF RouteScoped
    <3> QED
      BY <2>1, <2>2, <2>3, <3>1, <3>3, <3>4 DEF RoutesInv, RouteScoped, Route!Tabbed
  <2>4. CASE ~onRoute
    <3>1. Route!Panel' = P
      BY <1>0, <2>1, <2>4, RouteBecomes
    <3> QED
      BY <1>0, <2>1, <2>2, <2>4, <3>1 DEF RoutesInv, RouteScoped, Route!Tabbed
  <2> QED
    BY <2>3, <2>4
<1> QED
  BY <1>1, <1>2, <1>3, <1>4

LEMMA RouteTypes ==
  ASSUME RoutesInv, Route!TypeFields \/ Route!ClickLoad \/ Route!LoadBranch
  PROVE  RoutesInv'
<1> DEFINE P == Route!Panel
<1>0. /\ RouteKept(P) /\ RouteBuilt(P) /\ P.given = given /\ P.fields = fields /\ routeScope \in RouteScopes
      /\ RouteScoped(P, onRoute, routeScope) /\ P \in RoutePanels /\ captured \subseteq Records /\ onRoute \in BOOLEAN
  BY RoutePanel DEF RoutesInv, RouteKept, RouteBuilt
<1>a. onRoute /\ Route!Tabbed => given.key = routeScope.session
  BY <1>0 DEF RouteScoped
<1>b. ~Route!Tabbed => given.key = None
  BY <1>0 DEF RouteScoped
<1>1. CASE Route!TypeFields
  <2>1. PICK f \in [session : RouteSessions, source : RouteSources] :
          (Route!SessionLocked => f.session = fields.session) /\ Route!Become(Route!Typed(P, f))
    BY <1>1 DEF Route!TypeFields
  <2>2. f \in Fields
    BY <2>1 DEF Fields
  <2> DEFINE q == [Route!ClearScope(P) EXCEPT !.fields = f]
  <2>3. RouteKept(q) /\ q.fields = f /\ q.given = P.given
    BY <1>0, <2>2, RouteClears
  <2>4. Route!Become(q)
    BY <2>1 DEF Route!Typed
  <2> HIDE DEF q
  <2>5. given.key # None => Route!Covers(f, given.key)
    <3> SUFFICES ASSUME given.key # None PROVE Route!Covers(f, given.key)
      OBVIOUS
    <3>1. onRoute /\ Route!Tabbed /\ given.key = routeScope.session /\ Route!Covers(fields, given.key)
      BY <1>0, <1>1, <1>a, <1>b DEF RouteScoped, Route!TypeFields
    <3>2. routeScope.session.source = None /\ f.session = fields.session
      BY <1>1, <2>1, <3>1 DEF Route!TypeFields, Route!SourceLocked, Route!SessionLocked
    <3> QED
      BY <3>1, <3>2 DEF Route!Covers
  <2> QED
    BY <1>0, <1>1, <2>3, <2>4, <2>5, RouteStays DEF Route!TypeFields
<1>2. CASE Route!ClickLoad
  <2>1. RouteKept(Route!Load(P)) /\ Route!Load(P).fields = fields /\ Route!Load(P).given = given
    BY <1>0, RouteAsks
  <2> QED
    BY <1>0, <1>2, <2>1, RouteStays DEF Route!ClickLoad
<1>3. CASE Route!LoadBranch
  <2>1. PICK b \in [session : RouteSessions, source : RouteSources] :
          Route!OfScope(b) /\ Route!Become(Route!Load([P EXCEPT !.fields = b]))
    BY <1>3 DEF Route!LoadBranch
  <2> DEFINE q == [P EXCEPT !.fields = b]
  <2>2. b \in Fields
    BY <2>1 DEF Fields
  <2>3. /\ Route!ClearScope(q) = [Route!ClearScope(P) EXCEPT !.fields = b]
        /\ q.given = given /\ q.fields = b
    BY <1>0, <2>2 DEF Route!ClearScope, Route!ClearFocus, Route!CancelReceipt, RoutePanels
  <2> DEFINE c == Route!ClearScope(q)
             x == [source |-> c.fields.source, session |-> c.fields.session, served |-> None, inForce |-> TRUE]
  <2>4. RouteKept(c) /\ c.fields = b /\ c.given = given
    <3> DEFINE e == [Route!ClearScope(P) EXCEPT !.fields = b]
    <3>1. RouteKept(e) /\ e.fields = b /\ e.given = given
      BY <1>0, <2>2, RouteClears
    <3> HIDE DEF e
    <3>2. c = e
      BY <2>3 DEF e
    <3> QED
      BY <3>1, <3>2
  <2>5. Route!Load(q) = c \/ Route!Load(q) = [c EXCEPT !.loads = c.loads \cup {x}]
    BY DEF Route!Load
  <2> HIDE DEF c
  <2>6. x \in RouteCalls /\ x.served = None /\ c \in RoutePanels
    BY <2>2, <2>4 DEF RouteCalls, Fields, RouteKept, RouteBuilt
  <2> HIDE DEF x
  <2>7. LET r == [c EXCEPT !.loads = c.loads \cup {x}] IN RouteKept(r) /\ r.fields = b /\ r.given = given
    <3> DEFINE r == [c EXCEPT !.loads = c.loads \cup {x}]
    <3>1. /\ r \in RoutePanels /\ r.fields = c.fields /\ r.given = c.given /\ r.focus = c.focus /\ r.route = c.route
          /\ r.shown = c.shown /\ r.receipts = c.receipts /\ r.loads = c.loads \cup {x}
      BY <2>6 DEF RoutePanels
    <3> HIDE DEF r
    <3>2. RouteKept(r)
      BY <2>4, <2>6, <3>1 DEF RouteKept, RouteBuilt
    <3> QED
      BY <2>4, <3>1, <3>2 DEF r
  <2>8. RouteKept(Route!Load(q)) /\ Route!Load(q).fields = b /\ Route!Load(q).given = given
    BY <2>4, <2>5, <2>7
  <2>9. given.key # None => Route!Covers(b, given.key)
    <3>1. Route!Tabbed /\ onRoute
      BY <1>3 DEF Route!LoadBranch, Route!Tabbed
    <3> QED
      BY <1>a, <2>1, <3>1 DEF Route!OfScope, Route!Covers
  <2> HIDE DEF q
  <2>a. Route!Become(Route!Load(q)) /\ UNCHANGED <<kind, routeScope, onRoute, captured>>
    BY <1>3, <2>1 DEF Route!LoadBranch, q
  <2> QED
    BY <1>0, <2>8, <2>9, <2>a, RouteStays
<1> QED
  BY <1>1, <1>2, <1>3

LEMMA RouteAnswers ==
  ASSUME RoutesInv, Route!Capture \/ Route!ServeRoute \/ Route!LoadAnswered \/ Route!LoadFails
  PROVE  RoutesInv'
<1> DEFINE P == Route!Panel
<1>0. /\ RouteKept(P) /\ RouteBuilt(P) /\ P \in RoutePanels /\ captured \subseteq Records /\ routeLoads \subseteq RouteCalls
      /\ P.given = given /\ P.fields = fields /\ P.loads = routeLoads
  BY RoutePanel, RouteFields DEF RoutesInv, RouteKept, RouteBuilt
<1>1. CASE Route!Capture
  <2>1. Route!Become(P) /\ captured' \subseteq Records /\ UNCHANGED <<kind, routeScope, onRoute>>
    BY <1>0, <1>1 DEF Route!Capture, Route!Become, Route!Panel
  <2> QED
    BY <1>0, <2>1, RouteStays
<1>2. CASE Route!ServeRoute
  <2>1. PICK x \in routeLoads : routeLoads' = (routeLoads \ {x}) \cup {[x EXCEPT !.served = {r \in captured : r.session = x.session}]}
    BY <1>2 DEF Route!ServeRoute
  <2> DEFINE y == [x EXCEPT !.served = {r \in captured : r.session = x.session}]
             q == [P EXCEPT !.loads = (routeLoads \ {x}) \cup {y}]
  <2>2. y \in RouteCalls /\ y.session = x.session /\ \A r \in y.served : r.session = y.session
    BY <1>0, <2>1 DEF RouteCalls
  <2> HIDE DEF y
  <2>3. /\ q \in RoutePanels /\ q.fields = P.fields /\ q.given = P.given /\ q.focus = P.focus /\ q.route = P.route
        /\ q.failed = P.failed /\ q.shown = P.shown /\ q.receipts = P.receipts /\ q.loads = (routeLoads \ {x}) \cup {y}
    BY <1>0, <2>2 DEF RoutePanels
  <2> HIDE DEF q
  <2>4. RouteKept(q)
    BY <1>0, <2>2, <2>3 DEF RouteKept, RouteBuilt
  <2>5. Route!Become(q) /\ UNCHANGED <<kind, routeScope, onRoute, captured>>
    BY <1>2, <2>1, <2>3, RoutePanel DEF Route!ServeRoute, Route!Become, y
  <2> QED
    BY <1>0, <2>3, <2>4, <2>5, RouteStays
<1>3. CASE Route!LoadAnswered
  <2>1. PICK x \in routeLoads :
          /\ x.served # None
          /\ Route!Become(IF Route!Current(x) THEN [Route!ClearFocus(P) EXCEPT !.loads = @ \ {x}, !.route = Route!Build(x.served, x.source)]
                          ELSE [P EXCEPT !.loads = @ \ {x}])
    BY <1>3 DEF Route!LoadAnswered
  <2>2. UNCHANGED <<kind, routeScope, onRoute, captured>>
    BY <1>3 DEF Route!LoadAnswered
  <2>3. CASE Route!Current(x)
    <3> DEFINE c == Route!ClearFocus(P)
               q == [c EXCEPT !.loads = c.loads \ {x}, !.route = Route!Build(x.served, x.source)]
    <3>1. RouteKept(c) /\ c.fields = fields /\ c.given = given /\ c.focus = None /\ c.shown = None /\ (\A y \in c.receipts : ~y.inForce)
      BY <1>0, RouteUnfocuses
    <3>2. Route!Become(q)
      BY <2>1, <2>3
    <3> HIDE DEF c
    <3>3. x.served \subseteq Records /\ \A r \in x.served : r.session = x.session
      BY <1>0, <2>1 DEF RouteCalls, RouteKept, RouteBuilt
    <3>4. /\ Route!Build(x.served, x.source) \subseteq x.served
          /\ \A r \in Route!Build(x.served, x.source) : r.source = x.source /\ r.session = x.session
      BY <3>3 DEF Route!Build
    <3>5. x.source = fields.source /\ x.session = fields.session
      BY <2>3 DEF Route!Current
    <3>6. /\ q \in RoutePanels /\ q.fields = c.fields /\ q.given = c.given /\ q.focus = c.focus /\ q.shown = c.shown
          /\ q.receipts = c.receipts /\ q.loads = c.loads \ {x} /\ q.route = Route!Build(x.served, x.source)
      BY <3>1, <3>3, <3>4 DEF RoutePanels, RouteKept, RouteBuilt
    <3> HIDE DEF q
    <3>7. RouteKept(q)
      BY <3>1, <3>4, <3>5, <3>6 DEF RouteKept, RouteBuilt
    <3> QED
      BY <1>0, <2>2, <3>1, <3>2, <3>6, <3>7, RouteStays
  <2>4. CASE ~Route!Current(x)
    <3> DEFINE q == [P EXCEPT !.loads = P.loads \ {x}]
    <3>1. Route!Become(q)
      BY <2>1, <2>4
    <3>2. /\ q \in RoutePanels /\ q.fields = P.fields /\ q.given = P.given /\ q.focus = P.focus /\ q.shown = P.shown
          /\ q.receipts = P.receipts /\ q.loads = P.loads \ {x} /\ q.route = P.route
      BY <1>0 DEF RoutePanels
    <3> HIDE DEF q
    <3>3. RouteKept(q)
      BY <1>0, <3>2 DEF RouteKept, RouteBuilt
    <3> QED
      BY <1>0, <2>2, <3>1, <3>2, <3>3, RouteStays
  <2> QED
    BY <2>3, <2>4
<1>4. CASE Route!LoadFails
  <2>1. PICK x \in routeLoads : Route!Become([P EXCEPT !.loads = P.loads \ {x}, !.failed = P.failed \/ x.inForce])
    BY <1>4 DEF Route!LoadFails
  <2> DEFINE q == [P EXCEPT !.loads = P.loads \ {x}, !.failed = P.failed \/ x.inForce]
  <2>2. (P.failed \/ x.inForce) \in BOOLEAN
    BY <1>0, <2>1
  <2>3. /\ q \in RoutePanels /\ q.fields = P.fields /\ q.given = P.given /\ q.focus = P.focus /\ q.shown = P.shown
        /\ q.receipts = P.receipts /\ q.loads = P.loads \ {x} /\ q.route = P.route
    BY <1>0, <2>2 DEF RoutePanels
  <2>4. Route!Become(q) /\ UNCHANGED <<kind, routeScope, onRoute, captured>>
    BY <1>4, <2>1 DEF Route!LoadFails
  <2> HIDE DEF q
  <2>5. RouteKept(q)
    BY <1>0, <2>3 DEF RouteKept, RouteBuilt
  <2> QED
    BY <1>0, <2>3, <2>4, <2>5, RouteStays
<1> QED
  BY <1>1, <1>2, <1>3, <1>4

LEMMA RouteInspects ==
  ASSUME RoutesInv, Route!Focus \/ Route!Browse \/ Route!Inspect \/ Route!ReceiptAnswered \/ Route!ReceiptFails
  PROVE  RoutesInv'
<1> DEFINE P == Route!Panel
           c == Route!ClearFocus(P)
<1>0. /\ RouteKept(P) /\ RouteBuilt(P) /\ P \in RoutePanels /\ captured \subseteq Records /\ P.given = given /\ P.fields = fields
      /\ P.route = route /\ P.focus = focus /\ P.receipts = routeReceipts /\ routeReceipts \subseteq ReceiptCalls
      /\ focus \in Records \cup {None} /\ route \in {None} \cup SUBSET Records
  BY RoutePanel, RouteFields DEF RoutesInv, RouteKept, RouteBuilt
<1>a. UNCHANGED <<kind, routeScope, onRoute, captured>>
  BY DEF Route!Focus, Route!Browse, Route!Inspect, Route!ReceiptAnswered, Route!ReceiptFails
<1>b. /\ RouteKept(c) /\ c \in RoutePanels /\ c.fields = fields /\ c.given = given /\ c.route = route /\ c.focus = None /\ c.shown = None
      /\ \A y \in c.receipts : ~y.inForce
  BY <1>0, RouteUnfocuses DEF RouteKept, RouteBuilt
<1>1. CASE Route!Focus
  <2>1. PICK r \in route : route # None /\ Route!InWindow(r, given.win) /\ Route!Become([c EXCEPT !.focus = r])
    BY <1>1 DEF Route!Focus
  <2> DEFINE q == [c EXCEPT !.focus = r]
  <2>2. /\ q \in RoutePanels /\ q.fields = c.fields /\ q.given = c.given /\ q.focus = r /\ q.shown = c.shown
        /\ q.receipts = c.receipts /\ q.loads = c.loads /\ q.route = c.route
    BY <1>0, <1>b, <2>1 DEF RoutePanels
  <2> HIDE DEF q, c
  <2>3. RouteKept(q)
    BY <1>b, <2>1, <2>2 DEF RouteKept, RouteBuilt
  <2>4. Route!Become(q)
    BY <2>1 DEF q
  <2> QED
    BY <1>0, <1>a, <1>b, <2>2, <2>3, <2>4, RouteStays
<1>2. CASE Route!Browse
  <2>1. Route!Become(c)
    BY <1>2 DEF Route!Browse
  <2> HIDE DEF c
  <2> QED
    BY <1>0, <1>a, <1>b, <2>1, RouteStays
<1>3. CASE Route!Inspect
  <2> DEFINE d == Route!CancelReceipt(P)
             q == [d EXCEPT !.receipts = d.receipts \cup {[record |-> focus, inForce |-> TRUE]}]
  <2>1. /\ RouteKept(d) /\ d \in RoutePanels /\ d.fields = fields /\ d.given = given /\ d.route = route /\ d.focus = focus /\ d.shown = None
        /\ \A y \in d.receipts : ~y.inForce
    BY <1>0, RouteCancels DEF RouteKept, RouteBuilt
  <2>2. Route!Become(q) /\ focus # None
    BY <1>3 DEF Route!Inspect
  <2> HIDE DEF d
  <2>3. [record |-> focus, inForce |-> TRUE] \in ReceiptCalls
    BY <1>0, <2>2 DEF ReceiptCalls
  <2>4. /\ q \in RoutePanels /\ q.fields = d.fields /\ q.given = d.given /\ q.focus = d.focus /\ q.shown = d.shown
        /\ q.receipts = d.receipts \cup {[record |-> focus, inForce |-> TRUE]} /\ q.loads = d.loads /\ q.route = d.route
    BY <2>1, <2>3 DEF RoutePanels
  <2> HIDE DEF q
  <2>5. RouteKept(q)
    BY <2>1, <2>2, <2>4 DEF RouteKept, RouteBuilt
  <2> QED
    BY <1>0, <1>a, <2>1, <2>2, <2>4, <2>5, RouteStays
<1>4. CASE Route!ReceiptAnswered
  <2>1. PICK x \in routeReceipts, full \in captured :
          /\ full.id = x.record.id
          /\ Route!Become([P EXCEPT !.receipts = P.receipts \ {x}, !.shown = IF x.inForce /\ Route!Identity(full) THEN full ELSE P.shown])
    BY <1>4 DEF Route!ReceiptAnswered
  <2> DEFINE q == [P EXCEPT !.receipts = P.receipts \ {x}, !.shown = IF x.inForce /\ Route!Identity(full) THEN full ELSE P.shown]
  <2>2. /\ q \in RoutePanels /\ q.fields = P.fields /\ q.given = P.given /\ q.focus = P.focus /\ q.receipts = P.receipts \ {x}
        /\ q.shown = (IF x.inForce /\ Route!Identity(full) THEN full ELSE P.shown) /\ q.loads = P.loads /\ q.route = P.route
    BY <1>0, <2>1 DEF RoutePanels
  <2>3. Route!Become(q)
    BY <2>1
  <2> HIDE DEF q, P
  <2>4. x.inForce /\ Route!Identity(full) =>
          focus # None /\ full.id = focus.id /\ full.source = focus.source /\ full.session = focus.session
    <3> SUFFICES ASSUME x.inForce, Route!Identity(full)
                 PROVE  focus # None /\ full.id = focus.id /\ full.source = focus.source /\ full.session = focus.session
      OBVIOUS
    <3>1. focus # None /\ x.record = focus /\ route # None /\ focus \in route
      BY <1>0, <2>1 DEF RouteBuilt
    <3>2. focus.source = fields.source /\ focus.session = fields.session
      BY <1>0, <3>1 DEF RouteBuilt
    <3> QED
      BY <2>1, <3>1, <3>2 DEF Route!Identity
  <2>5. RouteKept(q)
    BY <1>0, <2>2, <2>4 DEF RouteKept, RouteBuilt
  <2> QED
    BY <1>0, <1>a, <2>2, <2>3, <2>5, RouteStays
<1>5. CASE Route!ReceiptFails
  <2>1. PICK x \in routeReceipts : Route!Become([P EXCEPT !.receipts = P.receipts \ {x}])
    BY <1>5 DEF Route!ReceiptFails
  <2> DEFINE q == [P EXCEPT !.receipts = P.receipts \ {x}]
  <2>2. /\ q \in RoutePanels /\ q.fields = P.fields /\ q.given = P.given /\ q.focus = P.focus /\ q.shown = P.shown
        /\ q.receipts = P.receipts \ {x} /\ q.loads = P.loads /\ q.route = P.route
    BY <1>0 DEF RoutePanels
  <2>3. Route!Become(q)
    BY <2>1
  <2> HIDE DEF q
  <2>4. RouteKept(q)
    BY <1>0, <2>2 DEF RouteKept, RouteBuilt
  <2> QED
    BY <1>0, <1>a, <2>2, <2>3, <2>4, RouteStays
<1> QED
  BY <1>1, <1>2, <1>3, <1>4, <1>5

LEMMA RoutesStep == RoutesInv /\ [Route!Next]_(Route!vars) => RoutesInv'
<1> SUFFICES ASSUME RoutesInv, [Route!Next]_(Route!vars) PROVE RoutesInv'
  OBVIOUS
<1>1. CASE UNCHANGED Route!vars
  <2>1. Route!Panel' = Route!Panel /\ UNCHANGED <<kind, captured, routeScope, onRoute>>
    BY <1>1 DEF Route!vars, Route!Panel
  <2> QED
    BY <2>1 DEF RoutesInv, RouteScoped, Route!Tabbed
<1> QED
  BY <1>1, RouteMoves, RouteTypes, RouteAnswers, RouteInspects DEF Route!Next

LEMMA RoutesMean ==
  ASSUME RoutesInv
  PROVE  Route!RouteOfScope /\ Route!ReceiptOfFocus
<1>1. RouteBuilt(Route!Panel) /\ (focus # None => Route!InWindow(focus, given.win)) /\ RouteScoped(Route!Panel, onRoute, routeScope)
  BY RoutePanel DEF RoutesInv, RouteKept
<1>2. Route!RouteOfScope
  BY <1>1, RoutePanel DEF Route!RouteOfScope, RouteBuilt, RouteScoped
<1>3. Route!ReceiptOfFocus
  BY <1>1, RoutePanel DEF Route!ReceiptOfFocus, RouteBuilt
<1> QED
  BY <1>2, <1>3

HIDE DEF kind, captured, routeScope, onRoute, fields, given, route, routeFailed, routeLoads, routeReceipts, focus, routeShown

----------------------------------------------------------------------------
(* The panels of recorded evidence.                                        *)

courtWorld == x2
onCourt == x3
list == x4
listLoads == x5
pick == x6
page == x7
pages == x8
evidence == x9
courtShown == x10
USE DEF kind, courtWorld, onCourt, list, listLoads, pick, page, pages, evidence, courtShown

CourtModes == {"summary", "sessions"}
CourtLists == [mode : CourtModes, phase : {"idle", "loading", "ready", "error"}, rows : SUBSET CourtRows, shared : BOOLEAN]
ListCalls == [mode : CourtModes, served : {None} \cup SUBSET CourtRows, inForce : BOOLEAN]
PageBodies == [key : Court!Keys, rows : SUBSET CourtRows]
PageCalls == [key : Court!Keys, served : {None} \cup PageBodies, inForce : BOOLEAN]
RowCalls == [row : CourtRows, inForce : BOOLEAN]

CourtTyped ==
  /\ kind \in {"files", "strata"} /\ courtWorld \subseteq CourtRows /\ onCourt \in BOOLEAN /\ list \in CourtLists
  /\ listLoads \subseteq ListCalls /\ pick \in Court!Keys \cup {None} /\ page \in {None} \cup SUBSET CourtRows
  /\ pages \subseteq PageCalls /\ evidence \subseteq RowCalls /\ courtShown \in {None} \cup [row : CourtRows, event : CourtRows]

\* One list, and one page, is in force: while the list is loading nothing is picked, and
\* strata has no rows; while the page is under way there is none.
CourtLoads ==
  /\ \A l, m \in listLoads : l.inForce /\ m.inForce => l = m
  /\ \A l \in listLoads : l.inForce => list.phase = "loading"
  /\ kind = "files" => pick = None
  /\ kind = "strata" => list.mode = "sessions" /\ (list.rows # {} => list.phase = "ready")
  /\ page # None => pick # None /\ \A r \in page : r.key = pick
  /\ pick # None => list.phase = "ready" /\ \E r \in list.rows : r.key = pick
  /\ \A p, q \in pages : p.inForce /\ q.inForce => p = q
  /\ \A p \in pages : /\ p.inForce => pick = p.key /\ page = None
                      /\ p.served # None => \A r \in p.served.rows : r.key = p.served.key

\* The event asked for, and the one shown, is behind a row that is listed.
CourtKept ==
  /\ \A x \in evidence : x.inForce => x.row \in Court!Listed
  /\ courtShown # None =>
       /\ courtShown.row \in Court!Listed /\ courtShown.event.session = courtShown.row.session
       /\ kind = "files" => courtShown.event.key = courtShown.row.key

CourtInv == CourtTyped /\ CourtLoads /\ CourtKept

LEMMA CourtApart ==
  None \notin Court!Keys /\ None \notin SUBSET CourtRows /\ None \notin PageBodies /\ None \notin [row : CourtRows, event : CourtRows]
BY LensesAssumption DEF PageBodies

LEMMA CourtDropped ==
  /\ \A c \in SUBSET ListCalls : Court!Dropped(c) \subseteq ListCalls /\ \A x \in Court!Dropped(c) : ~x.inForce
  /\ \A c \in SUBSET PageCalls :
       /\ Court!Dropped(c) \subseteq PageCalls /\ \A x \in Court!Dropped(c) : ~x.inForce
       /\ \A x \in Court!Dropped(c) : \E y \in c : x.served = y.served
  /\ \A c \in SUBSET RowCalls : Court!Dropped(c) \subseteq RowCalls /\ \A x \in Court!Dropped(c) : ~x.inForce
BY DEF Court!Dropped, ListCalls, PageCalls, RowCalls

LEMMA CourtListed ==
  /\ UNCHANGED <<kind, list, page>> => Court!Listed' = Court!Listed
  /\ kind = "strata" => Court!Listed = IF page = None THEN {} ELSE page
  /\ kind = "files" /\ list.phase # "ready" => Court!Listed = {}
  /\ UNCHANGED <<kind, page>> /\ kind = "strata" => Court!Listed' = Court!Listed
<1>1. UNCHANGED <<kind, list, page>> => Court!Listed' = Court!Listed
  BY DEF Court!Listed, Court!Visible, Court!Sharing
<1>2. kind = "strata" => Court!Listed = IF page = None THEN {} ELSE page
  BY DEF Court!Listed
<1>3. kind = "files" /\ list.phase # "ready" => Court!Listed = {}
  BY DEF Court!Listed
<1>4. UNCHANGED <<kind, page>> /\ kind = "strata" => Court!Listed' = Court!Listed
  BY DEF Court!Listed
<1> QED
  BY <1>1, <1>2, <1>3, <1>4

\* Nothing is shown or asked for when nothing is listed.
LEMMA CourtBlank ==
  ASSUME CourtKept, Court!Listed = {}
  PROVE  courtShown = None /\ \A x \in evidence : ~x.inForce
BY DEF CourtKept

LEMMA CourtInit == Court!Init => CourtInv
<1> SUFFICES ASSUME Court!Init PROVE CourtInv
  OBVIOUS
<1>1. /\ kind \in {"files", "strata"} /\ courtWorld \subseteq CourtRows /\ onCourt = FALSE
      /\ list = [mode |-> IF kind = "files" THEN "summary" ELSE "sessions", phase |-> "idle", rows |-> {}, shared |-> FALSE]
      /\ listLoads = {} /\ pick = None /\ page = None /\ pages = {} /\ evidence = {} /\ courtShown = None
  BY DEF Court!Init
<1>2. CourtTyped
  BY <1>1 DEF CourtTyped, CourtLists, CourtModes
<1>3. CourtLoads /\ CourtKept
  BY <1>1 DEF CourtLoads, CourtKept
<1> QED
  BY <1>2, <1>3 DEF CourtInv

LEMMA CourtClears ==
  ASSUME CourtInv, Court!ClearSelection
  PROVE  /\ pick' = None /\ page' = None /\ courtShown' = None /\ evidence' \subseteq RowCalls /\ pages' \subseteq PageCalls
         /\ (\A x \in evidence' : ~x.inForce) /\ (\A p \in pages' : ~p.inForce)
         /\ \A p \in pages' : p.served # None => \A r \in p.served.rows : r.key = p.served.key
<1>1. evidence \subseteq RowCalls /\ pages \subseteq PageCalls
  BY DEF CourtInv, CourtTyped
<1>2. evidence' = Court!Dropped(evidence) /\ pages' = Court!Dropped(pages) /\ pick' = None /\ page' = None /\ courtShown' = None
  BY DEF Court!ClearSelection, Court!CancelDetail
<1>3. \A p \in pages' : \E q \in pages : p.served = q.served
  BY <1>1, <1>2, CourtDropped
<1> QED
  BY <1>1, <1>2, <1>3, CourtDropped DEF CourtInv, CourtLoads

LEMMA CourtReloads ==
  ASSUME CourtInv, NEW mode \in CourtModes, Court!Reloads(mode), UNCHANGED <<kind, courtWorld>>, onCourt' \in BOOLEAN,
         kind = "strata" => mode = "sessions"
  PROVE  CourtInv'
<1> DEFINE new == [mode |-> mode, served |-> None, inForce |-> TRUE]
<1>0. CourtTyped /\ listLoads \subseteq ListCalls /\ list \in CourtLists
  BY DEF CourtInv, CourtTyped
<1>1. /\ pick' = None /\ page' = None /\ courtShown' = None /\ evidence' \subseteq RowCalls /\ pages' \subseteq PageCalls
      /\ (\A x \in evidence' : ~x.inForce) /\ (\A p \in pages' : ~p.inForce)
      /\ \A p \in pages' : p.served # None => \A r \in p.served.rows : r.key = p.served.key
  BY CourtClears DEF Court!Reloads
<1>2. list' = [list EXCEPT !.mode = mode, !.phase = "loading", !.rows = IF kind = "strata" THEN {} ELSE list.rows]
      /\ listLoads' = Court!Dropped(listLoads) \cup {new}
  BY DEF Court!Reloads
<1>3. /\ list' \in CourtLists /\ list'.phase = "loading" /\ list'.mode = mode /\ (kind = "strata" => list'.rows = {})
  BY <1>0, <1>2 DEF CourtLists
<1>4. new \in ListCalls
  BY DEF ListCalls
<1>5. Court!Dropped(listLoads) \subseteq ListCalls /\ \A x \in Court!Dropped(listLoads) : ~x.inForce
  BY <1>0, CourtDropped
<1> HIDE DEF new
<1>6. listLoads' \subseteq ListCalls /\ \A l \in listLoads' : l.inForce => l = new
  BY <1>2, <1>4, <1>5
<1>7. CourtTyped'
  BY <1>0, <1>1, <1>3, <1>6 DEF CourtTyped
<1>8. CourtLoads'
  BY <1>1, <1>3, <1>6 DEF CourtLoads
<1>9. CourtKept'
  BY <1>1 DEF CourtKept
<1> QED
  BY <1>7, <1>8, <1>9 DEF CourtInv

LEMMA CourtMoves ==
  ASSUME CourtInv, Court!Enter \/ Court!Leave \/ Court!Refresh \/ Court!ClickMode \/ Court!Filter
  PROVE  CourtInv'
<1>0. /\ CourtTyped /\ CourtLoads /\ CourtKept /\ list \in CourtLists /\ list.mode \in CourtModes /\ kind \in {"files", "strata"}
      /\ (kind = "strata" => list.mode = "sessions") /\ listLoads \subseteq ListCalls /\ evidence \subseteq RowCalls
  BY DEF CourtInv, CourtTyped, CourtLoads, CourtLists
<1>1. CASE Court!Enter
  <2>1. CASE Court!Reloads(list.mode)
    BY <1>0, <1>1, <2>1, CourtReloads DEF Court!Enter
  <2>2. CASE UNCHANGED <<list, listLoads, pick, page, pages, evidence, courtShown>>
    <3>1. Court!Listed' = Court!Listed
      BY <1>1, <2>2, CourtListed DEF Court!Enter
    <3> QED
      BY <1>0, <1>1, <2>2, <3>1 DEF Court!Enter, CourtInv, CourtTyped, CourtLoads, CourtKept
  <2> QED
    BY <1>1, <2>1, <2>2 DEF Court!Enter
<1>2. CASE Court!Leave
  <2>1. Court!Listed' = Court!Listed
    BY <1>2, CourtListed DEF Court!Leave
  <2>2. CASE kind = "files"
    <3>1. /\ listLoads' = Court!Dropped(listLoads) /\ evidence' = Court!Dropped(evidence) /\ courtShown' = None
          /\ UNCHANGED <<kind, courtWorld, list, pick, page, pages>> /\ onCourt' = FALSE
      BY <1>2, <2>2 DEF Court!Leave, Court!CancelDetail
    <3>2. /\ listLoads' \subseteq ListCalls /\ (\A x \in listLoads' : ~x.inForce)
          /\ evidence' \subseteq RowCalls /\ (\A x \in evidence' : ~x.inForce)
      BY <1>0, <3>1, CourtDropped
    <3> QED
      BY <1>0, <3>1, <3>2 DEF CourtInv, CourtTyped, CourtLoads, CourtKept
  <2>3. CASE kind # "files"
    BY <1>0, <1>2, <2>1, <2>3 DEF Court!Leave, CourtInv, CourtTyped, CourtLoads, CourtKept
  <2> QED
    BY <2>2, <2>3
<1>3. CASE Court!Refresh
  BY <1>0, <1>3, CourtReloads DEF Court!Refresh
<1>4. CASE Court!ClickMode
  <2>1. PICK m \in CourtModes : Court!Reloads(m)
    BY <1>4 DEF Court!ClickMode, Court!Modes, CourtModes
  <2> QED
    BY <1>0, <1>4, <2>1, CourtReloads DEF Court!ClickMode
<1>5. CASE Court!Filter
  <2>1. /\ pick' = None /\ page' = None /\ courtShown' = None /\ evidence' \subseteq RowCalls /\ pages' \subseteq PageCalls
        /\ (\A x \in evidence' : ~x.inForce) /\ (\A p \in pages' : ~p.inForce)
        /\ \A p \in pages' : p.served # None => \A r \in p.served.rows : r.key = p.served.key
    BY <1>5, CourtClears DEF Court!Filter
  <2>2. list' \in CourtLists /\ list'.mode = list.mode /\ list'.phase = list.phase /\ list'.rows = list.rows
    BY <1>0, <1>5 DEF Court!Filter, CourtLists
  <2>3. CourtTyped' /\ CourtLoads' /\ CourtKept'
    BY <1>0, <1>5, <2>1, <2>2 DEF Court!Filter, CourtTyped, CourtLoads, CourtKept
  <2> QED
    BY <2>3 DEF CourtInv
<1> QED
  BY <1>1, <1>2, <1>3, <1>4, <1>5

\* A list lands or fails while nothing is listed.
LEMMA CourtLands ==
  ASSUME CourtInv, Court!ListAnswered \/ Court!ListFails
  PROVE  CourtInv'
<1>0. /\ CourtTyped /\ CourtLoads /\ CourtKept /\ list \in CourtLists /\ kind \in {"files", "strata"} /\ listLoads \subseteq ListCalls
  BY DEF CourtInv, CourtTyped
<1>1. PICK l \in listLoads :
        /\ listLoads' = listLoads \ {l}
        /\ l.inForce => /\ list' \in CourtLists /\ list'.mode = list.mode
                        /\ \/ list'.phase = "ready"
                           \/ list'.phase = "error" /\ list'.rows = list.rows
        /\ ~l.inForce => list' = list
  <2>1. CASE Court!ListAnswered
    <3>1. PICK l \in listLoads :
            /\ l.served # None /\ listLoads' = listLoads \ {l}
            /\ list' = IF l.inForce THEN [list EXCEPT !.phase = "ready", !.rows = IF l.mode = "sessions" THEN l.served ELSE list.rows] ELSE list
      BY <2>1 DEF Court!ListAnswered
    <3>2. l.served \subseteq CourtRows
      BY <1>0, <3>1 DEF ListCalls
    <3> QED
      BY <1>0, <3>1, <3>2 DEF CourtLists
  <2>2. CASE Court!ListFails
    <3>1. PICK l \in listLoads :
            listLoads' = listLoads \ {l} /\ list' = IF l.inForce THEN [list EXCEPT !.phase = "error"] ELSE list
      BY <2>2 DEF Court!ListFails
    <3> QED
      BY <1>0, <3>1 DEF CourtLists
  <2> QED
    BY <2>1, <2>2
<1>2. UNCHANGED <<kind, courtWorld, onCourt, pick, page, pages, evidence, courtShown>>
  BY DEF Court!ListAnswered, Court!ListFails
<1>3. CASE ~l.inForce
  <2>1. Court!Listed' = Court!Listed
    BY <1>1, <1>2, <1>3, CourtListed
  <2> QED
    BY <1>0, <1>1, <1>2, <1>3, <2>1 DEF CourtInv, CourtTyped, CourtLoads, CourtKept
<1>4. CASE l.inForce
  <2>1. list.phase = "loading" /\ pick = None /\ page = None /\ (kind = "strata" => list.rows = {})
    BY <1>0, <1>4 DEF CourtLoads
  <2>2. Court!Listed = {}
    BY <1>0, <2>1, CourtListed
  <2>3. courtShown = None /\ \A x \in evidence : ~x.inForce
    BY <1>0, <2>2, CourtBlank
  <2>4. \A m \in listLoads' : ~m.inForce
    BY <1>0, <1>1, <1>4 DEF CourtLoads
  <2>5. CourtTyped'
    BY <1>0, <1>1, <1>2, <1>4 DEF CourtTyped
  <2>6. CourtLoads'
    BY <1>0, <1>1, <1>2, <1>4, <2>1, <2>4 DEF CourtLoads
  <2>7. CourtKept'
    BY <1>2, <2>3 DEF CourtKept
  <2> QED
    BY <2>5, <2>6, <2>7 DEF CourtInv
<1> QED
  BY <1>3, <1>4

LEMMA CourtOpens ==
  ASSUME CourtInv, NEW k \in Court!Keys, Court!LoadSessions(k), kind = "strata", list.phase = "ready",
         \E r \in list.rows : r.key = k
  PROVE  CourtInv'
<1> DEFINE new == [key |-> k, served |-> None, inForce |-> TRUE]
<1>0. /\ CourtTyped /\ CourtLoads /\ CourtKept /\ pages \subseteq PageCalls /\ evidence \subseteq RowCalls
  BY DEF CourtInv, CourtTyped
<1>1. /\ pick' = k /\ page' = None /\ evidence' = Court!Dropped(evidence) /\ courtShown' = None
      /\ pages' = Court!Dropped(pages) \cup {new} /\ UNCHANGED <<kind, courtWorld, onCourt, list, listLoads>>
  BY DEF Court!LoadSessions, Court!CancelDetail
<1>2. new \in PageCalls /\ new.key = k /\ new.served = None
  BY DEF PageCalls
<1> HIDE DEF new
<1>3. /\ Court!Dropped(pages) \subseteq PageCalls /\ (\A p \in Court!Dropped(pages) : ~p.inForce /\ \E q \in pages : p.served = q.served)
      /\ Court!Dropped(evidence) \subseteq RowCalls /\ \A x \in Court!Dropped(evidence) : ~x.inForce
  BY <1>0, CourtDropped
<1>4. \A p \in pages' : p.inForce => p = new
  BY <1>1, <1>3
<1>5. \A p \in pages' : p.served # None => \A r \in p.served.rows : r.key = p.served.key
  BY <1>0, <1>1, <1>2, <1>3 DEF CourtLoads
<1>6. CourtTyped'
  BY <1>0, <1>1, <1>2, <1>3 DEF CourtTyped
<1>7. CourtLoads'
  BY <1>0, <1>1, <1>2, <1>4, <1>5 DEF CourtLoads
<1>8. CourtKept'
  BY <1>1, <1>3 DEF CourtKept
<1> QED
  BY <1>6, <1>7, <1>8 DEF CourtInv

LEMMA CourtPages ==
  ASSUME CourtInv, Court!SelectSignature \/ Court!RefreshSessions \/ Court!PageAnswered \/ Court!PageFails
  PROVE  CourtInv'
<1>0. /\ CourtTyped /\ CourtLoads /\ CourtKept /\ list \in CourtLists /\ kind \in {"files", "strata"} /\ pages \subseteq PageCalls
      /\ list.rows \subseteq CourtRows /\ pick \in Court!Keys \cup {None}
  BY DEF CourtInv, CourtTyped, CourtLists
<1>1. CASE Court!SelectSignature
  <2>1. PICK r \in list.rows : Court!LoadSessions(r.key) /\ kind = "strata"
    BY <1>1 DEF Court!SelectSignature
  <2>2. list.phase = "ready" /\ r.key \in Court!Keys
    BY <1>0, <2>1 DEF CourtLoads, Court!Keys
  <2> QED
    BY <2>1, <2>2, CourtOpens
<1>2. CASE Court!RefreshSessions
  <2>1. pick \in Court!Keys /\ kind = "strata" /\ Court!LoadSessions(pick) /\ list.phase = "ready" /\ \E r \in list.rows : r.key = pick
    BY <1>0, <1>2 DEF Court!RefreshSessions, CourtLoads
  <2> QED
    BY <2>1, CourtOpens
<1>3. CASE Court!PageAnswered
  <2>1. PICK p \in pages :
          p.served # None /\ pages' = pages \ {p} /\ page' = IF p.inForce /\ Court!Own(p) THEN p.served.rows ELSE page
    BY <1>3 DEF Court!PageAnswered
  <2>2. UNCHANGED <<kind, courtWorld, onCourt, list, listLoads, pick, evidence, courtShown>>
    BY <1>3 DEF Court!PageAnswered
  <2>3. CASE ~(p.inForce /\ Court!Own(p))
    <3>1. page' = page /\ Court!Listed' = Court!Listed
      BY <2>1, <2>2, <2>3, CourtListed
    <3> QED
      BY <1>0, <2>1, <2>2, <3>1 DEF CourtInv, CourtTyped, CourtLoads, CourtKept
  <2>4. CASE p.inForce /\ Court!Own(p)
    <3>1. pick = p.key /\ page = None /\ p.served.key = p.key /\ p.key \in Court!Keys /\ p.served.rows \subseteq CourtRows
          /\ \A r \in p.served.rows : r.key = p.served.key
      BY <1>0, <2>1, <2>4 DEF CourtLoads, Court!Own, PageCalls, PageBodies
    <3>2. kind = "strata" /\ pick # None
      BY <1>0, <3>1, CourtApart DEF CourtLoads
    <3>3. Court!Listed = {}
      BY <3>1, <3>2, CourtListed
    <3>4. courtShown = None /\ \A x \in evidence : ~x.inForce
      BY <1>0, <3>3, CourtBlank
    <3>5. \A q \in pages' : ~q.inForce
      BY <1>0, <2>1, <2>4 DEF CourtLoads
    <3>6. CourtTyped'
      BY <1>0, <2>1, <2>2, <2>4, <3>1 DEF CourtTyped
    <3>7. CourtLoads'
      BY <1>0, <2>1, <2>2, <2>4, <3>1, <3>2, <3>5 DEF CourtLoads
    <3>8. CourtKept'
      BY <2>2, <3>4 DEF CourtKept
    <3> QED
      BY <3>6, <3>7, <3>8 DEF CourtInv
  <2> QED
    BY <2>3, <2>4
<1>4. CASE Court!PageFails
  <2>1. pages' \subseteq pages /\ UNCHANGED <<kind, courtWorld, onCourt, list, listLoads, pick, page, evidence, courtShown>>
    BY <1>4 DEF Court!PageFails
  <2>2. Court!Listed' = Court!Listed
    BY <2>1, CourtListed
  <2> QED
    BY <1>0, <2>1, <2>2 DEF CourtInv, CourtTyped, CourtLoads, CourtKept
<1> QED
  BY <1>1, <1>2, <1>3, <1>4

LEMMA CourtReceipts ==
  ASSUME CourtInv, Court!Inspect \/ Court!ReceiptAnswered \/ Court!ReceiptFails \/ Court!CloseReceipt
  PROVE  CourtInv'
<1>0. /\ CourtTyped /\ CourtLoads /\ CourtKept /\ evidence \subseteq RowCalls
  BY DEF CourtInv, CourtTyped
<1>1. UNCHANGED <<kind, courtWorld, onCourt, list, listLoads, pick, page, pages>>
  BY DEF Court!Inspect, Court!ReceiptAnswered, Court!ReceiptFails, Court!CloseReceipt
<1>2. Court!Listed' = Court!Listed
  BY <1>1, CourtListed
<1>3. CourtLoads'
  BY <1>0, <1>1 DEF CourtLoads
<1>4. Court!Dropped(evidence) \subseteq RowCalls /\ \A x \in Court!Dropped(evidence) : ~x.inForce
  BY <1>0, CourtDropped
<1>5. CASE Court!Inspect
  <2>1. PICK r \in Court!Listed : evidence' = Court!Dropped(evidence) \cup {[row |-> r, inForce |-> TRUE]}
    BY <1>5 DEF Court!Inspect
  <2>2. courtShown' = None
    BY <1>5 DEF Court!Inspect
  <2>3. Court!Listed \subseteq CourtRows
    BY <1>0 DEF Court!Listed, CourtTyped, CourtLists
  <2> DEFINE new == [row |-> r, inForce |-> TRUE]
  <2>4. new \in RowCalls /\ new.row = r
    BY <2>1, <2>3 DEF RowCalls
  <2>a. evidence' = Court!Dropped(evidence) \cup {new}
    BY <2>1
  <2> HIDE DEF new
  <2>5. evidence' \subseteq RowCalls /\ \A x \in evidence' : x.inForce => x.row \in Court!Listed
    BY <1>4, <2>1, <2>4, <2>a
  <2> QED
    BY <1>0, <1>1, <1>2, <1>3, <2>2, <2>5 DEF CourtInv, CourtTyped, CourtKept
<1>6. CASE Court!ReceiptAnswered
  <2>1. PICK x \in evidence, event \in CourtRows :
          /\ evidence' = evidence \ {x}
          /\ courtShown' = IF x.inForce /\ Court!Matches(x.row, event) THEN [row |-> x.row, event |-> event] ELSE courtShown
    BY <1>6 DEF Court!ReceiptAnswered
  <2>2. CASE x.inForce /\ Court!Matches(x.row, event)
    <3>1. x.row \in Court!Listed /\ x.row \in CourtRows /\ event.session = x.row.session /\ (kind = "files" => event.key = x.row.key)
      BY <1>0, <2>1, <2>2 DEF CourtKept, Court!Matches, RowCalls
    <3>2. courtShown' = [row |-> x.row, event |-> event]
      BY <2>1, <2>2
    <3> QED
      BY <1>0, <1>1, <1>2, <1>3, <2>1, <3>1, <3>2 DEF CourtInv, CourtTyped, CourtKept
  <2>3. CASE ~(x.inForce /\ Court!Matches(x.row, event))
    BY <1>0, <1>1, <1>2, <1>3, <2>1, <2>3 DEF CourtInv, CourtTyped, CourtKept
  <2> QED
    BY <2>2, <2>3
<1>7. CASE Court!ReceiptFails
  <2>1. evidence' \subseteq evidence /\ courtShown' = courtShown
    BY <1>7 DEF Court!ReceiptFails
  <2> QED
    BY <1>0, <1>1, <1>2, <1>3, <2>1 DEF CourtInv, CourtTyped, CourtKept
<1>8. CASE Court!CloseReceipt
  <2>1. evidence' = Court!Dropped(evidence) /\ courtShown' = None
    BY <1>8 DEF Court!CloseReceipt, Court!CancelDetail
  <2> QED
    BY <1>0, <1>1, <1>2, <1>3, <1>4, <2>1 DEF CourtInv, CourtTyped, CourtKept
<1> QED
  BY <1>5, <1>6, <1>7, <1>8

LEMMA CourtServes ==
  ASSUME CourtInv, Court!Capture \/ Court!ServeList \/ Court!ServePage
  PROVE  CourtInv'
<1>0. /\ CourtTyped /\ CourtLoads /\ CourtKept /\ listLoads \subseteq ListCalls /\ pages \subseteq PageCalls /\ courtWorld \subseteq CourtRows
  BY DEF CourtInv, CourtTyped
<1>1. UNCHANGED <<kind, onCourt, list, pick, page, evidence, courtShown>>
  BY DEF Court!Capture, Court!ServeList, Court!ServePage
<1>2. Court!Listed' = Court!Listed
  BY <1>1, CourtListed
<1>3. CourtKept'
  BY <1>0, <1>1, <1>2 DEF CourtKept
<1>4. CASE Court!Capture
  <2>1. courtWorld' \subseteq CourtRows /\ UNCHANGED <<listLoads, pages>>
    BY <1>0, <1>4 DEF Court!Capture
  <2> QED
    BY <1>0, <1>1, <1>3, <2>1 DEF CourtInv, CourtTyped, CourtLoads
<1>5. CASE Court!ServeList
  <2>1. PICK l \in listLoads : l.inForce /\ listLoads' = (listLoads \ {l}) \cup {[l EXCEPT !.served = courtWorld]}
    BY <1>5 DEF Court!ServeList
  <2> DEFINE m == [l EXCEPT !.served = courtWorld]
  <2>2. m \in ListCalls /\ m.inForce = l.inForce /\ pages' = pages /\ courtWorld' = courtWorld
    BY <1>0, <1>5, <2>1 DEF ListCalls, Court!ServeList
  <2> HIDE DEF m
  <2>3. /\ listLoads' \subseteq ListCalls /\ (\A x \in listLoads' : x.inForce => x = m) /\ list.phase = "loading"
    BY <1>0, <2>1, <2>2 DEF CourtLoads, m
  <2> QED
    BY <1>0, <1>1, <1>3, <2>2, <2>3 DEF CourtInv, CourtTyped, CourtLoads
<1>6. CASE Court!ServePage
  <2>1. PICK p \in pages, k \in Court!Keys :
          p.inForce /\ pages' = (pages \ {p}) \cup {[p EXCEPT !.served = [key |-> k, rows |-> {r \in courtWorld : r.key = k}]]}
    BY <1>6 DEF Court!ServePage
  <2> DEFINE body == [key |-> k, rows |-> {r \in courtWorld : r.key = k}]
             q == [p EXCEPT !.served = body]
  <2>2. body \in PageBodies /\ body.key = k /\ \A r \in body.rows : r.key = k
    BY <1>0, <2>1 DEF PageBodies
  <2> HIDE DEF body
  <2>3. q \in PageCalls /\ q.inForce = p.inForce /\ q.key = p.key /\ q.served = body /\ listLoads' = listLoads /\ courtWorld' = courtWorld
    BY <1>0, <1>6, <2>1, <2>2 DEF PageCalls, Court!ServePage
  <2> HIDE DEF q
  <2>4. pages' = (pages \ {p}) \cup {q}
    BY <2>1 DEF q, body
  <2>5. \A x \in pages' : x.inForce => x = q
    BY <1>0, <2>1, <2>4 DEF CourtLoads
  <2>6. pick = q.key /\ page = None
    BY <1>0, <2>1, <2>3 DEF CourtLoads
  <2>7. \A x \in pages' : x.served # None => \A r \in x.served.rows : r.key = x.served.key
    BY <1>0, <2>2, <2>3, <2>4 DEF CourtLoads
  <2>8. CourtTyped'
    BY <1>0, <1>1, <2>3, <2>4 DEF CourtTyped
  <2>9. CourtLoads'
    BY <1>0, <1>1, <2>3, <2>5, <2>6, <2>7 DEF CourtLoads
  <2> QED
    BY <1>3, <2>8, <2>9 DEF CourtInv
<1> QED
  BY <1>4, <1>5, <1>6

LEMMA CourtStep == CourtInv /\ [Court!Next]_(Court!vars) => CourtInv'
<1> SUFFICES ASSUME CourtInv, [Court!Next]_(Court!vars) PROVE CourtInv'
  OBVIOUS
<1>1. CASE UNCHANGED Court!vars
  <2>1. Court!Listed' = Court!Listed
    BY <1>1, CourtListed DEF Court!vars
  <2> QED
    BY <1>1, <2>1 DEF CourtInv, CourtTyped, CourtLoads, CourtKept, Court!vars
<1> QED
  BY <1>1, CourtMoves, CourtLands, CourtPages, CourtReceipts, CourtServes DEF Court!Next

LEMMA CourtMeans ==
  ASSUME CourtInv
  PROVE  Court!ReceiptOfListed /\ Court!PageOfSignature
BY DEF CourtInv, CourtLoads, CourtKept, Court!ReceiptOfListed, Court!PageOfSignature

HIDE DEF kind, courtWorld, onCourt, list, listLoads, pick, page, pages, evidence, courtShown

----------------------------------------------------------------------------
(* The notebooks.                                                          *)

stored == x2
used == x3
win == x4
USE DEF kind, stored, used, win

Panes == NoteWindows
Ends == {"from", "to"}
Marks == [Ends -> NoteEvents \cup {None}]
Lookups == [slot : Ends, event : NoteEvents, selected : NoteIds \cup {None}, inForce : BOOLEAN]
Pads == [base : (SUBSET Notebooks!Entries) \cup {Corrupt}, writable : BOOLEAN, editor : Notebooks!Entries \cup {None}, dirty : BOOLEAN,
         selected : NoteIds \cup {None}, field : Marks, verified : Marks, lookups : SUBSET Lookups]

\* Entries of different ids, all of them given.
BookOk(b, u) == b \subseteq Notebooks!Entries /\ (\A e \in b : e.id \in u) /\ \A e, f \in b : e.id = f.id => e = f

\* Only a branch has unsaved edits; what is verified, or about to be, is what the field says,
\* and in the Court it was looked up for the requirement that is selected.
PadOk(p, u) ==
  /\ p \in Pads /\ (p.base = Corrupt \/ BookOk(p.base, u)) /\ (p.editor # None => p.editor.id \in u)
  /\ p.dirty => p.editor # None /\ kind = "replay"
  /\ \A s \in Ends : p.verified[s] # None => p.verified[s] = p.field[s]
  /\ \A l \in p.lookups : l.inForce => l.event = p.field[l.slot] /\ (kind = "court" => l.selected = p.selected)

NotesInv ==
  /\ kind \in {"replay", "handoffs", "court"} /\ used \subseteq NoteIds /\ (stored = Corrupt \/ BookOk(stored, used))
  /\ win \in [Panes -> Pads] /\ \A w \in Panes : PadOk(win[w], used)

\* EditsKept and AttachesReviewed, of one window.
Keeps(p, q) ==
  p.dirty /\ ~q.dirty =>
    IF q.editor = None THEN Notebooks!ById(q.base, p.editor.id) = {} ELSE q.editor.id = p.editor.id /\ q.editor \in q.base
Reviews(p, q) ==
  kind = "court" /\ q.verified["from"] \notin {None, p.verified["from"]} =>
    \E l \in p.lookups : l.inForce /\ l \notin q.lookups /\ l.selected = q.selected
NotesActs == Notebooks!WritesOne /\ Notebooks!EditsKept /\ Notebooks!AttachesReviewed

LEMMA PadFields ==
  ASSUME NEW p \in Pads
  PROVE  /\ p.base \in (SUBSET Notebooks!Entries) \cup {Corrupt} /\ p.writable \in BOOLEAN /\ p.editor \in Notebooks!Entries \cup {None}
         /\ p.dirty \in BOOLEAN /\ p.selected \in NoteIds \cup {None} /\ p.field \in Marks /\ p.verified \in Marks /\ p.lookups \subseteq Lookups
BY DEF Pads

LEMMA EntryFields ==
  /\ \A e \in Notebooks!Entries : /\ e.id \in NoteIds /\ e.text \in 0..2 /\ e.from \in NoteEvents \cup {None} /\ e.to \in NoteEvents \cup {None}
                                  /\ \A t \in 1..2 : [e EXCEPT !.text = t] \in Notebooks!Entries /\ [e EXCEPT !.text = t].id = e.id
                                  /\ \A v \in NoteEvents \cup {None} : [e EXCEPT !.from = v] \in Notebooks!Entries /\ [e EXCEPT !.from = v].id = e.id
  /\ \A i \in NoteIds, t \in 0..2, f, g \in NoteEvents \cup {None} : [id |-> i, text |-> t, from |-> f, to |-> g] \in Notebooks!Entries
BY DEF Notebooks!Entries

LEMMA NotesSlots == Notebooks!Slots = Ends
BY DEF Notebooks!Slots, Ends

LEMMA EntryNone == \A e \in Notebooks!Entries : e # None
BY LensesAssumption DEF Notebooks!Entries

LEMMA NotesInit == Notebooks!Init => NotesInv
<1> SUFFICES ASSUME Notebooks!Init PROVE NotesInv
  OBVIOUS
<1> DEFINE e == Notebooks!Empty
<1>1. kind \in {"replay", "handoffs", "court"} /\ stored = {} /\ used = {} /\ win = [w \in Panes |-> e]
  BY DEF Notebooks!Init, Panes
<1>2. e \in Pads /\ e.base = {} /\ e.editor = None /\ ~e.dirty /\ (\A s \in Ends : e.verified[s] = None) /\ e.lookups = {}
  BY DEF Notebooks!Empty, Notebooks!Slots, Pads, Marks, Ends
<1> HIDE DEF e
<1>3. PadOk(e, {})
  BY <1>2 DEF PadOk, BookOk
<1>4. BookOk(stored, used)
  BY <1>1 DEF BookOk
<1> QED
  BY <1>1, <1>2, <1>3, <1>4 DEF NotesInv

\* More ids are given.
LEMMA PadGrows ==
  ASSUME NEW u, NEW v, u \subseteq v
  PROVE  (\A p : PadOk(p, u) => PadOk(p, v)) /\ (\A b : BookOk(b, u) => BookOk(b, v))
BY DEF PadOk, BookOk

\* What a step of one window has to show.
LEMMA NotesTurn ==
  ASSUME NotesInv, NEW w \in Panes, NEW q, win' = [win EXCEPT ![w] = q], kind' = kind, used \subseteq used', used' \subseteq NoteIds,
         PadOk(q, used'), stored' = Corrupt \/ BookOk(stored', used'), Keeps(win[w], q), Reviews(win[w], q), Notebooks!WritesOne
  PROVE  NotesInv' /\ NotesActs
<1>1. win \in [Panes -> Pads] /\ (\A v \in Panes : PadOk(win[v], used)) /\ q \in Pads
  BY DEF NotesInv, PadOk
<1>2. win' \in [Panes -> Pads] /\ win'[w] = q /\ \A v \in Panes : v # w => win'[v] = win[v]
  BY <1>1
<1>3. \A v \in Panes : PadOk(win'[v], used')
  BY <1>1, <1>2, PadGrows
<1>4. NotesInv'
  BY <1>2, <1>3 DEF NotesInv, PadOk
<1>5. \A v \in Panes : Keeps(win[v], win'[v]) /\ Reviews(win[v], win'[v])
  BY <1>2 DEF Keeps, Reviews
<1>6. Notebooks!EditsKept /\ Notebooks!AttachesReviewed
  BY <1>5 DEF Notebooks!EditsKept, Notebooks!AttachesReviewed, Keeps, Reviews, Panes
<1> QED
  BY <1>4, <1>6 DEF NotesActs

LEMMA PadCancels ==
  ASSUME NEW p, NEW u, PadOk(p, u), NEW slots \in SUBSET Ends
  PROVE  LET q == Notebooks!Cancelled(p, slots)
         IN /\ PadOk(q, u) /\ q.base = p.base /\ q.writable = p.writable /\ q.editor = p.editor /\ q.dirty = p.dirty
            /\ q.selected = p.selected /\ q.field = p.field
            /\ (\A s \in slots : q.verified[s] = None) /\ (\A s \in Ends \ slots : q.verified[s] = p.verified[s])
            /\ (\A l \in q.lookups : l.slot \in slots => ~l.inForce)
<1> DEFINE ver == [s \in Ends |-> IF s \in slots THEN None ELSE p.verified[s]]
           low == {IF l.slot \in slots THEN [l EXCEPT !.inForce = FALSE] ELSE l : l \in p.lookups}
           q == Notebooks!Cancelled(p, slots)
<1>1. p \in Pads /\ p.verified \in Marks /\ p.lookups \subseteq Lookups
  BY PadFields DEF PadOk
<1>2. q = [p EXCEPT !.verified = ver, !.lookups = low]
  BY DEF Notebooks!Cancelled, Notebooks!Slots, Ends
<1>3. ver \in Marks /\ (\A s \in slots : ver[s] = None) /\ (\A s \in Ends \ slots : ver[s] = p.verified[s])
  BY <1>1 DEF Marks
<1>4. low \subseteq Lookups /\ (\A l \in low : l.slot \in slots => ~l.inForce) /\ (\A l \in low : l.inForce => l \in p.lookups)
  BY <1>1 DEF Lookups
<1> HIDE DEF ver, low
<1>5. /\ q \in Pads /\ q.base = p.base /\ q.writable = p.writable /\ q.editor = p.editor /\ q.dirty = p.dirty
      /\ q.selected = p.selected /\ q.field = p.field /\ q.verified = ver /\ q.lookups = low
  BY <1>1, <1>2, <1>3, <1>4 DEF Pads
<1> HIDE DEF q
<1>6. PadOk(q, u)
  BY <1>3, <1>4, <1>5 DEF PadOk
<1> QED
  BY <1>3, <1>4, <1>5, <1>6 DEF q

\* With nothing looked up, the fields and the selection are free.
FreeOf(q, p, u) ==
  /\ PadOk(q, u) /\ q.base = p.base /\ q.writable = p.writable /\ q.editor = p.editor /\ q.dirty = p.dirty
  /\ q.selected = p.selected /\ q.verified["from"] = None /\ (\A l \in q.lookups : ~l.inForce)
  /\ \A f \in Marks, i \in NoteIds \cup {None} :
       LET r == [q EXCEPT !.field = f, !.selected = i]
       IN PadOk(r, u) /\ r.base = p.base /\ r.writable = p.writable /\ r.editor = p.editor /\ r.dirty = p.dirty /\ r.verified["from"] = None

LEMMA PadFree ==
  ASSUME NEW p, NEW u, PadOk(p, u)
  PROVE  FreeOf(Notebooks!Cancelled(p, Notebooks!Slots), p, u)
<1> DEFINE q == Notebooks!Cancelled(p, Notebooks!Slots)
<1>0. Notebooks!Slots = Ends /\ Ends \in SUBSET Ends /\ "from" \in Ends
  BY DEF Notebooks!Slots, Ends
<1>1. /\ PadOk(q, u) /\ q.base = p.base /\ q.writable = p.writable /\ q.editor = p.editor /\ q.dirty = p.dirty
      /\ q.selected = p.selected /\ q.field = p.field
      /\ (\A s \in Ends : q.verified[s] = None) /\ (\A l \in q.lookups : l.slot \in Ends => ~l.inForce)
  BY <1>0, PadCancels
<1> HIDE DEF q
<1>2. ASSUME NEW f \in Marks, NEW i \in NoteIds \cup {None}
      PROVE  LET r == [q EXCEPT !.field = f, !.selected = i]
             IN PadOk(r, u) /\ r.base = p.base /\ r.writable = p.writable /\ r.editor = p.editor /\ r.dirty = p.dirty /\ r.verified["from"] = None
  <2> DEFINE r == [q EXCEPT !.field = f, !.selected = i]
  <2>1. /\ r \in Pads /\ r.base = q.base /\ r.writable = q.writable /\ r.editor = q.editor /\ r.dirty = q.dirty
        /\ r.selected = i /\ r.field = f /\ r.verified = q.verified /\ r.lookups = q.lookups
    BY <1>1 DEF PadOk, Pads
  <2>2. \A l \in q.lookups : ~l.inForce
    BY <1>1 DEF PadOk, Pads, Lookups
  <2> HIDE DEF r
  <2>3. PadOk(r, u)
    BY <1>1, <2>1, <2>2 DEF PadOk
  <2> QED
    BY <1>0, <1>1, <2>1, <2>3 DEF r
<1>3. \A l \in q.lookups : ~l.inForce
  BY <1>1 DEF PadOk, Pads, Lookups
<1>4. FreeOf(q, p, u)
  BY <1>0, <1>1, <1>2, <1>3 DEF FreeOf
<1> QED
  BY <1>4 DEF q

\* Another requirement is selected.
LEMMA PadSelects ==
  ASSUME NEW p, NEW u, PadOk(p, u), \A l \in p.lookups : ~l.inForce, NEW i \in NoteIds \cup {None}
  PROVE  LET q == [p EXCEPT !.selected = i]
         IN /\ PadOk(q, u) /\ q.base = p.base /\ q.editor = p.editor /\ q.dirty = p.dirty /\ q.selected = i
            /\ q.field = p.field /\ q.verified = p.verified /\ q.lookups = p.lookups
<1> DEFINE q == [p EXCEPT !.selected = i]
<1>1. /\ q \in Pads /\ q.base = p.base /\ q.editor = p.editor /\ q.dirty = p.dirty /\ q.selected = i
      /\ q.field = p.field /\ q.verified = p.verified /\ q.lookups = p.lookups
  BY DEF PadOk, Pads
<1> HIDE DEF q
<1>2. PadOk(q, u)
  BY <1>1 DEF PadOk
<1> QED
  BY <1>1, <1>2 DEF q

\* A branch in the editor, or none, without unsaved edits.
LEMMA PadFills ==
  ASSUME NEW p, NEW u, PadOk(p, u), NEW e \in Notebooks!Entries \cup {None}, e # None => e.id \in u
  PROVE  LET q == Notebooks!Fill(p, e)
         IN /\ PadOk(q, u) /\ q.base = p.base /\ q.writable = p.writable /\ q.editor = e /\ ~q.dirty /\ q.selected = p.selected
            /\ q.field = p.field /\ q.verified = p.verified /\ q.lookups = p.lookups
<1> DEFINE q == Notebooks!Fill(p, e)
<1>1. /\ q \in Pads /\ q.base = p.base /\ q.writable = p.writable /\ q.editor = e /\ q.dirty = FALSE /\ q.selected = p.selected
      /\ q.field = p.field /\ q.verified = p.verified /\ q.lookups = p.lookups
  BY DEF Notebooks!Fill, PadOk, Pads
<1> HIDE DEF q
<1>2. PadOk(q, u)
  BY <1>1 DEF PadOk
<1> QED
  BY <1>1, <1>2 DEF q

\* A book under a panel.
LEMMA PadHolds ==
  ASSUME NEW p, NEW u, PadOk(p, u), NEW b, b = Corrupt \/ BookOk(b, u)
  PROVE  LET q == [p EXCEPT !.base = b]
         IN /\ PadOk(q, u) /\ q.base = b /\ q.writable = p.writable /\ q.editor = p.editor /\ q.dirty = p.dirty /\ q.selected = p.selected
            /\ q.field = p.field /\ q.verified = p.verified /\ q.lookups = p.lookups
<1> DEFINE q == [p EXCEPT !.base = b]
<1>1. /\ q \in Pads /\ q.base = b /\ q.writable = p.writable /\ q.editor = p.editor /\ q.dirty = p.dirty /\ q.selected = p.selected
      /\ q.field = p.field /\ q.verified = p.verified /\ q.lookups = p.lookups
  BY DEF PadOk, Pads, BookOk
<1> HIDE DEF q
<1>2. PadOk(q, u)
  BY <1>1 DEF PadOk
<1> QED
  BY <1>1, <1>2 DEF q

\* What a write has to show: it changes one entry, and what follows is in order either way.
LEMMA NotesSave ==
  ASSUME NotesInv, NEW w \in Panes, NEW book, NEW after, NEW kept, Notebooks!Save(w, book, after, kept),
         used \subseteq used', used' \subseteq NoteIds, BookOk(book, used'),
         NEW id \in NoteIds, win[w].base \ Notebooks!ById(win[w].base, id) = book \ Notebooks!ById(book, id),
         PadOk(after, used'), PadOk(kept, used'),
         after.verified["from"] \in {None, win[w].verified["from"]}, kept.verified["from"] \in {None, win[w].verified["from"]},
         Keeps(win[w], [after EXCEPT !.base = book]), Keeps(win[w], kept)
  PROVE  NotesInv' /\ NotesActs
<1> DEFINE q == [after EXCEPT !.base = book]
<1>1. kind' = kind
  BY DEF Notebooks!Save
<1>2. CASE Notebooks!Stores(w, book)
  <2>1. stored' = book /\ win' = [win EXCEPT ![w] = q] /\ stored = win[w].base /\ stored # Corrupt
    BY <1>2 DEF Notebooks!Save, Notebooks!Stores
  <2>2. PadOk(q, used') /\ q.verified = after.verified
    BY PadHolds
  <2> HIDE DEF q
  <2>3. Reviews(win[w], q)
    BY <2>2 DEF Reviews
  <2>4. Notebooks!WritesOne
    BY <2>1 DEF Notebooks!WritesOne
  <2> QED
    BY <1>1, <2>1, <2>2, <2>3, <2>4, NotesTurn DEF q
<1>3. CASE ~Notebooks!Stores(w, book)
  <2>1. stored' = stored /\ win' = [win EXCEPT ![w] = kept]
    BY <1>3 DEF Notebooks!Save
  <2>2. Reviews(win[w], kept)
    BY DEF Reviews
  <2>3. Notebooks!WritesOne
    BY <2>1 DEF Notebooks!WritesOne
  <2>4. stored' = Corrupt \/ BookOk(stored', used')
    BY <2>1, PadGrows DEF NotesInv
  <2> QED
    BY <1>1, <2>1, <2>2, <2>3, <2>4, NotesTurn
<1> QED
  BY <1>2, <1>3

LEMMA NotesUsual ==
  ASSUME NotesInv, NEW w \in Panes
  PROVE  /\ win[w] \in Pads /\ PadOk(win[w], used) /\ used \subseteq NoteIds /\ (win[w].base = Corrupt \/ BookOk(win[w].base, used))
         /\ (stored = Corrupt \/ BookOk(stored, used))
         /\ win[w].field \in Marks /\ win[w].verified \in Marks /\ win[w].lookups \subseteq Lookups
         /\ win[w].selected \in NoteIds \cup {None} /\ win[w].editor \in Notebooks!Entries \cup {None}
BY PadFields DEF NotesInv, PadOk

\* A step that neither writes nor verifies, and ends no editing.
LEMMA NotesQuiet ==
  ASSUME NotesInv, NEW w \in Panes, NEW q, win' = [win EXCEPT ![w] = q], UNCHANGED <<kind, stored>>, used \subseteq used',
         used' \subseteq NoteIds, PadOk(q, used'), Keeps(win[w], q), q.verified["from"] \in {None, win[w].verified["from"]}
  PROVE  NotesInv' /\ NotesActs
<1>1. Reviews(win[w], q) /\ Notebooks!WritesOne
  BY DEF Reviews, Notebooks!WritesOne
<1>2. stored' = Corrupt \/ BookOk(stored', used')
  BY PadGrows DEF NotesInv
<1> QED
  BY <1>1, <1>2, NotesTurn

LEMMA NotesReload ==
  ASSUME NotesInv, NEW w \in Panes, Notebooks!Reload(w)
  PROVE  NotesInv' /\ NotesActs
<1> DEFINE p == Notebooks!Cancelled(win[w], Notebooks!Slots)
           text == IF stored = Corrupt THEN {} ELSE stored
           again == IF p.editor = None THEN {} ELSE Notebooks!ById(text, p.editor.id)
           read == [p EXCEPT !.base = stored, !.writable = stored # Corrupt]
           e == IF again = {} THEN None ELSE CHOOSE x \in again : TRUE
           a == [read EXCEPT !.editor = e]
           b == [read EXCEPT !.field = [s \in Notebooks!Slots |-> None], !.selected = None]
           q == IF kind = "replay" THEN a ELSE b
<1>0. PadOk(win[w], used) /\ (stored = Corrupt \/ BookOk(stored, used)) /\ used \subseteq NoteIds
  BY NotesUsual
<1>1. win' = [win EXCEPT ![w] = q] /\ UNCHANGED <<kind, stored, used>> /\ (kind = "replay" => ~win[w].dirty)
  BY DEF Notebooks!Reload
<1>a. FreeOf(p, win[w], used)
  BY <1>0, PadFree
<1>2. PadOk(p, used) /\ p.editor = win[w].editor /\ p.dirty = win[w].dirty /\ p.verified["from"] = None
  BY <1>a DEF FreeOf
<1>3. ~win[w].dirty
  BY <1>0, <1>1, PadFields DEF PadOk
<1>4. e \in Notebooks!Entries \cup {None} /\ (e # None => e.id \in used)
  <2>1. again \subseteq text
    BY DEF Notebooks!ById
  <2>2. text \subseteq Notebooks!Entries /\ \A x \in text : x.id \in used
    BY <1>0 DEF BookOk
  <2>3. CASE again = {}
    BY <2>3
  <2>4. CASE again # {}
    <3>1. e \in again
      BY <2>4
    <3> QED
      BY <2>1, <2>2, <3>1
  <2> QED
    BY <2>3, <2>4
<1> HIDE DEF e, p
<1>5. p \in Pads
  BY <1>2 DEF PadOk
<1>6. /\ read \in Pads /\ read.base = stored /\ read.editor = p.editor /\ read.dirty = p.dirty /\ read.selected = p.selected
      /\ read.field = p.field /\ read.verified = p.verified /\ read.lookups = p.lookups
  BY <1>0, <1>5 DEF Pads, BookOk
<1>7. PadOk(read, used)
  <2> HIDE DEF read
  <2> QED
    BY <1>0, <1>2, <1>6 DEF PadOk
<1>8. PadOk(a, used) /\ a.verified = read.verified
  <2>1. /\ a \in Pads /\ a.base = read.base /\ a.editor = e /\ a.dirty = read.dirty /\ a.selected = read.selected
        /\ a.field = read.field /\ a.verified = read.verified /\ a.lookups = read.lookups
    BY <1>4, <1>6 DEF Pads
  <2>2. ~a.dirty
    BY <1>2, <1>3, <1>6, <2>1
  <2> HIDE DEF a, read
  <2> QED
    BY <1>4, <1>7, <2>1, <2>2 DEF PadOk
<1>9. PadOk(b, used) /\ b.verified = read.verified
  <2> DEFINE f == [s \in Notebooks!Slots |-> None]
             c == [p EXCEPT !.field = f, !.selected = None]
  <2>1. f \in Marks
    BY DEF Marks, Notebooks!Slots, Ends
  <2>2. PadOk(c, used)
    BY <1>a, <2>1 DEF FreeOf
  <2> HIDE DEF f
  <2>3. /\ b \in Pads /\ b.base = read.base /\ b.editor = read.editor /\ b.dirty = read.dirty /\ b.selected = None
        /\ b.field = f /\ b.verified = read.verified /\ b.lookups = read.lookups
    BY <1>6, <2>1 DEF Pads, f
  <2>4. c.selected = None /\ c.field = f /\ c.verified = p.verified /\ c.lookups = p.lookups
    BY <1>5 DEF Pads
  <2> HIDE DEF b, c, read
  <2> QED
    BY <1>6, <1>7, <2>2, <2>3, <2>4 DEF PadOk
<1>10. PadOk(q, used) /\ q.verified["from"] = None
  BY <1>2, <1>6, <1>8, <1>9
<1> HIDE DEF q
<1>11. Keeps(win[w], q)
  BY <1>3 DEF Keeps
<1> QED
  BY <1>0, <1>1, <1>10, <1>11, NotesQuiet

LEMMA NotesLooks ==
  ASSUME NotesInv, NEW w \in Panes, Notebooks!TypeEvent(w) \/ Notebooks!LookUp(w) \/ Notebooks!LookUpLands(w) \/ Notebooks!Invalidate(w)
  PROVE  NotesInv' /\ NotesActs
<1> DEFINE p == win[w]
<1>0. /\ PadOk(p, used) /\ p \in Pads /\ used \subseteq NoteIds /\ p.field \in Marks /\ p.lookups \subseteq Lookups /\ p.selected \in NoteIds \cup {None}
      /\ p.verified \in Marks /\ (stored = Corrupt \/ BookOk(stored, used))
  BY NotesUsual
<1>a. UNCHANGED <<kind, stored, used>>
  BY DEF Notebooks!TypeEvent, Notebooks!LookUp, Notebooks!LookUpLands, Notebooks!Invalidate
<1>b. Notebooks!SlotsOf \subseteq Ends
  BY DEF Notebooks!SlotsOf, Notebooks!Slots, Ends
<1>1. CASE Notebooks!TypeEvent(w)
  <2>1. PICK s \in Ends, e \in NoteEvents : win' = [win EXCEPT ![w] = [Notebooks!Cancelled(p, {s}) EXCEPT !.field[s] = e]]
    BY <1>1, <1>b DEF Notebooks!TypeEvent, Notebooks!Types
  <2> DEFINE c == Notebooks!Cancelled(p, {s})
             q == [c EXCEPT !.field[s] = e]
  <2>2. /\ PadOk(c, used) /\ c.base = p.base /\ c.editor = p.editor /\ c.dirty = p.dirty /\ c.selected = p.selected /\ c.field = p.field
        /\ c.verified[s] = None /\ (\A t \in Ends \ {s} : c.verified[t] = p.verified[t])
        /\ (\A l \in c.lookups : l.slot = s => ~l.inForce)
    BY <1>0, PadCancels
  <2> HIDE DEF c
  <2>3. c \in Pads /\ c.lookups \subseteq Lookups
    BY <2>2, PadFields DEF PadOk
  <2>4. [c.field EXCEPT ![s] = e] \in Marks /\ (\A t \in Ends \ {s} : [c.field EXCEPT ![s] = e][t] = c.field[t])
    BY <2>3, PadFields DEF Marks
  <2>5. /\ q \in Pads /\ q.base = c.base /\ q.editor = c.editor /\ q.dirty = c.dirty /\ q.selected = c.selected
        /\ q.field = [c.field EXCEPT ![s] = e] /\ q.verified = c.verified /\ q.lookups = c.lookups
    BY <2>3, <2>4 DEF Pads
  <2> HIDE DEF q
  <2>6. PadOk(q, used)
    <3>1. \A t \in Ends : q.verified[t] # None => q.verified[t] = q.field[t]
      BY <2>2, <2>4, <2>5 DEF PadOk
    <3>2. \A l \in q.lookups : l.inForce => l.event = q.field[l.slot] /\ (kind = "court" => l.selected = q.selected)
      BY <2>2, <2>3, <2>4, <2>5 DEF PadOk, Lookups
    <3> QED
      BY <2>2, <2>5, <3>1, <3>2 DEF PadOk
  <2>7. Keeps(p, q)
    BY <2>2, <2>5 DEF Keeps
  <2>8. q.verified["from"] \in {None, p.verified["from"]}
    BY <2>2, <2>5 DEF Ends
  <2> QED
    BY <1>0, <1>a, <2>1, <2>6, <2>7, <2>8, NotesQuiet DEF q, c
<1>2. CASE Notebooks!LookUp(w)
  <2>1. PICK s \in Ends :
          /\ p.field[s] # None
          /\ win' = [win EXCEPT ![w] = [Notebooks!Cancelled(win[w], {s}) EXCEPT !.lookups = @ \cup
                       {[slot |-> s, event |-> win[w].field[s], selected |-> win[w].selected, inForce |-> TRUE]}]]
    <3>1. PICK s \in Notebooks!SlotsOf :
            /\ p.field[s] # None
            /\ win' = [win EXCEPT ![w] = [Notebooks!Cancelled(win[w], {s}) EXCEPT !.lookups = @ \cup
                       {[slot |-> s, event |-> win[w].field[s], selected |-> win[w].selected, inForce |-> TRUE]}]]
      BY <1>2 DEF Notebooks!LookUp
    <3>2. s \in Ends
      BY <1>b, <3>1
    <3> QED
      BY <3>1, <3>2
  <2> DEFINE c == Notebooks!Cancelled(p, {s})
             new == [slot |-> s, event |-> p.field[s], selected |-> p.selected, inForce |-> TRUE]
             q == [c EXCEPT !.lookups = c.lookups \cup {new}]
  <2>2. /\ PadOk(c, used) /\ c.base = p.base /\ c.editor = p.editor /\ c.dirty = p.dirty /\ c.selected = p.selected /\ c.field = p.field
        /\ c.verified[s] = None /\ (\A t \in Ends \ {s} : c.verified[t] = p.verified[t])
    BY <1>0, PadCancels
  <2> HIDE DEF c
  <2>3. c \in Pads /\ c.lookups \subseteq Lookups
    BY <2>2, PadFields DEF PadOk
  <2>4. new \in Lookups /\ new.event = p.field[new.slot] /\ new.selected = p.selected
    BY <1>0, <2>1 DEF Lookups, Marks
  <2>a. win' = [win EXCEPT ![w] = q]
    BY <2>1 DEF c
  <2> HIDE DEF new
  <2>5. /\ q \in Pads /\ q.base = c.base /\ q.editor = c.editor /\ q.dirty = c.dirty /\ q.selected = c.selected
        /\ q.field = c.field /\ q.verified = c.verified /\ q.lookups = c.lookups \cup {new}
    BY <2>3, <2>4 DEF Pads
  <2> HIDE DEF q
  <2>6. PadOk(q, used)
    BY <2>2, <2>4, <2>5 DEF PadOk
  <2>7. Keeps(p, q)
    BY <2>2, <2>5 DEF Keeps
  <2>8. q.verified["from"] \in {None, p.verified["from"]}
    BY <2>2, <2>5 DEF Ends
  <2> QED
    BY <1>0, <1>a, <2>a, <2>6, <2>7, <2>8, NotesQuiet
<1>3. CASE Notebooks!LookUpLands(w)
  <2>1. PICK l \in p.lookups, found \in BOOLEAN :
          LET d == [p EXCEPT !.lookups = p.lookups \ {l}]
          IN win' = [win EXCEPT ![w] = IF found /\ Notebooks!LandsOn(d, l) THEN [d EXCEPT !.verified[l.slot] = l.event] ELSE d]
    BY <1>3 DEF Notebooks!LookUpLands
  <2> DEFINE d == [p EXCEPT !.lookups = p.lookups \ {l}]
             q == [d EXCEPT !.verified[l.slot] = l.event]
  <2>2. /\ d \in Pads /\ d.base = p.base /\ d.editor = p.editor /\ d.dirty = p.dirty /\ d.selected = p.selected
        /\ d.field = p.field /\ d.verified = p.verified /\ d.lookups = p.lookups \ {l}
    BY <1>0 DEF Pads
  <2>3. CASE ~(found /\ Notebooks!LandsOn(d, l))
    <3>1. win' = [win EXCEPT ![w] = d]
      BY <2>1, <2>3
    <3> HIDE DEF d
    <3>2. PadOk(d, used) /\ Keeps(p, d)
      BY <1>0, <2>2 DEF PadOk, Keeps
    <3> QED
      BY <1>0, <1>a, <2>2, <3>1, <3>2, NotesQuiet
  <2>4. CASE found /\ Notebooks!LandsOn(d, l)
    <3>1. win' = [win EXCEPT ![w] = q]
      BY <2>1, <2>4
    <3>2. l \in Lookups /\ l.inForce /\ l.event = p.field[l.slot] /\ (kind = "court" => l.selected = p.selected) /\ l.slot \in Ends
          /\ l.event \in NoteEvents
      BY <1>0, <2>1, <2>4 DEF PadOk, Notebooks!LandsOn, Lookups
    <3> HIDE DEF d
    <3>3. /\ [d.verified EXCEPT ![l.slot] = l.event] \in Marks /\ [d.verified EXCEPT ![l.slot] = l.event][l.slot] = l.event
          /\ \A s \in Ends \ {l.slot} : [d.verified EXCEPT ![l.slot] = l.event][s] = d.verified[s]
      BY <1>0, <2>2, <3>2 DEF Marks
    <3>4. /\ q \in Pads /\ q.base = d.base /\ q.editor = d.editor /\ q.dirty = d.dirty /\ q.selected = d.selected
          /\ q.field = d.field /\ q.verified = [d.verified EXCEPT ![l.slot] = l.event] /\ q.lookups = d.lookups
      BY <2>2, <3>3 DEF Pads
    <3> HIDE DEF q
    <3>5. \A s \in Ends : q.verified[s] # None => q.verified[s] = q.field[s]
      BY <1>0, <2>2, <3>2, <3>3, <3>4 DEF PadOk
    <3>6. PadOk(q, used)
      BY <1>0, <2>2, <3>4, <3>5 DEF PadOk
    <3>7. Keeps(p, q)
      BY <2>2, <3>4 DEF Keeps
    <3>8. Reviews(p, q)
      BY <2>1, <2>2, <3>2, <3>4 DEF Reviews
    <3>9. Notebooks!WritesOne
      BY <1>a DEF Notebooks!WritesOne
    <3> QED
      BY <1>0, <1>a, <3>1, <3>6, <3>7, <3>8, <3>9, NotesTurn
  <2> QED
    BY <2>3, <2>4
<1>4. CASE Notebooks!Invalidate(w)
  <2> DEFINE q == Notebooks!Cancelled(p, Notebooks!Slots)
  <2>0. FreeOf(q, p, used)
    BY <1>0, PadFree
  <2>1. PadOk(q, used) /\ q.dirty = p.dirty /\ q.verified["from"] = None
    BY <2>0 DEF FreeOf
  <2>2. win' = [win EXCEPT ![w] = q]
    BY <1>4 DEF Notebooks!Invalidate
  <2> HIDE DEF q
  <2>3. Keeps(p, q)
    BY <2>1 DEF Keeps
  <2> QED
    BY <1>0, <1>a, <2>1, <2>2, <2>3, NotesQuiet
<1> QED
  BY <1>1, <1>2, <1>3, <1>4

LEMMA NotesCorrupt ==
  ASSUME NotesInv, Notebooks!Corrupts
  PROVE  NotesInv' /\ NotesActs
<1>1. stored' = Corrupt /\ UNCHANGED <<kind, used, win>>
  BY DEF Notebooks!Corrupts
<1>2. NotesInv'
  BY <1>1 DEF NotesInv, PadOk
<1>3. NotesActs
  BY <1>1 DEF NotesActs, Notebooks!WritesOne, Notebooks!EditsKept, Notebooks!AttachesReviewed
<1> QED
  BY <1>2, <1>3

LEMMA BookPuts ==
  ASSUME NEW b, NEW u, BookOk(b, u), NEW e \in Notebooks!Entries, e.id \in u
  PROVE  LET c == Notebooks!Put(b, e)
         IN BookOk(c, u) /\ e \in c /\ b \ Notebooks!ById(b, e.id) = c \ Notebooks!ById(c, e.id)
BY DEF BookOk, Notebooks!Put, Notebooks!ById

LEMMA BookGrows ==
  ASSUME NEW b, NEW u, BookOk(b, u), NEW e \in Notebooks!Entries, e.id \notin u
  PROVE  LET c == b \cup {e}
         IN BookOk(c, u \cup {e.id}) /\ b \ Notebooks!ById(b, e.id) = c \ Notebooks!ById(c, e.id)
BY DEF BookOk, Notebooks!ById

LEMMA BookShrinks ==
  ASSUME NEW b, NEW u, BookOk(b, u), NEW e \in b
  PROVE  LET c == b \ {e}
         IN BookOk(c, u) /\ Notebooks!ById(c, e.id) = {} /\ b \ Notebooks!ById(b, e.id) = c \ Notebooks!ById(c, e.id)
BY DEF BookOk, Notebooks!ById

LEMMA NotesNew ==
  ASSUME NotesInv, NEW w \in Panes, Notebooks!NewBranch(w)
  PROVE  NotesInv' /\ NotesActs
<1> DEFINE p == win[w]
<1>0. PadOk(p, used) /\ p \in Pads /\ used \subseteq NoteIds /\ p.verified \in Marks
  BY NotesUsual
<1>1. PICK id \in NoteIds \ used :
        /\ used' = used \cup {id} /\ UNCHANGED <<kind, stored>> /\ kind = "replay" /\ ~p.dirty
        /\ win' = [win EXCEPT ![w] = [Notebooks!Fill(win[w], [id |-> id, text |-> 0, from |-> win[w].verified["from"], to |-> None]) EXCEPT !.dirty = TRUE]]
  BY DEF Notebooks!NewBranch, Notebooks!Fresh, Notebooks!NewId
<1> DEFINE e == [id |-> id, text |-> 0, from |-> p.verified["from"], to |-> None]
           f == Notebooks!Fill(p, e)
           q == [f EXCEPT !.dirty = TRUE]
<1>2. e \in Notebooks!Entries /\ e.id \in used' /\ e # None
  <2>1. p.verified["from"] \in NoteEvents \cup {None}
    BY <1>0 DEF Marks, Ends
  <2> QED
    <3>1. id \in NoteIds /\ 0 \in 0..2 /\ None \in NoteEvents \cup {None} /\ id \in used'
      BY <1>1
    <3>2. e \in Notebooks!Entries
      BY <2>1, <3>1, EntryFields
    <3>3. e.id = id
      OBVIOUS
    <3> QED
      BY <3>1, <3>2, <3>3, EntryNone
<1>3. win' = [win EXCEPT ![w] = q]
  BY <1>1
<1> HIDE DEF e
<1>4. PadOk(p, used')
  BY <1>0, <1>1, PadGrows
<1>5. PadOk(f, used') /\ f.editor = e /\ f.base = p.base /\ f.verified = p.verified
  BY <1>2, <1>4, PadFills
<1> HIDE DEF f
<1>6. /\ q \in Pads /\ q.base = f.base /\ q.editor = f.editor /\ q.dirty = TRUE /\ q.selected = f.selected
      /\ q.field = f.field /\ q.verified = f.verified /\ q.lookups = f.lookups
  BY <1>5 DEF PadOk, Pads
<1> HIDE DEF q
<1>7. PadOk(q, used')
  BY <1>1, <1>2, <1>5, <1>6 DEF PadOk
<1>8. Keeps(p, q) /\ q.verified["from"] \in {None, p.verified["from"]} /\ used \subseteq used' /\ used' \subseteq NoteIds
  BY <1>0, <1>1, <1>5, <1>6 DEF Keeps
<1> QED
  BY <1>1, <1>3, <1>7, <1>8, NotesQuiet

LEMMA NotesOpen ==
  ASSUME NotesInv, NEW w \in Panes, Notebooks!OpenBranch(w)
  PROVE  NotesInv' /\ NotesActs
<1> DEFINE p == win[w]
           c == Notebooks!Cancelled(p, Notebooks!Slots)
<1>0. PadOk(p, used) /\ p \in Pads /\ used \subseteq NoteIds /\ (p.base = Corrupt \/ BookOk(p.base, used))
  BY NotesUsual
<1>1. PICK e \in p.base : win' = [win EXCEPT ![w] = Notebooks!Fill(Notebooks!Cancelled(win[w], Notebooks!Slots), e)]
  BY DEF Notebooks!OpenBranch
<1>2. p.base # Corrupt /\ ~p.dirty /\ UNCHANGED <<kind, stored, used>>
  BY DEF Notebooks!OpenBranch, Notebooks!ClearOf
<1> DEFINE q == Notebooks!Fill(c, e)
<1>3. win' = [win EXCEPT ![w] = q]
  BY <1>1
<1>4. e \in Notebooks!Entries \cup {None} /\ (e # None => e.id \in used)
  BY <1>0, <1>1, <1>2 DEF BookOk
<1>5. FreeOf(c, p, used)
  BY <1>0, PadFree
<1> HIDE DEF c
<1>6. PadOk(c, used) /\ c.verified["from"] = None
  BY <1>5 DEF FreeOf
<1>7. PadOk(q, used) /\ q.verified = c.verified
  BY <1>4, <1>6, PadFills
<1> HIDE DEF q
<1>8. Keeps(p, q)
  BY <1>2 DEF Keeps
<1> QED
  BY <1>0, <1>2, <1>3, <1>6, <1>7, <1>8, NotesQuiet

LEMMA NotesEdit ==
  ASSUME NotesInv, NEW w \in Panes, Notebooks!EditBranch(w)
  PROVE  NotesInv' /\ NotesActs
<1> DEFINE p == win[w]
<1>0. PadOk(p, used) /\ p \in Pads /\ used \subseteq NoteIds /\ p.editor \in Notebooks!Entries \cup {None}
  BY NotesUsual
<1>1. PICK t \in 1..2 : win' = [win EXCEPT ![w].editor.text = t, ![w].dirty = TRUE]
  BY DEF Notebooks!EditBranch
<1>2. p.editor # None /\ UNCHANGED <<kind, stored, used>> /\ kind = "replay"
  BY DEF Notebooks!EditBranch
<1> DEFINE e == [p.editor EXCEPT !.text = t]
           q == [p EXCEPT !.editor = e, !.dirty = TRUE]
<1>3. win' = [win EXCEPT ![w] = q]
  <2>1. win \in [Panes -> Pads]
    BY DEF NotesInv
  <2> QED
    BY <1>0, <1>1, <2>1
<1>4. e \in Notebooks!Entries /\ e.id = p.editor.id /\ p.editor.id \in used
  BY <1>0, <1>2, EntryFields DEF PadOk
<1> HIDE DEF e
<1>a. e # None
  BY <1>4, EntryNone
<1>5. /\ q \in Pads /\ q.base = p.base /\ q.editor = e /\ q.dirty = TRUE /\ q.selected = p.selected
      /\ q.field = p.field /\ q.verified = p.verified /\ q.lookups = p.lookups
  BY <1>0, <1>4 DEF Pads
<1> HIDE DEF q
<1>6. PadOk(q, used)
  BY <1>0, <1>2, <1>4, <1>5, <1>a DEF PadOk
<1>7. Keeps(p, q)
  BY <1>5 DEF Keeps
<1> QED
  BY <1>0, <1>2, <1>3, <1>5, <1>6, <1>7, NotesQuiet

LEMMA NotesKeep ==
  ASSUME NotesInv, NEW w \in Panes, Notebooks!SaveBranch(w)
  PROVE  NotesInv' /\ NotesActs
<1> DEFINE p == win[w]
           e == p.editor
           book == Notebooks!Put(p.base, e)
           after == Notebooks!Fill(p, e)
<1>0. PadOk(p, used) /\ p \in Pads /\ used \subseteq NoteIds /\ e \in Notebooks!Entries \cup {None} /\ (p.base = Corrupt \/ BookOk(p.base, used))
  BY NotesUsual
<1>1. e # None /\ p.base # Corrupt /\ used' = used /\ Notebooks!Save(w, book, after, p)
  BY DEF Notebooks!SaveBranch
<1>2. e \in Notebooks!Entries /\ e.id \in used /\ e.id \in NoteIds
  BY <1>0, <1>1 DEF PadOk
<1>3. BookOk(book, used) /\ e \in book /\ p.base \ Notebooks!ById(p.base, e.id) = book \ Notebooks!ById(book, e.id)
  BY <1>0, <1>1, <1>2, BookPuts
<1>4. PadOk(after, used) /\ after.editor = e /\ after.verified = p.verified
  BY <1>0, <1>2, PadFills
<1> HIDE DEF book, after
<1>5. Keeps(p, [after EXCEPT !.base = book]) /\ Keeps(p, p)
  <2> DEFINE q == [after EXCEPT !.base = book]
  <2>1. q.editor = e /\ q.base = book
    BY <1>3, <1>4, PadHolds
  <2> HIDE DEF q
  <2>2. Keeps(p, q) /\ Keeps(p, p)
    BY <1>1, <1>3, <2>1 DEF Keeps
  <2> QED
    BY <2>2 DEF q
<1> QED
  BY <1>0, <1>1, <1>2, <1>3, <1>4, <1>5, NotesSave

LEMMA NotesDiscard ==
  ASSUME NotesInv, NEW w \in Panes, Notebooks!Discard(w)
  PROVE  NotesInv' /\ NotesActs
<1> DEFINE p == win[w]
           prior == Notebooks!ById(p.base, p.editor.id)
           e == IF prior = {} THEN None ELSE CHOOSE x \in prior : TRUE
           q == Notebooks!Fill(p, e)
<1>0. PadOk(p, used) /\ p \in Pads /\ used \subseteq NoteIds /\ (p.base = Corrupt \/ BookOk(p.base, used))
  BY NotesUsual
<1>1. p.base # Corrupt /\ p.editor # None /\ UNCHANGED <<kind, stored, used>> /\ win' = [win EXCEPT ![w] = q]
  BY DEF Notebooks!Discard
<1>2. prior \subseteq p.base /\ \A x \in prior : x.id = p.editor.id
  BY DEF Notebooks!ById
<1>3. (prior # {} => e \in prior) /\ (prior = {} => e = None)
  OBVIOUS
<1>4. e \in Notebooks!Entries \cup {None} /\ (e # None => e.id \in used) /\ (e = None => prior = {})
  BY <1>0, <1>1, <1>2, <1>3, EntryNone DEF BookOk
<1> HIDE DEF e
<1>5. PadOk(q, used) /\ q.editor = e /\ q.base = p.base /\ q.verified = p.verified
  BY <1>0, <1>4, PadFills
<1> HIDE DEF q
<1>6. Keeps(p, q)
  BY <1>2, <1>3, <1>4, <1>5 DEF Keeps
<1> QED
  BY <1>0, <1>1, <1>5, <1>6, NotesQuiet

LEMMA NotesRemove ==
  ASSUME NotesInv, NEW w \in Panes, Notebooks!Remove(w)
  PROVE  NotesInv' /\ NotesActs
<1> DEFINE p == win[w]
<1>0. PadOk(p, used) /\ p \in Pads /\ used \subseteq NoteIds /\ p.editor \in Notebooks!Entries \cup {None} /\ (p.base = Corrupt \/ BookOk(p.base, used))
  BY NotesUsual
<1>1. PICK e \in p.base :
        LET q == IF p.editor # None /\ p.editor.id = e.id THEN Notebooks!Fill(p, None) ELSE p
        IN Notebooks!Save(w, p.base \ {e}, [Notebooks!Cancelled(q, Notebooks!Slots) EXCEPT !.selected = IF @ = e.id THEN None ELSE @],
                          IF kind = "replay" THEN p ELSE Notebooks!Cancelled(p, Notebooks!Slots))
  BY DEF Notebooks!Remove
<1>2. p.base # Corrupt /\ used' = used
  BY DEF Notebooks!Remove
<1> DEFINE q == IF p.editor # None /\ p.editor.id = e.id THEN Notebooks!Fill(p, None) ELSE p
           c == Notebooks!Cancelled(q, Notebooks!Slots)
           i == IF c.selected = e.id THEN None ELSE c.selected
           after == [c EXCEPT !.selected = i]
           d == Notebooks!Cancelled(p, Notebooks!Slots)
           kept == IF kind = "replay" THEN p ELSE d
           book == p.base \ {e}
<1>3. Notebooks!Save(w, book, after, kept)
  BY <1>1
<1>4. e \in Notebooks!Entries /\ e.id \in NoteIds /\ BookOk(p.base, used)
  BY <1>0, <1>1, <1>2, EntryFields DEF BookOk
<1>5. BookOk(book, used) /\ Notebooks!ById(book, e.id) = {} /\ p.base \ Notebooks!ById(p.base, e.id) = book \ Notebooks!ById(book, e.id)
  BY <1>1, <1>4, BookShrinks
<1>6. PadOk(q, used) /\ (q = p \/ (q.editor = None /\ p.editor # None /\ p.editor.id = e.id))
  BY <1>0, PadFills
<1> HIDE DEF q
<1>7. FreeOf(c, q, used)
  BY <1>6, PadFree
<1> HIDE DEF c
<1>8. PadOk(c, used) /\ (\A l \in c.lookups : ~l.inForce) /\ c.editor = q.editor /\ c.dirty = q.dirty /\ c.verified["from"] = None
  BY <1>7 DEF FreeOf
<1>9. i \in NoteIds \cup {None}
  BY <1>8, PadFields DEF PadOk
<1> HIDE DEF i
<1>10. PadOk(after, used) /\ after.editor = c.editor /\ after.dirty = c.dirty /\ after.verified = c.verified
  BY <1>8, <1>9, PadSelects
<1>11. FreeOf(d, p, used)
  BY <1>0, PadFree
<1> HIDE DEF d
<1>12. PadOk(kept, used) /\ kept.dirty = p.dirty /\ kept.verified["from"] \in {None, p.verified["from"]}
  BY <1>0, <1>11 DEF FreeOf
<1> HIDE DEF after, kept, book
<1>13. Keeps(p, [after EXCEPT !.base = book]) /\ Keeps(p, kept)
  <2> DEFINE r == [after EXCEPT !.base = book]
  <2>1. r.editor = after.editor /\ r.base = book /\ r.dirty = after.dirty
    BY <1>5, <1>10, PadHolds
  <2> HIDE DEF r
  <2>2. Keeps(p, r) /\ Keeps(p, kept)
    BY <1>5, <1>6, <1>8, <1>10, <1>12, <2>1 DEF Keeps
  <2> QED
    BY <2>2 DEF r
<1> QED
  BY <1>0, <1>2, <1>3, <1>4, <1>5, <1>8, <1>10, <1>12, <1>13, NotesSave

LEMMA NotesLink ==
  ASSUME NotesInv, NEW w \in Panes, Notebooks!SaveLink(w)
  PROVE  NotesInv' /\ NotesActs
<1> DEFINE p == win[w]
           f == [s \in Notebooks!Slots |-> None]
           c == Notebooks!Cancelled(p, Notebooks!Slots)
           after == [c EXCEPT !.field = f]
<1>0. PadOk(p, used) /\ p \in Pads /\ used \subseteq NoteIds /\ p.verified \in Marks /\ (p.base = Corrupt \/ BookOk(p.base, used))
  BY NotesUsual
<1>1. PICK id \in NoteIds \ used :
        /\ used' = used \cup {id}
        /\ Notebooks!Save(w, p.base \cup {[id |-> id, text |-> 1, from |-> p.verified["from"], to |-> p.verified["to"]]},
                          [Notebooks!Cancelled(p, Notebooks!Slots) EXCEPT !.field = [s \in Notebooks!Slots |-> None]], p)
  BY DEF Notebooks!SaveLink, Notebooks!Fresh, Notebooks!NewId
<1>2. kind = "handoffs" /\ p.base # Corrupt
  BY DEF Notebooks!SaveLink
<1> DEFINE e == [id |-> id, text |-> 1, from |-> p.verified["from"], to |-> p.verified["to"]]
           book == p.base \cup {e}
<1>3. Notebooks!Save(w, book, after, p)
  BY <1>1
<1>4. e \in Notebooks!Entries /\ e.id = id
  <2>1. p.verified["from"] \in NoteEvents \cup {None} /\ p.verified["to"] \in NoteEvents \cup {None}
    BY <1>0 DEF Marks, Ends
  <2>2. id \in NoteIds /\ 1 \in 0..2
    BY <1>1
  <2> QED
    BY <2>1, <2>2, EntryFields
<1> HIDE DEF e
<1>5. BookOk(book, used') /\ p.base \ Notebooks!ById(p.base, id) = book \ Notebooks!ById(book, id)
  BY <1>0, <1>1, <1>2, <1>4, BookGrows
<1>6. f \in Marks
  BY DEF Marks, Notebooks!Slots, Ends
<1> HIDE DEF f
<1>7. FreeOf(c, p, used)
  BY <1>0, PadFree
<1>8. PadOk(after, used) /\ after.dirty = p.dirty /\ after.verified["from"] = None
  <2>1. PadOk(c, used) /\ c.verified["from"] = None /\ c.dirty = p.dirty /\ c.lookups \in SUBSET Lookups /\ (\A l \in c.lookups : ~l.inForce)
    BY <1>7, PadFields DEF FreeOf, PadOk
  <2>2. \A s \in Ends : c.verified[s] = None
    BY <1>0, PadCancels, NotesSlots
  <2> HIDE DEF c
  <2>3. /\ after \in Pads /\ after.base = c.base /\ after.editor = c.editor /\ after.dirty = c.dirty /\ after.selected = c.selected
        /\ after.field = f /\ after.verified = c.verified /\ after.lookups = c.lookups
    BY <1>6, <2>1 DEF PadOk, Pads
  <2> HIDE DEF after
  <2> QED
    BY <2>1, <2>2, <2>3 DEF PadOk
<1> HIDE DEF after, book
<1>9. PadOk(after, used') /\ PadOk(p, used') /\ used \subseteq used' /\ used' \subseteq NoteIds
  BY <1>0, <1>1, <1>8, PadGrows
<1>10. Keeps(p, [after EXCEPT !.base = book]) /\ Keeps(p, p)
  BY <1>0, <1>2 DEF Keeps, PadOk
<1> QED
  BY <1>1, <1>3, <1>5, <1>8, <1>9, <1>10, NotesSave

LEMMA NotesRequire ==
  ASSUME NotesInv, NEW w \in Panes, Notebooks!AddRequirement(w)
  PROVE  NotesInv' /\ NotesActs
<1> DEFINE p == win[w]
           c == Notebooks!Cancelled(p, Notebooks!Slots)
<1>0. PadOk(p, used) /\ p \in Pads /\ used \subseteq NoteIds /\ (p.base = Corrupt \/ BookOk(p.base, used))
  BY NotesUsual
<1>1. PICK id \in NoteIds \ used :
        /\ used' = used \cup {id}
        /\ Notebooks!Save(w, p.base \cup {[id |-> id, text |-> 1, from |-> None, to |-> None]},
                          [Notebooks!Cancelled(p, Notebooks!Slots) EXCEPT !.selected = id], p)
  BY DEF Notebooks!AddRequirement, Notebooks!Fresh, Notebooks!NewId
<1>2. kind = "court" /\ p.base # Corrupt
  BY DEF Notebooks!AddRequirement
<1> DEFINE e == [id |-> id, text |-> 1, from |-> None, to |-> None]
           book == p.base \cup {e}
           after == [c EXCEPT !.selected = id]
<1>3. Notebooks!Save(w, book, after, p)
  BY <1>1
<1>4. e \in Notebooks!Entries /\ e.id = id
  <2>1. id \in NoteIds /\ 1 \in 0..2 /\ None \in NoteEvents \cup {None}
    BY <1>1
  <2> QED
    BY <2>1, EntryFields
<1> HIDE DEF e
<1>5. BookOk(book, used') /\ p.base \ Notebooks!ById(p.base, id) = book \ Notebooks!ById(book, id)
  BY <1>0, <1>1, <1>2, <1>4, BookGrows
<1>6. FreeOf(c, p, used)
  BY <1>0, PadFree
<1> HIDE DEF c
<1>7. PadOk(c, used) /\ c.verified["from"] = None /\ (\A l \in c.lookups : ~l.inForce)
  BY <1>6 DEF FreeOf
<1>8. PadOk(after, used) /\ after.verified["from"] = None
  BY <1>1, <1>7, PadSelects
<1> HIDE DEF after, book
<1>9. PadOk(after, used') /\ PadOk(p, used') /\ used \subseteq used' /\ used' \subseteq NoteIds
  BY <1>0, <1>1, <1>8, PadGrows
<1>10. Keeps(p, [after EXCEPT !.base = book]) /\ Keeps(p, p)
  BY <1>0, <1>2 DEF Keeps, PadOk
<1> QED
  BY <1>1, <1>3, <1>5, <1>8, <1>9, <1>10, NotesSave

LEMMA NotesSelect ==
  ASSUME NotesInv, NEW w \in Panes, Notebooks!SelectRequirement(w)
  PROVE  NotesInv' /\ NotesActs
<1> DEFINE p == win[w]
           c == Notebooks!Cancelled(p, Notebooks!Slots)
<1>0. PadOk(p, used) /\ p \in Pads /\ used \subseteq NoteIds /\ (p.base = Corrupt \/ BookOk(p.base, used))
  BY NotesUsual
<1>1. PICK e \in p.base : win' = [win EXCEPT ![w] = [Notebooks!Cancelled(win[w], Notebooks!Slots) EXCEPT !.selected = e.id]]
  BY DEF Notebooks!SelectRequirement, Notebooks!Chosen
<1>2. kind = "court" /\ p.base # Corrupt /\ UNCHANGED <<kind, stored, used>>
  BY DEF Notebooks!SelectRequirement
<1> DEFINE q == [c EXCEPT !.selected = e.id]
<1>3. win' = [win EXCEPT ![w] = q]
  BY <1>1
<1>4. e.id \in NoteIds \cup {None}
  BY <1>0, <1>1, <1>2, EntryFields DEF BookOk
<1>5. FreeOf(c, p, used)
  BY <1>0, PadFree
<1> HIDE DEF c
<1>6. PadOk(c, used) /\ c.verified["from"] = None /\ (\A l \in c.lookups : ~l.inForce)
  BY <1>5 DEF FreeOf
<1>7. PadOk(q, used) /\ q.verified["from"] = None
  BY <1>4, <1>6, PadSelects
<1> HIDE DEF q
<1>8. Keeps(p, q)
  BY <1>0, <1>2 DEF Keeps, PadOk
<1> QED
  BY <1>0, <1>2, <1>3, <1>7, <1>8, NotesQuiet

LEMMA NotesOffer ==
  ASSUME NotesInv, NEW w \in Panes, Notebooks!OfferEvent(w)
  PROVE  NotesInv' /\ NotesActs
<1> DEFINE p == win[w]
           c == Notebooks!Cancelled(p, Notebooks!Slots)
<1>0. PadOk(p, used) /\ p \in Pads /\ used \subseteq NoteIds
  BY NotesUsual
<1>1. PICK e \in NoteEvents : win' = [win EXCEPT ![w] = [Notebooks!Cancelled(win[w], Notebooks!Slots) EXCEPT !.selected = None, !.field["from"] = e]]
  BY DEF Notebooks!OfferEvent
<1>2. kind = "court" /\ UNCHANGED <<kind, stored, used>>
  BY DEF Notebooks!OfferEvent
<1> DEFINE f == [c.field EXCEPT !["from"] = e]
           q == [c EXCEPT !.field = f, !.selected = None]
<1>5. FreeOf(c, p, used)
  BY <1>0, PadFree
<1>6. c \in Pads /\ c.field \in Marks
  BY <1>5, PadFields DEF FreeOf, PadOk
<1>7. f \in Marks
  BY <1>6 DEF Marks, Ends
<1>3. win' = [win EXCEPT ![w] = q]
  BY <1>1, <1>6 DEF Pads
<1> HIDE DEF c, f
<1>10. None \in NoteIds \cup {None}
  OBVIOUS
<1>8. PadOk(q, used) /\ q.verified["from"] = None
  BY <1>5, <1>7, <1>10, Zenon DEF FreeOf
<1> HIDE DEF q
<1>9. Keeps(p, q)
  BY <1>0, <1>2 DEF Keeps, PadOk
<1> QED
  BY <1>0, <1>2, <1>3, <1>8, <1>9, NotesQuiet

LEMMA NotesAttach ==
  ASSUME NotesInv, NEW w \in Panes, Notebooks!Attach(w)
  PROVE  NotesInv' /\ NotesActs
<1> DEFINE p == win[w]
           v == p.verified["from"]
           after == Notebooks!Cancelled(p, Notebooks!Slots)
<1>0. PadOk(p, used) /\ p \in Pads /\ used \subseteq NoteIds /\ p.verified \in Marks /\ (p.base = Corrupt \/ BookOk(p.base, used))
  BY NotesUsual
<1>1. PICK r \in Notebooks!ById(p.base, p.selected) : Notebooks!Save(w, Notebooks!Put(p.base, [r EXCEPT !.from = v]), after, p)
  BY DEF Notebooks!Attach
<1>2. kind = "court" /\ p.base # Corrupt /\ used' = used
  BY DEF Notebooks!Attach
<1> DEFINE e == [r EXCEPT !.from = v]
           book == Notebooks!Put(p.base, e)
<1>3. r \in p.base /\ r \in Notebooks!Entries /\ r.id \in used /\ v \in NoteEvents \cup {None}
  BY <1>0, <1>1, <1>2 DEF BookOk, Notebooks!ById, Marks, Ends
<1>4. e \in Notebooks!Entries /\ e.id = r.id /\ r.id \in NoteIds
  BY <1>3, EntryFields
<1> HIDE DEF e
<1>5. BookOk(book, used) /\ p.base \ Notebooks!ById(p.base, e.id) = book \ Notebooks!ById(book, e.id)
  BY <1>0, <1>2, <1>3, <1>4, BookPuts
<1>6. FreeOf(after, p, used)
  BY <1>0, PadFree
<1>a. Notebooks!Save(w, book, after, p)
  BY <1>1 DEF e
<1> HIDE DEF after, book
<1>7. PadOk(after, used) /\ after.verified["from"] = None
  BY <1>6 DEF FreeOf
<1>8. Keeps(p, [after EXCEPT !.base = book]) /\ Keeps(p, p)
  BY <1>0, <1>2 DEF Keeps, PadOk
<1> QED
  BY <1>0, <1>2, <1>4, <1>5, <1>7, <1>8, <1>a, NotesSave

\* Every step of a notebook.
LEMMA NotesStep ==
  ASSUME NotesInv, [Notebooks!Next]_(Notebooks!vars)
  PROVE  NotesInv' /\ NotesActs
<1>1. CASE UNCHANGED Notebooks!vars
  <2>1. UNCHANGED <<kind, stored, used, win>>
    BY <1>1 DEF Notebooks!vars
  <2>2. NotesInv'
    BY <2>1 DEF NotesInv, PadOk
  <2>3. NotesActs
    BY <2>1 DEF NotesActs, Notebooks!WritesOne, Notebooks!EditsKept, Notebooks!AttachesReviewed
  <2> QED
    BY <2>2, <2>3
<1>2. CASE Notebooks!Next
  <2>1. CASE Notebooks!Corrupts
    BY <2>1, NotesCorrupt
  <2>2. CASE \E w \in Panes :
               \/ Notebooks!Reload(w) \/ Notebooks!TypeEvent(w) \/ Notebooks!LookUp(w) \/ Notebooks!LookUpLands(w) \/ Notebooks!Remove(w)
               \/ Notebooks!NewBranch(w) \/ Notebooks!OpenBranch(w) \/ Notebooks!EditBranch(w) \/ Notebooks!SaveBranch(w) \/ Notebooks!Discard(w)
               \/ Notebooks!SaveLink(w) \/ Notebooks!Invalidate(w)
               \/ Notebooks!AddRequirement(w) \/ Notebooks!SelectRequirement(w) \/ Notebooks!OfferEvent(w) \/ Notebooks!Attach(w)
    BY <2>2, NotesReload, NotesLooks, NotesRemove, NotesNew, NotesOpen, NotesEdit, NotesKeep, NotesDiscard,
       NotesLink, NotesRequire, NotesSelect, NotesOffer, NotesAttach
  <2> QED
    BY <1>2, <2>1, <2>2 DEF Notebooks!Next, Panes
<1> QED
  BY <1>1, <1>2

LEMMA NotesMean == NotesInv => Notebooks!VerifiedIsTyped
BY DEF NotesInv, PadOk, Notebooks!VerifiedIsTyped, Notebooks!Slots, Ends, Panes

HIDE DEF stored, used, win

\* A set of numbers that is not empty has a least one.
LEMMA LeastOf ==
  ASSUME NEW N \in SUBSET Nat, N # {}
  PROVE  \E x \in N : \A y \in N : x <= y
<1>1. PICK x \in N : \A y \in N : <<y, x>> \notin OpToRel(<, Nat)
  BY NatLessThanWellFounded, WFMin, Zenon
<1>2. ASSUME NEW y \in N
      PROVE  x <= y
  <2>1. x \in Nat /\ y \in Nat
    OBVIOUS
  <2>2. <<y, x>> \in Nat \X Nat /\ <<y, x>> \notin OpToRel(<, Nat)
    BY <1>1, <2>1
  <2>3. ~(y < x)
    BY <2>2 DEF OpToRel
  <2> QED
    BY <2>1, <2>3
<1> QED
  BY <1>2

----------------------------------------------------------------------------
(* The Loop Observatory.                                                   *)

active == x2
panel == x3
histories == x4
signatures == x5
timer == x6
USE DEF scope, active, panel, histories, signatures, timer

Sides == LoopErrors \X LoopErrors
Marked == ({LoopFallback[e] : e \in LoopErrors} \cup {LoopAuthoritative[e] : e \in LoopErrors}) \ {None}
Phases == {"idle", "loading", "error", "ready"}
LoopPanels ==
  [phase : Phases, ref : Loop!Refs \cup {None}, last : Loop!Refs \cup {None}, selfWritten : BOOLEAN, win : Loop!AnyWindow, events : SUBSET LoopErrors,
   status : {"pending", "ready", "unavailable"}, key : Marked \cup {None}, interval : Sides \cup {None},
   comparison : (Sides \X Sides) \cup {None}, detail : LoopErrors \cup {None}, details : SUBSET [event : LoopErrors, inForce : BOOLEAN]]

\* What the groups are built from, and whose panel it is.
Roots(p, q) == q.ref = p.ref /\ q.events = p.events /\ q.status = p.status
Rest(p, q) == Roots(p, q) /\ q.phase = p.phase /\ q.last = p.last /\ q.selfWritten = p.selfWritten /\ q.win = p.win

\* Nothing is selected; the full envelope that is awaited is of the detail.
Clear(p) == p.key = None /\ p.interval = None /\ p.comparison = None /\ p.detail = None
Awaits(p) == \A d \in p.details : d.inForce => d.event = p.detail

\* What is selected is loaded, exists under the membership of the moment, lies in the window.
Rooted(p) == (p.key = None => p.interval = None /\ p.comparison = None) /\ (p.detail # None => p.detail \in Loop!Shown(p))
Exists(p) ==
  /\ Rooted(p) /\ (p.key # None => p.key \in Loop!Recurring(p))
  /\ p.interval # None => p.interval \in Loop!Intervals(p, p.key)
  /\ p.comparison # None => \A n \in 1..2 : p.comparison[n] \in Loop!Intervals(p, p.key)
InView(p) ==
  /\ p.interval # None => Loop!IntervalIn(p.interval, p.win)
  /\ p.comparison # None => \A n \in 1..2 : Loop!IntervalIn(p.comparison[n], p.win)
  /\ p.detail # None => Loop!InWindow(p.detail, p.win)
LoopOk(p) == p \in LoopPanels /\ Awaits(p) /\ (p.phase = "ready" => Exists(p) /\ InView(p)) /\ (p.phase # "ready" => Clear(p))

\* One request for a history is in force while the panel loads, and it is for its session.
LoopAsks == [ref : Loop!Refs, inForce : BOOLEAN]
Loading(p, hs) ==
  /\ hs \subseteq LoopAsks
  /\ (p.phase = "loading") <=> (\E h \in hs : h.inForce)
  /\ p.phase \in {"loading", "ready"} => p.ref # None
  /\ \A h \in hs : h.inForce => h.ref.id = p.ref.id
  /\ \A h, g \in hs : h.inForce /\ g.inForce => h = g

ScopeOk(s) == s.session \in Loop!Refs \cup {None} /\ s.window \in Loop!AnyWindow
LoopTold(p, s, up) ==
  /\ up => p.win = s.window /\ p.last = s.session
  /\ ~up => p.last = None
  /\ p.last # None => p.ref = p.last

LoopsInv == ScopeOk(scope) /\ LoopOk(panel) /\ Loading(panel, histories) /\ active \in BOOLEAN /\ LoopTold(panel, scope, active)

LEMMA KeysApart == None \notin Marked /\ None \notin Loop!Refs /\ None \notin LoopErrors
BY LensesAssumption DEF Marked, Loop!Refs

\* A change of the selection, the groups being what they were.
LEMMA Groups ==
  ASSUME NEW p, NEW q, Roots(p, q)
  PROVE  /\ Loop!Shown(q) = Loop!Shown(p) /\ Loop!Recurring(q) = Loop!Recurring(p)
         /\ \A k : Loop!Group(q, k) = Loop!Group(p, k) /\ Loop!Intervals(q, k) = Loop!Intervals(p, k)
<1>1. Loop!Shown(q) = Loop!Shown(p)
  BY DEF Roots, Loop!Shown
<1>2. \A e : Loop!KeyOf(q, e) = Loop!KeyOf(p, e)
  BY DEF Roots, Loop!KeyOf
<1>3. \A k : Loop!Group(q, k) = Loop!Group(p, k)
  BY <1>1, <1>2 DEF Loop!Group
<1>4. Loop!Recurring(q) = Loop!Recurring(p)
  BY <1>1, <1>2, <1>3 DEF Loop!Recurring
<1>5. \A k : Loop!Intervals(q, k) = Loop!Intervals(p, k)
  BY <1>3 DEF Loop!Intervals
<1> QED
  BY <1>1, <1>3, <1>4, <1>5

LEMMA RestGoesOn ==
  ASSUME NEW p, NEW q, NEW r, Rest(p, q), Rest(q, r)
  PROVE  Rest(p, r)
BY DEF Rest, Roots

LEMMA DetailCancels ==
  ASSUME NEW p \in LoopPanels
  PROVE  LET q == Loop!CancelDetail(p)
         IN /\ q \in LoopPanels /\ Rest(p, q) /\ Awaits(q) /\ q.key = p.key /\ q.interval = p.interval /\ q.comparison = p.comparison /\ q.detail = None
            /\ \A d \in q.details : ~d.inForce
<1> DEFINE ds == {[d EXCEPT !.inForce = FALSE] : d \in p.details}
           q == Loop!CancelDetail(p)
<1>1. p.details \subseteq [event : LoopErrors, inForce : BOOLEAN]
  BY DEF LoopPanels
<1>2. ds \subseteq [event : LoopErrors, inForce : BOOLEAN] /\ \A d \in ds : ~d.inForce
  BY <1>1
<1>3. q = [p EXCEPT !.detail = None, !.details = ds]
  BY DEF Loop!CancelDetail
<1> HIDE DEF ds
<1>4. /\ q \in LoopPanels /\ q.key = p.key /\ q.interval = p.interval /\ q.comparison = p.comparison /\ q.detail = None /\ q.details = ds
      /\ Rest(p, q)
  BY <1>2, <1>3 DEF LoopPanels, Rest, Roots
<1> HIDE DEF q
<1>5. Awaits(q)
  BY <1>2, <1>4 DEF Awaits
<1> QED
  BY <1>2, <1>4, <1>5 DEF q

\* The fields of the selection, set one at a time.
LEMMA Selects ==
  ASSUME NEW p \in LoopPanels
  PROVE  /\ LET q == [p EXCEPT !.comparison = None]
            IN q \in LoopPanels /\ Rest(p, q) /\ q.key = p.key /\ q.interval = p.interval /\ q.comparison = None /\ q.detail = p.detail /\ q.details = p.details
         /\ \A i \in Sides \cup {None} :
              LET q == [p EXCEPT !.interval = i]
              IN q \in LoopPanels /\ Rest(p, q) /\ q.key = p.key /\ q.interval = i /\ q.comparison = p.comparison /\ q.detail = p.detail /\ q.details = p.details
         /\ \A k \in Marked \cup {None} :
              LET q == [p EXCEPT !.key = k]
              IN q \in LoopPanels /\ Rest(p, q) /\ q.key = k /\ q.interval = p.interval /\ q.comparison = p.comparison /\ q.detail = p.detail /\ q.details = p.details
         /\ LET q == [p EXCEPT !.key = None, !.interval = None]
            IN q \in LoopPanels /\ Rest(p, q) /\ q.key = None /\ q.interval = None /\ q.comparison = p.comparison /\ q.detail = p.detail /\ q.details = p.details
<1> USE DEF LoopPanels, Rest, Roots
<1>1. LET q == [p EXCEPT !.comparison = None]
      IN q \in LoopPanels /\ Rest(p, q) /\ q.key = p.key /\ q.interval = p.interval /\ q.comparison = None /\ q.detail = p.detail /\ q.details = p.details
  OBVIOUS
<1>2. ASSUME NEW i \in Sides \cup {None}
      PROVE  LET q == [p EXCEPT !.interval = i]
             IN q \in LoopPanels /\ Rest(p, q) /\ q.key = p.key /\ q.interval = i /\ q.comparison = p.comparison /\ q.detail = p.detail /\ q.details = p.details
  OBVIOUS
<1>3. ASSUME NEW k \in Marked \cup {None}
      PROVE  LET q == [p EXCEPT !.key = k]
             IN q \in LoopPanels /\ Rest(p, q) /\ q.key = k /\ q.interval = p.interval /\ q.comparison = p.comparison /\ q.detail = p.detail /\ q.details = p.details
  OBVIOUS
<1>4. LET q == [p EXCEPT !.key = None, !.interval = None]
      IN q \in LoopPanels /\ Rest(p, q) /\ q.key = None /\ q.interval = None /\ q.comparison = p.comparison /\ q.detail = p.detail /\ q.details = p.details
  OBVIOUS
<1> HIDE DEF LoopPanels, Rest, Roots
<1> QED
  BY <1>1, <1>2, <1>3, <1>4, Zenon

LEMMA ComparisonResets ==
  ASSUME NEW p \in LoopPanels
  PROVE  LET q == Loop!ResetComparison(p)
         IN q \in LoopPanels /\ Rest(p, q) /\ Awaits(q) /\ q.key = p.key /\ q.interval = p.interval /\ q.comparison = None /\ q.detail = None
<1> DEFINE a == [p EXCEPT !.comparison = None]
           q == Loop!ResetComparison(p)
<1>1. a \in LoopPanels /\ Rest(p, a) /\ a.key = p.key /\ a.interval = p.interval /\ a.comparison = None
  BY Selects
<1>2. q = Loop!CancelDetail(a)
  BY DEF Loop!ResetComparison
<1> HIDE DEF a, q
<1>3. q \in LoopPanels /\ Rest(a, q) /\ Awaits(q) /\ q.key = a.key /\ q.interval = a.interval /\ q.comparison = a.comparison /\ q.detail = None
  BY <1>1, <1>2, DetailCancels
<1>4. Rest(p, q)
  BY <1>1, <1>3, RestGoesOn
<1> QED
  BY <1>1, <1>3, <1>4 DEF q

LEMMA NothingSelected ==
  ASSUME NEW p \in LoopPanels
  PROVE  LET q == Loop!NoSelection(p) IN q \in LoopPanels /\ Rest(p, q) /\ Awaits(q) /\ Clear(q)
<1> DEFINE a == Loop!ResetComparison(p)
           q == Loop!NoSelection(p)
<1>1. a \in LoopPanels /\ Rest(p, a) /\ Awaits(a) /\ a.comparison = None /\ a.detail = None
  BY ComparisonResets
<1>2. q = [a EXCEPT !.key = None, !.interval = None]
  BY DEF Loop!NoSelection
<1> HIDE DEF a, q
<1>3. q \in LoopPanels /\ Rest(a, q) /\ q.key = None /\ q.interval = None /\ q.comparison = a.comparison /\ q.detail = a.detail /\ q.details = a.details
  BY <1>1, <1>2, Selects
<1>4. Rest(p, q)
  BY <1>1, <1>3, RestGoesOn
<1>5. Awaits(q) /\ Clear(q)
  BY <1>1, <1>3 DEF Awaits, Clear
<1> QED
  BY <1>3, <1>4, <1>5 DEF q

LEMMA GroupsTyped ==
  ASSUME NEW p \in LoopPanels
  PROVE  /\ Loop!Recurring(p) \subseteq Marked
         /\ \A k : Loop!Group(p, k) \subseteq LoopErrors /\ Loop!Group(p, k) \subseteq Loop!Shown(p) /\ Loop!Intervals(p, k) \subseteq Sides
<1>1. p.events \subseteq LoopErrors
  BY DEF LoopPanels
<1>2. \A e \in LoopErrors : Loop!KeyOf(p, e) \in Marked
  <2>1. \A e \in LoopErrors : LoopFallback[e] \in Marked /\ LoopAuthoritative[e] \in Marked \cup {None}
    BY LensesAssumption DEF Marked
  <2> QED
    BY <2>1 DEF Loop!KeyOf
<1>3. Loop!Recurring(p) \subseteq Marked
  BY <1>1, <1>2 DEF Loop!Recurring, Loop!Shown
<1>4. \A k : Loop!Group(p, k) \subseteq LoopErrors /\ Loop!Group(p, k) \subseteq Loop!Shown(p)
  BY <1>1 DEF Loop!Group, Loop!Shown
<1>5. \A k : Loop!Intervals(p, k) \subseteq Sides
  BY <1>4 DEF Loop!Intervals, Sides
<1> QED
  BY <1>3, <1>4, <1>5

\* There is a signature whose first error is the earliest.
LEMMA FirstRecurs ==
  ASSUME NEW p \in LoopPanels, Loop!Recurring(p) # {}
  PROVE  Loop!FirstKey(p) \in Loop!Recurring(p) /\ Loop!FirstKey(p) \in Marked
<1> DEFINE Ks == Loop!Recurring(p)
           All == UNION {Loop!Group(p, k) : k \in Ks}
           Starts == {e.time : e \in All}
<1>1. \A e \in LoopErrors : e.time \in Nat
  BY LensesAssumption
<1>3. \A k : Loop!Group(p, k) \subseteq LoopErrors
  BY GroupsTyped
<1>4. All # {}
  <2>1. PICK k \in Ks : TRUE
    OBVIOUS
  <2>2. PICK e \in Loop!Shown(p) : Loop!KeyOf(p, e) = k
    BY <2>1 DEF Loop!Recurring
  <2>3. e \in Loop!Group(p, k)
    BY <2>2 DEF Loop!Group
  <2> QED
    BY <2>1, <2>3
<1>5. Starts \in SUBSET Nat /\ Starts # {}
  BY <1>1, <1>3, <1>4
<1>6. PICK t \in Starts : \A u \in Starts : t <= u
  BY <1>5, LeastOf
<1>7. PICK e \in All : e.time = t
  BY <1>6
<1>8. PICK k \in Ks : e \in Loop!Group(p, k)
  BY <1>7
<1>9. \A j \in Ks : \E x \in Loop!Group(p, k) : \A f \in Loop!Group(p, j) : x.time <= f.time
  BY <1>6, <1>7, <1>8
<1>10. Loop!FirstKey(p) \in Ks
  BY <1>8, <1>9 DEF Loop!FirstKey
<1> QED
  BY <1>10, GroupsTyped

\* Something selected is dropped.
LEMMA Drops ==
  ASSUME NEW p, NEW q, Roots(p, q), q.key = p.key, q.interval \in {p.interval, None}, q.comparison \in {p.comparison, None},
         q.detail \in {p.detail, None}
  PROVE  /\ (Rooted(p) => Rooted(q)) /\ (Exists(p) => Exists(q)) /\ (Clear(p) => Clear(q))
         /\ (q.win = p.win /\ InView(p) => InView(q))
<1>1. Rooted(p) => Rooted(q)
  BY Groups DEF Rooted
<1>2. Exists(p) => Exists(q)
  BY <1>1, Groups DEF Exists
<1>3. Clear(p) => Clear(q)
  BY DEF Clear
<1>4. q.win = p.win /\ InView(p) => InView(q)
  BY DEF InView
<1> QED
  BY <1>1, <1>2, <1>3, <1>4

LEMMA ClearStands == \A p : Clear(p) => Rooted(p) /\ InView(p)
BY DEF Clear, Rooted, InView

\* derive restores what is selected.
LEMMA Derives ==
  ASSUME NEW p \in LoopPanels, Awaits(p), Rooted(p), InView(p)
  PROVE  LET q == Loop!Derive(p) IN q \in LoopPanels /\ Rest(p, q) /\ Awaits(q) /\ Exists(q) /\ InView(q)
<1> DEFINE found == p.key \in Loop!Recurring(p)
           a == IF p.key # None /\ ~found THEN Loop!NoSelection(p) ELSE p
           b0 == [a EXCEPT !.interval = None]
           b == IF found /\ a.interval # None /\ a.interval \notin Loop!Intervals(a, a.key) THEN Loop!CancelDetail(b0) ELSE a
           c == IF found /\ b.comparison # None /\ ~({b.comparison[1], b.comparison[2]} \subseteq Loop!Intervals(b, b.key))
                THEN Loop!ResetComparison(b) ELSE b
           d == IF c.key = None /\ Loop!Recurring(c) # {} THEN [c EXCEPT !.key = Loop!FirstKey(c)] ELSE c
<1>0. Loop!Derive(p) = d
  BY DEF Loop!Derive
<1>1. a \in LoopPanels /\ Rest(p, a) /\ Awaits(a) /\ Rooted(a) /\ InView(a) /\ ((a.key = None) \/ (found /\ a.key = p.key))
  <2>1. CASE p.key # None /\ ~found
    <3>1. a = Loop!NoSelection(p)
      BY <2>1
    <3> HIDE DEF a
    <3>2. a \in LoopPanels /\ Rest(p, a) /\ Awaits(a) /\ Clear(a)
      BY <3>1, NothingSelected
    <3> QED
      BY <3>2, ClearStands DEF Clear
  <2>2. CASE ~(p.key # None /\ ~found)
    BY <2>2 DEF Rest, Roots
  <2> QED
    BY <2>1, <2>2
<1> HIDE DEF a
<1>2. /\ b \in LoopPanels /\ Rest(p, b) /\ Awaits(b) /\ Rooted(b) /\ InView(b) /\ b.key = a.key
      /\ b.interval # None => b.interval \in Loop!Intervals(b, b.key)
  <2>1. CASE found /\ a.interval # None /\ a.interval \notin Loop!Intervals(a, a.key)
    <3>1. b = Loop!CancelDetail(b0)
      BY <2>1
    <3>2. b0 \in LoopPanels /\ Rest(a, b0) /\ b0.key = a.key /\ b0.interval = None /\ b0.comparison = a.comparison /\ b0.detail = a.detail
      <4>1. \A i \in Sides \cup {None} :
              LET r == [a EXCEPT !.interval = i]
              IN r \in LoopPanels /\ Rest(a, r) /\ r.key = a.key /\ r.interval = i /\ r.comparison = a.comparison /\ r.detail = a.detail
        BY <1>1, Selects
      <4> QED
        BY <4>1
    <3> HIDE DEF b0, b
    <3>3. b \in LoopPanels /\ Rest(b0, b) /\ Awaits(b) /\ b.key = b0.key /\ b.interval = b0.interval /\ b.comparison = b0.comparison /\ b.detail = None
      BY <3>1, <3>2, DetailCancels
    <3>4. Rest(a, b) /\ Rest(p, b)
      BY <1>1, <3>2, <3>3, RestGoesOn
    <3>5. Roots(a, b) /\ a.win = b.win
      BY <3>4 DEF Rest
    <3> QED
      BY <1>1, <3>2, <3>3, <3>4, <3>5, Drops
  <2>2. CASE ~(found /\ a.interval # None /\ a.interval \notin Loop!Intervals(a, a.key))
    <3>1. b = a
      BY <2>2
    <3>2. a.interval # None => a.interval \in Loop!Intervals(a, a.key)
      BY <1>1, <2>2 DEF Rooted
    <3> QED
      BY <1>1, <3>1, <3>2
  <2> QED
    BY <2>1, <2>2
<1> HIDE DEF b
<1>3. /\ c \in LoopPanels /\ Rest(p, c) /\ Awaits(c) /\ Rooted(c) /\ InView(c) /\ c.key = b.key
      /\ c.interval # None => c.interval \in Loop!Intervals(c, c.key)
      /\ c.comparison # None => \A n \in 1..2 : c.comparison[n] \in Loop!Intervals(c, c.key)
  <2>1. CASE found /\ b.comparison # None /\ ~({b.comparison[1], b.comparison[2]} \subseteq Loop!Intervals(b, b.key))
    <3>1. c = Loop!ResetComparison(b)
      BY <2>1
    <3> HIDE DEF c
    <3>2. c \in LoopPanels /\ Rest(b, c) /\ Awaits(c) /\ c.key = b.key /\ c.interval = b.interval /\ c.comparison = None /\ c.detail = None
      BY <1>2, <3>1, ComparisonResets
    <3>3. Rest(p, c) /\ Roots(b, c) /\ b.win = c.win
      BY <1>2, <3>2, RestGoesOn DEF Rest
    <3>4. Loop!Intervals(c, c.key) = Loop!Intervals(b, b.key)
      BY <3>2, <3>3, Groups
    <3>5. Rooted(c) /\ InView(c)
      BY <1>2, <3>2, <3>3, Drops
    <3> QED
      BY <1>2, <3>2, <3>3, <3>4, <3>5
  <2>2. CASE ~(found /\ b.comparison # None /\ ~({b.comparison[1], b.comparison[2]} \subseteq Loop!Intervals(b, b.key)))
    <3>1. c = b
      BY <2>2
    <3> HIDE DEF c
    <3>2. b.comparison # None => {b.comparison[1], b.comparison[2]} \subseteq Loop!Intervals(b, b.key)
      BY <1>1, <1>2, <2>2 DEF Rooted
    <3> QED
      BY <1>2, <3>1, <3>2
  <2> QED
    BY <2>1, <2>2
<1> HIDE DEF c
<1>4. d \in LoopPanels /\ Rest(p, d) /\ Awaits(d) /\ Exists(d) /\ InView(d)
  <2>1. CASE c.key = None /\ Loop!Recurring(c) # {}
    <3> DEFINE k == Loop!FirstKey(c)
    <3>1. k \in Marked /\ k \in Loop!Recurring(c)
      BY <1>3, <2>1, FirstRecurs
    <3>2. d = [c EXCEPT !.key = k]
      BY <2>1
    <3> HIDE DEF k, d
    <3>3. /\ d \in LoopPanels /\ Rest(c, d) /\ d.key = k /\ d.interval = c.interval /\ d.comparison = c.comparison /\ d.detail = c.detail
          /\ d.details = c.details
      BY <1>3, <3>1, <3>2, Selects
    <3>4. Rest(p, d) /\ Roots(c, d) /\ d.win = c.win
      BY <1>3, <3>3, RestGoesOn DEF Rest
    <3>5. Loop!Recurring(d) = Loop!Recurring(c) /\ Loop!Shown(d) = Loop!Shown(c)
      BY <3>4, Groups
    <3>6. c.interval = None /\ c.comparison = None
      BY <1>3, <2>1 DEF Rooted
    <3>7. Exists(d) /\ InView(d)
      BY <1>3, <3>1, <3>3, <3>4, <3>5, <3>6 DEF Exists, Rooted, InView
    <3>8. Awaits(d)
      BY <1>3, <3>3 DEF Awaits
    <3> QED
      BY <3>3, <3>4, <3>7, <3>8
  <2>2. CASE ~(c.key = None /\ Loop!Recurring(c) # {})
    <3>1. d = c
      BY <2>2
    <3> HIDE DEF d
    <3>2. Roots(p, c)
      BY <1>3 DEF Rest
    <3>3. c.key # None => c.key \in Loop!Recurring(c)
      BY <1>1, <1>2, <1>3, <3>2, Groups
    <3> QED
      BY <1>3, <3>1, <3>3 DEF Exists
  <2> QED
    BY <2>1, <2>2
<1> HIDE DEF d
<1> QED
  BY <1>0, <1>4

\* Another window drops what it does not hold.
LEMMA WindowChanges ==
  ASSUME NEW p \in LoopPanels, Awaits(p)
  PROVE  LET q == Loop!WindowChanged(p)
         IN q \in LoopPanels /\ Rest(p, q) /\ Awaits(q) /\ InView(q) /\ (Exists(p) => Exists(q)) /\ (Clear(p) => Clear(q))
<1> DEFINE outside == p.comparison # None /\ ~(Loop!IntervalIn(p.comparison[1], p.win) /\ Loop!IntervalIn(p.comparison[2], p.win))
           a == IF outside THEN Loop!ResetComparison(p) ELSE p
           b0 == [a EXCEPT !.interval = None]
           b == IF a.interval # None /\ ~Loop!IntervalIn(a.interval, a.win) THEN Loop!ResetComparison(b0) ELSE a
           c == IF b.detail # None /\ ~Loop!InWindow(b.detail, b.win) THEN Loop!CancelDetail(b) ELSE b
<1>0. Loop!WindowChanged(p) = c
  BY DEF Loop!WindowChanged
<1>1. /\ a \in LoopPanels /\ Rest(p, a) /\ Awaits(a) /\ a.key = p.key /\ a.interval \in {p.interval, None} /\ a.comparison \in {p.comparison, None}
      /\ a.detail \in {p.detail, None}
      /\ a.comparison # None => \A n \in 1..2 : Loop!IntervalIn(a.comparison[n], a.win)
  <2>1. CASE outside
    <3>1. a = Loop!ResetComparison(p)
      BY <2>1
    <3> HIDE DEF a
    <3> QED
      BY <3>1, ComparisonResets
  <2>2. CASE ~outside
    <3>1. a = p
      BY <2>2
    <3> HIDE DEF a
    <3> QED
      BY <2>2, <3>1 DEF Rest, Roots
  <2> QED
    BY <2>1, <2>2
<1> HIDE DEF a
<1>2. /\ b \in LoopPanels /\ Rest(p, b) /\ Awaits(b) /\ b.key = p.key /\ b.interval \in {p.interval, None} /\ b.comparison \in {p.comparison, None}
      /\ b.detail \in {p.detail, None}
      /\ b.comparison # None => \A n \in 1..2 : Loop!IntervalIn(b.comparison[n], b.win)
      /\ b.interval # None => Loop!IntervalIn(b.interval, b.win)
  <2>1. CASE a.interval # None /\ ~Loop!IntervalIn(a.interval, a.win)
    <3>1. b = Loop!ResetComparison(b0)
      BY <2>1
    <3>2. b0 \in LoopPanels /\ Rest(a, b0) /\ b0.key = a.key /\ b0.interval = None
      BY <1>1, Selects
    <3> HIDE DEF b, b0
    <3>3. b \in LoopPanels /\ Rest(b0, b) /\ Awaits(b) /\ b.key = b0.key /\ b.interval = None /\ b.comparison = None /\ b.detail = None
      BY <3>1, <3>2, ComparisonResets
    <3>4. Rest(p, b)
      BY <1>1, <3>2, <3>3, RestGoesOn
    <3> QED
      BY <1>1, <3>2, <3>3, <3>4
  <2>2. CASE ~(a.interval # None /\ ~Loop!IntervalIn(a.interval, a.win))
    <3>1. b = a
      BY <2>2
    <3> HIDE DEF b
    <3> QED
      BY <1>1, <2>2, <3>1
  <2> QED
    BY <2>1, <2>2
<1> HIDE DEF b
<1>3. /\ c \in LoopPanels /\ Rest(p, c) /\ Awaits(c) /\ c.key = p.key /\ c.interval \in {p.interval, None} /\ c.comparison \in {p.comparison, None}
      /\ c.detail \in {p.detail, None} /\ InView(c)
  <2>1. CASE b.detail # None /\ ~Loop!InWindow(b.detail, b.win)
    <3>1. c = Loop!CancelDetail(b)
      BY <2>1
    <3> HIDE DEF c
    <3>2. c \in LoopPanels /\ Rest(b, c) /\ Awaits(c) /\ c.key = b.key /\ c.interval = b.interval /\ c.comparison = b.comparison /\ c.detail = None
      BY <1>2, <3>1, DetailCancels
    <3>3. Rest(p, c) /\ c.win = b.win
      BY <1>2, <3>2, RestGoesOn DEF Rest
    <3> QED
      BY <1>2, <3>2, <3>3 DEF InView
  <2>2. CASE ~(b.detail # None /\ ~Loop!InWindow(b.detail, b.win))
    <3>1. c = b
      BY <2>2
    <3> HIDE DEF c
    <3> QED
      BY <1>2, <2>2, <3>1 DEF InView
  <2> QED
    BY <2>1, <2>2
<1> HIDE DEF c
<1>4. Roots(p, c)
  BY <1>3 DEF Rest
<1> QED
  BY <1>0, <1>3, <1>4, Drops

\* A session is opened.
LEMMA LoopOpens ==
  ASSUME NEW p \in LoopPanels, NEW ref \in Loop!Refs
  PROVE  LET q == Loop!Opened(p, ref)
         IN LoopOk(q) /\ q.phase = "loading" /\ q.ref = ref /\ q.last = p.last /\ q.win = p.win /\ q.selfWritten = p.selfWritten
<1> DEFINE a == Loop!NoSelection(p)
           q == Loop!Opened(p, ref)
<1>1. a \in LoopPanels /\ Rest(p, a) /\ Awaits(a) /\ Clear(a)
  BY NothingSelected
<1>2. q = [a EXCEPT !.phase = "loading", !.ref = ref, !.events = {}, !.status = "pending"]
  BY DEF Loop!Opened
<1> HIDE DEF a, q
<1>3. /\ q \in LoopPanels /\ q.phase = "loading" /\ q.ref = ref /\ q.last = a.last /\ q.win = a.win /\ q.selfWritten = a.selfWritten
      /\ q.key = a.key /\ q.interval = a.interval /\ q.comparison = a.comparison /\ q.detail = a.detail /\ q.details = a.details
  BY <1>1, <1>2 DEF LoopPanels, Phases
<1>4. LoopOk(q)
  BY <1>1, <1>3 DEF LoopOk, Awaits, Clear
<1> QED
  BY <1>1, <1>3, <1>4 DEF q, Rest

LEMMA Undone ==
  ASSUME NEW hs \in SUBSET LoopAsks
  PROVE  Loop!Dropped(hs) \subseteq LoopAsks /\ \A h \in Loop!Dropped(hs) : ~h.inForce
BY DEF LoopAsks, Loop!Dropped

LEMMA LoopRequests ==
  ASSUME NEW q, NEW hs \in SUBSET LoopAsks, NEW ref \in Loop!Refs, q.phase = "loading", q.ref = ref
  PROVE  Loading(q, Loop!Requests(hs, ref))
<1> DEFINE new == [ref |-> ref, inForce |-> TRUE]
<1>1. Loop!Requests(hs, ref) = Loop!Dropped(hs) \cup {new}
  BY DEF Loop!Requests
<1>2. Loop!Dropped(hs) \subseteq LoopAsks /\ \A h \in Loop!Dropped(hs) : ~h.inForce
  BY Undone
<1>3. new.inForce = TRUE /\ new.ref = ref /\ new \in LoopAsks
  BY DEF LoopAsks
<1> HIDE DEF new
<1>4. \A h \in Loop!Requests(hs, ref) : h.inForce => h = new
  BY <1>1, <1>2
<1>5. new \in Loop!Requests(hs, ref)
  BY <1>1
<1>6. (q.phase = "loading") <=> (\E h \in Loop!Requests(hs, ref) : h.inForce)
  BY <1>3, <1>5
<1>7. \A h \in Loop!Requests(hs, ref) : h.inForce => h.ref.id = q.ref.id
  BY <1>3, <1>4
<1>8. \A h, g \in Loop!Requests(hs, ref) : h.inForce /\ g.inForce => h = g
  BY <1>4
<1> QED
  BY <1>1, <1>2, <1>3, <1>6, <1>7, <1>8, KeysApart DEF Loading

\* open, or the panel as it is.
LEMMA LoopSettles ==
  ASSUME NEW p \in LoopPanels, NEW ref \in Loop!Refs \cup {None}, Loop!Settle(p, ref), histories \subseteq LoopAsks, ref = None => LoopOk(p) /\ Loading(p, histories)
  PROVE  /\ LoopOk(panel') /\ Loading(panel', histories') /\ panel'.win = p.win /\ panel'.last = p.last
         /\ panel'.ref = IF ref = None THEN p.ref ELSE ref
         /\ ref = None => panel' = p /\ UNCHANGED <<histories, signatures, timer>>
<1>1. CASE ref = None
  BY <1>1 DEF Loop!Settle
<1>2. CASE ref # None
  <2>1. ref \in Loop!Refs /\ panel' = Loop!Opened(p, ref) /\ histories' = Loop!Requests(histories, ref)
    BY <1>2 DEF Loop!Settle
  <2>2. LoopOk(panel') /\ panel'.phase = "loading" /\ panel'.ref = ref /\ panel'.last = p.last /\ panel'.win = p.win
    BY <2>1, LoopOpens
  <2>3. Loading(panel', histories')
    BY <2>1, <2>2, LoopRequests
  <2> QED
    BY <1>2, <2>2, <2>3
<1> QED
  BY <1>1, <1>2

\* The scope is delivered.
LEMMA LoopDelivers ==
  ASSUME NEW p \in LoopPanels, Awaits(p), NEW sc, ScopeOk(sc)
  PROVE  LET q == Loop!Delivered(p, sc)
         IN /\ q \in LoopPanels /\ Awaits(q) /\ Roots(p, q) /\ q.phase = p.phase /\ q.win = sc.window /\ q.last = sc.session
            /\ (Loop!ToOpen(p, sc) = None /\ LoopOk(p) => LoopOk(q))
<1> DEFINE r == [p EXCEPT !.win = sc.window, !.last = sc.session, !.selfWritten = @ /\ sc.session # None /\ sc.session = p.last]
           told == sc.window # p.win /\ (sc.session = None \/ sc.session = p.last)
           q == IF told THEN Loop!WindowChanged(r) ELSE r
<1>1. Loop!Delivered(p, sc) = q
  BY Zenon DEF Loop!Delivered
<1> DEFINE own == p.selfWritten /\ sc.session # None /\ sc.session = p.last
<1>a. own \in BOOLEAN /\ r = [p EXCEPT !.win = sc.window, !.last = sc.session, !.selfWritten = own]
  OBVIOUS
<1> HIDE DEF r, own
<1>2. /\ r \in LoopPanels /\ Roots(p, r) /\ r.phase = p.phase /\ r.win = sc.window /\ r.last = sc.session
      /\ r.key = p.key /\ r.interval = p.interval /\ r.comparison = p.comparison /\ r.detail = p.detail /\ r.details = p.details
  BY <1>a DEF LoopPanels, ScopeOk, Roots
<1>3. Awaits(r)
  BY <1>2 DEF Awaits
<1>4. (Exists(p) => Exists(r)) /\ (Clear(p) => Clear(r)) /\ (p.win = sc.window /\ InView(p) => InView(r))
  BY <1>2, Drops
<1>5. CASE told
  <2>1. q = Loop!WindowChanged(r)
    BY <1>5
  <2> HIDE DEF q
  <2>2. q \in LoopPanels /\ Rest(r, q) /\ Awaits(q) /\ InView(q) /\ (Exists(r) => Exists(q)) /\ (Clear(r) => Clear(q))
    BY <1>2, <1>3, <2>1, WindowChanges
  <2>3. Roots(p, q) /\ q.phase = p.phase /\ q.win = sc.window /\ q.last = sc.session
    BY <1>2, <2>2 DEF Rest, Roots
  <2>4. LoopOk(p) => LoopOk(q)
    BY <1>4, <2>2, <2>3 DEF LoopOk
  <2> QED
    BY <1>1, <2>2, <2>3, <2>4
<1>6. CASE ~told
  <2>1. q = r
    BY <1>6
  <2>2. Loop!ToOpen(p, sc) = None => sc.window = p.win
    BY <1>6 DEF Loop!ToOpen
  <2> HIDE DEF q, told
  <2>3. Loop!ToOpen(p, sc) = None /\ LoopOk(p) => LoopOk(r)
    BY <1>2, <1>3, <1>4, <2>2 DEF LoopOk
  <2> QED
    BY <1>1, <1>2, <1>3, <2>1, <2>3
<1> QED
  BY <1>5, <1>6

LEMMA LoopsInit == Loop!Init => LoopsInv
<1> SUFFICES ASSUME Loop!Init PROVE LoopsInv
  OBVIOUS
<1>1. ScopeOk(scope)
  <2>1. PICK m \in {} \cup {None}, r \in Loop!Refs \cup {None} : scope = [Loop!EmptyScope EXCEPT !.project = m, !.session = r]
    BY DEF Loop!Init
  <2>2. scope.session = r /\ scope.window = "live"
    BY <2>1 DEF Loop!EmptyScope, Loop!Context, Loop!Live
  <2> QED
    BY <2>2 DEF ScopeOk, Loop!AnyWindow, Loop!Live
<1>2. active = FALSE /\ histories = {}
      /\ panel = [phase |-> "idle", ref |-> None, last |-> None, selfWritten |-> FALSE, win |-> Loop!Live, events |-> {},
                  status |-> "pending", key |-> None, interval |-> None, comparison |-> None, detail |-> None, details |-> {}]
  BY DEF Loop!Init
<1>3. panel \in LoopPanels /\ Clear(panel) /\ Awaits(panel) /\ panel.phase = "idle" /\ panel.last = None
  BY <1>2 DEF LoopPanels, Clear, Awaits, Phases, Loop!AnyWindow
<1>4. LoopOk(panel) /\ Loading(panel, histories) /\ LoopTold(panel, scope, active)
  BY <1>2, <1>3 DEF LoopOk, Loading, LoopTold
<1> QED
  BY <1>1, <1>2, <1>4 DEF LoopsInv

LEMMA ToOpenTyped == \A p, sc : ScopeOk(sc) => Loop!ToOpen(p, sc) \in Loop!Refs \cup {None}
BY DEF Loop!ToOpen, ScopeOk

LEMMA LoopsUsual ==
  ASSUME LoopsInv
  PROVE  /\ ScopeOk(scope) /\ LoopOk(panel) /\ panel \in LoopPanels /\ Awaits(panel) /\ Loading(panel, histories) /\ active \in BOOLEAN
         /\ LoopTold(panel, scope, active)
BY DEF LoopsInv, LoopOk

LEMMA LoopsMove ==
  ASSUME LoopsInv, Loop!Enter \/ Loop!Leave \/ Loop!ScopeMoves
  PROVE  LoopsInv'
<1>0. /\ ScopeOk(scope) /\ LoopOk(panel) /\ panel \in LoopPanels /\ Awaits(panel) /\ Loading(panel, histories) /\ active \in BOOLEAN
      /\ LoopTold(panel, scope, active)
  BY LoopsUsual
<1>1. CASE Loop!Enter
  <2> DEFINE p == Loop!Delivered(panel, scope)
             want == Loop!ToOpen(panel, scope)
             ref == IF want = None /\ scope.session # None /\ scope.session # p.ref THEN scope.session ELSE want
  <2>1. ~active /\ active' = TRUE /\ Loop!Settle(p, ref) /\ scope' = scope
    BY <1>1 DEF Loop!Enter
  <2>2. panel.last = None
    BY <1>0, <2>1 DEF LoopTold
  <2>3. want = scope.session
    BY <2>2 DEF Loop!ToOpen
  <2>4. ref = scope.session
    BY <2>3
  <2>5. p \in LoopPanels /\ Roots(panel, p) /\ p.phase = panel.phase /\ p.win = scope.window /\ p.last = scope.session /\ (want = None => LoopOk(p))
    BY <1>0, LoopDelivers
  <2> HIDE DEF p, want, ref
  <2>6. Loading(p, histories)
    BY <1>0, <2>5 DEF Loading, Roots
  <2>7. /\ LoopOk(panel') /\ Loading(panel', histories') /\ panel'.win = p.win /\ panel'.last = p.last
        /\ panel'.ref = IF ref = None THEN p.ref ELSE ref
    BY <1>0, <2>1, <2>3, <2>4, <2>5, <2>6, LoopSettles DEF ScopeOk, Loading
  <2>8. LoopTold(panel', scope', active')
    BY <2>1, <2>4, <2>5, <2>7 DEF LoopTold
  <2> QED
    BY <1>0, <2>1, <2>7, <2>8 DEF LoopsInv
<1>2. CASE Loop!Leave
  <2> DEFINE p == [panel EXCEPT !.last = None, !.selfWritten = FALSE]
             e == [p EXCEPT !.phase = "error"]
  <2>1. active' = FALSE /\ scope' = scope
    BY <1>2 DEF Loop!Leave
  <2>2. /\ p \in LoopPanels /\ Roots(panel, p) /\ p.phase = panel.phase /\ p.win = panel.win /\ p.last = None
        /\ p.key = panel.key /\ p.interval = panel.interval /\ p.comparison = panel.comparison /\ p.detail = panel.detail /\ p.details = panel.details
    BY <1>0 DEF LoopPanels, Roots
  <2>3. /\ e \in LoopPanels /\ e.phase = "error" /\ e.last = p.last /\ Roots(p, e)
        /\ e.key = p.key /\ e.interval = p.interval /\ e.comparison = p.comparison /\ e.detail = p.detail
    BY <2>2 DEF LoopPanels, Roots, Phases
  <2>4. CASE p.phase = "loading"
    <3>1. panel' = Loop!CancelDetail(e) /\ histories' = Loop!Dropped(histories)
      BY <1>2, <2>4 DEF Loop!Leave
    <3> HIDE DEF p, e
    <3>2. panel' \in LoopPanels /\ Rest(e, panel') /\ Awaits(panel') /\ panel'.key = e.key /\ panel'.interval = e.interval
          /\ panel'.comparison = e.comparison /\ panel'.detail = None
      BY <2>3, <3>1, DetailCancels
    <3>3. Clear(panel)
      BY <1>0, <2>2, <2>4 DEF LoopOk
    <3>4. panel'.phase = "error" /\ panel'.last = None /\ Clear(panel')
      BY <2>2, <2>3, <3>2, <3>3 DEF Rest, Clear
    <3>5. Loading(panel', histories')
      BY <1>0, <3>1, <3>4, Undone DEF Loading
    <3>6. LoopOk(panel') /\ LoopTold(panel', scope', active')
      BY <2>1, <3>2, <3>4 DEF LoopOk, LoopTold
    <3> QED
      BY <1>0, <2>1, <3>5, <3>6 DEF LoopsInv
  <2>5. CASE p.phase # "loading"
    <3>1. panel' = p /\ histories' = histories
      BY <1>2, <2>5 DEF Loop!Leave
    <3> HIDE DEF p, e
    <3>2. (Exists(panel) => Exists(p)) /\ (Clear(panel) => Clear(p)) /\ (InView(panel) => InView(p)) /\ Awaits(p)
      BY <1>0, <2>2, Drops DEF Awaits
    <3>3. LoopOk(p) /\ Loading(p, histories)
      BY <1>0, <2>2, <3>2 DEF LoopOk, Loading, Roots
    <3>4. LoopTold(panel', scope', active')
      BY <2>1, <2>2, <3>1 DEF LoopTold
    <3> QED
      BY <1>0, <2>1, <3>1, <3>3, <3>4 DEF LoopsInv
  <2> QED
    BY <2>4, <2>5
<1>3. CASE Loop!ScopeMoves
  <2>1. PICK sc \in Loop!Scopes :
          /\ scope' = sc
          /\ IF active THEN Loop!Settle(Loop!Delivered(panel, sc), Loop!ToOpen(panel, sc)) ELSE UNCHANGED <<panel, histories, signatures, timer>>
    BY <1>3 DEF Loop!ScopeMoves
  <2>2. active' = active /\ ScopeOk(sc)
    BY <1>3 DEF Loop!ScopeMoves, ScopeOk, Loop!Scopes
  <2>3. CASE ~active
    BY <1>0, <2>1, <2>2, <2>3 DEF LoopsInv, LoopTold
  <2>4. CASE active
    <3> DEFINE p == Loop!Delivered(panel, sc)
               want == Loop!ToOpen(panel, sc)
    <3>1. p \in LoopPanels /\ Roots(panel, p) /\ p.phase = panel.phase /\ p.win = sc.window /\ p.last = sc.session /\ (want = None => LoopOk(p))
      BY <1>0, <2>2, LoopDelivers
    <3>2. want \in Loop!Refs \cup {None}
      BY <2>2, ToOpenTyped
    <3>3. want = IF sc.session # None /\ sc.session # panel.last THEN sc.session ELSE None
      BY DEF Loop!ToOpen
    <3>4. Loop!Settle(p, want)
      BY <2>1, <2>4
    <3> HIDE DEF p, want
    <3>5. Loading(p, histories)
      BY <1>0, <3>1 DEF Loading, Roots
    <3>6. /\ LoopOk(panel') /\ Loading(panel', histories') /\ panel'.win = p.win /\ panel'.last = p.last
          /\ panel'.ref = IF want = None THEN p.ref ELSE want
      BY <1>0, <3>1, <3>2, <3>4, <3>5, LoopSettles DEF Loading
    <3>7. sc.session # None /\ want = None => panel.ref = sc.session
      BY <1>0, <3>3 DEF LoopTold
    <3>8. LoopTold(panel', scope', active')
      BY <2>1, <2>2, <2>4, <3>1, <3>3, <3>6, <3>7 DEF LoopTold, Roots
    <3> QED
      BY <2>1, <2>2, <2>4, <3>6, <3>8 DEF LoopsInv
  <2> QED
    BY <1>0, <2>3, <2>4
<1> QED
  BY <1>1, <1>2, <1>3

\* A step that leaves the session where it is.
LEMMA LoopsQuiet ==
  ASSUME LoopsInv, Rest(panel, panel'), LoopOk(panel'), UNCHANGED <<scope, active, histories>>
  PROVE  LoopsInv'
<1>1. Loading(panel', histories') /\ LoopTold(panel', scope', active')
  BY DEF LoopsInv, Loading, LoopTold, Rest, Roots
<1> QED
  BY <1>1 DEF LoopsInv

\* What a picker writes is the reference, in the window that is kept or the live one.
LEMMA Writes ==
  ASSUME NEW s, ScopeOk(s), NEW ref \in Loop!Refs, NEW member \in BOOLEAN
  PROVE  LET w == Loop!Written(s, ref, member) IN ScopeOk(w) /\ w.session = ref
<1> USE DEF Loop!Narrow, Loop!Compute, Loop!Context, Loop!Live, ScopeOk, Loop!AnyWindow
<1>1. LET n == Loop!Narrow(s, [session |-> ref, window |-> s.window]) IN ScopeOk(n) /\ n.session = ref
  OBVIOUS
<1>2. LET n == Loop!ReplaceContext(s, [session |-> ref, window |-> s.window]) IN ScopeOk(n) /\ n.session = ref
  BY DEF Loop!ReplaceContext, Loop!EmptyScope
<1>3. LET n == Loop!Narrow(s, [session |-> ref]) IN ScopeOk(n) /\ n.session = ref
  OBVIOUS
<1>4. LET n == Loop!ReplaceContext(s, [session |-> ref]) IN ScopeOk(n) /\ n.session = ref
  BY DEF Loop!ReplaceContext, Loop!EmptyScope
<1> HIDE DEF Loop!Narrow, Loop!Compute, Loop!Context, Loop!Live, ScopeOk, Loop!AnyWindow
<1> QED
  BY <1>1, <1>2, <1>3, <1>4, Zenon DEF Loop!Written, Loop!SelectSession

LEMMA Clears ==
  ASSUME NEW s, ScopeOk(s)
  PROVE  LET n == Loop!Narrow(s, [session |-> None]) IN ScopeOk(n) /\ n.session = None
BY DEF Loop!Narrow, Loop!Compute, Loop!Context, Loop!Live, ScopeOk, Loop!AnyWindow

LEMMA Owns ==
  ASSUME NEW p \in LoopPanels, NEW ref \in Loop!Refs
  PROVE  LET q == Loop!Own(p, ref)
         IN /\ q \in LoopPanels /\ Roots(p, q) /\ q.phase = p.phase /\ q.win = p.win /\ q.last = ref /\ q.details = p.details
            /\ q.key = p.key /\ q.interval = p.interval /\ q.comparison = p.comparison /\ q.detail = p.detail
BY DEF Loop!Own, LoopPanels, Roots

LEMMA LoopsPick ==
  ASSUME LoopsInv, Loop!PickSession \/ Loop!PickNone \/ Loop!Reopen
  PROVE  LoopsInv'
<1>0. /\ ScopeOk(scope) /\ LoopOk(panel) /\ panel \in LoopPanels /\ Awaits(panel) /\ Loading(panel, histories) /\ active \in BOOLEAN
      /\ LoopTold(panel, scope, active) /\ histories \in SUBSET LoopAsks
  BY LoopsUsual DEF Loading
<1>1. CASE Loop!PickSession
  <2>1. PICK id \in Loop!Ids, member \in BOOLEAN :
          LET ref == [id |-> id, source |-> None]
              sc == Loop!Written(scope, ref, member)
              p == Loop!Own(Loop!Opened(panel, ref), ref)
          IN scope' = sc /\ panel' = Loop!Delivered(p, sc) /\ histories' = Loop!Requests(histories, ref)
    BY <1>1 DEF Loop!PickSession
  <2>2. active /\ active' = active
    BY <1>1 DEF Loop!PickSession
  <2> DEFINE ref == [id |-> id, source |-> None]
             sc == Loop!Written(scope, ref, member)
             o == Loop!Opened(panel, ref)
             p == Loop!Own(o, ref)
  <2>3. ref \in Loop!Refs
    BY DEF Loop!Refs
  <2>4. scope' = sc /\ panel' = Loop!Delivered(p, sc) /\ histories' = Loop!Requests(histories, ref)
    BY <2>1
  <2> HIDE DEF ref
  <2>5. ScopeOk(sc) /\ sc.session = ref
    BY <1>0, <2>3, Writes
  <2> HIDE DEF sc
  <2>6. LoopOk(o) /\ o \in LoopPanels /\ o.phase = "loading" /\ o.ref = ref
    BY <1>0, <2>3, LoopOpens DEF LoopOk
  <2> HIDE DEF o
  <2>7. /\ p \in LoopPanels /\ Roots(o, p) /\ p.phase = o.phase /\ p.last = ref /\ p.details = o.details
        /\ p.key = o.key /\ p.interval = o.interval /\ p.comparison = o.comparison /\ p.detail = o.detail
    BY <2>3, <2>6, Owns
  <2> HIDE DEF p
  <2>8. LoopOk(p)
    BY <2>6, <2>7 DEF LoopOk, Awaits, Clear
  <2>9. Loop!ToOpen(p, sc) = None
    BY <2>5, <2>7 DEF Loop!ToOpen
  <2>10. LoopOk(panel') /\ Roots(p, panel') /\ panel'.phase = "loading" /\ panel'.win = sc.window /\ panel'.last = ref
    BY <2>4, <2>5, <2>6, <2>7, <2>8, <2>9, LoopDelivers DEF LoopOk
  <2>11. panel'.ref = ref
    BY <2>6, <2>7, <2>10 DEF Roots
  <2>12. Loading(panel', histories')
    BY <1>0, <2>3, <2>4, <2>10, <2>11, LoopRequests
  <2>13. LoopTold(panel', scope', active')
    BY <2>2, <2>4, <2>5, <2>10, <2>11 DEF LoopTold
  <2> QED
    BY <1>0, <2>2, <2>4, <2>5, <2>10, <2>12, <2>13 DEF LoopsInv
<1>2. CASE Loop!PickNone
  <2> DEFINE sc == Loop!Narrow(scope, [session |-> None])
             p == Loop!Delivered(panel, sc)
             n == Loop!NoSelection(p)
             q == [n EXCEPT !.phase = "idle", !.ref = None, !.events = {}]
  <2>1. active /\ active' = active /\ scope' = sc /\ histories' = Loop!Dropped(histories)
    BY <1>2 DEF Loop!PickNone
  <2>2. panel' = q
    <3>1. scope' = sc /\ panel' = [Loop!NoSelection(Loop!Delivered(panel, scope')) EXCEPT !.phase = "idle", !.ref = None, !.events = {}]
      BY <1>2 DEF Loop!PickNone
    <3> QED
      BY <3>1
  <2>3. ScopeOk(sc) /\ sc.session = None
    BY <1>0, Clears
  <2> HIDE DEF sc
  <2>4. p \in LoopPanels /\ p.win = sc.window /\ p.last = sc.session
    BY <1>0, <2>3, LoopDelivers
  <2> HIDE DEF p
  <2>5. n \in LoopPanels /\ Rest(p, n) /\ Awaits(n) /\ Clear(n)
    BY <2>4, NothingSelected
  <2> HIDE DEF n
  <2>6. /\ q \in LoopPanels /\ q.phase = "idle" /\ q.last = n.last /\ q.win = n.win
        /\ q.key = n.key /\ q.interval = n.interval /\ q.comparison = n.comparison /\ q.detail = n.detail /\ q.details = n.details
    BY <2>5 DEF LoopPanels, Phases
  <2> HIDE DEF q
  <2>7. LoopOk(q)
    BY <2>5, <2>6 DEF LoopOk, Awaits, Clear
  <2>8. Loading(q, histories')
    BY <1>0, <2>1, <2>6, Undone DEF Loading
  <2>9. LoopTold(q, scope', active')
    BY <2>1, <2>3, <2>4, <2>5, <2>6 DEF LoopTold, Rest
  <2> QED
    BY <1>0, <2>1, <2>2, <2>3, <2>7, <2>8, <2>9 DEF LoopsInv
<1>3. CASE Loop!Reopen
  <2>1. Loop!Settle(panel, panel.ref) /\ panel.ref # None /\ UNCHANGED <<scope, active>>
    BY <1>3 DEF Loop!Reopen
  <2>2. panel.ref \in Loop!Refs \cup {None}
    BY <1>0 DEF LoopPanels
  <2>3. LoopOk(panel') /\ Loading(panel', histories') /\ panel'.win = panel.win /\ panel'.last = panel.last /\ panel'.ref = panel.ref
    BY <1>0, <2>1, <2>2, LoopSettles
  <2>4. LoopTold(panel', scope', active')
    BY <1>0, <2>1, <2>3 DEF LoopTold
  <2> QED
    BY <1>0, <2>1, <2>3, <2>4 DEF LoopsInv
<1> QED
  BY <1>1, <1>2, <1>3

\* A loaded panel derives; another one has nothing to derive.
LEMMA LoopDerives ==
  ASSUME NEW p \in LoopPanels, Awaits(p), p.phase = "ready" => Rooted(p) /\ InView(p), p.phase # "ready" => Clear(p)
  PROVE  LET q == Loop!DeriveIfLoaded(p) IN LoopOk(q) /\ Rest(p, q)
<1>1. CASE p.phase = "ready"
  <2> DEFINE q == Loop!Derive(p)
  <2>1. q \in LoopPanels /\ Rest(p, q) /\ Awaits(q) /\ Exists(q) /\ InView(q)
    BY <1>1, Derives
  <2>2. Loop!DeriveIfLoaded(p) = q
    BY <1>1 DEF Loop!DeriveIfLoaded
  <2> HIDE DEF q
  <2>3. LoopOk(q)
    BY <1>1, <2>1 DEF LoopOk, Rest
  <2> QED
    BY <2>1, <2>2, <2>3
<1>2. CASE p.phase # "ready"
  <2>1. Loop!DeriveIfLoaded(p) = p
    BY <1>2 DEF Loop!DeriveIfLoaded
  <2>2. LoopOk(p) /\ Rest(p, p)
    BY <1>2 DEF LoopOk, Rest, Roots
  <2> QED
    BY <2>1, <2>2
<1> QED
  BY <1>1, <1>2

\* The source picker filters in place.
LEMMA LoopsSource ==
  ASSUME LoopsInv, Loop!PickSource
  PROVE  LoopsInv' /\ panel'.phase = "ready" /\ histories' = histories /\ signatures' = signatures
<1>0. /\ ScopeOk(scope) /\ LoopOk(panel) /\ panel \in LoopPanels /\ Awaits(panel) /\ Loading(panel, histories) /\ active \in BOOLEAN
      /\ LoopTold(panel, scope, active) /\ histories \in SUBSET LoopAsks
  BY LoopsUsual DEF Loading
<1>1. PICK s \in Loop!Sources \cup {None}, member \in BOOLEAN :
        LET ref == [panel.ref EXCEPT !.source = s]
            sc == Loop!Written(scope, ref, member)
            p == Loop!Own([panel EXCEPT !.ref = ref], ref)
        IN scope' = sc /\ Loop!Settle(Loop!DeriveIfLoaded(Loop!NoSelection(Loop!Delivered(p, sc))), Loop!ToOpen(p, sc))
  BY DEF Loop!PickSource
<1>2. active /\ active' = active /\ panel.phase = "ready"
  BY DEF Loop!PickSource
<1> DEFINE ref == [panel.ref EXCEPT !.source = s]
           sc == Loop!Written(scope, ref, member)
           r == [panel EXCEPT !.ref = ref]
           p == Loop!Own(r, ref)
           d == Loop!Delivered(p, sc)
           n == Loop!NoSelection(d)
           q == Loop!DeriveIfLoaded(n)
<1>3. scope' = sc /\ Loop!Settle(q, Loop!ToOpen(p, sc))
  BY <1>1
<1>4. panel.ref \in Loop!Refs
  BY <1>0, <1>2 DEF LoopPanels, Loading
<1>5. ref \in Loop!Refs /\ ref.id = panel.ref.id
  BY <1>4 DEF Loop!Refs
<1> HIDE DEF ref
<1>6. ScopeOk(sc) /\ sc.session = ref
  BY <1>0, <1>5, Writes
<1> HIDE DEF sc
<1>7. r \in LoopPanels /\ r.phase = panel.phase /\ r.ref = ref /\ r.details = panel.details /\ r.detail = panel.detail
  BY <1>0, <1>5 DEF LoopPanels
<1> HIDE DEF r
<1>8. p \in LoopPanels /\ p.ref = ref /\ p.phase = "ready" /\ p.last = ref /\ p.details = panel.details /\ p.detail = panel.detail
  BY <1>2, <1>5, <1>7, Owns DEF Roots
<1> HIDE DEF p
<1>9. Loop!ToOpen(p, sc) = None /\ Awaits(p)
  BY <1>0, <1>6, <1>8 DEF Loop!ToOpen, Awaits
<1>10. d \in LoopPanels /\ d.ref = ref /\ d.phase = "ready" /\ d.win = sc.window /\ d.last = sc.session
  BY <1>6, <1>8, <1>9, LoopDelivers DEF Roots
<1> HIDE DEF d
<1>11. n \in LoopPanels /\ Rest(d, n) /\ Awaits(n) /\ Clear(n)
  BY <1>10, NothingSelected
<1> HIDE DEF n
<1>12. LoopOk(q) /\ Rest(n, q)
  BY <1>11, ClearStands, LoopDerives
<1> HIDE DEF q
<1>13. panel' = q /\ UNCHANGED <<histories, signatures, timer>>
  BY <1>3, <1>9 DEF Loop!Settle
<1>14. q.ref = ref /\ q.phase = "ready" /\ q.win = sc.window /\ q.last = ref
  BY <1>6, <1>10, <1>11, <1>12 DEF Rest, Roots
<1>15. Loading(q, histories)
  BY <1>0, <1>2, <1>5, <1>14, KeysApart DEF Loading
<1>16. LoopTold(q, scope', active')
  BY <1>2, <1>3, <1>6, <1>14 DEF LoopTold
<1> QED
  BY <1>0, <1>2, <1>3, <1>6, <1>12, <1>13, <1>14, <1>15, <1>16 DEF LoopsInv

\* The history that is in force arrives, or fails.
LEMMA LoopsAnswer ==
  ASSUME LoopsInv, Loop!HistoryAnswered \/ Loop!HistoryFails
  PROVE  LoopsInv'
<1>0. /\ ScopeOk(scope) /\ LoopOk(panel) /\ panel \in LoopPanels /\ Awaits(panel) /\ Loading(panel, histories) /\ active \in BOOLEAN
      /\ LoopTold(panel, scope, active) /\ histories \in SUBSET LoopAsks
  BY LoopsUsual DEF Loading
<1>1. PICK h \in histories :
        /\ histories' = histories \ {h}
        /\ \/ ~h.inForce /\ panel' = panel
           \/ h.inForce /\ panel' = Loop!Derive([panel EXCEPT !.phase = "ready", !.events = {e \in LoopErrors : e.session = h.ref.id}])
           \/ h.inForce /\ panel' = [panel EXCEPT !.phase = "error"]
  BY DEF Loop!HistoryAnswered, Loop!HistoryFails
<1>2. UNCHANGED <<scope, active>>
  BY DEF Loop!HistoryAnswered, Loop!HistoryFails
<1>3. CASE ~h.inForce /\ panel' = panel
  <2>1. Loading(panel, histories')
    BY <1>0, <1>1, <1>3 DEF Loading
  <2> QED
    BY <1>0, <1>2, <1>3, <2>1 DEF LoopsInv
<1>4. CASE h.inForce
  <2>1. panel.phase = "loading" /\ panel.ref # None /\ Clear(panel) /\ \A g \in histories' : ~g.inForce
    BY <1>0, <1>1, <1>4 DEF Loading, LoopOk
  <2>2. CASE panel' = Loop!Derive([panel EXCEPT !.phase = "ready", !.events = {e \in LoopErrors : e.session = h.ref.id}])
    <3> DEFINE es == {e \in LoopErrors : e.session = h.ref.id}
               p == [panel EXCEPT !.phase = "ready", !.events = es]
               q == Loop!Derive(p)
    <3>1. panel' = q /\ es \subseteq LoopErrors
      BY <2>2
    <3> HIDE DEF es
    <3>2. /\ p \in LoopPanels /\ p.phase = "ready" /\ p.ref = panel.ref /\ p.win = panel.win /\ p.last = panel.last /\ p.details = panel.details
          /\ p.key = panel.key /\ p.interval = panel.interval /\ p.comparison = panel.comparison /\ p.detail = panel.detail
      BY <1>0, <3>1 DEF LoopPanels, Phases
    <3> HIDE DEF p
    <3>3. Clear(p) /\ Awaits(p)
      BY <1>0, <2>1, <3>2 DEF Clear, Awaits
    <3>4. q \in LoopPanels /\ Rest(p, q) /\ Awaits(q) /\ Exists(q) /\ InView(q)
      BY <3>2, <3>3, ClearStands, Derives
    <3> HIDE DEF q
    <3>5. q.phase = "ready" /\ q.ref = panel.ref /\ q.win = panel.win /\ q.last = panel.last
      BY <3>2, <3>4 DEF Rest, Roots
    <3>6. LoopOk(q) /\ Loading(q, histories') /\ LoopTold(q, scope, active)
      BY <1>0, <1>1, <2>1, <3>4, <3>5 DEF LoopOk, Loading, LoopTold
    <3> QED
      BY <1>0, <1>2, <3>1, <3>6 DEF LoopsInv
  <2>3. CASE panel' = [panel EXCEPT !.phase = "error"]
    <3> DEFINE q == [panel EXCEPT !.phase = "error"]
    <3>1. panel' = q
      BY <2>3
    <3>2. /\ q \in LoopPanels /\ q.phase = "error" /\ q.ref = panel.ref /\ q.win = panel.win /\ q.last = panel.last /\ q.details = panel.details
          /\ q.key = panel.key /\ q.interval = panel.interval /\ q.comparison = panel.comparison /\ q.detail = panel.detail
      BY <1>0 DEF LoopPanels, Phases
    <3> HIDE DEF q
    <3>3. LoopOk(q) /\ Loading(q, histories') /\ LoopTold(q, scope, active)
      BY <1>0, <1>1, <2>1, <3>2 DEF LoopOk, Clear, Awaits, Loading, LoopTold
    <3> QED
      BY <1>0, <1>2, <3>1, <3>3 DEF LoopsInv
  <2> QED
    BY <1>1, <1>4, <2>2, <2>3
<1> QED
  BY <1>1, <1>3, <1>4

\* The signatures arrive, fail, or are given up.
LEMMA LoopsSigned ==
  ASSUME LoopsInv, Loop!SignaturesAnswered \/ Loop!SignaturesFail \/ Loop!SignaturesTimeOut
  PROVE  LoopsInv'
<1>0. /\ LoopOk(panel) /\ panel \in LoopPanels /\ Awaits(panel)
  BY LoopsUsual
<1>1. UNCHANGED <<scope, active, histories>>
  BY DEF Loop!SignaturesAnswered, Loop!SignaturesFail, Loop!SignaturesTimeOut, Loop!SignaturesEnd
<1>2. panel' = panel \/ \E status \in {"ready", "unavailable"} : panel' = Loop!DeriveIfLoaded([panel EXCEPT !.status = status])
  BY DEF Loop!SignaturesAnswered, Loop!SignaturesFail, Loop!SignaturesTimeOut, Loop!SignaturesEnd
<1>3. CASE panel' = panel
  BY <1>0, <1>1, <1>3, LoopsQuiet DEF Rest, Roots
<1>4. CASE \E status \in {"ready", "unavailable"} : panel' = Loop!DeriveIfLoaded([panel EXCEPT !.status = status])
  <2>1. PICK status \in {"ready", "unavailable"} : panel' = Loop!DeriveIfLoaded([panel EXCEPT !.status = status])
    BY <1>4
  <2> DEFINE p == [panel EXCEPT !.status = status]
             q == Loop!DeriveIfLoaded(p)
  <2>2. panel' = q
    BY <2>1
  <2>3. /\ p \in LoopPanels /\ p.phase = panel.phase /\ p.ref = panel.ref /\ p.win = panel.win /\ p.last = panel.last /\ p.details = panel.details
        /\ p.key = panel.key /\ p.interval = panel.interval /\ p.comparison = panel.comparison /\ p.detail = panel.detail
        /\ p.events = panel.events /\ p.selfWritten = panel.selfWritten
    BY <1>0 DEF LoopPanels
  <2> HIDE DEF p
  <2>4. Loop!Shown(p) = Loop!Shown(panel)
    BY <2>3 DEF Loop!Shown
  <2>5. Awaits(p) /\ (p.phase = "ready" => Rooted(p) /\ InView(p)) /\ (p.phase # "ready" => Clear(p))
    BY <1>0, <2>3, <2>4 DEF LoopOk, Awaits, Exists, Rooted, InView, Clear
  <2>6. LoopOk(q) /\ Rest(p, q)
    BY <2>3, <2>5, LoopDerives
  <2> HIDE DEF q
  <2>7. q.phase = panel.phase /\ q.ref = panel.ref /\ q.win = panel.win /\ q.last = panel.last
    BY <2>3, <2>6 DEF Rest, Roots
  <2>8. Loading(q, histories) /\ LoopTold(q, scope, active)
    BY <2>7 DEF LoopsInv, Loading, LoopTold
  <2> QED
    BY <1>1, <2>2, <2>6, <2>8 DEF LoopsInv
<1> QED
  BY <1>2, <1>3, <1>4

\* What the user selects.
LEMMA LoopsClick ==
  ASSUME LoopsInv, Loop!ClickSignature \/ Loop!ClickInterval \/ Loop!Compare
  PROVE  LoopsInv'
<1>0. /\ LoopOk(panel) /\ panel \in LoopPanels /\ Awaits(panel)
  BY LoopsUsual
<1>1. UNCHANGED <<scope, active, histories>> /\ panel.phase = "ready"
  BY DEF Loop!ClickSignature, Loop!ClickInterval, Loop!Compare, Loop!Ready
<1>2. Exists(panel) /\ InView(panel)
  BY <1>0, <1>1 DEF LoopOk
<1>3. CASE Loop!ClickSignature
  <2>1. PICK k \in Loop!Recurring(panel) : panel' = [Loop!NoSelection(panel) EXCEPT !.key = k]
    BY <1>3 DEF Loop!ClickSignature
  <2> DEFINE n == Loop!NoSelection(panel)
             q == [n EXCEPT !.key = k]
  <2>2. panel' = q /\ k \in Marked
    BY <1>0, <2>1, GroupsTyped
  <2>3. n \in LoopPanels /\ Rest(panel, n) /\ Awaits(n) /\ Clear(n)
    BY <1>0, NothingSelected
  <2> HIDE DEF n
  <2>4. /\ q \in LoopPanels /\ Rest(n, q) /\ q.key = k /\ q.interval = n.interval /\ q.comparison = n.comparison /\ q.detail = n.detail
        /\ q.details = n.details
    BY <2>2, <2>3, Selects
  <2> HIDE DEF q
  <2>5. Rest(panel, q) /\ Roots(panel, q) /\ q.phase = "ready"
    BY <1>1, <2>3, <2>4, RestGoesOn DEF Rest
  <2>6. Loop!Recurring(q) = Loop!Recurring(panel)
    BY <2>5, Groups
  <2>7. Exists(q) /\ InView(q) /\ Awaits(q)
    BY <2>1, <2>3, <2>4, <2>6 DEF Exists, Rooted, InView, Awaits, Clear
  <2>8. LoopOk(q)
    BY <2>4, <2>5, <2>7 DEF LoopOk
  <2> QED
    BY <1>1, <2>2, <2>5, <2>8, LoopsQuiet
<1>4. CASE Loop!ClickInterval
  <2>1. PICK i \in Loop!Intervals(panel, panel.key) : Loop!IntervalIn(i, panel.win) /\ panel' = Loop!ResetComparison([panel EXCEPT !.interval = i])
    BY <1>4 DEF Loop!ClickInterval
  <2>2. panel.key # None /\ i \in Sides
    BY <1>0, <1>4, <2>1, GroupsTyped DEF Loop!ClickInterval
  <2> DEFINE n == [panel EXCEPT !.interval = i]
             q == Loop!ResetComparison(n)
  <2>3. panel' = q
    BY <2>1
  <2>4. n \in LoopPanels /\ Rest(panel, n) /\ n.key = panel.key /\ n.interval = i
    BY <1>0, <2>2, Selects
  <2> HIDE DEF n
  <2>5. q \in LoopPanels /\ Rest(n, q) /\ Awaits(q) /\ q.key = n.key /\ q.interval = n.interval /\ q.comparison = None /\ q.detail = None
    BY <2>4, ComparisonResets
  <2> HIDE DEF q
  <2>6. Rest(panel, q) /\ Roots(panel, q) /\ q.phase = "ready" /\ q.win = panel.win
    BY <1>1, <2>4, <2>5, RestGoesOn DEF Rest
  <2>7. Loop!Recurring(q) = Loop!Recurring(panel) /\ Loop!Intervals(q, panel.key) = Loop!Intervals(panel, panel.key)
    BY <2>6, Groups
  <2>8. Exists(q) /\ InView(q)
    BY <1>2, <2>1, <2>2, <2>4, <2>5, <2>6, <2>7 DEF Exists, Rooted, InView
  <2>9. LoopOk(q)
    BY <2>5, <2>6, <2>8 DEF LoopOk
  <2> QED
    BY <1>1, <2>3, <2>6, <2>9, LoopsQuiet
<1>5. CASE Loop!Compare
  <2>1. PICK i \in Loop!Intervals(panel, panel.key) :
          Loop!IntervalIn(i, panel.win) /\ panel' = [Loop!CancelDetail(panel) EXCEPT !.comparison = <<panel.interval, i>>]
    BY <1>5 DEF Loop!Compare
  <2>2. panel.interval # None /\ i \in Sides /\ panel.interval \in Sides
    BY <1>0, <1>5, <2>1, GroupsTyped DEF Loop!Compare, LoopPanels
  <2> DEFINE n == Loop!CancelDetail(panel)
             c == <<panel.interval, i>>
             q == [n EXCEPT !.comparison = c]
  <2>3. panel' = q /\ c \in Sides \X Sides /\ c[1] = panel.interval /\ c[2] = i
    BY <2>1, <2>2
  <2> HIDE DEF c
  <2>4. n \in LoopPanels /\ Rest(panel, n) /\ Awaits(n) /\ n.key = panel.key /\ n.interval = panel.interval /\ n.detail = None
    BY <1>0, DetailCancels
  <2> HIDE DEF n
  <2>5. q \in LoopPanels /\ Rest(n, q) /\ q.key = n.key /\ q.interval = n.interval /\ q.comparison = c /\ q.detail = n.detail /\ q.details = n.details
    BY <2>3, <2>4 DEF LoopPanels, Rest, Roots
  <2> HIDE DEF q
  <2>6. Rest(panel, q) /\ Roots(panel, q) /\ q.phase = "ready" /\ q.win = panel.win
    BY <1>1, <2>4, <2>5, RestGoesOn DEF Rest
  <2>7. Loop!Recurring(q) = Loop!Recurring(panel) /\ Loop!Intervals(q, panel.key) = Loop!Intervals(panel, panel.key)
    BY <2>6, Groups
  <2>8. \A n1 \in 1..2 : c[n1] \in Loop!Intervals(panel, panel.key) /\ Loop!IntervalIn(c[n1], panel.win)
    BY <1>2, <2>1, <2>2, <2>3 DEF Exists, InView
  <2>9. Exists(q) /\ InView(q) /\ Awaits(q)
    BY <1>2, <2>2, <2>4, <2>5, <2>6, <2>7, <2>8 DEF Exists, Rooted, InView, Awaits
  <2>10. LoopOk(q)
    BY <2>5, <2>6, <2>9 DEF LoopOk
  <2> QED
    BY <1>1, <2>3, <2>6, <2>10, LoopsQuiet
<1> QED
  BY <1>3, <1>4, <1>5

\* The detail.
LEMMA LoopsDetail ==
  ASSUME LoopsInv, Loop!SelectEvent \/ Loop!CloseDetail \/ Loop!DetailAnswered
  PROVE  LoopsInv'
<1>0. /\ LoopOk(panel) /\ panel \in LoopPanels /\ Awaits(panel)
  BY LoopsUsual
<1>1. UNCHANGED <<scope, active, histories>>
  BY DEF Loop!SelectEvent, Loop!CloseDetail, Loop!DetailAnswered, Loop!Ready
<1>2. CASE Loop!SelectEvent
  <2>1. PICK e \in Loop!Group(panel, panel.key) :
          /\ Loop!InWindow(e, panel.win)
          /\ panel' = [Loop!CancelDetail(panel) EXCEPT !.detail = e, !.details = @ \cup {[event |-> e, inForce |-> TRUE]}]
    BY <1>2 DEF Loop!SelectEvent
  <2>2. panel.phase = "ready" /\ panel.key # None /\ e \in LoopErrors /\ e \in Loop!Shown(panel)
    BY <1>0, <1>2, <2>1, GroupsTyped DEF Loop!SelectEvent, Loop!Ready
  <2>3. Exists(panel) /\ InView(panel)
    BY <1>0, <2>2 DEF LoopOk
  <2> DEFINE n == Loop!CancelDetail(panel)
             new == [event |-> e, inForce |-> TRUE]
             q == [n EXCEPT !.detail = e, !.details = n.details \cup {new}]
  <2>4. panel' = q
    BY <2>1
  <2>5. n \in LoopPanels /\ Rest(panel, n) /\ (\A d \in n.details : ~d.inForce) /\ n.key = panel.key /\ n.interval = panel.interval
        /\ n.comparison = panel.comparison
    BY <1>0, DetailCancels
  <2>6. new \in [event : LoopErrors, inForce : BOOLEAN] /\ new.event = e
    BY <2>2
  <2> HIDE DEF n, new
  <2>7. /\ q \in LoopPanels /\ Rest(n, q) /\ q.key = n.key /\ q.interval = n.interval /\ q.comparison = n.comparison /\ q.detail = e
        /\ q.details = n.details \cup {new}
    BY <2>2, <2>5, <2>6 DEF LoopPanels, Rest, Roots
  <2> HIDE DEF q
  <2>8. Rest(panel, q) /\ Roots(panel, q) /\ q.phase = "ready" /\ q.win = panel.win
    BY <2>2, <2>5, <2>7, RestGoesOn DEF Rest
  <2>9. /\ Loop!Recurring(q) = Loop!Recurring(panel) /\ Loop!Intervals(q, panel.key) = Loop!Intervals(panel, panel.key)
        /\ Loop!Shown(q) = Loop!Shown(panel)
    BY <2>8, Groups
  <2>10. Exists(q)
    BY <2>2, <2>3, <2>5, <2>7, <2>8, <2>9 DEF Exists, Rooted
  <2>11. InView(q)
    BY <2>1, <2>3, <2>5, <2>7, <2>8 DEF InView
  <2>12. Awaits(q)
    BY <2>5, <2>6, <2>7 DEF Awaits
  <2>13. LoopOk(q)
    BY <2>7, <2>8, <2>10, <2>11, <2>12 DEF LoopOk
  <2> QED
    BY <1>1, <2>4, <2>8, <2>13, LoopsQuiet
<1>3. CASE Loop!CloseDetail
  <2> DEFINE q == Loop!CancelDetail(panel)
  <2>1. panel' = q
    BY <1>3 DEF Loop!CloseDetail
  <2>2. q \in LoopPanels /\ Rest(panel, q) /\ Awaits(q) /\ q.key = panel.key /\ q.interval = panel.interval /\ q.comparison = panel.comparison
        /\ q.detail = None
    BY <1>0, DetailCancels
  <2> HIDE DEF q
  <2>3. Roots(panel, q) /\ q.phase = panel.phase /\ q.win = panel.win
    BY <2>2 DEF Rest
  <2>4. LoopOk(q)
    BY <1>0, <2>2, <2>3, Drops DEF LoopOk
  <2> QED
    BY <1>1, <2>1, <2>2, <2>4, LoopsQuiet
<1>4. CASE Loop!DetailAnswered
  <2>1. PICK d \in panel.details : panel' = [panel EXCEPT !.details = @ \ {d}, !.detail = IF d.inForce THEN d.event ELSE @]
    BY <1>4 DEF Loop!DetailAnswered
  <2> DEFINE q == [panel EXCEPT !.details = panel.details \ {d}]
  <2>2. d.inForce => d.event = panel.detail
    BY <1>0, <2>1 DEF Awaits
  <2>3. panel' = q
    BY <1>0, <2>1, <2>2 DEF LoopPanels
  <2>4. /\ q \in LoopPanels /\ Rest(panel, q) /\ q.key = panel.key /\ q.interval = panel.interval /\ q.comparison = panel.comparison
        /\ q.detail = panel.detail /\ q.details = panel.details \ {d}
    BY <1>0 DEF LoopPanels, Rest, Roots
  <2> HIDE DEF q
  <2>5. Roots(panel, q) /\ q.phase = panel.phase /\ q.win = panel.win /\ Awaits(q)
    BY <1>0, <2>4 DEF Rest, Awaits
  <2>6. LoopOk(q)
    BY <1>0, <2>4, <2>5, Drops DEF LoopOk
  <2> QED
    BY <1>1, <2>3, <2>4, <2>6, LoopsQuiet
<1> QED
  BY <1>2, <1>3, <1>4

\* Every step of the lens; a pick in the source picker loads nothing.
LEMMA LoopsStep ==
  ASSUME LoopsInv, [Loop!Next]_(Loop!vars)
  PROVE  LoopsInv' /\ Loop!PicksInPlace
<1>1. Loop!PicksInPlace
  BY LoopsSource DEF Loop!PicksInPlace
<1>2. CASE UNCHANGED Loop!vars
  <2>1. UNCHANGED <<scope, active, panel, histories>>
    BY <1>2 DEF Loop!vars
  <2>2. LoopsInv'
    BY <2>1 DEF LoopsInv
  <2> QED
    BY <1>1, <2>2
<1>3. CASE Loop!Next
  <2>1. CASE Loop!Enter \/ Loop!Leave \/ Loop!ScopeMoves
    BY <1>1, <2>1, LoopsMove
  <2>2. CASE Loop!PickSession \/ Loop!PickNone \/ Loop!Reopen
    BY <1>1, <2>2, LoopsPick
  <2>3. CASE Loop!PickSource
    BY <1>1, <2>3, LoopsSource
  <2>4. CASE Loop!HistoryAnswered \/ Loop!HistoryFails
    BY <1>1, <2>4, LoopsAnswer
  <2>5. CASE Loop!SignaturesAnswered \/ Loop!SignaturesFail \/ Loop!SignaturesTimeOut
    BY <1>1, <2>5, LoopsSigned
  <2>6. CASE Loop!ClickSignature \/ Loop!ClickInterval \/ Loop!Compare
    BY <1>1, <2>6, LoopsClick
  <2>7. CASE Loop!SelectEvent \/ Loop!CloseDetail \/ Loop!DetailAnswered
    BY <1>1, <2>7, LoopsDetail
  <2> QED
    BY <1>3, <2>1, <2>2, <2>3, <2>4, <2>5, <2>6, <2>7 DEF Loop!Next
<1> QED
  BY <1>1, <1>2, <1>3

LEMMA LoopsMean == LoopsInv => Loop!LoopsOfScope /\ Loop!SelectionExists
<1> SUFFICES ASSUME LoopsInv PROVE Loop!LoopsOfScope /\ Loop!SelectionExists
  OBVIOUS
<1>1. Loop!LoopsOfScope
  BY DEF LoopsInv, Loading, LoopTold, Loop!LoopsOfScope
<1>2. Loop!SelectionExists
  BY DEF LoopsInv, LoopOk, Exists, Rooted, InView, Loop!SelectionExists
<1> QED
  BY <1>1, <1>2

HIDE DEF scope, active, panel, histories, signatures, timer


----------------------------------------------------------------------------
(* The session score.                                                      *)

scorePanel == x1
moveBudget == x3
USE DEF scorePanel, moveBudget

\* A record with the fields of the panel.
Formed(q) ==
  q = [session |-> q.session, window |-> q.window, connected |-> q.connected, departed |-> q.departed, asked |-> q.asked, drawn |-> q.drawn,
       loaded |-> q.loaded, ready |-> q.ready, sigs |-> q.sigs, at |-> q.at, view |-> q.view, playing |-> q.playing, cur |-> q.cur,
       signed |-> q.signed, shown |-> q.shown, dismissed |-> q.dismissed, untouched |-> q.untouched, full |-> q.full, detail |-> q.detail,
       pane |-> q.pane]

\* A closed pane is nobody's or another view's, and nothing is fetched for it; nor while the cursor moves.
Shut(q) == q.dismissed => q.detail = None /\ q.pane \in {None, Other}
Sound(q) == Shut(q) /\ (q.playing => q.detail = None)

\* What a call of the pane and of the cursor leaves alone.
Stays(q, r) ==
  /\ r.session = q.session /\ r.window = q.window /\ r.connected = q.connected /\ r.departed = q.departed /\ r.drawn = q.drawn
  /\ r.loaded = q.loaded /\ r.view = q.view

\* A call that may publish its window.
Turns(q, r) ==
  /\ r.session = q.session /\ r.connected = q.connected /\ r.drawn = q.drawn
  /\ r.window = q.window \/ (r.drawn = r.session /\ r.window \in {LiveWindow, r.view})

Counts == [opens : Nat, gestures : Nat, moves : Nat, fails : Nat]
ScoreInv ==
  /\ Formed(scorePanel) /\ Sound(scorePanel) /\ moveBudget \in Counts
  /\ ~scorePanel.connected => scorePanel.detail = None /\ ~scorePanel.playing
ScoreActs == Score!HiddenNeverWrites /\ Score!PublishesOwn

LEMMA ScoreCancels ==
  ASSUME NEW q, Formed(q)
  PROVE  LET r == Score!CancelDetail(q)
         IN /\ Formed(r) /\ Stays(q, r) /\ r.detail = None /\ r.playing = q.playing /\ r.dismissed = q.dismissed /\ r.pane = q.pane
            /\ r.cur = q.cur /\ r.shown = q.shown
<1> DEFINE r == Score!CancelDetail(q)
<1>1. r = [q EXCEPT !.detail = None, !.untouched = FALSE]
  BY DEF Score!CancelDetail
<1> HIDE DEF r
<1>2. Formed(r)
  BY <1>1 DEF Formed
<1>3. Stays(q, r)
  BY <1>1 DEF Formed, Stays
<1>4. /\ r.detail = None /\ r.playing = q.playing /\ r.dismissed = q.dismissed /\ r.pane = q.pane /\ r.cur = q.cur /\ r.shown = q.shown
  BY <1>1 DEF Formed
<1> QED
  BY <1>2, <1>3, <1>4 DEF r

LEMMA ScoreRenders ==
  ASSUME NEW q, Formed(q), NEW e
  PROVE  LET r == Score!Render(q, e) IN Formed(r) /\ Stays(q, r) /\ Sound(r) /\ r.playing = q.playing
<1> DEFINE a == Score!CancelDetail(q)
           pane == Score!PaneOf(q, e, ~q.playing /\ e \in q.full)
           fetched == IF q.playing \/ e \in q.full THEN None ELSE e
           r == Score!Render(q, e)
<1>1. Formed(a) /\ Stays(q, a) /\ a.playing = q.playing
  BY ScoreCancels
<1>2. r = [a EXCEPT !.shown = TRUE, !.dismissed = FALSE, !.pane = pane, !.detail = fetched]
  BY DEF Score!Render
<1>3. q.playing => fetched = None
  OBVIOUS
<1> HIDE DEF a, pane, fetched, r
<1>4. Formed(r) /\ Stays(a, r) /\ r.playing = a.playing /\ r.dismissed = FALSE /\ r.detail = fetched
  BY <1>1, <1>2 DEF Formed, Stays
<1>5. Sound(r) /\ Stays(q, r)
  BY <1>1, <1>3, <1>4 DEF Sound, Shut, Stays
<1> QED
  BY <1>1, <1>4, <1>5 DEF r

LEMMA ScoreMarks ==
  ASSUME NEW q, Formed(q), NEW e
  PROVE  LET r == Score!Mark(q, e)
         IN /\ Formed(r) /\ Stays(q, r) /\ r.playing = q.playing /\ r.dismissed = q.dismissed /\ r.detail = q.detail /\ r.pane = q.pane
            /\ r.shown = q.shown /\ r.cur = e
<1> DEFINE r == Score!Mark(q, e)
<1>1. r = [q EXCEPT !.cur = e, !.signed = e \in ScoreErrors /\ q.sigs = e[1]]
  BY DEF Score!Mark
<1> QED
  BY <1>1 DEF Formed, Stays


\* What a call leaves of the pane and of playback.
Pane(q, r) == r.playing = q.playing /\ r.dismissed = q.dismissed /\ r.detail = q.detail /\ r.pane = q.pane /\ r.shown = q.shown /\ r.cur = q.cur

LEMMA SoundKept ==
  ASSUME NEW q, NEW r, Sound(q), Pane(q, r)
  PROVE  Sound(r)
BY DEF Sound, Shut, Pane

LEMMA StaysTurns ==
  ASSUME NEW q, NEW r
  PROVE  /\ Stays(q, r) => Turns(q, r)
         /\ \A s : Turns(q, r) /\ Stays(r, s) => Turns(q, s)
         /\ \A s : Stays(q, r) /\ Stays(r, s) => Stays(q, s)
BY DEF Stays, Turns

\* The window is published for the session of the scope only.
LEMMA ScoreViews ==
  ASSUME NEW q, Formed(q), NEW v, NEW publish \in BOOLEAN
  PROVE  LET r == Score!SetView(q, v, publish)
         IN Formed(r) /\ Turns(q, r) /\ Pane(q, r) /\ (~publish => r.window = q.window)
<1> DEFINE view == Score!ClampView(v, Score!Bounds(q.drawn))
           whole == view.from <= Score!Bounds(q.drawn).from /\ view.to >= Score!Bounds(q.drawn).to
           shown == IF publish /\ Score!Publishes(q) THEN (IF whole THEN LiveWindow ELSE view) ELSE q.window
           r == Score!SetView(q, v, publish)
<1>1. r = [q EXCEPT !.view = view, !.window = shown]
  BY DEF Score!SetView
<1>2. shown = q.window \/ (publish /\ q.drawn = q.session /\ shown \in {LiveWindow, view})
  BY DEF Score!Publishes
<1> HIDE DEF view, shown, r
<1>3. Formed(r)
  BY <1>1 DEF Formed
<1>4. r.session = q.session /\ r.connected = q.connected /\ r.drawn = q.drawn /\ r.window = shown /\ r.view = view
  BY <1>1 DEF Formed
<1>5. Pane(q, r)
  BY <1>1 DEF Formed, Pane
<1>6. ~publish => shown = q.window
  BY DEF shown
<1>7. Turns(q, r)
  BY <1>2, <1>4 DEF Turns
<1> QED
  BY <1>3, <1>4, <1>5, <1>6, <1>7 DEF r

LEMMA ScoreApplies ==
  ASSUME NEW q, Formed(q)
  PROVE  LET r == Score!ApplyWindow(q)
         IN Formed(r) /\ Pane(q, r) /\ r.session = q.session /\ r.window = q.window /\ r.connected = q.connected /\ r.drawn = q.drawn
<1> DEFINE v == IF q.window = LiveWindow THEN Score!Bounds(q.drawn) ELSE Score!ClampView(q.window, Score!Bounds(q.drawn))
           a == [q EXCEPT !.view = v]
<1>1. Score!ApplyWindow(q) = IF ~Score!Publishes(q) THEN q ELSE a
  BY DEF Score!ApplyWindow
<1> HIDE DEF v
<1>2. Formed(a) /\ a.session = q.session /\ a.window = q.window /\ a.connected = q.connected /\ a.drawn = q.drawn
  BY DEF Formed
<1>3. Pane(q, a)
  BY DEF Formed, Pane
<1>4. Pane(q, q)
  BY DEF Pane
<1> HIDE DEF a
<1> QED
  BY <1>1, <1>2, <1>3, <1>4

LEMMA ScoreMoves ==
  ASSUME NEW q, Formed(q), NEW t, NEW publish \in BOOLEAN
  PROVE  LET r == Score!Moved(q, t, publish)
         IN Formed(r) /\ Turns(q, r) /\ Pane(q, r) /\ (~publish => r.window = q.window)
<1> DEFINE a == [q EXCEPT !.at = t]
           v == Score!PanView(q.view, t, Score!Bounds(q.drawn))
           b == Score!SetView(a, v, publish)
<1>1. Score!Moved(q, t, publish) = IF Score!OnScreen(q, t) THEN a ELSE b
  BY DEF Score!Moved
<1>2. Formed(a) /\ Stays(q, a)
  BY DEF Formed, Stays
<1>3. Pane(q, a)
  BY DEF Formed, Pane
<1> HIDE DEF a
<1>4. Formed(b) /\ Turns(a, b) /\ Pane(a, b) /\ (~publish => b.window = a.window)
  BY <1>2, ScoreViews
<1> HIDE DEF b
<1>5. Turns(q, b) /\ Turns(q, a) /\ Pane(q, b) /\ a.window = q.window
  BY <1>2, <1>3, <1>4 DEF Turns, Stays, Pane
<1> QED
  BY <1>1, <1>2, <1>3, <1>4, <1>5

LEMMA ScoreHighlights ==
  ASSUME NEW q, Formed(q), NEW e
  PROVE  LET r == Score!Highlight(q, e) IN Formed(r) /\ Stays(q, r) /\ Sound(r) /\ r.playing = q.playing
<1> DEFINE m == Score!Mark(q, e)
           r == Score!Render(m, e)
<1>1. Formed(m) /\ Stays(q, m) /\ m.playing = q.playing
  BY ScoreMarks
<1> HIDE DEF m
<1>2. Formed(r) /\ Stays(m, r) /\ Sound(r) /\ r.playing = m.playing
  BY <1>1, ScoreRenders
<1>3. Score!Highlight(q, e) = r
  BY DEF Score!Highlight, m
<1> HIDE DEF r
<1> QED
  BY <1>1, <1>2, <1>3, StaysTurns

\* The playhead; playback publishes nothing.
LEMMA ScoreHeads ==
  ASSUME NEW q, Formed(q), Sound(q), NEW t, NEW fromPlayback \in BOOLEAN
  PROVE  LET r == Score!SetPlayhead(q, t, fromPlayback)
         IN Formed(r) /\ Turns(q, r) /\ Sound(r) /\ r.playing = q.playing /\ (fromPlayback => r.window = q.window)
<1> DEFINE m == Score!Moved(q, t, ~fromPlayback)
           under == Score!EventAt(q.drawn, t)
           r == Score!SetPlayhead(q, t, fromPlayback)
<1>1. Formed(m) /\ Turns(q, m) /\ Pane(q, m) /\ (fromPlayback => m.window = q.window)
  BY ScoreMoves
<1>2. r \in {m, Score!Mark(m, under), Score!Highlight(m, under), Score!Render(m, under)}
  BY DEF Score!SetPlayhead
<1> HIDE DEF m, under, r
<1>3. Sound(m) /\ m.playing = q.playing
  BY <1>1, SoundKept DEF Pane
<1>4. CASE r = m
  BY <1>1, <1>3, <1>4 DEF r
<1>5. CASE r = Score!Mark(m, under)
  <2>1. Formed(r) /\ Stays(m, r) /\ r.playing = m.playing /\ r.dismissed = m.dismissed /\ r.detail = m.detail /\ r.pane = m.pane
    BY <1>1, <1>5, ScoreMarks
  <2>2. Sound(r) /\ Turns(q, r) /\ r.window = m.window
    BY <1>1, <1>3, <2>1, StaysTurns DEF Sound, Shut, Stays
  <2> QED
    BY <1>1, <1>3, <2>1, <2>2 DEF r
<1>6. CASE r \in {Score!Highlight(m, under), Score!Render(m, under)}
  <2>1. Formed(r) /\ Stays(m, r) /\ Sound(r) /\ r.playing = m.playing
    BY <1>1, <1>6, ScoreHighlights, ScoreRenders
  <2>2. Turns(q, r) /\ r.window = m.window
    BY <1>1, <2>1, StaysTurns DEF Stays
  <2> QED
    BY <1>1, <1>3, <2>1, <2>2 DEF r
<1> QED
  BY <1>2, <1>4, <1>5, <1>6

LEMMA ScoreSelects ==
  ASSUME NEW q, Formed(q), Sound(q), NEW e
  PROVE  LET r == Score!Select(q, e) IN Formed(r) /\ Turns(q, r) /\ Sound(r) /\ r.playing = q.playing
<1> DEFINE m == Score!Moved(q, Score!TimeOf(e), TRUE)
           r == Score!Select(q, e)
<1>1. Formed(m) /\ Turns(q, m) /\ Pane(q, m)
  BY ScoreMoves
<1>2. r \in {m, Score!Highlight(m, e), Score!Render(m, e)}
  BY DEF Score!Select
<1> HIDE DEF m, r
<1>3. Sound(m) /\ m.playing = q.playing
  BY <1>1, SoundKept DEF Pane
<1>4. CASE r = m
  BY <1>1, <1>3, <1>4 DEF r
<1>5. CASE r \in {Score!Highlight(m, e), Score!Render(m, e)}
  <2>1. Formed(r) /\ Stays(m, r) /\ Sound(r) /\ r.playing = m.playing
    BY <1>1, <1>5, ScoreHighlights, ScoreRenders
  <2>2. Turns(q, r)
    BY <1>1, <2>1, StaysTurns
  <2> QED
    BY <1>3, <2>1, <2>2 DEF r
<1> QED
  BY <1>2, <1>4, <1>5

\* Playback starts and stops.
LEMMA ScorePlays ==
  ASSUME NEW q, Formed(q), Shut(q), NEW on \in BOOLEAN
  PROVE  LET r == Score!SetPlaying(q, on) IN Formed(r) /\ Stays(q, r) /\ Sound(r) /\ (~on => ~r.playing)
<1> DEFINE b == on /\ q.drawn # None
           a == [q EXCEPT !.playing = b]
           r == Score!SetPlaying(q, on)
<1>1. /\ r = IF a.playing THEN Score!Starts(a)
             ELSE IF q.playing /\ q.connected /\ q.cur # None /\ q.shown THEN Score!Render(a, q.cur) ELSE a
  BY DEF Score!SetPlaying
<1>2. b \in BOOLEAN /\ (~on => ~b)
  OBVIOUS
<1> HIDE DEF b, r
<1>3. Formed(a) /\ Stays(q, a)
  BY DEF Formed, Stays
<1>4. a.playing = b /\ a.dismissed = q.dismissed /\ a.detail = q.detail /\ a.pane = q.pane
  BY DEF Formed
<1> HIDE DEF a
<1>5. Shut(a)
  BY <1>4 DEF Shut
<1>6. CASE b
  <2>1. r = Score!Starts(a)
    BY <1>1, <1>4, <1>6
  <2>2. r \in {Score!Render(a, a.cur), Score!CancelDetail(a)}
    BY <2>1 DEF Score!Starts
  <2>3. CASE r = Score!Render(a, a.cur)
    <3>1. Formed(r) /\ Stays(a, r) /\ Sound(r)
      BY <1>3, <2>3, ScoreRenders
    <3> QED
      BY <1>2, <1>3, <1>6, <3>1, StaysTurns DEF r
  <2>4. CASE r = Score!CancelDetail(a)
    <3>1. Formed(r) /\ Stays(a, r) /\ r.detail = None /\ r.dismissed = a.dismissed /\ r.pane = a.pane
      BY <1>3, <2>4, ScoreCancels
    <3>2. Sound(r)
      BY <1>5, <3>1 DEF Sound, Shut
    <3> QED
      BY <1>2, <1>3, <1>6, <3>1, <3>2, StaysTurns DEF r
  <2> QED
    BY <2>2, <2>3, <2>4
<1>7. CASE ~b
  <2>1. r \in {Score!Render(a, q.cur), a}
    BY <1>1, <1>4, <1>7
  <2>2. CASE r = Score!Render(a, q.cur)
    <3>1. Formed(r) /\ Stays(a, r) /\ Sound(r) /\ r.playing = a.playing
      BY <1>3, <2>2, ScoreRenders
    <3> QED
      BY <1>3, <1>4, <1>7, <3>1, StaysTurns DEF r
  <2>3. CASE r = a
    <3>1. Sound(a) /\ ~a.playing
      BY <1>4, <1>5, <1>7 DEF Sound
    <3> QED
      BY <1>3, <2>3, <3>1 DEF r
  <2> QED
    BY <2>1, <2>2, <2>3
<1> QED
  BY <1>2, <1>6, <1>7


LEMMA ScoreAdvances ==
  ASSUME NEW q, Formed(q), Sound(q)
  PROVE  LET r == Score!Advance(q)
         IN Formed(r) /\ Sound(r) /\ r.session = q.session /\ r.window = q.window /\ r.connected = q.connected
<1> DEFINE done == q.at + 1 >= Score!Bounds(q.drawn).to
           t == IF done THEN Score!Bounds(q.drawn).to ELSE q.at + 1
           m == Score!SetPlayhead(q, t, TRUE)
           n == Score!SetPlaying(m, FALSE)
<1>1. Score!Advance(q) = IF done THEN n ELSE m
  BY DEF Score!Advance
<1>2. Formed(m) /\ Turns(q, m) /\ Sound(m) /\ m.window = q.window
  BY ScoreHeads
<1> HIDE DEF m, done
<1>3. Formed(n) /\ Stays(m, n) /\ Sound(n)
  BY <1>2, ScorePlays DEF Sound
<1> HIDE DEF n
<1> QED
  BY <1>1, <1>2, <1>3 DEF Turns, Stays

LEMMA ScoreLoads ==
  ASSUME NEW q, Formed(q), Shut(q), NEW s
  PROVE  LET r == Score!Load(q, s)
         IN Formed(r) /\ Sound(r) /\ r.session = q.session /\ r.window = q.window /\ r.connected = q.connected
<1> DEFINE c == Score!CancelDetail(q)
           a == [c EXCEPT !.loaded = FALSE, !.full = {}, !.cur = None]
           b == Score!SetPlaying(a, FALSE)
           r == [b EXCEPT !.untouched = TRUE, !.asked = s, !.sigs = None, !.ready = FALSE]
<1>1. Score!Load(q, s) = r
  BY DEF Score!Load
<1>2. /\ Formed(c) /\ Stays(q, c) /\ c.detail = None /\ c.dismissed = q.dismissed /\ c.pane = q.pane
  BY ScoreCancels
<1> HIDE DEF c
<1>3a. a = [c EXCEPT !.loaded = FALSE, !.full = {}, !.cur = None]
  OBVIOUS
<1> HIDE DEF a
<1>3. Formed(a) /\ a.session = c.session /\ a.window = c.window /\ a.connected = c.connected
  <2>1. Formed(a)
    BY <1>2, <1>3a DEF Formed
  <2>2. a.session = c.session /\ a.window = c.window /\ a.connected = c.connected
    BY <1>2, <1>3a DEF Formed
  <2> QED
    BY <2>1, <2>2
<1>4. a.detail = c.detail /\ a.dismissed = c.dismissed /\ a.pane = c.pane
  BY <1>2, <1>3a DEF Formed
<1>5. Shut(a)
  BY <1>2, <1>4 DEF Shut
<1>6. Formed(b) /\ Stays(a, b) /\ Sound(b)
  BY <1>3, <1>5, ScorePlays
<1> HIDE DEF b
<1>7a. r = [b EXCEPT !.untouched = TRUE, !.asked = s, !.sigs = None, !.ready = FALSE]
  OBVIOUS
<1> HIDE DEF r
<1>7. Formed(r) /\ r.session = b.session /\ r.window = b.window /\ r.connected = b.connected
  <2>1. Formed(r)
    BY <1>6, <1>7a DEF Formed
  <2>2. r.session = b.session /\ r.window = b.window /\ r.connected = b.connected
    BY <1>6, <1>7a DEF Formed
  <2> QED
    BY <2>1, <2>2
<1>9. r.playing = b.playing /\ r.dismissed = b.dismissed /\ r.detail = b.detail /\ r.pane = b.pane
  BY <1>6, <1>7a DEF Formed
<1>10. Sound(r)
  BY <1>6, <1>9 DEF Sound, Shut
<1> HIDE DEF r
<1> QED
  BY <1>1, <1>2, <1>3, <1>6, <1>7, <1>10 DEF Stays

LEMMA ScoreEmpties ==
  ASSUME NEW q, Formed(q), Shut(q)
  PROVE  LET r == Score!Emptied(q)
         IN Formed(r) /\ Sound(r) /\ r.session = q.session /\ r.window = q.window /\ r.connected = q.connected
<1> DEFINE c == Score!CancelDetail(q)
           a == [c EXCEPT !.departed = FALSE, !.loaded = FALSE]
           b == Score!SetPlaying(a, FALSE)
           r == [b EXCEPT !.asked = None, !.drawn = None, !.ready = FALSE, !.full = {}, !.sigs = None,
                          !.view = [from |-> 0, to |-> 0], !.at = 0, !.cur = None]
<1>1. Score!Emptied(q) = r
  BY DEF Score!Emptied
<1>2. /\ Formed(c) /\ Stays(q, c) /\ c.detail = None /\ c.dismissed = q.dismissed /\ c.pane = q.pane
  BY ScoreCancels
<1> HIDE DEF c
<1>3a. a = [c EXCEPT !.departed = FALSE, !.loaded = FALSE]
  OBVIOUS
<1> HIDE DEF a
<1>3. Formed(a) /\ a.session = c.session /\ a.window = c.window /\ a.connected = c.connected
  <2>1. Formed(a)
    BY <1>2, <1>3a DEF Formed
  <2>2. a.session = c.session /\ a.window = c.window /\ a.connected = c.connected
    BY <1>2, <1>3a DEF Formed
  <2> QED
    BY <2>1, <2>2
<1>4. a.detail = c.detail /\ a.dismissed = c.dismissed /\ a.pane = c.pane
  BY <1>2, <1>3a DEF Formed
<1>5. Shut(a)
  BY <1>2, <1>4 DEF Shut
<1>6. Formed(b) /\ Stays(a, b) /\ Sound(b)
  BY <1>3, <1>5, ScorePlays
<1> HIDE DEF b
<1>7a. r = [b EXCEPT !.asked = None, !.drawn = None, !.ready = FALSE, !.full = {}, !.sigs = None, !.view = [from |-> 0, to |-> 0], !.at = 0, !.cur = None]
  OBVIOUS
<1> HIDE DEF r
<1>7. Formed(r) /\ r.session = b.session /\ r.window = b.window /\ r.connected = b.connected
  <2>1. Formed(r)
    BY <1>6, <1>7a DEF Formed
  <2>2. r.session = b.session /\ r.window = b.window /\ r.connected = b.connected
    BY <1>6, <1>7a DEF Formed
  <2> QED
    BY <2>1, <2>2
<1>8. r.playing = b.playing /\ r.dismissed = b.dismissed /\ r.detail = b.detail /\ r.pane = b.pane
  BY <1>6, <1>7a DEF Formed
<1>9. Sound(r)
  BY <1>6, <1>8 DEF Sound, Shut
<1> HIDE DEF r
<1> QED
  BY <1>1, <1>2, <1>3, <1>6, <1>7, <1>9 DEF Stays

\* Shown: the window is applied, and the session of the scope opened or everything dropped.
LEMMA ScoreEnters ==
  ASSUME NEW q, Formed(q), Sound(q), Score!Enters(q)
  PROVE  Formed(scorePanel') /\ Sound(scorePanel') /\ scorePanel'.session = q.session /\ scorePanel'.window = q.window /\ scorePanel'.connected = TRUE
<1> DEFINE a == [q EXCEPT !.connected = TRUE, !.departed = FALSE]
           r == Score!ApplyWindow(a)
           b == [r EXCEPT !.departed = FALSE]
<1>1a. a = [q EXCEPT !.connected = TRUE, !.departed = FALSE]
  OBVIOUS
<1> HIDE DEF a
<1>1. Formed(a) /\ a.session = q.session /\ a.window = q.window /\ a.connected = TRUE
  <2>1. Formed(a)
    BY <1>1a DEF Formed
  <2>2. a.session = q.session /\ a.window = q.window /\ a.connected = TRUE
    BY <1>1a DEF Formed
  <2> QED
    BY <2>1, <2>2
<1>2. Pane(q, a)
  BY <1>1a DEF Formed, Pane
<1>3. scorePanel' \in {b, Score!Load(b, r.session), Score!Emptied(r)}
  BY DEF Score!Enters, Score!Opens, a
<1> HIDE DEF a
<1>4. Formed(r) /\ Pane(a, r) /\ r.session = a.session /\ r.window = a.window /\ r.connected = a.connected
  BY <1>1, ScoreApplies
<1> HIDE DEF r
<1>5a. b = [r EXCEPT !.departed = FALSE]
  OBVIOUS
<1> HIDE DEF b
<1>5. Formed(b) /\ b.session = r.session /\ b.window = r.window /\ b.connected = r.connected
  <2>1. Formed(b)
    BY <1>4, <1>5a DEF Formed
  <2>2. b.session = r.session /\ b.window = r.window /\ b.connected = r.connected
    BY <1>4, <1>5a DEF Formed
  <2> QED
    BY <2>1, <2>2
<1>6. Pane(r, b)
  BY <1>4, <1>5a DEF Formed, Pane
<1>7. Sound(r) /\ Sound(b)
  BY <1>2, <1>4, <1>6, SoundKept
<1>8. CASE scorePanel' = b
  BY <1>1, <1>4, <1>5, <1>7, <1>8
<1>9. CASE scorePanel' = Score!Load(b, r.session)
  BY <1>1, <1>4, <1>5, <1>7, <1>9, ScoreLoads DEF Sound
<1>10. CASE scorePanel' = Score!Emptied(r)
  BY <1>1, <1>4, <1>7, <1>10, ScoreEmpties DEF Sound
<1> QED
  BY <1>3, <1>8, <1>9, <1>10

LEMMA ScoreLeaves ==
  ASSUME NEW q, Formed(q), Shut(q)
  PROVE  LET r == Score!Left(q)
         IN Formed(r) /\ Sound(r) /\ r.session = q.session /\ r.window = q.window /\ r.connected = FALSE /\ r.detail = None /\ ~r.playing
<1> DEFINE c == Score!CancelDetail(q)
           r == [c EXCEPT !.connected = FALSE, !.departed = TRUE, !.playing = FALSE]
<1>1. Score!Left(q) = r
  BY DEF Score!Left
<1>2. Formed(c) /\ Stays(q, c) /\ c.detail = None /\ c.dismissed = q.dismissed /\ c.pane = q.pane
  BY ScoreCancels
<1> HIDE DEF c
<1>3a. r = [c EXCEPT !.connected = FALSE, !.departed = TRUE, !.playing = FALSE]
  OBVIOUS
<1> HIDE DEF r
<1>3. Formed(r) /\ r.session = c.session /\ r.window = c.window /\ r.connected = FALSE /\ r.playing = FALSE
  <2>1. Formed(r)
    BY <1>2, <1>3a DEF Formed
  <2>2. r.session = c.session /\ r.window = c.window /\ r.connected = FALSE /\ r.playing = FALSE
    BY <1>2, <1>3a DEF Formed
  <2> QED
    BY <2>1, <2>2
<1>4. r.detail = c.detail /\ r.dismissed = c.dismissed /\ r.pane = c.pane
  BY <1>2, <1>3a DEF Formed
<1>5. Sound(r)
  BY <1>2, <1>3, <1>4 DEF Sound, Shut
<1> QED
  BY <1>1, <1>2, <1>3, <1>4, <1>5 DEF Stays

\* An answer draws, and opens the pane only of a score that is shown.
Drawn(q, r) ==
  /\ Formed(r) /\ Sound(r) /\ r.session = q.session /\ r.window = q.window /\ r.connected = q.connected
  /\ ~q.connected => r.detail = q.detail /\ r.pane = q.pane /\ r.playing = q.playing

LEMMA ScoreDraws ==
  ASSUME NEW q, Formed(q), Sound(q), NEW m, Formed(m), m.session = q.session, m.window = q.window, m.connected = q.connected,
         m.playing = q.playing, m.dismissed = q.dismissed, m.detail = q.detail, m.pane = q.pane
  PROVE  Drawn(q, m) /\ (q.connected => \A e : Drawn(q, Score!Render(m, e)))
<1>1. Sound(m)
  BY DEF Sound, Shut
<1>2. \A e : LET r == Score!Render(m, e) IN Formed(r) /\ Stays(m, r) /\ Sound(r) /\ r.playing = m.playing
  BY ScoreRenders
<1> QED
  BY <1>1, <1>2 DEF Drawn, Stays

LEMMA ScoreLands ==
  ASSUME NEW q, Formed(q), Sound(q), NEW h
  PROVE  Drawn(q, Score!Landed(q, h))
<1> DEFINE b == Score!Bounds(h.session)
           scoped == q.session = h.session /\ q.window # LiveWindow
           view == IF scoped THEN Score!ClampView(q.window, b) ELSE b
           at == IF ~scoped THEN b.from ELSE IF h.prior >= view.from /\ h.prior <= view.to THEN h.prior ELSE view.from
           a == [q EXCEPT !.drawn = h.session, !.ready = TRUE, !.loaded = TRUE, !.view = view, !.at = at]
           e == Score!EventAt(h.session, at)
           l == Score!Mark(a, e)
<1>1. Score!Landed(q, h) = IF q.connected /\ q.untouched THEN Score!Render(l, l.cur) ELSE l
  BY DEF Score!Landed
<1> HIDE DEF view, at, e
<1>2a. a = [q EXCEPT !.drawn = h.session, !.ready = TRUE, !.loaded = TRUE, !.view = view, !.at = at]
  OBVIOUS
<1> HIDE DEF a
<1>2. Formed(a) /\ a.session = q.session /\ a.window = q.window /\ a.connected = q.connected
  <2>1. Formed(a)
    BY <1>2a DEF Formed
  <2>2. a.session = q.session /\ a.window = q.window /\ a.connected = q.connected
    BY <1>2a DEF Formed
  <2> QED
    BY <2>1, <2>2
<1>3. a.playing = q.playing /\ a.dismissed = q.dismissed /\ a.detail = q.detail /\ a.pane = q.pane
  BY <1>2a DEF Formed
<1>4. Formed(l) /\ Stays(a, l) /\ l.playing = a.playing /\ l.dismissed = a.dismissed /\ l.detail = a.detail /\ l.pane = a.pane
  BY <1>2, ScoreMarks
<1> HIDE DEF l
<1>5. Drawn(q, l) /\ (q.connected => \A d : Drawn(q, Score!Render(l, d)))
  BY <1>2, <1>3, <1>4, ScoreDraws DEF Stays
<1> QED
  BY <1>1, <1>5

LEMMA ScoreSigns ==
  ASSUME NEW q, Formed(q), Sound(q), NEW s
  PROVE  Drawn(q, Score!Signed([q EXCEPT !.sigs = s]))
<1> DEFINE a == [q EXCEPT !.sigs = s]
           m == Score!Mark(a, a.cur)
<1>1a. a = [q EXCEPT !.sigs = s]
  OBVIOUS
<1> HIDE DEF a
<1>1. Formed(a) /\ a.session = q.session /\ a.window = q.window /\ a.connected = q.connected
  <2>1. Formed(a)
    BY <1>1a DEF Formed
  <2>2. a.session = q.session /\ a.window = q.window /\ a.connected = q.connected
    BY <1>1a DEF Formed
  <2> QED
    BY <2>1, <2>2
<1>2. a.playing = q.playing /\ a.dismissed = q.dismissed /\ a.detail = q.detail /\ a.pane = q.pane
  BY <1>1a DEF Formed
<1>3. Score!Signed(a) \in {a, m} \/ (a.connected /\ Score!Signed(a) = Score!Render(m, a.cur))
  BY DEF Score!Signed
<1> HIDE DEF a
<1>4. Formed(m) /\ Stays(a, m) /\ m.playing = a.playing /\ m.dismissed = a.dismissed /\ m.detail = a.detail /\ m.pane = a.pane
  BY <1>1, ScoreMarks
<1> HIDE DEF m
<1>5. Drawn(q, m) /\ (q.connected => \A d : Drawn(q, Score!Render(m, d)))
  BY <1>1, <1>2, <1>4, ScoreDraws DEF Stays
<1>6. Drawn(q, a)
  BY <1>1, <1>2, ScoreDraws
<1>7. Drawn(q, Score!Signed(a))
  BY <1>1, <1>3, <1>5, <1>6
<1> QED
  BY <1>7 DEF a

\* What a step does to the bounds.
LEMMA ScoreSpends ==
  ASSUME moveBudget \in Counts, NEW what \in {"opens", "gestures", "moves", "fails"}, Score!Spend(what)
  PROVE  moveBudget' \in Counts /\ (what = "moves" => moveBudget'.moves # moveBudget.moves)
<1>1. moveBudget[what] > 0 /\ moveBudget' = [moveBudget EXCEPT ![what] = @ - 1]
  BY DEF Score!Spend
<1>2. CASE what = "opens"
  BY <1>1, <1>2 DEF Counts
<1>3. CASE what = "gestures"
  BY <1>1, <1>3 DEF Counts
<1>4. CASE what = "moves"
  BY <1>1, <1>4 DEF Counts
<1>5. CASE what = "fails"
  BY <1>1, <1>5 DEF Counts
<1> QED
  BY <1>2, <1>3, <1>4, <1>5

\* What every step is shown to do: hidden, it fetches and plays nothing and leaves the pane
\* or clears it; the window stays, or another session is named, or the shell moves it, or
\* the score shown publishes it.
HiddenRests(q, r) == ~r.connected => r.detail = None /\ ~r.playing /\ (~q.connected => r.pane \in {q.pane, None, Other})
WindowOwn(q, r) ==
  r.window = q.window \/ r.session # q.session \/ (q.connected /\ r.drawn = r.session /\ r.window \in {LiveWindow, r.view})

LEMMA ScoreGoes ==
  ASSUME ScoreInv, moveBudget' \in Counts, Formed(scorePanel'), Sound(scorePanel'), HiddenRests(scorePanel, scorePanel'),
         WindowOwn(scorePanel, scorePanel') \/ moveBudget'.moves # moveBudget.moves
  PROVE  ScoreInv' /\ ScoreActs
<1>1. ScoreInv'
  BY DEF ScoreInv, HiddenRests, Formed, Sound, Shut
<1>2. Score!HiddenNeverWrites
  BY DEF Score!HiddenNeverWrites, HiddenRests
<1>3. Score!PublishesOwn
  BY DEF Score!PublishesOwn, WindowOwn
<1> QED
  BY <1>1, <1>2, <1>3 DEF ScoreActs

\* An answer that lands, or is not for the load in force.
LEMMA ScoreAnswers ==
  ASSUME ScoreInv, moveBudget' \in Counts, Drawn(scorePanel, scorePanel')
  PROVE  ScoreInv' /\ ScoreActs
BY ScoreGoes DEF Drawn, ScoreInv, HiddenRests, WindowOwn

LEMMA ScoreRests ==
  ASSUME ScoreInv, moveBudget' \in Counts, scorePanel' = scorePanel
  PROVE  ScoreInv' /\ ScoreActs
BY ScoreAnswers DEF Drawn, ScoreInv

\* A gesture of the user is one on the score shown.
LEMMA ScoreGestures ==
  ASSUME ScoreInv, NEW q, Score!Gesture(q), Formed(q), Sound(q), Turns(scorePanel, q)
  PROVE  ScoreInv' /\ ScoreActs
<1>1. scorePanel.connected /\ scorePanel' = q /\ moveBudget' \in Counts
  BY ScoreSpends DEF Score!Gesture, ScoreInv
<1> QED
  BY <1>1, ScoreGoes DEF Turns, HiddenRests, WindowOwn

LEMMA ScoreDetails ==
  ASSUME ScoreInv, Score!DetailLands \/ Score!DetailFails
  PROVE  ScoreInv' /\ ScoreActs
<1> DEFINE e == scorePanel.detail
           q == [scorePanel EXCEPT !.detail = None, !.full = @ \cup {e}]
           r == [q EXCEPT !.pane = Score!PaneOf(scorePanel, e, TRUE)]
           f == [scorePanel EXCEPT !.detail = None]
<1>1. Formed(scorePanel) /\ Sound(scorePanel) /\ scorePanel.connected /\ ~scorePanel.playing /\ ~scorePanel.dismissed
  BY DEF ScoreInv, Sound, Shut, Score!DetailLands, Score!DetailFails
<1>2. scorePanel' \in {q, r, f} /\ moveBudget' \in Counts
  BY ScoreSpends DEF Score!DetailLands, Score!DetailFails, ScoreInv
<1>3. Formed(q) /\ q.session = scorePanel.session /\ q.window = scorePanel.window /\ q.connected = scorePanel.connected
  <2>1. q = [scorePanel EXCEPT !.detail = None, !.full = scorePanel.full \cup {e}]
    OBVIOUS
  <2> HIDE DEF q
  <2> QED
    BY <1>1, <2>1 DEF Formed
<1>4. q.playing = scorePanel.playing /\ q.dismissed = scorePanel.dismissed /\ q.detail = None
  BY <1>1 DEF Formed
<1> HIDE DEF q
<1>5. Formed(r) /\ r.session = q.session /\ r.window = q.window /\ r.connected = q.connected
  <2>1. r = [q EXCEPT !.pane = Score!PaneOf(scorePanel, e, TRUE)]
    OBVIOUS
  <2> HIDE DEF r
  <2> QED
    BY <1>3, <2>1 DEF Formed
<1>6. r.playing = q.playing /\ r.dismissed = q.dismissed /\ r.detail = q.detail
  BY <1>3 DEF Formed
<1> HIDE DEF r
<1>7. Formed(f) /\ f.session = scorePanel.session /\ f.window = scorePanel.window /\ f.connected = scorePanel.connected
  <2>1. f = [scorePanel EXCEPT !.detail = None]
    OBVIOUS
  <2> HIDE DEF f
  <2> QED
    BY <1>1, <2>1 DEF Formed
<1>8. f.playing = scorePanel.playing /\ f.dismissed = scorePanel.dismissed /\ f.detail = None
  BY <1>1 DEF Formed
<1> HIDE DEF f
<1>9. /\ Formed(scorePanel') /\ scorePanel'.session = scorePanel.session /\ scorePanel'.window = scorePanel.window
      /\ scorePanel'.connected /\ ~scorePanel'.playing /\ ~scorePanel'.dismissed
  BY <1>1, <1>2, <1>3, <1>4, <1>5, <1>6, <1>7, <1>8
<1> QED
  BY <1>2, <1>9, ScoreGoes DEF Sound, Shut, HiddenRests, WindowOwn

\* Shown for a session that the scope names.
LEMMA ScoreOpens ==
  ASSUME ScoreInv, Score!OpenSession
  PROVE  ScoreInv' /\ ScoreActs
<1>1. PICK s \in Score!Sessions :
        LET q == IF s = scorePanel.session THEN scorePanel ELSE [scorePanel EXCEPT !.session = s, !.window = LiveWindow]
        IN Score!Enters(IF q.connected THEN Score!Left(q) ELSE q)
  BY DEF Score!OpenSession
<1>2. moveBudget' \in Counts /\ Formed(scorePanel) /\ Sound(scorePanel)
  BY ScoreSpends DEF Score!OpenSession, ScoreInv
<1> DEFINE named == [scorePanel EXCEPT !.session = s, !.window = LiveWindow]
           q == IF s = scorePanel.session THEN scorePanel ELSE named
           l == Score!Left(q)
           a == IF q.connected THEN l ELSE q
<1>3. Score!Enters(a)
  BY <1>1
<1>4. Formed(named) /\ named.session = s
  <2>1. named = [scorePanel EXCEPT !.session = s, !.window = LiveWindow]
    OBVIOUS
  <2> HIDE DEF named
  <2> QED
    BY <1>2, <2>1 DEF Formed
<1>5. Pane(scorePanel, named)
  BY <1>2 DEF Formed, Pane
<1> HIDE DEF named
<1>6. Formed(q) /\ Sound(q) /\ (q.window = scorePanel.window \/ q.session # scorePanel.session)
  BY <1>2, <1>4, <1>5, SoundKept
<1> HIDE DEF q
<1>7. Formed(l) /\ Sound(l) /\ l.session = q.session /\ l.window = q.window
  BY <1>6, ScoreLeaves DEF Sound
<1> HIDE DEF l
<1>8. Formed(a) /\ Sound(a) /\ a.session = q.session /\ a.window = q.window
  BY <1>6, <1>7
<1> HIDE DEF a
<1>9. Formed(scorePanel') /\ Sound(scorePanel') /\ scorePanel'.session = a.session /\ scorePanel'.window = a.window /\ scorePanel'.connected = TRUE
  BY <1>3, <1>8, ScoreEnters
<1> QED
  BY <1>2, <1>6, <1>8, <1>9, ScoreGoes DEF HiddenRests, WindowOwn

\* The moves of the shell.
LEMMA ScoreShifts ==
  ASSUME ScoreInv, Score!Enter \/ Score!Leave \/ Score!SessionCleared \/ Score!WindowMoves \/ Score!Refresh \/ Score!OtherTakesPane
  PROVE  ScoreInv' /\ ScoreActs
<1>1. /\ moveBudget' \in Counts /\ moveBudget'.moves # moveBudget.moves /\ Formed(scorePanel) /\ Sound(scorePanel)
      /\ ~scorePanel.connected => scorePanel.detail = None /\ ~scorePanel.playing
  BY ScoreSpends DEF ScoreInv, Score!Enter, Score!Leave, Score!SessionCleared, Score!WindowMoves, Score!Refresh, Score!OtherTakesPane
<1>2. SUFFICES Formed(scorePanel') /\ Sound(scorePanel') /\ HiddenRests(scorePanel, scorePanel')
  BY <1>1, ScoreGoes
<1>3. CASE Score!Enter
  <2>1. Score!Enters(scorePanel)
    BY <1>3 DEF Score!Enter
  <2> QED
    BY <1>1, <2>1, ScoreEnters DEF HiddenRests
<1>4. CASE Score!Leave
  <2>1. scorePanel' = Score!Left(scorePanel) /\ scorePanel.connected
    BY <1>4 DEF Score!Leave
  <2> QED
    BY <1>1, <2>1, ScoreLeaves DEF HiddenRests, Sound
<1>5. CASE Score!SessionCleared
  <2> DEFINE q == [scorePanel EXCEPT !.session = None, !.window = LiveWindow]
  <2>1. scorePanel' = IF scorePanel.connected THEN Score!Emptied(q) ELSE q
    BY <1>5 DEF Score!SessionCleared
  <2>2. Formed(q) /\ q.connected = scorePanel.connected
    <3>1. q = [scorePanel EXCEPT !.session = None, !.window = LiveWindow]
      OBVIOUS
    <3> HIDE DEF q
    <3> QED
      BY <1>1, <3>1 DEF Formed
  <2>3. Pane(scorePanel, q)
    BY <1>1 DEF Formed, Pane
  <2> HIDE DEF q
  <2>4. Sound(q)
    BY <1>1, <2>3, SoundKept
  <2>5. Formed(Score!Emptied(q)) /\ Sound(Score!Emptied(q)) /\ Score!Emptied(q).connected = q.connected
    BY <2>2, <2>4, ScoreEmpties DEF Sound
  <2> QED
    BY <1>1, <2>1, <2>2, <2>3, <2>4, <2>5 DEF HiddenRests, Pane
<1>6. CASE Score!WindowMoves
  <2>1. PICK w : scorePanel' = Score!ApplyWindow([scorePanel EXCEPT !.window = w])
    BY <1>6 DEF Score!WindowMoves
  <2> DEFINE q == [scorePanel EXCEPT !.window = w]
             r == Score!ApplyWindow(q)
  <2>2. Formed(q) /\ q.connected = scorePanel.connected
    <3>1. q = [scorePanel EXCEPT !.window = w]
      OBVIOUS
    <3> HIDE DEF q
    <3> QED
      BY <1>1, <3>1 DEF Formed
  <2>3. Pane(scorePanel, q)
    BY <1>1 DEF Formed, Pane
  <2>4. scorePanel' = r
    BY <2>1
  <2> HIDE DEF q
  <2>5. Formed(r) /\ Pane(q, r) /\ r.connected = q.connected
    BY <2>2, ScoreApplies
  <2> HIDE DEF r
  <2>6. Sound(r)
    BY <1>1, <2>3, <2>5, SoundKept
  <2> QED
    BY <1>1, <2>2, <2>3, <2>4, <2>5, <2>6 DEF HiddenRests, Pane
<1>7. CASE Score!Refresh
  <2> DEFINE c == Score!CancelDetail(scorePanel)
             r == [c EXCEPT !.shown = FALSE]
  <2>1. scorePanel' = r /\ scorePanel.connected
    BY <1>7 DEF Score!Refresh
  <2>2. /\ Formed(c) /\ Stays(scorePanel, c) /\ c.detail = None /\ c.dismissed = scorePanel.dismissed /\ c.pane = scorePanel.pane
    BY <1>1, ScoreCancels
  <2> HIDE DEF c
  <2>3. r = [c EXCEPT !.shown = FALSE]
    OBVIOUS
  <2> HIDE DEF r
  <2>4. Formed(r)
    BY <2>2, <2>3 DEF Formed
  <2>5. r.connected = c.connected /\ r.detail = c.detail /\ r.dismissed = c.dismissed /\ r.pane = c.pane
    BY <2>2, <2>3 DEF Formed
  <2> QED
    BY <1>1, <2>1, <2>2, <2>4, <2>5 DEF HiddenRests, Stays, Sound, Shut
<1>8. CASE Score!OtherTakesPane
  <2> DEFINE r == [scorePanel EXCEPT !.pane = Other]
  <2>1. scorePanel' = r
    BY <1>8 DEF Score!OtherTakesPane
  <2>2. r = [scorePanel EXCEPT !.pane = Other]
    OBVIOUS
  <2> HIDE DEF r
  <2>3. Formed(r)
    BY <1>1, <2>2 DEF Formed
  <2>4. /\ r.connected = scorePanel.connected /\ r.detail = scorePanel.detail /\ r.dismissed = scorePanel.dismissed
        /\ r.pane = Other /\ r.playing = scorePanel.playing
    BY <1>1, <2>2 DEF Formed
  <2> QED
    BY <1>1, <2>1, <2>3, <2>4 DEF HiddenRests, Sound, Shut
<1> QED
  BY <1>3, <1>4, <1>5, <1>6, <1>7, <1>8

\* The close button.
LEMMA ScoreCloses ==
  ASSUME ScoreInv, Score!Close
  PROVE  ScoreInv' /\ ScoreActs
<1> DEFINE c == Score!CancelDetail(scorePanel)
           d == [c EXCEPT !.shown = FALSE, !.dismissed = TRUE, !.pane = None]
           r == [scorePanel EXCEPT !.pane = None]
<1>1. /\ moveBudget' \in Counts /\ Formed(scorePanel) /\ Sound(scorePanel)
      /\ ~scorePanel.connected => scorePanel.detail = None /\ ~scorePanel.playing
  BY ScoreSpends DEF ScoreInv, Score!Close
<1>2. scorePanel' \in {d, r}
  BY DEF Score!Close, Score!Dismiss
<1>3. /\ Formed(c) /\ Stays(scorePanel, c) /\ c.detail = None /\ c.playing = scorePanel.playing
  BY <1>1, ScoreCancels
<1> HIDE DEF c
<1>4. d = [c EXCEPT !.shown = FALSE, !.dismissed = TRUE, !.pane = None] /\ r = [scorePanel EXCEPT !.pane = None]
  OBVIOUS
<1> HIDE DEF d, r
<1>5. Formed(d) /\ d.session = c.session /\ d.window = c.window /\ d.connected = c.connected
  BY <1>3, <1>4 DEF Formed
<1>6. d.detail = c.detail /\ d.playing = c.playing /\ d.pane = None
  BY <1>3, <1>4 DEF Formed
<1>7. Formed(r) /\ r.session = scorePanel.session /\ r.window = scorePanel.window /\ r.connected = scorePanel.connected
  BY <1>1, <1>4 DEF Formed
<1>8. r.detail = scorePanel.detail /\ r.playing = scorePanel.playing /\ r.dismissed = scorePanel.dismissed /\ r.pane = None
  BY <1>1, <1>4 DEF Formed
<1>9. Formed(scorePanel') /\ scorePanel'.window = scorePanel.window
  BY <1>2, <1>3, <1>5, <1>7 DEF Stays
<1>10. Sound(scorePanel')
  BY <1>1, <1>2, <1>3, <1>6, <1>8 DEF Sound, Shut
<1>11. HiddenRests(scorePanel, scorePanel')
  BY <1>1, <1>2, <1>3, <1>5, <1>6, <1>7, <1>8 DEF HiddenRests, Stays
<1> QED
  BY <1>1, <1>9, <1>10, <1>11, ScoreGoes DEF WindowOwn

\* The play button: from the end, playback starts over.
LEMMA ScorePresses ==
  ASSUME ScoreInv, Score!PlayButton
  PROVE  ScoreInv' /\ ScoreActs
<1>1. Formed(scorePanel) /\ Sound(scorePanel)
  BY DEF ScoreInv
<1> DEFINE from == Score!Bounds(scorePanel.drawn).from
           h == Score!SetPlayhead(scorePanel, from, TRUE)
           stop == Score!SetPlaying(scorePanel, FALSE)
           on == Score!SetPlaying(scorePanel, TRUE)
           again == Score!SetPlaying(h, TRUE)
<1>2. Score!Gesture(stop) \/ Score!Gesture(on) \/ Score!Gesture(again)
  BY DEF Score!PlayButton
<1>3. Formed(h) /\ Turns(scorePanel, h) /\ Sound(h)
  BY <1>1, ScoreHeads
<1> HIDE DEF from, h
<1>4. /\ Formed(stop) /\ Stays(scorePanel, stop) /\ Sound(stop) /\ Formed(on) /\ Stays(scorePanel, on) /\ Sound(on)
      /\ Formed(again) /\ Stays(h, again) /\ Sound(again)
  BY <1>1, <1>3, ScorePlays DEF Sound
<1> HIDE DEF stop, on, again
<1>5. Turns(scorePanel, stop) /\ Turns(scorePanel, on) /\ Turns(scorePanel, again)
  BY <1>3, <1>4, StaysTurns
<1> QED
  BY <1>2, <1>4, <1>5, ScoreGestures

LEMMA ScoreUses ==
  ASSUME ScoreInv, Score!Step \/ Score!ClickChart \/ Score!Fit \/ Score!Zoom
  PROVE  ScoreInv' /\ ScoreActs
<1>1. Formed(scorePanel) /\ Sound(scorePanel)
  BY DEF ScoreInv
<1>2. CASE Score!Step
  <2>1. PICK e : Score!Gesture(Score!Select(scorePanel, e))
    BY <1>2 DEF Score!Step
  <2> QED
    BY <1>1, <2>1, ScoreSelects, ScoreGestures
<1>3. CASE Score!ClickChart
  <2>1. PICK t : Score!Gesture(Score!SetPlayhead(scorePanel, t, FALSE))
    BY <1>3 DEF Score!ClickChart
  <2> QED
    BY <1>1, <2>1, ScoreHeads, ScoreGestures
<1>4. CASE Score!Fit \/ Score!Zoom
  <2>1. PICK v : Score!Gesture(Score!SetView(scorePanel, v, TRUE))
    BY <1>4 DEF Score!Fit, Score!Zoom
  <2> DEFINE r == Score!SetView(scorePanel, v, TRUE)
  <2>2. Formed(r) /\ Turns(scorePanel, r) /\ Pane(scorePanel, r)
    BY <1>1, ScoreViews
  <2>3. Score!Gesture(r)
    BY <2>1
  <2> HIDE DEF r
  <2> QED
    BY <1>1, <2>2, <2>3, SoundKept, ScoreGestures
<1> QED
  BY <1>2, <1>3, <1>4

LEMMA ScoreStep ==
  ASSUME ScoreInv, [Score!Next]_(Score!vars)
  PROVE  ScoreInv' /\ ScoreActs
<1>1. Formed(scorePanel) /\ Sound(scorePanel) /\ moveBudget \in Counts
  BY DEF ScoreInv
<1>2. CASE Score!Serve \/ Score!Fails \/ UNCHANGED Score!vars
  <2>1. scorePanel' = scorePanel /\ moveBudget' \in Counts
    BY <1>1, <1>2, ScoreSpends DEF Score!Serve, Score!Fails, Score!vars
  <2> QED
    BY <2>1, ScoreRests
<1>3. CASE Score!EventsLand
  <2>1. PICK h : scorePanel' = IF h.inForce THEN Score!Landed(scorePanel, h) ELSE scorePanel
    BY <1>3 DEF Score!EventsLand
  <2>2. moveBudget' = moveBudget
    BY <1>3 DEF Score!EventsLand
  <2> QED
    BY <1>1, <2>1, <2>2, ScoreLands, ScoreAnswers, ScoreRests
<1>4. CASE Score!SignaturesLand
  <2>1. PICK h : scorePanel' = IF h.inForce THEN Score!Signed([scorePanel EXCEPT !.sigs = h.session]) ELSE scorePanel
    BY <1>4 DEF Score!SignaturesLand
  <2>2. moveBudget' = moveBudget
    BY <1>4 DEF Score!SignaturesLand
  <2> QED
    BY <1>1, <2>1, <2>2, ScoreSigns, ScoreAnswers, ScoreRests
<1>5. CASE Score!DetailLands \/ Score!DetailFails
  BY <1>5, ScoreDetails
<1>6. CASE Score!Enter \/ Score!Leave \/ Score!SessionCleared \/ Score!WindowMoves \/ Score!Refresh \/ Score!OtherTakesPane
  BY <1>6, ScoreShifts
<1>7. CASE Score!OpenSession
  BY <1>7, ScoreOpens
<1>8. CASE Score!Close
  BY <1>8, ScoreCloses
<1>9. CASE Score!PlayButton
  BY <1>9, ScorePresses
<1>10. CASE Score!Step \/ Score!ClickChart \/ Score!Fit \/ Score!Zoom
  BY <1>10, ScoreUses
<1>11. CASE Score!Frame
  <2>1. scorePanel.playing /\ scorePanel' = Score!Advance(scorePanel) /\ moveBudget' = moveBudget
    BY <1>11 DEF Score!Frame
  <2> DEFINE r == Score!Advance(scorePanel)
  <2>2. Formed(r) /\ Sound(r) /\ r.session = scorePanel.session /\ r.window = scorePanel.window /\ r.connected = scorePanel.connected
    BY <1>1, ScoreAdvances
  <2>3. scorePanel' = r /\ scorePanel.connected
    BY <2>1 DEF ScoreInv
  <2> HIDE DEF r
  <2> QED
    BY <1>1, <2>1, <2>2, <2>3, ScoreGoes DEF HiddenRests, WindowOwn
<1> QED
  BY <1>2, <1>3, <1>4, <1>5, <1>6, <1>7, <1>8, <1>9, <1>10, <1>11 DEF Score!Next

LEMMA ScoreInit ==
  ASSUME Score!Init
  PROVE  ScoreInv
<1>1. Formed(scorePanel)
  BY DEF Score!Init, Formed
<1>2. /\ ~scorePanel.dismissed /\ ~scorePanel.playing /\ scorePanel.detail = None
  BY DEF Score!Init
<1>3. moveBudget \in Counts
  BY LensesAssumption DEF Score!Init, Counts
<1> QED
  BY <1>1, <1>2, <1>3 DEF ScoreInv, Sound, Shut

LEMMA ScoreMean ==
  ASSUME ScoreInv
  PROVE  Score!ClosedStaysClosed /\ Score!NoFetchInPlayback
BY DEF ScoreInv, Sound, Shut, Score!ClosedStaysClosed, Score!NoFetchInPlayback, Score!Own

HIDE DEF scorePanel, moveBudget

----------------------------------------------------------------------------
(* The lenses.                                                             *)

LensesInv ==
  /\ On("score") => ScoreInv
  /\ On("notebooks") => NotesInv
  /\ On("tabs") => TabsInv
  /\ On("routes") => RoutesInv
  /\ On("loops") => LoopsInv
  /\ On("evidence") => CourtInv

LEMMA LensesInit == Init => LensesInv
<1> SUFFICES ASSUME Init PROVE LensesInv
  OBVIOUS
<1>1. On("score") => Score!Init
  BY DEF Init, On
<1>2. On("notebooks") => Notebooks!Init
  BY DEF Init, On
<1>3. On("tabs") => Tabs!Init
  BY DEF Init, On
<1>4. On("routes") => Route!Init
  BY DEF Init, On
<1>5. On("loops") => Loop!Init
  BY DEF Init, On
<1>6. On("evidence") => Court!Init
  BY DEF Init, On
<1> QED
  BY <1>1, <1>2, <1>3, <1>4, <1>5, <1>6, ScoreInit, NotesInit, TabsInit, RoutesInit, LoopsInit, CourtInit DEF LensesInv

\* A step of the whole is one of the chosen machine, or leaves its cells alone.
LEMMA LensesMove ==
  ASSUME [Next]_cells
  PROVE  /\ machine' = machine
         /\ On("score") => [Score!Next]_(Score!vars)
         /\ On("notebooks") => [Notebooks!Next]_(Notebooks!vars)
         /\ On("tabs") => [Tabs!Next]_(Tabs!vars)
         /\ On("routes") => [Route!Next]_(Route!vars)
         /\ On("loops") => [Loop!Next]_(Loop!vars)
         /\ On("evidence") => [Court!Next]_(Court!vars)
<1>1. CASE UNCHANGED cells
  BY <1>1 DEF cells, Score!vars, Notebooks!vars, Tabs!vars, Route!vars, Loop!vars, Court!vars
<1>2. CASE Next
  <2>1. machine' = machine
    BY <1>2 DEF Next
  <2>2. On("score") => Score!Next
    BY <1>2 DEF Next, On
  <2>3. On("notebooks") => Notebooks!Next
    BY <1>2 DEF Next, On
  <2>4. On("tabs") => Tabs!Next
    BY <1>2 DEF Next, On
  <2>5. On("routes") => Route!Next
    BY <1>2 DEF Next, On
  <2>6. On("loops") => Loop!Next
    BY <1>2 DEF Next, On
  <2>7. On("evidence") => Court!Next
    BY <1>2 DEF Next, On
  <2> QED
    BY <2>1, <2>2, <2>3, <2>4, <2>5, <2>6, <2>7
<1> QED
  BY <1>1, <1>2

LEMMA LensesStep == LensesInv /\ [Next]_cells => LensesInv'
<1> SUFFICES ASSUME LensesInv, [Next]_cells PROVE LensesInv'
  OBVIOUS
<1>0. machine' = machine
  BY LensesMove
<1>1. On("score") => ScoreInv'
  BY LensesMove, ScoreStep DEF LensesInv
<1>2. On("notebooks") => NotesInv'
  BY LensesMove, NotesStep DEF LensesInv
<1>3. On("tabs") => TabsInv'
  BY LensesMove, TabsStep DEF LensesInv
<1>4. On("routes") => RoutesInv'
  BY LensesMove, RoutesStep DEF LensesInv
<1>5. On("loops") => LoopsInv'
  BY LensesMove, LoopsStep DEF LensesInv
<1>6. On("evidence") => CourtInv'
  BY LensesMove, CourtStep DEF LensesInv
<1> QED
  BY <1>0, <1>1, <1>2, <1>3, <1>4, <1>5, <1>6 DEF LensesInv, On

\* What each machine contributes.
LEMMA LensesMean == LensesInv => ShowsOwn
<1> SUFFICES ASSUME LensesInv PROVE ShowsOwn
  OBVIOUS
<1>1. CASE On("score")
  BY <1>1, ScoreMean DEF LensesInv, ShowsOwn, On
<1>2. CASE On("notebooks")
  BY <1>2, NotesMean DEF LensesInv, ShowsOwn, On
<1>3. CASE On("tabs")
  BY <1>3, TabsMeans DEF LensesInv, ShowsOwn, On
<1>4. CASE On("routes")
  BY <1>4, RoutesMean DEF LensesInv, ShowsOwn, On
<1>5. CASE On("loops")
  BY <1>5, LoopsMean DEF LensesInv, ShowsOwn, On
<1>6. CASE On("evidence")
  BY <1>6, CourtMeans DEF LensesInv, ShowsOwn, On
<1>7. CASE ~(On("score") \/ On("notebooks") \/ On("tabs") \/ On("routes") \/ On("loops") \/ On("evidence"))
  BY <1>7 DEF ShowsOwn
<1> QED
  BY <1>1, <1>2, <1>3, <1>4, <1>5, <1>6, <1>7

\* WritesOwn, of one step.
StepWrites ==
  CASE On("score") -> Score!HiddenNeverWrites /\ Score!PublishesOwn
    [] On("notebooks") -> Notebooks!WritesOne /\ Notebooks!EditsKept /\ Notebooks!AttachesReviewed
    [] On("tabs") -> Tabs!RememberedStays
    [] On("loops") -> Loop!PicksInPlace
    [] OTHER -> TRUE

LEMMA LensesWrites == LensesInv /\ [Next]_cells => StepWrites
<1> SUFFICES ASSUME LensesInv, [Next]_cells PROVE StepWrites
  OBVIOUS
<1>1. CASE On("score")
  BY <1>1, LensesMove, ScoreStep DEF LensesInv, StepWrites, ScoreActs, On
<1>2. CASE On("notebooks")
  BY <1>2, LensesMove, NotesStep DEF LensesInv, StepWrites, NotesActs, On
<1>3. CASE On("tabs")
  BY <1>3, LensesMove, TabsActs DEF LensesInv, StepWrites, On
<1>4. CASE On("loops")
  BY <1>4, LensesMove, LoopsStep DEF LensesInv, StepWrites, On
<1>5. CASE ~(On("score") \/ On("notebooks") \/ On("tabs") \/ On("loops"))
  BY <1>5 DEF StepWrites
<1> QED
  BY <1>1, <1>2, <1>3, <1>4, <1>5

\* Whatever is in flight when the scope, the fields or the tab moves, and in whatever order it
\* is answered: a pane that the user closed stays closed and playback fetches nothing (score);
\* what a notebook calls verified is the event whose id is in the field (notebooks); one lens is
\* up, on the session and the window of the scope (tabs); a route is of the fields, and a receipt
\* of the record in focus (routes); the loops are of the session of the scope, and what is
\* selected exists in its window (loops); a receipt is behind a row that is listed, and a page
\* of the signature that is active (evidence).
THEOREM LensesShowOwn == FairSpec => []ShowsOwn
<1> QED
  BY LensesInit, LensesStep, LensesMean, PTL DEF FairSpec

\* A step writes only what is its own: a hidden score leaves the pane to the others, and a score
\* publishes its window for its session only; a notebook changes one entry of what is stored,
\* unsaved edits end saved, reverted or removed, and the Court verifies what was looked up for
\* the requirement selected; a listing does not undo a name given since it began (tabs); and a
\* pick of the source filters what is loaded instead of loading it again (loops).
THEOREM LensesWriteOwn == FairSpec => WritesOwn
<1>1. LensesInv /\ [Next]_cells => [StepWrites]_cells
  BY LensesWrites
<1> QED
  BY <1>1, LensesInit, LensesStep, PTL DEF FairSpec, WritesOwn, StepWrites

=============================================================================
