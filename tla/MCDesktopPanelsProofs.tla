----------------------- MODULE MCDesktopPanelsProofs ------------------------
(***************************************************************************)
(* Proofs about the machines of MCDesktopPanels, for any choice of them    *)
(* and any bounds: what a panel shows is of the scope it says it is of,    *)
(* slots and mounted views have one owner, and no answer overwrites a      *)
(* newer one.  A section for each machine proves an inductive invariant of *)
(* it; the last one puts them together.                                    *)
(***************************************************************************)
EXTENDS MCDesktopPanels, Sequences, FiniteSetTheorems, TLAPS

\* The cells by the names that several machines know them by.
budget == x1
active == x2
shown == x2
requests == x3
USE DEF budget, active, shown, requests

----------------------------------------------------------------------------
(* Least elements, and the size of images.                                 *)

\* A set of numbers that is not empty has a least one.
LEMMA LeastOf ==
  ASSUME NEW U \in SUBSET Nat, U # {}
  PROVE  \E x \in U : \A y \in U : x <= y
<1>1. PICK x \in U : \A y \in U : <<y, x>> \notin OpToRel(<, Nat)
  BY NatLessThanWellFounded, WFMin, Zenon
<1>2. ASSUME NEW y \in U
      PROVE  x <= y
  <2>1. x \in Nat /\ y \in Nat
    OBVIOUS
  <2>2. <<y, x>> \in Nat \X Nat /\ <<y, x>> \notin OpToRel(<, Nat)
    BY <1>1, <2>1
  <2>3. ~(y < x)
    BY <2>2 DEF OpToRel
  <2> QED
    BY <2>1, <2>3
<1> QED
  BY <1>2

\* The image of a finite set is not larger.
LEMMA ImageBound ==
  ASSUME NEW S, IsFiniteSet(S), NEW f, DOMAIN f = S, f = [x \in S |-> f[x]]
  PROVE  /\ IsFiniteSet({f[x] : x \in S}) /\ Cardinality({f[x] : x \in S}) \in Nat
         /\ Cardinality(S) \in Nat /\ Cardinality({f[x] : x \in S}) <= Cardinality(S)
<1> DEFINE U == {f[x] : x \in S}
<1>1. f \in Surjection(S, U)
  BY DEF Surjection
<1> HIDE DEF U
<1>2. IsFiniteSet(U) /\ Cardinality(U) <= Cardinality(S)
  BY <1>1, FS_Surjection
<1> QED
  BY <1>2, FS_CardinalityType DEF U

\* What is left of a bounded set when its elements change, and one joins.
LEMMA JoinBound ==
  ASSUME NEW S, IsFiniteSet(S), NEW U, NEW f \in Surjection(S, U), NEW e, NEW n \in Nat, Cardinality(S) < n
  PROVE  IsFiniteSet(U \cup {e}) /\ Cardinality(U \cup {e}) <= n
<1>1. IsFiniteSet(U) /\ Cardinality(U) \in Nat /\ Cardinality(S) \in Nat /\ Cardinality(U) <= Cardinality(S)
  BY FS_Surjection, FS_CardinalityType
<1>2. IsFiniteSet(U \cup {e}) /\ (Cardinality(U \cup {e}) = Cardinality(U) \/ Cardinality(U \cup {e}) = Cardinality(U) + 1)
  BY <1>1, FS_AddElement
<1> QED
  BY <1>1, <1>2

\* One element gives way to another.
LEMMA SwapBound ==
  ASSUME NEW S, IsFiniteSet(S), NEW r \in S, NEW e
  PROVE  IsFiniteSet((S \ {r}) \cup {e}) /\ Cardinality((S \ {r}) \cup {e}) <= Cardinality(S)
<1> DEFINE U == S \ {r}
<1>1. IsFiniteSet(U) /\ Cardinality(U) = Cardinality(S) - 1 /\ Cardinality(S) \in Nat
  BY FS_RemoveElement, FS_CardinalityType
<1> HIDE DEF U
<1>2. IsFiniteSet(U \cup {e}) /\ (Cardinality(U \cup {e}) = Cardinality(U) \/ Cardinality(U \cup {e}) = Cardinality(U) + 1)
  BY <1>1, FS_AddElement
<1> QED
  BY <1>1, <1>2 DEF U

\* One element leaves.
LEMMA DropBound ==
  ASSUME NEW S, IsFiniteSet(S), NEW r
  PROVE  IsFiniteSet(S \ {r}) /\ Cardinality(S \ {r}) <= Cardinality(S)
<1>1. S \ {r} \in SUBSET S
  OBVIOUS
<1> QED
  BY <1>1, FS_Subset

\* A set whose elements are equal has at most one.
LEMMA AtMostOne ==
  ASSUME NEW S, \A x, y \in S : x = y
  PROVE  IsFiniteSet(S) /\ Cardinality(S) <= 1
<1>1. CASE S = {}
  BY <1>1, FS_EmptySet
<1>2. CASE S # {}
  <2>1. PICK x \in S : TRUE
    BY <1>2
  <2>2. S = {x}
    BY <2>1
  <2>3. IsFiniteSet({x}) /\ Cardinality({x}) = 1
    BY FS_Singleton
  <2> QED
    BY <2>2, <2>3
<1> QED
  BY <1>1, <1>2

----------------------------------------------------------------------------
(* Fleet.                                                                  *)

failed == x4
failedOffline == x5
connected == x6
loads == x7
stamp == x8
serves == x9
data == x10
unsupported == x11
primed == x12
encoding == x13
mounted == x14
inflight == x15
eventTimer == x16
drawn == x17
changed == x18
USE DEF failed, failedOffline, connected, loads, stamp, serves, data, unsupported, primed, encoding, mounted,
        inflight, eventTimer, drawn, changed

FleetCall == [inForce : BOOLEAN, what : Fleet!Whats, served : BOOLEAN, hung : BOOLEAN, at : Nat]

FleetTyped ==
  /\ stamp \in Nat /\ serves \in BOOLEAN
  /\ data \in [Fleet!Whats -> 0..stamp \cup {None}] /\ failed \in [Fleet!Whats -> BOOLEAN]
  /\ unsupported \in BOOLEAN /\ failedOffline \in BOOLEAN /\ connected \in BOOLEAN /\ active \in BOOLEAN
  /\ primed \in BOOLEAN /\ inflight \in BOOLEAN /\ eventTimer \in BOOLEAN /\ changed \in BOOLEAN
  /\ encoding \in Fleet!Encodings
  /\ loads \subseteq BOOLEAN
  /\ requests \subseteq FleetCall
  /\ \A r \in requests : r.inForce \in loads /\ r.at <= stamp

\* Of the load in force there is one call for each half of the picture, and what it was
\* served with is not older than that half.
FleetCalls ==
  /\ \A r, q \in requests : r.inForce /\ q.inForce /\ r.what = q.what => r = q
  /\ \A r \in requests : r.inForce /\ r.served => data[r.what] = None \/ r.at >= data[r.what]

FleetInv == FleetTyped /\ FleetCalls /\ Fleet!HostFollowsEncoding /\ Fleet!SlotHeldByNewest

LEMMA FleetInit == Fleet!Init => FleetInv
<1> SUFFICES ASSUME Fleet!Init PROVE FleetInv
  OBVIOUS
<1>1. requests = {} /\ loads = {} /\ active = FALSE /\ mounted = None /\ inflight = FALSE
  BY DEF Fleet!Init
<1>2. stamp = 0 /\ data \in [Fleet!Whats -> {None}] /\ failed \in [Fleet!Whats -> {FALSE}]
  BY DEF Fleet!Init
<1>3. data \in [Fleet!Whats -> 0..stamp \cup {None}] /\ failed \in [Fleet!Whats -> BOOLEAN]
  BY <1>2
<1>4. encoding \in Fleet!Encodings
  BY DEF Fleet!Init, Fleet!Encodings
<1>5. /\ serves \in BOOLEAN /\ unsupported \in BOOLEAN /\ failedOffline \in BOOLEAN /\ connected \in BOOLEAN
      /\ primed \in BOOLEAN /\ eventTimer \in BOOLEAN /\ changed \in BOOLEAN
  BY DEF Fleet!Init
<1>7. FleetTyped
  BY <1>1, <1>2, <1>3, <1>4, <1>5 DEF FleetTyped
<1>6. FleetCalls
  BY <1>1 DEF FleetCalls
<1> QED
  BY <1>1, <1>6, <1>7 DEF FleetInv, Fleet!HostFollowsEncoding, Fleet!SlotHeldByNewest

\* Draws leaves the host of the encoding mounted, while the panel is shown.
LEMMA FleetDraws ==
  ASSUME FleetInv, Fleet!Draws, active', encoding' \in Fleet!Encodings
  PROVE  Fleet!HostFollowsEncoding' /\ changed' \in BOOLEAN
BY DEF FleetInv, FleetTyped, Fleet!Draws, Fleet!HostFollowsEncoding

\* A load that starts supersedes the others and asks for both halves.
LEMMA FleetStarts ==
  ASSUME FleetInv, Fleet!Starts
  PROVE  /\ inflight' = TRUE /\ loads' \subseteq BOOLEAN /\ TRUE \in loads'
         /\ requests' \subseteq FleetCall
         /\ \A r \in requests' : r.inForce \in loads' /\ r.at <= stamp /\ (r.inForce => ~r.served)
         /\ \A r, q \in requests' : r.inForce /\ q.inForce /\ r.what = q.what => r = q
<1> DEFINE old == {[r EXCEPT !.hung = FALSE, !.inForce = FALSE] : r \in requests}
           new == {[inForce |-> TRUE, what |-> w, served |-> FALSE, hung |-> FALSE, at |-> 0] : w \in Fleet!Whats}
<1>1. inflight' = TRUE /\ loads' \subseteq BOOLEAN /\ TRUE \in loads' /\ requests' = old \cup new
  BY DEF Fleet!Starts, FleetInv, FleetTyped
<1>2. requests # {} => FALSE \in loads'
  BY DEF Fleet!Starts, FleetInv, FleetTyped
<1>3. \A r \in old : r \in FleetCall /\ r.inForce = FALSE /\ r.at <= stamp /\ FALSE \in loads'
  BY <1>2 DEF FleetInv, FleetTyped, FleetCall
<1>4. ASSUME NEW r \in new
      PROVE  r \in FleetCall /\ r.inForce = TRUE /\ r.at = 0 /\ ~r.served
  <2>1. PICK w \in Fleet!Whats : r = [inForce |-> TRUE, what |-> w, served |-> FALSE, hung |-> FALSE, at |-> 0]
    OBVIOUS
  <2> QED
    BY <2>1 DEF FleetCall
<1>5. ASSUME NEW r \in new, NEW q \in new, r.what = q.what
      PROVE  r = q
  <2>1. PICK w \in Fleet!Whats : r = [inForce |-> TRUE, what |-> w, served |-> FALSE, hung |-> FALSE, at |-> 0]
    OBVIOUS
  <2>2. PICK v \in Fleet!Whats : q = [inForce |-> TRUE, what |-> v, served |-> FALSE, hung |-> FALSE, at |-> 0]
    OBVIOUS
  <2>3. r.what = w /\ q.what = v
    BY <2>1, <2>2
  <2> QED
    BY <1>5, <2>1, <2>2, <2>3
<1>6. stamp \in Nat
  BY DEF FleetInv, FleetTyped
<1> HIDE DEF old, new
<1>7. requests' \subseteq FleetCall
  BY <1>1, <1>3, <1>4
<1>8. \A r \in requests' : r.inForce \in loads' /\ r.at <= stamp /\ (r.inForce => ~r.served)
  <2>1. \A r \in old : r.inForce \in loads' /\ r.at <= stamp /\ (r.inForce => ~r.served)
    BY <1>3
  <2>2. \A r \in new : r.inForce \in loads' /\ (r.inForce => ~r.served)
    BY <1>1, <1>4, Zenon
  <2>3. \A r \in new : r.at <= stamp
    <3>1. \A r \in new : r.at = 0
      BY <1>4, Zenon
    <3>2. 0 <= stamp
      BY <1>6
    <3> QED
      BY <3>1, <3>2
  <2> QED
    BY <1>1, <2>1, <2>2, <2>3
<1>9. \A r, q \in requests' : r.inForce /\ q.inForce /\ r.what = q.what => r = q
  BY <1>1, <1>3, <1>4, <1>5
<1> QED
  BY <1>1, <1>7, <1>8, <1>9

LEMMA FleetCallFields ==
  ASSUME NEW r \in FleetCall
  PROVE  r.inForce \in BOOLEAN /\ r.what \in Fleet!Whats /\ r.served \in BOOLEAN /\ r.hung \in BOOLEAN /\ r.at \in Nat
BY DEF FleetCall

LEMMA FleetStep == FleetInv /\ [Fleet!Next]_(Fleet!vars) => FleetInv'
<1> SUFFICES ASSUME FleetInv, [Fleet!Next]_(Fleet!vars) PROVE FleetInv'
  OBVIOUS
<1> USE FleetCallFields
<1>1. CASE UNCHANGED Fleet!vars
  BY <1>1 DEF Fleet!vars, FleetInv, FleetTyped, FleetCalls, Fleet!HostFollowsEncoding, Fleet!SlotHeldByNewest
<1>2. CASE Fleet!MarkExpires
  BY <1>2 DEF Fleet!MarkExpires, Fleet!loadVars, FleetInv, FleetTyped, FleetCalls, Fleet!HostFollowsEncoding,
     Fleet!SlotHeldByNewest
<1>3. CASE Fleet!Load \/ Fleet!TimerLoad
  <2>1. Fleet!Starts /\ active /\ UNCHANGED <<stamp, serves, data, failed, unsupported, failedOffline, connected, active, primed,
                 encoding, mounted, changed>> /\ eventTimer' \in BOOLEAN
    BY <1>3 DEF Fleet!Load, Fleet!TimerLoad, Fleet!viewVars, FleetInv, FleetTyped
  <2> QED
    BY <2>1, FleetStarts DEF FleetInv, FleetTyped, FleetCalls, Fleet!HostFollowsEncoding, Fleet!SlotHeldByNewest
<1>4. CASE Fleet!EventTimerSkips
  BY <1>4 DEF Fleet!EventTimerSkips, Fleet!loadVars, Fleet!viewVars, FleetInv, FleetTyped, FleetCalls,
     Fleet!HostFollowsEncoding, Fleet!SlotHeldByNewest
<1>5. CASE Fleet!OnEvent
  <2>1. stamp' = stamp + 1 /\ eventTimer' = TRUE
        /\ UNCHANGED <<serves, data, failed, unsupported, failedOffline, connected, active, primed,
                 encoding, mounted, changed, inflight, loads, requests>>
    BY <1>5 DEF Fleet!OnEvent, Fleet!loadVars, Fleet!viewVars
  <2>2. stamp \in Nat /\ 0..stamp \subseteq 0..stamp'
    BY <2>1 DEF FleetInv, FleetTyped
  <2>3. FleetTyped'
    BY <2>1, <2>2 DEF FleetInv, FleetTyped
  <2> QED
    BY <2>1, <2>3 DEF FleetInv, FleetCalls, Fleet!HostFollowsEncoding, Fleet!SlotHeldByNewest
<1>6. CASE Fleet!Serve
  <2>1. PICK r \in requests : r.inForce /\ ~r.served /\ requests' = (requests \ {r}) \cup {[r EXCEPT !.served = TRUE, !.at = stamp]}
    BY <1>6 DEF Fleet!Serve
  <2>2. UNCHANGED <<stamp, serves, data, failed, unsupported, failedOffline, connected, active, primed,
                 encoding, mounted, changed, inflight, loads, eventTimer>>
    BY <1>6 DEF Fleet!Serve, Fleet!viewVars
  <2> DEFINE n == [r EXCEPT !.served = TRUE, !.at = stamp]
  <2>3. n \in FleetCall /\ n.inForce = r.inForce /\ n.what = r.what /\ n.at = stamp
    BY DEF FleetInv, FleetTyped, FleetCall
  <2> HIDE DEF n
  <2>4. FleetTyped'
    <3>1. requests' \subseteq FleetCall
      BY <2>1, <2>3 DEF FleetInv, FleetTyped, n
    <3>2. \A q \in requests : q.inForce \in loads /\ q.at <= stamp
      BY DEF FleetInv, FleetTyped
    <3>3. n.inForce \in loads /\ n.at <= stamp
      BY <2>3, <3>2 DEF FleetInv, FleetTyped
    <3>4. requests' = (requests \ {r}) \cup {n}
      BY <2>1 DEF n
    <3>5. \A q \in requests' : q.inForce \in loads /\ q.at <= stamp
      BY <3>2, <3>3, <3>4
    <3> QED
      BY <2>2, <3>1, <3>5 DEF FleetInv, FleetTyped
  <2>5. data[r.what] = None \/ n.at >= data[r.what]
    BY <2>3 DEF FleetInv, FleetTyped
  <2>6. \A p, q \in requests' : p.inForce /\ q.inForce /\ p.what = q.what => p = q
    <3>1. requests' = (requests \ {r}) \cup {n}
      BY <2>1 DEF n
    <3>2. \A q \in requests \ {r} : q.inForce => q.what # r.what
      BY <2>1 DEF FleetInv, FleetCalls
    <3> QED
      BY <2>3, <3>1, <3>2 DEF FleetInv, FleetCalls
  <2>7. FleetCalls'
    BY <2>1, <2>2, <2>3, <2>5, <2>6 DEF FleetInv, FleetCalls, n
  <2> QED
    BY <2>2, <2>4, <2>7 DEF FleetInv, Fleet!HostFollowsEncoding, Fleet!SlotHeldByNewest
<1>7. CASE Fleet!Hang
  <2>1. PICK r \in requests : r.inForce /\ ~r.served /\ requests' = (requests \ {r}) \cup {[r EXCEPT !.hung = TRUE]}
    BY <1>7 DEF Fleet!Hang
  <2>2. UNCHANGED <<stamp, serves, data, failed, unsupported, failedOffline, connected, active, primed,
                 encoding, mounted, changed, inflight, loads, eventTimer>>
    BY <1>7 DEF Fleet!Hang, Fleet!viewVars
  <2> DEFINE n == [r EXCEPT !.hung = TRUE]
  <2>3. n \in FleetCall /\ n.inForce = r.inForce /\ n.what = r.what /\ n.at = r.at /\ ~n.served
    BY <2>1 DEF FleetInv, FleetTyped, FleetCall
  <2> HIDE DEF n
  <2>4. FleetTyped'
    BY <2>1, <2>2, <2>3 DEF FleetInv, FleetTyped, n
  <2>6. \A p, q \in requests' : p.inForce /\ q.inForce /\ p.what = q.what => p = q
    <3>1. requests' = (requests \ {r}) \cup {n}
      BY <2>1 DEF n
    <3>2. \A q \in requests \ {r} : q.inForce => q.what # r.what
      BY <2>1 DEF FleetInv, FleetCalls
    <3> QED
      BY <2>3, <3>1, <3>2 DEF FleetInv, FleetCalls
  <2>7. FleetCalls'
    BY <2>1, <2>2, <2>3, <2>6 DEF FleetInv, FleetCalls, n
  <2> QED
    BY <2>2, <2>4, <2>7 DEF FleetInv, Fleet!HostFollowsEncoding, Fleet!SlotHeldByNewest
<1>8. CASE Fleet!Answered
  <2>1. PICK r \in requests :
          /\ r.served /\ requests' = requests \ {r}
          /\ IF Fleet!Live(r.inForce)
             THEN /\ data' = [data EXCEPT ![r.what] = IF Fleet!Missing(r) THEN None ELSE r.at]
                  /\ failed' = [failed EXCEPT ![r.what] = FALSE]
                  /\ unsupported' = (IF r.what = "wt" THEN Fleet!Missing(r) ELSE unsupported)
                  /\ encoding' = encoding /\ Fleet!Draws
             ELSE UNCHANGED <<data, failed, unsupported, encoding, drawn, changed, mounted>>
          /\ UNCHANGED <<stamp, serves, failedOffline, connected, active, primed, inflight, loads, eventTimer>>
    BY <1>8 DEF Fleet!Answered, Fleet!viewVars
  <2>2. r \in FleetCall /\ r.what \in Fleet!Whats /\ r.at \in 0..stamp
    BY DEF FleetInv, FleetTyped
  <2>3. CASE ~Fleet!Live(r.inForce)
    BY <2>1, <2>3 DEF FleetInv, FleetTyped, FleetCalls, Fleet!HostFollowsEncoding, Fleet!SlotHeldByNewest
  <2>4. CASE Fleet!Live(r.inForce)
    <3>1. active /\ r.inForce
      BY <2>4 DEF Fleet!Live
    <3>2. Fleet!HostFollowsEncoding' /\ changed' \in BOOLEAN
      BY <2>1, <2>4, <3>1, FleetDraws DEF FleetInv, FleetTyped
    <3>3. unsupported' \in BOOLEAN
      BY <2>1, <2>4 DEF FleetInv, FleetTyped, Fleet!Missing
    <3>4. FleetTyped'
      BY <2>1, <2>2, <2>4, <3>2, <3>3 DEF FleetInv, FleetTyped
    <3>5. \A q \in requests' : q.inForce => q.what # r.what /\ q \in requests
      BY <2>1, <3>1 DEF FleetInv, FleetCalls
    <3>6. FleetCalls'
      BY <2>1, <2>2, <2>4, <3>5 DEF FleetInv, FleetTyped, FleetCalls
    <3> QED
      BY <2>1, <3>2, <3>4, <3>6 DEF FleetInv, Fleet!SlotHeldByNewest
  <2> QED
    BY <2>3, <2>4
<1>9. CASE Fleet!Refused \/ Fleet!Aborted \/ Fleet!Deadline
  <2>1. PICK r \in requests, refused \in BOOLEAN : Fleet!Fails(r, refused)
    BY <1>9 DEF Fleet!Refused, Fleet!Aborted, Fleet!Deadline
  <2>2. r \in FleetCall /\ r.what \in Fleet!Whats
    BY DEF FleetInv, FleetTyped
  <2>3. requests' = requests \ {r} /\ data' = data /\ encoding' = encoding /\ unsupported' = unsupported
        /\ UNCHANGED <<stamp, serves, connected, active, primed, inflight, loads, eventTimer>>
    BY <2>1 DEF Fleet!Fails, Fleet!viewVars
  <2>4. failed' \in [Fleet!Whats -> BOOLEAN] /\ failedOffline' \in BOOLEAN
    BY <2>1, <2>2 DEF Fleet!Fails, FleetInv, FleetTyped
  <2>5. Fleet!HostFollowsEncoding' /\ changed' \in BOOLEAN
    <3>1. CASE Fleet!Live(r.inForce)
      BY <2>1, <2>3, <3>1, FleetDraws DEF Fleet!Fails, Fleet!Live, FleetInv, FleetTyped
    <3>2. CASE ~Fleet!Live(r.inForce)
      BY <2>1, <2>3, <3>2 DEF Fleet!Fails, Fleet!viewVars, FleetInv, FleetTyped, Fleet!HostFollowsEncoding
    <3> QED
      BY <3>1, <3>2
  <2>6. FleetTyped' /\ FleetCalls'
    BY <2>3, <2>4, <2>5 DEF FleetInv, FleetTyped, FleetCalls
  <2> QED
    BY <2>3, <2>5, <2>6 DEF FleetInv, Fleet!SlotHeldByNewest
<1>10. CASE Fleet!LoadEnds
  <2>1. PICK t \in loads :
          /\ ~\E r \in requests : r.inForce = t
          /\ loads' = loads \ {t} /\ inflight' = Fleet!Held(t)
          /\ IF Fleet!Live(t)
             THEN /\ failedOffline' = (failedOffline /\ \E w \in Fleet!Whats : failed[w]) /\ primed' = TRUE
                  /\ UNCHANGED <<data, unsupported, encoding>> /\ Fleet!Draws
             ELSE UNCHANGED <<failedOffline, primed, data, unsupported, encoding, drawn, changed, mounted>>
          /\ UNCHANGED <<stamp, serves, failed, connected, active, requests, eventTimer>>
    BY <1>10 DEF Fleet!LoadEnds, Fleet!viewVars
  <2>2. t \in BOOLEAN
    BY DEF FleetInv, FleetTyped
  <2>3. Fleet!HostFollowsEncoding' /\ changed' \in BOOLEAN /\ primed' \in BOOLEAN /\ failedOffline' \in BOOLEAN
        /\ UNCHANGED <<data, unsupported, encoding>>
    <3>1. CASE Fleet!Live(t)
      BY <2>1, <3>1, FleetDraws DEF Fleet!Live, FleetInv, FleetTyped
    <3>2. CASE ~Fleet!Live(t)
      BY <2>1, <3>2 DEF FleetInv, FleetTyped, Fleet!HostFollowsEncoding
    <3> QED
      BY <3>1, <3>2
  <2>4. Fleet!SlotHeldByNewest' /\ inflight' \in BOOLEAN
    BY <2>1, <2>2 DEF FleetInv, FleetTyped, Fleet!SlotHeldByNewest, Fleet!Held
  <2>5. FleetTyped' /\ FleetCalls'
    BY <2>1, <2>3, <2>4 DEF FleetInv, FleetTyped, FleetCalls
  <2> QED
    BY <2>3, <2>4, <2>5 DEF FleetInv
<1>11. CASE Fleet!Activate
  <2>1. active' = TRUE /\ Fleet!Starts /\ Fleet!Draws
        /\ UNCHANGED <<data, encoding, unsupported, stamp, serves, failed, failedOffline, connected, primed, eventTimer>>
    BY <1>11 DEF Fleet!Activate
  <2>2. Fleet!HostFollowsEncoding' /\ changed' \in BOOLEAN
    BY <2>1, FleetDraws DEF FleetInv, FleetTyped
  <2> QED
    BY <2>1, <2>2, FleetStarts DEF FleetInv, FleetTyped, FleetCalls, Fleet!SlotHeldByNewest
<1>12. CASE Fleet!Deactivate
  <2>1. /\ active' = FALSE /\ mounted' = None /\ changed' = FALSE /\ inflight' = FALSE /\ eventTimer' = FALSE
        /\ loads # BOOLEAN /\ loads' = (IF TRUE \in loads THEN {FALSE} ELSE loads)
        /\ requests' = {[r EXCEPT !.hung = FALSE, !.inForce = FALSE] : r \in requests}
        /\ UNCHANGED <<stamp, serves, data, failed, unsupported, failedOffline, connected, primed, encoding>>
    BY <1>12 DEF Fleet!Deactivate, Fleet!Aborts
  <2>2. loads' \subseteq BOOLEAN /\ (requests # {} => FALSE \in loads')
    BY <2>1 DEF FleetInv, FleetTyped
  <2>3. ASSUME NEW r \in requests'
        PROVE  r \in FleetCall /\ r.inForce = FALSE /\ r.at <= stamp /\ FALSE \in loads'
    <3>1. PICK q \in requests : r = [q EXCEPT !.hung = FALSE, !.inForce = FALSE]
      BY <2>1
    <3>2. q \in FleetCall /\ q.at <= stamp
      BY DEF FleetInv, FleetTyped
    <3> QED
      BY <2>2, <3>1, <3>2 DEF FleetCall
  <2> QED
    BY <2>1, <2>2, <2>3 DEF FleetInv, FleetTyped, FleetCalls, Fleet!HostFollowsEncoding, Fleet!SlotHeldByNewest
<1>13. CASE Fleet!SetEncoding
  <2>1. encoding' \in Fleet!Encodings
        /\ UNCHANGED <<data, unsupported, stamp, serves, failed, failedOffline, connected, active, primed,
                       inflight, loads, requests, eventTimer>>
        /\ (active => Fleet!Draws) /\ (~active => mounted' = None /\ changed' = changed)
    BY <1>13 DEF Fleet!SetEncoding, Fleet!loadVars
  <2>2. Fleet!HostFollowsEncoding' /\ changed' \in BOOLEAN
    BY <2>1, FleetDraws DEF FleetInv, FleetTyped, Fleet!HostFollowsEncoding
  <2> QED
    BY <2>1, <2>2 DEF FleetInv, FleetTyped, FleetCalls, Fleet!SlotHeldByNewest
<1>14. CASE Fleet!SetConnected
  <2>1. connected' = ~connected
        /\ UNCHANGED <<stamp, serves, data, failed, unsupported, failedOffline, active, primed, encoding,
                       mounted, changed, eventTimer>>
    BY <1>14 DEF Fleet!SetConnected, Fleet!viewVars
  <2>2. CASE Fleet!Starts /\ active
    BY <2>1, <2>2, FleetStarts DEF FleetInv, FleetTyped, FleetCalls, Fleet!HostFollowsEncoding, Fleet!SlotHeldByNewest
  <2>3. CASE UNCHANGED <<inflight, loads, requests>>
    BY <2>1, <2>3 DEF FleetInv, FleetTyped, FleetCalls, Fleet!HostFollowsEncoding, Fleet!SlotHeldByNewest
  <2> QED
    BY <1>14, <2>2, <2>3 DEF Fleet!SetConnected, Fleet!loadVars
<1> QED
  BY <1>1, <1>2, <1>3, <1>4, <1>5, <1>6, <1>7, <1>8, <1>9, <1>10, <1>11, <1>12, <1>13, <1>14 DEF Fleet!Next

LEMMA FleetMeans ==
  ASSUME FleetInv
  PROVE  Fleet!TypeOK
<1>1. mounted \in Fleet!Hosts \cup {None}
  BY DEF FleetInv, Fleet!HostFollowsEncoding
<1>2. \A r \in requests : r.what \in Fleet!Whats /\ r.at \in 0..stamp
  BY FleetCallFields DEF FleetInv, FleetTyped
<1> QED
  BY <1>1, <1>2 DEF FleetInv, FleetTyped, Fleet!TypeOK

\* Only the load in force changes the picture, and each half of it once.
LEMMA FleetActs ==
  ASSUME FleetInv, [Fleet!Next]_(Fleet!vars)
  PROVE  Fleet!PictureForward
<1>1. CASE data' = data
  BY <1>1 DEF FleetInv, FleetTyped, Fleet!PictureForward
<1>2. CASE data' # data
  <2>1. Fleet!Answered
    BY <1>2 DEF Fleet!Next, Fleet!vars, Fleet!MarkExpires, Fleet!Load, Fleet!TimerLoad, Fleet!EventTimerSkips, Fleet!OnEvent,
       Fleet!Serve, Fleet!Hang, Fleet!Refused, Fleet!Aborted, Fleet!Deadline, Fleet!Fails, Fleet!LoadEnds, Fleet!Activate,
       Fleet!Deactivate, Fleet!SetEncoding, Fleet!SetConnected
  <2>2. PICK r \in requests :
          r.served /\ r.inForce /\ data' = [data EXCEPT ![r.what] = IF Fleet!Missing(r) THEN None ELSE r.at]
    BY <1>2, <2>1 DEF Fleet!Answered, Fleet!Live
  <2>3. data[r.what] = None \/ r.at >= data[r.what]
    BY <2>2 DEF FleetInv, FleetCalls
  <2> QED
    BY <2>2, <2>3 DEF FleetInv, FleetTyped, Fleet!PictureForward
<1> QED
  BY <1>1, <1>2

HIDE DEF failed, failedOffline, connected, loads, stamp, serves, data, unsupported, primed, encoding, mounted,
         inflight, eventTimer, drawn, changed

----------------------------------------------------------------------------
(* Project.                                                                *)

captured == x3
rows == x4
rowsAt == x8
panel == x9
clock == x10
USE DEF captured, rows, failedOffline, connected, loads, rowsAt, panel, clock

PanelState ==
  [encoding : Project!Encodings, byRepo : [Repos -> Project!Encodings \cup {None}], lastRepo : Repos \cup {None},
   pendingBind : BOOLEAN, cursor : Repos \cup {None}, drag : BOOLEAN, view : Project!Hosted \cup {"hidden"},
   map : BOOLEAN, project : Repos \cup {None}, worktree : Repos \cup {None}]
RowLists == [Repos -> Nat]

\* What is mounted is what is chosen.
MountedIsChosen(p) ==
  /\ p.view = IF p.encoding \in Project!Hosted THEN p.encoding ELSE "hidden"
  /\ p.map = (p.encoding = "map") /\ (p.drag => p.encoding = "lanes")

\* The repository that was last synchronised is shown as it is remembered.
LastRemembered(p) == p.lastRepo # None => p.encoding = Project!Remembered(p, p.lastRepo)

\* It is the one shown, ...
InStep(p, list) == p.lastRepo = Project!RepoNow(p, list)
\* ...as far as there is one, or there is none yet.
NearStep(p, list) == p.lastRepo # None /\ Project!RepoNow(p, list) # None => p.lastRepo = Project!RepoNow(p, list)

LEMMA PanelFields ==
  ASSUME NEW p \in PanelState
  PROVE  /\ p.encoding \in Project!Encodings /\ p.byRepo \in [Repos -> Project!Encodings \cup {None}]
         /\ p.lastRepo \in Repos \cup {None} /\ p.pendingBind \in BOOLEAN /\ p.cursor \in Repos \cup {None}
         /\ p.drag \in BOOLEAN /\ p.view \in Project!Hosted \cup {"hidden"} /\ p.map \in BOOLEAN
         /\ p.project \in Repos \cup {None} /\ p.worktree \in Repos \cup {None}
BY DEF PanelState

\* Of rows that are not empty, the first is one of a repository.
LEMMA FirstRepo ==
  ASSUME NEW list \in RowLists, list # Project!NoRows, NEW n \in Nat, \A r \in Repos : list[r] <= n
  PROVE  Project!First(list) \in Repos
<1> DEFINE U == {m \in Nat : \E r \in Repos : m = n - list[r]}
<1>1. PICK s \in Repos : list[s] # 0
  BY DEF RowLists, Project!NoRows
<1>2. n - list[s] \in U
  BY DEF RowLists
<1>3. PICK x \in U : \A y \in U : x <= y
  BY <1>2, LeastOf
<1>4. PICK r \in Repos : x = n - list[r]
  OBVIOUS
<1>5. \A q \in Repos : n - list[q] \in U /\ list[q] \in Nat
  BY DEF RowLists
<1>6. \A q \in Repos : list[q] <= list[r]
  BY <1>3, <1>4, <1>5
<1>7. list[r] > 0
  BY <1>1, <1>5, <1>6
<1> QED
  BY <1>6, <1>7 DEF Project!First

\* Rows that some moment bounds.
Rows(list) == list \in RowLists /\ \E n \in Nat : \A r \in Repos : list[r] <= n

LEMMA RepoNowIs ==
  ASSUME NEW p \in PanelState, NEW list, Rows(list)
  PROVE  Project!RepoNow(p, list) \in Repos \cup {None}
BY FirstRepo, PanelFields DEF Rows, Project!RepoNow

LEMMA RememberedIs ==
  ASSUME NEW p \in PanelState, NEW repo \in Repos
  PROVE  Project!Remembered(p, repo) \in Project!Encodings
BY PanelFields DEF Project!Remembered, Project!Encodings, Project!Hosted

LEMMA MountedIs ==
  ASSUME NEW p \in PanelState
  PROVE  /\ Project!Mounted(p) \in PanelState /\ MountedIsChosen(Project!Mounted(p))
         /\ Project!Mounted(p).encoding = p.encoding /\ Project!Mounted(p).byRepo = p.byRepo
         /\ Project!Mounted(p).lastRepo = p.lastRepo /\ Project!Mounted(p).project = p.project
<1> DEFINE view == IF p.encoding \in Project!Hosted THEN p.encoding ELSE "hidden"
           drag == p.drag /\ p.encoding = "lanes"
           q == [p EXCEPT !.view = view, !.map = (p.encoding = "map"), !.drag = drag]
<1>1. Project!Mounted(p) = q
  BY DEF Project!Mounted
<1>2. view \in Project!Hosted \cup {"hidden"} /\ drag \in BOOLEAN /\ (drag => p.encoding = "lanes") /\ (p.encoding = "map") \in BOOLEAN
  OBVIOUS
<1>3. view = IF p.encoding \in Project!Hosted THEN p.encoding ELSE "hidden"
  OBVIOUS
<1> HIDE DEF view, drag
<1>4. q \in PanelState /\ q.view = view /\ q.map = (p.encoding = "map") /\ q.drag = drag /\ q.encoding = p.encoding
      /\ q.byRepo = p.byRepo /\ q.lastRepo = p.lastRepo /\ q.project = p.project
  BY <1>2 DEF PanelState
<1> HIDE DEF q
<1> QED
  BY <1>1, <1>2, <1>3, <1>4 DEF MountedIsChosen

\* Synchronised with the repository that comes.
LEMMA SyncRepoIs ==
  ASSUME NEW p \in PanelState, NEW repo \in Repos \cup {None}
  PROVE  LET q == Project!SyncRepo(p, repo)
         IN  /\ q \in PanelState /\ q.lastRepo = repo /\ LastRemembered(q)
             /\ q.project = p.project \/ (repo # None /\ p.project = None /\ q.project = repo)
             /\ MountedIsChosen(p) => MountedIsChosen(q)
<1> DEFINE q == Project!SyncRepo(p, repo)
<1>1. CASE repo = None
  <2>1. q = [p EXCEPT !.lastRepo = None]
    BY <1>1 DEF Project!SyncRepo
  <2> QED
    BY <1>1, <2>1 DEF PanelState, LastRemembered, MountedIsChosen
<1>2. CASE repo # None /\ p.lastRepo = None /\ p.pendingBind
  <2> DEFINE pins == p.encoding # "lanes" /\ p.project = None
  <2>1. q = [p EXCEPT !.lastRepo = repo, !.pendingBind = FALSE, !.byRepo[repo] = p.encoding,
                    !.project = IF pins THEN repo ELSE @, !.cursor = IF pins THEN None ELSE @]
    BY <1>2 DEF Project!SyncRepo
  <2>2. /\ q.lastRepo = repo /\ q.byRepo = [p.byRepo EXCEPT ![repo] = p.encoding] /\ q.encoding = p.encoding
        /\ q.project = (IF pins THEN repo ELSE p.project) /\ q.view = p.view /\ q.map = p.map /\ q.drag = p.drag
        /\ q.pendingBind = FALSE /\ q.cursor = (IF pins THEN None ELSE p.cursor) /\ q.worktree = p.worktree
        /\ q = [encoding |-> q.encoding, byRepo |-> q.byRepo, lastRepo |-> q.lastRepo, pendingBind |-> q.pendingBind,
                cursor |-> q.cursor, drag |-> q.drag, view |-> q.view, map |-> q.map, project |-> q.project,
                worktree |-> q.worktree]
    BY <2>1 DEF PanelState
  <2>3. repo \in Repos
    BY <1>2
  <2>4. q.byRepo \in [Repos -> Project!Encodings \cup {None}] /\ q.byRepo[repo] = p.encoding
    BY <2>2, <2>3, PanelFields
  <2> HIDE DEF q
  <2>5. q \in PanelState
    BY <2>2, <2>3, <2>4, PanelFields DEF PanelState
  <2>6. LastRemembered(q)
    BY <2>2, <2>4, PanelFields, PanelsAssumption DEF LastRemembered, Project!Remembered
  <2> QED
    BY <1>2, <2>2, <2>5, <2>6 DEF MountedIsChosen, q
<1>3. CASE repo # None /\ ~(p.lastRepo = None /\ p.pendingBind)
  <2> DEFINE k == [p EXCEPT !.lastRepo = repo, !.encoding = Project!Remembered(p, repo)]
  <2>1. q = IF k.encoding = p.encoding THEN k ELSE Project!Mounted(k)
    BY <1>3 DEF Project!SyncRepo
  <2>2. repo \in Repos
    BY <1>3
  <2>3. k \in PanelState /\ k.lastRepo = repo /\ k.encoding = Project!Remembered(p, repo) /\ k.byRepo = p.byRepo
        /\ k.project = p.project /\ k.view = p.view /\ k.map = p.map /\ k.drag = p.drag
    BY <2>2, RememberedIs DEF PanelState
  <2> HIDE DEF k, q
  <2>4. q \in PanelState /\ q.lastRepo = repo /\ q.encoding = Project!Remembered(p, repo) /\ q.byRepo = p.byRepo
        /\ q.project = p.project
    BY <2>1, <2>3, MountedIs
  <2>5. LastRemembered(q)
    BY <2>4 DEF LastRemembered, Project!Remembered
  <2>6. MountedIsChosen(p) => MountedIsChosen(q)
    BY <2>1, <2>3, MountedIs DEF MountedIsChosen
  <2> QED
    BY <2>4, <2>5, <2>6 DEF q
<1> QED
  BY <1>1, <1>2, <1>3

LEMMA RenderIs ==
  ASSUME NEW p \in PanelState, NEW list, Rows(list), LastRemembered(p) \/ Project!RepoNow(p, list) = None
  PROVE  LET q == Project!Render(p, list)
         IN  q \in PanelState /\ InStep(q, list) /\ LastRemembered(q) /\ (MountedIsChosen(p) => MountedIsChosen(q))
<1> DEFINE repo == Project!RepoNow(p, list)
<1>1. repo \in Repos \cup {None}
  BY RepoNowIs
<1>2. CASE repo = p.lastRepo
  BY <1>2 DEF Project!Render, InStep, LastRemembered
<1>3. CASE repo # p.lastRepo
  <2> DEFINE q == Project!SyncRepo(p, repo)
  <2>1. Project!Render(p, list) = q
    BY <1>3 DEF Project!Render
  <2> HIDE DEF repo, q
  <2>2. /\ q \in PanelState /\ q.lastRepo = repo /\ LastRemembered(q)
        /\ q.project = p.project \/ (repo # None /\ p.project = None /\ q.project = repo)
        /\ MountedIsChosen(p) => MountedIsChosen(q)
    BY <1>1, SyncRepoIs DEF q
  <2>3. Project!RepoNow(q, list) = repo
    BY <2>2 DEF Project!RepoNow, repo
  <2> QED
    BY <2>1, <2>2, <2>3 DEF InStep
<1> QED
  BY <1>2, <1>3

\* Mounted, and rendered where lanes are shown.
LEMMA MountIs ==
  ASSUME NEW p \in PanelState, NEW list, Rows(list), LastRemembered(p) \/ Project!RepoNow(p, list) = None
  PROVE  LET q == Project!Mount(p, list)
         IN  /\ q \in PanelState /\ MountedIsChosen(q)
             /\ LastRemembered(q) \/ Project!RepoNow(q, list) = None
             /\ InStep(p, list) => InStep(q, list)
<1> DEFINE k == Project!Mounted(p)
<1>1. k \in PanelState /\ MountedIsChosen(k) /\ k.encoding = p.encoding /\ k.byRepo = p.byRepo /\ k.lastRepo = p.lastRepo
      /\ k.project = p.project
  BY MountedIs
<1>2. Project!Mount(p, list) = IF p.encoding = "lanes" THEN Project!Render(k, list) ELSE k
  BY DEF Project!Mount
<1> HIDE DEF k
<1>3. Project!RepoNow(k, list) = Project!RepoNow(p, list) /\ (LastRemembered(p) => LastRemembered(k))
      /\ (InStep(p, list) => InStep(k, list))
  BY <1>1 DEF Project!RepoNow, LastRemembered, Project!Remembered, InStep
<1>4. CASE p.encoding = "lanes"
  BY <1>1, <1>2, <1>3, <1>4, RenderIs
<1>5. CASE p.encoding # "lanes"
  BY <1>1, <1>2, <1>3, <1>5
<1> QED
  BY <1>4, <1>5

LEMMA OnScopeIs ==
  ASSUME NEW p \in PanelState, NEW list, Rows(list), LastRemembered(p),
         NEW project \in Repos \cup {None}, NEW worktree \in Repos \cup {None}
  PROVE  LET q == Project!OnScope(p, project, worktree, list)
         IN  q \in PanelState /\ LastRemembered(q) /\ (MountedIsChosen(p) => MountedIsChosen(q)) /\ (q = p \/ InStep(q, list))
<1> DEFINE k == [p EXCEPT !.project = project, !.worktree = worktree, !.cursor = None]
<1>1. k \in PanelState /\ k.encoding = p.encoding /\ k.byRepo = p.byRepo /\ k.lastRepo = p.lastRepo /\ k.view = p.view
      /\ k.map = p.map /\ k.drag = p.drag
  BY DEF PanelState
<1>2. LastRemembered(k) /\ (MountedIsChosen(p) => MountedIsChosen(k))
  BY <1>1 DEF LastRemembered, Project!Remembered, MountedIsChosen
<1>3. Project!OnScope(p, project, worktree, list) = p \/ Project!OnScope(p, project, worktree, list) = Project!Render(k, list)
  BY DEF Project!OnScope, PanelState
<1> HIDE DEF k
<1> QED
  BY <1>1, <1>2, <1>3, RenderIs

\* A choice made where the repository shown is known, or none was yet.
LEMMA ChosenIs ==
  ASSUME NEW p \in PanelState, Rows(rows), NEW next \in Project!Encodings, NearStep(p, rows)
  PROVE  LET q == Project!Chosen(p, next)
         IN  /\ q \in PanelState /\ q.project = p.project /\ q.lastRepo = p.lastRepo
             /\ Project!RepoNow(q, rows) = Project!RepoNow(p, rows)
             /\ LastRemembered(q) \/ Project!RepoNow(q, rows) = None
<1> DEFINE k == [p EXCEPT !.encoding = next]
           repo == Project!RepoNow(p, rows)
           q == Project!Chosen(p, next)
<1>1. repo \in Repos \cup {None}
  BY RepoNowIs
<1>2. k \in PanelState /\ k.encoding = next /\ k.byRepo = p.byRepo /\ k.lastRepo = p.lastRepo /\ k.project = p.project
  BY DEF PanelState
<1>3. q = IF repo = None THEN [k EXCEPT !.pendingBind = TRUE] ELSE [k EXCEPT !.byRepo[repo] = next]
  BY DEF Project!Chosen
<1>4. NearStep(p, rows) <=> (p.lastRepo # None /\ repo # None => p.lastRepo = repo)
  BY DEF NearStep
<1> HIDE DEF k, repo, q
<1>5. CASE repo = None
  <2>1. q \in PanelState /\ q.project = p.project /\ q.lastRepo = p.lastRepo
    BY <1>2, <1>3, <1>5 DEF PanelState
  <2> QED
    BY <1>5, <2>1 DEF repo, q, Project!RepoNow
<1>6. CASE repo # None
  <2>1. q = [k EXCEPT !.byRepo[repo] = next] /\ repo \in Repos
    BY <1>1, <1>3, <1>6
  <2>2. q.byRepo = [p.byRepo EXCEPT ![repo] = next] /\ q.encoding = next /\ q.project = p.project /\ q.lastRepo = p.lastRepo
        /\ q.pendingBind = k.pendingBind /\ q.cursor = k.cursor /\ q.drag = k.drag /\ q.view = k.view /\ q.map = k.map
        /\ q.worktree = k.worktree
        /\ q = [encoding |-> q.encoding, byRepo |-> q.byRepo, lastRepo |-> q.lastRepo, pendingBind |-> q.pendingBind,
                cursor |-> q.cursor, drag |-> q.drag, view |-> q.view, map |-> q.map, project |-> q.project,
                worktree |-> q.worktree]
    BY <1>2, <2>1 DEF PanelState
  <2>3. q.byRepo \in [Repos -> Project!Encodings \cup {None}] /\ q.byRepo[repo] = next
    <3>1. q.byRepo = [p.byRepo EXCEPT ![repo] = next]
      BY <2>2
    <3>2. p.byRepo \in [Repos -> Project!Encodings \cup {None}]
      BY PanelFields
    <3> QED
      BY <2>1, <3>1, <3>2
  <2>4. q \in PanelState
    BY <1>2, <2>2, <2>3, PanelFields DEF PanelState
  <2>5. LastRemembered(q)
    BY <1>4, <1>6, <2>2, <2>3, PanelsAssumption DEF LastRemembered, Project!Remembered
  <2> QED
    BY <2>2, <2>4, <2>5 DEF repo, q, Project!RepoNow
<1> QED
  BY <1>5, <1>6

LEMMA SetEncodingIs ==
  ASSUME NEW p \in PanelState, Rows(rows), NEW next \in Project!Encodings, NearStep(p, rows), LastRemembered(p)
  PROVE  LET q == Project!SetEncoding(p, next)
         IN  /\ q \in PanelState /\ MountedIsChosen(q)
             /\ LastRemembered(q) \/ Project!RepoNow(q, rows) = None
             /\ InStep(p, rows) => InStep(q, rows)
<1>1. CASE next = p.encoding
  BY <1>1, MountIs DEF Project!SetEncoding
<1>2. CASE next # p.encoding
  <2> DEFINE lane == p.encoding = "lanes" /\ p.cursor # None
             project == IF lane THEN Project!RepoNow(p, rows) ELSE IF p.project = None /\ rows # Project!NoRows THEN Project!First(rows) ELSE p.project
             worktree == IF lane THEN p.cursor ELSE IF project # p.project THEN None ELSE p.worktree
             k == [p EXCEPT !.cursor = None]
             s == Project!OnScope(k, project, worktree, rows)
             c == Project!Chosen(s, next)
  <2>1. Project!SetEncoding(p, next) = Project!Mount(c, rows)
    BY <1>2 DEF Project!SetEncoding
  <2>2. project \in Repos \cup {None} /\ worktree \in Repos \cup {None}
    BY FirstRepo, RepoNowIs, PanelFields DEF Rows
  <2>3. k \in PanelState /\ k.encoding = p.encoding /\ k.byRepo = p.byRepo /\ k.lastRepo = p.lastRepo /\ k.project = p.project
    BY DEF PanelState
  <2> HIDE DEF project, worktree, k, s, c
  <2>4. LastRemembered(k) /\ NearStep(k, rows) /\ (InStep(p, rows) => InStep(k, rows))
    BY <2>3 DEF LastRemembered, Project!Remembered, NearStep, InStep, Project!RepoNow
  <2>5. s \in PanelState /\ LastRemembered(s) /\ (s = k \/ InStep(s, rows))
    BY <2>2, <2>3, <2>4, OnScopeIs DEF s
  <2>6. NearStep(s, rows) /\ (InStep(p, rows) => InStep(s, rows))
    BY <2>4, <2>5 DEF NearStep, InStep
  <2>7. c \in PanelState /\ c.lastRepo = s.lastRepo /\ Project!RepoNow(c, rows) = Project!RepoNow(s, rows)
        /\ (LastRemembered(c) \/ Project!RepoNow(c, rows) = None)
    BY <2>5, <2>6, ChosenIs DEF c
  <2>8. InStep(p, rows) => InStep(c, rows)
    BY <2>6, <2>7 DEF InStep
  <2> QED
    BY <2>1, <2>7, <2>8, MountIs
<1> QED
  BY <1>1, <1>2

LEMMA RestoredIs ==
  ASSUME NEW p \in PanelState, Rows(rows), LastRemembered(p)
  PROVE  LET q == Project!Restored(p)
         IN  q \in PanelState /\ LastRemembered(q) /\ NearStep(q, rows)
<1> DEFINE repo == Project!RepoNow(p, rows)
<1>1. repo \in Repos \cup {None}
  BY RepoNowIs
<1>2. CASE repo \in {None, p.lastRepo} \/ (p.lastRepo = None /\ p.pendingBind)
  BY <1>2 DEF Project!Restored, NearStep
<1>3. CASE ~(repo \in {None, p.lastRepo} \/ (p.lastRepo = None /\ p.pendingBind))
  <2> DEFINE q == [p EXCEPT !.lastRepo = repo, !.encoding = Project!Remembered(p, repo)]
  <2>1. Project!Restored(p) = q
    BY <1>3 DEF Project!Restored
  <2>2. repo \in Repos
    BY <1>1, <1>3
  <2>3. q \in PanelState /\ q.lastRepo = repo /\ q.encoding = Project!Remembered(p, repo) /\ q.byRepo = p.byRepo /\ q.project = p.project
    BY <2>2, RememberedIs DEF PanelState
  <2>4. Project!RepoNow(q, rows) = repo
    BY <2>3 DEF Project!RepoNow
  <2> HIDE DEF q
  <2> QED
    BY <2>1, <2>3, <2>4 DEF LastRemembered, NearStep, Project!Remembered
<1> QED
  BY <1>2, <1>3


ProjectCall == [inForce : BOOLEAN, list : RowLists \cup {None}, at : Nat]

ProjectTyped ==
  /\ clock \in Nat /\ captured \in [Repos -> 0..clock] /\ rows \in [Repos -> 0..clock] /\ rowsAt \in 0..clock
  /\ panel \in PanelState /\ active \in BOOLEAN /\ connected \in BOOLEAN /\ failedOffline \in BOOLEAN
  /\ loads \subseteq ProjectCall /\ IsFiniteSet(loads) /\ Cardinality(loads) <= MaxOverlap

\* One load is in force, and what it was served with is not older than the rows.
ProjectCalls ==
  /\ \A r \in loads : r.at <= clock /\ (r.list # None => r.list \in [Repos -> 0..clock])
  /\ \A r, q \in loads : r.inForce /\ q.inForce => r = q
  /\ \A r \in loads : r.inForce /\ r.list # None => r.at >= rowsAt

ProjectShows ==
  /\ LastRemembered(panel)
  /\ active => InStep(panel, rows) /\ MountedIsChosen(panel)
  /\ ~active => panel.view = "hidden" /\ panel.map = FALSE /\ panel.drag = FALSE

ProjectInv == ProjectTyped /\ ProjectCalls /\ ProjectShows

LEMMA ProjectCardinality == \A S : Project!Cardinality(S) = Cardinality(S)
BY Zenon DEF Project!Cardinality, Cardinality

LEMMA ProjectRows == ProjectTyped => Rows(rows) /\ Rows(captured)
BY DEF ProjectTyped, Rows, RowLists

LEMMA NoRowsAre == Rows(Project!NoRows) /\ \A n \in Nat : Project!NoRows \in [Repos -> 0..n]
<1>1. Project!NoRows \in RowLists /\ \A r \in Repos : Project!NoRows[r] <= 0
  BY DEF Project!NoRows, RowLists
<1>2. \A n \in Nat : Project!NoRows \in [Repos -> 0..n]
  BY DEF Project!NoRows
<1> QED
  BY <1>1, <1>2 DEF Rows

LEMMA ProjectInit == Project!Init => ProjectInv
<1> SUFFICES ASSUME Project!Init PROVE ProjectInv
  OBVIOUS
<1>1. clock = 0 /\ captured = Project!NoRows /\ rows = Project!NoRows /\ rowsAt = 0 /\ loads = {} /\ active = FALSE
      /\ connected = FALSE /\ failedOffline = FALSE
  BY DEF Project!Init
<1>2. panel \in PanelState /\ panel.lastRepo = None /\ panel.view = "hidden" /\ panel.map = FALSE /\ panel.drag = FALSE
  <2> DEFINE memory == [r \in Repos |-> None]
  <2>1. panel = [encoding |-> "lanes", byRepo |-> memory, lastRepo |-> None, pendingBind |-> FALSE,
              cursor |-> None, drag |-> FALSE, view |-> "hidden", map |-> FALSE, project |-> None, worktree |-> None]
    BY DEF Project!Init
  <2>2. memory \in [Repos -> Project!Encodings \cup {None}]
    OBVIOUS
  <2> HIDE DEF memory
  <2> QED
    BY <2>1, <2>2 DEF PanelState, Project!Encodings
<1>3. IsFiniteSet(loads) /\ Cardinality(loads) <= MaxOverlap
  BY <1>1, FS_EmptySet, PanelsAssumption
<1>4. ProjectTyped
  <2>1. clock \in Nat /\ Project!NoRows \in [Repos -> 0..clock] /\ 0 \in 0..clock
    BY <1>1, NoRowsAre
  <2> QED
    BY <1>1, <1>2, <1>3, <2>1 DEF ProjectTyped
<1>5. ProjectCalls
  BY <1>1 DEF ProjectCalls
<1>6. ProjectShows
  BY <1>1, <1>2 DEF ProjectShows, LastRemembered
<1> QED
  BY <1>4, <1>5, <1>6 DEF ProjectInv

LEMMA ProjectCallFields ==
  ASSUME NEW r \in ProjectCall
  PROVE  r.inForce \in BOOLEAN /\ r.list \in RowLists \cup {None} /\ r.at \in Nat
BY DEF ProjectCall

\* What is asked again, or no more.
LEMMA ProjectSuperseded ==
  ASSUME ProjectInv, NEW r \in Project!Superseded
  PROVE  r \in ProjectCall /\ r.inForce = FALSE /\ r.at <= clock /\ (r.list # None => r.list \in [Repos -> 0..clock])
<1>1. PICK q \in loads : r = [q EXCEPT !.inForce = FALSE]
  BY DEF Project!Superseded
<1>2. q \in ProjectCall /\ q.at <= clock /\ (q.list # None => q.list \in [Repos -> 0..clock])
  BY DEF ProjectInv, ProjectTyped, ProjectCalls
<1> QED
  BY <1>1, <1>2 DEF ProjectCall

LEMMA ProjectLoad ==
  ASSUME ProjectInv, Project!Load
  PROVE  /\ loads' \subseteq ProjectCall /\ IsFiniteSet(loads') /\ Cardinality(loads') <= MaxOverlap
         /\ \A r \in loads' : r.at <= clock /\ (r.list # None => ~r.inForce /\ r.list \in [Repos -> 0..clock])
         /\ \A r, q \in loads' : r.inForce /\ q.inForce => r = q
<1> DEFINE new == [inForce |-> TRUE, list |-> None, at |-> 0]
           f == [r \in loads |-> [r EXCEPT !.inForce = FALSE]]
<1>1. Cardinality(loads) < MaxOverlap /\ loads' = Project!Superseded \cup {new}
  BY ProjectCardinality DEF Project!Load
<1>2. Project!Superseded = {f[r] : r \in loads}
  BY DEF Project!Superseded
<1>3. IsFiniteSet(loads') /\ Cardinality(loads') <= MaxOverlap
  <2>1. f \in Surjection(loads, Project!Superseded)
    BY <1>2 DEF Surjection
  <2>2. IsFiniteSet(loads) /\ MaxOverlap \in Nat
    BY PanelsAssumption DEF ProjectInv, ProjectTyped
  <2> HIDE DEF f, new
  <2>3. IsFiniteSet(Project!Superseded \cup {new}) /\ Cardinality(Project!Superseded \cup {new}) <= MaxOverlap
    BY <1>1, <2>1, <2>2, JoinBound
  <2> QED
    BY <1>1, <2>3
<1>4. new \in ProjectCall /\ new.at <= clock /\ new.list = None /\ new.inForce = TRUE
  BY DEF ProjectCall, ProjectInv, ProjectTyped
<1> HIDE DEF new
<1>5. loads' \subseteq ProjectCall
  BY <1>1, <1>4, ProjectSuperseded
<1>6. \A r \in loads' : r.at <= clock /\ (r.list # None => ~r.inForce /\ r.list \in [Repos -> 0..clock])
  BY <1>1, <1>4, ProjectSuperseded
<1>7. \A r, q \in loads' : r.inForce /\ q.inForce => r = q
  BY <1>1, <1>4, ProjectSuperseded
<1> QED
  BY <1>3, <1>5, <1>6, <1>7

\* A step that only changes what the user sees.
LEMMA ProjectViewStep ==
  ASSUME ProjectInv, UNCHANGED <<clock, captured, rows, rowsAt, loads, active, connected, failedOffline>>,
         panel' \in PanelState, LastRemembered(panel'), active => InStep(panel', rows) /\ MountedIsChosen(panel'),
         ~active => panel'.view = "hidden" /\ panel'.map = FALSE /\ panel'.drag = FALSE
  PROVE  ProjectInv'
<1>1. ProjectTyped'
  BY DEF ProjectInv, ProjectTyped
<1>2. ProjectCalls'
  BY DEF ProjectInv, ProjectCalls
<1>3. ProjectShows'
  BY DEF ProjectShows
<1> QED
  BY <1>1, <1>2, <1>3 DEF ProjectInv

LEMMA ProjectShowsSame ==
  ASSUME ProjectInv, UNCHANGED <<rows, panel, active>>
  PROVE  ProjectShows'
BY DEF ProjectInv, ProjectShows

LEMMA ProjectStep == ProjectInv /\ [Project!Next]_(Project!vars) => ProjectInv'
<1> SUFFICES ASSUME ProjectInv, [Project!Next]_(Project!vars) PROVE ProjectInv'
  OBVIOUS
<1> USE ProjectCallFields
<1>0. Rows(rows) /\ panel \in PanelState /\ clock \in Nat /\ active \in BOOLEAN
  BY ProjectRows DEF ProjectInv, ProjectTyped
<1>1. CASE UNCHANGED Project!vars
  BY <1>0, <1>1, ProjectViewStep DEF Project!vars, ProjectInv, ProjectShows
<1>2. CASE Project!Capture
  <2>1. PICK r \in Repos : captured' = [captured EXCEPT ![r] = clock + 1]
    BY <1>2 DEF Project!Capture
  <2>2. clock' = clock + 1 /\ UNCHANGED <<rows, rowsAt, panel, loads, active, connected, failedOffline>>
    BY <1>2 DEF Project!Capture
  <2>3. captured' \in [Repos -> 0..clock'] /\ rows' \in [Repos -> 0..clock'] /\ rowsAt' \in 0..clock' /\ clock' \in Nat
    BY <2>1, <2>2 DEF ProjectInv, ProjectTyped
  <2>4. ProjectTyped'
    BY <2>2, <2>3 DEF ProjectInv, ProjectTyped
  <2>5. ProjectCalls'
    <3>1. \A list \in [Repos -> 0..clock] : list \in [Repos -> 0..clock']
      BY <1>0, <2>2
    <3>2. \A r2 \in loads' : r2.at <= clock' /\ (r2.list # None => r2.list \in [Repos -> 0..clock'])
      BY <1>0, <2>2, <3>1 DEF ProjectInv, ProjectTyped, ProjectCalls
    <3> QED
      BY <2>2, <3>2 DEF ProjectInv, ProjectCalls
  <2> QED
    BY <2>2, <2>4, <2>5, ProjectShowsSame DEF ProjectInv
<1>3. CASE Project!Serve
  <2>1. PICK r \in loads : r.list = None /\ loads' = (loads \ {r}) \cup {[r EXCEPT !.list = captured, !.at = clock]}
    BY <1>3 DEF Project!Serve
  <2>2. UNCHANGED <<clock, captured, rows, rowsAt, panel, active, connected, failedOffline>>
    BY <1>3 DEF Project!Serve
  <2> DEFINE n == [r EXCEPT !.list = captured, !.at = clock]
  <2>3. r \in ProjectCall /\ captured \in [Repos -> 0..clock] /\ captured \in RowLists
    BY ProjectRows DEF ProjectInv, ProjectTyped, Rows
  <2>4. n \in ProjectCall /\ n.inForce = r.inForce /\ n.list = captured /\ n.at = clock
    BY <1>0, <2>3 DEF ProjectCall
  <2>5. loads' = (loads \ {r}) \cup {n}
    BY <2>1
  <2> HIDE DEF n
  <2>6. IsFiniteSet(loads') /\ Cardinality(loads') <= MaxOverlap
    <3>1. IsFiniteSet(loads') /\ Cardinality(loads') <= Cardinality(loads) /\ Cardinality(loads) <= MaxOverlap
      BY <2>5, SwapBound DEF ProjectInv, ProjectTyped
    <3>2. Cardinality(loads') \in Nat /\ Cardinality(loads) \in Nat
      BY <3>1, FS_CardinalityType DEF ProjectInv, ProjectTyped
    <3> QED
      BY <3>1, <3>2, PanelsAssumption
  <2>7. ProjectTyped'
    BY <2>2, <2>4, <2>5, <2>6 DEF ProjectInv, ProjectTyped
  <2>8. ProjectCalls'
    <3>1. n.at <= clock /\ n.list \in [Repos -> 0..clock] /\ n.at >= rowsAt
      BY <1>0, <2>3, <2>4 DEF ProjectInv, ProjectTyped
    <3>2. \A p, q \in loads' : p.inForce /\ q.inForce => p = q
      <4>1. r.inForce => \A q \in loads \ {r} : ~q.inForce
        BY DEF ProjectInv, ProjectCalls
      <4> QED
        BY <2>4, <2>5, <4>1 DEF ProjectInv, ProjectCalls
    <3>3. \A q \in loads' : q = n \/ q \in loads
      BY <2>5
    <3> QED
      BY <2>2, <3>1, <3>2, <3>3 DEF ProjectInv, ProjectCalls
  <2> QED
    BY <2>2, <2>7, <2>8, ProjectShowsSame DEF ProjectInv
<1>4. CASE Project!Answered \/ Project!Fails
  <2>1. PICK r \in loads : loads' = loads \ {r} /\
          \/ UNCHANGED <<rows, rowsAt, panel, failedOffline>>
          \/ /\ r.inForce /\ r.list # None /\ rows' = r.list /\ rowsAt' = r.at /\ failedOffline' \in BOOLEAN
             /\ panel' = IF active THEN Project!Render(panel, r.list) ELSE panel
          \/ active /\ rows' = Project!NoRows /\ panel' = Project!Render(panel, Project!NoRows) /\ failedOffline' = FALSE /\ rowsAt' = rowsAt
          \/ active /\ UNCHANGED <<rows, rowsAt>> /\ panel' = Project!Render(panel, rows) /\ failedOffline' \in BOOLEAN
    BY <1>4 DEF Project!Answered, Project!Fails, Project!Newest
  <2>2. UNCHANGED <<clock, captured, active, connected>>
    BY <1>4 DEF Project!Answered, Project!Fails
  <2>3. IsFiniteSet(loads') /\ Cardinality(loads') <= MaxOverlap
    <3>1. IsFiniteSet(loads') /\ Cardinality(loads') <= Cardinality(loads) /\ Cardinality(loads) <= MaxOverlap
      BY <2>1, DropBound DEF ProjectInv, ProjectTyped
    <3>2. Cardinality(loads') \in Nat /\ Cardinality(loads) \in Nat
      BY <3>1, FS_CardinalityType DEF ProjectInv, ProjectTyped
    <3> QED
      BY <3>1, <3>2, PanelsAssumption
  <2>4. r \in ProjectCall /\ r.at \in 0..clock /\ (r.list # None => r.list \in [Repos -> 0..clock])
    BY <1>0 DEF ProjectInv, ProjectTyped, ProjectCalls
  <2>5. rows' \in [Repos -> 0..clock] /\ rowsAt' \in 0..clock /\ failedOffline' \in BOOLEAN /\ Rows(rows')
    <3>1. rows' \in [Repos -> 0..clock] /\ rowsAt' \in 0..clock /\ failedOffline' \in BOOLEAN
      BY <1>0, <2>1, <2>4, NoRowsAre DEF ProjectInv, ProjectTyped
    <3> QED
      BY <1>0, <3>1 DEF Rows, RowLists
  <2>6. \/ panel' = panel /\ (~active \/ rows' = rows)
        \/ active /\ panel' = Project!Render(panel, rows')
    BY <2>1
  <2>7. panel' \in PanelState /\ LastRemembered(panel') /\ (active => InStep(panel', rows') /\ MountedIsChosen(panel'))
        /\ (~active => panel' = panel)
    <3>1. CASE panel' = panel /\ (~active \/ rows' = rows)
      BY <1>0, <3>1 DEF ProjectInv, ProjectShows, InStep
    <3>2. CASE active /\ panel' = Project!Render(panel, rows')
      BY <1>0, <2>5, <3>2, RenderIs DEF ProjectInv, ProjectShows
    <3> QED
      BY <2>6, <3>1, <3>2
  <2>8. ProjectTyped'
    BY <2>1, <2>2, <2>3, <2>5, <2>7 DEF ProjectInv, ProjectTyped
  <2>9. ProjectCalls'
    <3>1. rowsAt' = rowsAt \/ \A q \in loads' : ~q.inForce
      BY <2>1 DEF ProjectInv, ProjectCalls
    <3> QED
      BY <2>1, <2>2, <3>1 DEF ProjectInv, ProjectCalls
  <2>10. ProjectShows'
    BY <2>2, <2>7 DEF ProjectInv, ProjectShows
  <2> QED
    BY <2>8, <2>9, <2>10 DEF ProjectInv
<1>5. CASE Project!Poll \/ Project!RefreshRows \/ Project!SetConnected
  <2>1. UNCHANGED <<clock, captured, rows, rowsAt, panel, active, failedOffline>> /\ connected' \in BOOLEAN
        /\ (Project!Load \/ loads' = loads)
    BY <1>5 DEF Project!Poll, Project!RefreshRows, Project!SetConnected, ProjectInv, ProjectTyped
  <2>2. CASE Project!Load
    <3>1. ProjectTyped' /\ ProjectCalls'
      BY <2>1, <2>2, ProjectLoad DEF ProjectInv, ProjectTyped, ProjectCalls
    <3> QED
      BY <2>1, <3>1, ProjectShowsSame DEF ProjectInv
  <2>3. CASE loads' = loads
    <3>1. ProjectTyped' /\ ProjectCalls'
      BY <2>1, <2>3 DEF ProjectInv, ProjectTyped, ProjectCalls
    <3> QED
      BY <2>1, <3>1, ProjectShowsSame DEF ProjectInv
  <2> QED
    BY <2>1, <2>2, <2>3
<1>6. CASE Project!Activate
  <2>1. active' = TRUE /\ Project!Load /\ UNCHANGED <<clock, captured, rows, rowsAt, connected, failedOffline>>
    BY <1>6 DEF Project!Activate
  <2>2. PICK e \in Project!Encodings \cup {None} :
          panel' = Project!Render(IF e = None THEN Project!Mount(Project!Restored(panel), rows)
                                  ELSE Project!SetEncoding(Project!Restored(panel), e), rows)
    BY <1>6 DEF Project!Activate
  <2> DEFINE s == Project!Restored(panel)
             m == IF e = None THEN Project!Mount(s, rows) ELSE Project!SetEncoding(s, e)
  <2>3. s \in PanelState /\ LastRemembered(s) /\ NearStep(s, rows)
    BY <1>0, RestoredIs DEF ProjectInv, ProjectShows
  <2> HIDE DEF s
  <2>4. m \in PanelState /\ MountedIsChosen(m) /\ (LastRemembered(m) \/ Project!RepoNow(m, rows) = None)
    BY <1>0, <2>3, MountIs, SetEncodingIs
  <2>5. panel' = Project!Render(m, rows)
    BY <2>2 DEF s
  <2> HIDE DEF m
  <2>6. panel' \in PanelState /\ LastRemembered(panel') /\ InStep(panel', rows) /\ MountedIsChosen(panel')
    BY <1>0, <2>4, <2>5, RenderIs
  <2>7. ProjectTyped' /\ ProjectCalls'
    BY <2>1, <2>6, ProjectLoad DEF ProjectInv, ProjectTyped, ProjectCalls
  <2>8. ProjectShows'
    BY <2>1, <2>6 DEF ProjectShows
  <2> QED
    BY <2>7, <2>8 DEF ProjectInv
<1>7. CASE Project!Deactivate
  <2>1. active' = FALSE /\ loads' = Project!Superseded /\ UNCHANGED <<clock, captured, rows, rowsAt, connected, failedOffline>>
        /\ panel' = [panel EXCEPT !.view = "hidden", !.map = FALSE, !.cursor = None, !.drag = FALSE]
    BY <1>7 DEF Project!Deactivate
  <2>2. panel' \in PanelState /\ panel'.view = "hidden" /\ panel'.map = FALSE /\ panel'.drag = FALSE
        /\ panel'.lastRepo = panel.lastRepo /\ panel'.byRepo = panel.byRepo /\ panel'.encoding = panel.encoding
    BY <1>0, <2>1 DEF PanelState
  <2>3. LastRemembered(panel')
    BY <2>2 DEF ProjectInv, ProjectShows, LastRemembered, Project!Remembered
  <2>4. IsFiniteSet(loads') /\ Cardinality(loads') <= MaxOverlap
    <3> DEFINE f == [r \in loads |-> [r EXCEPT !.inForce = FALSE]]
    <3>1. loads' = {f[r] : r \in loads} /\ DOMAIN f = loads /\ f = [x \in loads |-> f[x]]
      BY <2>1 DEF Project!Superseded
    <3> HIDE DEF f
    <3>2. IsFiniteSet(loads) /\ Cardinality(loads) <= MaxOverlap
      BY DEF ProjectInv, ProjectTyped
    <3>3. IsFiniteSet(loads') /\ Cardinality(loads') <= Cardinality(loads) /\ Cardinality(loads') \in Nat /\ Cardinality(loads) \in Nat
      BY <3>1, <3>2, ImageBound
    <3> QED
      BY <3>2, <3>3, PanelsAssumption
  <2>5. ProjectTyped' /\ ProjectCalls'
    BY <2>1, <2>2, <2>4, ProjectSuperseded DEF ProjectInv, ProjectTyped, ProjectCalls
  <2>6. ProjectShows'
    BY <2>1, <2>2, <2>3 DEF ProjectShows
  <2> QED
    BY <2>5, <2>6 DEF ProjectInv
<1>8. CASE Project!ClickChip
  <2>1. PICK e \in Project!Encodings : panel' = Project!SetEncoding(panel, e)
    BY <1>8 DEF Project!ClickChip
  <2>2. active /\ UNCHANGED <<clock, captured, rows, rowsAt, loads, active, connected, failedOffline>>
    BY <1>8 DEF Project!ClickChip
  <2>3. LastRemembered(panel) /\ InStep(panel, rows) /\ NearStep(panel, rows)
    BY <2>2 DEF ProjectInv, ProjectShows, InStep, NearStep
  <2>4. panel' \in PanelState /\ MountedIsChosen(panel') /\ (LastRemembered(panel') \/ Project!RepoNow(panel', rows) = None)
        /\ InStep(panel', rows)
    BY <1>0, <2>1, <2>3, SetEncodingIs
  <2>5. LastRemembered(panel')
    BY <2>4 DEF LastRemembered, InStep
  <2> QED
    BY <2>2, <2>4, <2>5, ProjectViewStep
<1>9. CASE Project!OnView
  <2>1. active /\ panel.encoding \in Project!Hosted /\ UNCHANGED <<clock, captured, rows, rowsAt, loads, active, connected, failedOffline>>
    BY <1>9 DEF Project!OnView
  <2> DEFINE repo == Project!RepoNow(panel, rows)
             k(v) == [panel EXCEPT !.encoding = v, !.view = v]
  <2>2. PICK v \in Project!Hosted \ {panel.encoding} : panel' = IF repo = None THEN k(v) ELSE [k(v) EXCEPT !.byRepo[repo] = v]
    BY <1>9 DEF Project!OnView
  <2>3. repo \in Repos \cup {None} /\ v \in Project!Encodings /\ v # "map" /\ v # "lanes"
    BY <1>0, RepoNowIs DEF Project!Hosted, Project!Encodings
  <2>4. k(v) \in PanelState /\ k(v).encoding = v /\ k(v).view = v /\ k(v).byRepo = panel.byRepo /\ k(v).lastRepo = panel.lastRepo
        /\ k(v).project = panel.project /\ k(v).map = panel.map /\ k(v).drag = panel.drag
    BY <1>0, <2>3 DEF PanelState
  <2> DEFINE kv == k(v)
  <2>5. panel' = (IF repo = None THEN kv ELSE [kv EXCEPT !.byRepo[repo] = v]) /\ kv \in PanelState /\ kv.encoding = v /\ kv.view = v
        /\ kv.byRepo = panel.byRepo /\ kv.lastRepo = panel.lastRepo /\ kv.project = panel.project /\ kv.map = panel.map /\ kv.drag = panel.drag
    BY <2>2, <2>4
  <2> HIDE DEF kv, k
  <2>6. panel.map = FALSE /\ panel.drag = FALSE /\ panel.lastRepo = repo
    BY <1>0, <2>1, PanelFields DEF ProjectInv, ProjectShows, MountedIsChosen, InStep, Project!Hosted
  <2> HIDE DEF repo
  <2>7. panel' \in PanelState /\ panel'.encoding = v /\ panel'.view = v /\ panel'.lastRepo = repo /\ panel'.project = panel.project
        /\ panel'.map = FALSE /\ panel'.drag = FALSE /\ (repo # None => panel'.byRepo[repo] = v)
    <3>1. CASE repo = None
      BY <2>5, <2>6, <3>1
    <3>2. CASE repo # None
      <4>1. panel' = [kv EXCEPT !.byRepo[repo] = v] /\ repo \in Repos
        BY <2>3, <2>5, <3>2
      <4>2. panel'.byRepo = [kv.byRepo EXCEPT ![repo] = v] /\ panel'.encoding = v /\ panel'.view = v /\ panel'.lastRepo = repo
            /\ panel'.project = panel.project /\ panel'.map = FALSE /\ panel'.drag = FALSE
            /\ panel'.pendingBind = kv.pendingBind /\ panel'.cursor = kv.cursor /\ panel'.worktree = kv.worktree
            /\ panel' = [encoding |-> panel'.encoding, byRepo |-> panel'.byRepo, lastRepo |-> panel'.lastRepo, pendingBind |-> panel'.pendingBind,
                cursor |-> panel'.cursor, drag |-> panel'.drag, view |-> panel'.view, map |-> panel'.map, project |-> panel'.project,
                worktree |-> panel'.worktree]
        BY <2>5, <2>6, <4>1 DEF PanelState
      <4>3. kv.byRepo \in [Repos -> Project!Encodings \cup {None}]
        BY <2>5, PanelFields
      <4>4. panel'.byRepo = [kv.byRepo EXCEPT ![repo] = v]
        BY <4>2
      <4>5. panel'.byRepo \in [Repos -> Project!Encodings \cup {None}] /\ panel'.byRepo[repo] = v
        BY <2>3, <4>1, <4>3, <4>4
      <4>6. panel' \in PanelState
        BY <2>3, <2>5, <4>1, <4>2, <4>5, PanelFields DEF PanelState
      <4> QED
        BY <4>2, <4>5, <4>6
    <3> QED
      BY <3>1, <3>2
  <2>8. LastRemembered(panel') /\ MountedIsChosen(panel')
    BY <2>2, <2>3, <2>7, PanelsAssumption DEF LastRemembered, MountedIsChosen, Project!Remembered
  <2>9. InStep(panel', rows)
    BY <2>7 DEF InStep, Project!RepoNow, repo
  <2> QED
    BY <2>1, <2>7, <2>8, <2>9, ProjectViewStep
<1>10. CASE Project!MoveCursor \/ Project!BrushDown \/ Project!BrushUp \/ Project!Escape
  <2>1. UNCHANGED <<clock, captured, rows, rowsAt, loads, active, connected, failedOffline>>
    BY <1>10 DEF Project!MoveCursor, Project!BrushDown, Project!BrushUp, Project!Escape
  <2>2. \/ \E c \in Repos \cup {None} : active /\ panel' = [panel EXCEPT !.cursor = c]
        \/ \E d \in BOOLEAN : panel' = [panel EXCEPT !.drag = d] /\ (d => active /\ panel.encoding = "lanes")
    BY <1>10 DEF Project!MoveCursor, Project!BrushDown, Project!BrushUp, Project!Escape
  <2>3. /\ panel' \in PanelState /\ panel'.lastRepo = panel.lastRepo /\ panel'.byRepo = panel.byRepo
        /\ panel'.encoding = panel.encoding /\ panel'.project = panel.project /\ panel'.view = panel.view /\ panel'.map = panel.map
        /\ panel'.drag \in BOOLEAN /\ (panel'.drag => panel.drag \/ (active /\ panel.encoding = "lanes"))
    <3>1. CASE \E c \in Repos \cup {None} : panel' = [panel EXCEPT !.cursor = c]
      BY <1>0, <3>1, PanelFields DEF PanelState
    <3>2. CASE \E d \in BOOLEAN : panel' = [panel EXCEPT !.drag = d] /\ (d => active /\ panel.encoding = "lanes")
      BY <1>0, <3>2 DEF PanelState
    <3> QED
      BY <2>2, <3>1, <3>2
  <2>4. LastRemembered(panel') /\ (active => InStep(panel', rows) /\ MountedIsChosen(panel'))
    BY <2>3 DEF ProjectInv, ProjectShows, LastRemembered, Project!Remembered, InStep, Project!RepoNow, MountedIsChosen
  <2>5. ~active => panel'.view = "hidden" /\ panel'.map = FALSE /\ panel'.drag = FALSE
    BY <2>3 DEF ProjectInv, ProjectShows
  <2> QED
    BY <2>1, <2>3, <2>4, <2>5, ProjectViewStep
<1>11. CASE Project!ScopeMoves
  <2>1. UNCHANGED <<clock, captured, rows, rowsAt, loads, active, connected, failedOffline>>
    BY <1>11 DEF Project!ScopeMoves
  <2>2. PICK p \in Repos \cup {None}, w \in Repos \cup {None} :
          panel' = IF active THEN Project!OnScope(panel, p, w, rows) ELSE [panel EXCEPT !.project = p, !.worktree = w]
    BY <1>11 DEF Project!ScopeMoves
  <2>3. CASE active
    <3>1. LastRemembered(panel) /\ InStep(panel, rows) /\ MountedIsChosen(panel)
      BY <2>3 DEF ProjectInv, ProjectShows
    <3>2. panel' \in PanelState /\ LastRemembered(panel') /\ MountedIsChosen(panel') /\ (panel' = panel \/ InStep(panel', rows))
      BY <1>0, <2>2, <2>3, <3>1, OnScopeIs
    <3> QED
      BY <2>1, <2>3, <3>1, <3>2, ProjectViewStep
  <2>4. CASE ~active
    <3>1. panel' = [panel EXCEPT !.project = p, !.worktree = w]
      BY <2>2, <2>4
    <3>2. panel' \in PanelState /\ panel'.lastRepo = panel.lastRepo /\ panel'.byRepo = panel.byRepo /\ panel'.encoding = panel.encoding
          /\ panel'.view = panel.view /\ panel'.map = panel.map /\ panel'.drag = panel.drag
      BY <1>0, <3>1 DEF PanelState
    <3>3. LastRemembered(panel') /\ panel'.view = "hidden" /\ panel'.map = FALSE /\ panel'.drag = FALSE
      BY <2>4, <3>2 DEF ProjectInv, ProjectShows, LastRemembered, Project!Remembered
    <3> QED
      BY <2>1, <2>4, <3>2, <3>3, ProjectViewStep
  <2> QED
    BY <2>3, <2>4
<1> QED
  BY <1>1, <1>2, <1>3, <1>4, <1>5, <1>6, <1>7, <1>8, <1>9, <1>10, <1>11 DEF Project!Next

LEMMA ProjectMeans ==
  ASSUME ProjectInv
  PROVE  Project!TypeOK /\ Project!OneMounted /\ Project!EncodingOfRepo
<1>1. panel \in PanelState
  BY DEF ProjectInv, ProjectTyped
<1>2. Project!TypeOK
  BY <1>1, PanelFields, ProjectCardinality DEF ProjectInv, ProjectTyped, Project!TypeOK
<1>3. Project!OneMounted
  BY <1>1, PanelFields DEF ProjectInv, ProjectTyped, ProjectShows, MountedIsChosen, Project!OneMounted
<1>4. Project!EncodingOfRepo
  BY DEF ProjectInv, ProjectShows, LastRemembered, InStep, Project!EncodingOfRepo
<1> QED
  BY <1>2, <1>3, <1>4

LEMMA ProjectActs ==
  ASSUME ProjectInv, [Project!Next]_(Project!vars)
  PROVE  Project!RowsForward
<1>1. CASE rowsAt' = rowsAt
  BY <1>1 DEF ProjectInv, ProjectTyped, Project!RowsForward
<1>2. CASE rowsAt' # rowsAt
  <2>1. Project!Answered
    BY <1>2 DEF Project!Next, Project!vars, Project!Capture, Project!Serve, Project!Fails, Project!Poll, Project!RefreshRows,
       Project!SetConnected, Project!Activate, Project!Deactivate, Project!ClickChip, Project!OnView, Project!MoveCursor,
       Project!BrushDown, Project!BrushUp, Project!Escape, Project!ScopeMoves
  <2>2. PICK r \in loads : r.inForce /\ r.list # None /\ rowsAt' = r.at
    BY <1>2, <2>1 DEF Project!Answered, Project!Newest
  <2> QED
    BY <2>2 DEF ProjectInv, ProjectCalls, Project!RowsForward
<1> QED
  BY <1>1, <1>2

HIDE DEF captured, rows, failedOffline, connected, loads, rowsAt, panel, clock

----------------------------------------------------------------------------
(* Sessions.                                                               *)

refreshes == x4
scope == x5
first == x6
rowsHeld == x7
list == x8
histories == x9
historyRef == x10
loaded == x11
selectedWt == x12
USE DEF captured, refreshes, scope, first, rowsHeld, list, histories, historyRef, loaded, selectedWt

SessionScopes ==
  [project : {"pa", "pb", None}, worktree : Sessions!Worktrees \cup {None},
   session : Sessions!Refs \cup {None}, cell : Sessions!Sources \cup {None}, window : {Sessions!Live}]
EventCounts == [Sessions!Sources -> Nat]
HistoryCall == [inForce : BOOLEAN, id : {1, 2}, served : BOOLEAN, source : Sessions!Sources \cup {None}]
RefreshCall == [inForce : BOOLEAN, list : EventCounts \cup {None, Unanswered}, attended : EventCounts \cup {None, Unanswered}]
LoadedHistory == [id : {1, 2}, source : Sessions!Sources \cup {None}]

SessionTyped ==
  /\ scope \in SessionScopes /\ shown \in BOOLEAN /\ rowsHeld \in BOOLEAN /\ first \in Sessions!Sources
  /\ captured \in EventCounts /\ refreshes \subseteq RefreshCall
  /\ selectedWt \in Sessions!Worktrees \cup {None}

\* A worktree belongs to the project.
Placed(sc) == sc.worktree # None => sc.project = Sessions!ProjectOf[sc.worktree]
SessionPlaced == Placed(scope) /\ (selectedWt # None => scope.project = Sessions!ProjectOf[selectedWt])

HistoryTyped ==
  /\ histories \subseteq HistoryCall /\ historyRef \in Sessions!Refs \cup {None} /\ loaded \in LoadedHistory \cup {None}

\* The history in force, or the one that has arrived, is of the session it was opened for,
\* which the scope has not left.
HistoryKept ==
  /\ \A h, g \in histories : h.inForce /\ g.inForce => h = g
  /\ historyRef # None => \A h \in histories : h.inForce => h.id = historyRef.id
  /\ historyRef # None /\ (\A h \in histories : ~h.inForce) => loaded # None /\ loaded.id = historyRef.id
  /\ historyRef # None /\ scope.session # None => historyRef = scope.session

\* The refresh in force was not answered before the list was drawn.
ListKept ==
  /\ \A r, q \in refreshes : r.inForce /\ q.inForce => r = q
  /\ list.read # None => list.read \in EventCounts /\ \A s \in Sessions!Sources : list.read[s] <= captured[s]
  /\ \A r \in refreshes : r.list \notin {None, Unanswered} =>
       /\ r.list \in EventCounts /\ \A s \in Sessions!Sources : r.list[s] <= captured[s]
       /\ r.inForce /\ list.read # None => \A s \in Sessions!Sources : list.read[s] <= r.list[s]
  /\ \A x \in list.rows : Sessions!Ref(x.id, x.source) \in Sessions!Refs

SessionInv == SessionTyped /\ SessionPlaced /\ HistoryTyped /\ HistoryKept /\ ListKept

\* The calls of the scope store that the panel makes.
LEMMA SessionMoves ==
  ASSUME NEW sc \in SessionScopes, Placed(sc)
  PROVE  /\ \A p \in {"pa", "pb"} : LET n == Sessions!Narrow(sc, [project |-> p, cell |-> None]) IN n \in SessionScopes /\ Placed(n)
         /\ \A w \in Sessions!Worktrees :
              LET n == Sessions!Narrow(sc, [project |-> Sessions!ProjectOf[w], worktree |-> w, cell |-> None])
              IN n \in SessionScopes /\ Placed(n)
         /\ \A c \in Sessions!Sources \cup {None} : LET n == Sessions!Narrow(sc, [cell |-> c]) IN n \in SessionScopes /\ Placed(n)
         /\ \A r \in Sessions!Refs : LET n == Sessions!Narrow(sc, [session |-> r]) IN n \in SessionScopes /\ Placed(n) /\ n.session = r
         /\ \A r \in Sessions!Refs :
              LET n == Sessions!Narrow(sc, [session |-> r, cell |-> None]) IN n \in SessionScopes /\ Placed(n) /\ n.session = r
         /\ \A r \in Sessions!Refs :
              LET n == Sessions!ReplaceContext(sc, [session |-> r]) IN n \in SessionScopes /\ Placed(n) /\ n.session = r
         /\ LET n == Sessions!Narrow(sc, [worktree |-> None]) IN n \in SessionScopes /\ Placed(n)
         /\ Sessions!Ascend(sc) \in SessionScopes /\ Placed(Sessions!Ascend(sc))
<1> USE DEF SessionScopes, Placed, Sessions!Narrow, Sessions!Compute, Sessions!Context, Sessions!Live, Sessions!Worktrees, Sessions!ProjectOf
<1>1. \A p \in {"pa", "pb"} : LET n == Sessions!Narrow(sc, [project |-> p, cell |-> None]) IN n \in SessionScopes /\ Placed(n)
  OBVIOUS
<1>2. \A w \in Sessions!Worktrees :
        LET n == Sessions!Narrow(sc, [project |-> Sessions!ProjectOf[w], worktree |-> w, cell |-> None])
        IN n \in SessionScopes /\ Placed(n)
  OBVIOUS
<1>3. \A c \in Sessions!Sources \cup {None} : LET n == Sessions!Narrow(sc, [cell |-> c]) IN n \in SessionScopes /\ Placed(n)
  OBVIOUS
<1>4. \A r \in Sessions!Refs : LET n == Sessions!Narrow(sc, [session |-> r]) IN n \in SessionScopes /\ Placed(n) /\ n.session = r
  OBVIOUS
<1>5. \A r \in Sessions!Refs :
        LET n == Sessions!Narrow(sc, [session |-> r, cell |-> None]) IN n \in SessionScopes /\ Placed(n) /\ n.session = r
  OBVIOUS
<1>6. \A r \in Sessions!Refs :
        LET n == Sessions!ReplaceContext(sc, [session |-> r]) IN n \in SessionScopes /\ Placed(n) /\ n.session = r
  <2> SUFFICES ASSUME NEW r \in Sessions!Refs
               PROVE  LET n == Sessions!ReplaceContext(sc, [session |-> r]) IN n \in SessionScopes /\ Placed(n) /\ n.session = r
    OBVIOUS
  <2> DEFINE n == Sessions!ReplaceContext(sc, [session |-> r])
  <2>1. n.session = r /\ n.worktree = None
    BY DEF Sessions!ReplaceContext, Sessions!EmptyScope
  <2>2. n \in SessionScopes
    BY DEF Sessions!ReplaceContext, Sessions!EmptyScope
  <2> QED
    BY <2>1, <2>2
<1>7. LET n == Sessions!Narrow(sc, [worktree |-> None]) IN n \in SessionScopes /\ Placed(n)
  OBVIOUS
<1>8. Sessions!Ascend(sc) \in SessionScopes /\ Placed(Sessions!Ascend(sc))
  BY DEF Sessions!Ascend
<1> HIDE DEF SessionScopes, Placed, Sessions!Narrow, Sessions!Compute, Sessions!Context, Sessions!Live, Sessions!Worktrees, Sessions!ProjectOf
<1> QED
  BY <1>1, <1>2, <1>3, <1>4, <1>5, <1>6, <1>7, <1>8, Zenon

LEMMA SessionInit == Sessions!Init => SessionInv
<1> SUFFICES ASSUME Sessions!Init PROVE SessionInv
  OBVIOUS
<1>1. scope = Sessions!EmptyScope /\ shown = TRUE /\ first \in Sessions!Sources /\ captured = [s \in Sessions!Sources |-> 0]
      /\ rowsHeld \in BOOLEAN /\ refreshes = {} /\ list = Sessions!Blank /\ histories = {}
      /\ historyRef = None /\ loaded = None /\ selectedWt = None
  BY DEF Sessions!Init
<1>2. scope \in SessionScopes /\ scope.worktree = None
  BY <1>1 DEF SessionScopes, Sessions!EmptyScope, Sessions!Context, Sessions!Live
<1>3. list.read = None /\ list.rows = {}
  BY <1>1 DEF Sessions!Blank
<1>4. SessionTyped
  BY <1>1, <1>2 DEF SessionTyped, EventCounts
<1>5. SessionPlaced /\ HistoryTyped /\ HistoryKept
  BY <1>1, <1>2 DEF SessionPlaced, Placed, HistoryTyped, HistoryKept
<1>6. ListKept
  BY <1>1, <1>3 DEF ListKept
<1> QED
  BY <1>4, <1>5, <1>6 DEF SessionInv

LEMMA HistoryFields ==
  ASSUME NEW h \in HistoryCall
  PROVE  h.inForce \in BOOLEAN /\ h.id \in {1, 2} /\ h.served \in BOOLEAN /\ h.source \in Sessions!Sources \cup {None}
BY DEF HistoryCall

LEMMA RefreshFields ==
  ASSUME NEW r \in RefreshCall
  PROVE  r.inForce \in BOOLEAN /\ r.list \in EventCounts \cup {None, Unanswered} /\ r.attended \in EventCounts \cup {None, Unanswered}
BY DEF RefreshCall

\* Histories that give way to another, or to none.
LEMMA HistorySuperseded ==
  ASSUME HistoryTyped, NEW h \in Sessions!Superseded(histories)
  PROVE  h \in HistoryCall /\ h.inForce = FALSE
<1>1. PICK g \in histories : h = [g EXCEPT !.inForce = FALSE]
  BY DEF Sessions!Superseded
<1> QED
  BY <1>1 DEF HistoryTyped, HistoryCall

\* The scope moves and the panel follows it.
LEMMA SessionFollows ==
  ASSUME SessionTyped, SessionPlaced, HistoryTyped, HistoryKept, NEW next \in SessionScopes, Placed(next), scope' = next,
         Sessions!Follow(scope, next)
  PROVE  /\ selectedWt' \in Sessions!Worktrees \cup {None} /\ SessionPlaced'
         /\ HistoryTyped' /\ HistoryKept'
<1>1. selectedWt' = IF scope.worktree # None /\ next.worktree = None /\ next.project = scope.project
                    THEN scope.worktree ELSE IF next.project # scope.project THEN None ELSE selectedWt
  BY DEF Sessions!Follow
<1>2. scope.worktree \in Sessions!Worktrees \cup {None} /\ selectedWt \in Sessions!Worktrees \cup {None}
  BY DEF SessionTyped, SessionScopes
<1>3. selectedWt' \in Sessions!Worktrees \cup {None}
  BY <1>1, <1>2
<1>4. SessionPlaced'
  BY <1>1 DEF SessionPlaced, Placed
<1>5. CASE historyRef # None /\ Sessions!Departs(scope, next)
  <2>1. histories' = Sessions!Superseded(histories) /\ historyRef' = None /\ loaded' = None
    BY <1>5 DEF Sessions!Follow, Sessions!DropHistory
  <2>2. HistoryTyped' /\ HistoryKept'
    BY <2>1, HistorySuperseded DEF HistoryTyped, HistoryKept
  <2> QED
    BY <1>3, <1>4, <2>2
<1>6. CASE ~(historyRef # None /\ Sessions!Departs(scope, next))
  <2>1. histories' = histories /\ historyRef' = historyRef /\ loaded' = loaded
    BY <1>6 DEF Sessions!Follow, Sessions!historyVars
  <2>2. historyRef # None /\ next.session # None => historyRef = next.session
    BY <1>6 DEF Sessions!Departs, HistoryKept
  <2>3. HistoryTyped' /\ HistoryKept'
    BY <2>1, <2>2 DEF HistoryTyped, HistoryKept
  <2> QED
    BY <1>3, <1>4, <2>3
<1> QED
  BY <1>5, <1>6

\* A session is opened: the scope is the one it is of, and its history is in force.
LEMMA SessionOpens ==
  ASSUME SessionTyped, SessionPlaced, HistoryTyped, HistoryKept, NEW next \in SessionScopes, Placed(next), scope' = next,
         NEW r \in Sessions!Refs, next.session = r, NEW filtered \in BOOLEAN, Sessions!OpenHistory(r, filtered),
         selectedWt' = IF next.project # scope.project THEN None ELSE selectedWt,
         loaded' \in {None, loaded}
  PROVE  /\ selectedWt' \in Sessions!Worktrees \cup {None} /\ SessionPlaced'
         /\ HistoryTyped' /\ HistoryKept'
<1> DEFINE new == [inForce |-> TRUE, id |-> r.id, served |-> FALSE, source |-> IF filtered THEN r.source ELSE None]
<1>1. histories' = Sessions!Superseded(histories) \cup {new} /\ historyRef' = r
  BY DEF Sessions!OpenHistory
<1>2. r.id \in {1, 2} /\ r.source \in Sessions!Sources
  BY DEF Sessions!Refs, Sessions!Ref, Sessions!Sources
<1>3. new \in HistoryCall /\ new.inForce = TRUE /\ new.id = r.id
  BY <1>2 DEF HistoryCall
<1> HIDE DEF new
<1>4. HistoryTyped'
  BY <1>1, <1>3, HistorySuperseded DEF HistoryTyped
<1>5. HistoryKept'
  BY <1>1, <1>3, HistorySuperseded DEF HistoryKept
<1>6. selectedWt' \in Sessions!Worktrees \cup {None} /\ SessionPlaced'
  BY DEF SessionTyped, SessionPlaced, Placed
<1> QED
  BY <1>4, <1>5, <1>6

\* A refresh starts: it is in force, and not answered.
LEMMA SessionStarts ==
  ASSUME SessionTyped, ListKept, Sessions!StartRefresh, UNCHANGED <<captured, list>>
  PROVE  refreshes' \subseteq RefreshCall /\ ListKept'
<1> DEFINE new == [inForce |-> TRUE, list |-> None, attended |-> None]
           old == {[r EXCEPT !.inForce = FALSE, !.attended = Unanswered] : r \in refreshes}
<1>1. refreshes' = old \cup {new}
  BY DEF Sessions!StartRefresh
<1>2. new \in RefreshCall /\ new.inForce = TRUE /\ new.list = None
  BY DEF RefreshCall
<1>3. ASSUME NEW q \in old
      PROVE  q \in RefreshCall /\ q.inForce = FALSE
             /\ (q.list \notin {None, Unanswered} => q.list \in EventCounts /\ \A s \in Sessions!Sources : q.list[s] <= captured[s])
  <2>1. PICK r \in refreshes : q = [r EXCEPT !.inForce = FALSE, !.attended = Unanswered]
    OBVIOUS
  <2>2. r \in RefreshCall
    BY DEF SessionTyped
  <2>3. q \in RefreshCall /\ q.inForce = FALSE /\ q.list = r.list
    BY <2>1, <2>2 DEF RefreshCall
  <2> QED
    BY <2>3 DEF ListKept
<1> HIDE DEF new, old
<1>4. refreshes' \subseteq RefreshCall
  BY <1>1, <1>2, <1>3
<1>5. ListKept'
  BY <1>1, <1>2, <1>3 DEF ListKept
<1> QED
  BY <1>4, <1>5

LEMMA ListSame == ListKept /\ UNCHANGED <<captured, refreshes, list>> => ListKept'
BY DEF ListKept

LEMMA HistorySame == HistoryTyped /\ HistoryKept /\ UNCHANGED <<scope, histories, historyRef, loaded>> => HistoryTyped' /\ HistoryKept'
BY DEF HistoryTyped, HistoryKept

LEMMA PlacedSame == SessionPlaced /\ UNCHANGED <<scope, selectedWt>> => SessionPlaced'
BY DEF SessionPlaced

\* The rows that a list may show are of sessions that there are.
LEMMA ListedRefs ==
  ASSUME NEW n, NEW a, SessionTyped
  PROVE  \A x \in Sessions!RowsInScope(n, a) : Sessions!Ref(x.id, x.source) \in Sessions!Refs
<1> USE DEF Sessions!Refs, Sessions!Sources, Sessions!Ref
<1>0. first \in Sessions!Sources /\ scope.worktree \in Sessions!Worktrees \cup {None}
  BY DEF SessionTyped, SessionScopes
<1>1. \A x \in Sessions!Listed(n) : Sessions!Ref(x.id, x.source) \in Sessions!Refs
  BY <1>0 DEF Sessions!Listed
<1>2. \A x \in Sessions!Listed(n) : LET y == [x EXCEPT !.own = TRUE] IN Sessions!Ref(y.id, y.source) \in Sessions!Refs
  BY <1>0 DEF Sessions!Listed
<1>3. ASSUME NEW x \in Sessions!RowsInScope(n, a)
      PROVE  Sessions!Ref(x.id, x.source) \in Sessions!Refs
  <2>1. CASE scope.worktree = None \/ ~rowsHeld
    BY <1>1, <1>3, <2>1 DEF Sessions!RowsInScope
  <2>2. CASE ~(scope.worktree = None \/ ~rowsHeld)
    <3>1. \/ x \in Sessions!Listed(n)
          \/ \E y \in Sessions!Listed(n) : x = [y EXCEPT !.own = TRUE]
          \/ \E m \in Sessions!Holds[scope.worktree] : x = [id |-> m.id, source |-> m.source, of |-> {m.source}, own |-> TRUE]
      BY <2>2, <1>3 DEF Sessions!RowsInScope
    <3>2. \A m \in Sessions!Holds[scope.worktree] : Sessions!Ref(m.id, m.source) \in Sessions!Refs
      BY <1>0, <2>2 DEF Sessions!Holds, Sessions!Worktrees
    <3>3. CASE \E m \in Sessions!Holds[scope.worktree] : x = [id |-> m.id, source |-> m.source, of |-> {m.source}, own |-> TRUE]
      <4>1. PICK m \in Sessions!Holds[scope.worktree] : x = [id |-> m.id, source |-> m.source, of |-> {m.source}, own |-> TRUE]
        BY <3>3
      <4>2. x.id = m.id /\ x.source = m.source
        BY <4>1
      <4> QED
        BY <3>2, <4>2
    <3>4. CASE \E y \in Sessions!Listed(n) : x = [y EXCEPT !.own = TRUE]
      BY <3>4, <1>2
    <3>5. CASE x \in Sessions!Listed(n)
      BY <3>5, <1>1
    <3> QED
      BY <3>1, <3>3, <3>4, <3>5
  <2> QED
    BY <2>1, <2>2
<1> QED
  BY <1>3

\* A step that only concerns the refreshes.
LEMMA SessionListStep ==
  ASSUME SessionInv, UNCHANGED <<scope, shown, first, captured, rowsHeld, histories, historyRef, loaded, selectedWt>>,
         refreshes' \subseteq RefreshCall, ListKept'
  PROVE  SessionInv'
<1>1. SessionTyped'
  BY DEF SessionInv, SessionTyped
<1> QED
  BY <1>1, HistorySame, PlacedSame DEF SessionInv

\* A step that only concerns the histories.
LEMMA SessionHistoryStep ==
  ASSUME SessionInv, UNCHANGED <<scope, shown, first, captured, rowsHeld, refreshes, list, selectedWt>>,
         HistoryTyped', HistoryKept'
  PROVE  SessionInv'
<1>1. SessionTyped'
  BY DEF SessionInv, SessionTyped
<1> QED
  BY <1>1, ListSame, PlacedSame DEF SessionInv

\* One history takes the place of another.
LEMMA HistoryLeaves ==
  ASSUME HistoryTyped, HistoryKept, NEW h \in histories
  PROVE  /\ histories \ {h} \subseteq HistoryCall
         /\ \A x, y \in histories \ {h} : x.inForce /\ y.inForce => x = y
         /\ h.inForce => \A x \in histories \ {h} : ~x.inForce
BY HistoryFields DEF HistoryTyped, HistoryKept

LEMMA SessionStep == SessionInv /\ [Sessions!Next]_(Sessions!vars) => SessionInv'
<1> SUFFICES ASSUME SessionInv, [Sessions!Next]_(Sessions!vars) PROVE SessionInv'
  OBVIOUS
<1> USE DEF SessionInv
<1>0. scope \in SessionScopes /\ Placed(scope)
  BY DEF SessionTyped, SessionPlaced
<1>1. CASE UNCHANGED Sessions!vars
  <2>1. SessionTyped'
    BY <1>1 DEF SessionTyped, Sessions!vars
  <2> QED
    BY <1>1, <2>1, ListSame, HistorySame, PlacedSame DEF Sessions!vars
<1>2. CASE Sessions!Capture
  <2>1. PICK s \in Sessions!Sources : captured' = [captured EXCEPT ![s] = @ + 1]
    BY <1>2 DEF Sessions!Capture
  <2>2. UNCHANGED <<scope, shown, first, rowsHeld, refreshes, list, histories, historyRef, loaded, selectedWt>>
    BY <1>2 DEF Sessions!Capture, Sessions!historyVars
  <2>3. captured' \in EventCounts /\ \A t \in Sessions!Sources : captured[t] \in Nat /\ captured'[t] \in Nat /\ captured[t] <= captured'[t]
    BY <2>1 DEF SessionTyped, EventCounts
  <2>4. SessionTyped'
    BY <2>2, <2>3 DEF SessionTyped
  <2>5. ListKept'
    BY <2>2, <2>3 DEF ListKept, EventCounts
  <2> QED
    BY <2>2, <2>4, <2>5, HistorySame, PlacedSame
<1>3. CASE Sessions!ScopeMoves
  <2>1. PICK next \in {Sessions!Narrow(scope, [project |-> p, cell |-> None]) : p \in {"pa", "pb"}}
                 \cup {Sessions!Narrow(scope, [project |-> Sessions!ProjectOf[w], worktree |-> w, cell |-> None]) : w \in Sessions!Worktrees}
                 \cup {Sessions!SelectSession(scope, r, FALSE) : r \in {Sessions!Ref(2, "a")}}
                 \cup {Sessions!Narrow(scope, [cell |-> "a"]), Sessions!Ascend(scope)} :
               scope' = next /\ Sessions!Follow(scope, next)
    BY <1>3 DEF Sessions!ScopeMoves
  <2>2. Sessions!Ref(2, "a") \in Sessions!Refs /\ "a" \in Sessions!Sources
    BY DEF Sessions!Refs, Sessions!Sources
  <2>3. next \in SessionScopes /\ Placed(next)
    <3>1. CASE next \in {Sessions!Narrow(scope, [project |-> p, cell |-> None]) : p \in {"pa", "pb"}}
      BY <1>0, <3>1, SessionMoves
    <3>2. CASE next \in {Sessions!Narrow(scope, [project |-> Sessions!ProjectOf[w], worktree |-> w, cell |-> None]) : w \in Sessions!Worktrees}
      BY <1>0, <3>2, SessionMoves
    <3>3. CASE next = Sessions!SelectSession(scope, Sessions!Ref(2, "a"), FALSE)
      BY <1>0, <2>2, <3>3, SessionMoves DEF Sessions!SelectSession
    <3>4. CASE next \in {Sessions!Narrow(scope, [cell |-> "a"]), Sessions!Ascend(scope)}
      BY <1>0, <2>2, <3>4, SessionMoves
    <3> QED
      BY <2>1, <3>1, <3>2, <3>3, <3>4
  <2>4. UNCHANGED <<shown, first, captured, rowsHeld, refreshes, list>>
    BY <1>3 DEF Sessions!ScopeMoves
  <2>5. selectedWt' \in Sessions!Worktrees \cup {None} /\ SessionPlaced' /\ HistoryTyped' /\ HistoryKept'
    BY <2>1, <2>3, SessionFollows
  <2>6. SessionTyped'
    BY <2>1, <2>3, <2>4, <2>5 DEF SessionTyped
  <2> QED
    BY <2>4, <2>5, <2>6, ListSame
<1>4. CASE Sessions!OpenFromElsewhere
  <2>0. PICK r \in Sessions!Refs :
          \E next \in {Sessions!Narrow(scope, [session |-> r, cell |-> None]), Sessions!ReplaceContext(scope, [session |-> r])} :
            /\ scope' = next
            /\ selectedWt' = IF next.project # scope.project THEN None ELSE selectedWt
            /\ Sessions!OpenHistory(r, TRUE)
            /\ loaded' = IF historyRef # None /\ Sessions!Departs(scope, next) THEN None ELSE loaded
    BY <1>4 DEF Sessions!OpenFromElsewhere
  <2>1. PICK next \in {Sessions!Narrow(scope, [session |-> r, cell |-> None]), Sessions!ReplaceContext(scope, [session |-> r])} :
          /\ scope' = next
          /\ selectedWt' = IF next.project # scope.project THEN None ELSE selectedWt
          /\ Sessions!OpenHistory(r, TRUE)
          /\ loaded' = IF historyRef # None /\ Sessions!Departs(scope, next) THEN None ELSE loaded
    BY <2>0
  <2>2. next \in SessionScopes /\ Placed(next) /\ next.session = r
    BY <1>0, <2>1, SessionMoves
  <2>3. shown' = TRUE /\ Sessions!StartRefresh /\ UNCHANGED <<first, captured, rowsHeld, list>>
    BY <1>4 DEF Sessions!OpenFromElsewhere
  <2>4. selectedWt' \in Sessions!Worktrees \cup {None} /\ SessionPlaced' /\ HistoryTyped' /\ HistoryKept'
    BY <2>1, <2>2, SessionOpens
  <2>5. refreshes' \subseteq RefreshCall /\ ListKept'
    BY <2>3, SessionStarts
  <2>6. SessionTyped'
    BY <2>1, <2>2, <2>3, <2>4, <2>5 DEF SessionTyped
  <2> QED
    BY <2>4, <2>5, <2>6
<1>5. CASE Sessions!ClickSession
  <2>1. PICK row \in list.rows :
          LET r == Sessions!Ref(row.id, row.source)
          IN \E member \in BOOLEAN :
               LET next == Sessions!SelectSession(scope, r, member)
               IN /\ scope' = next
                  /\ selectedWt' = IF next.project # scope.project THEN None ELSE selectedWt
                  /\ Sessions!OpenHistory(r, next.worktree # None)
                  /\ loaded' = IF historyRef # None /\ Sessions!Departs(scope, next) THEN None ELSE loaded
    BY <1>5, Zenon DEF Sessions!ClickSession
  <2> DEFINE r == Sessions!Ref(row.id, row.source)
  <2>2. r \in Sessions!Refs
    BY DEF ListKept
  <2>3. PICK member \in BOOLEAN :
          /\ scope' = Sessions!SelectSession(scope, r, member)
          /\ selectedWt' = IF scope'.project # scope.project THEN None ELSE selectedWt
          /\ Sessions!OpenHistory(r, scope'.worktree # None)
          /\ loaded' = IF historyRef # None /\ Sessions!Departs(scope, scope') THEN None ELSE loaded
    BY <2>1, Zenon
  <2> HIDE DEF r
  <2>4. scope' \in SessionScopes /\ Placed(scope') /\ scope'.session = r
    BY <1>0, <2>2, <2>3, SessionMoves, Zenon DEF Sessions!SelectSession
  <2>5. UNCHANGED <<shown, first, captured, rowsHeld, refreshes, list>>
    BY <1>5 DEF Sessions!ClickSession
  <2>6. loaded' \in {None, loaded} /\ (scope'.worktree # None) \in BOOLEAN
    BY <2>3
  <2>7. selectedWt' \in Sessions!Worktrees \cup {None} /\ SessionPlaced' /\ HistoryTyped' /\ HistoryKept'
    <3> DEFINE next == scope'  filtered == scope'.worktree # None
    <3>1. next \in SessionScopes /\ Placed(next) /\ scope' = next /\ next.session = r /\ filtered \in BOOLEAN
          /\ Sessions!OpenHistory(r, filtered) /\ selectedWt' = IF next.project # scope.project THEN None ELSE selectedWt
      BY <2>3, <2>4, <2>6
    <3> HIDE DEF next, filtered
    <3> QED
      BY <2>2, <2>6, <3>1, SessionOpens
  <2>8. SessionTyped'
    BY <2>4, <2>5, <2>7 DEF SessionTyped
  <2> QED
    BY <2>5, <2>7, <2>8, ListSame
<1>6. CASE Sessions!ServeHistory
  <2>1. PICK h \in histories : histories' = (histories \ {h}) \cup {[h EXCEPT !.served = TRUE]}
    BY <1>6 DEF Sessions!ServeHistory
  <2>2. UNCHANGED <<scope, shown, first, captured, rowsHeld, refreshes, list, historyRef, loaded, selectedWt>>
    BY <1>6 DEF Sessions!ServeHistory
  <2> DEFINE g == [h EXCEPT !.served = TRUE]
  <2>3. g \in HistoryCall /\ g.inForce = h.inForce /\ g.id = h.id
    BY DEF HistoryTyped, HistoryCall
  <2> HIDE DEF g
  <2>4. histories' = (histories \ {h}) \cup {g}
    BY <2>1 DEF g
  <2>5. HistoryTyped'
    BY <2>2, <2>3, <2>4 DEF HistoryTyped
  <2>6. HistoryKept'
    BY <2>2, <2>3, <2>4, HistoryLeaves DEF HistoryKept
  <2> QED
    BY <2>2, <2>5, <2>6, SessionHistoryStep
<1>7. CASE Sessions!HistoryAnswered
  <2>1. PICK h \in histories : /\ histories' = histories \ {h}
                               /\ loaded' = IF h.inForce THEN [id |-> h.id, source |-> h.source] ELSE loaded
    BY <1>7 DEF Sessions!HistoryAnswered, Sessions!InForce
  <2>2. UNCHANGED <<scope, shown, first, captured, rowsHeld, refreshes, list, historyRef, selectedWt>>
    BY <1>7 DEF Sessions!HistoryAnswered
  <2>3. h \in HistoryCall
    BY DEF HistoryTyped
  <2>4. h.inForce => loaded' \in LoadedHistory /\ loaded' # None /\ loaded'.id = h.id
    BY <2>1, <2>3, PanelsAssumption DEF HistoryCall, LoadedHistory, Sessions!Sources
  <2>5. HistoryTyped'
    BY <2>1, <2>2, <2>4 DEF HistoryTyped
  <2>6. HistoryKept'
    <3>1. CASE h.inForce
      BY <2>1, <2>2, <2>4, <3>1, HistoryLeaves DEF HistoryKept
    <3>2. CASE ~h.inForce
      BY <2>1, <2>2, <3>2 DEF HistoryKept
    <3> QED
      BY <3>1, <3>2
  <2> QED
    BY <2>2, <2>5, <2>6, SessionHistoryStep
<1>8. CASE Sessions!HistoryFails
  <2>1. PICK h \in histories : histories' = histories \ {h} /\ historyRef' = IF h.inForce THEN None ELSE historyRef
    BY <1>8 DEF Sessions!HistoryFails, Sessions!InForce
  <2>2. UNCHANGED <<scope, shown, first, captured, rowsHeld, refreshes, list, loaded, selectedWt>>
    BY <1>8 DEF Sessions!HistoryFails
  <2>3. HistoryTyped'
    BY <2>1, <2>2 DEF HistoryTyped
  <2>4. HistoryKept'
    <3>1. CASE h.inForce
      BY <2>1, <2>2, <3>1 DEF HistoryKept
    <3>2. CASE ~h.inForce
      BY <2>1, <2>2, <3>2 DEF HistoryKept
    <3> QED
      BY <3>1, <3>2
  <2> QED
    BY <2>2, <2>3, <2>4, SessionHistoryStep
<1>9. CASE Sessions!ClickWorktree \/ Sessions!ClickBack
  <2>1. \E next \in SessionScopes : Placed(next) /\ scope' = next /\ Sessions!Follow(scope, next)
    <3>1. CASE Sessions!ClickWorktree
      <4>1. PICK w \in Sessions!Worktrees :
              scope' = Sessions!Narrow(scope, [worktree |-> w, cell |-> None]) /\ Sessions!ProjectOf[w] = scope.project
        BY <3>1 DEF Sessions!ClickWorktree
      <4>2. scope' \in SessionScopes /\ Placed(scope')
        BY <1>0, <4>1 DEF SessionScopes, Placed, Sessions!Narrow, Sessions!Compute, Sessions!Context, Sessions!Live, Sessions!Worktrees, Sessions!ProjectOf
      <4> QED
        BY <3>1, <4>2 DEF Sessions!ClickWorktree
    <3>2. CASE Sessions!ClickBack
      <4>1. scope' \in SessionScopes /\ Placed(scope')
        BY <1>0, <3>2, SessionMoves DEF Sessions!ClickBack
      <4> QED
        BY <3>2, <4>1 DEF Sessions!ClickBack
    <3> QED
      BY <1>9, <3>1, <3>2
  <2>2. PICK next \in SessionScopes : Placed(next) /\ scope' = next /\ Sessions!Follow(scope, next)
    BY <2>1
  <2>3. Sessions!StartRefresh /\ UNCHANGED <<shown, first, captured, rowsHeld, list>>
    BY <1>9 DEF Sessions!ClickWorktree, Sessions!ClickBack
  <2>4. selectedWt' \in Sessions!Worktrees \cup {None} /\ SessionPlaced' /\ HistoryTyped' /\ HistoryKept'
    BY <2>2, SessionFollows
  <2>5. refreshes' \subseteq RefreshCall /\ ListKept'
    BY <2>3, SessionStarts
  <2>6. SessionTyped'
    BY <2>2, <2>3, <2>4, <2>5 DEF SessionTyped
  <2> QED
    BY <2>4, <2>5, <2>6
<1>10. CASE Sessions!Poll \/ Sessions!Show
  <2>1. /\ shown' \in BOOLEAN /\ Sessions!StartRefresh
        /\ UNCHANGED <<scope, first, captured, rowsHeld, list, histories, historyRef, loaded, selectedWt>>
    BY <1>10 DEF Sessions!Poll, Sessions!Show, Sessions!historyVars, SessionTyped
  <2>2. refreshes' \subseteq RefreshCall /\ ListKept'
    BY <2>1, SessionStarts
  <2>3. SessionTyped'
    BY <2>1, <2>2 DEF SessionTyped
  <2> QED
    BY <2>1, <2>2, <2>3, HistorySame, PlacedSame
<1>11. CASE Sessions!Leave \/ Sessions!ServeRows
  <2>1. /\ shown' \in BOOLEAN /\ rowsHeld' \in BOOLEAN
        /\ UNCHANGED <<scope, first, captured, refreshes, list, histories, historyRef, loaded, selectedWt>>
    BY <1>11 DEF Sessions!Leave, Sessions!ServeRows, Sessions!historyVars, SessionTyped
  <2>2. SessionTyped'
    BY <2>1 DEF SessionTyped
  <2> QED
    BY <2>1, <2>2, ListSame, HistorySame, PlacedSame
<1>12. CASE Sessions!Serve \/ Sessions!ServeFails \/ Sessions!Deadline
  <2>1. UNCHANGED <<scope, shown, first, captured, rowsHeld, list, histories, historyRef, loaded, selectedWt>>
    BY <1>12 DEF Sessions!Serve, Sessions!ServeFails, Sessions!Deadline, Sessions!historyVars
  <2>2. PICK r \in refreshes, a \in EventCounts \cup {None, Unanswered}, b \in EventCounts \cup {None, Unanswered} :
          /\ refreshes' = (refreshes \ {r}) \cup {[r EXCEPT !.list = a, !.attended = b]}
          /\ a \in {r.list, captured, Unanswered}
    <3>1. captured \in EventCounts
      BY DEF SessionTyped
    <3>2. \A r \in refreshes : /\ r \in RefreshCall /\ r.list \in EventCounts \cup {None, Unanswered} /\ r.attended \in EventCounts \cup {None, Unanswered}
                               /\ \A a : [r EXCEPT !["list"] = a] = [r EXCEPT !.list = a, !.attended = r.attended]
                               /\ \A b : [r EXCEPT !["attended"] = b] = [r EXCEPT !.list = r.list, !.attended = b]
      BY DEF SessionTyped, RefreshCall
    <3>3. CASE Sessions!Serve
      <4>1. PICK r \in refreshes, what \in {"list", "attended"} : refreshes' = (refreshes \ {r}) \cup {[r EXCEPT ![what] = captured]}
        BY <3>3 DEF Sessions!Serve
      <4>2. CASE what = "list"
        BY <3>1, <3>2, <4>1, <4>2
      <4>3. CASE what = "attended"
        BY <3>1, <3>2, <4>1, <4>3
      <4> QED
        BY <4>1, <4>2, <4>3
    <3>4. CASE Sessions!ServeFails
      <4>1. PICK r \in refreshes, what \in {"list", "attended"} : refreshes' = (refreshes \ {r}) \cup {[r EXCEPT ![what] = Unanswered]}
        BY <3>4 DEF Sessions!ServeFails
      <4>2. CASE what = "list"
        BY <3>1, <3>2, <4>1, <4>2
      <4>3. CASE what = "attended"
        BY <3>1, <3>2, <4>1, <4>3
      <4> QED
        BY <4>1, <4>2, <4>3
    <3>5. CASE Sessions!Deadline
      BY <3>1, <3>2, <3>5 DEF Sessions!Deadline, Sessions!Settle
    <3> QED
      BY <1>12, <3>3, <3>4, <3>5
  <2> DEFINE q == [r EXCEPT !.list = a, !.attended = b]
  <2>3. q \in RefreshCall /\ q.inForce = r.inForce /\ q.list = a
    BY DEF SessionTyped, RefreshCall
  <2>4. refreshes' = (refreshes \ {r}) \cup {q}
    BY <2>2
  <2> HIDE DEF q
  <2>5. \A s \in Sessions!Sources : captured[s] \in Nat
    BY DEF SessionTyped, EventCounts
  <2>6. ListKept'
    BY <2>1, <2>2, <2>3, <2>4, <2>5 DEF ListKept, SessionTyped
  <2>7. refreshes' \subseteq RefreshCall
    BY <2>3, <2>4 DEF SessionTyped
  <2> QED
    BY <2>1, <2>6, <2>7, SessionListStep
<1>13. CASE Sessions!Settled
  <2>1. UNCHANGED <<scope, shown, first, captured, rowsHeld, histories, historyRef, loaded, selectedWt>>
    BY <1>13 DEF Sessions!Settled, Sessions!historyVars
  <2>2. PICK r \in refreshes :
          /\ r.list # None /\ refreshes' = refreshes \ {r}
          /\ \/ list' = list
             \/ /\ r.inForce /\ list'.read = IF r.list = Unanswered THEN None ELSE r.list
                /\ \A x \in list'.rows : x \in Sessions!RowsInScope(r.list, r.attended)
    BY <1>13 DEF Sessions!Settled, Sessions!InForce
  <2>3. \A x \in list'.rows : Sessions!Ref(x.id, x.source) \in Sessions!Refs
    BY <2>2, ListedRefs DEF ListKept
  <2>4. r \in RefreshCall /\ \A q \in refreshes : q \in RefreshCall
    BY DEF SessionTyped
  <2>5. \A x, y \in refreshes' : x.inForce /\ y.inForce => x = y
    BY <2>2 DEF ListKept
  <2>6. CASE list' = list
    BY <2>1, <2>2, <2>3, <2>4, <2>5, <2>6, SessionListStep DEF ListKept
  <2>7. CASE r.inForce /\ list'.read = IF r.list = Unanswered THEN None ELSE r.list
    <3>1. \A q \in refreshes' : ~q.inForce
      BY <2>2, <2>4, <2>7, RefreshFields DEF ListKept
    <3>2. list'.read # None => list'.read \in EventCounts /\ \A s \in Sessions!Sources : list'.read[s] <= captured[s]
      BY <2>2, <2>7 DEF ListKept
    <3>3. ListKept'
      BY <2>1, <2>2, <2>3, <2>5, <3>1, <3>2 DEF ListKept
    <3> QED
      BY <2>1, <2>2, <2>4, <3>3, SessionListStep
  <2> QED
    BY <2>2, <2>6, <2>7
<1> QED
  BY <1>1, <1>2, <1>3, <1>4, <1>5, <1>6, <1>7, <1>8, <1>9, <1>10, <1>11, <1>12, <1>13 DEF Sessions!Next

LEMMA SessionCardinality == \A S : Sessions!Cardinality(S) = Cardinality(S)
BY Zenon DEF Sessions!Cardinality, Cardinality

LEMMA SessionMeans ==
  ASSUME SessionInv
  PROVE  Sessions!TypeOK /\ Sessions!HistoryOfScope /\ Sessions!WorktreeInProject
<1> USE DEF SessionInv
<1>1. Cardinality({r \in refreshes : r.inForce}) <= 1
  BY AtMostOne DEF ListKept
<1>2. Cardinality({h \in histories : h.inForce}) <= 1
  BY AtMostOne DEF HistoryKept
<1>3. loaded # None => loaded.id \in {1, 2}
  BY DEF HistoryTyped, LoadedHistory
<1>4. Sessions!TypeOK
  BY <1>1, <1>2, <1>3, SessionCardinality DEF SessionTyped, SessionScopes, EventCounts, HistoryTyped, Sessions!TypeOK
<1>5. Sessions!HistoryOfScope
  BY DEF HistoryKept, Sessions!HistoryOfScope
<1>6. Sessions!WorktreeInProject
  BY DEF SessionPlaced, Placed, Sessions!WorktreeInProject
<1> QED
  BY <1>4, <1>5, <1>6

\* Only the refresh in force draws the list, and it is not answered before the last one was.
LEMMA SessionActs ==
  ASSUME SessionInv, [Sessions!Next]_(Sessions!vars)
  PROVE  Sessions!ListForward
<1> USE DEF SessionInv
<1>1. CASE list' = list
  <2>1. list.read # None => \A s \in Sessions!Sources : list.read[s] \in Nat
    BY DEF ListKept, EventCounts
  <2> QED
    BY <1>1, <2>1 DEF Sessions!ListForward
<1>2. CASE list' # list
  <2>1. Sessions!Settled
    BY <1>2 DEF Sessions!Next, Sessions!vars, Sessions!Capture, Sessions!ScopeMoves, Sessions!OpenFromElsewhere,
       Sessions!ClickSession, Sessions!ServeHistory, Sessions!HistoryAnswered, Sessions!HistoryFails, Sessions!ClickWorktree,
       Sessions!ClickBack, Sessions!Poll, Sessions!Show, Sessions!Leave, Sessions!Serve, Sessions!ServeRows,
       Sessions!ServeFails, Sessions!Deadline
  <2>2. PICK r \in refreshes : r.list # None /\ r.inForce /\ list'.read = IF r.list = Unanswered THEN None ELSE r.list
    BY <1>2, <2>1 DEF Sessions!Settled, Sessions!InForce
  <2> QED
    BY <2>2 DEF ListKept, Sessions!ListForward
<1> QED
  BY <1>1, <1>2

HIDE DEF captured, refreshes, scope, first, rowsHeld, list, histories, historyRef, loaded, selectedWt

----------------------------------------------------------------------------
(* Topology.                                                               *)

mode == x3
workspace == x5
repo == x6
registered == x7
live == x8
project == x9
worktree == x10
pendingRefresh == x11
privacyMode == x12
repos == x13
snapshot == x14
unregistered == x15
registering == x16
USE DEF mode, refreshes, workspace, repo, registered, live, project, worktree, pendingRefresh, privacyMode, repos, snapshot,
        unregistered, registering

SnapshotAnswer == [repo : Topology!Ids, workspaces : SUBSET Topology!Ids]
ScanCall ==
  [inForce : BOOLEAN, stage : {"asks", "scans"}, mode : 0..2, repos : (SUBSET Topology!Ids) \cup {None},
   repo : Topology!Ids \cup {None}, answer : SnapshotAnswer \cup {None}, changed : BOOLEAN]
RegistrationCall ==
  [inForce : BOOLEAN, name : Topology!Projects, id : Topology!Ids \cup {None}, repos : (SUBSET Topology!Ids) \cup {None},
   asked : BOOLEAN, from : Topology!Ids \cup {None}]

TopologyTyped ==
  /\ mode \in 1..2 /\ registered \subseteq Topology!Projects /\ live \in BOOLEAN
  /\ project \in Topology!Ids \cup {None} /\ worktree \in Topology!Ids \cup {None}
  /\ repo \in Topology!Ids \cup {None} /\ workspace \in Topology!Ids \cup {None}
  /\ shown \in BOOLEAN /\ pendingRefresh \in BOOLEAN /\ unregistered \in BOOLEAN
  /\ privacyMode \in 0..2 /\ repos \subseteq Topology!Ids
  /\ snapshot \in SnapshotAnswer \cup {None} /\ registering \in RegistrationCall \cup {None}

\* A topology holds worktrees by the names of its privacy mode.
OwnNames(a) == \A x \in a.workspaces : x = <<"w", a.repo[2]>>

\* One refresh is in force, and only while the graph is shown.
ScansKept ==
  /\ refreshes \subseteq ScanCall /\ IsFiniteSet(refreshes) /\ Cardinality(refreshes) <= MaxOverlap
  /\ \A r, q \in refreshes : r.inForce /\ q.inForce => r = q
  /\ \A r \in refreshes : r.inForce => shown
  /\ \A r \in refreshes : r.answer # None => OwnNames(r.answer)

\* What is shown is of the project of the scope; a worktree in scope is one of it; and the
\* graph has selected that one, if removed worktrees are known to another resolver.
TopologyShows ==
  /\ repo # None => project \in {None, repo}
  /\ snapshot # None => snapshot.repo = repo /\ OwnNames(snapshot)
  /\ worktree # None => worktree[1] \in {"w", "gone"} /\ project # None /\ project[2] = worktree[2]
  /\ workspace # None => /\ shown /\ snapshot # None /\ workspace = <<"w", repo[2]>>
                         /\ Known => worktree = workspace \/ worktree \notin snapshot.workspaces \cup {None}

\* A registration in force knows where the scope is.
RegistrationKept == registering # None /\ registering.inForce => registering.from = project

TopologyInv == TopologyTyped /\ ScansKept /\ TopologyShows /\ RegistrationKept

LEMMA TopologyCardinality == \A S : Topology!Cardinality(S) = Cardinality(S)
BY Zenon DEF Topology!Cardinality, Cardinality

LEMMA ScanFields ==
  ASSUME NEW r \in ScanCall
  PROVE  /\ r.inForce \in BOOLEAN /\ r.stage \in {"asks", "scans"} /\ r.mode \in 0..2 /\ r.repos \in (SUBSET Topology!Ids) \cup {None}
         /\ r.repo \in Topology!Ids \cup {None} /\ r.answer \in SnapshotAnswer \cup {None} /\ r.changed \in BOOLEAN
BY DEF ScanCall

LEMMA AnswerFields ==
  ASSUME NEW a \in SnapshotAnswer
  PROVE  a.repo \in Topology!Ids /\ a.workspaces \subseteq Topology!Ids
BY DEF SnapshotAnswer

LEMMA RegistrationFields ==
  ASSUME NEW g \in RegistrationCall
  PROVE  /\ g.inForce \in BOOLEAN /\ g.name \in Topology!Projects /\ g.id \in Topology!Ids \cup {None}
         /\ g.repos \in (SUBSET Topology!Ids) \cup {None} /\ g.asked \in BOOLEAN /\ g.from \in Topology!Ids \cup {None}
BY DEF RegistrationCall

\* Identities are pairs, None is not one.
LEMMA IdsAre ==
  /\ None \notin Topology!Ids
  /\ \A n \in Topology!Projects \cup {"w", "gone"}, m \in 1..2 : <<n, m>> \in Topology!Ids
  /\ \A x \in Topology!Ids : x = <<x[1], x[2]>> /\ x[2] \in 1..2
BY PanelsAssumption DEF Topology!Ids

LEMMA NamesAre ==
  ASSUME TopologyTyped
  PROVE  /\ Topology!RegisteredIds \subseteq Topology!Ids /\ \A x \in Topology!RegisteredIds : x[2] = mode
         /\ \A n : Topology!Workspaces(n) \subseteq {<<"w", mode>>}
         /\ <<"w", mode>> \in Topology!Ids
<1>0. mode \in 1..2 /\ registered \subseteq Topology!Projects
  BY DEF TopologyTyped
<1>1. Topology!RegisteredIds \subseteq Topology!Ids
  BY <1>0, IdsAre DEF Topology!RegisteredIds, Topology!Id
<1>2. \A x \in Topology!RegisteredIds : x[2] = mode
  BY DEF Topology!RegisteredIds, Topology!Id
<1>3. \A n : Topology!Workspaces(n) \subseteq {<<"w", mode>>}
  BY DEF Topology!Workspaces, Topology!Id
<1>4. <<"w", mode>> \in Topology!Ids
  BY <1>0, IdsAre
<1> QED
  BY <1>1, <1>2, <1>3, <1>4

LEMMA TopologyInit == Topology!Init => TopologyInv
<1> SUFFICES ASSUME Topology!Init PROVE TopologyInv
  OBVIOUS
<1>1. TopologyTyped
  <2>1. mode = 1 /\ registered \subseteq Topology!Projects /\ live = TRUE /\ privacyMode = 0 /\ repos = {}
    BY DEF Topology!Init, Topology!Projects
  <2>2. project = None /\ worktree = None /\ repo = None /\ workspace = None /\ shown = FALSE /\ pendingRefresh = FALSE
        /\ unregistered = FALSE /\ snapshot = None /\ registering = None
    BY DEF Topology!Init
  <2>3. mode \in 1..2 /\ privacyMode \in 0..2 /\ repos \subseteq Topology!Ids
    BY <2>1
  <2>4. /\ live \in BOOLEAN /\ shown \in BOOLEAN /\ pendingRefresh \in BOOLEAN /\ unregistered \in BOOLEAN
    BY <2>1, <2>2
  <2>5. /\ project \in Topology!Ids \cup {None} /\ worktree \in Topology!Ids \cup {None}
        /\ repo \in Topology!Ids \cup {None} /\ workspace \in Topology!Ids \cup {None}
        /\ snapshot \in SnapshotAnswer \cup {None} /\ registering \in RegistrationCall \cup {None}
    BY <2>2
  <2> QED
    BY <2>1, <2>3, <2>4, <2>5, Zenon DEF TopologyTyped
<1>2. ScansKept
  BY FS_EmptySet, PanelsAssumption DEF Topology!Init, ScansKept
<1>3. TopologyShows /\ RegistrationKept
  BY DEF Topology!Init, TopologyShows, RegistrationKept
<1> QED
  BY <1>1, <1>2, <1>3 DEF TopologyInv

\* Refreshes that are superseded.
LEMMA ScansSuperseded ==
  ASSUME ScansKept
  PROVE  /\ Topology!Superseded \subseteq ScanCall /\ IsFiniteSet(Topology!Superseded)
         /\ Cardinality(Topology!Superseded) <= MaxOverlap
         /\ \A r \in Topology!Superseded : ~r.inForce /\ (r.answer # None => OwnNames(r.answer))
<1> DEFINE f == [r \in refreshes |-> [r EXCEPT !.inForce = FALSE]]
<1>1. Topology!Superseded = {f[r] : r \in refreshes} /\ DOMAIN f = refreshes /\ f = [r \in refreshes |-> f[r]]
  BY DEF Topology!Superseded
<1>2. \A r \in refreshes : f[r] \in ScanCall /\ f[r].inForce = FALSE /\ f[r].answer = r.answer
  BY DEF ScansKept, ScanCall
<1> HIDE DEF f
<1>3. /\ IsFiniteSet(Topology!Superseded) /\ Cardinality(Topology!Superseded) \in Nat
      /\ Cardinality(refreshes) \in Nat /\ Cardinality(Topology!Superseded) <= Cardinality(refreshes)
  BY <1>1, ImageBound DEF ScansKept
<1>4. Cardinality(Topology!Superseded) <= MaxOverlap
  BY <1>3, PanelsAssumption DEF ScansKept
<1> QED
  BY <1>1, <1>2, <1>3, <1>4 DEF ScansKept

\* What refresh does, whether or not the graph is shown.
LEMMA ScansRefreshed ==
  ASSUME ScansKept, Topology!Refresh, shown' \in BOOLEAN
  PROVE  ScansKept'
<1>1. CASE shown'
  <2> DEFINE f == [r \in refreshes |-> [r EXCEPT !.inForce = FALSE]]  new == Topology!Fresh
  <2>1. Cardinality(refreshes) < MaxOverlap /\ refreshes' = Topology!Superseded \cup {new}
    BY <1>1, TopologyCardinality DEF Topology!Refresh
  <2>2. f \in Surjection(refreshes, Topology!Superseded)
    BY DEF Surjection, Topology!Superseded
  <2>3. IsFiniteSet(refreshes) /\ MaxOverlap \in Nat
    BY PanelsAssumption DEF ScansKept
  <2>4. new \in ScanCall /\ new.inForce = TRUE /\ new.answer = None
    <3>1. None \in (SUBSET Topology!Ids) \cup {None} /\ None \in Topology!Ids \cup {None} /\ None \in SnapshotAnswer \cup {None}
      BY Zenon
    <3>2. 0 \in 0..2
      OBVIOUS
    <3> QED
      BY <3>1, <3>2 DEF Topology!Fresh, ScanCall
  <2> HIDE DEF f, new
  <2>5. IsFiniteSet(refreshes') /\ Cardinality(refreshes') <= MaxOverlap
    <3>1. IsFiniteSet(Topology!Superseded \cup {new}) /\ Cardinality(Topology!Superseded \cup {new}) <= MaxOverlap
      BY <2>1, <2>2, <2>3, JoinBound
    <3> QED
      BY <2>1, <3>1
  <2> QED
    BY <1>1, <2>1, <2>4, <2>5, ScansSuperseded DEF ScansKept
<1>2. CASE ~shown'
  <2>1. refreshes' = Topology!Superseded
    BY <1>2 DEF Topology!Refresh
  <2> QED
    BY <2>1, ScansSuperseded DEF ScansKept
<1> QED
  BY <1>1, <1>2

\* One refresh ends.
LEMMA ScanEnds ==
  ASSUME ScansKept, NEW r \in refreshes, refreshes' = refreshes \ {r}, shown' = shown
  PROVE  ScansKept'
<1>1. IsFiniteSet(refreshes') /\ Cardinality(refreshes') <= Cardinality(refreshes)
      /\ Cardinality(refreshes) \in Nat /\ Cardinality(refreshes') \in Nat
  BY DropBound, FS_CardinalityType DEF ScansKept
<1> QED
  BY <1>1, PanelsAssumption DEF ScansKept

\* One refresh goes on.
LEMMA ScanGoesOn ==
  ASSUME ScansKept, NEW r \in refreshes, NEW q \in ScanCall, refreshes' = (refreshes \ {r}) \cup {q}, shown' = shown,
         q.inForce = r.inForce, q.answer # None => OwnNames(q.answer)
  PROVE  ScansKept'
<1>1. IsFiniteSet(refreshes') /\ Cardinality(refreshes') <= Cardinality(refreshes)
      /\ Cardinality(refreshes) \in Nat /\ Cardinality(refreshes') \in Nat
  BY SwapBound, FS_CardinalityType DEF ScansKept
<1>2. \A x \in refreshes : x.inForce \in BOOLEAN
  BY ScanFields DEF ScansKept
<1> QED
  BY <1>1, <1>2, PanelsAssumption DEF ScansKept

\* A step of the daemon, or of a refresh that is not in force.
LEMMA TopologySame ==
  ASSUME TopologyInv, ScansKept',
         UNCHANGED <<project, worktree, shown, repo, snapshot, workspace, privacyMode, repos, unregistered, registering>>,
         mode' \in 1..2, registered' \subseteq Topology!Projects, live' \in BOOLEAN, pendingRefresh' \in BOOLEAN
  PROVE  TopologyInv'
<1>1. TopologyTyped'
  BY DEF TopologyInv, TopologyTyped
<1>2. TopologyShows' /\ RegistrationKept'
  BY DEF TopologyInv, TopologyShows, RegistrationKept, OwnNames
<1> QED
  BY <1>1, <1>2 DEF TopologyInv

LEMMA TopologyConfig ==
  ASSUME TopologyInv, Topology!ConfigLands
  PROVE  TopologyInv'
<1> USE DEF TopologyInv
<1>1. UNCHANGED <<mode, registered, live, project, worktree, shown, registering>>
  BY DEF Topology!ConfigLands, Topology!daemonVars, Topology!scopeVars
<1>2. PICK r \in refreshes :
        /\ r.stage = "asks" /\ r.mode # 0 /\ r.repos # None
        /\ IF ~r.inForce
           THEN refreshes' = refreshes \ {r} /\ UNCHANGED <<pendingRefresh, repo, snapshot, workspace, privacyMode, repos, unregistered>>
           ELSE \E one \in r.repos \cup (IF r.repos = {} THEN {None} ELSE {}) :
                  LET target == IF project # None THEN project ELSE one
                      unknown == project # None /\ project \notin r.repos
                      differs == privacyMode # 0 /\ privacyMode # r.mode
                  IN /\ privacyMode' = r.mode /\ repos' = r.repos /\ unregistered' = unknown
                     /\ repo' = IF unknown THEN None ELSE target
                     /\ IF differs \/ unknown \/ repo # target THEN snapshot' = None /\ workspace' = None
                        ELSE UNCHANGED <<snapshot, workspace>>
                     /\ IF repo' = None
                        THEN pendingRefresh' = FALSE /\ refreshes' = refreshes \ {r}
                        ELSE /\ UNCHANGED pendingRefresh
                             /\ refreshes' = (refreshes \ {r}) \cup
                                  {[r EXCEPT !.stage = "scans", !.repo = repo', !.changed = differs]}
  BY DEF Topology!ConfigLands, Topology!InForce, Topology!viewVars, Topology!listVars
<1>3. r \in ScanCall
  BY DEF ScansKept
<1>4. r.mode \in 0..2 /\ r.repos \subseteq Topology!Ids /\ r.inForce \in BOOLEAN
  BY <1>2, <1>3, ScanFields
<1>5. CASE ~r.inForce
  <2>1. refreshes' = refreshes \ {r} /\ UNCHANGED <<pendingRefresh, repo, snapshot, workspace, privacyMode, repos, unregistered>>
    BY <1>2, <1>5
  <2>2. ScansKept'
    BY <1>1, <2>1, ScanEnds
  <2> QED
    BY <1>1, <2>1, <2>2, TopologySame DEF TopologyTyped
<1>6. CASE r.inForce
  <2>1. PICK one \in r.repos \cup (IF r.repos = {} THEN {None} ELSE {}) :
                  LET target == IF project # None THEN project ELSE one
                      unknown == project # None /\ project \notin r.repos
                      differs == privacyMode # 0 /\ privacyMode # r.mode
                  IN /\ privacyMode' = r.mode /\ repos' = r.repos /\ unregistered' = unknown
                     /\ repo' = IF unknown THEN None ELSE target
                     /\ IF differs \/ unknown \/ repo # target THEN snapshot' = None /\ workspace' = None
                        ELSE UNCHANGED <<snapshot, workspace>>
                     /\ IF repo' = None
                        THEN pendingRefresh' = FALSE /\ refreshes' = refreshes \ {r}
                        ELSE /\ UNCHANGED pendingRefresh
                             /\ refreshes' = (refreshes \ {r}) \cup
                                  {[r EXCEPT !.stage = "scans", !.repo = repo', !.changed = differs]}
    BY <1>2, <1>6
  <2> DEFINE target == IF project # None THEN project ELSE one
             unknown == project # None /\ project \notin r.repos
             differs == privacyMode # 0 /\ privacyMode # r.mode
  <2>2. /\ privacyMode' = r.mode /\ repos' = r.repos /\ unregistered' = unknown
        /\ repo' = IF unknown THEN None ELSE target
        /\ IF differs \/ unknown \/ repo # target THEN snapshot' = None /\ workspace' = None
           ELSE UNCHANGED <<snapshot, workspace>>
    BY <2>1
  <2>3. IF repo' = None THEN pendingRefresh' = FALSE /\ refreshes' = refreshes \ {r}
        ELSE pendingRefresh' = pendingRefresh /\ refreshes' = (refreshes \ {r}) \cup {[r EXCEPT !.stage = "scans", !.repo = repo', !.changed = differs]}
    BY <2>1
  <2>4. target \in Topology!Ids \cup {None} /\ one \in Topology!Ids \cup {None}
    BY <1>4 DEF TopologyTyped
  <2>5. unknown \in BOOLEAN /\ differs \in BOOLEAN /\ (project # None => target = project)
    OBVIOUS
  <2> HIDE DEF differs
  <2>6. repo' \in Topology!Ids \cup {None} /\ (repo' # None => project \in {None, repo'})
        /\ ((snapshot' = None /\ workspace' = None) \/ (repo' = repo /\ UNCHANGED <<snapshot, workspace>>))
    BY <2>2, <2>4
  <2> HIDE DEF unknown, target
  <2>7. pendingRefresh' \in BOOLEAN
    BY <2>3 DEF TopologyTyped
  <2>8. ScansKept'
    <3>1. CASE repo' = None
      BY <1>1, <2>3, <3>1, ScanEnds
    <3>2. CASE repo' # None
      <4> DEFINE q == [r EXCEPT !.stage = "scans", !.repo = repo', !.changed = differs]
      <4>1. q \in ScanCall /\ q.inForce = r.inForce /\ q.answer = r.answer
        BY <1>3, <2>5, <2>6 DEF ScanCall
      <4>2. refreshes' = (refreshes \ {r}) \cup {q}
        BY <2>3, <3>2
      <4> HIDE DEF q
      <4>3. q.answer # None => OwnNames(q.answer)
        BY <4>1 DEF ScansKept
      <4> QED
        BY <1>1, <4>1, <4>2, <4>3, ScanGoesOn
    <3> QED
      BY <3>1, <3>2
  <2>9. TopologyTyped'
    BY <1>1, <1>4, <2>2, <2>5, <2>6, <2>7 DEF TopologyTyped
  <2>10. TopologyShows' /\ RegistrationKept'
    BY <1>1, <2>6 DEF TopologyShows, RegistrationKept, OwnNames
  <2> QED
    BY <2>8, <2>9, <2>10
<1> QED
  BY <1>4, <1>5, <1>6

LEMMA TopologySnapshot ==
  ASSUME TopologyInv, Topology!SnapshotLands
  PROVE  TopologyInv'
<1> USE DEF TopologyInv
<1>1. UNCHANGED <<mode, registered, live, shown, repo, privacyMode, repos, unregistered, registering>>
  BY DEF Topology!SnapshotLands, Topology!daemonVars, Topology!listVars
<1>2. PICK r \in refreshes :
        /\ r.answer # None /\ refreshes' = refreshes \ {r}
        /\ IF ~r.inForce \/ r.answer.repo # repo THEN UNCHANGED <<project, worktree, pendingRefresh, snapshot, workspace>>
           ELSE /\ snapshot' = r.answer /\ pendingRefresh' = FALSE
                /\ worktree' = IF Topology!Forgets(r.answer) THEN None ELSE worktree
                /\ workspace' = IF Topology!Forgets(r.answer) /\ workspace = worktree THEN None
                                ELSE IF worktree' \in r.answer.workspaces /\ project \in {None, repo} THEN worktree'
                                ELSE workspace
                /\ UNCHANGED project
  BY DEF Topology!SnapshotLands, Topology!InForce, Topology!Own, Topology!scopeVars
<1>3. ScansKept'
  BY <1>1, <1>2, ScanEnds
<1>4. CASE ~r.inForce \/ r.answer.repo # repo
  <2>1. UNCHANGED <<project, worktree, pendingRefresh, snapshot, workspace>>
    BY <1>2, <1>4
  <2> QED
    BY <1>1, <1>3, <2>1, TopologySame DEF TopologyTyped
<1>5. CASE r.inForce /\ r.answer.repo = repo
  <2> DEFINE a == r.answer
  <2>1. a \in SnapshotAnswer /\ a # None /\ OwnNames(a) /\ shown /\ a.repo = repo
    BY <1>2, <1>5, ScanFields DEF ScansKept
  <2>2. a.repo \in Topology!Ids /\ a.workspaces \subseteq Topology!Ids
    BY <2>1, AnswerFields
  <2>3. /\ snapshot' = a /\ pendingRefresh' = FALSE /\ project' = project
        /\ worktree' = IF Topology!Forgets(a) THEN None ELSE worktree
        /\ workspace' = IF Topology!Forgets(a) /\ workspace = worktree THEN None
                        ELSE IF worktree' \in a.workspaces /\ project \in {None, repo} THEN worktree'
                        ELSE workspace
    BY <1>2, <1>5
  <2> HIDE DEF a
  <2>4. repo \in Topology!Ids /\ repo # None /\ project \in {None, repo} /\ None \notin a.workspaces
    BY <2>1, <2>2, IdsAre DEF TopologyShows
  <2>5. Topology!Forgets(a) <=> worktree # None /\ worktree \notin a.workspaces /\ ~(Known /\ worktree[1] = "gone")
    BY <2>4 DEF Topology!Forgets
  <2>6. TopologyTyped'
    BY <1>1, <2>1, <2>2, <2>3 DEF TopologyTyped
  <2>7. workspace # None => workspace = <<"w", repo[2]>>
    BY DEF TopologyShows
  <2>8. Known /\ workspace # None => worktree # None /\ (worktree # workspace => worktree[1] = "gone")
    <3> SUFFICES ASSUME Known, workspace # None PROVE worktree # None /\ (worktree # workspace => worktree[1] = "gone")
      OBVIOUS
    <3>1. workspace = <<"w", repo[2]>> /\ worktree # None
      BY DEF TopologyShows
    <3>2. worktree \in Topology!Ids /\ worktree[1] \in {"w", "gone"} /\ worktree[2] = repo[2]
      BY <2>4, <3>1 DEF TopologyShows, TopologyTyped
    <3>3. worktree = <<worktree[1], worktree[2]>>
      BY <3>2, IdsAre
    <3> QED
      BY <3>1, <3>2, <3>3
  <2>9. \A x \in a.workspaces : x = <<"w", repo[2]>>
    BY <2>1 DEF OwnNames
  <2>10. workspace' # None => workspace' = <<"w", repo[2]>>
    BY <2>3, <2>9, <2>7
  <2>11. Known /\ workspace' # None => worktree' = workspace' \/ worktree' \notin a.workspaces \cup {None}
    <3>2. CASE Topology!Forgets(a)
      BY <2>3, <2>4, <2>5, <2>8, <3>2
    <3>3. CASE ~Topology!Forgets(a)
      BY <2>3, <2>4, <2>5, <2>8, <2>9, <2>7, <3>3
    <3> QED
      BY <3>2, <3>3
  <2>12. TopologyShows'
    BY <1>1, <2>1, <2>3, <2>4, <2>11, <2>10 DEF TopologyShows, OwnNames
  <2>13. RegistrationKept'
    BY <1>1, <2>3 DEF RegistrationKept
  <2> QED
    BY <1>3, <2>6, <2>12, <2>13
<1> QED
  BY <1>4, <1>5, ScanFields DEF ScansKept

LEMMA TopologyServe ==
  ASSUME TopologyInv, Topology!Serve
  PROVE  TopologyInv'
<1> USE DEF TopologyInv
<1>1. UNCHANGED <<mode, registered, live, project, worktree, shown, pendingRefresh, repo, snapshot, workspace, privacyMode, repos,
                  unregistered, registering>>
  BY DEF Topology!Serve, Topology!daemonVars, Topology!scopeVars, Topology!viewVars, Topology!listVars
<1>2. PICK r \in refreshes :
        \/ refreshes' = (refreshes \ {r}) \cup {[r EXCEPT !.mode = mode]}
        \/ refreshes' = (refreshes \ {r}) \cup {[r EXCEPT !.repos = Topology!RegisteredIds]}
        \/ /\ r.repo \in Topology!RegisteredIds
           /\ refreshes' = (refreshes \ {r}) \cup {[r EXCEPT !.answer = [repo |-> r.repo, workspaces |-> Topology!Workspaces(r.repo[1])]]}
  <2>1. PICK r \in refreshes :
       \E to \in CASE r.stage = "asks" ->
                        (IF r.mode = 0 THEN {[r EXCEPT !.mode = mode]} ELSE {}) \cup
                        (IF r.repos = None THEN {[r EXCEPT !.repos = Topology!RegisteredIds]} ELSE {})
                   [] r.stage = "scans" /\ r.answer = None /\ r.repo \in Topology!RegisteredIds ->
                        {[r EXCEPT !.answer = [repo |-> r.repo, workspaces |-> Topology!Workspaces(r.repo[1])]]}
                   [] OTHER -> {} :
         refreshes' = (refreshes \ {r}) \cup {to}
    BY DEF Topology!Serve
  <2>2. CASE r.stage = "asks"
    BY <2>1, <2>2
  <2>3. CASE r.stage # "asks" /\ r.stage = "scans" /\ r.answer = None /\ r.repo \in Topology!RegisteredIds
    BY <2>1, <2>3
  <2>4. CASE r.stage # "asks" /\ ~(r.stage = "scans" /\ r.answer = None /\ r.repo \in Topology!RegisteredIds)
    BY <2>1, <2>4
  <2> QED
    BY <2>2, <2>3, <2>4
<1>3. r \in ScanCall
  BY DEF ScansKept
<1>4. mode \in 0..2
  BY DEF TopologyTyped
<1>5. CASE refreshes' = (refreshes \ {r}) \cup {[r EXCEPT !.mode = mode]}
  <2> DEFINE q == [r EXCEPT !.mode = mode]
  <2>1. q \in ScanCall /\ q.inForce = r.inForce /\ q.answer = r.answer
    BY <1>3, <1>4 DEF ScanCall
  <2>2. refreshes' = (refreshes \ {r}) \cup {q}
    BY <1>5
  <2> HIDE DEF q
  <2>3. ScansKept'
    BY <1>1, <2>1, <2>2, ScanGoesOn DEF ScansKept
  <2> QED
    BY <1>1, <2>3, TopologySame DEF TopologyTyped
<1>6. CASE refreshes' = (refreshes \ {r}) \cup {[r EXCEPT !.repos = Topology!RegisteredIds]}
  <2> DEFINE q == [r EXCEPT !.repos = Topology!RegisteredIds]
  <2>1. q \in ScanCall /\ q.inForce = r.inForce /\ q.answer = r.answer
    BY <1>3, NamesAre DEF ScanCall
  <2>2. refreshes' = (refreshes \ {r}) \cup {q}
    BY <1>6
  <2> HIDE DEF q
  <2>3. ScansKept'
    BY <1>1, <2>1, <2>2, ScanGoesOn DEF ScansKept
  <2> QED
    BY <1>1, <2>3, TopologySame DEF TopologyTyped
<1>7. CASE /\ r.repo \in Topology!RegisteredIds
           /\ refreshes' = (refreshes \ {r}) \cup {[r EXCEPT !.answer = [repo |-> r.repo, workspaces |-> Topology!Workspaces(r.repo[1])]]}
  <2> DEFINE a == [repo |-> r.repo, workspaces |-> Topology!Workspaces(r.repo[1])]
             q == [r EXCEPT !.answer = a]
  <2>1. a \in SnapshotAnswer /\ OwnNames(a)
    <3>1. r.repo \in Topology!Ids /\ r.repo[2] = mode
      BY <1>7, NamesAre
    <3>2. Topology!Workspaces(r.repo[1]) \subseteq {<<"w", mode>>} /\ <<"w", mode>> \in Topology!Ids
      BY NamesAre
    <3> QED
      BY <3>1, <3>2 DEF SnapshotAnswer, OwnNames
  <2>2. refreshes' = (refreshes \ {r}) \cup {q}
    BY <1>7
  <2> HIDE DEF a
  <2>3. q \in ScanCall /\ q.inForce = r.inForce /\ q.answer = a
    BY <1>3, <2>1 DEF ScanCall
  <2> HIDE DEF q
  <2>4. ScansKept'
    BY <1>1, <2>1, <2>2, <2>3, ScanGoesOn
  <2> QED
    BY <1>1, <2>4, TopologySame DEF TopologyTyped
<1> QED
  BY <1>2, <1>5, <1>6, <1>7

\* The scope moves to another project: what the graph shows, refreshes or registers goes.
LEMMA TopologyProjectMoves ==
  ASSUME TopologyInv, NEW p \in Topology!Ids \cup {None}, Topology!ProjectMoves(p), project' = p, UNCHANGED <<mode, registered, live, shown, privacyMode, repos>>,
         worktree' \in Topology!Ids \cup {None},
         worktree' # None => worktree'[1] \in {"w", "gone"} /\ project' # None /\ project'[2] = worktree'[2]
  PROVE  TopologyInv'
<1> USE DEF TopologyInv
<1>1. repo' = None /\ snapshot' = None /\ workspace' = None /\ unregistered' = FALSE /\ pendingRefresh' = (pendingRefresh \/ ~shown)
  BY DEF Topology!ProjectMoves, Topology!Discard
<1>2. registering' = IF registering = None THEN None ELSE [registering EXCEPT !.inForce = FALSE]
  BY DEF Topology!ProjectMoves, Topology!Navigated
<1>3. registering' \in RegistrationCall \cup {None} /\ (registering' # None => registering'.inForce = FALSE)
  BY <1>2 DEF TopologyTyped, RegistrationCall
<1>4. ScansKept'
  BY ScansRefreshed DEF TopologyTyped, Topology!ProjectMoves
<1>5. pendingRefresh' \in BOOLEAN
  BY <1>1 DEF TopologyTyped
<1>6. TopologyTyped'
  BY <1>1, <1>3, <1>5 DEF TopologyTyped
<1>7. TopologyShows'
  BY <1>1 DEF TopologyShows
<1>8. RegistrationKept'
  BY <1>3 DEF RegistrationKept
<1> QED
  BY <1>4, <1>6, <1>7, <1>8

\* It moves within the project: the graph selects the worktree if it has it.
LEMMA TopologyWorktreeMoves ==
  ASSUME TopologyInv, NEW w \in Topology!Ids \cup {None}, Topology!WorktreeMoves(w), worktree' = w,
         UNCHANGED <<mode, registered, live, shown, privacyMode, repos, project>>,
         w # None => w[1] \in {"w", "gone"} /\ project # None /\ project[2] = w[2]
  PROVE  TopologyInv'
<1> USE DEF TopologyInv
<1>1. UNCHANGED <<repo, snapshot, unregistered, registering, pendingRefresh, refreshes>>
  BY DEF Topology!WorktreeMoves
<1>2. workspace' = IF ~shown THEN workspace ELSE IF w = None THEN None
                  ELSE IF snapshot # None /\ w \in snapshot.workspaces THEN w ELSE workspace
  BY DEF Topology!WorktreeMoves
<1>3. ScansKept'
  BY <1>1 DEF ScansKept
<1>4. TopologyTyped'
  BY <1>1, <1>2 DEF TopologyTyped
<1>5. snapshot # None => snapshot.repo = repo /\ \A x \in snapshot.workspaces : x = <<"w", repo[2]>>
  BY DEF TopologyShows, OwnNames
<1>6. workspace' # None => /\ shown /\ snapshot # None /\ workspace' = <<"w", repo[2]>>
                           /\ w = workspace' \/ w \notin snapshot.workspaces \cup {None}
  BY <1>2, <1>5 DEF TopologyShows
<1>7. TopologyShows'
  BY <1>1, <1>6 DEF TopologyShows, OwnNames
<1>8. RegistrationKept'
  BY <1>1 DEF RegistrationKept
<1> QED
  BY <1>3, <1>4, <1>7, <1>8

LEMMA TopologyMoves ==
  ASSUME TopologyInv, Topology!ScopeMoves
  PROVE  TopologyInv'
<1>1. UNCHANGED <<mode, registered, live, shown, privacyMode, repos>>
  BY DEF Topology!ScopeMoves, Topology!daemonVars
<1>2. mode \in 1..2 /\ 1..mode \subseteq 1..2
  BY DEF TopologyInv, TopologyTyped
<1>3. PICK m \in 1..mode : \E p \in {<<n, m>> : n \in Topology!Projects} \cup {None} :
         \E w \in (IF p # None /\ p[1] = "p" THEN {<<"w", m>>, <<"gone", m>>} ELSE {}) \cup {None} :
         /\ project' = p /\ worktree' = w
         /\ IF p # project THEN Topology!ProjectMoves(p) ELSE Topology!WorktreeMoves(w)
  BY DEF Topology!ScopeMoves
<1>4. PICK p \in {<<n, m>> : n \in Topology!Projects} \cup {None} :
         \E w \in (IF p # None /\ p[1] = "p" THEN {<<"w", m>>, <<"gone", m>>} ELSE {}) \cup {None} :
         /\ project' = p /\ worktree' = w
         /\ IF p # project THEN Topology!ProjectMoves(p) ELSE Topology!WorktreeMoves(w)
  BY <1>3
<1>5. PICK w \in (IF p # None /\ p[1] = "p" THEN {<<"w", m>>, <<"gone", m>>} ELSE {}) \cup {None} :
         /\ project' = p /\ worktree' = w
         /\ IF p # project THEN Topology!ProjectMoves(p) ELSE Topology!WorktreeMoves(w)
  BY <1>4
<1>6. m \in 1..2
  BY <1>2
<1>7. p \in Topology!Ids \cup {None} /\ (p # None => p[2] = m)
  <2>1. CASE p = None
    BY <2>1
  <2>2. CASE p # None
    <3>1. PICK n \in Topology!Projects : p = <<n, m>>
      BY <2>2
    <3>2. <<n, m>> \in Topology!Ids
      BY <1>6, IdsAre
    <3> QED
      BY <3>1, <3>2
  <2> QED
    BY <2>1, <2>2
<1>8. w \in Topology!Ids \cup {None} /\ (w # None => w[1] \in {"w", "gone"} /\ w[2] = m /\ p # None)
  <2>1. <<"w", m>> \in Topology!Ids /\ <<"gone", m>> \in Topology!Ids
    BY <1>6, IdsAre
  <2>2. CASE p # None /\ p[1] = "p"
    BY <2>1, <2>2
  <2>3. CASE ~(p # None /\ p[1] = "p")
    BY <2>3
  <2> QED
    BY <2>2, <2>3
<1>9. CASE p # project
  BY <1>1, <1>5, <1>7, <1>8, <1>9, TopologyProjectMoves
<1>10. CASE p = project
  BY <1>1, <1>5, <1>7, <1>8, <1>10, TopologyWorktreeMoves
<1> QED
  BY <1>9, <1>10

LEMMA TopologySelect ==
  ASSUME TopologyInv, Topology!Select
  PROVE  TopologyInv'
<1> USE DEF TopologyInv
<1>1. UNCHANGED <<mode, registered, live, shown, pendingRefresh, repo, snapshot, privacyMode, repos, unregistered, refreshes>>
      /\ shown /\ snapshot # None
  BY DEF Topology!Select, Topology!daemonVars, Topology!listVars
<1>2. PICK w \in snapshot.workspaces \cup {None} : workspace' = w /\ project' = repo /\ worktree' = w
  BY DEF Topology!Select
<1>3. registering' = IF registering = None THEN None ELSE [registering EXCEPT !.from = repo]
  BY DEF Topology!Select
<1>4. snapshot \in SnapshotAnswer /\ snapshot.repo = repo /\ repo \in Topology!Ids
      /\ \A x \in snapshot.workspaces : x = <<"w", repo[2]>> /\ x \in Topology!Ids
  BY <1>1, AnswerFields DEF TopologyTyped, TopologyShows, OwnNames
<1>5. repo # None
  BY <1>4, IdsAre
<1>6. ScansKept'
  BY <1>1 DEF ScansKept
<1>7. registering' \in RegistrationCall \cup {None} /\ (registering' # None => registering'.from = repo)
  BY <1>3, <1>4 DEF TopologyTyped, RegistrationCall
<1>8. TopologyTyped'
  BY <1>1, <1>2, <1>4, <1>7 DEF TopologyTyped
<1>9. w # None => w = <<"w", repo[2]>> /\ w[1] = "w" /\ w[2] = repo[2]
  BY <1>4
<1>10. TopologyShows'
  BY <1>1, <1>2, <1>5, <1>9 DEF TopologyShows, OwnNames
<1>11. RegistrationKept'
  BY <1>2, <1>7 DEF RegistrationKept
<1> QED
  BY <1>6, <1>8, <1>10, <1>11

LEMMA TopologyRegisters ==
  ASSUME TopologyInv, Topology!Register \/ Topology!RegisterServed
  PROVE  TopologyInv'
<1> USE DEF TopologyInv
<1>1. UNCHANGED <<mode, live, project, worktree, shown, pendingRefresh, repo, snapshot, workspace, privacyMode, repos, unregistered, refreshes>>
  BY DEF Topology!Register, Topology!RegisterServed, Topology!daemonVars, Topology!scopeVars, Topology!viewVars, Topology!listVars
<1>2. registered' \subseteq Topology!Projects /\ registering' \in RegistrationCall /\ (registering'.inForce => registering'.from = project)
  <2>1. CASE Topology!Register
    <3>1. PICK n \in Topology!Projects :
            registering' = [inForce |-> TRUE, name |-> n, id |-> None, repos |-> None, asked |-> FALSE, from |-> project]
      BY <2>1 DEF Topology!Register
    <3>2. None \in (SUBSET Topology!Ids) \cup {None} /\ None \in Topology!Ids \cup {None} /\ project \in Topology!Ids \cup {None}
      BY DEF TopologyTyped
    <3>3. registered' = registered
      BY <2>1 DEF Topology!Register, Topology!daemonVars
    <3> QED
      BY <3>1, <3>2, <3>3 DEF RegistrationCall, TopologyTyped
  <2>2. CASE Topology!RegisterServed
    <3>1. registering \in RegistrationCall /\ registering # None
      BY <2>2 DEF Topology!RegisterServed, TopologyTyped
    <3>2. registering.name \in Topology!Projects /\ <<registering.name, mode>> \in Topology!Ids
      BY <3>1, RegistrationFields, IdsAre DEF TopologyTyped
    <3>3. \/ registered' = registered \cup {registering.name} /\ registering' = [registering EXCEPT !.id = <<registering.name, mode>>]
          \/ registered' = registered /\ registering' = [registering EXCEPT !.repos = Topology!RegisteredIds]
      BY <2>2 DEF Topology!RegisterServed, Topology!Id
    <3>4. registering' \in RegistrationCall /\ registering'.inForce = registering.inForce /\ registering'.from = registering.from
      <4>1. CASE registering' = [registering EXCEPT !.id = <<registering.name, mode>>]
        BY <3>1, <3>2, <4>1 DEF RegistrationCall
      <4>2. CASE registering' = [registering EXCEPT !.repos = Topology!RegisteredIds]
        BY <3>1, <4>2, NamesAre DEF RegistrationCall
      <4> QED
        BY <3>3, <4>1, <4>2
    <3>5. registered' \subseteq Topology!Projects
      BY <3>2, <3>3 DEF TopologyTyped
    <3> QED
      BY <3>1, <3>4, <3>5 DEF RegistrationKept
  <2> QED
    BY <2>1, <2>2
<1>3. ScansKept'
  BY <1>1 DEF ScansKept
<1>4. TopologyTyped'
  BY <1>1, <1>2 DEF TopologyTyped
<1>5. TopologyShows'
  BY <1>1 DEF TopologyShows, OwnNames
<1>6. RegistrationKept'
  BY <1>1, <1>2 DEF RegistrationKept
<1> QED
  BY <1>3, <1>4, <1>5, <1>6

LEMMA TopologyRegistered ==
  ASSUME TopologyInv, Topology!RegisterLands
  PROVE  TopologyInv'
<1> USE DEF TopologyInv
<1>1. UNCHANGED <<mode, registered, live, privacyMode, unregistered>> /\ registering # None
  BY DEF Topology!RegisterLands, Topology!daemonVars
<1>2. registering \in RegistrationCall
  BY <1>1 DEF TopologyTyped
<1>3. CASE /\ registering' \in {None, [registering EXCEPT !.asked = TRUE]}
           /\ UNCHANGED <<project, worktree, shown, pendingRefresh, repo, snapshot, workspace, repos, refreshes>>
  <2>1. registering' \in RegistrationCall \cup {None}
        /\ (registering' # None => registering'.inForce = registering.inForce /\ registering'.from = registering.from)
    BY <1>2, <1>3 DEF RegistrationCall
  <2>2. ScansKept'
    BY <1>3 DEF ScansKept
  <2>3. TopologyTyped'
    BY <1>1, <1>3, <2>1 DEF TopologyTyped
  <2>4. TopologyShows'
    BY <1>3 DEF TopologyShows, OwnNames
  <2>5. RegistrationKept'
    BY <1>1, <1>3, <2>1 DEF RegistrationKept
  <2> QED
    BY <2>2, <2>3, <2>4, <2>5
<1>4. CASE /\ registering.repos # None /\ registering' = None
           /\ Topology!Discard(registering.id) /\ repos' = registering.repos
           /\ project' = registering.id /\ worktree' = None
           /\ \/ UNCHANGED <<shown, pendingRefresh>>
              \/ shown' = FALSE /\ pendingRefresh' = TRUE
           /\ Topology!Refresh
  <2>1. shown' \in BOOLEAN /\ pendingRefresh' \in BOOLEAN
    BY <1>4 DEF TopologyTyped
  <2>2. ScansKept'
    BY <1>4, <2>1, ScansRefreshed
  <2>3. registering.id \in Topology!Ids \cup {None} /\ registering.repos \subseteq Topology!Ids
    BY <1>2, <1>4, RegistrationFields
  <2>4. repo' = registering.id /\ snapshot' = None /\ workspace' = None
    BY <1>4 DEF Topology!Discard
  <2>5. TopologyTyped'
    BY <1>1, <1>4, <2>1, <2>3, <2>4 DEF TopologyTyped
  <2>6. TopologyShows' /\ RegistrationKept'
    BY <1>4, <2>4 DEF TopologyShows, RegistrationKept
  <2> QED
    BY <2>2, <2>5, <2>6
<1>5. CASE Topology!Stale
  BY <1>3, <1>5 DEF Topology!RegisterLands, Topology!scopeVars, Topology!viewVars
<1>6. CASE ~Topology!Stale
  BY <1>3, <1>4, <1>6 DEF Topology!RegisterLands, Topology!scopeVars, Topology!viewVars
<1> QED
  BY <1>5, <1>6

LEMMA TopologyStep ==
  ASSUME TopologyInv, [Topology!Next]_(Topology!vars)
  PROVE  TopologyInv'
<1> USE DEF TopologyInv
<1>0. shown \in BOOLEAN /\ pendingRefresh \in BOOLEAN /\ mode \in 1..2
  BY DEF TopologyTyped
<1>1. CASE UNCHANGED Topology!vars
  BY <1>1 DEF Topology!vars, TopologyTyped, ScansKept, TopologyShows, OwnNames, RegistrationKept
<1>2. CASE Topology!DaemonChanges
  <2>1. UNCHANGED <<project, worktree, shown, pendingRefresh, repo, snapshot, workspace, privacyMode, repos, unregistered, registering, refreshes>>
    BY <1>2 DEF Topology!DaemonChanges, Topology!scopeVars, Topology!viewVars, Topology!listVars
  <2>2. mode' \in 1..2 /\ registered' \subseteq Topology!Projects /\ live' \in BOOLEAN
    <3>1. live \in BOOLEAN /\ registered \subseteq Topology!Projects
      BY DEF TopologyTyped
    <3>2. \/ mode' = 2 /\ UNCHANGED <<registered, live>>
          \/ live' = ~live /\ UNCHANGED <<registered, mode>>
          \/ registered' \subseteq registered /\ UNCHANGED <<mode, live>>
      BY <1>2 DEF Topology!DaemonChanges
    <3>3. live' \in BOOLEAN
      BY <3>1, <3>2, Zenon
    <3> QED
      BY <1>0, <3>1, <3>2, <3>3
  <2>3. ScansKept'
    BY <2>1 DEF ScansKept
  <2> QED
    BY <1>0, <2>1, <2>2, <2>3, TopologySame
<1>3. CASE Topology!Fails
  <2>1. UNCHANGED <<mode, registered, live, project, worktree, shown, pendingRefresh, repo, snapshot, workspace, privacyMode, repos, unregistered, registering>>
    BY <1>3 DEF Topology!Fails, Topology!daemonVars, Topology!scopeVars, Topology!viewVars, Topology!listVars
  <2>2. PICK r \in refreshes : refreshes' = refreshes \ {r}
    BY <1>3 DEF Topology!Fails, Topology!Ended
  <2>3. ScansKept'
    BY <2>1, <2>2, ScanEnds
  <2> QED
    BY <2>1, <2>3, TopologySame DEF TopologyTyped
<1>4. CASE Topology!Poll
  <2>1. UNCHANGED <<mode, registered, live, project, worktree, shown, pendingRefresh, repo, snapshot, workspace, privacyMode, repos, unregistered, registering>>
    BY <1>4 DEF Topology!Poll, Topology!daemonVars, Topology!scopeVars, Topology!viewVars, Topology!listVars
  <2>2. ScansKept'
    BY <1>0, <1>4, <2>1, ScansRefreshed DEF Topology!Poll
  <2> QED
    BY <2>1, <2>2, TopologySame DEF TopologyTyped
<1>5. CASE Topology!Show
  <2>1. UNCHANGED <<mode, registered, live, project, worktree, pendingRefresh, repo, snapshot, workspace, privacyMode, repos, unregistered, registering>>
        /\ ~shown /\ shown' = TRUE
    BY <1>5 DEF Topology!Show, Topology!daemonVars, Topology!scopeVars, Topology!viewVars, Topology!listVars
  <2>2. ScansKept'
    BY <1>5, <2>1, ScansRefreshed DEF Topology!Show
  <2>3. TopologyTyped'
    BY <2>1 DEF TopologyTyped
  <2>4. TopologyShows' /\ RegistrationKept'
    BY <2>1 DEF TopologyShows, RegistrationKept, OwnNames
  <2> QED
    BY <2>2, <2>3, <2>4
<1>6. CASE Topology!Hide
  <2>1. UNCHANGED <<mode, registered, live, project, worktree, repo, snapshot, privacyMode, repos, unregistered>>
        /\ shown' = FALSE /\ workspace' = None /\ refreshes' = Topology!Superseded /\ pendingRefresh' \in BOOLEAN
    BY <1>0, <1>6 DEF Topology!Hide, Topology!daemonVars, Topology!scopeVars, Topology!listVars, Topology!Busy
  <2>2. registering' = IF registering = None THEN None ELSE [registering EXCEPT !.inForce = FALSE]
    BY <1>6 DEF Topology!Hide, Topology!Navigated
  <2>3. registering' \in RegistrationCall \cup {None} /\ (registering' # None => registering'.inForce = FALSE)
    BY <2>2 DEF TopologyTyped, RegistrationCall
  <2>4. ScansKept'
    BY <2>1, ScansSuperseded DEF ScansKept
  <2>5. TopologyTyped'
    BY <2>1, <2>3 DEF TopologyTyped
  <2>6. TopologyShows' /\ RegistrationKept'
    BY <2>1, <2>3 DEF TopologyShows, RegistrationKept, OwnNames
  <2> QED
    BY <2>4, <2>5, <2>6
<1> QED
  BY <1>1, <1>2, <1>3, <1>4, <1>5, <1>6, TopologyServe, TopologyConfig, TopologySnapshot, TopologyMoves, TopologySelect,
     TopologyRegisters, TopologyRegistered DEF Topology!Next

LEMMA TopologyMeans ==
  ASSUME TopologyInv
  PROVE  Topology!TypeOK /\ Topology!SnapshotOfScope /\ (Known => Topology!SelectionOfScope)
<1> USE DEF TopologyInv
<1>1. Cardinality({r \in refreshes : r.inForce}) <= 1
  BY AtMostOne DEF ScansKept
<1>2. snapshot = None \/ (snapshot.repo \in Topology!Ids /\ snapshot.workspaces \subseteq Topology!Ids)
  BY AnswerFields DEF TopologyTyped
<1>3. Topology!TypeOK
  BY <1>1, <1>2, TopologyCardinality DEF TopologyTyped, ScansKept, Topology!TypeOK
<1>4. snapshot # None => snapshot.repo \in Topology!Ids
  BY AnswerFields DEF TopologyTyped
<1>5. Topology!SnapshotOfScope
  BY <1>4, IdsAre DEF TopologyShows, Topology!SnapshotOfScope
<1>6. Known => Topology!SelectionOfScope
  BY DEF TopologyShows, Topology!SelectionOfScope
<1> QED
  BY <1>3, <1>5, <1>6

\* A registration that takes the graph over is in force.
LEMMA TopologyActs ==
  ASSUME TopologyInv, [Topology!Next]_(Topology!vars)
  PROVE  Topology!RegistrationYields
<1> SUFFICES ASSUME registering # None, registering' = None, project' # project PROVE project = registering.from
  BY DEF Topology!RegistrationYields
<1>1. registering \in RegistrationCall
  BY DEF TopologyInv, TopologyTyped
<1>2. [registering EXCEPT !.inForce = FALSE] # None /\ [registering EXCEPT !.from = repo] # None
  <2>1. repo \in Topology!Ids \cup {None}
    BY DEF TopologyInv, TopologyTyped
  <2>2. [registering EXCEPT !.inForce = FALSE] \in RegistrationCall /\ [registering EXCEPT !.from = repo] \in RegistrationCall
    BY <1>1, <2>1 DEF RegistrationCall
  <2>3. None \notin RegistrationCall
    BY PanelsAssumption DEF RegistrationCall
  <2> QED
    BY <2>2, <2>3
<1>3. ~Topology!ScopeMoves /\ ~Topology!Select
  <2>1. Topology!ScopeMoves => registering' = [registering EXCEPT !.inForce = FALSE]
    BY DEF Topology!ScopeMoves, Topology!ProjectMoves, Topology!Navigated
  <2>2. Topology!Select => registering' = [registering EXCEPT !.from = repo]
    BY DEF Topology!Select
  <2> QED
    BY <1>2, <2>1, <2>2
<1>4. Topology!RegisterLands
  BY <1>3 DEF Topology!Next, Topology!vars, Topology!DaemonChanges, Topology!Serve, Topology!ConfigLands, Topology!SnapshotLands,
     Topology!Fails, Topology!Poll, Topology!Show, Topology!Hide, Topology!Register, Topology!RegisterServed, Topology!scopeVars
<1>5. registering.inForce
  BY <1>4 DEF Topology!RegisterLands, Topology!Stale, Topology!scopeVars
<1> QED
  BY <1>5 DEF TopologyInv, RegistrationKept

HIDE DEF mode, refreshes, workspace, repo, registered, live, project, worktree, pendingRefresh, privacyMode, repos, snapshot,
         unregistered, registering

----------------------------------------------------------------------------
(* Events.                                                                 *)

log == x4
fed == x6
held == x7
tab == x8
scopeWorktree == x9
category == x10
cursor == x11
hasMore == x12
missed == x13
historyError == x14
crowded == x15
arriving == x16
USE DEF log, workspace, fed, held, tab, scopeWorktree, category, cursor, hasMore, missed, historyError, crowded, arriving

PageCall ==
  [inForce : BOOLEAN, kind : {"timeline", "activity"}, older : BOOLEAN, served : BOOLEAN, wt : {None, "w", "gone"},
   cat : BOOLEAN, at : Nat \cup {None}, events : SUBSET Nat, more : BOOLEAN, crowded : BOOLEAN]

EventsHeld ==
  /\ log \in Seq({"w", "gone"}) /\ fed \in 0..Len(log)
  /\ held \subseteq 1..Len(log) /\ Cardinality(held) <= Cap

EventsView ==
  /\ shown \in BOOLEAN /\ category \in BOOLEAN /\ hasMore \in BOOLEAN /\ missed \in BOOLEAN
  /\ historyError \in BOOLEAN /\ arriving \in BOOLEAN /\ crowded \in BOOLEAN
  /\ tab \in {"timeline", "graph"} /\ workspace \in {None, "w"} /\ scopeWorktree \in {None, "w", "gone"}

\* One request is in force; a page is of the log, and one that says there is more is not empty,
\* so that the cursor it leaves is an event.
EventsCalls ==
  /\ requests \subseteq PageCall
  /\ \A r, q \in requests : r.inForce /\ q.inForce => r = q
  /\ \A r \in requests : r.events \subseteq 1..Len(log) /\ (r.more => r.events # {})
  /\ cursor \in 1..Len(log) \cup {None}

EventsInv == EventsHeld /\ EventsView /\ EventsCalls

LEMMA EventsCardinality == \A S : Events!Cardinality(S) = Cardinality(S)
BY Zenon DEF Events!Cardinality, Cardinality

LEMMA PageFields ==
  ASSUME NEW r \in PageCall
  PROVE  /\ r.inForce \in BOOLEAN /\ r.kind \in {"timeline", "activity"} /\ r.older \in BOOLEAN /\ r.served \in BOOLEAN
         /\ r.wt \in {None, "w", "gone"} /\ r.cat \in BOOLEAN /\ r.at \in Nat \cup {None} /\ r.events \subseteq Nat
         /\ r.more \in BOOLEAN /\ r.crowded \in BOOLEAN
BY DEF PageCall

\* A set of numbers that is not empty and has a bound has a greatest one.
LEMMA GreatestOf ==
  ASSUME NEW N \in Nat, NEW U \in SUBSET (1..N), U # {}
  PROVE  \E x \in U : \A y \in U : y <= x
<1> DEFINE V == {N - x : x \in U}
<1>1. V \in SUBSET Nat /\ V # {}
  <2>1. \A x \in U : N - x \in Nat
    OBVIOUS
  <2> QED
    BY <2>1
<1>2. PICK v \in V : \A y \in V : v <= y
  <2> HIDE DEF V
  <2> QED
    BY <1>1, LeastOf
<1>3. PICK x \in U : v = N - x
  BY <1>2
<1>4. ASSUME NEW y \in U
      PROVE  y <= x
  <2>1. N - y \in V
    OBVIOUS
  <2>2. N - x <= N - y /\ x \in 1..N /\ y \in 1..N
    BY <1>2, <1>3, <2>1
  <2> QED
    BY <2>2
<1> QED
  BY <1>4

\* Without one of them, the elements of U are among the fewer than n that are beyond it.
LEMMA BeyondBound ==
  ASSUME NEW U, IsFiniteSet(U), NEW x \in U, NEW B, IsFiniteSet(B), U \ {x} \subseteq B,
         NEW n \in Nat, Cardinality(B) < n
  PROVE  Cardinality(U) <= n
<1> DEFINE V == U \ {x}
<1>1. Cardinality(V) = Cardinality(U) - 1 /\ Cardinality(U) \in Nat
  BY FS_RemoveElement, FS_CardinalityType
<1> HIDE DEF V
<1>2. V \in SUBSET B
  BY DEF V
<1>3. Cardinality(V) <= Cardinality(B) /\ Cardinality(B) \in Nat /\ Cardinality(V) \in Nat
  BY <1>2, FS_Subset, FS_CardinalityType
<1> QED
  BY <1>1, <1>3

\* The n newest of a set of events are at most n, and there are some if there is one event.
LEMMA NewestBound ==
  ASSUME NEW N \in Nat, NEW S \in SUBSET (1..N), NEW n \in Nat
  PROVE  /\ Events!Newest(n, S) \subseteq S /\ Cardinality(Events!Newest(n, S)) <= n
         /\ n > 0 /\ S # {} => Events!Newest(n, S) # {}
<1> DEFINE U == Events!Newest(n, S)
<1>1. U \subseteq S /\ \A p \in S : p \in U <=> Cardinality({q \in S : q > p}) < n
  BY EventsCardinality DEF Events!Newest
<1> HIDE DEF U
<1>2. IsFiniteSet(1..N)
  BY FS_Interval
<1>3. IsFiniteSet(S) /\ IsFiniteSet(U)
  BY <1>1, <1>2, FS_Subset
<1>4. Cardinality(U) <= n
  <2>1. CASE U = {}
    BY <2>1, FS_EmptySet
  <2>2. CASE U # {}
    <3>1. U \in SUBSET Nat
      BY <1>1
    <3>2. PICK x \in U : \A y \in U : x <= y
      BY <2>2, <3>1, LeastOf
    <3> DEFINE B == {q \in S : q > x}
    <3>3. U \ {x} \subseteq B
      BY <1>1, <3>1, <3>2
    <3>4. B \in SUBSET S /\ Cardinality(B) < n
      BY <1>1
    <3> HIDE DEF B
    <3>5. IsFiniteSet(B)
      BY <1>3, <3>4, FS_Subset
    <3> QED
      BY <1>3, <3>3, <3>4, <3>5, BeyondBound
  <2> QED
    BY <2>1, <2>2
<1>5. ASSUME n > 0, S # {}
      PROVE  U # {}
  <2>1. PICK x \in S : \A y \in S : y <= x
    BY <1>5, GreatestOf
  <2>2. {q \in S : q > x} = {}
    <3>1. \A q \in S : q \in Nat /\ x \in Nat /\ q <= x
      BY <2>1
    <3>2. \A q \in S : ~(q > x)
      BY <3>1
    <3> QED
      BY <3>2
  <2>3. Cardinality({q \in S : q > x}) < n
    BY <1>5, <2>2, FS_EmptySet
  <2> QED
    BY <1>1, <2>3
<1> QED
  BY <1>1, <1>4, <1>5 DEF U

\* So are the n oldest.
LEMMA OldestBound ==
  ASSUME NEW N \in Nat, NEW S \in SUBSET (1..N), NEW n \in Nat
  PROVE  Events!Oldest(n, S) \subseteq S /\ Cardinality(Events!Oldest(n, S)) <= n
<1> DEFINE U == Events!Oldest(n, S)
<1>1. U \subseteq S /\ \A p \in S : p \in U <=> Cardinality({q \in S : q < p}) < n
  BY EventsCardinality DEF Events!Oldest
<1> HIDE DEF U
<1>2. IsFiniteSet(1..N)
  BY FS_Interval
<1>3. IsFiniteSet(S) /\ IsFiniteSet(U)
  BY <1>1, <1>2, FS_Subset
<1>4. Cardinality(U) <= n
  <2>1. CASE U = {}
    BY <2>1, FS_EmptySet
  <2>2. CASE U # {}
    <3>1. U \in SUBSET (1..N)
      BY <1>1
    <3>2. PICK x \in U : \A y \in U : y <= x
      BY <2>2, <3>1, GreatestOf
    <3> DEFINE B == {q \in S : q < x}
    <3>3. U \ {x} \subseteq B
      BY <1>1, <3>1, <3>2
    <3>4. B \in SUBSET S /\ Cardinality(B) < n
      BY <1>1
    <3> HIDE DEF B
    <3>5. IsFiniteSet(B)
      BY <1>3, <3>4, FS_Subset
    <3> QED
      BY <1>3, <3>3, <3>4, <3>5, BeyondBound
  <2> QED
    BY <2>1, <2>2
<1> QED
  BY <1>1, <1>4 DEF U

LEMMA EvictBound ==
  ASSUME NEW N \in Nat, NEW S \in SUBSET (1..N), NEW older \in BOOLEAN
  PROVE  Events!Evict(S, older) \subseteq 1..N /\ Cardinality(Events!Evict(S, older)) <= Cap
<1>1. Cap \in Nat
  BY PanelsAssumption
<1>2. CASE older
  <2>1. Events!Evict(S, older) = Events!Oldest(Cap, S)
    BY <1>2 DEF Events!Evict
  <2> QED
    BY <1>1, <2>1, OldestBound
<1>3. CASE ~older
  <2>1. Events!Evict(S, older) = Events!Newest(Cap, S)
    BY <1>3 DEF Events!Evict
  <2> QED
    BY <1>1, <2>1, NewestBound
<1> QED
  BY <1>2, <1>3

LEMMA EventsInit == Events!Init => EventsInv
<1> SUFFICES ASSUME Events!Init PROVE EventsInv
  OBVIOUS
<1>1. Cardinality({}) = 0 /\ Cap \in Nat
  BY FS_EmptySet, PanelsAssumption
<1>2. EventsHeld
  BY <1>1 DEF EventsHeld, Events!Init
<1>3. EventsView
  BY DEF EventsView, Events!Init
<1>4. EventsCalls
  BY DEF EventsCalls, Events!Init
<1> QED
  BY <1>2, <1>3, <1>4 DEF EventsInv

\* The aborted requests that were answered.
LEMMA PagesSuperseded ==
  ASSUME EventsInv
  PROVE  /\ Events!Superseded \subseteq PageCall /\ \A r \in Events!Superseded : ~r.inForce
         /\ \A r \in Events!Superseded : r.events \subseteq 1..Len(log) /\ (r.more => r.events # {})
<1> SUFFICES ASSUME NEW r \in requests
             PROVE  LET a == [r EXCEPT !.inForce = FALSE]
                    IN a \in PageCall /\ ~a.inForce /\ a.events \subseteq 1..Len(log) /\ (a.more => a.events # {})
  BY DEF Events!Superseded
<1>1. r \in PageCall /\ r.events \subseteq 1..Len(log) /\ (r.more => r.events # {})
  BY DEF EventsInv, EventsCalls
<1> QED
  BY <1>1 DEF PageCall

\* loadHistory leaves one request in force, or none.
LEMMA PagesLoad ==
  ASSUME EventsInv, NEW older \in BOOLEAN, Events!Loads(older), EventsView', log' = log, cursor' \in 1..Len(log) \cup {None}
  PROVE  EventsCalls'
<1>1. \/ requests' = Events!Superseded
      \/ \E r \in PageCall : requests' = Events!Superseded \cup {r} /\ r.events = {} /\ ~r.more
  <2> DEFINE kind == IF tab' = "timeline" THEN "timeline" ELSE "activity"
             ws == IF kind = "timeline" THEN Events!EventsWorktree(workspace', scopeWorktree') ELSE workspace'
             r == [inForce |-> TRUE, kind |-> kind, older |-> older, served |-> FALSE, wt |-> ws,
                   cat |-> (kind = "timeline" /\ category'), at |-> (IF kind = "timeline" /\ older THEN cursor' ELSE None),
                   events |-> {}, more |-> FALSE, crowded |-> FALSE]
  <2>1. requests' = Events!Superseded \/ requests' = Events!Superseded \cup {r}
    BY DEF Events!Loads
  <2>2. ws \in {None, "w", "gone"}
    BY DEF EventsView, Events!EventsWorktree
  <2>3. cursor' \in Nat \cup {None} /\ category' \in BOOLEAN
    BY DEF EventsView, EventsInv, EventsHeld
  <2>4. kind \in {"timeline", "activity"} /\ (kind = "timeline" /\ category') \in BOOLEAN
        /\ (IF kind = "timeline" /\ older THEN cursor' ELSE None) \in Nat \cup {None}
    BY <2>3
  <2> HIDE DEF kind, ws
  <2>5. r \in PageCall
    BY <2>2, <2>4 DEF PageCall
  <2>6. r.events = {} /\ ~r.more
    OBVIOUS
  <2> HIDE DEF r
  <2> QED
    BY <2>1, <2>5, <2>6
<1> QED
  BY <1>1, PagesSuperseded DEF EventsCalls, EventsInv

\* Nothing the requests and the cursor depend on changes.
LEMMA PagesSame ==
  ASSUME EventsInv, log' = log, requests' \subseteq requests, cursor' = cursor \/ cursor' = None
  PROVE  EventsCalls'
BY DEF EventsInv, EventsCalls

LEMMA HeldSame ==
  ASSUME EventsInv, UNCHANGED <<log, fed, held>>
  PROVE  EventsHeld'
BY DEF EventsInv, EventsHeld

LEMMA EventsCapture ==
  ASSUME EventsInv, Events!Capture
  PROVE  EventsInv'
<1>1. PICK w \in {"w", "gone"} : log' = Append(log, w)
  BY DEF Events!Capture
<1>2. log' \in Seq({"w", "gone"}) /\ Len(log') = Len(log) + 1 /\ Len(log) \in Nat
  BY <1>1 DEF EventsInv, EventsHeld
<1>3. EventsHeld'
  BY <1>2 DEF Events!Capture, EventsInv, EventsHeld
<1>4. EventsView'
  BY DEF Events!Capture, Events!pageVars, EventsInv, EventsView
<1>5. 1..Len(log) \subseteq 1..Len(log') /\ requests' = requests /\ cursor' = cursor
  BY <1>2 DEF Events!Capture, Events!pageVars
<1>6. EventsCalls'
  BY <1>5 DEF EventsInv, EventsCalls
<1> QED
  BY <1>3, <1>4, <1>6 DEF EventsInv

LEMMA EventsServe ==
  ASSUME EventsInv, Events!Serve
  PROVE  EventsInv'
<1>1. PICK r \in requests :
        LET found == {p \in Events!Events : Events!Matches(p, r.wt, r.cat) /\ (r.at = None \/ p < r.at)}
            page == Events!Newest(IF r.kind = "timeline" THEN Page ELSE Recent, found)
        IN requests' = (requests \ {r}) \cup {[r EXCEPT !.served = TRUE, !.events = page, !.more = (page # found)]}
  BY DEF Events!Serve
<1> DEFINE found == {p \in Events!Events : Events!Matches(p, r.wt, r.cat) /\ (r.at = None \/ p < r.at)}
           n == IF r.kind = "timeline" THEN Page ELSE Recent
           page == Events!Newest(n, found)
           a == [r EXCEPT !.served = TRUE, !.events = page, !.more = (page # found)]
<1>2. n \in Nat /\ n > 0 /\ Len(log) \in Nat
  BY PanelsAssumption DEF EventsInv, EventsHeld
<1>3. found \in SUBSET (1..Len(log))
  BY DEF Events!Events
<1>4. requests' = (requests \ {r}) \cup {a}
  BY <1>1
<1>5. r \in PageCall
  BY DEF EventsInv, EventsCalls
<1> HIDE DEF found, n
<1>6. page \subseteq found /\ (found # {} => page # {})
  BY <1>2, <1>3, NewestBound
<1> HIDE DEF page
<1>7. page \subseteq 1..Len(log) /\ page \in SUBSET Nat /\ ((page # found) => page # {})
  BY <1>2, <1>3, <1>6
<1>8. a \in PageCall /\ a.inForce = r.inForce /\ a.events = page /\ a.more = (page # found)
  BY <1>5, <1>7 DEF PageCall
<1> HIDE DEF a
<1>9. EventsCalls'
  BY <1>4, <1>7, <1>8 DEF EventsInv, EventsCalls, Events!Serve, Events!pageVars
<1>10. EventsHeld' /\ EventsView'
  BY HeldSame DEF EventsInv, EventsView, Events!Serve, Events!pageVars
<1> QED
  BY <1>9, <1>10 DEF EventsInv

LEMMA EventsAnswered ==
  ASSUME EventsInv, Events!Answered
  PROVE  EventsInv'
<1> USE DEF EventsInv
<1>1. PICK r \in requests :
        /\ r.served /\ requests' = requests \ {r}
        /\ IF Events!Current(r)
           THEN LET all == held \cup r.events
                IN /\ held' = Events!Evict(all, r.at # None)
                   /\ crowded' \in BOOLEAN
                   /\ IF r.kind = "timeline"
                      THEN /\ Events!Pages(r, Events!EvictsOlder(all, r.at # None)) /\ historyError' = FALSE
                           /\ missed' = (missed /\ r.older)
                      ELSE UNCHANGED <<Events!pageVars, historyError, missed>>
           ELSE UNCHANGED <<held, Events!pageVars, historyError, missed, crowded>>
        /\ UNCHANGED <<arriving, log, fed, shown, tab, workspace, scopeWorktree, category, budget>>
  BY Zenon DEF Events!Answered
<1>2. r \in PageCall /\ r.events \subseteq 1..Len(log) /\ (r.more => r.events # {}) /\ Len(log) \in Nat
  BY DEF EventsCalls, EventsHeld
<1>3. r.older \in BOOLEAN /\ r.more \in BOOLEAN
  BY <1>2, PageFields
<1>4. Events!NextCursor(r) \in 1..Len(log) \cup {None}
  <2>1. CASE r.more
    <3>1. \E p \in r.events : \A q \in r.events : p <= q
      <4>1. r.events \in SUBSET Nat /\ r.events # {}
        BY <1>2, <2>1
      <4> QED
        BY <4>1, LeastOf
    <3>2. (CHOOSE p \in r.events : \A q \in r.events : p <= q) \in r.events
      BY <3>1
    <3> QED
      BY <1>2, <2>1, <3>2 DEF Events!NextCursor
  <2> QED
    BY <1>3, <2>1 DEF Events!NextCursor
<1>5. held' \subseteq 1..Len(log) /\ Cardinality(held') <= Cap
  <2>1. CASE Events!Current(r)
    <3>1. held \cup r.events \in SUBSET (1..Len(log)) /\ (r.at # None) \in BOOLEAN
      BY <1>2 DEF EventsHeld
    <3>2. held' = Events!Evict(held \cup r.events, r.at # None)
      BY <1>1, <2>1
    <3> QED
      BY <1>2, <3>1, <3>2, EvictBound
  <2>2. CASE ~Events!Current(r)
    BY <1>1, <2>2 DEF EventsHeld
  <2> QED
    BY <2>1, <2>2
<1>6. EventsHeld'
  BY <1>1, <1>5 DEF EventsHeld
<1>7. cursor' \in 1..Len(log) \cup {None} /\ hasMore' \in BOOLEAN
  <2>1. \/ cursor' = Events!NextCursor(r) /\ hasMore' = r.more
        \/ cursor' = None /\ hasMore' = TRUE
        \/ cursor' = cursor /\ hasMore' = hasMore
    BY <1>1 DEF Events!Pages, Events!pageVars
  <2> QED
    BY <1>3, <1>4, <2>1 DEF EventsCalls, EventsView
<1>8. EventsView'
  <2>1. crowded' \in BOOLEAN /\ missed' \in BOOLEAN /\ historyError' \in BOOLEAN
    BY <1>1 DEF EventsView
  <2> QED
    BY <1>1, <1>7, <2>1 DEF EventsView
<1>9. EventsCalls'
  BY <1>1, <1>7 DEF EventsCalls
<1> QED
  BY <1>6, <1>8, <1>9

LEMMA EventsDeliver ==
  ASSUME EventsInv, Events!Deliver
  PROVE  EventsInv'
<1> USE DEF EventsInv
<1>1. /\ fed < Len(log) /\ fed' = fed + 1
      /\ UNCHANGED <<arriving, crowded, log, shown, tab, workspace, scopeWorktree, category, historyError, budget>>
  BY DEF Events!Deliver
<1>2. fed + 1 \in 1..Len(log) /\ Len(log) \in Nat
  BY <1>1 DEF EventsHeld
<1>3. CASE shown
  <2> DEFINE full == Cardinality(held) = Cap
             f(r) == [r EXCEPT !.crowded = @ \/ full]
  <2>1. /\ held' = Events!Evict(held \cup {fed + 1}, FALSE) /\ missed' = missed
        /\ requests' = {f(r) : r \in requests}
        /\ \/ cursor' = None /\ hasMore' = TRUE
           \/ cursor' = cursor /\ hasMore' = hasMore
    BY <1>3, EventsCardinality DEF Events!Deliver, Events!pageVars
  <2>2. held \cup {fed + 1} \in SUBSET (1..Len(log))
    BY <1>2 DEF EventsHeld
  <2>3. held' \subseteq 1..Len(log) /\ Cardinality(held') <= Cap
    BY <1>2, <2>1, <2>2, EvictBound
  <2> HIDE DEF full
  <2>4. full \in BOOLEAN
    BY DEF full
  <2>5. \A r \in requests : f(r) \in PageCall /\ f(r).inForce = r.inForce /\ f(r).events = r.events /\ f(r).more = r.more
    BY DEF EventsCalls, PageCall
  <2> HIDE DEF f
  <2>6. EventsCalls'
    BY <1>1, <2>1, <2>5 DEF EventsCalls
  <2>7. EventsHeld'
    BY <1>1, <1>2, <2>3 DEF EventsHeld
  <2>8. hasMore' \in BOOLEAN /\ missed' = missed
    BY <2>1 DEF EventsView
  <2>9. EventsView'
    BY <1>1, <2>8 DEF EventsView
  <2> QED
    BY <2>6, <2>7, <2>9
<1>4. CASE ~shown
  <2>1. missed' = TRUE /\ held' = held /\ cursor' = cursor /\ hasMore' = hasMore /\ requests' = requests
    BY <1>4 DEF Events!Deliver, Events!pageVars
  <2> QED
    BY <1>1, <1>2, <2>1, PagesSame DEF EventsHeld, EventsView
<1> QED
  BY <1>3, <1>4

\* What the user and the scope do: the worktree, the tab or the query move, the cursor is
\* kept or given up, and the requests are kept, dropped or superseded by a new one.
LEMMA EventsMoved ==
  ASSUME EventsInv, UNCHANGED <<log, fed, held>>, EventsView', cursor' = cursor \/ cursor' = None,
         \/ requests' \subseteq requests \/ requests' = Events!Superseded
         \/ \E older \in BOOLEAN : Events!Loads(older)
  PROVE  EventsInv'
<1>1. cursor' \in 1..Len(log) \cup {None}
  BY DEF EventsInv, EventsCalls
<1>2. EventsCalls'
  <2>1. CASE requests' = Events!Superseded
    <3>1. log' = log
      OBVIOUS
    <3> QED
      BY <1>1, <2>1, <3>1, PagesSuperseded DEF EventsCalls
  <2>2. CASE requests' \subseteq requests
    BY <2>2, PagesSame
  <2>3. CASE \E older \in BOOLEAN : Events!Loads(older)
    BY <1>1, <2>3, PagesLoad
  <2> QED
    BY <2>1, <2>2, <2>3
<1> QED
  BY <1>2, HeldSame DEF EventsInv

LEMMA EventsStep ==
  ASSUME EventsInv, [Events!Next]_(Events!vars)
  PROVE  EventsInv'
<1> USE DEF EventsInv, EventsView, Events!pageVars
<1>1. CASE UNCHANGED Events!vars
  BY <1>1, EventsMoved DEF Events!vars
<1>2. CASE Events!Fails
  <2>1. PICK r \in requests : requests' = requests \ {r} /\ historyError' = (historyError \/ r.kind = "timeline")
    BY <1>2 DEF Events!Fails
  <2>2. historyError' \in BOOLEAN
    BY <2>1
  <2> QED
    BY <1>2, <2>1, <2>2, EventsMoved DEF Events!Fails
<1>3. CASE Events!LoadOlder
  BY <1>3, EventsMoved DEF Events!LoadOlder
<1>4. CASE Events!SnapshotLands
  BY <1>4, EventsMoved DEF Events!SnapshotLands
<1>5. CASE Events!SetQuery
  BY <1>5, EventsMoved DEF Events!SetQuery
<1>6. CASE Events!SelectWorkspace
  BY <1>6, EventsMoved DEF Events!SelectWorkspace
<1>7. CASE Events!ShowInGraph
  BY <1>7, EventsMoved DEF Events!ShowInGraph
<1>8. CASE Events!ScopeMoves
  <2>1. /\ UNCHANGED <<arriving, log, fed, held, missed, historyError, shown, tab, category>>
        /\ scopeWorktree' \in {None, "w", "gone"} /\ crowded' \in BOOLEAN
    BY <1>8 DEF Events!ScopeMoves, Events!Unrestarted
  <2>2. \/ UNCHANGED <<workspace, cursor, hasMore, requests>>
        \/ workspace' \in {None, "w"} /\ cursor' = None /\ hasMore' \in BOOLEAN /\ Events!Loads(FALSE)
    BY <1>8 DEF Events!ScopeMoves, Events!ClearsLocal, Events!Applies, Events!NarrowsFeed, Events!Stays
  <2> QED
    BY <2>1, <2>2, EventsMoved
<1>9. CASE Events!Show
  BY <1>9, EventsMoved DEF Events!Show
<1>10. CASE Events!Hide
  BY <1>10, EventsMoved DEF Events!Hide
<1> QED
  BY <1>1, <1>2, <1>3, <1>4, <1>5, <1>6, <1>7, <1>8, <1>9, <1>10, EventsCapture, EventsServe, EventsAnswered, EventsDeliver
  DEF Events!Next

LEMMA EventsMeans == EventsInv => Events!TypeOK
<1> SUFFICES ASSUME EventsInv PROVE Events!TypeOK
  OBVIOUS
<1> USE DEF EventsInv
<1>1. Cardinality({r \in requests : r.inForce}) <= 1
  <2> DEFINE S == {r \in requests : r.inForce}
  <2>1. \A x, y \in S : x = y
    BY DEF EventsCalls
  <2> HIDE DEF S
  <2>2. Cardinality(S) <= 1
    BY <2>1, AtMostOne
  <2> QED
    BY <2>2 DEF S
<1>2. {shown, category, hasMore, missed, historyError, arriving, crowded} \subseteq BOOLEAN
  BY DEF EventsView
<1> QED
  BY <1>1, <1>2, EventsCardinality DEF Events!TypeOK, Events!Events, EventsHeld, EventsView, EventsCalls


----------------------------------------------------------------------------
(* The walk of the Events view.                                            *)

\* Of the newest nothing is older than what was left out; few enough are all there.
LEMMA NewestTop ==
  ASSUME NEW N \in Nat, NEW S \in SUBSET (1..N), NEW n \in Nat
  PROVE  /\ \A p \in S : p \in Events!Newest(n, S) \/ \A q \in Events!Newest(n, S) : p < q
         /\ Cardinality(S) <= n => Events!Newest(n, S) = S
<1> DEFINE U == Events!Newest(n, S)
<1>1. U \subseteq S /\ \A p \in S : p \in U <=> Cardinality({q \in S : q > p}) < n
  BY EventsCardinality DEF Events!Newest
<1> HIDE DEF U
<1>2. IsFiniteSet(S) /\ Cardinality(S) \in Nat
  <2>1. IsFiniteSet(1..N)
    BY FS_Interval
  <2> QED
    BY <2>1, FS_Subset, FS_CardinalityType
<1>3. ASSUME NEW p \in S, NEW q \in U, p \notin U
      PROVE  p < q
  <2> SUFFICES ASSUME ~(p < q) PROVE FALSE
    OBVIOUS
  <2> DEFINE B == {x \in S : x > q}
             C == {x \in S : x > p}
  <2>1. p \in Nat /\ q \in Nat /\ S \subseteq Nat
    BY <1>1
  <2>2. q <= p
    BY <2>1
  <2>3. C \in SUBSET B /\ B \in SUBSET S
    <3>1. \A x \in S : x > p => x > q
      BY <2>1, <2>2
    <3> QED
      BY <3>1
  <2>4. Cardinality(B) < n /\ ~(Cardinality(C) < n)
    BY <1>1, <1>3
  <2> HIDE DEF B, C
  <2>5. IsFiniteSet(B) /\ Cardinality(C) <= Cardinality(B) /\ IsFiniteSet(C)
    BY <1>2, <2>3, FS_Subset
  <2>6. Cardinality(B) \in Nat /\ Cardinality(C) \in Nat
    BY <2>5, FS_CardinalityType
  <2> QED
    BY <2>4, <2>5, <2>6
<1>4. ASSUME Cardinality(S) <= n, NEW p \in S
      PROVE  p \in U
  <2> DEFINE B == {x \in S : x > p}
             C == S \ {p}
  <2>1. B \in SUBSET C
    OBVIOUS
  <2>2. Cardinality(C) = Cardinality(S) - 1 /\ IsFiniteSet(C)
    BY <1>2, FS_RemoveElement
  <2> HIDE DEF C
  <2>3. Cardinality(B) <= Cardinality(C) /\ IsFiniteSet(B)
    BY <2>1, <2>2, FS_Subset
  <2>4. Cardinality(B) \in Nat
    BY <2>3, FS_CardinalityType
  <2>5. Cardinality(B) < n
    BY <1>2, <1>4, <2>2, <2>3, <2>4
  <2> QED
    BY <1>1, <2>5
<1> QED
  BY <1>1, <1>3, <1>4 DEF U

\* Of the oldest nothing is newer than what was left out, and something was only if they are n.
LEMMA OldestBottom ==
  ASSUME NEW N \in Nat, NEW S \in SUBSET (1..N), NEW n \in Nat
  PROVE  /\ \A p \in S : p \in Events!Oldest(n, S) \/ \A q \in Events!Oldest(n, S) : q < p
         /\ Events!Oldest(n, S) = S \/ Cardinality(Events!Oldest(n, S)) >= n
<1> DEFINE U == Events!Oldest(n, S)
<1>1. U \subseteq S /\ \A p \in S : p \in U <=> Cardinality({q \in S : q < p}) < n
  BY EventsCardinality DEF Events!Oldest
<1> HIDE DEF U
<1>2. IsFiniteSet(S) /\ IsFiniteSet(U) /\ Cardinality(U) \in Nat
  <2>1. IsFiniteSet(1..N)
    BY FS_Interval
  <2>2. IsFiniteSet(S)
    BY <2>1, FS_Subset
  <2> QED
    BY <1>1, <2>2, FS_Subset, FS_CardinalityType
<1>3. ASSUME NEW p \in S, NEW q \in U, p \notin U
      PROVE  q < p
  <2> SUFFICES ASSUME ~(q < p) PROVE FALSE
    OBVIOUS
  <2> DEFINE B == {x \in S : x < q}
             C == {x \in S : x < p}
  <2>1. p \in Nat /\ q \in Nat /\ S \subseteq Nat
    BY <1>1
  <2>2. p <= q
    BY <2>1
  <2>3. C \in SUBSET B /\ B \in SUBSET S
    <3>1. \A x \in S : x < p => x < q
      BY <2>1, <2>2
    <3> QED
      BY <3>1
  <2>4. Cardinality(B) < n /\ ~(Cardinality(C) < n)
    BY <1>1, <1>3
  <2> HIDE DEF B, C
  <2>5. IsFiniteSet(B) /\ Cardinality(C) <= Cardinality(B) /\ IsFiniteSet(C)
    BY <1>2, <2>3, FS_Subset
  <2>6. Cardinality(B) \in Nat /\ Cardinality(C) \in Nat
    BY <2>5, FS_CardinalityType
  <2> QED
    BY <2>4, <2>5, <2>6
<1>4. ASSUME U # S
      PROVE  Cardinality(U) >= n
  <2> DEFINE V == S \ U
  <2>1. V \in SUBSET Nat /\ V # {}
    <3>1. V \subseteq S /\ S \subseteq Nat
      OBVIOUS
    <3>2. \E x \in S : x \notin U
      BY <1>1, <1>4
    <3> QED
      BY <3>1, <3>2
  <2>2. PICK x \in V : \A y \in V : x <= y
    BY <2>1, LeastOf
  <2> DEFINE B == {y \in S : y < x}
  <2>3. B \in SUBSET U
    BY <2>1, <2>2
  <2>4. ~(Cardinality(B) < n)
    BY <1>1, <2>2
  <2> HIDE DEF B
  <2>5. Cardinality(B) <= Cardinality(U) /\ IsFiniteSet(B)
    BY <1>2, <2>3, FS_Subset
  <2>6. Cardinality(B) \in Nat
    BY <2>5, FS_CardinalityType
  <2> QED
    BY <1>2, <2>4, <2>5, <2>6
<1> QED
  BY <1>1, <1>3, <1>4 DEF U

\* Of events l, event p is one of the view of worktree wt and filter cat.
InQuery(l, p, wt, cat) == (wt = None \/ l[p] = wt) /\ (~cat \/ l[p] = "w")

\* Of the events of a view from b on that were delivered, the set h has lost only the newest,
\* and only being full: a page of older history pushed them out.
KeptFrom(l, f, h, b, wt, cat) ==
  \A p \in 1..f : InQuery(l, p, wt, cat) /\ p >= b /\ p \notin h => Cardinality(h) >= Cap /\ \A q \in h : q < p

\* The page of r goes back to p, or to the start of the history.
Reaches(r, p) == r.more => \E q \in r.events : q <= p

\* A page leaves out no event of its view down to where it goes back, before its cursor or, at
\* the head, captured before it was served.
PageSound(l, r) ==
  /\ \A p \in 1..Len(l) : InQuery(l, p, r.wt, r.cat) /\ Reaches(r, p) /\ p \notin r.events =>
       (r.at # None => p >= r.at) /\ \A q \in r.events : q < p
  /\ r.at # None => \A q \in r.events : q < r.at

CallSound(l, r) ==
  /\ r.at # None => r.older /\ r.kind = "timeline" /\ r.at \in 1..Len(l)
  /\ r.served => PageSound(l, r)

Here == Events!EventsWorktree(workspace, scopeWorktree)

\* The request in force is one of the view that is shown.
InView(r) ==
  shown /\ r.kind = (IF tab = "timeline" THEN "timeline" ELSE "activity") /\ (r.kind = "timeline" => r.cat = category)

\* As long as nothing crowded it: with the page at the head the held events leave no hole, and
\* an older page begins where the held events have none.
InWalk(r) ==
  /\ ~crowded => r.wt = Here
  /\ r.served /\ r.at = None /\ ~r.crowded =>
       \A p \in 1..fed : InQuery(log, p, r.wt, r.cat) /\ Reaches(r, p) => p \in held \cup r.events
  /\ ~crowded /\ ~r.crowded /\ r.at # None => KeptFrom(log, fed, held, r.at, r.wt, r.cat)

AtRest == shown /\ tab = "timeline" /\ ~arriving /\ ~historyError /\ ~\E r \in requests : r.inForce

\* The cursor leaves no hole above it; with no more to ask for, there is none at all.
WalkCursor ==
  /\ cursor # None => hasMore
  /\ ~crowded /\ shown /\ cursor # None => KeptFrom(log, fed, held, cursor, Here, category)
  /\ ~crowded /\ AtRest /\ cursor = None /\ ~hasMore => KeptFrom(log, fed, held, 1, Here, category)

WalkCalls == \A r \in requests : CallSound(log, r) /\ (r.inForce => InView(r) /\ (r.kind = "timeline" => InWalk(r)))

WalkInv == WalkCalls /\ WalkCursor

LEMMA WalkInit == Events!Init => WalkInv
BY DEF Events!Init, WalkInv, WalkCalls, WalkCursor, AtRest

LEMMA WalkMeans == EventsInv /\ WalkInv => Events!WalksUncrowded
<1> SUFFICES ASSUME EventsInv, WalkInv, ~crowded, AtRest,
                    NEW p \in 1..fed, InQuery(log, p, Here, category), NEW q \in held, q > p
             PROVE  p \in held \cup Events!Older
  BY Zenon DEF Events!WalksUncrowded, Events!WalksContiguously, Events!Wanted, Events!Matches, InQuery, AtRest, Here, EventsInv
<1>1. fed \in 0..Len(log) /\ Len(log) \in Nat /\ p \in Nat /\ q \in Nat /\ cursor \in Nat \cup {None} /\ shown
  BY DEF EventsInv, EventsHeld, EventsCalls, AtRest
<1>2. CASE ~hasMore
  <2>1. KeptFrom(log, fed, held, 1, Here, category)
    BY <1>2 DEF WalkInv, WalkCursor
  <2> QED
    BY <1>1, <2>1 DEF KeptFrom
<1>3. CASE hasMore /\ cursor = None
  BY <1>1, <1>3 DEF Events!Older, Events!Events
<1>4. CASE hasMore /\ cursor # None
  <2>1. KeptFrom(log, fed, held, cursor, Here, category)
    BY <1>1, <1>4 DEF WalkInv, WalkCursor
  <2>2. ~(p >= cursor) \/ p \in held
    BY <1>1, <2>1 DEF KeptFrom
  <2> QED
    BY <1>1, <1>4, <2>2 DEF Events!Older
<1> QED
  BY <1>2, <1>3, <1>4 DEF EventsInv, EventsView

\* A set that grows within its cap, by what is new, keeps what it kept.
LEMMA KeptGrows ==
  ASSUME NEW N \in Nat, NEW g \in SUBSET (1..N), Cardinality(g) <= Cap, NEW h \in SUBSET g,
         NEW f \in Nat, NEW e \in Nat, \A p \in 1..e : p \in 1..f \/ p \in g,
         NEW l, NEW b, NEW wt, NEW cat, KeptFrom(l, f, h, b, wt, cat)
  PROVE  KeptFrom(l, e, g, b, wt, cat)
<1> SUFFICES ASSUME NEW p \in 1..e, InQuery(l, p, wt, cat), p >= b, p \notin g
             PROVE  Cardinality(g) >= Cap /\ \A q \in g : q < p
  BY DEF KeptFrom
<1>1. p \in 1..f /\ p \notin h
  OBVIOUS
<1>2. Cardinality(h) >= Cap /\ \A q \in h : q < p
  BY <1>1 DEF KeptFrom
<1>3. IsFiniteSet(g) /\ Cardinality(g) \in Nat /\ IsFiniteSet(h) /\ Cardinality(h) \in Nat
  <2>1. IsFiniteSet(1..N)
    BY FS_Interval
  <2>2. IsFiniteSet(g)
    BY <2>1, FS_Subset
  <2> QED
    BY <2>2, FS_Subset, FS_CardinalityType
<1>4. Cap \in Nat
  BY PanelsAssumption
<1>5. Cardinality(h) <= Cardinality(g)
  BY <1>3, FS_Subset
<1>6. Cardinality(g) = Cardinality(h)
  BY <1>2, <1>3, <1>4, <1>5
<1>7. g = h
  BY <1>3, <1>6, FS_Subset
<1> QED
  BY <1>2, <1>7

\* What was asked for and given up stays sound.
LEMMA SupersededSound ==
  ASSUME EventsInv, WalkInv
  PROVE  \A q \in Events!Superseded : CallSound(log, q)
<1> SUFFICES ASSUME NEW r \in requests
             PROVE  CallSound(log, [r EXCEPT !.inForce = FALSE])
  BY DEF Events!Superseded
<1> DEFINE a == [r EXCEPT !.inForce = FALSE]
<1>1. r \in PageCall /\ CallSound(log, r)
  BY DEF EventsInv, EventsCalls, WalkInv, WalkCalls
<1>2. a.at = r.at /\ a.older = r.older /\ a.kind = r.kind /\ a.served = r.served /\ a.wt = r.wt /\ a.cat = r.cat
      /\ a.events = r.events /\ a.more = r.more
  BY <1>1 DEF PageCall
<1> HIDE DEF a
<1>3. CallSound(log, a)
  BY <1>1, <1>2 DEF CallSound, PageSound, Reaches
<1> QED
  BY <1>3 DEF a

\* Requests go and the view stays.
LEMMA WalkStays ==
  ASSUME EventsInv, WalkInv, UNCHANGED <<log, fed, held, shown, tab, category>>, requests' \subseteq requests,
         ~crowded' => ~crowded /\ Here' = Here, cursor' # None => cursor' = cursor /\ hasMore' = hasMore,
         AtRest' => AtRest /\ cursor' = cursor /\ hasMore' = hasMore
  PROVE  WalkInv'
<1> USE DEF WalkInv
<1>1. WalkCalls'
  <2> SUFFICES ASSUME NEW r \in requests', r.inForce
               PROVE  InView(r)' /\ (r.kind = "timeline" => InWalk(r)')
    BY DEF WalkCalls
  <2>1. InView(r) /\ (r.kind = "timeline" => InWalk(r))
    BY DEF WalkCalls
  <2> QED
    BY <2>1 DEF InView, InWalk
<1>2. WalkCursor'
  BY DEF WalkCursor
<1> QED
  BY <1>1, <1>2

\* The view goes, or comes back before its snapshot has landed.
LEMMA WalkAway ==
  ASSUME EventsInv, WalkInv, log' = log, requests' \subseteq requests \/ requests' = Events!Superseded,
         \A r \in requests' : ~r.inForce, cursor' # None => cursor' = cursor /\ hasMore' = hasMore,
         shown' => cursor' = None /\ arriving'
  PROVE  WalkInv'
<1> USE DEF WalkInv
<1>1. \A r \in requests' : CallSound(log', r)
  BY SupersededSound DEF WalkCalls
<1>2. WalkCalls'
  BY <1>1 DEF WalkCalls
<1>3. WalkCursor'
  BY DEF WalkCursor, AtRest
<1> QED
  BY <1>2, <1>3

\* History is asked for again, at the head or from the cursor.
LEMMA WalkLoads ==
  ASSUME EventsInv, WalkInv, NEW older \in BOOLEAN, Events!Loads(older), EventsView', UNCHANGED <<log, fed, held>>,
         cursor' \in 1..Len(log) \cup {None}, cursor' # None => hasMore',
         ~crowded' /\ shown' /\ cursor' # None => KeptFrom(log, fed, held, cursor', Here', category')
  PROVE  WalkInv'
<1> DEFINE kind == IF tab' = "timeline" THEN "timeline" ELSE "activity"
           ws == IF kind = "timeline" THEN Here' ELSE workspace'
           r == [inForce |-> TRUE, kind |-> kind, older |-> older, served |-> FALSE, wt |-> ws,
                 cat |-> (kind = "timeline" /\ category'), at |-> (IF kind = "timeline" /\ older THEN cursor' ELSE None),
                 events |-> {}, more |-> FALSE, crowded |-> FALSE]
<1>1. \/ requests' = Events!Superseded /\ (~shown' \/ tab' # "timeline")
      \/ requests' = Events!Superseded \cup {r} /\ shown'
  <2>1. Events!EventsWorktree(workspace', scopeWorktree') = Here'
    BY DEF Here, Events!EventsWorktree
  <2> QED
    BY <2>1 DEF Events!Loads, EventsView
<1>2. \A q \in Events!Superseded : CallSound(log', q) /\ ~q.inForce
  BY SupersededSound, PagesSuperseded
<1>3. r.inForce /\ ~r.served /\ r.kind = kind /\ r.older = older
      /\ (r.at # None => kind = "timeline" /\ older /\ r.at = cursor')
      /\ (kind = "timeline" => r.wt = Here' /\ r.cat = category')
  <2>1. category' \in BOOLEAN
    BY DEF EventsView
  <2>2. r.inForce /\ ~r.served /\ r.kind = kind /\ r.older = older /\ r.wt = ws /\ r.cat = (kind = "timeline" /\ category')
        /\ r.at = (IF kind = "timeline" /\ older THEN cursor' ELSE None)
    OBVIOUS
  <2> HIDE DEF r
  <2>3. r.at # None => kind = "timeline" /\ older /\ r.at = cursor'
    BY <2>2
  <2>4. kind = "timeline" => r.wt = Here' /\ r.cat = category'
    BY <2>1, <2>2
  <2> QED
    BY <2>2, <2>3, <2>4
<1> HIDE DEF r
<1>4. CallSound(log', r)
  BY <1>3 DEF CallSound
<1>5. ASSUME NEW q, q = r, shown'
      PROVE  InView(q)'
  <2>1. shown' /\ q.kind = (IF tab' = "timeline" THEN "timeline" ELSE "activity") /\ (q.kind = "timeline" => q.cat = category')
    BY <1>3, <1>5
  <2> QED
    BY <2>1 DEF InView
<1>6. ASSUME NEW q, q = r, shown', q.kind = "timeline"
      PROVE  InWalk(q)'
  <2>1. /\ q.wt = Here' /\ ~q.served
        /\ ~crowded' /\ q.at # None => KeptFrom(log', fed', held', q.at, q.wt, q.cat)
    BY <1>3, <1>6
  <2> QED
    BY <2>1 DEF InWalk
<1>7. WalkCalls'
  <2> SUFFICES ASSUME NEW q \in requests'
               PROVE  CallSound(log', q) /\ (q.inForce => InView(q)' /\ (q.kind = "timeline" => InWalk(q)'))
    BY DEF WalkCalls
  <2> QED
    BY <1>1, <1>2, <1>4, <1>5, <1>6
<1>8. ~AtRest'
  <2>1. CASE requests' = Events!Superseded /\ (~shown' \/ tab' # "timeline")
    BY <2>1 DEF AtRest
  <2>2. CASE requests' = Events!Superseded \cup {r}
    <3>1. r \in requests' /\ r.inForce
      BY <1>3, <2>2
    <3> QED
      BY <3>1 DEF AtRest
  <2> QED
    BY <1>1, <2>1, <2>2
<1>9. WalkCursor'
  BY <1>8 DEF WalkCursor
<1> QED
  BY <1>7, <1>9 DEF WalkInv

LEMMA WalkCapture ==
  ASSUME EventsInv, WalkInv, Events!Capture
  PROVE  WalkInv'
<1> USE DEF WalkInv
<1>1. PICK w \in {"w", "gone"} : log' = Append(log, w)
  BY DEF Events!Capture
<1>2. UNCHANGED <<arriving, crowded, fed, held, shown, tab, workspace, scopeWorktree, category, cursor, hasMore, requests, historyError>>
  BY DEF Events!Capture, Events!pageVars
<1>3. /\ Len(log') = Len(log) + 1 /\ Len(log) \in Nat /\ fed \in 0..Len(log)
      /\ \A p \in 1..Len(log) : log'[p] = log[p]
  BY <1>1 DEF EventsInv, EventsHeld
<1>4. \A p \in 1..Len(log) : \A wt, cat : InQuery(log', p, wt, cat) <=> InQuery(log, p, wt, cat)
  BY <1>3 DEF InQuery
<1>5. 1..fed \subseteq 1..Len(log)
  BY <1>3
<1>6. \A b, wt, cat : KeptFrom(log, fed, held, b, wt, cat) => KeptFrom(log', fed, held, b, wt, cat)
  BY <1>4, <1>5 DEF KeptFrom
<1>7. ASSUME NEW r \in requests
      PROVE  CallSound(log', r)
  <2>1. CallSound(log, r) /\ r.events \subseteq 1..Len(log)
    BY DEF WalkCalls, EventsInv, EventsCalls
  <2>2. r.at # None => r.older /\ r.kind = "timeline" /\ r.at \in 1..Len(log')
    BY <1>3, <2>1 DEF CallSound
  <2>3. ASSUME r.served
        PROVE  PageSound(log', r)
    <3>1. PageSound(log, r) /\ (r.at # None => r.at \in 1..Len(log))
      BY <2>1, <2>3 DEF CallSound
    <3>2. ASSUME NEW p \in 1..Len(log'), InQuery(log', p, r.wt, r.cat), Reaches(r, p), p \notin r.events
          PROVE  (r.at # None => p >= r.at) /\ \A q \in r.events : q < p
      <4>1. CASE p \in 1..Len(log)
        BY <1>4, <3>1, <3>2, <4>1 DEF PageSound
      <4>2. CASE p = Len(log) + 1
        BY <1>3, <2>1, <3>1, <4>2
      <4> QED
        BY <1>3, <4>1, <4>2
    <3> QED
      BY <3>1, <3>2 DEF PageSound
  <2> QED
    BY <2>2, <2>3 DEF CallSound
<1>8. ASSUME NEW r \in requests, InWalk(r)
      PROVE  InWalk(r)'
  BY <1>2, <1>4, <1>5, <1>6, <1>8 DEF InWalk, Here, Events!EventsWorktree
<1>9. WalkCalls'
  <2>1. ASSUME NEW r \in requests, InView(r)
        PROVE  InView(r)'
    BY <1>2, <2>1 DEF InView
  <2> QED
    BY <1>2, <1>7, <1>8, <2>1 DEF WalkCalls
<1>10. WalkCursor'
  BY <1>2, <1>6 DEF WalkCursor, AtRest, Here, Events!EventsWorktree
<1> QED
  BY <1>9, <1>10

\* A page holds the newest of its view before its cursor; at the head, all that there is.
LEMMA WalkServe ==
  ASSUME EventsInv, WalkInv, Events!Serve
  PROVE  WalkInv'
<1> USE DEF WalkInv
<1>1. PICK r \in requests :
        LET found == {p \in Events!Events : Events!Matches(p, r.wt, r.cat) /\ (r.at = None \/ p < r.at)}
            page == Events!Newest(IF r.kind = "timeline" THEN Page ELSE Recent, found)
        IN requests' = (requests \ {r}) \cup {[r EXCEPT !.served = TRUE, !.events = page, !.more = (page # found)]}
  BY DEF Events!Serve
<1> DEFINE found == {p \in Events!Events : Events!Matches(p, r.wt, r.cat) /\ (r.at = None \/ p < r.at)}
           n == IF r.kind = "timeline" THEN Page ELSE Recent
           page == Events!Newest(n, found)
           a == [r EXCEPT !.served = TRUE, !.events = page, !.more = (page # found)]
<1>2. UNCHANGED <<log, fed, held, shown, tab, workspace, scopeWorktree, category, cursor, hasMore, historyError, crowded, arriving>>
  BY DEF Events!Serve, Events!pageVars
<1>3. n \in Nat /\ Len(log) \in Nat /\ fed \in 0..Len(log)
  BY PanelsAssumption DEF EventsInv, EventsHeld
<1>4. found \in SUBSET (1..Len(log))
  BY DEF Events!Events
<1>5. \A p \in 1..Len(log) : InQuery(log, p, r.wt, r.cat) => p \in found \/ (r.at # None /\ ~(p < r.at))
  BY DEF Events!Events, Events!Matches, InQuery
<1>6. r.at # None => \A q \in found : q < r.at
  OBVIOUS
<1>7. requests' = (requests \ {r}) \cup {a}
  BY <1>1
<1>8. r \in PageCall /\ CallSound(log, r)
  BY DEF EventsInv, EventsCalls, WalkCalls
<1> HIDE DEF found, n
<1>9. page \subseteq found /\ \A p \in found : p \in page \/ \A q \in page : p < q
  BY <1>3, <1>4, NewestBound, NewestTop
<1> HIDE DEF page
<1>10. /\ a.at = r.at /\ a.older = r.older /\ a.kind = r.kind /\ a.served /\ a.wt = r.wt /\ a.cat = r.cat
       /\ a.events = page /\ a.more = (page # found) /\ a.inForce = r.inForce /\ a.crowded = r.crowded
  BY <1>8 DEF PageCall
<1> HIDE DEF a
<1>11. ASSUME NEW p \in 1..Len(log), InQuery(log, p, r.wt, r.cat), Reaches(a, p), p \notin page
       PROVE  r.at # None /\ ~(p < r.at)
  <2> SUFFICES ASSUME p \in found PROVE FALSE
    BY <1>5, <1>11
  <2>1. page # found /\ \A q \in page : p < q
    BY <1>9, <1>11
  <2>2. PICK q \in page : q <= p
    BY <1>10, <1>11, <2>1 DEF Reaches
  <2>3. q \in Nat /\ p < q
    BY <1>4, <1>9, <2>1, <2>2
  <2> QED
    BY <2>2, <2>3
<1>12. PageSound(log, a)
  <2>1. r.at # None => r.at \in Nat /\ \A q \in page : q < r.at /\ q \in Nat
    BY <1>4, <1>6, <1>8, <1>9 DEF CallSound
  <2>2. ASSUME NEW p \in 1..Len(log), InQuery(log, p, a.wt, a.cat), Reaches(a, p), p \notin a.events
        PROVE  (a.at # None => p >= a.at) /\ \A q \in a.events : q < p
    <3>1. r.at # None /\ ~(p < r.at)
      BY <1>10, <1>11, <2>2
    <3> QED
      BY <1>10, <2>1, <3>1
  <2> QED
    BY <1>10, <2>1, <2>2 DEF PageSound
<1>13. CallSound(log', a)
  BY <1>2, <1>8, <1>10, <1>12 DEF CallSound
<1>14. ASSUME NEW q \in requests, InView(q)
       PROVE  InView(q)'
  BY <1>2, <1>14 DEF InView
<1>15. ASSUME NEW q \in requests, InWalk(q)
       PROVE  InWalk(q)'
  BY <1>2, <1>15 DEF InWalk, Here, Events!EventsWorktree
<1>16. ASSUME NEW q, q = a, InView(r)
       PROVE  InView(q)'
  BY <1>2, <1>10, <1>16 DEF InView
<1>17. ASSUME NEW q, q = a, InWalk(r)
       PROVE  InWalk(q)'
  <2>1. 1..fed \subseteq 1..Len(log)
    BY <1>3
  <2>2. q.at = None => \A p \in 1..fed : InQuery(log, p, q.wt, q.cat) /\ Reaches(q, p) => p \in held \cup q.events
    BY <1>10, <1>11, <1>17, <2>1
  <2>3. ~crowded => q.wt = Here
    BY <1>10, <1>17 DEF InWalk
  <2>4. ~crowded /\ ~q.crowded /\ q.at # None => KeptFrom(log, fed, held, q.at, q.wt, q.cat)
    BY <1>10, <1>17 DEF InWalk
  <2> QED
    BY <1>2, <2>2, <2>3, <2>4 DEF InWalk, Here, Events!EventsWorktree
<1>18. WalkCalls'
  <2> SUFFICES ASSUME NEW q \in requests'
               PROVE  CallSound(log', q) /\ (q.inForce => InView(q)' /\ (q.kind = "timeline" => InWalk(q)'))
    BY DEF WalkCalls
  <2>1. CASE q \in requests
    BY <1>2, <1>14, <1>15, <2>1 DEF WalkCalls
  <2>2. CASE q = a
    BY <1>10, <1>13, <1>16, <1>17, <2>2 DEF WalkCalls
  <2> QED
    BY <1>7, <2>1, <2>2
<1>19. AtRest' => AtRest
  <2>1. (\E q \in requests : q.inForce) => \E q \in requests' : q.inForce
    BY <1>7, <1>10
  <2> QED
    BY <1>2, <2>1 DEF AtRest
<1>20. WalkCursor'
  BY <1>2, <1>19 DEF WalkCursor, Here, Events!EventsWorktree
<1> QED
  BY <1>18, <1>20

LEMMA WalkFails ==
  ASSUME EventsInv, WalkInv, Events!Fails
  PROVE  WalkInv'
<1>1. PICK r \in requests : requests' = requests \ {r} /\ historyError' = (historyError \/ r.kind = "timeline")
  BY DEF Events!Fails
<1>2. UNCHANGED <<log, fed, held, shown, tab, workspace, scopeWorktree, category, cursor, hasMore, crowded, arriving>>
  BY DEF Events!Fails, Events!pageVars
<1>3. AtRest' => AtRest
  <2> SUFFICES ASSUME AtRest', ~AtRest PROVE FALSE
    OBVIOUS
  <2>1. r.inForce /\ tab = "timeline" /\ r.kind # "timeline"
    BY <1>1, <1>2 DEF AtRest
  <2> QED
    BY <2>1 DEF WalkInv, WalkCalls, InView
<1>4. Here' = Here
  BY <1>2 DEF Here, Events!EventsWorktree
<1> QED
  BY <1>1, <1>2, <1>3, <1>4, WalkStays

\* With a newer event the held ones grow, or evict and the walk begins again at the head.
LEMMA WalkDeliver ==
  ASSUME EventsInv, WalkInv, Events!Deliver
  PROVE  WalkInv'
<1> USE DEF WalkInv
<1>1. /\ fed < Len(log) /\ fed' = fed + 1
      /\ UNCHANGED <<arriving, crowded, log, shown, tab, workspace, scopeWorktree, category, historyError>>
  BY DEF Events!Deliver
<1>2. fed + 1 \in 1..Len(log) /\ Len(log) \in Nat /\ fed \in Nat /\ Cap \in Nat
  BY <1>1, PanelsAssumption DEF EventsInv, EventsHeld
<1>3. CASE ~shown
  <2>1. cursor' = cursor /\ hasMore' = hasMore /\ requests' = requests
    BY <1>3 DEF Events!Deliver, Events!pageVars
  <2>2. \A r \in requests : ~r.inForce
    BY <1>3 DEF WalkCalls, InView
  <2> QED
    BY <1>1, <1>3, <2>1, <2>2, WalkAway
<1>4. CASE shown
  <2> DEFINE all == held \cup {fed + 1}
             full == Cardinality(held) = Cap
             over == Cardinality(all) > Cap
             f(r) == [r EXCEPT !.crowded = @ \/ full]
  <2>1. /\ held' = Events!Newest(Cap, all)
        /\ requests' = {f(r) : r \in requests}
        /\ IF over THEN cursor' = None /\ hasMore' = TRUE ELSE cursor' = cursor /\ hasMore' = hasMore
    BY <1>4, EventsCardinality DEF Events!Deliver, Events!pageVars, Events!Evict, Events!EvictsOlder
  <2>2. all \in SUBSET (1..Len(log)) /\ IsFiniteSet(held) /\ Cardinality(held) \in Nat /\ Cardinality(held) <= Cap
    <3>1. IsFiniteSet(1..Len(log)) /\ held \in SUBSET (1..Len(log)) /\ Cardinality(held) <= Cap
      BY <1>2, FS_Interval DEF EventsInv, EventsHeld
    <3>2. IsFiniteSet(held)
      BY <3>1, FS_Subset
    <3> QED
      BY <1>2, <3>1, <3>2, FS_CardinalityType
  <2>3. Cardinality(all) \in Nat /\ (~full => ~over)
    <3>1. Cardinality(all) = Cardinality(held) \/ Cardinality(all) = Cardinality(held) + 1
      BY <2>2, FS_AddElement
    <3> HIDE DEF all
    <3> QED
      BY <1>2, <2>2, <3>1
  <2> HIDE DEF full
  <2>4. ~over => held' = all /\ Cardinality(held') <= Cap
    <3> HIDE DEF all
    <3> QED
      BY <1>2, <2>1, <2>2, <2>3, NewestTop
  <2>5. ASSUME ~over, NEW b, NEW wt, NEW cat, KeptFrom(log, fed, held, b, wt, cat)
        PROVE  KeptFrom(log', fed', held', b, wt, cat)
    <3>1. held' \in SUBSET (1..Len(log)) /\ held \in SUBSET held' /\ Cardinality(held') <= Cap
      BY <2>2, <2>4, <2>5
    <3>2. \A p \in 1..fed' : p \in 1..fed \/ p \in held'
      BY <1>1, <1>2, <2>4, <2>5
    <3>3. fed' \in Nat
      BY <1>1, <1>2
    <3> HIDE DEF all
    <3> QED
      BY <1>1, <1>2, <2>5, <3>1, <3>2, <3>3, KeptGrows
  <2> HIDE DEF all
  <2>6. ASSUME NEW r \in requests
        PROVE  /\ f(r).at = r.at /\ f(r).older = r.older /\ f(r).kind = r.kind /\ f(r).served = r.served /\ f(r).wt = r.wt
               /\ f(r).cat = r.cat /\ f(r).events = r.events /\ f(r).more = r.more /\ f(r).inForce = r.inForce
               /\ f(r).crowded = (r.crowded \/ full)
    <3>1. r \in PageCall
      BY DEF EventsInv, EventsCalls
    <3> QED
      BY <3>1 DEF PageCall
  <2> HIDE DEF f
  <2>7. ASSUME NEW r \in requests, NEW q, q = f(r)
        PROVE  CallSound(log', q) /\ (q.inForce => InView(q)' /\ (q.kind = "timeline" => InWalk(q)'))
    <3>1. CallSound(log, r) /\ (r.inForce => InView(r) /\ (r.kind = "timeline" => InWalk(r)))
      BY DEF WalkCalls
    <3>2. CallSound(log', q)
      BY <1>1, <2>6, <2>7, <3>1 DEF CallSound, PageSound, Reaches
    <3>3. InView(r) => InView(q)'
      BY <1>1, <2>6, <2>7 DEF InView
    <3>4. ASSUME InWalk(r)
          PROVE  InWalk(q)'
      <4>1. ~crowded' => q.wt = Here'
        BY <1>1, <2>6, <2>7, <3>4 DEF InWalk, Here, Events!EventsWorktree
      <4>2. ~crowded' /\ ~q.crowded /\ q.at # None => KeptFrom(log', fed', held', q.at, q.wt, q.cat)
        <5> SUFFICES ASSUME ~crowded', ~q.crowded, q.at # None
                     PROVE  KeptFrom(log', fed', held', q.at, q.wt, q.cat)
          OBVIOUS
        <5>1. ~over /\ KeptFrom(log, fed, held, q.at, q.wt, q.cat)
          BY <1>1, <2>3, <2>6, <2>7, <3>4 DEF InWalk
        <5> QED
          BY <2>5, <5>1
      <4>3. ASSUME q.served, q.at = None, ~q.crowded, NEW p \in 1..fed', InQuery(log', p, q.wt, q.cat), Reaches(q, p)
            PROVE  p \in held' \cup q.events
        <5>1. held' = all /\ ~r.crowded
          BY <2>3, <2>4, <2>6, <2>7, <4>3
        <5>2. CASE p = fed + 1
          BY <5>1, <5>2 DEF all
        <5>3. CASE p \in 1..fed
          <6>1. Reaches(r, p) /\ InQuery(log, p, r.wt, r.cat) /\ r.served /\ r.at = None
            BY <1>1, <2>6, <2>7, <4>3 DEF Reaches
          <6>2. p \in held \cup r.events
            BY <3>4, <5>1, <5>3, <6>1 DEF InWalk
          <6> QED
            BY <2>6, <2>7, <5>1, <6>2 DEF all
        <5> QED
          BY <1>1, <1>2, <5>2, <5>3
      <4> QED
        BY <4>1, <4>2, <4>3 DEF InWalk
    <3> QED
      BY <2>6, <2>7, <3>1, <3>2, <3>3, <3>4
  <2>8. WalkCalls'
    BY <2>1, <2>7 DEF WalkCalls
  <2>9. AtRest' => AtRest
    <3>1. (\E r \in requests : r.inForce) => \E q \in requests' : q.inForce
      BY <2>1, <2>6
    <3> QED
      BY <1>1, <3>1 DEF AtRest
  <2>10. Here' = Here
    BY <1>1 DEF Here, Events!EventsWorktree
  <2>11. WalkCursor'
    <3>1. CASE over
      BY <2>1, <3>1 DEF WalkCursor
    <3>2. CASE ~over
      <4>1. cursor' = cursor /\ hasMore' = hasMore
        BY <2>1, <3>2
      <4>2. cursor' # None => hasMore'
        BY <4>1 DEF WalkCursor
      <4>3. ~crowded' /\ shown' /\ cursor' # None => KeptFrom(log', fed', held', cursor', Here', category')
        <5> SUFFICES ASSUME ~crowded', shown', cursor' # None PROVE KeptFrom(log', fed', held', cursor', Here', category')
          OBVIOUS
        <5>1. KeptFrom(log, fed, held, cursor, Here, category)
          BY <1>1, <4>1 DEF WalkCursor
        <5>2. KeptFrom(log', fed', held', cursor, Here, category)
          BY <2>5, <3>2, <5>1
        <5> QED
          BY <1>1, <2>10, <4>1, <5>2
      <4>4. ~crowded' /\ AtRest' /\ cursor' = None /\ ~hasMore' => KeptFrom(log', fed', held', 1, Here', category')
        <5> SUFFICES ASSUME ~crowded', AtRest', cursor' = None, ~hasMore' PROVE KeptFrom(log', fed', held', 1, Here', category')
          OBVIOUS
        <5>1. KeptFrom(log, fed, held, 1, Here, category)
          BY <1>1, <2>9, <4>1 DEF WalkCursor
        <5>2. KeptFrom(log', fed', held', 1, Here, category)
          BY <2>5, <3>2, <5>1
        <5> QED
          BY <1>1, <2>10, <5>2
      <4> QED
        BY <4>2, <4>3, <4>4 DEF WalkCursor
    <3> QED
      BY <3>1, <3>2
  <2> QED
    BY <2>8, <2>11
<1> QED
  BY <1>3, <1>4

\* A merged page, of the view that is shown, leaves no hole down to where it goes back.
LEMMA WalkMerge ==
  ASSUME EventsInv, NEW r \in PageCall, r.events \subseteq 1..Len(log), PageSound(log, r), InWalk(r),
         r.kind = "timeline", r.served, ~r.crowded, r.at # None => ~crowded /\ r.at \in 1..Len(log),
         NEW h, h = Events!Evict(held \cup r.events, r.at # None), r.at = None => r.events \subseteq h,
         NEW p \in 1..fed, InQuery(log, p, r.wt, r.cat), Reaches(r, p), p \notin h
  PROVE  Cardinality(h) >= Cap /\ \A q \in h : q < p
<1> DEFINE all == held \cup r.events
<1>1. all \in SUBSET (1..Len(log)) /\ Len(log) \in Nat /\ Cap \in Nat /\ p \in 1..Len(log)
  <2>1. fed \in 0..Len(log) /\ Len(log) \in Nat /\ held \subseteq 1..Len(log) /\ Cap \in Nat
    BY PanelsAssumption DEF EventsInv, EventsHeld
  <2>2. p \in 1..Len(log)
    BY <2>1
  <2> QED
    BY <2>1, <2>2
<1>2. IsFiniteSet(all) /\ Cardinality(all) \in Nat
  <2>1. IsFiniteSet(1..Len(log))
    BY <1>1, FS_Interval
  <2> HIDE DEF all
  <2> QED
    BY <1>1, <2>1, FS_Subset, FS_CardinalityType
<1>3. held \in SUBSET all /\ r.events \subseteq all /\ \A q \in all : q \in held \/ q \in r.events
  OBVIOUS
<1>4. h = IF r.at # None THEN Events!Oldest(Cap, all) ELSE Events!Newest(Cap, all)
  BY DEF Events!Evict
<1> HIDE DEF all
<1>5. CASE r.at # None
  <2>1. h = Events!Oldest(Cap, all)
    BY <1>4, <1>5
  <2>2. /\ h \subseteq all /\ (p \in all => \A q \in h : q < p)
        /\ h = all \/ Cardinality(h) >= Cap
    BY <1>1, <2>1, OldestBound, OldestBottom
  <2>3. CASE p \in all
    BY <2>2, <2>3
  <2>4. CASE p \notin all
    <3>1. p \notin held /\ p \notin r.events
      BY <1>3, <2>4
    <3>2. p >= r.at /\ \A q \in r.events : q < p
      BY <1>1, <1>5, <3>1 DEF PageSound
    <3>3. Cardinality(held) >= Cap /\ \A q \in held : q < p
      BY <1>5, <3>1, <3>2 DEF InWalk, KeptFrom
    <3>4. Cardinality(held) <= Cardinality(all) /\ IsFiniteSet(held)
      BY <1>2, <1>3, FS_Subset
    <3>5. Cardinality(held) \in Nat
      BY <3>4, FS_CardinalityType
    <3>6. Cardinality(h) >= Cap
      BY <1>1, <1>2, <2>2, <3>3, <3>4, <3>5
    <3> QED
      BY <1>3, <2>2, <3>2, <3>3, <3>6
  <2> QED
    BY <2>3, <2>4
<1>6. CASE r.at = None
  <2> SUFFICES FALSE
    OBVIOUS
  <2>1. h = Events!Newest(Cap, all)
    BY <1>4, <1>6
  <2>2. p \in all /\ p \notin r.events
    BY <1>6 DEF InWalk, all
  <2>3. \A q \in h : p < q
    BY <1>1, <2>1, <2>2, NewestTop
  <2>4. \A q \in r.events : q < p
    BY <1>1, <2>2 DEF PageSound
  <2>5. r.events = {}
    <3> SUFFICES ASSUME NEW q \in r.events PROVE FALSE
      OBVIOUS
    <3>1. q \in h
      BY <1>6
    <3>2. q < p /\ p < q
      BY <2>3, <2>4, <3>1
    <3>3. q \in Nat /\ p \in Nat
      BY <1>1
    <3> QED
      BY <3>2, <3>3
  <2>6. all = held
    BY <2>5 DEF all
  <2>7. h = held
    BY <1>1, <2>1, <2>6, NewestTop DEF EventsInv, EventsHeld
  <2> QED
    BY <2>2, <2>6, <2>7
<1> QED
  BY <1>5, <1>6

LEMMA WalkAnswered ==
  ASSUME EventsInv, WalkInv, Events!Answered
  PROVE  WalkInv'
<1> USE DEF WalkInv
<1>1. PICK r \in requests :
        /\ r.served /\ requests' = requests \ {r}
        /\ IF Events!Current(r)
           THEN LET all == held \cup r.events
                IN /\ held' = Events!Evict(all, r.at # None)
                   /\ crowded' = \/ r.crowded
                                 \/ r.at = None /\ ~(r.events \subseteq held')
                                 \/ r.kind = "activity" /\ Events!EvictsOlder(all, FALSE)
                                 \/ /\ crowded
                                    /\ \/ cursor # None \/ r.at # None \/ r.kind = "activity"
                                       \/ r.wt # Events!EventsWorktree(workspace, scopeWorktree)
                   /\ IF r.kind = "timeline"
                      THEN /\ Events!Pages(r, Events!EvictsOlder(all, r.at # None)) /\ historyError' = FALSE
                           /\ missed' = (missed /\ r.older)
                      ELSE UNCHANGED <<Events!pageVars, historyError, missed>>
           ELSE UNCHANGED <<held, Events!pageVars, historyError, missed, crowded>>
        /\ UNCHANGED <<arriving, log, fed, shown, tab, workspace, scopeWorktree, category, budget>>
  BY Zenon DEF Events!Answered
<1>2. UNCHANGED <<arriving, log, fed, shown, tab, workspace, scopeWorktree, category>> /\ requests' = requests \ {r} /\ r.served
  BY <1>1
<1>3. Here' = Here
  BY <1>2 DEF Here, Events!EventsWorktree
<1>4. /\ r \in PageCall /\ r.events \subseteq 1..Len(log) /\ (r.more => r.events # {}) /\ Len(log) \in Nat /\ fed \in Nat
      /\ CallSound(log, r) /\ PageSound(log, r) /\ (r.inForce => InView(r) /\ (r.kind = "timeline" => InWalk(r)))
  BY <1>2 DEF EventsInv, EventsHeld, EventsCalls, WalkCalls, CallSound
<1>5. CASE ~r.inForce
  <2>1. UNCHANGED <<held, cursor, hasMore, historyError, crowded>>
    BY <1>1, <1>5 DEF Events!Current, Events!pageVars
  <2>2. AtRest' => AtRest
    BY <1>2, <1>5, <2>1 DEF AtRest
  <2> QED
    BY <1>2, <1>3, <2>1, <2>2, WalkStays
<1>6. CASE r.inForce
  <2> DEFINE all == held \cup r.events
             over == Cardinality(all) > Cap
  <2>1. /\ held' = Events!Evict(all, r.at # None)
        /\ ~crowded' => /\ ~r.crowded /\ (r.at = None => r.events \subseteq held')
                        /\ ~(r.kind = "activity" /\ over)
                        /\ ~crowded \/ (cursor = None /\ r.at = None /\ r.kind # "activity" /\ r.wt = Here)
    BY <1>1, <1>6, EventsCardinality DEF Events!Current, Events!EvictsOlder, Here
  <2>2. all \in SUBSET (1..Len(log)) /\ held \in SUBSET all
    BY <1>4 DEF EventsInv, EventsHeld
  <2>3. IsFiniteSet(all) /\ Cardinality(all) \in Nat /\ Cap \in Nat
    <3>1. IsFiniteSet(1..Len(log))
      BY <1>4, FS_Interval
    <3> HIDE DEF all
    <3> QED
      BY <2>2, <3>1, FS_Subset, FS_CardinalityType, PanelsAssumption
  <2> HIDE DEF all
  <2>4. ~over /\ r.at = None => held' = all
    <3>1. r.at = None => held' = Events!Newest(Cap, all)
      BY <2>1 DEF Events!Evict
    <3>2. ~over => Cardinality(all) <= Cap
      BY <2>3
    <3>3. ~over => Events!Newest(Cap, all) = all
      BY <1>4, <2>2, <2>3, <3>2, NewestTop
    <3> QED
      BY <3>1, <3>3
  <2>5. ASSUME ~over, r.at = None, NEW b, NEW wt, NEW cat, KeptFrom(log, fed, held, b, wt, cat)
        PROVE  KeptFrom(log, fed, held', b, wt, cat)
    <3>1. held' = all /\ Cardinality(all) <= Cap
      BY <2>3, <2>4, <2>5
    <3>2. held' \in SUBSET (1..Len(log)) /\ Cardinality(held') <= Cap /\ held \in SUBSET held'
      BY <2>2, <3>1
    <3>3. \A p \in 1..fed : p \in 1..fed \/ p \in held'
      OBVIOUS
    <3> QED
      BY <1>4, <2>5, <3>2, <3>3, KeptGrows
  <2>6. shown /\ \A q \in requests' : ~q.inForce
    BY <1>2, <1>4, <1>6 DEF InView, EventsInv, EventsCalls
  <2>7. WalkCalls'
    BY <1>2, <2>6 DEF WalkCalls
  <2>8. r.kind = "activity" => tab # "timeline"
    BY <1>4, <1>6 DEF InView
  <2>9. CASE r.kind # "timeline"
    <3>1. cursor' = cursor /\ hasMore' = hasMore /\ r.at = None /\ r.kind = "activity"
      BY <1>1, <1>4, <1>6, <2>9, PageFields DEF Events!Current, Events!pageVars, CallSound
    <3>2. ~crowded' => ~over /\ ~crowded
      BY <2>1, <3>1
    <3>3. ~AtRest'
      BY <1>2, <2>8, <3>1 DEF AtRest
    <3>4. ~crowded' /\ shown' /\ cursor' # None => KeptFrom(log', fed', held', cursor', Here', category')
      <4> SUFFICES ASSUME ~crowded', shown', cursor' # None PROVE KeptFrom(log', fed', held', cursor', Here', category')
        OBVIOUS
      <4>1. KeptFrom(log, fed, held, cursor, Here, category)
        BY <1>2, <3>1, <3>2 DEF WalkCursor
      <4>2. KeptFrom(log, fed, held', cursor, Here, category)
        BY <2>5, <3>1, <3>2, <4>1
      <4> QED
        BY <1>2, <1>3, <3>1, <4>2
    <3>5. WalkCursor'
      BY <3>1, <3>3, <3>4 DEF WalkCursor
    <3> QED
      BY <2>7, <3>5
  <2>10. CASE r.kind = "timeline"
    <3>1. Events!Pages(r, Events!EvictsOlder(all, r.at # None))
      BY <1>1, <1>6, <2>10 DEF Events!Current, all
    <3>2. r.cat = category /\ InWalk(r)
      BY <1>4, <1>6, <2>10 DEF InView
    <3>3. ~crowded' => r.wt = Here /\ (r.at # None => ~crowded) /\ (cursor # None => ~crowded)
      BY <2>1, <3>2 DEF InWalk
    <3>4. ASSUME ~crowded', NEW p \in 1..fed, InQuery(log, p, Here, category), Reaches(r, p), p \notin held'
          PROVE  Cardinality(held') >= Cap /\ \A q \in held' : q < p
      <4>1. ~r.crowded /\ (r.at = None => r.events \subseteq held') /\ held' = Events!Evict(held \cup r.events, r.at # None)
        BY <2>1, <3>4 DEF all
      <4>2. r.at # None => ~crowded /\ r.at \in 1..Len(log)
        BY <1>4, <3>3, <3>4 DEF CallSound
      <4>3. InQuery(log, p, r.wt, r.cat)
        BY <3>2, <3>3, <3>4
      <4> QED
        BY <1>2, <1>4, <2>10, <3>2, <3>4, <4>1, <4>2, <4>3, WalkMerge
    <3>5. CASE r.older \/ cursor = None
      <4>1. cursor' = Events!NextCursor(r) /\ hasMore' = r.more
        BY <3>1, <3>5 DEF Events!Pages
      <4>2. r.more => cursor' \in r.events
        <5>1. ASSUME r.more
              PROVE  \E p \in r.events : \A q \in r.events : p <= q
          <6>1. r.events \in SUBSET Nat /\ r.events # {}
            BY <1>4, <5>1
          <6> QED
            BY <6>1, LeastOf
        <5> QED
          BY <4>1, <5>1 DEF Events!NextCursor
      <4>3. ~r.more => cursor' = None
        BY <1>4, <4>1, PageFields DEF Events!NextCursor
      <4>4. cursor' # None => hasMore'
        BY <4>1, <4>3
      <4>5. ~crowded' /\ cursor' # None => KeptFrom(log', fed', held', cursor', Here', category')
        <5> SUFFICES ASSUME ~crowded', cursor' # None PROVE KeptFrom(log, fed, held', cursor', Here, category)
          BY <1>2, <1>3
        <5>1. cursor' \in r.events
          BY <4>2, <4>3
        <5>2. \A p \in 1..fed : p >= cursor' => Reaches(r, p)
          BY <1>4, <5>1 DEF Reaches
        <5> QED
          BY <3>4, <5>2 DEF KeptFrom
      <4>6. ~crowded' /\ ~hasMore' => KeptFrom(log', fed', held', 1, Here', category')
        <5> SUFFICES ASSUME ~crowded', ~hasMore' PROVE KeptFrom(log, fed, held', 1, Here, category)
          BY <1>2, <1>3
        <5>1. \A p \in 1..fed : Reaches(r, p)
          BY <4>1 DEF Reaches
        <5> QED
          BY <3>4, <5>1 DEF KeptFrom
      <4>7. WalkCursor'
        BY <4>4, <4>5, <4>6 DEF WalkCursor
      <4> QED
        BY <2>7, <4>7
    <3>6. CASE ~r.older /\ cursor # None
      <4>1. r.at = None /\ (crowded' \/ ~crowded)
        BY <1>4, <3>3, <3>6 DEF CallSound
      <4>2. CASE over
        <5>1. cursor' = None /\ hasMore' = TRUE
          BY <3>1, <3>6, <4>1, <4>2, EventsCardinality DEF Events!Pages, Events!EvictsOlder
        <5> QED
          BY <2>7, <5>1 DEF WalkCursor
      <4>3. CASE ~over
        <5>1. cursor' = cursor /\ hasMore' = hasMore
          BY <3>1, <3>6, <4>3, EventsCardinality DEF Events!Pages, Events!EvictsOlder, Events!pageVars
        <5>2. ~crowded' => KeptFrom(log', fed', held', cursor', Here', category')
          <6> SUFFICES ASSUME ~crowded' PROVE KeptFrom(log', fed', held', cursor', Here', category')
            OBVIOUS
          <6>1. KeptFrom(log, fed, held, cursor, Here, category)
            BY <2>6, <3>6, <4>1 DEF WalkCursor
          <6>2. KeptFrom(log, fed, held', cursor, Here, category)
            BY <2>5, <4>1, <4>3, <6>1
          <6> QED
            BY <1>2, <1>3, <5>1, <6>2
        <5>3. WalkCursor'
          BY <3>6, <5>1, <5>2 DEF WalkCursor
        <5> QED
          BY <2>7, <5>3
      <4> QED
        BY <4>2, <4>3
    <3> QED
      BY <1>4, <3>5, <3>6, PageFields
  <2> QED
    BY <2>9, <2>10
<1> QED
  BY <1>4, <1>5, <1>6, PageFields

\* A view narrowed to w has kept what the view before it had, if that showed an event of w.
LEMMA KeptNarrows ==
  ASSUME NEW l, NEW f, NEW h, NEW b, NEW wt, NEW cat, KeptFrom(l, f, h, b, wt, cat), wt = None \/ wt = "w"
  PROVE  KeptFrom(l, f, h, b, "w", cat)
BY DEF KeptFrom, InQuery

LEMMA WalkOlder ==
  ASSUME EventsInv, WalkInv, EventsInv', Events!LoadOlder
  PROVE  WalkInv'
<1>1. UNCHANGED <<log, fed, held, shown, tab, workspace, scopeWorktree, category, cursor, hasMore, crowded>> /\ Events!Loads(TRUE)
  BY DEF Events!LoadOlder, Events!pageVars
<1>2. Here' = Here
  BY <1>1 DEF Here, Events!EventsWorktree
<1>3. cursor' # None => hasMore'
  BY <1>1 DEF WalkInv, WalkCursor
<1>4. ~crowded' /\ shown' /\ cursor' # None => KeptFrom(log, fed, held, cursor', Here', category')
  BY <1>1, <1>2 DEF WalkInv, WalkCursor
<1>5. EventsView' /\ cursor' \in 1..Len(log) \cup {None}
  BY <1>1 DEF EventsInv, EventsCalls
<1> QED
  BY <1>1, <1>3, <1>4, <1>5, WalkLoads

LEMMA WalkSnapshot ==
  ASSUME EventsInv, WalkInv, EventsInv', Events!SnapshotLands
  PROVE  WalkInv'
<1>1. UNCHANGED <<log, fed, held, shown, tab, scopeWorktree, category, hasMore, historyError, crowded>>
      /\ \/ workspace' = "w" /\ scopeWorktree = "w" /\ workspace # "w" /\ cursor' = None
         \/ workspace' = workspace /\ cursor' = cursor
  BY DEF Events!SnapshotLands
<1>2. Here' = Here
  <2>1. workspace \in {None, "w"} /\ workspace' \in {None, "w"}
    BY DEF EventsInv, EventsView
  <2> QED
    BY <1>1, <2>1 DEF Here, Events!EventsWorktree
<1>3. cursor' # None => cursor' = cursor /\ hasMore' = hasMore /\ hasMore'
  BY <1>1 DEF WalkInv, WalkCursor
<1>4. CASE \E r \in requests : r.inForce
  <2>1. requests' = requests
    BY <1>4 DEF Events!SnapshotLands
  <2>2. ~AtRest'
    BY <1>4, <2>1 DEF AtRest
  <2> QED
    BY <1>1, <1>2, <1>3, <2>1, <2>2, WalkStays
<1>5. CASE ~\E r \in requests : r.inForce
  <2>1. Events!Loads(FALSE)
    BY <1>5 DEF Events!SnapshotLands
  <2>2. ~crowded' /\ shown' /\ cursor' # None => KeptFrom(log, fed, held, cursor', Here', category')
    BY <1>1, <1>2, <1>3 DEF WalkInv, WalkCursor
  <2>3. EventsView' /\ cursor' \in 1..Len(log) \cup {None}
    BY <1>1 DEF EventsInv, EventsCalls
  <2> QED
    BY <1>1, <1>3, <2>1, <2>2, <2>3, WalkLoads
<1> QED
  BY <1>4, <1>5

\* A walk that begins again at the head.
LEMMA WalkRestarts ==
  ASSUME EventsInv, WalkInv, EventsInv', Events!Loads(FALSE), cursor' = None, UNCHANGED <<log, fed, held>>
  PROVE  WalkInv'
<1>1. EventsView' /\ cursor' \in 1..Len(log) \cup {None}
  BY DEF EventsInv
<1> QED
  BY <1>1, WalkLoads

LEMMA WalkShowsInGraph ==
  ASSUME EventsInv, WalkInv, EventsInv', Events!ShowInGraph
  PROVE  WalkInv'
<1>1. UNCHANGED <<log, fed, held, shown, category, cursor, hasMore, crowded>> /\ Events!Loads(FALSE)
      /\ workspace' = "w" /\ scopeWorktree' = "w"
  BY DEF Events!ShowInGraph, Events!pageVars
<1>2. Here = None \/ Here = "w"
  <2>1. \E p \in held : Events!Matches(p, Here, category) /\ log[p] = "w"
    BY DEF Events!ShowInGraph, Here
  <2> QED
    BY <2>1 DEF Events!Matches
<1>3. Here' = "w"
  BY <1>1 DEF Here, Events!EventsWorktree
<1>4. ~crowded' /\ shown' /\ cursor' # None => KeptFrom(log, fed, held, cursor', Here', category')
  <2> SUFFICES ASSUME ~crowded', shown', cursor' # None PROVE KeptFrom(log, fed, held, cursor, Here', category)
    BY <1>1
  <2>1. KeptFrom(log, fed, held, cursor, Here, category)
    BY <1>1 DEF WalkInv, WalkCursor
  <2>2. KeptFrom(log, fed, held, cursor, "w", category)
    BY <1>2, <2>1, KeptNarrows
  <2> QED
    BY <1>3, <2>2
<1>5. EventsView' /\ cursor' \in 1..Len(log) \cup {None} /\ (cursor' # None => hasMore')
  BY <1>1 DEF EventsInv, EventsCalls, WalkInv, WalkCursor
<1> QED
  BY <1>1, <1>4, <1>5, WalkLoads

LEMMA WalkScopeMoves ==
  ASSUME EventsInv, WalkInv, EventsInv', Events!ScopeMoves
  PROVE  WalkInv'
<1>1. UNCHANGED <<log, fed, held, shown, tab, category, historyError, arriving>> /\ crowded' = (crowded \/ (shown /\ Events!Unrestarted))
  BY DEF Events!ScopeMoves
<1>2. CASE ~shown
  <2>1. UNCHANGED <<cursor, hasMore, requests>>
    BY <1>2 DEF Events!ScopeMoves, Events!Stays, Events!pageVars
  <2>2. \A r \in requests : ~r.inForce
    BY <1>2 DEF WalkInv, WalkCalls, InView
  <2> QED
    BY <1>1, <1>2, <2>1, <2>2, WalkAway
<1>3. CASE shown
  <2>1. \/ UNCHANGED <<workspace, cursor, hasMore, requests>>
        \/ cursor' = None /\ Events!Loads(FALSE)
    BY <1>3 DEF Events!ScopeMoves, Events!ClearsLocal, Events!Applies, Events!NarrowsFeed, Events!Stays, Events!pageVars
  <2>2. CASE UNCHANGED <<workspace, cursor, hasMore, requests>>
    <3>1. ~crowded' => ~crowded /\ Here' = Here
      BY <1>1, <1>3, <2>2 DEF Events!Unrestarted, Here, Events!EventsWorktree
    <3>2. AtRest' => AtRest
      BY <1>1, <2>2 DEF AtRest
    <3> QED
      BY <1>1, <2>2, <3>1, <3>2, WalkStays
  <2>3. CASE cursor' = None /\ Events!Loads(FALSE)
    BY <1>1, <2>3, WalkRestarts
  <2> QED
    BY <2>1, <2>2, <2>3
<1> QED
  BY <1>2, <1>3

LEMMA WalkShow ==
  ASSUME EventsInv, WalkInv, EventsInv', Events!Show
  PROVE  WalkInv'
<1>1. UNCHANGED <<log, fed, held, workspace, scopeWorktree, category, historyError, crowded>> /\ arriving' = (arriving \/ ~shown)
      /\ \/ cursor' = None /\ hasMore' = FALSE
         \/ ~Events!Restarts /\ cursor' = cursor /\ hasMore' = hasMore
  BY DEF Events!Show, Events!pageVars
<1>2. CASE ~shown
  <2>1. requests' = requests /\ arriving' /\ cursor' = None
    BY <1>1, <1>2 DEF Events!Show, Events!Restarts
  <2>2. \A r \in requests : ~r.inForce
    BY <1>2 DEF WalkInv, WalkCalls, InView
  <2> QED
    BY <1>1, <2>1, <2>2, WalkAway
<1>3. CASE shown
  <2>1. Events!Loads(FALSE) /\ Here' = Here
    BY <1>1, <1>3 DEF Events!Show, Here, Events!EventsWorktree
  <2>2. cursor' # None => cursor' = cursor /\ hasMore' = hasMore /\ hasMore'
    BY <1>1 DEF WalkInv, WalkCursor
  <2>3. ~crowded' /\ shown' /\ cursor' # None => KeptFrom(log, fed, held, cursor', Here', category')
    BY <1>1, <1>3, <2>1, <2>2 DEF WalkInv, WalkCursor
  <2>4. EventsView' /\ cursor' \in 1..Len(log) \cup {None}
    BY <1>1 DEF EventsInv, EventsCalls
  <2> QED
    BY <1>1, <2>1, <2>2, <2>3, <2>4, WalkLoads
<1> QED
  BY <1>2, <1>3

LEMMA WalkStep ==
  ASSUME EventsInv, WalkInv, [Events!Next]_(Events!vars)
  PROVE  WalkInv'
<1>0. EventsInv'
  BY EventsStep
<1>1. CASE UNCHANGED Events!vars
  <2>1. UNCHANGED <<log, fed, held, shown, tab, category, cursor, hasMore, requests, historyError, arriving, crowded>> /\ Here' = Here
    BY <1>1 DEF Events!vars, Here, Events!EventsWorktree
  <2>2. AtRest' => AtRest
    BY <2>1 DEF AtRest
  <2> QED
    BY <2>1, <2>2, WalkStays
<1>2. CASE Events!SetQuery
  BY <1>0, <1>2, WalkRestarts DEF Events!SetQuery
<1>3. CASE Events!SelectWorkspace
  BY <1>0, <1>3, WalkRestarts DEF Events!SelectWorkspace
<1>4. CASE Events!Hide
  <2>1. UNCHANGED <<log, fed, held, cursor, hasMore>> /\ ~shown' /\ requests' = Events!Superseded
    BY <1>4 DEF Events!Hide, Events!pageVars
  <2>2. \A r \in requests' : ~r.inForce
    BY <2>1, PagesSuperseded
  <2> QED
    BY <2>1, <2>2, WalkAway
<1> QED
  BY <1>0, <1>1, <1>2, <1>3, <1>4, WalkCapture, WalkServe, WalkAnswered, WalkFails, WalkDeliver, WalkOlder, WalkSnapshot,
     WalkShowsInGraph, WalkScopeMoves, WalkShow
  DEF Events!Next
HIDE DEF log, workspace, fed, held, tab, scopeWorktree, category, cursor, hasMore, missed, historyError, crowded, arriving

----------------------------------------------------------------------------
(* Activity.                                                               *)

host == x5
view == x7
privacy == x8
resp == x9
fetchedKey == x10
stale == x11
brush == x12
drags == x13
USE DEF failed, host, repo, view, privacy, resp, fetchedKey, stale, brush, drags

MapCall == [inForce : BOOLEAN, key : Activity!Keys, served : BOOLEAN]
MapDrag == [pointer : Activity!Pointers, key : Activity!Keys, gen : BOOLEAN, latest : BOOLEAN]

ActivityTyped ==
  /\ host \in [key : Activity!Keys, minimal : BOOLEAN] /\ repo \in Repos \cup {None} /\ view \in Views
  /\ resp \in Activity!Keys \cup {None} /\ fetchedKey \in Activity!Keys \cup {None}
  /\ privacy \in BOOLEAN /\ active \in BOOLEAN /\ failed \in BOOLEAN /\ stale \in BOOLEAN /\ brush \in BOOLEAN
  /\ drags \subseteq MapDrag
  /\ requests \subseteq MapCall /\ IsFiniteSet(requests) /\ Cardinality(requests) <= MaxOverlap

\* The answer, and the request in force, are for the key fetched last, which is the one of
\* the scope; and there is neither when the privacy mode forbids it.
ActivityKept ==
  /\ resp # None => ~privacy /\ resp = fetchedKey /\ resp = <<repo, view>>
  /\ \A r \in requests : r.inForce => ~privacy /\ r.key = fetchedKey /\ r.key = <<repo, view>>
  /\ failed \/ requests # {} => repo \in Repos

ActivityInv == ActivityTyped /\ ActivityKept

LEMMA ActivityCardinality == \A S : Activity!Cardinality(S) = Cardinality(S)
BY Zenon DEF Activity!Cardinality, Cardinality

LEMMA MapCallFields ==
  ASSUME NEW r \in MapCall
  PROVE  r.inForce \in BOOLEAN /\ r.key \in Activity!Keys /\ r.served \in BOOLEAN
BY DEF MapCall

LEMMA MapDragFields ==
  ASSUME NEW d \in MapDrag
  PROVE  d.pointer \in Activity!Pointers /\ d.key \in Activity!Keys /\ d.gen \in BOOLEAN /\ d.latest \in BOOLEAN
BY DEF MapDrag

LEMMA KeysAre ==
  /\ None \notin Activity!Keys
  /\ \A r \in Repos, v \in Views : <<r, v>> \in Activity!Keys
  /\ \A k \in Activity!Keys : k[1] \in Repos /\ k[2] \in Views /\ k = <<k[1], k[2]>>
BY PanelsAssumption DEF Activity!Keys

LEMMA ActivityInit == Activity!Init => ActivityInv
<1> SUFFICES ASSUME Activity!Init PROVE ActivityInv
  OBVIOUS
<1>1. /\ host \in [key : Activity!Keys, minimal : {FALSE}] /\ repo = None /\ view = host.key[2] /\ privacy = FALSE
      /\ active = FALSE /\ resp = None /\ requests = {} /\ fetchedKey = None /\ failed = FALSE /\ stale = FALSE
      /\ brush = FALSE /\ drags = {}
  BY DEF Activity!Init
<1>2. host \in [key : Activity!Keys, minimal : BOOLEAN] /\ host.key \in Activity!Keys
  BY <1>1
<1>3. view \in Views
  BY <1>1, <1>2, KeysAre
<1>4. IsFiniteSet(requests) /\ Cardinality(requests) <= MaxOverlap
  BY <1>1, FS_EmptySet, PanelsAssumption
<1>5. ActivityTyped
  BY <1>1, <1>2, <1>3, <1>4 DEF ActivityTyped
<1>6. ActivityKept
  BY <1>1 DEF ActivityKept
<1> QED
  BY <1>5, <1>6 DEF ActivityInv

LEMMA MapAborted ==
  ASSUME ActivityInv
  PROVE  /\ Activity!Aborted \subseteq MapCall /\ IsFiniteSet(Activity!Aborted) /\ Cardinality(Activity!Aborted) <= MaxOverlap
         /\ \A r \in Activity!Aborted : ~r.inForce
         /\ Activity!Aborted # {} => requests # {}
<1> USE DEF ActivityInv
<1> DEFINE f == [r \in requests |-> [r EXCEPT !.inForce = FALSE]]
<1>1. Activity!Aborted = {f[r] : r \in requests} /\ DOMAIN f = requests /\ f = [r \in requests |-> f[r]]
  BY DEF Activity!Aborted
<1>2. \A r \in requests : f[r] \in MapCall /\ f[r].inForce = FALSE
  BY DEF ActivityTyped, MapCall
<1> HIDE DEF f
<1>3. /\ IsFiniteSet(Activity!Aborted) /\ Cardinality(Activity!Aborted) \in Nat
      /\ Cardinality(requests) \in Nat /\ Cardinality(Activity!Aborted) <= Cardinality(requests)
  BY <1>1, ImageBound DEF ActivityTyped
<1>4. Cardinality(Activity!Aborted) <= MaxOverlap
  BY <1>3, PanelsAssumption DEF ActivityTyped
<1> QED
  BY <1>1, <1>2, <1>3, <1>4

\* What load leaves: of the answer and the key it was fetched for, what was kept of them.
LEMMA MapLoads ==
  ASSUME ActivityInv, NEW force \in BOOLEAN, NEW kept, NEW fetched, Activity!Load(force, kept, fetched),
         privacy' \in BOOLEAN, repo' \in Repos, view' \in Views,
         \/ kept = None /\ fetched = None
         \/ kept = resp /\ fetched = fetchedKey /\ repo' = repo /\ privacy' = privacy
  PROVE  /\ resp' \in Activity!Keys \cup {None} /\ fetchedKey' \in Activity!Keys \cup {None}
         /\ failed' \in BOOLEAN /\ stale' \in BOOLEAN
         /\ requests' \subseteq MapCall /\ IsFiniteSet(requests') /\ Cardinality(requests') <= MaxOverlap
         /\ ActivityKept'
<1> USE DEF ActivityInv
<1> DEFINE key == <<repo', view'>>
<1>1. key \in Activity!Keys /\ key # None
  BY KeysAre
<1>2. kept \in Activity!Keys \cup {None} /\ fetched \in Activity!Keys \cup {None} /\ (kept # None => kept = fetchedKey)
  BY DEF ActivityTyped, ActivityKept
<1>3. CASE privacy'
  <2>1. resp' = kept /\ fetchedKey' = fetched /\ requests' = Activity!Aborted /\ failed' = failed /\ stale' = stale
    BY <1>3 DEF Activity!Load
  <2>2. kept = None
    BY <1>3 DEF ActivityKept
  <2> QED
    BY <1>2, <2>1, <2>2, MapAborted DEF ActivityTyped, ActivityKept
<1>4. CASE ~privacy' /\ (~force /\ ~failed /\ key = fetched /\ (~stale \/ Activity!InFlight))
  <2>1. resp' = kept /\ fetchedKey' = fetched /\ requests' = requests /\ failed' = failed /\ stale' = stale
    BY <1>4 DEF Activity!Load
  <2>2. kept = resp /\ fetched = fetchedKey /\ repo' = repo /\ privacy' = privacy /\ fetchedKey = key
    BY <1>1, <1>4
  <2>3. resp # None => resp = key
    BY <2>2 DEF ActivityKept
  <2>4. \A r \in requests : r.inForce => r.key = key
    BY <2>2 DEF ActivityKept
  <2>5. ActivityKept'
    BY <1>4, <2>1, <2>2, <2>3, <2>4 DEF ActivityKept
  <2> QED
    BY <1>2, <2>1, <2>5 DEF ActivityTyped
<1>5. CASE ~privacy' /\ ~(~force /\ ~failed /\ key = fetched /\ (~stale \/ Activity!InFlight))
  <2> DEFINE new == [inForce |-> TRUE, key |-> key, served |-> FALSE]
             f == [r \in requests |-> [r EXCEPT !.inForce = FALSE]]
  <2>1. /\ Cardinality(requests) < MaxOverlap /\ fetchedKey' = key
        /\ resp' = (IF fetchedKey' = fetchedKey THEN kept ELSE None)
        /\ requests' = Activity!Aborted \cup {new} /\ failed' = FALSE /\ stale' = stale
    BY <1>5, ActivityCardinality DEF Activity!Load, Activity!Shown
  <2>2. f \in Surjection(requests, Activity!Aborted)
    BY DEF Surjection, Activity!Aborted
  <2>3. IsFiniteSet(requests) /\ MaxOverlap \in Nat
    BY PanelsAssumption DEF ActivityTyped
  <2>4. new \in MapCall /\ new.inForce = TRUE /\ new.key = key
    BY <1>1 DEF MapCall
  <2> HIDE DEF f, new
  <2>5. IsFiniteSet(requests') /\ Cardinality(requests') <= MaxOverlap
    <3>1. IsFiniteSet(Activity!Aborted \cup {new}) /\ Cardinality(Activity!Aborted \cup {new}) <= MaxOverlap
      BY <2>1, <2>2, <2>3, JoinBound
    <3> QED
      BY <2>1, <3>1
  <2>6. resp' # None => resp' = key
    BY <1>2, <2>1
  <2>7. resp' \in Activity!Keys \cup {None}
    BY <1>2, <2>1
  <2>8. ActivityKept'
    BY <1>5, <2>1, <2>4, <2>6, MapAborted DEF ActivityKept
  <2>9. stale' \in BOOLEAN /\ failed' \in BOOLEAN /\ requests' \subseteq MapCall
    BY <2>1, <2>4, MapAborted DEF ActivityTyped
  <2> QED
    BY <1>1, <2>1, <2>5, <2>7, <2>8, <2>9
<1> QED
  BY <1>3, <1>4, <1>5

LEMMA ActivityUpdates ==
  ASSUME ActivityInv, Activity!Update
  PROVE  ActivityInv'
<1> USE DEF ActivityInv
<1>1. host' = host /\ active' = active /\ host.key \in Activity!Keys /\ host.minimal \in BOOLEAN
  BY DEF Activity!Update, ActivityTyped
<1>2. repo' \in Repos /\ view' \in Views /\ privacy' \in BOOLEAN
  BY <1>1, KeysAre DEF Activity!Update
<1> DEFINE drops == repo' # repo \/ privacy' # privacy
           kept == IF drops THEN None ELSE resp
           fetched == IF drops THEN None ELSE fetchedKey
<1>3. Activity!Load(FALSE, kept, fetched)
  BY DEF Activity!Update
<1>4. \/ kept = None /\ fetched = None
      \/ kept = resp /\ fetched = fetchedKey /\ repo' = repo /\ privacy' = privacy
  OBVIOUS
<1> HIDE DEF drops, kept, fetched
<1>5. /\ resp' \in Activity!Keys \cup {None} /\ fetchedKey' \in Activity!Keys \cup {None}
      /\ failed' \in BOOLEAN /\ stale' \in BOOLEAN
      /\ requests' \subseteq MapCall /\ IsFiniteSet(requests') /\ Cardinality(requests') <= MaxOverlap
      /\ ActivityKept'
  BY <1>2, <1>3, <1>4, MapLoads
<1>6. drags' \subseteq MapDrag /\ brush' \in BOOLEAN
  <2>1. (drags' = Activity!Torn /\ brush' = FALSE) \/ (drags' = drags /\ brush' = brush)
    BY DEF Activity!Update
  <2>2. Activity!Torn \subseteq MapDrag
    BY DEF Activity!Torn, ActivityTyped, MapDrag
  <2> QED
    BY <2>1, <2>2 DEF ActivityTyped
<1>7. ActivityTyped'
  BY <1>1, <1>2, <1>5, <1>6 DEF ActivityTyped
<1> QED
  BY <1>5, <1>7

LEMMA ActivityRetries ==
  ASSUME ActivityInv, Activity!Retry
  PROVE  ActivityInv'
<1> USE DEF ActivityInv
<1>1. UNCHANGED <<host, repo, view, privacy, active, brush, drags>> /\ failed
  BY DEF Activity!Retry, Activity!scopeVars
<1>2. repo' \in Repos /\ view' \in Views /\ privacy' \in BOOLEAN /\ repo' = repo /\ privacy' = privacy
  BY <1>1 DEF ActivityTyped, ActivityKept
<1>3. Activity!Load(TRUE, resp, fetchedKey)
  BY DEF Activity!Retry
<1>4. /\ resp' \in Activity!Keys \cup {None} /\ fetchedKey' \in Activity!Keys \cup {None}
      /\ failed' \in BOOLEAN /\ stale' \in BOOLEAN
      /\ requests' \subseteq MapCall /\ IsFiniteSet(requests') /\ Cardinality(requests') <= MaxOverlap
      /\ ActivityKept'
  BY <1>2, <1>3, MapLoads
<1>5. ActivityTyped'
  BY <1>1, <1>4 DEF ActivityTyped
<1> QED
  BY <1>4, <1>5

\* What the requests do.
LEMMA ActivityAnswers ==
  ASSUME ActivityInv, Activity!Serve \/ Activity!Answered \/ Activity!Fails
  PROVE  ActivityInv'
<1> USE DEF ActivityInv
<1>1. UNCHANGED <<host, repo, view, privacy, active, fetchedKey, brush, drags>>
  BY DEF Activity!Serve, Activity!Answered, Activity!Fails, Activity!scopeVars
<1>2. CASE Activity!Serve
  <2>1. PICK r \in requests : requests' = (requests \ {r}) \cup {[r EXCEPT !.served = TRUE]}
    BY <1>2 DEF Activity!Serve
  <2> DEFINE q == [r EXCEPT !.served = TRUE]
  <2>2. q \in MapCall /\ q.inForce = r.inForce /\ q.key = r.key
    BY DEF ActivityTyped, MapCall
  <2>3. requests' = (requests \ {r}) \cup {q} /\ UNCHANGED <<resp, failed, stale>>
    BY <1>2, <2>1 DEF Activity!Serve
  <2> HIDE DEF q
  <2>4. IsFiniteSet(requests') /\ Cardinality(requests') <= Cardinality(requests)
        /\ Cardinality(requests) \in Nat /\ Cardinality(requests') \in Nat
    BY <2>3, SwapBound, FS_CardinalityType DEF ActivityTyped
  <2>5. Cardinality(requests') <= MaxOverlap
    BY <2>4, PanelsAssumption DEF ActivityTyped
  <2>6. ActivityTyped'
    BY <1>1, <2>2, <2>3, <2>4, <2>5 DEF ActivityTyped
  <2>7. ActivityKept'
    BY <1>1, <2>2, <2>3 DEF ActivityKept
  <2> QED
    BY <2>6, <2>7
<1>3. CASE Activity!Answered \/ Activity!Fails
  <2>1. PICK r \in requests : /\ requests' = requests \ {r}
                              /\ \/ r.inForce /\ resp' = r.key
                                 \/ resp' = resp
                              /\ stale' \in {FALSE, stale, stale /\ ~r.inForce} /\ failed' \in {failed, failed \/ r.inForce}
    BY <1>3 DEF Activity!Answered, Activity!Fails, Activity!Current, Activity!Failed
  <2>2. r \in MapCall /\ r.inForce \in BOOLEAN /\ r.key \in Activity!Keys
    BY MapCallFields DEF ActivityTyped
  <2>3. IsFiniteSet(requests') /\ Cardinality(requests') <= Cardinality(requests)
        /\ Cardinality(requests) \in Nat /\ Cardinality(requests') \in Nat
    BY <2>1, DropBound, FS_CardinalityType DEF ActivityTyped
  <2>4. Cardinality(requests') <= MaxOverlap
    BY <2>3, PanelsAssumption DEF ActivityTyped
  <2>5. resp' \in Activity!Keys \cup {None}
    BY <2>1, <2>2 DEF ActivityTyped
  <2>6. stale' \in BOOLEAN /\ failed' \in BOOLEAN
    <3>1. stale \in BOOLEAN /\ failed \in BOOLEAN
      BY DEF ActivityTyped
    <3> QED
      BY <2>1, <2>2, <3>1, Zenon
  <2>7. ActivityTyped'
    BY <1>1, <2>1, <2>3, <2>4, <2>5, <2>6 DEF ActivityTyped
  <2>8. repo \in Repos
    BY DEF ActivityKept
  <2>9. ActivityKept'
    BY <1>1, <2>1, <2>8 DEF ActivityKept
  <2> QED
    BY <2>7, <2>9
<1> QED
  BY <1>2, <1>3

\* What the user does with the brush and the host with the panel.
LEMMA ActivitySame ==
  ASSUME ActivityInv, UNCHANGED <<repo, view, privacy, resp, requests, fetchedKey, failed>>,
         stale' \in BOOLEAN, host' \in [key : Activity!Keys, minimal : BOOLEAN], active' \in BOOLEAN, brush' \in BOOLEAN,
         drags' \subseteq MapDrag
  PROVE  ActivityInv'
<1>1. ActivityTyped'
  BY DEF ActivityInv, ActivityTyped
<1>2. ActivityKept'
  BY DEF ActivityInv, ActivityKept
<1> QED
  BY <1>1, <1>2 DEF ActivityInv

LEMMA ActivityStep == ActivityInv /\ [Activity!Next]_(Activity!vars) => ActivityInv'
<1> SUFFICES ASSUME ActivityInv, [Activity!Next]_(Activity!vars) PROVE ActivityInv'
  OBVIOUS
<1> USE DEF ActivityInv, Activity!answerVars, Activity!scopeVars
<1>0. /\ stale \in BOOLEAN /\ host \in [key : Activity!Keys, minimal : BOOLEAN] /\ active \in BOOLEAN /\ brush \in BOOLEAN
      /\ drags \subseteq MapDrag /\ host.key \in Activity!Keys
  BY DEF ActivityTyped
<1>1. \A v \in Views : <<host.key[1], v>> \in Activity!Keys
  BY <1>0, KeysAre
<1>2. CASE UNCHANGED Activity!vars
  BY <1>0, <1>2, ActivitySame DEF Activity!vars
<1>3. CASE Activity!HostMoves \/ Activity!Pan
  <2>1. host' \in [key : Activity!Keys, minimal : BOOLEAN]
    <3>1. \/ \E k \in Activity!Keys : host' = [host EXCEPT !.key = k]
          \/ host' = [host EXCEPT !.minimal = ~@]
          \/ \E v \in Views : host' = [host EXCEPT !.key[2] = v]
      BY <1>3 DEF Activity!HostMoves, Activity!Pan
    <3>2. CASE \E k \in Activity!Keys : host' = [host EXCEPT !.key = k]
      BY <1>0, <3>2
    <3>3. CASE host' = [host EXCEPT !.minimal = ~@]
      BY <1>0, <3>3
    <3>4. CASE \E v \in Views : host' = [host EXCEPT !.key[2] = v]
      <4>1. PICK v \in Views : host' = [host EXCEPT !.key[2] = v]
        BY <3>4
      <4>2. host' = [host EXCEPT !.key = [host.key EXCEPT ![2] = v]]
        BY <4>1
      <4>3. [host.key EXCEPT ![2] = v] \in Activity!Keys
        BY <1>0 DEF Activity!Keys
      <4> QED
        BY <1>0, <4>2, <4>3
    <3> QED
      BY <3>1, <3>2, <3>3, <3>4
  <2> QED
    BY <1>0, <1>3, <2>1, ActivitySame DEF Activity!HostMoves, Activity!Pan
<1>4. CASE Activity!TimePasses \/ Activity!Activate
  BY <1>0, <1>4, ActivitySame DEF Activity!TimePasses, Activity!Activate
<1>5. CASE Activity!Deactivate
  <2>1. Activity!Torn \subseteq MapDrag
    BY DEF Activity!Torn, ActivityTyped, MapDrag
  <2> QED
    BY <1>0, <1>5, <2>1, ActivitySame DEF Activity!Deactivate
<1>6. CASE Activity!PointerDown
  <2>1. PICK p \in Activity!Pointers :
          drags' = {[d EXCEPT !.latest = FALSE] : d \in drags}
                   \cup {[pointer |-> p, key |-> <<repo, view>>, gen |-> TRUE, latest |-> TRUE]}
    BY <1>6 DEF Activity!PointerDown, Activity!ScopeKey
  <2>2. <<repo, view>> \in Activity!Keys
    BY <1>6 DEF Activity!PointerDown, ActivityTyped, ActivityKept
  <2>3. {[d EXCEPT !.latest = FALSE] : d \in drags} \subseteq MapDrag
    BY <1>0 DEF MapDrag
  <2>4. [pointer |-> p, key |-> <<repo, view>>, gen |-> TRUE, latest |-> TRUE] \in MapDrag
    BY <2>2 DEF MapDrag
  <2>5. drags' \subseteq MapDrag
    BY <2>1, <2>3, <2>4
  <2> QED
    BY <1>0, <1>6, <2>5, ActivitySame DEF Activity!PointerDown
<1>7. CASE Activity!PointerMove \/ Activity!Abandon
  <2>1. drags' \subseteq drags /\ brush' \in BOOLEAN
    BY <1>0, <1>7 DEF Activity!PointerMove, Activity!Abandon
  <2> QED
    BY <1>0, <1>7, <2>1, ActivitySame DEF Activity!PointerMove, Activity!Abandon
<1>8. CASE Activity!PointerUp
  <2>1. drags' \subseteq drags /\ brush' = FALSE
    BY <1>8 DEF Activity!PointerUp
  <2>2. host' = host \/ \E v \in Views : host' = [host EXCEPT !.key = <<host.key[1], v>>]
    BY <1>8 DEF Activity!PointerUp
  <2>3. host' \in [key : Activity!Keys, minimal : BOOLEAN]
    BY <1>0, <1>1, <2>2
  <2> QED
    BY <1>0, <1>8, <2>1, <2>3, ActivitySame DEF Activity!PointerUp
<1> QED
  BY <1>2, <1>3, <1>4, <1>5, <1>6, <1>7, <1>8, ActivityUpdates, ActivityRetries, ActivityAnswers DEF Activity!Next

LEMMA ActivityMeans ==
  ASSUME ActivityInv
  PROVE  Activity!TypeOK /\ Activity!AnswerOfScope
<1> USE DEF ActivityInv
<1>1. \A d \in drags : d.pointer \in Activity!Pointers /\ d.key \in Activity!Keys /\ d.latest \in BOOLEAN /\ d.gen \in BOOLEAN
  BY MapDragFields DEF ActivityTyped
<1>2. Activity!TypeOK
  BY <1>1, ActivityCardinality DEF ActivityTyped, Activity!TypeOK
<1>3. Activity!AnswerOfScope
  BY DEF ActivityKept, Activity!AnswerOfScope, Activity!ScopeKey
<1> QED
  BY <1>2, <1>3

\* Only the end of a brush that is live moves the host.
LEMMA ActivityActs ==
  ASSUME [Activity!Next]_(Activity!vars)
  PROVE  Activity!CommitsOwn
<1> SUFFICES ASSUME NEW d \in drags, host'.key # host.key, brush, ~brush', d \notin drags'
             PROVE  d.key = Activity!ScopeKey /\ active
  BY DEF Activity!CommitsOwn
<1>1. Activity!PointerUp
  BY DEF Activity!Next, Activity!vars, Activity!HostMoves, Activity!Update, Activity!Retry, Activity!TimePasses,
     Activity!Serve, Activity!Answered, Activity!Fails, Activity!Activate, Activity!Deactivate, Activity!PointerDown,
     Activity!PointerMove, Activity!Abandon, Activity!Pan
<1>2. PICK e \in drags : drags' = drags \ {e} /\ (host' = host \/ (brush /\ Activity!Live(e)))
  BY <1>1 DEF Activity!PointerUp
<1> QED
  BY <1>2 DEF Activity!Live

HIDE DEF failed, host, repo, view, privacy, resp, fetchedKey, stale, brush, drags

----------------------------------------------------------------------------
(* The panels.                                                             *)

PanelsInv ==
  /\ machine \in {"fleet", "sessions", "events", "topology", "project", "activity"}
  /\ On("fleet") => FleetInv
  /\ On("sessions") => SessionInv
  /\ On("events") => EventsInv /\ WalkInv
  /\ On("topology") => TopologyInv
  /\ On("project") => ProjectInv
  /\ On("activity") => ActivityInv

LEMMA PanelsInit == Init => PanelsInv
<1> SUFFICES ASSUME Init PROVE PanelsInv
  OBVIOUS
<1>1. On("fleet") => Fleet!Init
  BY DEF Init, On
<1>2. On("sessions") => Sessions!Init
  BY DEF Init, On
<1>3. On("events") => Events!Init
  BY DEF Init, On
<1>4. On("topology") => Topology!Init
  BY DEF Init, On
<1>5. On("project") => Project!Init
  BY DEF Init, On
<1>6. On("activity") => Activity!Init
  BY DEF Init, On
<1>7. machine \in {"fleet", "sessions", "events", "topology", "project", "activity"}
  BY DEF Init, On
<1> QED
  BY <1>1, <1>2, <1>3, <1>4, <1>5, <1>6, <1>7, FleetInit, SessionInit, EventsInit, WalkInit, TopologyInit, ProjectInit, ActivityInit
  DEF PanelsInv

\* A step of the whole is one of the chosen machine, or leaves its cells alone.
LEMMA PanelsMove ==
  ASSUME [Next]_cells
  PROVE  /\ machine' = machine
         /\ On("fleet") => [Fleet!Next]_(Fleet!vars)
         /\ On("sessions") => [Sessions!Next]_(Sessions!vars)
         /\ On("events") => [Events!Next]_(Events!vars)
         /\ On("topology") => [Topology!Next]_(Topology!vars)
         /\ On("project") => [Project!Next]_(Project!vars)
         /\ On("activity") => [Activity!Next]_(Activity!vars)
<1>1. CASE UNCHANGED cells
  BY <1>1 DEF cells, Fleet!vars, Sessions!vars, Events!vars, Topology!vars, Project!vars, Activity!vars
<1>2. CASE Next
  <2>1. machine' = machine
    BY <1>2 DEF Next
  <2>2. On("fleet") => Fleet!Next
    BY <1>2 DEF Next, On
  <2>3. On("sessions") => Sessions!Next
    BY <1>2 DEF Next, On
  <2>4. On("events") => Events!Next
    BY <1>2 DEF Next, On
  <2>5. On("topology") => Topology!Next
    BY <1>2 DEF Next, On
  <2>6. On("project") => Project!Next
    BY <1>2 DEF Next, On
  <2>7. On("activity") => Activity!Next
    BY <1>2 DEF Next, On
  <2> QED
    BY <2>1, <2>2, <2>3, <2>4, <2>5, <2>6, <2>7
<1> QED
  BY <1>1, <1>2

LEMMA PanelsStep == PanelsInv /\ [Next]_cells => PanelsInv'
<1> SUFFICES ASSUME PanelsInv, [Next]_cells PROVE PanelsInv'
  OBVIOUS
<1>0. machine' = machine
  BY PanelsMove
<1>1. On("fleet") => FleetInv'
  BY PanelsMove, FleetStep DEF PanelsInv
<1>2. On("sessions") => SessionInv'
  BY PanelsMove, SessionStep DEF PanelsInv
<1>3. On("events") => EventsInv' /\ WalkInv'
  BY PanelsMove, EventsStep, WalkStep DEF PanelsInv
<1>4. On("topology") => TopologyInv'
  BY PanelsMove, TopologyStep DEF PanelsInv
<1>5. On("project") => ProjectInv'
  BY PanelsMove, ProjectStep DEF PanelsInv
<1>6. On("activity") => ActivityInv'
  BY PanelsMove, ActivityStep DEF PanelsInv
<1> QED
  BY <1>0, <1>1, <1>2, <1>3, <1>4, <1>5, <1>6 DEF PanelsInv, On

\* What each machine contributes.
LEMMA PanelsMean ==
  ASSUME PanelsInv
  PROVE  TypeOK /\ OneOwner /\ WalksUncrowded /\ ((On("topology") => Known) => ShowsItsScope)
<1>1. CASE On("fleet")
  <2>1. Fleet!HostFollowsEncoding /\ Fleet!SlotHeldByNewest
    BY <1>1 DEF PanelsInv, FleetInv
  <2> QED
    BY <1>1, <2>1, FleetMeans DEF PanelsInv, On, TypeOK, OneOwner, WalksUncrowded, ShowsItsScope
<1>2. CASE On("sessions")
  BY <1>2, SessionMeans DEF PanelsInv, On, TypeOK, OneOwner, WalksUncrowded, ShowsItsScope
<1>3. CASE On("events")
  BY <1>3, EventsMeans, WalkMeans DEF PanelsInv, On, TypeOK, OneOwner, WalksUncrowded, ShowsItsScope
<1>4. CASE On("topology")
  BY <1>4, TopologyMeans DEF PanelsInv, On, TypeOK, OneOwner, WalksUncrowded, ShowsItsScope
<1>5. CASE On("project")
  BY <1>5, ProjectMeans DEF PanelsInv, On, TypeOK, OneOwner, WalksUncrowded, ShowsItsScope
<1>6. CASE On("activity")
  BY <1>6, ActivityMeans DEF PanelsInv, On, TypeOK, OneOwner, WalksUncrowded, ShowsItsScope
<1> QED
  BY <1>1, <1>2, <1>3, <1>4, <1>5, <1>6 DEF PanelsInv, On

\* AnswersForward, of one step.
Forward ==
  CASE On("fleet") -> Fleet!PictureForward
    [] On("sessions") -> Sessions!ListForward
    [] On("topology") -> Topology!RegistrationYields
    [] On("project") -> Project!RowsForward
    [] On("activity") -> Activity!CommitsOwn
    [] OTHER -> TRUE

LEMMA PanelsForward == PanelsInv /\ [Next]_cells => Forward
<1> SUFFICES ASSUME PanelsInv, [Next]_cells PROVE Forward
  OBVIOUS
<1>1. CASE On("fleet")
  BY <1>1, PanelsMove, FleetActs DEF PanelsInv, Forward, On
<1>2. CASE On("sessions")
  BY <1>2, PanelsMove, SessionActs DEF PanelsInv, Forward, On
<1>3. CASE On("events")
  BY <1>3 DEF Forward, On
<1>4. CASE On("topology")
  BY <1>4, PanelsMove, TopologyActs DEF PanelsInv, Forward, On
<1>5. CASE On("project")
  BY <1>5, PanelsMove, ProjectActs DEF PanelsInv, Forward, On
<1>6. CASE On("activity")
  BY <1>6, PanelsMove, ActivityActs DEF PanelsInv, Forward, On
<1> QED
  BY <1>1, <1>2, <1>3, <1>4, <1>5, <1>6 DEF PanelsInv, On

\* Whatever the bounds, the cells of the chosen panel hold what its variables may hold: the
\* requests of a panel are as many as may overlap, one of them in force; and the events held
\* by the Events view are at most as many as its cap, whichever end the merge evicts.
THEOREM PanelsTyping == Spec => []TypeOK
<1> QED
  BY PanelsInit, PanelsStep, PanelsMean, PTL DEF Spec

\* What a panel shows is of the scope it says it is of, whatever was in flight when the scope
\* moved: the session history (sessions.ts), the topology and the selection of the graph
\* (graph/index.ts), the answer of the activity map, the encoding of the project.  The
\* selection of the graph needs another resolver that knows the worktrees that are gone.
THEOREM PanelsShowTheirScope ==
  ASSUME "topology" \in Machines => Known
  PROVE  Spec => []ShowsItsScope
<1>1. Init => machine \in Machines
  BY DEF Init
<1>2. machine \in Machines /\ [Next]_cells => (machine \in Machines)'
  BY PanelsMove
<1>3. machine \in Machines /\ PanelsInv => ShowsItsScope
  BY PanelsMean DEF On
<1> QED
  BY <1>1, <1>2, <1>3, PanelsInit, PanelsStep, PTL DEF Spec

\* The host that is mounted is the one the chips name, alone; and the slot that keeps the
\* requests of the fleet apart is held exactly while the newest of them runs (fleet/index.ts,
\* project/index.ts).
THEOREM PanelsHaveOneOwner == Spec => []OneOwner
<1> QED
  BY PanelsInit, PanelsStep, PanelsMean, PTL DEF Spec

\* A walk with Load older through the Events view leaves nothing out (graph/index.ts): when the
\* view is at rest, an event of it that is older than a row is held, or the cursor is beyond it,
\* for any cap and page sizes and whatever was captured, filtered, selected or hidden meanwhile.
\* Either eviction gives up only what the cursor can come back for or what is newer than all
\* that is held; a set that full pages have crowded is excepted, until a head page repairs it.
THEOREM PanelsWalkOn == Spec => []WalksUncrowded
<1> QED
  BY PanelsInit, PanelsStep, PanelsMean, PTL DEF Spec

\* No answer replaces one that the daemon gave later, a registration does not move the scope
\* over a navigation that came while the daemon worked, and a gesture commits only the window
\* of the map it began on.
THEOREM PanelsAnswersForward == Spec => AnswersForward
<1>1. PanelsInv /\ [Next]_cells => [Forward]_cells
  BY PanelsForward
<1> QED
  BY <1>1, PanelsInit, PanelsStep, PTL DEF Spec, AnswersForward, Forward

=============================================================================
