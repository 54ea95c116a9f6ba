------------------------ MODULE AttentionInboxProofs ------------------------
(***************************************************************************)
(* Convergence of the attention inbox, for every set of ids, of replicas   *)
(* and of observations, and every assignment of observations to ids.       *)
(*                                                                         *)
(* The argument: on the observations that speak of one slot, Replaces is a *)
(* strict total order, and a slot holds its greatest speaker among the ids *)
(* applied.  What a replica shows is then a function of the set of ids it  *)
(* applied, and of nothing else.                                           *)
(***************************************************************************)
EXTENDS AttentionInbox, FiniteSetTheorems, TLAPS

Speakers(r, s) == {i \in applied[r] : Speaks(i, s)}

\* The slot holds nothing if nobody spoke, else its greatest speaker.
SlotGreatest(r, s) ==
  LET b == box[r].by[s] IN
    \/ b = 0 /\ Speakers(r, s) = {}
    \/ /\ b \in Speakers(r, s)
       /\ \A i \in Speakers(r, s) : i = b \/ Replaces(b, i, s)

\* The observation time is the latest of those applied, or none.
ObservedLatest(r) ==
  /\ \A i \in applied[r] : sent[i].observed <= box[r].observed
  /\ box[r].observed = 0 \/ \E i \in applied[r] : sent[i].observed = box[r].observed

\* The inductive invariant.
IInv ==
  /\ TypeOK
  /\ \A r \in Replicas :
       /\ IsFiniteSet(applied[r])
       /\ ObservedLatest(r)
       /\ \A s \in Slots : SlotGreatest(r, s)

----------------------------------------------------------------------------
\* What the type says of an observation.
LEMMA SentFields ==
  ASSUME sent \in [Ids -> Observations], NEW i \in Ids
  PROVE  /\ sent[i].time \in Nat /\ sent[i].observed \in Nat
         /\ sent[i].signal \in Signals /\ sent[i].title \in Titles
         /\ i \in Nat /\ i # 0
<1>1. sent[i] \in [time: Nat, observed: Nat, signal: Signals, git: BOOLEAN,
                   jj: BOOLEAN, title: Titles]
  BY InboxAssumption
<1> QED BY <1>1, InboxAssumption

\* newerEvidence is a strict total order on ids, and replaces no evidence.
LEMMA NewerOrders ==
  ASSUME sent \in [Ids -> Observations]
  PROVE  /\ \A i \in Ids : Newer(i, 0)
         /\ \A i, j \in Ids : i = j \/ Newer(i, j) \/ Newer(j, i)
         /\ \A i, j \in Ids : Newer(i, j) => ~Newer(j, i)
         /\ \A i, j, k \in Ids : Newer(i, j) /\ Newer(j, k) => Newer(i, k)
BY SentFields DEF Newer

\* titleState.consider orders the events that carry a title.
LEMMA TitlesOrder ==
  ASSUME sent \in [Ids -> Observations]
  PROVE  /\ \A i \in Ids : BetterTitle(i, 0)
         /\ \A i, j \in Ids : sent[i].title # None /\ sent[j].title # None
              => i = j \/ BetterTitle(i, j) \/ BetterTitle(j, i)
         /\ \A i, j \in Ids : BetterTitle(i, j) => ~BetterTitle(j, i)
         /\ \A i, j, k \in Ids : BetterTitle(i, j) /\ BetterTitle(j, k) => BetterTitle(i, k)
BY SentFields DEF BetterTitle, Later, Titles, None

\* Replaces, whatever the slot.
LEMMA ReplacesOrders ==
  ASSUME sent \in [Ids -> Observations], NEW s \in Slots
  PROVE  /\ \A i \in Ids : Replaces(i, 0, s)
         /\ \A i, j \in Ids : Speaks(i, s) /\ Speaks(j, s)
              => i = j \/ Replaces(i, j, s) \/ Replaces(j, i, s)
         /\ \A i, j \in Ids : Replaces(i, j, s) => ~Replaces(j, i, s)
         /\ \A i, j, k \in Ids : Replaces(i, j, s) /\ Replaces(j, k, s) => Replaces(i, k, s)
<1>1. CASE s = "title"
  <2>1. \A i \in Ids : Speaks(i, s) => sent[i].title # None
    BY <1>1 DEF Speaks
  <2>2. \A i, j : Replaces(i, j, s) <=> BetterTitle(i, j)
    BY <1>1 DEF Replaces
  <2> QED BY <2>1, <2>2, TitlesOrder
<1>2. CASE s # "title"
  <2>1. \A i, j : Replaces(i, j, s) <=> Newer(i, j)
    BY <1>2 DEF Replaces
  <2> QED BY <2>1, NewerOrders
<1> QED BY <1>1, <1>2

----------------------------------------------------------------------------
\* One application of an id that was not applied before, to its own replica.
LEMMA AppliedSlot ==
  ASSUME IInv, NEW r \in Replicas, NEW i \in Ids, ApplyInbox(r, i), NEW s \in Slots
  PROVE  SlotGreatest(r, s)'
<1> DEFINE b == box[r].by[s]
<1>1. /\ sent' = sent /\ sent \in [Ids -> Observations]
      /\ i \notin applied[r] /\ applied'[r] = applied[r] \cup {i}
      /\ applied[r] \subseteq Ids
  BY DEF IInv, TypeOK, ApplyInbox
<1>2. box'[r].by[s] = IF Speaks(i, s) /\ Replaces(i, b, s) THEN i ELSE b
  BY DEF IInv, TypeOK, ApplyInbox
<1>3. SlotGreatest(r, s)
  BY DEF IInv
<1>4. \A k \in Ids : Speaks(k, s)' <=> Speaks(k, s)
  BY <1>1 DEF Speaks
<1>5. \A j, k \in Ids : Replaces(j, k, s)' <=> Replaces(j, k, s)
  BY <1>1 DEF Replaces, BetterTitle, Newer, Later
<1>6. Speakers(r, s)' = Speakers(r, s) \cup (IF Speaks(i, s) THEN {i} ELSE {})
  BY <1>1, <1>4 DEF Speakers
<1>7. Speakers(r, s) \subseteq Ids /\ i \notin Speakers(r, s)
  BY <1>1 DEF Speakers
<1>8. CASE ~Speaks(i, s)
  <2>1. Speakers(r, s)' = Speakers(r, s) /\ box'[r].by[s] = b
    BY <1>2, <1>6, <1>8
  <2> QED BY <2>1, <1>3, <1>5, <1>7 DEF SlotGreatest
<1>9. CASE Speaks(i, s) /\ Replaces(i, b, s)
  <2>1. Speakers(r, s)' = Speakers(r, s) \cup {i} /\ box'[r].by[s] = i
    BY <1>2, <1>6, <1>9
  <2>2. ASSUME NEW k \in Speakers(r, s) PROVE Replaces(i, k, s)
    <3>1. b \in Speakers(r, s) /\ (k = b \/ Replaces(b, k, s))
      BY <1>3 DEF SlotGreatest
    <3> QED BY <3>1, <1>1, <1>7, <1>9, ReplacesOrders
  <2> QED BY <2>1, <2>2, <1>5, <1>7 DEF SlotGreatest
<1>10. CASE Speaks(i, s) /\ ~Replaces(i, b, s)
  <2>1. Speakers(r, s)' = Speakers(r, s) \cup {i} /\ box'[r].by[s] = b
    BY <1>2, <1>6, <1>10
  <2>2. b \in Speakers(r, s) /\ \A k \in Speakers(r, s) : k = b \/ Replaces(b, k, s)
    BY <1>1, <1>3, <1>10, ReplacesOrders DEF SlotGreatest
  <2>3. Replaces(b, i, s)
    BY <2>2, <1>1, <1>7, <1>10, ReplacesOrders DEF Speakers
  <2> QED BY <2>1, <2>2, <2>3, <1>5, <1>7 DEF SlotGreatest
<1> QED BY <1>8, <1>9, <1>10

\* The other replicas are left alone.
LEMMA OtherReplica ==
  ASSUME IInv, NEW r \in Replicas, NEW i \in Ids, ApplyInbox(r, i),
         NEW q \in Replicas, q # r
  PROVE  /\ IsFiniteSet(applied[q])' /\ ObservedLatest(q)'
         /\ \A s \in Slots : SlotGreatest(q, s)'
<1>1. sent' = sent /\ applied'[q] = applied[q] /\ box'[q] = box[q] /\ applied[q] \subseteq Ids
  BY DEF IInv, TypeOK, ApplyInbox
<1>2. IsFiniteSet(applied[q])' /\ ObservedLatest(q)'
  BY <1>1 DEF IInv, ObservedLatest
<1>3. ASSUME NEW s \in Slots PROVE SlotGreatest(q, s)'
  <2>1. SlotGreatest(q, s)
    BY DEF IInv
  <2>2. \A j, k : Replaces(j, k, s)' <=> Replaces(j, k, s)
    BY <1>1 DEF Replaces, BetterTitle, Newer, Later
  <2>3. Speakers(q, s)' = Speakers(q, s)
    BY <1>1 DEF Speakers, Speaks
  <2> QED BY <1>1, <2>1, <2>2, <2>3 DEF SlotGreatest
<1> QED BY <1>2, <1>3

\* An application keeps the types and counts the id once.
LEMMA AppliedType ==
  ASSUME IInv, NEW r \in Replicas, NEW i \in Ids, ApplyInbox(r, i)
  PROVE  TypeOK' /\ IsFiniteSet(applied[r])' /\ ObservedLatest(r)'
<1> DEFINE n == [count |-> box[r].count + 1,
                 observed |-> IF sent[i].observed > box[r].observed
                              THEN sent[i].observed ELSE box[r].observed,
                 by |-> [s \in Slots |-> IF Speaks(i, s) /\ Replaces(i, box[r].by[s], s)
                                         THEN i ELSE box[r].by[s]]]
<1>1. /\ sent' = sent /\ sent \in [Ids -> Observations]
      /\ applied' = [applied EXCEPT ![r] = @ \cup {i}] /\ i \notin applied[r]
      /\ applied \in [Replicas -> SUBSET Ids] /\ box \in [Replicas -> Box]
  BY DEF IInv, TypeOK, ApplyInbox
<1>2. box' = [box EXCEPT ![r] = n]
  BY <1>1 DEF ApplyInbox
<1>3. /\ box[r].count \in Nat /\ box[r].observed \in Nat
      /\ box[r].by \in [Slots -> Ids \cup {0}]
      /\ sent[i].observed \in Nat
  BY <1>1, SentFields DEF Box
<1>4. n.by \in [Slots -> Ids \cup {0}]
  BY <1>3
<1>5. n \in Box
  BY <1>3, <1>4 DEF Box
<1>6. IsFiniteSet(applied[r]) /\ box[r].count = Cardinality(applied[r])
  BY DEF IInv, TypeOK
<1>7. /\ IsFiniteSet(applied[r] \cup {i})
      /\ Cardinality(applied[r] \cup {i}) = Cardinality(applied[r]) + 1
  BY <1>1, <1>6, FS_AddElement
<1>8. applied'[r] = applied[r] \cup {i} /\ box'[r] = n
  BY <1>1, <1>2
<1>9. ASSUME NEW q \in Replicas PROVE (box[q].count = Cardinality(applied[q]))'
  <2>1. CASE q = r
    BY <2>1, <1>6, <1>7, <1>8
  <2>2. CASE q # r
    BY <2>2, <1>1, <1>2 DEF IInv, TypeOK
  <2> QED BY <2>1, <2>2
<1>10. TypeOK'
  BY <1>1, <1>2, <1>5, <1>9 DEF TypeOK
<1>11. ObservedLatest(r)'
  <2>1. ObservedLatest(r) /\ \A k \in applied[r] : sent[k].observed \in Nat
    BY <1>1, SentFields DEF IInv
  <2>2. box'[r].observed = IF sent[i].observed > box[r].observed
                           THEN sent[i].observed ELSE box[r].observed
    BY <1>8
  <2> QED BY <1>1, <1>3, <1>8, <2>1, <2>2 DEF ObservedLatest
<1> QED BY <1>7, <1>8, <1>10, <1>11

\* IInv is inductive.
LEMMA InboxInvariance == Spec => []IInv
<1>1. ASSUME Init PROVE IInv
  <2>1. TypeOK
    BY <1>1, FS_EmptySet DEF Init, TypeOK, Box, EmptyBox
  <2>2. ASSUME NEW r \in Replicas
        PROVE  /\ IsFiniteSet(applied[r]) /\ ObservedLatest(r)
               /\ \A s \in Slots : SlotGreatest(r, s)
    <3>1. applied[r] = {} /\ box[r] = EmptyBox
      BY <1>1 DEF Init
    <3> QED BY <3>1, FS_EmptySet DEF EmptyBox, ObservedLatest, SlotGreatest, Speakers
  <2> QED BY <2>1, <2>2 DEF IInv
<1>2. ASSUME IInv, [Next]_vars PROVE IInv'
  <2>1. ASSUME NEW r \in Replicas, NEW i \in Ids, ApplyInbox(r, i) PROVE IInv'
    <3>1. TypeOK' /\ IsFiniteSet(applied[r])' /\ ObservedLatest(r)'
      BY <1>2, <2>1, AppliedType
    <3>2. \A s \in Slots : SlotGreatest(r, s)'
      BY <1>2, <2>1, AppliedSlot
    <3>3. \A q \in Replicas : q # r =>
            /\ IsFiniteSet(applied[q])' /\ ObservedLatest(q)'
            /\ \A s \in Slots : SlotGreatest(q, s)'
      BY <1>2, <2>1, OtherReplica
    <3> QED BY <3>1, <3>2, <3>3 DEF IInv
  <2>2. CASE UNCHANGED vars
    <3>1. sent' = sent /\ applied' = applied /\ box' = box
      BY <2>2 DEF vars
    <3>2. \A j, k, s : Replaces(j, k, s)' <=> Replaces(j, k, s)
      BY <3>1 DEF Replaces, BetterTitle, Newer, Later
    <3>3. \A r, s : Speakers(r, s)' = Speakers(r, s)
      BY <3>1 DEF Speakers, Speaks
    <3>4. \A r, s : SlotGreatest(r, s)' <=> SlotGreatest(r, s)
      BY <3>1, <3>2, <3>3 DEF SlotGreatest
    <3>5. (\A r : ObservedLatest(r)' <=> ObservedLatest(r)) /\ (TypeOK' <=> TypeOK)
      BY <3>1 DEF ObservedLatest, TypeOK
    <3> QED BY <1>2, <3>1, <3>4, <3>5 DEF IInv
  <2> QED BY <1>2, <2>1, <2>2 DEF Next
<1> QED BY <1>1, <1>2, PTL DEF Spec

----------------------------------------------------------------------------
\* Types; and an id counts once, however often it is delivered.
THEOREM InboxTyping == Spec => []TypeOK
BY InboxInvariance, PTL DEF IInv

\* Replicas that applied the same ids show the same inbox.
THEOREM InboxConverges == Spec => []Converged
<1>1. ASSUME IInv PROVE Converged
  <2> SUFFICES ASSUME NEW q \in Replicas, NEW r \in Replicas, applied[q] = applied[r]
               PROVE  box[q] = box[r]
    BY DEF Converged
  <2>1. /\ sent \in [Ids -> Observations] /\ applied[r] \subseteq Ids
        /\ box[q] \in Box /\ box[r] \in Box
    BY <1>1 DEF IInv, TypeOK
  <2>2. box[q].count = box[r].count
    BY <1>1 DEF IInv, TypeOK
  <2>3. box[q].observed = box[r].observed
    <3>1. ObservedLatest(q) /\ ObservedLatest(r)
      BY <1>1 DEF IInv
    <3>2. box[q].observed \in Nat /\ box[r].observed \in Nat
      BY <2>1 DEF Box
    <3>3. \A i \in applied[r] : sent[i].observed \in Nat
      BY <2>1, SentFields
    <3> QED BY <3>1, <3>2, <3>3 DEF ObservedLatest
  <2>4. ASSUME NEW s \in Slots PROVE box[q].by[s] = box[r].by[s]
    <3>1. Speakers(q, s) = Speakers(r, s) /\ Speakers(r, s) \subseteq Ids
      BY <2>1 DEF Speakers
    <3>2. SlotGreatest(q, s) /\ SlotGreatest(r, s)
      BY <1>1 DEF IInv
    <3> QED BY <2>1, <3>1, <3>2, ReplacesOrders DEF SlotGreatest
  <2>5. box[q].by = box[r].by
    BY <2>1, <2>4 DEF Box
  <2> QED BY <2>1, <2>2, <2>3, <2>5 DEF Box
<1> QED BY <1>1, InboxInvariance, PTL

\* A request waits exactly if no newer signal answers the latest of them.
THEOREM PendingUnanswered == Spec => []PendingIsUnanswered
<1>1. ASSUME IInv PROVE PendingIsUnanswered
  <2> SUFFICES ASSUME NEW r \in Replicas
               PROVE  Pending(box[r]) <=>
                        \E i \in Episode(r) : \A j \in Answer(r) : Newer(i, j)
    BY DEF PendingIsUnanswered
  <2> DEFINE b == box[r].by["signal"]
  <2>1. sent \in [Ids -> Observations] /\ applied[r] \subseteq Ids
    BY <1>1 DEF IInv, TypeOK
  <2>2. Speakers(r, "signal") = Episode(r) \cup Answer(r)
    BY <2>1, SentFields DEF Speakers, Speaks, Episode, Answer, Signals, None
  <2>3. \A i \in Episode(r) \cup Answer(r) : i \in Ids /\ i # 0
    BY <2>1, SentFields DEF Episode, Answer
  <2>4. SlotGreatest(r, "signal")
    BY <1>1 DEF IInv, Slots
  <2>5. \A i, j : Replaces(i, j, "signal") <=> Newer(i, j)
    BY DEF Replaces
  <2>6. Pending(box[r]) <=> b \in Episode(r)
    <3>1. CASE b = 0
      BY <3>1, <2>3 DEF Pending, State
    <3>2. CASE b # 0
      <4>1. b \in applied[r] /\ sent[b].signal \in Signals
        BY <3>2, <2>1, <2>4, SentFields DEF SlotGreatest, Speakers
      <4> QED BY <3>2, <4>1 DEF Pending, State, Episode, Signals, None
    <3> QED BY <3>1, <3>2
  <2>7. ASSUME b \in Episode(r) PROVE \A j \in Answer(r) : Newer(b, j)
    <3>1. b # 0
      BY <2>3, <2>7
    <3>2. \A j \in Answer(r) : j # b
      BY <2>7 DEF Episode, Answer
    <3> QED BY <3>1, <3>2, <2>2, <2>4, <2>5 DEF SlotGreatest
  <2>8. ASSUME b \notin Episode(r), NEW i \in Episode(r)
        PROVE  b \in Answer(r) /\ ~Newer(i, b)
    BY <2>1, <2>2, <2>3, <2>4, <2>5, <2>8, NewerOrders DEF SlotGreatest
  <2> QED BY <2>6, <2>7, <2>8
<1> QED BY <1>1, InboxInvariance, PTL

\* Nobody is attached to both VCS families unless one event said so: git and
\* jj identities have the same speakers, so both slots hold the same event.
THEOREM FamiliesExclude == Spec => []OneFamily
<1>1. ASSUME IInv PROVE OneFamily
  <2> SUFFICES ASSUME NEW r \in Replicas, Git(box[r]), JJ(box[r])
               PROVE  \E i \in applied[r] : sent[i].git /\ sent[i].jj
    BY DEF OneFamily
  <2> DEFINE g == box[r].by["git"]
             j == box[r].by["jj"]
  <2>1. sent \in [Ids -> Observations] /\ applied[r] \subseteq Ids
    BY <1>1 DEF IInv, TypeOK
  <2>2. g # 0 /\ j # 0 /\ sent[g].git /\ sent[j].jj
    BY DEF Git, JJ
  <2>3. SlotGreatest(r, "git") /\ SlotGreatest(r, "jj")
    BY <1>1 DEF IInv, Slots
  <2>4. Speakers(r, "git") = Speakers(r, "jj")
    BY DEF Speakers, Speaks
  <2>5. /\ g \in Speakers(r, "git") /\ j \in Speakers(r, "git")
        /\ g \in applied[r] /\ j \in applied[r]
    BY <2>2, <2>3, <2>4 DEF SlotGreatest, Speakers
  <2>6. (j = g \/ Newer(g, j)) /\ (g = j \/ Newer(j, g))
    BY <2>2, <2>3, <2>4, <2>5 DEF SlotGreatest, Replaces
  <2>7. g = j
    BY <2>1, <2>5, <2>6, NewerOrders
  <2> QED BY <2>2, <2>5, <2>7
<1> QED BY <1>1, InboxInvariance, PTL
=============================================================================
