----------------------------- MODULE GraphLanes -----------------------------
(***************************************************************************)
(* Where the workspace graph draws each revision: ranks, chains and lanes  *)
(* (ui/graph/layout.ts, the first six parts of layoutWorkspaceGraph).      *)
(*                                                                         *)
(* A revision is a number, in the order of the keys; its parents are an    *)
(* ordered list, in which one may be absent, come twice or be the revision *)
(* itself; other cycles do not occur.  A chain is named by its lowest      *)
(* revision.  Coordinates are in Unit-ths of a lane, exact.                *)
(*                                                                         *)
(* Once the picture is laid out, the refinement sweeps over the chains tied*)
(* by merges and moves each towards what it is joined to, while that makes *)
(* its edges shorter; a component goes back to its first lanes if more of  *)
(* its edges cross then.  Of the crossings, which depend on the shape of   *)
(* the curves, nothing is said here: either may be the outcome.            *)
(***************************************************************************)
EXTENDS Integers, FiniteSets, Sequences, SequencesExt, FiniteSetsExt

CONSTANTS
  Histories      \* what to draw: [parents, trunk, anchors], whose chains have at most six revisions each

VARIABLES
  parents,       \* the loaded revisions, each with its list of parents
  trunk,         \* the tip of the default branch, or 0
  anchors,       \* how many workspaces each revision has
  present,       \* revision -> its parents that are loaded, each once
  rank,          \* revision -> row, counted from the roots
  primary,       \* revision -> its first present parent, or 0
  size,          \* revision -> revisions above it along primary parents
  head,          \* revision -> its chain
  above,         \* chain -> the chain it hangs off, or 0
  placed,        \* chain -> its offset and side, and how many of its revisions lead out there
  lanes,         \* chain -> lane
  sweep          \* sweeps of the refinement done; one more than Sweeps when it is over

input == <<parents, trunk, anchors>>
picture == <<present, rank, primary, size, head, above, placed>>
vars == <<input, picture, lanes, sweep>>
Unit == 4320000           \* 20 * 60^3, a multiple of every fraction used
Sweeps == 4               \* refineSweeps
LaneSearch == 64          \* LANE_SEARCH
GuardEdges == 1500        \* GUARD_EDGES
Nodes == DOMAIN parents
Heads == DOMAIN above
Array(f) == f @@ <<>>     \* the same function, evaluated once

(***************************************************************************)
(* Ranks, components and chains.                                           *)
(***************************************************************************)
Loaded ==
  Array([n \in Nodes |-> FoldLeft(LAMBDA ps, p : IF p \in (Nodes \ {n}) \ ToSet(ps) THEN Append(ps, p) ELSE ps, <<>>, parents[n])])
Ranks ==
  LET r[n \in Nodes] == IF present[n] = <<>> THEN 0 ELSE 1 + Max({r[p] : p \in ToSet(present[n])})
  IN Array([n \in Nodes |-> r[n]])
Primaries == Array([n \in Nodes |-> IF present[n] = <<>> THEN 0 ELSE Head(present[n])])
Component(n) ==
  LET Near(S) == S \cup UNION {ToSet(present[m]) : m \in S} \cup {c \in Nodes : ToSet(present[c]) \cap S # {}}
      near[k \in 0..Cardinality(Nodes)] == IF k = 0 THEN {n} ELSE Near(near[k - 1])
  IN near[Cardinality(Nodes)]

Line(n) == LET t[m \in Nodes \cup {0}] == IF m = 0 THEN {} ELSE {m} \cup t[primary[m]] IN t[n]
Sizes == Array([n \in Nodes |-> Cardinality({m \in Nodes : n \in Line(m)})])

\* The trunk before the rest, then the larger subtree, then the lower key.
First(S) ==
  LET t == Line(trunk)
      Prefers(a, b) == \/ a \in t /\ b \notin t
                       \/ (a \in t <=> b \in t) /\ (size[a] > size[b] \/ (size[a] = size[b] /\ a < b))
  IN CHOOSE a \in S : \A b \in S \ {a} : Prefers(a, b)

\* The heavy path: beyond the tip of the trunk every line is a chain of its own.
Chains ==
  LET heavy == Array([p \in Nodes |-> LET cs == {c \in Nodes : primary[c] = p} IN IF cs = {} \/ p = trunk THEN 0 ELSE First(cs)])
      h[n \in Nodes] == IF primary[n] # 0 /\ heavy[primary[n]] = n THEN h[primary[n]] ELSE n
  IN Array([n \in Nodes |-> h[n]])
Chain(h) == {n \in Nodes : head[n] = h}
Tip(h) == CHOOSE n \in Chain(h) : \A m \in Chain(h) : rank[m] <= rank[n]
Position(n) == Cardinality({m \in Chain(head[n]) : rank[m] < rank[n]})

\* The other roots of a component hang off its first one.
Parents ==
  Array([h \in Range(head) |->
    LET main == First({r \in Component(h) : primary[r] = 0})
    IN IF primary[h] # 0 THEN head[primary[h]] ELSE IF h = main THEN 0 ELSE main])
Children(h) == {c \in Heads : above[c] = h}

(***************************************************************************)
(* Lanes, from the top of the tree of chains down: each chain takes the    *)
(* nearest lane outside the footprints that overlap its own.               *)
(***************************************************************************)
Overlap(lo, hi, item) == lo <= item.hi /\ item.lo <= hi

Required(lo, hi, list) == Max({1} \cup {i.o + i.need + 1 : i \in {j \in list : Overlap(lo, hi, j)}})

\* rampFrac * distance: how far from the parent's lane ramp node i of k is.
Ramp(k, i, distance) ==
  LET a == i + 1
      b == k + 1
      part == (3 * a * a * b - 2 * a * a * a) * ((60 \div b) * (60 \div b) * (60 \div b))
  IN IF distance = 0 THEN 0 ELSE 9 * (Unit \div 20) + (20 * distance - 9) * part

Clear(h, k, o, list) ==
  \A n \in Chain(h), item \in list :
    Position(n) < k /\ rank[n] >= item.lo /\ rank[n] <= item.hi =>
      Ramp(k, Position(n), o) >= (item.o + item.need) * Unit + 7 * (Unit \div 10)

\* The longest ramp whose revisions stay clear of every inner footprint.
PickRamp(h, o, list) ==
  LET most == Min({Cardinality(Chain(h)) - 1, 8, Max({3, (3 * o + 3) \div 4})})
  IN IF primary[h] = 0 THEN 0 ELSE Max({k \in 0..most : Clear(h, k, o, list)})

\* The height of a row, 34 pixels or less in a high picture, as a fraction.
RowHeight ==
  LET top == Max({1} \cup {rank[n] : n \in Nodes})
  IN CASE top <= 40 -> <<34, 1>> [] top \in 41..97 -> <<1360, top>> [] OTHER -> <<14, 1>>

\* The room a label needs beside the tip of its chain: one lane, as many ranks
\* as its rows take; more than three workspaces are one chip.
LabelHalf(n) ==
  LET rows == IF anchors[n] > 3 THEN 1 ELSE anchors[n]
      high == RowHeight
  IN Max({1, (rows * 14 * high[2] + high[1] - 1) \div high[1]})
LabelRoom(h) ==
  LET t == Tip(h) IN
  IF anchors[t] = 0 THEN {} ELSE {[lo |-> rank[t] - LabelHalf(t), hi |-> rank[t] + LabelHalf(t), o |-> 1, need |-> 0]}

\* One chain below h is placed on the emptier side of a main chain, else on
\* the only side; s is what has been placed so far.
Place(s, c, main, lo, hi, need) ==
  LET req == <<Required(lo, hi, s.lists[1]), Required(lo, hi, s.lists[2])>>
      tie == req[1] = req[2] /\ s.weight[1] = s.weight[2]
      i == CASE ~main -> 1
             [] main /\ tie -> 1 + (s.flip % 2)
             [] main /\ req[1] # req[2] -> IF req[1] < req[2] THEN 1 ELSE 2
             [] OTHER -> IF s.weight[1] < s.weight[2] THEN 1 ELSE 2
  IN [lists |-> [s.lists EXCEPT ![i] = @ \cup {[lo |-> lo, hi |-> hi, o |-> req[i], need |-> need]}],
      weight |-> [s.weight EXCEPT ![i] = @ + size[c]],
      flip |-> IF main /\ tie THEN s.flip + 1 ELSE s.flip,
      at |-> (c :> [off |-> req[i], side |-> IF i = 1 THEN 1 ELSE -1, ramp |-> PickRamp(c, req[i], s.lists[i])]) @@ s.at]

\* Chains from the roots up, a main chain before the others.
ByHeadRank ==
  LET Before(a, b) == \/ rank[a] < rank[b]
                      \/ rank[a] = rank[b] /\ above[a] = 0 /\ above[b] # 0
                      \/ rank[a] = rank[b] /\ (above[a] = 0 <=> above[b] = 0) /\ a < b
  IN SetToSortSeq(Heads, Before)

\* The children of every chain, those that fork higher up first, then those
\* that end sooner: [at: chain -> off, side, ramp; need: chain -> lanes].
Placed ==
  LET span[h \in Heads] == Max({rank[Tip(h)]} \cup {span[c] : c \in Children(h)})
      top == Array([h \in Heads |-> span[h]])
      low == Array([h \in Heads |-> IF primary[h] = 0 THEN 0 ELSE rank[primary[h]]])
      Nearer(a, b) == \/ low[a] > low[b]
                      \/ low[a] = low[b] /\ (top[a] < top[b] \/ (top[a] = top[b] /\ a < b))
      Under(done, h) ==
        LET end == FoldLeft(LAMBDA s, c : Place(s, c, above[h] = 0, low[c], top[c], done.need[c]),
                            [lists |-> <<LabelRoom(h), {}>>, weight |-> <<0, 0>>, flip |-> 0, at |-> done.at],
                            SetToSortSeq(Children(h), Nearer))
        IN [at |-> end.at, need |-> (h :> Max({0} \cup {i.o + i.need : i \in end.lists[1] \cup end.lists[2]})) @@ done.need]
  IN FoldLeft(Under, [at |-> <<>>, need |-> <<>>], Reverse(ByHeadRank)).at

Outward(lane) == IF lane < 0 THEN -1 ELSE 1
BaseLanes ==
  LET lane[h \in Heads] ==
        IF above[h] = 0 THEN 0
        ELSE lane[above[h]] + placed[h].off * (IF above[above[h]] = 0 THEN placed[h].side ELSE Outward(lane[above[h]]))
  IN Array([h \in Heads |-> lane[h]])

(***************************************************************************)
(* nodeX.                                                                  *)
(***************************************************************************)
RampX(k, i, lane, from) ==
  from * Unit + (IF lane < from THEN -1 ELSE 1) * Ramp(k, i, IF lane < from THEN from - lane ELSE lane - from)
From(h, at) == IF above[h] = 0 THEN at[h] ELSE at[above[h]]
OnRamp(n) == primary[head[n]] # 0 /\ Position(n) < placed[head[n]].ramp
X(n, at) ==
  LET h == head[n] IN IF OnRamp(n) THEN RampX(placed[h].ramp, Position(n), at[h], From(h, at)) ELSE at[h] * Unit
NodeX(n) == X(n, lanes)

(***************************************************************************)
(* The refinement: what a chain reserves, and a move to a free lane.       *)
(***************************************************************************)
Rounded(x, unit) == (2 * x + unit) \div (2 * unit)
Distance(x, y) == IF x < y THEN y - x ELSE x - y
OwnRes(h, lane) ==
  {[lane |-> lane, lo |-> rank[h] - 1, hi |-> rank[Tip(h)] + 1]}
  \cup {[lane |-> lane + Outward(lane), lo |-> r.lo, hi |-> r.hi] : r \in LabelRoom(h)}
RampRes(h, lane, from) ==
  {[lane |-> Rounded(RampX(placed[h].ramp, Position(n), lane, from), Unit), lo |-> rank[n], hi |-> rank[n]] :
     n \in {m \in Chain(h) : OnRamp(m)}}
\* What the component reserves without h and the ramps that leave it.
Table(h, at) ==
  UNION {OwnRes(c, at[c]) \cup (IF above[c] = h THEN {} ELSE RampRes(c, at[c], From(c, at))) : c \in (Heads \cap Component(h)) \ {h}}

Free(res, table) == \A r \in res, t \in table : r.lane = t.lane => ~(t.lo <= r.hi /\ r.lo <= t.hi)
MergeLinked(h) ==
  \E n \in Nodes : \E j \in 2..Len(present[n]) : LET p == present[n][j] IN head[n] # head[p] /\ h \in {head[n], head[p]}
Edges(n) == {e \in Component(n) \X Component(n) : e[2] \in ToSet(present[e[1]])}

\* The edges that leave a chain, its own revision first; what they cost is their width.
Cross(h) == {e \in Chain(h) \X (Nodes \ Chain(h)) : e[2] \in ToSet(present[e[1]]) \/ e[1] \in ToSet(present[e[2]])}
Cost(h, at) == FoldSet(LAMBDA e, s : s + Distance(X(e[1], at), X(e[2], at)), 0, Cross(h))
Target(h, at) == Rounded(FoldSet(LAMBDA e, s : s + X(e[2], at), 0, Cross(h)), Unit * Cardinality(Cross(h)))

Fits(h, l, table, at) ==
  Free(OwnRes(h, l) \cup RampRes(h, l, From(h, at)) \cup UNION {RampRes(k, at[k], l) : k \in Children(h)}, table)

\* The free lane nearest to the target on its own side, of two the one nearer to where the
\* chain is, then the left one; or the lane where it is.
Best(h, target, at) ==
  LET table == Table(h, at)
      cur == at[h]
      Takes(l) == l * cur > 0 /\ l # cur /\ Fits(h, l, table, at)
      Prefers(a, b) == Distance(a, cur) < Distance(b, cur) \/ (Distance(a, cur) = Distance(b, cur) /\ a < b)
      near[d \in 0..(LaneSearch + 1)] ==
        LET free == {l \in {target - d, target + d} : Takes(l)}
        IN IF d > LaneSearch THEN cur
           ELSE IF free = {} THEN near[d + 1]
           ELSE CHOOSE l \in free : \A m \in free \ {l} : Prefers(l, m)
  IN near[0]

\* The lanes after tryMove: a move is kept if it makes the edges shorter.
TryMove(at, h) ==
  LET target == Target(h, at)
      new == [at EXCEPT ![h] = Best(h, target, at)]
  IN IF Cross(h) = {} \/ at[h] = 0 \/ target = at[h] THEN at
     ELSE IF Cost(h, new) < Cost(h, at) THEN new ELSE at

(***************************************************************************)
(* fitBounds: the revisions framed when some worktrees are fitted.         *)
(***************************************************************************)
Ancestors(n) == LET a[m \in Nodes] == {m} \cup UNION {a[p] : p \in ToSet(present[m])} IN a[n]

\* Down to the lowest fork, or four rows below the lowest of unrelated tips.
Floor(forks, tipRanks) == IF forks = {} THEN Max({0, Min(tipRanks) - 4}) ELSE Min(forks)

Framed(tips) ==
  LET masked == UNION {Ancestors(t) : t \in tips}
      masks == [n \in masked |-> Cardinality({c \in masked : n \in ToSet(present[c])})]
      Forks(S) == {n \in masked \cap S : masks[n] >= 2 \/ (n \in tips /\ masks[n] >= 1)}
  IN {n \in masked : LET S == Component(n) IN rank[n] >= Floor({rank[m] : m \in Forks(S)}, {rank[t] : t \in tips \cap S})}

(***************************************************************************)
(* Behaviour.                                                              *)
(***************************************************************************)
Init ==
  /\ \E s \in Histories : parents = s.parents /\ trunk = s.trunk /\ anchors = s.anchors
  /\ present = Loaded /\ rank = Ranks /\ primary = Primaries /\ size = Sizes /\ head = Chains /\ above = Parents
  /\ placed = Placed /\ lanes = BaseLanes /\ sweep = 0

\* One sweep, every other one from the tips down. A main chain stays; so does a component
\* that is too large. The sweeps end with one that moves nothing, in each component alike.
Sweep ==
  /\ sweep < Sweeps
  /\ LET order == SelectSeq(ByHeadRank, LAMBDA h : above[h] # 0 /\ MergeLinked(h) /\ Cardinality(Edges(h)) <= GuardEdges)
     IN lanes' = FoldLeft(TryMove, lanes, IF sweep % 2 = 0 THEN order ELSE Reverse(order))
  /\ sweep' = IF lanes' = lanes THEN Sweeps ELSE sweep + 1
  /\ UNCHANGED <<input, picture>>

\* Each component keeps its new lanes, or goes back to the first ones if more edges cross.
Settle ==
  /\ sweep = Sweeps /\ sweep' = Sweeps + 1
  /\ \E back \in SUBSET {h \in Heads : above[h] = 0} :
       lanes' = [h \in Heads |-> IF Component(h) \cap back # {} THEN BaseLanes[h] ELSE lanes[h]]
  /\ UNCHANGED <<input, picture>>

Next == Sweep \/ Settle

Spec == Init /\ [][Next]_vars

TypeOK ==
  /\ \A n \in Nodes : n > 0 /\ Len(parents[n]) <= 2 /\ ToSet(parents[n]) \subseteq Nodes \cup {0}
  /\ trunk \in Nodes \cup {0} /\ DOMAIN anchors = Nodes /\ DOMAIN lanes = Heads /\ \A h \in Heads : lanes[h] \in Int
  /\ sweep \in 0..(Sweeps + 1) /\ \A h \in Heads : Cardinality(Chain(h)) <= 6
  /\ Heads = Range(head) /\ \A n \in Nodes : rank[n] >= 0 /\ \A p \in ToSet(present[n]) : rank[p] < rank[n]

(***************************************************************************)
(* Properties.                                                             *)
(***************************************************************************)
\* No two revisions of a component are drawn on one another: on one row they
\* are at least the width of a node (14 of the 44 pixels of a lane) apart.
NodesApart ==
  \A m, n \in Nodes :
    m < n /\ rank[m] = rank[n] /\ n \in Component(m) =>
      LET d == NodeX(m) - NodeX(n) IN (IF d < 0 THEN -d ELSE d) >= (7 * Unit) \div 22

\* A workspace at the tip of a line has the lane beside it to itself on its
\* row, also after chains have moved.
RoomBesideTip ==
  \A h \in Heads : LabelRoom(h) # {} =>
    \A n \in Component(h) \ Chain(h) :
      LET out == Outward(lanes[h]) * (NodeX(n) - lanes[h] * Unit)
      IN rank[n] = rank[Tip(h)] => out <= 0 \/ out > Unit

\* Worktrees fitted together are shown with the history that joins them: any
\* two with a common ancestor have one in the frame.
FitJoins ==
  \A tips \in {T \in SUBSET Nodes : Cardinality(T) \in 2..3} :
    LET frame == Framed(tips)
    IN \A a, b \in tips : a # b /\ Ancestors(a) \cap Ancestors(b) # {} => Ancestors(a) \cap Ancestors(b) \cap frame # {}
=============================================================================
