---------------------------- MODULE GraphLabels -----------------------------
(***************************************************************************)
(* Where the workspace graph draws its worktrees: pills beside their       *)
(* revisions, counted clusters, and a strip for those without a revision   *)
(* (ui/graph/layout.ts, the last parts of layoutWorkspaceGraph), in pixels.*)
(*                                                                         *)
(* Revisions come with their place, in components, each in a frame of its  *)
(* own; a worktree with the width of its pill and of its badges.  With no  *)
(* revision loaded there is only the strip.  A click on a cluster lays     *)
(* everything out again.                                                   *)
(***************************************************************************)
EXTENDS Integers, Sequences, FiniteSets, SequencesExt, FiniteSetsExt

CONSTANTS
  Pictures,      \* [components: sequence of sequences of [x, y, side, group], loose: group]
  Chip,          \* the width of a cluster's chip
  MaxToggles     \* bound

VARIABLES
  picture,
  open,          \* the revisions whose cluster is expanded, by <<component, index>>
  todo,          \* the revisions of the component being labelled, lower rows first in y
  slots,         \* what is still to be placed beside the current revision
  drawn,         \* what has been placed, for each component
  strip,         \* [box, labels]: the worktrees without a revision, once placed
  toggles

vars == <<picture, open, todo, slots, drawn, strip, toggles>>
NodeHalf == 7
PillHeight == 24
BadgeHeight == 22
BadgeGap == 4
Pitch == 28
Gap == 14
Margin == 2
Caption == 26
MaxStack == 3

(***************************************************************************)
(* Rectangles.                                                             *)
(***************************************************************************)
Rect(x, y, w, h) == [x |-> x, y |-> y, w |-> w, h |-> h]
Union(R) ==
  LET x0 == Min({r.x : r \in R})
      y0 == Min({r.y : r \in R})
  IN Rect(x0, y0, Max({r.x + r.w : r \in R}) - x0, Max({r.y + r.h : r \in R}) - y0)
Near(r, s, m) == r.x < s.x + s.w + m /\ s.x < r.x + r.w + m /\ r.y < s.y + s.h + m /\ s.y < r.y + r.h + m
Shift(r, dx) == [r EXCEPT !.x = @ + dx]

(***************************************************************************)
(* The component being labelled.                                           *)
(***************************************************************************)
Components == picture.components
At(c, i) == Components[c][i]
NodeRect(n) == Rect(n.x - NodeHalf, n.y - NodeHalf, 2 * NodeHalf, 2 * NodeHalf)
Current == Len(drawn)
Labelled == drawn[Current]
Bounds(c) == Union({NodeRect(At(c, i)) : i \in DOMAIN Components[c]} \cup {l.box : l \in drawn[c]})

\* Hash.hit: against every revision but its own, every pill and every badge.
Hit(box, own) ==
  \/ \E i \in DOMAIN Components[Current] : i # own /\ Near(box, NodeRect(At(Current, i)), Margin)
  \/ \E l \in Labelled : \E piece \in l.pieces : Near(box, piece, Margin)

\* build: a pill with its badges beyond it, on one side of its revision.
Length(badges) == FoldSeq(LAMBDA b, w : w + BadgeGap + b, 0, badges)
Box(slot, side, x0, y0) ==
  LET beyond == Length(slot.badges) IN Rect(IF side > 0 THEN x0 ELSE x0 - beyond, y0, slot.w + beyond, PillHeight)
Pieces(slot, side, x0, y0) ==
  {Rect(x0, y0, slot.w, PillHeight)} \cup
  {LET beyond == Length(SubSeq(slot.badges, 1, j))
   IN Rect(IF side > 0 THEN x0 + slot.w + beyond - slot.badges[j] ELSE x0 - beyond, y0 + (PillHeight - BadgeHeight) \div 2,
           slot.badges[j], BadgeHeight) : j \in DOMAIN slot.badges}
\* A label that is not where it belongs has a line from its revision.
Label(slot, at, side, x0, y0, leader) ==
  [id |-> slot.id, at |-> at, box |-> Box(slot, side, x0, y0), pieces |-> Pieces(slot, side, x0, y0), leader |-> leader]
BesideX(slot, side, x, dx) == IF side > 0 THEN x + Gap + dx ELSE x - Gap - dx - slot.w

\* Side, distance and height to try, in order: 200, those of the preferred side
\* first when the revision has several slots.
Candidates ==
  LET Step(k) == <<[s |-> 1, dx |-> 0, dy |-> k], [s |-> 1, dx |-> 0, dy |-> -k], [s |-> -1, dx |-> 0, dy |-> k], [s |-> -1, dx |-> 0, dy |-> -k]>>
      Out(r) == FlattenSeq([kk \in 1..4 |->
        IF kk = 1 THEN <<[s |-> 1, dx |-> r, dy |-> 0], [s |-> -1, dx |-> r, dy |-> 0]>>
        ELSE LET dy == (kk - 1) * 14
             IN <<[s |-> 1, dx |-> r, dy |-> dy], [s |-> 1, dx |-> r, dy |-> -dy], [s |-> -1, dx |-> r, dy |-> dy], [s |-> -1, dx |-> r, dy |-> -dy]>>])
  IN SubSeq(<<[s |-> 1, dx |-> 0, dy |-> 0], [s |-> -1, dx |-> 0, dy |-> 0]>> \o FlattenSeq([k \in 1..6 |-> Step(14 * k)]) \o FlattenSeq([r \in 1..13 |-> Out(24 * r)]), 1, 200)
StackCandidates == SelectSeq(Candidates, LAMBDA c : c.s = 1) \o SelectSeq(Candidates, LAMBDA c : c.s = -1)

(***************************************************************************)
(* One revision: its slots and the side they go to.                        *)
(***************************************************************************)
SlotsOf(n, expanded) ==
  LET g == [k \in DOMAIN n.group |-> [id |-> n.group[k].id, w |-> n.group[k].w, badges |-> n.group[k].badges]]
      chip == <<[id |-> 0, w |-> Chip, badges |-> <<>>]>>
  IN IF Len(g) <= MaxStack THEN g ELSE IF expanded THEN chip \o g ELSE chip
Top(n, count, j) == n.y - (count * 14 - 2) + (j - 1) * Pitch

\* The side on which more of them fit where they belong.
Fitting(i, all, side) ==
  LET n == At(Current, i)
  IN Cardinality({j \in DOMAIN all : ~Hit(Box(all[j], side, BesideX(all[j], side, n.x, 0), Top(n, Len(all), j)), i)})
StackSide(i, all) == LET p == At(Current, i).side IN IF Fitting(i, all, p) >= Fitting(i, all, -p) THEN p ELSE -p

\* Variant: a label takes the place beside its revision whatever is there.
FirstFreeBlind(slot, tries, i) == Head(tries)

\* The first place where nothing is, or none.
FirstFree(slot, tries, i) ==
  LET n == At(Current, i)
      free == {t \in DOMAIN tries :
                 LET side == slot.side * tries[t].s
                 IN ~Hit(Box(slot.slot, side, BesideX(slot.slot, side, n.x, tries[t].dx), slot.top + tries[t].dy), i)}
  IN IF free = {} THEN [s |-> 0, dx |-> 0, dy |-> 0] ELSE tries[Min(free)]

(***************************************************************************)
(* Steps.                                                                  *)
(***************************************************************************)
\* The anchored revisions of a component, from the top down.
Anchored(p, c) ==
  SetToSortSeq({i \in DOMAIN p.components[c] : p.components[c][i].group # <<>>},
    LAMBDA i, j : LET a == p.components[c][i]
                      b == p.components[c][j]
                  IN a.y < b.y \/ (a.y = b.y /\ (a.x < b.x \/ (a.x = b.x /\ i < j))))

NoStrip == [box |-> Rect(0, 0, 0, 0), labels |-> {}]
Blank(p) == IF p.components = <<>> THEN <<>> ELSE <<{}>>
Above(p) == IF p.components = <<>> THEN <<>> ELSE Anchored(p, 1)
Start(p) == todo' = Above(p) /\ slots' = <<>> /\ drawn' = Blank(p) /\ strip' = NoStrip

Init ==
  /\ picture \in Pictures /\ open = {} /\ toggles = 0
  /\ todo = Above(picture) /\ slots = <<>> /\ drawn = Blank(picture) /\ strip = NoStrip

Attach ==
  /\ slots = <<>> /\ todo # <<>>
  /\ LET i == Head(todo)
         all == SlotsOf(At(Current, i), <<Current, i>> \in open)
     IN slots' = [j \in DOMAIN all |-> [slot |-> all[j], at |-> i, side |-> StackSide(i, all), top |-> Top(At(Current, i), Len(all), j), many |-> Len(all) > 1]]
  /\ todo' = Tail(todo) /\ UNCHANGED <<picture, open, drawn, strip, toggles>>

\* One slot; in a dense neighbourhood, right of everything placed so far, where nothing is.
PlaceSlot ==
  /\ slots # <<>>
  /\ LET s == Head(slots)
         free == FirstFree(s, IF s.many THEN StackCandidates ELSE Candidates, s.at)
         side == s.side * free.s
         b == Bounds(Current)
         label == IF free.s = 0 THEN Label(s.slot, s.at, 1, b.x + b.w + 40, b.y, TRUE)
                  ELSE Label(s.slot, s.at, side, BesideX(s.slot, side, At(Current, s.at).x, free.dx), s.top + free.dy,
                             free.dx # 0 \/ free.dy # 0)
     IN drawn' = [drawn EXCEPT ![Current] = @ \cup {label}]
  /\ slots' = Tail(slots) /\ UNCHANGED <<picture, open, todo, strip, toggles>>

NextComponent ==
  /\ slots = <<>> /\ todo = <<>> /\ Current < Len(Components) /\ strip = NoStrip
  /\ drawn' = Append(drawn, {}) /\ todo' = Anchored(picture, Current + 1)
  /\ UNCHANGED <<picture, open, slots, strip, toggles>>

\* Components side by side, from left to right.
Offset ==
  LET dx[c \in 1..Len(drawn)] ==
        IF c = 1 THEN 0 ELSE dx[c - 1] + Bounds(c - 1).x + Bounds(c - 1).w + 120 - Bounds(c).x
  IN [c \in 1..Len(drawn) |-> dx[c]]
Whole(c, dx) == Shift(Bounds(c), dx[c])

\* Below the roots and below every label placed.
Floor(b) == Max({b.y + b.h + 24} \cup {n.y + NodeHalf + 56 : n \in UNION {ToSet(Components[c]) : c \in DOMAIN Components}})

\* The strip of worktrees without a revision: a row for its caption, then rows as wide as
\* the picture, at least 480.
Strip ==
  /\ slots = <<>> /\ todo = <<>> /\ Current = Len(Components) /\ strip = NoStrip /\ picture.loose # <<>>
  /\ LET dx == Offset
         empty == Components = <<>>
         b == IF empty THEN Rect(0, 0, 0, 0) ELSE Union({Whole(c, dx) : c \in 1..Len(drawn)})
         top == IF empty THEN 0 ELSE Floor(b)
         limit == Max({480, b.w})
         Put(s, u) ==
           LET total == u.w + Length(u.badges)
               wrap == s.x > 0 /\ s.x + total > limit
               x == IF wrap THEN 0 ELSE s.x
               row == IF wrap THEN s.row + 1 ELSE s.row
           IN [x |-> x + total + 10, row |-> row, used |-> Max({s.used, x + total}),
               out |-> s.out \cup {Label(u, 0, 1, b.x + x, top + Caption + row * Pitch, FALSE)}]
         end == FoldLeft(Put, [x |-> 0, row |-> 0, used |-> 0, out |-> {}], picture.loose)
     IN strip' = [box |-> Rect(b.x, top, Max({end.used, 180}), Caption + end.row * Pitch + PillHeight + 4), labels |-> end.out]
  /\ UNCHANGED <<picture, open, todo, slots, drawn, toggles>>

Done == slots = <<>> /\ todo = <<>> /\ Current = Len(Components) /\ (picture.loose # <<>> => strip # NoStrip)

Toggle ==
  /\ Done /\ toggles < MaxToggles /\ toggles' = toggles + 1
  /\ \E c \in DOMAIN Components : \E i \in DOMAIN Components[c] :
       /\ Len(At(c, i).group) > MaxStack
       /\ open' = IF <<c, i>> \in open THEN open \ {<<c, i>>} ELSE open \cup {<<c, i>>}
  /\ Start(picture) /\ UNCHANGED picture

Next == Attach \/ PlaceSlot \/ NextComponent \/ Strip \/ Toggle

Spec == Init /\ [][Next]_vars

TypeOK ==
  /\ picture \in Pictures /\ toggles \in 0..MaxToggles /\ Len(drawn) <= Len(Components)
  /\ \A c \in DOMAIN drawn : \A l \in drawn[c] : l.at \in DOMAIN Components[c] /\ l.box.h = PillHeight
  /\ \A s \in ToSet(slots) : s.at \in DOMAIN Components[Current] /\ s.side \in {-1, 1}

(***************************************************************************)
(* Properties.                                                             *)
(***************************************************************************)
\* No label is drawn over what is not its own: no pill or badge over one of another
\* worktree or over a revision that is not its own, in any component, in the
\* strip, or across them; and nothing but its own pills lies on the strip.
NoCollision ==
  LET dx == Offset
      placed == UNION {{[id |-> l.id, at |-> <<c, l.at>>, pieces |-> {Shift(r, dx[c]) : r \in l.pieces}] : l \in drawn[c]} : c \in DOMAIN drawn}
      loose == {[id |-> s.id, at |-> <<0, 0>>, pieces |-> s.pieces] : s \in strip.labels}
      labels == placed \cup loose
      Inside(r, b) == b.x <= r.x /\ r.x + r.w <= b.x + b.w /\ b.y + Caption <= r.y /\ r.y + r.h <= b.y + b.h
  IN /\ \A l, k \in labels : l # k => \A r \in l.pieces, q \in k.pieces : ~Near(r, q, 0)
     /\ \A l \in labels, c \in DOMAIN drawn : \A i \in DOMAIN Components[c] :
          l.at # <<c, i>> => \A r \in l.pieces : ~Near(r, Shift(NodeRect(At(c, i)), dx[c]), 0)
     /\ \A l \in loose : \A r \in l.pieces : Inside(r, strip.box)
     /\ strip # NoStrip => \A l \in placed : \A r \in l.pieces : ~Near(r, strip.box, 0)

\* "All worktrees labelled", as the footer says: in a finished picture each worktree of a
\* revision has one pill, or is counted by the closed chip of its revision.
AllLabelled ==
  Done => \A c \in DOMAIN Components : \A i \in DOMAIN Components[c] :
    LET group == At(c, i).group
        mine == {l \in drawn[c] : l.at = i}
        hidden == Len(group) > MaxStack /\ <<c, i>> \notin open
    IN /\ {l.id : l \in mine} = (IF hidden THEN {} ELSE {group[k].id : k \in DOMAIN group}) \cup (IF Len(group) > MaxStack THEN {0} ELSE {})
       /\ \A l, k \in mine : l.id = k.id => l = k
=============================================================================
