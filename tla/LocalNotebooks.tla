--------------------------- MODULE LocalNotebooks ---------------------------
(***************************************************************************)
(* The three notebooks that the lenses of a session keep in the local      *)
(* storage of the app: the hypothetical branches of Replay (ui/replay), the*)
(* annotations of Handoffs (ui/handoffs) and the claims of the Evidence    *)
(* Court (ui/court).  Two windows of the app share one storage; each       *)
(* compares what it read last with what is stored before it writes (the    *)
(* comparison and the write are one step here: see the README).            *)
(*                                                                         *)
(* A behaviour is about one of the three.  Texts are numbers, and an event *)
(* stands for its identity: id, source and session.                        *)
(***************************************************************************)
EXTENDS Naturals, FiniteSets

CONSTANTS
  None, Corrupt,      \* nothing; stored text that does not parse
  Windows, Ids, Events,
  Lane,               \* [event -> its source and session]
  MaxEntries,         \* the entries a notebook may hold
  Budgets             \* bounds: saves, edits, lookups, failures

VARIABLES
  kind,
  stored,             \* the storage: a set of entries, or Corrupt
  used,               \* the random ids given so far
  win,                \* [window -> its panel]
  budget

vars == <<kind, stored, used, win, budget>>
Spend(what) == budget[what] > 0 /\ budget' = [budget EXCEPT ![what] = @ - 1]
Slots == {"from", "to"}   \* Handoffs look up two ends, the other two one event
Entries == [id : Ids, text : 0..2, from : Events \cup {None}, to : Events \cup {None}]
Books == {b \in SUBSET Entries : Cardinality(b) <= MaxEntries}
Empty == [base |-> {}, writable |-> TRUE, editor |-> None, dirty |-> FALSE, selected |-> None,
          field |-> [s \in Slots |-> None], verified |-> [s \in Slots |-> None], lookups |-> {}]

TypeOK ==
  /\ kind \in {"replay", "handoffs", "court"} /\ used \subseteq Ids
  /\ stored # Corrupt => stored \subseteq Entries
  /\ \A w \in Windows :
       /\ win[w].base # Corrupt => win[w].base \subseteq Entries
       /\ win[w].editor # None => win[w].editor \in Entries
       /\ win[w].selected \in Ids \cup {None} /\ {win[w].writable, win[w].dirty} \subseteq BOOLEAN
       /\ \A s \in Slots : {win[w].field[s], win[w].verified[s]} \subseteq Events \cup {None}
       /\ \A l \in win[w].lookups : l.slot \in Slots /\ l.event \in Events /\ l.inForce \in BOOLEAN

Init ==
  /\ kind \in {"replay", "handoffs", "court"} /\ stored = {} /\ used = {}
  /\ win = [w \in Windows |-> Empty] /\ budget \in Budgets

ById(book, id) == {e \in book : e.id = id}
Put(book, e) == (book \ ById(book, e.id)) \cup {e}

(***************************************************************************)
(* The storage (notebook.ts, model.ts).                                    *)
(***************************************************************************)
\* The limits, and for Handoffs the rules of a link.
Valid(book) ==
  /\ Cardinality(book) <= MaxEntries
  /\ kind = "replay" => \A e \in book : e.text > 0
  /\ kind = "handoffs" =>
       /\ \A e \in book : e.from # e.to /\ Lane[e.from] # Lane[e.to]
       /\ \A e, f \in book : e.from = f.from /\ e.to = f.to => e = f

\* Variant: the last writer wins.
StoresOver(w, book) == Valid(book)

\* Nothing is written over a change of the other window or over corrupt text.
Stores(w, book) == Valid(book) /\ stored = win[w].base /\ stored # Corrupt

\* A save takes effect in storage and memory, or in neither.
Save(w, book, after, kept) ==
  /\ Spend("saves") /\ win[w].writable
  /\ IF Stores(w, book)
     THEN stored' = book /\ win' = [win EXCEPT ![w] = [after EXCEPT !.base = book]]
     ELSE UNCHANGED stored /\ win' = [win EXCEPT ![w] = kept]
  /\ UNCHANGED kind

Cancelled(p, slots) ==
  [p EXCEPT !.verified = [s \in Slots |-> IF s \in slots THEN None ELSE @[s]],
            !.lookups = {IF l.slot \in slots THEN [l EXCEPT !.inForce = FALSE] ELSE l : l \in @}]

\* Reading again: Replay refuses with unsaved edits, the others drop their drafts.
Reload(w) ==
  /\ kind = "replay" => ~win[w].dirty
  /\ Spend("edits")
  /\ LET p == Cancelled(win[w], Slots)
         text == IF stored = Corrupt THEN {} ELSE stored
         again == IF p.editor = None THEN {} ELSE ById(text, p.editor.id)
         read == [p EXCEPT !.base = stored, !.writable = stored # Corrupt]
     IN win' = [win EXCEPT ![w] =
          IF kind = "replay" THEN [read EXCEPT !.editor = IF again = {} THEN None ELSE CHOOSE e \in again : TRUE]
          ELSE [read EXCEPT !.field = [s \in Slots |-> None], !.selected = None]]
  /\ UNCHANGED <<kind, stored, used>>

\* A version of the app that this one does not understand.
Corrupts == stored # Corrupt /\ Spend("fails") /\ stored' = Corrupt /\ UNCHANGED <<kind, used, win>>

(***************************************************************************)
(* Captured evidence (inspect, lookup).                                    *)
(***************************************************************************)
\* Handoffs look up each end, Replay and the Court one event.
SlotsOf == IF kind = "handoffs" THEN Slots ELSE {"from"}

\* The event id of a slot: typed, or filled from a recent observation; in
\* Replay the observation in focus.
Types(w, s, e) == win' = [win EXCEPT ![w] = [Cancelled(win[w], {s}) EXCEPT !.field[s] = e]]

TypeEvent(w) ==
  /\ Spend("edits") /\ \E s \in SlotsOf, e \in Events : e # win[w].field[s] /\ Types(w, s, e)
  /\ UNCHANGED <<kind, stored, used>>

MayLookUp(w) ==
  kind = "court" => \E e \in ById(IF win[w].base = Corrupt THEN {} ELSE win[w].base, win[w].selected) : e.from = None

LookUp(w) ==
  /\ MayLookUp(w) /\ Spend("lookups")
  /\ \E s \in SlotsOf :
       /\ win[w].field[s] # None
       /\ win' = [win EXCEPT ![w] = [Cancelled(win[w], {s}) EXCEPT !.lookups = @ \cup
                   {[slot |-> s, event |-> win[w].field[s], selected |-> win[w].selected, inForce |-> TRUE]}]]
  /\ UNCHANGED <<kind, stored, used>>

LandsOn(p, l) == l.inForce

\* The envelope whose identity is the one asked for; another one, or none, is an error.
LookUpLands(w) ==
  /\ \E l \in win[w].lookups : \E found \in BOOLEAN :
       LET p == [win[w] EXCEPT !.lookups = @ \ {l}]
       IN /\ IF found THEN UNCHANGED budget ELSE Spend("fails")
          /\ win' = [win EXCEPT ![w] = IF found /\ LandsOn(p, l) THEN [p EXCEPT !.verified[l.slot] = l.event] ELSE p]
  /\ UNCHANGED <<kind, stored, used>>

Fresh == Ids \ used
NewId(id) == used' = used \cup {id}

(***************************************************************************)
(* Replay: one branch in the editor.                                       *)
(***************************************************************************)
Fill(p, e) == [p EXCEPT !.editor = e, !.dirty = FALSE]

NewBranch(w) ==
  /\ kind = "replay" /\ win[w].writable /\ ~win[w].dirty /\ win[w].verified["from"] # None
  /\ \E id \in Fresh :
       /\ NewId(id)
       /\ win' = [win EXCEPT ![w] = [Fill(@, [id |-> id, text |-> 0, from |-> @.verified["from"], to |-> None]) EXCEPT !.dirty = TRUE]]
  /\ UNCHANGED <<kind, stored, budget>>

\* Unsaved edits are saved or discarded before another branch is opened.
ClearOf(p) == ~p.dirty

OpenBranch(w) ==
  /\ kind = "replay" /\ ClearOf(win[w]) /\ win[w].base # Corrupt /\ Spend("edits")
  /\ \E e \in win[w].base : win' = [win EXCEPT ![w] = Fill(Cancelled(@, Slots), e)]
  /\ UNCHANGED <<kind, stored, used>>

EditBranch(w) ==
  /\ kind = "replay" /\ win[w].editor # None /\ Spend("edits")
  /\ \E t \in 1..2 : win' = [win EXCEPT ![w].editor.text = t, ![w].dirty = TRUE]
  /\ UNCHANGED <<kind, stored, used>>

SaveBranch(w) ==
  /\ kind = "replay" /\ win[w].editor # None /\ win[w].base # Corrupt
  /\ Save(w, Put(win[w].base, win[w].editor), Fill(win[w], win[w].editor), win[w]) /\ UNCHANGED used

Discard(w) ==
  /\ kind = "replay" /\ win[w].editor # None /\ win[w].base # Corrupt
  /\ LET prior == ById(win[w].base, win[w].editor.id)
     IN win' = [win EXCEPT ![w] = Fill(@, IF prior = {} THEN None ELSE CHOOSE e \in prior : TRUE)]
  /\ UNCHANGED <<kind, stored, used, budget>>

\* Removal of an entry, confirmed, in any of the three.
Remove(w) ==
  /\ win[w].base # Corrupt
  /\ \E e \in win[w].base :
       LET p == win[w]
           q == IF p.editor # None /\ p.editor.id = e.id THEN Fill(p, None) ELSE p
       IN Save(w, p.base \ {e}, [Cancelled(q, Slots) EXCEPT !.selected = IF @ = e.id THEN None ELSE @],
               IF kind = "replay" THEN p ELSE Cancelled(p, Slots))
  /\ UNCHANGED used

(***************************************************************************)
(* Handoffs: a link between two looked-up ends.                            *)
(***************************************************************************)
SaveLink(w) ==
  /\ kind = "handoffs" /\ win[w].base # Corrupt
  /\ LET p == win[w]
         ends == p.verified
     IN /\ None \notin {ends["from"], ends["to"]} /\ ends["from"] # ends["to"] /\ Lane[ends["from"]] # Lane[ends["to"]]
        /\ \E id \in Fresh :
             /\ NewId(id)
             /\ Save(w, p.base \cup {[id |-> id, text |-> 1, from |-> ends["from"], to |-> ends["to"]]},
                     [Cancelled(p, Slots) EXCEPT !.field = [s \in Slots |-> None]], p)

\* Showing a saved end, paging and leaving drop both lookups.
Invalidate(w) ==
  /\ kind # "replay" /\ Spend("edits") /\ win' = [win EXCEPT ![w] = Cancelled(@, Slots)] /\ UNCHANGED <<kind, stored, used>>

(***************************************************************************)
(* The Evidence Court: a receipt attached to the selected requirement.     *)
(***************************************************************************)
AddRequirement(w) ==
  /\ kind = "court" /\ win[w].base # Corrupt
  /\ \E id \in Fresh :
       /\ NewId(id)
       /\ Save(w, win[w].base \cup {[id |-> id, text |-> 1, from |-> None, to |-> None]},
               [Cancelled(win[w], Slots) EXCEPT !.selected = id], win[w])

Chosen(p, id) == [Cancelled(p, Slots) EXCEPT !.selected = id]

SelectRequirement(w) ==
  /\ kind = "court" /\ win[w].base # Corrupt /\ Spend("edits")
  /\ \E e \in win[w].base : e.id # win[w].selected /\ win' = [win EXCEPT ![w] = Chosen(@, e.id)]
  /\ UNCHANGED <<kind, stored, used>>

\* offerEvent: an event id brought from the detail pane.
OfferEvent(w) ==
  /\ kind = "court" /\ Spend("edits")
  /\ \E e \in Events : win' = [win EXCEPT ![w] = [Cancelled(@, Slots) EXCEPT !.selected = None, !.field["from"] = e]]
  /\ UNCHANGED <<kind, stored, used>>

Attach(w) ==
  /\ kind = "court" /\ win[w].base # Corrupt /\ win[w].verified["from"] # None
  /\ LET p == win[w]
     IN \E r \in ById(p.base, p.selected) :
          r.from = None /\ Save(w, Put(p.base, [r EXCEPT !.from = p.verified["from"]]), Cancelled(p, Slots), p)
  /\ UNCHANGED used

Next ==
  \/ Corrupts
  \/ \E w \in Windows :
       \/ Reload(w) \/ TypeEvent(w) \/ LookUp(w) \/ LookUpLands(w) \/ Remove(w)
       \/ NewBranch(w) \/ OpenBranch(w) \/ EditBranch(w) \/ SaveBranch(w) \/ Discard(w)
       \/ SaveLink(w) \/ Invalidate(w)
       \/ AddRequirement(w) \/ SelectRequirement(w) \/ OfferEvent(w) \/ Attach(w)

Spec == Init /\ [][Next]_vars

(***************************************************************************)
(* Properties.                                                             *)
(***************************************************************************)
\* A window never undoes what another one stored: each write changes one entry
\* of what is stored, and text that does not parse is never overwritten.
WritesOne ==
  stored' # stored /\ stored' # Corrupt =>
    /\ stored # Corrupt
    /\ \E id \in Ids : stored \ ById(stored, id) = stored' \ ById(stored', id)

\* What counts as verified is the event whose id stands in the field, and what
\* the Court would attach was looked up for the requirement that is selected.
VerifiedIsTyped == \A w \in Windows, s \in Slots : win[w].verified[s] # None => win[w].verified[s] = win[w].field[s]

\* Unsaved edits of a branch end in what the window then holds for the same
\* branch: saved, reverted or removed, never replaced by another branch.
EditsKept ==
  \A w \in Windows :
    LET p == win[w]
        q == win'[w]
    IN p.dirty /\ ~q.dirty =>
         IF q.editor = None THEN ById(q.base, p.editor.id) = {} ELSE q.editor.id = p.editor.id /\ q.editor \in q.base

\* A receipt is verified for the requirement it was looked up for.
AttachesReviewed ==
  \A w \in Windows :
    kind = "court" /\ win'[w].verified["from"] \notin {None, win[w].verified["from"]} =>
      \E l \in win[w].lookups : l.inForce /\ l \notin win'[w].lookups /\ l.selected = win'[w].selected
=============================================================================
