--------------------------- MODULE EvidencePanels ---------------------------
(***************************************************************************)
(* The two panels that list recorded evidence across sessions and open the *)
(* captured event behind a row: Files (ui/files.ts), by path or by session,*)
(* and Session stratigraphy (ui/strata), where an error signature opens a  *)
(* page of its sessions.                                                   *)
(*                                                                         *)
(* A behaviour is about one of the two.  A row says that a session observed*)
(* a key: a recorded scope and path in Files, a signature in strata.  Rows *)
(* with the same event differ when what is recorded of it has changed.     *)
(***************************************************************************)
EXTENDS Naturals, FiniteSets

CONSTANTS
  None,
  Rows,          \* [key, session, event]
  Comparable,    \* the keys that identify one file
  Budgets        \* bounds: changes, moves, clicks, fails

VARIABLES
  kind,
  world,         \* the rows of the daemon
  active,        \* the panel is on the screen
  list,          \* mode, phase, the rows served, only shared paths
  loads,         \* list requests under way
  pick,          \* strata: the active signature
  page,          \* strata: the sessions on the screen
  pages,         \* strata: page requests under way
  receipts,      \* captured events asked for
  shown,         \* the captured event on the screen, with its row
  budget

vars == <<kind, world, active, list, loads, pick, page, pages, receipts, shown, budget>>
Spend(what) == budget[what] > 0 /\ budget' = [budget EXCEPT ![what] = @ - 1]
Keys == {r.key : r \in Rows}
Modes == {"summary", "sessions"}

TypeOK ==
  /\ kind \in {"files", "strata"} /\ world \subseteq Rows /\ active \in BOOLEAN
  /\ list.mode \in Modes /\ list.phase \in {"idle", "loading", "ready", "error"} /\ list.rows \subseteq Rows /\ list.shared \in BOOLEAN
  /\ \A l \in loads : l.mode \in Modes /\ l.inForce \in BOOLEAN /\ (l.served # None => l.served \subseteq Rows)
  /\ pick \in Keys \cup {None} /\ (page # None => page \subseteq Rows)
  /\ \A p \in pages : p.key \in Keys /\ p.inForce \in BOOLEAN /\ (p.served # None => p.served.rows \subseteq Rows)
  /\ \A r \in receipts : r.row \in Rows /\ r.inForce \in BOOLEAN
  /\ shown # None => shown.row \in Rows

Init ==
  /\ kind \in {"files", "strata"} /\ world \in SUBSET Rows /\ active = FALSE
  /\ list = [mode |-> IF kind = "files" THEN "summary" ELSE "sessions", phase |-> "idle", rows |-> {}, shared |-> FALSE]
  /\ loads = {} /\ pick = None /\ page = None /\ pages = {} /\ receipts = {} /\ shown = None /\ budget \in Budgets

Dropped(requests) == {[r EXCEPT !.inForce = FALSE] : r \in requests}

(***************************************************************************)
(* What is on the screen.                                                  *)
(***************************************************************************)
Sharing(rows, k) == {r.session : r \in {q \in rows : q.key = k}}

\* draw, drawSignatures: a signature, and under the filter a path, is one that
\* at least two sessions observed.
Visible(r) ==
  (kind = "strata" \/ list.shared) =>
    (kind = "files" => r.key \in Comparable) /\ Cardinality(Sharing(list.rows, r.key)) > 1

\* The rows that offer an observation.
Listed ==
  IF kind = "strata" THEN IF page = None THEN {} ELSE page
  ELSE IF list.phase = "ready" /\ list.mode = "sessions" THEN {r \in list.rows : Visible(r)} ELSE {}

(***************************************************************************)
(* The list.                                                               *)
(***************************************************************************)
CancelDetail == receipts' = Dropped(receipts) /\ shown' = None
\* clearSelection: the signature, its page and the evidence.
ClearSelection == CancelDetail /\ pick' = None /\ page' = None /\ pages' = Dropped(pages)

\* refresh: strata forgets its rows, Files keeps them undrawn.
Reloads(mode) ==
  /\ ClearSelection
  /\ list' = [list EXCEPT !.mode = mode, !.phase = "loading", !.rows = IF kind = "strata" THEN {} ELSE @]
  /\ loads' = Dropped(loads) \cup {[mode |-> mode, served |-> None, inForce |-> TRUE]}

\* Files reloads on each visit; strata keeps its snapshot unless the last load
\* failed.
Enter ==
  /\ ~active /\ active' = TRUE /\ Spend("moves")
  /\ IF kind = "files" \/ list.phase \in {"idle", "error"} THEN Reloads(list.mode)
     ELSE UNCHANGED <<list, loads, pick, page, pages, receipts, shown>>
  /\ UNCHANGED <<kind, world>>

\* Files cancels what is under way; strata goes on behind the other panels.
Leave ==
  /\ active /\ active' = FALSE
  /\ IF kind = "files" THEN CancelDetail /\ loads' = Dropped(loads) ELSE UNCHANGED <<receipts, shown, loads>>
  /\ UNCHANGED <<kind, world, list, pick, page, pages, budget>>

Refresh == active /\ Spend("clicks") /\ Reloads(list.mode) /\ UNCHANGED <<kind, world, active>>

ClickMode ==
  /\ kind = "files" /\ active /\ Spend("clicks")
  /\ \E m \in Modes : m # list.mode /\ Reloads(m)
  /\ UNCHANGED <<kind, world, active>>

\* A filter, a search or another page of the list.
Filter ==
  /\ active /\ (kind = "files" => list.mode = "sessions") /\ Spend("clicks") /\ ClearSelection
  /\ list' \in {list, [list EXCEPT !.shared = kind = "files" /\ ~@]}
  /\ UNCHANGED <<kind, world, active, loads>>

ListAnswered ==
  /\ \E l \in loads :
       /\ l.served # None /\ loads' = loads \ {l}
       /\ list' = IF l.inForce THEN [list EXCEPT !.phase = "ready", !.rows = IF l.mode = "sessions" THEN l.served ELSE @] ELSE list
  /\ UNCHANGED <<kind, world, active, pick, page, pages, receipts, shown, budget>>

ListFails ==
  /\ \E l \in loads :
       /\ IF l.inForce THEN Spend("fails") ELSE UNCHANGED budget
       /\ loads' = loads \ {l} /\ list' = IF l.inForce THEN [list EXCEPT !.phase = "error"] ELSE list
  /\ UNCHANGED <<kind, world, active, pick, page, pages, receipts, shown>>

(***************************************************************************)
(* strata: the sessions of the active signature.                           *)
(***************************************************************************)
LoadSessions(k) ==
  /\ pick' = k /\ page' = None /\ CancelDetail
  /\ pages' = Dropped(pages) \cup {[key |-> k, served |-> None, inForce |-> TRUE]}
  /\ UNCHANGED <<kind, world, active, list, loads>>

SelectSignature ==
  /\ kind = "strata" /\ active /\ Spend("clicks")
  /\ \E r \in list.rows : Visible(r) /\ LoadSessions(r.key)

\* Another page of the sessions, or a fresh first one.
RefreshSessions == kind = "strata" /\ active /\ pick # None /\ Spend("clicks") /\ LoadSessions(pick)

Own(p) == p.served.key = p.key

\* A page of another signature is an error.
PageAnswered ==
  /\ \E p \in pages :
       p.served # None /\ pages' = pages \ {p} /\ page' = IF p.inForce /\ Own(p) THEN p.served.rows ELSE page
  /\ UNCHANGED <<kind, world, active, list, loads, pick, receipts, shown, budget>>

PageFails ==
  /\ \E p \in pages : pages' = pages \ {p} /\ IF p.inForce THEN Spend("fails") ELSE UNCHANGED budget
  /\ UNCHANGED <<kind, world, active, list, loads, pick, page, receipts, shown>>

(***************************************************************************)
(* The captured event behind a row.                                        *)
(***************************************************************************)
Inspect ==
  /\ active /\ Spend("clicks")
  /\ \E r \in Listed : receipts' = Dropped(receipts) \cup {[row |-> r, inForce |-> TRUE]}
  /\ shown' = None /\ UNCHANGED <<kind, world, active, list, loads, pick, page, pages>>

\* matchesFileReceipt compares all that the row says; strata the id, source
\* and session.
Matches(row, event) ==
  event.event = row.event /\ event.session = row.session /\ (kind = "files" => event.key = row.key)

\* What the daemon finds under the event id of the row.
ReceiptAnswered ==
  /\ \E x \in receipts, event \in Rows :
       /\ event.event = x.row.event /\ receipts' = receipts \ {x}
       /\ shown' = IF x.inForce /\ Matches(x.row, event) THEN [row |-> x.row, event |-> event] ELSE shown
  /\ UNCHANGED <<kind, world, active, list, loads, pick, page, pages, budget>>

ReceiptFails ==
  /\ \E x \in receipts : receipts' = receipts \ {x} /\ IF x.inForce THEN Spend("fails") ELSE UNCHANGED budget
  /\ UNCHANGED <<kind, world, active, list, loads, pick, page, pages, shown>>

CloseReceipt ==
  /\ active /\ shown # None /\ CancelDetail /\ UNCHANGED <<kind, world, active, list, loads, pick, page, pages, budget>>

(***************************************************************************)
(* The daemon.                                                             *)
(***************************************************************************)
Capture ==
  /\ Spend("changes") /\ \E r \in Rows \ world : world' = world \cup {r}
  /\ UNCHANGED <<kind, active, list, loads, pick, page, pages, receipts, shown>>

ServeList ==
  /\ \E l \in loads : l.inForce /\ l.served = None /\ loads' = (loads \ {l}) \cup {[l EXCEPT !.served = world]}
  /\ UNCHANGED <<kind, world, active, list, pick, page, pages, receipts, shown, budget>>

\* /errors/signatures/sessions; a daemon may answer for another signature.
ServePage ==
  /\ \E p \in pages, k \in Keys :
       /\ p.inForce /\ p.served = None /\ (k # p.key => budget.fails > 0)
       /\ pages' = (pages \ {p}) \cup {[p EXCEPT !.served = [key |-> k, rows |-> {r \in world : r.key = k}]]}
  /\ UNCHANGED <<kind, world, active, list, loads, pick, page, receipts, shown, budget>>

Next ==
  \/ Enter \/ Leave \/ Refresh \/ ClickMode \/ Filter \/ ListAnswered \/ ListFails
  \/ SelectSignature \/ RefreshSessions \/ PageAnswered \/ PageFails
  \/ Inspect \/ ReceiptAnswered \/ ReceiptFails \/ CloseReceipt
  \/ Capture \/ ServeList \/ ServePage

Spec == Init /\ [][Next]_vars

(***************************************************************************)
(* Properties.                                                             *)
(***************************************************************************)
\* The observation on the screen is behind a row that is still listed, and
\* records what the row says, through reloads, filters, late answers and ids
\* that stand for another record by now.
ReceiptOfListed ==
  shown # None =>
    /\ shown.row \in Listed
    /\ shown.event.session = shown.row.session
    /\ kind = "files" => shown.event.key = shown.row.key

\* The sessions on the screen are those of the active signature, and the
\* signature is one of the snapshot.
PageOfSignature ==
  /\ page # None => pick # None /\ \A r \in page : r.key = pick
  /\ pick # None => list.phase = "ready" /\ \E r \in list.rows : r.key = pick
=============================================================================
