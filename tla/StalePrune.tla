----------------------------- MODULE StalePrune -----------------------------
(***************************************************************************)
(* The actions of the desktop viewer and the prune of stale worktree       *)
(* entries: the runner with its generations (ui/actions/runner.ts), the    *)
(* confirmation dialog (ui/actions/index.ts) and the shell's commands that *)
(* preview and apply (src-tauri/src/actions.rs).                           *)
(*                                                                         *)
(* One repository root.  An admin entry of it is its revision (the device, *)
(* inode and bytes of the snapshot), whether it is locked and whether the  *)
(* working directory it names is there.                                    *)
(***************************************************************************)
EXTENDS Naturals, FiniteSets

CONSTANTS
  Entries,
  MaxRuns,      \* bound: generations, one per request or cancelAll
  MaxChanges    \* bound: changes of the entries by anybody else

NoOne == 0

VARIABLES
  disk,       \* the admin entries present: id -> revision, locked, live
  changes,
  record,     \* PruneTokens: the pending confirmation of the root
  runs,       \* runner.run under way
  gen, busy,
  cancelPending,  \* generation whose confirmation cancelAll can resolve
  dialog,         \* generation whose dialog is open
  behind          \* history: an entry was removed and no list was refreshed since

vars == <<disk, changes, record, runs, gen, busy, cancelPending, dialog, behind>>
diskVars == <<disk, changes>>
uiVars == <<gen, busy, cancelPending, dialog>>

Snapshot == [id: Entries, rev: Nat]
Stages == {"other", "previewing", "previewed", "confirming", "decided", "applying",
           "deleting", "applied"}

TypeOK ==
  /\ DOMAIN disk \subseteq Entries
  /\ \A e \in DOMAIN disk : disk[e] \in [rev: Nat, locked: BOOLEAN, live: BOOLEAN]
  /\ changes \in 0..MaxChanges /\ gen \in 0..MaxRuns /\ busy \in BOOLEAN
  /\ record.token \in 0..gen /\ record.snaps \subseteq Snapshot
  /\ \A r \in runs : /\ r.gen \in 1..gen /\ r.at \in Stages /\ r.ok \in BOOLEAN /\ r.failed \in BOOLEAN
                     /\ r.shown \subseteq Snapshot /\ r.todo \subseteq Snapshot /\ r.removed \in BOOLEAN
  /\ cancelPending \in 0..gen /\ dialog \in 0..gen /\ behind \in BOOLEAN

NoRecord == [token |-> NoOne, snaps |-> {}, expired |-> FALSE]

Init ==
  /\ disk \in [Entries -> [rev: {0}, locked: BOOLEAN, live: BOOLEAN]]
  /\ changes = 0 /\ record = NoRecord /\ runs = {}
  /\ gen = 0 /\ busy = FALSE /\ cancelPending = NoOne /\ dialog = NoOne /\ behind = FALSE

Stale(e) == e \in DOMAIN disk /\ ~disk[e].locked /\ ~disk[e].live
Snap(e) == [id |-> e, rev |-> disk[e].rev]
Becomes(r, new) == runs' = (runs \ {r}) \cup {new}
LiveRun(r) == r.gen = gen

(***************************************************************************)
(* Anybody else: git, and the user's other tools.                          *)
(***************************************************************************)
Change ==
  /\ changes < MaxChanges /\ changes' = changes + 1
  /\ \E e \in Entries :
       IF e \in DOMAIN disk
       THEN \/ \E l, v \in BOOLEAN : disk' = [disk EXCEPT ![e].locked = l, ![e].live = v]
            \/ disk' = [disk EXCEPT ![e] = [rev |-> changes + 1, locked |-> FALSE, live |-> FALSE]]
       ELSE disk' = [d \in DOMAIN disk \cup {e} |->
                       IF d = e THEN [rev |-> changes + 1, locked |-> FALSE, live |-> FALSE] ELSE disk[d]]
  /\ UNCHANGED <<record, runs, uiVars, behind>>

Expire ==
  /\ record.token # NoOne /\ record' = [record EXCEPT !.expired = TRUE]
  /\ UNCHANGED <<diskVars, runs, uiVars, behind>>

(***************************************************************************)
(* The runner.                                                             *)
(***************************************************************************)
\* A request while one runs is refused; otherwise it is the live generation.
Run ==
  /\ ~busy /\ gen < MaxRuns
  /\ busy' = TRUE /\ gen' = gen + 1
  /\ \E at \in {"other", "previewing"} :
       runs' = runs \cup {[gen |-> gen + 1, at |-> at, shown |-> {}, token |-> NoOne, ok |-> FALSE,
                           todo |-> {}, removed |-> FALSE, failed |-> FALSE]}
  /\ UNCHANGED <<diskVars, record, cancelPending, dialog, behind>>

\* Variant: a run that ends frees the runner whoever runs now.
FinallyAlways(r) == runs' = runs \ {r} /\ busy' = FALSE /\ cancelPending' = NoOne

\* finally: only the live run frees the runner.
Finally(r) ==
  /\ runs' = runs \ {r}
  /\ IF LiveRun(r) THEN busy' = FALSE /\ cancelPending' = NoOne ELSE UNCHANGED <<busy, cancelPending>>

OtherEnds ==
  /\ \E r \in runs : r.at = "other" /\ Finally(r)
  /\ UNCHANGED <<diskVars, record, gen, dialog, behind>>

\* prune_preview: the entries that git calls stale, with what they are now; the
\* confirmation replaces one that is pending.
ServePreview ==
  \E r \in runs :
    LET snaps == {Snap(e) : e \in {x \in Entries : Stale(x)}}
    IN /\ r.at = "previewing"
       /\ Becomes(r, [r EXCEPT !.at = "previewed", !.shown = snaps, !.token = r.gen])
       /\ record' = IF snaps = {} THEN record ELSE [token |-> r.gen, snaps |-> snaps, expired |-> FALSE]
       /\ UNCHANGED <<diskVars, uiVars, behind>>

PreviewFails ==
  /\ \E r \in runs : r.at = "previewing" /\ Finally(r)
  /\ UNCHANGED <<diskVars, record, gen, dialog, behind>>

\* The preview reaches the viewer: nothing to prune, or the dialog.
AskConfirmation ==
  \E r \in runs :
    /\ r.at = "previewed"
    /\ IF LiveRun(r) /\ r.shown # {}
       THEN /\ cancelPending' = r.gen /\ dialog' = r.gen
            /\ Becomes(r, [r EXCEPT !.at = "confirming"]) /\ UNCHANGED busy
       ELSE Finally(r) /\ UNCHANGED dialog
    /\ UNCHANGED <<diskVars, record, gen, behind>>

\* The user answers the dialog that is open.
Answer ==
  \E r \in runs, yes \in BOOLEAN :
    /\ r.at = "confirming" /\ dialog = r.gen /\ dialog' = NoOne
    /\ Becomes(r, [r EXCEPT !.at = "decided", !.ok = yes])
    /\ UNCHANGED <<diskVars, record, gen, busy, cancelPending, behind>>

\* A yes of the live run applies.
Decided ==
  \E r \in runs :
    /\ r.at = "decided"
    /\ IF LiveRun(r) /\ r.ok
       THEN Becomes(r, [r EXCEPT !.at = "applying"]) /\ cancelPending' = NoOne /\ UNCHANGED busy
       ELSE IF LiveRun(r) THEN Finally(r)
       ELSE runs' = runs \ {r} /\ cancelPending' = NoOne /\ UNCHANGED busy
    /\ UNCHANGED <<diskVars, record, gen, dialog, behind>>

\* cancelAll, on every panel change: the live run loses its generation, an open
\* dialog answers no.
CancelAll ==
  /\ gen < MaxRuns /\ gen' = gen + 1 /\ busy' = FALSE /\ cancelPending' = NoOne /\ dialog' = NoOne
  /\ runs' = {IF r.at = "confirming" /\ r.gen \in {cancelPending, dialog}
              THEN [r EXCEPT !.at = "decided"] ELSE r : r \in runs}
  /\ UNCHANGED <<diskVars, record, behind>>

(***************************************************************************)
(* prune_apply.                                                            *)
(***************************************************************************)
Unchanged(s) == Stale(s.id) /\ Snap(s.id) = s

\* Variant: any pending confirmation of the root is good.
AcceptedAnyToken(r) ==
  record.token # NoOne /\ ~record.expired /\ \A s \in record.snaps : Unchanged(s)

\* The confirmation is this one, recent, and every entry is what was shown.
Accepted(r) ==
  /\ record.token = r.token /\ ~record.expired
  /\ \A s \in record.snaps : Unchanged(s)

\* The confirmation is consumed whatever happens next.
StartApply ==
  \E r \in runs :
    /\ r.at = "applying" /\ record' = NoRecord
    /\ Becomes(r, IF Accepted(r) THEN [r EXCEPT !.at = "deleting", !.todo = record.snaps]
                  ELSE [r EXCEPT !.at = "applied", !.failed = TRUE])
    /\ UNCHANGED <<diskVars, uiVars, behind>>

Verified(s) == Unchanged(s)

\* One entry: verified again, then removed, unless the removal fails.
DeleteEntry ==
  \E r \in runs : \E s \in r.todo :
    /\ r.at = "deleting"
    /\ disk' \in {disk} \cup (IF Verified(s) THEN {[e \in DOMAIN disk \ {s.id} |-> disk[e]]} ELSE {})
    /\ LET gone == s.id \notin DOMAIN disk'
       IN /\ Becomes(r, [r EXCEPT !.todo = @ \ {s}, !.removed = @ \/ gone])
          /\ behind' = (behind \/ gone)
    /\ UNCHANGED <<changes, record, uiVars>>

ApplyDone ==
  /\ \E r \in runs : r.at = "deleting" /\ r.todo = {} /\ Becomes(r, [r EXCEPT !.at = "applied"])
  /\ UNCHANGED <<diskVars, record, uiVars, behind>>

\* The lists are refreshed for whatever was removed, whoever is looking.
Applied ==
  \E r \in runs :
    /\ r.at = "applied" /\ Finally(r)
    /\ behind' = IF r.removed THEN FALSE ELSE behind
    /\ UNCHANGED <<diskVars, record, gen, dialog>>

Next ==
  \/ Change \/ Expire \/ Run \/ OtherEnds \/ ServePreview \/ PreviewFails \/ AskConfirmation
  \/ Answer \/ Decided \/ CancelAll \/ StartApply \/ DeleteEntry \/ ApplyDone \/ Applied

Spec == Init /\ [][Next]_vars

(***************************************************************************)
(* Properties.                                                             *)
(***************************************************************************)
Pruned == DOMAIN disk \ DOMAIN disk'

\* An entry is removed only when the user said yes to a dialog that showed exactly
\* this entry as it is now, and when it is unlocked and its directory is gone,
\* although runs overlap and the entries change all the while.
RemovesOnlyConfirmed ==
  \A e \in Pruned : /\ Stale(e)
                    /\ \E r \in runs : r.at = "deleting" /\ r.ok /\ Snap(e) \in r.shown

\* The runner is busy exactly while its live generation runs, and the dialog that
\* is open is the one of that generation.
OneLiveRun ==
  /\ busy <=> \E r \in runs : LiveRun(r)
  /\ dialog # NoOne => dialog = gen /\ \E r \in runs : LiveRun(r) /\ r.at = "confirming"

\* A list that is behind the disk is behind only while a run has yet to report.
ListsCatchUp == behind => \E r \in runs : r.removed
=============================================================================
