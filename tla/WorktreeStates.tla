---------------------------- MODULE WorktreeStates ----------------------------
(***************************************************************************)
(* The worktree observer of the daemon (observeWorktrees and               *)
(* classifyWorktree in src/internal/daemon/worktree_states.go): scans of   *)
(* one repository, the records of its linked worktrees, the file they are  *)
(* kept in across restarts, and the state that GET /worktrees derives from *)
(* the last observation and the commit marks of full-mode history.         *)
(*                                                                         *)
(* A revision is the set of commits it can reach: it is ahead of the       *)
(* default branch if one of them is not reachable from there.  Left out:   *)
(* the primary checkout, unborn heads, a repository without a default      *)
(* branch, gh pr merge marks, and the limit of 2000 records.               *)
(***************************************************************************)
EXTENDS Naturals, FiniteSets

CONSTANTS
  Paths,       \* the roots of linked worktrees
  Commits,
  None,
  Budgets      \* bounds: moves of git and its users; failing scans, comparisons
               \* and saves, and stops

VARIABLES
  main,      \* the revision of the default branch
  tree,      \* [Paths -> the worktree on disk]; life counts its incarnations
  diverged,  \* ghost: the incarnations that ever had a commit of their own
  mark,      \* [Paths -> the last commit mark]
  clock,     \* number of marks: a mark has an even time, an observation an odd one
  up,
  listing,   \* the scan in progress
  snap,      \* registration.snapshot
  step, now, \* progress of observeWorktrees, and the time it started at
  records,   \* worktreeStates.records
  file,      \* worktree-states.json
  latest,    \* worktreeStates.latest
  failed,    \* ghost: the last save failed
  told,      \* ghost: the last outcome published and saved, with its lifetime
  moves, faults  \* what is left of the budget

world == <<main, tree, diverged, mark, clock>>
ghosts == <<failed, told>>
vars == <<world, up, listing, snap, step, now, records, file, latest, ghosts, moves, faults>>

Revisions == SUBSET Commits
Outcomes == {"landed", "abandoned", "never_diverged", "unknown"}
Trees == [there: BOOLEAN, listed: BOOLEAN, readable: BOOLEAN, head: Revisions, life: Nat]
Records == [head: Revisions, ahead: BOOLEAN, compared: BOOLEAN, unavailable: BOOLEAN,
            ever: BOOLEAN, present: BOOLEAN, start: Nat, goneAt: Nat,
            outcome: Outcomes \cup {None}, nth: Nat, from: Nat, to: Nat]
Listed == [head: Revisions, life: Nat]
Snapshots == [trees: [Paths -> [head: Revisions, life: Nat, ok: BOOLEAN] \cup {None}],
              target: Revisions, stale: BOOLEAN]

TypeOK ==
  /\ main \in Revisions /\ tree \in [Paths -> Trees]
  /\ diverged \subseteq Paths \X Nat
  /\ mark \in [Paths -> Nat] /\ clock \in Nat
  /\ up \in BOOLEAN
  /\ listing \in [Paths -> Listed \cup {None}] \cup {None}
  /\ snap \in Snapshots \cup {None}
  /\ step \in {"idle", "started", "applied", "saved"} /\ now \in Nat
  /\ records \in [Paths -> Records \cup {None}]
  /\ file \in [Paths -> Records \cup {None}]
  /\ latest \in [reason: {"", "graph_unavailable", "graph_stale"},
                 records: [Paths -> Records \cup {None}]] \cup {None}
  /\ failed \in BOOLEAN
  /\ told \in [Paths -> [outcome: Outcomes, nth: Nat] \cup {None}]
  /\ moves \in Nat /\ faults \in Nat

----------------------------------------------------------------------------
(* Git, its users and the marks their sessions leave.                      *)

Move ==
  /\ moves > 0
  /\ moves' = moves - 1
  /\ UNCHANGED <<up, listing, snap, step, now, records, file, latest, ghosts, faults>>

\* git worktree add: at the default branch, in the place of an older one or not.
Add(p) ==
  /\ ~tree[p].there
  /\ tree' = [tree EXCEPT ![p] = [there |-> TRUE, listed |-> TRUE, readable |-> TRUE,
                                  head |-> main, life |-> @.life + 1]]
  /\ UNCHANGED <<main, diverged, mark, clock>>

\* git commit, by a session that is captured or by hand.
Work(p, c, marked) ==
  /\ tree[p].there /\ c \notin main /\ \A q \in Paths : c \notin tree[q].head
  /\ tree' = [tree EXCEPT ![p].head = @ \cup {c}]
  /\ diverged' = diverged \cup {<<p, tree[p].life>>}
  /\ clock' = IF marked THEN clock + 1 ELSE clock
  /\ mark' = IF marked THEN [mark EXCEPT ![p] = 2 * (clock + 1)] ELSE mark
  /\ UNCHANGED main

Merge(p) ==
  /\ tree[p].there /\ ~(tree[p].head \subseteq main)
  /\ main' = main \cup tree[p].head
  /\ UNCHANGED <<tree, diverged, mark, clock>>

\* git reset --hard to the default branch.
Reset(p) ==
  /\ tree[p].there /\ tree[p].head # main
  /\ tree' = [tree EXCEPT ![p].head = main]
  /\ UNCHANGED <<main, diverged, mark, clock>>

\* git worktree remove; or by hand, and git goes on listing it.
Remove(p, listed) ==
  /\ tree[p].there
  /\ tree' = [tree EXCEPT ![p].there = FALSE, ![p].listed = listed]
  /\ UNCHANGED <<main, diverged, mark, clock>>

\* The checkout cannot be read for a while.
Hide(p) ==
  /\ tree[p].there
  /\ tree' = [tree EXCEPT ![p].readable = ~@]
  /\ UNCHANGED <<main, diverged, mark, clock>>

World ==
  /\ Move
  /\ \E p \in Paths :
       \/ Add(p) \/ Merge(p) \/ Reset(p) \/ Hide(p)
       \/ \E c \in Commits, marked \in BOOLEAN : Work(p, c, marked)
       \/ \E listed \in BOOLEAN : Remove(p, listed)

----------------------------------------------------------------------------
(* A scan: the list of worktrees with their heads first, then the status   *)
(* of each and the default branch.                                         *)

ScanList ==
  /\ up /\ listing = None
  /\ listing' = [p \in Paths |-> IF tree[p].listed
                                 THEN [head |-> tree[p].head, life |-> tree[p].life] ELSE None]
  /\ UNCHANGED <<world, up, snap, step, now, records, file, latest, ghosts, moves, faults>>

\* git status fails in a checkout that is not there or cannot be read.
ScanStatus ==
  /\ up /\ listing # None
  /\ snap' = [trees |-> [p \in Paths |->
                IF listing[p] = None THEN None
                ELSE [head |-> listing[p].head, life |-> listing[p].life,
                      ok |-> tree[p].there /\ tree[p].readable]],
              target |-> main, stale |-> FALSE]
  /\ listing' = None
  /\ UNCHANGED <<world, up, step, now, records, file, latest, ghosts, moves, faults>>

\* The last successful snapshot is retained and marked.
ScanFails ==
  /\ up /\ listing # None /\ faults > 0
  /\ faults' = faults - 1
  /\ snap' = IF snap = None THEN None ELSE [snap EXCEPT !.stale = TRUE]
  /\ listing' = None
  /\ UNCHANGED <<world, up, step, now, records, file, latest, ghosts, moves>>

----------------------------------------------------------------------------
(* An observation.                                                         *)

StartObserve ==
  /\ up /\ step = "idle"
  /\ step' = "started" /\ now' = 2 * clock + 1
  /\ UNCHANGED <<world, up, listing, snap, records, file, latest, ghosts, moves, faults>>

Fresh == IF snap = None THEN FALSE ELSE ~snap.stale

Missing(p) == ~tree[p].there

\* The snapshot lists it, and it is not confirmed missing.
Seen(p) == snap.trees[p] # None /\ (snap.trees[p].ok \/ ~Missing(p))

Known(p) == records[p] # None

Present(p) == IF Known(p) THEN records[p].present ELSE FALSE

\* New, or back after a confirmed disappearance: a lifetime begins.
Begins(p) == ~Present(p)

Ahead(rev) == ~(rev \subseteq snap.target)

Compared(ok) == ok

\* ok: the comparison with the default branch succeeds.  Ghosts: nth counts
\* the lifetimes of the path, and from and to are the first and the last of the
\* incarnations whose heads this one saw.
ObservedPresent(p, ok) ==
  LET seen == snap.trees[p]
      ahead == Compared(ok) /\ ok /\ Ahead(seen.head)
  IN [head |-> seen.head, ahead |-> ahead, compared |-> Compared(ok), unavailable |-> ~seen.ok,
      ever |-> ahead \/ (~Begins(p) /\ records[p].ever),
      present |-> TRUE,
      start |-> IF Begins(p) THEN (IF Known(p) THEN records[p].goneAt ELSE 0)
                ELSE records[p].start,
      goneAt |-> IF Begins(p) THEN 0 ELSE records[p].goneAt,
      outcome |-> None,
      nth |-> (IF Known(p) THEN records[p].nth ELSE 0) + (IF Present(p) THEN 0 ELSE 1),
      from |-> IF Present(p) THEN records[p].from ELSE seen.life,
      to |-> seen.life]

\* goneOutcome: from the head that was seen last.
GoneOutcome(p, ok) ==
  IF ~Compared(ok) THEN "unknown"
  ELSE IF ok /\ Ahead(records[p].head) THEN "abandoned"
  ELSE IF records[p].ever THEN "landed" ELSE "never_diverged"

\* Settled once, by the observation that misses it.
ObservedAbsent(p, ok) ==
  IF Present(p)
  THEN [records[p] EXCEPT !.present = FALSE, !.compared = FALSE, !.goneAt = now,
                          !.outcome = GoneOutcome(p, ok)]
  ELSE records[p]

\* applyWorktreeSnapshot; the comparisons of the paths in bad fail.
Apply(bad) ==
  /\ up /\ step = "started" /\ Fresh
  /\ Cardinality(bad) <= faults
  /\ faults' = faults - Cardinality(bad)
  /\ records' = [p \in Paths |-> IF Seen(p) THEN ObservedPresent(p, p \notin bad)
                                 ELSE ObservedAbsent(p, p \notin bad)]
  /\ step' = "applied"
  /\ UNCHANGED <<world, up, listing, snap, now, file, latest, ghosts, moves>>

\* Without a fresh snapshot the records stay as they are.
ApplyNothing ==
  /\ up /\ step = "started" /\ ~Fresh
  /\ step' = "applied"
  /\ UNCHANGED <<world, up, listing, snap, now, records, file, latest, ghosts, moves, faults>>

\* materialWorktreeStates: what a save is for.
Material(recs) == recs

\* Saved only if something but last_seen changed.
Save ==
  /\ up /\ step = "applied"
  /\ file' = IF Material(records) # Material(file) THEN records ELSE file
  /\ failed' = FALSE
  /\ step' = "saved"
  /\ UNCHANGED <<world, up, listing, snap, now, records, latest, told, moves, faults>>

\* The error is dropped; the next observation saves again.
SaveFails ==
  /\ up /\ step = "applied" /\ Material(records) # Material(file) /\ faults > 0
  /\ faults' = faults - 1
  /\ failed' = TRUE
  /\ step' = "saved"
  /\ UNCHANGED <<world, up, listing, snap, now, records, file, latest, told, moves>>

Publish ==
  /\ up /\ step = "saved"
  /\ latest' = [reason |-> IF snap = None THEN "graph_unavailable"
                           ELSE IF snap.stale THEN "graph_stale" ELSE "",
                records |-> records]
  /\ told' = IF failed THEN told
             ELSE [p \in Paths |-> IF records[p] = None \/ records[p].present THEN told[p]
                                   ELSE [outcome |-> records[p].outcome, nth |-> records[p].nth]]
  /\ step' = "idle"
  /\ UNCHANGED <<world, up, listing, snap, now, records, file, failed, moves, faults>>

----------------------------------------------------------------------------
(* The daemon stops, at any step: what was not saved is gone.  A shutdown  *)
(* that cancels the comparisons stops before the save.                     *)

Stop ==
  /\ up /\ faults > 0
  /\ faults' = faults - 1
  /\ up' = FALSE /\ listing' = None /\ snap' = None
  /\ step' = "idle" /\ now' = 0 /\ latest' = None
  /\ records' = [p \in Paths |-> None]
  /\ UNCHANGED <<world, file, ghosts, moves>>

\* loadWorktreeStates.
Load ==
  /\ ~up
  /\ up' = TRUE /\ records' = file
  /\ UNCHANGED <<world, listing, snap, step, now, file, latest, ghosts, moves, faults>>

Init ==
  /\ main = {} /\ diverged = {} /\ clock = 0
  /\ tree = [p \in Paths |-> [there |-> FALSE, listed |-> FALSE, readable |-> FALSE,
                              head |-> {}, life |-> 0]]
  /\ mark = [p \in Paths |-> 0]
  /\ up = FALSE /\ listing = None /\ snap = None /\ step = "idle" /\ now = 0
  /\ records = [p \in Paths |-> None] /\ file = records
  /\ latest = None /\ failed = FALSE /\ told = records
  /\ \E b \in Budgets : moves = b.moves /\ faults = b.faults

Next ==
  \/ World
  \/ ScanList \/ ScanStatus \/ ScanFails
  \/ StartObserve \/ ApplyNothing \/ Save \/ SaveFails \/ Publish
  \/ \E bad \in SUBSET Paths : Apply(bad)
  \/ Stop \/ Load

Spec == Init /\ [][Next]_vars

----------------------------------------------------------------------------
(* classifyWorktree.                                                       *)

Record(p) == latest.records[p]

\* lifetimeEvidence: a commit mark of the current lifetime.
Evidence(p) == mark[p] > 0 /\ (Record(p) = None \/ mark[p] >= Record(p).start)

\* A path that history knows, in a repository that was observed.
State(p) ==
  IF latest = None \/ latest.reason # "" THEN "unknown"
  ELSE IF Record(p) = None THEN "gone"
  ELSE IF ~Record(p).present THEN "gone"
  ELSE IF Record(p).unavailable \/ ~Record(p).compared THEN "unknown"
  ELSE IF Record(p).ahead THEN "open"
  ELSE IF Record(p).ever \/ Evidence(p) THEN "landed"
  ELSE "never_diverged"

Outcome(p) ==
  IF Record(p) = None THEN "unknown"
  ELSE IF Record(p).outcome = "never_diverged" /\ Evidence(p) THEN "landed"
  ELSE Record(p).outcome

Landed(p) == State(p) = "landed" \/ (State(p) = "gone" /\ Outcome(p) = "landed")
----------------------------------------------------------------------------
(* Properties.                                                             *)

\* A worktree that stays on disk is never settled as gone, however unreadable
\* (checkoutMissing): of a settled record, the incarnation that it began with is
\* no longer there.
NoFalseFuneral ==
  /\ TypeOK
  /\ \A p \in Paths :
       records[p] # None /\ ~records[p].present =>
         ~tree[p].there \/ tree[p].life > records[p].from

\* "landed means reachable from the default branch" (docs/contracts.md:606),
\* although divergence, evidence and heads are seen at different times.
LandedIsReachable ==
  \A p \in Paths : Landed(p) => Record(p).head \subseteq main

\* A lifetime that begins after a confirmed disappearance does not inherit the
\* divergence of the one before it, also across restarts and failed saves.
OwnDivergence ==
  \A p \in Paths :
    records[p] # None /\ records[p].ever =>
      \E life \in records[p].from..records[p].to : <<p, life>> \in diverged

\* goneOutcome settles "once": when an outcome was published and saved, no later
\* observation, of this process or of the next, tells another one of that lifetime.
SettledOnce ==
  \A p \in Paths :
    told[p] # None /\ told'[p] # None /\ told[p].nth = told'[p].nth =>
      told'[p].outcome = told[p].outcome
=============================================================================
