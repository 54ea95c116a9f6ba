----------------------------- MODULE ScopeStore -----------------------------
(***************************************************************************)
(* The desktop viewer's shared scope (src/apps/tauri-desktop/src/scope.ts):*)
(* the project, worktree, session and window that every panel reads.  The  *)
(* operators give the scope that each call of the store commits; a patch   *)
(* is a record that holds the fields it sets, None to clear one.           *)
(***************************************************************************)

CONSTANT None     \* an absent field

Live == "live"
Context == {"project", "worktree", "session", "cell"}
EmptyScope == [f \in Context \cup {"window"} |-> IF f = "window" THEN Live ELSE None]

Altitude(sc) ==
  IF sc.session # None THEN "session"
  ELSE IF sc.worktree # None THEN "worktree"
  ELSE IF sc.project # None THEN "project" ELSE "fleet"

\* A change of project clears the worktree and the session, a change of worktree
\* the session, unless the patch sets them; another session resets the window.
Compute(cur, base, patch) ==
  LET P == DOMAIN patch
      Moved(f) == f \in P /\ patch[f] # cur[f]
      Field(f) == IF f \in P THEN patch[f]
                  ELSE IF f = "worktree" /\ Moved("project") THEN None
                  ELSE IF f = "session" /\ (Moved("project") \/ Moved("worktree")) THEN None
                  ELSE base[f]
      same == Field("session") = cur.session
      window == IF "window" \in P THEN patch.window ELSE IF same THEN base.window ELSE Live
  IN [f \in Context \cup {"window"} |-> IF f = "window" THEN window ELSE Field(f)]

Narrow(sc, patch) == Compute(sc, sc, patch)

\* replaceContext: only the window is kept underneath the patch.
ReplaceContext(sc, patch) == Compute(sc, [EmptyScope EXCEPT !.window = sc.window], patch)

\* One rung up: the session goes with its window, then the worktree, then the
\* project with the cell.  At the top there is nothing to clear.
Ascend(sc) ==
  IF sc.session # None THEN [sc EXCEPT !.session = None, !.window = Live]
  ELSE IF sc.worktree # None THEN [sc EXCEPT !.worktree = None]
  ELSE [sc EXCEPT !.project = None, !.cell = None]
Top(sc) == sc.session = None /\ sc.worktree = None /\ sc.project = None /\ sc.cell = None

\* selectSession: the parents are kept only for the session already selected and
\* for one that the resolver says they contain.
SelectSession(sc, s, member) ==
  IF (sc.project = None /\ sc.worktree = None) \/ sc.session = s \/ member
  THEN Narrow(sc, [session |-> s])
  ELSE ReplaceContext(sc, [session |-> s])
=============================================================================
