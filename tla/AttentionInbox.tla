--------------------------- MODULE AttentionInbox ---------------------------
(***************************************************************************)
(* The attention inbox of one (source, session)                            *)
(* (src/internal/capture/internal/projection/inbox.go and title.go).       *)
(*                                                                         *)
(* Several replicas fold the same observations, each in its own order: the *)
(* running engine in admission and reconciliation order, a rebuild in the  *)
(* order of the day files, either of them with replays of an id.           *)
(*                                                                         *)
(* A field of the inbox is represented by the observation it came from.    *)
(***************************************************************************)
EXTENDS Naturals, FiniteSets

CONSTANTS
  Ids,            \* event ids, ordered
  Replicas,
  Observations    \* what an event may say, without its id

None == "none"
Signals == {"request", "failure", "uncertain", "working", "done", None}
Titles == {"authoritative", "prompt", None}

ASSUME InboxAssumption ==
  /\ Ids \subseteq Nat \ {0}
  /\ Observations \subseteq
       [time: Nat, observed: Nat, signal: Signals, git: BOOLEAN, jj: BOOLEAN, title: Titles]

VARIABLES
  sent,     \* [Ids -> Observations]
  applied,  \* [Replicas -> SUBSET Ids]: Projection.seen
  box       \* [Replicas -> Box]

vars == <<sent, applied, box>>

\* 0 is the zero Evidence: no observation yet.
Slots == {"signal", "uncertain", "last", "git", "jj", "title"}
Box == [count: Nat, observed: Nat, by: [Slots -> Ids \cup {0}]]
EmptyBox == [count |-> 0, observed |-> 0, by |-> [s \in Slots |-> 0]]

\* Types; and an id counts once, however often it is delivered.
TypeOK ==
  /\ sent \in [Ids -> Observations]
  /\ applied \in [Replicas -> SUBSET Ids]
  /\ box \in [Replicas -> Box]
  /\ \A r \in Replicas : box[r].count = Cardinality(applied[r])

----------------------------------------------------------------------------
(* newerEvidence: source chronology, then observation time, then the id.   *)

\* Variant: a tie in time and observation time goes to the later arrival.
NewerOrTied(i, j) ==
  \/ j = 0
  \/ /\ i # 0 /\ j # 0
     /\ \/ sent[i].time > sent[j].time
        \/ sent[i].time = sent[j].time /\ sent[i].observed >= sent[j].observed

Newer(i, j) ==
  \/ j = 0
  \/ /\ i # 0 /\ j # 0
     /\ \/ sent[i].time > sent[j].time
        \/ sent[i].time = sent[j].time /\ sent[i].observed > sent[j].observed
        \/ sent[i].time = sent[j].time /\ sent[i].observed = sent[j].observed /\ i > j

\* titleState.later has no observation time.
Later(i, j) ==
  \/ sent[i].time > sent[j].time
  \/ sent[i].time = sent[j].time /\ i > j

\* Variant: an identity of one family leaves the other family's in place.
SpeaksOfOwnFamily(i, s) ==
  CASE s = "signal" -> sent[i].signal \notin {"uncertain", None}
    [] s = "uncertain" -> sent[i].signal = "uncertain"
    [] s = "last" -> TRUE
    [] s = "git" -> sent[i].git
    [] s = "jj" -> sent[i].jj
    [] s = "title" -> sent[i].title # None

\* The slots an observation has something to say about.  An explicit identity
\* in one VCS family clears the other, an event without identity leaves both.
Speaks(i, s) ==
  CASE s = "signal" -> sent[i].signal \notin {"uncertain", None}
    [] s = "uncertain" -> sent[i].signal = "uncertain"
    [] s = "last" -> TRUE
    [] s \in {"git", "jj"} -> sent[i].git \/ sent[i].jj
    [] s = "title" -> sent[i].title # None

\* titleState.consider: the latest authoritative title, else the first prompt.
BetterTitle(i, j) ==
  \/ j = 0
  \/ /\ j # 0
     /\ \/ sent[i].title = "authoritative" /\ sent[j].title = "prompt"
        \/ /\ sent[i].title = "authoritative" /\ sent[j].title = "authoritative"
           /\ Later(i, j)
        \/ /\ sent[i].title = "prompt" /\ sent[j].title = "prompt"
           /\ Later(j, i)

Replaces(i, j, s) == IF s = "title" THEN BetterTitle(i, j) ELSE Newer(i, j)

\* applyInbox, under the write lock, after exact-id deduplication.
ApplyInbox(r, i) ==
  /\ i \notin applied[r]
  /\ applied' = [applied EXCEPT ![r] = @ \cup {i}]
  /\ box' = [box EXCEPT ![r] =
       [count |-> @.count + 1,
        observed |-> IF sent[i].observed > @.observed THEN sent[i].observed ELSE @.observed,
        by |-> [s \in Slots |-> IF Speaks(i, s) /\ Replaces(i, @.by[s], s)
                                THEN i ELSE @.by[s]]]]
  /\ UNCHANGED sent

Init ==
  /\ sent \in [Ids -> Observations]
  /\ applied = [r \in Replicas |-> {}]
  /\ box = [r \in Replicas |-> EmptyBox]

Next == \E r \in Replicas, i \in Ids : ApplyInbox(r, i)

Spec == Init /\ [][Next]_vars

----------------------------------------------------------------------------
(* What a viewer reads.                                                    *)

State(b) ==
  IF b.by["signal"] = 0 THEN "unknown"
  ELSE CASE sent[b.by["signal"]].signal = "request" -> "needs_input"
         [] sent[b.by["signal"]].signal = "failure" -> "failed"
         [] OTHER -> sent[b.by["signal"]].signal
Pending(b) == State(b) \in {"needs_input", "failed"}
Uncertain(b) == b.by["uncertain"] # 0 /\ Newer(b.by["uncertain"], b.by["signal"])
Git(b) == b.by["git"] # 0 /\ sent[b.by["git"]].git
JJ(b) == b.by["jj"] # 0 /\ sent[b.by["jj"]].jj

----------------------------------------------------------------------------
(* Properties.                                                             *)

\* Live application and rebuild converge: replicas that saw the same ids show
\* the same inbox, whatever the order, the ties and the replays.
Converged ==
  \A q, r \in Replicas : applied[q] = applied[r] => box[q] = box[r]

\* Older activity cannot reopen or resolve a newer episode: the session waits
\* for its user exactly if no newer signal answers the latest request.
Episode(r) ==
  {i \in applied[r] : sent[i].signal \in {"request", "failure"}}
Answer(r) == {i \in applied[r] : sent[i].signal \in {"working", "done"}}
PendingIsUnanswered ==
  \A r \in Replicas :
    Pending(box[r]) <=> \E i \in Episode(r) : \A j \in Answer(r) : Newer(i, j)

\* An attachment to both VCS families was reported by one event.
OneFamily ==
  \A r \in Replicas :
    Git(box[r]) /\ JJ(box[r]) =>
      \E i \in applied[r] : sent[i].git /\ sent[i].jj

----------------------------------------------------------------------------
(* An instance for TLC: six kinds of observation, each at two times.       *)

Says(signal, git, jj, title) ==
  {[time |-> t, observed |-> o, signal |-> signal, git |-> git, jj |-> jj, title |-> title] :
     t \in 1..2, o \in 1..2}

SixKinds ==
  Says("request", TRUE, FALSE, None) \cup Says("working", FALSE, TRUE, "prompt")
    \cup Says("uncertain", FALSE, FALSE, None) \cup Says("done", TRUE, TRUE, None)
    \cup Says("failure", FALSE, FALSE, "authoritative") \cup Says(None, FALSE, TRUE, None)
=============================================================================
