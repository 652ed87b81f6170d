----------------------------- MODULE ChangeLog -----------------------------
(***************************************************************************)
(* The change log (changes.rs): one entry per commit that wrote quads or   *)
(* changed a graph, written with the commit's batch; a pruner that deletes *)
(* old entries and raises the floor; and changes_after, which followers    *)
(* read it with.  One run of the server, on the primary.                   *)
(***************************************************************************)
EXTENDS CommitStream, FiniteSets

CONSTANTS
  Subject,  \* the subjects typed in the class the index is watched for
  Contents  \* what commits may write

\* A commit's change events, and the subjects it puts in the class and takes
\* out.  A commit of annotations only has no events.
Content == [events : Nat, add : SUBSET Subject, del : SUBSET Subject]

ASSUME ContentsType == Contents \subseteq Content
ASSUME TypingIsLogged ==
  \A c \in Contents : c.add \cap c.del = {} /\ (c.add \cup c.del # {} => c.events > 0)

VARIABLES
  what,   \* the content of every stored commit
  chg,    \* the commit times that have an entry in the chg column family
  floor   \* __changes__/floor

logVars == <<streamVars, what, chg, floor>>

Nothing == [events |-> 0, add |-> {}, del |-> {}]

Logged == {ts \in stored : what[ts].events > 0}

-----------------------------------------------------------------------------
LogInit ==
  /\ Init
  /\ what = [ts \in Timestamp |-> Nothing]
  /\ chg = {}
  /\ floor = 0

PublishCommit == Publish /\ UNCHANGED <<what, chg, floor>>

\* The batch holds the commit's quads and, when batch_change found any quad
\* or graph operation, its change-log entry.
StoreCommit ==
  /\ Store
  /\ \E c \in Contents :
        /\ what' = [what EXCEPT ![writing] = c]
        /\ chg' = IF c.events > 0 THEN chg \cup {writing} ELSE chg
  /\ UNCHANGED floor

FailCommit == GiveUp /\ UNCHANGED <<what, chg, floor>>

\* Faulty: the entry at the cutoff goes too.
PruneInclusive(before) ==
  /\ chg' = {ts \in chg : ts > before}
  /\ floor' = IF before > floor THEN before - 1 ELSE floor
  /\ UNCHANGED <<streamVars, what>>

\* prune_changes: one batch deletes the entries before the cutoff and raises
\* the floor.  The cutoff lies a configured time back, so it may be anywhere:
\* past the last commit of a store that was idle for as long.
Prune(before) ==
  /\ chg' = {ts \in chg : ts >= before}
  /\ floor' = IF before > floor THEN before - 1 ELSE floor
  /\ UNCHANGED <<streamVars, what>>

LogNext ==
  \/ PublishCommit \/ StoreCommit \/ FailCommit
  \/ \E ts \in Timestamp : Prune(ts + 1)

\* changes_after: the oldest limit entries after a commit time
ChangesAfter(after, limit) ==
  LET later == {ts \in chg : ts > after}
  IN  {ts \in later : Cardinality({u \in later : u < ts}) < limit}

-----------------------------------------------------------------------------
(* Properties *)

LogTypeOK ==
  /\ committed \in Nat
  /\ writing \in Timestamp \cup {0}
  /\ stored \subseteq Timestamp
  /\ what \in [Timestamp -> Content]
  /\ chg \subseteq Timestamp
  /\ floor \in Nat

\* Nothing above the floor is missing: whoever resumes at or above it finds
\* every logged commit since.
FloorCoversPruned ==
  /\ chg \subseteq Logged
  /\ \A ts \in Logged : ts > floor => ts \in chg

\* What followers may rely on.
LogInv ==
  /\ StreamOrdered
  /\ FloorCoversPruned
  /\ \A ts \in stored : what[ts] \in Contents
  /\ \A ts \in Timestamp \ stored : what[ts] = Nothing
=============================================================================
