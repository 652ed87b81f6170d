---------------------------- MODULE Subscription ----------------------------
(***************************************************************************)
(* One client of Subscribe: the stream task on the server, which follows   *)
(* the change log in batches, and the client's resume token across         *)
(* disconnects.  A commit's events are sent one by one under one           *)
(* commit_ts.                                                              *)
(***************************************************************************)
EXTENDS ChangeLog

CONSTANTS
  Limit,       \* entries read at a time (256 in the code)
  ResumesFrom  \* "seen": the commit_ts of the last event received;
               \* "processed": the last one the client knows is complete

ASSUME LimitType == Limit \in Nat \ {0}
ASSUME ResumesFromType == ResumesFrom \in {"seen", "processed"}

VARIABLES
  on,       \* the stream is open
  cursor,   \* the stream task's cursor
  pending,  \* entries the task has read and not finished sending
  sent,     \* events sent of the first pending entry
  from,     \* where the client's coverage starts
  seen,     \* commit_ts of the last event the client received, or 0
  token,    \* what the client would resume from, or 0
  got,      \* events the client received of each commit
  skipped   \* history: entries pruned before an open stream read them

clientVars == <<from, seen, token, got, skipped>>
feedVars == <<on, cursor, pending, sent, clientVars>>
subVars == <<logVars, feedVars>>

FeedInit ==
  /\ LogInit
  /\ on = FALSE
  /\ cursor = 0
  /\ pending = {}
  /\ sent = 0
  /\ from = 0
  /\ seen = 0
  /\ token = 0
  /\ got = [ts \in Timestamp |-> 0]
  /\ skipped = {}

\* The stream task starts, behind its client's cursor.
Open(start) ==
  /\ ~on
  /\ on' = TRUE
  /\ cursor' = start
  /\ pending' = {}
  /\ sent' = 0

\* A client without a token follows from now on.
Subscribe ==
  /\ token = 0
  /\ Open(committed)
  /\ from' = committed
  /\ got' = [ts \in Timestamp |-> 0]
  /\ skipped' = {}
  /\ seen' = 0
  /\ UNCHANGED <<logVars, token>>

\* Faulty: the floor itself is not compared.
ResumeUnchecked ==
  /\ token # 0
  /\ Open(token)
  /\ UNCHANGED <<logVars, clientVars>>

\* resume_after_ts at or above the floor
Resume ==
  /\ token # 0
  /\ token >= floor
  /\ Open(token)
  /\ UNCHANGED <<logVars, clientVars>>

\* OUT_OF_RANGE: the client has to start over.
Refuse ==
  /\ ~on
  /\ token # 0
  /\ token < floor
  /\ token' = 0
  /\ UNCHANGED <<logVars, on, cursor, pending, sent, from, seen, got, skipped>>

\* Faulty: the task waits for a full batch.
ReadFullBatch ==
  /\ on
  /\ pending = {}
  /\ Cardinality(ChangesAfter(cursor, Limit)) = Limit
  /\ pending' = ChangesAfter(cursor, Limit)
  /\ UNCHANGED <<logVars, on, cursor, sent, clientVars>>

\* Commits that land while nothing is pending wake the task, or its poll does.
ReadBatch ==
  /\ on
  /\ pending = {}
  /\ ChangesAfter(cursor, Limit) # {}
  /\ pending' = ChangesAfter(cursor, Limit)
  /\ UNCHANGED <<logVars, on, cursor, sent, clientVars>>

NextEntry == CHOOSE ts \in pending : \A u \in pending : ts <= u

\* One change event reaches the client.  A client that resumes from what it
\* has processed knows a commit complete when the next one's events begin.
SendEvent ==
  /\ on
  /\ pending # {}
  /\ LET ts == NextEntry
         last == sent + 1 = what[ts].events
     IN  /\ got' = [got EXCEPT ![ts] = IF sent + 1 > @ THEN sent + 1 ELSE @]
         /\ seen' = ts
         /\ token' = IF ResumesFrom = "seen" THEN ts
                     ELSE IF seen # 0 /\ seen < ts THEN seen ELSE token
         /\ sent' = IF last THEN 0 ELSE sent + 1
         /\ pending' = IF last THEN pending \ {ts} ELSE pending
         /\ cursor' = IF last THEN ts ELSE cursor
  /\ UNCHANGED <<logVars, on, from, skipped>>

Disconnect ==
  /\ on
  /\ on' = FALSE
  /\ pending' = {}
  /\ sent' = 0
  /\ UNCHANGED <<logVars, cursor, clientVars>>

\* A step of the store; the pruner takes entries from under an open stream.
FeedLogStep ==
  /\ LogNext
  /\ skipped' = IF on
                THEN skipped \cup {ts \in chg \ (chg' \cup pending) : ts > cursor}
                ELSE skipped
  /\ UNCHANGED <<on, cursor, pending, sent, from, seen, token, got>>

Task == ReadBatch \/ SendEvent

FeedNext == FeedLogStep \/ Task \/ Subscribe \/ Resume \/ Refuse \/ Disconnect

FeedSpec == FeedInit /\ [][FeedNext]_subVars

FairFeedSpec == FeedSpec /\ WF_subVars(Task)
-----------------------------------------------------------------------------
(* Properties *)

FeedTypeOK ==
  /\ LogTypeOK
  /\ on \in BOOLEAN
  /\ cursor \in Nat /\ from \in Nat /\ sent \in Nat
  /\ pending \subseteq Timestamp /\ skipped \subseteq Timestamp
  /\ seen \in Timestamp \cup {0} /\ token \in Timestamp \cup {0}
  /\ got \in [Timestamp -> Nat]

\* The client got every event of commit ts.
Complete(ts) == got[ts] = what[ts].events

\* It did of every logged commit it covers up to and including ts, save
\* entries that were pruned while the stream was open and behind.
Delivered(ts) ==
  \A u \in Logged : from < u /\ u <= ts => Complete(u) \/ u \in skipped

\* An open stream has delivered everything between the start of its client's
\* coverage and the cursor, over any number of disconnects, prunings in
\* between and commits in flight at each point (Subscribe's floor check,
\* changes_after, prune_changes).
FeedHasNoGaps == on => Delivered(cursor)

\* What the client may count on when it comes back.
ClientHolds ==
  /\ from <= committed
  /\ seen \in stored \cup {0} /\ token \in stored \cup {0}
  /\ \A ts \in Timestamp : got[ts] <= what[ts].events
  /\ Delivered(token)
  /\ \A u \in Logged : from < u /\ u < seen => Complete(u) \/ u \in skipped

\* Where the commits ahead of an open stream are: still in the log behind
\* what was read, or pruned in front of it.
StreamHolds ==
  on =>
    /\ cursor \in stored \cup {from}
    /\ pending \subseteq Logged
    /\ \A p \in pending : cursor < p
    /\ \A p \in pending : (\A q \in pending : p <= q) => sent < what[p].events
    /\ \A u \in Logged : from < u /\ cursor < u =>
          \/ u \in skipped \/ u \in pending
          \/ u \in chg /\ \A p \in pending : p < u

\* Why there are no gaps.
FeedInv ==
  /\ LogInv
  /\ FeedHasNoGaps
  /\ ClientHolds
  /\ StreamHolds
  /\ ~on => pending = {}
  /\ pending = {} => sent = 0

\* A stream that stays open reaches every entry ahead of it, unless the
\* pruner does first: the task polls and never waits for a lost wake-up.
EventsArrive ==
  \A t \in Timestamp :
     on /\ t \in chg /\ cursor < t ~> ~on \/ t \notin chg \/ t <= cursor
=============================================================================
