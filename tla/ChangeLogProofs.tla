-------------------------- MODULE ChangeLogProofs --------------------------
(***************************************************************************)
(* Proofs about the change log and its two readers: a Subscribe client     *)
(* that resumes from the last commit it has processed misses nothing, and  *)
(* the type index shows what it has read, for every set of commits, class, *)
(* batch size and pruning.                                                 *)
(***************************************************************************)
EXTENDS Subscription, TypeIndex, FiniteSetTheorems, WellFoundedInduction, TLAPS

-----------------------------------------------------------------------------
(* Least and greatest elements *)

LEMMA LeastOf ==
  ASSUME NEW S \in SUBSET Nat, S # {}
  PROVE  \E m \in S : \A u \in S : m <= u
<1>1. PICK m \in S : \A u \in S : ~ (<<u, m>> \in OpToRel(<, Nat))
  BY NatLessThanWellFounded, WFMin, Zenon
<1>2. \A u \in S : ~ (u < m)
  BY <1>1 DEF OpToRel
<1> QED
  BY <1>2

LEMMA GreatestOf ==
  ASSUME NEW b \in Nat, NEW S \in SUBSET (0 .. b), S # {}
  PROVE  \E m \in S : \A u \in S : u <= m
<1> DEFINE T == {x \in Nat : \E u \in S : x = b - u}
<1>1. PICK v \in S : TRUE
  OBVIOUS
<1>2. b - v \in T
  OBVIOUS
<1>3. PICK x \in T : \A y \in T : x <= y
  BY <1>2, LeastOf
<1>4. PICK m \in S : x = b - m
  OBVIOUS
<1>5. \A u \in S : b - u \in T
  OBVIOUS
<1> HIDE DEF T
<1>6. \A u \in S : b - m <= b - u
  BY <1>3, <1>4, <1>5
<1> QED
  BY <1>6

LEMMA ChooseGreatest ==
  ASSUME NEW b \in Nat, NEW S \in SUBSET (0 .. b), S # {}
  PROVE  LET m == CHOOSE ts \in S : \A u \in S : u <= ts
         IN  m \in S /\ \A u \in S : u <= m
  BY GreatestOf

LEMMA ChooseLeast ==
  ASSUME NEW S \in SUBSET Nat, S # {}
  PROVE  LET m == CHOOSE ts \in S : \A u \in S : ts <= u
         IN  m \in S /\ \A u \in S : m <= u
  BY LeastOf

-----------------------------------------------------------------------------
(* The store and its log *)

LEMMA LogInitTypes == LogInit => LogTypeOK
  BY DEF LogInit, Init, LogTypeOK, Content, Nothing

LEMMA LogInitInv == LogInit => LogInv
  BY DEF LogInit, Init, LogInv, StreamOrdered, FloorCoversPruned, Logged

LEMMA LogTypeStep ==
  ASSUME LogTypeOK, LogNext
  PROVE  LogTypeOK'
<1> USE TimestampsArePositive DEF LogTypeOK
<1>1. CASE PublishCommit
  BY <1>1 DEF PublishCommit, Publish
<1>2. CASE StoreCommit
  <2>1. PICK c \in Contents :
           /\ what' = [what EXCEPT ![writing] = c]
           /\ chg' = IF c.events > 0 THEN chg \cup {writing} ELSE chg
    BY <1>2 DEF StoreCommit
  <2>2. writing \in Timestamp /\ stored' = stored \cup {writing} /\ writing' = 0
        /\ UNCHANGED <<committed, floor>>
    BY <1>2 DEF StoreCommit, Store
  <2>3. c \in Content
    BY ContentsType
  <2> QED
    BY <2>1, <2>2, <2>3
<1>3. CASE FailCommit
  BY <1>3 DEF FailCommit, GiveUp
<1>4. ASSUME NEW ts \in Timestamp, Prune(ts + 1)
      PROVE  LogTypeOK'
  <2>1. ts + 1 > floor => ts + 1 - 1 \in Nat
    OBVIOUS
  <2>2. /\ chg' \subseteq chg /\ floor' \in {floor, ts + 1 - 1}
        /\ UNCHANGED <<committed, writing, stored, what>>
    BY <1>4 DEF Prune, streamVars
  <2> QED
    BY <2>1, <2>2
<1> QED
  BY <1>1, <1>2, <1>3, <1>4 DEF LogNext

\* What a step of the store leaves its followers to rely on: commits appear
\* one at a time, above every stored one, with their entry in the log, and
\* never change; entries only leave the log below the floor.
LogMoves ==
  /\ committed <= committed' /\ floor <= floor'
  /\ stored \subseteq stored'
  /\ \A ts \in stored' \ stored : ts = writing
  /\ \A ts \in stored : what'[ts] = what[ts]
  /\ \A ts \in Timestamp \ stored' : what'[ts] = what[ts]
  /\ Logged \subseteq Logged' /\ Logged' \ Logged \subseteq chg'
  /\ \A ts \in Logged' \ Logged : ts = writing /\ ts = committed
  /\ \A ts \in chg \ chg' : ts <= floor'
  /\ chg' \ chg \subseteq Logged' \ Logged
  /\ writing' # 0 => writing' = writing \/ committed < writing'

LEMMA LogStepMoves ==
  ASSUME LogTypeOK, LogInv, LogNext
  PROVE  LogMoves
<1> USE TimestampsArePositive
<1>t. /\ committed \in Nat /\ floor \in Nat /\ writing \in Timestamp \cup {0}
      /\ stored \subseteq Timestamp /\ chg \subseteq Timestamp /\ Timestamp \subseteq Nat
      /\ what \in [Timestamp -> Content] /\ 0 \notin Timestamp
  BY DEF LogTypeOK
<1>1. CASE PublishCommit
  BY <1>1, <1>t DEF PublishCommit, Publish, LogMoves, Logged
<1>2. CASE StoreCommit
  <2>1. PICK c \in Contents :
           /\ what' = [what EXCEPT ![writing] = c]
           /\ chg' = IF c.events > 0 THEN chg \cup {writing} ELSE chg
    BY <1>2 DEF StoreCommit
  <2>2. writing \in Timestamp /\ stored' = stored \cup {writing} /\ writing' = 0
        /\ UNCHANGED <<committed, floor>>
    BY <1>2, <1>t DEF StoreCommit, Store
  <2>3. writing \notin stored /\ writing = committed
    BY <2>2, <1>t DEF LogInv, StreamOrdered
  <2>4. /\ \A ts \in stored : what'[ts] = what[ts]
        /\ \A ts \in Timestamp \ stored' : what'[ts] = what[ts]
        /\ what'[writing] = c
    BY <1>t, <2>1, <2>2, <2>3
  <2>5. Logged' = IF c.events > 0 THEN Logged \cup {writing} ELSE Logged
    BY <2>2, <2>3, <2>4 DEF Logged
  <2>6. writing \notin chg /\ writing \notin Logged
    BY <2>3 DEF LogInv, FloorCoversPruned, Logged
  <2> QED
    BY <1>t, <2>1, <2>2, <2>3, <2>4, <2>5, <2>6 DEF LogMoves
<1>3. CASE FailCommit
  BY <1>3, <1>t DEF FailCommit, GiveUp, LogMoves, Logged
<1>4. ASSUME NEW b \in Timestamp, Prune(b + 1)
      PROVE  LogMoves
  <2>1. /\ chg' = {ts \in chg : ts >= b + 1} /\ UNCHANGED <<streamVars, what>>
        /\ floor' = IF b + 1 > floor THEN b ELSE floor
    BY <1>4, <1>t DEF Prune
  <2>2. Logged' = Logged /\ floor <= floor'
    BY <1>t, <2>1 DEF Logged, streamVars
  <2>3. \A ts \in chg \ chg' : ts <= floor'
    BY <1>t, <2>1
  <2> QED
    BY <1>t, <2>1, <2>2, <2>3 DEF LogMoves, streamVars
<1> QED
  BY <1>1, <1>2, <1>3, <1>4 DEF LogNext

LEMMA LogInvStep ==
  ASSUME LogTypeOK, LogInv, LogNext
  PROVE  LogInv'
<1> USE TimestampsArePositive
<1>t. /\ committed \in Nat /\ floor \in Nat /\ writing \in Timestamp \cup {0}
      /\ stored \subseteq Timestamp /\ chg \subseteq Timestamp /\ Timestamp \subseteq Nat
      /\ what \in [Timestamp -> Content] /\ 0 \notin Timestamp
  BY DEF LogTypeOK
<1>m. LogMoves
  BY LogStepMoves
<1>1. StreamOrdered'
  <2>1. CASE PublishCommit
    BY <1>t, <2>1 DEF LogInv, StreamOrdered, PublishCommit, Publish
  <2>2. CASE StoreCommit
    BY <1>t, <2>2 DEF LogInv, StreamOrdered, StoreCommit, Store
  <2>3. CASE FailCommit
    BY <1>t, <2>3 DEF LogInv, StreamOrdered, FailCommit, GiveUp
  <2>4. CASE \E ts \in Timestamp : Prune(ts + 1)
    BY <1>t, <2>4 DEF LogInv, StreamOrdered, Prune, streamVars
  <2> QED
    BY <2>1, <2>2, <2>3, <2>4 DEF LogNext
<1>2. FloorCoversPruned'
  <2>1. chg \subseteq Logged /\ \A ts \in Logged : ts > floor => ts \in chg
    BY DEF LogInv, FloorCoversPruned
  <2>2. floor' \in Nat /\ Logged \subseteq Timestamp
    BY LogTypeStep, <1>t DEF LogTypeOK, Logged
  <2>3. chg' \subseteq Logged'
    BY <1>m, <2>1 DEF LogMoves
  <2>4. ASSUME NEW ts \in Logged', ts > floor'
        PROVE  ts \in chg'
    BY <1>m, <1>t, <2>1, <2>2, <2>4 DEF LogMoves
  <2> QED
    BY <2>3, <2>4 DEF FloorCoversPruned
<1>3. /\ \A ts \in stored' : what'[ts] \in Contents
      /\ \A ts \in Timestamp \ stored' : what'[ts] = Nothing
  <2>1. /\ \A ts \in stored : what[ts] \in Contents
        /\ \A ts \in Timestamp \ stored : what[ts] = Nothing
    BY DEF LogInv
  <2>2. CASE StoreCommit
    <3>1. PICK c \in Contents : what' = [what EXCEPT ![writing] = c]
      BY <2>2 DEF StoreCommit
    <3>2. stored' = stored \cup {writing} /\ writing \in Timestamp
      BY <1>t, <2>2 DEF StoreCommit, Store
    <3>3. \A ts \in Timestamp : what'[ts] = IF ts = writing THEN c ELSE what[ts]
      BY <1>t, <3>1
    <3> QED
      BY <1>t, <2>1, <3>2, <3>3
  <2>3. CASE PublishCommit \/ FailCommit \/ \E ts \in Timestamp : Prune(ts + 1)
    BY <2>1, <2>3 DEF PublishCommit, Publish, FailCommit, GiveUp, Prune, streamVars
  <2> QED
    BY <2>2, <2>3 DEF LogNext
<1> QED
  BY <1>1, <1>2, <1>3 DEF LogInv

-----------------------------------------------------------------------------
(* changes_after *)

\* A batch is a beginning of what lies ahead, and all of it when it is short.
LEMMA ChangesAfterFacts ==
  ASSUME LogTypeOK, LogInv, NEW after \in Nat, NEW limit \in Nat \ {0}
  PROVE  /\ ChangesAfter(after, limit) \subseteq {ts \in chg : ts > after}
         /\ \A ts \in ChangesAfter(after, limit) : \A u \in chg :
               after < u /\ u <= ts => u \in ChangesAfter(after, limit)
         /\ IsFiniteSet(ChangesAfter(after, limit))
         /\ Cardinality(ChangesAfter(after, limit)) < limit
              => ChangesAfter(after, limit) = {ts \in chg : ts > after}
<1> DEFINE later == {ts \in chg : ts > after}
           batch == ChangesAfter(after, limit)
           below(ts) == {u \in later : u < ts}
<1>1. /\ chg \subseteq stored /\ stored \subseteq Timestamp /\ Timestamp \subseteq Nat
      /\ committed \in Nat /\ \A ts \in stored : ts <= committed
  BY TimestampsArePositive DEF LogTypeOK, LogInv, StreamOrdered, FloorCoversPruned, Logged
<1>2. IsFiniteSet(later) /\ later \subseteq Nat
  BY <1>1, FS_BoundedSetOfNaturals
<1>3. batch = {ts \in later : Cardinality(below(ts)) < limit}
  BY DEF ChangesAfter
<1>4. \A ts : /\ below(ts) \subseteq later /\ IsFiniteSet(below(ts))
              /\ Cardinality(below(ts)) \in Nat
  BY <1>2, FS_Subset, FS_CardinalityType
<1>5. IsFiniteSet(batch) /\ batch \subseteq later /\ Cardinality(batch) \in Nat
  BY <1>2, <1>3, FS_Subset, FS_CardinalityType
<1>6. ASSUME NEW ts \in batch, NEW u \in chg, after < u, u <= ts
      PROVE  u \in batch
  <2>1. u \in later /\ ts \in later /\ below(u) \subseteq below(ts)
    BY <1>1, <1>2, <1>5, <1>6
  <2>2. Cardinality(below(u)) <= Cardinality(below(ts))
    BY <1>4, <2>1, FS_Subset
  <2>3. Cardinality(below(ts)) < limit
    BY <1>3
  <2> HIDE DEF below, later, batch
  <2> QED
    BY <1>3, <1>4, <2>1, <2>2, <2>3
<1>7. ASSUME later \ batch # {}
      PROVE  ~ (Cardinality(batch) < limit)
  <2>1. PICK m \in later \ batch : \A u \in later \ batch : m <= u
    BY <1>2, <1>7, LeastOf
  <2>2. below(m) \subseteq batch
    BY <1>2, <2>1
  <2>3. Cardinality(below(m)) <= Cardinality(batch)
    BY <1>5, <2>2, FS_Subset
  <2>4. ~ (Cardinality(below(m)) < limit)
    BY <1>3, <2>1
  <2> HIDE DEF below, later, batch
  <2> QED
    BY <1>4, <1>5, <2>3, <2>4
<1> QED
  BY <1>3, <1>5, <1>6, <1>7

-----------------------------------------------------------------------------
(* The Subscribe feed *)

LEMMA FeedTypeStep ==
  ASSUME FeedTypeOK, LogInv, [FeedNext]_subVars
  PROVE  FeedTypeOK'
<1> USE TimestampsArePositive DEF FeedTypeOK
<1>1. ASSUME UNCHANGED logVars
      PROVE  LogTypeOK'
  BY <1>1 DEF logVars, streamVars, LogTypeOK
<1>2. CASE FeedLogStep
  <2>1. LogTypeOK'
    BY <1>2, LogTypeStep DEF FeedLogStep
  <2>2. /\ UNCHANGED <<on, cursor, pending, sent, from, seen, token, got>>
        /\ skipped' \subseteq skipped \cup chg
    BY <1>2 DEF FeedLogStep
  <2> QED
    BY <2>1, <2>2 DEF LogTypeOK
<1>3. CASE ReadBatch
  BY <1>1, <1>3 DEF ReadBatch, ChangesAfter, clientVars, LogTypeOK
<1>4. CASE SendEvent
  <2>1. pending # {} /\ pending \subseteq Nat
    BY <1>4 DEF SendEvent
  <2>2. NextEntry \in pending
    BY <2>1, ChooseLeast DEF NextEntry
  <2> DEFINE ts == NextEntry
  <2>3. /\ got' = [got EXCEPT ![ts] = IF sent + 1 > @ THEN sent + 1 ELSE @]
        /\ seen' = ts /\ token' \in {ts, seen, token} /\ sent' \in {0, sent + 1}
        /\ pending' \subseteq pending /\ cursor' \in {ts, cursor}
        /\ UNCHANGED <<logVars, on, from, skipped>>
    BY <1>4 DEF SendEvent
  <2>4. ts \in Timestamp
    BY <2>2
  <2> HIDE DEF ts
  <2> QED
    BY <1>1, <2>3, <2>4
<1>5. CASE Subscribe
  BY <1>1, <1>5 DEF Subscribe, Open, LogTypeOK
<1>6. CASE Resume
  BY <1>1, <1>6 DEF Resume, Open, clientVars
<1>7. CASE Refuse
  BY <1>1, <1>7 DEF Refuse
<1>8. CASE Disconnect
  BY <1>1, <1>8 DEF Disconnect, clientVars
<1>9. CASE UNCHANGED subVars
  BY <1>1, <1>9 DEF subVars, feedVars, clientVars
<1> QED
  BY <1>2, <1>3, <1>4, <1>5, <1>6, <1>7, <1>8, <1>9 DEF FeedNext, Task

-----------------------------------------------------------------------------
(* Each action keeps what the stream and the client rely on. *)

\* What a step that leaves the store alone says of it.
LEMMA StoreUntouched ==
  ASSUME UNCHANGED logVars
  PROVE  /\ LogInv => LogInv'
         /\ Logged' = Logged /\ stored' = stored /\ chg' = chg /\ what' = what
         /\ floor' = floor /\ committed' = committed
  BY DEF logVars, streamVars, LogInv, StreamOrdered, FloorCoversPruned, Logged

LEMMA LogStepKeepsFeed ==
  ASSUME FeedTypeOK, FeedInv, FeedLogStep
  PROVE  FeedInv'
<1>1. /\ UNCHANGED <<on, cursor, pending, sent, from, seen, token, got>>
      /\ skipped' = IF on
                    THEN skipped \cup {ts \in chg \ (chg' \cup pending) : ts > cursor}
                    ELSE skipped
  BY DEF FeedLogStep
<1>2. LogMoves /\ LogInv' /\ LogTypeOK'
  BY LogStepMoves, LogInvStep, LogTypeStep DEF FeedTypeOK, FeedInv, FeedLogStep
<1>3. /\ Timestamp \subseteq Nat \ {0} /\ committed \in Nat /\ from \in Nat /\ cursor \in Nat
      /\ stored \subseteq Timestamp /\ Logged \subseteq stored
      /\ seen \in Nat /\ token \in Nat
      /\ \A ts \in stored : ts <= committed /\ (writing # 0 => ts # committed)
      /\ from <= committed
  BY TimestampsArePositive
     DEF FeedTypeOK, LogTypeOK, FeedInv, LogInv, StreamOrdered, Logged, ClientHolds
<1>4. /\ Logged \subseteq Logged' /\ Logged' \subseteq Timestamp
      /\ \A u \in Logged' \ Logged : u = committed /\ u \in chg' /\ writing # 0
      /\ \A u \in stored : what'[u] = what[u]
  <2>1. Logged' \subseteq Timestamp
    BY <1>2 DEF LogTypeOK, Logged
  <2> QED
    BY <1>2, <1>3, <2>1 DEF LogMoves
<1>5. /\ skipped \subseteq skipped'
      /\ \A u \in Logged : Complete(u) => Complete(u)'
  BY <1>1, <1>3, <1>4 DEF Complete
\* What was delivered stays delivered, and the new commit lies ahead.
<1>6. ASSUME NEW ts \in stored \cup {0, from}, Delivered(ts)
      PROVE  \A u \in Logged' : from < u /\ u <= ts => Complete(u)' \/ u \in skipped'
  <2>1. ASSUME NEW u \in Logged' \ Logged, from < u, u <= ts
        PROVE  FALSE
    BY <1>3, <1>4, <2>1
  <2>2. ASSUME NEW u \in Logged, from < u, u <= ts
        PROVE  Complete(u)' \/ u \in skipped'
    BY <1>5, <1>6, <2>2 DEF Delivered
  <2> QED
    BY <2>1, <2>2
<1>7. ASSUME NEW ts \in stored \cup {0, from}, Delivered(ts), NEW v, v = ts, v' = v
      PROVE  Delivered(v)'
  BY <1>1, <1>6, <1>7 DEF Delivered
<1>8. FeedHasNoGaps'
  <2>1. on => cursor \in stored \cup {0, from} /\ Delivered(cursor)
    BY DEF FeedInv, FeedHasNoGaps, StreamHolds
  <2> QED
    BY <1>1, <1>6, <2>1 DEF FeedHasNoGaps, Delivered
<1>9. ClientHolds'
  <2>1. token \in stored \cup {0} /\ Delivered(token) /\ seen \in stored \cup {0}
    BY DEF FeedInv, ClientHolds
  <2>2. Delivered(token)'
    BY <1>1, <1>6, <2>1 DEF Delivered
  <2>3. from' <= committed' /\ seen' \in stored' \cup {0} /\ token' \in stored' \cup {0}
    BY <1>1, <1>2, <1>3, <2>1 DEF LogMoves, LogTypeOK
  <2>4. \A ts \in Timestamp : got'[ts] <= what'[ts].events
    <3>1. \A ts \in Timestamp : got[ts] <= what[ts].events /\ got[ts] \in Nat
      BY DEF FeedInv, ClientHolds, FeedTypeOK
    <3>2. \A ts \in Timestamp \ stored : what[ts].events = 0
      <4>1. \A ts \in Timestamp \ stored : what[ts] = Nothing
        BY DEF FeedInv, LogInv
      <4>2. Nothing.events = 0
        BY DEF Nothing
      <4> QED
        BY <4>1, <4>2
    <3>3. \A ts \in Timestamp : what'[ts].events \in Nat
      BY <1>2 DEF LogTypeOK, Content
    <3> QED
      BY <1>1, <1>4, <3>1, <3>2, <3>3
  <2>5. \A u \in Logged' : from' < u /\ u < seen' => Complete(u)' \/ u \in skipped'
    <3>1. \A u \in Logged : from < u /\ u < seen => Complete(u) \/ u \in skipped
      BY DEF FeedInv, ClientHolds
    <3>2. \A u \in Logged' \ Logged : ~(u < seen)
      BY <1>3, <1>4, <2>1
    <3> QED
      BY <1>1, <1>5, <3>1, <3>2
  <2> QED
    BY <2>2, <2>3, <2>4, <2>5 DEF ClientHolds
<1>10. ASSUME on
       PROVE  StreamHolds'
  <2>1. /\ cursor \in stored \cup {from}
        /\ pending \subseteq Logged
        /\ \A p \in pending : cursor < p
        /\ \A p \in pending : (\A q \in pending : p <= q) => sent < what[p].events
        /\ \A u \in Logged : from < u /\ cursor < u =>
              \/ u \in skipped \/ u \in pending
              \/ u \in chg /\ \A p \in pending : p < u
    BY <1>10 DEF FeedInv, StreamHolds
  <2>2. skipped' = skipped \cup {ts \in chg \ (chg' \cup pending) : ts > cursor}
    BY <1>1, <1>10
  <2>3. \A p \in pending : (\A q \in pending : p <= q) => sent < what'[p].events
    BY <1>3, <1>4, <2>1
  <2>4. ASSUME NEW u \in Logged', from < u, cursor < u
        PROVE  \/ u \in skipped' \/ u \in pending
               \/ u \in chg' /\ \A p \in pending : p < u
    <3>1. CASE u \in Logged
      BY <1>3, <2>1, <2>2, <2>4, <3>1
    <3>2. CASE u \notin Logged
      BY <1>3, <1>4, <2>1, <3>2
    <3> QED
      BY <3>1, <3>2
  <2> QED
    BY <1>1, <1>2, <1>4, <2>1, <2>3, <2>4 DEF StreamHolds, LogMoves
<1> QED
  BY <1>1, <1>2, <1>8, <1>9, <1>10 DEF FeedInv, StreamHolds

LEMMA SubscribeKeepsFeed ==
  ASSUME FeedTypeOK, FeedInv, Subscribe
  PROVE  FeedInv'
<1>1. /\ UNCHANGED <<logVars, token>> /\ token = 0 /\ from' = committed /\ on' = TRUE
      /\ cursor' = committed /\ pending' = {} /\ sent' = 0 /\ seen' = 0
      /\ got' = [ts \in Timestamp |-> 0]
  BY DEF Subscribe, Open
<1>2. /\ Timestamp \subseteq Nat \ {0} /\ committed \in Nat /\ Logged \subseteq Timestamp
      /\ \A ts \in Logged : ts <= committed
      /\ \A ts \in Timestamp : what[ts].events \in Nat
  BY TimestampsArePositive
     DEF FeedTypeOK, LogTypeOK, FeedInv, LogInv, StreamOrdered, Logged, Content
<1>3. /\ LogInv' /\ Logged' = Logged /\ stored' = stored /\ what' = what
      /\ committed' = committed
  BY <1>1, StoreUntouched DEF FeedInv
<1>4. \A u \in Logged' : ~(from' < u)
  BY <1>1, <1>2, <1>3
<1>5. FeedHasNoGaps' /\ Delivered(token)' /\ StreamHolds'
  BY <1>1, <1>4 DEF FeedHasNoGaps, Delivered, StreamHolds
<1>6. ClientHolds'
  <2>1. \A ts \in Timestamp : got'[ts] <= what'[ts].events
    <3>1. \A ts \in Timestamp : got'[ts] = 0
      BY <1>1
    <3>2. \A ts \in Timestamp : what'[ts].events \in Nat
      BY <1>2, <1>3
    <3> QED
      BY <3>1, <3>2
  <2>2. from' <= committed' /\ seen' \in stored' \cup {0} /\ token' \in stored' \cup {0}
    BY <1>1, <1>2, <1>3
  <2> QED
    BY <1>4, <1>5, <2>1, <2>2 DEF ClientHolds
<1> QED
  BY <1>1, <1>3, <1>5, <1>6 DEF FeedInv

LEMMA ResumeKeepsFeed ==
  ASSUME FeedTypeOK, FeedInv, Resume
  PROVE  FeedInv'
<1>1. /\ UNCHANGED <<logVars, from, seen, token, got, skipped>> /\ token >= floor
      /\ on' = TRUE /\ cursor' = token /\ pending' = {} /\ sent' = 0 /\ token # 0
  BY DEF Resume, Open, clientVars
<1>2. /\ LogInv' /\ Logged' = Logged /\ stored' = stored /\ what' = what /\ chg' = chg
      /\ committed' = committed
  BY <1>1, StoreUntouched DEF FeedInv
<1>3. ClientHolds /\ LogInv /\ Logged \subseteq Nat /\ token \in Nat /\ floor \in Nat
  <2>1. ClientHolds /\ LogInv
    BY DEF FeedInv
  <2>2. stored \subseteq Nat /\ token \in Nat /\ floor \in Nat
    BY TimestampsArePositive DEF FeedTypeOK, LogTypeOK
  <2> QED
    BY <2>1, <2>2 DEF Logged
<1>4. ClientHolds'
  BY <1>1, <1>2, <1>3 DEF ClientHolds, Delivered, Complete
<1>5. FeedHasNoGaps'
  BY <1>1, <1>4 DEF ClientHolds, FeedHasNoGaps, Delivered
<1>6. StreamHolds'
  <2>1. \A u \in Logged : token < u => u \in chg
    BY <1>1, <1>3 DEF LogInv, FloorCoversPruned
  <2> QED
    BY <1>1, <1>2, <1>3, <2>1 DEF ClientHolds, StreamHolds
<1> QED
  BY <1>1, <1>2, <1>4, <1>5, <1>6 DEF FeedInv

LEMMA ReadBatchKeepsFeed ==
  ASSUME FeedTypeOK, FeedInv, ReadBatch
  PROVE  FeedInv'
<1> DEFINE batch == ChangesAfter(cursor, Limit)
<1>1. /\ UNCHANGED <<logVars, on, cursor, sent, from, seen, token, got, skipped>>
      /\ on /\ pending = {} /\ pending' = batch /\ batch # {}
  BY DEF ReadBatch, clientVars
<1>2. /\ LogInv' /\ Logged' = Logged /\ stored' = stored /\ what' = what /\ chg' = chg
      /\ committed' = committed
  BY <1>1, StoreUntouched DEF FeedInv
<1>3. /\ batch \subseteq {ts \in chg : ts > cursor}
      /\ \A ts \in batch : \A u \in chg : cursor < u /\ u <= ts => u \in batch
  BY LimitType, ChangesAfterFacts DEF FeedTypeOK, FeedInv
<1>4. /\ chg \subseteq Logged /\ Logged \subseteq Nat /\ cursor \in Nat
      /\ sent = 0 /\ \A p \in Logged : 0 < what[p].events
  BY <1>1, TimestampsArePositive
     DEF FeedInv, FeedTypeOK, LogInv, LogTypeOK, FloorCoversPruned, Logged
<1>5. ClientHolds' /\ FeedHasNoGaps'
  BY <1>1, <1>2 DEF FeedInv, ClientHolds, FeedHasNoGaps, Delivered, Complete
<1>6. StreamHolds'
  <2>1. /\ cursor \in stored \cup {from}
        /\ \A u \in Logged : from < u /\ cursor < u => u \in skipped \/ u \in chg
    BY <1>1 DEF FeedInv, StreamHolds
  <2> HIDE DEF batch
  <2>2. ASSUME NEW u \in chg, cursor < u, u \notin batch, NEW p \in batch
        PROVE  p < u
    <3>1. p \in chg /\ p \in Nat /\ u \in Nat
      BY <1>3, <1>4, <2>2
    <3>2. ~(u <= p)
      BY <1>3, <2>2
    <3> QED
      BY <3>1, <3>2
  <2>3. /\ batch \subseteq Logged /\ \A p \in batch : cursor < p
    BY <1>3, <1>4
  <2> QED
    BY <1>1, <1>2, <1>4, <2>1, <2>2, <2>3 DEF StreamHolds
<1> QED
  BY <1>1, <1>2, <1>5, <1>6 DEF FeedInv

LEMMA SendEventKeepsFeed ==
  ASSUME FeedTypeOK, FeedInv, ResumesFrom = "processed", SendEvent
  PROVE  FeedInv'
<1> DEFINE ts == NextEntry
           last == sent + 1 = what[ts].events
<1>1. /\ UNCHANGED <<logVars, on, from, skipped>> /\ on /\ pending # {}
      /\ got' = [got EXCEPT ![ts] = IF sent + 1 > @ THEN sent + 1 ELSE @]
      /\ seen' = ts
      /\ token' = IF seen # 0 /\ seen < ts THEN seen ELSE token
      /\ sent' = IF last THEN 0 ELSE sent + 1
      /\ pending' = IF last THEN pending \ {ts} ELSE pending
      /\ cursor' = IF last THEN ts ELSE cursor
  BY DEF SendEvent
<1>2. /\ LogInv' /\ Logged' = Logged /\ stored' = stored /\ what' = what /\ chg' = chg
      /\ committed' = committed
  BY <1>1, StoreUntouched DEF FeedInv
<1>3. /\ pending \subseteq Logged /\ Logged \subseteq stored /\ stored \subseteq Timestamp
      /\ Timestamp \subseteq Nat \ {0} /\ cursor \in Nat /\ from \in Nat /\ sent \in Nat
      /\ seen \in Nat /\ token \in Nat /\ got \in [Timestamp -> Nat]
      /\ \A u \in Timestamp : what[u].events \in Nat /\ got[u] <= what[u].events
      /\ \A u \in Logged : 0 < what[u].events
  BY <1>1, TimestampsArePositive
     DEF FeedInv, FeedTypeOK, LogTypeOK, Logged, StreamHolds, ClientHolds, Content
<1>4. ts \in pending /\ \A u \in pending : ts <= u
  BY <1>1, <1>3, ChooseLeast DEF NextEntry
<1> HIDE DEF ts
<1>5. sent < what[ts].events /\ cursor < ts
  BY <1>1, <1>4 DEF FeedInv, StreamHolds
<1>6. /\ got' \in [Timestamp -> Nat]
      /\ \A u \in Timestamp : got'[u] <= what[u].events /\ got[u] <= got'[u]
      /\ last => got'[ts] = what[ts].events
  <2>1. \A u \in Timestamp : got'[u] = IF u = ts /\ sent + 1 > got[u] THEN sent + 1 ELSE got[u]
    BY <1>1, <1>3
  <2>2. ts \in Timestamp /\ sent + 1 <= what[ts].events
    BY <1>3, <1>4, <1>5
  <2> QED
    BY <1>1, <1>3, <2>1, <2>2
<1>7. \A u \in Logged : Complete(u) => Complete(u)'
  BY <1>2, <1>3, <1>6 DEF Complete
\* Everything before the entry being sent has been delivered or pruned.
<1>8. \A u \in Logged : from < u /\ u < ts => Complete(u) \/ u \in skipped
  <2>1. \A u \in Logged : from < u /\ u <= cursor => Complete(u) \/ u \in skipped
    BY <1>1 DEF FeedInv, FeedHasNoGaps, Delivered
  <2>2. \A u \in Logged : from < u /\ cursor < u =>
           \/ u \in skipped \/ u \in pending
           \/ u \in chg /\ \A p \in pending : p < u
    BY <1>1 DEF FeedInv, StreamHolds
  <2>3. ASSUME NEW u \in Logged, from < u, cursor < u, u < ts
        PROVE  u \in skipped
    <3>1. u \notin pending /\ ~(ts < u)
      BY <1>3, <1>4, <2>3
    <3> QED
      BY <1>4, <2>2, <2>3, <3>1
  <2>4. \A u \in Logged : u <= cursor \/ cursor < u
    <3>1. cursor \in Nat /\ \A u \in Logged : u \in Nat
      BY <1>3
    <3> QED
      BY <3>1
  <2> QED
    BY <2>1, <2>3, <2>4
<1>9. last => \A u \in Logged : from < u /\ u <= ts => Complete(u)' \/ u \in skipped
  BY <1>2, <1>3, <1>4, <1>6, <1>7, <1>8 DEF Complete
<1>10. FeedHasNoGaps'
  <2>1. CASE last
    BY <1>1, <1>2, <1>9, <2>1 DEF FeedHasNoGaps, Delivered
  <2>2. CASE ~last
    BY <1>1, <1>2, <1>7, <2>2 DEF FeedInv, FeedHasNoGaps, Delivered
  <2> QED
    BY <2>1, <2>2
<1>11. ClientHolds'
  <2>1. /\ from <= committed /\ seen \in stored \cup {0} /\ token \in stored \cup {0}
        /\ Delivered(token)
    BY DEF FeedInv, ClientHolds
  <2>2. \A u \in Logged : from' < u /\ u <= token' => Complete(u)' \/ u \in skipped
    <3>1. CASE seen # 0 /\ seen < ts
      <4>1. token' = seen /\ from' = from
        BY <1>1, <3>1
      <4>2. \A u \in Logged : u <= seen => u < ts
        <5>1. ts \in Nat /\ seen \in Nat /\ \A u \in Logged : u \in Nat
          BY <1>3, <1>4
        <5> QED
          BY <3>1, <5>1
      <4> QED
        BY <1>7, <1>8, <4>1, <4>2
    <3>2. CASE ~(seen # 0 /\ seen < ts)
      BY <1>1, <1>7, <2>1, <3>2 DEF Delivered
    <3> QED
      BY <3>1, <3>2
  <2>3. \A u \in Logged : from' < u /\ u < seen' => Complete(u)' \/ u \in skipped
    BY <1>1, <1>7, <1>8
  <2>4. seen' \in stored' \cup {0} /\ token' \in stored' \cup {0}
    BY <1>1, <1>2, <1>3, <1>4, <2>1
  <2>5. Delivered(token)'
    BY <1>1, <1>2, <2>2 DEF Delivered
  <2> QED
    BY <1>1, <1>2, <1>6, <2>1, <2>3, <2>4, <2>5 DEF ClientHolds
<1>12. StreamHolds'
  <2>1. /\ cursor \in stored \cup {from}
        /\ \A p \in pending : cursor < p
        /\ \A u \in Logged : from < u /\ cursor < u =>
              \/ u \in skipped \/ u \in pending
              \/ u \in chg /\ \A p \in pending : p < u
    BY <1>1 DEF FeedInv, StreamHolds
  <2>2. CASE last
    <3>1. cursor' = ts /\ pending' = pending \ {ts} /\ sent' = 0
      BY <1>1, <2>2
    <3>2. \A p \in pending' : ts < p
      BY <1>3, <1>4, <3>1
    <3>3. \A p \in pending' : 0 < what[p].events
      BY <1>3, <3>1
    <3>4. \A u \in Logged : from < u /\ ts < u =>
              \/ u \in skipped \/ u \in pending'
              \/ u \in chg /\ \A p \in pending' : p < u
      <4>1. ts \in Nat /\ \A u \in Logged : u \in Nat
        BY <1>3, <1>4
      <4>2. \A u \in Logged : ts < u => cursor < u /\ u # ts
        BY <1>3, <1>5, <4>1
      <4> QED
        BY <2>1, <3>1, <4>2
    <3> QED
      BY <1>1, <1>2, <1>3, <1>4, <3>1, <3>2, <3>3, <3>4 DEF StreamHolds
  <2>3. CASE ~last
    <3>1. cursor' = cursor /\ pending' = pending /\ sent' = sent + 1
      BY <1>1, <2>3
    <3>2. \A p \in pending : (\A q \in pending : p <= q) => p = ts
      BY <1>3, <1>4
    <3>3. sent + 1 < what[ts].events
      <4>1. sent \in Nat /\ what[ts].events \in Nat
        BY <1>3, <1>4
      <4> QED
        BY <1>5, <2>3, <4>1
    <3> QED
      BY <1>1, <1>2, <1>3, <2>1, <3>1, <3>2, <3>3 DEF StreamHolds
  <2> QED
    BY <2>2, <2>3
<1>13. (~on => pending = {})' /\ (pending = {} => sent = 0)'
  BY <1>1, <1>4
<1> QED
  BY <1>2, <1>10, <1>11, <1>12, <1>13 DEF FeedInv

LEMMA FeedInvStep ==
  ASSUME FeedTypeOK, FeedInv, ResumesFrom = "processed", [FeedNext]_subVars
  PROVE  FeedInv'
<1>1. CASE Refuse
  <2>1. /\ UNCHANGED <<logVars, on, cursor, pending, sent, from, seen, got, skipped>>
        /\ ~on /\ token' = 0
    BY <1>1 DEF Refuse
  <2>2. LogInv' /\ Logged' = Logged /\ stored' = stored /\ what' = what /\ committed' = committed
    BY <2>1, StoreUntouched DEF FeedInv
  <2>3. Logged \subseteq Nat \ {0} /\ from \in Nat
    BY TimestampsArePositive DEF FeedTypeOK, LogTypeOK, Logged
  <2>4. Delivered(token)'
    BY <2>1, <2>2, <2>3 DEF Delivered
  <2>5. ClientHolds'
    BY <2>1, <2>2, <2>4 DEF FeedInv, ClientHolds, Complete
  <2> QED
    BY <2>1, <2>2, <2>5 DEF FeedInv, FeedHasNoGaps, StreamHolds
<1>2. CASE Disconnect
  <2>1. /\ UNCHANGED <<logVars, cursor, from, seen, token, got, skipped>>
        /\ on' = FALSE /\ pending' = {} /\ sent' = 0
    BY <1>2 DEF Disconnect, clientVars
  <2>2. LogInv' /\ Logged' = Logged /\ stored' = stored /\ what' = what /\ committed' = committed
    BY <2>1, StoreUntouched DEF FeedInv
  <2>3. ClientHolds'
    BY <2>1, <2>2 DEF FeedInv, ClientHolds, Delivered, Complete
  <2> QED
    BY <2>1, <2>2, <2>3 DEF FeedInv, FeedHasNoGaps, StreamHolds
<1>3. CASE UNCHANGED subVars
  <2>1. UNCHANGED <<logVars, on, cursor, pending, sent, from, seen, token, got, skipped>>
    BY <1>3 DEF subVars, feedVars, clientVars
  <2>2. LogInv' /\ Logged' = Logged /\ stored' = stored /\ what' = what /\ chg' = chg
        /\ committed' = committed
    BY <2>1, StoreUntouched DEF FeedInv
  <2> QED
    BY <2>1, <2>2 DEF FeedInv, ClientHolds, StreamHolds, FeedHasNoGaps, Delivered, Complete
<1> QED
  BY <1>1, <1>2, <1>3, LogStepKeepsFeed, SubscribeKeepsFeed, ResumeKeepsFeed,
     ReadBatchKeepsFeed, SendEventKeepsFeed DEF FeedNext, Task

-----------------------------------------------------------------------------
(* Theorems *)

LEMMA FeedInitHolds == FeedInit => FeedTypeOK /\ FeedInv
<1> SUFFICES ASSUME FeedInit PROVE FeedTypeOK /\ FeedInv
  OBVIOUS
<1>1. LogTypeOK /\ LogInv
  BY LogInitTypes, LogInitInv DEF FeedInit
<1>2. Logged = {} /\ committed = 0 /\ \A ts \in Timestamp : what[ts].events = 0
  BY DEF FeedInit, LogInit, Init, Logged, Nothing
<1>3. FeedTypeOK
  BY <1>1 DEF FeedInit, FeedTypeOK
<1>4. ClientHolds
  BY <1>2 DEF FeedInit, ClientHolds, Delivered
<1> QED
  BY <1>1, <1>3, <1>4 DEF FeedInit, FeedInv, FeedHasNoGaps, StreamHolds

\* The stream and its client keep their types, whatever the client resumes
\* from is: the log's invariant does not depend on the followers.
THEOREM FeedTypes == FeedSpec => [](FeedTypeOK /\ LogInv)
<1>1. FeedInit => FeedTypeOK /\ LogInv
  BY FeedInitHolds DEF FeedInv
<1>2. FeedTypeOK /\ LogInv /\ [FeedNext]_subVars => (FeedTypeOK /\ LogInv)'
  <2> SUFFICES ASSUME FeedTypeOK, LogInv, [FeedNext]_subVars
               PROVE  FeedTypeOK' /\ LogInv'
    OBVIOUS
  <2>1. LogNext \/ UNCHANGED logVars
    BY DEF FeedNext, FeedLogStep, Task, ReadBatch, SendEvent, Subscribe, Resume, Refuse,
           Disconnect, subVars
  <2> QED
    BY <2>1, FeedTypeStep, LogInvStep, StoreUntouched DEF FeedTypeOK
<1> QED
  BY <1>1, <1>2, PTL DEF FeedSpec

\* Nothing above the floor is missing from the log (prune_changes raises the
\* floor in the batch that deletes).
THEOREM FloorAlwaysCovers == FeedSpec => []FloorCoversPruned
<1>1. LogInv => FloorCoversPruned
  BY DEF LogInv
<1> QED
  BY <1>1, FeedTypes, PTL

\* A client that resumes from the last commit it has processed has everything
\* up to the cursor of its stream, save what was pruned in front of an open
\* stream (subscribe, change_events).
THEOREM ProcessedTokensLeaveNoGaps ==
  ASSUME ResumesFrom = "processed"
  PROVE  FeedSpec => [](FeedInv /\ FeedHasNoGaps)
<1>1. FeedInit => FeedTypeOK /\ FeedInv
  BY FeedInitHolds
<1>2. FeedTypeOK /\ FeedInv /\ [FeedNext]_subVars => (FeedTypeOK /\ FeedInv)'
  BY FeedTypeStep, FeedInvStep DEF FeedInv
<1>3. FeedInv => FeedHasNoGaps
  BY DEF FeedInv
<1> QED
  BY <1>1, <1>2, <1>3, PTL DEF FeedSpec

-----------------------------------------------------------------------------
(* Typings *)

\* The numbers the proofs below compare.
LEMMA IndexNumbers ==
  ASSUME IndexTypeOK, LogInv
  PROVE  /\ committed \in Nat /\ floor \in Nat /\ writing \in Nat
         /\ applied \in Nat /\ upTo \in Nat /\ due \in Nat
         /\ stored \subseteq Nat \ {0} /\ Logged \subseteq Nat /\ chg \subseteq Nat
         /\ stored \subseteq Timestamp /\ chg \subseteq Logged /\ Logged \subseteq stored
         /\ \A u \in stored : u <= committed /\ (writing # 0 => u < writing)
         /\ writing # 0 => writing = committed
<1>1. /\ Timestamp \subseteq Nat \ {0} /\ committed \in Nat /\ floor \in Nat
      /\ stored \subseteq Timestamp /\ writing \in Timestamp \cup {0}
      /\ applied \in Nat /\ upTo \in Nat /\ due \in Nat
  BY TimestampsArePositive DEF IndexTypeOK, LogTypeOK
<1>2. /\ chg \subseteq Logged /\ Logged \subseteq stored
      /\ \A u \in stored : u <= committed
      /\ writing # 0 => writing = committed /\ writing \notin stored
  BY DEF LogInv, StreamOrdered, FloorCoversPruned, Logged
<1>3. stored \subseteq Nat \ {0} /\ writing \in Nat
  BY <1>1
<1>4. ASSUME NEW u \in stored, writing # 0
      PROVE  u < writing
  <2>1. u \in Nat /\ u <= writing /\ u # writing
    BY <1>2, <1>3, <1>4
  <2> QED
    BY <1>3, <2>1
<1> QED
  BY <1>1, <1>2, <1>3, <1>4

LEMMA TypingsAreLogged ==
  ASSUME IndexTypeOK, LogInv, NEW s, NEW ts
  PROVE  Typing(s, ts) \subseteq Logged
<1> SUFFICES ASSUME NEW u \in Typing(s, ts)
             PROVE  u \in Logged
  OBVIOUS
<1>1. u \in stored /\ what[u] \in Contents /\ what[u].add \cup what[u].del # {}
  BY DEF Typing, LogInv
<1> QED
  BY <1>1, TypingIsLogged DEF Logged

\* Some typing decides, when there is one.
LEMMA LastTypingDecides ==
  ASSUME IndexTypeOK, LogInv, NEW s, NEW ts, Typing(s, ts) # {}
  PROVE  \E u \in Typing(s, ts) : Decides(u, s, ts)
<1>1. /\ Typing(s, ts) \subseteq Logged /\ Logged \subseteq stored /\ committed \in Nat
      /\ \A u \in stored : u \in Nat /\ u <= committed
  BY TypingsAreLogged, IndexNumbers
<1>2. Typing(s, ts) \in SUBSET (0 .. committed)
  BY <1>1
<1>3. PICK m \in Typing(s, ts) : \A u \in Typing(s, ts) : u <= m
  BY <1>1, <1>2, GreatestOf
<1> QED
  BY <1>3 DEF Decides

\* Equal typings give equal answers.
LEMMA SameTypings ==
  ASSUME NEW s, NEW t1, NEW t2, Typing(s, t1) = Typing(s, t2)
  PROVE  /\ \A u : Decides(u, s, t1) <=> Decides(u, s, t2)
         /\ InClass(s, t1) <=> InClass(s, t2)
<1>1. \A u : Decides(u, s, t1) <=> Decides(u, s, t2)
  BY DEF Decides
<1> QED
  BY <1>1 DEF InClass

LEMMA NewestLoggedFacts ==
  ASSUME IndexTypeOK, LogInv
  PROVE  /\ NewestLogged \in Nat /\ NewestLogged <= committed
         /\ NewestLogged = 0 \/ NewestLogged \in Logged
<1>1. Logged \subseteq stored /\ committed \in Nat /\ \A u \in stored : u \in Nat /\ u <= committed
  BY IndexNumbers
<1>2. Logged \in SUBSET (0 .. committed)
  BY <1>1
<1>3. CASE Logged = {}
  BY <1>1, <1>3 DEF NewestLogged
<1>4. CASE Logged # {}
  <2>1. NewestLogged \in Logged
    BY <1>1, <1>2, <1>4, ChooseGreatest DEF NewestLogged
  <2> QED
    BY <1>1, <2>1
<1> QED
  BY <1>3, <1>4

\* The last record of a batch.
LEMMA LastRecord ==
  ASSUME IndexTypeOK, LogInv, NEW records \in SUBSET chg, records # {}
  PROVE  LET m == CHOOSE ts \in records : \A u \in records : u <= ts
         IN  m \in records /\ \A u \in records : u <= m
<1>1. records \subseteq stored /\ committed \in Nat /\ \A u \in stored : u \in Nat /\ u <= committed
  BY IndexNumbers
<1>2. records \in SUBSET (0 .. committed)
  BY <1>1
<1> QED
  BY <1>1, <1>2, ChooseGreatest

LEMMA SameLog ==
  ASSUME UNCHANGED logVars
  PROVE  /\ LogTypeOK => LogTypeOK'
         /\ LogInv => LogInv'
         /\ Logged' = Logged /\ chg' = chg /\ floor' = floor
         /\ committed' = committed /\ writing' = writing
         /\ what' = what /\ stored' = stored
  BY DEF logVars, streamVars, LogTypeOK, LogInv, StreamOrdered, FloorCoversPruned, Logged

-----------------------------------------------------------------------------
(* Types *)

LEMMA IndexTypeStep ==
  ASSUME IndexTypeOK, LogInv, [IndexNext]_ixVars
  PROVE  IndexTypeOK'
<1>1. CASE IndexLogStep
  <2>1. LogTypeOK'
    BY <1>1, LogTypeStep DEF IndexLogStep, IndexTypeOK
  <2>2. /\ UNCHANGED <<members, applied, pc, upTo, touched, due>>
        /\ unseen' \subseteq unseen \cup chg
    BY <1>1 DEF IndexLogStep
  <2> QED
    BY <2>1, <2>2 DEF IndexTypeOK, LogTypeOK
<1>2. CASE BeginSync
  <2>1. NewestLogged \in Nat
    BY NewestLoggedFacts
  <2>2. LogTypeOK'
    BY <1>2, SameLog DEF BeginSync, IndexTypeOK
  <2> QED
    BY <1>2, <2>1, <2>2 DEF BeginSync, IndexTypeOK, LogTypeOK
<1>3. CASE Rebuild
  <2>1. LogTypeOK'
    BY <1>3, SameLog DEF Rebuild, IndexTypeOK
  <2> QED
    BY <1>3, <2>1 DEF Rebuild, IndexTypeOK, LogTypeOK, InstancesAt
<1>4. CASE ReadRecords
  <2> DEFINE records == ChangesAfter(upTo, SyncBatch)
  <2>1. /\ pc' \in {"installing", pc} /\ UNCHANGED <<logVars, members, applied, due, unseen>>
        /\ touched' = touched \cup UNION {what[ts].add \cup what[ts].del : ts \in records}
        /\ upTo' = IF records = {} THEN upTo
                   ELSE CHOOSE ts \in records : \A u \in records : u <= ts
    BY <1>4 DEF ReadRecords
  <2>2. LogTypeOK'
    BY <2>1, SameLog DEF IndexTypeOK
  <2>3. records \in SUBSET chg /\ chg \subseteq Nat
    BY TimestampsArePositive DEF IndexTypeOK, LogTypeOK, ChangesAfter
  <2>4. \A ts \in records : what[ts].add \cup what[ts].del \subseteq Subject
    BY <2>3 DEF IndexTypeOK, LogTypeOK, Content
  <2>5. touched' \subseteq Subject
    BY <2>1, <2>4 DEF IndexTypeOK
  <2>6. upTo' \in Nat
    <3>1. CASE records = {}
      BY <2>1, <3>1 DEF IndexTypeOK
    <3>2. CASE records # {}
      BY <2>1, <2>3, <3>2, LastRecord
    <3> QED
      BY <3>1, <3>2
  <2> QED
    BY <2>1, <2>2, <2>5, <2>6 DEF IndexTypeOK
<1>5. CASE Install
  <2>1. LogTypeOK'
    BY <1>5, SameLog DEF Install, IndexTypeOK
  <2> QED
    BY <1>5, <2>1 DEF Install, IndexTypeOK
<1>6. CASE UNCHANGED ixVars
  BY <1>6, SameLog DEF ixVars, indexVars, IndexTypeOK
<1> QED
  BY <1>1, <1>2, <1>3, <1>4, <1>5, <1>6 DEF IndexNext, Sync

-----------------------------------------------------------------------------
(* What the index shows *)

LEMMA LogStepKeepsIndex ==
  ASSUME IndexTypeOK, IndexInv, IndexLogStep
  PROVE  IndexInv'
<1>1. /\ UNCHANGED <<members, applied, pc, upTo, touched, due>>
      /\ unseen' = IF pc = "catching up"
                   THEN unseen \cup {ts \in chg \ chg' : ts > upTo}
                   ELSE unseen
      /\ unseen \subseteq unseen'
  BY DEF IndexLogStep
<1>2. LogMoves /\ LogInv' /\ LogTypeOK'
  BY LogStepMoves, LogInvStep, LogTypeStep DEF IndexTypeOK, IndexInv, IndexLogStep
<1>3. /\ committed \in Nat /\ floor \in Nat /\ writing \in Nat
      /\ applied \in Nat /\ upTo \in Nat /\ due \in Nat
      /\ stored \subseteq Nat \ {0} /\ Logged \subseteq Nat /\ chg \subseteq Nat
      /\ \A u \in stored : u <= committed /\ (writing # 0 => u < writing)
      /\ writing # 0 => writing = committed
  BY IndexNumbers DEF IndexInv
<1>4. committed' \in Nat /\ floor' \in Nat /\ writing' \in Nat /\ stored' \subseteq Nat \ {0}
  BY <1>2, TimestampsArePositive DEF LogTypeOK
<1>5. /\ stored \subseteq stored' /\ \A u \in stored' \ stored : u = writing /\ writing # 0
      /\ \A u \in stored : what'[u] = what[u]
      /\ committed <= committed' /\ floor <= floor'
      /\ \A u \in Logged' \ Logged : u \in chg'
      /\ \A u \in chg \ chg' : u <= floor'
      /\ writing' # 0 => writing' = writing \/ committed < writing'
  <2>1. \A u \in stored' : u # 0
    BY <1>4
  <2> QED
    BY <1>2, <2>1 DEF LogMoves
\* A commit the index is past without having read it stays known as such.
<1>6. ASSUME NEW ts \in Nat, ts <= committed, writing # 0 /\ writing <= ts => writing \in unseen
      PROVE  writing' # 0 /\ writing' <= ts => writing' \in unseen'
  <2>1. ~(committed < writing' /\ writing' <= ts)
    BY <1>3, <1>4, <1>6
  <2> QED
    BY <1>1, <1>5, <1>6, <2>1
<1>7. applied' <= committed' /\ upTo' <= committed'
      /\ (writing' # 0 /\ writing' <= applied' => writing' \in unseen')
  <2>1. /\ applied <= committed /\ upTo <= committed
        /\ writing # 0 /\ writing <= applied => writing \in unseen
    BY DEF IndexInv
  <2>2. applied <= committed' /\ upTo <= committed'
    BY <1>3, <1>4, <1>5, <2>1
  <2>3. writing' # 0 /\ writing' <= applied => writing' \in unseen'
    BY <1>3, <1>6, <2>1
  <2> QED
    BY <1>1, <2>2, <2>3
\* A new typing at or below ts is the last one.
<1>8. ASSUME NEW s \in Subject, NEW ts \in {applied, upTo}
      PROVE  \/ Typing(s, ts)' = Typing(s, ts)
             \/ \E u : u = writing /\ u # 0 /\ u <= ts /\ Decides(u, s, ts)'
  <2>1. ts' = ts /\ ts \in Nat
    BY <1>1, <1>3
  <2>2. \A u \in stored : u \in Typing(s, ts) <=> u \in Typing(s, ts)'
    BY <1>5, <2>1 DEF Typing
  <2>3. \A u \in stored' : writing # 0 => u <= writing
    BY <1>3, <1>4, <1>5
  <2>4. Typing(s, ts) \subseteq stored /\ Typing(s, ts)' \subseteq stored'
    BY DEF Typing
  <2>5. ASSUME NEW u, u = writing, u # 0, u \in Typing(s, ts)'
        PROVE  u <= ts /\ Decides(u, s, ts)'
    <3>1. u <= ts
      BY <2>1, <2>5 DEF Typing
    <3>2. \A v \in Typing(s, ts)' : v <= u
      BY <2>3, <2>4, <2>5
    <3> QED
      BY <2>5, <3>1, <3>2 DEF Decides
  <2>6. CASE ~(writing \in Typing(s, ts)' /\ writing # 0)
    BY <1>5, <2>2, <2>4, <2>6
  <2>7. CASE writing \in Typing(s, ts)' /\ writing # 0
    BY <2>5, <2>7
  <2> QED
    BY <2>6, <2>7
<1>9. ASSUME NEW s \in Subject, Typing(s, applied)' = Typing(s, applied)
      PROVE  /\ \A u : Decides(u, s, applied)' <=> Decides(u, s, applied)
             /\ InClass(s, applied)' <=> InClass(s, applied)
  <2>1. \A u : Decides(u, s, applied)' <=> Decides(u, s, applied)
    BY <1>9 DEF Decides
  <2>2. \A u : Decides(u, s, applied) => u \in stored
    BY DEF Decides, Typing
  <2> QED
    BY <1>5, <2>1, <2>2 DEF InClass
<1>10. IndexShowsWhatItRead'
  <2> SUFFICES ASSUME NEW s \in Subject
               PROVE  \/ \E u \in unseen' : Decides(u, s, applied)'
                      \/ s \in members' <=> InClass(s, applied)'
    BY DEF IndexShowsWhatItRead
  <2>1. CASE Typing(s, applied)' = Typing(s, applied)
    BY <1>1, <1>9, <2>1 DEF IndexInv, IndexShowsWhatItRead
  <2>2. ASSUME NEW u, u = writing, u # 0, u <= applied, Decides(u, s, applied)'
        PROVE  u \in unseen'
    BY <1>1, <2>2 DEF IndexInv
  <2>3. \/ Typing(s, applied)' = Typing(s, applied)
        \/ \E u : u = writing /\ u # 0 /\ u <= applied /\ Decides(u, s, applied)'
    <3>1. PICK ts : ts = applied /\ ts' = ts
      OBVIOUS
    <3>2. \/ Typing(s, ts)' = Typing(s, ts)
          \/ \E u : u = writing /\ u # 0 /\ u <= ts /\ Decides(u, s, ts)'
      BY <1>8, <3>1
    <3>3. Typing(s, ts)' = Typing(s, applied)' /\ \A u : Decides(u, s, ts)' <=> Decides(u, s, applied)'
      BY <1>1, <3>1 DEF Typing, Decides
    <3> QED
      BY <3>1, <3>2, <3>3
  <2> QED
    BY <2>1, <2>2, <2>3
<1>11. SyncHolds'
  <2>1. ASSUME pc \in {"catching up", "installing"}
        PROVE  /\ applied <= upTo
               /\ writing' # 0 /\ writing' <= upTo => writing' \in unseen'
               /\ \A s \in Subject \ touched : \A u \in Typing(s, upTo)' :
                     u <= applied \/ u \in unseen'
    <3>1. /\ applied <= upTo
          /\ writing # 0 /\ writing <= upTo => writing \in unseen
          /\ \A s \in Subject \ touched : \A u \in Typing(s, upTo) : u <= applied \/ u \in unseen
      BY <2>1 DEF IndexInv, SyncHolds
    <3>2. ASSUME NEW s \in Subject \ touched, NEW u \in Typing(s, upTo)'
          PROVE  u <= applied \/ u \in unseen'
      <4>1. u \in stored' /\ u <= upTo
        BY <1>1 DEF Typing
      <4>2. CASE u \in stored
        <5>1. u \in Typing(s, upTo)
          BY <1>1, <1>5, <4>2 DEF Typing
        <5> QED
          BY <1>1, <3>1, <5>1
      <4>3. CASE u \notin stored
        <5>1. u = writing /\ writing # 0 /\ writing <= upTo
          BY <1>5, <4>1, <4>3
        <5> QED
          BY <1>1, <3>1, <5>1
      <4> QED
        BY <4>2, <4>3
    <3> QED
      BY <1>3, <1>6, <3>1, <3>2 DEF IndexInv
  <2>2. ASSUME pc = "catching up", NEW u \in Logged'
        PROVE  u <= upTo \/ u \in chg' \/ u \in unseen'
    <3>1. u \in Logged => u <= upTo \/ u \in chg \/ u \in unseen
      BY <2>2 DEF IndexInv, SyncHolds
    <3>2. u \in chg \ chg' => u \in unseen' \/ u <= upTo
      <4>1. u \in chg => u > upTo \/ u <= upTo
        BY <1>3
      <4>2. unseen' = unseen \cup {ts \in chg \ chg' : ts > upTo}
        BY <1>1, <2>2
      <4> QED
        BY <4>1, <4>2
    <3> QED
      BY <1>1, <1>5, <3>1, <3>2
  <2>3. pc # "idle" => due <= upTo \/ due <= floor' \/ (pc = "catching up" /\ due \in chg')
    <3>1. pc # "idle" => due <= upTo \/ due <= floor \/ (pc = "catching up" /\ due \in chg)
      BY DEF IndexInv, SyncHolds
    <3>2. due <= floor => due <= floor'
      BY <1>3, <1>4, <1>5
    <3> QED
      BY <1>5, <3>1, <3>2
  <2> QED
    BY <1>1, <2>1, <2>2, <2>3 DEF SyncHolds
<1>12. SyncCatchesUp'
  <2>1. due <= floor => due <= floor'
    BY <1>3, <1>4, <1>5
  <2> QED
    BY <1>1, <2>1 DEF IndexInv, SyncCatchesUp
<1> QED
  BY <1>2, <1>7, <1>10, <1>11, <1>12 DEF IndexInv

\* A sync that leaves the index alone keeps what it shows.
LEMMA IndexUntouched ==
  ASSUME UNCHANGED <<logVars, members, applied, unseen>>, IndexInv
  PROVE  /\ LogInv' /\ IndexShowsWhatItRead' /\ applied' <= committed'
         /\ writing' # 0 /\ writing' <= applied' => writing' \in unseen'
<1>1. /\ LogInv' /\ committed' = committed /\ writing' = writing
      /\ what' = what /\ stored' = stored
  BY SameLog DEF IndexInv
<1>2. IndexShowsWhatItRead'
  BY <1>1 DEF IndexInv, IndexShowsWhatItRead, Decides, InClass, Typing
<1> QED
  BY <1>1, <1>2 DEF IndexInv

LEMMA BeginSyncKeepsIndex ==
  ASSUME IndexTypeOK, IndexInv, BeginSync
  PROVE  IndexInv'
<1>1. /\ UNCHANGED <<logVars, members, applied, unseen>> /\ pc = "idle"
      /\ touched' = {} /\ due' = NewestLogged
      /\ IF applied < floor
         THEN pc' = "rebuilding" /\ upTo' = committed
         ELSE pc' = "catching up" /\ upTo' = applied
  BY DEF BeginSync
<1>2. /\ LogInv' /\ IndexShowsWhatItRead' /\ applied' <= committed'
      /\ writing' # 0 /\ writing' <= applied' => writing' \in unseen'
  BY <1>1, IndexUntouched
<1>3. /\ Logged' = Logged /\ chg' = chg /\ floor' = floor /\ committed' = committed
      /\ writing' = writing /\ stored' = stored /\ what' = what
  BY <1>1, SameLog
<1>4. /\ applied \in Nat /\ floor \in Nat /\ committed \in Nat /\ applied <= committed
      /\ Logged \subseteq Nat
      /\ \A u \in Logged : u > floor => u \in chg
  BY IndexNumbers DEF IndexInv, LogInv, FloorCoversPruned
<1>5. /\ NewestLogged \in Nat /\ NewestLogged <= committed
      /\ NewestLogged = 0 \/ NewestLogged \in Logged
  BY NewestLoggedFacts DEF IndexInv
<1>6. upTo' <= committed'
  <2>1. committed <= committed /\ applied <= committed
    BY <1>4
  <2> QED
    BY <1>1, <1>3, <2>1
<1>7. SyncHolds'
  <2>1. CASE applied < floor
    <3>1. pc' = "rebuilding" /\ upTo' = committed
      BY <1>1, <2>1
    <3> QED
      BY <1>1, <1>5, <3>1 DEF SyncHolds
  <2>2. CASE ~(applied < floor)
    <3>1. pc' = "catching up" /\ upTo' = applied /\ applied' = applied
      BY <1>1, <2>2
    <3>2. \A u \in Logged : u <= applied \/ u \in chg
      BY <1>4, <2>2
    <3>3. NewestLogged <= applied \/ NewestLogged \in chg
      BY <1>4, <1>5, <3>2
    <3>4. \A s : \A u \in Typing(s, upTo)' : u <= upTo'
      BY DEF Typing
    <3> QED
      <4>1. applied' = applied /\ due' = NewestLogged
        BY <1>1
      <4>2. writing' # 0 /\ writing' <= upTo' => writing' \in unseen'
        BY <1>2, <3>1, <4>1
      <4>3. \A u \in Logged' : u <= upTo' \/ u \in chg'
        BY <1>3, <3>1, <3>2
      <4>4. \A s \in Subject : \A u \in Typing(s, upTo)' : u <= applied'
        BY <3>1, <3>4, <4>1
      <4>5. applied <= applied
        BY <1>4
      <4> QED
        BY <1>3, <3>1, <3>3, <4>1, <4>2, <4>3, <4>4, <4>5 DEF SyncHolds
  <2> QED
    BY <2>1, <2>2
<1>8. SyncCatchesUp'
  BY <1>1 DEF SyncCatchesUp
<1> QED
  BY <1>2, <1>6, <1>7, <1>8 DEF IndexInv

LEMMA RebuildKeepsIndex ==
  ASSUME IndexTypeOK, IndexInv, Rebuild
  PROVE  IndexInv'
<1>1. /\ UNCHANGED <<logVars, upTo, touched, due>> /\ pc = "rebuilding"
      /\ members' = InstancesAt(upTo) /\ applied' = upTo /\ pc' = "idle"
      /\ unseen' = IF writing # 0 /\ writing <= upTo THEN {writing} ELSE {}
  BY DEF Rebuild
<1>2. /\ LogInv' /\ floor' = floor /\ committed' = committed
      /\ writing' = writing /\ stored' = stored /\ what' = what
  BY <1>1, SameLog DEF IndexInv
<1>3. \A s \in Subject : s \in members' <=> InClass(s, applied)'
  BY <1>1, <1>2 DEF InstancesAt, InClass, Decides, Typing
<1>4. IndexShowsWhatItRead'
  BY <1>3 DEF IndexShowsWhatItRead
<1>5. SyncHolds' /\ SyncCatchesUp'
  BY <1>1, <1>2 DEF IndexInv, SyncHolds, SyncCatchesUp
<1> QED
  BY <1>1, <1>2, <1>4, <1>5 DEF IndexInv

LEMMA ReadRecordsKeepsIndex ==
  ASSUME IndexTypeOK, IndexInv, ReadRecords
  PROVE  IndexInv'
<1> DEFINE records == ChangesAfter(upTo, SyncBatch)
<1>1. /\ UNCHANGED <<logVars, members, applied, due, unseen>> /\ pc = "catching up"
      /\ touched' = touched \cup UNION {what[ts].add \cup what[ts].del : ts \in records}
      /\ upTo' = IF records = {} THEN upTo
                 ELSE CHOOSE ts \in records : \A u \in records : u <= ts
      /\ pc' = IF Cardinality(records) < SyncBatch THEN "installing" ELSE pc
  BY DEF ReadRecords
<1>2. /\ LogInv' /\ IndexShowsWhatItRead' /\ applied' <= committed'
      /\ writing' # 0 /\ writing' <= applied' => writing' \in unseen'
  BY <1>1, IndexUntouched
<1>3. /\ Logged' = Logged /\ chg' = chg /\ floor' = floor /\ committed' = committed
      /\ writing' = writing /\ stored' = stored /\ what' = what
  BY <1>1, SameLog
<1>4. /\ records \subseteq {ts \in chg : ts > upTo}
      /\ \A ts \in records : \A u \in chg : upTo < u /\ u <= ts => u \in records
      /\ Cardinality(records) < SyncBatch => records = {ts \in chg : ts > upTo}
  BY SyncBatchType, ChangesAfterFacts DEF IndexTypeOK, IndexInv
<1> HIDE DEF records
<1>5. /\ chg \subseteq Logged /\ Logged \subseteq stored /\ stored \subseteq Nat
      /\ applied \in Nat /\ upTo \in Nat /\ committed \in Nat /\ due \in Nat
      /\ upTo <= committed /\ applied <= upTo
      /\ \A u \in stored : u <= committed /\ (writing # 0 => u < writing)
      /\ writing # 0 => writing \in Nat
  BY <1>1, IndexNumbers DEF IndexInv, SyncHolds
\* The batch ends at the new upTo.
<1>6. /\ upTo' \in Nat /\ upTo <= upTo' /\ upTo' <= committed
      /\ \A u \in records : u <= upTo'
      /\ upTo' = upTo \/ upTo' \in records
  <2>1. CASE records = {}
    <3>1. upTo' = upTo
      BY <1>1, <2>1
    <3> QED
      BY <1>5, <2>1, <3>1
  <2>2. CASE records # {}
    <3>1. records \in SUBSET chg
      BY <1>4
    <3>2. upTo' \in records /\ \A u \in records : u <= upTo'
      BY <1>1, <2>2, <3>1, LastRecord DEF IndexInv
    <3>3. upTo' \in chg /\ upTo' > upTo /\ upTo' \in stored
      BY <1>4, <1>5, <3>2
    <3> QED
      BY <1>5, <3>2, <3>3
  <2> QED
    BY <2>1, <2>2
\* Nothing in the log between the old and the new upTo is left out.
<1>7. \A u \in chg : u <= upTo \/ u \in records \/ upTo' < u
  <2>1. ASSUME NEW u \in chg, upTo < u, u <= upTo'
        PROVE  u \in records
    BY <1>4, <1>5, <1>6, <2>1
  <2>2. \A u \in chg : u \in Nat
    BY <1>5
  <2> QED
    BY <1>5, <1>6, <2>1, <2>2
<1>8. writing' # 0 /\ writing' <= upTo' => writing' \in unseen'
  <2>1. writing # 0 /\ writing <= upTo => writing \in unseen
    BY <1>1 DEF IndexInv, SyncHolds
  <2>2. upTo' \in records => upTo' \in stored
    BY <1>4, <1>5
  <2>3. writing # 0 /\ writing <= upTo' => upTo' = upTo
    BY <1>5, <1>6, <2>2
  <2> QED
    BY <1>1, <1>3, <2>1, <2>3
<1>9. ASSUME NEW s \in Subject \ touched', NEW u \in Typing(s, upTo)'
      PROVE  u <= applied \/ u \in unseen
  <2>1. u \in stored /\ u <= upTo' /\ s \in what[u].add \cup what[u].del
    BY <1>3 DEF Typing
  <2>2. s \notin touched /\ u \notin records
    BY <1>1, <2>1
  <2>3. CASE u <= upTo
    <3>1. u \in Typing(s, upTo)
      BY <2>1, <2>3 DEF Typing
    <3> QED
      BY <1>1, <2>2, <3>1 DEF IndexInv, SyncHolds
  <2>4. CASE ~(u <= upTo)
    <3>1. u \in Typing(s, upTo')
      BY <2>1 DEF Typing
    <3>2. u \in Logged
      BY <3>1, TypingsAreLogged DEF IndexInv
    <3>3. u \in chg \/ u \in unseen
      BY <1>1, <2>4, <3>2 DEF IndexInv, SyncHolds
    <3>4. ~(upTo' < u)
      <4>1. u \in Nat /\ upTo' \in Nat
        BY <1>5, <1>6, <2>1
      <4> QED
        BY <2>1, <4>1
    <3> QED
      BY <1>7, <2>2, <2>4, <3>3, <3>4
  <2> QED
    BY <2>3, <2>4
<1>10. \A u \in Logged : u <= upTo' \/ u \in chg \/ u \in unseen
  <2>1. \A u \in Logged : u <= upTo \/ u \in chg \/ u \in unseen
    BY <1>1 DEF IndexInv, SyncHolds
  <2>2. \A u \in Logged : u <= upTo => u <= upTo'
    BY <1>5, <1>6
  <2> QED
    BY <2>1, <2>2
<1>11. due <= upTo' \/ due <= floor \/ (pc' = "catching up" /\ due \in chg)
  <2>1. due <= upTo \/ due <= floor \/ due \in chg
    BY <1>1 DEF IndexInv, SyncHolds
  <2>2. due <= upTo => due <= upTo'
    BY <1>5, <1>6
  <2>3. due \in chg /\ pc' # "catching up" => due <= upTo'
    <3>1. pc' # "catching up" => records = {ts \in chg : ts > upTo}
      BY <1>1, <1>4
    <3>2. due <= upTo \/ due > upTo
      BY <1>5
    <3> QED
      BY <1>6, <2>2, <3>1, <3>2
  <2> QED
    BY <2>1, <2>2, <2>3
<1>12. SyncHolds'
  <2>1. applied' = applied /\ unseen' = unseen /\ due' = due
    BY <1>1
  <2>2. applied <= upTo'
    BY <1>5, <1>6
  <2> QED
    BY <1>3, <1>8, <1>9, <1>10, <1>11, <2>1, <2>2 DEF SyncHolds
<1>13. SyncCatchesUp' /\ upTo' <= committed'
  BY <1>1, <1>3, <1>6 DEF SyncCatchesUp
<1> QED
  BY <1>2, <1>12, <1>13 DEF IndexInv

LEMMA InstallKeepsIndex ==
  ASSUME IndexTypeOK, IndexInv, Install
  PROVE  IndexInv'
<1>1. /\ UNCHANGED <<logVars, upTo, touched, due, unseen>> /\ pc = "installing"
      /\ members' = (members \ touched) \cup (InstancesAt(upTo) \cap touched)
      /\ applied' = upTo /\ pc' = "idle"
  BY DEF Install
<1>2. /\ LogInv' /\ floor' = floor /\ committed' = committed
      /\ writing' = writing /\ stored' = stored /\ what' = what
  BY <1>1, SameLog DEF IndexInv
<1>3. /\ applied \in Nat /\ upTo \in Nat /\ applied <= upTo
      /\ \A s \in Subject \ touched : \A u \in Typing(s, upTo) : u <= applied \/ u \in unseen
  BY <1>1, IndexNumbers DEF IndexInv, SyncHolds
<1>4. \A s, u : /\ Decides(u, s, applied)' <=> Decides(u, s, upTo)
                /\ InClass(s, applied)' <=> InClass(s, upTo)
  <2>1. \A s : Typing(s, applied)' = Typing(s, upTo)
    BY <1>1, <1>2 DEF Typing
  <2>2. \A s, u : Decides(u, s, applied)' <=> Decides(u, s, upTo)
    BY <2>1 DEF Decides
  <2> QED
    BY <1>2, <2>2 DEF InClass
<1>5. ASSUME NEW s \in Subject
      PROVE  (\E u \in unseen : Decides(u, s, upTo)) \/ (s \in members' <=> InClass(s, upTo))
  <2>1. CASE s \in touched
    BY <1>1, <2>1 DEF InstancesAt
  <2>2. CASE s \notin touched /\ \E u \in Typing(s, upTo) : ~(u <= applied)
    <3>1. PICK u \in Typing(s, upTo) : Decides(u, s, upTo)
      BY <2>2, LastTypingDecides DEF IndexInv
    <3>2. ~(u <= applied)
      <4>1. PICK v \in Typing(s, upTo) : ~(v <= applied)
        BY <2>2
      <4>2. v <= u
        BY <3>1 DEF Decides
      <4>3. u \in Nat /\ v \in Nat
        BY IndexNumbers DEF IndexInv, Typing
      <4> QED
        BY <1>3, <4>1, <4>2, <4>3
    <3> QED
      BY <1>3, <2>2, <3>1, <3>2
  <2>3. CASE s \notin touched /\ \A u \in Typing(s, upTo) : u <= applied
    <3>1. \A u \in stored : u \in Nat
      BY IndexNumbers DEF IndexInv
    <3>2. Typing(s, upTo) = Typing(s, applied)
      BY <1>3, <2>3, <3>1 DEF Typing
    <3>3. (\E u \in unseen : Decides(u, s, applied)) \/ (s \in members <=> InClass(s, applied))
      BY DEF IndexInv, IndexShowsWhatItRead
    <3> QED
      BY <1>1, <2>3, <3>2, <3>3, SameTypings
  <2> QED
    BY <2>1, <2>2, <2>3
<1>6. IndexShowsWhatItRead'
  BY <1>1, <1>4, <1>5 DEF IndexShowsWhatItRead
<1>7. SyncHolds' /\ SyncCatchesUp'
  BY <1>1, <1>2 DEF IndexInv, SyncHolds, SyncCatchesUp
<1>8. /\ applied' <= committed' /\ upTo' <= committed'
      /\ writing' # 0 /\ writing' <= applied' => writing' \in unseen'
  BY <1>1, <1>2 DEF IndexInv, SyncHolds
<1> QED
  BY <1>2, <1>6, <1>7, <1>8 DEF IndexInv

LEMMA IndexInvStep ==
  ASSUME IndexTypeOK, IndexInv, [IndexNext]_ixVars
  PROVE  IndexInv'
<1>1. CASE UNCHANGED ixVars
  <2>1. /\ UNCHANGED <<logVars, members, applied, unseen>>
        /\ UNCHANGED <<pc, upTo, touched, due>>
    BY <1>1 DEF ixVars, indexVars
  <2>2. /\ Logged' = Logged /\ chg' = chg /\ floor' = floor /\ committed' = committed
        /\ writing' = writing /\ stored' = stored /\ what' = what
    BY <2>1, SameLog
  <2>3. SyncHolds' /\ SyncCatchesUp' /\ upTo' <= committed'
    BY <2>1, <2>2 DEF IndexInv, SyncHolds, SyncCatchesUp, Typing
  <2> QED
    BY <2>1, <2>3, IndexUntouched DEF IndexInv
<1> QED
  BY <1>1, LogStepKeepsIndex, BeginSyncKeepsIndex, RebuildKeepsIndex, ReadRecordsKeepsIndex,
     InstallKeepsIndex DEF IndexNext, Sync

-----------------------------------------------------------------------------
(* Theorems *)

LEMMA IndexInitHolds == IndexInit => IndexTypeOK /\ IndexInv
<1> SUFFICES ASSUME IndexInit PROVE IndexTypeOK /\ IndexInv
  OBVIOUS
<1>1. LogTypeOK /\ LogInv
  BY LogInitTypes, LogInitInv DEF IndexInit
<1>2. stored = {} /\ committed = 0 /\ writing = 0
  BY DEF IndexInit, LogInit, Init
<1>3. \A s, ts : ~InClass(s, ts)
  BY <1>2 DEF InClass
<1> QED
  BY <1>1, <1>2, <1>3 DEF IndexInit, IndexTypeOK, IndexInv, IndexShowsWhatItRead, SyncHolds,
                          SyncCatchesUp

\* The index keeps its types and the invariant that carries the theorems below.
THEOREM IndexInvariant == IndexSpec => [](IndexTypeOK /\ IndexInv)
<1>1. IndexTypeOK /\ IndexInv /\ [IndexNext]_ixVars => (IndexTypeOK /\ IndexInv)'
  BY IndexTypeStep, IndexInvStep DEF IndexInv
<1> QED
  BY <1>1, IndexInitHolds, PTL DEF IndexSpec

\* Between syncs and during them, the index shows what a snapshot at applied
\* shows, save what it was never given to read (TypeIndex::sync, rebuild).
THEOREM IndexAlwaysShowsWhatItRead == IndexSpec => []IndexShowsWhatItRead
<1>1. IndexInv => IndexShowsWhatItRead
  BY DEF IndexInv
<1> QED
  BY <1>1, IndexInvariant, PTL

\* A finished sync is past every commit logged when it began (the loop of
\* TypeIndex::sync over changes_after).
THEOREM SyncAlwaysCatchesUp == IndexSpec => []SyncCatchesUp
<1>1. IndexInv => SyncCatchesUp
  BY DEF IndexInv
<1> QED
  BY <1>1, IndexInvariant, PTL
=============================================================================
