----------------------------- MODULE MvccProofs -----------------------------
(***************************************************************************)
(* Proofs about Mvcc, for every set of transactions, slots, values and     *)
(* writes and every bound.                                                 *)
(***************************************************************************)
EXTENDS Mvcc, SequenceTheorems, WellFoundedInduction, TLAPS

-----------------------------------------------------------------------------
(* Sequences *)

LEMMA PrefixFacts ==
  ASSUME NEW S, NEW s \in Seq(S), NEW n \in 0 .. Len(s)
  PROVE  /\ SubSeq(s, 1, n) \in Seq(S)
         /\ Len(SubSeq(s, 1, n)) = n
         /\ DOMAIN SubSeq(s, 1, n) = 1 .. n
         /\ \A i \in 1 .. n : i \in DOMAIN s /\ SubSeq(s, 1, n)[i] = s[i]
<1>1. \A i \in 1 .. n : s[i] \in S
  BY ElementOfSeq
<1>2. /\ SubSeq(s, 1, n) \in Seq(S)
      /\ Len(SubSeq(s, 1, n)) = IF 1 <= n THEN n - 1 + 1 ELSE 0
      /\ \A i \in 1 .. n - 1 + 1 : SubSeq(s, 1, n)[i] = s[1 + i - 1]
  BY <1>1, SubSeqProperties
<1> QED
  BY <1>2, LenProperties

LEMMA AppendFacts ==
  ASSUME NEW S, NEW s \in Seq(S), NEW e \in S
  PROVE  /\ Append(s, e) \in Seq(S)
         /\ Len(Append(s, e)) = Len(s) + 1
         /\ DOMAIN Append(s, e) = 1 .. Len(s) + 1
         /\ DOMAIN s = 1 .. Len(s)
         /\ \A i \in 1 .. Len(s) : Append(s, e)[i] = s[i]
         /\ Append(s, e)[Len(s) + 1] = e
  BY LenProperties

-----------------------------------------------------------------------------
(* Staging *)

LEMMA LeastOf ==
  ASSUME NEW S \in SUBSET Nat, S # {}
  PROVE  \E m \in S : \A u \in S : m <= u
<1>1. PICK m \in S : \A u \in S : ~ (<<u, m>> \in OpToRel(<, Nat))
  BY NatLessThanWellFounded, WFMin, Zenon
<1>2. \A u \in S : ~ (u < m)
  BY <1>1 DEF OpToRel
<1> QED
  BY <1>2

LEMMA GreatestOf ==
  ASSUME NEW b \in Nat, NEW S \in SUBSET (0 .. b), S # {}
  PROVE  \E m \in S : \A u \in S : u <= m
<1> DEFINE T == {x \in Nat : \E u \in S : x = b - u}
<1>1. PICK v \in S : TRUE
  OBVIOUS
<1>2. b - v \in T
  OBVIOUS
<1>3. PICK x \in T : \A y \in T : x <= y
  BY <1>2, LeastOf
<1>4. PICK m \in S : x = b - m
  OBVIOUS
<1>5. \A u \in S : b - u \in T
  OBVIOUS
<1> HIDE DEF T
<1>6. \A u \in S : b - m <= b - u
  BY <1>3, <1>4, <1>5
<1> QED
  BY <1>6

LEMMA LastOfFacts ==
  ASSUME NEW n \in Nat, NEW S \in SUBSET (1 .. n), S # {}
  PROVE  LastOf(S) \in S /\ \A m \in S : m <= LastOf(S)
<1>1. S \in SUBSET (0 .. n)
  OBVIOUS
<1>2. \E k \in S : \A m \in S : m <= k
  BY <1>1, GreatestOf
<1> QED
  BY <1>2 DEF LastOf

LEMMA BufferFacts ==
  ASSUME NEW ws \in Seq(WriteRecord)
  PROVE  /\ Len(ws) \in Nat /\ DOMAIN ws = 1 .. Len(ws)
         /\ \A k \in DOMAIN ws : /\ ws[k] \in WriteRecord
                                 /\ ws[k].start \in Nat /\ ws[k].end \in Nat
                                 /\ ws[k].slot \in Slot /\ ws[k].val \in Value
<1>1. \A k \in DOMAIN ws : ws[k] \in WriteRecord
  BY ElementOfSeq, LenProperties
<1> QED
  BY <1>1, LenProperties DEF WriteRecord

\* The writes and closings that put a version of quad (s, v) in the batch.
Puts(ws, h, s, v) == OwnWrites(ws, s, v) \cup ClosingsOf(ws, h, s, v)

LEMMA PutsFacts ==
  ASSUME NEW ws \in Seq(WriteRecord), NEW h, NEW s, NEW v
  PROVE  /\ Puts(ws, h, s, v) \in SUBSET (1 .. Len(ws))
         /\ Puts(ws, h, s, v) # {} =>
               /\ LastOf(Puts(ws, h, s, v)) \in Puts(ws, h, s, v)
               /\ \A m \in Puts(ws, h, s, v) : m <= LastOf(Puts(ws, h, s, v))
<1>1. Puts(ws, h, s, v) \in SUBSET (1 .. Len(ws)) /\ Len(ws) \in Nat
  BY BufferFacts DEF Puts, OwnWrites, ClosingsOf, ReplacesOf
<1> QED
  BY <1>1, LastOfFacts

\* What a Replace closes is a write of the batch before it, or the newest
\* version the history has.
LEMMA SupersededFrom ==
  ASSUME NEW ws \in Seq(WriteRecord), NEW h, NEW s, NEW v, NEW m, NEW x \in Superseded(ws, h, s, v, m)
  PROVE  \/ \E k \in OwnWrites(ws, s, v) : k < m /\ x = ws[k]
         \/ \E i \in DOMAIN h :
               /\ x \in VersionIn(h[i], s, v)
               /\ \A j \in DOMAIN h : j > i => VersionIn(h[j], s, v) = {}
<1> DEFINE own == StagedBefore(ws, s, v, m)
<1>1. CASE own = {}
  <2>1. x \in Newest(h, s, v)
    BY <1>1 DEF Superseded, OpenValue
  <2> QED
    BY <2>1 DEF Newest
<1>2. CASE own # {}
  <2>1. own \in SUBSET (1 .. Len(ws)) /\ Len(ws) \in Nat
    BY BufferFacts DEF StagedBefore, OwnWrites
  <2>2. LastOf(own) \in own
    <3> HIDE DEF own
    <3> QED
      BY <1>2, <2>1, LastOfFacts
  <2>3. x = ws[LastOf(own)]
    BY <1>2 DEF Superseded
  <2> QED
    BY <2>2, <2>3 DEF StagedBefore
<1> QED
  BY <1>1, <1>2

\* A staged version was put by the last of the writes and closings of its
\* quad: a write with its own window, a closing with the start of what it
\* closes.
LEMMA StagedVersion ==
  ASSUME NEW ws \in Seq(WriteRecord), NEW h, NEW q \in Staged(ws, h)
  PROVE  LET ks == Puts(ws, h, q.slot, q.val)
             k == LastOf(ks)
         IN  /\ q.slot \in Slot /\ q.val \in Value
             /\ ks # {} /\ k \in ks /\ k \in DOMAIN ws
             /\ \/ /\ k \in OwnWrites(ws, q.slot, q.val)
                   /\ q = [slot |-> q.slot, val |-> q.val, start |-> ws[k].start, end |-> ws[k].end]
                \/ /\ k \in ClosingsOf(ws, h, q.slot, q.val)
                   /\ \E x \in Superseded(ws, h, q.slot, q.val, k) :
                        q = [slot |-> q.slot, val |-> q.val, start |-> x.start, end |-> ws[k].start]
<1>1. PICK s \in Slot, v \in Value : q \in StagedOf(ws, h, s, v)
  BY DEF Staged
<1> DEFINE ks == Puts(ws, h, s, v)
           k == LastOf(ks)
<1>2. ks # {} /\ q \in WrittenBy(k, ws, h, s, v)
  BY <1>1 DEF StagedOf, Puts
<1>3. k \in ks /\ k \in DOMAIN ws
  BY <1>2, PutsFacts, BufferFacts
<1> HIDE DEF ks, k
<1>4. \/ /\ k \in OwnWrites(ws, s, v)
         /\ q = [slot |-> s, val |-> v, start |-> ws[k].start, end |-> ws[k].end]
      \/ /\ k \in ClosingsOf(ws, h, s, v)
         /\ \E x \in Superseded(ws, h, s, v, k) :
              q = [slot |-> s, val |-> v, start |-> x.start, end |-> ws[k].start]
  <2>1. CASE k \in OwnWrites(ws, s, v)
    BY <1>2, <2>1 DEF WrittenBy
  <2>2. CASE k \notin OwnWrites(ws, s, v)
    <3>1. k \in ClosingsOf(ws, h, s, v)
      BY <1>3, <2>2 DEF ks, Puts
    <3> QED
      BY <1>2, <2>2, <3>1 DEF WrittenBy
  <2> QED
    BY <2>1, <2>2
<1>5. q.slot = s /\ q.val = v
  BY <1>4
<1> QED
  BY <1>2, <1>3, <1>4, <1>5 DEF ks, k

-----------------------------------------------------------------------------
(* Types *)

LEMMA StagedType ==
  ASSUME NEW ws \in Seq(WriteRecord), NEW h \in Seq(Batch)
  PROVE  Staged(ws, h) \in SUBSET Quad
<1> SUFFICES ASSUME NEW q \in Staged(ws, h)
             PROVE  q \in Quad
  OBVIOUS
<1> DEFINE s == q.slot
           v == q.val
           k == LastOf(Puts(ws, h, s, v))
<1>1. s \in Slot /\ v \in Value /\ k \in DOMAIN ws
  BY StagedVersion
<1>2. CASE q = [slot |-> s, val |-> v, start |-> ws[k].start, end |-> ws[k].end]
  <2>1. ws[k].start \in Nat /\ ws[k].end \in Nat
    BY <1>1, BufferFacts
  <2> HIDE DEF s, v, k
  <2> QED
    BY <1>1, <1>2, <2>1 DEF Quad
<1>3. ASSUME NEW x \in Superseded(ws, h, s, v, k),
             q = [slot |-> s, val |-> v, start |-> x.start, end |-> ws[k].start]
      PROVE  q \in Quad
  <2>1. ws[k].start \in Nat
    BY <1>1, BufferFacts
  <2>2. x.start \in Nat
    <3>1. \A i \in DOMAIN h : h[i].quads \in SUBSET Quad
      <4>1. \A i \in DOMAIN h : h[i] \in Batch
        BY ElementOfSeq, LenProperties
      <4> QED
        BY <4>1 DEF Batch
    <3>2. CASE \E i \in OwnWrites(ws, s, v) : x = ws[i]
      BY <3>2, BufferFacts DEF OwnWrites
    <3>3. CASE \E i \in DOMAIN h : x \in VersionIn(h[i], s, v)
      BY <3>1, <3>3 DEF VersionIn, Quad
    <3> QED
      BY <1>3, <3>2, <3>3, SupersededFrom
  <2> HIDE DEF s, v, k
  <2> QED
    BY <1>1, <1>3, <2>1, <2>2 DEF Quad
<1> QED
  BY <1>2, <1>3, StagedVersion

LEMMA VisibleToType ==
  ASSUME TypeOK, NEW ts
  PROVE  VisibleTo(ts) \in SUBSET Nat
<1>1. \A i \in DOMAIN log : log[i] \in Batch
  BY ElementOfSeq, LenProperties DEF TypeOK
<1> QED
  BY <1>1 DEF VisibleTo, Batch

LEMMA InFlightType ==
  ASSUME TypeOK, NEW ts
  PROVE  InFlight(ts) \in Nat
  BY DEF TypeOK, InFlight

\* The batch a commit writes.
LEMMA WrittenType ==
  ASSUME TypeOK, NEW t \in Tx
  PROVE  [by |-> t, tt |-> commitTs[t], quads |-> Staged(buffer[t], log),
          keys |-> {[pred |-> dict[i].pred, id |-> dict[i].id] :
                      i \in {j \in DOMAIN dict : dict[j].pred \in NeededPredicates(t)}}]
           \in Batch
<1>1. \A i \in DOMAIN dict : dict[i] \in DictEntry
  BY ElementOfSeq, LenProperties DEF TypeOK
<1>2. \A i \in DOMAIN dict : [pred |-> dict[i].pred, id |-> dict[i].id] \in PredKey
  BY <1>1 DEF DictEntry, PredKey
<1>3. commitTs[t] \in Nat /\ buffer[t] \in Seq(WriteRecord) /\ log \in Seq(Batch)
  BY DEF TypeOK
<1>4. Staged(buffer[t], log) \in SUBSET Quad
  BY <1>3, StagedType
<1> QED
  BY <1>2, <1>3, <1>4 DEF Batch

LEMMA LastTtType ==
  ASSUME NEW h \in Seq(Batch)
  PROVE  LastTt(h) \in Nat
<1>1. h # <<>> => h[Len(h)] \in Batch
  BY ElementOfSeq, EmptySeq, LenProperties
<1> QED
  BY <1>1 DEF LastTt, Batch

LEMMA LastIdType ==
  ASSUME NEW d \in Seq(DictEntry), d # <<>>
  PROVE  d[Len(d)].id \in Nat
<1>1. d[Len(d)] \in DictEntry
  BY ElementOfSeq, EmptySeq, LenProperties
<1> QED
  BY <1>1 DEF DictEntry

LEMMA TypeStep ==
  ASSUME TypeOK, [Next]_vars
  PROVE  TypeOK'
<1> USE DEF TypeOK
<1>1. CASE Restart
  <2>1. PICK n \in 0 .. Len(log), m \in 0 .. Len(dict) :
           log' = SubSeq(log, 1, n) /\ dict' = SubSeq(dict, 1, m)
    BY <1>1 DEF Restart
  <2>2. log' \in Seq(Batch) /\ dict' \in Seq(DictEntry)
    BY <2>1, PrefixFacts
  <2>3. committed' \in Nat /\ watch' \in Nat /\ nextPred' \in Nat
    <3>1. /\ committed' = LastTt(log')
          /\ watch' = LastTt(log')
          /\ nextPred' = IF dict' = <<>> THEN 1 ELSE dict'[Len(dict')].id + 1
      BY <1>1 DEF Restart, PersistedCounter, PersistedNextPred
    <3>2. LastTt(log') \in Nat
      BY <2>2, LastTtType
    <3>3. dict' # <<>> => dict'[Len(dict')].id \in Nat
      BY <2>2, LastIdType
    <3> QED
      BY <3>1, <3>2, <3>3
  <2>5. /\ holder' = NoTx /\ restarts' = restarts + 1
        /\ UNCHANGED <<readTs, commitTs, buffer, basis, flight>>
    BY <1>1 DEF Restart
  <2>4. phase' \in [Tx -> Phases]
    BY <1>1 DEF Restart, Phases
  <2>6. restarts' \in Nat /\ holder' \in Tx \cup {NoTx}
    BY <2>5
  <2>7. /\ readTs' \in [Tx -> Nat] /\ commitTs' \in [Tx -> Nat]
        /\ buffer' \in [Tx -> Seq(WriteRecord)]
        /\ basis' \in [Tx -> SUBSET Nat] /\ flight' \in [Tx -> Nat]
    BY <2>5
  <2> HIDE DEF TypeOK
  <2> QED
    BY <2>2, <2>3, <2>4, <2>6, <2>7 DEF TypeOK
<1>2. ASSUME NEW t \in Tx, NEW ts \in Nat, Open(t, ts)
      PROVE  TypeOK'
  <2>1. VisibleTo(ts) \in SUBSET Nat /\ InFlight(ts) \in Nat
    BY VisibleToType, InFlightType
  <2> QED
    BY <1>2, <2>1 DEF Open, Phases, diskVars
<1>3. ASSUME NEW t \in Tx, NEW w \in Writes, Insert(t, w)
      PROVE  TypeOK'
  <2>1. w \in WriteRecord
    BY WritesType
  <2>2. Append(buffer[t], w) \in Seq(WriteRecord)
    BY <2>1
  <2> QED
    BY <1>3, <2>2 DEF Insert, diskVars
<1>4. ASSUME NEW t \in Tx, Rollback(t) \/ CallCommit(t)
      PROVE  TypeOK'
  BY <1>4 DEF Rollback, CallCommit, EndTx, Phases, diskVars
<1>5. ASSUME NEW t \in Tx, BeginCommit(t)
      PROVE  TypeOK'
  <2>1. PICK wall \in 0 .. MaxWall :
          /\ committed' = NextTs(wall)
          /\ commitTs' = [commitTs EXCEPT ![t] = NextTs(wall)]
    BY <1>5 DEF BeginCommit
  <2>2. NextTs(wall) \in Nat
    BY DEF NextTs
  <2> QED
    BY <1>5, <2>1, <2>2 DEF BeginCommit, Phases, diskVars
<1>6. ASSUME NEW t \in Tx, RejectConflict(t) \/ InternFails(t) \/ CommitFails(t)
      PROVE  TypeOK'
  <2>1. Release(t, "aborted") /\ UNCHANGED dict /\ nextPred' \in Nat
    BY <1>6 DEF RejectConflict, InternFails, CommitFails
  <2> QED
    BY <2>1 DEF Release, EndTx, Phases
<1>7. ASSUME NEW t \in Tx, NEW p \in Predicate, Intern(t, p)
      PROVE  TypeOK'
  <2>1. [pred |-> p, id |-> nextPred, pos |-> Len(log)] \in DictEntry
    BY LenProperties DEF DictEntry
  <2>2. dict' \in Seq(DictEntry)
    BY <1>7, <2>1 DEF Intern
  <2> QED
    BY <1>7, <2>2 DEF Intern, txVars
<1>8. ASSUME NEW t \in Tx, WriteBatch(t)
      PROVE  TypeOK'
  <2>1. log' \in Seq(Batch)
    BY <1>8, WrittenType, AppendFacts DEF WriteBatch
  <2> QED
    BY <1>8, <2>1 DEF WriteBatch, EndTx, Phases
<1>9. ASSUME NEW t \in Tx, FinishCommit(t)
      PROVE  TypeOK'
  BY <1>9 DEF FinishCommit, EndTx, Phases, diskVars
<1>10. CASE UNCHANGED vars
  BY <1>10 DEF vars, txVars, diskVars
<1>11. \A t \in Tx : Begin(t) \/ BeginAt(t) => \E ts \in Nat : Open(t, ts)
  BY DEF Begin, BeginAt
<1> QED
  BY <1>1, <1>2, <1>3, <1>4, <1>5, <1>6, <1>7, <1>8, <1>9, <1>10, <1>11
     DEF Next, Client, Committing, Failing

\* Every reachable state is well typed: buffers and logs are sequences of
\* writes and batches, the counters a restart reads back are numbers.
THEOREM TypeInvariant == Spec => []TypeOK
<1>1. Init => TypeOK
  BY DEF Init, TypeOK, Phases
<1>2. TypeOK /\ [Next]_vars => TypeOK'
  BY TypeStep
<1> QED
  BY <1>1, <1>2, PTL DEF Spec

-----------------------------------------------------------------------------
(* The commit protocol *)

LEMMA LogTypes ==
  ASSUME TypeOK
  PROVE  /\ DOMAIN log = 1 .. Len(log) /\ Len(log) \in Nat
         /\ \A i \in DOMAIN log : log[i] \in Batch /\ log[i].by \in Tx /\ log[i].tt \in Nat
<1>1. \A i \in DOMAIN log : log[i] \in Batch
  BY ElementOfSeq, LenProperties DEF TypeOK
<1> QED
  BY <1>1, LenProperties DEF TypeOK, Batch

\* A step that leaves the log and the transactions in it alone keeps what the
\* log says about them.
LEMMA LogUntouched ==
  ASSUME TypeOK, CommitInv, log' = log,
         \A u \in Tx : phase[u] \in HasWritten =>
            /\ phase'[u] \in HasWritten
            /\ buffer'[u] = buffer[u] /\ readTs'[u] = readTs[u]
            /\ basis'[u] = basis[u] /\ flight'[u] = flight[u]
  PROVE  WritersAreDone' /\ FirstCommitterWins' /\ NoLostUpdateWhenSettled'
<1> USE LogTypes
<1>1. \A i \in DOMAIN log :
         LET u == log[i].by
         IN  /\ phase'[u] \in HasWritten
             /\ buffer'[u] = buffer[u] /\ readTs'[u] = readTs[u]
             /\ basis'[u] = basis[u] /\ flight'[u] = flight[u]
  BY DEF CommitInv, WritersAreDone
<1>2. WritersAreDone'
  BY <1>1 DEF WritersAreDone
<1>3. FirstCommitterWins'
  BY <1>1 DEF CommitInv, FirstCommitterWins
<1>4. NoLostUpdateWhenSettled'
  BY <1>1 DEF CommitInv, NoLostUpdateWhenSettled
<1> QED
  BY <1>2, <1>3, <1>4

\* begin and begin_at
LEMMA OpenKeeps ==
  ASSUME TypeOK, CommitInv, NEW t \in Tx, NEW ts \in 0 .. committed, Open(t, ts)
  PROVE  CommitInv'
<1>1. /\ phase[t] = "idle" /\ phase' = [phase EXCEPT ![t] = "open"]
      /\ readTs' = [readTs EXCEPT ![t] = ts]
      /\ basis' = [basis EXCEPT ![t] = VisibleTo(ts)]
      /\ flight' = [flight EXCEPT ![t] = InFlight(ts)]
      /\ UNCHANGED <<committed, holder, watch, log, dict, nextPred, commitTs, buffer>>
  BY DEF Open, diskVars
<1>2. /\ phase \in [Tx -> Phases] /\ readTs \in [Tx -> Nat] /\ commitTs \in [Tx -> Nat]
      /\ basis \in [Tx -> SUBSET Nat] /\ flight \in [Tx -> Nat]
      /\ committed \in Nat /\ holder \in Tx \cup {NoTx}
  BY DEF TypeOK
<1>3. /\ phase'[t] = "open" /\ readTs'[t] = ts
      /\ basis'[t] = VisibleTo(ts) /\ flight'[t] = InFlight(ts)
      /\ \A u \in Tx : u # t =>
            /\ phase'[u] = phase[u] /\ readTs'[u] = readTs[u]
            /\ basis'[u] = basis[u] /\ flight'[u] = flight[u]
  BY <1>1, <1>2
<1>4. WritersAreDone' /\ FirstCommitterWins' /\ NoLostUpdateWhenSettled'
  BY <1>1, <1>3, LogUntouched DEF HasWritten
<1>5. LockHeld'
  BY <1>1, <1>3 DEF CommitInv, LockHeld, HoldsLock
<1>6. StampPublished'
  BY <1>1, <1>3 DEF CommitInv, StampPublished
<1>7. \A u \in Tx : phase[u] = "locked" /\ commitTs[u] <= ts => commitTs[u] = InFlight(ts)
  BY NoTxFresh DEF CommitInv, LockHeld, HoldsLock, InFlight
<1>8. SnapshotsHeld'
  <2>1. SnapshotHeld(t)'
    <3>1. VisibleTo(readTs[t])' = VisibleTo(ts)
      BY <1>1, <1>3 DEF VisibleTo
    <3> QED
      BY <1>1, <1>2, <1>3, <1>7, <3>1 DEF SnapshotHeld
  <2>2. ASSUME NEW v \in Tx, v # t
        PROVE  SnapshotHeld(v)'
    <3>1. VisibleTo(readTs[v])' = VisibleTo(readTs[v])
      BY <1>1, <1>3, <2>2 DEF VisibleTo
    <3>2. Live(v)' => Live(v)
      BY <1>3, <2>2 DEF Live
    <3>3. \A u \in Tx : phase'[u] = "locked" => phase[u] = "locked" /\ commitTs'[u] = commitTs[u]
      BY <1>1, <1>3
    <3> QED
      BY <1>1, <1>3, <2>2, <3>1, <3>2, <3>3 DEF CommitInv, SnapshotsHeld, SnapshotHeld
  <2> QED
    BY <2>1, <2>2 DEF SnapshotsHeld
<1>9. TimestampsOrdered'
  BY <1>1, <1>3 DEF CommitInv, TimestampsOrdered
<1>10. WatchShowsWritten'
  BY <1>1 DEF CommitInv, WatchShowsWritten
<1> QED
  BY <1>4, <1>5, <1>6, <1>8, <1>9, <1>10 DEF CommitInv

\* A step that publishes no timestamp, writes no batch and opens no
\* transaction.
LEMMA QuietStep ==
  ASSUME TypeOK, CommitInv,
         UNCHANGED <<log, committed, readTs, commitTs, basis, flight>>,
         LockHeld', WatchShowsWritten',
         \A u \in Tx :
            /\ phase[u] \in HasWritten => phase'[u] \in HasWritten /\ buffer'[u] = buffer[u]
            /\ Live(u)' => Live(u)
            /\ phase'[u] = "locked" => phase[u] = "locked"
            /\ phase'[u] = "written" => phase[u] = "written"
  PROVE  CommitInv'
<1>1. WritersAreDone' /\ FirstCommitterWins' /\ NoLostUpdateWhenSettled'
  BY LogUntouched
<1>2. StampPublished'
  BY DEF CommitInv, StampPublished
<1>3. SnapshotsHeld'
  <2>1. \A v \in Tx : VisibleTo(readTs[v])' = VisibleTo(readTs[v])
    BY DEF VisibleTo
  <2> QED
    BY <2>1 DEF CommitInv, SnapshotsHeld, SnapshotHeld
<1>4. TimestampsOrdered'
  BY DEF CommitInv, TimestampsOrdered
<1> QED
  BY <1>1, <1>2, <1>3, <1>4 DEF CommitInv

LEMMA ClientKeeps ==
  ASSUME TypeOK, CommitInv, NEW t \in Tx, Client(t)
  PROVE  CommitInv'
<1>1. CASE Begin(t) \/ BeginAt(t)
  <2>1. committed \in 0 .. committed
    BY DEF TypeOK
  <2>2. \E ts \in 0 .. committed : Open(t, ts)
    BY <1>1, <2>1 DEF Begin, BeginAt
  <2> QED
    BY <2>2, OpenKeeps
<1>2. ASSUME Rollback(t) \/ CallCommit(t) \/ \E w \in Writes : Insert(t, w)
      PROVE  CommitInv'
  <2>1. /\ UNCHANGED <<log, committed, watch, holder, readTs, commitTs, basis, flight>>
        /\ phase[t] = "open"
        /\ phase' = phase \/ \E p \in {"aborted", "committed", "waiting"} :
                                phase' = [phase EXCEPT ![t] = p]
        /\ buffer' = buffer \/ \E b \in Seq(WriteRecord) : buffer' = [buffer EXCEPT ![t] = b]
    <3>1. CASE Rollback(t) \/ CallCommit(t)
      BY <3>1 DEF Rollback, CallCommit, EndTx, diskVars
    <3>2. ASSUME NEW w \in Writes, Insert(t, w)
          PROVE  /\ UNCHANGED <<log, committed, watch, holder, readTs, commitTs, basis, flight, phase>>
                 /\ phase[t] = "open"
                 /\ \E b \in Seq(WriteRecord) : buffer' = [buffer EXCEPT ![t] = b]
      <4>1. Append(buffer[t], w) \in Seq(WriteRecord)
        BY WritesType, AppendFacts DEF TypeOK
      <4> QED
        BY <3>2, <4>1 DEF Insert, diskVars
    <3> QED
      BY <1>2, <3>1, <3>2
  <2>2. phase \in [Tx -> Phases] /\ buffer \in [Tx -> Seq(WriteRecord)]
    BY DEF TypeOK
  <2>3. phase'[t] \in {"open", "aborted", "committed", "waiting"}
    BY <2>1, <2>2
  <2>4. \A u \in Tx : u # t => phase'[u] = phase[u] /\ buffer'[u] = buffer[u]
    BY <2>1, <2>2
  <2>5. LockHeld'
    BY <2>1, <2>3, <2>4 DEF CommitInv, LockHeld, HoldsLock
  <2>6. WatchShowsWritten'
    BY <2>1 DEF CommitInv, WatchShowsWritten
  <2> QED
    BY <2>1, <2>3, <2>4, <2>5, <2>6, QuietStep DEF HasWritten, Live
<1> QED
  BY <1>1, <1>2 DEF Client

\* RejectConflict, InternFails and CommitFails
LEMMA ReleaseKeeps ==
  ASSUME TypeOK, CommitInv, NEW t \in Tx, phase[t] = "locked", Release(t, "aborted")
  PROVE  CommitInv'
<1>1. /\ UNCHANGED <<log, committed, watch, readTs, commitTs, buffer, basis, flight>>
      /\ phase' = [phase EXCEPT ![t] = "aborted"] /\ holder' = NoTx
  BY DEF Release, EndTx
<1>2. phase'[t] = "aborted" /\ \A u \in Tx : u # t => phase'[u] = phase[u]
  BY <1>1 DEF TypeOK
<1>3. LockHeld'
  BY <1>1, <1>2, NoTxFresh DEF CommitInv, LockHeld, HoldsLock
<1>4. WatchShowsWritten'
  BY <1>1 DEF CommitInv, WatchShowsWritten
<1> QED
  BY <1>1, <1>2, <1>3, <1>4, QuietStep DEF HasWritten, Live

LEMMA FinishKeeps ==
  ASSUME TypeOK, CommitInv, NEW t \in Tx, FinishCommit(t)
  PROVE  CommitInv'
<1>1. /\ UNCHANGED <<log, committed, readTs, commitTs, buffer, basis, flight>>
      /\ phase' = [phase EXCEPT ![t] = "committed"] /\ holder' = NoTx
      /\ phase[t] = "written"
      /\ watch' = IF commitTs[t] > watch THEN commitTs[t] ELSE watch
  BY DEF FinishCommit, EndTx, diskVars
<1>2. phase'[t] = "committed" /\ \A u \in Tx : u # t => phase'[u] = phase[u]
  BY <1>1 DEF TypeOK
<1>3. LockHeld'
  BY <1>1, <1>2, NoTxFresh DEF CommitInv, LockHeld, HoldsLock
<1>4. \E i \in DOMAIN log : log[i].tt = commitTs[t]
  BY <1>1 DEF CommitInv, StampPublished
<1>5. WatchShowsWritten'
  BY <1>1, <1>4 DEF CommitInv, WatchShowsWritten
<1> QED
  BY <1>1, <1>2, <1>3, <1>5, QuietStep DEF HasWritten, Live

LEMMA InternKeeps ==
  ASSUME TypeOK, CommitInv, UNCHANGED <<committed, holder, watch, log, txVars>>
  PROVE  CommitInv'
<1>1. LockHeld' /\ WatchShowsWritten'
  BY DEF CommitInv, LockHeld, WatchShowsWritten, txVars
<1> QED
  BY <1>1, QuietStep DEF txVars, Live

LEMMA BeginCommitKeeps ==
  ASSUME TypeOK, CommitInv, NEW t \in Tx, BeginCommit(t)
  PROVE  CommitInv'
<1> DEFINE new == commitTs'[t]
<1>1. /\ UNCHANGED <<log, watch, readTs, buffer, basis, flight>>
      /\ phase[t] = "waiting" /\ holder = NoTx
      /\ phase' = [phase EXCEPT ![t] = "locked"] /\ holder' = t
  BY DEF BeginCommit, diskVars
<1>2. /\ committed' = new /\ new > committed /\ 0 < new /\ new \in Nat
      /\ \A u \in Tx : u # t => commitTs'[u] = commitTs[u]
  BY DEF BeginCommit, NextTs, TypeOK
<1>3. phase'[t] = "locked" /\ \A u \in Tx : u # t => phase'[u] = phase[u]
  BY <1>1 DEF TypeOK
<1>4. \A u \in Tx : phase[u] \notin HoldsLock
  BY <1>1, NoTxFresh DEF CommitInv, LockHeld
<1>5. LockHeld'
  BY <1>1, <1>3, <1>4 DEF LockHeld, HoldsLock
<1>6. StampPublished'
  <2>1. 0 < commitTs'[t] /\ commitTs'[t] <= committed'
    BY <1>2
  <2>2. \A u \in Tx : u # t => phase'[u] \notin {"locked", "written"}
    BY <1>3, <1>4 DEF HoldsLock
  <2> QED
    BY <1>3, <2>1, <2>2 DEF StampPublished
<1>7. WritersAreDone' /\ FirstCommitterWins' /\ NoLostUpdateWhenSettled'
  BY <1>1, <1>3, LogUntouched DEF HasWritten
<1>8. SnapshotsHeld'
  <2>1. ASSUME NEW v \in Tx, Live(v)'
        PROVE  SnapshotHeld(v)'
    <3>1. VisibleTo(readTs[v])' = VisibleTo(readTs[v])
      BY <1>1 DEF VisibleTo
    <3>2. Live(v)
      BY <1>1, <1>3, <2>1 DEF Live
    <3>3. \A u \in Tx : phase'[u] = "locked" => u = t
      BY <1>3, <1>4 DEF HoldsLock
    <3>4. readTs[v] \in Nat /\ committed \in Nat
      BY DEF TypeOK
    <3>5. /\ readTs[v] <= committed
          /\ basis[v] \subseteq VisibleTo(readTs[v])
          /\ VisibleTo(readTs[v]) \subseteq basis[v] \cup {flight[v]}
      BY <3>2 DEF CommitInv, SnapshotsHeld, SnapshotHeld
    <3>6. /\ readTs'[v] <= committed'
          /\ basis'[v] \subseteq VisibleTo(readTs[v])'
          /\ VisibleTo(readTs[v])' \subseteq basis'[v] \cup {flight'[v]}
      BY <1>1, <1>2, <3>1, <3>4, <3>5
    <3>7. \A u \in Tx : phase'[u] = "locked" => ~(commitTs'[u] <= readTs'[v])
      BY <1>1, <1>2, <3>3, <3>4, <3>5
    <3> QED
      BY <3>6, <3>7 DEF SnapshotHeld
  <2> QED
    BY <2>1 DEF SnapshotsHeld, SnapshotHeld
<1>9. TimestampsOrdered'
  <2>1. \A i \in DOMAIN log : 0 < log[i].tt /\ log[i].tt < new
    <3>1. \A i \in DOMAIN log : 0 < log[i].tt /\ log[i].tt <= committed
      BY DEF CommitInv, TimestampsOrdered
    <3>2. committed \in Nat /\ \A i \in DOMAIN log : log[i].tt \in Nat
      BY LogTypes DEF TypeOK
    <3> QED
      BY <1>2, <3>1, <3>2
  <2>2. \A u \in Tx : phase'[u] = "locked" => u = t
    BY <1>3, <1>4 DEF HoldsLock
  <2> QED
    BY <1>1, <1>2, <2>1, <2>2, LogTypes DEF CommitInv, TimestampsOrdered
<1>10. WatchShowsWritten'
  BY <1>1 DEF CommitInv, WatchShowsWritten
<1> QED
  BY <1>5, <1>6, <1>7, <1>8, <1>9, <1>10 DEF CommitInv

LEMMA WriteBatchKeeps ==
  ASSUME TypeOK, CommitInv, NEW t \in Tx, WriteBatch(t)
  PROVE  CommitInv'
<1> DEFINE last == Len(log) + 1
<1>1. /\ UNCHANGED <<committed, holder, watch, readTs, commitTs, buffer, basis, flight>>
      /\ phase[t] = "locked" /\ ~Conflicts(t)
      /\ phase' = [phase EXCEPT ![t] = "written"]
  BY DEF WriteBatch, EndTx
<1>2. /\ DOMAIN log = 1 .. Len(log) /\ DOMAIN log' = 1 .. last /\ Len(log) \in Nat
      /\ \A i \in DOMAIN log : log'[i] = log[i]
      /\ log'[last].by = t /\ log'[last].tt = commitTs[t]
  BY WrittenType, AppendFacts, LogTypes DEF WriteBatch, TypeOK
<1>3. phase'[t] = "written" /\ \A u \in Tx : u # t => phase'[u] = phase[u]
  BY <1>1 DEF TypeOK
<1>4. \A u \in Tx : phase[u] \in HoldsLock => u = t
  BY <1>1 DEF CommitInv, LockHeld, HoldsLock
<1>5. \A i \in DOMAIN log : log[i].tt \in Nat /\ log[i].tt < commitTs[t]
  BY <1>1, LogTypes DEF CommitInv, TimestampsOrdered
<1>6. LockHeld'
  BY <1>1, <1>3 DEF CommitInv, LockHeld, HoldsLock
<1>7. StampPublished'
  BY <1>1, <1>2, <1>3, <1>4 DEF StampPublished, HoldsLock
<1>8. \A i \in DOMAIN log : log[i].by \in Tx /\ log[i].by # t /\ phase[log[i].by] \in HasWritten
  BY <1>1, LogTypes DEF CommitInv, WritersAreDone, HasWritten
<1>9. WritersAreDone'
  BY <1>2, <1>3, <1>8 DEF WritersAreDone, HasWritten
<1>10. \A i \in DOMAIN log :
          Overlaps(buffer[t], log[i].quads) => log[i].tt <= readTs[t]
  <2>1. readTs[t] \in Nat /\ commitTs[t] \in Nat
    BY DEF TypeOK
  <2> QED
    BY <1>1, <1>5, <2>1 DEF Conflicts
<1>11. FirstCommitterWins'
  <2> SUFFICES ASSUME NEW i \in DOMAIN log', NEW j \in DOMAIN log', i < j,
                      Overlaps(buffer'[log'[j].by], log'[i].quads)
               PROVE  log'[i].tt <= readTs'[log'[j].by]
    BY DEF FirstCommitterWins
  <2>1. i \in DOMAIN log
    BY <1>2
  <2>2. CASE j = last
    BY <1>1, <1>2, <1>10, <2>1, <2>2
  <2>3. CASE j \in DOMAIN log
    BY <1>1, <1>2, <2>1, <2>3 DEF CommitInv, FirstCommitterWins
  <2> QED
    BY <1>2, <2>2, <2>3
<1>12. NoLostUpdateWhenSettled'
  <2> SUFFICES ASSUME NEW i \in DOMAIN log', NEW j \in DOMAIN log', i < j,
                      Overlaps(buffer'[log'[j].by], log'[i].quads)
               PROVE  log'[i].tt \in basis'[log'[j].by] \cup {flight'[log'[j].by]}
    BY DEF NoLostUpdateWhenSettled
  <2>1. i \in DOMAIN log
    BY <1>2
  <2>2. CASE j = last
    <3>1. log[i].tt <= readTs[t]
      BY <1>1, <1>2, <1>10, <2>1, <2>2
    <3>2. log[i].tt \in VisibleTo(readTs[t])
      BY <2>1, <3>1 DEF VisibleTo
    <3>3. VisibleTo(readTs[t]) \subseteq basis[t] \cup {flight[t]}
      BY <1>1 DEF CommitInv, SnapshotsHeld, SnapshotHeld, Live
    <3> QED
      BY <1>1, <1>2, <2>1, <2>2, <3>2, <3>3
  <2>3. CASE j \in DOMAIN log
    BY <1>1, <1>2, <2>1, <2>3 DEF CommitInv, NoLostUpdateWhenSettled
  <2> QED
    BY <1>2, <2>2, <2>3
<1>13. SnapshotsHeld'
  <2> SUFFICES ASSUME NEW v \in Tx, Live(v)'
               PROVE  SnapshotHeld(v)'
    BY DEF SnapshotsHeld, SnapshotHeld
  <2>1. v # t /\ Live(v)
    BY <1>3 DEF Live
  <2>2. /\ readTs[v] <= committed
        /\ basis[v] \subseteq VisibleTo(readTs[v])
        /\ VisibleTo(readTs[v]) \subseteq basis[v] \cup {flight[v]}
        /\ commitTs[t] <= readTs[v] => commitTs[t] = flight[v]
    BY <1>1, <2>1 DEF CommitInv, SnapshotsHeld, SnapshotHeld
  <2>3. VisibleTo(readTs[v]) \subseteq VisibleTo(readTs[v])'
    BY <1>1, <1>2 DEF VisibleTo
  <2>4. VisibleTo(readTs[v])' \subseteq
          VisibleTo(readTs[v]) \cup (IF commitTs[t] <= readTs[v] THEN {commitTs[t]} ELSE {})
    <3> SUFFICES ASSUME NEW i \in DOMAIN log', log'[i].tt <= readTs[v]
                 PROVE  log'[i].tt \in VisibleTo(readTs[v])
                          \cup (IF commitTs[t] <= readTs[v] THEN {commitTs[t]} ELSE {})
      BY <1>1 DEF VisibleTo
    <3>1. CASE i = last
      BY <1>2, <3>1
    <3>2. CASE i \in DOMAIN log
      BY <1>2, <3>2 DEF VisibleTo
    <3> QED
      BY <1>2, <3>1, <3>2
  <2>5. \A u \in Tx : phase'[u] # "locked"
    BY <1>3, <1>4 DEF HoldsLock
  <2> QED
    BY <1>1, <2>2, <2>3, <2>4, <2>5 DEF SnapshotHeld
<1>14. TimestampsOrdered'
  <2>1. commitTs[t] <= committed /\ commitTs[t] \in Nat /\ committed \in Nat
    BY <1>1 DEF CommitInv, StampPublished, TypeOK
  <2>2. \A i \in DOMAIN log : 0 < log[i].tt
    BY DEF CommitInv, TimestampsOrdered
  <2>3. 0 < commitTs[t]
    BY <1>1 DEF CommitInv, StampPublished
  <2>4. \A i, j \in DOMAIN log' : i < j => log'[i].tt < log'[j].tt
    BY <1>2, <1>5 DEF CommitInv, TimestampsOrdered
  <2>5. \A i \in DOMAIN log' : 0 < log'[i].tt /\ log'[i].tt <= committed'
    BY <1>1, <1>2, <1>5, <2>1, <2>2, <2>3
  <2>6. \A u \in Tx : phase'[u] # "locked"
    BY <1>3, <1>4 DEF HoldsLock
  <2> QED
    BY <2>4, <2>5, <2>6 DEF TimestampsOrdered
<1>15. WatchShowsWritten'
  BY <1>1, <1>2 DEF CommitInv, WatchShowsWritten
<1> QED
  BY <1>6, <1>7, <1>9, <1>11, <1>12, <1>13, <1>14, <1>15 DEF CommitInv

LEMMA RestartKeeps ==
  ASSUME TypeOK, CommitInv, Restart
  PROVE  CommitInv'
<1>1. PICK n \in 0 .. Len(log) : log' = SubSeq(log, 1, n)
  BY DEF Restart
<1>2. /\ holder' = NoTx /\ committed' = LastTt(log') /\ watch' = LastTt(log')
      /\ UNCHANGED <<readTs, commitTs, buffer, basis, flight>>
  BY DEF Restart, PersistedCounter
<1>3. phase' = [t \in Tx |-> IF phase[t] \in {"idle", "committed", "aborted"}
                             THEN phase[t] ELSE "dead"]
  BY DEF Restart
<1>4. \A t \in Tx : /\ phase'[t] \in {"idle", "committed", "aborted", "dead"}
                    /\ phase[t] \in HasWritten => phase'[t] \in HasWritten
  BY <1>3 DEF HasWritten
<1>5. /\ log' \in Seq(Batch) /\ DOMAIN log' = 1 .. n /\ Len(log') = n
      /\ \A i \in DOMAIN log' : i \in DOMAIN log /\ log'[i] = log[i]
  BY <1>1, PrefixFacts DEF TypeOK
<1>6. LockHeld'
  BY <1>2, <1>4, NoTxFresh DEF LockHeld, HoldsLock
<1>7. StampPublished' /\ SnapshotsHeld'
  BY <1>4 DEF StampPublished, SnapshotsHeld, SnapshotHeld, Live
<1>8. WritersAreDone'
  BY <1>4, <1>5, LogTypes DEF CommitInv, WritersAreDone
<1>9. FirstCommitterWins'
  BY <1>2, <1>5 DEF CommitInv, FirstCommitterWins
<1>10. NoLostUpdateWhenSettled'
  BY <1>2, <1>5 DEF CommitInv, NoLostUpdateWhenSettled
<1>11. n > 0 => LastTt(log') = log'[n].tt /\ n \in DOMAIN log'
  BY <1>5, EmptySeq DEF LastTt
<1>12. n = 0 => LastTt(log') = 0
  BY <1>5, EmptySeq DEF LastTt
<1>13. TimestampsOrdered'
  <2>1. \A i, j \in DOMAIN log' : i < j => log'[i].tt < log'[j].tt
    BY <1>5 DEF CommitInv, TimestampsOrdered
  <2>2. \A i \in DOMAIN log' : log'[i].tt \in Nat /\ 0 < log'[i].tt
    BY <1>5, LogTypes DEF CommitInv, TimestampsOrdered
  <2>3. \A i \in DOMAIN log' : log'[i].tt <= committed'
    BY <1>2, <1>5, <1>11, <2>1, <2>2
  <2> QED
    BY <1>4, <2>1, <2>2, <2>3 DEF TimestampsOrdered
<1>14. WatchShowsWritten'
  BY <1>2, <1>5, <1>11, <1>12 DEF WatchShowsWritten
<1> QED
  BY <1>6, <1>7, <1>8, <1>9, <1>10, <1>13, <1>14 DEF CommitInv

LEMMA CommitInvStep ==
  ASSUME TypeOK, CommitInv, [Next]_vars
  PROVE  CommitInv'
<1>1. CASE Restart
  BY <1>1, RestartKeeps
<1>2. ASSUME NEW t \in Tx, Client(t)
      PROVE  CommitInv'
  BY <1>2, ClientKeeps
<1>3. ASSUME NEW t \in Tx, Committing(t)
      PROVE  CommitInv'
  <2>1. CASE BeginCommit(t)
    BY <2>1, BeginCommitKeeps
  <2>2. CASE RejectConflict(t)
    BY <2>2, ReleaseKeeps DEF RejectConflict
  <2>3. ASSUME NEW p \in Predicate, Intern(t, p)
        PROVE  CommitInv'
    BY <2>3, InternKeeps DEF Intern
  <2>4. CASE WriteBatch(t)
    BY <2>4, WriteBatchKeeps
  <2>5. CASE FinishCommit(t)
    BY <2>5, FinishKeeps
  <2> QED
    BY <1>3, <2>1, <2>2, <2>3, <2>4, <2>5 DEF Committing
<1>4. ASSUME NEW t \in Tx, Failing(t)
      PROVE  CommitInv'
  BY <1>4, ReleaseKeeps DEF Failing, InternFails, CommitFails
<1>5. CASE UNCHANGED vars
  <2>1. UNCHANGED <<committed, holder, watch, log, txVars>>
    BY <1>5 DEF vars, diskVars
  <2> QED
    BY <2>1, InternKeeps
<1> QED
  BY <1>1, <1>2, <1>3, <1>4, <1>5 DEF Next

\* The protocol invariant holds in every reachable state: the commit lock,
\* the published timestamp and the snapshots of live transactions stay in
\* step through every commit, failure and restart.
THEOREM CommitProtocol == Spec => []CommitInv
<1>1. Init => TypeOK /\ CommitInv
  <2>1. Init => TypeOK
    BY DEF Init, TypeOK, Phases
  <2>2. Init => CommitInv
    BY NoTxFresh
       DEF Init, CommitInv, LockHeld, HoldsLock, StampPublished, WritersAreDone,
           SnapshotsHeld, SnapshotHeld, Live, TimestampsOrdered, FirstCommitterWins,
           NoLostUpdateWhenSettled, WatchShowsWritten
  <2> QED
    BY <2>1, <2>2
<1>2. TypeOK /\ CommitInv /\ [Next]_vars => (TypeOK /\ CommitInv)'
  BY TypeStep, CommitInvStep
<1> QED
  BY <1>1, <1>2, PTL DEF Spec

\* Timestamps are unique, grow in the order batches reach the disk and stay
\* ahead of every stored one (begin_commit, load_oracle_ts).
THEOREM TimestampsAreOrdered == Spec => []TimestampsOrdered
<1>1. CommitInv => TimestampsOrdered
  BY DEF CommitInv
<1> QED
  BY <1>1, CommitProtocol, PTL

\* Of two stored commits that write the same thing, the later one read the
\* earlier one's timestamp (check_conflict).
THEOREM FirstCommitterAlwaysWins == Spec => []FirstCommitterWins
<1>1. CommitInv => FirstCommitterWins
  BY DEF CommitInv
<1> QED
  BY <1>1, CommitProtocol, PTL

\* A snapshot begun while no commit was in flight never changes (Snapshot).
THEOREM SettledSnapshotsAlwaysRepeat == Spec => []SettledSnapshotsRepeat
<1>1. TypeOK /\ CommitInv => SettledSnapshotsRepeat
  <2> SUFFICES ASSUME TypeOK, CommitInv, NEW t \in Tx, Live(t), flight[t] = 0
               PROVE  VisibleTo(readTs[t]) = basis[t]
    BY DEF SettledSnapshotsRepeat
  <2>1. /\ basis[t] \subseteq VisibleTo(readTs[t])
        /\ VisibleTo(readTs[t]) \subseteq basis[t] \cup {0}
    BY DEF CommitInv, SnapshotsHeld, SnapshotHeld
  <2>2. 0 \notin VisibleTo(readTs[t])
    BY DEF VisibleTo, CommitInv, TimestampsOrdered
  <2> QED
    BY <2>1, <2>2
<1> QED
  BY <1>1, TypeInvariant, CommitProtocol, PTL

\* A stored commit overwrote nothing its transaction was not shown, but for
\* at most the one commit that was in flight when it began.
THEOREM SettledUpdatesAreNeverLost == Spec => []NoLostUpdateWhenSettled
<1>1. CommitInv => NoLostUpdateWhenSettled
  BY DEF CommitInv
<1> QED
  BY <1>1, CommitProtocol, PTL

\* A commit announced on the watch channel is in the store (notify_commit).
THEOREM WatchNamesWrittenCommits == Spec => []WatchShowsWritten
<1>1. CommitInv => WatchShowsWritten
  BY DEF CommitInv
<1> QED
  BY <1>1, CommitProtocol, PTL

-----------------------------------------------------------------------------
(* The predicate dictionary *)

LEMMA DictTypes ==
  ASSUME TypeOK
  PROVE  /\ DOMAIN dict = 1 .. Len(dict) /\ Len(dict) \in Nat
         /\ \A i \in DOMAIN dict : /\ dict[i] \in DictEntry
                                   /\ dict[i].id \in Nat /\ dict[i].pos \in Nat
<1>1. \A i \in DOMAIN dict : dict[i] \in DictEntry
  BY ElementOfSeq, LenProperties DEF TypeOK
<1> QED
  BY <1>1, LenProperties DEF TypeOK, DictEntry

LEMMA StagedSlots ==
  ASSUME NEW ws \in Seq(WriteRecord), NEW h, NEW q \in Staged(ws, h)
  PROVE  \E k \in DOMAIN ws : ws[k].slot = q.slot
<1> DEFINE k == LastOf(Puts(ws, h, q.slot, q.val))
<1>1. k \in OwnWrites(ws, q.slot, q.val) \/ k \in ClosingsOf(ws, h, q.slot, q.val)
  BY StagedVersion
<1> HIDE DEF k
<1> QED
  BY <1>1 DEF OwnWrites, ClosingsOf, ReplacesOf

LEMMA DictStep ==
  ASSUME TypeOK, DictInv, [Next]_vars
  PROVE  DictInv'
<1> USE LogTypes, DictTypes
<1>1. CASE Restart
  <2>1. PICK n \in 0 .. Len(log), m \in 0 .. Len(dict) :
           CutAt(n, m) /\ log' = SubSeq(log, 1, n) /\ dict' = SubSeq(dict, 1, m)
    BY <1>1 DEF Restart
  <2>2. /\ log' \in Seq(Batch) /\ DOMAIN log' = 1 .. n /\ Len(log') = n
        /\ \A i \in DOMAIN log' : i \in DOMAIN log /\ log'[i] = log[i]
    BY <2>1, PrefixFacts DEF TypeOK
  <2>3. /\ dict' \in Seq(DictEntry) /\ DOMAIN dict' = 1 .. m /\ Len(dict') = m
        /\ \A i \in DOMAIN dict' : i \in DOMAIN dict /\ dict'[i] = dict[i]
    <3>1. dict \in Seq(DictEntry)
      BY DEF TypeOK
    <3>2. /\ SubSeq(dict, 1, m) \in Seq(DictEntry) /\ DOMAIN SubSeq(dict, 1, m) = 1 .. m
          /\ Len(SubSeq(dict, 1, m)) = m
          /\ \A i \in 1 .. m : i \in DOMAIN dict /\ SubSeq(dict, 1, m)[i] = dict[i]
      BY <3>1, PrefixFacts
    <3> QED
      BY <2>1, <3>2
  <2>4. \A i \in DOMAIN dict : /\ dict[i].pos < n => i \in DOMAIN dict'
                               /\ i \in DOMAIN dict' => dict[i].pos <= n
    BY <2>1, <2>3 DEF CutAt
  <2>5. nextPred' = IF dict' = <<>> THEN 1 ELSE dict'[m].id + 1
    BY <1>1, <2>3 DEF Restart, PersistedNextPred
  <2>6. \A i, j \in DOMAIN dict' :
           i < j => dict'[i].id < dict'[j].id /\ dict'[i].pred # dict'[j].pred
    BY <2>3 DEF DictInv
  <2>7. 0 < nextPred' /\ \A i \in DOMAIN dict' : dict'[i].id < nextPred'
    <3>1. CASE m = 0
      BY <2>3, <2>5, <3>1, EmptySeq
    <3>2. CASE m > 0
      <4>1. dict' # <<>> /\ m \in DOMAIN dict' /\ dict'[m].id \in Nat
        BY <2>3, <3>2, EmptySeq
      <4>2. \A i \in DOMAIN dict' : dict'[i].id <= dict'[m].id /\ dict'[i].id \in Nat
        BY <2>3, <2>6, <4>1
      <4> QED
        BY <2>5, <4>1, <4>2
    <3> QED
      BY <3>1, <3>2
  <2>8. \A i \in DOMAIN dict' : dict'[i].pos <= Len(log')
    BY <2>2, <2>3, <2>4
  <2>9. \A i \in DOMAIN log' : \A k \in log'[i].keys :
           \E j \in DOMAIN dict' :
              dict'[j].pred = k.pred /\ dict'[j].id = k.id /\ dict'[j].pos < i
    <3> SUFFICES ASSUME NEW i \in DOMAIN log', NEW k \in log'[i].keys
                 PROVE  \E j \in DOMAIN dict' :
                          dict'[j].pred = k.pred /\ dict'[j].id = k.id /\ dict'[j].pos < i
      OBVIOUS
    <3>1. PICK j \in DOMAIN dict :
             dict[j].pred = k.pred /\ dict[j].id = k.id /\ dict[j].pos < i
      BY <2>2 DEF DictInv
    <3>2. j \in DOMAIN dict'
      BY <2>2, <2>4, <3>1
    <3> QED
      BY <2>3, <3>1, <3>2
  <2>10. \A i \in DOMAIN log' : \A q \in log'[i].quads :
            \E k \in log'[i].keys : k.pred = PredicateOf[q.slot]
    BY <2>2 DEF DictInv
  <2> QED
    BY <2>6, <2>7, <2>8, <2>9, <2>10 DEF DictInv
<1>2. ASSUME NEW t \in Tx, NEW p \in Predicate, Intern(t, p)
      PROVE  DictInv'
  <2> DEFINE last == Len(dict) + 1
             e == [pred |-> p, id |-> nextPred, pos |-> Len(log)]
  <2>1. e \in DictEntry
    BY DEF DictEntry, TypeOK
  <2>2. log' = log /\ nextPred' = nextPred + 1 /\ nextPred \in Nat /\ p \notin Interned
    BY <1>2 DEF Intern, TypeOK
  <2>3. /\ DOMAIN dict' = 1 .. last /\ \A i \in DOMAIN dict : dict'[i] = dict[i]
        /\ dict'[last].pred = p /\ dict'[last].id = nextPred /\ dict'[last].pos = Len(log)
    <3>1. dict \in Seq(DictEntry) /\ dict' = Append(dict, e)
      BY <1>2 DEF Intern, TypeOK
    <3>2. /\ DOMAIN dict' = 1 .. last /\ DOMAIN dict = 1 .. Len(dict)
          /\ \A i \in 1 .. Len(dict) : dict'[i] = dict[i]
          /\ dict'[last] = e
      BY <2>1, <3>1, AppendFacts
    <3>3. e.pred = p /\ e.id = nextPred /\ e.pos = Len(log)
      OBVIOUS
    <3> QED
      BY <3>2, <3>3
  <2>4. \A i \in DOMAIN dict' : dict'[i].id < nextPred' /\ dict'[i].pos <= Len(log')
    BY <2>2, <2>3 DEF DictInv
  <2>5. \A i, j \in DOMAIN dict' :
           i < j => dict'[i].id < dict'[j].id /\ dict'[i].pred # dict'[j].pred
    <3> SUFFICES ASSUME NEW i \in DOMAIN dict', NEW j \in DOMAIN dict', i < j
                 PROVE  dict'[i].id < dict'[j].id /\ dict'[i].pred # dict'[j].pred
      OBVIOUS
    <3>1. i \in DOMAIN dict
      BY <2>3
    <3>2. CASE j = last
      BY <2>2, <2>3, <3>1, <3>2 DEF DictInv, Interned
    <3>3. CASE j \in DOMAIN dict
      BY <2>3, <3>1, <3>3 DEF DictInv
    <3> QED
      BY <2>3, <3>2, <3>3
  <2>6. \A i \in DOMAIN log' : \A k \in log'[i].keys :
           \E j \in DOMAIN dict' :
              dict'[j].pred = k.pred /\ dict'[j].id = k.id /\ dict'[j].pos < i
    <3> SUFFICES ASSUME NEW i \in DOMAIN log, NEW k \in log[i].keys
                 PROVE  \E j \in DOMAIN dict' :
                          dict'[j].pred = k.pred /\ dict'[j].id = k.id /\ dict'[j].pos < i
      BY <2>2
    <3>1. PICK j \in DOMAIN dict :
             dict[j].pred = k.pred /\ dict[j].id = k.id /\ dict[j].pos < i
      BY DEF DictInv
    <3>2. j \in DOMAIN dict' /\ dict'[j] = dict[j]
      BY <2>3
    <3> QED
      BY <3>1, <3>2
  <2>7. \A i \in DOMAIN log' : \A q \in log'[i].quads :
            \E k \in log'[i].keys : k.pred = PredicateOf[q.slot]
    BY <2>2 DEF DictInv
  <2> QED
    BY <2>2, <2>4, <2>5, <2>6, <2>7 DEF DictInv
<1>3. ASSUME NEW t \in Tx, WriteBatch(t)
      PROVE  DictInv'
  <2> DEFINE last == Len(log) + 1
             keys == {[pred |-> dict[i].pred, id |-> dict[i].id] :
                        i \in {j \in DOMAIN dict : dict[j].pred \in NeededPredicates(t)}}
             b == [by |-> t, tt |-> commitTs[t], quads |-> Staged(buffer[t], log),
                   keys |-> keys]
  <2>1. /\ UNCHANGED <<dict, nextPred>> /\ NeededPredicates(t) \subseteq Interned
    BY <1>3 DEF WriteBatch
  <2>10. log' = Append(log, b) /\ b \in Batch
    BY <1>3, WrittenType DEF WriteBatch
  <2> HIDE DEF b
  <2>11. /\ DOMAIN log' = 1 .. last /\ Len(log') = last
         /\ \A i \in DOMAIN log : log'[i] = log[i]
         /\ log'[last] = b
    <3>1. log \in Seq(Batch)
      BY DEF TypeOK
    <3>2. /\ DOMAIN Append(log, b) = 1 .. last /\ Len(Append(log, b)) = last
          /\ \A i \in 1 .. Len(log) : Append(log, b)[i] = log[i]
          /\ Append(log, b)[last] = b /\ DOMAIN log = 1 .. Len(log)
      BY <2>10, <3>1, AppendFacts
    <3> QED
      BY <2>10, <3>2
  <2>2. /\ DOMAIN log' = 1 .. last /\ Len(log') = last
        /\ \A i \in DOMAIN log : log'[i] = log[i]
        /\ log'[last].keys = keys /\ log'[last].quads = Staged(buffer[t], log)
    BY <2>11 DEF b
  <2>3. \A i \in DOMAIN dict : dict[i].pos <= Len(log')
    BY <2>2 DEF DictInv
  <2>4. \A i \in DOMAIN log' : \A k \in log'[i].keys :
           \E j \in DOMAIN dict' :
              dict'[j].pred = k.pred /\ dict'[j].id = k.id /\ dict'[j].pos < i
    <3> SUFFICES ASSUME NEW i \in DOMAIN log', NEW k \in log'[i].keys
                 PROVE  \E j \in DOMAIN dict :
                          dict[j].pred = k.pred /\ dict[j].id = k.id /\ dict[j].pos < i
      BY <2>1
    <3>1. CASE i = last
      <4>1. PICK j \in DOMAIN dict : k = [pred |-> dict[j].pred, id |-> dict[j].id]
        BY <2>2, <3>1
      <4> QED
        BY <3>1, <4>1 DEF DictInv
    <3>2. CASE i \in DOMAIN log
      BY <2>2, <3>2 DEF DictInv
    <3> QED
      BY <2>2, <3>1, <3>2
  <2>5. \A i \in DOMAIN log' : \A q \in log'[i].quads :
            \E k \in log'[i].keys : k.pred = PredicateOf[q.slot]
    <3> SUFFICES ASSUME NEW i \in DOMAIN log', NEW q \in log'[i].quads
                 PROVE  \E k \in log'[i].keys : k.pred = PredicateOf[q.slot]
      OBVIOUS
    <3>1. CASE i = last
      <4>1. PICK w \in DOMAIN buffer[t] : buffer[t][w].slot = q.slot
        <5>1. buffer[t] \in Seq(WriteRecord) /\ q \in Staged(buffer[t], log)
          BY <2>2, <3>1 DEF TypeOK
        <5> QED
          BY <5>1, StagedSlots
      <4>2. PredicateOf[q.slot] \in NeededPredicates(t)
        BY <4>1 DEF NeededPredicates
      <4>3. PICK j \in DOMAIN dict : dict[j].pred = PredicateOf[q.slot]
        BY <2>1, <4>2 DEF Interned
      <4>4. j \in {x \in DOMAIN dict : dict[x].pred \in NeededPredicates(t)}
        BY <4>2, <4>3
      <4>5. [pred |-> dict[j].pred, id |-> dict[j].id] \in keys
        BY <4>4
      <4>6. [pred |-> dict[j].pred, id |-> dict[j].id].pred = PredicateOf[q.slot]
        BY <4>3
      <4> QED
        BY <2>2, <3>1, <4>5, <4>6
    <3>2. CASE i \in DOMAIN log
      <4>1. log'[i] = log[i]
        BY <2>2, <3>2
      <4> QED
        BY <3>2, <4>1 DEF DictInv
    <3> QED
      BY <2>2, <3>1, <3>2
  <2> QED
    BY <2>1, <2>3, <2>4, <2>5 DEF DictInv
<1>4. ASSUME UNCHANGED <<log, dict>>, nextPred' = nextPred \/ nextPred' = nextPred + 1
      PROVE  DictInv'
  <2>1. nextPred \in Nat
    BY DEF TypeOK
  <2> QED
    BY <1>4, <2>1 DEF DictInv
<1>5. ASSUME NEW t \in Tx,
             \/ Client(t) \/ BeginCommit(t) \/ RejectConflict(t) \/ FinishCommit(t)
             \/ Failing(t)
      PROVE  UNCHANGED <<log, dict>> /\ (nextPred' = nextPred \/ nextPred' = nextPred + 1)
  BY <1>5 DEF Client, Begin, BeginAt, Open, Rollback, CallCommit, Insert, BeginCommit,
              RejectConflict, FinishCommit, Failing, InternFails, CommitFails, Release,
              diskVars
<1>6. CASE UNCHANGED vars
  BY <1>4, <1>6 DEF vars, diskVars
<1> QED
  BY <1>1, <1>2, <1>3, <1>4, <1>5, <1>6 DEF Next, Committing

\* Every stored key decodes to the predicate it was written with, wherever a
\* crash or a power failure cut the log (intern_predicate, load_predicates).
THEOREM DictionaryAlwaysDecodes == Spec => []DictionaryDecodes
<1>1. Init => TypeOK /\ DictInv
  BY DEF Init, TypeOK, Phases, DictInv
<1>2. TypeOK /\ DictInv /\ [Next]_vars => (TypeOK /\ DictInv)'
  BY TypeStep, DictStep
<1>3. TypeOK /\ DictInv => DictionaryDecodes
  BY DictTypes, LogTypes DEF DictInv, DictionaryDecodes
<1> QED
  BY <1>1, <1>2, <1>3, PTL DEF Spec

-----------------------------------------------------------------------------
(* Refinement: the commit protocol implements CommitLog; every step of Mvcc is
   one step of the abstract store or none, for every value of the constants. *)

AbstractBatch == [by : Tx, tt : Nat, quads : SUBSET Quad]

LEMMA BatchesOfFacts ==
  ASSUME NEW h \in Seq(Batch)
  PROVE  /\ BatchesOf(h) \in Seq(AbstractBatch)
         /\ Len(BatchesOf(h)) = Len(h) /\ DOMAIN BatchesOf(h) = DOMAIN h
         /\ DOMAIN h = 1 .. Len(h)
         /\ \A i \in DOMAIN h : BatchesOf(h)[i] = [by |-> h[i].by, tt |-> h[i].tt,
                                                   quads |-> h[i].quads]
<1>1. DOMAIN h = 1 .. Len(h) /\ Len(h) \in Nat
  BY LenProperties
<1>2. \A i \in DOMAIN h : h[i] \in Batch
  BY <1>1, ElementOfSeq
<1>3. \A i \in DOMAIN h : [by |-> h[i].by, tt |-> h[i].tt, quads |-> h[i].quads]
                            \in AbstractBatch
  BY <1>2 DEF Batch, AbstractBatch
<1>4. BatchesOf(h) \in [1 .. Len(h) -> AbstractBatch]
  BY <1>1, <1>3 DEF BatchesOf
<1>5. BatchesOf(h) \in Seq(AbstractBatch)
  BY <1>1, <1>4, SeqDef
<1>6. Len(BatchesOf(h)) = Len(h)
  BY <1>1, <1>4, <1>5, LenProperties
<1> QED
  BY <1>1, <1>5, <1>6 DEF BatchesOf

\* What a batch stages depends on the timestamps and quads of the history.
LEMMA StagedAgree ==
  ASSUME NEW h \in Seq(Batch), NEW ws
  PROVE  /\ LastTt(BatchesOf(h)) = LastTt(h)
         /\ Staged(ws, BatchesOf(h)) = Staged(ws, h)
<1>1. /\ DOMAIN BatchesOf(h) = DOMAIN h
      /\ \A i \in DOMAIN h : BatchesOf(h)[i].tt = h[i].tt /\ BatchesOf(h)[i].quads = h[i].quads
  BY DEF BatchesOf
<1>2. LastTt(BatchesOf(h)) = LastTt(h)
  <2>1. h = <<>> <=> BatchesOf(h) = <<>>
    BY BatchesOfFacts, EmptySeq
  <2>2. h # <<>> => Len(h) \in DOMAIN h
    BY BatchesOfFacts, EmptySeq
  <2> QED
    BY <1>1, <2>1, <2>2, BatchesOfFacts DEF LastTt
<1>3. ASSUME NEW s, NEW v
      PROVE  Newest(BatchesOf(h), s, v) = Newest(h, s, v)
  <2>1. \A i \in DOMAIN h : VersionIn(BatchesOf(h)[i], s, v) = VersionIn(h[i], s, v)
    BY <1>1 DEF VersionIn
  <2>2. {j \in DOMAIN BatchesOf(h) : \A k \in DOMAIN BatchesOf(h) :
            k > j => VersionIn(BatchesOf(h)[k], s, v) = {}}
          = {j \in DOMAIN h : \A k \in DOMAIN h : k > j => VersionIn(h[k], s, v) = {}}
    BY <1>1, <2>1
  <2> QED
    BY <2>1, <2>2 DEF Newest
<1>4. ASSUME NEW s, NEW v
      PROVE  StagedOf(ws, BatchesOf(h), s, v) = StagedOf(ws, h, s, v)
  <2>1. \A at : OpenValue(BatchesOf(h), s, v, at) = OpenValue(h, s, v, at)
    BY <1>3 DEF OpenValue
  <2>2. \A m : Superseded(ws, BatchesOf(h), s, v, m) = Superseded(ws, h, s, v, m)
    BY <2>1 DEF Superseded
  <2>3. ClosingsOf(ws, BatchesOf(h), s, v) = ClosingsOf(ws, h, s, v)
    BY <2>2 DEF ClosingsOf
  <2>4. \A k : WrittenBy(k, ws, BatchesOf(h), s, v) = WrittenBy(k, ws, h, s, v)
    BY <2>2 DEF WrittenBy
  <2> QED
    BY <2>3, <2>4 DEF StagedOf
<1> QED
  BY <1>2, <1>4 DEF Staged

LEMMA BatchesOfAppend ==
  ASSUME NEW h \in Seq(Batch), NEW b \in Batch
  PROVE  BatchesOf(Append(h, b)) =
           Append(BatchesOf(h), [by |-> b.by, tt |-> b.tt, quads |-> b.quads])
<1> DEFINE e == [by |-> b.by, tt |-> b.tt, quads |-> b.quads]
           left == BatchesOf(Append(h, b))
           right == Append(BatchesOf(h), e)
<1>1. e \in AbstractBatch
  BY DEF Batch, AbstractBatch
<1>2. /\ Append(h, b) \in Seq(Batch) /\ Len(Append(h, b)) = Len(h) + 1
      /\ DOMAIN Append(h, b) = 1 .. Len(h) + 1
      /\ \A i \in 1 .. Len(h) : Append(h, b)[i] = h[i]
      /\ Append(h, b)[Len(h) + 1] = b
      /\ Len(h) \in Nat /\ DOMAIN h = 1 .. Len(h)
  BY AppendFacts, LenProperties
<1> HIDE DEF e
<1>3. /\ right \in Seq(AbstractBatch) /\ Len(right) = Len(h) + 1
      /\ \A i \in 1 .. Len(h) : right[i] = BatchesOf(h)[i]
      /\ right[Len(h) + 1] = e
  BY <1>1, BatchesOfFacts, AppendFacts
<1>4. left \in Seq(AbstractBatch) /\ Len(left) = Len(h) + 1
  BY <1>2, BatchesOfFacts
<1>5. ASSUME NEW i \in 1 .. Len(left)
      PROVE  left[i] = right[i]
  <2>1. left[i] = [by |-> Append(h, b)[i].by, tt |-> Append(h, b)[i].tt,
                   quads |-> Append(h, b)[i].quads]
    BY <1>2, <1>4, BatchesOfFacts
  <2>2. CASE i = Len(h) + 1
    BY <1>2, <1>3, <2>1, <2>2 DEF e
  <2>3. CASE i \in 1 .. Len(h)
    <3>1. BatchesOf(h)[i] = [by |-> h[i].by, tt |-> h[i].tt, quads |-> h[i].quads]
      BY <1>2, <2>3 DEF BatchesOf
    <3> QED
      BY <1>2, <1>3, <2>1, <2>3, <3>1
  <2>4. i \in 1 .. Len(h) \/ i = Len(h) + 1
    BY <1>2, <1>4
  <2> QED
    BY <2>2, <2>3, <2>4
<1> QED
  BY <1>2, <1>3, <1>4, <1>5, SeqEqual DEF e

LEMMA BatchesOfPrefix ==
  ASSUME NEW h \in Seq(Batch), NEW n \in 0 .. Len(h)
  PROVE  BatchesOf(SubSeq(h, 1, n)) = SubSeq(BatchesOf(h), 1, n)
<1> DEFINE left == BatchesOf(SubSeq(h, 1, n))
           right == SubSeq(BatchesOf(h), 1, n)
<1>1. /\ SubSeq(h, 1, n) \in Seq(Batch) /\ Len(SubSeq(h, 1, n)) = n
      /\ DOMAIN SubSeq(h, 1, n) = 1 .. n
      /\ \A i \in 1 .. n : i \in DOMAIN h /\ SubSeq(h, 1, n)[i] = h[i]
  BY PrefixFacts
<1>2. left \in Seq(AbstractBatch) /\ Len(left) = n
  BY <1>1, BatchesOfFacts
<1>3. /\ right \in Seq(AbstractBatch) /\ Len(right) = n
      /\ \A i \in 1 .. n : right[i] = BatchesOf(h)[i]
  BY BatchesOfFacts, PrefixFacts
<1>4. \A i \in 1 .. n : left[i] = right[i]
  <2> SUFFICES ASSUME NEW i \in 1 .. n
               PROVE  left[i] = right[i]
    OBVIOUS
  <2>1. left[i] = [by |-> h[i].by, tt |-> h[i].tt, quads |-> h[i].quads]
    BY <1>1 DEF BatchesOf
  <2>2. BatchesOf(h)[i] = [by |-> h[i].by, tt |-> h[i].tt, quads |-> h[i].quads]
    BY <1>1 DEF BatchesOf
  <2> QED
    BY <1>3, <2>1, <2>2
<1> QED
  BY <1>2, <1>3, <1>4, SeqEqual

-----------------------------------------------------------------------------
(* Steps *)

StatusFn == [t \in Tx |-> StatusOf(phase[t])]

LEMMA StatusUpdate ==
  ASSUME TypeOK, NEW t \in Tx, NEW p, phase' = [phase EXCEPT ![t] = p]
  PROVE  StatusFn' = [StatusFn EXCEPT ![t] = StatusOf(p)]
  BY DEF TypeOK, StatusFn

LEMMA StatusValues ==
  /\ StatusOf("idle") = "idle"
  /\ \A p \in {"open", "waiting", "locked"} : StatusOf(p) = "active"
  /\ \A p \in {"written", "committed", "aborted", "dead"} : StatusOf(p) = "ended"
  BY DEF StatusOf

\* CommitLog extends the same operators over quads.
LEMMA SameOperators ==
  /\ \A ws, qs : Abstract!Overlaps(ws, qs) = Overlaps(ws, qs)
  /\ \A h : Abstract!LastTt(h) = LastTt(h)
  /\ \A ws, h : Abstract!Staged(ws, h) = Staged(ws, h)
<1>1. \A w : Abstract!Replaces(w) = Replaces(w)
  BY DEF Abstract!Replaces, Replaces, Abstract!Resolve, Resolve
<1>2. \A ws, qs : Abstract!Overlaps(ws, qs) = Overlaps(ws, qs)
  BY <1>1 DEF Abstract!Overlaps, Overlaps, Abstract!Touches, Touches
<1>3. \A h : Abstract!LastTt(h) = LastTt(h)
  BY DEF Abstract!LastTt, LastTt
<1>4. \A h, s, v : Abstract!Newest(h, s, v) = Newest(h, s, v)
  BY DEF Abstract!Newest, Newest, Abstract!VersionIn, VersionIn
<1>5. \A h, s, v, at : Abstract!OpenValue(h, s, v, at) = OpenValue(h, s, v, at)
  BY <1>4 DEF Abstract!OpenValue, OpenValue
<1>6. \A ws, s : Abstract!ReplacesOf(ws, s) = ReplacesOf(ws, s)
  BY <1>1 DEF Abstract!ReplacesOf, ReplacesOf
<1>7. \A ws, s, v, m : Abstract!StagedBefore(ws, s, v, m) = StagedBefore(ws, s, v, m)
  BY <1>6 DEF Abstract!StagedBefore, StagedBefore, Abstract!OwnWrites, OwnWrites
<1>8. \A ws, h, s, v, m : Abstract!Superseded(ws, h, s, v, m) = Superseded(ws, h, s, v, m)
  BY <1>5, <1>7 DEF Abstract!Superseded, Superseded, Abstract!LastOf, LastOf
<1>9. \A ws, h, s, v : Abstract!ClosingsOf(ws, h, s, v) = ClosingsOf(ws, h, s, v)
  BY <1>6, <1>8 DEF Abstract!ClosingsOf, ClosingsOf
<1>10. \A k, ws, h, s, v : Abstract!WrittenBy(k, ws, h, s, v) = WrittenBy(k, ws, h, s, v)
  BY <1>8 DEF Abstract!WrittenBy, WrittenBy, Abstract!OwnWrites, OwnWrites
<1>11. ASSUME NEW ws, NEW h, NEW s, NEW v
       PROVE  Abstract!StagedOf(ws, h, s, v) = StagedOf(ws, h, s, v)
  <2> DEFINE ks == OwnWrites(ws, s, v) \cup ClosingsOf(ws, h, s, v)
  <2>1. Abstract!OwnWrites(ws, s, v) \cup Abstract!ClosingsOf(ws, h, s, v) = ks
    BY <1>9 DEF Abstract!OwnWrites, OwnWrites
  <2>2. Abstract!LastOf(ks) = LastOf(ks)
    BY DEF Abstract!LastOf, LastOf
  <2>3. Abstract!WrittenBy(LastOf(ks), ws, h, s, v) = WrittenBy(LastOf(ks), ws, h, s, v)
    BY <1>10
  <2>4. Abstract!StagedOf(ws, h, s, v)
          = IF ks = {} THEN {} ELSE Abstract!WrittenBy(Abstract!LastOf(ks), ws, h, s, v)
    BY <2>1, Zenon DEF Abstract!StagedOf
  <2>5. StagedOf(ws, h, s, v) = IF ks = {} THEN {} ELSE WrittenBy(LastOf(ks), ws, h, s, v)
    BY Zenon DEF StagedOf
  <2> QED
    BY <2>2, <2>3, <2>4, <2>5
<1>12. ASSUME NEW ws, NEW h
       PROVE  Abstract!Staged(ws, h) = Staged(ws, h)
  <2>1. {Abstract!StagedOf(ws, h, s, v) : s \in Slot, v \in Value}
          = {StagedOf(ws, h, s, v) : s \in Slot, v \in Value}
    BY <1>11
  <2> QED
    BY <2>1 DEF Abstract!Staged, Staged
<1> QED
  BY <1>2, <1>3, <1>12

TsBounded == committed <= MaxTs

LEMMA BoundStep ==
  ASSUME TypeOK, CommitInv, TsBounded, [Next]_vars, TypeOK', CommitInv'
  PROVE  TsBounded'
<1>1. CASE Restart
  <2>1. PICK n \in 0 .. Len(log) : log' = SubSeq(log, 1, n)
    BY <1>1 DEF Restart
  <2>2. /\ log' \in Seq(Batch) /\ Len(log') = n
        /\ \A i \in 1 .. n : i \in DOMAIN log /\ log'[i] = log[i]
    BY <2>1, PrefixFacts DEF TypeOK
  <2>3. committed' = LastTt(log')
    BY <1>1 DEF Restart, PersistedCounter
  <2>4. n > 0 => committed' = log[n].tt /\ log[n].tt <= committed
    BY <2>2, <2>3, EmptySeq DEF LastTt, CommitInv, TimestampsOrdered
  <2>5. n = 0 => committed' = 0
    BY <2>2, <2>3, EmptySeq DEF LastTt
  <2> QED
    <3>1. committed \in Nat /\ MaxTs \in Nat /\ committed <= MaxTs
      BY BoundsAreNat DEF TsBounded, TypeOK
    <3>2. n > 0 => log[n].tt \in Nat
      BY <2>2, LogTypes
    <3>3. committed' <= MaxTs
      BY <2>4, <2>5, <3>1, <3>2
    <3> QED
      BY <3>3 DEF TsBounded
<1>2. ASSUME NEW t \in Tx, BeginCommit(t)
      PROVE  TsBounded'
  BY <1>2 DEF BeginCommit, TsBounded
<1>3. ASSUME committed' = committed
      PROVE  TsBounded'
  BY <1>3 DEF TsBounded
<1>4. ASSUME NEW t \in Tx, Client(t) \/ Failing(t) \/ RejectConflict(t) \/ WriteBatch(t)
                           \/ FinishCommit(t) \/ \E p \in Predicate : Intern(t, p)
      PROVE  committed' = committed
  BY <1>4 DEF Client, Begin, BeginAt, Open, Rollback, CallCommit, Insert, Failing,
              InternFails, CommitFails, RejectConflict, Release, WriteBatch,
              FinishCommit, Intern
<1>5. CASE UNCHANGED vars
  BY <1>3, <1>5 DEF vars
<1> QED
  BY <1>1, <1>2, <1>3, <1>4, <1>5 DEF Next, Committing

LEMMA StepRefines ==
  ASSUME TypeOK, CommitInv, TsBounded, [Next]_vars
  PROVE  [Abstract!Next]_(Abstract!vars)
<1> USE StatusValues
<1>1. ASSUME UNCHANGED <<log, readTs, buffer>>, StatusFn' = StatusFn
      PROVE  UNCHANGED Abstract!vars
  BY <1>1 DEF Abstract!vars, StatusFn
<1>2. ASSUME UNCHANGED <<log, readTs, buffer>>, NEW t \in Tx,
             phase[t] \in {"open", "waiting", "locked"},
             \E p \in {"aborted", "committed"} : phase' = [phase EXCEPT ![t] = p]
      PROVE  Abstract!End(t)
  <2> PICK p \in {"aborted", "committed"} : phase' = [phase EXCEPT ![t] = p]
    BY <1>2
  <2>1. StatusFn' = [StatusFn EXCEPT ![t] = "ended"]
    <3>1. StatusFn' = [StatusFn EXCEPT ![t] = StatusOf(p)]
      BY StatusUpdate
    <3> QED
      BY <3>1
  <2>2. StatusFn[t] = "active"
    BY <1>2 DEF StatusFn
  <2> QED
    BY <1>2, <2>1, <2>2 DEF Abstract!End, StatusFn
<1>3. CASE Restart
  <2>1. PICK n \in 0 .. Len(log) : log' = SubSeq(log, 1, n)
    BY <1>3 DEF Restart
  <2>2. log \in Seq(Batch) /\ Len(BatchesOf(log)) = Len(log)
    BY BatchesOfFacts DEF TypeOK
  <2>3. BatchesOf(log') = SubSeq(BatchesOf(log), 1, n)
    BY <2>1, <2>2, BatchesOfPrefix
  <2>4. phase' = [t \in Tx |-> IF phase[t] \in {"idle", "committed", "aborted"}
                               THEN phase[t] ELSE "dead"]
        /\ UNCHANGED <<readTs, buffer>>
    BY <1>3 DEF Restart
  <2>5. phase \in [Tx -> Phases]
    BY DEF TypeOK
  <2>6. \A t \in Tx : StatusOf(phase'[t]) =
           IF StatusOf(phase[t]) = "active" THEN "ended" ELSE StatusOf(phase[t])
    <3> SUFFICES ASSUME NEW t \in Tx
                 PROVE  StatusOf(phase'[t]) =
                          IF StatusOf(phase[t]) = "active" THEN "ended"
                          ELSE StatusOf(phase[t])
      OBVIOUS
    <3>1. phase[t] \in Phases
      BY <2>5
    <3>2. CASE phase[t] \in {"idle", "committed", "aborted"}
      BY <2>4, <3>2
    <3>3. CASE phase[t] \notin {"idle", "committed", "aborted"}
      <4>1. phase'[t] = "dead"
        BY <2>4, <3>3
      <4>2. phase[t] \in {"open", "waiting", "locked", "written", "dead"}
        BY <3>1, <3>3 DEF Phases
      <4> QED
        BY <4>1, <4>2
    <3> QED
      BY <3>2, <3>3
  <2>7. StatusFn' = [t \in Tx |-> IF StatusFn[t] = "active" THEN "ended" ELSE StatusFn[t]]
    BY <2>6 DEF StatusFn
  <2> QED
    BY <2>2, <2>3, <2>4, <2>7 DEF Abstract!Next, Abstract!Crash, StatusFn
<1>4. ASSUME NEW t \in Tx, NEW ts \in 0 .. committed, Open(t, ts)
      PROVE  Abstract!Begin(t)
  <2>1. StatusFn[t] = "idle" /\ StatusFn' = [StatusFn EXCEPT ![t] = "active"]
    <3>1. phase[t] = "idle" /\ phase' = [phase EXCEPT ![t] = "open"]
      BY <1>4 DEF Open
    <3>2. StatusFn' = [StatusFn EXCEPT ![t] = StatusOf("open")]
      BY <3>1, StatusUpdate
    <3> QED
      BY <3>1, <3>2 DEF StatusFn
  <2>2. ts \in 0 .. MaxTs
    BY BoundsAreNat DEF TsBounded, TypeOK
  <2> QED
    BY <1>4, <2>1, <2>2 DEF Open, diskVars, Abstract!Begin, StatusFn
<1>5. ASSUME NEW t \in Tx, NEW w \in Writes, Insert(t, w)
      PROVE  Abstract!Write(t, w)
  <2>1. StatusFn[t] = "active" /\ StatusFn' = StatusFn
    BY <1>5 DEF Insert, StatusFn
  <2> QED
    BY <1>5, <2>1 DEF Insert, diskVars, Abstract!Write, StatusFn
<1>6. ASSUME NEW t \in Tx, WriteBatch(t)
      PROVE  Abstract!Commit(t)
  <2> DEFINE keys == {[pred |-> dict[i].pred, id |-> dict[i].id] :
                        i \in {j \in DOMAIN dict : dict[j].pred \in NeededPredicates(t)}}
             b == [by |-> t, tt |-> commitTs[t], quads |-> Staged(buffer[t], log),
                   keys |-> keys]
  <2>1. b \in Batch /\ log \in Seq(Batch)
    BY WrittenType DEF TypeOK
  <2>2. /\ log' = Append(log, b) /\ phase[t] = "locked" /\ ~Conflicts(t)
        /\ phase' = [phase EXCEPT ![t] = "written"] /\ UNCHANGED <<readTs, buffer>>
    BY <1>6 DEF WriteBatch, EndTx
  <2>3. BatchesOf(log)' = Append(BatchesOf(log),
          [by |-> t, tt |-> commitTs[t], quads |-> Staged(buffer[t], BatchesOf(log))])
    <3>1. BatchesOf(log') = Append(BatchesOf(log), [by |-> b.by, tt |-> b.tt, quads |-> b.quads])
      BY <2>1, <2>2, BatchesOfAppend
    <3>2. b.by = t /\ b.tt = commitTs[t] /\ b.quads = Staged(buffer[t], BatchesOf(log))
      BY <2>1, StagedAgree
    <3> QED
      BY <3>1, <3>2
  <2>4. StatusFn[t] = "active" /\ StatusFn' = [StatusFn EXCEPT ![t] = "ended"]
    <3>1. StatusFn' = [StatusFn EXCEPT ![t] = StatusOf("written")]
      BY <2>2, StatusUpdate
    <3> QED
      BY <2>2, <3>1 DEF StatusFn
  <2>5. \A i \in DOMAIN log : log[i].tt \in Nat /\ log[i].tt < commitTs[t]
    BY <2>2, LogTypes DEF CommitInv, TimestampsOrdered
  <2>6. Abstract!Uncontested(t)
    <3>1. \A i \in DOMAIN log : log[i].tt > readTs[t] => ~Overlaps(buffer[t], log[i].quads)
      BY <2>2, <2>5 DEF Conflicts, TypeOK
    <3>2. \A i \in DOMAIN log : /\ BatchesOf(log)[i].tt = log[i].tt
                                /\ BatchesOf(log)[i].quads = log[i].quads
      BY DEF BatchesOf
    <3>3. DOMAIN BatchesOf(log) = DOMAIN log
      BY DEF BatchesOf
    <3> QED
      BY <3>1, <3>2, <3>3, SameOperators DEF Abstract!Uncontested
  <2>7. commitTs[t] \in 0 .. MaxTs /\ commitTs[t] > LastTt(BatchesOf(log))
    <3>1. commitTs[t] \in Nat /\ commitTs[t] <= committed /\ 0 < commitTs[t]
      BY <2>2 DEF CommitInv, StampPublished, TypeOK
    <3>2. commitTs[t] \in 0 .. MaxTs
      BY <3>1, BoundsAreNat DEF TsBounded, TypeOK
    <3>3. commitTs[t] > LastTt(log)
      BY <2>1, <2>5, <3>1, LogTypes, EmptySeq DEF LastTt
    <3> QED
      BY <2>1, <3>2, <3>3, StagedAgree
  <2> QED
    BY <2>2, <2>3, <2>4, <2>6, <2>7, SameOperators DEF Abstract!Commit, StatusFn
<1>7. ASSUME NEW t \in Tx, Rollback(t) \/ CallCommit(t)
      PROVE  Abstract!End(t) \/ UNCHANGED Abstract!vars
  <2>1. /\ UNCHANGED <<log, readTs, buffer>> /\ phase[t] = "open"
        /\ \E p \in {"aborted", "committed", "waiting"} : phase' = [phase EXCEPT ![t] = p]
    BY <1>7 DEF Rollback, CallCommit, EndTx, diskVars
  <2>2. CASE phase' = [phase EXCEPT ![t] = "waiting"]
    <3>1. StatusFn' = StatusFn
      BY <2>1, <2>2 DEF TypeOK, StatusFn
    <3> QED
      BY <1>1, <2>1, <3>1
  <2> QED
    BY <1>2, <2>1, <2>2
<1>8. ASSUME NEW t \in Tx, RejectConflict(t) \/ Failing(t)
      PROVE  Abstract!End(t)
  <2>1. /\ UNCHANGED <<log, readTs, buffer>> /\ phase[t] = "locked"
        /\ phase' = [phase EXCEPT ![t] = "aborted"]
    BY <1>8 DEF RejectConflict, Failing, InternFails, CommitFails, Release, EndTx
  <2> QED
    BY <1>2, <2>1
<1>9. ASSUME NEW t \in Tx, BeginCommit(t) \/ FinishCommit(t)
      PROVE  UNCHANGED Abstract!vars
  <2>1. UNCHANGED <<log, readTs, buffer>>
    BY <1>9 DEF BeginCommit, FinishCommit, EndTx, diskVars
  <2>2. \/ phase[t] = "waiting" /\ phase' = [phase EXCEPT ![t] = "locked"]
        \/ phase[t] = "written" /\ phase' = [phase EXCEPT ![t] = "committed"]
    BY <1>9 DEF BeginCommit, FinishCommit, EndTx
  <2>3. CASE phase[t] = "waiting" /\ phase' = [phase EXCEPT ![t] = "locked"]
    <3>1. StatusFn' = StatusFn
      BY <2>3 DEF TypeOK, StatusFn
    <3> QED
      BY <1>1, <2>1, <3>1
  <2>4. CASE phase[t] = "written" /\ phase' = [phase EXCEPT ![t] = "committed"]
    <3>1. StatusFn' = StatusFn
      BY <2>4 DEF TypeOK, StatusFn
    <3> QED
      BY <1>1, <2>1, <3>1
  <2> QED
    BY <2>2, <2>3, <2>4
<1>10. ASSUME UNCHANGED <<log, txVars>>
       PROVE  UNCHANGED Abstract!vars
  BY <1>1, <1>10 DEF txVars, StatusFn
<1>11. ASSUME NEW t \in Tx, Client(t)
       PROVE  Abstract!Next \/ UNCHANGED Abstract!vars
  <2>1. committed \in 0 .. committed
    BY DEF TypeOK
  <2>2. CASE Begin(t) \/ BeginAt(t)
    BY <1>4, <2>1, <2>2 DEF Begin, BeginAt, Abstract!Next
  <2>3. CASE Rollback(t) \/ CallCommit(t)
    BY <1>7, <2>3 DEF Abstract!Next
  <2>4. CASE \E w \in Writes : Insert(t, w)
    BY <1>5, <2>4 DEF Abstract!Next
  <2> QED
    BY <1>11, <2>2, <2>3, <2>4 DEF Client
<1>12. ASSUME NEW t \in Tx, Committing(t) \/ Failing(t)
       PROVE  Abstract!Next \/ UNCHANGED Abstract!vars
  <2>1. CASE BeginCommit(t) \/ FinishCommit(t)
    BY <1>9, <2>1
  <2>2. CASE RejectConflict(t) \/ Failing(t)
    BY <1>8, <2>2 DEF Abstract!Next
  <2>3. CASE \E p \in Predicate : Intern(t, p)
    BY <1>10, <2>3 DEF Intern
  <2>4. CASE WriteBatch(t)
    BY <1>6, <2>4 DEF Abstract!Next
  <2> QED
    BY <1>12, <2>1, <2>2, <2>3, <2>4 DEF Committing
<1>13. CASE UNCHANGED vars
  BY <1>10, <1>13 DEF vars, diskVars
<1> QED
  BY <1>3, <1>11, <1>12, <1>13 DEF Next, Abstract!Next

\* Interning, locking, stamping, checking and writing a transaction is one
\* atomic commit of the abstract store, or none (Transaction::commit).
THEOREM CommitsAreAtomic == Spec => CommitIsAtomic
<1>1. Init => TypeOK /\ TsBounded /\ Abstract!Init
  <2>1. Init => TypeOK /\ TsBounded
    BY BoundsAreNat DEF Init, TypeOK, Phases, TsBounded
  <2>2. Init => BatchesOf(log) = <<>>
    BY EmptySeq DEF Init, BatchesOf
  <2> QED
    BY <2>1, <2>2, StatusValues DEF Init, Abstract!Init
<1>2. TypeOK /\ CommitInv /\ TsBounded /\ [Next]_vars => TsBounded'
  BY TypeStep, CommitInvStep, BoundStep
<1>3. TypeOK /\ CommitInv /\ TsBounded /\ [Next]_vars => [Abstract!Next]_(Abstract!vars)
  BY StepRefines
<1> QED
  BY <1>1, <1>2, <1>3, TypeInvariant, CommitProtocol, PTL
     DEF Spec, CommitIsAtomic, Abstract!Spec

-----------------------------------------------------------------------------
(* What followers see: the commit protocol implements CommitStream *)

StoredTts == {log[i].tt : i \in DOMAIN log}

LEMMA PublishedOnlyFacts ==
  ASSUME TypeOK, CommitInv
  PROVE  /\ \A t \in Tx : phase[t] = "locked" =>
              PublishedOnly = commitTs[t] /\ commitTs[t] # 0 /\ holder = t
         /\ (\A t \in Tx : phase[t] # "locked") => PublishedOnly = 0
<1>1. \A t \in Tx : phase[t] = "locked" => holder = t /\ t # NoTx
  BY NoTxFresh DEF CommitInv, LockHeld, HoldsLock
<1>2. \A t \in Tx : phase[t] = "locked" => commitTs[t] # 0
  BY DEF CommitInv, StampPublished, TypeOK
<1>3. holder \in Tx \cup {NoTx}
  BY DEF TypeOK
<1> QED
  BY <1>1, <1>2, <1>3 DEF PublishedOnly

\* A step that neither publishes nor leaves the published phase.
LEMMA QuietForFollowers ==
  ASSUME TypeOK, CommitInv, TypeOK', CommitInv', UNCHANGED <<log, committed>>,
         \A t \in Tx : phase[t] = "locked" <=> phase'[t] = "locked",
         \A t \in Tx : phase[t] = "locked" => commitTs'[t] = commitTs[t]
  PROVE  UNCHANGED <<committed, PublishedOnly, StoredTts>>
<1>1. StoredTts' = StoredTts
  BY DEF StoredTts
<1>2. CASE \E t \in Tx : phase[t] = "locked"
  <2>1. PICK t \in Tx : phase[t] = "locked"
    BY <1>2
  <2>2. PublishedOnly = commitTs[t]
    BY <2>1, PublishedOnlyFacts
  <2>3. holder' = t /\ t # NoTx /\ phase'[t] = "locked" /\ commitTs'[t] = commitTs[t]
    BY <2>1, NoTxFresh DEF CommitInv, LockHeld, HoldsLock
  <2>4. PublishedOnly' = commitTs'[t]
    BY <2>3 DEF PublishedOnly
  <2> QED
    BY <1>1, <2>2, <2>3, <2>4
<1>3. CASE \A t \in Tx : phase[t] # "locked"
  <2>1. PublishedOnly = 0
    BY <1>3, PublishedOnlyFacts
  <2>2. \A t \in Tx : phase'[t] # "locked"
    BY <1>3
  <2>3. PublishedOnly' = 0
    BY <2>2 DEF PublishedOnly, TypeOK
  <2> QED
    BY <1>1, <2>1, <2>3
<1> QED
  BY <1>2, <1>3

LEMMA StepStreams ==
  ASSUME TypeOK, CommitInv, TsBounded, [Next]_vars, TypeOK', CommitInv'
  PROVE  Stream!Next \/ UNCHANGED <<committed, PublishedOnly, StoredTts>>
<1>1. ASSUME NEW t \in Tx, BeginCommit(t)
      PROVE  Stream!Publish
  <2>1. PICK wall \in 0 .. MaxWall :
           /\ NextTs(wall) <= MaxTs /\ committed' = NextTs(wall)
           /\ commitTs' = [commitTs EXCEPT ![t] = NextTs(wall)]
    BY <1>1 DEF BeginCommit
  <2>2. /\ holder = NoTx /\ holder' = t /\ log' = log
        /\ phase' = [phase EXCEPT ![t] = "locked"]
    BY <1>1 DEF BeginCommit, diskVars
  <2>3. PublishedOnly = 0
    BY <2>2 DEF PublishedOnly
  <2>4. phase'[t] = "locked" /\ commitTs'[t] = NextTs(wall)
    BY <2>1, <2>2 DEF TypeOK
  <2>5. PublishedOnly' = NextTs(wall)
    BY <2>2, <2>4, NoTxFresh DEF PublishedOnly
  <2>6. NextTs(wall) \in 1 .. MaxTs /\ NextTs(wall) > committed
    BY <2>1, BoundsAreNat DEF NextTs, TypeOK
  <2> QED
    BY <2>1, <2>2, <2>3, <2>5, <2>6 DEF Stream!Publish
<1>2. ASSUME NEW t \in Tx, WriteBatch(t)
      PROVE  Stream!Store
  <2> DEFINE keys == {[pred |-> dict[i].pred, id |-> dict[i].id] :
                        i \in {j \in DOMAIN dict : dict[j].pred \in NeededPredicates(t)}}
             b == [by |-> t, tt |-> commitTs[t], quads |-> Staged(buffer[t], log),
                   keys |-> keys]
  <2>1. b \in Batch /\ log \in Seq(Batch)
    BY WrittenType DEF TypeOK
  <2>2. /\ log' = Append(log, b) /\ phase[t] = "locked" /\ committed' = committed
        /\ phase' = [phase EXCEPT ![t] = "written"]
    BY <1>2 DEF WriteBatch, EndTx
  <2>3. PublishedOnly = commitTs[t] /\ commitTs[t] # 0
    BY <2>2, PublishedOnlyFacts
  <2>4. holder = t /\ holder' = t
    BY <1>2, <2>2, PublishedOnlyFacts DEF WriteBatch
  <2>5. PublishedOnly' = 0
    BY <2>2, <2>4 DEF PublishedOnly, TypeOK
  <2>6. StoredTts' = StoredTts \cup {commitTs[t]}
    <3> HIDE DEF b
    <3>1. /\ DOMAIN log = 1 .. Len(log) /\ DOMAIN log' = 1 .. Len(log) + 1
          /\ Len(log) \in Nat /\ log'[Len(log) + 1] = b
          /\ \A i \in 1 .. Len(log) : log'[i] = log[i]
      BY <2>1, <2>2, AppendFacts, LogTypes
    <3>2. b.tt = commitTs[t]
      BY DEF b
    <3>3. 1 .. Len(log) + 1 = (1 .. Len(log)) \cup {Len(log) + 1}
      BY <3>1
    <3> QED
      BY <3>1, <3>2, <3>3 DEF StoredTts
  <2> QED
    BY <2>2, <2>3, <2>5, <2>6 DEF Stream!Store, StoredTts
<1>3. ASSUME NEW t \in Tx, RejectConflict(t) \/ Failing(t)
      PROVE  Stream!GiveUp
  <2>1. /\ phase[t] = "locked" /\ holder' = NoTx /\ UNCHANGED <<log, committed>>
    BY <1>3 DEF RejectConflict, Failing, InternFails, CommitFails, Release
  <2>2. PublishedOnly # 0 /\ PublishedOnly' = 0
    BY <2>1, PublishedOnlyFacts DEF PublishedOnly
  <2> QED
    BY <2>1, <2>2 DEF Stream!GiveUp
<1>4. CASE Restart
  <2>1. PICK n \in 0 .. Len(log) : log' = SubSeq(log, 1, n)
    BY <1>4 DEF Restart
  <2>2. committed' = LastTt(log') /\ holder' = NoTx
    BY <1>4 DEF Restart, PersistedCounter
  <2>3. /\ log' \in Seq(Batch) /\ DOMAIN log' = 1 .. n /\ Len(log') = n
        /\ \A i \in 1 .. n : i \in DOMAIN log /\ log'[i] = log[i]
    <3>1. log \in Seq(Batch)
      BY DEF TypeOK
    <3> QED
      BY ONLY <2>1, <3>1, PrefixFacts
  <2>4. PublishedOnly' = 0
    BY <2>2 DEF PublishedOnly
  <2>5. \A i, j \in DOMAIN log : i < j => log[i].tt < log[j].tt
    BY DEF CommitInv, TimestampsOrdered
  <2>6. \A i \in DOMAIN log : log[i].tt \in 1 .. MaxTs
    <3>1. \A i \in DOMAIN log : 0 < log[i].tt /\ log[i].tt <= committed
      BY DEF CommitInv, TimestampsOrdered
    <3>2. committed \in Nat /\ committed <= MaxTs /\ MaxTs \in Nat
      BY BoundsAreNat DEF TsBounded, TypeOK
    <3> QED
      BY <3>1, <3>2, LogTypes
  <2>7. CASE n = 0
    <3>1. log' = <<>> /\ LastTt(log') = 0
      BY <2>3, <2>7, EmptySeq DEF LastTt
    <3>2. StoredTts' = {} /\ {ts \in StoredTts : ts <= 0} = {}
      BY <2>3, <2>6, <2>7 DEF StoredTts
    <3> QED
      BY <2>2, <2>4, <3>1, <3>2 DEF Stream!Next, Stream!Crash, StoredTts
  <2>8. CASE n > 0
    <3>1. n \in DOMAIN log /\ n \in DOMAIN log' /\ log'[n] = log[n]
      BY <2>3, <2>8
    <3>2. LastTt(log') = log[n].tt
      BY <2>3, <2>8, <3>1, EmptySeq DEF LastTt
    <3>3. \A i \in DOMAIN log : log[i].tt <= log[n].tt <=> i <= n
      BY <2>5, <2>6, <3>1, LogTypes
    <3>4. StoredTts' = {ts \in StoredTts : ts <= log[n].tt}
      <4>1. \A i \in DOMAIN log' : i \in DOMAIN log /\ log'[i] = log[i] /\ i <= n
        BY <2>3
      <4>2. \A i \in DOMAIN log : i <= n => i \in DOMAIN log' /\ log'[i] = log[i]
        BY <2>3, LogTypes
      <4> QED
        BY <3>3, <4>1, <4>2 DEF StoredTts
    <3>5. log[n].tt \in StoredTts'
      BY <3>1 DEF StoredTts
    <3>6. log[n].tt \in (1 .. MaxTs) \cup {0}
      BY <2>6, <3>1
    <3>7. \A ts \in StoredTts' : ts <= log[n].tt
      BY <3>4
    <3> QED
      BY <2>2, <2>4, <3>2, <3>4, <3>5, <3>6, <3>7
         DEF Stream!Next, Stream!Crash, StoredTts
  <2> QED
    BY <2>3, <2>7, <2>8, LogTypes
<1>5. ASSUME NEW t \in Tx,
             Client(t) \/ (\E p \in Predicate : Intern(t, p)) \/ FinishCommit(t)
      PROVE  UNCHANGED <<committed, PublishedOnly, StoredTts>>
  <2>1. UNCHANGED <<log, committed, commitTs>>
    BY <1>5 DEF Client, Begin, BeginAt, Open, Rollback, CallCommit, EndTx, Insert, Intern,
                FinishCommit, diskVars, txVars
  <2>2. \/ phase' = phase
        \/ /\ phase[t] # "locked"
           /\ \E p \in Phases \ {"locked"} : phase' = [phase EXCEPT ![t] = p]
    <3>1. CASE Begin(t) \/ BeginAt(t)
      BY <3>1 DEF Begin, BeginAt, Open, Phases
    <3>2. CASE Rollback(t) \/ CallCommit(t) \/ FinishCommit(t)
      BY <3>2 DEF Rollback, CallCommit, FinishCommit, EndTx, Phases
    <3>3. CASE (\E w \in Writes : Insert(t, w)) \/ \E p \in Predicate : Intern(t, p)
      BY <3>3 DEF Insert, Intern, txVars
    <3> QED
      BY <1>5, <3>1, <3>2, <3>3 DEF Client
  <2>3. \A u \in Tx : phase[u] = "locked" <=> phase'[u] = "locked"
    BY <2>2 DEF TypeOK
  <2> QED
    BY <2>1, <2>3, QuietForFollowers
<1>6. CASE UNCHANGED vars
  BY <1>6, QuietForFollowers DEF vars, diskVars, txVars
<1> QED
  BY <1>1, <1>2, <1>3, <1>4, <1>5, <1>6 DEF Next, Committing, Stream!Next

\* Followers may treat the store as a stream: one commit at a time is
\* published and not yet written, in the order of the timestamps
\* (TimestampOracle::begin_commit, Transaction::commit, open_db).
THEOREM CommitsAreStreamed == Spec => StreamsCommits
<1>1. Init => TypeOK /\ TsBounded /\ Stream!Init
  BY BoundsAreNat, EmptySeq DEF Init, TypeOK, Phases, TsBounded, Stream!Init, PublishedOnly
<1>2. TypeOK /\ CommitInv /\ TsBounded /\ [Next]_vars => TsBounded'
  BY TypeStep, CommitInvStep, BoundStep
<1>3. TypeOK /\ CommitInv /\ TsBounded /\ [Next]_vars => [Stream!Next]_(Stream!streamVars)
  BY TypeStep, CommitInvStep, StepStreams DEF Stream!streamVars, StoredTts
<1> QED
  BY <1>1, <1>2, <1>3, TypeInvariant, CommitProtocol, PTL
     DEF Spec, StreamsCommits, Stream!Spec


-----------------------------------------------------------------------------
(* Values of a replaced property *)

\* The batches before the i-th.
Before(h, i) == [j \in 1 .. i - 1 |-> h[j]]

BuffersAreWrites == \A t \in Tx : buffer[t] \in Seq(Writes)

\* Every batch of the log is what its transaction's buffer staged over the
\* batches before it.
BatchesAreStaged ==
  \A i \in DOMAIN log : log[i].quads = Staged(buffer[log[i].by], Before(log, i))

ValuesInv == BuffersAreWrites /\ BatchesAreStaged

\* The buffer the i-th batch was staged from.
Buf(i) == buffer[log[i].by]

LEMMA BufFacts ==
  ASSUME TypeOK, ValuesInv, NEW i \in DOMAIN log
  PROVE  /\ Buf(i) \in Seq(WriteRecord)
         /\ log[i].quads = Staged(Buf(i), Before(log, i))
         /\ \A k \in DOMAIN Buf(i) : Buf(i)[k] \in Writes
<1>1. log[i].by \in Tx
  BY LogTypes
<1>2. Buf(i) \in Seq(WriteRecord) /\ Buf(i) \in Seq(Writes)
  BY <1>1 DEF TypeOK, ValuesInv, BuffersAreWrites, Buf
<1> QED
  BY <1>2, ElementOfSeq, LenProperties DEF ValuesInv, BatchesAreStaged, Buf

LEMMA QuadTypes ==
  ASSUME TypeOK, NEW i \in DOMAIN log, NEW q \in log[i].quads
  PROVE  q \in Quad /\ q.start \in Nat /\ q.end \in Nat
<1>1. log[i] \in Batch
  BY LogTypes
<1> QED
  BY <1>1 DEF Batch, Quad

LEMMA BeforeFacts ==
  ASSUME TypeOK, NEW i \in DOMAIN log
  PROVE  /\ DOMAIN Before(log, i) = 1 .. i - 1
         /\ \A j \in 1 .. i - 1 : j \in DOMAIN log /\ j < i /\ Before(log, i)[j] = log[j]
BY LogTypes DEF Before

\* How a stored version came to be: by a write of its transaction, or as the
\* closing of one, or as the closing of the newest version before.
Wrote(i, k, q) ==
  /\ k \in OwnWrites(Buf(i), q.slot, q.val)
  /\ q.start = Buf(i)[k].start /\ q.end = Buf(i)[k].end

ClosedAt(i, k, q) ==
  /\ k \in ClosingsOf(Buf(i), Before(log, i), q.slot, q.val)
  /\ q.end = Buf(i)[k].start
  /\ \/ \E e \in OwnWrites(Buf(i), q.slot, q.val) : e < k /\ q.start = Buf(i)[e].start
     \/ \E j \in 1 .. i - 1 : \E x \in VersionIn(log[j], q.slot, q.val) :
           /\ q.start = x.start
           /\ \A m \in j + 1 .. i - 1 : VersionIn(log[m], q.slot, q.val) = {}

LEMMA VersionFrom ==
  ASSUME TypeOK, ValuesInv, NEW i \in DOMAIN log, NEW q \in log[i].quads
  PROVE  LET ks == Puts(Buf(i), Before(log, i), q.slot, q.val)
         IN  /\ ks # {} /\ LastOf(ks) \in ks /\ LastOf(ks) \in DOMAIN Buf(i)
             /\ \A m \in ks : m <= LastOf(ks)
             /\ Wrote(i, LastOf(ks), q) \/ ClosedAt(i, LastOf(ks), q)
<1> DEFINE ws == Buf(i)
           h == Before(log, i)
           s == q.slot
           v == q.val
           k == LastOf(Puts(ws, h, s, v))
<1>1. ws \in Seq(WriteRecord) /\ q \in Staged(ws, h)
  BY BufFacts
<1> HIDE DEF ws, h
<1>2. /\ Puts(ws, h, s, v) # {} /\ k \in Puts(ws, h, s, v) /\ k \in DOMAIN ws
      /\ \/ /\ k \in OwnWrites(ws, s, v)
            /\ q = [slot |-> s, val |-> v, start |-> ws[k].start, end |-> ws[k].end]
         \/ /\ k \in ClosingsOf(ws, h, s, v)
            /\ \E x \in Superseded(ws, h, s, v, k) :
                 q = [slot |-> s, val |-> v, start |-> x.start, end |-> ws[k].start]
  BY <1>1, StagedVersion
<1>3. \A m \in Puts(ws, h, s, v) : m <= k
  BY <1>1, <1>2, PutsFacts
<1> HIDE DEF k
<1>4. ASSUME k \in OwnWrites(ws, s, v),
             q = [slot |-> s, val |-> v, start |-> ws[k].start, end |-> ws[k].end]
      PROVE  Wrote(i, k, q)
  <2>1. q.start = ws[k].start /\ q.end = ws[k].end
    BY <1>4
  <2> QED
    BY <1>4, <2>1 DEF Wrote, ws
<1>5. ASSUME k \in ClosingsOf(ws, h, s, v), NEW x \in Superseded(ws, h, s, v, k),
             q = [slot |-> s, val |-> v, start |-> x.start, end |-> ws[k].start]
      PROVE  ClosedAt(i, k, q)
  <2>1. q.start = x.start /\ q.end = ws[k].start
    BY <1>5
  <2>2. CASE \E e \in OwnWrites(ws, s, v) : e < k /\ x = ws[e]
    BY <1>5, <2>1, <2>2 DEF ClosedAt, ws, h
  <2>3. ASSUME NEW j \in DOMAIN h, x \in VersionIn(h[j], s, v),
               \A m \in DOMAIN h : m > j => VersionIn(h[m], s, v) = {}
        PROVE  ClosedAt(i, k, q)
    <3>1. DOMAIN h = 1 .. i - 1 /\ \A m \in 1 .. i - 1 : h[m] = log[m]
      BY BeforeFacts DEF h
    <3>2. i \in Nat
      BY LogTypes
    <3>3. \A m \in j + 1 .. i - 1 : m \in DOMAIN h /\ m > j
      BY <3>1, <3>2
    <3>4. \A m \in j + 1 .. i - 1 : VersionIn(log[m], s, v) = {}
      BY <2>3, <3>1, <3>3
    <3>5. j \in 1 .. i - 1 /\ x \in VersionIn(log[j], s, v)
      BY <2>3, <3>1
    <3> QED
      BY <1>5, <2>1, <3>4, <3>5 DEF ClosedAt, ws, h
  <2> QED
    BY <1>1, <1>5, <2>2, <2>3, SupersededFrom
<1> QED
  BY <1>2, <1>3, <1>4, <1>5 DEF k, ws, h

\* A quad has one version per batch.
LEMMA OneVersion ==
  ASSUME TypeOK, ValuesInv
  PROVE  \A i \in DOMAIN log : \A q, r \in log[i].quads :
            q.slot = r.slot /\ q.val = r.val => q = r
<1> DEFINE Bad == {i \in DOMAIN log : \E q, r \in log[i].quads :
                      q.slot = r.slot /\ q.val = r.val /\ q # r}
<1> SUFFICES ASSUME Bad # {}
             PROVE  FALSE
  OBVIOUS
<1>1. Bad \in SUBSET Nat
  BY LogTypes
<1>2. PICK i \in Bad : \A u \in Bad : i <= u
  <2> HIDE DEF Bad
  <2> QED
    BY <1>1, LeastOf
<1>3. PICK q \in log[i].quads, r \in log[i].quads : q.slot = r.slot /\ q.val = r.val /\ q # r
  OBVIOUS
<1> DEFINE ws == Buf(i)
           h == Before(log, i)
           s == q.slot
           v == q.val
           k == LastOf(Puts(ws, h, s, v))
<1>4. i \in DOMAIN log /\ ws \in Seq(WriteRecord) /\ q \in Staged(ws, h) /\ r \in Staged(ws, h)
  BY <1>3, BufFacts
<1>5. /\ DOMAIN h = 1 .. i - 1
      /\ \A j \in 1 .. i - 1 : j \in DOMAIN log /\ h[j] = log[j] /\ j < i
  BY <1>4, BeforeFacts
<1> HIDE DEF ws, h
<1>6. \A y \in {q, r} :
        \/ /\ k \in OwnWrites(ws, s, v)
           /\ y = [slot |-> s, val |-> v, start |-> ws[k].start, end |-> ws[k].end]
        \/ /\ k \in ClosingsOf(ws, h, s, v)
           /\ \E x \in Superseded(ws, h, s, v, k) :
                y = [slot |-> s, val |-> v, start |-> x.start, end |-> ws[k].start]
  BY <1>3, <1>4, StagedVersion
<1> HIDE DEF k, Bad
<1>7. \A x, y \in Superseded(ws, h, s, v, k) : x = y
  <2> SUFFICES ASSUME NEW x \in Superseded(ws, h, s, v, k), NEW y \in Superseded(ws, h, s, v, k),
                      x # y
               PROVE  FALSE
    OBVIOUS
  <2>1. StagedBefore(ws, s, v, k) = {} /\ x \in Newest(h, s, v) /\ y \in Newest(h, s, v)
    BY DEF Superseded, OpenValue
  <2>2. PICK a \in DOMAIN h : /\ x \in VersionIn(h[a], s, v)
                              /\ \A m \in DOMAIN h : m > a => VersionIn(h[m], s, v) = {}
    BY <2>1 DEF Newest
  <2>3. PICK b \in DOMAIN h : /\ y \in VersionIn(h[b], s, v)
                              /\ \A m \in DOMAIN h : m > b => VersionIn(h[m], s, v) = {}
    BY <2>1 DEF Newest
  <2>4. a = b
    <3>1. ~(a > b) /\ ~(b > a)
      BY <2>2, <2>3
    <3>2. a \in Int /\ b \in Int
      BY <1>5
    <3> QED
      BY <3>1, <3>2
  <2>5. a \in Bad
    BY <1>5, <2>2, <2>3, <2>4 DEF VersionIn, Bad
  <2>6. a < i /\ a \in Nat /\ i \in Nat
    BY <1>1, <1>5, <2>5
  <2> QED
    BY <1>2, <2>5, <2>6
<1>8. q.start = r.start /\ q.end = r.end /\ q = r
  <2>1. CASE k \in OwnWrites(ws, s, v)
    <3>1. k \notin ClosingsOf(ws, h, s, v)
      BY <2>1 DEF OwnWrites, ClosingsOf
    <3> QED
      BY <1>6, <3>1
  <2>2. CASE k \notin OwnWrites(ws, s, v)
    BY <1>6, <1>7, <2>2
  <2> QED
    BY <2>1, <2>2
<1> QED
  BY <1>3, <1>8


\* A version starts when some write to its slot does: one at or before the
\* last put of the version in its batch, or one of an earlier batch.
LEMMA StartWritten ==
  ASSUME TypeOK, ValuesInv
  PROVE  \A i \in DOMAIN log : \A q \in log[i].quads :
            \E j \in DOMAIN log : \E e \in WritesTo(q.slot, Buf(j)) :
               /\ q.start = Buf(j)[e].start
               /\ j < i \/ (j = i /\ e <= LastOf(Puts(Buf(i), Before(log, i), q.slot, q.val)))
<1> DEFINE Start(i, q) ==
             \E j \in DOMAIN log : \E e \in WritesTo(q.slot, Buf(j)) :
               /\ q.start = Buf(j)[e].start
               /\ j < i \/ (j = i /\ e <= LastOf(Puts(Buf(i), Before(log, i), q.slot, q.val)))
           Bad == {i \in DOMAIN log : \E q \in log[i].quads : ~Start(i, q)}
<1> SUFFICES ASSUME Bad # {}
             PROVE  FALSE
  OBVIOUS
<1>1. Bad \in SUBSET Nat
  BY LogTypes
<1>2. PICK i \in Bad : \A u \in Bad : i <= u
  <2> HIDE DEF Bad
  <2> QED
    BY <1>1, LeastOf
<1>3. PICK q \in log[i].quads : ~Start(i, q)
  OBVIOUS
<1> DEFINE k == LastOf(Puts(Buf(i), Before(log, i), q.slot, q.val))
<1>4. i \in DOMAIN log /\ i \in Nat
  BY <1>1
<1>5. Wrote(i, k, q) \/ ClosedAt(i, k, q)
  BY <1>4, VersionFrom
<1>6. k \in Nat
  BY <1>4, VersionFrom, BufFacts, BufferFacts
<1> HIDE DEF k, Bad
<1>7. \A e \in OwnWrites(Buf(i), q.slot, q.val) : e \in WritesTo(q.slot, Buf(i)) /\ e \in Nat
  <2>1. DOMAIN Buf(i) \subseteq Nat
    BY <1>4, BufFacts, BufferFacts
  <2> QED
    BY <2>1 DEF OwnWrites, WritesTo
<1>8. CASE \E e \in OwnWrites(Buf(i), q.slot, q.val) : e <= k /\ q.start = Buf(i)[e].start
  BY <1>3, <1>4, <1>7, <1>8 DEF k
<1>9. ASSUME NEW j \in 1 .. i - 1, NEW x \in VersionIn(log[j], q.slot, q.val), q.start = x.start
      PROVE  FALSE
  <2>1. j \in DOMAIN log /\ j < i /\ j \in Nat /\ x \in log[j].quads /\ x.slot = q.slot
    BY <1>4, BeforeFacts DEF VersionIn
  <2>2. Start(j, x)
    <3>1. j \notin Bad
      BY <1>2, <1>4, <2>1
    <3> HIDE DEF Start
    <3> QED
      BY <2>1, <3>1 DEF Bad
  <2>3. PICK m \in DOMAIN log : /\ m < j \/ m = j
                                /\ \E e \in WritesTo(x.slot, Buf(m)) : x.start = Buf(m)[e].start
    BY <2>2
  <2>4. m < i
    BY <1>4, <2>1, <2>3, LogTypes
  <2> QED
    BY <1>3, <1>9, <2>1, <2>3, <2>4
<1>10. CASE Wrote(i, k, q)
  BY <1>6, <1>8, <1>10 DEF Wrote
<1>11. CASE ClosedAt(i, k, q)
  BY <1>6, <1>7, <1>8, <1>9, <1>11 DEF ClosedAt
<1> QED
  BY <1>5, <1>10, <1>11

\* With writes forward in valid time, the versions of a quad start in the
\* order they were committed in.
LEMMA StartsForward ==
  ASSUME TypeOK, ValuesInv, NEW s, NEW v, Forward(s)
  PROVE  \A i, j \in DOMAIN log :
            \A x \in VersionIn(log[i], s, v), z \in VersionIn(log[j], s, v) :
               i < j => x.start <= z.start
<1> DEFINE Bad == {j \in DOMAIN log : \E i \in DOMAIN log :
                      \E x \in VersionIn(log[i], s, v), z \in VersionIn(log[j], s, v) :
                         i < j /\ ~(x.start <= z.start)}
<1> SUFFICES ASSUME Bad # {}
             PROVE  FALSE
  OBVIOUS
<1>1. Bad \in SUBSET Nat
  BY LogTypes
<1>2. PICK j \in Bad : \A u \in Bad : j <= u
  <2> HIDE DEF Bad
  <2> QED
    BY <1>1, LeastOf
<1>30. PICK i \in DOMAIN log :
          \E x \in VersionIn(log[i], s, v), z \in VersionIn(log[j], s, v) :
             i < j /\ ~(x.start <= z.start)
  OBVIOUS
<1>3. PICK x \in VersionIn(log[i], s, v), z \in VersionIn(log[j], s, v) :
         i < j /\ ~(x.start <= z.start)
  BY <1>30
<1>4. j \in DOMAIN log /\ j \in Nat /\ i \in Nat
  BY <1>1, LogTypes
<1> HIDE DEF Bad
<1>5. z \in log[j].quads /\ z.slot = s /\ z.val = v /\ x \in log[i].quads /\ x.slot = s /\ x.val = v
  BY <1>3 DEF VersionIn
<1> DEFINE k == LastOf(Puts(Buf(j), Before(log, j), s, v))
<1>6. Wrote(j, k, z) \/ ClosedAt(j, k, z)
  BY <1>4, <1>5, VersionFrom
<1> HIDE DEF k
<1>7. ASSUME NEW e \in OwnWrites(Buf(j), s, v), z.start = Buf(j)[e].start
      PROVE  FALSE
  <2>0. PICK m \in DOMAIN log :
           \E l \in WritesTo(s, Buf(m)) : x.start = Buf(m)[l].start /\ (m < i \/ m = i)
    BY <1>5, StartWritten
  <2>1. PICK l \in WritesTo(s, Buf(m)) :
           x.start = Buf(m)[l].start /\ (m < i \/ m = i)
    BY <2>0
  <2>2. m < j /\ e \in WritesTo(s, Buf(j))
    BY <1>3, <1>4, <2>1, LogTypes DEF OwnWrites, WritesTo
  <2>3. Buf(m)[l].start <= Buf(j)[e].start
    BY <1>4, <2>1, <2>2 DEF Forward, Buf
  <2> QED
    BY <1>3, <1>7, <2>1, <2>3
<1>8. ASSUME NEW n \in 1 .. j - 1, NEW y \in VersionIn(log[n], s, v), z.start = y.start,
             \A m \in n + 1 .. j - 1 : VersionIn(log[m], s, v) = {}
      PROVE  FALSE
  <2>1. n \in DOMAIN log /\ n < j /\ n \in Nat /\ y \in log[n].quads /\ y.slot = s /\ y.val = v
    BY <1>4, BeforeFacts DEF VersionIn
  <2>2. ~(i > n)
    <3>1. i > n => i \in n + 1 .. j - 1
      BY <1>3, <1>4, <2>1
    <3> QED
      BY <1>3, <1>8, <3>1
  <2>3. CASE i = n
    <3>1. x = y
      BY <1>5, <2>1, <2>3, OneVersion
    <3>2. x.start \in Nat
      BY <1>5, QuadTypes
    <3> QED
      BY <1>3, <1>8, <3>1, <3>2
  <2>4. CASE i < n
    <3>1. n \notin Bad
      BY <1>2, <1>4, <2>1
    <3>2. x.start <= y.start
      BY <1>3, <2>1, <2>4, <3>1 DEF Bad
    <3> QED
      BY <1>3, <1>8, <3>2
  <2> QED
    BY <1>4, <2>1, <2>2, <2>3, <2>4
<1> QED
  BY <1>5, <1>6, <1>7, <1>8 DEF Wrote, ClosedAt

\* An open-ended version was put by a write, and no Replace follows it in its
\* batch: the first that did would have closed it, or written it again.
LEMMA OpenIsLast ==
  ASSUME TypeOK, ValuesInv, NEW s, OnlyReplaced(s), NEW i \in DOMAIN log, NEW q \in log[i].quads,
         q.slot = s, q.end = EndOfTime
  PROVE  LET k == LastOf(Puts(Buf(i), Before(log, i), s, q.val))
         IN  /\ Wrote(i, k, q) /\ k \in WritesTo(s, Buf(i)) /\ k \in ReplacesOf(Buf(i), s)
             /\ Buf(i)[k].val = q.val /\ q.val \notin Node
             /\ \A m \in ReplacesOf(Buf(i), s) : m <= k
<1> DEFINE ws == Buf(i)
           h == Before(log, i)
           v == q.val
           ks == Puts(ws, h, s, v)
           k == LastOf(ks)
<1>1. /\ ws \in Seq(WriteRecord) /\ k \in ks /\ k \in DOMAIN ws
      /\ \A m \in ks : m <= k
      /\ Wrote(i, k, q) \/ ClosedAt(i, k, q)
  BY BufFacts, VersionFrom
<1>2. DOMAIN ws \subseteq Nat /\ \A m \in DOMAIN ws : ws[m] \in Writes
  BY BufFacts, BufferFacts
<1> HIDE DEF ws, h, k, ks
<1>3. Wrote(i, k, q)
  <2> SUFFICES ASSUME ClosedAt(i, k, q)
               PROVE  FALSE
    BY <1>1
  <2>1. q.end = ws[k].start
    BY DEF ClosedAt, ws
  <2>2. ws[k] \in Writes /\ ws[k].start < EndOfTime
    BY <1>1, <1>2, WritesType
  <2>3. EndOfTime \in Nat
    BY EndOfTimeType
  <2> QED
    BY <2>1, <2>2, <2>3
<1>4. /\ k \in OwnWrites(ws, s, v) /\ ws[k].end = EndOfTime /\ ws[k].slot = s /\ ws[k].val = v
      /\ k \in WritesTo(s, ws)
  BY <1>3 DEF Wrote, OwnWrites, WritesTo, ws
<1>5. Replaces(ws[k]) /\ k \in ReplacesOf(ws, s)
  BY <1>1, <1>4 DEF OnlyReplaced, ws, Buf, ReplacesOf
<1>6. v \notin Node
  BY <1>1, <1>2, <1>4, <1>5, ObjectsAreDistinct DEF Replaces
<1>7. ASSUME NEW l \in ReplacesOf(ws, s), ~(l <= k)
      PROVE  FALSE
  <2> DEFINE Later == {r \in ReplacesOf(ws, s) : r > k}
  <2>1. Later \in SUBSET Nat /\ l \in Later
    BY <1>1, <1>2, <1>7 DEF ReplacesOf
  <2>2. PICK m \in Later : \A u \in Later : m <= u
    <3> HIDE DEF Later
    <3> QED
      BY <2>1, LeastOf
  <2>3. m \in ReplacesOf(ws, s) /\ m > k /\ m \in Nat /\ k \in Nat /\ m \in DOMAIN ws
    BY <1>1, <1>2, <2>1, <2>2 DEF ReplacesOf
  <2>4. CASE ws[m].val = v
    <3>1. m \in OwnWrites(ws, s, v)
      BY <2>3, <2>4 DEF OwnWrites, ReplacesOf, Replaces
    <3> QED
      BY <1>1, <2>3, <3>1 DEF ks, Puts
  <2>5. CASE ws[m].val # v
    <3> DEFINE own == StagedBefore(ws, s, v, m)
    <3>1. k \in own
      <4>1. \A r \in ReplacesOf(ws, s) : r < m => r <= k
        <5> SUFFICES ASSUME NEW r \in ReplacesOf(ws, s), r < m, ~(r <= k)
                     PROVE  FALSE
          OBVIOUS
        <5>1. r \in Nat
          BY <1>2 DEF ReplacesOf
        <5> QED
          BY <2>2, <2>3, <5>1
      <4> QED
        BY <1>4, <2>3, <4>1 DEF StagedBefore
    <3>2. own \in SUBSET (1 .. Len(ws)) /\ Len(ws) \in Nat
      BY <1>1, BufferFacts DEF StagedBefore, OwnWrites
    <3>3. LastOf(own) = k
      <4>1. LastOf(own) \in own /\ \A r \in own : r <= LastOf(own)
        <5> HIDE DEF own
        <5> QED
          BY <3>1, <3>2, LastOfFacts
      <4>2. LastOf(own) \in ks /\ LastOf(own) \in Nat
        BY <3>2, <4>1 DEF StagedBefore, ks, Puts
      <4>3. LastOf(own) <= k /\ k <= LastOf(own)
        BY <1>1, <3>1, <4>1, <4>2
      <4> QED
        BY <2>3, <4>2, <4>3
    <3>4. ws[k] \in Superseded(ws, h, s, v, m)
      BY <1>4, <3>1, <3>3 DEF Superseded
    <3>5. m \in ClosingsOf(ws, h, s, v)
      BY <1>6, <2>3, <2>5, <3>4 DEF ClosingsOf
    <3> QED
      BY <1>1, <2>3, <3>5 DEF ks, Puts
  <2> QED
    BY <2>4, <2>5
<1> QED
  BY <1>3, <1>4, <1>5, <1>6, <1>7 DEF ws, h, k, ks


\* A version of (s, v) that governs at (ts, vt), in the batch it is from.
GoverningIn(i, q, s, v, ts, vt) ==
  /\ q \in VersionIn(log[i], s, v)
  /\ log[i].tt <= ts /\ q.start <= vt
  /\ \A j \in DOMAIN log : \A z \in VersionIn(log[j], s, v) :
        log[j].tt <= ts /\ z.start <= vt
          => ~(z.start > q.start \/ (z.start = q.start /\ log[j].tt > log[i].tt))

LEMMA OpenGoverns ==
  ASSUME NEW s, NEW v, NEW ts, NEW vt, v \in OpenAt(log, s, ts, vt)
  PROVE  \E i \in DOMAIN log : \E q \in VersionIn(log[i], s, v) :
            q.end = EndOfTime /\ GoverningIn(i, q, s, v, ts, vt)
<1> DEFINE rec(i, q) == [start |-> q.start, end |-> q.end, tt |-> log[i].tt]
<1>1. PICK x \in VersionsOf(log, s, v) :
         Governs(x, VersionsOf(log, s, v), ts, vt) /\ x.end = EndOfTime
  BY DEF OpenAt
<1>2. PICK i \in DOMAIN log : \E q \in VersionIn(log[i], s, v) : x = rec(i, q)
  BY DEF VersionsOf
<1>3. PICK q \in VersionIn(log[i], s, v) : x = rec(i, q)
  BY <1>2
<1>4. ASSUME NEW j \in DOMAIN log, NEW z \in VersionIn(log[j], s, v)
      PROVE  rec(j, z) \in VersionsOf(log, s, v)
  <2>1. rec(j, z) \in {rec(j, y) : y \in VersionIn(log[j], s, v)}
    OBVIOUS
  <2>2. VersionsOf(log, s, v) = UNION {{rec(k, y) : y \in VersionIn(log[k], s, v)} : k \in DOMAIN log}
    BY DEF VersionsOf
  <2> HIDE DEF rec
  <2> QED
    BY <2>1, <2>2
<1>5. x.start = q.start /\ x.end = q.end /\ x.tt = log[i].tt
  BY <1>3
<1>6. \A j \in DOMAIN log : \A z \in VersionIn(log[j], s, v) :
        log[j].tt <= ts /\ z.start <= vt
          => ~(z.start > q.start \/ (z.start = q.start /\ log[j].tt > log[i].tt))
  <2> SUFFICES ASSUME NEW j \in DOMAIN log, NEW z \in VersionIn(log[j], s, v),
                      log[j].tt <= ts, z.start <= vt
               PROVE  ~(z.start > q.start \/ (z.start = q.start /\ log[j].tt > log[i].tt))
    OBVIOUS
  <2>1. rec(j, z).start = z.start /\ rec(j, z).tt = log[j].tt
    OBVIOUS
  <2> HIDE DEF rec
  <2>2. InView(rec(j, z), ts, vt)
    BY <2>1 DEF InView
  <2>3. ~Beats(rec(j, z), x)
    BY <1>1, <1>4, <2>2 DEF Governs
  <2> QED
    BY <1>5, <2>1, <2>3 DEF Beats
<1>7. log[i].tt <= ts /\ q.start <= vt
  BY <1>1, <1>5 DEF Governs, InView
<1> QED
  BY <1>1, <1>3, <1>5, <1>6, <1>7 DEF GoverningIn

\* Of two values, the one whose Replace comes later was not met by the other:
\* the newest version of the other was closed, and still governs.
LEMMA LaterReplaceCloses ==
  ASSUME TypeOK, CommitInv, ValuesInv, NEW ts \in Nat, NEW vt \in Nat,
         NEW s, OnlyReplaced(s), Forward(s), ReplacesLast(s), NEW v, NEW w, v # w,
         NEW i \in DOMAIN log, NEW q \in VersionIn(log[i], s, v),
         q.end = EndOfTime, GoverningIn(i, q, s, v, ts, vt),
         NEW j \in DOMAIN log, NEW r \in VersionIn(log[j], s, w),
         r.end = EndOfTime, GoverningIn(j, r, s, w, ts, vt), i < j
  PROVE  FALSE
<1> DEFINE ws == Buf(j)
           h == Before(log, j)
           l == LastOf(Puts(ws, h, s, w))
<1>1. /\ q \in log[i].quads /\ q.slot = s /\ q.val = v
      /\ r \in log[j].quads /\ r.slot = s /\ r.val = w
      /\ q.start \in Nat /\ r.start \in Nat
  BY QuadTypes DEF VersionIn
<1>2. v \notin Node
  BY <1>1, OpenIsLast
<1>3. /\ l \in WritesTo(s, ws) /\ l \in ReplacesOf(ws, s) /\ ws[l].val = w
      /\ r.start = ws[l].start
      /\ \A m \in ReplacesOf(ws, s) : m <= l
  BY <1>1, OpenIsLast DEF Wrote
<1>4. /\ ws \in Seq(WriteRecord) /\ DOMAIN ws = 1 .. Len(ws) /\ Len(ws) \in Nat
      /\ \A m \in DOMAIN ws : ws[m].start \in Nat /\ ws[m] \in Writes
  BY BufFacts, BufferFacts
<1>5. r.start <= vt /\ log[j].tt <= ts /\ log[i].tt < log[j].tt
  BY DEF GoverningIn, CommitInv, TimestampsOrdered
<1>6. DOMAIN log = 1 .. Len(log) /\ Len(log) \in Nat /\ \A m \in DOMAIN log : log[m].tt \in Nat
  BY LogTypes
<1>7. DOMAIN h = 1 .. j - 1 /\ \A m \in 1 .. j - 1 : m \in DOMAIN log /\ h[m] = log[m]
  BY BeforeFacts
<1> HIDE DEF l, h, ws
\* No later version of v that is in view starts at or before the Replace.
<1>8. ASSUME NEW n \in DOMAIN log, NEW z \in VersionIn(log[n], s, v), i < n,
             log[n].tt <= ts, z.start <= vt
      PROVE  FALSE
  <2>1. q.start <= z.start /\ z.start \in Nat
    BY <1>8, StartsForward, QuadTypes DEF VersionIn
  <2>2. log[i].tt < log[n].tt
    BY <1>8 DEF CommitInv, TimestampsOrdered
  <2>3. ~(z.start > q.start \/ (z.start = q.start /\ log[n].tt > log[i].tt))
    BY <1>8 DEF GoverningIn
  <2> QED
    BY <1>1, <1>6, <2>1, <2>2, <2>3
\* A write of an earlier batch, or before l in this one, starts by vt.
<1>9. ASSUME NEW n \in DOMAIN log, NEW e \in WritesTo(s, Buf(n)),
             n < j \/ (n = j /\ e <= l)
      PROVE  Buf(n)[e].start <= vt
  <2>1. CASE n < j \/ (n = j /\ e < l)
    <3>1. Buf(n)[e].start <= ws[l].start
      BY <1>3, <2>1 DEF Forward, Buf, ws
    <3>2. Buf(n)[e].start \in Nat
      BY BufFacts, BufferFacts DEF WritesTo
    <3> QED
      BY <1>1, <1>3, <1>5, <3>1, <3>2
  <2>2. CASE n = j /\ e = l
    BY <1>3, <1>5, <2>2 DEF ws
  <2>3. n = j => e \in DOMAIN ws /\ l \in DOMAIN ws
    BY <1>3 DEF WritesTo, ws
  <2> QED
    BY <1>4, <1>9, <2>1, <2>2, <2>3
<1>10. CASE VersionIn(log[j], s, v) # {}
  <2>1. PICK z \in VersionIn(log[j], s, v) : TRUE
    BY <1>10
  <2> DEFINE k == LastOf(Puts(ws, h, s, v))
  <2>2. z \in log[j].quads /\ z.slot = s /\ z.val = v
    BY DEF VersionIn
  <2>3. Wrote(j, k, z) \/ ClosedAt(j, k, z)
    BY <2>2, VersionFrom DEF ws, h
  <2>4. PICK n \in DOMAIN log :
           \E e \in WritesTo(s, Buf(n)) :
              z.start = Buf(n)[e].start /\ (n < j \/ (n = j /\ e <= k))
    BY <2>2, StartWritten DEF ws, h
  <2>5. PICK e \in WritesTo(s, Buf(n)) :
           z.start = Buf(n)[e].start /\ (n < j \/ (n = j /\ e <= k))
    BY <2>4
  <2>6. k \in DOMAIN ws /\ l \in DOMAIN ws /\ (n = j => e \in DOMAIN ws)
    <3>1. k \in DOMAIN ws
      BY <2>2, VersionFrom DEF ws, h
    <3> QED
      BY <1>3, <3>1 DEF WritesTo, ws
  <2>7. k <= l
    <3>1. CASE k \in ReplacesOf(ws, s)
      BY <1>3, <3>1
    <3>2. CASE k \notin ReplacesOf(ws, s)
      <4>1. Wrote(j, k, z)
        BY <2>2, <2>3, <3>2 DEF ClosedAt, ClosingsOf, ws
      <4>2. k \in WritesTo(s, ws) /\ ws[k].slot = s
        BY <2>2, <4>1 DEF Wrote, OwnWrites, WritesTo, ws
      <4>3. ~(l < k)
        <5>1. Replaces(ws[l]) /\ ~Replaces(ws[k])
          BY <1>3, <2>6, <3>2, <4>2 DEF ReplacesOf
        <5> QED
          BY <1>3, <4>2, <5>1 DEF ReplacesLast, Buf, ws
      <4> QED
        BY <1>4, <2>6, <4>3
    <3> QED
      BY <3>1, <3>2
  <2>8. z.start <= vt
    <3>1. n < j \/ (n = j /\ e <= l)
      BY <1>4, <2>5, <2>6, <2>7
    <3> QED
      BY <1>9, <2>5, <3>1
  <2> QED
    BY <1>5, <1>8, <2>8
<1>11. CASE VersionIn(log[j], s, v) = {}
  <2> DEFINE Has == {m \in 1 .. j - 1 : VersionIn(log[m], s, v) # {}}
  <2>1. Has \in SUBSET (0 .. j - 1) /\ j - 1 \in Nat /\ i \in Has
    BY <1>6
  <2>2. PICK n \in Has : \A m \in Has : m <= n
    <3> HIDE DEF Has
    <3> QED
      BY <2>1, GreatestOf
  <2>3. PICK z \in VersionIn(log[n], s, v) : TRUE
    BY <2>2
  <2>4. /\ n \in DOMAIN log /\ n \in 1 .. j - 1 /\ n < j /\ i <= n
        /\ z \in log[n].quads /\ z.slot = s /\ z.val = v
    BY <1>6, <1>7, <2>1, <2>2 DEF VersionIn
  <2>5. z \in Newest(h, s, v)
    <3>1. \A m \in DOMAIN h : m > n => VersionIn(h[m], s, v) = {}
      <4> SUFFICES ASSUME NEW m \in DOMAIN h, m > n, VersionIn(h[m], s, v) # {}
                   PROVE  FALSE
        OBVIOUS
      <4>1. m \in Has
        BY <1>7
      <4>2. m \in Nat /\ n \in Nat
        BY <1>6, <1>7, <2>4
      <4> HIDE DEF Has
      <4>3. m <= n
        BY <2>2, <4>1
      <4> QED
        BY <4>2, <4>3
    <3>2. n \in DOMAIN h /\ z \in VersionIn(h[n], s, v)
      BY <1>7, <2>4
    <3> QED
      BY <3>1, <3>2 DEF Newest
  <2>6. ~(z.end > ws[l].start)
    <3> SUFFICES ASSUME z.end > ws[l].start
                 PROVE  FALSE
      OBVIOUS
    <3>1. OwnWrites(ws, s, v) = {} /\ ClosingsOf(ws, h, s, v) = {}
      <4> SUFFICES ASSUME OwnWrites(ws, s, v) \cup ClosingsOf(ws, h, s, v) # {}
                   PROVE  FALSE
        OBVIOUS
      <4> DEFINE k == LastOf(Puts(ws, h, s, v))
      <4>1. StagedOf(ws, h, s, v) = WrittenBy(k, ws, h, s, v)
        BY DEF StagedOf, Puts
      <4>2. k \in Puts(ws, h, s, v)
        BY <1>4, PutsFacts DEF Puts
      <4>3. \E y \in WrittenBy(k, ws, h, s, v) : y.slot = s /\ y.val = v
        <5>1. CASE k \in OwnWrites(ws, s, v)
          BY <5>1 DEF WrittenBy
        <5>2. CASE k \notin OwnWrites(ws, s, v)
          <6>1. k \in ClosingsOf(ws, h, s, v)
            BY <4>2, <5>2 DEF Puts
          <6>2. PICK x \in Superseded(ws, h, s, v, k) : TRUE
            BY <6>1 DEF ClosingsOf
          <6> DEFINE y == [slot |-> s, val |-> v, start |-> x.start, end |-> ws[k].start]
          <6>3. y \in WrittenBy(k, ws, h, s, v)
            BY <5>2, <6>2 DEF WrittenBy
          <6>4. y.slot = s /\ y.val = v
            OBVIOUS
          <6> QED
            BY <6>3, <6>4
        <5> QED
          BY <5>1, <5>2
      <4>4. s \in Slot /\ v \in Value
        BY <1>1, QuadTypes DEF Quad
      <4>5. StagedOf(ws, h, s, v) \subseteq log[j].quads
        <5>1. log[j].quads = Staged(ws, h)
          BY BufFacts DEF ws, h
        <5> QED
          BY <4>4, <5>1 DEF Staged
      <4> QED
        BY <1>11, <4>1, <4>3, <4>5 DEF VersionIn
    <3>2. StagedBefore(ws, s, v, l) = {}
      BY <3>1 DEF StagedBefore
    <3>3. z \in Superseded(ws, h, s, v, l)
      BY <1>2, <2>5, <3>2 DEF Superseded, OpenValue
    <3>4. l \in ClosingsOf(ws, h, s, v)
      BY <1>2, <1>3, <3>3 DEF ClosingsOf
    <3> QED
      BY <3>1, <3>4
  <2>7. CASE n = i
    <3>1. z = q
      BY <1>1, <2>4, <2>7, OneVersion
    <3>2. ws[l] \in Writes /\ ws[l].start \in Nat
      BY <1>3, <1>4 DEF WritesTo
    <3>3. ws[l].start < EndOfTime
      BY <3>2, WritesType
    <3> QED
      BY <2>6, <3>1, <3>2, <3>3, EndOfTimeType
  <2>8. CASE n # i
    <3>1. i < n /\ log[n].tt < log[j].tt
      BY <1>6, <2>4, <2>8 DEF CommitInv, TimestampsOrdered
    <3>2. PICK m \in DOMAIN log :
             \E e \in WritesTo(s, Buf(m)) : z.start = Buf(m)[e].start /\ (m < n \/ m = n)
      BY <2>4, StartWritten
    <3>3. m < j
      BY <1>6, <2>4, <3>2
    <3>4. z.start <= vt
      BY <1>9, <3>2, <3>3
    <3>5. log[n].tt <= ts
      BY <1>5, <1>6, <2>4, <3>1
    <3> QED
      BY <1>8, <2>4, <3>1, <3>4, <3>5
  <2> QED
    BY <2>7, <2>8
<1> QED
  BY <1>10, <1>11

\* Why a replaced property keeps one value, in any state of the invariant.
LEMMA OneValueOpen ==
  ASSUME TypeOK, CommitInv, ValuesInv
  PROVE  ReplaceKeepsOneValue
<1> SUFFICES ASSUME NEW s \in Slot, OnlyReplaced(s), Forward(s), ReplacesLast(s),
                    NEW ts \in 0 .. committed, NEW vt \in Instant,
                    NEW v \in OpenAt(log, s, ts, vt), NEW w \in OpenAt(log, s, ts, vt), v # w
             PROVE  FALSE
  BY DEF ReplaceKeepsOneValue
<1>1. ts \in Nat /\ vt \in Nat
  BY InstantType DEF TypeOK
<1>2. PICK i \in DOMAIN log : \E q \in VersionIn(log[i], s, v) :
         q.end = EndOfTime /\ GoverningIn(i, q, s, v, ts, vt)
  BY OpenGoverns
<1>3. PICK q \in VersionIn(log[i], s, v) : q.end = EndOfTime /\ GoverningIn(i, q, s, v, ts, vt)
  BY <1>2
<1>4. PICK j \in DOMAIN log : \E r \in VersionIn(log[j], s, w) :
         r.end = EndOfTime /\ GoverningIn(j, r, s, w, ts, vt)
  BY OpenGoverns
<1>5. PICK r \in VersionIn(log[j], s, w) : r.end = EndOfTime /\ GoverningIn(j, r, s, w, ts, vt)
  BY <1>4
<1>6. CASE i < j
  BY <1>1, <1>3, <1>5, <1>6, LaterReplaceCloses
<1>7. CASE j < i
  BY <1>1, <1>3, <1>5, <1>7, LaterReplaceCloses
<1>8. CASE i = j
  <2> DEFINE k == LastOf(Puts(Buf(i), Before(log, i), s, v))
             l == LastOf(Puts(Buf(i), Before(log, i), s, w))
  <2>1. /\ q \in log[i].quads /\ q.slot = s /\ q.val = v
        /\ r \in log[i].quads /\ r.slot = s /\ r.val = w
    BY <1>8 DEF VersionIn
  <2>2. /\ k \in ReplacesOf(Buf(i), s) /\ Buf(i)[k].val = v
        /\ \A m \in ReplacesOf(Buf(i), s) : m <= k
    BY <1>3, <2>1, OpenIsLast
  <2>3. /\ l \in ReplacesOf(Buf(i), s) /\ Buf(i)[l].val = w
        /\ \A m \in ReplacesOf(Buf(i), s) : m <= l
    BY <1>5, <2>1, OpenIsLast
  <2>4. DOMAIN Buf(i) \subseteq Nat
    BY BufFacts, BufferFacts
  <2>5. k \in Nat /\ l \in Nat
    BY <2>2, <2>3, <2>4 DEF ReplacesOf
  <2> HIDE DEF k, l
  <2>6. k <= l /\ l <= k
    BY <2>2, <2>3
  <2> QED
    BY <2>2, <2>3, <2>5, <2>6
<1> QED
  BY <1>6, <1>7, <1>8, LogTypes

\* A step that keeps a prefix of the log, and the buffers behind it, keeps
\* how its batches were staged.
LEMMA PrefixKeepsStaged ==
  ASSUME TypeOK, CommitInv, ValuesInv, BuffersAreWrites',
         NEW n \in 0 .. Len(log), DOMAIN log' = 1 .. n,
         \A i \in 1 .. n : log'[i] = log[i],
         \A u \in Tx : phase[u] \in HasWritten => buffer'[u] = buffer[u]
  PROVE  ValuesInv'
<1>1. DOMAIN log = 1 .. Len(log) /\ Len(log) \in Nat /\ n \in Nat
  BY LogTypes
<1>2. ASSUME NEW i \in DOMAIN log'
      PROVE  log'[i].quads = Staged(buffer'[log'[i].by], Before(log', i))
  <2>1. i \in DOMAIN log /\ log'[i] = log[i] /\ buffer'[log[i].by] = buffer[log[i].by]
    BY <1>1, LogTypes DEF CommitInv, WritersAreDone
  <2>2. Before(log', i) = Before(log, i)
    <3>1. \A j \in 1 .. i - 1 : log'[j] = log[j]
      BY <1>1
    <3> QED
      BY <3>1 DEF Before
  <2> QED
    BY <2>1, <2>2 DEF ValuesInv, BatchesAreStaged
<1> QED
  BY <1>2 DEF ValuesInv, BatchesAreStaged

LEMMA WriteBatchKeepsStaged ==
  ASSUME TypeOK, CommitInv, ValuesInv, NEW t \in Tx, WriteBatch(t)
  PROVE  ValuesInv'
<1> DEFINE last == Len(log) + 1
<1>1. /\ DOMAIN log = 1 .. Len(log) /\ DOMAIN log' = 1 .. last /\ Len(log) \in Nat
      /\ \A i \in DOMAIN log : log'[i] = log[i]
      /\ log'[last].by = t /\ log'[last].quads = Staged(buffer[t], log)
      /\ buffer' = buffer
  <2> DEFINE b == [by |-> t, tt |-> commitTs[t], quads |-> Staged(buffer[t], log),
                   keys |-> {[pred |-> dict[i].pred, id |-> dict[i].id] :
                      i \in {j \in DOMAIN dict : dict[j].pred \in NeededPredicates(t)}}]
  <2>1. b \in Batch /\ log \in Seq(Batch)
    BY WrittenType DEF TypeOK
  <2>2. log' = Append(log, b) /\ buffer' = buffer
    BY DEF WriteBatch, EndTx
  <2>3. b.by = t /\ b.quads = Staged(buffer[t], log)
    OBVIOUS
  <2> HIDE DEF b
  <2> QED
    BY <2>1, <2>2, <2>3, AppendFacts, LogTypes
<1>2. BuffersAreWrites'
  BY <1>1 DEF ValuesInv, BuffersAreWrites
<1>3. ASSUME NEW i \in DOMAIN log'
      PROVE  log'[i].quads = Staged(buffer'[log'[i].by], Before(log', i))
  <2>1. \A j \in 1 .. i - 1 : j \in DOMAIN log /\ log'[j] = log[j]
    BY <1>1
  <2>2. Before(log', i) = Before(log, i)
    BY <2>1 DEF Before
  <2>3. CASE i \in DOMAIN log
    BY <1>1, <2>2, <2>3 DEF ValuesInv, BatchesAreStaged
  <2>4. CASE i = last
    <3>1. Before(log, last) = log
      <4>1. log = [j \in 1 .. Len(log) |-> log[j]]
        BY <1>1, SeqDef DEF TypeOK
      <4>2. last - 1 = Len(log)
        BY <1>1
      <4> QED
        BY <4>1, <4>2 DEF Before
    <3> QED
      BY <1>1, <2>2, <2>4, <3>1
  <2> QED
    BY <1>1, <2>3, <2>4
<1> QED
  BY <1>2, <1>3 DEF ValuesInv, BatchesAreStaged

LEMMA ValuesInvStep ==
  ASSUME TypeOK, CommitInv, ValuesInv, [Next]_vars
  PROVE  ValuesInv'
<1>1. Len(log) \in Nat /\ DOMAIN log = 1 .. Len(log)
  BY LogTypes
<1>2. ASSUME log' = log, BuffersAreWrites',
             \A u \in Tx : phase[u] \in HasWritten => buffer'[u] = buffer[u]
      PROVE  ValuesInv'
  <2>1. Len(log) \in 0 .. Len(log) /\ DOMAIN log' = 1 .. Len(log)
    BY <1>1, <1>2
  <2> QED
    BY <1>2, <2>1, PrefixKeepsStaged
<1>3. ASSUME log' = log, buffer' = buffer
      PROVE  ValuesInv'
  BY <1>2, <1>3 DEF ValuesInv, BuffersAreWrites
<1>4. CASE Restart
  <2>1. PICK n \in 0 .. Len(log) : log' = SubSeq(log, 1, n)
    BY <1>4 DEF Restart
  <2>2. DOMAIN log' = 1 .. n /\ \A i \in 1 .. n : log'[i] = log[i]
    BY <2>1, PrefixFacts DEF TypeOK
  <2>3. buffer' = buffer
    BY <1>4 DEF Restart
  <2>4. BuffersAreWrites'
    BY <2>3 DEF ValuesInv, BuffersAreWrites
  <2> QED
    BY <2>2, <2>3, <2>4, PrefixKeepsStaged
<1>5. ASSUME NEW t \in Tx, NEW w \in Writes, Insert(t, w)
      PROVE  ValuesInv'
  <2>1. log' = log /\ phase[t] = "open" /\ buffer' = [buffer EXCEPT ![t] = Append(@, w)]
    BY <1>5 DEF Insert, diskVars
  <2>2. Append(buffer[t], w) \in Seq(Writes)
    BY AppendFacts DEF ValuesInv, BuffersAreWrites
  <2>3. buffer'[t] = Append(buffer[t], w) /\ \A u \in Tx : u # t => buffer'[u] = buffer[u]
    BY <2>1 DEF TypeOK
  <2>4. BuffersAreWrites'
    BY <2>2, <2>3 DEF ValuesInv, BuffersAreWrites
  <2> QED
    BY <1>2, <2>1, <2>3, <2>4 DEF HasWritten
<1>6. ASSUME NEW t \in Tx, WriteBatch(t)
      PROVE  ValuesInv'
  BY <1>6, WriteBatchKeepsStaged
<1>7. ASSUME NEW t \in Tx, Begin(t) \/ BeginAt(t) \/ Rollback(t) \/ CallCommit(t)
      PROVE  ValuesInv'
  BY <1>3, <1>7 DEF Begin, BeginAt, Open, Rollback, CallCommit, EndTx, diskVars
<1>8. ASSUME NEW t \in Tx, BeginCommit(t) \/ RejectConflict(t) \/ FinishCommit(t) \/ Failing(t)
      PROVE  ValuesInv'
  BY <1>3, <1>8
     DEF BeginCommit, RejectConflict, FinishCommit, Failing, InternFails, CommitFails,
         Release, EndTx, diskVars
<1>9. ASSUME NEW t \in Tx, NEW p \in Predicate, Intern(t, p)
      PROVE  ValuesInv'
  BY <1>3, <1>9 DEF Intern, txVars
<1>10. CASE UNCHANGED vars
  BY <1>3, <1>10 DEF vars, diskVars, txVars
<1> QED
  BY <1>4, <1>5, <1>6, <1>7, <1>8, <1>9, <1>10 DEF Next, Client, Committing

\* A property that is only ever replaced, forward in valid time, has at most
\* one open-ended value in every snapshot, at every valid time and however
\* transactions race (stage_writes under the commit lock).
THEOREM ReplacingKeepsOneValue == Spec => []ReplaceKeepsOneValue
<1>1. Init => ValuesInv
  <2> SUFFICES ASSUME Init
               PROVE  ValuesInv
    OBVIOUS
  <2>1. DOMAIN log = {} /\ \A t \in Tx : buffer[t] = <<>>
    BY EmptySeq DEF Init
  <2>2. <<>> \in Seq(Writes)
    BY EmptySeq
  <2> QED
    BY <2>1, <2>2 DEF ValuesInv, BuffersAreWrites, BatchesAreStaged
<1>2. TypeOK /\ CommitInv /\ ValuesInv /\ [Next]_vars => ValuesInv'
  BY ValuesInvStep
<1>3. TypeOK /\ CommitInv /\ ValuesInv => ReplaceKeepsOneValue
  BY OneValueOpen
<1> QED
  BY <1>1, <1>2, <1>3, TypeInvariant, CommitProtocol, PTL DEF Spec

=============================================================================
