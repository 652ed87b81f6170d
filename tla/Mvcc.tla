-------------------------------- MODULE Mvcc --------------------------------
(***************************************************************************)
(* The MVCC layer of polargraph-storage: the TimestampOracle, optimistic   *)
(* transactions, the steps of Transaction::commit and what a restart of    *)
(* the process finds on disk (mvcc.rs, and the parts of store.rs that a    *)
(* commit calls).                                                          *)
(***************************************************************************)
EXTENDS Quads

CONSTANTS Tx,           \* transactions; each is begun at most once
          Predicate,
          PredicateOf,  \* the predicate of a slot
          NoTx,
          Instant,      \* the valid times reads ask for
          MaxWall,      \* bound on the wall clock
          MaxTs,        \* bound on the oracle; MaxWall + |Tx| never binds
          MaxWrites,    \* bound on a write buffer
          MaxRestarts   \* bound on restarts of the process

ASSUME PredicateOfType == PredicateOf \in [Slot -> Predicate]
ASSUME InstantType == Instant \subseteq Nat
ASSUME NoTxFresh == NoTx \notin Tx
ASSUME BoundsAreNat == MaxTs \in Nat /\ MaxWall \in Nat /\ MaxWrites \in Nat /\ MaxRestarts \in Nat

VARIABLES
  committed,  \* OracleInner.committed
  holder,     \* who holds OracleInner.commit_lock
  watch,      \* the commit watch channel
  log,        \* committed batches in the order RocksDB applied them (durable)
  dict,       \* the predicate dictionary, in the order it was written (durable)
  nextPred,   \* Inner.next_pred_id
  phase,      \* where each transaction is
  readTs,     \* Transaction.read_ts
  commitTs,   \* the timestamp begin_commit returned
  buffer,     \* Transaction.write_buffer and write_meta
  restarts,   \* restarts so far
  basis,      \* history: commits a transaction's snapshot showed at begin
  flight      \* history: the commit its snapshot covered but did not show

txVars == <<phase, readTs, commitTs, buffer, basis, flight>>
diskVars == <<log, dict>>
vars == <<committed, holder, watch, diskVars, nextPred, txVars, restarts>>

Phases == {"idle", "open", "waiting", "locked", "written",
           "committed", "aborted", "dead"}
HoldsLock == {"locked", "written"}

PredKey == [pred : Predicate, id : Nat]
Batch == [by : Tx, tt : Nat, quads : SUBSET Quad, keys : SUBSET PredKey]
DictEntry == [pred : Predicate, id : Nat, pos : Nat]

-----------------------------------------------------------------------------
\* Faulty: the conflict window is open at the wrong end.
ConflictsLate(t) ==
  \E i \in DOMAIN log : /\ log[i].tt > readTs[t] + 1
                        /\ log[i].tt <= commitTs[t]
                        /\ Overlaps(buffer[t], log[i].quads)

\* check_conflict over every buffered write
Conflicts(t) ==
  \E i \in DOMAIN log : /\ log[i].tt > readTs[t]
                        /\ log[i].tt <= commitTs[t]
                        /\ Overlaps(buffer[t], log[i].quads)

VisibleTo(ts) == {log[i].tt : i \in {j \in DOMAIN log : log[j].tt <= ts}}

Interned == {dict[i].pred : i \in DOMAIN dict}
NeededPredicates(t) == {PredicateOf[buffer[t][k].slot] : k \in DOMAIN buffer[t]}

\* __oracle_ctr is in every commit's batch, pred_ctr in every dictionary write.
PersistedCounter == LastTt(log)

\* Faulty: next_pred_id is restored from the number of entries.
PersistedNextPredByCount == Len(dict) + 1

PersistedNextPred == IF dict = <<>> THEN 1 ELSE dict[Len(dict)].id + 1

-----------------------------------------------------------------------------
Init ==
  /\ committed = 0
  /\ holder = NoTx
  /\ watch = 0
  /\ log = <<>>
  /\ dict = <<>>
  /\ nextPred = 1
  /\ phase = [t \in Tx |-> "idle"]
  /\ readTs = [t \in Tx |-> 0]
  /\ commitTs = [t \in Tx |-> 0]
  /\ buffer = [t \in Tx |-> <<>>]
  /\ restarts = 0
  /\ basis = [t \in Tx |-> {}]
  /\ flight = [t \in Tx |-> 0]

\* The timestamp of a commit that is published but not yet in the log.
InFlight(ts) ==
  IF holder # NoTx /\ phase[holder] = "locked" /\ commitTs[holder] <= ts
  THEN commitTs[holder] ELSE 0

Open(t, ts) ==
  /\ phase[t] = "idle"
  /\ phase' = [phase EXCEPT ![t] = "open"]
  /\ readTs' = [readTs EXCEPT ![t] = ts]
  /\ basis' = [basis EXCEPT ![t] = VisibleTo(ts)]
  /\ flight' = [flight EXCEPT ![t] = InFlight(ts)]
  /\ UNCHANGED <<committed, holder, watch, diskVars, nextPred, commitTs, buffer,
                 restarts>>

\* TripleStore::begin
Begin(t) == Open(t, committed)

\* Faulty: a read_ts ahead of the oracle is accepted.
BeginAtUnchecked(t) == \E ts \in 0 .. MaxTs : Open(t, ts)

\* TripleStore::begin_at; a read_ts ahead of the oracle is refused.
BeginAt(t) == \E ts \in 0 .. committed : Open(t, ts)

\* Transaction::insert_in
Insert(t, w) ==
  /\ phase[t] = "open"
  /\ Len(buffer[t]) < MaxWrites
  /\ buffer' = [buffer EXCEPT ![t] = Append(@, w)]
  /\ UNCHANGED <<committed, holder, watch, diskVars, nextPred, phase, readTs,
                 commitTs, restarts, basis, flight>>

EndTx(t, how) ==
  /\ phase' = [phase EXCEPT ![t] = how]
  /\ UNCHANGED <<readTs, commitTs, buffer, basis, flight>>

\* The buffered writes are dropped with the Transaction.
Rollback(t) ==
  /\ phase[t] = "open"
  /\ EndTx(t, "aborted")
  /\ UNCHANGED <<committed, holder, watch, diskVars, nextPred, restarts>>

\* Transaction::commit is called: an empty transaction returns at once.
CallCommit(t) ==
  /\ phase[t] = "open"
  /\ EndTx(t, IF buffer[t] = <<>> THEN "committed" ELSE "waiting")
  /\ UNCHANGED <<committed, holder, watch, diskVars, nextPred, restarts>>

\* Faulty: the new timestamp may equal the last one.
NextTsNotAdvanced(wall) == IF wall > committed THEN wall ELSE committed

\* max(prev + 1, wall): the wall clock may lag behind the oracle.
NextTs(wall) == IF wall > committed THEN wall ELSE committed + 1

\* Faulty: the commit lock is not taken.
BeginCommitUnlocked(t) ==
  /\ phase[t] = "waiting"
  /\ \E wall \in 0 .. MaxWall :
        /\ NextTs(wall) <= MaxTs
        /\ committed' = NextTs(wall)
        /\ commitTs' = [commitTs EXCEPT ![t] = NextTs(wall)]
  /\ holder' = t
  /\ phase' = [phase EXCEPT ![t] = "locked"]
  /\ UNCHANGED <<watch, diskVars, nextPred, readTs, buffer, restarts, basis, flight>>

\* Faulty: followers are told of the commit when its timestamp is published.
BeginCommitNotifies(t) ==
  /\ phase[t] = "waiting"
  /\ holder = NoTx
  /\ \E wall \in 0 .. MaxWall :
        /\ NextTs(wall) <= MaxTs
        /\ committed' = NextTs(wall)
        /\ watch' = NextTs(wall)
        /\ commitTs' = [commitTs EXCEPT ![t] = NextTs(wall)]
  /\ holder' = t
  /\ phase' = [phase EXCEPT ![t] = "locked"]
  /\ UNCHANGED <<diskVars, nextPred, readTs, buffer, restarts, basis, flight>>

\* TimestampOracle::begin_commit: the timestamp is published here, before the
\* batch that carries it is written.
BeginCommit(t) ==
  /\ phase[t] = "waiting"
  /\ holder = NoTx
  /\ \E wall \in 0 .. MaxWall :
        /\ NextTs(wall) <= MaxTs
        /\ committed' = NextTs(wall)
        /\ commitTs' = [commitTs EXCEPT ![t] = NextTs(wall)]
  /\ holder' = t
  /\ phase' = [phase EXCEPT ![t] = "locked"]
  /\ UNCHANGED <<watch, diskVars, nextPred, readTs, buffer, restarts, basis, flight>>

\* Leaving commit: the guard is dropped on every path out.
Release(t, how) ==
  /\ EndTx(t, how)
  /\ holder' = NoTx
  /\ UNCHANGED <<committed, watch, log, restarts>>

\* The conflict check runs under the lock, so what it reads cannot change
\* until the batch is written.
\* commit returns WriteConflict; the counter stays advanced, in memory only.
RejectConflict(t) ==
  /\ phase[t] = "locked"
  /\ Conflicts(t)
  /\ Release(t, "aborted")
  /\ UNCHANGED <<dict, nextPred>>

\* intern_predicate: a durable batch of its own, before the commit's batch.
Intern(t, p) ==
  /\ phase[t] = "locked"
  /\ ~Conflicts(t)
  /\ p \in NeededPredicates(t) \ Interned
  /\ dict' = Append(dict, [pred |-> p, id |-> nextPred, pos |-> Len(log)])
  /\ nextPred' = nextPred + 1
  /\ UNCHANGED <<committed, holder, watch, log, txVars, restarts>>

\* A write of the dictionary fails after next_pred_id was taken.
InternFails(t) ==
  /\ phase[t] = "locked"
  /\ ~Conflicts(t)
  /\ NeededPredicates(t) \ Interned # {}
  /\ nextPred' = nextPred + 1
  /\ Release(t, "aborted")
  /\ UNCHANGED dict

\* Faulty: a failed commit leaves with the lock.
CommitFailsKeepsLock(t) ==
  /\ phase[t] = "locked"
  /\ EndTx(t, "aborted")
  /\ UNCHANGED <<committed, holder, watch, log, restarts, dict, nextPred>>

\* Any other error while the batch is built or written (IriCollision, I/O).
CommitFails(t) ==
  /\ phase[t] = "locked"
  /\ Release(t, "aborted")
  /\ UNCHANGED <<dict, nextPred>>

\* db_write: quads, change-log entry and oracle counter in one atomic batch.
WriteBatch(t) ==
  /\ phase[t] = "locked"
  /\ ~Conflicts(t)
  /\ NeededPredicates(t) \subseteq Interned
  /\ log' = Append(log,
       [by |-> t, tt |-> commitTs[t], quads |-> Staged(buffer[t], log),
        keys |-> {[pred |-> dict[i].pred, id |-> dict[i].id] :
                    i \in {j \in DOMAIN dict : dict[j].pred \in NeededPredicates(t)}}])
  /\ EndTx(t, "written")
  /\ UNCHANGED <<committed, holder, watch, dict, nextPred, restarts>>

\* notify_commit, and commit returns.
FinishCommit(t) ==
  /\ phase[t] = "written"
  /\ watch' = IF commitTs[t] > watch THEN commitTs[t] ELSE watch
  /\ holder' = NoTx
  /\ EndTx(t, "committed")
  /\ UNCHANGED <<committed, diskVars, nextPred, restarts>>

\* What a restart can find: the first n commits and the first m dictionary
\* entries, cut at one point of the disk's log.  n < Len(log) is a power
\* failure: no write asks RocksDB to sync.
CutAt(n, m) ==
  \A i \in DOMAIN dict :
     (dict[i].pos < n => i <= m) /\ (i <= m => dict[i].pos <= n)

\* The process dies and open_db reads everything back.
Restart ==
  /\ restarts < MaxRestarts
  /\ \E n \in 0 .. Len(log), m \in 0 .. Len(dict) :
        /\ CutAt(n, m)
        /\ log' = SubSeq(log, 1, n)
        /\ dict' = SubSeq(dict, 1, m)
  /\ committed' = PersistedCounter'
  /\ watch' = PersistedCounter'
  /\ nextPred' = PersistedNextPred'
  /\ holder' = NoTx
  /\ phase' = [t \in Tx |-> IF phase[t] \in {"idle", "committed", "aborted"}
                            THEN phase[t] ELSE "dead"]
  /\ restarts' = restarts + 1
  /\ UNCHANGED <<readTs, commitTs, buffer, basis, flight>>

-----------------------------------------------------------------------------
Client(t) ==
  \/ Begin(t) \/ BeginAt(t) \/ Rollback(t) \/ CallCommit(t)
  \/ \E w \in Writes : Insert(t, w)

\* The steps of a commit once it has been called.
Committing(t) ==
  \/ BeginCommit(t) \/ RejectConflict(t)
  \/ \E p \in Predicate : Intern(t, p)
  \/ WriteBatch(t) \/ FinishCommit(t)

Failing(t) == InternFails(t) \/ CommitFails(t)

Next == Restart \/ \E t \in Tx : Client(t) \/ Committing(t) \/ Failing(t)

Spec == Init /\ [][Next]_vars

\* A thread inside commit keeps running.
FairSpec == Spec /\ \A t \in Tx : WF_vars(Committing(t))

-----------------------------------------------------------------------------
(* Properties *)

\* Every variable has its type; the store is a sequence of batches.
TypeOK ==
  /\ committed \in Nat /\ watch \in Nat /\ nextPred \in Nat /\ restarts \in Nat
  /\ holder \in Tx \cup {NoTx}
  /\ log \in Seq(Batch)
  /\ dict \in Seq(DictEntry)
  /\ phase \in [Tx -> Phases]
  /\ readTs \in [Tx -> Nat] /\ commitTs \in [Tx -> Nat]
  /\ buffer \in [Tx -> Seq(WriteRecord)]
  /\ basis \in [Tx -> SUBSET Nat] /\ flight \in [Tx -> Nat]

\* No commit timestamp is issued twice among surviving commits, timestamps
\* grow in the order batches reach the disk, and neither an aborted commit,
\* a slow wall clock nor a restart puts the oracle behind a stored tt
\* (begin_commit, load_oracle_ts).
TimestampsOrdered ==
  /\ \A i, j \in DOMAIN log : i < j => log[i].tt < log[j].tt
  /\ \A i \in DOMAIN log : 0 < log[i].tt /\ log[i].tt <= committed
  /\ \A t \in Tx : phase[t] = "locked" =>
        \A i \in DOMAIN log : log[i].tt < commitTs[t]

\* First committer wins: of two stored commits where the later one writes
\* what the earlier one wrote (the exact quad, or for a Replace any value of
\* its subject, predicate and graph), the later one read at or after the
\* earlier one's timestamp (check_conflict under the commit lock).
FirstCommitterWins ==
  \A i, j \in DOMAIN log :
     i < j /\ Overlaps(buffer[log[j].by], log[i].quads)
       => log[i].tt <= readTs[log[j].by]

Live(t) == phase[t] \in {"open", "waiting", "locked"}

\* A snapshot taken while no commit was between publishing its timestamp and
\* writing its batch shows the same commits for as long as its transaction
\* lives, whatever commits, aborts and retries go on (Snapshot, ReadAt).
SettledSnapshotsRepeat ==
  \A t \in Tx : Live(t) /\ flight[t] = 0 => VisibleTo(readTs[t]) = basis[t]

\* No lost update: whatever a stored commit overwrote, its transaction had
\* been shown (mvcc.rs: "We abort rather than silently overwrite").
NoLostUpdate ==
  \A i, j \in DOMAIN log :
     i < j /\ Overlaps(buffer[log[j].by], log[i].quads)
       => log[i].tt \in basis[log[j].by]

\* The same, for transactions begun while no commit was in flight; one that
\* was begun in flight can miss that one commit and no other.
NoLostUpdateWhenSettled ==
  \A i, j \in DOMAIN log :
     i < j /\ Overlaps(buffer[log[j].by], log[i].quads)
       => log[i].tt \in basis[log[j].by] \cup {flight[log[j].by]}

WritesTo(s, ws) == {k \in DOMAIN ws : ws[k].kind # "Annotation" /\ ws[k].slot = s}

\* Every open-ended value the log has of slot s was put there by a Replace.
OnlyReplaced(s) ==
  \A i \in DOMAIN log : \A k \in WritesTo(s, buffer[log[i].by]) :
     LET w == buffer[log[i].by][k] IN w.end = EndOfTime => Replaces(w)

\* Writes to s reach the log forward in valid time: none starts before one
\* committed, or buffered, ahead of it.
Forward(s) ==
  \A i, j \in DOMAIN log :
     \A k \in WritesTo(s, buffer[log[i].by]), l \in WritesTo(s, buffer[log[j].by]) :
        i < j \/ (i = j /\ k < l)
          => buffer[log[i].by][k].start <= buffer[log[j].by][l].start

\* After a Replace of s, a buffer has only Replaces of s.
ReplacesLast(s) ==
  \A i \in DOMAIN log :
     \A k, l \in WritesTo(s, buffer[log[i].by]) :
        k < l /\ Replaces(buffer[log[i].by][k]) => Replaces(buffer[log[i].by][l])

\* A property that is only ever replaced, forward in valid time, has at most
\* one open-ended value in every snapshot at every valid time, including when
\* transactions race or miss one another's commit (stage_writes closes what
\* open_values finds under the commit lock).
ReplaceKeepsOneValue ==
  \A s \in Slot : OnlyReplaced(s) /\ Forward(s) /\ ReplacesLast(s) =>
     \A ts \in 0 .. committed : \A vt \in Instant :
        \A v, w \in OpenAt(log, s, ts, vt) : v = w

\* Every stored key decodes to the predicate it was written with: the
\* dictionary stays one-to-one and holds every predicate id the batches use,
\* wherever a crash cut the log (intern_predicate writes before the batch).
DictionaryDecodes ==
  /\ \A i, j \in DOMAIN dict :
        (dict[i].pred = dict[j].pred \/ dict[i].id = dict[j].id) => i = j
  /\ \A i \in DOMAIN log : \A k \in log[i].keys :
        \E j \in DOMAIN dict : dict[j].pred = k.pred /\ dict[j].id = k.id
  /\ \A i \in DOMAIN log : \A q \in log[i].quads :
        \E k \in log[i].keys : k.pred = PredicateOf[q.slot]

\* Whoever is woken by the commit watch finds the commit it names in the
\* store: notify_commit comes after db_write.
WatchShowsWritten == watch = 0 \/ \E i \in DOMAIN log : log[i].tt = watch

\* Why the above holds: the lock, timestamps and snapshots of the
\* transactions inside commit, those that have written and those still live.
LockHeld == \A t \in Tx : phase[t] \in HoldsLock <=> holder = t

StampPublished ==
  \A t \in Tx :
     /\ phase[t] = "locked" => 0 < commitTs[t] /\ commitTs[t] <= committed
     /\ phase[t] = "written" => \E i \in DOMAIN log : log[i].tt = commitTs[t]

HasWritten == {"written", "committed", "dead"}
WritersAreDone == \A i \in DOMAIN log : phase[log[i].by] \in HasWritten

SnapshotHeld(t) ==
  Live(t) =>
     /\ readTs[t] <= committed
     /\ basis[t] \subseteq VisibleTo(readTs[t])
     /\ VisibleTo(readTs[t]) \subseteq basis[t] \cup {flight[t]}
     /\ \A u \in Tx : phase[u] = "locked" /\ commitTs[u] <= readTs[t]
                       => commitTs[u] = flight[t]

SnapshotsHeld == \A t \in Tx : SnapshotHeld(t)

\* The inductive invariant of the commit protocol: what the transactions in
\* each phase have, from which the properties above follow.
CommitInv ==
  /\ LockHeld
  /\ StampPublished
  /\ WritersAreDone
  /\ SnapshotsHeld
  /\ TimestampsOrdered
  /\ FirstCommitterWins
  /\ NoLostUpdateWhenSettled
  /\ WatchShowsWritten

\* Why the dictionary decodes: ids grow and stay below next_pred_id, and the
\* entry a batch uses was written before it.
DictInv ==
  /\ 0 < nextPred
  /\ \A i \in DOMAIN dict : dict[i].id < nextPred /\ dict[i].pos <= Len(log)
  /\ \A i, j \in DOMAIN dict :
        i < j => dict[i].id < dict[j].id /\ dict[i].pred # dict[j].pred
  /\ \A i \in DOMAIN log : \A k \in log[i].keys :
        \E j \in DOMAIN dict : dict[j].pred = k.pred /\ dict[j].id = k.id /\ dict[j].pos < i
  /\ \A i \in DOMAIN log : \A q \in log[i].quads :
        \E k \in log[i].keys : k.pred = PredicateOf[q.slot]

\* The abstract store this one implements: a transaction takes effect in the
\* one step that writes its batch.
StatusOf(p) ==
  CASE p = "idle" -> "idle"
    [] p \in {"open", "waiting", "locked"} -> "active"
    [] OTHER -> "ended"

BatchesOf(h) ==
  [i \in DOMAIN h |-> [by |-> h[i].by, tt |-> h[i].tt, quads |-> h[i].quads]]

Abstract == INSTANCE CommitLog WITH
  Timestamp <- 0 .. MaxTs,
  history <- BatchesOf(log),
  status <- [t \in Tx |-> StatusOf(phase[t])],
  asOf <- readTs,
  writes <- buffer

\* Interning, locking, stamping, checking and writing one transaction look
\* like one atomic commit, and an error or a crash between them like none.
CommitIsAtomic == Abstract!Spec

\* What followers of the store see of its commits (CommitStream).
PublishedOnly ==
  IF holder # NoTx /\ phase[holder] = "locked" THEN commitTs[holder] ELSE 0

Stream == INSTANCE CommitStream WITH
  Timestamp <- 1 .. MaxTs,
  writing <- PublishedOnly,
  stored <- {log[i].tt : i \in DOMAIN log}

\* At most one commit is published and not yet written, and none is published
\* over it: commits reach the store in the order of their timestamps, which
\* followers rely on when they move a cursor past one.
StreamsCommits == Stream!Spec

\* Every commit that was called ends, with its outcome or with the process:
\* no path out of commit keeps the lock.
CommitsEnd ==
  \A t \in Tx : phase[t] = "waiting" ~> phase[t] \in {"committed", "aborted", "dead"}
=============================================================================
