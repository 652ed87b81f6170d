# Polargraph: TLA+ specifications and proofs

Polargraph is a bitemporal RDF quad store: a Rust server over RocksDB with MVCC
transactions, a change log that clients subscribe to, indexes kept current from
that log, retention, named-graph operations, OWL RL inference, WAL replication,
Datalog queries and SPARQL updates.  This directory models the parts of it whose
correctness depends on the order in which things happen, checks them with TLC on
small instances and proves the central properties with TLAPS for every instance.

Paths below are relative to the repository; `storage/` stands for
`src/crates/polargraph-storage/src/` and `server/` for
`src/crates/polargraph-server/src/`.

## 1. The system and what makes it correct

### Storage core

**MVCC transactions** (`storage/mvcc.rs`, called from `storage/store.rs`).
State: the `TimestampOracle` (`committed`, a commit lock), each transaction's
`read_ts` and write buffer, the commit watch channel; on disk the batches, with
the oracle's counter in each.  Operations: `begin`, `begin_at`, `insert_in`,
dropping a transaction, `commit` (take the lock, publish a timestamp, check for
conflicts, intern predicates, write one batch, notify, release), reopening the
database.  Readers read the oracle without the lock.  Hard: `commit` publishes its
timestamp before its batch is on disk; every error path must release the lock;
the wall clock may lag; a crash may lose unsynced batches.  Correct when
timestamps are unique and ordered on disk, the first committer wins, snapshots
repeat, updates are not lost and a commit is all or nothing.

**Quads, keys and versions** (`store.rs`, `keys.rs`, `codec.rs`).  A quad version
is written to eight key orders; a read picks, per quad, the version with the
latest `vt_start` not after the valid time asked for, ties to the highest
transaction time.  `Replace` writes close what is open at commit time.  Hard: what
counts as open is not decided as a read decides it, and all versions a batch writes of
one quad share one key.  Correct when a replaced property has one open value and all
orders answer alike.

**Dictionaries** (`store.rs`, `vocab.rs`).  Predicates, graphs and IRIs get numeric
ids, in memory and on disk; predicate ids are written in a batch of their own
before the batch that uses them.  Correct when ids decode to what they were given
for, across failures and restarts.

**Change log** (`changes.rs`).  One entry per commit, in the commit's batch;
`prune_changes` deletes the old ones and raises a floor; followers read it with
`changes_after(cursor)`.  Correct when nothing above the floor is missing and
entries appear in the order of their timestamps, since followers never look back.

**Retention** (`compaction.rs`, `store.rs`, `server/retention_scheduler.rs`).  A run
fixes a transaction-time cutoff and perhaps a valid-time one, then prunes the
eight orders one after the other from an iterator's snapshot, in batches, and
finally sweeps out-of-line values nothing refers to.  It runs at startup, on a
schedule and by RPC, without a lock against commits or other runs.  Correct when
no read inside the retention window changes, the newest versions stay for
`check_conflict` to find, and referenced values stay.

**Named graphs** (`graphs.rs`, `graph_acl.rs`, `registry.rs`).  `create`, `drop`,
`copy`, `move` and `add` read the live quads of a graph once and write in
transactions of 50,000 quads; a copy marks its target `copyInProgress` meanwhile.
Cardinality is checked against the store before a write is committed.  Hard:
writes between the chunks, crashes between them, two operations on one graph.
Correct when what the change log says of a graph is done, a move loses no quad, a
partial copy can be recognised and a drop leaves the past alone.

**Inference** (`owl_rl.rs`).  Materializes RL rules into inferred graphs,
incrementally from windows of the change log, and records the time it has
applied after the quads it has written.  A retraction deletes what was derived through
it and derives again what still follows (delete and re-derive).  Hard: commits between the
chunks, crashes, the order facts are drawn in.  Correct when the inferred graphs end up
as a full materialization would make them.

**Replication and counters** (`wal_stream.rs`, `server/wal_client.rs`,
`counters.rs`, `store.rs`).  The primary tails its write-ahead log and sends
batches; a replica applies each and then records its sequence number, in two
writes, and resumes from there with a growing backoff.  Counters are merge
operands in the same log.  Correct when every batch is applied, in order, and a
counter once.

**Vector index** (`hnsw.rs`, `server/vector_visibility.rs`), **migrations, import,
backup** (`migrations.rs`, `migrate_v3.rs`, `legacy.rs`, `sst_import.rs`,
`backup.rs`, `polargraph-import`).  A numeric heuristic, and offline tools.

### Server and query layers

**Subscribe** (`server/service.rs`).  A task per stream follows the change log in
batches of 256 and sends each commit's events one by one; a client resumes with a
`commit_ts`, which is refused below the floor.  Correct when a client misses no
event between what it resumes from and what it gets.

**Type index** (`server/type_index.rs`).  The instances of each class, caught up
from the change log by every read, rebuilt when the log was pruned past it; the
vector filter and access bitmaps depend on the outcome.  Correct when it agrees with
a snapshot at the time it says it has applied.

**Transaction registry** (`server/service.rs`).  Open transactions by id in a sharded
map, each behind a mutex, used by Insert, Query and the Cypher RPCs; commit and
rollback take the transaction out, and a TTL sweep collects idle ids and removes them
later.  Hard: commit removes the entry before it knows that nobody else holds the
transaction; some RPCs keep their map shard locked while they wait.  Correct
when an answered commit holds every answered write, a transaction ends once, idle ones
go and calls return.

**Datalog** (`polargraph-query/src/datalog.rs`, `eval.rs`).  Patterns joined from left to
right over one snapshot and the transaction's pending writes; recursive rules
applied until none adds a fact.  An edge type prunes a pattern by the classes of its ends, if
these are bound by then.  Correct when the result depends on the order of the patterns by
this pruning only, and rules reach their least model.

**SPARQL Update** (`polargraph-rest/src/main.rs`, `apply_changes` in `server/service.rs`).  The
gateway compiles the data operations of one request to a changeset: closes and adds, with the
solutions of each WHERE clause asked for by RPCs of their own, all as of one read point.  The
server resolves the closes against a snapshot and writes everything in one transaction that
begins at the read point.  A dry run answers with the changeset, which a client may approve
later through `POST /changes`.  Hard: other writers between the reads, the resolving and the
commit; a sequence of operations turned into a set of closes before a list of adds.
Correct when a committed update did what its operations say in order, and nothing it writes has changed
since its read point.

**gRPC surface, auth, rate limits, the rest of the REST gateway and of SPARQL, Cypher, SHACL**
(`server/`, `polargraph-rest`, `polargraph-query`, `polargraph-sparql`,
`polargraph-shacl`): request handling, parsers and translation, and aggregation over
one snapshot.

**How they interact.**  Everything goes through `Transaction::commit`: its batch
carries the quads, the change-log entry and the oracle counter.  Subscribe, the
type index, the access caches and inference follow the change log and the commit
watch.  Retention and the pruner take away from under them.  A replica replays
the same batches.  Hence the layering of the models: the commit protocol
implements a *stream of commits* (`CommitStream`), and the feed, the type index and
retention are modelled over that stream.  `GraphOps` and `Inference` write as well as
read; they have their own sequence of commits.  A wire transaction ends in
`Transaction::commit`: `WireTx` is about who gets there, `Mvcc` about what happens then.
`Updates` composes the query engine of `Datalog` with the stored versions of `Versions`: what
the one answers decides what is written to the other.

`PROJECT.json` lists every component with its status, and under "hazards" what is
hard to test in each, at its line, with the properties that cover it.

## 2. Modules

| module | models | code |
|---|---|---|
| `Quads` | write modes, conflict prefixes, what a batch stages, what a snapshot shows | `mvcc.rs`, `store.rs` |
| `Mvcc` | the oracle, transactions, the steps of `commit`, restarts | `mvcc.rs`, `store.rs` |
| `CommitLog` | abstract: whole transactions commit in one step | (specification) |
| `CommitStream` | abstract: one published timestamp at a time, then its batch or nothing | (specification; the base of the followers) |
| `ChangeLog` | change-log entries, pruner, floor, `changes_after` | `changes.rs`, `retention_scheduler.rs` |
| `Subscription` | one client of Subscribe over `ChangeLog` | `service.rs` |
| `TypeIndex` | `sync` and `rebuild` for one class over `ChangeLog` | `type_index.rs` |
| `Versions` | which version governs a read; which versions a policy expires | `store.rs`, `compaction.rs` |
| `Retention` | overlapping retention runs and the blob sweep over `CommitStream` | `compaction.rs`, `store.rs` |
| `GraphOps` | create, drop, copy, add and move over `Versions`, with writers, errors and crashes | `graphs.rs` |
| `Inference` | full and incremental inference runs between commits, with crashes | `owl_rl.rs` |
| `WireTx` | open transactions, the RPCs on them, the TTL sweep, shutdown, over the runtime's threads | `service.rs` |
| `Datalog` | queries pattern by pattern, rules round by round | `datalog.rs`, `eval.rs` |
| `Updates` | SPARQL Update and `POST /changes`, over `Datalog` and `Versions`, with other writers | `polargraph-rest/src/main.rs`, `service.rs`, `store.rs` |
| `Replication` | the log's streamer, the stream, a replica's writes | `wal_stream.rs`, `wal_client.rs`, `store.rs` |
| `MC*` | instances for TLC | |
| `*Proofs` | theorems about the modules they extend | |

### Mvcc and Quads

The state follows the code: `committed` and `holder` are the oracle's counter and
lock, `watch` the commit channel, `log` the batches on disk in the order RocksDB
applied them, `dict` the predicate dictionary on disk and `nextPred` its counter
in memory; `phase`, `readTs`, `commitTs` and `buffer` are a transaction's.
`basis` and `flight` are history: what a transaction's snapshot showed when it
began, and the commit its timestamp covered but did not show.

`commit` is taken apart where other threads can see a difference: `CallCommit`,
`BeginCommit` (lock and published timestamp), `RejectConflict`, `Intern` (a batch
of its own per predicate), `WriteBatch`, `FinishCommit` (notify, release), with
`InternFails` and `CommitFails` for write errors.  `Restart` cuts the log anywhere,
because batches are not synced, and keeps the dictionary entries written before
the cut; what is in memory is restored from disk.

`Staged` is `stage_writes`: what a batch holds given the store at that moment,
including what a Replace closes.  Quads and writes carry the window of valid time they
are written for, and clients may write any window.  What a snapshot shows goes by
`Versions` (`OpenAt`, `ShownAt`): the version with the latest start governs.  What a
Replace closes goes by `OpenValue`, which is `open_values`: the last version by
transaction time, wherever it starts.  The two disagree after a backdated write.
`StagedOf` has one version per quad and batch, the last one put, since the key of a
version ends in the batch's time; `StagedBefore` is the map of staged values that a
Replace finds, and empties.

### The change log and its followers

`ChangeLog` adds to each commit of `CommitStream` its content (how many events it
carries and whom it types) and its entry, and the pruner.  Cutoffs may be anywhere.
Both followers cover one run of the server on the primary.

In `Subscription`, `ReadBatch` is one call of `changes_after`, `SendEvent` one event.
Receipt is merged with sending: an event that was sent and not received is the same
to the client as a disconnect before it.  `ResumesFrom` says what the client
resumes with: the last commit it knows to be complete, or the last one seen.
`skipped` records entries pruned from in front of an open stream, which the
code cannot notice: the floor is compared only at the start.

In `TypeIndex`, `BeginSync` takes the lock and compares the floor, `ReadRecords` is
one round of the loop, `Install` recomputes the touched subjects from a snapshot
and installs them, `Rebuild` scans at the oracle's time.  The read of the snapshot
and the install are one step: the snapshot is at a fixed time whose commits are
all stored, or noted in `unseen`.

### Retention

`kept[o][q]` are the versions of a quad in an order, `written` all that were ever
written, `doomed` what a run has picked from its iterator's snapshot and not yet
deleted.  `Scan` reads an order, `Delete` writes the deletes of one quad (batches hold
whole groups, and different quads may fall into different flushes), `Mark` and
`Sweep` are the two passes over `spog` and `blob`, `Erase` the final batch, `Stop`
an error, the end of the process, or a run with nothing deleted.  Cutoffs are picked
from `Policies`, so runs with different policies overlap, and the wall clock may
stand anywhere next to the commits.  Each commit writes one version of one quad.

`AnswersKept` exempts quads for which a window was written later than one that has
been removed and begins before it.  Unpruned, the removed version would hide such a
backdated window for ever; pruned, it does not.  Nothing in the code prevents
this, and nothing says which answer is meant.

### Replication

`wal` is the primary's log: a batch begins with a sequence number and takes one for each
of its records.  `current` is the streamer's `current_seq`; `tailing` and `after` are the
iterator it has open, `stream` what is in the channels and on the wire.  `journal` is
what the replica has written, each batch with whether its note in `last_seq` followed;
`Apply` and `Note` are the two writes of `apply_replicated_batch`, `Drop` every error that
ends a stream, `Crash` keeps any prefix of the two kinds of writes.

`Poll` and `IsNext` model `get_updates_since` of the `rocksdb` crate (0.22), which is not
part of the repository: an error when the number is past the end of the log, and
otherwise the batches that begin *after* the number.  The replica depends on that
reading: it asks with the number its last batch begins with and must not get it again.
The primary does not crash here and keeps its whole log.

### GraphOps

`stored[g][q]` are all versions of a quad in a graph; what a graph shows goes by
`Versions`.  An operation is a list of *stages* (`Stages`): `move` is a drop of the target,
a copy and a drop of the source, as `move_graph_by` calls the others.  A stage is taken apart
where a commit of someone else can come between: `TakeTime` and `Read` (a drop
fixes its closing time before it reads), `SetFlag`, one `WriteChunk` per commit, `ClearFlag`;
for create `CheckNew`, `Intern`, `Announce`.  The RPCs of the server take no lock, so `Caller`s
interleave.  `Fail` ends an operation anywhere, as a conflict, a write error or the end of the
process does.  `touched[c]` and `copied[c]` are history: what others wrote since `c` was
called, and what `c` read.  `Contents` are the graphs at first, with the time of their last
commit.  The windows in them, and those that clients write (`Writers`), may begin or end before
or after the clock, which starts at `FirstNow` and runs to `MaxNow`.  A drop reads and closes what is live when it
reads; a quad whose window begins later is in the graph once the clock is there, in a graph that was
logged as dropped, with no write in between.  `LoggedIsDone` says so: an entry of
`graphOps` has the time at which its operation read the graph (`readAt`, history), and windows
that begin after it are excepted.  Annotations of edges are left out; `close_at` returns them
unchanged (`graphs.rs:313`).  Nothing in the code reads `copyInProgress`; it is for users.

### Inference

`log` is the sequence of commits; the last one may have its timestamp and no batch yet
(`landed`), as in `CommitStream`.  `applied` and `count` are the two META keys.  A run picks
what it covers (`StartFull`, `StartOver`, `StartBatch`, `SkipOwn`), draws consequences one fact at
a time in any order (`Derive`), compares, writes in chunks, and notes the count and the
applied commit (`Count`, `PutApplied`).  `Crash` may come between any two.  `OverDeleted` and
`Rederived` are steps 1 and 2 of `infer_changes`: what a worklist that starts empty, and a loop that ends
when nothing is found, end with is the smallest set closed under their step (`Smallest`).
`exact`, `spoiled`, `skipped` and `torn` are history, for the properties' conditions.  A full run begins with
`spoiled` true if a commit in flight closes something: it will be in no later window.

The rules of OWL RL are given by constants: an axiom in force turns on one-premise
rules (domain, range, subproperty, subclass, symmetric, inverse) and joins (transitive,
sameAs), which are the two shapes of `Schema::consequences`.  A conclusion is labelled with the
graph of its premises, or `Cross` if they come from several.  `Follows` is the reference: the
least set closed under the rules.

### WireTx

`map` is `tx_map`, `line[t]` the queue of the transaction's `tokio` mutex, whose first call holds
it, `pc` where a call is.  `ThreadFree` bounds what runs: a call waiting for the mutex gives its
thread back, one waiting for a shard of the map keeps it (`DashMap` locks are not async).
`Readers` are Insert and Query, which keep their map entry while they wait for
the mutex (`service.rs:2611`, `2734`); `Clones` are the Cypher calls, which clone the `Arc`
instead.  `TakeOut` removes the entry for commit or rollback, `Commit` is `Arc::try_unwrap`
and the commit itself, whose outcome is `Mvcc`'s.  `Collect`, `Evict` and `EndSweep` are the TTL task.
`Shutdown` clears the map; it is a sweep of every id, which waits for each shard and holds its
thread meanwhile, as calls do.

### Datalog

A task is a query (patterns, pending writes, and whether values may be bound) or a set
of rules with a seed.  `Join` is one pattern of `evaluate_solutions`, `Apply` one rule of a round
of `derive`, `EndRound` the test whether the round added a fact; `Timeout` is the deadline, looked at
where the code looks at it.  `MatchPattern` and `MatchPath` are the two kinds of pattern.  The
references `Answers` and `LeastModel` quantify over assignments and know no join.  What
they keep of the code is what a query means here: a path ignores its graph term
(`docs/api-reference.md:645`), a predicate variable ranges over stored facts and not over
derived ones, a pattern with a graph term sees neither pending writes nor derived facts, and
a pattern of an edge type with a domain or range (`EdgeTypes`) has no answers for an end of another class
*if a pattern before it has bound that end*, or it is a constant (`Prunes`, `Seen`; `Prior` in the reference).
This is the one way in which the order of patterns matters, and it falls short of what the
documents promise (section 3).  Patterns with a graph term, paths and the bodies of rules are not pruned.

The code binds nodes, values and predicates in three maps.  Variables of predicate slots
(`PredVar`) are kept apart here too: a name in both positions is two variables, which are not joined.
One map holds nodes and values, because no variable gets both: whatever binds
either looks at both maps.

Pending writes join what a scan has found (`Overlaid`), except that of two values of one property
the later is left out, a pending value behind a stored one and behind a pending one before it.  `datalog.rs:664` has
all pending writes in the results; `JoinIsConjunction` says that
nothing else is left out, and nothing added.
A pattern whose predicate is derived is about the derived facts alone (`evaluate_hybrid`), because, as
the code says of derived predicates, "they don't exist in the triple store" (`datalog.rs:1001`).
`HeadsAreDerived` states it, and `RulesReachLeastModel` is about such stores; nothing in the code checks it.

### Updates

`stored[q]` are the versions of a quad, `ts` the oracle's time: of the last commit that was given one.
A client's request is a query, which `Datalog` evaluates (`AskQuery`, `TakeAnswer`), or an update, whose
steps are those between which others can commit: `StartUpdate` picks the read point, `CompileData`, `AskWhere`, `TakeAnswer`
and `CompileTemplates` are the loop of `run_data_update`, `Compiled` ends it with an answer or
with the RPC, `ResolveRetractions`, `BeginTx`, `PublishChanges` and `CommitChanges` are `apply_changes`.  `Approve`
is a client that sends the changeset of a dry run to `POST /changes`, and `PublishOutside` and
`WriteOutside` are anybody else's commit.  `Stage` is `stage_writes` for property values with valid-time windows, and
`Clashes` is `check_conflict`.  All windows begin at 0 or at the one instant `Now`.

A commit is two steps, as far as a reader can tell them apart: it takes its time under the lock, and then it is written or
refused for a conflict.  The rest of its parts are in `Mvcc`.  So the read point of an
update, which is the oracle's time, may be that of a commit that is not written yet; its
WHERE clauses then read the store with or without it.  `shown` is
history: the quads there were at the read point when the request began.  `Undisturbed` says
that there are no others later, and the properties of updates are about these.  A changeset that resolves to
nothing ends without a commit (`CommitNothing`), or takes a time for the names it interns.

A variable in a subject, object or graph position of a template is looked up by its name, also among the row's
predicates (`Row`; `AsPred` is the predicate variable of the same name), and a predicate's IRI becomes a node
where the code makes it one: in the subject and object of an insert and the object of a delete (`AsNode`, `NodeOf`).  `Insertion` and `Deletion` are one template with one row; those with a position that
stays empty, or gets what cannot stand there, are passed over.

One evaluation runs at a time: each reads a snapshot of its own, so that two would not
meet.  A WHERE clause is its patterns, as it is for the code.  A snapshot without a read point is as of the oracle's time.
Read points that a client gives are ones the store has had or never reaches (`ReadPoints`: a
client knows points that it was shown, by this store or by another one); one that is ahead of the last commit when the WHERE
clause is read, and is reached before `begin_at` looks at it, would be taken for a read of the past.
Left out are the check of cardinalities in the server's transaction, `strict`, annotations of edges and their
variables, and graphs that a template names for the first time.

## 3. Runs

| run | instance | checks |
|---|---|---|
| `mvcc_safety` | 3 interchangeable transactions of one write, a clock that lags behind, one crash | the safety properties of the commit protocol |
| `mvcc_atomic` | 2 transactions of up to two writes, one crash | refinement of `CommitLog` and `CommitStream`; every commit ends |
| `mvcc_lost_update` | 2 transactions | violation: `NoLostUpdate` |
| `subscription` | 4 timestamps, batches of 2, commits of 0, 1 and 2 events | no gaps, the floor, liveness of the stream |
| `type_index` | 4 timestamps, 2 subjects, batches of 2 | the index shows what it read and catches up |
| `retention` | 2 interchangeable overlapping runs, 3 commits of 4 kinds of window, 2 orders, 2 policies | answers, newest versions and values are kept |
| `replication` | 4 batches of 1 or 2 records, 2 lost connections or crashes | what is left out, what is repeated, liveness of the replica |
| `wire_tx` | 5 calls on 2 transactions in one shard, 2 threads | whole commits, one end per transaction, calls return, idle ones are swept |
| `graph_ops` | 2 callers, 4 graphs, 2 quads, chunks of one quad, one write besides | what the log, the marks and the history say |
| `graph_copy` | one caller that moves a graph | violation: `MoveKeepsQuads` |
| `inference` | 2 axioms, 4 statements, 2 graphs, 2 more commits, 1 full run on demand, 1 crash | full runs, incremental runs, the count |
| `updates` | 132 stores of 3 nodes, 10 queries, 4 sets of rules; 5 stores, 6 pairs of updates, one write of another | joins and rules against their references; updates against theirs; every request ends |

The type and inductive invariants that are proved (section 4) are not repeated as
invariants of these runs.

**Why the bounds are enough.**  In `mvcc_safety` a conflict needs two transactions,
a snapshot in the middle of a third's commit makes three; `MaxWall` = 2 with three
commits makes the clock lag, so that the counter has to step over it; one restart
in any state, with any cut, reaches every combination of memory and disk, and
`MaxTs` is chosen so that it stops no commit (`MaxWall` + the number of
transactions).  In `mvcc_atomic` a second write lets a batch replace what it staged
itself.  Valid time has three instants and an end: windows that begin before, at and
after one another, and a replaced value that is shown until its successor begins.  The premises of
`ReplaceKeepsOneValue` hold in states with three racing commits; batches of several Replaces are left to its theorem.  Four timestamps let a stream read a full batch, a short one, and be pruned
in between; events of 0, 1 and 2 are the cases of a commit without an entry, and one cut in
the middle.  Three versions of a quad give a removed one, the one that shadows it and
a third of another window; two orders let a run, or two, stand between them, and
the two policies are with and without a lookback.  Instants run past every window.
For `wire_tx`, a commit that races a write and a second call behind the same mutex
takes three calls after the begin, and the thread stall takes two threads and all
five; more threads need more calls of the same kind.  In `graph_ops` a copy of
two quads has two chunks, so that everything can come between them; the target has one
open quad, or a window of it that is closed and one that begins when the clock has moved on; writers
besides open a window later, end one at once, write one that ends before it begins; two callers are two operations on
one graph.  In `inference` the chain a-b-c has a derivation through a join, a conclusion that is
also asserted and a rule on top of it; its two graphs give per-graph and cross facts, and
chunks of one quad put a crash between any two writes.  In `updates` every graph of two edges
over three nodes occurs, and of three if it has no loop (all cycles among them), with no node, every node and some of the
class that the edge type wants at both ends; the queries have each form of
slot, each order of binding and each kind of pattern.  Its updates have each kind of operation, templates
for one graph, all graphs and a graph variable, predicate variables in the place of nodes, several branches, an operation that undoes an earlier
one, dry runs, and given read points, over the values of one property: none, one, one in each graph, and
windows that begin later and are open or closed; two clients and one more writer come between each other's
steps in every order.  The excuses in `UpdatesDoWhatTheySay` are all needed: without any one of them
TLC finds the case.
Four batches of one or two records let a batch that is left out stand before, between and
behind others; two losses let a crash undo what was written after another.

`CHECK_DEADLOCK FALSE` stands where the instance ends by itself: in the configurations of `Mvcc`,
`Replication`, `GraphOps` and `Inference` when transactions, batches, operations or commits run out, in
`Updates` when requests are answered, and in `WireTx`, where the calls end or, in the stall that
`CallsReturnOrStall` describes, every thread waits.  The others check for deadlock.

**Fairness.**  `CommitsEnd` assumes weak fairness of the steps of each transaction
inside `commit`: it is one synchronous call on a thread that keeps running.  Begin,
insert, failures and crashes are not fair.  `EventsArrive` assumes weak fairness of
the stream task, which is spawned and polls at least every second
(`service.rs`), whether it is woken or not.  Commits, prunings, and what the client
does are not fair.  `SyncCatchesUp` is an invariant of finished syncs and assumes none.
`ReplicaFollows` assumes weak fairness of connecting (a loop with a bounded backoff), of
the streamer's loop and of the replica's; losses and crashes are bounded by `MaxDrops`.
`CallsReturnOrStall` and `IdleIsSwept` assume strong fairness of each call and of the sweep: the
runtime polls every task that was woken, mutex and shard locks go to waiting callers
(`tokio`'s mutex is first come, first served), and free threads come and go, which weak
fairness would not use.  What clients ask, ageing and shutdown are not fair.
`RequestsEnd` assumes weak fairness of the evaluator, of each request's own steps, which are tasks
of the runtime, and of a commit that holds the lock; the deadline, approvals and the beginning of other
commits are not fair.

### What the violations show

- **`mvcc_lost_update`**.  `begin_commit` publishes its timestamp before the batch is
  written.  A transaction begun in between reads at that timestamp without seeing the
  commit, and is not refused when it overwrites it, since `check_conflict` looks only
  for later timestamps.  `NoLostUpdateWhenSettled` is what does hold: only the one
  commit in flight at `begin` can be missed.
- **`graph_copy`**.  A copy keeps the windows of the source.  If the target once had the quad
  in a window that starts later and has been closed, that window governs and hides the
  copy; `move` then closes the quad in the source, and neither graph shows it.
  `CopiesShow` says that there is no other way for a copy to stay hidden.

### Where the code does less than its documents say

Other disagreements are recorded in the properties that say what does hold.

- **Resuming a feed.**  The events of one commit share a `commit_ts`.  Resuming with the last
  one *seen*, as `docs/architecture.md:1875` puts it, loses the rest of a commit cut in the middle;
  `docs/api-reference.md:1484` has the rule that works.  `FeedHasNoGaps` holds for
  `ResumesFrom = "processed"`.
- **Rebuilding the type index** while a commit is in flight takes that commit for applied and never
  reads its entry (`type_index.rs:7-9` has a new class "visible at once").  `IndexShowsWhatItRead` says exactly
  what may be missing.
- **The blob sweep** deletes a value that a commit writes again between its two passes, after its last
  reference was pruned (`store.rs:2845` has such a value never touched).  `BlobsResolve` excepts only those.
- **The WAL streamer** polls on from the number after the *first* record of the last batch
  (`wal_stream.rs:61`).  After a batch of one record that is where the next batch begins, and
  `get_updates_since` starts behind it; `docs/scaling.md:120` has a replica go on with no loss.
  `SkipsOnlyAfterSingles` says that nothing else is left out.
- **The registry's threads.**  `docs/architecture.md:2840` calls `tx_map` lock-free; a `DashMap` has
  a lock per shard, and Insert and Query hold it across an `await`.  With as many begins, commits,
  rollbacks or sweeps waiting for the shard as there are threads, nobody is left to run the
  call that would free it.  `CallsReturnOrStall` names this stall and shows that there is no other.
- **A commit that fails** takes its transaction with it, also when it failed only because a Cypher call held
  a clone; the comment at `service.rs:4664` takes that to be impossible.  An expired
  transaction's rollback answers NOT_FOUND (`docs/api-reference.md:1037` calls it a no-op), and the sweep
  may evict a transaction used after it was collected.
- **Incremental inference** agrees with recomputing while facts are only asserted
  (`InsertsAreExact`); `tests/owl_rl.rs:418` has it agree after retractions as well.  It does not where a
  fact was both asserted and derived: with a-b, b-c and a-c asserted, closing a-c leaves a-c following
  and in no graph, since it was never inferred.  Nor where a window asserts and closes one
  fact, nor, for a cross fact, where one graph had the fact and lost it, nor after a full run that
  covered a commit in flight.  A run cut short between chunks leaves facts that the next one does
  not draw from again, although `docs/architecture.md:3360` has a run commit once.  `RecomputeIsExact`
  is the way out: a full run repairs all of this.
- **A Replace after a backdated write.**  `open_values` asks the last version written of a value whether it is
  open (`store.rs:1950`), a snapshot the one with the latest start.  With a value open from 10 and a window of it that
  ends at 5 written afterwards, a Replace by another value finds the first closed and leaves it open beside its own
  (`docs/api-reference.md:461` has it close every other open value).  `ReplaceKeepsOneValue` is what holds: for
  writes that go forward in valid time (`Forward`).
- **Two Replaces in one batch.**  The first closes the stored value by a version under the key of that quad and the batch's
  time; the second finds the value open in the store again and puts its own closing version, with a later end,
  under the same key (`store.rs:2034`).  The stored value and the first new one then show together until the second begins
  (`docs/design/v3-key-layout.md:126`).  Neither stays open, so that `ReplaceKeepsOneValue` is not affected; a retraction
  behind a Replace takes that key in the same way, which its premise `ReplacesLast` leaves out.
- **Pending writes in a query.**  A transaction that has written another value of a property still finds the stored one
  and not its own (`eval.rs:91`), although `datalog.rs:664` has it see all that it wrote.  `JoinIsConjunction` has
  exactly these writes optional.
- **Edge types as filters.**  `docs/architecture.md:2819` has only instances of the domain class considered; the class of a
  subject is looked at only if the subject is bound when the pattern is scanned (`eval.rs:45`).  `JoinIsConjunction` has
  the rule that holds.
- **The start of a request.**  `main.rs:3190` has all WHERE clauses read the data as of the start of the request.  An
  update that begins while a commit has its time and is not written reads at that time: its first clause
  without that commit and, once it is written, the next one with it.  `UpdatesDoWhatTheySay` and
  `NothingItWritesHasChanged` are about updates whose point shows what it did when they began (`Undisturbed`), among
  them all that begin with no commit in flight.
- **An update's WHERE clause** is sent without its filters, optional parts, BIND and VALUES
  (`polargraph-rest/src/main.rs:3544-3561` uses a branch's patterns and rules only): `DELETE … WHERE { … FILTER … }`
  deletes for every row, also those that FILTER removes (`docs/architecture.md:3237`).  A branch
  without patterns has no solutions, so `INSERT … WHERE {}` inserts nothing.  The model's clauses are
  patterns, so that its properties speak of those alone.
- **The input of an update may be stale.**  `main.rs:3445` has "the templates' input can't change between
  reading and writing", but only the written quads are compared with the read point: a row of the WHERE
  clause that the templates do not write may be gone when the update commits.  On a store without commits the read point
  is 0, which stands for none.  `NothingItWritesHasChanged` is what holds for undisturbed updates.
- **Approving a dry run** is not the update it shows: its adds are in mode Add, those of `POST /changes` in mode
  Auto (`main.rs:1446`), which replaces the other values of a property.  `UpdatesDoWhatTheySay` excepts
  those values.  A dry run without a WHERE clause answers with `read_ts` 0, so that its approval is not conditional.
- **An insert behind a closed later window** of the same quad stays hidden, as in `graph_copy`: adds are valid from 0.

## 4. Theorems

TLC checks the instances above; TLAPS proves the following for every value of the
constants, from the assumptions named in the modules (types of the constants; what the entries below name; and
for `ChangeLog` that a commit that types someone is logged).

| module | theorems |
|---|---|
| `MvccProofs` | `TypeInvariant`, `CommitProtocol`, and from it `TimestampsAreOrdered`, `FirstCommitterAlwaysWins`, `SettledSnapshotsAlwaysRepeat`, `SettledUpdatesAreNeverLost`, `WatchNamesWrittenCommits`; `DictionaryAlwaysDecodes`; `ReplacingKeepsOneValue`; `CommitsAreAtomic` (`Mvcc` implements `CommitLog`), `CommitsAreStreamed` (`Mvcc` implements `CommitStream`) |
| `ChangeLogProofs` (with `Subscription` and `TypeIndex`) | `FeedTypes`, `FloorAlwaysCovers`, `ProcessedTokensLeaveNoGaps`; `IndexInvariant`, `IndexAlwaysShowsWhatItRead`, `SyncAlwaysCatchesUp` |
| `RetentionProofs` | `RetentionTypes`, `RetentionInvariant`, `AnswersAreKept`, `NewestIsKept`, `ValuesResolve` |
| `WireTxProofs` | `RegistryInvariant`, and from it `RegistryTypes`, `EveryTransactionHasOneFate`, `CommitsAreWhole` |
| `ReplicationProofs` | `ReplicaTypes`, `ReplicationInvariant`, `SkipsAreSingles`, `RepeatsAreUnnoted` |
| `GraphOpsProofs` | `GraphInvariant`, and from it `GraphTypes`, `LogsAreDone`, `CopiesAreSeen`, `PartialCopiesAreFlagged`, `NewGraphsAreAnnounced`, `DropsKeepHistory` |
| `InferenceProofs` | `InferenceTypes`, `CountsMatch`, `RecomputesAreExact`, `InsertsStayExact` |
| `UpdatesProofs` (with `Datalog`) | `UpdateTypes`, `JoinsAreConjunctions`, `ReadPointsHold`, `UpdatesAreDone`, `RulesAreLeast` |

None of the properties is inductive by itself.  The strengthened invariants:

- **`CommitInv`** ties the three places a commit is known in: the lock has one holder
  exactly when a transaction is locked or has written, a locked one's timestamp is
  published and later than everything on disk, and what a live snapshot covers but
  did not show is at most the commit in flight when it began.  A restart kills
  every live transaction, so it needs only that cutting a log keeps its order.
- **`DictInv`** adds to the dictionary the position of the log at which each entry was
  written, so that a cut that keeps a batch keeps the entries it uses.
- **The refinements** map `log` to the history; a commit takes effect in
  `WriteBatch`, where `Uncontested` follows from `Conflicts` being false since the lock
  was taken; all other steps stutter, begin or end a transaction.
- **`FeedInv`** says, for each logged commit in the client's coverage, where it is: complete
  at the client, pending, in the log behind what is pending, or pruned in front of the
  open stream.  `ClientHolds` says the same of the token across disconnects.
- **`IndexInv`** says that of every subject no read record mentions, the typings up to
  the point reached are applied or were missed, and what was missed is in `unseen`.
- **`RetInv`** says that every missing version has a *reason* (`Removable`): a later
  correction of its window from before the latest cutoff, or it is closed before
  the lookback and all that is left is newer; and that what runs have picked will have
  one when it is gone.  A reason survives commits (whose versions are newer),
  prunings by other runs (less is left) and later cutoffs, which is why overlapping
  runs need no lock.  `MissingChangesNothing` then turns reasons into equal answers.
- **`RepInv`** (of `Replication`) follows a batch from the cursors to the journal: a cursor stands
  at the last batch sent or one behind it, what is in the stream is a chain that begins
  behind what is noted last, and so is the journal; a crash cuts it to a prefix.

- **`LinesInv`** and **`FateInv`** (of `WireTx`): the calls at a mutex are those that wait for it or hold it,
  each once, and an id is in the map or was taken out of it once.  An answered write is buffered;
  a commit that has taken its transaction can share it with Cypher calls only (an Insert or Query
  would have held the shard), and one that was answered shares it with nobody, so nothing
  is written to a buffer after it was stored.

- **`ValuesInv`** (of `Mvcc`) is about slots whose open values come from Replaces alone (`OnlyReplaced`), whose writes go
  forward in valid time in the order of the log (`Forward`), and where nothing but Replaces follows a Replace in a
  buffer (`ReplacesLast`).  Without the second a backdated window hides a value from `open_values`, without the third a
  retraction or an add puts its version in the place of the one that closes.  Forward in time, the version written last
  governs from its start on, so that what `open_values` misses is not open to any snapshot.  The commit protocol alone lets a Replace that has closed what it saw commit after
  another one has opened a value; the lock and the conflict check of the slot exclude it.
  The invariant says it of every *prefix* of the log, since a restart keeps one, and of the
  buffers: what is in one was written by its transaction, and what is open stems from a write that is in the log.
  It assumes that the hash of a value is never the id of a node (`ObjectsAreDistinct`).
- **`GraphInv`**: where an operation is, what its work list may still hold, and that what it has
  logged lies behind it (`ControlInv`); that what a drop has yet to close is in its plan or was touched
  by another writer, and that what a copy has read is in the target, in the plan, or was
  touched (`WorkInv`); that a copy of more than one commit is marked while it has work (`FlagInv`).  Other callers' steps
  keep this because they record what they touch in `touched` for everybody else.
  What it says of a drop is said at the time the drop has read its graph (`readAt`): a quad that was live then is in the
  plan, closed or touched, so whatever the graph shows later without having been touched begins later.
  It assumes `GraphContents`: finitely many windows in a graph at first, committed by the contents' time, no two of one quad
  in one commit.
- **The invariants of `Inference`**: while a run writes, what is inferred, with what is still to
  assert and without what is still to close, is what it derived (`WrittenInv`), and the counter
  changes with it, commit by commit (`CountInv`).  While it derives, every fact seen follows from what it
  read, and every fact that follows from facts not in the queue is seen (`DerivesRight`): so when
  the queue is empty what is seen is the *smallest closed set*, and no induction
  over derivations is needed.  A run that follows inserts starts from a materialization that was
  exact at its mark (`InsertInv`) as long as nothing was closed since (`GrowInv`).  `spoiled` is what keeps
  `RecomputeIsExact` apart from runs during which a client closed a statement; a closing commit that has its timestamp
  but no batch yet when the run starts counts too.  The constants' sets are finite (`FactsAreFinite`).
- **`JoinInv`** (of `Datalog`, kept by every step of `Updates`): the partial solutions bind exactly the
  variables of the patterns joined so far (`Joined`); each satisfies those patterns over the snapshot with the
  pending writes, pruned by what is bound before, and whatever satisfies them over the snapshot with those pending
  writes that have no other value of their property, stored or pending, is among them.  A step keeps it because a pattern's matches are the widenings of
  a solution that satisfy the pattern (`MatchesSound`, `MatchesComplete`), and whether an earlier pattern holds
  depends on its own variables only (`MeetsAgrees`).  For path patterns, the breadth-first layers are the nodes that
  a path of so many edges leads to (`HopsArePaths`).  `UpdateTypeOK` goes with it: every task that is asked for, and
  every snapshot that is shown, has its type, which for the store means that batches hold quads only
  (`BatchWritesQuads`).  Assumed are that ids, values, predicates, variables and the markers for "no graph" and "no
  variable" are told apart, as the three maps of a
  `Solution` keep them (`datalog.rs:216`; `TermsAreDistinct`), that edge types name nodes as classes (`EdgeTypesType`), that
  terms are finitely many (`TermsAreFinite`), and that a start state has its type (`StartsType`).
- **`MeaningInv`** (of `Updates`) follows an update from its WHERE clauses to the store, for each client:
  how far the request is (`Order`); that, while it is undisturbed, the changeset is what the operations compiled so far lead to
  over the quads that were shown at the read point, that the rows are the solutions of the branches asked so far, and that the
  closes are those of the retractions at the time they were resolved (`Meaning`); and what a commit has done,
  namely that no version of a quad it wrote is from between its read point and itself
  (`Conditional`) and which versions it wrote (`Effect`).
  An answer is a branch's solutions because of `JoinInv`: without pending writes the two sides of
  `JoinIsConjunction` meet.  Commits of others keep `Meaning` because what is shown at a time whose commit is
  written never changes (`ReadsStay`).  The write of a commit in flight may change what is shown at its own time, and then
  the updates that read there are disturbed for good, since nothing is written at that time again.  For all this a point
  that was given must not be reached while the request is under way: `PointsOK` counts the commits still to come, which are at most the writers outside and the
  requests that have not ended, and `ReadPoints` says it of the start.  `CommitChanges` establishes the other two:
  `Conditional` from `Clashes` being false while it holds the lock, with no other commit's version at its time, `Effect` from what the fold over the batch leaves in it
  (`BatchIs`), in which an add comes behind the closes and so wins over them.
  `UpdatesDoWhatTheySay` then follows quad by quad: the last operation that mentions it is the
  one `Means` finds, and the version the commit wrote is the newest at its time (`WrittenVersions`), as versions of a
  quad have different times (`VersionsOK`, of which `StartsType` has the start).  TLC has also checked
  `MeaningInv` on the reachable states of the instance `updates`.
- **`RulesInv`** (of `Datalog`, kept by every step of `Updates`): while rules are applied, what is derived has the
  seed and is in every model of the rules, and the rules of a round that has added nothing so far are
  applied: they derive nothing new (`Deriving`).  `Apply` keeps it because a body finds more in more facts
  (`HeadsGrow`), and when `EndRound` ends the rules all of them are applied, so that what is derived is a
  model itself, and the smallest.  The other half is about the reference: `LeastModel` takes as many rounds as
  there are pairs that rules can derive, and these suffice, since each round that changes anything adds a
  pair (`LeastModelIsStable`); so it is a model too, and in every other (`LeastModelIsClosed`,
  `LeastModelIsLeast`).  That one rule's body, joined from left to right by `evaluate_hybrid`, has the
  solutions of its patterns over stored and derived facts is `SolvedAre`, which needs `HeadsAreDerived`, the
  hypothesis in the property.

Only model-checked: `CommitsEnd`, `EventsArrive`, `ReplicaFollows`, `CallsReturnOrStall`, `IdleIsSwept` and
`RequestsEnd`, because TLAPS has no proofs of liveness under fairness here.  Every safety invariant and action
property of a passing run is a theorem.

## 5. What is not modelled, and the plan

Left out for good: key and value encodings, wire formats, logging and metrics, the
HNSW graph, parsers and serializers, clients and deployment.  They are most of the
repository's lines: of some 51,000, the REST gateway, the gRPC conversions, the Cypher and SPARQL
front ends, the migrations and the tests beside the code make up more than half.
Content filters and access control are left out of `Subscription`: they drop events of a
commit and never an entry.  Replicas have no pruner and are not in `ChangeLog`.

Not modelled yet, in the order of what they would add:

1. **The rest of the SPARQL gateway** (`polargraph-rest/src/main.rs`, `polargraph-sparql`): a query is
   flattened into branches, each of them an RPC of its own that reads the latest snapshot, so
   the rows of one answer may stem from different commits; filters are applied before the optional
   patterns are joined; graph operations in an update run one by one.
2. **`Replication`**, next revision: crashes of the primary that lose its unsynced tail and
   issue its numbers again, the expiry of its log while a replica is away
   (`wal_client.rs:152`), counters as merge operands over the batches.
3. **`Dictionary`**: graph and IRI interning against commits that bind names
   (`store.rs:1339`), the vocabulary; **`AccessCache`**: the bitmaps that depend on a sync's outcome.
4. **`Cardinality`**: two writers past one check (`registry.rs:583`), which share no state and so pass
   it by construction; the **rate limiter** (a token bucket in floating-point time).
5. **The schema's own closure** in `Inference`: a run also asserts what follows from axioms about axioms,
   such as transitive subclasses (`owl_rl.rs:952`); here an axiom has its rules and nothing follows from it alone.
6. The **Cypher** planner and aggregation, SHACL: sequential evaluation over one snapshot.
