------------------------------ MODULE Updates ------------------------------
(***************************************************************************)
(* SPARQL Update: the REST gateway compiles a request to one changeset,    *)
(* asking the server for the solutions of its WHERE clauses, and the       *)
(* server applies the changeset in one transaction (main.rs of             *)
(* polargraph-rest, apply_changes in service.rs).  A dry run shows the     *)
(* changeset, which a client may send back to POST /changes.  Other        *)
(* requests and writers come between any two of these steps.               *)
(***************************************************************************)
EXTENDS Datalog, Versions

CONSTANTS
  Client,
  Starts, \* what the store may hold at first, clients ask and others write
  Now,    \* the instant of valid time at which all of it happens
  AsPred, \* the predicate variable of the same name as a variable,
  NodeOf  \* and the node of a predicate's IRI

ASSUME UpdateConstants ==
  /\ Now \in Nat /\ 0 < Now /\ Now < EndOfTime
  /\ DOMAIN AsPred \subseteq NodeVar /\ AsPred \in [DOMAIN AsPred -> PredVar]
  /\ NodeOf \in [Pred -> Node]

\* A quad in one graph, or in all of them (Union).
QuadRef == [g : Graph \cup {Default, Union}, s : Node, p : Pred, o : Node \cup Literal]

Template == [g : Graph \cup NodeVar \cup {Default, Union}, s : Node \cup NodeVar, p : Pred \cup PredVar,
             o : Node \cup Literal \cup NodeVar]

\* INSERT DATA, DELETE DATA and DELETE/INSERT WHERE
Operation ==
  [kind : {"insert"}, quads : Seq(Quad)] \cup [kind : {"delete"}, quads : Seq(QuadRef)]
  \cup [kind : {"modify"}, delete : Seq(Template), insert : Seq(Template), branches : Seq(Seq(Pattern) \ {<<>>})]

IsRequest(r) ==
  \/ r.kind = "none"
  \/ r.kind = "query" /\ IsTask(r.task)
  \/ r.kind = "update" /\ r.ops \in Seq(Operation) /\ r.dry \in BOOLEAN /\ r.readTs \in Nat

ASSUME StartsType ==
  \A start \in Starts :
    /\ start.stored \in [DOMAIN start.stored -> SUBSET Version] /\ DOMAIN start.stored \subseteq Quad
    /\ start.ts \in Nat /\ \A q \in DOMAIN start.stored : \A v \in start.stored[q] : v.tt <= start.ts
    /\ \A q \in DOMAIN start.stored : start.stored[q] # {} /\ \A v, w \in start.stored[q] : v.tt = w.tt => v = w
    /\ \A c \in Client : IsRequest(start.request[c])
    /\ start.outside \subseteq Quad

\* A client gives a point it was shown, or one of another store, which this
\* one does not reach with the commits that are to come.
ASSUME ReadPoints ==
  /\ IsFiniteSet(Client)
  /\ \A start \in Starts :
       /\ IsFiniteSet(start.outside)
       /\ \A c \in Client : start.request[c].kind = "update" =>
            LET t == start.request[c].readTs
            IN  t <= start.ts \/ start.ts + Cardinality(start.outside) + Cardinality(Client) < t

VARIABLES
  stored,    \* the versions of each quad
  ts,        \* the last time given to a commit, which may not have been written yet
  outside,   \* the quads that other writers are about to write
  writing,   \* the one whose commit has its time and is not written yet
  request,   \* what each client asks for
  at,        \* where its request is
  readAt,    \* the request's read point; 0 for none
  shown,     \* what was there to read at it when the request began
  op,        \* the operation of an update that is compiled,
  branch,    \* and the branch of its WHERE clause that is asked for
  rows,      \* the solutions of the branches before
  changes,   \* the changeset so far
  approved,  \* the changeset has come back from the client
  seen,      \* the last commit that was written when the retractions were resolved
  closes,    \* what they have found
  begun,     \* the read_ts of the transaction
  committed, \* its commit's time; 0 if there was none
  asker      \* whose query the evaluator has

requestVars ==
  <<request, at, readAt, shown, op, branch, rows, changes, approved, seen, closes, begun, committed>>
updateVars == <<stored, ts, outside, writing, requestVars, asker, datalogVars>>

NoChanges == [adds |-> <<>>, retractions |-> {}]

-----------------------------------------------------------------------------
(* The store *)

Of(q) == IF q \in DOMAIN stored THEN stored[q] ELSE {}

\* What a snapshot shows now.
ShownAt(t) == {q \in DOMAIN stored : Holds(stored[q], t, Now)}

\* The commit lock is held from the giving of a time to the write.
Locked == writing # {} \/ \E c \in Client : at[c] = "committing"

\* The last commit that has been written, or refused.
Settled == IF Locked THEN ts - 1 ELSE ts

\* The store after the last commit writes these windows of quads.
Written(windows) ==
  [q \in DOMAIN stored \cup DOMAIN windows |->
     Of(q) \cup (IF q \in DOMAIN windows
                 THEN {[start |-> windows[q].start, end |-> windows[q].end, tt |-> ts]} ELSE {})]

SameSlot(q, r) == q.g = r.g /\ q.s = r.s /\ q.p = r.p

\* A property value that POST /changes adds, in mode Auto, replaces the others;
\* one that an update adds, in mode Add, does not.
Replaces(q, auto) == auto /\ q.o \in Literal

\* check_conflict: what the write touches has a version from after read_ts.
Clashes(q, auto, readTs) ==
  \E r \in DOMAIN stored :
    /\ r = q \/ (Replaces(q, auto) /\ SameSlot(q, r))
    /\ \E v \in stored[r] : v.tt > readTs

NewestByTt(vs) == CHOOSE v \in vs : \A w \in vs : w.tt <= v.tt

\* open_values as of valid time 0, where adds start.
OpenValues(q) ==
  {r \in DOMAIN stored : SameSlot(q, r) /\ r.o \in Literal /\ NewestByTt(stored[r]).end > 0}

\* One add as stage_writes puts it in the batch.  values: what the batch has
\* staged in its slot since the last Replace there.
Stage(batch, q, auto) ==
  LET always == [start |-> 0, end |-> EndOfTime]
      window(r) == [start |-> NewestByTt(stored[r]).start, end |-> 0]
      mine == {e \in batch.values : SameSlot(e.quad, q)}
      staged == {e.quad : e \in mine}
      open == {e.quad : e \in {e \in mine : e.end = EndOfTime}}
      closed == IF Replaces(q, auto) THEN (OpenValues(q) \ staged) \cup open ELSE {}
  IN  [windows |-> [r \in DOMAIN batch.windows \cup closed \cup {q} |->
                      IF r = q THEN always
                      ELSE IF r \notin closed THEN batch.windows[r]
                      ELSE IF r \in open THEN [start |-> 0, end |-> 0] ELSE window(r)],
       values |-> (IF Replaces(q, auto) THEN batch.values \ mine ELSE batch.values)
                    \cup IF q.o \in Literal THEN {[quad |-> q, end |-> EndOfTime]} ELSE {}]

\* The batch of a changeset: what is closed, then the adds in their order.
Batch(closed, adds, auto) ==
  LET windows == [q \in {c.quad : c \in closed} |->
                    LET c == CHOOSE c \in closed : c.quad = q IN [start |-> c.start, end |-> c.end]]
      values == {[quad |-> c.quad, end |-> c.end] : c \in {c \in closed : c.quad.o \in Literal}}
      staged[k \in 0 .. Len(adds)] ==
        IF k = 0 THEN [windows |-> windows, values |-> values] ELSE Stage(staged[k - 1], adds[k], auto)
  IN  staged[Len(adds)].windows

-----------------------------------------------------------------------------
(* Compiling a request *)

\* A retraction names a quad in one graph, or in all of them (Union).
Names(r, q) == r.g \in {Union, q.g} /\ r.s = q.s /\ r.p = q.p /\ r.o = q.o

\* UpdateChangeset::add, for several quads
Add(cs, quads) == [cs EXCEPT !.adds = @ \o quads]

\* The elements of a sequence that are in a set.
Sifted(seq, set) ==
  LET sifted[k \in 0 .. Len(seq)] ==
        IF k = 0 THEN <<>>
        ELSE IF seq[k] \in set THEN Append(sifted[k - 1], seq[k]) ELSE sifted[k - 1]
  IN  sifted[Len(seq)]

\* Faulty: earlier inserts of the quads stand.
RetractOnly(cs, refs) == [cs EXCEPT !.retractions = @ \cup refs]

\* UpdateChangeset::retract, for several quads: a delete undoes the request's
\* earlier inserts.
Retract(cs, refs) ==
  [adds |-> Sifted(cs.adds, {q \in Quad : ~\E r \in refs : Names(r, q)}),
   retractions |-> cs.retractions \cup refs]

\* sparql_row: what a template's term stands for under a solution, a predicate
\* before anything else that has the name; Blank if nothing.
Row(term, sol) ==
  IF term \in DOMAIN AsPred /\ AsPred[term] \in DOMAIN sol THEN sol[AsPred[term]] ELSE Resolve(term, sol)

\* iri_to_node_id
AsNode(x) == IF x \in Pred THEN NodeOf[x] ELSE x

\* resolve_quad_pattern_to_proto
Insertion(t, sol) ==
  [g |-> Row(t.g, sol), s |-> AsNode(Row(t.s, sol)), p |-> Resolve(t.p, sol), o |-> AsNode(Row(t.o, sol))]

\* resolve_ground_term_subject and resolve_ground_term_object: a predicate
\* stands for its node as the object only.
Deletion(t, sol) ==
  [g |-> Row(t.g, sol), s |-> Row(t.s, sol), p |-> Resolve(t.p, sol), o |-> AsNode(Row(t.o, sol))]

\* The quads of INSERT templates, solution by solution.  What is unbound, or
\* bound to what cannot stand there, is passed over.
Filled(templates, sols) ==
  LET n == Len(templates)
      fill(k) == Insertion(templates[((k - 1) % n) + 1], sols[((k - 1) \div n) + 1])
  IN  Sifted([k \in 1 .. n * Len(sols) |-> fill(k)], Quad)

\* The quads of DELETE templates, in whatever order.
Instances(templates, sols) ==
  {Deletion(templates[k], sol) : k \in DOMAIN templates, sol \in sols} \cap QuadRef

Orders(set) ==
  {f \in [1 .. Cardinality(set) -> set] : \A i, j \in DOMAIN f : i # j => f[i] # f[j]}

HasWhere(u) == \E k \in DOMAIN u.ops : u.ops[k].kind = "modify"

Current(c) == request[c].ops[op[c]]
Compiling(c) == at[c] = "compiling" /\ op[c] <= Len(request[c].ops)

\* WHERE clauses read the point the client gave, or else that of the last
\* commit, which show_stats tells also before it is written.
StartUpdate(c) ==
  /\ at[c] = "new" /\ request[c].kind = "update"
  /\ readAt' = [readAt EXCEPT ![c] =
                  IF request[c].readTs = 0 /\ HasWhere(request[c]) THEN ts ELSE request[c].readTs]
  /\ shown' = [shown EXCEPT ![c] = ShownAt(readAt'[c])]
  /\ at' = [at EXCEPT ![c] = "compiling"]
  /\ UNCHANGED <<stored, ts, outside, writing, request, op, branch, rows, changes, approved, seen, closes,
                 begun, committed, asker, datalogVars>>

\* INSERT DATA and DELETE DATA
CompileData(c) ==
  /\ Compiling(c) /\ Current(c).kind \in {"insert", "delete"}
  /\ changes' = [changes EXCEPT ![c] =
       IF Current(c).kind = "insert" THEN Add(@, Current(c).quads) ELSE Retract(@, Elements(Current(c).quads))]
  /\ op' = [op EXCEPT ![c] = @ + 1]
  /\ UNCHANGED <<stored, ts, outside, writing, request, at, readAt, shown, branch, rows, approved, seen,
                 closes, begun, committed, asker, datalogVars>>

\* A snapshot as of 0 is the latest one.
Snapshot(t) == ShownAt(IF t = 0 THEN ts ELSE t)

\* The Query RPC, for one branch of a WHERE clause: its patterns alone, without
\* its filters and optional parts.
AskWhere(c) ==
  /\ Compiling(c) /\ Current(c).kind = "modify" /\ branch[c] <= Len(Current(c).branches)
  /\ Ask([kind |-> "query", patterns |-> Current(c).branches[branch[c]], pending |-> <<>>, values |-> TRUE],
         Snapshot(readAt[c]))
  /\ asker' = c
  /\ at' = [at EXCEPT ![c] = "asking"]
  /\ UNCHANGED <<stored, ts, outside, writing, request, readAt, shown, op, branch, rows, changes, approved,
                 seen, closes, begun, committed>>

\* Any other query, over the latest snapshot.
AskQuery(c) ==
  /\ at[c] = "new" /\ request[c].kind = "query"
  /\ Ask(request[c].task, ShownAt(ts))
  /\ asker' = c
  /\ at' = [at EXCEPT ![c] = "asking"]
  /\ UNCHANGED <<stored, ts, outside, writing, request, readAt, shown, op, branch, rows, changes, approved,
                 seen, closes, begun, committed>>

\* Faulty: the error of a timeout leaves the request waiting.
TakeAnswerOnly(c) ==
  /\ at[c] = "asking" /\ asker = c /\ state = "done"
  /\ Clear
  /\ IF request[c].kind = "query"
     THEN at' = [at EXCEPT ![c] = "answered"] /\ UNCHANGED <<rows, branch>>
     ELSE /\ at' = [at EXCEPT ![c] = "compiling"]
          /\ rows' = [rows EXCEPT ![c] = @ \cup solutions]
          /\ branch' = [branch EXCEPT ![c] = @ + 1]
  /\ UNCHANGED <<stored, ts, outside, writing, request, readAt, shown, op, changes, approved, seen, closes,
                 begun, committed, asker>>

\* The solutions join those of the branches before; nothing is applied when
\* the WHERE clause can't be read.
TakeAnswer(c) ==
  /\ at[c] = "asking" /\ asker = c /\ state \in {"done", "timeout"}
  /\ Clear
  /\ IF state = "timeout" \/ request[c].kind = "query"
     THEN at' = [at EXCEPT ![c] = IF state = "timeout" THEN "failed" ELSE "answered"] /\ UNCHANGED <<rows, branch>>
     ELSE /\ at' = [at EXCEPT ![c] = "compiling"]
          /\ rows' = [rows EXCEPT ![c] = @ \cup solutions]
          /\ branch' = [branch EXCEPT ![c] = @ + 1]
  /\ UNCHANGED <<stored, ts, outside, writing, request, readAt, shown, op, changes, approved, seen, closes,
                 begun, committed, asker>>

\* DELETE templates for every solution, then INSERT templates.
CompileTemplates(c) ==
  /\ Compiling(c) /\ Current(c).kind = "modify" /\ branch[c] > Len(Current(c).branches)
  /\ \E sols \in Orders(rows[c]) :
       changes' = [changes EXCEPT ![c] =
         Add(Retract(@, Instances(Current(c).delete, rows[c])), Filled(Current(c).insert, sols))]
  /\ op' = [op EXCEPT ![c] = @ + 1]
  /\ branch' = [branch EXCEPT ![c] = 1]
  /\ rows' = [rows EXCEPT ![c] = {}]
  /\ UNCHANGED <<stored, ts, outside, writing, request, at, readAt, shown, approved, seen, closes, begun,
                 committed, asker, datalogVars>>

\* A dry run answers with the changeset, an empty one with nothing done.
Compiled(c) ==
  /\ at[c] = "compiling" /\ op[c] > Len(request[c].ops)
  /\ at' = [at EXCEPT ![c] = IF request[c].dry THEN "shown"
                             ELSE IF changes[c] = NoChanges THEN "nothing" ELSE "applying"]
  /\ UNCHANGED <<stored, ts, outside, writing, request, readAt, shown, op, branch, rows, changes, approved,
                 seen, closes, begun, committed, asker, datalogVars>>

\* The client sends the changeset and the read point it was shown to
\* POST /changes.
Approve(c) ==
  /\ at[c] = "shown" /\ changes[c] # NoChanges
  /\ approved' = [approved EXCEPT ![c] = TRUE]
  /\ at' = [at EXCEPT ![c] = "applying"]
  /\ UNCHANGED <<stored, ts, outside, writing, request, readAt, shown, op, branch, rows, changes, seen,
                 closes, begun, committed, asker, datalogVars>>

-----------------------------------------------------------------------------
(* ApplyChanges *)

MaxOf(m, n) == IF m > n THEN m ELSE n

\* The governing version of each quad a retraction names, closed.
Closing(retractions, t) ==
  UNION {{[quad |-> q, start |-> v.start, end |-> MaxOf(Now, v.start)] :
             v \in {v \in stored[q] : Governs(v, stored[q], t, Now) /\ Now < v.end}} :
           q \in {q \in DOMAIN stored : \E r \in retractions : Names(r, q)}}

\* Retractions are resolved to the quads that are live at the read point.
ResolveRetractions(c) ==
  /\ at[c] = "applying"
  /\ LET t == IF readAt[c] > 0 THEN readAt[c] ELSE ts
     IN  /\ seen' = [seen EXCEPT ![c] = IF t <= Settled THEN t ELSE Settled]
         /\ closes' = [closes EXCEPT ![c] = Closing(changes[c].retractions, t)]
  /\ at' = [at EXCEPT ![c] = "resolved"]
  /\ UNCHANGED <<stored, ts, outside, writing, request, readAt, shown, op, branch, rows, changes, approved,
                 begun, committed, asker, datalogVars>>

\* Faulty: the transaction begins at the latest commit.
BeginLatest(c) ==
  /\ at[c] = "resolved"
  /\ begun' = [begun EXCEPT ![c] = ts]
  /\ at' = [at EXCEPT ![c] = "begun"]
  /\ UNCHANGED <<stored, ts, outside, writing, request, readAt, shown, op, branch, rows, changes, approved,
                 seen, closes, committed, asker, datalogVars>>

\* begin, or begin_at, which refuses a read point ahead of the last commit.
BeginTx(c) ==
  /\ at[c] = "resolved"
  /\ begun' = [begun EXCEPT ![c] = IF readAt[c] > 0 THEN readAt[c] ELSE ts]
  /\ at' = [at EXCEPT ![c] = IF readAt[c] > ts THEN "refused" ELSE "begun"]
  /\ UNCHANGED <<stored, ts, outside, writing, request, readAt, shown, op, branch, rows, changes, approved,
                 seen, closes, committed, asker, datalogVars>>

Adds(c) == Elements(changes[c].adds)

Conflicts(c) ==
  \/ \E w \in closes[c] : Clashes(w.quad, FALSE, begun[c])
  \/ \E q \in Adds(c) : Clashes(q, approved[c], begun[c])

\* Transaction::commit gives the commit its time, under the lock, also one
\* that has no more to write than names.
PublishChanges(c) ==
  /\ at[c] = "begun" /\ ~Locked
  /\ ts' = ts + 1
  /\ at' = [at EXCEPT ![c] = "committing"]
  /\ UNCHANGED <<stored, outside, writing, request, readAt, shown, op, branch, rows, changes, approved, seen,
                 closes, begun, committed, asker, datalogVars>>

\* With nothing to write, not even names, there is no commit.
CommitNothing(c) ==
  /\ at[c] = "begun" /\ closes[c] = {} /\ changes[c].adds = <<>>
  /\ at' = [at EXCEPT ![c] = "applied"]
  /\ UNCHANGED <<stored, ts, outside, writing, request, readAt, shown, op, branch, rows, changes, approved,
                 seen, closes, begun, committed, asker, datalogVars>>

\* A conflict is answered with 409; else the batch is written.
CommitChanges(c) ==
  /\ at[c] = "committing"
  /\ IF Conflicts(c)
     THEN at' = [at EXCEPT ![c] = "conflict"] /\ UNCHANGED <<stored, committed>>
     ELSE /\ at' = [at EXCEPT ![c] = "applied"]
          /\ stored' = Written(Batch(closes[c], changes[c].adds, approved[c]))
          /\ committed' = [committed EXCEPT ![c] = ts]
  /\ UNCHANGED <<ts, outside, writing, request, readAt, shown, op, branch, rows, changes, approved, seen, closes,
                 begun, asker, datalogVars>>

-----------------------------------------------------------------------------

UpdateInit ==
  /\ \E start \in Starts :
       stored = start.stored /\ ts = start.ts /\ request = start.request /\ outside = start.outside
  /\ writing = {}
  /\ at = [c \in Client |-> IF request[c].kind = "none" THEN "idle" ELSE "new"]
  /\ readAt = [c \in Client |-> 0]
  /\ shown = [c \in Client |-> {}]
  /\ op = [c \in Client |-> 1] /\ branch = [c \in Client |-> 1]
  /\ rows = [c \in Client |-> {}]
  /\ changes = [c \in Client |-> NoChanges]
  /\ approved = [c \in Client |-> FALSE]
  /\ seen = [c \in Client |-> 0] /\ begun = [c \in Client |-> 0] /\ committed = [c \in Client |-> 0]
  /\ closes = [c \in Client |-> {}]
  /\ asker \in Client
  /\ DatalogInit

\* Another writer, such as an import or a Cypher write, commits a quad.
PublishOutside(q) ==
  /\ ~Locked
  /\ ts' = ts + 1 /\ outside' = outside \ {q} /\ writing' = {q}
  /\ UNCHANGED <<stored, requestVars, asker, datalogVars>>

\* It opens a window now, closes the one that is open, or meets a conflict.
WriteOutside ==
  /\ \E q \in writing :
       \/ \E w \in {[start |-> Now, end |-> EndOfTime]}
                   \cup {[start |-> e.start, end |-> e.end] : e \in Closing({q}, ts)} :
            stored' = Written([r \in {q} |-> w])
       \/ UNCHANGED stored
  /\ writing' = {}
  /\ UNCHANGED <<ts, outside, requestVars, asker, datalogVars>>

RequestStep(c) ==
  \/ StartUpdate(c) \/ CompileData(c) \/ AskWhere(c) \/ AskQuery(c) \/ TakeAnswer(c)
  \/ CompileTemplates(c) \/ Compiled(c) \/ ResolveRetractions(c) \/ BeginTx(c)
  \/ PublishChanges(c) \/ CommitNothing(c) \/ CommitChanges(c)

Evaluate(A) == A /\ UNCHANGED <<stored, ts, outside, writing, requestVars, asker>>

UpdateNext ==
  \/ \E c \in Client : RequestStep(c) \/ Approve(c)
  \/ \E q \in outside : PublishOutside(q)
  \/ WriteOutside
  \/ Evaluate(DatalogNext)

UpdateSpec ==
  /\ UpdateInit /\ [][UpdateNext]_updateVars
  /\ WF_updateVars(Evaluate(Step)) /\ WF_updateVars(WriteOutside)
  /\ \A c \in Client : WF_updateVars(RequestStep(c))

-----------------------------------------------------------------------------
(* Properties *)

\* The solutions of an operation's WHERE clause over these quads.
Solutions(o, quads) == UNION {Answers(o.branches[k], quads, {}, {}, EdgeTypes) : k \in DOMAIN o.branches}

Inserted(o, quads) ==
  CASE o.kind = "insert" -> Elements(o.quads)
    [] o.kind = "delete" -> {}
    [] o.kind = "modify" ->
         {Insertion(o.insert[k], sol) : k \in DOMAIN o.insert, sol \in Solutions(o, quads)} \cap Quad

Deleted(o, quads) ==
  CASE o.kind = "insert" -> {}
    [] o.kind = "delete" -> Elements(o.quads)
    [] o.kind = "modify" -> Instances(o.delete, Solutions(o, quads))

DeletedBy(o, q, quads) == \E r \in Deleted(o, quads) : Names(r, q)

\* The operation that has the last word on a quad; 0 if none mentions it.
Decides(c, q) ==
  LET ops == request[c].ops
      all == {k \in DOMAIN ops : q \in Inserted(ops[k], shown[c]) \/ DeletedBy(ops[k], q, shown[c])}
  IN  IF all = {} THEN 0 ELSE CHOOSE k \in all : \A j \in all : j <= k

\* What there is to read at the read point is what there was when the request
\* began: its commit was not one that was still to be written.
Undisturbed(c) == shown[c] = ShownAt(readAt[c])

\* Its commit is the last one, and its WHERE clauses had a point to read at: on
\* a store without commits they have none.
Done(c) == ts > 0 /\ committed[c] = ts /\ (HasWhere(request[c]) => readAt[c] > 0 /\ Undisturbed(c))

\* A later window of the quad is closed: an add, valid from 0, is behind it.
Hidden(q, t) == \E v \in Of(q) : v.start > 0 /\ v.end <= Now /\ Governs(v, Of(q), t, Now)

WrittenSince(q, t, before) == \E v \in Of(q) : t < v.tt /\ v.tt < before

\* A value of a property of which an approved changeset adds another value.
Replaced(c, q) == approved[c] /\ q.o \in Literal /\ \E r \in Adds(c) : r # q /\ r.o \in Literal /\ SameSlot(q, r)

\* An update does what its operations say one after the other, each of them
\* reading the same point, first what it deletes and then what it inserts: the
\* last operation that mentions a quad decides it, and all other quads stay as
\* they were.  An inserted quad may be hidden behind a later window, a deleted
\* one may have been written since the retractions were resolved, and
\* approving a dry run replaces other values (run_data_update, apply_changes).
UpdatesDoWhatTheySay ==
  \A c \in Client : Done(c) =>
    LET before == ShownAt(committed[c] - 1)
        after == ShownAt(committed[c])
    IN  \A q \in DOMAIN stored : ~Replaced(c, q) =>
          LET k == Decides(c, q)
          IN  IF k = 0 THEN q \in after <=> q \in before
              ELSE IF q \in Inserted(request[c].ops[k], shown[c])
                   THEN q \in after \/ Hidden(q, committed[c])
                   ELSE q \notin after \/ WrittenSince(q, seen[c], committed[c])

\* A commit with a read point is conditional on it: no quad it inserts, and
\* none that it deletes and that was live at that point, has been written in
\* between by anyone (upgrade-step10.md, "409").
NothingItWritesHasChanged ==
  \A c \in Client : Done(c) /\ readAt[c] > 0 /\ Undisturbed(c) =>
    \A q \in DOMAIN stored :
      LET k == Decides(c, q)
      IN  /\ k > 0
          /\ q \in Inserted(request[c].ops[k], shown[c]) \cup shown[c]
          => ~WrittenSince(q, readAt[c], committed[c])

\* Every query and update ends, whatever the evaluator is busy with.
RequestsEnd ==
  \A c \in Client :
    []<>(at[c] \in {"idle", "answered", "shown", "nothing", "applied", "conflict", "refused", "failed"})
=============================================================================
