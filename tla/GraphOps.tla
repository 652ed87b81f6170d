------------------------------ MODULE GraphOps ------------------------------
(***************************************************************************)
(* The operations on whole graphs (graphs.rs): create, drop, copy, add and *)
(* move, as sequences of commits that other operations and writers come    *)
(* between and that an error or the end of the process may cut short.      *)
(* Quads keep all their versions; what a graph shows now goes by Versions. *)
(***************************************************************************)
EXTENDS Versions, Sequences, FiniteSets

CONSTANTS
  Graph,     \* graphs with a name, and
  Default,   \* the default graph, which has no metadata
  Quad,      \* a quad, whatever graph it is in
  Chunk,     \* quads per commit: GRAPH_OP_CHUNK
  Caller,    \* those who call the operations
  Jobs,      \* what each may ask for
  Writers,   \* what clients may write besides: graphs with items
  Known,     \* the graphs that have an id from the start
  Contents,  \* what the graphs may hold at the start, last committed at ts
  FirstNow,  \* the clock at the start
  MaxWrites, \* bound on those writes
  MaxNow     \* bound on the clock

JobKind == {"create", "drop", "add", "copy", "move"}
Job == [kind : JobKind, source : Graph, target : Graph]

ASSUME GraphConstants ==
  /\ Default \in Graph /\ Known \subseteq Graph
  /\ Chunk \in Nat \ {0} /\ MaxWrites \in Nat
  /\ FirstNow \in Nat /\ FirstNow < EndOfTime /\ MaxNow \in Nat /\ MaxNow < EndOfTime
  /\ Jobs \in [Caller -> SUBSET Job]
  /\ Writers \subseteq Graph \X [quad : Quad, start : Nat, end : Nat]
  /\ Contents \subseteq [graphs : [Graph -> [Quad -> SUBSET Version]], ts : Nat]

\* A quad with the window it is read or written with.
Item == [quad : Quad, start : Nat, end : Nat]

\* The windows a graph was ever given.
Windows(graph) ==
  UNION {{[quad |-> q, start |-> v.start, end |-> v.end] : v \in graph[q]} : q \in Quad}

\* A graph holds finitely many windows; the versions there at the start are
\* committed, and no commit wrote two of the same quad.
ASSUME GraphContents ==
  \A c \in Contents : \A g \in Graph :
    /\ IsFiniteSet(Windows(c.graphs[g]))
    /\ \A q \in Quad : \A v, w \in c.graphs[g][q] : v.tt <= c.ts /\ (v.tt = w.tt => v = w)

VARIABLES
  stored,    \* the versions of each quad in each graph
  ts,        \* time of the last commit
  now,       \* the clock
  writes,    \* how many writes there were
  flagged,   \* graphs with copyInProgress
  interned,  \* graphs with an id
  graphOps,  \* the graph operations in the change log, with who logged them
             \* and the time that operation had read at
  job,       \* what each caller asked for
  plan,      \* the stages left of it
  step,      \* where it is in the first of them
  left,      \* the quads it has read and not committed yet
  closing,   \* the time it closes them at
  readAt,    \* history: the time it has read them at
  chunked,   \* it marks its target
  copied,    \* history: what its copy has read
  touched    \* history: what others wrote while its job was under way

storeVars == <<stored, ts, now, writes, flagged, interned, graphOps>>
jobVars == <<job, plan, step, left, closing, readAt, chunked, copied, touched>>
graphVars == <<storeVars, jobVars>>

NoJob == [kind |-> "create", source |-> Default, target |-> Default]
Stage == [kind : {"create", "drop", "copy"}, source : Graph, target : Graph]

\* Faulty: the target is emptied after the copy.
StagesCopyFirst(j) ==
  LET create == [kind |-> "create", source |-> j.target, target |-> j.target]
      clear  == [kind |-> "drop", source |-> j.target, target |-> j.target]
      copy   == [kind |-> "copy", source |-> j.source, target |-> j.target]
      empty  == [kind |-> "drop", source |-> j.source, target |-> j.source]
  IN  IF j.kind \in {"add", "copy", "move"} /\ j.source = j.target THEN <<>>
      ELSE CASE j.kind = "create" -> <<create>>
             [] j.kind = "drop" -> <<clear>>
             [] j.kind = "add" -> <<copy>>
             [] j.kind = "copy" -> <<copy, clear>>
             [] j.kind = "move" -> <<copy, clear, empty>>

\* What an operation does, in order; nothing from a graph to itself.
Stages(j) ==
  LET create == [kind |-> "create", source |-> j.target, target |-> j.target]
      clear  == [kind |-> "drop", source |-> j.target, target |-> j.target]
      copy   == [kind |-> "copy", source |-> j.source, target |-> j.target]
      empty  == [kind |-> "drop", source |-> j.source, target |-> j.source]
  IN  IF j.kind \in {"add", "copy", "move"} /\ j.source = j.target THEN <<>>
      ELSE CASE j.kind = "create" -> <<create>>
             [] j.kind = "drop" -> <<clear>>
             [] j.kind = "add" -> <<copy>>
             [] j.kind = "copy" -> <<clear, copy>>
             [] j.kind = "move" -> <<clear, copy, empty>>

-----------------------------------------------------------------------------

\* What a graph shows at a valid time, at the latest commit.
Live(g, vt) ==
  {i \in UNION {{[quad |-> q, start |-> v.start, end |-> v.end] :
                   v \in {w \in stored[g][q] : Governs(w, stored[g][q], ts, vt)}} : q \in Quad} :
     vt < i.end}

IsLive(g, q) == Holds(stored[g][q], ts, now)

\* The versions of the graphs after a commit that writes items into g.
Committed(g, items) ==
  [stored EXCEPT ![g] =
     [q \in Quad |-> stored[g][q] \cup
        {[start |-> i.start, end |-> i.end, tt |-> ts + 1] : i \in {j \in items : j.quad = q}}]]

\* What a caller's commit touches, for everyone else.
Touch(who, g, items) ==
  [c \in Caller |-> IF c = who THEN touched[c]
                    ELSE touched[c] \cup {<<g, i.quad>> : i \in items}]

MaxOf(m, n) == IF m > n THEN m ELSE n

\* Faulty: it closes the window where it began.
CloseAtStart(i, t) == [i EXCEPT !.end = i.start]

\* Faulty: it closes a window that began after the drop at the drop's time.
CloseAtTime(i, t) == [i EXCEPT !.end = t]

\* The same window, closed.
CloseAt(i, t) == [i EXCEPT !.end = MaxOf(t, i.start)]

-----------------------------------------------------------------------------

GraphInit ==
  /\ \E c \in Contents : stored = c.graphs /\ ts = c.ts
  /\ now = FirstNow /\ writes = 0
  /\ flagged = {} /\ interned = Known /\ graphOps = <<>>
  /\ job = [c \in Caller |-> NoJob]
  /\ plan = [c \in Caller |-> <<>>]
  /\ step = [c \in Caller |-> "new"]
  /\ left = [c \in Caller |-> {}]
  /\ closing = [c \in Caller |-> 0]
  /\ readAt = [c \in Caller |-> 0]
  /\ chunked = [c \in Caller |-> FALSE]
  /\ copied = [c \in Caller |-> {}]
  /\ touched = [c \in Caller |-> {}]

Tick ==
  /\ now < MaxNow
  /\ now' = now + 1
  /\ UNCHANGED <<stored, ts, writes, flagged, interned, graphOps, jobVars>>

\* A client writes a window, which may also begin later or end later.
Write(g, i) ==
  /\ writes < MaxWrites
  /\ writes' = writes + 1
  /\ stored' = Committed(g, {i})
  /\ ts' = ts + 1
  /\ touched' = [c \in Caller |-> touched[c] \cup {<<g, i.quad>>}]
  /\ UNCHANGED <<now, flagged, interned, graphOps, job, plan, step, left, closing, readAt, chunked, copied>>

Call(c, j) ==
  /\ step[c] = "new"
  /\ j.kind # "create" => {j.source, j.target} \subseteq interned
  /\ job' = [job EXCEPT ![c] = j]
  /\ plan' = [plan EXCEPT ![c] = Stages(j)]
  /\ step' = [step EXCEPT ![c] = IF Stages(j) = <<>> THEN "done" ELSE "ready"]
  /\ touched' = [touched EXCEPT ![c] = {}]
  /\ UNCHANGED <<storeVars, left, closing, readAt, chunked, copied>>

NextStage(c) ==
  /\ plan' = [plan EXCEPT ![c] = Tail(@)]
  /\ step' = [step EXCEPT ![c] = IF Len(plan[c]) = 1 THEN "done" ELSE "ready"]

Now(c) == Head(plan[c])
LogEntry(c) == [by |-> c, op |-> Now(c), at |-> readAt[c]]

\* create_graph looks whether the graph is new, gives it an id, and announces it.
CheckNew(c) ==
  /\ step[c] = "ready" /\ Now(c).kind = "create"
  /\ step' = [step EXCEPT ![c] = IF Now(c).target \in interned THEN "interning" ELSE "new graph"]
  /\ UNCHANGED <<storeVars, job, plan, left, closing, readAt, chunked, copied, touched>>

\* Faulty: it looks after it has given out the id.
InternChecking(c) ==
  /\ step[c] \in {"interning", "new graph"}
  /\ interned' = interned \cup {Now(c).target}
  /\ NextStage(c)
  /\ UNCHANGED <<stored, ts, now, writes, flagged, graphOps, job, left, closing, readAt, chunked, copied, touched>>

Intern(c) ==
  /\ step[c] \in {"interning", "new graph"}
  /\ interned' = interned \cup {Now(c).target}
  /\ IF step[c] = "new graph"
     THEN step' = [step EXCEPT ![c] = "announcing"] /\ UNCHANGED plan
     ELSE NextStage(c)
  /\ UNCHANGED <<stored, ts, now, writes, flagged, graphOps, job, left, closing, readAt, chunked, copied, touched>>

Announce(c) ==
  /\ step[c] = "announcing"
  /\ ts' = ts + 1
  /\ graphOps' = Append(graphOps, LogEntry(c))
  /\ NextStage(c)
  /\ UNCHANGED <<stored, now, writes, flagged, interned, job, left, closing, readAt, chunked, copied, touched>>

\* A drop takes the time before it reads.
TakeTime(c) ==
  /\ step[c] = "ready" /\ Now(c).kind = "drop"
  /\ closing' = [closing EXCEPT ![c] = now]
  /\ step' = [step EXCEPT ![c] = "reading"]
  /\ UNCHANGED <<storeVars, job, plan, left, readAt, chunked, copied, touched>>

\* Faulty: the last chunk does not count.
ReadFlaggingLate(c) ==
  /\ step[c] = "reading" \/ (step[c] = "ready" /\ Now(c).kind = "copy")
  /\ LET s == Now(c)  live == Live(s.source, now)
         mark == s.kind = "copy" /\ Cardinality(live) > Chunk + 1 /\ s.target # Default
     IN  /\ left' = [left EXCEPT ![c] = live]
         /\ chunked' = [chunked EXCEPT ![c] = mark]
         /\ readAt' = [readAt EXCEPT ![c] = now]
         /\ copied' = IF s.kind = "copy" THEN [copied EXCEPT ![c] = live] ELSE copied
         /\ step' = [step EXCEPT ![c] = IF mark THEN "marking" ELSE "writing"]
  /\ UNCHANGED <<storeVars, job, plan, closing, touched>>

\* A drop or a copy reads the graph it empties or copies, once.
Read(c) ==
  /\ step[c] = "reading" \/ (step[c] = "ready" /\ Now(c).kind = "copy")
  /\ LET s == Now(c)  live == Live(s.source, now)
         mark == s.kind = "copy" /\ Cardinality(live) > Chunk /\ s.target # Default
     IN  /\ left' = [left EXCEPT ![c] = live]
         /\ chunked' = [chunked EXCEPT ![c] = mark]
         /\ readAt' = [readAt EXCEPT ![c] = now]
         /\ copied' = IF s.kind = "copy" THEN [copied EXCEPT ![c] = live] ELSE copied
         /\ step' = [step EXCEPT ![c] = IF mark THEN "marking" ELSE "writing"]
  /\ UNCHANGED <<storeVars, job, plan, closing, touched>>

\* A copy of several chunks marks its target.
SetFlag(c) ==
  /\ step[c] = "marking"
  /\ ts' = ts + 1
  /\ flagged' = flagged \cup {Now(c).target}
  /\ step' = [step EXCEPT ![c] = "writing"]
  /\ UNCHANGED <<stored, now, writes, interned, graphOps, job, plan, left, closing, readAt, chunked, copied, touched>>

NextChunks(c) ==
  {k \in SUBSET left[c] :
     Cardinality(k) = IF Cardinality(left[c]) < Chunk THEN Cardinality(left[c]) ELSE Chunk}

\* What a chunk writes: closing versions, or the windows as they were read.
Written(c, chunk) ==
  IF Now(c).kind = "drop" THEN {CloseAt(i, closing[c]) : i \in chunk} ELSE chunk

\* Faulty: the operation is logged with its first chunk.
WriteChunkLoggingFirst(c) ==
  /\ step[c] = "writing"
  /\ \E chunk \in NextChunks(c) :
       /\ stored' = Committed(Now(c).target, Written(c, chunk))
       /\ touched' = Touch(c, Now(c).target, chunk)
       /\ left' = [left EXCEPT ![c] = @ \ chunk]
  /\ ts' = ts + 1
  /\ graphOps' = IF \E k \in DOMAIN graphOps : graphOps[k] = LogEntry(c) THEN graphOps
                 ELSE Append(graphOps, LogEntry(c))
  /\ IF left'[c] # {} THEN UNCHANGED <<plan, step>>
     ELSE IF chunked[c] THEN step' = [step EXCEPT ![c] = "unmarking"] /\ UNCHANGED plan
     ELSE NextStage(c)
  /\ UNCHANGED <<now, writes, flagged, interned, job, closing, readAt, chunked, copied>>

\* One commit; the last one, which may be the only one and empty, carries
\* the operation.
WriteChunk(c) ==
  /\ step[c] = "writing"
  /\ \E chunk \in NextChunks(c) :
       /\ stored' = Committed(Now(c).target, Written(c, chunk))
       /\ touched' = Touch(c, Now(c).target, chunk)
       /\ left' = [left EXCEPT ![c] = @ \ chunk]
  /\ ts' = ts + 1
  /\ IF left'[c] # {}
     THEN UNCHANGED <<plan, step, graphOps>>
     ELSE /\ graphOps' = Append(graphOps, LogEntry(c))
          /\ IF chunked[c]
             THEN step' = [step EXCEPT ![c] = "unmarking"] /\ UNCHANGED plan
             ELSE NextStage(c)
  /\ UNCHANGED <<now, writes, flagged, interned, job, closing, readAt, chunked, copied>>

ClearFlag(c) ==
  /\ step[c] = "unmarking"
  /\ ts' = ts + 1
  /\ flagged' = flagged \ {Now(c).target}
  /\ NextStage(c)
  /\ UNCHANGED <<stored, now, writes, interned, graphOps, job, left, closing, readAt, chunked, copied, touched>>

\* A conflict, a write error or the end of the process.
Fail(c) ==
  /\ step[c] \notin {"new", "done", "failed"}
  /\ step' = [step EXCEPT ![c] = "failed"]
  /\ UNCHANGED <<storeVars, job, plan, left, closing, readAt, chunked, copied, touched>>

JobStep(c) ==
  \/ CheckNew(c) \/ Intern(c) \/ Announce(c)
  \/ TakeTime(c) \/ Read(c) \/ SetFlag(c) \/ WriteChunk(c) \/ ClearFlag(c) \/ Fail(c)

GraphNext ==
  \/ Tick
  \/ \E w \in Writers : Write(w[1], w[2])
  \/ \E c \in Caller : JobStep(c) \/ \E j \in Jobs[c] : Call(c, j)

GraphSpec == GraphInit /\ [][GraphNext]_graphVars
-----------------------------------------------------------------------------

\* A client may write any window, also one that ends before it begins.
FromClient(v) ==
  \/ \E w \in Writers : w[2].start = v.start /\ w[2].end = v.end
  \/ \E c \in Contents : \E g \in Graph : \E q \in Quad : v \in c.graphs[g][q]

InOrder == {v \in Version : v.start <= v.end \/ FromClient(v)}

\* Types of the graphs, the clock and the operations under way; no operation
\* writes a window that ends before it begins (graphs.rs:282-286), whatever
\* clients wrote.
GraphTypeOK ==
  /\ stored \in [Graph -> [Quad -> SUBSET InOrder]]
  /\ ts \in Nat /\ now \in Nat /\ writes \in Nat
  /\ flagged \subseteq Graph /\ interned \subseteq Graph
  /\ graphOps \in Seq([by : Caller, op : Stage, at : Nat])
  /\ job \in [Caller -> Job] /\ plan \in [Caller -> Seq(Stage)]
  /\ step \in [Caller -> {"new", "ready", "interning", "new graph", "announcing", "reading", "marking",
                         "writing", "unmarking", "done", "failed"}]
  /\ left \in [Caller -> SUBSET Item] /\ copied \in [Caller -> SUBSET Item]
  /\ closing \in [Caller -> Nat] /\ readAt \in [Caller -> Nat] /\ chunked \in [Caller -> BOOLEAN]
  /\ touched \in [Caller -> SUBSET (Graph \X Quad)]

Logged(c, kind, g) ==
  \E k \in DOMAIN graphOps :
    graphOps[k].by = c /\ graphOps[k].op.kind = kind /\ graphOps[k].op.target = g

CopiedQuads(c) == {i.quad : i \in copied[c]}

\* What a graph shows now.
Shows(g, q, v) == Governs(v, stored[g][q], ts, now) /\ now < v.end

\* The change log carries an operation with its last commit (graphs.rs:159,
\* 214), for followers that read the graph when they see it: what was logged
\* as copied is there in full, and a graph logged as dropped shows nothing but
\* what others wrote meanwhile, what the same job copied into it, and windows
\* that began after the drop had read it, which it does not close.
LoggedIsDone ==
  \A k \in DOMAIN graphOps :
    LET c == graphOps[k].by  g == graphOps[k].op.target IN
    /\ graphOps[k].op.kind = "drop" =>
         \A q \in Quad : \A v \in stored[g][q] : Shows(g, q, v) =>
           \/ <<g, q>> \in touched[c]
           \/ g = job[c].target /\ q \in CopiedQuads(c)
           \/ v.start > graphOps[k].at
    /\ graphOps[k].op.kind = "copy" =>
         \A i \in copied[c] : \E v \in stored[g][i.quad] : v.start = i.start /\ v.end = i.end

\* COPY, ADD and MOVE write the quads again with their windows (graphs.rs:212):
\* a copied quad shows in the target for as long as its window lasts, unless
\* someone else wrote it there, or the target has a later window of it, closed
\* or not, which hides the copy.
CopiesShow ==
  \A c \in Caller : \A g \in Graph : Logged(c, "copy", g) =>
    \A i \in copied[c] : now < i.end =>
      \/ IsLive(g, i.quad)
      \/ <<g, i.quad>> \in touched[c]
      \/ \E w \in stored[g][i.quad] : w.start > i.start

\* MOVE copies the source into the target and drops it: an undisturbed move
\* leaves in the target all that the source showed, while its windows last.
MoveKeepsQuads ==
  \A c \in Caller : job[c].kind = "move" /\ step[c] = "done" /\ touched[c] = {} =>
    \A i \in copied[c] : now < i.end => IsLive(job[c].target, i.quad)

\* Some of what c copies is there and some is not; the default graph has no
\* metadata, and an operation of one commit needs none.
PartlyCopied(c) ==
  /\ plan[c] # <<>> /\ Now(c).kind = "copy" /\ Now(c).target # Default
  /\ step[c] \in {"writing", "failed"}
  /\ left[c] # {} /\ left[c] # copied[c]

\* A reader can see a partially copied target, flagged (graphs.rs:201-223),
\* also when the copy was cut short for good; except that a second copy into
\* the same target takes the mark away when it ends.
PartialIsFlagged ==
  \A c \in Caller : PartlyCopied(c) =>
    Now(c).target \in flagged \/ \E d \in Caller \ {c} : Logged(d, "copy", Now(c).target)

\* A graph that got its id from create_graph is announced in the change log,
\* or its creator is about to, or was cut short in between (graphs.rs:68-74).
GraphsAreAnnounced ==
  \A g \in interned \ Known :
    \E c \in Caller :
      \/ Logged(c, "create", g)
      \/ plan[c] # <<>> /\ Now(c).target = g /\ step[c] \in {"announcing", "failed"}

\* A drop is bitemporal (graphs.rs:152-158): none of its commits changes what
\* the graph shows of an instant before the drop, at the latest commit, save
\* of quads that others wrote between its read and its commit.
HistoryStays ==
  [][\A c \in Caller :
       step[c] = "writing" /\ Now(c).kind = "drop" /\ left'[c] # left[c] =>
         \A q \in Quad : \A vt \in 0 .. closing[c] - 1 :
           <<Now(c).target, q>> \notin touched[c] =>
             Holds(stored'[Now(c).target][q], ts', vt) = Holds(stored[Now(c).target][q], ts, vt)]_graphVars
=============================================================================
