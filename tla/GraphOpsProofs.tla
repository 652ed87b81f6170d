--------------------------- MODULE GraphOpsProofs ---------------------------
(***************************************************************************)
(* What the change log, the marks and the history say of operations on     *)
(* graphs, for any number of callers, graphs, quads and chunks.            *)
(***************************************************************************)
EXTENDS GraphOps, FiniteSetTheorems, SequenceTheorems, TLAPS

-----------------------------------------------------------------------------
(* The invariant *)

CreateOf(j) == [kind |-> "create", source |-> j.target, target |-> j.target]
ClearOf(j) == [kind |-> "drop", source |-> j.target, target |-> j.target]
CopyOf(j) == [kind |-> "copy", source |-> j.source, target |-> j.target]
EmptyOf(j) == [kind |-> "drop", source |-> j.source, target |-> j.source]

\* What may be left of an operation: the end of its stages.
RestOf(j, p) ==
  \/ p = <<>>
  \/ j.kind = "create" /\ p = <<CreateOf(j)>>
  \/ j.kind = "drop" /\ p = <<ClearOf(j)>>
  \/ /\ j.source # j.target
     /\ \/ p = <<CopyOf(j)>> \/ p = <<ClearOf(j), CopyOf(j)>>
        \/ p = <<ClearOf(j), CopyOf(j), EmptyOf(j)>> \/ p = <<CopyOf(j), EmptyOf(j)>>
        \/ p = <<EmptyOf(j)>>

\* A window that an operation reads has begun, and no quad has two of them.
Reads(S) ==
  /\ IsFiniteSet(S)
  /\ \A i \in S : i.start <= now /\ i.start <= i.end
  /\ \A i, k \in S : i.quad = k.quad => i = k

\* The versions are committed, each of a quad by a commit of its own.
StoreInv ==
  \A g \in Graph :
    /\ IsFiniteSet(Windows(stored[g]))
    /\ \A q \in Quad : \A v, w \in stored[g][q] : v.tt <= ts /\ (v.tt = w.tt => v = w)

\* Where an operation is, in each of its steps.
StepInv(c) ==
  /\ RestOf(job[c], plan[c])
  /\ Reads(left[c]) /\ Reads(copied[c]) /\ closing[c] <= now /\ readAt[c] <= now
  /\ step[c] \in {"new", "done"} => plan[c] = <<>>
  /\ step[c] = "new" => left[c] = {} /\ copied[c] = {}
  /\ step[c] \notin {"new", "done", "failed"} => plan[c] # <<>>
  /\ step[c] \in {"interning", "new graph", "announcing"} => Now(c).kind = "create"
  /\ step[c] = "interning" => Now(c).target \in interned
  /\ step[c] = "reading" => Now(c).kind = "drop"
  /\ step[c] = "marking" => Now(c).kind = "copy" /\ left[c] = copied[c] /\ chunked[c]
  /\ step[c] = "writing" => Now(c).kind \in {"drop", "copy"}
  /\ step[c] = "writing" /\ Now(c).kind = "drop" => ~chunked[c]
  /\ step[c] = "writing" /\ Now(c).kind = "copy" => left[c] \subseteq copied[c]
  /\ step[c] = "unmarking" => Now(c).kind = "copy" /\ Logged(c, "copy", Now(c).target)
  /\ step[c] \in {"ready", "reading", "unmarking"} => left[c] = {}

\* What an operation has logged, it has behind it.
LogInv(c) ==
  \A g \in Graph :
    /\ step[c] = "new" => ~Logged(c, "create", g) /\ ~Logged(c, "drop", g) /\ ~Logged(c, "copy", g)
    /\ Logged(c, "drop", g) /\ plan[c] # <<>> =>
         /\ g = job[c].target /\ job[c].source # job[c].target
         /\ Now(c) \in {CopyOf(job[c]), EmptyOf(job[c])}
    /\ Logged(c, "copy", g) =>
         /\ g = job[c].target
         /\ plan[c] # <<>> =>
              /\ job[c].source # job[c].target
              /\ \/ Now(c) = EmptyOf(job[c])
                 \/ Now(c) = CopyOf(job[c]) /\ left[c] = {} /\ step[c] \in {"unmarking", "failed"}

\* What it has read to copy, it copies or has copied.
ReadInv(c) ==
  copied[c] # {} /\ plan[c] # <<>> =>
    /\ job[c].source # job[c].target
    /\ \/ Now(c) = EmptyOf(job[c])
       \/ Now(c) = CopyOf(job[c]) /\ step[c] \in {"marking", "writing", "unmarking", "failed"}

ControlInv == GraphTypeOK /\ StoreInv /\ \A c \in Caller : StepInv(c) /\ LogInv(c) /\ ReadInv(c)

\* The version that a read of time t goes by, if it sees all of them, and
\* whether it finds the quad.
Top(vs, v, t) == v \in vs /\ v.start <= t /\ \A w \in vs : w.start <= t => ~Beats(w, v)
Open(vs, t) == \E v \in vs : Top(vs, v, t) /\ t < v.end

Untouched(c, g, q) == <<g, q>> \notin touched[c]

\* The quads of g that showed when c read it are those it still has to close,
\* as it read them, but for what others wrote.
ReadAsItWas(c, g, q) ==
  LET vs == stored[g][q] IN
  /\ Open(vs, readAt[c]) => \E i \in left[c] : i.quad = q
  /\ \A i \in left[c] : i.quad = q =>
       \E v \in vs : Top(vs, v, readAt[c]) /\ readAt[c] < v.end /\ v.start = i.start /\ v.end = i.end

DropInv(c) ==
  step[c] = "writing" /\ Now(c).kind = "drop" =>
    /\ closing[c] <= readAt[c]
    /\ \A q \in Quad : Untouched(c, Now(c).target, q) => ReadAsItWas(c, Now(c).target, q)

\* A copied window is in g, and nothing newer of it or of an earlier one.
Landed(c, g, i) ==
  LET vs == stored[g][i.quad] IN
  /\ \E v \in vs : v.start = i.start /\ v.end = i.end
  /\ \/ \E v \in vs : Top(vs, v, i.start) /\ v.start = i.start /\ v.end = i.end
     \/ ~Untouched(c, g, i.quad)
     \/ \E w \in vs : w.start > i.start

\* What a copy has written, and all of it once it is logged.
CopyInv(c) ==
  /\ step[c] = "writing" /\ Now(c).kind = "copy" =>
       \A i \in copied[c] \ left[c] : Landed(c, Now(c).target, i)
  /\ \A g \in Graph : Logged(c, "copy", g) => \A i \in copied[c] : Landed(c, g, i)

\* c has logged a drop of g that had read it at t.
DroppedAt(c, g, t) ==
  \E k \in DOMAIN graphOps :
    /\ graphOps[k].by = c /\ graphOps[k].op.kind = "drop"
    /\ graphOps[k].op.target = g /\ graphOps[k].at = t

\* What is logged as dropped no longer shows at the time it was read.
DroppedInv(c) ==
  \A g \in Graph : \A t \in Nat : DroppedAt(c, g, t) =>
    /\ t <= now
    /\ \A q \in Quad : Untouched(c, g, q) /\ Open(stored[g][q], t) =>
         g = job[c].target /\ q \in CopiedQuads(c)

Marked(c) == Now(c).target \in flagged \/ \E d \in Caller \ {c} : Logged(d, "copy", Now(c).target)

\* A copy is marked, or one commit does it.
FlagInv(c) ==
  plan[c] # <<>> /\ Now(c).kind = "copy" /\ Now(c).target # Default =>
    /\ step[c] = "writing" /\ chunked[c] => Marked(c)
    /\ step[c] = "writing" /\ ~chunked[c] => left[c] = copied[c] /\ Cardinality(left[c]) <= Chunk
    /\ step[c] = "failed" => Marked(c) \/ left[c] = {} \/ left[c] = copied[c]

WorkInv(c) == DropInv(c) /\ CopyInv(c) /\ DroppedInv(c) /\ FlagInv(c)

GraphInv == ControlInv /\ (\A c \in Caller : WorkInv(c)) /\ GraphsAreAnnounced

-----------------------------------------------------------------------------
(* Versions *)

\* Its own window's latest version goes before all that began no later.
LEMMA NewestIsTop ==
  ASSUME NEW vs \in SUBSET Version, NEW n \in Version, NEW t \in Nat, n.start <= t,
         \A w \in vs : w.start <= t => w.start <= n.start /\ w.tt < n.tt
  PROVE  \A v : Top(vs \cup {n}, v, t) <=> v = n
<1>1. \A w \in vs \cup {n} : w.start <= t => ~Beats(w, n)
  BY DEF Beats, Version
<1>2. \A v \in vs : v.start <= t => Beats(n, v)
  BY DEF Beats, Version
<1> QED
  BY <1>1, <1>2 DEF Top

\* A read that sees all versions goes by the top one.
LEMMA HoldsIsOpen ==
  ASSUME NEW vs \in SUBSET Version, NEW t \in Nat, NEW vt \in Nat, \A v \in vs : v.tt <= t
  PROVE  /\ Holds(vs, t, vt) <=> Open(vs, vt)
         /\ \A v : Governs(v, vs, t, vt) <=> Top(vs, v, vt)
<1>1. \A v : Governs(v, vs, t, vt) <=> Top(vs, v, vt)
  BY DEF Governs, Top, InView
<1> QED
  BY <1>1 DEF Holds, Open, Top

\* No two versions are on top.
LEMMA OneIsTop ==
  ASSUME NEW vs \in SUBSET Version, \A v, w \in vs : v.tt = w.tt => v = w,
         NEW t \in Nat, NEW v, Top(vs, v, t), NEW w, Top(vs, w, t)
  PROVE  v = w
  BY DEF Top, Beats, Version

\* What shows and had begun at an earlier time showed then.
LEMMA ShownSince ==
  ASSUME NEW vs \in SUBSET Version, NEW t \in Nat, NEW u \in Nat, t <= u,
         NEW v, Top(vs, v, u), u < v.end, v.start <= t
  PROVE  Open(vs, t)
<1>1. v \in vs /\ v \in Version
  BY DEF Top
<1>2. \A w \in vs : w.start <= t => w.start <= u
  BY DEF Version
<1>3. Top(vs, v, t)
  BY <1>1, <1>2 DEF Top
<1> QED
  BY <1>1, <1>3 DEF Open, Version

\* Reads at later commits see the same of versions that were committed before.
LEMMA HoldsKeeps ==
  ASSUME NEW vs \in SUBSET Version, NEW t \in Nat, NEW u \in Nat, NEW vt,
         \A v \in vs : v.tt <= t /\ v.tt <= u
  PROVE  Holds(vs, t, vt) <=> Holds(vs, u, vt)
<1>1. \A v \in vs : InView(v, t, vt) = InView(v, u, vt)
  BY DEF InView
<1>2. \A v \in vs : Governs(v, vs, t, vt) = Governs(v, vs, u, vt)
  BY <1>1 DEF Governs
<1> QED
  BY <1>2 DEF Holds, Governs

\* Closing the top version's window at a time leaves what is shown before it.
LEMMA ClosingKeepsHistory ==
  ASSUME NEW vs \in SUBSET Version, NEW n \in Version, NEW t \in Nat,
         NEW vt \in Nat, NEW m \in Nat, vt <= m, NEW top, Top(vs, top, m),
         \A v \in vs : v.tt <= t, n.tt = t + 1, n.start = top.start,
         vt < top.end, n.start <= vt => vt < n.end
  PROVE  Holds(vs \cup {n}, t + 1, vt) <=> Holds(vs, t, vt)
<1>1. top \in vs /\ \A w \in vs : w.start <= vt => w.start <= n.start /\ w.tt < n.tt
  BY DEF Top, Beats, Version
<1>2. CASE n.start <= vt
  <2>1. Governs(n, vs \cup {n}, t + 1, vt)
    BY <1>1, <1>2 DEF Governs, InView, Beats, Version
  <2>2. Governs(top, vs, t, vt)
    BY <1>1, <1>2 DEF Governs, InView, Top, Version
  <2>3. Holds(vs \cup {n}, t + 1, vt)
    BY <1>2, <2>1 DEF Holds
  <2>4. Holds(vs, t, vt)
    BY <1>1, <2>2 DEF Holds
  <2> QED
    BY <2>3, <2>4
<1>3. CASE ~(n.start <= vt)
  <2>1. ~InView(n, t + 1, vt)
    BY <1>3 DEF InView
  <2>2. \A v : Governs(v, vs \cup {n}, t + 1, vt) <=> Governs(v, vs, t + 1, vt)
    BY <2>1 DEF Governs
  <2>3. Holds(vs \cup {n}, t + 1, vt) <=> Holds(vs, t + 1, vt)
    BY <2>2 DEF Holds, Governs
  <2>4. Holds(vs, t, vt) <=> Holds(vs, t + 1, vt)
    <3>1. \A v \in vs : v.tt <= t /\ v.tt <= t + 1
      BY DEF Version
    <3> QED
      BY <3>1, HoldsKeeps
  <2> QED
    BY <2>3, <2>4
<1> QED
  BY <1>2, <1>3

-----------------------------------------------------------------------------
(* Stages *)

LEMMA StageTypes ==
  ASSUME NEW j \in Job
  PROVE  /\ CreateOf(j) \in Stage /\ ClearOf(j) \in Stage
         /\ CopyOf(j) \in Stage /\ EmptyOf(j) \in Stage
  BY DEF Job, JobKind, Stage, CreateOf, ClearOf, CopyOf, EmptyOf

LEMMA TupleFacts ==
  ASSUME NEW S, NEW a \in S, NEW b \in S, NEW d \in S
  PROVE  /\ <<a>> \in Seq(S) /\ <<a, b>> \in Seq(S) /\ <<a, b, d>> \in Seq(S)
         /\ <<a>> # <<>> /\ <<a, b>> # <<>> /\ <<a, b, d>> # <<>>
         /\ Head(<<a>>) = a /\ Head(<<a, b>>) = a /\ Head(<<a, b, d>>) = a
         /\ Tail(<<a>>) = <<>> /\ Tail(<<a, b>>) = <<b>> /\ Tail(<<a, b, d>>) = <<b, d>>
         /\ Len(<<a>>) = 1 /\ Len(<<a, b>>) = 2 /\ Len(<<a, b, d>>) = 3
  OBVIOUS

LEMMA StagesFacts ==
  ASSUME NEW j \in Job
  PROVE  RestOf(j, Stages(j))
<1>1. j.kind \in JobKind
  BY DEF Job
<1>2. CASE j.kind \in {"create", "drop"}
  BY <1>2 DEF Stages, RestOf, CreateOf, ClearOf
<1>3. CASE j.kind \in {"add", "copy", "move"} /\ j.source = j.target
  <2>1. Stages(j) = <<>>
    BY <1>3 DEF Stages
  <2> QED
    BY <2>1 DEF RestOf
<1>4. CASE j.kind \in {"add", "copy", "move"} /\ j.source # j.target
  <2>1. CASE j.kind = "add"
    <3>1. Stages(j) = <<CopyOf(j)>>
      BY <1>4, <2>1 DEF Stages, CopyOf
    <3> QED
      BY <1>4, <3>1 DEF RestOf
  <2>2. CASE j.kind = "copy"
    <3>1. Stages(j) = <<ClearOf(j), CopyOf(j)>>
      BY <1>4, <2>2 DEF Stages, CopyOf, ClearOf
    <3> QED
      BY <1>4, <3>1 DEF RestOf
  <2>3. CASE j.kind = "move"
    <3>1. Stages(j) = <<ClearOf(j), CopyOf(j), EmptyOf(j)>>
      BY <1>4, <2>3 DEF Stages, CopyOf, ClearOf, EmptyOf
    <3> QED
      BY <1>4, <3>1 DEF RestOf
  <2> QED
    BY <1>4, <2>1, <2>2, <2>3
<1> QED
  BY <1>1, <1>2, <1>3, <1>4 DEF JobKind

\* What comes first, and what comes after it.
LEMMA RestFacts ==
  ASSUME NEW j \in Job, NEW p, RestOf(j, p), p # <<>>
  PROVE  /\ p \in Seq(Stage) /\ Head(p) \in Stage
         /\ RestOf(j, Tail(p)) /\ Tail(p) \in Seq(Stage)
         /\ Len(p) = 1 <=> Tail(p) = <<>>
         /\ Head(p).kind = "create" => Head(p) = CreateOf(j) /\ Tail(p) = <<>>
         /\ Head(p).kind = "drop" =>
              /\ Head(p).source = Head(p).target
              /\ \/ /\ Head(p) = ClearOf(j)
                    /\ Tail(p) # <<>> => j.source # j.target /\ Head(Tail(p)) = CopyOf(j)
                 \/ /\ Head(p) = EmptyOf(j) /\ Tail(p) = <<>>
                    /\ j.source # j.target
         /\ Head(p).kind = "copy" =>
              /\ Head(p) = CopyOf(j) /\ j.source # j.target
              /\ Tail(p) # <<>> => Head(Tail(p)) = EmptyOf(j)
<1> DEFINE a == CreateOf(j)  b == ClearOf(j)  d == CopyOf(j)  e == EmptyOf(j)
<1>1. /\ a \in Stage /\ b \in Stage /\ d \in Stage /\ e \in Stage
      /\ a.kind = "create" /\ b.kind = "drop" /\ d.kind = "copy" /\ e.kind = "drop"
      /\ b.source = b.target /\ e.source = e.target
  BY StageTypes DEF CreateOf, ClearOf, CopyOf, EmptyOf
<1>2. /\ RestOf(j, <<>>)
      /\ j.source # j.target => RestOf(j, <<d>>) /\ RestOf(j, <<d, e>>) /\ RestOf(j, <<e>>)
  BY DEF RestOf
<1>3. \/ p = <<a>> \/ p = <<b>>
      \/ /\ j.source # j.target
         /\ p = <<d>> \/ p = <<b, d>> \/ p = <<b, d, e>> \/ p = <<d, e>> \/ p = <<e>>
  BY DEF RestOf
<1>4. <<>> \in Seq(Stage)
  BY EmptySeq
<1> HIDE DEF a, b, d, e
<1>5. CASE p = <<a>>
  <2>1. Head(p) = a /\ Tail(p) = <<>> /\ Len(p) = 1 /\ p \in Seq(Stage)
    BY <1>1, <1>5, TupleFacts
  <2> QED
    BY <1>1, <1>2, <1>4, <2>1 DEF a
<1>6. CASE p = <<b>>
  <2>1. Head(p) = b /\ Tail(p) = <<>> /\ Len(p) = 1 /\ p \in Seq(Stage)
    BY <1>1, <1>6, TupleFacts
  <2> QED
    BY <1>1, <1>2, <1>4, <2>1 DEF b
<1>7. CASE p = <<d>> /\ j.source # j.target
  <2>1. Head(p) = d /\ Tail(p) = <<>> /\ Len(p) = 1 /\ p \in Seq(Stage)
    BY <1>1, <1>7, TupleFacts
  <2> QED
    BY <1>1, <1>2, <1>4, <1>7, <2>1 DEF d
<1>8. CASE p = <<b, d>> /\ j.source # j.target
  <2>1. Head(p) = b /\ Tail(p) = <<d>> /\ Len(p) = 2 /\ p \in Seq(Stage)
    BY <1>1, <1>8, TupleFacts
  <2>2. Head(Tail(p)) = d /\ Tail(p) # <<>> /\ Tail(p) \in Seq(Stage)
    <3>1. Head(<<d>>) = d /\ <<d>> # <<>> /\ <<d>> \in Seq(Stage)
      BY <1>1, TupleFacts
    <3> QED
      BY <2>1, <3>1
  <2>3. RestOf(j, Tail(p))
    BY <1>2, <1>8, <2>1
  <2>4. Head(p) = b /\ Len(p) = 2 /\ p \in Seq(Stage)
    BY <2>1
  <2> QED
    BY <1>1, <1>8, <2>2, <2>3, <2>4 DEF b, d
<1>9. CASE p = <<b, d, e>> /\ j.source # j.target
  <2>1. Head(p) = b /\ Tail(p) = <<d, e>> /\ Len(p) = 3 /\ p \in Seq(Stage)
    BY <1>1, <1>9, TupleFacts
  <2>2. Head(Tail(p)) = d /\ Tail(p) # <<>> /\ Tail(p) \in Seq(Stage)
    <3>1. Head(<<d, e>>) = d /\ <<d, e>> # <<>> /\ <<d, e>> \in Seq(Stage)
      BY <1>1, TupleFacts
    <3> QED
      BY <2>1, <3>1
  <2>3. RestOf(j, Tail(p))
    BY <1>2, <1>9, <2>1
  <2>4. Head(p) = b /\ Len(p) = 3 /\ p \in Seq(Stage)
    BY <2>1
  <2> QED
    BY <1>1, <1>9, <2>2, <2>3, <2>4 DEF b, d
<1>10. CASE p = <<d, e>> /\ j.source # j.target
  <2>1. Head(p) = d /\ Tail(p) = <<e>> /\ Len(p) = 2 /\ p \in Seq(Stage)
    BY <1>1, <1>10, TupleFacts
  <2>2. Head(Tail(p)) = e /\ Tail(p) # <<>> /\ Tail(p) \in Seq(Stage)
    <3>1. Head(<<e>>) = e /\ <<e>> # <<>> /\ <<e>> \in Seq(Stage)
      BY <1>1, TupleFacts
    <3> QED
      BY <2>1, <3>1
  <2>3. RestOf(j, Tail(p))
    BY <1>2, <1>10, <2>1
  <2>4. Head(p) = d /\ Len(p) = 2 /\ p \in Seq(Stage)
    BY <2>1
  <2> QED
    BY <1>1, <1>10, <2>2, <2>3, <2>4 DEF d, e
<1>11. CASE p = <<e>> /\ j.source # j.target
  <2>1. Head(p) = e /\ Tail(p) = <<>> /\ Len(p) = 1 /\ p \in Seq(Stage)
    BY <1>1, <1>11, TupleFacts
  <2> QED
    BY <1>1, <1>2, <1>4, <1>11, <2>1 DEF e
<1> QED
  BY <1>3, <1>5, <1>6, <1>7, <1>8, <1>9, <1>10, <1>11

-----------------------------------------------------------------------------
(* Commits *)

\* The versions a commit of items adds to those of one quad.
Added(q, items) ==
  {[start |-> i.start, end |-> i.end, tt |-> ts + 1] : i \in {k \in items : k.quad = q}}

LEMMA CommittedFacts ==
  ASSUME stored \in [Graph -> [Quad -> SUBSET Version]], ts \in Nat,
         NEW g \in Graph, NEW items \in SUBSET Item
  PROVE  /\ Committed(g, items) \in [Graph -> [Quad -> SUBSET Version]]
         /\ \A h \in Graph \ {g} : Committed(g, items)[h] = stored[h]
         /\ \A q \in Quad : Committed(g, items)[g][q] = stored[g][q] \cup Added(q, items)
<1> DEFINE new == [q \in Quad |-> stored[g][q] \cup Added(q, items)]
<1>1. Committed(g, items) = [stored EXCEPT ![g] = new]
  BY DEF Committed, Added
<1>2. \A q \in Quad : Added(q, items) \subseteq Version
  BY DEF Added, Item, Version
<1>3. new \in [Quad -> SUBSET Version]
  BY <1>2
<1> HIDE DEF new
<1>4. Committed(g, items) \in [Graph -> [Quad -> SUBSET Version]]
  BY <1>1, <1>3
<1>5. \A h \in Graph \ {g} : Committed(g, items)[h] = stored[h]
  BY <1>1
<1>6. Committed(g, items)[g] = new
  BY <1>1
<1> QED
  BY <1>4, <1>5, <1>6 DEF new

LEMMA WindowsFinite ==
  ASSUME NEW old \in [Quad -> SUBSET Version], NEW new \in [Quad -> SUBSET Version],
         NEW items \in SUBSET Item, IsFiniteSet(items), IsFiniteSet(Windows(old)),
         \A q \in Quad : new[q] = old[q] \cup Added(q, items)
  PROVE  IsFiniteSet(Windows(new))
<1>1. Windows(new) \subseteq Windows(old) \cup items
  <2> SUFFICES ASSUME NEW x \in Windows(new)
               PROVE  x \in Windows(old) \cup items
    OBVIOUS
  <2>a. PICK q \in Quad : x \in {[quad |-> q, start |-> v.start, end |-> v.end] : v \in new[q]}
    BY DEF Windows
  <2>b. PICK v \in new[q] : x = [quad |-> q, start |-> v.start, end |-> v.end]
    BY <2>a
  <2>1. CASE v \in old[q]
    BY <2>b, <2>1 DEF Windows
  <2>2. CASE v \in Added(q, items)
    <3>1. PICK i \in items : i.quad = q /\ v = [start |-> i.start, end |-> i.end, tt |-> ts + 1]
      BY <2>2 DEF Added
    <3>2. i = [quad |-> q, start |-> v.start, end |-> v.end]
      BY <3>1 DEF Item
    <3> QED
      BY <2>b, <3>2
  <2> QED
    BY <2>1, <2>2
<1>2. IsFiniteSet(Windows(old) \cup items)
  BY FS_Union
<1> QED
  BY <1>1, <1>2, FS_Subset

\* What a graph shows: the windows that are on top.
LEMMA LiveFacts ==
  ASSUME stored \in [Graph -> [Quad -> SUBSET Version]], ts \in Nat, now \in Nat, StoreInv,
         NEW g \in Graph
  PROVE  /\ Live(g, now) \subseteq Item /\ Reads(Live(g, now))
         /\ \A i \in Live(g, now) :
              \E v : /\ Top(stored[g][i.quad], v, now) /\ now < v.end
                    /\ v.start = i.start /\ v.end = i.end
         /\ \A q \in Quad : Open(stored[g][q], now) => \E i \in Live(g, now) : i.quad = q
         /\ \A q \in Quad : IsLive(g, q) <=> Open(stored[g][q], now)
<1>1. \A q \in Quad : /\ stored[g][q] \in SUBSET Version
                      /\ \A v, w \in stored[g][q] : v.tt <= ts /\ (v.tt = w.tt => v = w)
  BY DEF StoreInv
<1>3. \A q \in Quad : /\ Holds(stored[g][q], ts, now) <=> Open(stored[g][q], now)
                      /\ \A v : Governs(v, stored[g][q], ts, now) <=> Top(stored[g][q], v, now)
  BY <1>1, HoldsIsOpen
<1> DEFINE item(q, v) == [quad |-> q, start |-> v.start, end |-> v.end]
<1>4. \A i : i \in Live(g, now) <=>
               \E q \in Quad : \E v \in stored[g][q] :
                  Top(stored[g][q], v, now) /\ i = item(q, v) /\ now < i.end
  <2>1. \A i : i \in Live(g, now) <=>
                 \E q \in Quad : \E v \in stored[g][q] :
                    Governs(v, stored[g][q], ts, now) /\ i = item(q, v) /\ now < i.end
    BY DEF Live
  <2> HIDE DEF item
  <2> QED
    BY <1>3, <2>1
<1>5. ASSUME NEW i \in Live(g, now)
      PROVE  /\ i \in Item /\ i \in Windows(stored[g]) /\ i.start <= now /\ i.start <= i.end
             /\ \E v : /\ Top(stored[g][i.quad], v, now) /\ now < v.end
                      /\ v.start = i.start /\ v.end = i.end
  <2>0. PICK q \in Quad : \E v \in stored[g][q] :
          Top(stored[g][q], v, now) /\ i = item(q, v) /\ now < i.end
    BY <1>4
  <2>1. PICK v \in stored[g][q] : Top(stored[g][q], v, now) /\ i = item(q, v) /\ now < i.end
    BY <2>0
  <2>2. v \in Version /\ v.start <= now
    BY <1>1, <2>1 DEF Top
  <2>3. i.quad = q /\ i.start = v.start /\ i.end = v.end
    BY <2>1
  <2>4. i \in Item
    BY <2>1, <2>2 DEF Item, Version
  <2>5. i \in Windows(stored[g])
    BY <2>1 DEF Windows
  <2>6. i.start <= i.end
    BY <2>1, <2>2, <2>3 DEF Version
  <2> QED
    BY <2>1, <2>2, <2>3, <2>4, <2>5, <2>6
<1>6. ASSUME NEW i \in Live(g, now), NEW k \in Live(g, now), i.quad = k.quad
      PROVE  i = k
  <2>1. PICK v : Top(stored[g][i.quad], v, now) /\ v.start = i.start /\ v.end = i.end
    BY <1>5
  <2>2. PICK w : Top(stored[g][i.quad], w, now) /\ w.start = k.start /\ w.end = k.end
    BY <1>5, <1>6
  <2>3. i.quad \in Quad
    BY <1>5 DEF Item
  <2>4. v = w
    BY <1>1, <2>1, <2>2, <2>3, OneIsTop
  <2> QED
    BY <1>5, <1>6, <2>1, <2>2, <2>4 DEF Item
<1>7. IsFiniteSet(Live(g, now))
  BY <1>5, FS_Subset DEF StoreInv
<1>8. ASSUME NEW q \in Quad, Open(stored[g][q], now)
      PROVE  \E i \in Live(g, now) : i.quad = q
  <2>1. PICK v \in stored[g][q] : Top(stored[g][q], v, now) /\ now < v.end
    BY <1>8 DEF Open
  <2>2. item(q, v) \in Live(g, now)
    BY <1>4, <2>1
  <2> QED
    BY <2>2
<1> QED
  BY <1>3, <1>5, <1>6, <1>7, <1>8 DEF Reads, IsLive

\* The version that a commit of item i leaves on top.
Renewed(c, i) ==
  [start |-> i.start,
   end |-> IF Now(c).kind = "drop" THEN MaxOf(closing[c], i.start) ELSE i.end,
   tt |-> ts + 1]

\* A chunk writes one version of each of its quads and none of another.
LEMMA WrittenFacts ==
  ASSUME NEW c \in Caller, left[c] \in SUBSET Item, Reads(left[c]),
         closing[c] \in Nat, NEW S \in SUBSET left[c]
  PROVE  /\ Written(c, S) \in SUBSET Item /\ IsFiniteSet(Written(c, S)) /\ IsFiniteSet(S)
         /\ \A k \in Written(c, S) : k.start <= k.end
         /\ \A k, l \in Written(c, S) : k.quad = l.quad => k = l
         /\ \A q \in Quad : (\A i \in S : i.quad # q) => Added(q, Written(c, S)) = {}
         /\ \A i \in S : Added(i.quad, Written(c, S)) = {Renewed(c, i)}
<1>1. /\ IsFiniteSet(S) /\ S \subseteq Item
      /\ \A i \in S : i.start <= i.end /\ i.start \in Nat
      /\ \A i, k \in S : i.quad = k.quad => i = k
  BY FS_Subset DEF Reads, Item
<1>2. CASE Now(c).kind = "drop"
  <2>1. Written(c, S) = {CloseAt(i, closing[c]) : i \in S}
    BY <1>2 DEF Written
  <2>2. IsFiniteSet(Written(c, S))
    <3> DEFINE close == [i \in S |-> CloseAt(i, closing[c])]
    <3>1. close \in Surjection(S, Written(c, S))
      BY <2>1 DEF Surjection
    <3> QED
      BY <1>1, <3>1, FS_Surjection
  <2>3. \A i \in S : /\ CloseAt(i, closing[c]) \in Item
                     /\ CloseAt(i, closing[c]).quad = i.quad
                     /\ CloseAt(i, closing[c]).start = i.start
                     /\ CloseAt(i, closing[c]).end = MaxOf(closing[c], i.start)
    BY <1>1 DEF CloseAt, MaxOf, Item
  <2>4. \A i \in S : i.start <= MaxOf(closing[c], i.start)
    BY <1>1 DEF MaxOf
  <2>5. ASSUME NEW i \in S
        PROVE  Added(i.quad, Written(c, S)) = {Renewed(c, i)}
    <3>1. {k \in Written(c, S) : k.quad = i.quad} = {CloseAt(i, closing[c])}
      BY <1>1, <2>1, <2>3
    <3>2. Added(i.quad, Written(c, S)) =
            {[start |-> k.start, end |-> k.end, tt |-> ts + 1] : k \in {CloseAt(i, closing[c])}}
      BY <3>1 DEF Added
    <3> QED
      BY <1>2, <2>3, <3>2 DEF Renewed
  <2>6. ASSUME NEW q \in Quad, \A i \in S : i.quad # q
        PROVE  Added(q, Written(c, S)) = {}
    <3>1. {k \in Written(c, S) : k.quad = q} = {}
      BY <2>1, <2>3, <2>6
    <3> QED
      BY <3>1 DEF Added
  <2>7. \A k \in Written(c, S) : k \in Item /\ k.start <= k.end
    BY <1>1, <2>1, <2>3, <2>4
  <2>8. \A k, l \in Written(c, S) : k.quad = l.quad => k = l
    BY <1>1, <2>1, <2>3
  <2> QED
    BY <1>1, <2>2, <2>5, <2>6, <2>7, <2>8
<1>3. CASE Now(c).kind # "drop"
  <2>1. Written(c, S) = S
    BY <1>3 DEF Written
  <2>5. ASSUME NEW i \in S
        PROVE  Added(i.quad, S) = {Renewed(c, i)}
    <3>1. {k \in S : k.quad = i.quad} = {i}
      BY <1>1
    <3>2. Added(i.quad, S) = {[start |-> k.start, end |-> k.end, tt |-> ts + 1] : k \in {i}}
      BY <3>1 DEF Added
    <3> QED
      BY <1>1, <1>3, <3>2 DEF Renewed
  <2>6. ASSUME NEW q \in Quad, \A i \in S : i.quad # q
        PROVE  Added(q, S) = {}
    <3>1. {k \in S : k.quad = q} = {}
      BY <2>6
    <3> QED
      BY <3>1 DEF Added
  <2>7. \A k \in S : k \in Item /\ k.start <= k.end
    BY <1>1
  <2> QED
    BY <1>1, <2>1, <2>5, <2>6, <2>7
<1> QED
  BY <1>2, <1>3

\* A commit keeps the store's types when it has one item of a quad.
LEMMA CommitKeepsStore ==
  ASSUME GraphTypeOK, StoreInv, NEW g \in Graph, NEW items \in SUBSET Item, IsFiniteSet(items),
         \A i \in items :
           /\ i.start <= i.end \/ \E w \in Writers : w[2] = i
           /\ \A k \in items : i.quad = k.quad => i = k,
         stored' = Committed(g, items), ts' = ts + 1, now' = now
  PROVE  /\ StoreInv' /\ ts' \in Nat /\ now' \in Nat
         /\ stored' \in [Graph -> [Quad -> SUBSET InOrder]]
         /\ stored' \in [Graph -> [Quad -> SUBSET Version]]
         /\ \A h \in Graph : \A q \in Quad : stored[h][q] \subseteq stored'[h][q]
<1>1. stored \in [Graph -> [Quad -> SUBSET InOrder]] /\ ts \in Nat /\ now \in Nat
  BY DEF GraphTypeOK
<1>2. InOrder \subseteq Version /\ stored \in [Graph -> [Quad -> SUBSET Version]]
  <2>1. InOrder \subseteq Version
    BY DEF InOrder
  <2> QED
    BY <1>1, <2>1
<1>3. /\ stored' \in [Graph -> [Quad -> SUBSET Version]]
      /\ \A h \in Graph \ {g} : stored'[h] = stored[h]
      /\ \A q \in Quad : stored'[g][q] = stored[g][q] \cup Added(q, items)
  BY <1>1, <1>2, CommittedFacts
<1>4. ASSUME NEW h \in Graph, NEW q \in Quad, NEW v \in stored'[h][q]
      PROVE  /\ v \in InOrder /\ v \in Version /\ v.tt <= ts'
             /\ v \in stored[h][q] => v.tt <= ts
             /\ v \notin stored[h][q] =>
                  /\ v.tt = ts + 1
                  /\ \E i \in items : i.quad = q /\ v = [start |-> i.start, end |-> i.end, tt |-> ts + 1]
  <2>1. v \in Version
    BY <1>3
  <2>2. CASE v \in stored[h][q]
    <3>1. v.tt <= ts
      BY <2>2 DEF StoreInv
    <3>2. v \in InOrder
      BY <1>1, <2>2
    <3> QED
      BY <1>1, <2>1, <2>2, <3>1, <3>2 DEF Version
  <2>3. CASE v \notin stored[h][q]
    <3>1. v \in Added(q, items)
      BY <1>3, <2>3
    <3>2. PICK i \in items : i.quad = q /\ v = [start |-> i.start, end |-> i.end, tt |-> ts + 1]
      BY <3>1 DEF Added
    <3>3. v.start = i.start /\ v.end = i.end /\ v.tt = ts + 1
      BY <3>2
    <3>4. v \in InOrder
      BY <2>1, <3>3 DEF InOrder, FromClient
    <3> QED
      BY <1>1, <2>1, <2>3, <3>2, <3>3, <3>4
  <2> QED
    BY <2>2, <2>3
<1>a. ASSUME NEW h \in Graph, NEW q \in Quad, NEW v \in stored'[h][q], NEW w \in stored'[h][q], v.tt = w.tt
      PROVE  v = w
  <2>1. v \in Version /\ w \in Version
    BY <1>4
  <2>2. CASE v \in stored[h][q] /\ w \in stored[h][q]
    BY <1>a, <2>2 DEF StoreInv
  <2>3. CASE v \in stored[h][q] /\ w \notin stored[h][q]
    BY <1>1, <1>4, <1>a, <2>1, <2>3 DEF Version
  <2>4. CASE v \notin stored[h][q] /\ w \in stored[h][q]
    BY <1>1, <1>4, <1>a, <2>1, <2>4 DEF Version
  <2>5. CASE v \notin stored[h][q] /\ w \notin stored[h][q]
    <3>1. PICK i \in items : i.quad = q /\ v = [start |-> i.start, end |-> i.end, tt |-> ts + 1]
      BY <1>4, <2>5
    <3>2. PICK k \in items : k.quad = q /\ w = [start |-> k.start, end |-> k.end, tt |-> ts + 1]
      BY <1>4, <2>5
    <3> QED
      BY <3>1, <3>2
  <2> QED
    BY <2>2, <2>3, <2>4, <2>5
<1>5. ASSUME NEW h \in Graph
      PROVE  IsFiniteSet(Windows(stored'[h]))
  <2>1. CASE h = g
    <3>1. stored[g] \in [Quad -> SUBSET Version] /\ stored'[g] \in [Quad -> SUBSET Version]
      BY <1>2, <1>3
    <3>2. IsFiniteSet(Windows(stored[g]))
      BY DEF StoreInv
    <3>3. \A q \in Quad : stored'[g][q] = stored[g][q] \cup Added(q, items)
      BY <1>3
    <3>4. IsFiniteSet(Windows(stored'[g]))
      BY <3>1, <3>2, <3>3, WindowsFinite
    <3> QED
      BY <2>1, <3>4
  <2>2. CASE h # g
    BY <1>3, <2>2 DEF StoreInv
  <2> QED
    BY <2>1, <2>2
<1>6. StoreInv'
  BY <1>1, <1>4, <1>5, <1>a DEF StoreInv
<1>7. stored' \in [Graph -> [Quad -> SUBSET InOrder]]
  BY <1>3, <1>4
<1>8. \A h \in Graph : \A q \in Quad : stored[h][q] \subseteq stored'[h][q]
  BY <1>3
<1> QED
  BY <1>1, <1>3, <1>6, <1>7, <1>8

-----------------------------------------------------------------------------
(* Types and the store *)

LEMMA NowFacts ==
  ASSUME GraphTypeOK, NEW c \in Caller, StepInv(c), plan[c] # <<>>
  PROVE  /\ job[c] \in Job /\ Now(c) \in Stage
         /\ Now(c).target \in Graph /\ Now(c).source \in Graph
         /\ Tail(plan[c]) \in Seq(Stage) /\ RestOf(job[c], Tail(plan[c]))
<1>1. job[c] \in Job /\ RestOf(job[c], plan[c])
  BY DEF GraphTypeOK, StepInv
<1>2. Now(c) \in Stage /\ Tail(plan[c]) \in Seq(Stage) /\ RestOf(job[c], Tail(plan[c]))
  BY <1>1, RestFacts DEF Now
<1> QED
  BY <1>1, <1>2 DEF Stage

LEMMA StoredType ==
  ASSUME GraphTypeOK
  PROVE  stored \in [Graph -> [Quad -> SUBSET Version]]
<1>1. InOrder \subseteq Version
  BY DEF InOrder
<1>2. stored \in [Graph -> [Quad -> SUBSET InOrder]]
  BY DEF GraphTypeOK
<1> QED
  BY <1>1, <1>2

LEMMA LogAppends ==
  ASSUME GraphTypeOK, NEW c \in Caller, Now(c) \in Stage, graphOps' = Append(graphOps, LogEntry(c))
  PROVE  /\ graphOps' \in Seq([by : Caller, op : Stage, at : Nat])
         /\ \A d, k, g : Logged(d, k, g)' <=>
              Logged(d, k, g) \/ (d = c /\ Now(c).kind = k /\ Now(c).target = g)
         /\ \A d, g, t : DroppedAt(d, g, t)' <=>
              DroppedAt(d, g, t) \/ (d = c /\ Now(c).kind = "drop" /\ Now(c).target = g /\ t = readAt[c])
<1> DEFINE e == LogEntry(c)  Entry == [by : Caller, op : Stage, at : Nat]
<1>1. e \in Entry /\ graphOps \in Seq(Entry)
  BY DEF GraphTypeOK, LogEntry
<1>5. e.by = c /\ e.op = Now(c) /\ e.at = readAt[c]
  BY DEF LogEntry
<1> HIDE DEF e, Entry
<1>2. /\ graphOps' \in Seq(Entry) /\ Len(graphOps) \in Nat
      /\ DOMAIN graphOps = 1 .. Len(graphOps) /\ DOMAIN graphOps' = 1 .. Len(graphOps) + 1
      /\ \A i \in 1 .. Len(graphOps) : graphOps'[i] = graphOps[i]
      /\ graphOps'[Len(graphOps) + 1] = e
  BY <1>1 DEF e
<1>3. \A i \in DOMAIN graphOps' : i \in DOMAIN graphOps \/ i = Len(graphOps) + 1
  BY <1>2
<1>4. DOMAIN graphOps \subseteq DOMAIN graphOps' /\ Len(graphOps) + 1 \in DOMAIN graphOps'
  BY <1>2
<1>6. \A d, k, g : Logged(d, k, g)' <=>
        Logged(d, k, g) \/ (d = c /\ Now(c).kind = k /\ Now(c).target = g)
  BY <1>2, <1>3, <1>4, <1>5 DEF Logged
<1>7. \A d, g, t : DroppedAt(d, g, t)' <=>
        DroppedAt(d, g, t) \/ (d = c /\ Now(c).kind = "drop" /\ Now(c).target = g /\ t = readAt[c])
  BY <1>2, <1>3, <1>4, <1>5 DEF DroppedAt
<1> QED
  BY <1>2, <1>6, <1>7 DEF Entry

\* The store and the log after one step.
LEMMA StepTypes ==
  ASSUME ControlInv, [GraphNext]_graphVars
  PROVE  /\ GraphTypeOK' /\ StoreInv'
         /\ \A h \in Graph : \A q \in Quad : stored[h][q] \subseteq stored'[h][q]
<1> USE DEF ControlInv
<1>0. /\ stored \in [Graph -> [Quad -> SUBSET InOrder]]
      /\ ts \in Nat /\ now \in Nat
  BY DEF GraphTypeOK
<1>00. stored \in [Graph -> [Quad -> SUBSET Version]] /\ InOrder \subseteq Version
  <2>1. InOrder \subseteq Version
    BY DEF InOrder
  <2> QED
    BY <1>0, <2>1
<1>1. CASE Tick
  <2>1. now' \in Nat
    BY <1>0, <1>1 DEF Tick
  <2>2. StoreInv'
    BY <1>1 DEF Tick, StoreInv
  <2> QED
    BY <1>1, <2>1, <2>2 DEF Tick, GraphTypeOK, jobVars
<1>2. CASE \E w \in Writers : Write(w[1], w[2])
  <2>1. PICK w \in Writers : Write(w[1], w[2])
    BY <1>2
  <2>2. w[1] \in Graph /\ w[2] \in Item /\ {w[2]} \in SUBSET Item /\ IsFiniteSet({w[2]})
    BY GraphConstants, FS_Singleton DEF Item
  <2>3. /\ stored' = Committed(w[1], {w[2]}) /\ ts' = ts + 1 /\ now' = now
    BY <2>1 DEF Write
  <2>4. /\ StoreInv' /\ ts' \in Nat /\ now' \in Nat
        /\ stored' \in [Graph -> [Quad -> SUBSET InOrder]]
        /\ \A h \in Graph : \A q \in Quad : stored[h][q] \subseteq stored'[h][q]
    BY <2>2, <2>3, CommitKeepsStore
  <2>5. touched' \in [Caller -> SUBSET (Graph \X Quad)]
    <3>1. touched' = [c \in Caller |-> touched[c] \cup {<<w[1], w[2].quad>>}]
      BY <2>1 DEF Write
    <3>2. <<w[1], w[2].quad>> \in Graph \X Quad
      BY <2>2 DEF Item
    <3>3. touched \in [Caller -> SUBSET (Graph \X Quad)]
      BY DEF GraphTypeOK
    <3> HIDE DEF ControlInv
    <3> QED
      BY <3>1, <3>2, <3>3
  <2>6. writes' \in Nat
    <3>1. writes' = writes + 1
      BY <2>1 DEF Write
    <3>2. writes \in Nat
      BY DEF GraphTypeOK
    <3> QED
      BY <3>1, <3>2
  <2> QED
    BY <2>1, <2>4, <2>5, <2>6 DEF Write, GraphTypeOK
<1>3. ASSUME NEW c \in Caller, NEW j \in Jobs[c], Call(c, j)
      PROVE  GraphTypeOK' /\ UNCHANGED storeVars
  <2>1. j \in Job
    BY GraphConstants
  <2>2. Stages(j) \in Seq(Stage)
    <3>1. Stages(j) = <<>> => Stages(j) \in Seq(Stage)
      BY EmptySeq
    <3> QED
      BY <2>1, <3>1, StagesFacts, RestFacts
  <2> QED
    BY <1>3, <2>1, <2>2 DEF Call, GraphTypeOK, storeVars
<1>4. ASSUME NEW c \in Caller, JobStep(c)
      PROVE  GraphTypeOK' /\ StoreInv' /\ \A h \in Graph : \A q \in Quad : stored[h][q] \subseteq stored'[h][q]
  <2>0. StepInv(c)
    OBVIOUS
  <2>1. step[c] \notin {"new", "done", "failed"} => plan[c] # <<>>
    BY <2>0 DEF StepInv
  <2>2. plan[c] # <<>> =>
          /\ Now(c) \in Stage /\ Now(c).target \in Graph /\ Now(c).source \in Graph
          /\ Tail(plan[c]) \in Seq(Stage)
    BY <2>0, NowFacts
  <2>3. plan[c] # <<>> /\ NextStage(c) =>
          /\ plan' \in [Caller -> Seq(Stage)]
          /\ step' \in [Caller -> {"new", "ready", "interning", "new graph", "announcing", "reading", "marking",
                                   "writing", "unmarking", "done", "failed"}]
    BY <2>2 DEF NextStage, GraphTypeOK
  <2>4. plan[c] # <<>> /\ graphOps' = Append(graphOps, LogEntry(c)) =>
          graphOps' \in Seq([by : Caller, op : Stage, at : Nat])
    BY <2>2, LogAppends
  <2>5. UNCHANGED <<stored, ts, now>> => StoreInv'
    BY DEF StoreInv
  <2>6. UNCHANGED <<stored, now>> /\ ts' = ts + 1 => StoreInv'
    <3> SUFFICES ASSUME UNCHANGED <<stored, now>>, ts' = ts + 1
                 PROVE  StoreInv'
      OBVIOUS
    <3>1. \A g \in Graph : \A q \in Quad : \A v \in stored[g][q] : v \in Version /\ v.tt <= ts
      BY <1>00 DEF StoreInv
    <3>2. \A g \in Graph : \A q \in Quad : \A v \in stored[g][q] : v.tt <= ts + 1
      BY <1>0, <3>1 DEF Version
    <3> QED
      BY <3>2 DEF StoreInv
  <2>7. CASE CheckNew(c)
    BY <2>5, <2>7 DEF CheckNew, GraphTypeOK, storeVars
  <2>8. CASE Intern(c)
    BY <2>1, <2>2, <2>3, <2>5, <2>8 DEF Intern, GraphTypeOK
  <2>9. CASE Announce(c)
    <3>1. ts' = ts + 1 /\ ts' \in Nat /\ UNCHANGED <<stored, now>>
      BY <1>0, <2>9 DEF Announce
    <3>2. GraphTypeOK'
      BY <2>1, <2>3, <2>4, <2>9, <3>1 DEF Announce, GraphTypeOK
    <3> QED
      BY <2>6, <3>1, <3>2
  <2>10. CASE TakeTime(c)
    BY <2>5, <2>10 DEF TakeTime, GraphTypeOK, storeVars
  <2>11. CASE Read(c)
    <3>1. plan[c] # <<>>
      BY <2>1, <2>11 DEF Read
    <3>2. Live(Now(c).source, now) \in SUBSET Item
      BY <1>0, <1>00, <2>2, <3>1, LiveFacts
    <3>3. /\ left' \in [Caller -> SUBSET Item] /\ copied' \in [Caller -> SUBSET Item]
          /\ chunked' \in [Caller -> BOOLEAN] /\ readAt' \in [Caller -> Nat]
          /\ step' \in [Caller -> {"new", "ready", "interning", "new graph", "announcing", "reading", "marking",
                                   "writing", "unmarking", "done", "failed"}]
      BY <1>0, <2>11, <3>2 DEF Read, GraphTypeOK
    <3> QED
      BY <2>5, <2>11, <3>3 DEF Read, GraphTypeOK, storeVars
  <2>12. CASE SetFlag(c)
    <3>1. ts' = ts + 1 /\ ts' \in Nat /\ UNCHANGED <<stored, now>>
      BY <1>0, <2>12 DEF SetFlag
    <3>2. GraphTypeOK'
      BY <2>1, <2>2, <2>12, <3>1 DEF SetFlag, GraphTypeOK
    <3> QED
      BY <2>6, <3>1, <3>2
  <2>13. CASE WriteChunk(c)
    <3>0. step[c] = "writing" /\ plan[c] # <<>> /\ Now(c).target \in Graph
      BY <2>1, <2>2, <2>13 DEF WriteChunk
    <3>1. PICK chunk \in NextChunks(c) :
            /\ stored' = Committed(Now(c).target, Written(c, chunk))
            /\ touched' = Touch(c, Now(c).target, chunk)
            /\ left' = [left EXCEPT ![c] = @ \ chunk]
      BY <2>13 DEF WriteChunk
    <3>2. chunk \in SUBSET left[c] /\ left[c] \in SUBSET Item /\ closing[c] \in Nat
      BY DEF NextChunks, GraphTypeOK
    <3>3. Reads(left[c])
      BY <2>0 DEF StepInv
    <3>4. /\ Written(c, chunk) \in SUBSET Item /\ IsFiniteSet(Written(c, chunk))
          /\ \A k \in Written(c, chunk) : k.start <= k.end
          /\ \A k, l \in Written(c, chunk) : k.quad = l.quad => k = l
      BY <1>0, <3>2, <3>3, WrittenFacts
    <3>5. ts' = ts + 1 /\ now' = now
      BY <2>13 DEF WriteChunk
    <3>6. /\ StoreInv' /\ ts' \in Nat /\ now' \in Nat
          /\ stored' \in [Graph -> [Quad -> SUBSET InOrder]]
          /\ \A h \in Graph : \A q \in Quad : stored[h][q] \subseteq stored'[h][q]
      BY <3>0, <3>1, <3>4, <3>5, CommitKeepsStore
    <3>7. touched' \in [Caller -> SUBSET (Graph \X Quad)]
      <4>1. touched' = [d \in Caller |-> IF d = c THEN touched[d]
                                         ELSE touched[d] \cup {<<Now(c).target, i.quad>> : i \in chunk}]
        BY <3>1 DEF Touch
      <4>2. {<<Now(c).target, i.quad>> : i \in chunk} \subseteq Graph \X Quad
        BY <3>0, <3>2 DEF Item
      <4>3. touched \in [Caller -> SUBSET (Graph \X Quad)]
        BY DEF GraphTypeOK
      <4> HIDE DEF ControlInv
      <4> QED
        BY <4>1, <4>2, <4>3
    <3>8. left' \in [Caller -> SUBSET Item]
      BY <3>1 DEF GraphTypeOK
    <3>9. /\ graphOps' \in Seq([by : Caller, op : Stage, at : Nat]) /\ plan' \in [Caller -> Seq(Stage)]
          /\ step' \in [Caller -> {"new", "ready", "interning", "new graph", "announcing", "reading", "marking",
                                   "writing", "unmarking", "done", "failed"}]
      BY <2>3, <2>4, <2>13, <3>0 DEF WriteChunk, GraphTypeOK
    <3> QED
      BY <2>13, <3>6, <3>7, <3>8, <3>9 DEF WriteChunk, GraphTypeOK
  <2>14. CASE ClearFlag(c)
    <3>1. ts' = ts + 1 /\ ts' \in Nat /\ UNCHANGED <<stored, now>>
      BY <1>0, <2>14 DEF ClearFlag
    <3>2. GraphTypeOK'
      BY <2>1, <2>3, <2>14, <3>1 DEF ClearFlag, GraphTypeOK
    <3> QED
      BY <2>6, <3>1, <3>2
  <2>15. CASE Fail(c)
    BY <2>5, <2>15 DEF Fail, GraphTypeOK, storeVars
  <2> QED
    BY <1>4, <2>7, <2>8, <2>9, <2>10, <2>11, <2>12, <2>13, <2>14, <2>15 DEF JobStep
<1>5. CASE UNCHANGED graphVars
  <2>1. UNCHANGED <<stored, ts, now, writes, flagged, interned, graphOps>> /\ UNCHANGED jobVars
    BY <1>5 DEF graphVars, storeVars
  <2>2. StoreInv'
    BY <2>1 DEF StoreInv
  <2>3. GraphTypeOK'
    BY <2>1 DEF jobVars, GraphTypeOK
  <2> QED
    BY <2>1, <2>2, <2>3
<1>6. UNCHANGED storeVars => StoreInv' /\ stored' = stored
  BY DEF storeVars, StoreInv
<1> QED
  BY <1>1, <1>2, <1>3, <1>4, <1>5, <1>6 DEF GraphNext

-----------------------------------------------------------------------------
(* What a step of another leaves of an operation *)

\* The operation of c is where it was, and what changed meanwhile is touched.
Frame(c) ==
  /\ job'[c] = job[c] /\ plan'[c] = plan[c] /\ step'[c] = step[c] /\ left'[c] = left[c]
  /\ closing'[c] = closing[c] /\ readAt'[c] = readAt[c]
  /\ chunked'[c] = chunked[c] /\ copied'[c] = copied[c]
  /\ touched[c] \subseteq touched'[c]
  /\ \A k, g : Logged(c, k, g)' <=> Logged(c, k, g)
  /\ \A g, t : DroppedAt(c, g, t)' <=> DroppedAt(c, g, t)
  /\ \A g \in Graph : \A q \in Quad : <<g, q>> \notin touched'[c] => stored'[g][q] = stored[g][q]
  /\ \A g : (g \in flagged \/ \E d \in Caller \ {c} : Logged(d, "copy", g)) =>
            (g \in flagged' \/ \E d \in Caller \ {c} : Logged(d, "copy", g)')
  /\ interned \subseteq interned' /\ now <= now'

LEMMA FrameKeepsControl ==
  ASSUME ControlInv, GraphTypeOK', NEW c \in Caller, Frame(c)
  PROVE  StepInv(c)' /\ LogInv(c)' /\ ReadInv(c)'
<1>1. /\ now \in Nat /\ now' \in Nat /\ left[c] \in SUBSET Item /\ copied[c] \in SUBSET Item
      /\ closing[c] \in Nat /\ readAt[c] \in Nat /\ StepInv(c) /\ LogInv(c)
  BY DEF ControlInv, GraphTypeOK
<1>2. Reads(left[c])' /\ Reads(copied[c])'
  <2>1. now <= now' /\ left'[c] = left[c] /\ copied'[c] = copied[c]
    BY DEF Frame
  <2>2. Reads(left[c]) /\ Reads(copied[c])
    BY <1>1 DEF StepInv
  <2> QED
    BY <1>1, <2>1, <2>2 DEF Reads, Item
<1>3. closing'[c] <= now' /\ readAt'[c] <= now'
  <2>1. /\ closing[c] <= now /\ readAt[c] <= now /\ now <= now'
        /\ closing'[c] = closing[c] /\ readAt'[c] = readAt[c]
    BY <1>1 DEF Frame, StepInv
  <2> QED
    BY <1>1, <2>1
<1>4. Now(c)' = Now(c)
  BY DEF Now, Frame
<1>5. StepInv(c)'
  BY <1>1, <1>2, <1>3, <1>4 DEF StepInv, Frame
<1>6. LogInv(c)'
  BY <1>1, <1>4 DEF LogInv, Frame
<1>7. ReadInv(c)'
  BY <1>4 DEF ControlInv, ReadInv, Frame
<1> QED
  BY <1>5, <1>6, <1>7

LEMMA FrameKeepsWork ==
  ASSUME ControlInv, GraphTypeOK', NEW c \in Caller, Frame(c), WorkInv(c),
         \A h \in Graph : \A q \in Quad : stored[h][q] \subseteq stored'[h][q]
  PROVE  WorkInv(c)'
<1>1. Now(c)' = Now(c)
  BY DEF Now, Frame
<1>2. StepInv(c) /\ GraphTypeOK /\ GraphTypeOK' /\ copied[c] \in SUBSET Item
  BY DEF ControlInv, GraphTypeOK
<1>3. plan[c] # <<>> => Now(c).target \in Graph
  BY <1>2, NowFacts
<1>4. step[c] = "writing" => Now(c).target \in Graph
  BY <1>2, <1>3 DEF StepInv
<1>5. \A g \in Graph : \A q \in Quad :
        Untouched(c, g, q)' => Untouched(c, g, q) /\ stored'[g][q] = stored[g][q]
  BY DEF Untouched, Frame
<1>6. DropInv(c)'
  <2>1. ASSUME (step[c] = "writing" /\ Now(c).kind = "drop")'
        PROVE  step[c] = "writing" /\ Now(c).kind = "drop" /\ Now(c).target \in Graph
    BY <1>1, <1>4, <2>1 DEF Frame
  <2>2. ASSUME NEW g \in Graph, NEW q \in Quad, Untouched(c, g, q)', ReadAsItWas(c, g, q)
        PROVE  ReadAsItWas(c, g, q)'
    <3>1. /\ stored'[g][q] = stored[g][q] /\ left'[c] = left[c] /\ readAt'[c] = readAt[c]
      BY <1>5, <2>2 DEF Frame
    <3> QED
      BY <2>2, <3>1 DEF ReadAsItWas, Open, Top
  <2>3. closing'[c] = closing[c] /\ readAt'[c] = readAt[c]
    BY DEF Frame
  <2> SUFFICES ASSUME (step[c] = "writing" /\ Now(c).kind = "drop")',
                      NEW q \in Quad, Untouched(c, Now(c).target, q)'
               PROVE  ReadAsItWas(c, Now(c).target, q)'
    BY <1>1, <2>1, <2>3 DEF DropInv, WorkInv
  <2>4. PICK g \in Graph : g = Now(c).target /\ g = Now(c)'.target
    BY <1>1, <2>1
  <2>5. Untouched(c, g, q)'
    BY <2>4 DEF Untouched
  <2>6. ReadAsItWas(c, g, q)
    BY <1>5, <2>1, <2>4, <2>5 DEF WorkInv, DropInv
  <2>7. ReadAsItWas(c, g, q)'
    BY <2>2, <2>5, <2>6
  <2> QED
    BY <2>4, <2>7 DEF ReadAsItWas
<1>7. ASSUME NEW g \in Graph, NEW i \in copied[c], Landed(c, g, i)
      PROVE  Landed(c, g, i)'
  <2>1. i.quad \in Quad
    BY <1>2 DEF Item
  <2>2. stored[g][i.quad] \subseteq stored'[g][i.quad]
    BY <2>1
  <2>3. CASE Untouched(c, g, i.quad)'
    <3>1. Untouched(c, g, i.quad) /\ stored'[g][i.quad] = stored[g][i.quad]
      BY <1>5, <2>1, <2>3
    <3> QED
      BY <1>7, <3>1 DEF Landed
  <2>4. CASE ~Untouched(c, g, i.quad)'
    BY <1>7, <2>2, <2>4 DEF Landed
  <2> QED
    BY <2>3, <2>4
<1>8. CopyInv(c)'
  <2>1. ASSUME (step[c] = "writing" /\ Now(c).kind = "copy")', NEW i \in copied[c] \ left[c]
        PROVE  Landed(c, Now(c).target, i)'
    <3>1. step[c] = "writing" /\ Now(c).kind = "copy" /\ Now(c).target \in Graph
      BY <1>1, <1>4, <2>1 DEF Frame
    <3>2. Landed(c, Now(c).target, i)
      BY <3>1 DEF WorkInv, CopyInv
    <3> DEFINE g == Now(c).target
    <3>3. g' = g /\ g \in Graph /\ Landed(c, g, i)
      BY <1>1, <3>1, <3>2
    <3> HIDE DEF g
    <3>4. Landed(c, g, i)'
      <4>1. ASSUME NEW h, h = g PROVE Landed(c, h, i)'
        BY <1>7, <3>3, <4>1
      <4> QED
        BY <3>3, <4>1 DEF Landed, Untouched
    <3> QED
      BY <3>4 DEF g
  <2>2. ASSUME NEW g \in Graph, Logged(c, "copy", g)', NEW i \in copied[c]
        PROVE  Landed(c, g, i)'
    <3>1. Logged(c, "copy", g)
      BY <2>2 DEF Frame
    <3> QED
      BY <1>7, <3>1 DEF WorkInv, CopyInv
  <2>3. left'[c] = left[c] /\ copied'[c] = copied[c]
    BY DEF Frame
  <2> QED
    BY <2>1, <2>2, <2>3 DEF CopyInv
<1>9. DroppedInv(c)'
  <2> SUFFICES ASSUME NEW g \in Graph, NEW t \in Nat, DroppedAt(c, g, t)'
               PROVE  /\ t <= now'
                      /\ \A q \in Quad : (Untouched(c, g, q) /\ Open(stored[g][q], t))' =>
                           (g = job[c].target /\ q \in CopiedQuads(c))'
    BY DEF DroppedInv
  <2>1. /\ t <= now
        /\ \A q \in Quad : Untouched(c, g, q) /\ Open(stored[g][q], t) =>
             g = job[c].target /\ q \in CopiedQuads(c)
    BY DEF Frame, WorkInv, DroppedInv
  <2>2. t <= now'
    <3>1. now <= now' /\ now \in Nat /\ now' \in Nat
      BY DEF Frame, GraphTypeOK, ControlInv
    <3> QED
      BY <2>1, <3>1
  <2> SUFFICES ASSUME NEW q \in Quad, (Untouched(c, g, q) /\ Open(stored[g][q], t))'
               PROVE  (g = job[c].target /\ q \in CopiedQuads(c))'
    BY <2>2
  <2>3. Untouched(c, g, q) /\ stored'[g][q] = stored[g][q] /\ Open(stored[g][q], t)
    BY <1>5 DEF Open, Top
  <2>4. g = job[c].target /\ q \in CopiedQuads(c)
    BY <2>1, <2>3
  <2> QED
    BY <2>4 DEF Frame, CopiedQuads
<1>10. FlagInv(c)'
  <2>1. Marked(c) => Marked(c)'
    BY <1>1 DEF Marked, Frame
  <2> QED
    BY <1>1, <2>1 DEF WorkInv, FlagInv, Frame
<1> QED
  BY <1>6, <1>8, <1>9, <1>10 DEF WorkInv

LEMMA ClientFrame ==
  ASSUME ControlInv, Tick \/ (\E w \in Writers : Write(w[1], w[2])) \/ UNCHANGED graphVars,
         NEW c \in Caller
  PROVE  Frame(c)
<1>0. /\ stored \in [Graph -> [Quad -> SUBSET Version]] /\ ts \in Nat /\ now \in Nat
      /\ touched \in [Caller -> SUBSET (Graph \X Quad)]
  <2>1. stored \in [Graph -> [Quad -> SUBSET Version]]
    BY StoredType DEF ControlInv
  <2> QED
    BY <2>1 DEF ControlInv, GraphTypeOK
<1>1. CASE Tick
  <2>1. now <= now'
    BY <1>0, <1>1 DEF Tick
  <2>2. /\ \A d, k, g : Logged(d, k, g)' <=> Logged(d, k, g)
        /\ \A d, g, t : DroppedAt(d, g, t)' <=> DroppedAt(d, g, t)
    BY <1>1 DEF Tick, Logged, DroppedAt
  <2> QED
    BY <1>1, <2>1, <2>2 DEF Tick, Frame, jobVars
<1>2. ASSUME NEW w \in Writers, Write(w[1], w[2])
      PROVE  Frame(c)
  <2>1. w[1] \in Graph /\ {w[2]} \in SUBSET Item
    BY GraphConstants DEF Item
  <2>2. /\ stored' = Committed(w[1], {w[2]}) /\ now' = now
        /\ touched' = [d \in Caller |-> touched[d] \cup {<<w[1], w[2].quad>>}]
    BY <1>2 DEF Write
  <2>3. /\ \A d, k, g : Logged(d, k, g)' <=> Logged(d, k, g)
        /\ \A d, g, t : DroppedAt(d, g, t)' <=> DroppedAt(d, g, t)
    BY <1>2 DEF Write, Logged, DroppedAt
  <2>4. ASSUME NEW g \in Graph, NEW q \in Quad, <<g, q>> \notin touched'[c]
        PROVE  stored'[g][q] = stored[g][q]
    <3>1. <<g, q>> # <<w[1], w[2].quad>>
      BY <2>2, <2>4
    <3>2. CASE g # w[1]
      BY <1>0, <2>1, <2>2, <3>2, CommittedFacts
    <3>3. CASE g = w[1]
      <4>1. w[2].quad # q
        BY <3>1, <3>3
      <4>2. Added(q, {w[2]}) = {}
        BY <4>1 DEF Added
      <4>3. Committed(w[1], {w[2]})[w[1]][q] = stored[w[1]][q] \cup Added(q, {w[2]})
        BY <1>0, <2>1, CommittedFacts
      <4> QED
        BY <2>2, <3>3, <4>2, <4>3
    <3> QED
      BY <3>2, <3>3
  <2>5. touched[c] \subseteq touched'[c] /\ now <= now'
    BY <1>0, <2>2
  <2> QED
    BY <1>2, <2>3, <2>4, <2>5 DEF Write, Frame
<1>3. CASE UNCHANGED graphVars
  <2>1. /\ \A d, k, g : Logged(d, k, g)' <=> Logged(d, k, g)
        /\ \A d, g, t : DroppedAt(d, g, t)' <=> DroppedAt(d, g, t)
    BY <1>3 DEF Logged, DroppedAt, graphVars, storeVars
  <2>2. now <= now'
    BY <1>0, <1>3 DEF graphVars, storeVars
  <2> QED
    BY <1>3, <2>1, <2>2 DEF graphVars, storeVars, jobVars, Frame
<1> QED
  BY <1>1, <1>2, <1>3

\* The steps of an operation change its own place only; what it takes out of
\* flagged, it has logged.
LEMMA OthersFrame ==
  ASSUME ControlInv, NEW c \in Caller, JobStep(c) \/ \E j \in Jobs[c] : Call(c, j),
         NEW d \in Caller \ {c}
  PROVE  Frame(d)
<1>0. /\ stored \in [Graph -> [Quad -> SUBSET Version]] /\ ts \in Nat /\ now \in Nat
      /\ touched \in [Caller -> SUBSET (Graph \X Quad)] /\ left \in [Caller -> SUBSET Item]
      /\ job \in [Caller -> Job] /\ plan \in [Caller -> Seq(Stage)] /\ DOMAIN step = Caller
      /\ copied \in [Caller -> SUBSET Item] /\ closing \in [Caller -> Nat] /\ chunked \in [Caller -> BOOLEAN]
      /\ readAt \in [Caller -> Nat] /\ GraphTypeOK /\ StoreInv /\ StepInv(c)
  <2>1. stored \in [Graph -> [Quad -> SUBSET Version]]
    BY StoredType DEF ControlInv
  <2> QED
    BY <2>1 DEF ControlInv, GraphTypeOK
<1>1. step[c] \notin {"new", "done", "failed"} => plan[c] # <<>>
  BY <1>0 DEF StepInv
<1>2. plan[c] # <<>> => Now(c) \in Stage /\ Now(c).target \in Graph
  BY <1>0, NowFacts
<1>3. now <= now
  BY <1>0
<1>4. UNCHANGED graphOps => /\ \A e, k, g : Logged(e, k, g)' <=> Logged(e, k, g)
                            /\ \A e, g, t : DroppedAt(e, g, t)' <=> DroppedAt(e, g, t)
  BY DEF Logged, DroppedAt
<1>5. plan[c] # <<>> /\ graphOps' = Append(graphOps, LogEntry(c)) =>
        /\ \A k, g : Logged(d, k, g)' <=> Logged(d, k, g)
        /\ \A g, t : DroppedAt(d, g, t)' <=> DroppedAt(d, g, t)
        /\ \A e, k, g : Logged(e, k, g) => Logged(e, k, g)'
  BY <1>0, <1>2, LogAppends
<1>6. ASSUME NEW j \in Jobs[c], Call(c, j)
      PROVE  Frame(d)
  BY <1>0, <1>3, <1>4, <1>6 DEF Call, Frame, storeVars
<1>7. CASE CheckNew(c)
  BY <1>0, <1>3, <1>4, <1>7 DEF CheckNew, Frame, storeVars
<1>8. CASE Intern(c)
  BY <1>0, <1>3, <1>4, <1>8 DEF Intern, NextStage, Frame
<1>9. CASE Announce(c)
  <2>1. plan[c] # <<>>
    BY <1>1, <1>9 DEF Announce
  <2> QED
    BY <1>0, <1>3, <1>5, <1>9, <2>1 DEF Announce, NextStage, Frame
<1>10. CASE TakeTime(c)
  BY <1>0, <1>3, <1>4, <1>10 DEF TakeTime, Frame, storeVars
<1>11. CASE Read(c)
  BY <1>0, <1>3, <1>4, <1>11 DEF Read, Frame, storeVars
<1>12. CASE SetFlag(c)
  BY <1>0, <1>3, <1>4, <1>12 DEF SetFlag, Frame
<1>13. CASE WriteChunk(c)
  <2>1. step[c] = "writing" /\ plan[c] # <<>> /\ Now(c).target \in Graph
    BY <1>1, <1>2, <1>13 DEF WriteChunk
  <2>2. PICK chunk \in NextChunks(c) :
          /\ stored' = Committed(Now(c).target, Written(c, chunk))
          /\ touched' = Touch(c, Now(c).target, chunk)
          /\ left' = [left EXCEPT ![c] = @ \ chunk]
    BY <1>13 DEF WriteChunk
  <2>3. chunk \in SUBSET left[c] /\ left[c] \in SUBSET Item /\ closing[c] \in Nat
    BY <1>0 DEF NextChunks
  <2>4. Reads(left[c])
    BY <1>0 DEF StepInv
  <2>5. /\ Written(c, chunk) \in SUBSET Item
        /\ \A q \in Quad : (\A i \in chunk : i.quad # q) => Added(q, Written(c, chunk)) = {}
    BY <1>0, <2>3, <2>4, WrittenFacts
  <2>6. touched'[d] = touched[d] \cup {<<Now(c).target, i.quad>> : i \in chunk}
    BY <2>2 DEF Touch
  <2>7. ASSUME NEW g \in Graph, NEW q \in Quad, <<g, q>> \notin touched'[d]
        PROVE  stored'[g][q] = stored[g][q]
    <3>1. CASE g # Now(c).target
      BY <1>0, <2>1, <2>2, <2>5, <3>1, CommittedFacts
    <3>2. CASE g = Now(c).target
      <4>1. \A i \in chunk : i.quad # q
        BY <2>6, <2>7, <3>2
      <4>2. Added(q, Written(c, chunk)) = {}
        BY <2>5, <4>1
      <4>3. Committed(Now(c).target, Written(c, chunk))[Now(c).target][q]
              = stored[Now(c).target][q] \cup Added(q, Written(c, chunk))
        BY <1>0, <2>1, <2>5, CommittedFacts
      <4> QED
        BY <2>2, <3>2, <4>2, <4>3
    <3> QED
      BY <3>1, <3>2
  <2>8. /\ \A k, g : Logged(d, k, g)' <=> Logged(d, k, g)
        /\ \A g, t : DroppedAt(d, g, t)' <=> DroppedAt(d, g, t)
        /\ \A e, k, g : Logged(e, k, g) => Logged(e, k, g)'
    <3>1. CASE left'[c] # {}
      BY <1>4, <1>13, <3>1 DEF WriteChunk
    <3>2. CASE left'[c] = {}
      BY <1>5, <1>13, <2>1, <3>2 DEF WriteChunk
    <3> QED
      BY <3>1, <3>2
  <2>9. plan'[d] = plan[d] /\ step'[d] = step[d] /\ left'[d] = left[d]
    BY <1>0, <1>13, <2>2 DEF WriteChunk, NextStage
  <2>10. /\ job' = job /\ closing' = closing /\ readAt' = readAt /\ chunked' = chunked /\ copied' = copied
         /\ now' = now /\ flagged' = flagged /\ interned' = interned
    BY <1>13 DEF WriteChunk
  <2> QED
    BY <1>3, <2>6, <2>7, <2>8, <2>9, <2>10 DEF Frame
<1>14. CASE ClearFlag(c)
  <2>1. step[c] = "unmarking" /\ plan[c] # <<>>
    BY <1>1, <1>14 DEF ClearFlag
  <2>2. Logged(c, "copy", Now(c).target)
    BY <1>0, <2>1 DEF StepInv
  <2>3. /\ \A e, k, g : Logged(e, k, g)' <=> Logged(e, k, g)
        /\ \A e, g, t : DroppedAt(e, g, t)' <=> DroppedAt(e, g, t)
    BY <1>4, <1>14 DEF ClearFlag
  <2>4. \A g : (g \in flagged \/ \E e \in Caller \ {d} : Logged(e, "copy", g)) =>
               (g \in flagged' \/ \E e \in Caller \ {d} : Logged(e, "copy", g)')
    BY <1>14, <2>2, <2>3 DEF ClearFlag
  <2>5. plan'[d] = plan[d] /\ step'[d] = step[d]
    BY <1>0, <1>14 DEF ClearFlag, NextStage
  <2> QED
    BY <1>3, <1>14, <2>3, <2>4, <2>5 DEF ClearFlag, Frame
<1>15. CASE Fail(c)
  BY <1>0, <1>3, <1>4, <1>15 DEF Fail, Frame, storeVars
<1> QED
  BY <1>6, <1>7, <1>8, <1>9, <1>10, <1>11, <1>12, <1>13, <1>14, <1>15 DEF JobStep

-----------------------------------------------------------------------------
(* Where an operation is after a step of its own *)

LEMMA NextStageFacts ==
  ASSUME GraphTypeOK, NEW c \in Caller, StepInv(c), plan[c] # <<>>, NextStage(c)
  PROVE  /\ plan'[c] = Tail(plan[c]) /\ RestOf(job[c], plan'[c])
         /\ step'[c] = IF plan'[c] = <<>> THEN "done" ELSE "ready"
         /\ Now(c).kind = "create" => plan'[c] = <<>>
         /\ Now(c).kind = "drop" /\ plan'[c] # <<>> =>
              Now(c) = ClearOf(job[c]) /\ Now(c)' = CopyOf(job[c]) /\ job[c].source # job[c].target
         /\ Now(c).kind = "copy" =>
              /\ Now(c) = CopyOf(job[c]) /\ job[c].source # job[c].target
              /\ plan'[c] # <<>> => Now(c)' = EmptyOf(job[c])
<1>1. /\ job[c] \in Job /\ RestOf(job[c], plan[c]) /\ c \in DOMAIN plan /\ c \in DOMAIN step
  BY DEF GraphTypeOK, StepInv
<1>2. plan'[c] = Tail(plan[c]) /\ step'[c] = IF Len(plan[c]) = 1 THEN "done" ELSE "ready"
  BY <1>1 DEF NextStage
<1>3. Now(c)' = Head(plan'[c])
  BY DEF Now
<1>4. /\ RestOf(job[c], Tail(plan[c]))
      /\ Len(plan[c]) = 1 <=> Tail(plan[c]) = <<>>
      /\ Now(c).kind = "create" => Tail(plan[c]) = <<>>
      /\ Now(c).kind = "drop" =>
           \/ /\ Now(c) = ClearOf(job[c])
              /\ Tail(plan[c]) # <<>> =>
                   job[c].source # job[c].target /\ Head(Tail(plan[c])) = CopyOf(job[c])
           \/ Tail(plan[c]) = <<>>
      /\ Now(c).kind = "copy" =>
           /\ Now(c) = CopyOf(job[c]) /\ job[c].source # job[c].target
           /\ Tail(plan[c]) # <<>> => Head(Tail(plan[c])) = EmptyOf(job[c])
  BY <1>1, RestFacts DEF Now
<1>5. Now(c)' = Head(Tail(plan[c]))
  BY <1>2, <1>3
<1>6. /\ RestOf(job[c], plan'[c])
      /\ step'[c] = IF plan'[c] = <<>> THEN "done" ELSE "ready"
  BY <1>2, <1>4
<1>7. Now(c).kind = "drop" /\ plan'[c] # <<>> =>
        Now(c) = ClearOf(job[c]) /\ Now(c)' = CopyOf(job[c]) /\ job[c].source # job[c].target
  BY <1>2, <1>4, <1>5
<1> QED
  BY <1>2, <1>4, <1>5, <1>6, <1>7

LEMMA CallKeepsControl ==
  ASSUME ControlInv, NEW c \in Caller, NEW j \in Jobs[c], Call(c, j)
  PROVE  StepInv(c)' /\ LogInv(c)'
<1>1. /\ StepInv(c) /\ LogInv(c) /\ c \in DOMAIN job /\ c \in DOMAIN plan /\ c \in DOMAIN step
      /\ step[c] = "new"
  BY DEF ControlInv, GraphTypeOK, Call
<1>2. j \in Job /\ RestOf(j, Stages(j))
  BY GraphConstants, StagesFacts
<1>3. /\ job'[c] = j /\ plan'[c] = Stages(j)
      /\ step'[c] = IF Stages(j) = <<>> THEN "done" ELSE "ready"
  BY <1>1 DEF Call
<1>4. UNCHANGED <<graphOps, left, copied, closing, readAt, chunked, now, interned>>
  BY DEF Call, storeVars
<1>5. \A k, g : Logged(c, k, g)' <=> Logged(c, k, g)
  BY <1>4 DEF Logged
<1>6. /\ left'[c] = {} /\ copied'[c] = {} /\ closing'[c] <= now' /\ readAt'[c] <= now'
      /\ Reads(left[c])' /\ Reads(copied[c])'
  BY <1>1, <1>4 DEF StepInv, Reads
<1>7. StepInv(c)'
  BY <1>2, <1>3, <1>6 DEF StepInv
<1>8. \A g \in Graph : ~Logged(c, "drop", g)' /\ ~Logged(c, "copy", g)'
  BY <1>1, <1>5 DEF LogInv
<1>9. step'[c] # "new"
  BY <1>3
<1>10. LogInv(c)'
  BY <1>8, <1>9 DEF LogInv
<1> QED
  BY <1>7, <1>10

\* A step that moves to the next stage, with what it logged.
LEMMA NextStageKeepsControl ==
  ASSUME ControlInv, NEW c \in Caller, step[c] \notin {"new", "done", "failed"}, NextStage(c),
         job' = job, now' = now, copied' = copied, closing' = closing, readAt' = readAt,
         left'[c] = {} \/ (left' = left /\ Now(c).kind = "create"),
         \A g \in Graph : Logged(c, "drop", g)' =>
            Logged(c, "drop", g) \/ (Now(c).kind = "drop" /\ Now(c).target = g),
         \A g \in Graph : Logged(c, "copy", g)' =>
            Logged(c, "copy", g) \/ (Now(c).kind = "copy" /\ Now(c).target = g)
  PROVE  StepInv(c)' /\ LogInv(c)'
<1>0. GraphTypeOK /\ StepInv(c) /\ LogInv(c) /\ plan[c] # <<>>
  BY DEF ControlInv, StepInv
<1>1. /\ RestOf(job[c], plan'[c])
      /\ step'[c] = IF plan'[c] = <<>> THEN "done" ELSE "ready"
      /\ Now(c).kind = "create" => plan'[c] = <<>>
      /\ Now(c).kind = "drop" /\ plan'[c] # <<>> =>
           Now(c) = ClearOf(job[c]) /\ Now(c)' = CopyOf(job[c]) /\ job[c].source # job[c].target
      /\ Now(c).kind = "copy" =>
           /\ Now(c) = CopyOf(job[c]) /\ job[c].source # job[c].target
           /\ plan'[c] # <<>> => Now(c)' = EmptyOf(job[c])
  BY <1>0, NextStageFacts
<1>2. /\ Reads(left[c]) /\ Reads(copied[c]) /\ closing[c] <= now /\ readAt[c] <= now
  BY <1>0 DEF StepInv
<1>3. /\ Reads(left[c])' /\ Reads(copied[c])' /\ closing'[c] <= now' /\ readAt'[c] <= now'
  <2>1. Reads({})'
    BY FS_EmptySet DEF Reads
  <2>2. Reads(left[c])'
    BY <1>2, <2>1 DEF Reads
  <2> QED
    BY <1>2, <2>2 DEF Reads
<1>4. step'[c] \in {"done", "ready"} /\ (step'[c] = "done" => plan'[c] = <<>>)
      /\ (step'[c] = "ready" => plan'[c] # <<>>)
  BY <1>1
<1>5. step'[c] = "ready" => left'[c] = {}
  BY <1>1, <1>4
<1>6. StepInv(c)'
  BY <1>1, <1>3, <1>4, <1>5 DEF StepInv
<1>7. \A g \in Graph : Logged(c, "drop", g) /\ plan[c] # <<>> =>
        /\ g = job[c].target /\ job[c].source # job[c].target
        /\ Now(c) \in {CopyOf(job[c]), EmptyOf(job[c])}
  BY <1>0 DEF LogInv
<1>8. ClearOf(job[c]).target = job[c].target /\ CopyOf(job[c]).target = job[c].target
  BY DEF ClearOf, CopyOf
<1>9. /\ ClearOf(job[c]).kind = "drop" /\ CopyOf(job[c]).kind = "copy" /\ EmptyOf(job[c]).kind = "drop"
      /\ EmptyOf(job[c]).target = job[c].source
  BY DEF ClearOf, CopyOf, EmptyOf
<1>10. ASSUME NEW g \in Graph, Logged(c, "drop", g)', plan'[c] # <<>>
       PROVE  /\ g = job[c].target /\ job[c].source # job[c].target
              /\ Now(c)' \in {CopyOf(job[c]), EmptyOf(job[c])}
  <2>1. CASE Now(c).kind = "drop" /\ Now(c).target = g
    BY <1>1, <1>8, <1>10, <2>1
  <2>2. CASE Logged(c, "drop", g)
    <3>1. /\ g = job[c].target /\ job[c].source # job[c].target
          /\ Now(c) \in {CopyOf(job[c]), EmptyOf(job[c])}
      BY <1>0, <1>7, <2>2
    <3>2. CASE Now(c) = CopyOf(job[c])
      BY <1>1, <1>9, <1>10, <3>1, <3>2
    <3>3. CASE Now(c) = EmptyOf(job[c])
      BY <1>1, <1>8, <1>9, <1>10, <3>1, <3>3
    <3> QED
      BY <3>1, <3>2, <3>3
  <2> QED
    BY <1>10, <2>1, <2>2
<1>11. ASSUME NEW g \in Graph, Logged(c, "copy", g)'
       PROVE  /\ g = job[c].target
              /\ plan'[c] # <<>> => job[c].source # job[c].target /\ Now(c)' = EmptyOf(job[c])
  <2>1. CASE Now(c).kind = "copy" /\ Now(c).target = g
    BY <1>1, <1>8, <2>1
  <2>2. CASE Logged(c, "copy", g)
    <3>1. /\ g = job[c].target /\ job[c].source # job[c].target
          /\ Now(c) = EmptyOf(job[c]) \/ Now(c) = CopyOf(job[c])
      BY <1>0, <2>2 DEF LogInv
    <3>2. CASE Now(c) = CopyOf(job[c])
      BY <1>1, <1>9, <3>1, <3>2
    <3>3. CASE Now(c) = EmptyOf(job[c])
      BY <1>1, <1>8, <1>9, <3>1, <3>3
    <3> QED
      BY <3>1, <3>2, <3>3
  <2> QED
    BY <1>11, <2>1, <2>2
<1>12. step'[c] # "new" /\ job'[c] = job[c]
  BY <1>4
<1>13. LogInv(c)'
  BY <1>10, <1>11, <1>12 DEF LogInv
<1> QED
  BY <1>6, <1>13

LEMMA JobStepKeepsControl ==
  ASSUME ControlInv, NEW c \in Caller, JobStep(c)
  PROVE  StepInv(c)' /\ LogInv(c)'
<1>0. /\ GraphTypeOK /\ StoreInv /\ StepInv(c) /\ LogInv(c)
      /\ c \in DOMAIN plan /\ c \in DOMAIN step /\ c \in DOMAIN left /\ c \in DOMAIN closing
      /\ c \in DOMAIN chunked /\ c \in DOMAIN copied /\ c \in DOMAIN readAt
      /\ now \in Nat /\ ts \in Nat /\ left[c] \in SUBSET Item
  BY DEF ControlInv, GraphTypeOK
<1>1. step[c] \notin {"new", "done", "failed"} => plan[c] # <<>>
  BY <1>0 DEF StepInv
<1>2. plan[c] # <<>> =>
        /\ Now(c) \in Stage /\ Now(c).target \in Graph /\ Now(c).source \in Graph
        /\ Now(c).kind = "copy" => Now(c) = CopyOf(job[c]) /\ job[c].source # job[c].target
  <2> SUFFICES ASSUME plan[c] # <<>>
               PROVE  /\ Now(c) \in Stage /\ Now(c).target \in Graph /\ Now(c).source \in Graph
                      /\ Now(c).kind = "copy" => Now(c) = CopyOf(job[c]) /\ job[c].source # job[c].target
    OBVIOUS
  <2>1. job[c] \in Job /\ Now(c) \in Stage /\ Now(c).target \in Graph /\ Now(c).source \in Graph
    BY <1>0, NowFacts
  <2>2. RestOf(job[c], plan[c])
    BY <1>0 DEF StepInv
  <2> QED
    BY <2>1, <2>2, RestFacts DEF Now
<1>3. /\ RestOf(job[c], plan[c]) /\ Reads(left[c]) /\ Reads(copied[c])
      /\ closing[c] <= now /\ readAt[c] <= now
  BY <1>0 DEF StepInv
<1>4. UNCHANGED graphOps => \A k, g : Logged(c, k, g)' <=> Logged(c, k, g)
  BY DEF Logged
<1>5. UNCHANGED plan => Now(c)' = Now(c)
  BY DEF Now
<1>7. CASE CheckNew(c)
  <2>1. /\ step[c] = "ready" /\ Now(c).kind = "create"
        /\ step'[c] = IF Now(c).target \in interned THEN "interning" ELSE "new graph"
        /\ UNCHANGED <<graphOps, now, interned, job, plan, left, closing, readAt, chunked, copied>>
    BY <1>0, <1>7 DEF CheckNew, storeVars
  <2>2. StepInv(c)'
    BY <1>1, <1>3, <1>5, <2>1 DEF StepInv, Reads
  <2> QED
    BY <1>0, <1>4, <1>5, <2>1, <2>2 DEF LogInv
<1>8. CASE Intern(c)
  <2>1. /\ step[c] \in {"interning", "new graph"} /\ Now(c).kind = "create"
        /\ UNCHANGED <<graphOps, now, job, left, closing, readAt, chunked, copied>>
    BY <1>0, <1>8 DEF Intern, StepInv
  <2>2. CASE step[c] = "new graph"
    <3>1. step'[c] = "announcing" /\ UNCHANGED plan
      BY <1>0, <1>8, <2>2 DEF Intern
    <3>2. StepInv(c)'
      BY <1>1, <1>3, <1>5, <2>1, <3>1 DEF StepInv, Reads
    <3> QED
      BY <1>0, <1>4, <1>5, <2>1, <2>2, <3>1, <3>2 DEF LogInv
  <2>3. CASE step[c] # "new graph"
    <3>1. NextStage(c)
      BY <1>8, <2>3 DEF Intern
    <3> QED
      BY <1>4, <2>1, <3>1, NextStageKeepsControl
  <2> QED
    BY <2>2, <2>3
<1>9. CASE Announce(c)
  <2>1. step[c] = "announcing" /\ plan[c] # <<>> /\ Now(c).kind = "create"
    BY <1>0, <1>1, <1>9 DEF Announce, StepInv
  <2>2. /\ NextStage(c) /\ graphOps' = Append(graphOps, LogEntry(c))
        /\ UNCHANGED <<now, job, left, closing, readAt, chunked, copied>>
    BY <1>9 DEF Announce
  <2>3. \A d, k, g : Logged(d, k, g)' <=> Logged(d, k, g) \/ (d = c /\ Now(c).kind = k /\ Now(c).target = g)
    BY <1>0, <1>2, <2>1, <2>2, LogAppends
  <2> QED
    BY <2>1, <2>2, <2>3, NextStageKeepsControl
<1>10. CASE TakeTime(c)
  <2>1. /\ step[c] = "ready" /\ Now(c).kind = "drop" /\ step'[c] = "reading" /\ closing'[c] = now
        /\ UNCHANGED <<graphOps, now, interned, job, plan, left, readAt, chunked, copied>>
    BY <1>0, <1>10 DEF TakeTime, storeVars
  <2>2. closing'[c] <= now'
    BY <1>0, <2>1
  <2>3. left[c] = {} /\ plan[c] # <<>>
    BY <1>0, <1>1, <2>1 DEF StepInv
  <2>4. StepInv(c)'
    BY <1>3, <1>5, <2>1, <2>2, <2>3 DEF StepInv, Reads
  <2> QED
    BY <1>0, <1>4, <1>5, <2>1, <2>4 DEF LogInv
<1>11. CASE Read(c)
  <2>0. PICK live : live = Live(Now(c).source, now)
    OBVIOUS
  <2> DEFINE mark == Now(c).kind = "copy" /\ Cardinality(live) > Chunk /\ Now(c).target # Default
  <2>1. step[c] = "reading" \/ (step[c] = "ready" /\ Now(c).kind = "copy")
    BY <1>11 DEF Read
  <2>2. plan[c] # <<>> /\ (step[c] = "reading" => Now(c).kind = "drop")
    BY <1>0, <1>1, <2>1 DEF StepInv
  <2>3. /\ left'[c] = live /\ chunked'[c] = mark /\ readAt'[c] = now
        /\ copied'[c] = IF Now(c).kind = "copy" THEN live ELSE copied[c]
        /\ step'[c] = IF mark THEN "marking" ELSE "writing"
        /\ UNCHANGED <<graphOps, now, interned, job, plan, closing>>
    BY <1>0, <1>11, <2>0 DEF Read, storeVars
  <2>4. Reads(live)
    BY <1>0, <1>2, <2>0, <2>2, LiveFacts, StoredType
  <2>6. Reads(left[c])' /\ Reads(copied[c])' /\ closing'[c] <= now' /\ readAt'[c] <= now'
    BY <1>0, <1>3, <2>3, <2>4 DEF Reads
  <2>7. StepInv(c)'
    BY <1>3, <1>5, <2>1, <2>2, <2>3, <2>6 DEF StepInv
  <2>8. \A g \in Graph : ~Logged(c, "copy", g) \/ Now(c).kind = "drop"
    BY <1>0, <2>1, <2>2 DEF LogInv, EmptyOf, CopyOf
  <2>9. ASSUME NEW g \in Graph, Logged(c, "copy", g)
        PROVE  /\ g = job[c].target /\ job[c].source # job[c].target /\ Now(c) = EmptyOf(job[c])
    <3>1. Now(c).kind = "drop"
      BY <2>8, <2>9
    <3> QED
      BY <1>0, <2>2, <2>9, <3>1 DEF LogInv, CopyOf
  <2>10. step'[c] # "new"
    BY <2>3
  <2>11. \A g \in Graph : Logged(c, "drop", g) => /\ g = job[c].target /\ job[c].source # job[c].target
                                                  /\ Now(c) \in {CopyOf(job[c]), EmptyOf(job[c])}
    BY <1>0, <2>2 DEF LogInv
  <2>12. LogInv(c)'
    BY <1>4, <1>5, <2>3, <2>9, <2>10, <2>11 DEF LogInv
  <2> QED
    BY <2>7, <2>12
<1>12. CASE SetFlag(c)
  <2>1. /\ step[c] = "marking" /\ step'[c] = "writing"
        /\ UNCHANGED <<graphOps, now, interned, job, plan, left, closing, readAt, chunked, copied>>
    BY <1>0, <1>12 DEF SetFlag
  <2>2. StepInv(c)'
    BY <1>0, <1>1, <1>3, <1>5, <2>1 DEF StepInv, Reads
  <2> QED
    BY <1>0, <1>4, <1>5, <2>1, <2>2 DEF LogInv
<1>13. CASE WriteChunk(c)
  <2>1. /\ step[c] = "writing" /\ plan[c] # <<>> /\ Now(c).kind \in {"drop", "copy"}
        /\ UNCHANGED <<now, interned, job, closing, readAt, chunked, copied>>
    BY <1>0, <1>1, <1>13 DEF WriteChunk, StepInv
  <2>2. left'[c] \subseteq left[c] /\ left' = [left EXCEPT ![c] = left'[c]]
    <3>1. PICK chunk \in NextChunks(c) : left' = [left EXCEPT ![c] = @ \ chunk]
      BY <1>13 DEF WriteChunk
    <3> QED
      BY <1>0, <3>1
  <2>3. Reads(left'[c]) /\ (Reads(left[c])' <=> Reads(left'[c]))
    BY <1>3, <2>1, <2>2, FS_Subset DEF Reads
  <2>4. CASE left'[c] # {}
    <3>1. UNCHANGED <<plan, step, graphOps>>
      BY <1>13, <2>4 DEF WriteChunk
    <3>2. StepInv(c)'
      BY <1>0, <1>3, <1>5, <2>1, <2>2, <2>3, <3>1 DEF StepInv, Reads
    <3> QED
      BY <1>0, <1>4, <1>5, <2>1, <3>1, <3>2 DEF LogInv
  <2>5. CASE left'[c] = {}
    <3>1. graphOps' = Append(graphOps, LogEntry(c))
      BY <1>13, <2>5 DEF WriteChunk
    <3>2. \A d, k, g : Logged(d, k, g)' <=> Logged(d, k, g) \/ (d = c /\ Now(c).kind = k /\ Now(c).target = g)
      BY <1>0, <1>2, <2>1, <3>1, LogAppends
    <3>3. CASE chunked[c]
      <4>1. step'[c] = "unmarking" /\ UNCHANGED plan
        BY <1>0, <1>13, <2>5, <3>3 DEF WriteChunk
      <4>2. Now(c).kind = "copy" /\ Now(c) = CopyOf(job[c]) /\ job[c].source # job[c].target
        BY <1>0, <1>2, <2>1, <3>3 DEF StepInv
      <4>3. Logged(c, "copy", Now(c).target)'
        BY <1>5, <3>2, <4>1, <4>2 DEF Logged
      <4>5. StepInv(c)'
        BY <1>3, <1>5, <2>1, <2>3, <2>5, <4>1, <4>2, <4>3 DEF StepInv, Reads
      <4>6. CopyOf(job[c]).target = job[c].target /\ CopyOf(job[c]).kind = "copy"
        BY DEF CopyOf
      <4>7. LogInv(c)'
        BY <1>0, <1>5, <2>1, <2>5, <3>2, <4>1, <4>2, <4>6 DEF LogInv
      <4> QED
        BY <4>5, <4>7
    <3>4. CASE ~chunked[c]
      <4>1. NextStage(c)
        BY <1>13, <2>5, <3>4 DEF WriteChunk
      <4> QED
        BY <2>1, <2>5, <3>2, <4>1, NextStageKeepsControl
    <3> QED
      BY <3>3, <3>4
  <2> QED
    BY <2>4, <2>5
<1>14. CASE ClearFlag(c)
  <2>1. /\ step[c] = "unmarking" /\ left'[c] = {} /\ NextStage(c)
        /\ UNCHANGED <<graphOps, now, job, left, closing, readAt, copied>>
    BY <1>0, <1>14 DEF ClearFlag, StepInv
  <2> QED
    BY <1>4, <2>1, NextStageKeepsControl
<1>15. CASE Fail(c)
  <2>1. /\ step[c] \notin {"new", "done", "failed"} /\ step'[c] = "failed"
        /\ UNCHANGED <<graphOps, now, interned, job, plan, left, closing, readAt, chunked, copied>>
    BY <1>0, <1>15 DEF Fail, storeVars
  <2>2. StepInv(c)'
    BY <1>3, <2>1 DEF StepInv, Reads
  <2> QED
    BY <1>0, <1>4, <1>5, <2>1, <2>2 DEF LogInv
<1> QED
  BY <1>7, <1>8, <1>9, <1>10, <1>11, <1>12, <1>13, <1>14, <1>15 DEF JobStep

\* Only the read of a copy sets copied, and only a copy's end leaves its stage.
LEMMA OperationKeepsRead ==
  ASSUME ControlInv, NEW c \in Caller, JobStep(c) \/ \E j \in Jobs[c] : Call(c, j)
  PROVE  ReadInv(c)'
<1>0. /\ GraphTypeOK /\ StepInv(c) /\ ReadInv(c) /\ c \in DOMAIN step /\ c \in DOMAIN copied
      /\ step[c] \notin {"new", "done", "failed"} => plan[c] # <<>>
  BY DEF ControlInv, GraphTypeOK, StepInv
<1>1. /\ ClearOf(job[c]).kind = "drop" /\ CopyOf(job[c]).kind = "copy" /\ EmptyOf(job[c]).kind = "drop"
      /\ EmptyOf(job[c]).target = job[c].source /\ ClearOf(job[c]).target = job[c].target
  BY DEF ClearOf, CopyOf, EmptyOf
<1>2. ASSUME NextStage(c), step[c] \notin {"new", "done", "failed"}, UNCHANGED <<job, copied>>
      PROVE  ReadInv(c)'
  <2> SUFFICES ASSUME copied[c] # {}, plan'[c] # <<>>
               PROVE  job[c].source # job[c].target /\ Now(c)' = EmptyOf(job[c])
    BY <1>2 DEF ReadInv
  <2>1. /\ Now(c).kind = "drop" => Now(c) = ClearOf(job[c])
        /\ Now(c).kind = "copy" => Now(c)' = EmptyOf(job[c])
    BY <1>0, <1>2, NextStageFacts
  <2>2. /\ job[c].source # job[c].target
        /\ Now(c) = EmptyOf(job[c]) \/ Now(c) = CopyOf(job[c])
    BY <1>0, <1>2 DEF ReadInv
  <2> QED
    BY <1>1, <2>1, <2>2
<1>3. ASSUME UNCHANGED <<job, copied, plan>>,
             step[c] \in {"marking", "writing", "unmarking", "failed"} =>
               step'[c] \in {"marking", "writing", "unmarking", "failed"}
      PROVE  ReadInv(c)'
  BY <1>0, <1>3 DEF ReadInv, Now
<1>4. ASSUME NEW j \in Jobs[c], Call(c, j)
      PROVE  ReadInv(c)'
  BY <1>0, <1>4 DEF Call, StepInv, ReadInv
<1>5. CASE CheckNew(c)
  BY <1>3, <1>5 DEF CheckNew
<1>6. CASE Intern(c)
  BY <1>2, <1>3, <1>6 DEF Intern
<1>7. CASE Announce(c)
  BY <1>2, <1>7 DEF Announce
<1>8. CASE TakeTime(c)
  BY <1>3, <1>8 DEF TakeTime
<1>9. CASE Read(c)
  <2>1. /\ step[c] \in {"ready", "reading"} /\ UNCHANGED <<job, plan>>
        /\ step'[c] \in {"marking", "writing"}
        /\ Now(c).kind # "copy" => UNCHANGED copied
    BY <1>0, <1>9 DEF Read
  <2>2. CASE Now(c).kind = "copy"
    <3>1. job[c] \in Job /\ RestOf(job[c], plan[c]) /\ plan[c] # <<>>
      BY <1>0, <2>1 DEF StepInv, GraphTypeOK
    <3>2. Now(c) = CopyOf(job[c]) /\ job[c].source # job[c].target
      BY <2>2, <3>1, RestFacts DEF Now
    <3>3. Now(c)' = CopyOf(job[c]) /\ job'[c] = job[c]
      BY <2>1, <3>2 DEF Now
    <3> QED
      BY <2>1, <3>2, <3>3 DEF ReadInv
  <2>3. CASE Now(c).kind # "copy"
    BY <1>3, <2>1, <2>3
  <2> QED
    BY <2>2, <2>3
<1>10. CASE SetFlag(c)
  BY <1>0, <1>3, <1>10 DEF SetFlag
<1>11. CASE WriteChunk(c)
  <2>1. step[c] = "writing" /\ UNCHANGED <<job, copied>>
    BY <1>11 DEF WriteChunk
  <2>2. CASE NextStage(c)
    BY <1>2, <2>1, <2>2
  <2>3. CASE UNCHANGED plan /\ (step'[c] = "unmarking" \/ step' = step)
    BY <1>3, <2>1, <2>3
  <2> QED
    BY <1>0, <1>11, <2>2, <2>3 DEF WriteChunk
<1>12. CASE ClearFlag(c)
  BY <1>2, <1>12 DEF ClearFlag
<1>13. CASE Fail(c)
  BY <1>0, <1>3, <1>13 DEF Fail
<1> QED
  BY <1>4, <1>5, <1>6, <1>7, <1>8, <1>9, <1>10, <1>11, <1>12, <1>13 DEF JobStep

-----------------------------------------------------------------------------
(* What a step of its own does to what an operation has done *)

\* A step that writes no quads and logs no drop or copy.
LEMMA QuietKeepsWork ==
  ASSUME NEW c \in Caller, WorkInv(c), UNCHANGED <<stored, touched, now>>,
         copied'[c] = copied[c], job'[c] = job[c],
         \A g, t : DroppedAt(c, g, t)' => DroppedAt(c, g, t),
         \A g \in Graph : Logged(c, "copy", g)' => Logged(c, "copy", g)
  PROVE  DroppedInv(c)' /\ \A g \in Graph : Logged(c, "copy", g)' => \A i \in copied'[c] : Landed(c, g, i)'
<1>1. DroppedInv(c)'
  BY DEF WorkInv, DroppedInv, CopiedQuads, Untouched, Open, Top
<1>2. ASSUME NEW g \in Graph, Logged(c, "copy", g)', NEW i \in copied'[c]
      PROVE  Landed(c, g, i)'
  <2>1. Landed(c, g, i)
    BY <1>2 DEF WorkInv, CopyInv
  <2> QED
    BY <2>1 DEF Landed, Untouched
<1> QED
  BY <1>1, <1>2

LEMMA StillKeepsWork ==
  ASSUME NEW c \in Caller, WorkInv(c), UNCHANGED <<stored, touched, now>>,
         copied'[c] = copied[c], job'[c] = job[c], step'[c] # "writing",
         \A g, t : DroppedAt(c, g, t)' => DroppedAt(c, g, t),
         \A g \in Graph : Logged(c, "copy", g)' => Logged(c, "copy", g)
  PROVE  DropInv(c)' /\ CopyInv(c)' /\ DroppedInv(c)'
<1>1. DroppedInv(c)' /\ \A g \in Graph : Logged(c, "copy", g)' => \A i \in copied'[c] : Landed(c, g, i)'
  BY QuietKeepsWork
<1>2. DropInv(c)'
  BY DEF DropInv
<1> QED
  BY <1>1, <1>2 DEF CopyInv

\* A call begins anew: nothing is logged and nothing is read.
LEMMA CallKeepsWork ==
  ASSUME ControlInv, NEW c \in Caller, NEW j \in Jobs[c], Call(c, j)
  PROVE  WorkInv(c)'
<1>1. /\ LogInv(c) /\ c \in DOMAIN step /\ step[c] = "new" /\ UNCHANGED graphOps
  BY DEF ControlInv, GraphTypeOK, Call, storeVars
<1>2. step'[c] \in {"ready", "done"}
  BY <1>1 DEF Call
<1>3. \A g \in Graph : /\ ~Logged(c, "drop", g)' /\ ~Logged(c, "copy", g)'
                      /\ \A t : ~DroppedAt(c, g, t)'
  BY <1>1 DEF LogInv, Logged, DroppedAt
<1> QED
  BY <1>2, <1>3 DEF WorkInv, DropInv, CopyInv, DroppedInv, FlagInv

\* The steps in which an operation reads and writes no quads.
LEMMA QuietStepKeepsWork ==
  ASSUME ControlInv, NEW c \in Caller, WorkInv(c),
         \/ CheckNew(c) \/ Intern(c) \/ Announce(c) \/ TakeTime(c)
         \/ SetFlag(c) \/ ClearFlag(c) \/ Fail(c)
  PROVE  WorkInv(c)'
<1>0. /\ GraphTypeOK /\ StepInv(c) /\ c \in DOMAIN step /\ c \in DOMAIN plan
      /\ step[c] \notin {"new", "done", "failed"} => plan[c] # <<>>
  BY DEF ControlInv, GraphTypeOK, StepInv
<1>1. UNCHANGED graphOps => /\ \A k, g : Logged(c, k, g)' <=> Logged(c, k, g)
                            /\ \A g, t : DroppedAt(c, g, t)' <=> DroppedAt(c, g, t)
  BY DEF Logged, DroppedAt
<1>2. UNCHANGED plan => Now(c)' = Now(c)
  BY DEF Now
<1>3. CASE CheckNew(c)
  <2>1. /\ UNCHANGED <<stored, touched, now, copied, job, graphOps, plan>> /\ Now(c).kind = "create"
        /\ step'[c] \in {"interning", "new graph"}
    BY <1>0, <1>3 DEF CheckNew, storeVars
  <2>2. DropInv(c)' /\ CopyInv(c)' /\ DroppedInv(c)'
    BY <1>1, <2>1, StillKeepsWork
  <2>3. FlagInv(c)'
    BY <1>2, <2>1 DEF FlagInv
  <2> QED
    BY <2>2, <2>3 DEF WorkInv
<1>4. CASE Intern(c)
  <2>1. /\ UNCHANGED <<stored, touched, now, copied, job, graphOps>>
        /\ step[c] \in {"interning", "new graph"} /\ Now(c).kind = "create"
    BY <1>0, <1>4 DEF Intern, StepInv
  <2>2. step'[c] = "announcing" \/ step'[c] \in {"done", "ready"}
    BY <1>0, <1>4, <2>1 DEF Intern, NextStage
  <2>3. DropInv(c)' /\ CopyInv(c)' /\ DroppedInv(c)'
    BY <1>1, <2>1, <2>2, StillKeepsWork
  <2>4. FlagInv(c)'
    BY <2>2 DEF FlagInv
  <2> QED
    BY <2>3, <2>4 DEF WorkInv
<1>5. CASE Announce(c)
  <2>1. /\ UNCHANGED <<stored, touched, now, copied, job>>
        /\ step[c] = "announcing" /\ Now(c).kind = "create" /\ NextStage(c)
        /\ graphOps' = Append(graphOps, LogEntry(c))
    BY <1>0, <1>5 DEF Announce, StepInv
  <2>2. step'[c] \in {"done", "ready"}
    BY <1>0, <2>1 DEF NextStage
  <2>3. Now(c) \in Stage
    BY <1>0, <2>1, NowFacts
  <2>4. /\ \A d, k, g : Logged(d, k, g)' <=>
             Logged(d, k, g) \/ (d = c /\ Now(c).kind = k /\ Now(c).target = g)
        /\ \A d, g, t : DroppedAt(d, g, t)' <=>
             DroppedAt(d, g, t) \/ (d = c /\ Now(c).kind = "drop" /\ Now(c).target = g /\ t = readAt[c])
    BY <1>0, <2>1, <2>3, LogAppends
  <2>5. /\ \A g, t : DroppedAt(c, g, t)' => DroppedAt(c, g, t)
        /\ \A g \in Graph : Logged(c, "copy", g)' => Logged(c, "copy", g)
        /\ step'[c] # "writing"
    BY <2>1, <2>2, <2>4
  <2>6. DropInv(c)' /\ CopyInv(c)' /\ DroppedInv(c)'
    BY <2>1, <2>2, <2>5, StillKeepsWork
  <2>7. FlagInv(c)'
    BY <2>2 DEF FlagInv
  <2> QED
    BY <2>6, <2>7 DEF WorkInv
<1>6. CASE TakeTime(c)
  <2>1. UNCHANGED <<stored, touched, now, copied, job, graphOps>> /\ step'[c] = "reading"
    BY <1>0, <1>6 DEF TakeTime, storeVars
  <2>2. DropInv(c)' /\ CopyInv(c)' /\ DroppedInv(c)'
    BY <1>1, <2>1, StillKeepsWork
  <2>3. FlagInv(c)'
    BY <2>1 DEF FlagInv
  <2> QED
    BY <2>2, <2>3 DEF WorkInv
<1>7. CASE SetFlag(c)
  <2>1. /\ UNCHANGED <<stored, touched, now, copied, job, graphOps, plan, left, chunked>>
        /\ step[c] = "marking" /\ step'[c] = "writing" /\ flagged' = flagged \cup {Now(c).target}
    BY <1>0, <1>7 DEF SetFlag
  <2>2. Now(c).kind = "copy" /\ left[c] = copied[c] /\ chunked[c]
    BY <1>0, <2>1 DEF StepInv
  <2>3. DroppedInv(c)' /\ \A g \in Graph : Logged(c, "copy", g)' => \A i \in copied'[c] : Landed(c, g, i)'
    BY <1>1, <2>1, QuietKeepsWork
  <2>4. copied'[c] \ left'[c] = {}
    BY <2>1, <2>2
  <2>5. DropInv(c)' /\ CopyInv(c)'
    BY <1>2, <2>1, <2>2, <2>3, <2>4 DEF DropInv, CopyInv
  <2>6. FlagInv(c)'
    BY <1>2, <2>1, <2>2 DEF FlagInv, Marked
  <2> QED
    BY <2>3, <2>5, <2>6 DEF WorkInv
<1>8. CASE ClearFlag(c)
  <2>1. /\ UNCHANGED <<stored, touched, now, copied, job, graphOps>> /\ step[c] = "unmarking" /\ NextStage(c)
    BY <1>8 DEF ClearFlag
  <2>2. step'[c] \in {"done", "ready"}
    BY <1>0, <2>1 DEF NextStage
  <2>3. DropInv(c)' /\ CopyInv(c)' /\ DroppedInv(c)'
    BY <1>1, <2>1, <2>2, StillKeepsWork
  <2>4. FlagInv(c)'
    BY <2>2 DEF FlagInv
  <2> QED
    BY <2>3, <2>4 DEF WorkInv
<1>9. CASE Fail(c)
  <2>1. /\ UNCHANGED <<stored, touched, now, copied, job, graphOps, plan, left, chunked, flagged>>
        /\ step[c] \notin {"new", "done", "failed"} /\ step'[c] = "failed"
    BY <1>0, <1>9 DEF Fail, storeVars
  <2>2. DropInv(c)' /\ CopyInv(c)' /\ DroppedInv(c)'
    BY <1>1, <2>1, StillKeepsWork
  <2>3. Marked(c)' <=> Marked(c)
    BY <1>2, <2>1 DEF Marked, Logged
  <2>4. Now(c).kind = "copy" => left[c] = copied[c] \/ left[c] = {} \/ step[c] = "writing"
    BY <1>0, <2>1 DEF StepInv, GraphTypeOK
  <2>5. FlagInv(c)'
    BY <1>0, <1>2, <2>1, <2>3, <2>4 DEF WorkInv, FlagInv
  <2> QED
    BY <2>2, <2>5 DEF WorkInv
<1> QED
  BY <1>3, <1>4, <1>5, <1>6, <1>7, <1>8, <1>9

\* A drop reads all that its graph shows; a copy has read nothing before.
LEMMA ReadKeepsWork ==
  ASSUME ControlInv, NEW c \in Caller, WorkInv(c), Read(c)
  PROVE  WorkInv(c)'
<1>0. /\ GraphTypeOK /\ StoreInv /\ StepInv(c) /\ LogInv(c) /\ ReadInv(c)
      /\ c \in DOMAIN step /\ c \in DOMAIN left /\ c \in DOMAIN copied /\ c \in DOMAIN chunked
      /\ c \in DOMAIN readAt /\ closing[c] <= now
      /\ step[c] \notin {"new", "done", "failed"} => plan[c] # <<>>
      /\ ts \in Nat /\ now \in Nat /\ Chunk \in Nat
  BY GraphConstants DEF ControlInv, GraphTypeOK, StepInv
<1>1. PICK live : live = Live(Now(c).source, now)
  OBVIOUS
<1> DEFINE mark == Now(c).kind = "copy" /\ Cardinality(live) > Chunk /\ Now(c).target # Default
<1>2. step[c] = "reading" \/ (step[c] = "ready" /\ Now(c).kind = "copy")
  BY DEF Read
<1>3. /\ plan[c] # <<>> /\ (step[c] = "reading" => Now(c).kind = "drop")
      /\ RestOf(job[c], plan[c]) /\ job[c] \in Job
  BY <1>0, <1>2 DEF StepInv, GraphTypeOK
<1>4. /\ left'[c] = live /\ chunked'[c] = mark /\ readAt'[c] = now /\ closing' = closing
      /\ copied'[c] = IF Now(c).kind = "copy" THEN live ELSE copied[c]
      /\ step'[c] = IF mark THEN "marking" ELSE "writing"
      /\ UNCHANGED <<stored, ts, touched, graphOps, now, job, plan>>
  BY <1>0, <1>1 DEF Read, storeVars
<1>5. /\ \A g, t : DroppedAt(c, g, t)' <=> DroppedAt(c, g, t)
      /\ \A g \in Graph : Logged(c, "copy", g)' <=> Logged(c, "copy", g)
      /\ Now(c)' = Now(c)
  BY <1>4 DEF Logged, DroppedAt, Now
<1>6. /\ Now(c).source \in Graph /\ Now(c).target \in Graph
      /\ Now(c).kind = "copy" => Now(c) = CopyOf(job[c])
      /\ Now(c).kind = "drop" => Now(c).source = Now(c).target
  <2>1. Now(c).source \in Graph /\ Now(c).target \in Graph
    BY <1>0, <1>3, NowFacts
  <2> QED
    BY <1>3, <2>1, RestFacts DEF Now
<1>7. /\ Reads(live)
      /\ \A i \in live :
           \E v : /\ Top(stored[Now(c).source][i.quad], v, now) /\ now < v.end
                 /\ v.start = i.start /\ v.end = i.end
      /\ \A q \in Quad : Open(stored[Now(c).source][q], now) => \E i \in live : i.quad = q
  BY <1>0, <1>1, <1>6, StoredType, LiveFacts
<1>8. CASE Now(c).kind = "drop"
  <2>1. step'[c] = "writing" /\ copied'[c] = copied[c] /\ job'[c] = job[c]
    BY <1>4, <1>8
  <2>2. DroppedInv(c)' /\ \A g \in Graph : Logged(c, "copy", g)' => \A i \in copied'[c] : Landed(c, g, i)'
    BY <1>4, <1>5, <2>1, QuietKeepsWork
  <2>3. DropInv(c)'
    <3>1. PICK g : g = Now(c).target
      OBVIOUS
    <3>2. /\ Now(c)'.target = g /\ stored' = stored /\ left'[c] = live /\ readAt'[c] = now
          /\ \A q \in Quad : Open(stored[g][q], now) => \E i \in live : i.quad = q
          /\ \A i \in live : \E v \in stored[g][i.quad] :
               /\ Top(stored[g][i.quad], v, now) /\ now < v.end
               /\ v.start = i.start /\ v.end = i.end
      BY <1>4, <1>5, <1>6, <1>7, <1>8, <3>1 DEF Top
    <3>3. ASSUME NEW q \in Quad
          PROVE  ReadAsItWas(c, g, q)'
      BY <3>2 DEF ReadAsItWas, Open, Top
    <3>4. closing'[c] <= readAt'[c]
      BY <1>0, <1>4
    <3> QED
      BY <3>2, <3>3, <3>4 DEF DropInv, ReadAsItWas
  <2>4. CopyInv(c)' /\ FlagInv(c)'
    BY <1>5, <1>8, <2>2 DEF CopyInv, FlagInv
  <2> QED
    BY <2>2, <2>3, <2>4 DEF WorkInv
<1>9. CASE Now(c).kind = "copy"
  <2>0. Now(c) = CopyOf(job[c]) /\ step[c] = "ready" /\ Now(c) # EmptyOf(job[c])
    BY <1>2, <1>3, <1>6, <1>9 DEF EmptyOf
  <2>1. copied[c] = {} /\ \A g \in Graph : ~Logged(c, "copy", g)
    BY <1>0, <1>3, <2>0 DEF ReadInv, LogInv
  <2>2. DroppedInv(c)'
    <3>1. \A g \in Graph : \A t \in Nat : DroppedAt(c, g, t) =>
            t <= now /\ \A q \in Quad : ~(Untouched(c, g, q) /\ Open(stored[g][q], t))
      BY <2>1 DEF WorkInv, DroppedInv, CopiedQuads
    <3>2. \A g \in Graph : \A q \in Quad : \A t \in Nat :
            (Untouched(c, g, q) /\ Open(stored[g][q], t))' => Untouched(c, g, q) /\ Open(stored[g][q], t)
      BY <1>4 DEF Untouched, Open, Top
    <3> QED
      BY <1>4, <1>5, <3>1, <3>2 DEF DroppedInv
  <2>3. DropInv(c)' /\ CopyInv(c)'
    BY <1>4, <1>5, <1>9, <2>1 DEF DropInv, CopyInv
  <2>4. Cardinality(live) \in Nat
    BY <1>7, FS_CardinalityType DEF Reads
  <2>5. FlagInv(c)'
    <3>1. ~(Cardinality(live) > Chunk) => Cardinality(live) <= Chunk
      <4>1. Chunk \in Nat
        BY <1>0
      <4> QED
        BY <2>4, <4>1
    <3>2. /\ left'[c] = copied'[c] /\ left'[c] = live
          /\ mark => step'[c] = "marking"
          /\ ~mark => ~chunked'[c]
      BY <1>4, <1>9
    <3>3. ~mark /\ Now(c).target # Default => Cardinality(live) <= Chunk
      BY <1>9, <3>1
    <3>4. step'[c] # "failed"
      BY <1>4
    <3> HIDE DEF mark
    <3> QED
      BY <1>5, <3>2, <3>3, <3>4 DEF FlagInv
  <2> QED
    BY <2>2, <2>3, <2>5 DEF WorkInv
<1> QED
  BY <1>0, <1>2, <1>3, <1>8, <1>9

\* A chunk puts one version on each of its quads and leaves the others.
LEMMA ChunkFacts ==
  ASSUME ControlInv, NEW c \in Caller, WriteChunk(c)
  PROVE  /\ step[c] = "writing" /\ plan[c] # <<>> /\ Now(c).target \in Graph
         /\ UNCHANGED <<now, flagged, job, closing, readAt, chunked, copied>> /\ touched'[c] = touched[c]
         /\ \E chunk \in NextChunks(c) :
              /\ left'[c] = left[c] \ chunk
              /\ \A g \in Graph : \A q \in Quad : g # Now(c).target \/ (\A i \in chunk : i.quad # q) =>
                   stored'[g][q] = stored[g][q]
              /\ \A i \in chunk :
                   /\ Renewed(c, i) \in Version
                   /\ stored'[Now(c).target][i.quad] = stored[Now(c).target][i.quad] \cup {Renewed(c, i)}
         /\ \A k, g : Logged(c, k, g)' <=>
              Logged(c, k, g) \/ (left'[c] = {} /\ Now(c).kind = k /\ Now(c).target = g)
         /\ \A g, t : DroppedAt(c, g, t)' <=>
              \/ DroppedAt(c, g, t)
              \/ left'[c] = {} /\ Now(c).kind = "drop" /\ Now(c).target = g /\ t = readAt[c]
         /\ left'[c] # {} => UNCHANGED <<plan, step, graphOps>>
         /\ left'[c] = {} => step'[c] \in {"unmarking", "done", "ready"}
<1>0. /\ GraphTypeOK /\ StoreInv /\ StepInv(c) /\ c \in DOMAIN step /\ c \in DOMAIN left
      /\ stored \in [Graph -> [Quad -> SUBSET Version]] /\ ts \in Nat /\ now \in Nat
      /\ left[c] \in SUBSET Item /\ closing[c] \in Nat /\ Reads(left[c])
  BY StoredType DEF ControlInv, GraphTypeOK, StepInv
<1>1. step[c] = "writing" /\ plan[c] # <<>> /\ Now(c).kind \in {"drop", "copy"}
  BY <1>0 DEF WriteChunk, StepInv
<1>2. Now(c) \in Stage /\ Now(c).target \in Graph
  BY <1>0, <1>1, NowFacts
<1>3. PICK chunk \in NextChunks(c) :
        /\ stored' = Committed(Now(c).target, Written(c, chunk))
        /\ touched' = Touch(c, Now(c).target, chunk)
        /\ left' = [left EXCEPT ![c] = @ \ chunk]
  BY DEF WriteChunk
<1>4. PICK g : g = Now(c).target
  OBVIOUS
<1>5. chunk \in SUBSET left[c] /\ left'[c] = left[c] \ chunk /\ touched'[c] = touched[c]
  BY <1>0, <1>3 DEF NextChunks, Touch
<1>6. /\ Written(c, chunk) \in SUBSET Item
      /\ \A q \in Quad : (\A i \in chunk : i.quad # q) => Added(q, Written(c, chunk)) = {}
      /\ \A i \in chunk : Added(i.quad, Written(c, chunk)) = {Renewed(c, i)}
  BY <1>0, <1>5, WrittenFacts
<1>7. /\ stored' \in [Graph -> [Quad -> SUBSET Version]]
      /\ \A h \in Graph \ {g} : stored'[h] = stored[h]
      /\ \A q \in Quad : stored'[g][q] = stored[g][q] \cup Added(q, Written(c, chunk))
  BY <1>0, <1>2, <1>3, <1>4, <1>6, CommittedFacts
<1>8. \A h \in Graph : \A q \in Quad : h # g \/ (\A i \in chunk : i.quad # q) => stored'[h][q] = stored[h][q]
  BY <1>6, <1>7
<1>9. ASSUME NEW i \in chunk
      PROVE  Renewed(c, i) \in Version /\ stored'[g][i.quad] = stored[g][i.quad] \cup {Renewed(c, i)}
  <2>1. i \in Item
    BY <1>0, <1>5
  <2>2. Renewed(c, i) \in Version
    BY <1>0, <2>1 DEF Renewed, Version, Item, MaxOf
  <2>3. i.quad \in Quad
    BY <2>1 DEF Item
  <2> QED
    BY <1>6, <1>7, <2>2, <2>3
<1>10. left'[c] # {} => UNCHANGED <<plan, step, graphOps>>
  BY DEF WriteChunk
<1>11. left'[c] = {} =>
         /\ graphOps' = Append(graphOps, LogEntry(c))
         /\ step'[c] \in {"unmarking", "done", "ready"}
  BY <1>0 DEF WriteChunk, NextStage
<1>12. /\ \A k, h : Logged(c, k, h)' <=>
            Logged(c, k, h) \/ (left'[c] = {} /\ Now(c).kind = k /\ Now(c).target = h)
       /\ \A h, t : DroppedAt(c, h, t)' <=>
            \/ DroppedAt(c, h, t)
            \/ left'[c] = {} /\ Now(c).kind = "drop" /\ Now(c).target = h /\ t = readAt[c]
  <2>1. CASE left'[c] # {}
    BY <1>10, <2>1 DEF Logged, DroppedAt
  <2>2. CASE left'[c] = {}
    <3>1. /\ \A d, k, h : Logged(d, k, h)' <=>
               Logged(d, k, h) \/ (d = c /\ Now(c).kind = k /\ Now(c).target = h)
          /\ \A d, h, t : DroppedAt(d, h, t)' <=>
               DroppedAt(d, h, t) \/ (d = c /\ Now(c).kind = "drop" /\ Now(c).target = h /\ t = readAt[c])
      BY <1>0, <1>2, <1>11, <2>2, LogAppends
    <3> QED
      BY <2>2, <3>1
  <2> QED
    BY <2>1, <2>2
<1>13. UNCHANGED <<now, flagged, job, closing, readAt, chunked, copied>>
  BY DEF WriteChunk
<1>14. /\ \A h \in Graph : \A q \in Quad : h # Now(c).target \/ (\A i \in chunk : i.quad # q) =>
            stored'[h][q] = stored[h][q]
       /\ \A i \in chunk :
            /\ Renewed(c, i) \in Version
            /\ stored'[Now(c).target][i.quad] = stored[Now(c).target][i.quad] \cup {Renewed(c, i)}
  BY <1>4, <1>8, <1>9
<1> QED
  BY <1>1, <1>2, <1>5, <1>10, <1>11, <1>12, <1>13, <1>14

\* A drop closes what it has read, for good but for what others write.
LEMMA DropChunkKeepsWork ==
  ASSUME ControlInv, NEW c \in Caller, WorkInv(c), WriteChunk(c), Now(c).kind = "drop"
  PROVE  WorkInv(c)'
<1>0. /\ GraphTypeOK /\ StoreInv /\ StepInv(c) /\ LogInv(c)
      /\ stored \in [Graph -> [Quad -> SUBSET Version]] /\ ts \in Nat /\ now \in Nat /\ readAt[c] \in Nat
      /\ left[c] \in SUBSET Item /\ copied[c] \in SUBSET Item /\ closing[c] \in Nat
      /\ readAt[c] <= now /\ Reads(left[c])
  BY StoredType DEF ControlInv, GraphTypeOK, StepInv
<1>1. PICK g : g = Now(c).target
  OBVIOUS
<1>2. /\ step[c] = "writing" /\ plan[c] # <<>> /\ g \in Graph
      /\ UNCHANGED <<now, flagged, job, closing, readAt, chunked, copied>> /\ touched'[c] = touched[c]
      /\ \A k, h : Logged(c, k, h)' <=> Logged(c, k, h) \/ (left'[c] = {} /\ Now(c).kind = k /\ g = h)
      /\ \A h, t : DroppedAt(c, h, t)' <=> DroppedAt(c, h, t) \/ (left'[c] = {} /\ g = h /\ t = readAt[c])
      /\ left'[c] # {} => UNCHANGED <<plan, step, graphOps>>
      /\ left'[c] = {} => step'[c] \in {"unmarking", "done", "ready"}
  BY <1>1, ChunkFacts
<1>a. PICK chunk \in NextChunks(c) :
        /\ left'[c] = left[c] \ chunk
        /\ \A h \in Graph : \A q \in Quad : h # Now(c).target \/ (\A i \in chunk : i.quad # q) =>
             stored'[h][q] = stored[h][q]
        /\ \A i \in chunk :
             /\ Renewed(c, i) \in Version
             /\ stored'[Now(c).target][i.quad] = stored[Now(c).target][i.quad] \cup {Renewed(c, i)}
  BY ChunkFacts
<1>3. /\ left'[c] = left[c] \ chunk
      /\ \A h \in Graph : \A q \in Quad : h # g \/ (\A i \in chunk : i.quad # q) =>
           stored'[h][q] = stored[h][q]
      /\ \A i \in chunk :
           /\ Renewed(c, i) \in Version
           /\ stored'[g][i.quad] = stored[g][i.quad] \cup {Renewed(c, i)}
  BY <1>1, <1>a
<1>4. chunk \in SUBSET left[c]
  BY <1>a DEF NextChunks
<1>5. closing[c] <= readAt[c] /\ \A q \in Quad : Untouched(c, g, q) => ReadAsItWas(c, g, q)
  BY <1>1, <1>2 DEF WorkInv, DropInv
<1>6. ASSUME NEW i \in chunk, Untouched(c, g, i.quad)
      PROVE  ~Open(stored'[g][i.quad], readAt[c])
  <2>1. i \in Item /\ i.start \in Nat /\ i.quad \in Quad
    BY <1>0, <1>4 DEF Item
  <2>2. PICK v \in stored[g][i.quad] : Top(stored[g][i.quad], v, readAt[c]) /\ v.start = i.start
    BY <1>4, <1>5, <1>6, <2>1 DEF ReadAsItWas
  <2>3. /\ stored[g][i.quad] \in SUBSET Version
        /\ \A w \in stored[g][i.quad] : w.tt <= ts /\ w \in Version
    BY <1>0, <1>2, <2>1 DEF StoreInv
  <2>4. Renewed(c, i).start = i.start /\ Renewed(c, i).tt = ts + 1 /\ i.start <= readAt[c]
    BY <2>2 DEF Renewed, Top
  <2>5. Renewed(c, i).end = MaxOf(closing[c], i.start)
    BY DEF Renewed
  <2>6. Renewed(c, i).end <= readAt[c] /\ Renewed(c, i).end \in Nat
    BY <1>0, <1>5, <2>1, <2>4, <2>5 DEF MaxOf
  <2>7. \A w \in stored[g][i.quad] : w.start <= readAt[c] =>
          w.start <= Renewed(c, i).start /\ w.tt < Renewed(c, i).tt
    BY <1>0, <2>1, <2>2, <2>3, <2>4 DEF Top, Beats, Version
  <2>8. \A w : Top(stored[g][i.quad] \cup {Renewed(c, i)}, w, readAt[c]) <=> w = Renewed(c, i)
    BY <1>0, <1>3, <2>3, <2>4, <2>7, NewestIsTop
  <2>9. stored'[g][i.quad] = stored[g][i.quad] \cup {Renewed(c, i)}
    BY <1>3
  <2> SUFFICES ASSUME NEW w \in stored'[g][i.quad], Top(stored'[g][i.quad], w, readAt[c]), readAt[c] < w.end
               PROVE  FALSE
    BY DEF Open
  <2>10. w = Renewed(c, i)
    BY <2>8, <2>9
  <2> QED
    BY <1>0, <2>6, <2>10
<1>7. \A i, k \in left[c] : i.quad = k.quad => i = k
  BY <1>0 DEF Reads
<1>8. ASSUME NEW q \in Quad, Untouched(c, g, q)
      PROVE  ReadAsItWas(c, g, q)'
  <2>1. CASE \E i \in chunk : i.quad = q
    <3>1. PICK i \in chunk : i.quad = q
      BY <2>1
    <3>2. ~Open(stored'[g][q], readAt[c])
      BY <1>6, <1>8, <3>1
    <3>3. \A k \in left'[c] : k.quad # q
      BY <1>3, <1>4, <1>7, <3>1
    <3> QED
      BY <1>2, <3>2, <3>3 DEF ReadAsItWas, Open, Top
  <2>2. CASE \A i \in chunk : i.quad # q
    <3>1. stored'[g][q] = stored[g][q]
      BY <1>2, <1>3, <2>2
    <3>2. \A i \in left[c] : i.quad = q => i \in left'[c]
      BY <1>3, <2>2
    <3>3. \A i \in left'[c] : i \in left[c]
      BY <1>3
    <3>4. ReadAsItWas(c, g, q)
      BY <1>5, <1>8
    <3> QED
      BY <1>2, <3>1, <3>2, <3>3, <3>4 DEF ReadAsItWas, Open, Top
  <2> QED
    BY <2>1, <2>2
<1>9. \A h \in Graph : Logged(c, "drop", h) \/ Logged(c, "copy", h) => h = job[c].target /\ h # g
  <2>1. EmptyOf(job[c]).target = job[c].source /\ CopyOf(job[c]).kind = "copy"
    BY DEF EmptyOf, CopyOf
  <2>2. \A h \in Graph : Logged(c, "drop", h) =>
          h = job[c].target /\ job[c].source # job[c].target /\ Now(c) = EmptyOf(job[c])
    BY <1>0, <1>2, <2>1 DEF LogInv
  <2>3. \A h \in Graph : Logged(c, "copy", h) =>
          h = job[c].target /\ job[c].source # job[c].target /\ Now(c) = EmptyOf(job[c])
    BY <1>0, <1>2, <2>1 DEF LogInv
  <2> QED
    BY <1>1, <2>1, <2>2, <2>3
<1>10. \A h \in Graph \ {g} : \A q \in Quad : stored'[h][q] = stored[h][q]
  BY <1>3
<1>11. step'[c] = "writing" => Now(c)' = Now(c) /\ Now(c)'.target = g
  BY <1>1, <1>2 DEF Now
<1>12. DropInv(c)'
  <2>1. \A q \in Quad : Untouched(c, g, q)' <=> Untouched(c, g, q)
    BY <1>2 DEF Untouched
  <2>2. \A q \in Quad : Untouched(c, g, q)' => ReadAsItWas(c, g, q)'
    BY <1>8, <2>1
  <2> QED
    BY <1>2, <1>5, <1>11, <2>2 DEF DropInv, Untouched, ReadAsItWas
<1>13. DroppedInv(c)'
  <2> SUFFICES ASSUME NEW h \in Graph, NEW t \in Nat, DroppedAt(c, h, t)'
               PROVE  /\ t <= now'
                      /\ \A q \in Quad : Untouched(c, h, q)' /\ Open(stored'[h][q], t) =>
                           h = job'[c].target /\ q \in CopiedQuads(c)'
    BY DEF DroppedInv, Open, Top
  <2>1. CASE DroppedAt(c, h, t)
    <3>1. /\ t <= now
          /\ \A q \in Quad : Untouched(c, h, q) /\ Open(stored[h][q], t) =>
               h = job[c].target /\ q \in CopiedQuads(c)
      BY <2>1 DEF WorkInv, DroppedInv
    <3>2. h # g
      BY <1>9, <2>1 DEF DroppedAt, Logged
    <3>3. \A q \in Quad : stored'[h][q] = stored[h][q]
      BY <1>10, <3>2
    <3> QED
      BY <1>2, <3>1, <3>3 DEF Untouched, CopiedQuads
  <2>2. CASE left'[c] = {} /\ g = h /\ t = readAt[c]
    <3>1. \A q \in Quad : Untouched(c, g, q)' => ~Open(stored'[g][q], readAt[c])
      <4> SUFFICES ASSUME NEW q \in Quad, Untouched(c, g, q)'
                   PROVE  ~Open(stored'[g][q], readAt[c])
        OBVIOUS
      <4>1. Untouched(c, g, q)
        BY <1>2 DEF Untouched
      <4>2. ReadAsItWas(c, g, q)'
        BY <1>8, <4>1
      <4> QED
        BY <1>2, <2>2, <4>2 DEF ReadAsItWas, Open, Top
    <3> QED
      BY <1>0, <1>2, <2>2, <3>1
  <2> QED
    BY <1>2, <2>1, <2>2
<1>14. CopyInv(c)'
  <2>1. step'[c] = "writing" => Now(c)'.kind = "drop"
    BY <1>11
  <2>2. ASSUME NEW h \in Graph, Logged(c, "copy", h)', NEW i \in copied'[c]
        PROVE  Landed(c, h, i)'
    <3>1. Logged(c, "copy", h)
      BY <1>2, <2>2
    <3>2. h # g /\ i \in copied[c] /\ i.quad \in Quad
      <4>1. i \in copied[c] /\ i \in Item
        BY <1>0, <1>2, <2>2
      <4> QED
        BY <1>9, <3>1, <4>1 DEF Item
    <3>3. Landed(c, h, i) /\ stored'[h][i.quad] = stored[h][i.quad]
      BY <1>10, <3>1, <3>2 DEF WorkInv, CopyInv
    <3> QED
      BY <1>2, <3>3 DEF Landed, Untouched
  <2> QED
    BY <2>1, <2>2 DEF CopyInv
<1>15. FlagInv(c)'
  BY <1>2, <1>11 DEF FlagInv
<1> QED
  BY <1>12, <1>13, <1>14, <1>15 DEF WorkInv

\* A copy writes what it has read as it read it, and marks its target before
\* it does so in several commits.
LEMMA CopyChunkKeepsWork ==
  ASSUME ControlInv, NEW c \in Caller, WorkInv(c), WriteChunk(c), Now(c).kind = "copy"
  PROVE  WorkInv(c)'
<1>0. /\ GraphTypeOK /\ StoreInv /\ StepInv(c) /\ LogInv(c)
      /\ stored \in [Graph -> [Quad -> SUBSET Version]] /\ ts \in Nat
      /\ left[c] \in SUBSET Item /\ copied[c] \in SUBSET Item
      /\ Reads(left[c]) /\ Reads(copied[c])
  BY StoredType DEF ControlInv, GraphTypeOK, StepInv
<1>1. PICK g : g = Now(c).target
  OBVIOUS
<1>2. /\ step[c] = "writing" /\ plan[c] # <<>> /\ g \in Graph
      /\ UNCHANGED <<now, flagged, job, closing, readAt, chunked, copied>> /\ touched'[c] = touched[c]
      /\ \A k, h : Logged(c, k, h)' <=> Logged(c, k, h) \/ (left'[c] = {} /\ Now(c).kind = k /\ g = h)
      /\ \A h, t : DroppedAt(c, h, t)' <=> DroppedAt(c, h, t)
      /\ left'[c] # {} => UNCHANGED <<plan, step, graphOps>>
      /\ left'[c] = {} => step'[c] \in {"unmarking", "done", "ready"}
  BY <1>1, ChunkFacts
<1>a. PICK chunk \in NextChunks(c) :
        /\ left'[c] = left[c] \ chunk
        /\ \A h \in Graph : \A q \in Quad : h # Now(c).target \/ (\A i \in chunk : i.quad # q) =>
             stored'[h][q] = stored[h][q]
        /\ \A i \in chunk :
             /\ Renewed(c, i) \in Version
             /\ stored'[Now(c).target][i.quad] = stored[Now(c).target][i.quad] \cup {Renewed(c, i)}
  BY ChunkFacts
<1>3. /\ left'[c] = left[c] \ chunk
      /\ \A h \in Graph : \A q \in Quad : h # g \/ (\A i \in chunk : i.quad # q) =>
           stored'[h][q] = stored[h][q]
      /\ \A i \in chunk :
           /\ Renewed(c, i) \in Version
           /\ stored'[g][i.quad] = stored[g][i.quad] \cup {Renewed(c, i)}
  BY <1>1, <1>a
<1>4. chunk \in SUBSET left[c] /\ left[c] \subseteq copied[c]
  BY <1>0, <1>2, <1>a DEF NextChunks, StepInv
<1>5. /\ g = job[c].target
      /\ \A h \in Graph : ~Logged(c, "copy", h)
      /\ \A h \in Graph : Logged(c, "drop", h) => h = g
  <2>1. job[c] \in Job /\ RestOf(job[c], plan[c])
    BY <1>0 DEF GraphTypeOK, StepInv
  <2>2. Now(c) = CopyOf(job[c]) /\ Now(c) # EmptyOf(job[c])
    BY <1>2, <2>1, RestFacts DEF Now, EmptyOf
  <2>3. g = job[c].target
    BY <1>1, <2>2 DEF CopyOf
  <2>4. \A h \in Graph : ~Logged(c, "copy", h)
    BY <1>0, <1>2, <2>2 DEF LogInv
  <2>5. \A h \in Graph : Logged(c, "drop", h) => h = g
    BY <1>0, <1>2, <2>3 DEF LogInv
  <2> QED
    BY <2>3, <2>4, <2>5
<1>6. \A i, k \in copied[c] : i.quad = k.quad => i = k
  BY <1>0 DEF Reads
<1>7. ASSUME NEW i \in chunk
      PROVE  Landed(c, g, i)'
  <2>1. i \in Item /\ i.start \in Nat /\ i.quad \in Quad
    BY <1>0, <1>4 DEF Reads, Item
  <2>2. /\ Renewed(c, i).start = i.start /\ Renewed(c, i).tt = ts + 1 /\ Renewed(c, i).end = i.end
    BY DEF Renewed
  <2>3. /\ stored[g][i.quad] \in SUBSET Version
        /\ \A w \in stored[g][i.quad] : w.tt <= ts /\ w \in Version
    BY <1>0, <1>2, <2>1 DEF StoreInv
  <2>4. stored'[g][i.quad] = stored[g][i.quad] \cup {Renewed(c, i)} /\ Renewed(c, i) \in Version
    BY <1>3
  <2>5. \E v \in stored'[g][i.quad] : v.start = i.start /\ v.end = i.end
    BY <2>1, <2>2, <2>4
  <2>6. CASE \E w \in stored[g][i.quad] : w.start > i.start
    BY <2>4, <2>5, <2>6 DEF Landed
  <2>7. CASE \A w \in stored[g][i.quad] : ~(w.start > i.start)
    <3>1. \A w \in stored[g][i.quad] : w.start <= Renewed(c, i).start /\ w.tt < Renewed(c, i).tt
      BY <1>0, <2>1, <2>2, <2>3, <2>7 DEF Version
    <3>2. \A w : Top(stored[g][i.quad] \cup {Renewed(c, i)}, w, i.start) <=> w = Renewed(c, i)
      <4>1. PICK n \in Version : n = Renewed(c, i)
        BY <2>4
      <4>2. n.start <= i.start /\ \A w \in stored[g][i.quad] : w.start <= n.start /\ w.tt < n.tt
        BY <2>1, <2>2, <3>1, <4>1
      <4>3. \A w : Top(stored[g][i.quad] \cup {n}, w, i.start) <=> w = n
        BY <2>1, <2>3, <4>2, NewestIsTop
      <4> QED
        BY <4>1, <4>3
    <3>3. \E v \in stored'[g][i.quad] :
            Top(stored'[g][i.quad], v, i.start) /\ v.start = i.start /\ v.end = i.end
      BY <2>2, <2>4, <3>2
    <3> QED
      BY <2>5, <3>3 DEF Landed, Top
  <2> QED
    BY <2>6, <2>7
<1>8. ASSUME NEW i \in copied[c] \ left'[c]
      PROVE  Landed(c, g, i)'
  <2>1. CASE i \in chunk
    BY <1>7, <2>1
  <2>2. CASE i \notin chunk
    <3>1. i \notin left[c] /\ i.quad \in Quad
      BY <1>0, <1>3, <1>8, <2>2 DEF Item
    <3>2. \A k \in chunk : k.quad # i.quad
      BY <1>4, <1>6, <1>8, <2>2
    <3>3. stored'[g][i.quad] = stored[g][i.quad]
      BY <1>2, <1>3, <3>1, <3>2
    <3>4. Landed(c, g, i)
      BY <1>1, <1>2, <1>8, <3>1 DEF WorkInv, CopyInv
    <3> QED
      BY <1>2, <3>3, <3>4 DEF Landed, Untouched
  <2> QED
    BY <2>1, <2>2
<1>9. step'[c] = "writing" => Now(c)' = Now(c) /\ Now(c)'.target = g
  BY <1>1, <1>2 DEF Now
<1>10. CopyInv(c)'
  <2>1. ASSUME step'[c] = "writing", NEW i \in copied'[c] \ left'[c]
        PROVE  Landed(c, Now(c).target, i)'
    <3>1. Landed(c, g, i)' /\ Now(c)'.target = g
      BY <1>2, <1>8, <1>9, <2>1
    <3> QED
      BY <3>1 DEF Landed, Untouched
  <2>2. ASSUME NEW h \in Graph, Logged(c, "copy", h)', NEW i \in copied'[c]
        PROVE  Landed(c, h, i)'
    <3>1. left'[c] = {} /\ h = g
      BY <1>2, <1>5, <2>2
    <3> QED
      BY <1>2, <1>8, <2>2, <3>1
  <2> QED
    BY <2>1, <2>2 DEF CopyInv
<1>11. DropInv(c)'
  BY <1>9 DEF DropInv
<1>12. DroppedInv(c)'
  <2> SUFFICES ASSUME NEW h \in Graph, NEW t \in Nat, DroppedAt(c, h, t)'
               PROVE  /\ t <= now'
                      /\ \A q \in Quad : Untouched(c, h, q)' /\ Open(stored'[h][q], t) =>
                           h = job'[c].target /\ q \in CopiedQuads(c)'
    BY DEF DroppedInv, Open, Top
  <2>1. DroppedAt(c, h, t) /\ h = g /\ h = job[c].target
    BY <1>2, <1>5 DEF DroppedAt, Logged
  <2>2. /\ t <= now
        /\ \A q \in Quad : Untouched(c, h, q) /\ Open(stored[h][q], t) => q \in CopiedQuads(c)
    BY <2>1 DEF WorkInv, DroppedInv
  <2> SUFFICES ASSUME NEW q \in Quad, Untouched(c, h, q)', Open(stored'[h][q], t)
               PROVE  q \in CopiedQuads(c)'
    BY <1>2, <2>1, <2>2
  <2>3. CASE \E i \in chunk : i.quad = q
    BY <1>2, <1>4, <2>3 DEF CopiedQuads
  <2>4. CASE \A i \in chunk : i.quad # q
    <3>1. Open(stored[h][q], t) /\ Untouched(c, h, q)
      BY <1>2, <1>3, <2>4 DEF Untouched
    <3> QED
      BY <1>2, <2>2, <3>1 DEF CopiedQuads
  <2> QED
    BY <2>3, <2>4
<1>13. FlagInv(c)'
  <2> SUFFICES ASSUME step'[c] \in {"writing", "failed"}, Now(c)'.target # Default
               PROVE  chunked[c] /\ Marked(c)'
    BY <1>2 DEF FlagInv
  <2>1. left'[c] # {} /\ UNCHANGED <<plan, step, graphOps>> /\ step'[c] = "writing"
    BY <1>2
  <2>2. Now(c).target # Default
    BY <1>9, <2>1
  <2>3. ~chunked[c] => left[c] = copied[c] /\ Cardinality(left[c]) <= Chunk
    BY <1>2, <2>2 DEF WorkInv, FlagInv
  <2>4. CASE chunked[c]
    <3>1. Marked(c)
      BY <1>2, <2>2, <2>4 DEF WorkInv, FlagInv
    <3> QED
      BY <1>2, <1>9, <2>1, <2>4, <3>1 DEF Marked, Logged
  <2>5. CASE ~chunked[c]
    <3>1. Cardinality(left[c]) \in Nat /\ IsFiniteSet(left[c]) /\ Cardinality(left[c]) <= Chunk
      BY <1>0, <2>3, <2>5, FS_CardinalityType DEF Reads
    <3>2. Cardinality(chunk) = IF Cardinality(left[c]) < Chunk THEN Cardinality(left[c]) ELSE Chunk
      BY DEF NextChunks
    <3>3. Chunk \in Nat
      BY GraphConstants
    <3>4. Cardinality(chunk) = Cardinality(left[c])
      BY <3>1, <3>2, <3>3
    <3>5. chunk = left[c]
      BY <1>4, <3>1, <3>4, FS_Subset
    <3> QED
      BY <1>3, <2>1, <3>5
  <2> QED
    BY <2>4, <2>5
<1> QED
  BY <1>10, <1>11, <1>12, <1>13 DEF WorkInv

-----------------------------------------------------------------------------
(* New graphs *)

\* The log only grows.
LEMMA LogGrows ==
  ASSUME ControlInv, NEW c \in Caller, JobStep(c) \/ \E j \in Jobs[c] : Call(c, j)
  PROVE  \A k, g : Logged(c, k, g) => Logged(c, k, g)'
<1>1. GraphTypeOK /\ StepInv(c) /\ (step[c] \notin {"new", "done", "failed"} => plan[c] # <<>>)
  BY DEF ControlInv, StepInv
<1>2. \/ UNCHANGED graphOps
      \/ /\ step[c] \notin {"new", "done", "failed"}
         /\ graphOps' = Append(graphOps, LogEntry(c))
  BY DEF JobStep, CheckNew, Intern, Announce, TakeTime, Read, SetFlag, WriteChunk, ClearFlag, Fail,
         Call, storeVars
<1>3. CASE UNCHANGED graphOps
  BY <1>3 DEF Logged
<1>4. CASE /\ step[c] \notin {"new", "done", "failed"}
           /\ graphOps' = Append(graphOps, LogEntry(c))
  <2>1. Now(c) \in Stage
    BY <1>1, <1>4, NowFacts
  <2> QED
    BY <1>1, <1>4, <2>1, LogAppends
<1> QED
  BY <1>2, <1>3, <1>4

\* Only create_graph gives out ids, and announces those that were new.
LEMMA AnnouncedStep ==
  ASSUME ControlInv, GraphsAreAnnounced, [GraphNext]_graphVars
  PROVE  GraphsAreAnnounced'
<1> DEFINE Covers(c, g) == \/ Logged(c, "create", g)
                           \/ plan[c] # <<>> /\ Now(c).target = g /\ step[c] \in {"announcing", "failed"}
<1>1. ASSUME NEW c \in Caller, NEW g, Covers(c, g), Frame(c)
      PROVE  Covers(c, g)'
  <2>1. Now(c)' = Now(c)
    BY <1>1 DEF Now, Frame
  <2> QED
    BY <1>1, <2>1 DEF Frame
<1>2. CASE Tick \/ (\E w \in Writers : Write(w[1], w[2])) \/ UNCHANGED graphVars
  <2>1. interned' = interned
    BY <1>2 DEF Tick, Write, graphVars, storeVars
  <2>2. \A c \in Caller : Frame(c)
    BY <1>2, ClientFrame
  <2>3. ASSUME NEW g \in interned' \ Known
        PROVE  \E c \in Caller : Covers(c, g)'
    <3>1. PICK c \in Caller : Covers(c, g)
      BY <2>1, <2>3 DEF GraphsAreAnnounced
    <3> HIDE DEF Covers
    <3> QED
      BY <1>1, <2>2, <3>1
  <2> QED
    BY <2>3 DEF GraphsAreAnnounced
<1>3. ASSUME NEW c \in Caller, JobStep(c) \/ \E j \in Jobs[c] : Call(c, j)
      PROVE  GraphsAreAnnounced'
  <2>0. /\ GraphTypeOK /\ StepInv(c) /\ c \in DOMAIN step
        /\ step[c] \notin {"new", "done", "failed"} => plan[c] # <<>>
    BY DEF ControlInv, GraphTypeOK, StepInv
  <2>1. \A d \in Caller \ {c} : Frame(d)
    BY <1>3, OthersFrame
  <2>2. ASSUME NEW g, Covers(c, g)
        PROVE  Covers(c, g)'
    <3>1. CASE Logged(c, "create", g)
      BY <1>3, <3>1, LogGrows
    <3>2. CASE plan[c] # <<>> /\ Now(c).target = g /\ step[c] \in {"announcing", "failed"}
      <4>1. step[c] = "announcing" /\ (Announce(c) \/ Fail(c))
        <5>1. ~\E j \in Jobs[c] : Call(c, j)
          BY <3>2 DEF Call
        <5>2. ~CheckNew(c) /\ ~Intern(c) /\ ~TakeTime(c) /\ ~Read(c)
          BY <3>2 DEF CheckNew, Intern, TakeTime, Read
        <5>3. ~SetFlag(c) /\ ~WriteChunk(c) /\ ~ClearFlag(c)
          BY <3>2 DEF SetFlag, WriteChunk, ClearFlag
        <5>4. Announce(c) \/ Fail(c)
          BY <1>3, <5>1, <5>2, <5>3 DEF JobStep
        <5> QED
          BY <3>2, <5>4 DEF Announce, Fail
      <4>2. CASE Announce(c)
        <5>1. Now(c) \in Stage /\ Now(c).kind = "create"
          BY <2>0, <3>2, <4>1, NowFacts DEF StepInv
        <5>2. \A d, k, h : Logged(d, k, h)' <=> Logged(d, k, h) \/ (d = c /\ Now(c).kind = k /\ Now(c).target = h)
          BY <2>0, <4>2, <5>1, LogAppends DEF Announce
        <5> QED
          BY <3>2, <5>1, <5>2
      <4>3. CASE Fail(c)
        BY <2>0, <3>2, <4>3 DEF Fail, Now
      <4> QED
        BY <4>1, <4>2, <4>3
    <3> QED
      BY <2>2, <3>1, <3>2
  <2>3. ASSUME NEW g \in interned', g \notin interned
        PROVE  Covers(c, g)'
    <3>1. Intern(c)
      BY <1>3, <2>3 DEF JobStep, CheckNew, Announce, TakeTime, Read, SetFlag, WriteChunk, ClearFlag, Fail,
                        Call, storeVars
    <3>2. g = Now(c).target /\ step[c] = "new graph"
      BY <2>0, <2>3, <3>1 DEF Intern, StepInv
    <3> QED
      BY <2>0, <3>1, <3>2 DEF Intern, Now
  <2>4. ASSUME NEW g \in interned' \ Known
        PROVE  \E d \in Caller : Covers(d, g)'
    <3>1. CASE g \in interned
      <4>1. PICK d \in Caller : Covers(d, g)
        BY <2>4, <3>1 DEF GraphsAreAnnounced
      <4> HIDE DEF Covers
      <4>2. CASE d = c
        BY <2>2, <4>1, <4>2
      <4>3. CASE d # c
        BY <1>1, <2>1, <4>1, <4>3
      <4> QED
        BY <4>2, <4>3
    <3>2. CASE g \notin interned
      <4> HIDE DEF Covers
      <4> QED
        BY <2>3, <2>4, <3>2
    <3> QED
      BY <3>1, <3>2
  <2> QED
    BY <2>4 DEF GraphsAreAnnounced
<1> QED
  BY <1>2, <1>3 DEF GraphNext

-----------------------------------------------------------------------------
(* The invariant holds *)

LEMMA GraphInvInit ==
  ASSUME GraphInit
  PROVE  GraphInv
<1>1. PICK k \in Contents : stored = k.graphs /\ ts = k.ts
  BY DEF GraphInit
<1>2. k.graphs \in [Graph -> [Quad -> SUBSET Version]] /\ k.ts \in Nat
  BY GraphConstants
<1>3. ASSUME NEW g \in Graph, NEW q \in Quad, NEW v \in stored[g][q]
      PROVE  v \in InOrder
  <2>1. v \in Version
    BY <1>1, <1>2
  <2>2. FromClient(v)
    BY <1>1, <1>3 DEF FromClient
  <2> QED
    BY <2>1, <2>2 DEF InOrder
<1>4. stored \in [Graph -> [Quad -> SUBSET InOrder]]
  BY <1>1, <1>2, <1>3
<1>5. NoJob \in Job /\ <<>> \in Seq(Stage) /\ <<>> \in Seq([by : Caller, op : Stage, at : Nat])
  BY GraphConstants, EmptySeq DEF NoJob, Job, JobKind
<1>6. GraphTypeOK
  BY <1>1, <1>2, <1>4, <1>5, GraphConstants DEF GraphInit, GraphTypeOK
<1>7. StoreInv
  BY <1>1, GraphContents, GraphConstants DEF GraphInit, StoreInv
<1>8. ASSUME NEW c \in Caller
      PROVE  StepInv(c) /\ LogInv(c) /\ ReadInv(c) /\ WorkInv(c)
  <2>1. /\ step[c] = "new" /\ plan[c] = <<>> /\ left[c] = {} /\ copied[c] = {} /\ closing[c] = 0 /\ readAt[c] = 0
        /\ graphOps = <<>> /\ now \in Nat
    BY <1>6, <1>8 DEF GraphInit, GraphTypeOK
  <2>2. Reads({}) /\ closing[c] <= now /\ readAt[c] <= now
    BY <2>1, FS_EmptySet DEF Reads
  <2>3. \A kind, g : ~Logged(c, kind, g) /\ \A t : ~DroppedAt(c, g, t)
    BY <2>1 DEF Logged, DroppedAt
  <2>4. StepInv(c)
    BY <2>1, <2>2 DEF StepInv, RestOf
  <2>5. LogInv(c) /\ ReadInv(c)
    BY <2>1, <2>3 DEF LogInv, ReadInv
  <2>6. WorkInv(c)
    BY <2>1, <2>3 DEF WorkInv, DropInv, CopyInv, DroppedInv, FlagInv
  <2> QED
    BY <2>4, <2>5, <2>6
<1>9. GraphsAreAnnounced
  BY DEF GraphInit, GraphsAreAnnounced
<1> QED
  BY <1>6, <1>7, <1>8, <1>9 DEF GraphInv, ControlInv

\* A step of an operation keeps what it has done itself.
LEMMA JobStepKeepsWork ==
  ASSUME ControlInv, NEW c \in Caller, WorkInv(c), JobStep(c)
  PROVE  WorkInv(c)'
<1>1. CASE WriteChunk(c)
  <2>1. Now(c).kind \in {"drop", "copy"}
    BY <1>1 DEF ControlInv, StepInv, WriteChunk
  <2> QED
    BY <1>1, <2>1, DropChunkKeepsWork, CopyChunkKeepsWork
<1> QED
  BY <1>1, ReadKeepsWork, QuietStepKeepsWork DEF JobStep

LEMMA GraphInvNext ==
  ASSUME GraphInv, [GraphNext]_graphVars
  PROVE  GraphInv'
<1>1. /\ ControlInv /\ GraphsAreAnnounced /\ \A c \in Caller : WorkInv(c)
  BY DEF GraphInv
<1>2. /\ GraphTypeOK' /\ StoreInv'
      /\ \A h \in Graph : \A q \in Quad : stored[h][q] \subseteq stored'[h][q]
  BY <1>1, StepTypes
<1>3. ASSUME NEW d \in Caller, Frame(d)
      PROVE  StepInv(d)' /\ LogInv(d)' /\ ReadInv(d)' /\ WorkInv(d)'
  BY <1>1, <1>2, <1>3, FrameKeepsControl, FrameKeepsWork
<1>4. ASSUME NEW d \in Caller
      PROVE  StepInv(d)' /\ LogInv(d)' /\ ReadInv(d)' /\ WorkInv(d)'
  <2>1. CASE Tick \/ (\E w \in Writers : Write(w[1], w[2])) \/ UNCHANGED graphVars
    BY <1>1, <1>3, <2>1, ClientFrame
  <2>2. ASSUME NEW c \in Caller, JobStep(c) \/ \E j \in Jobs[c] : Call(c, j)
        PROVE  StepInv(d)' /\ LogInv(d)' /\ ReadInv(d)' /\ WorkInv(d)'
    <3>1. CASE d # c
      BY <1>1, <1>3, <2>2, <3>1, OthersFrame
    <3>2. CASE d = c
      <4>1. ReadInv(c)'
        BY <1>1, <2>2, OperationKeepsRead
      <4>2. StepInv(c)' /\ LogInv(c)' /\ WorkInv(c)'
        BY <1>1, <2>2, CallKeepsControl, CallKeepsWork, JobStepKeepsControl, JobStepKeepsWork
      <4> QED
        BY <3>2, <4>1, <4>2
    <3> QED
      BY <3>1, <3>2
  <2> QED
    BY <2>1, <2>2 DEF GraphNext
<1>5. GraphsAreAnnounced'
  BY <1>1, AnnouncedStep
<1> QED
  BY <1>2, <1>4, <1>5 DEF GraphInv, ControlInv

\* What each part of the invariant says of a read at the latest commit.
LEMMA GraphInvImplies ==
  ASSUME GraphInv
  PROVE  LoggedIsDone /\ CopiesShow /\ PartialIsFlagged
<1>1. /\ GraphTypeOK /\ StoreInv /\ ts \in Nat /\ now \in Nat
      /\ \A c \in Caller : WorkInv(c) /\ copied[c] \in SUBSET Item
  BY DEF GraphInv, ControlInv, GraphTypeOK
<1>2. \A g \in Graph : \A q \in Quad :
        /\ stored[g][q] \in SUBSET Version
        /\ \A v : Governs(v, stored[g][q], ts, now) <=> Top(stored[g][q], v, now)
        /\ IsLive(g, q) <=> Open(stored[g][q], now)
  <2> SUFFICES ASSUME NEW g \in Graph, NEW q \in Quad
               PROVE  /\ stored[g][q] \in SUBSET Version
                      /\ \A v : Governs(v, stored[g][q], ts, now) <=> Top(stored[g][q], v, now)
                      /\ IsLive(g, q) <=> Open(stored[g][q], now)
    OBVIOUS
  <2>1. stored[g][q] \in SUBSET Version /\ \A v \in stored[g][q] : v.tt <= ts
    BY <1>1, StoredType DEF StoreInv
  <2> QED
    BY <1>1, <2>1, HoldsIsOpen DEF IsLive
<1>3. LoggedIsDone
  <2> SUFFICES ASSUME NEW k \in DOMAIN graphOps, NEW c, c = graphOps[k].by, NEW g, g = graphOps[k].op.target
               PROVE  /\ graphOps[k].op.kind = "drop" =>
                           \A q \in Quad : \A v \in stored[g][q] : Shows(g, q, v) =>
                             \/ <<g, q>> \in touched[c]
                             \/ g = job[c].target /\ q \in CopiedQuads(c)
                             \/ v.start > graphOps[k].at
                      /\ graphOps[k].op.kind = "copy" =>
                           \A i \in copied[c] :
                             \E v \in stored[g][i.quad] : v.start = i.start /\ v.end = i.end
    BY DEF LoggedIsDone
  <2>0. c \in Caller /\ g \in Graph /\ graphOps[k].at \in Nat
    <3> DEFINE Entries == [by : Caller, op : Stage, at : Nat]
    <3>1. graphOps \in Seq(Entries)
      BY <1>1 DEF GraphTypeOK
    <3>2. graphOps[k] \in Entries
      <4> HIDE DEF Entries
      <4>1. k \in 1 .. Len(graphOps)
        BY <3>1
      <4> QED
        BY <3>1, <4>1, ElementOfSeq
    <3> QED
      BY <3>2 DEF Stage
  <2>1. ASSUME graphOps[k].op.kind = "drop", NEW q \in Quad, NEW v \in stored[g][q], Shows(g, q, v),
               ~(v.start > graphOps[k].at), <<g, q>> \notin touched[c]
        PROVE  g = job[c].target /\ q \in CopiedQuads(c)
    <3>1. DroppedAt(c, g, graphOps[k].at)
      BY <2>1 DEF DroppedAt
    <3>2. graphOps[k].at <= now
      BY <1>1, <2>0, <3>1 DEF WorkInv, DroppedInv
    <3>3. Top(stored[g][q], v, now) /\ now < v.end /\ v \in Version
      BY <1>2, <2>0, <2>1 DEF Shows
    <3>4. v.start <= graphOps[k].at
      BY <2>0, <2>1, <3>3 DEF Version
    <3>5. Open(stored[g][q], graphOps[k].at)
      BY <1>1, <1>2, <2>0, <3>2, <3>3, <3>4, ShownSince
    <3> QED
      BY <1>1, <2>0, <2>1, <3>1, <3>5 DEF WorkInv, DroppedInv, Untouched
  <2>2. ASSUME graphOps[k].op.kind = "copy", NEW i \in copied[c]
        PROVE  \E v \in stored[g][i.quad] : v.start = i.start /\ v.end = i.end
    <3>1. Logged(c, "copy", g)
      BY <2>2 DEF Logged
    <3> QED
      BY <1>1, <2>0, <2>2, <3>1 DEF WorkInv, CopyInv, Landed
  <2> QED
    BY <2>1, <2>2
<1>4. CopiesShow
  <2> SUFFICES ASSUME NEW c \in Caller, NEW g \in Graph, Logged(c, "copy", g), NEW i \in copied[c],
                      now < i.end, <<g, i.quad>> \notin touched[c],
                      \A w \in stored[g][i.quad] : ~(w.start > i.start)
               PROVE  IsLive(g, i.quad)
    BY DEF CopiesShow
  <2>1. Landed(c, g, i)
    BY <1>1 DEF WorkInv, CopyInv
  <2>2. i.quad \in Quad /\ i.start \in Nat /\ i.start <= now
    BY <1>1 DEF Item, GraphInv, ControlInv, StepInv, Reads
  <2>3. PICK v \in stored[g][i.quad] :
          Top(stored[g][i.quad], v, i.start) /\ v.start = i.start /\ v.end = i.end
    BY <2>1 DEF Landed, Untouched, Top
  <2>4. \A w \in stored[g][i.quad] : w.start \in Nat /\ w.start <= i.start
    BY <1>2, <2>2 DEF Version
  <2>5. Top(stored[g][i.quad], v, now)
    BY <2>2, <2>3, <2>4 DEF Top
  <2> QED
    BY <1>2, <2>2, <2>3, <2>5 DEF Open
<1>5. PartialIsFlagged
  BY <1>1 DEF PartialIsFlagged, PartlyCopied, WorkInv, FlagInv, Marked
<1> QED
  BY <1>3, <1>4, <1>5

\* A drop's commit closes each window it has read no earlier than its time.
LEMMA DropStepKeepsHistory ==
  ASSUME GraphInv, NEW c \in Caller, WriteChunk(c), Now(c).kind = "drop",
         NEW q \in Quad, NEW vt \in 0 .. closing[c] - 1, <<Now(c).target, q>> \notin touched[c]
  PROVE  Holds(stored'[Now(c).target][q], ts', vt) = Holds(stored[Now(c).target][q], ts, vt)
<1>0. /\ ControlInv /\ GraphTypeOK /\ StoreInv /\ WorkInv(c)
      /\ stored \in [Graph -> [Quad -> SUBSET Version]] /\ ts \in Nat /\ readAt[c] \in Nat
      /\ left[c] \in SUBSET Item /\ closing[c] \in Nat
  BY StoredType DEF GraphInv, ControlInv, GraphTypeOK
<1>1. PICK g : g = Now(c).target
  OBVIOUS
<1>2. step[c] = "writing" /\ g \in Graph
  BY <1>0, <1>1, ChunkFacts
<1>a. PICK chunk \in NextChunks(c) :
        /\ \A h \in Graph : \A p \in Quad : h # Now(c).target \/ (\A i \in chunk : i.quad # p) =>
             stored'[h][p] = stored[h][p]
        /\ \A i \in chunk :
             /\ Renewed(c, i) \in Version
             /\ stored'[Now(c).target][i.quad] = stored[Now(c).target][i.quad] \cup {Renewed(c, i)}
  BY <1>0, ChunkFacts
<1>3. /\ \A p \in Quad : (\A i \in chunk : i.quad # p) => stored'[g][p] = stored[g][p]
      /\ \A i \in chunk :
           /\ Renewed(c, i) \in Version
           /\ stored'[g][i.quad] = stored[g][i.quad] \cup {Renewed(c, i)}
  BY <1>1, <1>2, <1>a
<1>4. chunk \in SUBSET left[c] /\ ts' = ts + 1
  BY DEF NextChunks, WriteChunk
<1>5. vt \in Nat /\ vt < closing[c] /\ closing[c] <= readAt[c]
  BY <1>0, <1>2 DEF WorkInv, DropInv
<1>6. stored[g][q] \in SUBSET Version /\ \A v \in stored[g][q] : v.tt <= ts /\ v.tt <= ts + 1
  <2>1. stored[g][q] \in SUBSET Version
    BY <1>0, <1>2
  <2>2. \A v \in stored[g][q] : v.tt <= ts
    BY <1>2 , <1>0 DEF StoreInv
  <2> QED
    BY <1>0, <2>1, <2>2 DEF Version
<1>7. Holds(stored'[g][q], ts + 1, vt) <=> Holds(stored[g][q], ts, vt)
  <2>1. CASE \E i \in chunk : i.quad = q
    <3>1. PICK i \in chunk : i.quad = q
      BY <2>1
    <3>2. i \in left[c] /\ i.start \in Nat
      BY <1>0, <1>4 DEF Item
    <3>3. PICK top \in stored[g][q] : /\ Top(stored[g][q], top, readAt[c]) /\ readAt[c] < top.end
                                     /\ top.start = i.start /\ top.end = i.end
      BY <1>0, <1>1, <1>2, <3>1, <3>2 DEF WorkInv, DropInv, Untouched, ReadAsItWas
    <3>4. /\ Renewed(c, i).start = top.start /\ Renewed(c, i).tt = ts + 1
          /\ Renewed(c, i).end = MaxOf(closing[c], i.start)
      BY <3>3 DEF Renewed
    <3>5. vt < top.end /\ vt < Renewed(c, i).end
      <4>1. vt < top.end
        BY <1>0, <1>5, <1>6, <3>3 DEF Version
      <4>2. \A n \in Nat : vt < MaxOf(closing[c], n)
        BY <1>0, <1>5 DEF MaxOf
      <4> QED
        BY <3>2, <3>4, <4>1, <4>2
    <3>6. Renewed(c, i) \in Version /\ stored'[g][q] = stored[g][q] \cup {Renewed(c, i)}
      BY <1>3, <3>1
    <3> QED
      <4>1. PICK n : n = Renewed(c, i)
        OBVIOUS
      <4>2. PICK vs : vs = stored[g][q]
        OBVIOUS
      <4>3. /\ vs \in SUBSET Version /\ n \in Version /\ Top(vs, top, readAt[c]) /\ \A v \in vs : v.tt <= ts
            /\ n.tt = ts + 1 /\ n.start = top.start /\ vt < top.end /\ vt < n.end
        BY <1>6, <3>3, <3>4, <3>5, <3>6, <4>1, <4>2
      <4>4. ts \in Nat /\ vt \in Nat /\ readAt[c] \in Nat /\ vt <= readAt[c]
        BY <1>0, <1>5
      <4>5. Holds(vs \cup {n}, ts + 1, vt) <=> Holds(vs, ts, vt)
        BY <4>3, <4>4, ClosingKeepsHistory
      <4> QED
        BY <3>6, <4>1, <4>2, <4>5
  <2>2. CASE \A i \in chunk : i.quad # q
    <3>1. stored'[g][q] = stored[g][q]
      BY <1>3, <2>2
    <3>2. Holds(stored[g][q], ts + 1, vt) <=> Holds(stored[g][q], ts, vt)
      BY <1>0, <1>6, HoldsKeeps
    <3> QED
      BY <3>1, <3>2
  <2> QED
    BY <2>1, <2>2
<1>8. Holds(stored'[g][q], ts + 1, vt) = Holds(stored[g][q], ts, vt)
  BY <1>7 DEF Holds
<1> QED
  BY <1>1, <1>4, <1>8

\* What a step of the graphs may never do to their history.
LEMMA HistoryStep ==
  ASSUME GraphInv, [GraphNext]_graphVars, NEW c \in Caller,
         step[c] = "writing", Now(c).kind = "drop", left'[c] # left[c]
  PROVE  WriteChunk(c)
<1>1. ControlInv /\ c \in DOMAIN left
  BY DEF GraphInv, ControlInv, GraphTypeOK
<1>2. ~Frame(c)
  BY DEF Frame
<1>3. JobStep(c) \/ \E j \in Jobs[c] : Call(c, j)
  BY <1>1, <1>2, ClientFrame, OthersFrame DEF GraphNext
<1>4. ~\E j \in Jobs[c] : Call(c, j)
  BY DEF Call
<1>5. ~CheckNew(c) /\ ~Intern(c) /\ ~Announce(c) /\ ~TakeTime(c) /\ ~Read(c) /\ ~SetFlag(c) /\ ~ClearFlag(c)
  BY DEF CheckNew, Intern, Announce, TakeTime, Read, SetFlag, ClearFlag
<1>6. ~Fail(c)
  BY DEF Fail
<1> QED
  BY <1>3, <1>4, <1>5, <1>6 DEF JobStep

\* In all behaviours of the graph operations (graphs.rs) the control state,
\* what is stored, what is logged and what is marked fit together.
THEOREM GraphInvariant == GraphSpec => []GraphInv
<1>1. GraphInit => GraphInv
  BY GraphInvInit
<1>2. GraphInv /\ [GraphNext]_graphVars => GraphInv'
  BY GraphInvNext
<1> QED
  BY <1>1, <1>2, PTL DEF GraphSpec

\* Types; in particular no operation writes a window that ends before it
\* begins (graphs.rs:282-286), for any contents, jobs and writes.
THEOREM GraphTypes == GraphSpec => []GraphTypeOK
<1>1. GraphInv => GraphTypeOK
  BY DEF GraphInv, ControlInv
<1> QED
  BY <1>1, GraphInvariant, PTL

\* What the change log says was dropped shows nothing but what others wrote,
\* what the same job copied there, and windows that began after the drop had
\* read it; and what the log says was copied is there in full (graphs.rs:159,
\* 214): the operation is in the log with its last chunk.
THEOREM LogsAreDone == GraphSpec => []LoggedIsDone
<1>1. GraphInv => LoggedIsDone
  BY GraphInvImplies
<1> QED
  BY <1>1, GraphInvariant, PTL

\* A logged copy shows in its target (graphs.rs:212) while its window lasts,
\* but for what others wrote and for later windows.
THEOREM CopiesAreSeen == GraphSpec => []CopiesShow
<1>1. GraphInv => CopiesShow
  BY GraphInvImplies
<1> QED
  BY <1>1, GraphInvariant, PTL

\* Whoever sees some of a copy but not all of it sees the mark on its target
\* (graphs.rs:201-223), wherever the copy was cut short.
THEOREM PartialCopiesAreFlagged == GraphSpec => []PartialIsFlagged
<1>1. GraphInv => PartialIsFlagged
  BY GraphInvImplies
<1> QED
  BY <1>1, GraphInvariant, PTL

\* A graph that create_graph gave an id is in the change log, or on its way
\* there, or its creator was cut short (graphs.rs:68-74).
THEOREM NewGraphsAreAnnounced == GraphSpec => []GraphsAreAnnounced
<1>1. GraphInv => GraphsAreAnnounced
  BY DEF GraphInv
<1> QED
  BY <1>1, GraphInvariant, PTL

\* No commit of a drop changes what the graph shows of an instant before it
\* (graphs.rs:152-158), save of quads that others wrote meanwhile.
THEOREM DropsKeepHistory == GraphSpec => HistoryStays
<1>1. GraphInv /\ [GraphNext]_graphVars =>
        [\A c \in Caller :
           step[c] = "writing" /\ Now(c).kind = "drop" /\ left'[c] # left[c] =>
             \A q \in Quad : \A vt \in 0 .. closing[c] - 1 :
               <<Now(c).target, q>> \notin touched[c] =>
                 Holds(stored'[Now(c).target][q], ts', vt) = Holds(stored[Now(c).target][q], ts, vt)]_graphVars
  <2> SUFFICES ASSUME GraphInv, [GraphNext]_graphVars, NEW c \in Caller,
                      step[c] = "writing", Now(c).kind = "drop", left'[c] # left[c],
                      NEW q \in Quad, NEW vt \in 0 .. closing[c] - 1, <<Now(c).target, q>> \notin touched[c]
               PROVE  Holds(stored'[Now(c).target][q], ts', vt) = Holds(stored[Now(c).target][q], ts, vt)
    OBVIOUS
  <2>1. WriteChunk(c)
    BY HistoryStep
  <2> QED
    BY <2>1, DropStepKeepsHistory
<1> QED
  BY <1>1, GraphInvariant, PTL DEF GraphSpec, HistoryStays
=============================================================================
