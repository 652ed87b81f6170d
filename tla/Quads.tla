------------------------------- MODULE Quads -------------------------------
(***************************************************************************)
(* Quads, buffered writes, what a write conflicts with and what a batch of *)
(* writes stages, as operators over a history of committed batches.        *)
(*                                                                         *)
(* A slot stands for a (subject, predicate, graph) and a value for an      *)
(* object or a property value, so a quad is a slot, a value and the window *)
(* of valid time it is written for.                                        *)
(***************************************************************************)
EXTENDS Versions, Sequences

CONSTANTS Slot,    \* (subject, predicate, graph)
          Value,   \* objects: nodes and property values
          Node,    \* the objects of relations
          Writes   \* the buffered writes clients may issue

Quad == [slot : Slot, val : Value, start : Nat, end : Nat]

WriteRecord ==
  [kind : {"Relation", "Property", "Annotation"}, slot : Slot, val : Value,
   mode : {"Auto", "Replace", "Add"}, start : Nat, end : Nat]

ASSUME WritesType ==
  /\ Writes \subseteq WriteRecord /\ Node \subseteq Value
  /\ \A w \in Writes : w.start < EndOfTime /\ w.end <= EndOfTime

\* A relation's object is a node; a property's is its value's content hash
\* (value_object), taken never to be the id of a node.
ASSUME ObjectsAreDistinct ==
  \A w \in Writes : /\ w.kind = "Relation" => w.val \in Node
                    /\ w.kind = "Property" => w.val \notin Node

-----------------------------------------------------------------------------
(* Write modes and conflicts *)

\* WriteMode::resolve
Resolve(w) ==
  IF w.mode = "Auto"
  THEN IF w.kind = "Property" /\ w.end = EndOfTime THEN "Replace" ELSE "Add"
  ELSE w.mode

Replaces(w) == w.kind = "Property" /\ Resolve(w) = "Replace"

\* The gspo prefix check_conflict scans for w covers version q.
Touches(w, q) ==
  /\ w.kind # "Annotation"
  /\ q.slot = w.slot
  /\ Replaces(w) \/ q.val = w.val

Overlaps(ws, qs) == \E k \in DOMAIN ws : \E q \in qs : Touches(ws[k], q)

-----------------------------------------------------------------------------
(* Reading a history: a sequence of batches [tt, quads] in commit order *)

\* A batch has at most one version of a quad: its key holds the batch's tt.
VersionIn(b, s, v) == {q \in b.quads : q.slot = s /\ q.val = v}

VersionsOf(h, s, v) ==
  UNION {{[start |-> q.start, end |-> q.end, tt |-> h[i].tt] :
            q \in VersionIn(h[i], s, v)} : i \in DOMAIN h}

\* The values of s whose governing version at (ts, vt) is open-ended.
OpenAt(h, s, ts, vt) ==
  {v \in Value : \E x \in VersionsOf(h, s, v) :
                    Governs(x, VersionsOf(h, s, v), ts, vt) /\ x.end = EndOfTime}

LastTt(h) == IF h = <<>> THEN 0 ELSE h[Len(h)].tt

\* The version of a quad committed last, whatever its window.
Newest(h, s, v) ==
  UNION {VersionIn(h[i], s, v) :
           i \in {j \in DOMAIN h : \A k \in DOMAIN h : k > j => VersionIn(h[k], s, v) = {}}}

\* TripleStore::open_values: of every property value of s, committed before
\* or after the writer's snapshot, the version committed last, if it is still
\* open at the instant; whether that version governs is not asked.
OpenValue(h, s, v, at) == {q \in Newest(h, s, v) : v \notin Node /\ q.end > at}

-----------------------------------------------------------------------------
(* Staging a batch *)

OwnWrites(ws, s, v) ==
  {k \in DOMAIN ws : ws[k].kind # "Annotation" /\ ws[k].slot = s /\ ws[k].val = v}

ReplacesOf(ws, s) == {m \in DOMAIN ws : Replaces(ws[m]) /\ ws[m].slot = s}

LastOf(ks) == CHOOSE k \in ks : \A m \in ks : m <= k

\* The writes of v in the map of staged values when the Replace m comes to
\* it: the Replace before m emptied the map and put its own value.
StagedBefore(ws, s, v, m) ==
  {k \in OwnWrites(ws, s, v) : k < m /\ \A r \in ReplacesOf(ws, s) : r < m => r <= k}

\* Faulty: a Replace closes only what the batch itself wrote before it.
SupersededIgnoringStore(ws, h, s, v, m) ==
  LET own == StagedBefore(ws, s, v, m)
  IN  IF own = {} THEN {} ELSE {q \in {ws[LastOf(own)]} : q.end = EndOfTime}

\* Faulty: a Replace closes only what the store holds, not what the batch
\* itself wrote before it.
SupersededInStoreOnly(ws, h, s, v, m) == OpenValue(h, s, v, ws[m].start)

\* What of value v the Replace m closes: the version staged in the batch, or
\* the one open_values finds.
Superseded(ws, h, s, v, m) ==
  LET own == StagedBefore(ws, s, v, m)
  IN  IF own = {} THEN OpenValue(h, s, v, ws[m].start)
      ELSE {q \in {ws[LastOf(own)]} : q.end = EndOfTime}

ClosingsOf(ws, h, s, v) ==
  {m \in ReplacesOf(ws, s) :
     v \notin Node /\ ws[m].val # v /\ Superseded(ws, h, s, v, m) # {}}

\* with_vt_end: a closing version keeps the start of what it closes.
WrittenBy(k, ws, h, s, v) ==
  IF k \in OwnWrites(ws, s, v)
  THEN {[slot |-> s, val |-> v, start |-> ws[k].start, end |-> ws[k].end]}
  ELSE {[slot |-> s, val |-> v, start |-> q.start, end |-> ws[k].start] :
          q \in Superseded(ws, h, s, v, k)}

\* The last version put under the one key a quad has in a batch.
StagedOf(ws, h, s, v) ==
  LET ks == OwnWrites(ws, s, v) \cup ClosingsOf(ws, h, s, v)
  IN  IF ks = {} THEN {} ELSE WrittenBy(LastOf(ks), ws, h, s, v)

\* What stage_writes puts in the batch over history h.
Staged(ws, h) == UNION {StagedOf(ws, h, s, v) : s \in Slot, v \in Value}
=============================================================================
