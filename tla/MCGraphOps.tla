----------------------------- MODULE MCGraphOps -----------------------------
(***************************************************************************)
(* Small instances of GraphOps: two graphs that hold open quads, or one    *)
(* that was closed before or begins or ends later, commits of one quad,    *)
(* two callers.                                                            *)
(***************************************************************************)
EXTENDS GraphOps

CONSTANTS from, into, new, p, q, c1, c2

Open(start, tt) == [start |-> start, end |-> EndOfTime, tt |-> tt]
Closed(start, tt) == [start |-> start, end |-> start + 1, tt |-> tt]

\* The source shows both quads; the target has one of them since later than the
\* source, or no more and again later.
MCContents ==
  {[graphs |-> [g \in Graph |-> [x \in Quad |->
      CASE g = from -> {Open(1, IF x = p THEN 1 ELSE 2)}
        [] g = into /\ x = p -> target
        [] OTHER -> {}]],
    ts |-> 2 + Cardinality(target)] :
     target \in {{Open(2, 3)}, {Closed(2, 3), Open(3, 4)}}}

Ask(k, s, t) == [kind |-> k, source |-> s, target |-> t]

MCJobs ==
  [c \in Caller |->
     {Ask("create", new, new)} \cup
     IF c = c1 THEN {Ask("add", from, into), Ask("move", from, into)}
     ELSE {Ask("drop", into, into)}]

\* A window that opens later, one that ends at once, a new quad, a window that
\* ends before it begins.
MCWriters ==
  {<<into, [quad |-> p, start |-> 1, end |-> EndOfTime]>>,
   <<from, [quad |-> p, start |-> 1, end |-> 2]>>,
   <<from, [quad |-> q, start |-> 3, end |-> EndOfTime]>>,
   <<into, [quad |-> q, start |-> 2, end |-> 1]>>}

\* One caller, who moves the source.
MoveJobs == [c \in Caller |-> {Ask("move", from, into)}]
=============================================================================
