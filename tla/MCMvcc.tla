------------------------------- MODULE MCMvcc -------------------------------
(***************************************************************************)
(* Small instances of Mvcc: two slots of one subject under two predicates, *)
(* a property that is replaced and a relation.                             *)
(***************************************************************************)
EXTENDS Mvcc, TLC

CONSTANTS name, knows,      \* predicates, and the slots named after them
          a, b, bob         \* two property values and a node

Prop(v, m, from, to) ==
  [kind |-> "Property", slot |-> name, val |-> v, mode |-> m, start |-> from, end |-> to]
Rel(from, to) ==
  [kind |-> "Relation", slot |-> knows, val |-> bob, mode |-> "Auto",
   start |-> from, end |-> to]

MCEnd == 3

MCPredicateOf == name :> name @@ knows :> knows

\* Replacing writes of two values, a retraction and a relation.
MCWrites == {Prop(a, "Auto", 0, MCEnd), Prop(b, "Replace", 1, MCEnd),
             Prop(a, "Auto", 0, 1), Rel(0, MCEnd)}

\* Adding a second value next to a replaced one, and an annotation.
AddingWrites == {Prop(a, "Auto", 0, MCEnd), Prop(b, "Add", 0, MCEnd),
                 [Rel(0, MCEnd) EXCEPT !.kind = "Annotation"]}

TxSymmetry == Permutations(Tx)
=============================================================================
