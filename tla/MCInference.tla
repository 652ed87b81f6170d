----------------------------- MODULE MCInference -----------------------------
(***************************************************************************)
(* Small instances of Inference: a chain a-b-c of a transitive property     *)
(* in two graphs, and a superproperty of it.                               *)
(***************************************************************************)
EXTENDS Inference

CONSTANTS ab, bc, ac, super, transitive, sub, g, h

MCOneRule == [a \in Axiom |-> IF a = sub THEN {<<ac, super>>} ELSE {}]

MCJoin == [a \in Axiom |-> IF a = transitive THEN {<<ab, bc, ac>>} ELSE {}]

\* One graph has the first link from the start; the second may be in both.
MCGiven == {[st |-> transitive, label |-> g], [st |-> ab, label |-> g]}

MCWritable ==
  {[st |-> sub, label |-> g], [st |-> bc, label |-> g], [st |-> bc, label |-> h], [st |-> ac, label |-> g]}
=============================================================================
