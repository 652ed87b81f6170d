---------------------------- MODULE MCTypeIndex ----------------------------
(***************************************************************************)
(* Small instances of TypeIndex: commits that put a subject in the class,  *)
(* exchange two, or only annotate.                                         *)
(***************************************************************************)
EXTENDS TypeIndex

CONSTANTS alice, bob

MCTimestamp == 1 .. 4

Typed(add, del) == [events |-> 1, add |-> add, del |-> del]

MCContents == {Typed({alice}, {}), Typed({bob}, {alice}),
               [Typed({}, {}) EXCEPT !.events = 0]}
=============================================================================
