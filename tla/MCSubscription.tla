--------------------------- MODULE MCSubscription ---------------------------
(***************************************************************************)
(* Small instances of Subscription: commits of no event (annotations       *)
(* only), one event and two.                                               *)
(***************************************************************************)
EXTENDS Subscription

MCTimestamp == 1 .. 4

MCContents == {[events |-> n, add |-> {}, del |-> {}] : n \in 0 .. 2}
=============================================================================
