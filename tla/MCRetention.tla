---------------------------- MODULE MCRetention ----------------------------
(***************************************************************************)
(* Small instances of Retention: overlapping runs over two orders and a    *)
(* quad whose value is out of line.                                        *)
(***************************************************************************)
EXTENDS Retention, TLC

CONSTANTS r1, r2, h

MCTimestamp == 1 .. 3
MCHashOf == [q \in Quad |-> h]
MCOrders == <<"spog", "gspo">>

Window(s, e) == [start |-> s, end |-> e]

\* An assertion, its retraction, a later window and one that ends.
MCWindows == {Window(1, EndOfTime), Window(1, 2), Window(2, EndOfTime), Window(2, 3)}

Cut(tx, vt) == [tx |-> tx, vt |-> vt]

\* Transaction history only, and with a lookback over what is closed.
MCPolicies == {Cut(3, 0), Cut(3, 4)}

RunSymmetry == Permutations(Run)
=============================================================================
