------------------------------ MODULE MCWireTx ------------------------------
(***************************************************************************)
(* Small instances of WireTx: calls on two transactions in one shard, the  *)
(* first of which opens the first transaction. Calls are interchangeable,  *)
(* so those that choose from Menu do so in its order.                      *)
(***************************************************************************)
EXTENDS WireTx

CONSTANTS c1, c2, c3, c4, c5, t1, t2

MCShard == [t \in Tx |-> 1]

Ask(o, t) == [op |-> o, tx |-> t]

Menu == <<"insert", "query", "cypher_write", "cypher_query", "commit", "rollback">>

Pairs == {p \in (DOMAIN Menu) \X (DOMAIN Menu) : p[1] <= p[2]}

\* Three calls share the first transaction. The second one is not opened, so
\* that the fifth call does not start.
MCScripts ==
  {[c \in Call |-> CASE c = c1 -> Ask("begin", t1)
                     [] c = c2 -> Ask(third, t1)
                     [] c = c3 -> Ask(Menu[p[1]], t1)
                     [] c = c4 -> Ask(Menu[p[2]], t1)
                     [] c = c5 -> Ask("query", t2)] :
     third \in {"insert", "commit"}, p \in Pairs}

\* Two calls share the first transaction while the second is opened and the
\* first committed.
StallScripts ==
  {[c \in Call |-> CASE c = c1 -> Ask("begin", t1)
                     [] c = c2 -> Ask("insert", t1)
                     [] c = c3 -> Ask("query", t1)
                     [] c = c4 -> Ask("begin", t2)
                     [] c = c5 -> Ask("commit", t1)]}

AllScripts == MCScripts \cup StallScripts
=============================================================================
