----------------------------- MODULE CommitLog -----------------------------
(***************************************************************************)
(* What the store promises its transactions, with the commit protocol      *)
(* left out: a history of batches that grows by whole transactions, each   *)
(* in one step, each later than all before it, and none over a newer       *)
(* version of what it writes.  A restart may lose the newest batches and   *)
(* ends some transactions; nothing else takes anything away.               *)
(***************************************************************************)
EXTENDS Quads

CONSTANTS Tx, Timestamp

VARIABLES
  history,  \* committed batches [by, tt, quads]
  status,   \* "idle", "active" or "ended"
  asOf,     \* the timestamp each transaction reads at
  writes    \* what each transaction has written

vars == <<history, status, asOf, writes>>

Init ==
  /\ history = <<>>
  /\ status = [t \in Tx |-> "idle"]
  /\ asOf = [t \in Tx |-> 0]
  /\ writes = [t \in Tx |-> <<>>]

Begin(t) ==
  /\ status[t] = "idle"
  /\ status' = [status EXCEPT ![t] = "active"]
  /\ \E ts \in Timestamp : asOf' = [asOf EXCEPT ![t] = ts]
  /\ UNCHANGED <<history, writes>>

Write(t, w) ==
  /\ status[t] = "active"
  /\ writes' = [writes EXCEPT ![t] = Append(@, w)]
  /\ UNCHANGED <<history, status, asOf>>

\* Every batch after the one the transaction read is free of its writes.
Uncontested(t) ==
  \A i \in DOMAIN history :
     history[i].tt > asOf[t] => ~Overlaps(writes[t], history[i].quads)

Commit(t) ==
  /\ status[t] = "active"
  /\ Uncontested(t)
  /\ \E tt \in Timestamp :
        /\ tt > LastTt(history)
        /\ history' = Append(history,
             [by |-> t, tt |-> tt, quads |-> Staged(writes[t], history)])
  /\ status' = [status EXCEPT ![t] = "ended"]
  /\ UNCHANGED <<asOf, writes>>

\* Rolled back, refused or failed: it leaves no trace.
End(t) ==
  /\ status[t] = "active"
  /\ status' = [status EXCEPT ![t] = "ended"]
  /\ UNCHANGED <<history, asOf, writes>>

Crash ==
  /\ \E n \in 0 .. Len(history) : history' = SubSeq(history, 1, n)
  /\ status' = [t \in Tx |-> IF status[t] = "active" THEN "ended" ELSE status[t]]
  /\ UNCHANGED <<asOf, writes>>

Next ==
  \/ Crash
  \/ \E t \in Tx : Begin(t) \/ Commit(t) \/ End(t) \/ \E w \in Writes : Write(t, w)

Spec == Init /\ [][Next]_vars
=============================================================================
