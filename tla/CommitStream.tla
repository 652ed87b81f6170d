---------------------------- MODULE CommitStream ----------------------------
(***************************************************************************)
(* The store as its followers meet it (the change log, Subscribe, the type *)
(* index): one commit at a time publishes its timestamp, which readers of  *)
(* the oracle see at once, and later stores its batch or gives up.         *)
(***************************************************************************)
EXTENDS Integers

CONSTANT Timestamp  \* the commit timestamps that may be issued

ASSUME TimestampsArePositive == Timestamp \subseteq Nat \ {0}

VARIABLES
  committed,  \* what the oracle answers: the last timestamp published
  writing,    \* the published timestamp whose batch is not stored yet, or 0
  stored      \* the timestamps of the batches in the store

streamVars == <<committed, writing, stored>>

Init ==
  /\ committed = 0
  /\ writing = 0
  /\ stored = {}

Publish ==
  /\ writing = 0
  /\ \E ts \in Timestamp :
        /\ ts > committed
        /\ committed' = ts
        /\ writing' = ts
  /\ UNCHANGED stored

Store ==
  /\ writing # 0
  /\ stored' = stored \cup {writing}
  /\ writing' = 0
  /\ UNCHANGED committed

\* The commit is refused or fails; the oracle keeps its timestamp.
GiveUp ==
  /\ writing # 0
  /\ writing' = 0
  /\ UNCHANGED <<committed, stored>>

\* A restart finds the batches up to some point of the log, and an oracle
\* that stands at the last of them.
Crash ==
  /\ \E cut \in Timestamp \cup {0} : stored' = {ts \in stored : ts <= cut}
  /\ committed' \in stored' \cup {0}
  /\ \A ts \in stored' : ts <= committed'
  /\ writing' = 0

Next == Publish \/ Store \/ GiveUp \/ Crash

Spec == Init /\ [][Next]_streamVars

\* The oracle is never behind the store, and the one commit that is neither
\* stored nor given up is the last one published.
StreamOrdered ==
  /\ \A ts \in stored : ts <= committed
  /\ writing # 0 => writing = committed /\ writing \notin stored
=============================================================================
