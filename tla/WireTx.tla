------------------------------- MODULE WireTx -------------------------------
(***************************************************************************)
(* The wire transactions of the server (service.rs): tx_map, the mutex of  *)
(* each open transaction, the RPCs that use one, and the task that evicts  *)
(* idle ones, over the threads of the runtime. An RPC that waits for the   *)
(* mutex gives its thread back; one that waits for a shard of the map      *)
(* keeps it.                                                               *)
(***************************************************************************)
EXTENDS Naturals, FiniteSets, Sequences

CONSTANTS
  Call,      \* the RPCs
  Tx,        \* transaction ids
  Shard,     \* the shard of the map each id falls in
  Workers,   \* threads of the runtime
  Scripts    \* what the calls may ask for: functions from Call to Request

Ops == {"begin", "insert", "query", "cypher_write", "cypher_query", "commit", "rollback"}
Request == [op : Ops, tx : Tx]

ASSUME WorkersType == Workers \in Nat

\* An id is new: no two calls open the same transaction.
ASSUME ScriptsType ==
  /\ Scripts \subseteq [Call -> Request]
  /\ \A s \in Scripts : \A c, d \in Call :
       s[c].op = "begin" /\ s[d].op = "begin" /\ s[c].tx = s[d].tx => c = d

VARIABLES
  map,      \* the ids in tx_map
  buffer,   \* the calls whose writes each transaction holds
  idle,     \* last_used is older than the timeout
  line,     \* the calls at each transaction's mutex; the first one holds it
  req,      \* what each call asks for
  pc,       \* where it is
  landed,   \* what each committed transaction wrote
  outs,     \* history: the calls and sweeps that took each id out of the map
  expired,  \* the ids a sweep has collected and not removed yet, or all at shutdown
  sweeping, \* the sweep holds a thread
  closed    \* shutdown has begun

openVars == <<map, buffer, idle, line>>
callVars == <<req, pc, landed, outs>>
sweepVars == <<expired, sweeping, closed>>
txVars == <<openVars, callVars, sweepVars>>

Op(c) == req[c].op
On(c) == req[c].tx

Locking == {"insert", "query", "cypher_write", "cypher_query"}
Writing == {"insert", "cypher_write"}
Ended == {"ok", "failed"}
SweepTask == "sweep"

-----------------------------------------------------------------------------

\* A thread is held by a call that runs, or that waits for a shard.
Running == {c \in Call : pc[c] \in {"at map", "holding", "unwrapping"}}
ThreadFree == Cardinality(Running) + (IF sweeping THEN 1 ELSE 0) < Workers

\* The client knows an id from the answer to its begin.
Told(t) == \E c \in Call : Op(c) = "begin" /\ On(c) = t /\ pc[c] = "ok"

\* Insert and Query keep the map entry they looked up (a read lock on its
\* shard) until they are done with the mutex; the Cypher calls clone the Arc.
Readers(t) == {c \in Call : /\ Op(c) \in {"insert", "query"}
                            /\ pc[c] \in {"waiting", "holding"}
                            /\ Shard[On(c)] = Shard[t]}

Clones(t) == {c \in Call : /\ Op(c) \in {"cypher_write", "cypher_query"}
                           /\ pc[c] \in {"waiting", "holding"}
                           /\ On(c) = t}

TxInit ==
  /\ map = {}
  /\ buffer = [t \in Tx |-> {}]
  /\ idle = [t \in Tx |-> FALSE]
  /\ line = [t \in Tx |-> <<>>]
  /\ req \in Scripts
  /\ pc = [c \in Call |-> "new"]
  /\ landed = [t \in Tx |-> {}]
  /\ outs = [t \in Tx |-> {}]
  /\ expired = {} /\ sweeping = FALSE /\ closed = FALSE

\* Begin, commit and rollback come to the map, which they need their shard
\* of for writing.
Arrive(c) ==
  /\ pc[c] = "new" /\ Op(c) \notin Locking /\ ThreadFree
  /\ Op(c) = "begin" \/ Told(On(c))
  /\ pc' = [pc EXCEPT ![c] = "at map"]
  /\ UNCHANGED <<openVars, req, landed, outs, sweepVars>>

\* The entry is put in once the shard has no reader.
Enter(c) ==
  /\ pc[c] = "at map" /\ Op(c) = "begin"
  /\ Readers(On(c)) = {}
  /\ map' = map \cup {On(c)}
  /\ pc' = [pc EXCEPT ![c] = "ok"]
  /\ UNCHANGED <<buffer, idle, line, req, landed, outs, sweepVars>>

\* A call that uses a transaction looks it up and takes its turn at the
\* mutex; without waiting when nobody holds it.
LookUp(c) ==
  /\ pc[c] = "new" /\ Op(c) \in Locking /\ ThreadFree
  /\ Told(On(c))
  /\ IF On(c) \in map
     THEN /\ line' = [line EXCEPT ![On(c)] = Append(@, c)]
          /\ pc' = [pc EXCEPT ![c] = IF line[On(c)] = <<>> THEN "holding" ELSE "waiting"]
     ELSE /\ pc' = [pc EXCEPT ![c] = "failed"]
          /\ UNCHANGED line
  /\ UNCHANGED <<map, buffer, idle, req, landed, outs, sweepVars>>

\* The mutex was handed to a waiting call, and a thread takes it up again.
Resume(c) ==
  /\ pc[c] = "waiting" /\ Head(line[On(c)]) = c /\ ThreadFree
  /\ pc' = [pc EXCEPT ![c] = "holding"]
  /\ UNCHANGED <<openVars, req, landed, outs, sweepVars>>

\* The call buffers its writes, notes the use and lets go.
Use(c) ==
  /\ pc[c] = "holding"
  /\ buffer' = IF Op(c) \in Writing THEN [buffer EXCEPT ![On(c)] = @ \cup {c}] ELSE buffer
  /\ idle' = [idle EXCEPT ![On(c)] = FALSE]
  /\ line' = [line EXCEPT ![On(c)] = Tail(@)]
  /\ pc' = [pc EXCEPT ![c] = "ok"]
  /\ UNCHANGED <<map, req, landed, outs, sweepVars>>

\* Faulty: the early return forgets the mutex.
GiveUpHolding(c) ==
  /\ pc[c] = "holding" /\ Op(c) = "cypher_write"
  /\ buffer' \in {buffer, [buffer EXCEPT ![On(c)] = @ \cup {c}]}
  /\ pc' = [pc EXCEPT ![c] = "failed"]
  /\ UNCHANGED <<map, idle, line, req, landed, outs, sweepVars>>

\* A CypherWrite fails at one of its writes; the earlier ones stay buffered.
GiveUp(c) ==
  /\ pc[c] = "holding" /\ Op(c) = "cypher_write"
  /\ buffer' \in {buffer, [buffer EXCEPT ![On(c)] = @ \cup {c}]}
  /\ line' = [line EXCEPT ![On(c)] = Tail(@)]
  /\ pc' = [pc EXCEPT ![c] = "failed"]
  /\ UNCHANGED <<map, idle, req, landed, outs, sweepVars>>

\* Faulty: the entry is read and left in the map.
TakeOutLater(c) ==
  /\ pc[c] = "at map" /\ Op(c) \in {"commit", "rollback"}
  /\ Readers(On(c)) = {}
  /\ \/ /\ On(c) \notin map
        /\ pc' = [pc EXCEPT ![c] = "failed"]
        /\ UNCHANGED outs
     \/ /\ On(c) \in map
        /\ pc' = [pc EXCEPT ![c] = IF Op(c) = "commit" THEN "unwrapping" ELSE "ok"]
        /\ outs' = [outs EXCEPT ![On(c)] = @ \cup {c}]
  /\ UNCHANGED <<openVars, req, landed, sweepVars>>

\* Commit and rollback remove the entry; a rollback is done with that.
TakeOut(c) ==
  /\ pc[c] = "at map" /\ Op(c) \in {"commit", "rollback"}
  /\ Readers(On(c)) = {}
  /\ map' = map \ {On(c)}
  /\ \/ /\ On(c) \notin map
        /\ pc' = [pc EXCEPT ![c] = "failed"]
        /\ UNCHANGED outs
     \/ /\ On(c) \in map
        /\ pc' = [pc EXCEPT ![c] = IF Op(c) = "commit" THEN "unwrapping" ELSE "ok"]
        /\ outs' = [outs EXCEPT ![On(c)] = @ \cup {c}]
  /\ UNCHANGED <<buffer, idle, line, req, landed, sweepVars>>

\* Faulty: the commit does not ask to be the only owner.
CommitShared(c) ==
  /\ pc[c] = "unwrapping"
  /\ landed' = [landed EXCEPT ![On(c)] = buffer[On(c)]]
  /\ pc' = [pc EXCEPT ![c] = "ok"]
  /\ UNCHANGED <<openVars, req, outs, sweepVars>>

\* Arc::try_unwrap: the only owner commits; the store may still refuse it.
Commit(c) ==
  /\ pc[c] = "unwrapping"
  /\ \/ /\ Clones(On(c)) = {}
        /\ landed' = [landed EXCEPT ![On(c)] = buffer[On(c)]]
        /\ pc' = [pc EXCEPT ![c] = "ok"]
     \/ /\ pc' = [pc EXCEPT ![c] = "failed"]
        /\ UNCHANGED landed
  /\ UNCHANGED <<openVars, req, outs, sweepVars>>

-----------------------------------------------------------------------------
\* spawn_tx_ttl_task

\* A transaction has not been used for the timeout.
Age(t) ==
  /\ t \in map /\ ~idle[t]
  /\ idle' = [idle EXCEPT ![t] = TRUE]
  /\ UNCHANGED <<map, buffer, line, callVars, sweepVars>>

\* Collect the idle ones whose mutex is free.
Collect ==
  /\ ~sweeping /\ ~closed /\ ThreadFree
  /\ expired' = {t \in map : idle[t] /\ line[t] = <<>>}
  /\ sweeping' = TRUE
  /\ UNCHANGED <<openVars, callVars, closed>>

\* Remove them one by one, without looking again, or all at shutdown.
Evict(t) ==
  /\ sweeping /\ t \in expired
  /\ Readers(t) = {}
  /\ map' = map \ {t}
  /\ outs' = IF t \in map THEN [outs EXCEPT ![t] = @ \cup {SweepTask}] ELSE outs
  /\ expired' = expired \ {t}
  /\ UNCHANGED <<buffer, idle, line, req, pc, landed, sweeping, closed>>

EndSweep ==
  /\ sweeping /\ expired = {}
  /\ sweeping' = FALSE
  /\ UNCHANGED <<openVars, callVars, expired, closed>>

\* Shutdown ends the task once it has cleared the map, and waits for every
\* shard to do so.
Shutdown ==
  /\ ~sweeping /\ ~closed /\ ThreadFree
  /\ expired' = Tx /\ sweeping' = TRUE /\ closed' = TRUE
  /\ UNCHANGED <<openVars, callVars>>

-----------------------------------------------------------------------------

CallStep(c) ==
  \/ Arrive(c) \/ Enter(c) \/ LookUp(c) \/ Resume(c) \/ Use(c) \/ GiveUp(c)
  \/ TakeOut(c) \/ Commit(c)

Sweep == Collect \/ EndSweep \/ \E t \in Tx : Evict(t)

TxNext == (\E c \in Call : CallStep(c)) \/ (\E t \in Tx : Age(t)) \/ Sweep \/ Shutdown

TxSpec == TxInit /\ [][TxNext]_txVars

\* The runtime polls every call that can go on, and the sweep.
TxFairSpec == TxSpec /\ (\A c \in Call : SF_txVars(CallStep(c))) /\ SF_txVars(Sweep)

-----------------------------------------------------------------------------

\* Types of the server's transaction state and of the calls on it.
TxTypeOK ==
  /\ map \subseteq Tx /\ expired \subseteq Tx
  /\ buffer \in [Tx -> SUBSET Call] /\ landed \in [Tx -> SUBSET Call]
  /\ idle \in [Tx -> BOOLEAN]
  /\ line \in [Tx -> Seq(Call)]
  /\ req \in [Call -> Request]
  /\ pc \in [Call -> {"new", "at map", "waiting", "holding", "unwrapping"} \cup Ended]
  /\ outs \in [Tx -> SUBSET (Call \cup {SweepTask})]
  /\ sweeping \in BOOLEAN /\ closed \in BOOLEAN

Committed(t) == \E c \in Call : Op(c) = "commit" /\ On(c) = t /\ pc[c] = "ok"

\* CommitTransaction takes the transaction out of the map before it owns it
\* (service.rs:4659-4667), while other RPCs may still hold it: once a commit is
\* answered, every write answered before or after it is in what it stored.
CommitIsWhole ==
  \A t \in Tx : Committed(t) =>
    \A c \in Call : Op(c) \in Writing /\ On(c) = t /\ pc[c] = "ok" => c \in landed[t]

\* commit, rollback, the TTL sweep and shutdown race for a transaction
\* (service.rs:490, 510, 4662, 4690): only one of them gets it.
OneFate == \A t \in Tx : \A x, y \in outs[t] : x = y

Busy(c) == pc[c] \in {"waiting", "holding"}

\* The calls at a mutex are the ones that wait for it or hold it, each once,
\* and only the first one holds it.
LinesInv ==
  /\ \A t \in Tx : \A i \in DOMAIN line[t] :
       /\ On(line[t][i]) = t /\ pc[line[t][i]] \in {"waiting", "holding"}
       /\ \A j \in DOMAIN line[t] : line[t][i] = line[t][j] => i = j
  /\ \A c \in Call :
       /\ pc[c] \in {"waiting", "holding"} =>
            Op(c) \in Locking /\ \E i \in DOMAIN line[On(c)] : line[On(c)][i] = c
       /\ pc[c] = "holding" => line[On(c)][1] = c

\* An id is in the map or was taken out of it once, after it was handed out.
TxFate ==
  \A t \in Tx :
    /\ \A x, y \in outs[t] : x = y
    /\ t \in map \/ outs[t] # {} => Told(t)
    /\ t \in map => outs[t] = {}

\* An answered write is buffered. A commit that has taken its transaction
\* shares it with Cypher calls only, and one that was answered with nobody.
CallFate ==
  \A c \in Call :
    /\ pc[c] = "ok" /\ Op(c) \in Writing => c \in buffer[On(c)]
    /\ pc[c] = "unwrapping" => Op(c) = "commit"
    /\ pc[c] \in {"unwrapping", "ok"} /\ Op(c) = "commit" =>
         /\ outs[On(c)] # {}
         /\ \A d \in Call : Busy(d) /\ On(d) = On(c) => Op(d) \notin {"insert", "query"}
    /\ pc[c] = "ok" /\ Op(c) = "commit" =>
         /\ landed[On(c)] = buffer[On(c)]
         /\ \A d \in Call : Busy(d) => On(d) # On(c)

\* What OneFate and CommitIsWhole rest on.
FateInv == req \in Scripts /\ TxFate /\ CallFate

\* Every thread waits for a shard that only a call without a thread frees.
Stalled ==
  /\ ~ThreadFree
  /\ \A c \in Running : pc[c] = "at map" /\ Readers(On(c)) # {}
  /\ sweeping => expired # {} /\ \A t \in expired : Readers(t) # {}

\* An RPC holds its shard's read lock across the await of the mutex
\* (service.rs:2611-2615). As long as a thread is left to run it, it starves
\* nobody: every call that has started ends, or all threads wait for shards,
\* which the lock-free map of architecture.md:2840 would not let them do.
CallsReturnOrStall == \A c \in Call : (pc[c] # "new") ~> (pc[c] \in Ended \/ Stalled)

\* The sweep collects with try_lock and removes later (service.rs:477-491):
\* an idle transaction is removed or used in the end, also if calls keep its
\* mutex when the sweep comes by.
IdleIsSwept ==
  \A t \in Tx : (t \in map /\ idle[t]) ~> (t \notin map \/ ~idle[t] \/ closed \/ Stalled)
=============================================================================
