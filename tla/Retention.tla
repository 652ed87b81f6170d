----------------------------- MODULE Retention -----------------------------
(***************************************************************************)
(* Retention (compaction.rs) over the orders a quad is indexed in, while   *)
(* commits go on: runs that fix their cutoffs, prune order by order from   *)
(* what they read of it, and sweep the out-of-line values nothing refers   *)
(* to.  The scheduler, the RPC and the start of the server each run it.    *)
(***************************************************************************)
EXTENDS CommitStream, Versions, Sequences, FiniteSets

CONSTANTS
  Quad,
  Hash,     \* content hashes of out-of-line values
  NoHash,   \* the value is stored inline
  HashOf,   \* of a quad's value
  Orders,   \* keys::Order::ALL, spog first
  Windows,  \* the valid-time windows [start, end] clients write
  Instant,  \* the valid times reads ask about
  Policies, \* the cutoffs runs may fix, [tx, vt]; vt = 0 for no lookback
  Run       \* runs of retention that may overlap

ASSUME HashOfType == HashOf \in [Quad -> Hash \cup {NoHash}] /\ NoHash \notin Hash
ASSUME OrdersType == Orders \in Seq(STRING) /\ Len(Orders) > 0
ASSUME TimesType ==
  /\ Windows \subseteq [start : Nat, end : Nat]
  /\ Policies \subseteq [tx : Nat, vt : Nat]
  /\ Instant \subseteq Nat

VARIABLES
  kept,     \* the versions of each quad in each order
  blob,     \* the blob column family
  pc,       \* where each run is
  cut,      \* its cutoffs
  at,       \* the order it is at
  doomed,   \* versions it has picked in that order and not deleted yet
  hits,     \* total_deleted > 0
  marked,   \* hashes its sweep found live, and then those to delete
  written,  \* history: every version a commit wrote of a quad
  horizon,  \* history: the latest cutoffs so far
  late      \* history: values last written while a sweep was under way

runVars == <<pc, cut, at, doomed, hits, marked>>
storeVars == <<kept, blob, written, late>>
retVars == <<streamVars, storeVars, runVars, horizon>>

Order == {Orders[i] : i \in DOMAIN Orders}
Spog == Orders[1]
Phase == {"idle", "scanning", "deleting", "marking", "sweeping", "erasing"}
Cutoffs == [tx : Nat, vt : Nat]

Later(m, n) == IF m > n THEN m ELSE n

-----------------------------------------------------------------------------
RetInit ==
  /\ Init
  /\ kept = [o \in Order |-> [q \in Quad |-> {}]]
  /\ blob = {}
  /\ pc = [r \in Run |-> "idle"]
  /\ cut = [r \in Run |-> [tx |-> 0, vt |-> 0]]
  /\ at = [r \in Run |-> 1]
  /\ doomed = [r \in Run |-> [q \in Quad |-> {}]]
  /\ hits = [r \in Run |-> FALSE]
  /\ marked = [r \in Run |-> {}]
  /\ written = [q \in Quad |-> {}]
  /\ horizon = [tx |-> 0, vt |-> 0]
  /\ late = {}

PublishCommit == Publish /\ UNCHANGED <<storeVars, runVars, horizon>>
FailCommit == GiveUp /\ UNCHANGED <<storeVars, runVars, horizon>>

Sweeping == \E r \in Run : pc[r] \in {"sweeping", "erasing"}

\* A commit's batch writes a version of a quad to every order, and its value
\* to the blob column family when it is out of line.  An assertion, a bounded
\* or backdated window, a correction and a retraction differ in the window.
StoreCommit(q, w) ==
  /\ Store
  /\ LET v == [start |-> w.start, end |-> w.end, tt |-> writing]
     IN  /\ kept' = [o \in Order |-> [kept[o] EXCEPT ![q] = @ \cup {v}]]
         /\ written' = [written EXCEPT ![q] = @ \cup {v}]
  /\ blob' = blob \cup ({HashOf[q]} \cap Hash)
  /\ late' = IF Sweeping THEN late \cup {HashOf[q]} ELSE late \ {HashOf[q]}
  /\ UNCHANGED <<runVars, horizon>>

-----------------------------------------------------------------------------
Goto(r, phase) == pc' = [pc EXCEPT ![r] = phase]

\* The run returns, and its locals with it.
Return(r) ==
  /\ Goto(r, "idle")
  /\ cut' = [cut EXCEPT ![r] = [tx |-> 0, vt |-> 0]]
  /\ at' = [at EXCEPT ![r] = 1]
  /\ doomed' = [doomed EXCEPT ![r] = [q \in Quad |-> {}]]
  /\ hits' = [hits EXCEPT ![r] = FALSE]
  /\ marked' = [marked EXCEPT ![r] = {}]

\* run_retention fixes its cutoffs: a policy's ages before the wall clock,
\* which may stand anywhere next to the commits' timestamps.
Start(r) ==
  /\ pc[r] = "idle"
  /\ Goto(r, "scanning")
  /\ \E c \in Policies :
        /\ cut' = [cut EXCEPT ![r] = c]
        /\ horizon' = [tx |-> Later(c.tx, horizon.tx), vt |-> Later(c.vt, horizon.vt)]
  /\ UNCHANGED <<streamVars, storeVars, at, doomed, hits, marked>>

\* prune_cf_groups: what it deletes is picked from the iterator's snapshot.
Scan(r) ==
  /\ pc[r] = "scanning"
  /\ Goto(r, "deleting")
  /\ doomed' = [doomed EXCEPT ![r] =
       [q \in Quad |-> Expired(kept[Orders[at[r]]][q], cut[r].tx, cut[r].vt)]]
  /\ UNCHANGED <<streamVars, storeVars, cut, at, hits, marked, horizon>>

\* Faulty: the whole group is deleted as it is now.
DeleteGroup(r, q) ==
  /\ pc[r] = "deleting"
  /\ doomed[r][q] # {}
  /\ kept' = [kept EXCEPT ![Orders[at[r]]][q] = {}]
  /\ doomed' = [doomed EXCEPT ![r][q] = {}]
  /\ hits' = [hits EXCEPT ![r] = TRUE]
  /\ UNCHANGED <<streamVars, blob, written, late, pc, cut, at, marked, horizon>>

\* The picked versions of a quad go in one batch; flushes of 10,000 deletes
\* put the batches of different quads at different times.
Delete(r, q) ==
  /\ pc[r] = "deleting"
  /\ doomed[r][q] # {}
  /\ kept' = [kept EXCEPT ![Orders[at[r]]][q] = @ \ doomed[r][q]]
  /\ doomed' = [doomed EXCEPT ![r][q] = {}]
  /\ hits' = [hits EXCEPT ![r] = TRUE]
  /\ UNCHANGED <<streamVars, blob, written, late, pc, cut, at, marked, horizon>>

Pruned(r) == pc[r] = "deleting" /\ \A q \in Quad : doomed[r][q] = {}

NextOrder(r) ==
  /\ Pruned(r)
  /\ at[r] < Len(Orders)
  /\ at' = [at EXCEPT ![r] = @ + 1]
  /\ Goto(r, "scanning")
  /\ UNCHANGED <<streamVars, storeVars, cut, doomed, hits, marked, horizon>>

\* After the last order values are swept if anything was deleted.
FinishOrders(r) ==
  /\ Pruned(r)
  /\ at[r] = Len(Orders)
  /\ hits[r]
  /\ Goto(r, "marking")
  /\ UNCHANGED <<streamVars, storeVars, cut, at, doomed, hits, marked, horizon>>

Referenced == {HashOf[q] : q \in {p \in Quad : kept[Spog][p] # {}}}

\* sweep_unreferenced_blobs: the hashes spog refers to
Mark(r) ==
  /\ pc[r] = "marking"
  /\ Goto(r, "sweeping")
  /\ marked' = [marked EXCEPT ![r] = Referenced \cap Hash]
  /\ UNCHANGED <<streamVars, storeVars, cut, at, doomed, hits, horizon>>

\* Faulty: the hashes that are live are the ones picked.
SweepMarked(r) ==
  /\ pc[r] = "sweeping"
  /\ Goto(r, "erasing")
  /\ marked' = [marked EXCEPT ![r] = blob \cap @]
  /\ UNCHANGED <<streamVars, storeVars, cut, at, doomed, hits, horizon>>

\* Its second pass picks the stored values that were not marked.
Sweep(r) ==
  /\ pc[r] = "sweeping"
  /\ Goto(r, "erasing")
  /\ marked' = [marked EXCEPT ![r] = blob \ @]
  /\ UNCHANGED <<streamVars, storeVars, cut, at, doomed, hits, horizon>>

Erase(r) ==
  /\ pc[r] = "erasing"
  /\ Return(r)
  /\ blob' = blob \ marked[r]
  /\ UNCHANGED <<streamVars, kept, written, late, horizon>>

\* Nothing was deleted, a write fails or the process ends; what was deleted
\* stays deleted.
Stop(r) ==
  /\ pc[r] # "idle"
  /\ Return(r)
  /\ UNCHANGED <<streamVars, storeVars, horizon>>

Retain(r) ==
  \/ Start(r) \/ Scan(r) \/ NextOrder(r) \/ FinishOrders(r)
  \/ Mark(r) \/ Sweep(r) \/ Erase(r) \/ Stop(r)
  \/ \E q \in Quad : Delete(r, q)

RetNext ==
  \/ PublishCommit \/ FailCommit
  \/ \E q \in Quad, w \in Windows : StoreCommit(q, w)
  \/ \E r \in Run : Retain(r)

RetSpec == RetInit /\ [][RetNext]_retVars

-----------------------------------------------------------------------------
(* Properties *)

RetTypeOK ==
  /\ committed \in Nat /\ writing \in Timestamp \cup {0} /\ stored \subseteq Timestamp
  /\ kept \in [Order -> [Quad -> SUBSET Version]]
  /\ written \in [Quad -> SUBSET Version]
  /\ blob \subseteq Hash /\ late \subseteq Hash \cup {NoHash}
  /\ pc \in [Run -> Phase]
  /\ cut \in [Run -> Cutoffs] /\ horizon \in Cutoffs
  /\ at \in [Run -> DOMAIN Orders]
  /\ doomed \in [Run -> [Quad -> SUBSET Version]]
  /\ hits \in [Run -> BOOLEAN]
  /\ marked \in [Run -> SUBSET Hash]

\* A window that begins before one that was removed was written after it: on
\* its own it governs, where the removed one would have hidden it.
Backdated(o, q) ==
  \E d \in written[q] \ kept[o][q], w \in kept[o][q] : w.tt > d.tt /\ w.start < d.start

\* Retention changes no answer inside its window: whatever order a read goes
\* through, at a transaction time and a valid time after every cutoff so far
\* it finds what the whole history says, over runs that overlap, stop half
\* way or race commits (select_expired, prune_cf_groups).
AnswersKept ==
  \A o \in Order, q \in Quad :
     Backdated(o, q) \/
     \A ts \in Timestamp, vt \in Instant :
        ts >= horizon.tx /\ vt >= horizon.vt
          => (Holds(kept[o][q], ts, vt) <=> Holds(written[q], ts, vt))

\* The newest version of a quad stays in every order until its own window
\* has been closed for the whole lookback, so check_conflict finds whatever
\* was written after a transaction began.
NewestKept ==
  \A o \in Order, q \in Quad : \A v \in written[q] :
     (\A w \in written[q] : w.tt <= v.tt) => v \in kept[o][q] \/ v.end < horizon.vt

\* Every value spog refers to can be loaded, unless it was last written while
\* a sweep was between marking and deleting.
BlobsResolve == Referenced \cap Hash \subseteq blob \cup late

\* Why a version of all may be missing where vs is left of its quad: a later
\* correction of its window, made before a cutoff, stands in for it, or the
\* lookback took it with everything as old.
Removable(d, all, cutoffs, vs) ==
  \/ Shadowed(d, all, cutoffs.tx)
  \/ d.end < cutoffs.vt /\ \A v \in vs : v.tt > d.tt

GoneForAReason ==
  \A o \in Order, q \in Quad :
     /\ kept[o][q] \subseteq written[q]
     /\ \A d \in written[q] \ kept[o][q] : Removable(d, written[q], horizon, kept[o][q])

\* The same of what a run has picked and is about to delete.
PickedForAReason ==
  \A r \in Run :
     /\ cut[r].tx <= horizon.tx /\ cut[r].vt <= horizon.vt
     /\ \A q \in Quad : \A d \in doomed[r][q] :
           /\ d \in written[q]
           /\ Removable(d, written[q], horizon, kept[Orders[at[r]]][q] \ doomed[r][q])

VersionsOrdered ==
  \A q \in Quad :
     /\ \A v \in written[q] : v.tt \in stored
     /\ \A v, w \in written[q] : v.tt = w.tt => v = w

\* What a sweep has still to go by while commits refer to values.
SweepHolds ==
  /\ BlobsResolve
  /\ \A r \in Run :
       /\ pc[r] = "sweeping" => Referenced \cap Hash \subseteq marked[r] \cup late
       /\ pc[r] = "erasing" => Referenced \cap marked[r] \subseteq late

\* Why answers are kept and values resolve.
RetInv ==
  /\ StreamOrdered
  /\ VersionsOrdered
  /\ GoneForAReason
  /\ PickedForAReason
  /\ SweepHolds
=============================================================================
