----------------------------- MODULE TypeIndex -----------------------------
(***************************************************************************)
(* The rdf:type index (type_index.rs) for one class, kept current from the *)
(* change log: every read of the index first catches up, or rebuilds it    *)
(* when the log was pruned past it.                                        *)
(***************************************************************************)
EXTENDS ChangeLog

CONSTANT SyncBatch  \* entries read at a time (1,000 in the code)

ASSUME SyncBatchType == SyncBatch \in Nat \ {0}

VARIABLES
  members,  \* State.by_class for the class
  applied,  \* State.applied
  pc,       \* where the holder of sync_lock is
  upTo,     \* its local applied, or the time a rebuild reads at
  touched,  \* subjects whose type the records it read mention
  due,      \* history: the newest logged commit when the sync began
  unseen    \* history: commits applied covers that the index never read

indexVars == <<members, applied, pc, upTo, touched, due, unseen>>
ixVars == <<logVars, indexVars>>

\* The commits a snapshot at ts shows that typed s; the last one decides.
Typing(s, ts) == {u \in stored : u <= ts /\ s \in what[u].add \cup what[u].del}

Decides(u, s, ts) == u \in Typing(s, ts) /\ \A v \in Typing(s, ts) : v <= u

InClass(s, ts) == \E u \in stored : Decides(u, s, ts) /\ s \in what[u].add

InstancesAt(ts) == {s \in Subject : InClass(s, ts)}

NewestLogged == IF Logged = {} THEN 0
                ELSE CHOOSE ts \in Logged : \A u \in Logged : u <= ts

-----------------------------------------------------------------------------
\* TypeIndex::build on an empty store
IndexInit ==
  /\ LogInit
  /\ members = {}
  /\ applied = 0
  /\ pc = "idle"
  /\ upTo = 0
  /\ touched = {}
  /\ due = 0
  /\ unseen = {}

\* Faulty: the log is followed however far it was pruned.
BeginSyncUnchecked ==
  /\ pc = "idle"
  /\ pc' = "catching up"
  /\ upTo' = applied
  /\ touched' = {}
  /\ due' = NewestLogged
  /\ UNCHANGED <<logVars, members, applied, unseen>>

\* sync takes sync_lock and compares the floor; a rebuild reads the oracle.
BeginSync ==
  /\ pc = "idle"
  /\ IF applied < floor
     THEN pc' = "rebuilding" /\ upTo' = committed
     ELSE pc' = "catching up" /\ upTo' = applied
  /\ touched' = {}
  /\ due' = NewestLogged
  /\ UNCHANGED <<logVars, members, applied, unseen>>

\* Scan a snapshot at the time read and install it.
Rebuild ==
  /\ pc = "rebuilding"
  /\ members' = InstancesAt(upTo)
  /\ applied' = upTo
  /\ pc' = "idle"
  /\ unseen' = IF writing # 0 /\ writing <= upTo THEN {writing} ELSE {}
  /\ UNCHANGED <<logVars, upTo, touched, due>>

\* Faulty: one batch is taken for the whole log.
ReadRecordsOnce ==
  /\ pc = "catching up"
  /\ LET records == ChangesAfter(upTo, SyncBatch)
     IN  /\ touched' = touched \cup UNION {what[ts].add \cup what[ts].del : ts \in records}
         /\ upTo' = IF records = {} THEN upTo
                    ELSE CHOOSE ts \in records : \A u \in records : u <= ts
         /\ pc' = "installing"
  /\ UNCHANGED <<logVars, members, applied, due, unseen>>

\* One round of the loop over changes_after
ReadRecords ==
  /\ pc = "catching up"
  /\ LET records == ChangesAfter(upTo, SyncBatch)
     IN  /\ touched' = touched \cup UNION {what[ts].add \cup what[ts].del : ts \in records}
         /\ upTo' = IF records = {} THEN upTo
                    ELSE CHOOSE ts \in records : \A u \in records : u <= ts
         /\ pc' = IF Cardinality(records) < SyncBatch THEN "installing" ELSE pc
  /\ UNCHANGED <<logVars, members, applied, due, unseen>>

\* Recompute the touched subjects from a snapshot and install them.
Install ==
  /\ pc = "installing"
  /\ members' = (members \ touched) \cup (InstancesAt(upTo) \cap touched)
  /\ applied' = upTo
  /\ pc' = "idle"
  /\ UNCHANGED <<logVars, upTo, touched, due, unseen>>

\* A step of the store; the pruner may run ahead of a sync that has already
\* compared the floor.
IndexLogStep ==
  /\ LogNext
  /\ unseen' = IF pc = "catching up"
               THEN unseen \cup {ts \in chg \ chg' : ts > upTo}
               ELSE unseen
  /\ UNCHANGED <<members, applied, pc, upTo, touched, due>>

Sync == BeginSync \/ Rebuild \/ ReadRecords \/ Install

IndexNext == IndexLogStep \/ Sync

IndexSpec == IndexInit /\ [][IndexNext]_ixVars

-----------------------------------------------------------------------------
(* Properties *)

IndexTypeOK ==
  /\ LogTypeOK
  /\ members \subseteq Subject /\ touched \subseteq Subject
  /\ applied \in Nat /\ upTo \in Nat /\ due \in Nat
  /\ pc \in {"idle", "rebuilding", "catching up", "installing"}
  /\ unseen \subseteq Timestamp

\* The index shows what a snapshot at applied shows of every subject whose
\* last typing it has read; what it may not have read is one commit in flight
\* at a rebuild, or entries pruned between a sync's floor check and its
\* reading of the log.
IndexShowsWhatItRead ==
  \A s \in Subject :
     (\E u \in unseen : Decides(u, s, applied)) \/ (s \in members <=> InClass(s, applied))

\* A finished sync has caught up with every commit logged before it began
\* that the pruner left it.
SyncCatchesUp == pc = "idle" => due <= applied \/ due <= floor

\* What a sync in progress has read of the log, and has still ahead of it.
SyncHolds ==
  /\ pc \in {"catching up", "installing"} =>
       /\ applied <= upTo
       /\ writing # 0 /\ writing <= upTo => writing \in unseen
       /\ \A s \in Subject \ touched : \A u \in Typing(s, upTo) : u <= applied \/ u \in unseen
  /\ pc = "catching up" => \A u \in Logged : u <= upTo \/ u \in chg \/ u \in unseen
  /\ pc # "idle" => due <= upTo \/ due <= floor \/ (pc = "catching up" /\ due \in chg)

\* Why: what the index may have missed up to applied is in unseen.
IndexInv ==
  /\ LogInv
  /\ applied <= committed /\ upTo <= committed
  /\ writing # 0 /\ writing <= applied => writing \in unseen
  /\ IndexShowsWhatItRead
  /\ SyncHolds
  /\ SyncCatchesUp
=============================================================================
