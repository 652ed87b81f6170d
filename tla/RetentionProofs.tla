-------------------------- MODULE RetentionProofs --------------------------
(***************************************************************************)
(* Retention keeps its promises for every set of orders, quads, policies   *)
(* and overlapping runs: what a missing version leaves behind (RetInv) is  *)
(* inductive, and makes every read inside the window come out the same.    *)
(***************************************************************************)
EXTENDS Retention, FiniteSetTheorems, WellFoundedInduction, TLAPS

-----------------------------------------------------------------------------
(* Versions of a quad *)

\* Of the versions of one window committed before a time, one is the newest.
LEMMA NewestOfWindow ==
  ASSUME NEW vs \in SUBSET Version, NEW b \in Nat, NEW s \in Nat,
         \E v \in vs : v.start = s /\ v.tt < b
  PROVE  \E v \in vs : /\ v.start = s /\ v.tt < b
                       /\ \A w \in vs : w.start = s /\ w.tt < b => w.tt <= v.tt
<1> DEFINE V == {v \in vs : v.start = s /\ v.tt < b}
           T == {n \in Nat : \E v \in V : n = b - v.tt}
<1>1. \A v \in V : v.tt \in Nat /\ v.tt < b /\ b - v.tt \in Nat
  BY DEF Version
<1>2. T \in SUBSET Nat /\ T # {}
  BY <1>1
<1>3. PICK m \in T : \A u \in T : ~ (<<u, m>> \in OpToRel(<, Nat))
  BY <1>2, NatLessThanWellFounded, WFMin, Zenon
<1>4. \A u \in T : ~ (u < m)
  BY <1>3 DEF OpToRel
<1>5. PICK v \in V : m = b - v.tt
  BY <1>3
<1>6. ASSUME NEW w \in V
      PROVE  w.tt <= v.tt
  <2>1. ~ (b - w.tt < b - v.tt)
    BY <1>1, <1>4, <1>5
  <2> QED
    BY <1>1, <2>1
<1> QED
  BY <1>5, <1>6

\* What is missing of a quad's versions changes no answer at or after the
\* cutoffs, unless a window that begins before a missing one outlives it.
LEMMA MissingChangesNothing ==
  ASSUME NEW all \in SUBSET Version, NEW vs \in SUBSET all,
         NEW tx \in Nat, NEW cut0 \in Nat,
         \A v, w \in all : v.tt = w.tt => v = w,
         \A d \in all \ vs : \/ Shadowed(d, all, tx)
                             \/ d.end < cut0 /\ \A v \in vs : v.tt > d.tt,
         \A d \in all \ vs, w \in vs : ~(w.tt > d.tt /\ w.start < d.start),
         NEW ts \in Nat, NEW vt \in Nat, ts >= tx, vt >= cut0
  PROVE  Holds(vs, ts, vt) <=> Holds(all, ts, vt)
<1> USE DEF Version
<1>1. ASSUME NEW v \in all, Governs(v, all, ts, vt), vt < v.end
      PROVE  Holds(vs, ts, vt)
  <2>1. ~Shadowed(v, all, tx)
    <3> SUFFICES ASSUME NEW w \in all, w.start = v.start, w.tt > v.tt, w.tt < tx
                 PROVE  FALSE
      BY DEF Shadowed
    <3>1. InView(w, ts, vt) /\ Beats(w, v)
      BY <1>1 DEF InView, Beats, Governs
    <3> QED
      BY <1>1, <3>1 DEF Governs
  <2>2. v \in vs
    BY <1>1, <2>1
  <2> QED
    BY <1>1, <2>2 DEF Governs, Holds
<1>2. ASSUME NEW v \in vs, Governs(v, vs, ts, vt), vt < v.end,
             NEW w \in all, InView(w, ts, vt), Beats(w, v)
      PROVE  FALSE
  <2>1. w \notin vs
    BY <1>2 DEF Governs
  <2>2. PICK m \in all : /\ m.start = w.start /\ InView(m, ts, vt) /\ Beats(m, v)
                         /\ ~Shadowed(m, all, tx)
    <3>1. CASE ~Shadowed(w, all, tx)
      BY <1>2, <3>1
    <3>2. CASE Shadowed(w, all, tx)
      <4>1. PICK u \in all : u.start = w.start /\ u.tt > w.tt /\ u.tt < tx
        BY <3>2 DEF Shadowed
      <4>2. PICK m \in all :
               /\ m.start = w.start /\ m.tt < tx
               /\ \A x \in all : x.start = w.start /\ x.tt < tx => x.tt <= m.tt
        BY <4>1, NewestOfWindow
      <4>3. m.tt > w.tt
        BY <4>1, <4>2
      <4>4. InView(m, ts, vt) /\ Beats(m, v)
        BY <1>2, <4>2, <4>3 DEF InView, Beats
      <4>5. ~Shadowed(m, all, tx)
        BY <4>2 DEF Shadowed
      <4> QED
        BY <4>2, <4>4, <4>5
    <3> QED
      BY <3>1, <3>2
  <2>3. m \notin vs
    BY <1>2, <2>2 DEF Governs
  <2>4. v.tt > m.tt
    BY <2>2, <2>3
  <2>5. ~(v.start < m.start)
    BY <2>3, <2>4
  <2> QED
    BY <2>2, <2>4, <2>5 DEF Beats
<1>3. ASSUME NEW v \in vs, Governs(v, vs, ts, vt), vt < v.end
      PROVE  Holds(all, ts, vt)
  BY <1>2, <1>3 DEF Governs, Holds
<1> QED
  BY <1>1, <1>3 DEF Governs, Holds

-----------------------------------------------------------------------------
(* Types *)

USE TimestampsArePositive

LEMMA OrderFacts ==
  /\ Spog \in Order /\ 1 \in DOMAIN Orders /\ DOMAIN Orders = 1 .. Len(Orders)
  /\ Len(Orders) \in Nat
  /\ \A i \in DOMAIN Orders : Orders[i] \in Order
  BY OrdersType DEF Order, Spog

LEMMA RetInitTypes == RetInit => RetTypeOK
  BY OrderFacts DEF RetInit, Init, RetTypeOK, Phase, Cutoffs

\* The locals of a run that returns
LEMMA ReturnTypes ==
  ASSUME RetTypeOK, NEW r \in Run, Return(r)
  PROVE  /\ pc' \in [Run -> Phase] /\ cut' \in [Run -> Cutoffs]
         /\ at' \in [Run -> DOMAIN Orders]
         /\ doomed' \in [Run -> [Quad -> SUBSET Version]]
         /\ hits' \in [Run -> BOOLEAN] /\ marked' \in [Run -> SUBSET Hash]
  BY OrderFacts DEF Return, Goto, RetTypeOK, Phase, Cutoffs

LEMMA RetTypeStep ==
  ASSUME RetTypeOK, RetNext
  PROVE  RetTypeOK'
<1> USE DEF RetTypeOK, storeVars, runVars, streamVars, Goto, Phase
<1>1. CASE PublishCommit
  BY <1>1 DEF PublishCommit, Publish
<1>2. CASE FailCommit
  BY <1>2 DEF FailCommit, GiveUp
<1>3. ASSUME NEW q \in Quad, NEW w \in Windows, StoreCommit(q, w)
      PROVE  RetTypeOK'
  <2> DEFINE v == [start |-> w.start, end |-> w.end, tt |-> writing]
  <2>1. /\ writing \in Timestamp /\ committed' = committed /\ writing' = 0
        /\ stored' = stored \cup {writing}
    BY <1>3 DEF StoreCommit, Store
  <2>2. v \in Version
    BY <2>1, TimesType DEF Version
  <2> HIDE DEF v
  <2>3. /\ kept' = [o \in Order |-> [kept[o] EXCEPT ![q] = @ \cup {v}]]
        /\ written' = [written EXCEPT ![q] = @ \cup {v}]
    BY <1>3 DEF StoreCommit, v
  <2>4. kept' \in [Order -> [Quad -> SUBSET Version]] /\ written' \in [Quad -> SUBSET Version]
    BY <2>2, <2>3
  <2>5. blob' \subseteq Hash /\ late' \subseteq Hash \cup {NoHash}
    BY <1>3, HashOfType DEF StoreCommit
  <2>6. UNCHANGED <<runVars, horizon>>
    BY <1>3 DEF StoreCommit
  <2> QED
    BY <2>1, <2>4, <2>5, <2>6
<1>4. ASSUME NEW r \in Run, Retain(r)
      PROVE  RetTypeOK'
  <2>1. CASE Start(r)
    <3>1. PICK c \in Policies :
             /\ cut' = [cut EXCEPT ![r] = c]
             /\ horizon' = [tx |-> Later(c.tx, horizon.tx), vt |-> Later(c.vt, horizon.vt)]
      BY <2>1 DEF Start
    <3>2. c \in Cutoffs
      BY TimesType DEF Cutoffs
    <3>3. cut' \in [Run -> Cutoffs] /\ horizon' \in Cutoffs
      BY <3>1, <3>2 DEF Cutoffs, Later
    <3> QED
      BY <2>1, <3>3 DEF Start
  <2>2. CASE Scan(r)
    <3>1. \A vs \in SUBSET Version, tx, vt \in Nat : Expired(vs, tx, vt) \in SUBSET Version
      BY DEF Expired
    <3>2. \A q \in Quad : kept[Orders[at[r]]][q] \in SUBSET Version
      BY OrderFacts
    <3>3. cut[r].tx \in Nat /\ cut[r].vt \in Nat
      BY DEF Cutoffs
    <3>4. doomed' \in [Run -> [Quad -> SUBSET Version]]
      BY <2>2, <3>1, <3>2, <3>3 DEF Scan
    <3> QED
      BY <2>2, <3>4 DEF Scan
  <2>3. CASE NextOrder(r)
    <3>1. at[r] \in 1 .. Len(Orders) /\ at[r] + 1 \in DOMAIN Orders
      BY <2>3, OrderFacts DEF NextOrder
    <3> QED
      BY <2>3, <3>1 DEF NextOrder
  <2>4. CASE FinishOrders(r)
    BY <2>4 DEF FinishOrders
  <2>5. CASE Mark(r)
    BY <2>5 DEF Mark
  <2>6. CASE Sweep(r)
    BY <2>6 DEF Sweep
  <2>7. CASE Erase(r)
    BY <2>7, ReturnTypes DEF Erase
  <2>8. CASE Stop(r)
    BY <2>8, ReturnTypes DEF Stop
  <2>9. ASSUME NEW q \in Quad, Delete(r, q)
        PROVE  RetTypeOK'
    <3>1. Orders[at[r]] \in Order
      BY OrderFacts
    <3>2. kept' \in [Order -> [Quad -> SUBSET Version]]
      BY <2>9, <3>1 DEF Delete
    <3>3. doomed' \in [Run -> [Quad -> SUBSET Version]]
      BY <2>9 DEF Delete
    <3> QED
      BY <2>9, <3>2, <3>3 DEF Delete
  <2> QED
    BY <1>4, <2>1, <2>2, <2>3, <2>4, <2>5, <2>6, <2>7, <2>8, <2>9 DEF Retain
<1> QED
  BY <1>1, <1>2, <1>3, <1>4 DEF RetNext

\* Every variable of the retention model keeps its type (run_retention).
THEOREM RetentionTypes == RetSpec => []RetTypeOK
<1>1. RetTypeOK /\ [RetNext]_retVars => RetTypeOK'
  <2> SUFFICES ASSUME RetTypeOK, UNCHANGED retVars
               PROVE  RetTypeOK'
    BY RetTypeStep
  <2> QED
    BY DEF RetTypeOK, retVars, storeVars, runVars, streamVars
<1> QED
  BY <1>1, RetInitTypes, PTL DEF RetSpec

-----------------------------------------------------------------------------
(* What a missing version leaves behind *)

\* A reason to be missing outlives new versions of other times, prunings and
\* later cutoffs.
LEMMA ReasonStays ==
  ASSUME NEW d \in Version, NEW all, NEW more \in SUBSET Version, all \subseteq more,
         NEW c \in Cutoffs, NEW e \in Cutoffs, c.tx <= e.tx, c.vt <= e.vt,
         NEW vs, NEW us, \A u \in us : u \in vs \/ u.tt > d.tt,
         Removable(d, all, c, vs)
  PROVE  Removable(d, more, e, us)
<1> USE DEF Removable, Cutoffs, Version
<1>1. CASE Shadowed(d, all, c.tx)
  <2>1. PICK w \in all : w.start = d.start /\ w.tt > d.tt /\ w.tt < c.tx
    BY <1>1 DEF Shadowed
  <2>2. w.tt \in Nat /\ w.tt < e.tx
    BY <2>1
  <2> QED
    BY <2>1, <2>2 DEF Shadowed
<1>2. CASE d.end < c.vt /\ \A v \in vs : v.tt > d.tt
  BY <1>2
<1> QED
  BY <1>1, <1>2

\* Everything a policy expires has its reason.
LEMMA ExpiredHasReason ==
  ASSUME NEW vs \in SUBSET Version, NEW c \in Cutoffs,
         NEW d \in Expired(vs, c.tx, c.vt)
  PROVE  d \in vs /\ Removable(d, vs, c, vs \ Expired(vs, c.tx, c.vt))
  BY DEF Expired, Removable

LEMMA RetInitInv == RetInit => RetInv
<1> SUFFICES ASSUME RetInit
             PROVE  RetInv
  OBVIOUS
<1> USE DEF RetInit, Init
<1>1. StreamOrdered /\ VersionsOrdered
  BY DEF StreamOrdered, VersionsOrdered
<1>2. GoneForAReason
  BY DEF GoneForAReason
<1>3. PickedForAReason
  BY DEF PickedForAReason
<1>4. Referenced = {}
  BY OrderFacts DEF Referenced
<1>5. SweepHolds
  BY <1>4 DEF SweepHolds, BlobsResolve
<1> QED
  BY <1>1, <1>2, <1>3, <1>5 DEF RetInv

\* Steps that touch neither versions nor values nor what runs have picked.
LEMMA PlainStep ==
  ASSUME RetInv, StreamOrdered', stored \subseteq stored',
         UNCHANGED <<storeVars, cut, at, doomed, horizon, pc, marked>>
  PROVE  RetInv'
<1>1. /\ kept' = kept /\ blob' = blob /\ written' = written /\ late' = late
      /\ cut' = cut /\ at' = at /\ doomed' = doomed /\ horizon' = horizon
      /\ pc' = pc /\ marked' = marked
  BY DEF storeVars
<1>2. VersionsOrdered'
  BY <1>1 DEF RetInv, VersionsOrdered
<1>3. GoneForAReason' /\ PickedForAReason'
  BY <1>1 DEF RetInv, GoneForAReason, PickedForAReason
<1>4. SweepHolds'
  BY <1>1 DEF RetInv, SweepHolds, BlobsResolve, Referenced
<1> QED
  BY <1>2, <1>3, <1>4 DEF RetInv

\* A commit's versions are later than all that is missing.
LEMMA StoreStep ==
  ASSUME RetTypeOK, RetInv, NEW q \in Quad, NEW w \in Windows, StoreCommit(q, w)
  PROVE  RetInv'
<1> DEFINE v == [start |-> w.start, end |-> w.end, tt |-> writing]
<1>1. /\ writing \in Timestamp /\ writing # 0 /\ committed' = committed /\ writing' = 0
      /\ stored' = stored \cup {writing} /\ UNCHANGED <<runVars, horizon>>
  BY DEF StoreCommit, Store, RetTypeOK
<1>2. v \in Version /\ v.tt = writing
  BY <1>1, TimesType DEF Version
<1> HIDE DEF v
<1>3. /\ \A o \in Order, x \in Quad :
            kept'[o][x] = IF x = q THEN kept[o][x] \cup {v} ELSE kept[o][x]
      /\ \A x \in Quad :
            written'[x] = IF x = q THEN written[x] \cup {v} ELSE written[x]
  BY DEF StoreCommit, RetTypeOK, v
<1>4. \A ts \in stored : ts \in Nat /\ ts < writing
  <2>1. /\ \A ts \in stored : ts \in Nat /\ ts <= committed
        /\ committed \in Nat /\ writing = committed /\ writing \notin stored
    BY <1>1 DEF RetInv, StreamOrdered, RetTypeOK
  <2> QED
    BY <2>1
<1>5. StreamOrdered'
  BY <1>1, <1>4 DEF StreamOrdered, RetInv, RetTypeOK
<1>6. \A x \in Quad : \A d \in written[x] : d \in Version /\ d.tt < writing /\ d.tt # writing
  <2>1. \A x \in Quad : written[x] \in SUBSET Version
    BY DEF RetTypeOK
  <2>2. \A x \in Quad : \A d \in written[x] : d.tt \in stored
    BY DEF RetInv, VersionsOrdered
  <2> QED
    BY <1>1, <1>4, <2>1, <2>2
<1>7. VersionsOrdered'
  <2> SUFFICES ASSUME NEW x \in Quad
               PROVE  /\ \A u \in written'[x] : u.tt \in stored'
                      /\ \A u, y \in written'[x] : u.tt = y.tt => u = y
    BY DEF VersionsOrdered
  <2>1. /\ \A u \in written[x] : u.tt \in stored
        /\ \A u, y \in written[x] : u.tt = y.tt => u = y
    BY DEF RetInv, VersionsOrdered
  <2>2. \A u \in written'[x] : u \in written[x] \/ u = v
    BY <1>3
  <2>3. \A u \in written[x] : u.tt # v.tt
    BY ONLY <1>2, <1>6, x \in Quad
  <2>4. \A u \in written'[x] : u.tt \in stored'
    BY ONLY <1>1, <1>2, <2>1, <2>2
  <2>5. \A u, y \in written'[x] : u.tt = y.tt => u = y
    BY ONLY <2>1, <2>2, <2>3
  <2> QED
    BY <2>4, <2>5
<1>8. \A x \in Quad : /\ written[x] \subseteq written'[x]
                      /\ written'[x] \in SUBSET Version
  <2>1. \A x \in Quad : written[x] \in SUBSET Version
    BY DEF RetTypeOK
  <2> QED
    BY ONLY <1>2, <1>3, <2>1
<1>9. ASSUME NEW x \in Quad, NEW d \in written[x], NEW vs, NEW us,
             Removable(d, written[x], horizon, vs),
             \A u \in us : u \in vs \/ u = v
      PROVE  Removable(d, written'[x], horizon, us)
  <2>1. \A u \in us : u \in vs \/ u.tt > d.tt
    BY <1>2, <1>6, <1>9
  <2>2. horizon \in Cutoffs /\ horizon.tx <= horizon.tx /\ horizon.vt <= horizon.vt
    BY DEF RetTypeOK, Cutoffs
  <2> QED
    BY <1>6, <1>8, <1>9, <2>1, <2>2, ReasonStays
<1>10. GoneForAReason'
  <2> SUFFICES ASSUME NEW o \in Order, NEW x \in Quad
               PROVE  /\ kept'[o][x] \subseteq written'[x]
                      /\ \A d \in written'[x] \ kept'[o][x] :
                            Removable(d, written'[x], horizon', kept'[o][x])
    BY DEF GoneForAReason
  <2>1. kept[o][x] \subseteq written[x] /\ kept'[o][x] \subseteq written'[x]
    BY <1>3 DEF RetInv, GoneForAReason
  <2>2. ASSUME NEW d \in written'[x] \ kept'[o][x]
        PROVE  Removable(d, written'[x], horizon', kept'[o][x])
    <3>1. d \in written[x] \ kept[o][x]
      BY <1>3, <2>2
    <3>2. Removable(d, written[x], horizon, kept[o][x])
      BY <3>1 DEF RetInv, GoneForAReason
    <3>3. \A u \in kept'[o][x] : u \in kept[o][x] \/ u = v
      BY <1>3
    <3>4. horizon' = horizon
      BY <1>1
    <3> QED
      BY <1>9, <3>1, <3>2, <3>3, <3>4
  <2> QED
    BY <2>1, <2>2
<1>11. PickedForAReason'
  <2> SUFFICES ASSUME NEW r \in Run
               PROVE  /\ cut[r].tx <= horizon.tx /\ cut[r].vt <= horizon.vt
                      /\ \A x \in Quad : \A d \in doomed[r][x] :
                            /\ d \in written'[x]
                            /\ Removable(d, written'[x], horizon,
                                         kept'[Orders[at[r]]][x] \ doomed[r][x])
    <3>1. /\ cut' = cut /\ at' = at /\ doomed' = doomed /\ horizon' = horizon
      BY <1>1 DEF runVars
    <3> QED
      BY <3>1 DEF PickedForAReason
  <2>1. ASSUME NEW x \in Quad, NEW d \in doomed[r][x]
        PROVE  Removable(d, written'[x], horizon, kept'[Orders[at[r]]][x] \ doomed[r][x])
    <3>1. /\ d \in written[x]
          /\ Removable(d, written[x], horizon, kept[Orders[at[r]]][x] \ doomed[r][x])
      BY <2>1 DEF RetInv, PickedForAReason
    <3>2. Orders[at[r]] \in Order
      BY OrderFacts DEF RetTypeOK
    <3>3. kept'[Orders[at[r]]][x] \subseteq kept[Orders[at[r]]][x] \cup {v}
      BY <1>3, <3>2
    <3>4. \A u \in kept'[Orders[at[r]]][x] \ doomed[r][x] :
             u \in kept[Orders[at[r]]][x] \ doomed[r][x] \/ u = v
      BY <3>3
    <3> QED
      BY <1>9, <3>1, <3>4
  <2> QED
    BY <1>8, <2>1 DEF RetInv, PickedForAReason
<1>12. /\ Referenced' \subseteq Referenced \cup {HashOf[q]}
       /\ blob' = blob \cup ({HashOf[q]} \cap Hash)
       /\ late' = IF Sweeping THEN late \cup {HashOf[q]} ELSE late \ {HashOf[q]}
       /\ pc' = pc /\ marked' = marked
  BY <1>1, <1>3, OrderFacts DEF StoreCommit, Referenced, runVars
<1>13. SweepHolds'
  <2>1. CASE Sweeping
    BY <1>12, <2>1 DEF RetInv, SweepHolds, BlobsResolve
  <2>2. CASE ~Sweeping
    BY <1>12, <2>2 DEF RetInv, SweepHolds, BlobsResolve, Sweeping
  <2> QED
    BY <2>1, <2>2
<1> QED
  BY <1>5, <1>7, <1>10, <1>11, <1>13 DEF RetInv

\* A run deletes what it picked: the others keep their reasons with less left.
LEMMA DeleteStep ==
  ASSUME RetTypeOK, RetInv, NEW r \in Run, NEW q \in Quad, Delete(r, q)
  PROVE  RetInv'
<1> DEFINE o == Orders[at[r]]
<1>1. o \in Order /\ o = Orders[at[r]]
  BY OrderFacts DEF RetTypeOK
<1> HIDE DEF o
<1>2. /\ UNCHANGED streamVars /\ blob' = blob /\ written' = written /\ late' = late
      /\ pc' = pc /\ cut' = cut /\ at' = at /\ marked' = marked /\ horizon' = horizon
  BY DEF Delete
<1>3. \A p \in Order, x \in Quad :
         kept'[p][x] = IF p = o /\ x = q THEN kept[p][x] \ doomed[r][q] ELSE kept[p][x]
  BY <1>1 DEF Delete, RetTypeOK
<1>4. \A s \in Run, x \in Quad :
         doomed'[s][x] = IF s = r /\ x = q THEN {} ELSE doomed[s][x]
  BY DEF Delete, RetTypeOK
<1>5. StreamOrdered' /\ VersionsOrdered'
  BY <1>2 DEF RetInv, StreamOrdered, VersionsOrdered, streamVars
<1>6. ASSUME NEW x \in Quad, NEW d \in written[x], NEW vs, NEW us, us \subseteq vs,
             Removable(d, written[x], horizon, vs)
      PROVE  Removable(d, written[x], horizon, us)
  BY <1>6 DEF Removable
<1>7. GoneForAReason'
  <2> SUFFICES ASSUME NEW p \in Order, NEW x \in Quad
               PROVE  /\ kept'[p][x] \subseteq written[x]
                      /\ \A d \in written[x] \ kept'[p][x] :
                            Removable(d, written[x], horizon, kept'[p][x])
    BY <1>2 DEF GoneForAReason
  <2>1. kept'[p][x] \subseteq kept[p][x] /\ kept[p][x] \subseteq written[x]
    BY <1>3 DEF RetInv, GoneForAReason
  <2>2. ASSUME NEW d \in written[x] \ kept'[p][x]
        PROVE  Removable(d, written[x], horizon, kept'[p][x])
    <3>1. CASE d \notin kept[p][x]
      <4>1. Removable(d, written[x], horizon, kept[p][x])
        BY <3>1 DEF RetInv, GoneForAReason
      <4> QED
        BY <1>6, <2>1, <4>1
    <3>2. CASE d \in kept[p][x]
      <4>1. p = o /\ x = q /\ d \in doomed[r][q] /\ kept'[p][x] = kept[o][q] \ doomed[r][q]
        BY <1>3, <2>2, <3>2
      <4>2. Removable(d, written[q], horizon, kept[o][q] \ doomed[r][q])
        BY <1>1, <4>1 DEF RetInv, PickedForAReason
      <4> QED
        BY <4>1, <4>2
    <3> QED
      BY <3>1, <3>2
  <2> QED
    BY <2>1, <2>2
<1>8. PickedForAReason'
  <2> SUFFICES ASSUME NEW s \in Run
               PROVE  /\ cut[s].tx <= horizon.tx /\ cut[s].vt <= horizon.vt
                      /\ \A x \in Quad : \A d \in doomed'[s][x] :
                            /\ d \in written[x]
                            /\ Removable(d, written[x], horizon,
                                         kept'[Orders[at[s]]][x] \ doomed'[s][x])
    BY <1>2 DEF PickedForAReason
  <2>1. ASSUME NEW x \in Quad, NEW d \in doomed'[s][x]
        PROVE  /\ d \in written[x]
               /\ Removable(d, written[x], horizon, kept'[Orders[at[s]]][x] \ doomed'[s][x])
    <3>1. d \in doomed[s][x] /\ doomed'[s][x] = doomed[s][x]
      BY <1>4, <2>1
    <3>2. /\ d \in written[x]
          /\ Removable(d, written[x], horizon, kept[Orders[at[s]]][x] \ doomed[s][x])
      BY <3>1 DEF RetInv, PickedForAReason
    <3>3. Orders[at[s]] \in Order
      BY OrderFacts DEF RetTypeOK
    <3>4. kept'[Orders[at[s]]][x] \subseteq kept[Orders[at[s]]][x]
      BY <1>3, <3>3
    <3>5. kept'[Orders[at[s]]][x] \ doomed'[s][x] \subseteq kept[Orders[at[s]]][x] \ doomed[s][x]
      BY <3>1, <3>4
    <3> QED
      BY <1>6, <3>2, <3>5
  <2> QED
    BY <2>1 DEF RetInv, PickedForAReason
<1>9. Referenced' \subseteq Referenced
  <2>1. \A x \in Quad : kept'[Spog][x] \subseteq kept[Spog][x]
    BY <1>3, OrderFacts
  <2> QED
    BY <2>1 DEF Referenced
<1>10. SweepHolds'
  BY <1>2, <1>9 DEF RetInv, SweepHolds, BlobsResolve
<1> QED
  BY <1>5, <1>7, <1>8, <1>10 DEF RetInv

\* A run picks what its policy expires of the versions it reads.
LEMMA ScanStep ==
  ASSUME RetTypeOK, RetInv, NEW r \in Run, Scan(r)
  PROVE  RetInv'
<1> DEFINE o == Orders[at[r]]
<1>1. o \in Order /\ o = Orders[at[r]]
  BY OrderFacts DEF RetTypeOK
<1> HIDE DEF o
<1>2. /\ UNCHANGED streamVars /\ kept' = kept /\ blob' = blob /\ written' = written
      /\ late' = late /\ cut' = cut /\ at' = at /\ marked' = marked /\ horizon' = horizon
  BY DEF Scan, storeVars
<1>3. \A s \in Run, x \in Quad :
         doomed'[s][x] = IF s = r THEN Expired(kept[o][x], cut[r].tx, cut[r].vt)
                         ELSE doomed[s][x]
  BY <1>1 DEF Scan, RetTypeOK
<1>4. StreamOrdered' /\ VersionsOrdered'
  BY <1>2 DEF RetInv, StreamOrdered, VersionsOrdered, streamVars
<1>5. GoneForAReason'
  BY <1>2 DEF RetInv, GoneForAReason
<1>6. ASSUME NEW x \in Quad, NEW d \in Expired(kept[o][x], cut[r].tx, cut[r].vt)
      PROVE  /\ d \in written[x]
             /\ Removable(d, written[x], horizon,
                   kept[o][x] \ Expired(kept[o][x], cut[r].tx, cut[r].vt))
  <2>1. /\ kept[o][x] \in SUBSET Version /\ written[x] \in SUBSET Version
        /\ kept[o][x] \subseteq written[x]
    BY <1>1 DEF RetTypeOK, RetInv, GoneForAReason
  <2>2. cut[r] \in Cutoffs /\ horizon \in Cutoffs
        /\ cut[r].tx <= horizon.tx /\ cut[r].vt <= horizon.vt
    BY DEF RetTypeOK, RetInv, PickedForAReason
  <2> DEFINE left == kept[o][x] \ Expired(kept[o][x], cut[r].tx, cut[r].vt)
  <2>3. d \in kept[o][x] /\ Removable(d, kept[o][x], cut[r], left)
    BY <2>1, <2>2, ExpiredHasReason
  <2>4. \A u \in left : u \in left \/ u.tt > d.tt
    OBVIOUS
  <2> HIDE DEF left
  <2>5. Removable(d, written[x], horizon, left)
    BY <2>1, <2>2, <2>3, <2>4, ReasonStays
  <2> QED
    BY <2>1, <2>3, <2>5 DEF left
<1>7. PickedForAReason'
  <2> SUFFICES ASSUME NEW s \in Run
               PROVE  /\ cut[s].tx <= horizon.tx /\ cut[s].vt <= horizon.vt
                      /\ \A x \in Quad : \A d \in doomed'[s][x] :
                            /\ d \in written[x]
                            /\ Removable(d, written[x], horizon,
                                         kept[Orders[at[s]]][x] \ doomed'[s][x])
    BY <1>2 DEF PickedForAReason
  <2>1. ASSUME NEW x \in Quad, NEW d \in doomed'[s][x]
        PROVE  /\ d \in written[x]
               /\ Removable(d, written[x], horizon, kept[Orders[at[s]]][x] \ doomed'[s][x])
    <3>1. CASE s = r
      <4>1. doomed'[s][x] = Expired(kept[o][x], cut[r].tx, cut[r].vt)
        BY <1>3, <3>1
      <4>2. Orders[at[s]] = o
        BY <1>1, <3>1
      <4>3. d \in Expired(kept[o][x], cut[r].tx, cut[r].vt)
        BY <2>1, <4>1
      <4> QED
        BY <1>6, <4>1, <4>2, <4>3
    <3>2. CASE s # r
      <4>1. doomed'[s][x] = doomed[s][x]
        BY <1>3, <3>2
      <4> QED
        BY <2>1, <4>1 DEF RetInv, PickedForAReason
    <3> QED
      BY <3>1, <3>2
  <2> QED
    BY <2>1 DEF RetInv, PickedForAReason
<1>8. SweepHolds'
  <2>1. \A s \in Run : pc'[s] \in {"sweeping", "erasing"} => pc'[s] = pc[s]
    BY DEF Scan, Goto, RetTypeOK
  <2>2. Referenced' = Referenced
    BY <1>2 DEF Referenced
  <2> QED
    BY <1>2, <2>1, <2>2 DEF RetInv, SweepHolds, BlobsResolve
<1> QED
  BY <1>4, <1>5, <1>7, <1>8 DEF RetInv

\* A run fixes its cutoffs, and the horizon covers them.
LEMMA StartStep ==
  ASSUME RetTypeOK, RetInv, NEW r \in Run, Start(r)
  PROVE  RetInv'
<1>1. /\ UNCHANGED streamVars /\ kept' = kept /\ blob' = blob /\ written' = written
      /\ late' = late /\ at' = at /\ doomed' = doomed /\ marked' = marked
  BY DEF Start, storeVars
<1>2. PICK c \in Policies :
         /\ cut' = [cut EXCEPT ![r] = c]
         /\ horizon' = [tx |-> Later(c.tx, horizon.tx), vt |-> Later(c.vt, horizon.vt)]
  BY DEF Start
<1>3. /\ c.tx \in Nat /\ c.vt \in Nat /\ horizon.tx \in Nat /\ horizon.vt \in Nat
      /\ horizon \in Cutoffs
  BY TimesType DEF RetTypeOK, Cutoffs
<1>4. /\ horizon'.tx = Later(c.tx, horizon.tx) /\ horizon'.vt = Later(c.vt, horizon.vt)
      /\ horizon' \in Cutoffs
  BY <1>2, <1>3 DEF Cutoffs, Later
<1>5. /\ c.tx <= horizon'.tx /\ c.vt <= horizon'.vt
      /\ horizon.tx <= horizon'.tx /\ horizon.vt <= horizon'.vt
  BY <1>3, <1>4 DEF Later
<1>6. ASSUME NEW x \in Quad, NEW d \in written[x], NEW vs,
             Removable(d, written[x], horizon, vs)
      PROVE  Removable(d, written[x], horizon', vs)
  <2>1. written[x] \in SUBSET Version
    BY DEF RetTypeOK
  <2> QED
    BY <1>3, <1>4, <1>5, <1>6, <2>1, ReasonStays
<1>7. StreamOrdered' /\ VersionsOrdered'
  BY <1>1 DEF RetInv, StreamOrdered, VersionsOrdered, streamVars
<1>8. GoneForAReason'
  <2> SUFFICES ASSUME NEW o \in Order, NEW x \in Quad
               PROVE  /\ kept[o][x] \subseteq written[x]
                      /\ \A d \in written[x] \ kept[o][x] :
                            Removable(d, written[x], horizon', kept[o][x])
    BY <1>1 DEF GoneForAReason
  <2> QED
    BY <1>6 DEF RetInv, GoneForAReason
<1>9. PickedForAReason'
  <2> SUFFICES ASSUME NEW s \in Run
               PROVE  /\ cut'[s].tx <= horizon'.tx /\ cut'[s].vt <= horizon'.vt
                      /\ \A x \in Quad : \A d \in doomed[s][x] :
                            /\ d \in written[x]
                            /\ Removable(d, written[x], horizon',
                                         kept[Orders[at[s]]][x] \ doomed[s][x])
    BY <1>1 DEF PickedForAReason
  <2>1. cut[s].tx \in Nat /\ cut[s].vt \in Nat /\ horizon'.tx \in Nat /\ horizon'.vt \in Nat
    BY <1>4 DEF RetTypeOK, Cutoffs
  <2>2. cut[s].tx <= horizon.tx /\ cut[s].vt <= horizon.vt
    BY DEF RetInv, PickedForAReason
  <2>3. cut'[s] = IF s = r THEN c ELSE cut[s]
    BY <1>2 DEF RetTypeOK
  <2>4. cut'[s].tx <= horizon'.tx /\ cut'[s].vt <= horizon'.vt
    BY <1>3, <1>5, <2>1, <2>2, <2>3
  <2> QED
    BY <1>6, <2>4 DEF RetInv, PickedForAReason
<1>10. SweepHolds'
  <2>1. \A s \in Run : pc'[s] \in {"sweeping", "erasing"} => pc'[s] = pc[s]
    BY DEF Start, Goto, RetTypeOK
  <2>2. Referenced' = Referenced
    BY <1>1 DEF Referenced
  <2> QED
    BY <1>1, <2>1, <2>2 DEF RetInv, SweepHolds, BlobsResolve
<1> QED
  BY <1>7, <1>8, <1>9, <1>10 DEF RetInv

\* Steps that leave the store, the cutoffs and the horizon alone: what runs
\* have picked may only be dropped, and an order be left with nothing picked.
LEMMA RunStep ==
  ASSUME RetTypeOK, RetInv, NEW r \in Run,
         UNCHANGED <<streamVars, kept, written, horizon>>,
         \A s \in Run \ {r} : cut'[s] = cut[s] /\ at'[s] = at[s] /\ doomed'[s] = doomed[s],
         \A x \in Quad : doomed'[r][x] = {},
         cut'[r] = cut[r] \/ cut'[r] = [tx |-> 0, vt |-> 0]
  PROVE  StreamOrdered' /\ VersionsOrdered' /\ GoneForAReason' /\ PickedForAReason'
<1>1. StreamOrdered' /\ VersionsOrdered'
  BY DEF RetInv, StreamOrdered, VersionsOrdered, streamVars
<1>2. GoneForAReason'
  BY DEF RetInv, GoneForAReason
<1>3. PickedForAReason'
  <2> SUFFICES ASSUME NEW s \in Run
               PROVE  /\ cut'[s].tx <= horizon.tx /\ cut'[s].vt <= horizon.vt
                      /\ \A x \in Quad : \A d \in doomed'[s][x] :
                            /\ d \in written[x]
                            /\ Removable(d, written[x], horizon,
                                         kept[Orders[at'[s]]][x] \ doomed'[s][x])
    BY DEF PickedForAReason
  <2>1. CASE s = r
    BY <2>1 DEF RetInv, PickedForAReason, RetTypeOK, Cutoffs
  <2>2. CASE s # r
    BY <2>2 DEF RetInv, PickedForAReason
  <2> QED
    BY <2>1, <2>2
<1> QED
  BY <1>1, <1>2, <1>3

\* A run that returns forgets what it picked.
LEMMA ReturnStep ==
  ASSUME RetTypeOK, RetInv, NEW r \in Run, Return(r),
         UNCHANGED <<streamVars, kept, written, late, horizon>>,
         blob' = blob \/ (pc[r] = "erasing" /\ blob' = blob \ marked[r])
  PROVE  RetInv'
<1>1. /\ \A s \in Run \ {r} : /\ cut'[s] = cut[s] /\ at'[s] = at[s]
                              /\ doomed'[s] = doomed[s] /\ marked'[s] = marked[s]
                              /\ pc'[s] = pc[s]
      /\ \A x \in Quad : doomed'[r][x] = {}
      /\ cut'[r] = [tx |-> 0, vt |-> 0] /\ pc'[r] = "idle"
  BY DEF Return, Goto, RetTypeOK
<1>2. StreamOrdered' /\ VersionsOrdered' /\ GoneForAReason' /\ PickedForAReason'
  BY <1>1, RunStep
<1>3. Referenced' = Referenced
  BY DEF Referenced
<1>4. BlobsResolve'
  BY <1>3 DEF RetInv, SweepHolds, BlobsResolve
<1>5. SweepHolds'
  BY <1>1, <1>3, <1>4 DEF RetInv, SweepHolds
<1> QED
  BY <1>2, <1>5 DEF RetInv

LEMMA NextOrderStep ==
  ASSUME RetTypeOK, RetInv, NEW r \in Run, NextOrder(r)
  PROVE  RetInv'
<1>1. /\ UNCHANGED <<streamVars, kept, blob, written, late, horizon, marked>>
      /\ cut' = cut /\ doomed' = doomed /\ \A x \in Quad : doomed'[r][x] = {}
      /\ \A s \in Run \ {r} : at'[s] = at[s] /\ pc'[s] = pc[s]
      /\ pc'[r] = "scanning"
  BY DEF NextOrder, Pruned, Goto, storeVars, RetTypeOK
<1>2. StreamOrdered' /\ VersionsOrdered' /\ GoneForAReason' /\ PickedForAReason'
  BY <1>1, RunStep
<1>3. Referenced' = Referenced
  BY <1>1 DEF Referenced
<1>4. SweepHolds'
  BY <1>1, <1>3 DEF RetInv, SweepHolds, BlobsResolve
<1> QED
  BY <1>2, <1>4 DEF RetInv

\* The steps of a sweep up to its batch.
LEMMA SweepStep ==
  ASSUME RetTypeOK, RetInv, NEW r \in Run, FinishOrders(r) \/ Mark(r) \/ Sweep(r)
  PROVE  RetInv'
<1>1. /\ UNCHANGED streamVars
      /\ kept' = kept /\ blob' = blob /\ written' = written /\ late' = late
      /\ cut' = cut /\ at' = at /\ doomed' = doomed /\ horizon' = horizon
  BY DEF FinishOrders, Mark, Sweep, storeVars
<1>2. StreamOrdered' /\ VersionsOrdered' /\ GoneForAReason' /\ PickedForAReason'
  BY <1>1 DEF RetInv, StreamOrdered, VersionsOrdered, GoneForAReason, PickedForAReason, streamVars
<1>3. Referenced' = Referenced
  BY <1>1 DEF Referenced
<1>4. \A s \in Run \ {r} : pc'[s] = pc[s] /\ marked'[s] = marked[s]
  BY DEF FinishOrders, Mark, Sweep, Goto, RetTypeOK
<1>5. /\ pc'[r] = "sweeping" => Referenced \cap Hash \subseteq marked'[r] \cup late
      /\ pc'[r] = "erasing" => Referenced \cap marked'[r] \subseteq late
  <2>1. CASE FinishOrders(r)
    BY <2>1 DEF FinishOrders, Goto, RetTypeOK
  <2>2. CASE Mark(r)
    BY <2>2 DEF Mark, Goto, RetTypeOK
  <2>3. CASE Sweep(r)
    <3>1. /\ pc[r] = "sweeping" /\ pc'[r] = "erasing" /\ marked'[r] = blob \ marked[r]
          /\ blob \subseteq Hash
      BY <2>3 DEF Sweep, Goto, RetTypeOK
    <3>2. Referenced \cap Hash \subseteq marked[r] \cup late
      BY <3>1 DEF RetInv, SweepHolds
    <3> QED
      BY <3>1, <3>2
  <2> QED
    BY <2>1, <2>2, <2>3
<1>6. SweepHolds'
  BY <1>1, <1>3, <1>4, <1>5 DEF RetInv, SweepHolds, BlobsResolve
<1> QED
  BY <1>2, <1>6 DEF RetInv

LEMMA RetInvStep ==
  ASSUME RetTypeOK, RetInv, RetNext
  PROVE  RetInv'
<1>1. CASE PublishCommit
  <2>1. StreamOrdered' /\ stored' = stored
    BY <1>1 DEF PublishCommit, Publish, RetInv, StreamOrdered, RetTypeOK
  <2>2. UNCHANGED <<storeVars, cut, at, doomed, horizon, pc, marked>>
    BY <1>1 DEF PublishCommit, runVars
  <2> QED
    BY <2>1, <2>2, PlainStep
<1>2. CASE FailCommit
  <2>1. StreamOrdered' /\ stored' = stored
    BY <1>2 DEF FailCommit, GiveUp, RetInv, StreamOrdered, RetTypeOK
  <2>2. UNCHANGED <<storeVars, cut, at, doomed, horizon, pc, marked>>
    BY <1>2 DEF FailCommit, runVars
  <2> QED
    BY <2>1, <2>2, PlainStep
<1>3. ASSUME NEW q \in Quad, NEW w \in Windows, StoreCommit(q, w)
      PROVE  RetInv'
  BY <1>3, StoreStep
<1>4. ASSUME NEW r \in Run, Retain(r)
      PROVE  RetInv'
  <2>1. CASE Start(r)
    BY <2>1, StartStep
  <2>2. CASE Scan(r)
    BY <2>2, ScanStep
  <2>3. CASE NextOrder(r)
    BY <2>3, NextOrderStep
  <2>4. CASE FinishOrders(r) \/ Mark(r) \/ Sweep(r)
    BY <2>4, SweepStep
  <2>5. CASE Erase(r)
    BY <2>5, ReturnStep DEF Erase
  <2>6. CASE Stop(r)
    <3>1. Return(r) /\ blob' = blob
          /\ UNCHANGED <<streamVars, kept, written, late, horizon>>
      BY <2>6 DEF Stop, storeVars, streamVars
    <3> QED
      BY <3>1, ReturnStep
  <2>7. ASSUME NEW q \in Quad, Delete(r, q)
        PROVE  RetInv'
    BY <2>7, DeleteStep
  <2> QED
    BY <1>4, <2>1, <2>2, <2>3, <2>4, <2>5, <2>6, <2>7 DEF Retain
<1> QED
  BY <1>1, <1>2, <1>3, <1>4 DEF RetNext

\* The invariant of retention (run_retention, prune_cf_groups, the sweep):
\* whatever is missing, or picked to go, has a reason that nothing undoes.
THEOREM RetentionInvariant == RetSpec => []RetInv
<1>1. RetTypeOK /\ RetInv /\ [RetNext]_retVars => RetInv'
  <2> SUFFICES ASSUME RetTypeOK, RetInv, UNCHANGED retVars
               PROVE  RetInv'
    BY RetInvStep
  <2>1. UNCHANGED <<storeVars, cut, at, doomed, horizon, pc, marked, streamVars>>
    BY DEF retVars, runVars
  <2>2. StreamOrdered' /\ stored' = stored
    BY <2>1 DEF RetInv, StreamOrdered, streamVars
  <2> QED
    BY <2>1, <2>2, PlainStep
<1> QED
  BY <1>1, RetInitInv, RetentionTypes, PTL DEF RetSpec

\* Retention changes no answer inside its window (select_expired).
THEOREM AnswersAreKept == RetSpec => []AnswersKept
<1>1. RetTypeOK /\ RetInv => AnswersKept
  <2> SUFFICES ASSUME RetTypeOK, RetInv, NEW o \in Order, NEW q \in Quad, ~Backdated(o, q),
                      NEW ts \in Timestamp, NEW vt \in Instant,
                      ts >= horizon.tx, vt >= horizon.vt
               PROVE  Holds(kept[o][q], ts, vt) <=> Holds(written[q], ts, vt)
    BY DEF AnswersKept
  <2>1. written[q] \in SUBSET Version /\ kept[o][q] \in SUBSET written[q]
    BY DEF RetTypeOK, RetInv, GoneForAReason
  <2>2. \A v, w \in written[q] : v.tt = w.tt => v = w
    BY DEF RetInv, VersionsOrdered
  <2>3. \A d \in written[q] \ kept[o][q] :
           \/ Shadowed(d, written[q], horizon.tx)
           \/ d.end < horizon.vt /\ \A v \in kept[o][q] : v.tt > d.tt
    BY DEF RetInv, GoneForAReason, Removable
  <2>4. \A d \in written[q] \ kept[o][q], w \in kept[o][q] :
           ~(w.tt > d.tt /\ w.start < d.start)
    BY DEF Backdated
  <2>5. horizon.tx \in Nat /\ horizon.vt \in Nat /\ ts \in Nat /\ vt \in Nat
    BY TimesType DEF RetTypeOK, Cutoffs
  <2> QED
    BY <2>1, <2>2, <2>3, <2>4, <2>5, MissingChangesNothing
<1> QED
  BY <1>1, RetentionTypes, RetentionInvariant, PTL

\* The newest version outlives its window by the lookback (select_expired).
THEOREM NewestIsKept == RetSpec => []NewestKept
<1>1. RetTypeOK /\ RetInv => NewestKept
  <2> SUFFICES ASSUME RetTypeOK, RetInv, NEW o \in Order, NEW q \in Quad, NEW v \in written[q],
                      \A w \in written[q] : w.tt <= v.tt, v \notin kept[o][q]
               PROVE  v.end < horizon.vt
    BY DEF NewestKept
  <2>1. Removable(v, written[q], horizon, kept[o][q])
    BY DEF RetInv, GoneForAReason
  <2>2. \A w \in written[q] : w.tt \in Nat
    BY DEF RetTypeOK, Version
  <2>3. ~Shadowed(v, written[q], horizon.tx)
    BY <2>2 DEF Shadowed
  <2> QED
    BY <2>1, <2>3 DEF Removable
<1> QED
  BY <1>1, RetentionTypes, RetentionInvariant, PTL

\* Referenced values can be loaded, save those written again under a sweep
\* (sweep_unreferenced_blobs).
THEOREM ValuesResolve == RetSpec => []BlobsResolve
<1>1. RetInv => BlobsResolve
  BY DEF RetInv, SweepHolds
<1> QED
  BY <1>1, RetentionInvariant, PTL
=============================================================================
