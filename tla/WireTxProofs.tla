---------------------------- MODULE WireTxProofs ----------------------------
(***************************************************************************)
(* A wire transaction has one fate, and a commit that is answered is       *)
(* whole, for any calls, transactions, shards and threads.                 *)
(***************************************************************************)
EXTENDS WireTx, SequenceTheorems, TLAPS

LEMMA AppendFacts ==
  ASSUME NEW S, NEW s \in Seq(S), NEW e \in S
  PROVE  /\ Append(s, e) \in Seq(S)
         /\ DOMAIN s = 1 .. Len(s) /\ Len(s) \in Nat
         /\ DOMAIN Append(s, e) = 1 .. Len(s) + 1
         /\ \A i \in 1 .. Len(s) : Append(s, e)[i] = s[i]
         /\ Append(s, e)[Len(s) + 1] = e
         /\ s = <<>> => Len(s) = 0
  OBVIOUS

LEMMA TailFacts ==
  ASSUME NEW S, NEW s \in Seq(S), s # <<>>
  PROVE  /\ Tail(s) \in Seq(S)
         /\ DOMAIN s = 1 .. Len(s) /\ Len(s) \in Nat \ {0}
         /\ DOMAIN Tail(s) = 1 .. Len(s) - 1
         /\ \A i \in 1 .. Len(s) - 1 : Tail(s)[i] = s[i + 1]
<1>1. /\ Tail(s) \in Seq(S) /\ Len(Tail(s)) = Len(s) - 1
      /\ \A i \in 1 .. Len(Tail(s)) : Tail(s)[i] = s[i + 1]
  BY HeadTailProperties
<1>2. Len(s) \in Nat \ {0} /\ DOMAIN s = 1 .. Len(s)
  BY EmptySeq
<1>3. DOMAIN Tail(s) = 1 .. Len(s) - 1
  BY <1>1
<1> QED
  BY <1>1, <1>2, <1>3

LEMMA ElementFacts ==
  ASSUME NEW S, NEW s \in Seq(S)
  PROVE  \A i \in DOMAIN s : s[i] \in S
  OBVIOUS

\* Where an element of the tail stood, and where one behind the head goes.
LEMMA ShiftFacts ==
  ASSUME NEW n \in Nat \ {0}
  PROVE  /\ 1 \in 1 .. n
         /\ \A i \in 1 .. n - 1 : i \in Nat /\ i + 1 \in 1 .. n /\ i + 1 # 1
         /\ \A i \in 1 .. n : i # 1 => i - 1 \in 1 .. n - 1 /\ (i - 1) + 1 = i
  OBVIOUS

-----------------------------------------------------------------------------
(* Types *)

\* The call that holds a mutex is in its line.
LEMMA HolderStandsFirst ==
  ASSUME TxTypeOK, LinesInv, NEW c \in Call, pc[c] = "holding"
  PROVE  /\ line[On(c)] \in Seq(Call) /\ line[On(c)] # <<>> /\ line[On(c)][1] = c
         /\ On(c) \in Tx /\ Op(c) \in Locking
<1>1. On(c) \in Tx /\ line[On(c)] \in Seq(Call)
  BY DEF TxTypeOK, On, Request
<1>2. PICK i \in DOMAIN line[On(c)] : line[On(c)][i] = c
  BY DEF LinesInv
<1>3. line[On(c)] # <<>>
  BY <1>1, <1>2
<1> QED
  BY <1>1, <1>3 DEF LinesInv

LEMMA TypesInit == TxInit => TxTypeOK
<1> SUFFICES ASSUME TxInit PROVE TxTypeOK
  OBVIOUS
<1>1. req \in [Call -> Request]
  BY ScriptsType DEF TxInit
<1>2. <<>> \in Seq(Call)
  OBVIOUS
<1> QED
  BY <1>1, <1>2 DEF TxInit, TxTypeOK, Ended

LEMMA TypesStep == TxTypeOK /\ LinesInv /\ [TxNext]_txVars => TxTypeOK'
<1> SUFFICES ASSUME TxTypeOK, LinesInv, [TxNext]_txVars PROVE TxTypeOK'
  OBVIOUS
<1> USE DEF openVars, callVars, sweepVars
<1>1. ASSUME NEW c \in Call, CallStep(c) PROVE TxTypeOK'
  <2> On(c) \in Tx /\ Op(c) \in Ops
    BY DEF TxTypeOK, On, Op, Request
  <2>1. CASE Arrive(c)
    BY <2>1 DEF Arrive, TxTypeOK
  <2>2. CASE Enter(c)
    BY <2>2 DEF Enter, TxTypeOK, Ended
  <2>3. CASE LookUp(c)
    <3>1. Append(line[On(c)], c) \in Seq(Call)
      BY AppendFacts DEF TxTypeOK
    <3>2. line' \in [Tx -> Seq(Call)]
      BY <2>3, <3>1 DEF LookUp, TxTypeOK
    <3>3. pc' \in [Call -> {"new", "at map", "waiting", "holding", "unwrapping"} \cup Ended]
      BY <2>3 DEF LookUp, TxTypeOK, Ended
    <3> QED
      BY <2>3, <3>2, <3>3 DEF LookUp, TxTypeOK
  <2>4. CASE Resume(c)
    BY <2>4 DEF Resume, TxTypeOK
  <2>5. CASE Use(c) \/ GiveUp(c)
    <3>1. pc[c] = "holding"
      BY <2>5 DEF Use, GiveUp
    <3>2. Tail(line[On(c)]) \in Seq(Call)
      BY <3>1, HolderStandsFirst, TailFacts
    <3>3. line' \in [Tx -> Seq(Call)]
      BY <2>5, <3>2 DEF Use, GiveUp, TxTypeOK
    <3>4. buffer' \in [Tx -> SUBSET Call]
      <4>1. [buffer EXCEPT ![On(c)] = @ \cup {c}] \in [Tx -> SUBSET Call]
        BY DEF TxTypeOK
      <4>2. buffer' \in {buffer, [buffer EXCEPT ![On(c)] = @ \cup {c}]}
        BY <2>5 DEF Use, GiveUp
      <4> QED
        BY <4>1, <4>2 DEF TxTypeOK
    <3> QED
      BY <2>5, <3>3, <3>4 DEF Use, GiveUp, TxTypeOK, Ended
  <2>6. CASE TakeOut(c)
    <3>1. outs' \in [Tx -> SUBSET (Call \cup {SweepTask})]
      <4>1. [outs EXCEPT ![On(c)] = @ \cup {c}] \in [Tx -> SUBSET (Call \cup {SweepTask})]
        BY DEF TxTypeOK
      <4>2. outs' \in {outs, [outs EXCEPT ![On(c)] = @ \cup {c}]}
        BY <2>6 DEF TakeOut
      <4> QED
        BY <4>1, <4>2 DEF TxTypeOK
    <3>2. pc' \in [Call -> {"new", "at map", "waiting", "holding", "unwrapping"} \cup Ended]
      BY <2>6 DEF TakeOut, TxTypeOK, Ended
    <3> QED
      BY <2>6, <3>1, <3>2 DEF TakeOut, TxTypeOK
  <2>7. CASE Commit(c)
    BY <2>7 DEF Commit, TxTypeOK, Ended
  <2> QED
    BY <1>1, <2>1, <2>2, <2>3, <2>4, <2>5, <2>6, <2>7 DEF CallStep
<1>2. ASSUME NEW t \in Tx, Age(t) PROVE TxTypeOK'
  BY <1>2 DEF Age, TxTypeOK
<1>3. CASE Sweep
  <2>1. CASE Collect
    BY <2>1 DEF Collect, TxTypeOK
  <2>2. CASE EndSweep
    BY <2>2 DEF EndSweep, TxTypeOK
  <2>3. ASSUME NEW t \in Tx, Evict(t) PROVE TxTypeOK'
    <3>1. outs' \in [Tx -> SUBSET (Call \cup {SweepTask})]
      BY <2>3 DEF Evict, TxTypeOK
    <3> QED
      BY <2>3, <3>1 DEF Evict, TxTypeOK
  <2> QED
    BY <1>3, <2>1, <2>2, <2>3 DEF Sweep
<1>4. CASE Shutdown
  BY <1>4 DEF Shutdown, openVars, callVars, TxTypeOK
<1>5. CASE UNCHANGED txVars
  BY <1>5 DEF txVars, TxTypeOK
<1> QED
  BY <1>1, <1>2, <1>3, <1>4, <1>5 DEF TxNext
-----------------------------------------------------------------------------
(* The lines at the mutexes *)

LEMMA LinesInit == TxInit => LinesInv
<1> SUFFICES ASSUME TxInit PROVE LinesInv
  OBVIOUS
<1>1. \A t \in Tx : DOMAIN line[t] = {}
  BY DEF TxInit
<1>2. \A c \in Call : pc[c] = "new"
  BY DEF TxInit
<1> QED
  BY <1>1, <1>2 DEF LinesInv

\* A step of a call that neither waits nor holds, before or after.
LEMMA LinesApart ==
  ASSUME TxTypeOK, LinesInv, UNCHANGED <<line, req>>, NEW c \in Call,
         pc' = [pc EXCEPT ![c] = pc'[c]],
         pc[c] \notin {"waiting", "holding"}, pc'[c] \notin {"waiting", "holding"}
  PROVE  LinesInv'
<1>1. \A d \in Call : pc'[d] \in {"waiting", "holding"} => pc'[d] = pc[d]
  BY DEF TxTypeOK
<1>2. \A d \in Call : pc[d] \in {"waiting", "holding"} => pc'[d] = pc[d]
  BY DEF TxTypeOK
<1>3. \A t \in Tx : \A i \in DOMAIN line[t] : line[t][i] \in Call
  BY ElementFacts DEF TxTypeOK
<1>4. line' = line /\ req' = req
  OBVIOUS
<1> QED
  BY <1>1, <1>2, <1>3, <1>4 DEF LinesInv, On, Op

\* The first call leaves its line.
LEMMA LinesLeave ==
  ASSUME TxTypeOK, LinesInv, UNCHANGED req, NEW c \in Call, pc[c] = "holding",
         line' = [line EXCEPT ![On(c)] = Tail(@)],
         pc' = [pc EXCEPT ![c] = pc'[c]], pc'[c] \notin {"waiting", "holding"}
  PROVE  LinesInv'
<1> DEFINE s == line[On(c)]
<1>1. /\ s \in Seq(Call) /\ s # <<>> /\ s[1] = c /\ On(c) \in Tx
  BY HolderStandsFirst
<1>2. /\ DOMAIN s = 1 .. Len(s) /\ Len(s) \in Nat \ {0}
      /\ DOMAIN Tail(s) = 1 .. Len(s) - 1
      /\ \A i \in 1 .. Len(s) - 1 : Tail(s)[i] = s[i + 1]
  BY <1>1, TailFacts
<1> DEFINE n == Len(s)
<1>s. /\ 1 \in 1 .. n
      /\ \A i \in 1 .. n - 1 : i \in Nat /\ i + 1 \in 1 .. n /\ i + 1 # 1
      /\ \A i \in 1 .. n : i # 1 => i - 1 \in 1 .. n - 1 /\ (i - 1) + 1 = i
  BY <1>2, ShiftFacts
<1>3. line'[On(c)] = Tail(s) /\ \A t \in Tx : t # On(c) => line'[t] = line[t]
  BY <1>1 DEF TxTypeOK
<1>4. /\ \A d \in Call : d # c => pc'[d] = pc[d]
      /\ \A d \in Call : On(d)' = On(d) /\ Op(d)' = Op(d) /\ On(d) \in Tx
  BY DEF TxTypeOK, On, Op, Request
<1>5. \A t \in Tx : \A i \in DOMAIN line[t] :
        /\ line[t][i] \in Call /\ On(line[t][i]) = t
        /\ pc[line[t][i]] \in {"waiting", "holding"}
        /\ \A j \in DOMAIN line[t] : line[t][i] = line[t][j] => i = j
  <2>1. \A t \in Tx : line[t] \in Seq(Call)
    BY DEF TxTypeOK
  <2> QED
    BY <2>1, ElementFacts DEF LinesInv
<1>u. req' = req
  OBVIOUS
<1>6. ASSUME NEW t \in Tx, NEW i \in DOMAIN line'[t]
      PROVE  /\ req'[line'[t][i]].tx = t /\ pc'[line'[t][i]] \in {"waiting", "holding"}
             /\ \A j \in DOMAIN line'[t] : line'[t][i] = line'[t][j] => i = j
  <2>1. CASE t = On(c)
    <3>1. /\ i \in 1 .. Len(s) - 1 /\ i + 1 \in DOMAIN s /\ i + 1 # 1
          /\ line'[t][i] = s[i + 1] /\ 1 \in DOMAIN s
      <4>1. DOMAIN Tail(s) = 1 .. n - 1 /\ DOMAIN s = 1 .. n
        BY <1>2
      <4>2. i \in 1 .. n - 1
        BY <1>3, <2>1, <4>1
      <4>3. line'[t][i] = s[i + 1]
        BY <1>2, <1>3, <2>1, <4>2
      <4> QED
        BY <1>s, <4>1, <4>2, <4>3
    <3>2. s[i + 1] \in Call /\ s[i + 1] # c /\ On(s[i + 1]) = t
          /\ pc[s[i + 1]] \in {"waiting", "holding"}
      BY <1>1, <1>5, <2>1, <3>1
    <3>3. ASSUME NEW j \in DOMAIN line'[t], line'[t][i] = line'[t][j] PROVE i = j
      <4>1. j \in 1 .. Len(s) - 1 /\ j + 1 \in DOMAIN s /\ s[i + 1] = s[j + 1]
        <5>1. DOMAIN Tail(s) = 1 .. n - 1 /\ DOMAIN s = 1 .. n
          BY <1>2
        <5>2. j \in 1 .. n - 1
          BY <1>3, <2>1, <3>3, <5>1
        <5>3. line'[t][j] = s[j + 1]
          BY <1>2, <1>3, <2>1, <5>2
        <5> QED
          BY <1>s, <3>1, <3>3, <5>1, <5>2, <5>3
      <4>2. i + 1 = j + 1
        BY <1>1, <1>5, <3>1, <4>1
      <4>3. i \in Nat /\ j \in Nat
        BY <1>s, <3>1, <4>1
      <4> QED
        BY <4>2, <4>3
    <3>4. req'[line'[t][i]].tx = t /\ pc'[line'[t][i]] \in {"waiting", "holding"}
      BY <1>4, <1>u, <3>1, <3>2 DEF On
    <3> QED
      BY <3>3, <3>4
  <2>2. CASE t # On(c)
    <3>1. line'[t] = line[t]
      BY <1>3, <2>2
    <3>2. line[t][i] # c /\ line[t][i] \in Call
      BY <1>5, <2>2, <3>1
    <3>3. pc'[line[t][i]] = pc[line[t][i]]
      BY <1>4, <3>2
    <3>4. /\ On(line[t][i]) = t /\ pc[line[t][i]] \in {"waiting", "holding"}
          /\ \A j \in DOMAIN line[t] : line[t][i] = line[t][j] => i = j
      BY <1>5, <3>1
    <3> QED
      BY <1>u, <3>1, <3>3, <3>4 DEF On
  <2> QED
    BY <2>1, <2>2
<1>7. ASSUME NEW d \in Call
      PROVE  /\ pc'[d] \in {"waiting", "holding"} =>
                   Op(d)' \in Locking /\ \E i \in DOMAIN line'[req'[d].tx] : line'[req'[d].tx][i] = d
             /\ pc'[d] = "holding" => line'[req'[d].tx][1] = d
  <2> SUFFICES ASSUME pc'[d] \in {"waiting", "holding"}
               PROVE  /\ Op(d) \in Locking
                      /\ \E i \in DOMAIN line'[On(d)] : line'[On(d)][i] = d
                      /\ pc'[d] = "holding" => line'[On(d)][1] = d
    BY <1>u DEF On, Op
  <2>1. d # c /\ pc'[d] = pc[d]
    BY <1>4
  <2>2. Op(d) \in Locking /\ \E i \in DOMAIN line[On(d)] : line[On(d)][i] = d
    BY <2>1 DEF LinesInv
  <2>3. pc[d] = "holding" => line[On(d)][1] = d
    BY DEF LinesInv
  <2>4. CASE On(d) = On(c)
    <3>1. PICK i \in DOMAIN s : s[i] = d
      BY <2>2, <2>4
    <3>2. i # 1 /\ i \in 1 .. Len(s)
      BY <1>1, <1>2, <2>1, <3>1
    <3>3. i - 1 \in 1 .. n - 1 /\ (i - 1) + 1 = i
      BY <1>s, <3>2
    <3>4. Tail(s)[i - 1] = d
      BY <1>2, <3>1, <3>3
    <3>5. pc[d] # "holding"
      BY <1>1, <2>1, <2>3, <2>4
    <3> QED
      BY <1>2, <1>3, <2>1, <2>2, <2>4, <3>3, <3>4, <3>5
  <2>5. CASE On(d) # On(c)
    BY <1>3, <1>4, <2>1, <2>2, <2>3, <2>5
  <2> QED
    BY <2>4, <2>5
<1> HIDE DEF n, s
<1> QED
  BY <1>6, <1>7, <1>u DEF LinesInv, On, Op
\* A call joins the end of a line.
LEMMA LinesJoin ==
  ASSUME TxTypeOK, LinesInv, UNCHANGED req, NEW c \in Call, pc[c] = "new", Op(c) \in Locking,
         line' = [line EXCEPT ![On(c)] = Append(@, c)],
         pc' = [pc EXCEPT ![c] = IF line[On(c)] = <<>> THEN "holding" ELSE "waiting"]
  PROVE  LinesInv'
<1> DEFINE s == line[On(c)]
<1>1. On(c) \in Tx /\ s \in Seq(Call)
  BY DEF TxTypeOK, On, Request
<1> DEFINE n == Len(s)
<1>2. /\ DOMAIN s = 1 .. n /\ n \in Nat /\ DOMAIN Append(s, c) = 1 .. n + 1
      /\ \A i \in 1 .. n : Append(s, c)[i] = s[i]
      /\ Append(s, c)[n + 1] = c /\ (s = <<>> => n = 0)
  BY <1>1, AppendFacts
<1>3. /\ n + 1 \in 1 .. n + 1 /\ (n = 0 => n + 1 = 1)
      /\ \A i \in 1 .. n + 1 : i \in 1 .. n \/ i = n + 1
      /\ \A i \in 1 .. n : i \in 1 .. n + 1
      /\ n # 0 => 1 \in 1 .. n
  BY <1>2
<1>4. line'[On(c)] = Append(s, c) /\ \A t \in Tx : t # On(c) => line'[t] = line[t]
  BY <1>1 DEF TxTypeOK
<1>5. /\ \A d \in Call : d # c => pc'[d] = pc[d]
      /\ pc'[c] \in {"waiting", "holding"}
      /\ pc'[c] = "holding" => s = <<>>
      /\ \A d \in Call : On(d) \in Tx
      /\ req' = req
  BY DEF TxTypeOK, On, Request
<1>6. \A t \in Tx : \A i \in DOMAIN line[t] :
        /\ line[t][i] \in Call /\ line[t][i] # c /\ On(line[t][i]) = t
        /\ pc[line[t][i]] \in {"waiting", "holding"}
        /\ \A j \in DOMAIN line[t] : line[t][i] = line[t][j] => i = j
  <2>1. \A t \in Tx : line[t] \in Seq(Call)
    BY DEF TxTypeOK
  <2> QED
    BY <2>1, ElementFacts DEF LinesInv
<1> HIDE DEF n, s
<1>7. ASSUME NEW t \in Tx, NEW i \in DOMAIN line'[t]
      PROVE  /\ req'[line'[t][i]].tx = t /\ pc'[line'[t][i]] \in {"waiting", "holding"}
             /\ \A j \in DOMAIN line'[t] : line'[t][i] = line'[t][j] => i = j
  <2>1. CASE t = On(c)
    <3>1. line'[t] = Append(s, c) /\ DOMAIN line'[t] = 1 .. n + 1 /\ line[t] = s
      BY <1>2, <1>4, <2>1 DEF s
    <3>2. CASE i = n + 1
      <4>1. line'[t][i] = c
        BY <1>2, <3>1, <3>2
      <4>2. ASSUME NEW j \in DOMAIN line'[t], j # n + 1 PROVE line'[t][j] # c
        <5>1. j \in 1 .. n
          BY <1>3, <3>1, <4>2
        <5> QED
          BY <1>2, <1>6, <3>1, <5>1
      <4> QED
        BY <1>5, <2>1, <3>2, <4>1, <4>2 DEF On
    <3>3. CASE i # n + 1
      <4>1. i \in 1 .. n /\ i \in DOMAIN s
        BY <1>2, <1>3, <3>1, <3>3
      <4>2. line'[t][i] = s[i]
        BY <1>2, <3>1, <4>1
      <4>3. /\ s[i] \in Call /\ s[i] # c /\ On(s[i]) = t /\ pc[s[i]] \in {"waiting", "holding"}
            /\ \A j \in DOMAIN s : s[i] = s[j] => i = j
        BY <1>6, <3>1, <4>1
      <4>4. ASSUME NEW j \in DOMAIN line'[t], line'[t][i] = line'[t][j] PROVE i = j
        <5>1. j # n + 1
          BY <1>2, <3>1, <4>2, <4>3, <4>4
        <5>2. j \in 1 .. n /\ j \in DOMAIN s /\ line'[t][j] = s[j]
          BY <1>2, <1>3, <3>1, <5>1
        <5> QED
          BY <4>2, <4>3, <4>4, <5>2
      <4> QED
        BY <1>5, <4>2, <4>3, <4>4 DEF On
    <3> QED
      BY <3>2, <3>3
  <2>2. CASE t # On(c)
    <3>1. line'[t] = line[t]
      BY <1>4, <2>2
    <3>2. /\ line[t][i] \in Call /\ line[t][i] # c /\ On(line[t][i]) = t
          /\ pc[line[t][i]] \in {"waiting", "holding"}
          /\ \A j \in DOMAIN line[t] : line[t][i] = line[t][j] => i = j
      BY <1>6, <3>1
    <3> QED
      BY <1>5, <3>1, <3>2 DEF On
  <2> QED
    BY <2>1, <2>2
<1>8. ASSUME NEW d \in Call
      PROVE  /\ pc'[d] \in {"waiting", "holding"} =>
                   Op(d)' \in Locking /\ \E i \in DOMAIN line'[req'[d].tx] : line'[req'[d].tx][i] = d
             /\ pc'[d] = "holding" => line'[req'[d].tx][1] = d
  <2> SUFFICES ASSUME pc'[d] \in {"waiting", "holding"}
               PROVE  /\ Op(d) \in Locking
                      /\ \E i \in DOMAIN line'[On(d)] : line'[On(d)][i] = d
                      /\ pc'[d] = "holding" => line'[On(d)][1] = d
    BY <1>5 DEF On, Op
  <2>1. CASE d = c
    <3>1. n + 1 \in DOMAIN line'[On(d)] /\ line'[On(d)][n + 1] = d
      BY <1>2, <1>3, <1>4, <2>1
    <3>2. pc'[d] = "holding" => n + 1 = 1
      BY <1>2, <1>3, <1>5, <2>1
    <3> QED
      BY <2>1, <3>1, <3>2
  <2>2. CASE d # c
    <3>1. pc'[d] = pc[d]
      BY <1>5, <2>2
    <3>2. PICK i \in DOMAIN line[On(d)] : line[On(d)][i] = d
      BY <3>1 DEF LinesInv
    <3>3. Op(d) \in Locking /\ (pc[d] = "holding" => line[On(d)][1] = d)
      BY <3>1 DEF LinesInv
    <3>4. CASE On(d) = On(c)
      <4>1. line[On(d)] = s /\ line'[On(d)] = Append(s, c)
        BY <1>4, <3>4 DEF s
      <4>2. i \in 1 .. n /\ i \in 1 .. n + 1 /\ 1 \in 1 .. n
        BY <1>2, <1>3, <3>2, <4>1
      <4>3. Append(s, c)[i] = s[i] /\ Append(s, c)[1] = s[1] /\ i \in DOMAIN Append(s, c)
        BY <1>2, <4>2
      <4> QED
        BY <3>1, <3>2, <3>3, <4>1, <4>3
    <3>5. CASE On(d) # On(c)
      <4>1. line'[On(d)] = line[On(d)]
        BY <1>4, <1>5, <3>5
      <4> QED
        BY <3>1, <3>2, <3>3, <4>1
    <3> QED
      BY <3>4, <3>5
  <2> QED
    BY <2>1, <2>2
<1> QED
  BY <1>5, <1>7, <1>8 DEF LinesInv, On, Op

LEMMA LinesStep == TxTypeOK /\ LinesInv /\ [TxNext]_txVars => LinesInv'
<1> SUFFICES ASSUME TxTypeOK, LinesInv, [TxNext]_txVars PROVE LinesInv'
  OBVIOUS
<1> USE DEF openVars, callVars, sweepVars
<1>0. ASSUME UNCHANGED <<line, req, pc>> PROVE LinesInv'
  <2>1. line' = line /\ req' = req /\ pc' = pc
    BY <1>0
  <2> QED
    BY <2>1 DEF LinesInv, On, Op
<1>1. ASSUME NEW c \in Call, CallStep(c) PROVE LinesInv'
  <2>0. DOMAIN pc = Call
    BY DEF TxTypeOK
  <2>1. CASE Arrive(c) \/ Enter(c) \/ TakeOut(c) \/ Commit(c)
    <3>1. pc[c] \notin {"waiting", "holding"}
      BY <2>1 DEF Arrive, Enter, TakeOut, Commit
    <3>2. pc'[c] \notin {"waiting", "holding"} /\ pc' = [pc EXCEPT ![c] = pc'[c]]
      <4>1. CASE Arrive(c)
        BY <2>0, <4>1 DEF Arrive
      <4>2. CASE Enter(c)
        BY <2>0, <4>2 DEF Enter
      <4>3. CASE TakeOut(c)
        BY <2>0, <4>3 DEF TakeOut
      <4>4. CASE Commit(c)
        BY <2>0, <4>4 DEF Commit
      <4> QED
        BY <2>1, <4>1, <4>2, <4>3, <4>4
    <3>3. UNCHANGED <<line, req>>
      BY <2>1 DEF Arrive, Enter, TakeOut, Commit
    <3> QED
      BY <3>1, <3>2, <3>3, LinesApart
  <2>2. CASE LookUp(c)
    <3>1. CASE On(c) \in map
      BY <2>2, <3>1, LinesJoin DEF LookUp
    <3>2. CASE On(c) \notin map
      <4>1. /\ pc[c] = "new" /\ pc' = [pc EXCEPT ![c] = "failed"]
            /\ UNCHANGED <<line, req>>
        BY <2>2, <3>2 DEF LookUp
      <4>2. pc'[c] = "failed" /\ pc' = [pc EXCEPT ![c] = pc'[c]]
        BY <2>0, <4>1
      <4> QED
        BY <4>1, <4>2, LinesApart
    <3> QED
      BY <3>1, <3>2
  <2>3. CASE Resume(c)
    <3>1. line' = line /\ req' = req /\ pc[c] = "waiting" /\ Head(line[On(c)]) = c
      BY <2>3 DEF Resume
    <3>2. pc'[c] = "holding" /\ \A d \in Call : d # c => pc'[d] = pc[d]
      BY <2>0, <2>3 DEF Resume
    <3>3. \A t \in Tx : \A i \in DOMAIN line[t] : line[t][i] \in Call
      BY ElementFacts DEF TxTypeOK
    <3>4. line[On(c)][1] = c
      <4>1. On(c) \in Tx /\ line[On(c)] \in Seq(Call)
        BY DEF TxTypeOK, On, Request
      <4> QED
        BY <3>1, <4>1
    <3> QED
      BY <3>1, <3>2, <3>3, <3>4 DEF LinesInv, On, Op
  <2>4. CASE Use(c) \/ GiveUp(c)
    <3>1. /\ pc[c] = "holding" /\ UNCHANGED req
          /\ line' = [line EXCEPT ![On(c)] = Tail(@)]
      BY <2>4 DEF Use, GiveUp
    <3>2. pc'[c] \notin {"waiting", "holding"} /\ pc' = [pc EXCEPT ![c] = pc'[c]]
      BY <2>0, <2>4 DEF Use, GiveUp
    <3> QED
      BY <3>1, <3>2, LinesLeave
  <2> QED
    BY <1>1, <2>1, <2>2, <2>3, <2>4 DEF CallStep
<1>2. ASSUME NEW t \in Tx, Age(t) PROVE LinesInv'
  BY <1>0, <1>2 DEF Age
<1>3. CASE Sweep
  BY <1>0, <1>3 DEF Sweep, Collect, EndSweep, Evict
<1>4. CASE Shutdown
  BY <1>0, <1>4 DEF Shutdown, openVars, callVars
<1>5. CASE UNCHANGED txVars
  BY <1>0, <1>5 DEF txVars
<1> QED
  BY <1>1, <1>2, <1>3, <1>4, <1>5 DEF TxNext
-----------------------------------------------------------------------------
(* The fate of a transaction *)

LEMMA FateInit == TxInit => FateInv
<1> SUFFICES ASSUME TxInit PROVE FateInv
  OBVIOUS
<1>1. /\ map = {} /\ \A t \in Tx : outs[t] = {}
      /\ \A c \in Call : pc[c] = "new"
  BY DEF TxInit
<1> QED
  BY <1>1 DEF FateInv, TxFate, CallFate, TxInit

\* Once told, always told: no call that is answered moves again.
LEMMA ToldStays ==
  ASSUME TxTypeOK, NEW c \in Call, pc[c] # "ok", UNCHANGED req,
         \A d \in Call : d # c => pc'[d] = pc[d],
         NEW t \in Tx, Told(t)
  PROVE  Told(t)'
BY DEF Told, Op, On

\* An id that is still on its way into the map was not handed out.
LEMMA NotTold ==
  ASSUME req \in Scripts, NEW c \in Call, Op(c) = "begin", pc[c] # "ok", Told(On(c))
  PROVE  FALSE
<1>1. PICK d \in Call : Op(d) = "begin" /\ On(d) = On(c) /\ pc[d] = "ok"
  BY DEF Told
<1> QED
  BY <1>1, ScriptsType DEF Op, On

\* A step that leaves the ids in and out of the map, what is stored and what
\* is buffered, and moves a call without answering a write or a commit.
LEMMA FateApart ==
  ASSUME TxTypeOK, FateInv, UNCHANGED <<map, outs, landed, req, buffer>>, NEW c \in Call,
         \A d \in Call : d # c => pc'[d] = pc[d], pc[c] # "ok",
         pc'[c] # "unwrapping", pc'[c] = "ok" => Op(c) \notin Writing \cup {"commit"},
         pc[c] \notin {"waiting", "holding"} /\ pc'[c] \in {"waiting", "holding"} => On(c) \in map
  PROVE  FateInv'
<1>1. map' = map /\ outs' = outs /\ landed' = landed /\ req' = req /\ buffer' = buffer
  OBVIOUS
<1>2. \A t \in Tx : Told(t) => Told(t)'
  BY ToldStays
<1>3. \A d \in Call : Busy(d)' => Busy(d) \/ On(d) \in map
  BY DEF Busy
<1>4. \A d \in Call : On(d) \in Tx
  BY DEF TxTypeOK, On, Request
<1>5. ASSUME NEW d \in Call
      PROVE /\ pc'[d] = "ok" /\ Op(d) \in Writing => d \in buffer[On(d)]
            /\ pc'[d] = "unwrapping" => Op(d) = "commit"
            /\ pc'[d] \in {"unwrapping", "ok"} /\ Op(d) = "commit" =>
                 /\ outs[On(d)] # {}
                 /\ \A e \in Call : Busy(e)' /\ On(e) = On(d) => Op(e) \notin {"insert", "query"}
            /\ pc'[d] = "ok" /\ Op(d) = "commit" =>
                 /\ landed[On(d)] = buffer[On(d)]
                 /\ \A e \in Call : Busy(e)' => On(e) # On(d)
  <2>1. CASE d = c
    BY <2>1
  <2>2. CASE d # c
    <3>1. outs[On(d)] # {} => \A e \in Call : Busy(e)' /\ On(e) = On(d) => Busy(e)
      BY <1>3, <1>4 DEF FateInv, TxFate, CallFate
    <3> QED
      BY <2>2, <3>1 DEF FateInv, TxFate, CallFate
  <2> QED
    BY <2>1, <2>2
<1>6. \A t \in Tx : /\ \A x, y \in outs[t] : x = y
                    /\ t \in map \/ outs[t] # {} => Told(t)'
                    /\ t \in map => outs[t] = {}
  BY <1>2 DEF FateInv, TxFate, CallFate
<1>7. CallFate'
  BY <1>1, <1>5 DEF CallFate, Busy, On, Op
<1>8. TxFate'
  BY <1>1, <1>6 DEF TxFate, Told, Op, On
<1> QED
  BY <1>1, <1>7, <1>8 DEF FateInv
LEMMA FateStep == TxTypeOK /\ LinesInv /\ FateInv /\ [TxNext]_txVars => FateInv'
<1> SUFFICES ASSUME TxTypeOK, LinesInv, FateInv, [TxNext]_txVars PROVE FateInv'
  OBVIOUS
<1> USE DEF openVars, callVars, sweepVars
<1>t. \A c \in Call : On(c) \in Tx
  BY DEF TxTypeOK, On, Request
<1>1. ASSUME NEW c \in Call, CallStep(c) PROVE FateInv'
  <2>0. /\ DOMAIN pc = Call /\ On(c) \in Tx
        /\ \A v : pc' = [pc EXCEPT ![c] = v] => pc'[c] = v /\ \A d \in Call : d # c => pc'[d] = pc[d]
    BY <1>t DEF TxTypeOK
  <2>1. CASE Arrive(c)
    <3>1. /\ UNCHANGED <<map, outs, landed, req, buffer>> /\ pc[c] = "new"
          /\ pc' = [pc EXCEPT ![c] = "at map"]
      BY <2>1 DEF Arrive
    <3> QED
      BY <2>0, <3>1, FateApart
  <2>2. CASE Enter(c)
    <3>1. /\ pc[c] = "at map" /\ Op(c) = "begin" /\ map' = map \cup {On(c)}
          /\ pc' = [pc EXCEPT ![c] = "ok"]
          /\ buffer' = buffer /\ req' = req /\ landed' = landed /\ outs' = outs
      BY <2>2 DEF Enter
    <3>2. pc'[c] = "ok" /\ \A d \in Call : d # c => pc'[d] = pc[d]
      BY <2>0, <3>1
    <3>3. \A t \in Tx : Told(t) => Told(t)'
      BY <3>1, <3>2, ToldStays
    <3>4. Told(On(c))'
      BY <3>1, <3>2 DEF Told, Op, On
    <3>5. outs[On(c)] = {}
      BY <2>0, <3>1, NotTold DEF FateInv, TxFate, Told, Op, On
    <3>6. ASSUME NEW t \in Tx
          PROVE  /\ \A x, y \in outs[t] : x = y
                 /\ t \in map' \/ outs[t] # {} => Told(t)'
                 /\ t \in map' => outs[t] = {}
      <4>1. CASE t = On(c)
        <5>1. Told(t)'
          BY <3>1, <3>2, <4>1 DEF Told, Op, On
        <5> QED
          BY <3>5, <4>1, <5>1
      <4>2. CASE t # On(c)
        BY <3>1, <3>3, <4>2 DEF FateInv, TxFate
      <4> QED
        BY <4>1, <4>2
    <3>7. TxFate'
      BY <3>1, <3>6 DEF TxFate, Told, Op, On
    <3>8. ASSUME NEW d \in Call
          PROVE /\ pc'[d] = "ok" /\ Op(d) \in Writing => d \in buffer[On(d)]
                /\ pc'[d] = "unwrapping" => Op(d) = "commit"
                /\ pc'[d] \in {"unwrapping", "ok"} /\ Op(d) = "commit" =>
                     /\ outs[On(d)] # {}
                     /\ \A e \in Call : Busy(e)' /\ On(e) = On(d) => Op(e) \notin {"insert", "query"}
                /\ pc'[d] = "ok" /\ Op(d) = "commit" =>
                     /\ landed[On(d)] = buffer[On(d)]
                     /\ \A e \in Call : Busy(e)' => On(e) # On(d)
      <4>1. \A e \in Call : Busy(e)' => Busy(e)
        BY <3>1, <3>2 DEF Busy
      <4>2. CASE d = c
        BY <3>1, <3>2, <4>2 DEF Writing
      <4>3. CASE d # c
        BY <3>2, <4>1, <4>3 DEF FateInv, CallFate
      <4> QED
        BY <4>2, <4>3
    <3>9. CallFate'
      BY <3>1, <3>8 DEF CallFate, Busy, On, Op
    <3> QED
      BY <3>1, <3>7, <3>9 DEF FateInv
  <2>3. CASE LookUp(c)
    <3>1. /\ UNCHANGED <<map, outs, landed, req, buffer>> /\ pc[c] = "new"
          /\ pc' = [pc EXCEPT ![c] = pc'[c]] /\ pc'[c] \in {"holding", "waiting", "failed"}
          /\ pc'[c] # "failed" => On(c) \in map
      BY <2>0, <2>3 DEF LookUp
    <3> QED
      BY <2>0, <3>1, FateApart
  <2>4. CASE Resume(c)
    <3>1. /\ UNCHANGED <<map, outs, landed, req, buffer>> /\ pc[c] = "waiting"
          /\ pc' = [pc EXCEPT ![c] = "holding"]
      BY <2>4 DEF Resume
    <3> QED
      BY <2>0, <3>1, FateApart
  <2>5. CASE Use(c) \/ GiveUp(c)
    <3>1. /\ pc[c] = "holding"
          /\ map' = map /\ outs' = outs /\ landed' = landed /\ req' = req
      BY <2>5 DEF Use, GiveUp
    <3>2. /\ pc'[c] \in {"ok", "failed"} /\ \A d \in Call : d # c => pc'[d] = pc[d]
          /\ Op(c) \in Locking
      BY <2>0, <2>5, HolderStandsFirst DEF Use, GiveUp
    <3>3. /\ \A t \in Tx : buffer[t] \subseteq buffer'[t] /\ (t # On(c) => buffer'[t] = buffer[t])
          /\ pc'[c] = "ok" /\ Op(c) \in Writing => c \in buffer'[On(c)]
      <4>1. \/ buffer' = [buffer EXCEPT ![On(c)] = @ \cup {c}]
            \/ buffer' = buffer /\ ~(pc'[c] = "ok" /\ Op(c) \in Writing)
        BY <2>0, <2>5 DEF Use, GiveUp
      <4>2. ASSUME buffer' = [buffer EXCEPT ![On(c)] = @ \cup {c}]
            PROVE  /\ \A t \in Tx : buffer[t] \subseteq buffer'[t] /\ (t # On(c) => buffer'[t] = buffer[t])
                   /\ c \in buffer'[On(c)]
        BY <2>0, <4>2 DEF TxTypeOK
      <4> QED
        BY <4>1, <4>2
    <3>4. \A t \in Tx : Told(t) => Told(t)'
      BY <3>1, <3>2, ToldStays
    <3>5. TxFate'
      BY <3>1, <3>4 DEF FateInv, TxFate, Told, Op, On
    <3>6. \A d \in Call : pc[d] = "ok" /\ Op(d) = "commit" => On(d) # On(c)
      BY <3>1 DEF FateInv, CallFate, Busy
    <3>7. \A d \in Call : Busy(d)' => Busy(d) /\ d # c
      BY <3>2 DEF Busy
    <3>8. ASSUME NEW d \in Call
          PROVE /\ pc'[d] = "ok" /\ Op(d) \in Writing => d \in buffer'[On(d)]
                /\ pc'[d] = "unwrapping" => Op(d) = "commit"
                /\ pc'[d] \in {"unwrapping", "ok"} /\ Op(d) = "commit" =>
                     /\ outs[On(d)] # {}
                     /\ \A e \in Call : Busy(e)' /\ On(e) = On(d) => Op(e) \notin {"insert", "query"}
                /\ pc'[d] = "ok" /\ Op(d) = "commit" =>
                     /\ landed[On(d)] = buffer'[On(d)]
                     /\ \A e \in Call : Busy(e)' => On(e) # On(d)
      <4>1. CASE d = c
        BY <3>2, <3>3, <4>1 DEF Locking
      <4>2. CASE d # c
        BY <1>t, <3>2, <3>3, <3>6, <3>7, <4>2 DEF FateInv, CallFate
      <4> QED
        BY <4>1, <4>2
    <3>9. CallFate'
      BY <3>1, <3>8 DEF CallFate, Busy, On, Op
    <3> QED
      BY <3>1, <3>5, <3>9 DEF FateInv
  <2>6. CASE TakeOut(c)
    <3>1. /\ pc[c] = "at map" /\ Op(c) \in {"commit", "rollback"} /\ Readers(On(c)) = {}
          /\ map' = map \ {On(c)} /\ buffer' = buffer /\ req' = req /\ landed' = landed
          /\ pc'[c] \in {"failed", "unwrapping", "ok"} /\ \A d \in Call : d # c => pc'[d] = pc[d]
          /\ pc'[c] = "unwrapping" => Op(c) = "commit"
          /\ pc'[c] = "ok" => Op(c) = "rollback"
      BY <2>0, <2>6 DEF TakeOut
    <3>2. /\ On(c) \notin map => outs' = outs /\ pc'[c] = "failed"
          /\ On(c) \in map => outs' = [outs EXCEPT ![On(c)] = @ \cup {c}]
      BY <2>0, <2>6 DEF TakeOut
    <3>3. On(c) \in map => outs[On(c)] = {} /\ Told(On(c))
      BY <2>0 DEF FateInv, TxFate, Told, Op, On
    <3>4. /\ \A t \in Tx : t # On(c) => outs'[t] = outs[t]
          /\ (On(c) \in map => outs'[On(c)] = {c})
          /\ (On(c) \notin map => outs' = outs)
      BY <2>0, <3>2, <3>3 DEF TxTypeOK
    <3>5. \A t \in Tx : Told(t) => Told(t)'
      BY <3>1, ToldStays
    <3>6. ASSUME NEW t \in Tx
          PROVE  /\ \A x, y \in outs'[t] : x = y
                 /\ t \in map' \/ outs'[t] # {} => Told(t)'
                 /\ t \in map' => outs'[t] = {}
      <4>1. CASE t = On(c)
        BY <3>1, <3>3, <3>4, <3>5, <4>1 DEF FateInv, TxFate
      <4>2. CASE t # On(c)
        BY <3>1, <3>4, <3>5, <4>2 DEF FateInv, TxFate
      <4> QED
        BY <4>1, <4>2
    <3>7. TxFate'
      BY <3>6 DEF TxFate, Told, Op, On
    <3>8. \A d \in Call : Busy(d)' => Busy(d)
      BY <3>1 DEF Busy
    <3>9. \A d \in Call : Busy(d) /\ On(d) = On(c) => Op(d) \notin {"insert", "query"}
      BY <3>1 DEF Busy, Readers
    <3>10. \A d \in Call : outs[On(d)] # {} => outs'[On(d)] # {}
      BY <1>t, <3>4
    <3>11. ASSUME NEW d \in Call
          PROVE /\ pc'[d] = "ok" /\ Op(d) \in Writing => d \in buffer[On(d)]
                /\ pc'[d] = "unwrapping" => Op(d) = "commit"
                /\ pc'[d] \in {"unwrapping", "ok"} /\ Op(d) = "commit" =>
                     /\ outs'[On(d)] # {}
                     /\ \A e \in Call : Busy(e)' /\ On(e) = On(d) => Op(e) \notin {"insert", "query"}
                /\ pc'[d] = "ok" /\ Op(d) = "commit" =>
                     /\ landed[On(d)] = buffer[On(d)]
                     /\ \A e \in Call : Busy(e)' => On(e) # On(d)
      <4>1. CASE d = c
        BY <3>1, <3>2, <3>4, <3>8, <3>9, <4>1 DEF Writing
      <4>2. CASE d # c
        BY <3>1, <3>8, <3>10, <4>2 DEF FateInv, CallFate
      <4> QED
        BY <4>1, <4>2
    <3>12. CallFate'
      BY <3>1, <3>11 DEF CallFate, Busy, On, Op
    <3> QED
      BY <3>1, <3>7, <3>12 DEF FateInv
  <2>7. CASE Commit(c)
    <3>1. /\ pc[c] = "unwrapping" /\ Op(c) = "commit"
          /\ map' = map /\ buffer' = buffer /\ req' = req /\ outs' = outs
          /\ pc'[c] \in {"failed", "ok"} /\ \A d \in Call : d # c => pc'[d] = pc[d]
      BY <2>0, <2>7 DEF Commit, FateInv, CallFate
    <3>2. /\ pc'[c] = "ok" =>
               /\ Clones(On(c)) = {} /\ landed'[On(c)] = buffer[On(c)]
               /\ \A t \in Tx : t # On(c) => landed'[t] = landed[t]
          /\ pc'[c] = "failed" => landed' = landed
      <4>1. CASE pc' = [pc EXCEPT ![c] = "failed"] /\ UNCHANGED landed
        BY <2>0, <4>1
      <4>2. CASE /\ Clones(On(c)) = {} /\ pc' = [pc EXCEPT ![c] = "ok"]
                 /\ landed' = [landed EXCEPT ![On(c)] = buffer[On(c)]]
        BY <2>0, <4>2 DEF TxTypeOK
      <4> QED
        BY <2>7, <4>1, <4>2 DEF Commit
    <3>3. \A t \in Tx : Told(t) => Told(t)'
      BY <3>1, ToldStays
    <3>4. TxFate'
      BY <3>1, <3>3 DEF FateInv, TxFate, Told, Op, On
    <3>5. \A d \in Call : Busy(d)' => Busy(d) /\ Op(d) \in Locking
      BY <3>1 DEF Busy, LinesInv
    <3>6. pc'[c] = "ok" => \A d \in Call : Busy(d)' => On(d) # On(c)
      BY <3>1, <3>2, <3>5 DEF FateInv, CallFate, Busy, Clones, Locking
    <3>7. ASSUME NEW d \in Call
          PROVE /\ pc'[d] = "ok" /\ Op(d) \in Writing => d \in buffer[On(d)]
                /\ pc'[d] = "unwrapping" => Op(d) = "commit"
                /\ pc'[d] \in {"unwrapping", "ok"} /\ Op(d) = "commit" =>
                     /\ outs[On(d)] # {}
                     /\ \A e \in Call : Busy(e)' /\ On(e) = On(d) => Op(e) \notin {"insert", "query"}
                /\ pc'[d] = "ok" /\ Op(d) = "commit" =>
                     /\ landed'[On(d)] = buffer[On(d)]
                     /\ \A e \in Call : Busy(e)' => On(e) # On(d)
      <4>1. CASE d = c
        BY <3>1, <3>2, <3>5, <3>6, <4>1 DEF FateInv, CallFate, Writing
      <4>2. CASE d # c
        BY <1>t, <3>1, <3>2, <3>5, <4>2 DEF FateInv, CallFate
      <4> QED
        BY <4>1, <4>2
    <3>8. CallFate'
      BY <3>1, <3>7 DEF CallFate, Busy, On, Op
    <3> QED
      BY <3>1, <3>4, <3>8 DEF FateInv
  <2> QED
    BY <1>1, <2>1, <2>2, <2>3, <2>4, <2>5, <2>6, <2>7 DEF CallStep
<1>2. ASSUME map' = map, outs' = outs, landed' = landed, req' = req, buffer' = buffer, pc' = pc
      PROVE  FateInv'
  BY <1>2 DEF FateInv, TxFate, CallFate, Busy, Told, On, Op
\* The sweep and shutdown take ids out of the map.
<1>3. ASSUME landed' = landed, req' = req, buffer' = buffer, pc' = pc, map' \subseteq map,
             \A t \in Tx : \/ (t \in map' /\ outs'[t] = outs[t])
                           \/ (t \notin map /\ outs'[t] = outs[t])
                           \/ (t \in map /\ t \notin map' /\ outs'[t] = outs[t] \cup {SweepTask})
      PROVE  FateInv'
  <2>1. \A t \in Tx : Told(t)' <=> Told(t)
    BY <1>3 DEF Told, Op, On
  <2>2. \A t \in Tx : /\ \A x, y \in outs'[t] : x = y
                      /\ t \in map' \/ outs'[t] # {} => Told(t)'
                      /\ t \in map' => outs'[t] = {}
    BY <1>3, <2>1 DEF FateInv, TxFate, Told, Op, On
  <2>3. TxFate'
    BY <2>2 DEF TxFate, Told, Op, On
  <2>4. \A c \in Call : outs[On(c)] # {} => outs'[On(c)] # {}
    BY <1>3, <1>t
  <2>5. CallFate'
    BY <1>3, <2>4 DEF FateInv, CallFate, Busy, Op, On
  <2> QED
    BY <1>3, <2>3, <2>5 DEF FateInv
<1>4. ASSUME NEW t \in Tx, Age(t) PROVE FateInv'
  BY <1>2, <1>4 DEF Age
<1>5. CASE Sweep
  <2>1. CASE Collect \/ EndSweep
    BY <1>2, <2>1 DEF Collect, EndSweep
  <2>2. ASSUME NEW t \in Tx, Evict(t) PROVE FateInv'
    <3>1. /\ landed' = landed /\ req' = req /\ buffer' = buffer /\ pc' = pc /\ map' = map \ {t}
          /\ outs' = IF t \in map THEN [outs EXCEPT ![t] = @ \cup {SweepTask}] ELSE outs
      BY <2>2 DEF Evict
    <3>2. \A u \in Tx : \/ (u \in map' /\ outs'[u] = outs[u])
                       \/ (u \notin map /\ outs'[u] = outs[u])
                       \/ (u \in map /\ u \notin map' /\ outs'[u] = outs[u] \cup {SweepTask})
      BY <3>1 DEF TxTypeOK
    <3> QED
      BY <1>3, <3>1, <3>2
  <2> QED
    BY <1>5, <2>1, <2>2 DEF Sweep
<1>6. CASE Shutdown
  BY <1>2, <1>6 DEF Shutdown, openVars, callVars
<1>7. CASE UNCHANGED txVars
  BY <1>2, <1>7 DEF txVars
<1> QED
  BY <1>1, <1>4, <1>5, <1>6, <1>7 DEF TxNext

-----------------------------------------------------------------------------
(* Theorems *)

\* The registry's inductive invariant: the lines at the mutexes, the fate of
\* each transaction and what a commit may still share.
THEOREM RegistryInvariant == TxSpec => [](TxTypeOK /\ LinesInv /\ FateInv)
<1>1. TxInit => TxTypeOK /\ LinesInv /\ FateInv
  BY TypesInit, LinesInit, FateInit
<1>2. (TxTypeOK /\ LinesInv /\ FateInv) /\ [TxNext]_txVars => (TxTypeOK /\ LinesInv /\ FateInv)'
  BY TypesStep, LinesStep, FateStep
<1> QED
  BY <1>1, <1>2, PTL DEF TxSpec

\* Type correctness of the server's transaction registry.
THEOREM RegistryTypes == TxSpec => []TxTypeOK
BY RegistryInvariant, PTL

\* Of the commits, rollbacks, sweeps and the shutdown that race for a
\* transaction, one gets it (the removals from tx_map).
THEOREM EveryTransactionHasOneFate == TxSpec => []OneFate
<1>1. FateInv => OneFate
  BY DEF FateInv, TxFate, OneFate
<1> QED
  BY <1>1, RegistryInvariant, PTL

\* An answered commit stored every answered write of its transaction, however
\* the calls, the sweep and the threads interleave (Arc::try_unwrap).
THEOREM CommitsAreWhole == TxSpec => []CommitIsWhole
<1>1. FateInv => CommitIsWhole
  BY DEF FateInv, CallFate, CommitIsWhole, Committed
<1> QED
  BY <1>1, RegistryInvariant, PTL
=============================================================================
