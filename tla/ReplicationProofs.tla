------------------------- MODULE ReplicationProofs -------------------------
(***************************************************************************)
(* A replica leaves out only what may follow a batch of one record, and    *)
(* repeats only what it had not noted, for batches of any size and any     *)
(* connections and writes lost.                                            *)
(***************************************************************************)
EXTENDS Replication, SequenceTheorems, WellFoundedInduction, TLAPS

-----------------------------------------------------------------------------
(* Sequences *)

LEMMA AppendFacts ==
  ASSUME NEW S, NEW s \in Seq(S), NEW e \in S
  PROVE  /\ Append(s, e) \in Seq(S) /\ Append(s, e) # <<>>
         /\ Len(Append(s, e)) = Len(s) + 1 /\ Len(s) \in Nat
         /\ DOMAIN s = 1 .. Len(s) /\ DOMAIN Append(s, e) = 1 .. Len(s) + 1
         /\ \A i \in 1 .. Len(s) : Append(s, e)[i] = s[i]
         /\ Append(s, e)[Len(s) + 1] = e
  OBVIOUS

LEMMA TailFacts ==
  ASSUME NEW S, NEW s \in Seq(S), s # <<>>
  PROVE  /\ Tail(s) \in Seq(S) /\ Len(s) \in Nat \ {0}
         /\ DOMAIN s = 1 .. Len(s) /\ DOMAIN Tail(s) = 1 .. Len(s) - 1
         /\ Len(Tail(s)) = Len(s) - 1
         /\ Tail(s) = <<>> <=> Len(s) = 1
         /\ \A i \in 1 .. Len(s) - 1 : Tail(s)[i] = s[i + 1]
         /\ Head(s) = s[1] /\ s[1] \in S
<1>1. /\ Tail(s) \in Seq(S) /\ Len(Tail(s)) = Len(s) - 1
      /\ \A i \in 1 .. Len(Tail(s)) : Tail(s)[i] = s[i + 1]
  BY HeadTailProperties
<1>2. Len(s) \in Nat \ {0} /\ DOMAIN s = 1 .. Len(s)
  BY EmptySeq
<1>3. DOMAIN Tail(s) = 1 .. Len(s) - 1
  BY <1>1
<1>4. Tail(s) = <<>> <=> Len(Tail(s)) = 0
  BY <1>1, EmptySeq
<1>5. Head(s) = s[1] /\ s[1] \in S
  BY <1>2
<1> QED
  BY <1>1, <1>2, <1>3, <1>4, <1>5

-----------------------------------------------------------------------------
(* What is noted last *)

LEMMA NotedUnique ==
  ASSUME NEW j \in Seq(Entry), NEW m \in DOMAIN j, j[m].noted,
         \A k \in DOMAIN j : j[k].noted => k <= m
  PROVE  LastNoted(j) = j[m].batch
<1>1. DOMAIN j \subseteq Nat
  OBVIOUS
<1> DEFINE P(i) == j[i].noted /\ \A k \in DOMAIN j : j[k].noted => k <= i
<1>2. PICK c : c = CHOOSE i \in DOMAIN j : P(i)
  OBVIOUS
<1>3. c \in DOMAIN j /\ P(c)
  BY <1>2
<1>4. c <= m /\ m <= c
  BY <1>3
<1>5. c = m
  BY <1>1, <1>3, <1>4
<1> QED
  BY <1>2, <1>5 DEF LastNoted

LEMMA NothingNoted ==
  ASSUME NEW j \in Seq(Entry), \A k \in DOMAIN j : ~j[k].noted
  PROVE  LastNoted(j) = 0
  BY DEF LastNoted

LEMMA LastNotedFacts ==
  ASSUME NEW j \in Seq(Entry)
  PROVE  \/ LastNoted(j) = 0 /\ \A k \in DOMAIN j : ~j[k].noted
         \/ \E m \in DOMAIN j : /\ j[m].noted /\ LastNoted(j) = j[m].batch
                                /\ \A k \in DOMAIN j : j[k].noted => k <= m
<1>1. CASE \A k \in DOMAIN j : ~j[k].noted
  BY <1>1, NothingNoted
<1>2. CASE \E k \in DOMAIN j : j[k].noted
  <2> DEFINE T == {n \in Nat : \E i \in DOMAIN j : j[i].noted /\ n = Len(j) - i}
  <2>1. \A i \in DOMAIN j : i \in Nat /\ Len(j) - i \in Nat
    OBVIOUS
  <2>2. T \in SUBSET Nat /\ T # {}
    BY <1>2, <2>1
  <2>3. PICK n \in T : \A u \in T : ~ (<<u, n>> \in OpToRel(<, Nat))
    BY <2>2, NatLessThanWellFounded, WFMin, Zenon
  <2>4. \A u \in T : ~ (u < n)
    BY <2>3 DEF OpToRel
  <2>5. PICK m \in DOMAIN j : j[m].noted /\ n = Len(j) - m
    BY <2>3
  <2>6. ASSUME NEW k \in DOMAIN j, j[k].noted
        PROVE  k <= m
    <3>1. Len(j) - k \in T
      BY <2>1, <2>6
    <3>2. ~ (Len(j) - k < Len(j) - m)
      BY <2>4, <2>5, <3>1, Zenon
    <3>3. k \in Nat /\ m \in Nat /\ Len(j) \in Nat
      BY <2>1
    <3> QED
      BY ONLY <3>2, <3>3
  <2> QED
    BY <2>5, <2>6, NotedUnique
<1> QED
  BY <1>1, <1>2

-----------------------------------------------------------------------------
(* Types *)

USE BoundsType

LEMMA WalTypes ==
  ASSUME wal \in Seq(WalBatch)
  PROVE  /\ DOMAIN wal = 1 .. Len(wal) /\ Len(wal) \in Nat /\ NextSeq \in Nat \ {0}
         /\ wal = <<>> <=> Len(wal) = 0
         /\ \A b \in DOMAIN wal : /\ b \in Nat \ {0} /\ wal[b].seq \in Nat \ {0}
                                  /\ wal[b].records \in Nat \ {0}
<1>1. /\ DOMAIN wal = 1 .. Len(wal) /\ Len(wal) \in Nat
      /\ wal = <<>> <=> Len(wal) = 0
      /\ \A b \in DOMAIN wal : wal[b] \in WalBatch
  BY EmptySeq
<1>2. \A b \in DOMAIN wal : /\ b \in Nat \ {0} /\ wal[b].seq \in Nat \ {0}
                            /\ wal[b].records \in Nat \ {0}
  BY <1>1 DEF WalBatch
<1>3. NextSeq \in Nat \ {0}
  <2>1. CASE wal = <<>>
    BY <2>1 DEF NextSeq
  <2>2. CASE wal # <<>>
    <3>1. Len(wal) \in DOMAIN wal
      BY <1>1, <2>2
    <3>2. wal[Len(wal)].seq \in Nat \ {0} /\ wal[Len(wal)].records \in Nat \ {0}
      BY <1>2, <3>1
    <3> QED
      BY <2>2, <3>2 DEF NextSeq
  <2> QED
    BY <2>1, <2>2
<1> QED
  BY <1>1, <1>2, <1>3

LEMMA NotedTypes ==
  ASSUME RepTypeOK
  PROVE  /\ LastNoted(journal) = 0 \/ LastNoted(journal) \in DOMAIN wal
         /\ SeqOf(LastNoted(journal)) \in Nat
<1>1. journal \in Seq(Entry) /\ \A i \in DOMAIN journal : journal[i].batch \in DOMAIN wal
  BY DEF RepTypeOK
<1>2. LastNoted(journal) = 0 \/ LastNoted(journal) \in DOMAIN wal
  BY <1>1, LastNotedFacts
<1>3. \A b \in DOMAIN wal : wal[b].seq \in Nat
  BY WalTypes DEF RepTypeOK
<1> QED
  BY <1>2, <1>3 DEF SeqOf

LEMMA EntryFacts ==
  ASSUME NEW e \in Entry, NEW v \in BOOLEAN, NEW u, u = [e EXCEPT !.noted = v]
  PROVE  u \in Entry /\ u.batch = e.batch /\ u.noted = v
<1>1. e = [batch |-> e.batch, noted |-> e.noted] /\ e.batch \in Nat \ {0}
  BY DEF Entry
<1>2. u = [batch |-> e.batch, noted |-> v]
  BY <1>1
<1> QED
  BY <1>1, <1>2 DEF Entry

LEMMA NoteFacts ==
  ASSUME journal \in Seq(Entry), journal' = [journal EXCEPT ![Len(journal)].noted = TRUE]
  PROVE  /\ journal' \in Seq(Entry) /\ DOMAIN journal' = DOMAIN journal /\ Len(journal') = Len(journal)
         /\ \A i \in DOMAIN journal : journal'[i].batch = journal[i].batch
         /\ \A i \in DOMAIN journal : i # Len(journal) => journal'[i] = journal[i]
         /\ journal # <<>> => journal'[Len(journal)].noted
<1>0. \A i \in DOMAIN journal : journal[i] \in Entry
  OBVIOUS
<1>1. \A i \in DOMAIN journal : /\ [journal[i] EXCEPT !.noted = TRUE] \in Entry
                          /\ [journal[i] EXCEPT !.noted = TRUE].batch = journal[i].batch
                          /\ [journal[i] EXCEPT !.noted = TRUE].noted
  <2> SUFFICES ASSUME NEW i \in DOMAIN journal, NEW u, u = [journal[i] EXCEPT !.noted = TRUE]
               PROVE  u \in Entry /\ u.batch = journal[i].batch /\ u.noted
    OBVIOUS
  <2>1. journal[i] \in Entry
    BY <1>0
  <2>2. journal[i] = [batch |-> journal[i].batch, noted |-> journal[i].noted] /\ journal[i].batch \in Nat \ {0}
    BY <2>1 DEF Entry
  <2>3. u = [batch |-> journal[i].batch, noted |-> TRUE]
    BY <2>2
  <2> QED
    BY <2>2, <2>3 DEF Entry
<1>2. \A i \in DOMAIN journal : journal'[i] = IF i = Len(journal) THEN [journal[i] EXCEPT !.noted = TRUE] ELSE journal[i]
  OBVIOUS
<1>3. DOMAIN journal' = DOMAIN journal /\ DOMAIN journal = 1 .. Len(journal) /\ Len(journal) \in Nat
  OBVIOUS
<1>4. journal' \in [1 .. Len(journal) -> Entry]
  BY <1>0, <1>1, <1>2, <1>3
<1>5. journal' \in Seq(Entry) /\ Len(journal') = Len(journal)
  BY <1>3, <1>4
<1>6. \A i \in DOMAIN journal : journal'[i].batch = journal[i].batch
  BY <1>1, <1>2
<1>7. journal # <<>> => Len(journal) \in DOMAIN journal
  BY <1>3, EmptySeq
<1> QED
  BY <1>1, <1>2, <1>3, <1>5, <1>6, <1>7

LEMMA LeftFacts ==
  ASSUME journal \in Seq(Entry), NEW n \in 0 .. Len(journal), NEW noted \in BOOLEAN,
         NEW t, t = Left(n, noted)
  PROVE  /\ t \in Seq(Entry) /\ DOMAIN t = 1 .. n
         /\ \A i \in 1 .. n : i \in DOMAIN journal /\ t[i].batch = journal[i].batch
         /\ \A i \in 1 .. n : t[i].noted => journal[i].noted
         /\ \A i \in 1 .. n : i < n => t[i].noted = journal[i].noted
<1>1. n \in Nat /\ \A i \in 1 .. n : i \in DOMAIN journal /\ journal[i] \in Entry
  OBVIOUS
<1>2. \A i \in 1 .. n : t[i] = [journal[i] EXCEPT !.noted = @ /\ (i < n \/ noted)]
  BY DEF Left
<1>3. \A i \in 1 .. n : /\ t[i].batch = journal[i].batch
                        /\ t[i].noted = (journal[i].noted /\ (i < n \/ noted))
                        /\ t[i] \in Entry
  <2> SUFFICES ASSUME NEW i \in 1 .. n
               PROVE  /\ t[i].batch = journal[i].batch
                      /\ t[i].noted = (journal[i].noted /\ (i < n \/ noted))
                      /\ t[i] \in Entry
    OBVIOUS
  <2>1. t[i] = [journal[i] EXCEPT !.noted = (journal[i].noted /\ (i < n \/ noted))]
    BY <1>2
  <2>2. (journal[i].noted /\ (i < n \/ noted)) \in BOOLEAN
    OBVIOUS
  <2>3. journal[i] \in Entry
    BY <1>1
  <2> QED
    BY ONLY <2>1, <2>2, <2>3, EntryFacts
<1>4. t \in [1 .. n -> Entry]
  BY <1>3 DEF Left
<1>5. t \in Seq(Entry) /\ DOMAIN t = 1 .. n
  BY <1>1, <1>4
<1>6. \A i \in 1 .. n : journal[i].noted \in BOOLEAN
  BY <1>1 DEF Entry
<1>7. \A i \in 1 .. n : /\ t[i].noted => journal[i].noted
                        /\ i < n => t[i].noted = journal[i].noted
  BY <1>3, <1>6, Zenon
<1> QED
  BY <1>1, <1>3, <1>5, <1>7

LEMMA RepTypeStep ==
  ASSUME RepTypeOK, RepNext
  PROVE  RepTypeOK'
<1>1. /\ wal \in Seq(WalBatch)
      /\ up \in BOOLEAN /\ tailing \in BOOLEAN /\ noting \in BOOLEAN
      /\ current \in Nat /\ after \in Nat /\ drops \in Nat
      /\ stream \in Seq(Nat \ {0}) /\ journal \in Seq(Entry)
      /\ \A i \in DOMAIN stream : stream[i] \in DOMAIN wal
      /\ \A i \in DOMAIN journal : journal[i].batch \in DOMAIN wal
      /\ noting => up /\ journal # <<>> /\ stream # <<>>
  BY DEF RepTypeOK
<1>2. /\ NextSeq \in Nat \ {0} /\ DOMAIN wal \subseteq Nat \ {0}
      /\ \A b \in DOMAIN wal : wal[b].seq \in Nat \ {0}
  BY <1>1, WalTypes
<1>3. CASE Write
  <2>1. PICK n \in Records : wal' = Append(wal, [seq |-> NextSeq, records |-> n])
    BY <1>3 DEF Write
  <2>2. [seq |-> NextSeq, records |-> n] \in WalBatch
    BY <1>2 DEF WalBatch
  <2>3. wal' \in Seq(WalBatch) /\ DOMAIN wal \subseteq DOMAIN wal'
    BY ONLY <1>1, <2>1, <2>2, AppendFacts
  <2>4. /\ up' = up /\ tailing' = tailing /\ noting' = noting /\ current' = current
        /\ after' = after /\ drops' = drops /\ stream' = stream /\ journal' = journal
    BY <1>3 DEF Write, linkVars, primaryVars
  <2>5. /\ \A i \in DOMAIN stream' : stream'[i] \in DOMAIN wal'
        /\ \A i \in DOMAIN journal' : journal'[i].batch \in DOMAIN wal'
    BY <1>1, <2>3, <2>4
  <2> QED
    BY <1>1, <2>3, <2>4, <2>5 DEF RepTypeOK
<1>4. CASE Connect
  <2>1. /\ wal' = wal /\ journal' = journal /\ noting' = noting /\ drops' = drops
        /\ up' = TRUE /\ tailing' = FALSE /\ after' = 0 /\ stream' = <<>>
        /\ current' = SeqOf(LastNoted(journal)) /\ ~up
    BY <1>4 DEF Connect
  <2>2. SeqOf(LastNoted(journal)) \in Nat
    BY NotedTypes
  <2>3. /\ stream' \in Seq(Nat \ {0}) /\ DOMAIN stream' = {}
        /\ current' \in Nat /\ after' \in Nat
    BY <2>1, <2>2
  <2>4. ~noting'
    BY <1>1, <2>1, Zenon
  <2> QED
    BY <1>1, <2>1, <2>3, <2>4 DEF RepTypeOK
<1>5. CASE Poll
  <2>1. /\ wal' = wal /\ up' = up /\ current' = current /\ stream' = stream
        /\ journal' = journal /\ noting' = noting /\ drops' = drops
        /\ tailing' = TRUE /\ after' = current
    BY <1>5 DEF Poll
  <2> QED
    BY <1>1, <2>1 DEF RepTypeOK
<1>6. CASE EndOfLog
  <2>1. /\ wal' = wal /\ up' = up /\ current' = current /\ stream' = stream
        /\ journal' = journal /\ noting' = noting /\ drops' = drops
        /\ tailing' = FALSE /\ after' = 0
    BY <1>6 DEF EndOfLog
  <2> QED
    BY <1>1, <2>1 DEF RepTypeOK
<1>7. CASE Apply
  <2> DEFINE e == [batch |-> Head(stream), noted |-> FALSE]
  <2>1. /\ wal' = wal /\ up' = up /\ tailing' = tailing /\ current' = current
        /\ after' = after /\ drops' = drops /\ stream' = stream
        /\ up /\ stream # <<>> /\ noting' = TRUE /\ journal' = Append(journal, e)
    BY <1>7 DEF Apply, linkVars, primaryVars
  <2>2. Head(stream) \in DOMAIN wal
    <3>1. 1 \in DOMAIN stream /\ Head(stream) = stream[1]
      BY ONLY <1>1, <2>1, TailFacts
    <3> QED
      BY <1>1, <3>1
  <2>3. e \in Entry /\ e.batch = Head(stream)
    BY <1>2, <2>2 DEF Entry
  <2> HIDE DEF e
  <2>4. /\ journal' \in Seq(Entry) /\ journal' # <<>> /\ Len(journal) \in Nat
        /\ DOMAIN journal = 1 .. Len(journal) /\ DOMAIN journal' = 1 .. Len(journal) + 1
        /\ \A i \in 1 .. Len(journal) : journal'[i] = journal[i]
        /\ journal'[Len(journal) + 1] = e
    BY ONLY <1>1, <2>1, <2>3, AppendFacts
  <2>5. \A i \in DOMAIN journal' : journal'[i].batch \in DOMAIN wal'
    <3> SUFFICES ASSUME NEW i \in 1 .. Len(journal) + 1
                 PROVE  journal'[i].batch \in DOMAIN wal
      BY <2>1, <2>4
    <3>1. CASE i \in 1 .. Len(journal)
      BY <1>1, <2>4, <3>1
    <3>2. CASE i = Len(journal) + 1
      BY <2>2, <2>3, <2>4, <3>2
    <3> QED
      BY <2>4, <3>1, <3>2
  <2>6. \A i \in DOMAIN stream' : stream'[i] \in DOMAIN wal'
    BY <1>1, <2>1
  <2> QED
    BY <1>1, <2>1, <2>4, <2>5, <2>6 DEF RepTypeOK
<1>8. CASE Note
  <2>1. /\ wal' = wal /\ up' = up /\ tailing' = tailing /\ current' = current
        /\ after' = after /\ drops' = drops
        /\ journal' = [journal EXCEPT ![Len(journal)].noted = TRUE]
        /\ stream' = Tail(stream) /\ noting' = FALSE
    BY <1>8 DEF Note, primaryVars
  <2>2. stream # <<>> /\ journal # <<>>
    BY <1>1, <1>8 DEF Note
  <2>3. /\ stream' \in Seq(Nat \ {0}) /\ \A i \in DOMAIN stream' : i + 1 \in DOMAIN stream
        /\ \A i \in DOMAIN stream' : stream'[i] = stream[i + 1]
    <3>1. /\ Tail(stream) \in Seq(Nat \ {0}) /\ Len(stream) \in Nat \ {0}
          /\ DOMAIN stream = 1 .. Len(stream) /\ DOMAIN Tail(stream) = 1 .. Len(stream) - 1
          /\ \A i \in 1 .. Len(stream) - 1 : Tail(stream)[i] = stream[i + 1]
      <4>1. stream \in Seq(Nat \ {0})
        BY <1>1
      <4> QED
        BY ONLY <2>2, <4>1, TailFacts
    <3>2. stream' = Tail(stream)
      BY <2>1
    <3>3. \A i \in 1 .. Len(stream) - 1 : i + 1 \in DOMAIN stream
      BY <3>1
    <3> QED
      BY ONLY <3>1, <3>2, <3>3
  <2>4. \A i \in DOMAIN stream' : stream'[i] \in DOMAIN wal'
    BY <1>1, <2>1, <2>3
  <2>5. /\ journal' \in Seq(Entry) /\ DOMAIN journal' = DOMAIN journal
        /\ \A i \in DOMAIN journal : journal'[i].batch = journal[i].batch
    <3>1. journal \in Seq(Entry)
      BY <1>1
    <3> QED
      BY <2>1, <3>1, NoteFacts
  <2>6. \A i \in DOMAIN journal' : journal'[i].batch \in DOMAIN wal'
    BY <1>1, <2>1, <2>5
  <2> QED
    BY <1>1, <2>1, <2>3, <2>4, <2>5, <2>6 DEF RepTypeOK
<1>9. ASSUME Disconnected, wal' = wal, journal' \in Seq(Entry),
             \A i \in DOMAIN journal' : journal'[i].batch \in DOMAIN wal
      PROVE  RepTypeOK'
  <2>1. /\ up' = FALSE /\ current' = 0 /\ tailing' = FALSE /\ after' = 0
        /\ stream' = <<>> /\ noting' = FALSE /\ drops' = drops + 1
    BY <1>9 DEF Disconnected
  <2>2. stream' \in Seq(Nat \ {0}) /\ DOMAIN stream' = {} /\ drops' \in Nat
    BY <1>1, <2>1
  <2>3. wal' \in Seq(WalBatch) /\ \A i \in DOMAIN journal' : journal'[i].batch \in DOMAIN wal'
    BY <1>1, <1>9
  <2> QED
    BY <1>9, <2>1, <2>2, <2>3 DEF RepTypeOK
<1>10. CASE Drop
  <2>1. Disconnected /\ wal' = wal /\ journal' = journal
    BY <1>10 DEF Drop
  <2> QED
    BY <1>1, <1>9, <2>1
<1>11. CASE Crash
  <2>1. PICK n \in 0 .. Len(journal), noted \in BOOLEAN : journal' = Left(n, noted)
    BY <1>11 DEF Crash
  <2>2. Disconnected /\ wal' = wal
    BY <1>11 DEF Crash
  <2>3. /\ journal' \in Seq(Entry) /\ DOMAIN journal' = 1 .. n
        /\ \A i \in 1 .. n : i \in DOMAIN journal /\ journal'[i].batch = journal[i].batch
    BY <1>1, <2>1, LeftFacts
  <2> QED
    BY <1>1, <1>9, <2>2, <2>3
<1>12. ASSUME NEW b \in DOMAIN wal, Send(b)
       PROVE  RepTypeOK'
  <2>1. /\ wal' = wal /\ up' = up /\ tailing' = tailing /\ journal' = journal
        /\ noting' = noting /\ drops' = drops /\ stream' = Append(stream, b)
        /\ after' = wal[b].seq /\ current' = wal[b].seq + 1
    BY <1>12 DEF Send
  <2>2. b \in Nat \ {0} /\ wal[b].seq \in Nat \ {0}
    BY <1>2
  <2>3. /\ stream' \in Seq(Nat \ {0}) /\ stream' # <<>> /\ Len(stream) \in Nat
        /\ DOMAIN stream = 1 .. Len(stream) /\ DOMAIN stream' = 1 .. Len(stream) + 1
        /\ \A i \in 1 .. Len(stream) : stream'[i] = stream[i]
        /\ stream'[Len(stream) + 1] = b
    <3>1. stream \in Seq(Nat \ {0}) /\ b \in Nat \ {0}
      BY <1>1, <2>2
    <3>2. stream' = Append(stream, b)
      BY <2>1
    <3> QED
      BY ONLY <3>1, <3>2, AppendFacts
  <2>4. \A i \in DOMAIN stream' : stream'[i] \in DOMAIN wal'
    <3> SUFFICES ASSUME NEW i \in 1 .. Len(stream) + 1
                 PROVE  stream'[i] \in DOMAIN wal
      BY <2>1, <2>3
    <3>1. CASE i \in 1 .. Len(stream)
      BY <1>1, <2>3, <3>1
    <3>2. CASE i = Len(stream) + 1
      BY <2>3, <3>2
    <3> QED
      BY <2>3, <3>1, <3>2
  <2>5. \A i \in DOMAIN journal' : journal'[i].batch \in DOMAIN wal'
    BY <1>1, <2>1
  <2>6. current' \in Nat /\ after' \in Nat /\ stream' \in Seq(Nat \ {0}) /\ stream' # <<>>
    BY <2>1, <2>2, <2>3
  <2> QED
    BY <1>1, <2>1, <2>4, <2>5, <2>6 DEF RepTypeOK
<1> QED
  BY <1>3, <1>4, <1>5, <1>6, <1>7, <1>8, <1>10, <1>11, <1>12 DEF RepNext

\* Every action keeps what RepTypeOK says.
THEOREM ReplicaTypes == RepSpec => []RepTypeOK
<1>1. RepInit => RepTypeOK
  <2> SUFFICES ASSUME RepInit PROVE RepTypeOK
    OBVIOUS
  <2>1. /\ wal = <<>> /\ up = FALSE /\ current = 0 /\ tailing = FALSE /\ after = 0
        /\ stream = <<>> /\ journal = <<>> /\ noting = FALSE /\ drops = 0
    BY DEF RepInit
  <2>2. /\ wal \in Seq(WalBatch) /\ stream \in Seq(Nat \ {0}) /\ journal \in Seq(Entry)
        /\ DOMAIN stream = {} /\ DOMAIN journal = {}
    BY <2>1
  <2> QED
    BY <2>1, <2>2 DEF RepTypeOK
<1>2. RepTypeOK /\ [RepNext]_repVars => RepTypeOK'
  <2>1. RepTypeOK /\ UNCHANGED repVars => RepTypeOK'
    BY DEF RepTypeOK, repVars, linkVars, primaryVars
  <2> QED
    BY <2>1, RepTypeStep
<1> QED
  BY <1>1, <1>2, PTL DEF RepSpec

-----------------------------------------------------------------------------
(* The log and the cursor *)

LEMMA OrderFacts ==
  ASSUME wal \in Seq(WalBatch), WalOrdered, NEW a \in DOMAIN wal, NEW b \in DOMAIN wal
  PROVE  a < b <=> wal[a].seq < wal[b].seq
<1>1. /\ a \in Nat /\ b \in Nat
      /\ wal[a].seq \in Nat /\ wal[b].seq \in Nat
      /\ wal[a].records \in Nat \ {0} /\ wal[b].records \in Nat \ {0}
  BY WalTypes
<1>2. /\ a < b => wal[a].seq + wal[a].records <= wal[b].seq
      /\ b < a => wal[b].seq + wal[b].records <= wal[a].seq
  BY DEF WalOrdered
<1> QED
  BY <1>1, <1>2

\* The batch the iterator yields follows the one the cursor stands at.
LEMMA NextFollows ==
  ASSUME wal \in Seq(WalBatch), WalOrdered, NEW p, p = 0 \/ p \in DOMAIN wal,
         \/ after = SeqOf(p)
         \/ p # 0 /\ after = SeqOf(p) + 1,
         NEW b \in DOMAIN wal, IsNext(b)
  PROVE  Follows(p, b)
<1>1. /\ DOMAIN wal = 1 .. Len(wal) /\ Len(wal) \in Nat
      /\ \A c \in DOMAIN wal : c \in Nat \ {0} /\ wal[c].seq \in Nat \ {0}
                               /\ wal[c].records \in Nat \ {0}
  BY WalTypes
<1>2. wal[b].seq > after /\ \A c \in DOMAIN wal : wal[c].seq > after => b <= c
  BY DEF IsNext
<1>3. CASE p = 0
  <2>1. after = 0 /\ 1 \in DOMAIN wal
    BY <1>1, <1>3 DEF SeqOf
  <2>2. b <= 1
    BY <1>1, <1>2, <2>1
  <2> QED
    BY <1>1, <1>3, <2>2 DEF Follows
<1>4. CASE p # 0
  <2>1. p \in DOMAIN wal /\ SeqOf(p) = wal[p].seq /\ p \in Nat \ {0}
    BY <1>1, <1>4 DEF SeqOf
  <2>2. wal[p].seq \in Nat /\ wal[b].seq \in Nat /\ b \in Nat /\ wal[p].records \in Nat \ {0}
    BY <1>1, <2>1
  <2>3. after \in Nat /\ after >= wal[p].seq
    BY <2>1, <2>2
  <2>4. p < b
    BY <1>2, <2>1, <2>2, <2>3, OrderFacts
  <2>5. p + 1 \in DOMAIN wal
    BY <1>1, <2>1, <2>4
  <2>6. wal[p + 1].seq = wal[p].seq + wal[p].records
    BY <2>1, <2>5 DEF WalOrdered
  <2>7. CASE wal[p + 1].seq > after
    <3>1. b <= p + 1
      BY <1>2, <2>5, <2>7
    <3> QED
      BY <2>1, <2>2, <2>4, <3>1 DEF Follows
  <2>8. CASE ~(wal[p + 1].seq > after)
    <3>1. wal[p].records = 1 /\ after = wal[p + 1].seq
      BY <2>1, <2>2, <2>6, <2>8
    <3>2. b # p + 1
      BY <1>2, <2>8
    <3>3. b >= p + 2 /\ p + 2 \in DOMAIN wal
      BY <1>1, <2>1, <2>2, <2>4, <3>2
    <3>4. wal[p + 1].seq < wal[p + 2].seq
      BY <2>1, <2>5, <3>3, OrderFacts
    <3>5. wal[p + 2].seq > after
      BY <1>1, <3>1, <3>3, <3>4, <2>5
    <3>6. b <= p + 2
      BY <1>2, <3>3, <3>5
    <3> QED
      BY <2>1, <2>2, <3>1, <3>3, <3>6 DEF Follows
  <2> QED
    BY <2>7, <2>8
<1> QED
  BY <1>3, <1>4

LEMMA FollowsLater ==
  ASSUME NEW p \in Nat, NEW b, Follows(p, b)
  PROVE  b \in Nat /\ p < b
  BY DEF Follows

-----------------------------------------------------------------------------
(* The journal *)

\* What the invariant says of the journal and of the log it is read against.
LEMMA JournalKept ==
  ASSUME RepTypeOK, SkipsOnlyAfterSingles, NEW n \in 0 .. Len(journal), wal' = wal,
         DOMAIN journal' = 1 .. n,
         \A i \in 1 .. n : journal'[i].batch = journal[i].batch,
         \A i \in 1 .. n : i < n => journal'[i].noted = journal[i].noted
  PROVE  SkipsOnlyAfterSingles'
<1>1. /\ Len(journal) \in Nat /\ n \in Nat /\ 1 .. n \subseteq DOMAIN journal
      /\ \A i \in DOMAIN journal : i \in Nat \ {0}
  BY DEF RepTypeOK
<1>2. SUFFICES ASSUME NEW i \in 1 .. n, NEW h \in 0 .. i - 1, NotedBefore(h, i)'
               PROVE  Follows(BatchAt(h), journal[i].batch)'
  BY DEF SkipsOnlyAfterSingles
<1>3. /\ h \in Nat /\ i \in Nat \ {0} /\ h < i /\ i <= n
      /\ \A k \in h + 1 .. i - 1 : k \in 1 .. n /\ k < n
      /\ h # 0 => h \in 1 .. n /\ h < n
  BY <1>1
<1>4. NotedBefore(h, i)
  <2>1. h = 0 \/ journal'[h].noted
    BY <1>2 DEF NotedBefore
  <2>2. \A k \in h + 1 .. i - 1 : ~journal'[k].noted
    BY <1>2 DEF NotedBefore
  <2>3. h = 0 \/ journal[h].noted
    BY <1>3, <2>1
  <2>4. \A k \in h + 1 .. i - 1 : ~journal[k].noted
    BY <1>3, <2>2
  <2> QED
    BY <2>3, <2>4 DEF NotedBefore
<1>5. Follows(BatchAt(h), journal[i].batch)
  BY <1>1, <1>3, <1>4 DEF SkipsOnlyAfterSingles
<1>6. journal'[i].batch = journal[i].batch /\ (h # 0 => journal'[h].batch = journal[h].batch)
  BY <1>3
<1> QED
  BY <1>5, <1>6 DEF Follows, BatchAt

Ascending(j) == \A i, k \in DOMAIN j : i < k /\ j[i].noted => j[i].batch < j[k].batch

LEMMA AscendingKept ==
  ASSUME RepTypeOK, Ascending(journal), NEW n \in 0 .. Len(journal),
         DOMAIN journal' = 1 .. n,
         \A i \in 1 .. n : journal'[i].batch = journal[i].batch,
         \A i \in 1 .. n : i < n => journal'[i].noted = journal[i].noted
  PROVE  Ascending(journal')
<1>1. Len(journal) \in Nat /\ n \in Nat /\ 1 .. n \subseteq DOMAIN journal
  BY DEF RepTypeOK
<1>2. SUFFICES ASSUME NEW i \in 1 .. n, NEW k \in 1 .. n, i < k, journal'[i].noted
               PROVE  journal'[i].batch < journal'[k].batch
  BY DEF Ascending
<1>3. i < n
  BY <1>1, <1>2
<1>4. journal[i].noted
  BY <1>2, <1>3
<1>5. journal[i].batch < journal[k].batch
  BY <1>1, <1>2, <1>4 DEF Ascending
<1> QED
  BY <1>5

\* The last noted entry before the end is the one LastNoted finds.
LEMMA NotedBeforeEnd ==
  ASSUME journal \in Seq(Entry), NEW h \in 0 .. Len(journal),
         h = 0 \/ journal[h].noted,
         \A k \in h + 1 .. Len(journal) : ~journal[k].noted
  PROVE  LastNoted(journal) = IF h = 0 THEN 0 ELSE journal[h].batch
<1>1. DOMAIN journal = 1 .. Len(journal) /\ Len(journal) \in Nat /\ h \in Nat
  OBVIOUS
<1>2. CASE h = 0
  <2>1. \A k \in DOMAIN journal : ~journal[k].noted
    BY <1>1, <1>2
  <2> QED
    BY <1>2, <2>1, NothingNoted
<1>3. CASE h # 0
  <2>1. h \in DOMAIN journal /\ journal[h].noted
    BY <1>1, <1>3
  <2>2. \A k \in DOMAIN journal : journal[k].noted => k <= h
    BY <1>1
  <2> QED
    BY <1>3, <2>1, <2>2, NotedUnique
<1> QED
  BY <1>2, <1>3

-----------------------------------------------------------------------------
(* The invariant *)

LEMMA WalStep ==
  ASSUME RepTypeOK, WalOrdered, NEW n \in Records,
         wal' = Append(wal, [seq |-> NextSeq, records |-> n])
  PROVE  /\ WalOrdered' /\ DOMAIN wal \subseteq DOMAIN wal'
         /\ \A b \in DOMAIN wal : wal'[b] = wal[b]
<1> DEFINE e == [seq |-> NextSeq, records |-> n]
           l == Len(wal)
<1>1. /\ wal \in Seq(WalBatch) /\ DOMAIN wal = 1 .. l /\ l \in Nat /\ NextSeq \in Nat \ {0}
      /\ wal = <<>> <=> l = 0
      /\ \A b \in DOMAIN wal : /\ wal[b].seq \in Nat \ {0}
                               /\ wal[b].records \in Nat \ {0}
  BY WalTypes DEF RepTypeOK
<1>2. e \in WalBatch /\ e.seq = NextSeq /\ e.records = n /\ n \in Nat \ {0}
  BY <1>1 DEF WalBatch
<1> HIDE DEF e
<1>3. wal' = Append(wal, e)
  BY DEF e
<1>4. /\ wal' # <<>> /\ Len(wal') = l + 1 /\ DOMAIN wal' = 1 .. l + 1
      /\ \A b \in 1 .. l : wal'[b] = wal[b]
      /\ wal'[l + 1] = e
  BY ONLY <1>1, <1>2, <1>3, AppendFacts
<1>5. NextSeq' = NextSeq + n
  BY <1>2, <1>4 DEF NextSeq
<1>6. \A b \in 1 .. l : wal[b].seq + wal[b].records <= NextSeq
  BY <1>1 DEF WalOrdered
<1> HIDE DEF l
<1>7. \A b \in DOMAIN wal' : wal'[b].seq + wal'[b].records <= NextSeq'
  <2> SUFFICES ASSUME NEW b \in 1 .. l + 1
               PROVE  wal'[b].seq + wal'[b].records <= NextSeq + n
    BY <1>4, <1>5
  <2>1. CASE b \in 1 .. l
    <3>1. /\ wal[b].seq \in Nat /\ wal[b].records \in Nat
          /\ wal[b].seq + wal[b].records <= NextSeq /\ wal'[b] = wal[b]
      BY <1>1, <1>4, <1>6, <2>1
    <3> QED
      BY <1>1, <1>2, <3>1
  <2>2. CASE b = l + 1
    BY <1>1, <1>2, <1>4, <2>2
  <2> QED
    BY <1>1, <2>1, <2>2
<1>8. \A i, j \in DOMAIN wal' : i < j => wal'[i].seq + wal'[i].records <= wal'[j].seq
  <2> SUFFICES ASSUME NEW i \in 1 .. l + 1, NEW j \in 1 .. l + 1, i < j
               PROVE  wal'[i].seq + wal'[i].records <= wal'[j].seq
    BY <1>4
  <2>1. i \in 1 .. l /\ wal'[i] = wal[i]
    BY <1>1, <1>4
  <2>2. CASE j \in 1 .. l
    BY <1>1, <1>4, <2>1, <2>2 DEF WalOrdered
  <2>3. CASE j = l + 1
    BY <1>2, <1>4, <1>6, <2>1, <2>3
  <2>4. j \in 1 .. l \/ j = l + 1
    BY ONLY <1>1, j \in 1 .. l + 1
  <2> QED
    BY ONLY <2>2, <2>3, <2>4
<1>9. \A i, j \in DOMAIN wal' : j = i + 1 => wal'[j].seq = wal'[i].seq + wal'[i].records
  <2> SUFFICES ASSUME NEW i \in 1 .. l + 1, NEW j \in 1 .. l + 1, j = i + 1
               PROVE  wal'[j].seq = wal'[i].seq + wal'[i].records
    BY <1>4
  <2>1. i \in 1 .. l /\ wal'[i] = wal[i]
    BY <1>1, <1>4
  <2>2. CASE j \in 1 .. l
    BY <1>1, <1>4, <2>1, <2>2 DEF WalOrdered
  <2>3. CASE j = l + 1
    <3>1. i = l /\ wal # <<>>
      BY <1>1, <2>1, <2>3
    <3>2. NextSeq = wal[i].seq + wal[i].records
      BY <3>1 DEF NextSeq, l
    <3> QED
      BY <1>2, <1>4, <2>1, <2>3, <3>2
  <2> QED
    BY <1>1, <2>2, <2>3
<1>10. wal'[1].seq = 1
  <2>1. CASE wal = <<>>
    BY <1>1, <1>2, <1>4, <2>1 DEF NextSeq
  <2>2. CASE wal # <<>>
    <3>1. 1 \in 1 .. l
      BY <1>1, <2>2
    <3> QED
      BY <1>4, <2>2, <3>1 DEF WalOrdered
  <2> QED
    BY <2>1, <2>2
<1>11. WalOrdered'
  BY <1>7, <1>8, <1>9, <1>10 DEF WalOrdered
<1> QED
  BY <1>1, <1>4, <1>11

\* A longer log changes nothing that is said of its first batches.
LEMMA FollowsKept ==
  ASSUME DOMAIN wal \subseteq DOMAIN wal', \A b \in DOMAIN wal : wal'[b] = wal[b]
  PROVE  /\ \A p \in DOMAIN wal \cup {0} : SeqOf(p)' = SeqOf(p)
         /\ \A p \in DOMAIN wal \cup {0} : \A b : Follows(p, b)' <=> Follows(p, b)
  BY DEF SeqOf, Follows

LEMMA SentLastType ==
  ASSUME RepTypeOK
  PROVE  SentLast \in DOMAIN wal \cup {0}
<1>1. CASE stream = <<>>
  BY <1>1, NotedTypes DEF SentLast
<1>2. CASE stream # <<>>
  <2>1. Len(stream) \in DOMAIN stream
    BY <1>2, EmptySeq DEF RepTypeOK
  <2> QED
    BY <1>2, <2>1 DEF SentLast, RepTypeOK
<1> QED
  BY <1>1, <1>2

\* The five parts of the invariant, as the steps below cite them
LEMMA RepInvParts ==
  ASSUME RepTypeOK, RepInv
  PROVE  /\ WalOrdered /\ SkipsOnlyAfterSingles /\ Ascending(journal)
         /\ ~up => stream = <<>>
         /\ up => Behind(current) /\ (tailing => Behind(after))
         /\ stream # <<>> => Follows(LastNoted(journal), stream[1])
         /\ \A i, j \in DOMAIN stream : j = i + 1 => Follows(stream[i], stream[j])
         /\ noting => journal[Len(journal)] = [batch |-> stream[1], noted |-> FALSE]
         /\ wal \in Seq(WalBatch) /\ journal \in Seq(Entry) /\ stream \in Seq(Nat \ {0})
         /\ DOMAIN stream = 1 .. Len(stream) /\ Len(stream) \in Nat
         /\ stream # <<>> => Len(stream) # 0
         /\ DOMAIN journal = 1 .. Len(journal) /\ Len(journal) \in Nat
         /\ journal # <<>> => Len(journal) # 0
<1>1. /\ wal \in Seq(WalBatch) /\ journal \in Seq(Entry) /\ stream \in Seq(Nat \ {0})
      /\ noting \in BOOLEAN /\ up \in BOOLEAN /\ tailing \in BOOLEAN
  BY DEF RepTypeOK
<1>2. /\ DOMAIN stream = 1 .. Len(stream) /\ Len(stream) \in Nat
      /\ stream # <<>> => Len(stream) # 0
      /\ DOMAIN journal = 1 .. Len(journal) /\ Len(journal) \in Nat
      /\ journal # <<>> => Len(journal) # 0
  BY <1>1, EmptySeq
<1>3. StreamFollows /\ WalOrdered /\ SkipsOnlyAfterSingles
  BY DEF RepInv
<1>4. Ascending(journal)
  BY DEF RepInv, Ascending
<1> QED
  BY <1>1, <1>2, <1>3, <1>4 DEF StreamFollows

LEMMA RepInvMade ==
  ASSUME WalOrdered', SkipsOnlyAfterSingles', Ascending(journal'), StreamFollows'
  PROVE  RepInv'
  BY DEF RepInv, Ascending

LEMMA WriteStep ==
  ASSUME RepTypeOK, RepInv, Write
  PROVE  RepInv'
<1>1. PICK n \in Records : wal' = Append(wal, [seq |-> NextSeq, records |-> n])
  BY DEF Write
<1>2. /\ up' = up /\ current' = current /\ tailing' = tailing /\ after' = after
      /\ stream' = stream /\ journal' = journal /\ noting' = noting
  BY DEF Write, linkVars, primaryVars
<1>3. /\ WalOrdered' /\ DOMAIN wal \subseteq DOMAIN wal'
      /\ \A b \in DOMAIN wal : wal'[b] = wal[b]
  BY <1>1, RepInvParts, WalStep
<1>4. /\ \A p \in DOMAIN wal \cup {0} : SeqOf(p)' = SeqOf(p)
      /\ \A p \in DOMAIN wal \cup {0} : \A b : Follows(p, b)' <=> Follows(p, b)
  BY <1>3, FollowsKept
<1>5. SkipsOnlyAfterSingles'
  <2> SUFFICES ASSUME NEW i \in DOMAIN journal, NEW h \in 0 .. i - 1, NotedBefore(h, i)
               PROVE  Follows(BatchAt(h), journal[i].batch)'
    BY <1>2 DEF SkipsOnlyAfterSingles, NotedBefore
  <2>1. Follows(BatchAt(h), journal[i].batch)
    BY RepInvParts DEF SkipsOnlyAfterSingles
  <2>2. BatchAt(h) \in DOMAIN wal \cup {0}
    <3>1. h # 0 => h \in DOMAIN journal
      BY RepInvParts
    <3> QED
      BY <3>1 DEF RepTypeOK, BatchAt
  <2>3. BatchAt(h)' = BatchAt(h) /\ journal'[i].batch = journal[i].batch
    BY <1>2 DEF BatchAt
  <2> DEFINE p == BatchAt(h)
             b == journal[i].batch
  <2>4. wal'[p].records = wal[p].records \/ p = 0
    BY <1>3, <2>2
  <2> QED
    BY <2>1, <2>3, <2>4 DEF Follows
<1>6. SentLast' = SentLast /\ SentLast \in DOMAIN wal \cup {0}
  BY <1>2, SentLastType DEF SentLast
<1>7. SeqOf(SentLast)' = SeqOf(SentLast)
  BY <1>3, <1>6 DEF SeqOf
<1>8. StreamFollows'
  <2>1. up' => Behind(current)' /\ (tailing' => Behind(after)')
    BY <1>2, <1>6, <1>7, RepInvParts DEF Behind
  <2>2. stream' # <<>> => Follows(LastNoted(journal), stream[1])'
    <3>1. LastNoted(journal) \in DOMAIN wal \cup {0}
      BY NotedTypes
    <3>2. wal'[LastNoted(journal)] = wal[LastNoted(journal)] \/ LastNoted(journal) = 0
      BY <1>3, <3>1
    <3> QED
      BY <1>2, <3>2, RepInvParts DEF Follows
  <2>3. \A i, j \in DOMAIN stream' : j = i + 1 => Follows(stream[i], stream[j])'
    <3> SUFFICES ASSUME NEW i \in DOMAIN stream, NEW j \in DOMAIN stream, j = i + 1
                 PROVE  Follows(stream[i], stream[j])'
      BY <1>2
    <3>1. Follows(stream[i], stream[j]) /\ stream[i] \in DOMAIN wal
      BY RepInvParts DEF RepTypeOK
    <3> QED
      BY <1>2, <1>3, <3>1 DEF Follows
  <2> QED
    BY <1>2, <2>1, <2>2, <2>3, RepInvParts DEF StreamFollows
<1> QED
  BY <1>2, <1>3, <1>5, <1>8, RepInvParts, RepInvMade

\* The log and the journal stay as they are.
LEMMA LinkStep ==
  ASSUME RepTypeOK, RepInv, wal' = wal, journal' = journal, StreamFollows'
  PROVE  RepInv'
<1>1. WalOrdered'
  BY RepInvParts DEF WalOrdered, NextSeq
<1>2. SkipsOnlyAfterSingles'
  <2>1. Len(journal) \in 0 .. Len(journal) /\ DOMAIN journal' = 1 .. Len(journal)
    BY RepInvParts
  <2> QED
    BY <2>1, RepInvParts, JournalKept
<1>3. Ascending(journal')
  BY RepInvParts
<1> QED
  BY <1>1, <1>2, <1>3, RepInvMade

LEMMA ConnectStep ==
  ASSUME RepTypeOK, RepInv, Connect
  PROVE  RepInv'
<1>1. /\ wal' = wal /\ journal' = journal /\ noting' = noting /\ ~up
      /\ up' = TRUE /\ tailing' = FALSE /\ stream' = <<>>
      /\ current' = SeqOf(LastNoted(journal))
  BY DEF Connect
<1>2. ~noting'
  BY <1>1, Zenon DEF RepTypeOK
<1>3. SentLast' = LastNoted(journal)
  BY <1>1 DEF SentLast
<1>4. Behind(current)'
  BY <1>1, <1>3 DEF Behind, SeqOf
<1>5. DOMAIN stream' = {}
  BY <1>1
<1>6. StreamFollows'
  BY <1>1, <1>2, <1>4, <1>5 DEF StreamFollows
<1> QED
  BY <1>1, <1>6, LinkStep

LEMMA PollStep ==
  ASSUME RepTypeOK, RepInv, Poll \/ EndOfLog
  PROVE  RepInv'
<1>1. /\ wal' = wal /\ up' = up /\ current' = current /\ stream' = stream
      /\ journal' = journal /\ noting' = noting /\ up
  BY DEF Poll, EndOfLog
<1>2. tailing' => after' = current
  BY DEF Poll, EndOfLog
<1>3. /\ \A c : Behind(c)' <=> Behind(c)
      /\ \A p, b : Follows(p, b)' <=> Follows(p, b)
  BY <1>1 DEF Behind, SentLast, SeqOf, Follows
<1>4. Behind(current)
  BY <1>1, RepInvParts
<1>5. Behind(current)' /\ (tailing' => Behind(after)')
  BY <1>1, <1>2, <1>4 DEF Behind, SentLast, SeqOf
<1>6. /\ stream' # <<>> => Follows(LastNoted(journal), stream[1])'
      /\ \A i, j \in DOMAIN stream' : j = i + 1 => Follows(stream[i], stream[j])'
  BY <1>1, RepInvParts DEF Follows
<1>7. noting' => journal'[Len(journal')] = [batch |-> stream'[1], noted |-> FALSE]
  BY <1>1, RepInvParts
<1>8. StreamFollows'
  BY <1>1, <1>5, <1>6, <1>7 DEF StreamFollows
<1> QED
  BY <1>1, <1>8, LinkStep

LEMMA SendStep ==
  ASSUME RepTypeOK, RepInv, NEW b \in DOMAIN wal, Send(b)
  PROVE  RepInv'
<1>1. /\ wal' = wal /\ up' = up /\ tailing' = tailing /\ journal' = journal
      /\ noting' = noting /\ up /\ tailing /\ IsNext(b) /\ stream' = Append(stream, b)
      /\ after' = wal[b].seq /\ current' = wal[b].seq + 1
  BY DEF Send
<1>2. b \in Nat \ {0} /\ wal[b].seq \in Nat
  BY RepInvParts, WalTypes
<1>3. /\ stream' # <<>> /\ Len(stream) \in Nat
      /\ DOMAIN stream = 1 .. Len(stream) /\ DOMAIN stream' = 1 .. Len(stream) + 1
      /\ Len(stream') = Len(stream) + 1
      /\ \A i \in 1 .. Len(stream) : stream'[i] = stream[i]
      /\ stream'[Len(stream) + 1] = b
  BY <1>1, <1>2, RepInvParts, AppendFacts
<1>4. Follows(SentLast, b)
  <2>1. Behind(after)
    BY <1>1, RepInvParts
  <2>2. SentLast = 0 \/ SentLast \in DOMAIN wal
    BY SentLastType
  <2>3. wal \in Seq(WalBatch) /\ WalOrdered
    BY RepInvParts
  <2> QED
    BY <1>1, <2>1, <2>2, <2>3, NextFollows DEF Behind
<1>5. SentLast' = b
  BY <1>3 DEF SentLast
<1>6. Behind(current)' /\ Behind(after)'
  BY <1>1, <1>2, <1>5 DEF Behind, SeqOf
<1>7. Follows(LastNoted(journal), stream[1])'
  <2>1. CASE stream = <<>>
    <3>1. stream'[1] = b /\ SentLast = LastNoted(journal)
      BY <1>3, <2>1 DEF SentLast
    <3> QED
      BY <1>1, <1>4, <3>1 DEF Follows
  <2>2. CASE stream # <<>>
    <3>1. stream'[1] = stream[1]
      BY <1>3, <2>2, RepInvParts
    <3> QED
      BY <1>1, <2>2, <3>1, RepInvParts DEF Follows
  <2> QED
    BY <2>1, <2>2
<1>8. \A i, j \in DOMAIN stream' : j = i + 1 => Follows(stream[i], stream[j])'
  <2> SUFFICES ASSUME NEW i \in 1 .. Len(stream) + 1, NEW j \in 1 .. Len(stream) + 1, j = i + 1
               PROVE  Follows(stream[i], stream[j])'
    BY <1>3
  <2>1. i \in 1 .. Len(stream) /\ stream'[i] = stream[i]
    BY <1>3
  <2>2. CASE j \in 1 .. Len(stream)
    <3>1. Follows(stream[i], stream[j]) /\ stream'[j] = stream[j]
      BY <1>3, <2>1, <2>2, RepInvParts
    <3> QED
      BY <1>1, <2>1, <3>1 DEF Follows
  <2>3. CASE j = Len(stream) + 1
    <3>0. i \in Nat \ {0} /\ i <= Len(stream) /\ Len(stream) \in Nat
      BY ONLY Len(stream) \in Nat, i \in 1 .. Len(stream), <1>3, <2>1
    <3>1. i = Len(stream) /\ stream # <<>>
      <4>1. i = Len(stream)
        BY ONLY <2>3, <3>0, j = i + 1
      <4>2. CASE stream = <<>>
        BY <3>0, <4>1, <4>2
      <4> QED
        BY <4>1, <4>2
    <3>2. stream[i] = SentLast /\ stream'[j] = b
      BY <1>3, <2>3, <3>1 DEF SentLast
    <3> QED
      BY <1>1, <1>4, <2>1, <3>2 DEF Follows
  <2>4. j \in 1 .. Len(stream) \/ j = Len(stream) + 1
    BY ONLY <1>3, j \in 1 .. Len(stream) + 1
  <2> QED
    BY ONLY <2>2, <2>3, <2>4
<1>9. noting' => journal'[Len(journal')] = [batch |-> stream'[1], noted |-> FALSE]
  <2>1. noting => stream # <<>>
    BY DEF RepTypeOK
  <2>2. noting => stream'[1] = stream[1]
    BY <1>3, <2>1, RepInvParts
  <2> QED
    BY <1>1, <2>2, RepInvParts
<1>10. StreamFollows'
  BY <1>1, <1>3, <1>6, <1>7, <1>8, <1>9 DEF StreamFollows
<1> QED
  BY <1>1, <1>10, LinkStep

LEMMA DisconnectedStep ==
  ASSUME RepTypeOK, RepInv, Disconnected, NEW n \in 0 .. Len(journal), wal' = wal,
         DOMAIN journal' = 1 .. n,
         \A i \in 1 .. n : journal'[i].batch = journal[i].batch,
         \A i \in 1 .. n : i < n => journal'[i].noted = journal[i].noted
  PROVE  RepInv'
<1>1. up' = FALSE /\ stream' = <<>> /\ noting' = FALSE /\ DOMAIN stream' = {}
  BY DEF Disconnected
<1>2. StreamFollows'
  BY <1>1 DEF StreamFollows
<1>3. SkipsOnlyAfterSingles'
  BY RepInvParts, JournalKept
<1>4. Ascending(journal')
  BY RepInvParts, AscendingKept
<1>5. WalOrdered'
  BY RepInvParts DEF WalOrdered, NextSeq
<1> QED
  BY <1>2, <1>3, <1>4, <1>5, RepInvMade

LEMMA ApplyStep ==
  ASSUME RepTypeOK, RepInv, Apply
  PROVE  RepInv'
<1> DEFINE e == [batch |-> Head(stream), noted |-> FALSE]
           l == Len(journal)
<1>1. /\ wal' = wal /\ up' = up /\ tailing' = tailing /\ current' = current
      /\ after' = after /\ stream' = stream /\ up /\ stream # <<>>
      /\ noting' = TRUE /\ journal' = Append(journal, e)
  BY DEF Apply, linkVars, primaryVars
<1>2. Head(stream) = stream[1] /\ stream[1] \in Nat \ {0}
  BY <1>1, RepInvParts, TailFacts
<1>3. e \in Entry /\ e.batch = stream[1] /\ e.noted = FALSE
      /\ e = [batch |-> stream[1], noted |-> FALSE]
  BY <1>2 DEF Entry
<1> HIDE DEF e
<1>4. /\ journal' \in Seq(Entry) /\ l \in Nat /\ Len(journal') = l + 1
      /\ DOMAIN journal = 1 .. l /\ DOMAIN journal' = 1 .. l + 1
      /\ \A i \in 1 .. l : journal'[i] = journal[i]
      /\ journal'[l + 1] = e
  BY <1>1, <1>3, RepInvParts, AppendFacts
<1> HIDE DEF l
<1>5. LastNoted(journal') = LastNoted(journal)
  <2>1. journal \in Seq(Entry)
    BY RepInvParts
  <2>2. CASE \A k \in DOMAIN journal : ~journal[k].noted
    <3>1. \A k \in DOMAIN journal' : ~journal'[k].noted
      <4> SUFFICES ASSUME NEW k \in 1 .. l + 1 PROVE ~journal'[k].noted
        BY <1>4
      <4>1. CASE k \in 1 .. l
        BY <1>4, <2>2, <4>1
      <4>2. CASE k = l + 1
        BY <1>3, <1>4, <4>2
      <4> QED
        BY <1>4, <4>1, <4>2
    <3> QED
      BY <1>4, <2>1, <2>2, <3>1, NothingNoted
  <2>3. ASSUME NEW m \in DOMAIN journal, journal[m].noted,
               LastNoted(journal) = journal[m].batch,
               \A k \in DOMAIN journal : journal[k].noted => k <= m
        PROVE  LastNoted(journal') = LastNoted(journal)
    <3>1. m \in DOMAIN journal' /\ journal'[m] = journal[m] /\ m \in 1 .. l
      BY <1>4, <2>3
    <3>2. ASSUME NEW k \in 1 .. l + 1, journal'[k].noted
          PROVE  k <= m
      <4>1. k # l + 1
        BY <1>3, <1>4, <3>2
      <4>2. k \in 1 .. l
        BY <1>4, <4>1
      <4> QED
        BY <1>4, <2>3, <3>2, <4>2
    <3>3. \A k \in DOMAIN journal' : journal'[k].noted => k <= m
      BY <1>4, <3>2
    <3>4. journal'[m].noted
      BY <2>3, <3>1
    <3>5. LastNoted(journal') = journal'[m].batch
      BY ONLY <1>4, <3>1, <3>3, <3>4, NotedUnique
    <3> QED
      BY <2>3, <3>1, <3>5
  <2> QED
    BY <2>1, <2>2, <2>3, LastNotedFacts
<1>6. Follows(LastNoted(journal), stream[1])
  BY <1>1, RepInvParts
<1>7. SkipsOnlyAfterSingles'
  <2> SUFFICES ASSUME NEW i \in 1 .. l + 1, NEW h \in 0 .. i - 1, NotedBefore(h, i)'
               PROVE  Follows(BatchAt(h), journal[i].batch)'
    BY <1>4 DEF SkipsOnlyAfterSingles
  <2>1. /\ h \in Nat /\ i \in Nat \ {0} /\ h < i /\ h \in 0 .. l
        /\ \A k \in h + 1 .. i - 1 : k \in 1 .. l
        /\ h # 0 => h \in 1 .. l
    BY <1>4
  <2>2. h = 0 \/ journal[h].noted
    BY <1>4, <2>1 DEF NotedBefore
  <2>3. \A k \in h + 1 .. i - 1 : ~journal[k].noted
    <3>1. \A k \in h + 1 .. i - 1 : ~journal'[k].noted
      BY DEF NotedBefore
    <3> QED
      BY <1>4, <2>1, <3>1
  <2>4. BatchAt(h)' = BatchAt(h)
    BY <1>4, <2>1 DEF BatchAt
  <2>5. CASE i \in 1 .. l
    <3>1. NotedBefore(h, i)
      BY <2>2, <2>3 DEF NotedBefore
    <3>2. Follows(BatchAt(h), journal[i].batch)
      BY <1>4, <2>5, <3>1, RepInvParts DEF SkipsOnlyAfterSingles
    <3> QED
      BY <1>1, <1>4, <2>4, <2>5, <3>2 DEF Follows
  <2>6. CASE i = l + 1
    <3>1. \A k \in h + 1 .. Len(journal) : ~journal[k].noted
      BY <1>4, <2>3, <2>6 DEF l
    <3>2. h \in 0 .. Len(journal) /\ journal \in Seq(Entry)
      BY <2>1, RepInvParts DEF l
    <3>3. BatchAt(h) = LastNoted(journal)
      BY ONLY <2>2, <3>1, <3>2, NotedBeforeEnd DEF BatchAt
    <3>4. journal'[i].batch = stream[1]
      BY <1>3, <1>4, <2>6
    <3> QED
      BY <1>1, <1>6, <2>4, <3>3, <3>4 DEF Follows
  <2>7. i \in 1 .. l \/ i = l + 1
    BY ONLY <1>4, i \in 1 .. l + 1
  <2> QED
    BY ONLY <2>5, <2>6, <2>7
<1>8. Ascending(journal')
  <2> SUFFICES ASSUME NEW i \in 1 .. l + 1, NEW k \in 1 .. l + 1, i < k, journal'[i].noted
               PROVE  journal'[i].batch < journal'[k].batch
    BY <1>4 DEF Ascending
  <2>1. i \in 1 .. l /\ journal'[i] = journal[i] /\ journal[i].noted
    BY <1>4
  <2>2. CASE k \in 1 .. l
    BY <1>4, <2>1, <2>2, RepInvParts DEF Ascending
  <2>3. CASE k = l + 1
    <3>1. PICK m \in DOMAIN journal : /\ journal[m].noted
                                      /\ LastNoted(journal) = journal[m].batch
                                      /\ \A c \in DOMAIN journal : journal[c].noted => c <= m
      BY <1>4, <2>1, LastNotedFacts, RepInvParts
    <3>2. i \in DOMAIN journal /\ i <= m /\ i \in Nat /\ m \in Nat
      BY <1>4, <2>1, <3>1
    <3>3. journal[i].batch \in DOMAIN wal /\ journal[m].batch \in DOMAIN wal
      BY <3>1, <3>2 DEF RepTypeOK
    <3>4. journal[i].batch \in Nat /\ journal[m].batch \in Nat
      BY <3>3, RepInvParts, WalTypes
    <3>5. journal[i].batch <= journal[m].batch
      <4>1. CASE i = m
        BY <3>4, <4>1
      <4>2. CASE i < m
        <5>1. Ascending(journal)
          BY RepInvParts
        <5>2. journal[i].batch < journal[m].batch
          BY ONLY <2>1, <3>1, <3>2, <4>2, <5>1 DEF Ascending
        <5> QED
          BY ONLY <3>4, <5>2
      <4> QED
        BY <3>2, <4>1, <4>2
    <3>6. journal[m].batch < stream[1]
      BY <1>6, <3>1, <3>4, FollowsLater
    <3> QED
      BY <1>2, <1>3, <1>4, <2>1, <2>3, <3>4, <3>5, <3>6
  <2>4. k \in 1 .. l \/ k = l + 1
    BY ONLY <1>4, k \in 1 .. l + 1
  <2> QED
    BY ONLY <2>2, <2>3, <2>4
<1>9. SentLast' = SentLast
  BY <1>1 DEF SentLast
<1>10. Behind(current)' /\ (tailing' => Behind(after)')
  BY <1>1, <1>9, RepInvParts DEF Behind, SeqOf
<1>11. Follows(LastNoted(journal), stream[1])'
  BY <1>1, <1>5, <1>6 DEF Follows
<1>12. \A i, j \in DOMAIN stream' : j = i + 1 => Follows(stream[i], stream[j])'
  BY <1>1, RepInvParts DEF Follows
<1>13. journal'[Len(journal')] = [batch |-> stream'[1], noted |-> FALSE]
  BY <1>1, <1>3, <1>4
<1>14. StreamFollows'
  BY <1>1, <1>10, <1>11, <1>12, <1>13 DEF StreamFollows
<1>15. WalOrdered'
  BY <1>1, RepInvParts DEF WalOrdered, NextSeq
<1> QED
  BY <1>7, <1>8, <1>14, <1>15, RepInvMade

LEMMA NoteStep ==
  ASSUME RepTypeOK, RepInv, Note
  PROVE  RepInv'
<1> DEFINE l == Len(journal)
<1>1. /\ wal' = wal /\ up' = up /\ tailing' = tailing /\ current' = current
      /\ after' = after /\ stream' = Tail(stream) /\ up /\ noting /\ noting' = FALSE
      /\ journal' = [journal EXCEPT ![Len(journal)].noted = TRUE]
  BY DEF Note, primaryVars
<1>2. stream # <<>> /\ journal # <<>>
  BY <1>1 DEF RepTypeOK
<1>3. l \in Nat \ {0} /\ DOMAIN journal = 1 .. l /\ l \in DOMAIN journal
  BY <1>2, RepInvParts
<1>4. /\ journal' \in Seq(Entry) /\ DOMAIN journal' = DOMAIN journal
      /\ \A i \in DOMAIN journal : journal'[i].batch = journal[i].batch
      /\ \A i \in DOMAIN journal : i # l => journal'[i] = journal[i]
      /\ journal'[l].noted
  BY <1>1, <1>2, RepInvParts, NoteFacts
<1>5. journal[l] = [batch |-> stream[1], noted |-> FALSE]
  BY <1>1, RepInvParts
<1>6. LastNoted(journal') = stream[1]
  <2>1. \A k \in DOMAIN journal' : journal'[k].noted => k <= l
    BY <1>3, <1>4
  <2>2. LastNoted(journal') = journal'[l].batch
    BY ONLY <1>3, <1>4, <2>1, NotedUnique
  <2> QED
    BY <1>3, <1>4, <1>5, <2>2
<1> HIDE DEF l
<1>7. /\ DOMAIN journal' = 1 .. l /\ l \in 0 .. Len(journal)
      /\ \A i \in 1 .. l : journal'[i].batch = journal[i].batch
      /\ \A i \in 1 .. l : i < l => journal'[i].noted = journal[i].noted
  BY <1>3, <1>4 DEF l
<1>8. SkipsOnlyAfterSingles' /\ Ascending(journal')
  BY <1>1, <1>7, RepInvParts, JournalKept, AscendingKept
<1>9. /\ Len(stream) \in Nat \ {0} /\ DOMAIN stream = 1 .. Len(stream)
      /\ DOMAIN stream' = 1 .. Len(stream) - 1 /\ Len(stream') = Len(stream) - 1
      /\ stream' = <<>> <=> Len(stream) = 1
      /\ \A i \in 1 .. Len(stream) - 1 : stream'[i] = stream[i + 1]
  <2>1. stream \in Seq(Nat \ {0})
    BY RepInvParts
  <2>2. stream' = Tail(stream)
    BY <1>1
  <2> QED
    BY ONLY <1>2, <2>1, <2>2, TailFacts
<1>10. SentLast' = SentLast
  <2>1. SentLast = stream[Len(stream)]
    BY <1>2 DEF SentLast
  <2>2. CASE Len(stream) = 1
    BY <1>6, <1>9, <2>1, <2>2 DEF SentLast
  <2>3. CASE Len(stream) # 1
    <3>1. stream' # <<>> /\ Len(stream) - 1 \in 1 .. Len(stream) - 1
      BY <1>9, <2>3
    <3>2. stream'[Len(stream')] = stream[Len(stream) - 1 + 1]
      BY <1>9, <3>1
    <3>3. Len(stream) - 1 + 1 = Len(stream)
      BY <1>9
    <3> QED
      BY <2>1, <3>1, <3>2, <3>3 DEF SentLast
  <2> QED
    BY <2>2, <2>3
<1>11. Behind(current)' /\ (tailing' => Behind(after)')
  BY <1>1, <1>10, RepInvParts DEF Behind, SeqOf
<1>12. stream' # <<>> => Follows(LastNoted(journal), stream[1])'
  <2> SUFFICES ASSUME stream' # <<>>
               PROVE  Follows(LastNoted(journal), stream[1])'
    OBVIOUS
  <2>1. 1 \in 1 .. Len(stream) - 1 /\ 1 \in DOMAIN stream /\ 1 + 1 \in DOMAIN stream
    BY <1>9
  <2>2. stream'[1] = stream[1 + 1]
    BY <1>9, <2>1
  <2>3. Follows(stream[1], stream[1 + 1])
    BY <2>1, RepInvParts
  <2> QED
    BY <1>1, <1>6, <2>2, <2>3 DEF Follows
<1>13. \A i, j \in DOMAIN stream' : j = i + 1 => Follows(stream[i], stream[j])'
  <2> SUFFICES ASSUME NEW i \in 1 .. Len(stream) - 1, NEW j \in 1 .. Len(stream) - 1, j = i + 1
               PROVE  Follows(stream[i], stream[j])'
    BY <1>9
  <2>1. i + 1 \in DOMAIN stream /\ j + 1 \in DOMAIN stream /\ j + 1 = (i + 1) + 1
    BY <1>9
  <2>2. Follows(stream[i + 1], stream[j + 1])
    BY <2>1, RepInvParts
  <2>3. stream'[i] = stream[i + 1] /\ stream'[j] = stream[j + 1]
    BY <1>9
  <2> QED
    BY <1>1, <2>2, <2>3 DEF Follows
<1>14. StreamFollows'
  BY <1>1, <1>11, <1>12, <1>13 DEF StreamFollows
<1>15. WalOrdered'
  BY <1>1, RepInvParts DEF WalOrdered, NextSeq
<1> QED
  BY <1>8, <1>14, <1>15, RepInvMade

LEMMA RepInvStep ==
  ASSUME RepTypeOK, RepInv, [RepNext]_repVars
  PROVE  RepInv'
<1>1. CASE UNCHANGED repVars
  <2>1. /\ wal' = wal /\ up' = up /\ current' = current /\ tailing' = tailing
        /\ after' = after /\ stream' = stream /\ journal' = journal /\ noting' = noting
    BY <1>1 DEF repVars, linkVars, primaryVars
  <2>2. StreamFollows'
    BY <2>1 DEF RepInv, StreamFollows, Behind, SentLast, SeqOf, Follows
  <2> QED
    BY <2>1, <2>2, LinkStep
<1>2. CASE Drop
  <2>1. Disconnected /\ wal' = wal /\ journal' = journal
    BY <1>2 DEF Drop
  <2>2. Len(journal) \in 0 .. Len(journal) /\ DOMAIN journal' = 1 .. Len(journal)
    BY <2>1, RepInvParts
  <2> QED
    BY <2>1, <2>2, DisconnectedStep
<1>3. CASE Crash
  <2>1. PICK n \in 0 .. Len(journal), noted \in BOOLEAN : journal' = Left(n, noted)
    BY <1>3 DEF Crash
  <2>2. Disconnected /\ wal' = wal
    BY <1>3 DEF Crash
  <2>3. /\ DOMAIN journal' = 1 .. n
        /\ \A i \in 1 .. n : journal'[i].batch = journal[i].batch
        /\ \A i \in 1 .. n : i < n => journal'[i].noted = journal[i].noted
    <3>1. journal \in Seq(Entry)
      BY RepInvParts
    <3> QED
      BY <2>1, <3>1, LeftFacts
  <2> QED
    BY <2>2, <2>3, DisconnectedStep
<1> QED
  BY <1>1, <1>2, <1>3, WriteStep, ConnectStep, PollStep, SendStep, ApplyStep, NoteStep
     DEF RepNext

\* What is sent follows what is noted, and the journal follows itself.
THEOREM ReplicationInvariant == RepSpec => []RepInv
<1>1. RepInit => RepInv
  <2> SUFFICES ASSUME RepInit PROVE RepInv
    OBVIOUS
  <2>1. /\ wal = <<>> /\ up = FALSE /\ stream = <<>> /\ journal = <<>> /\ noting = FALSE
        /\ DOMAIN wal = {} /\ DOMAIN stream = {} /\ DOMAIN journal = {}
    BY DEF RepInit
  <2>2. WalOrdered /\ SkipsOnlyAfterSingles
    BY <2>1 DEF WalOrdered, SkipsOnlyAfterSingles
  <2>3. StreamFollows
    BY <2>1 DEF StreamFollows
  <2> QED
    BY <2>1, <2>2, <2>3 DEF RepInv
<1>2. RepTypeOK /\ RepInv /\ [RepNext]_repVars => RepInv'
  BY RepInvStep
<1> QED
  BY <1>1, <1>2, ReplicaTypes, PTL DEF RepSpec

\* Whatever is lost of the replica's connections and writes, each batch it
\* applies follows the last it noted, or leaves out one after a single.
THEOREM SkipsAreSingles == RepSpec => []SkipsOnlyAfterSingles
<1>1. RepInv => SkipsOnlyAfterSingles
  BY DEF RepInv
<1> QED
  BY <1>1, ReplicationInvariant, PTL

\* A batch whose number was noted is never applied again.
THEOREM RepeatsAreUnnoted == RepSpec => []RepeatsOnlyUnnoted
<1>1. RepTypeOK /\ RepInv => RepeatsOnlyUnnoted
  <2> SUFFICES ASSUME RepTypeOK, RepInv, NEW i \in DOMAIN journal, NEW j \in DOMAIN journal,
                      i < j, journal[i].batch = journal[j].batch, journal[i].noted
               PROVE  FALSE
    BY DEF RepeatsOnlyUnnoted
  <2>1. journal[i].batch < journal[j].batch
    BY RepInvParts DEF Ascending
  <2>2. journal[i].batch \in DOMAIN wal /\ journal[j].batch \in DOMAIN wal
    BY DEF RepTypeOK
  <2>3. journal[i].batch \in Nat
    BY <2>2, RepInvParts, WalTypes
  <2> QED
    BY <2>1, <2>3
<1> QED
  BY <1>1, ReplicaTypes, ReplicationInvariant, PTL
=============================================================================
