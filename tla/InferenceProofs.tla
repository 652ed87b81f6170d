--------------------------- MODULE InferenceProofs ---------------------------
(***************************************************************************)
(* Proofs about Inference, for every finite set of statements, axioms and  *)
(* graphs, all rules, any chunk size and every bound: full runs are exact, *)
(* incremental ones are while facts are only asserted, and the persisted   *)
(* count is the number of inferred facts unless a run was torn.            *)
(***************************************************************************)
EXTENDS Inference, FiniteSetTheorems, SequenceTheorems, WellFoundedInduction, TLAPS

-----------------------------------------------------------------------------
(* The invariants *)

Base == [st : Statement \cup Axiom, label : Graph]

\* What commit i did to the facts of `by`.
On(by, i) == IF log[i].by = by THEN log[i].on ELSE {}
Off(by, i) == IF log[i].by = by THEN log[i].off ELSE {}

\* The facts the run under way started from, and the inferred ones there are.
BaseFacts == Live("client", basis)
Inferred == Live("inference", basis)
InferredNow == Live("inference", Len(log))

\* Clients write facts of graphs, and only they have a commit in flight.
LogInv ==
  /\ \A i \in DOMAIN log : log[i].by = "client" => log[i].on \subseteq Base
  /\ landed < Len(log) => log[Len(log)].by = "client"

\* Every fact of facts follows from base.
Sound(facts, base) ==
  \A f \in facts : f.st \in Statement =>
     /\ f.st \in Follows(In(base, Graph), InForce(base))
     /\ f.label # Cross => f.st \in Follows(In(base, {f.label}), InForce(base))

\* What one rule step draws from facts of done is there.
Drawn(done, facts, axioms) ==
  \A f \in done : \A c \in Consequences(f, done, axioms) : Present(c, facts)

\* facts are the base and what follows from it.
Exact(facts, base) ==
  /\ base \subseteq facts
  /\ Sound(facts, base)
  /\ Drawn(facts, facts, InForce(base))

\* Where the facts a run knows come from.
KnowsInv ==
  phase # "idle" =>
     /\ phase # "deriving" => queue = {}
     /\ full => gone = {} /\ seen = BaseFacts \cup fresh
     /\ ~full => /\ gone \subseteq Inferred /\ Inferred \subseteq seen \cup gone
                 /\ fresh \cap Inferred = {}

\* What the inferred graphs are to hold when the run has written everything.
Target == IF full THEN fresh ELSE (Inferred \cup fresh) \ gone

\* How much of it is written.
WrittenInv ==
  /\ phase = "deriving" => InferredNow = Inferred /\ todo = NoWork
  /\ phase \in {"writing", "counted"} =>
        /\ (InferredNow \cup todo.on) \ todo.off = Target
        /\ todo.on \cap InferredNow = {} /\ todo.off \subseteq InferredNow
  /\ phase = "counted" => todo = NoWork

\* Until a run has written everything, count is what it started with.
CountInv ==
  ~torn => count = Cardinality(IF phase = "writing" THEN Inferred ELSE InferredNow)

\* Everything drawn so far is right, and all that can be drawn from facts no
\* longer queued is there.
DerivesRight ==
  /\ queue \subseteq seen
  /\ BaseFacts \subseteq seen
  /\ Sound(seen, BaseFacts)
  /\ Drawn(seen \ queue, seen, RunAxioms)

FullInv == phase # "idle" /\ full => DerivesRight

\* Clients closed nothing after what the last run covers.
Mark == IF phase = "idle" THEN applied ELSE upto
GrowInv ==
  ~spoiled => \A i \in DOMAIN log : i > Mark => Off("client", i) = {}

\* A run that covers only assertions, and what it leaves.
RunExact ==
  /\ upto <= basis /\ Live("client", upto) = BaseFacts
  /\ ~full => /\ gone = {} /\ seen = BaseFacts \cup Inferred \cup fresh
              /\ DerivesRight
IdleExact ==
  /\ applied <= landed
  /\ Exact(Live("client", applied) \cup InferredNow, Live("client", applied))

InsertInv ==
  ~spoiled /\ ~skipped => /\ phase = "idle" /\ applied >= 0 => IdleExact
                          /\ phase # "idle" => RunExact

ExactInv ==
  phase = "idle" /\ exact >= 0 =>
     Exact(Live("client", exact) \cup InferredNow, Live("client", exact))

-----------------------------------------------------------------------------
(* Sequences and numbers *)

LEMMA LeastOf ==
  ASSUME NEW S \in SUBSET Nat, S # {}
  PROVE  \E m \in S : \A u \in S : m <= u
<1>1. PICK m \in S : \A u \in S : ~ (<<u, m>> \in OpToRel(<, Nat))
  BY NatLessThanWellFounded, WFMin, Zenon
<1>2. \A u \in S : ~ (u < m)
  BY <1>1 DEF OpToRel
<1> QED
  BY <1>2

LEMMA GreatestOf ==
  ASSUME NEW b \in Nat, NEW S \in SUBSET (0 .. b), S # {}
  PROVE  \E m \in S : \A u \in S : u <= m
<1> DEFINE T == {x \in Nat : \E u \in S : x = b - u}
<1>1. PICK v \in S : TRUE
  OBVIOUS
<1>2. b - v \in T
  OBVIOUS
<1>3. PICK x \in T : \A y \in T : x <= y
  BY <1>2, LeastOf
<1>4. PICK m \in S : x = b - m
  OBVIOUS
<1>5. \A u \in S : b - u \in T
  OBVIOUS
<1> HIDE DEF T
<1>6. \A u \in S : b - m <= b - u
  BY <1>3, <1>4, <1>5
<1> QED
  BY <1>6

LEMMA AppendFacts ==
  ASSUME NEW S, NEW s \in Seq(S), NEW e \in S
  PROVE  /\ Append(s, e) \in Seq(S)
         /\ Len(Append(s, e)) = Len(s) + 1
         /\ DOMAIN Append(s, e) = 1 .. Len(s) + 1
         /\ DOMAIN s = 1 .. Len(s)
         /\ \A i \in 1 .. Len(s) : Append(s, e)[i] = s[i]
         /\ Append(s, e)[Len(s) + 1] = e
  BY LenProperties

-----------------------------------------------------------------------------
(* Live facts *)

LEMMA LiveMeans ==
  ASSUME NEW by, NEW n, NEW f
  PROVE  f \in Live(by, n) <=>
           /\ f \in Fact
           /\ \E i \in 1 .. n : f \in On(by, i) /\ \A j \in i + 1 .. n : f \notin Off(by, j)
<1>1. \A i : f \in On(by, i) <=> log[i].by = by /\ f \in log[i].on
  BY DEF On
<1>2. \A j : f \in Off(by, j) <=> log[j].by = by /\ f \in log[j].off
  BY DEF Off
<1> QED
  BY <1>1, <1>2, Zenon DEF Live

\* Live facts depend only on the commits up to n.
LEMMA LiveAgrees ==
  ASSUME NEW by, NEW n \in Nat,
         \A i \in 1 .. n : On(by, i)' = On(by, i) /\ Off(by, i)' = Off(by, i)
  PROVE  Live(by, n)' = Live(by, n)
<1>1. \A i : \A j \in i + 1 .. n : i \in 1 .. n => j \in 1 .. n
  OBVIOUS
<1>2. ASSUME NEW f
      PROVE  f \in Live(by, n)' <=> f \in Live(by, n)
  <2>1. f \in Live(by, n) <=>
           /\ f \in Fact
           /\ \E i \in 1 .. n : f \in On(by, i) /\ \A j \in i + 1 .. n : f \notin Off(by, j)
    BY LiveMeans
  <2>2. (f \in Live(by, n) <=>
           /\ f \in Fact
           /\ \E i \in 1 .. n : f \in On(by, i) /\ \A j \in i + 1 .. n : f \notin Off(by, j))'
    <3>1. \A i : f \in On(by, i)' <=> log'[i].by = by /\ f \in log'[i].on
      BY DEF On
    <3>2. \A j : f \in Off(by, j)' <=> log'[j].by = by /\ f \in log'[j].off
      BY DEF Off
    <3> QED
      BY <3>1, <3>2, Zenon DEF Live
  <2> QED
    BY <1>1, <2>1, <2>2
<1> QED
  BY <1>2

\* While nothing is closed, live facts are those there were and those added.
LEMMA LiveGrows ==
  ASSUME NEW by, NEW n \in Nat, NEW m \in Nat, n <= m,
         \A i \in n + 1 .. m : Off(by, i) = {} /\ On(by, i) \subseteq Fact
  PROVE  Live(by, m) = Live(by, n) \cup UNION {On(by, i) : i \in n + 1 .. m}
<1> SUFFICES ASSUME NEW f
             PROVE  f \in Live(by, m) <=>
                      f \in Live(by, n) \/ \E i \in n + 1 .. m : f \in On(by, i)
  OBVIOUS
<1>1. ASSUME NEW i \in 1 .. m, f \in On(by, i), \A j \in i + 1 .. m : f \notin Off(by, j), f \in Fact
      PROVE  f \in Live(by, n) \/ \E k \in n + 1 .. m : f \in On(by, k)
  <2>1. CASE i \in n + 1 .. m
    BY <1>1, <2>1
  <2>2. CASE i <= n
    <3>1. i \in 1 .. n /\ \A j \in i + 1 .. n : j \in i + 1 .. m
      BY <2>2
    <3> QED
      BY <1>1, <3>1, LiveMeans
  <2> QED
    BY <2>1, <2>2
<1>2. ASSUME NEW i \in 1 .. n, f \in On(by, i), \A j \in i + 1 .. n : f \notin Off(by, j), f \in Fact
      PROVE  f \in Live(by, m)
  <2>1. i \in 1 .. m /\ \A j \in i + 1 .. m : j \in i + 1 .. n \/ j \in n + 1 .. m
    OBVIOUS
  <2> QED
    BY <1>2, <2>1, LiveMeans
<1>3. ASSUME NEW i \in n + 1 .. m, f \in On(by, i)
      PROVE  f \in Live(by, m)
  <2>1. i \in 1 .. m /\ \A j \in i + 1 .. m : j \in n + 1 .. m
    OBVIOUS
  <2> QED
    BY <1>3, <2>1, LiveMeans
<1> QED
  BY <1>1, <1>2, <1>3, LiveMeans

\* The last commit decides what it names.
LEMMA LiveAfterCommit ==
  ASSUME NEW by, NEW n \in Nat, On(by, n + 1) \subseteq Fact
  PROVE  Live(by, n + 1) = (Live(by, n) \ Off(by, n + 1)) \cup On(by, n + 1)
<1> SUFFICES ASSUME NEW f
             PROVE  f \in Live(by, n + 1) <=>
                      \/ f \in Live(by, n) /\ f \notin Off(by, n + 1)
                      \/ f \in On(by, n + 1)
  OBVIOUS
<1>1. CASE f \in On(by, n + 1)
  <2>1. n + 1 \in 1 .. n + 1 /\ ~ \E j \in n + 1 + 1 .. n + 1 : TRUE
    OBVIOUS
  <2> QED
    BY <1>1, <2>1, LiveMeans
<1>2. CASE f \notin On(by, n + 1)
  <2>1. \A i : i \in 1 .. n + 1 <=> i \in 1 .. n \/ i = n + 1
    OBVIOUS
  <2>2. \A i \in 1 .. n : \A j : j \in i + 1 .. n + 1 <=> j \in i + 1 .. n \/ j = n + 1
    OBVIOUS
  <2>3. f \in Live(by, n + 1) <=>
           /\ f \in Fact
           /\ \E i \in 1 .. n : f \in On(by, i) /\ \A j \in i + 1 .. n + 1 : f \notin Off(by, j)
    BY <1>2, <2>1, LiveMeans
  <2>4. f \in Live(by, n) <=>
           /\ f \in Fact
           /\ \E i \in 1 .. n : f \in On(by, i) /\ \A j \in i + 1 .. n : f \notin Off(by, j)
    BY LiveMeans
  <2> QED
    BY <1>2, <2>2, <2>3, <2>4
<1> QED
  BY <1>1, <1>2

LEMMA LiveTypes ==
  ASSUME NEW by, NEW n
  PROVE  Live(by, n) \subseteq Fact
  BY DEF Live

-----------------------------------------------------------------------------
(* The rules *)

\* r takes statements x and y, in either order.
Premises(r, x, y) == (r[1] = x /\ r[2] = y) \/ (r[1] = y /\ r[2] = x)

LEMMA RuleFacts ==
  ASSUME NEW axioms \in SUBSET Axiom, NEW a \in axioms
  PROVE  /\ \A r \in OneRule[a] : r[1] \in Statement /\ r[2] \in Statement
         /\ \A r \in Join[a] : r[1] \in Statement /\ r[2] \in Statement /\ r[3] \in Statement
  BY RulesType

LEMMA ConsequencesMean ==
  ASSUME NEW f, NEW facts, NEW axioms, NEW c
  PROVE  c \in Consequences(f, facts, axioms) <=>
           \E a \in axioms :
              \/ \E r \in OneRule[a] : r[1] = f.st /\ c = [st |-> r[2], label |-> f.label]
              \/ \E g \in facts : \E r \in Join[a] :
                    /\ <<f.st, g.st>> \in {<<r[1], r[2]>>, <<r[2], r[1]>>}
                    /\ c = [st |-> r[3], label |-> Combine(f.label, g.label)]
<1> DEFINE ones(a) == {[st |-> r[2], label |-> f.label] : r \in {r \in OneRule[a] : r[1] = f.st}}
           joins(a, g) == {[st |-> r[3], label |-> Combine(f.label, g.label)] :
                             r \in {r \in Join[a] : <<f.st, g.st>> \in {<<r[1], r[2]>>, <<r[2], r[1]>>}}}
           both(a) == ones(a) \cup UNION {joins(a, g) : g \in facts}
<1>1. \A a : c \in ones(a) <=>
         \E r \in OneRule[a] : r[1] = f.st /\ c = [st |-> r[2], label |-> f.label]
  OBVIOUS
<1>2. \A a, g : c \in joins(a, g) <=>
         \E r \in Join[a] : /\ <<f.st, g.st>> \in {<<r[1], r[2]>>, <<r[2], r[1]>>}
                            /\ c = [st |-> r[3], label |-> Combine(f.label, g.label)]
  OBVIOUS
<1> HIDE DEF ones, joins
<1>3. \A a : c \in both(a) <=> c \in ones(a) \/ \E g \in facts : c \in joins(a, g)
  OBVIOUS
<1> HIDE DEF both
<1>4. c \in UNION {both(a) : a \in axioms} <=> \E a \in axioms : c \in both(a)
  OBVIOUS
<1>5. Consequences(f, facts, axioms) = UNION {both(a) : a \in axioms}
  BY DEF Consequences, both, ones, joins
<1>6. c \in Consequences(f, facts, axioms) <=>
         \E a \in axioms : c \in ones(a) \/ \E g \in facts : c \in joins(a, g)
  BY <1>3, <1>4, <1>5
<1>7. \A a : c \in ones(a) \/ (\E g \in facts : c \in joins(a, g)) <=>
         \/ \E r \in OneRule[a] : r[1] = f.st /\ c = [st |-> r[2], label |-> f.label]
         \/ \E g \in facts : \E r \in Join[a] :
               /\ <<f.st, g.st>> \in {<<r[1], r[2]>>, <<r[2], r[1]>>}
               /\ c = [st |-> r[3], label |-> Combine(f.label, g.label)]
  BY <1>1, <1>2
<1> QED
  BY <1>6, <1>7

LEMMA PairFacts ==
  ASSUME NEW x, NEW y, NEW r
  PROVE  <<x, y>> \in {<<r[1], r[2]>>, <<r[2], r[1]>>} <=> Premises(r, x, y)
  BY DEF Premises

\* What a rule step draws is a fact about a statement, from facts about
\* statements.
LEMMA ConsequencesType ==
  ASSUME NEW f, f.label \in Label, NEW facts \in SUBSET Fact, NEW axioms \in SUBSET Axiom,
         NEW c \in Consequences(f, facts, axioms)
  PROVE  /\ c \in Fact /\ f.st \in Statement /\ c.st \in Statement
         /\ c = [st |-> c.st, label |-> c.label]
<1>1. PICK a \in axioms :
         \/ \E r \in OneRule[a] : r[1] = f.st /\ c = [st |-> r[2], label |-> f.label]
         \/ \E g \in facts : \E r \in Join[a] :
               /\ <<f.st, g.st>> \in {<<r[1], r[2]>>, <<r[2], r[1]>>}
               /\ c = [st |-> r[3], label |-> Combine(f.label, g.label)]
  BY ConsequencesMean
<1>2. ASSUME NEW r \in OneRule[a], r[1] = f.st, c = [st |-> r[2], label |-> f.label]
      PROVE  c \in Fact /\ f.st \in Statement /\ c.st \in Statement /\ c = [st |-> c.st, label |-> c.label]
  <2>1. r[1] \in Statement /\ r[2] \in Statement
    BY RuleFacts
  <2> QED
    BY <1>2, <2>1 DEF Fact
<1>3. ASSUME NEW g \in facts, NEW r \in Join[a],
             <<f.st, g.st>> \in {<<r[1], r[2]>>, <<r[2], r[1]>>},
             c = [st |-> r[3], label |-> Combine(f.label, g.label)]
      PROVE  c \in Fact /\ f.st \in Statement /\ c.st \in Statement /\ c = [st |-> c.st, label |-> c.label]
  <2>1. r[1] \in Statement /\ r[2] \in Statement /\ r[3] \in Statement
    BY RuleFacts
  <2>2. Combine(f.label, g.label) \in Label
    BY DEF Combine, Label, Fact
  <2>3. f.st = r[1] \/ f.st = r[2]
    BY <1>3
  <2> QED
    BY <1>3, <2>1, <2>2, <2>3 DEF Fact
<1> QED
  BY <1>1, <1>2, <1>3

LEMMA ConsequencesGrow ==
  ASSUME NEW f, NEW facts, NEW more, facts \subseteq more, NEW axioms
  PROVE  Consequences(f, facts, axioms) \subseteq Consequences(f, more, axioms)
<1> SUFFICES ASSUME NEW c \in Consequences(f, facts, axioms)
             PROVE  c \in Consequences(f, more, axioms)
  OBVIOUS
<1> QED
  BY ConsequencesMean

LEMMA PresentGrows ==
  ASSUME NEW x, NEW facts, NEW more, facts \subseteq more, Present(x, facts)
  PROVE  Present(x, more)
  BY DEF Present

\* The smallest closed set is closed, and in every closed set.
LEMMA FollowsFacts ==
  ASSUME NEW sts \in SUBSET Statement, NEW axioms \in SUBSET Axiom
  PROVE  /\ Follows(sts, axioms) \in SUBSET Statement
         /\ sts \subseteq Follows(sts, axioms)
         /\ ClosedUnder(Follows(sts, axioms), axioms)
         /\ \A T \in SUBSET Statement :
               sts \subseteq T /\ ClosedUnder(T, axioms) => Follows(sts, axioms) \subseteq T
<1> DEFINE all(x) == \A T \in SUBSET Statement : sts \subseteq T /\ ClosedUnder(T, axioms) => x \in T
           F == Follows(sts, axioms)
<1>1. \A x : x \in F <=> x \in Statement /\ all(x)
  BY DEF Follows, Smallest
<1>2. F \in SUBSET Statement /\ sts \subseteq F
  BY <1>1
<1>3. \A T \in SUBSET Statement : sts \subseteq T /\ ClosedUnder(T, axioms) => F \subseteq T
  BY <1>1
<1> HIDE DEF F
<1>4. ASSUME NEW a \in axioms, NEW r \in OneRule[a], r[1] \in F
      PROVE  r[2] \in F
  <2>1. r[2] \in Statement
    BY RuleFacts
  <2>2. ASSUME NEW T \in SUBSET Statement, sts \subseteq T, ClosedUnder(T, axioms)
        PROVE  r[2] \in T
    BY <1>3, <1>4, <2>2 DEF ClosedUnder
  <2> QED
    BY <1>1, <2>1, <2>2
<1>5. ASSUME NEW a \in axioms, NEW r \in Join[a], r[1] \in F, r[2] \in F
      PROVE  r[3] \in F
  <2>1. r[3] \in Statement
    BY RuleFacts
  <2>2. ASSUME NEW T \in SUBSET Statement, sts \subseteq T, ClosedUnder(T, axioms)
        PROVE  r[3] \in T
    BY <1>3, <1>5, <2>2 DEF ClosedUnder
  <2> QED
    BY <1>1, <2>1, <2>2
<1>6. ClosedUnder(F, axioms)
  BY <1>4, <1>5 DEF ClosedUnder
<1> QED
  BY <1>2, <1>3, <1>6 DEF F

LEMMA FollowsGrows ==
  ASSUME NEW sts \in SUBSET Statement, NEW more \in SUBSET Statement, sts \subseteq more,
         NEW axioms \in SUBSET Axiom
  PROVE  Follows(sts, axioms) \subseteq Follows(more, axioms)
<1>1. /\ Follows(more, axioms) \in SUBSET Statement
      /\ more \subseteq Follows(more, axioms)
      /\ ClosedUnder(Follows(more, axioms), axioms)
  BY FollowsFacts
<1> QED
  BY <1>1, FollowsFacts

LEMMA InFacts ==
  ASSUME NEW facts, NEW labels
  PROVE  /\ In(facts, labels) \in SUBSET Statement
         /\ \A x : x \in In(facts, labels) <=>
                     x \in Statement /\ \E f \in facts : f.label \in labels /\ f.st = x
  BY DEF In

LEMMA InForceType ==
  ASSUME NEW base
  PROVE  InForce(base) \in SUBSET Axiom
  BY DEF InForce

-----------------------------------------------------------------------------
(* Drawing facts *)

LEMMA BaseIsSound ==
  ASSUME NEW base \in SUBSET Base
  PROVE  Sound(base, base)
<1> SUFFICES ASSUME NEW f \in base, f.st \in Statement
             PROVE  /\ f.st \in Follows(In(base, Graph), InForce(base))
                    /\ f.st \in Follows(In(base, {f.label}), InForce(base))
  BY DEF Sound
<1>1. f.label \in Graph
  BY DEF Base
<1>2. f.st \in In(base, Graph) /\ f.st \in In(base, {f.label})
  BY <1>1, InFacts
<1> QED
  BY <1>2, InFacts, InForceType, FollowsFacts

\* One rule step from sound facts is sound.
LEMMA ConsequencesAreSound ==
  ASSUME NEW facts \in SUBSET Fact, NEW base, Sound(facts, base), NEW f \in facts
  PROVE  Sound(Consequences(f, facts, InForce(base)), base)
<1> DEFINE A == InForce(base)
           everywhere == Follows(In(base, Graph), A)
           within(l) == Follows(In(base, {l}), A)
<1>1. A \in SUBSET Axiom
  BY InForceType
<1>2. /\ ClosedUnder(everywhere, A)
      /\ \A l : ClosedUnder(within(l), A)
  BY <1>1, InFacts, FollowsFacts
<1>3. \A g \in facts : g.label \in Label /\ (g.st \in Statement =>
         g.st \in everywhere /\ (g.label # Cross => g.st \in within(g.label)))
  BY DEF Sound, Fact
<1> HIDE DEF A, everywhere, within
<1> SUFFICES ASSUME NEW c \in Consequences(f, facts, A)
             PROVE  c.st \in everywhere /\ (c.label # Cross => c.st \in within(c.label))
  BY DEF Sound, A, everywhere, within
<1>4. PICK a \in A :
         \/ \E r \in OneRule[a] : r[1] = f.st /\ c = [st |-> r[2], label |-> f.label]
         \/ \E g \in facts : \E r \in Join[a] :
               /\ <<f.st, g.st>> \in {<<r[1], r[2]>>, <<r[2], r[1]>>}
               /\ c = [st |-> r[3], label |-> Combine(f.label, g.label)]
  BY ConsequencesMean
<1>5. ASSUME NEW r \in OneRule[a], r[1] = f.st, c = [st |-> r[2], label |-> f.label]
      PROVE  c.st \in everywhere /\ (c.label # Cross => c.st \in within(c.label))
  <2>1. f.st \in Statement
    BY <1>1, <1>5, RuleFacts
  <2>2. c.st = r[2] /\ c.label = f.label
    BY <1>5
  <2>3. r[1] \in everywhere /\ (f.label # Cross => r[1] \in within(f.label))
    BY <1>3, <1>5, <2>1
  <2> QED
    BY <1>2, <2>2, <2>3 DEF ClosedUnder
<1>6. ASSUME NEW g \in facts, NEW r \in Join[a],
             <<f.st, g.st>> \in {<<r[1], r[2]>>, <<r[2], r[1]>>},
             c = [st |-> r[3], label |-> Combine(f.label, g.label)]
      PROVE  c.st \in everywhere /\ (c.label # Cross => c.st \in within(c.label))
  <2>1. Premises(r, f.st, g.st)
    BY <1>6, PairFacts
  <2>2. f.st \in Statement /\ g.st \in Statement
    BY <1>1, <2>1, RuleFacts DEF Premises
  <2>3. c.st = r[3] /\ c.label = Combine(f.label, g.label)
    BY <1>6
  <2>4. r[1] \in everywhere /\ r[2] \in everywhere
    BY <1>3, <2>1, <2>2 DEF Premises
  <2>5. c.label # Cross => f.label = c.label /\ g.label = c.label
    BY <2>3 DEF Combine
  <2>6. c.label # Cross => r[1] \in within(c.label) /\ r[2] \in within(c.label)
    BY <1>3, <2>1, <2>2, <2>5 DEF Premises
  <2> QED
    BY <1>2, <2>3, <2>4, <2>6 DEF ClosedUnder
<1> QED
  BY <1>4, <1>5, <1>6

LEMMA SoundUnion ==
  ASSUME NEW facts, NEW more, NEW base
  PROVE  /\ Sound(facts, base) /\ Sound(more, base) => Sound(facts \cup more, base)
         /\ Sound(facts, base) /\ more \subseteq facts => Sound(more, base)
  BY DEF Sound

\* What follows from a base still follows from a larger one with the same axioms.
LEMMA SoundGrows ==
  ASSUME NEW facts, NEW base, NEW more, base \subseteq more,
         InForce(more) = InForce(base), Sound(facts, base)
  PROVE  Sound(facts, more)
<1>1. \A labels : In(base, labels) \subseteq In(more, labels)
  BY InFacts
<1>2. \A labels : Follows(In(base, labels), InForce(base)) \subseteq Follows(In(more, labels), InForce(more))
  BY <1>1, InFacts, InForceType, FollowsGrows
<1> QED
  BY <1>2 DEF Sound

\* Taking a fact from the queue: its consequences with every known fact are
\* kept or present, so of the facts no longer queued no more can be drawn.
LEMMA DrawingOne ==
  ASSUME NEW facts \in SUBSET Fact, NEW axioms \in SUBSET Axiom,
         NEW waiting \in SUBSET facts, NEW f \in waiting,
         Drawn(facts \ waiting, facts, axioms),
         NEW kept, kept \subseteq Fact, kept \cap facts = {},
         \A c \in Consequences(f, facts, axioms) : Present(c, facts \cup kept)
  PROVE  /\ (waiting \ {f}) \cup kept \subseteq facts \cup kept
         /\ Drawn((facts \cup kept) \ ((waiting \ {f}) \cup kept), facts \cup kept, axioms)
<1> DEFINE done == facts \ waiting
           left == (waiting \ {f}) \cup kept
<1>1. (facts \cup kept) \ left = done \cup {f}
  OBVIOUS
<1>2. left \subseteq facts \cup kept
  OBVIOUS
<1>3. ASSUME NEW x \in done \cup {f}, NEW c \in Consequences(x, done \cup {f}, axioms)
      PROVE  Present(c, facts \cup kept)
  <2>1. CASE x = f
    <3>1. done \cup {f} \subseteq facts
      OBVIOUS
    <3>2. c \in Consequences(f, facts, axioms)
      BY <1>3, <2>1, <3>1, ConsequencesGrow
    <3> QED
      BY <3>2
  <2>2. ASSUME x \in done, c \in Consequences(x, done, axioms)
        PROVE  Present(c, facts \cup kept)
    BY <2>2, PresentGrows DEF Drawn
  <2>3. ASSUME x \in done, c \notin Consequences(x, done, axioms)
        PROVE  c \in Consequences(f, facts, axioms)
    <3>1. PICK a \in axioms :
             \E r \in Join[a] :
                /\ <<x.st, f.st>> \in {<<r[1], r[2]>>, <<r[2], r[1]>>}
                /\ c = [st |-> r[3], label |-> Combine(x.label, f.label)]
      BY <1>3, <2>3, ConsequencesMean
    <3>2. PICK r \in Join[a] : /\ Premises(r, x.st, f.st)
                               /\ c = [st |-> r[3], label |-> Combine(x.label, f.label)]
      BY <3>1, PairFacts
    <3>3. Premises(r, f.st, x.st) /\ Combine(f.label, x.label) = Combine(x.label, f.label)
      BY <3>2 DEF Premises, Combine
    <3>4. x \in facts /\ <<f.st, x.st>> \in {<<r[1], r[2]>>, <<r[2], r[1]>>}
      BY <2>3, <3>3, PairFacts
    <3> QED
      BY <3>2, <3>3, <3>4, ConsequencesMean
  <2> QED
    BY <2>1, <2>2, <2>3
<1>4. Drawn(done \cup {f}, facts \cup kept, axioms)
  BY <1>3 DEF Drawn
<1> QED
  BY <1>1, <1>2, <1>4

LEMMA DrawnGrows ==
  ASSUME NEW done, NEW fewer, fewer \subseteq done, NEW facts, NEW more, facts \subseteq more,
         NEW axioms, Drawn(done, facts, axioms)
  PROVE  Drawn(fewer, more, axioms)
  BY ConsequencesGrow, PresentGrows DEF Drawn

\* Facts from which nothing more can be drawn are the closure of the base.
LEMMA ExactCloses ==
  ASSUME NEW base \in SUBSET Base, NEW facts \in SUBSET Fact, Exact(facts, base)
  PROVE  ClosesBase(facts, base)
<1> DEFINE A == InForce(base)
<1>1. /\ A \in SUBSET Axiom /\ base \subseteq facts /\ Sound(facts, base)
      /\ Drawn(facts, facts, A)
  BY InForceType DEF Exact
<1>2. Cross \notin Graph /\ Graph \subseteq Label
  BY RulesType DEF Label
<1>3. ASSUME NEW labels \in SUBSET Label, labels = Label \/ \E g \in Graph : labels = {g}
      PROVE  ClosedUnder(In(facts, labels), A)
  <2>1. ASSUME NEW f \in facts, f.label \in labels, NEW c \in Consequences(f, facts, A),
               c.label \in labels
        PROVE  c.st \in In(facts, labels)
    <3>1. Present(c, facts)
      BY <1>1 DEF Drawn
    <3>2. c.st \in Statement
      BY <1>1, ConsequencesType DEF Fact
    <3>3. CASE c \in facts
      BY <2>1, <3>2, <3>3, InFacts
    <3>4. CASE c.label = Cross /\ \E g \in facts : g.st = c.st
      <4>1. labels = Label
        BY <1>2, <1>3, <2>1, <3>4
      <4>2. PICK g \in facts : g.st = c.st
        BY <3>4
      <4>3. g.label \in Label
        BY DEF Fact
      <4> QED
        BY <3>2, <4>1, <4>2, <4>3, InFacts
    <3> QED
      BY <3>1, <3>3, <3>4 DEF Present
  <2>2. ASSUME NEW a \in A, NEW r \in OneRule[a], r[1] \in In(facts, labels)
        PROVE  r[2] \in In(facts, labels)
    <3>1. PICK f \in facts : f.label \in labels /\ f.st = r[1]
      BY <2>2, InFacts
    <3> DEFINE c == [st |-> r[2], label |-> f.label]
    <3>2. c \in Consequences(f, facts, A)
      BY <3>1, ConsequencesMean
    <3>3. c.st = r[2] /\ c.label = f.label
      OBVIOUS
    <3> HIDE DEF c
    <3> QED
      BY <2>1, <3>1, <3>2, <3>3
  <2>3. ASSUME NEW a \in A, NEW r \in Join[a],
               r[1] \in In(facts, labels), r[2] \in In(facts, labels)
        PROVE  r[3] \in In(facts, labels)
    <3>1. PICK f \in facts : f.label \in labels /\ f.st = r[1]
      BY <2>3, InFacts
    <3>2. PICK g \in facts : g.label \in labels /\ g.st = r[2]
      BY <2>3, InFacts
    <3> DEFINE c == [st |-> r[3], label |-> Combine(f.label, g.label)]
    <3>3. <<f.st, g.st>> \in {<<r[1], r[2]>>, <<r[2], r[1]>>}
      BY <3>1, <3>2
    <3>4. c \in Consequences(f, facts, A)
      BY <3>3, ConsequencesMean
    <3>5. c.st = r[3] /\ c.label = Combine(f.label, g.label)
      OBVIOUS
    <3>6. Combine(f.label, g.label) \in labels
      BY <1>3, <3>1, <3>2 DEF Combine, Label
    <3> HIDE DEF c
    <3> QED
      BY <2>1, <3>1, <3>4, <3>5, <3>6
  <2> QED
    BY <2>2, <2>3 DEF ClosedUnder
<1> HIDE DEF A
<1>4. \A labels : In(base, labels) \subseteq In(facts, labels)
  BY <1>1, InFacts
<1>5. ASSUME NEW g \in Graph
      PROVE  In(facts, {g}) = Follows(In(base, {g}), A)
  <2>1. ClosedUnder(In(facts, {g}), A)
    BY <1>2, <1>3
  <2>2. Follows(In(base, {g}), A) \subseteq In(facts, {g})
    BY <1>1, <1>4, <2>1, InFacts, FollowsFacts
  <2>3. ASSUME NEW x \in In(facts, {g})
        PROVE  x \in Follows(In(base, {g}), A)
    <3>1. PICK f \in facts : x \in Statement /\ f.label = g /\ f.st = x
      BY InFacts
    <3> QED
      BY <1>1, <1>2, <3>1 DEF Sound, A
  <2> QED
    BY <2>2, <2>3
<1>6. In(facts, Label) = Follows(In(base, Graph), A)
  <2>1. ClosedUnder(In(facts, Label), A)
    BY <1>3
  <2>2. In(base, Graph) \subseteq In(facts, Label)
    BY <1>1, <1>2, InFacts
  <2>3. Follows(In(base, Graph), A) \subseteq In(facts, Label)
    BY <1>1, <2>1, <2>2, InFacts, FollowsFacts
  <2>4. ASSUME NEW x \in In(facts, Label)
        PROVE  x \in Follows(In(base, Graph), A)
    <3>1. PICK f \in facts : x \in Statement /\ f.st = x
      BY InFacts
    <3> QED
      BY <1>1, <3>1 DEF Sound, A
  <2> QED
    BY <2>3, <2>4
<1> QED
  BY <1>5, <1>6 DEF ClosesBase, A

-----------------------------------------------------------------------------
(* Types *)

Commit == [by : {"client", "inference"}, on : SUBSET Fact, off : SUBSET Fact]

LEMMA FactsFinite ==
  /\ IsFiniteSet(Fact)
  /\ \A S \in SUBSET Fact : IsFiniteSet(S) /\ Cardinality(S) \in Nat
<1>1. IsFiniteSet(Statement \cup Axiom) /\ IsFiniteSet(Label)
  BY FactsAreFinite, FS_Union, FS_Singleton DEF Label
<1> DEFINE pairs == (Statement \cup Axiom) \X Label
           fact == [p \in pairs |-> [st |-> p[1], label |-> p[2]]]
<1>2. IsFiniteSet(pairs)
  BY <1>1, FS_Product
<1>3. \A x \in Fact : \E p \in pairs : fact[p] = x
  <2> SUFFICES ASSUME NEW x \in Fact
               PROVE  \E p \in pairs : fact[p] = x
    OBVIOUS
  <2>1. <<x.st, x.label>> \in pairs /\ x = [st |-> x.st, label |-> x.label]
    BY DEF Fact
  <2> QED
    BY <2>1
<1>4. \A p \in pairs : fact[p] \in Fact
  BY DEF Fact
<1>5. fact \in Surjection(pairs, Fact)
  BY <1>3, <1>4 DEF Surjection
<1>6. IsFiniteSet(Fact)
  BY <1>2, <1>5, FS_Surjection
<1> QED
  BY <1>6, FS_Subset, FS_CardinalityType

LEMMA GivenType == Given \cup Writable \subseteq Base /\ Base \subseteq Fact
  BY RulesType DEF Base, Fact, Label

LEMMA LogFacts ==
  ASSUME InferenceTypeOK
  PROVE  /\ log \in Seq(Commit) /\ Len(log) \in Nat /\ DOMAIN log = 1 .. Len(log)
         /\ landed \in Int /\ landed <= Len(log) /\ Len(log) <= landed + 1
         /\ \A i \in 1 .. Len(log) : /\ log[i].by \in {"client", "inference"}
                                     /\ log[i].on \subseteq Fact /\ log[i].off \subseteq Fact
         /\ \A by : \A i \in 1 .. Len(log) : On(by, i) \subseteq Fact
<1>1. log \in Seq(Commit) /\ Len(log) \in Nat /\ DOMAIN log = 1 .. Len(log)
  BY LenProperties DEF InferenceTypeOK, Commit
<1>2. \A i \in 1 .. Len(log) : log[i] \in Commit
  BY <1>1, ElementOfSeq
<1>3. \A i \in 1 .. Len(log) : /\ log[i].by \in {"client", "inference"}
                               /\ log[i].on \subseteq Fact /\ log[i].off \subseteq Fact
  BY <1>2 DEF Commit
<1>4. landed \in Int /\ landed <= Len(log) /\ Len(log) <= landed + 1
  BY <1>1 DEF InferenceTypeOK
<1> QED
  BY <1>1, <1>3, <1>4 DEF On

\* The last record of a window.
LEMMA ToFacts ==
  ASSUME InferenceTypeOK, Window # {}
  PROVE  /\ To \in Window /\ \A i \in Window : i <= To
         /\ To \in Nat /\ applied < To /\ To <= landed /\ To \in 1 .. Len(log)
<1>1. Window \in SUBSET (0 .. Len(log))
  BY LogFacts DEF Window
<1>2. \E m \in Window : \A u \in Window : u <= m
  BY <1>1, LogFacts, GreatestOf
<1>3. To \in Window /\ \A i \in Window : i <= To
  BY <1>2 DEF To
<1>4. To \in 1 .. Len(log) /\ applied < To /\ To <= landed
  BY <1>3, LogFacts DEF Window
<1> QED
  BY <1>3, <1>4

LEMMA SmallestFacts ==
  ASSUME NEW deleted, NEW old, NEW live, NEW over, NEW store, NEW axioms
  PROVE  /\ OverDeleted(deleted, old, live, axioms) \subseteq live
         /\ Rederived(over, store, axioms) \subseteq over
         /\ OverDeleted({}, old, live, axioms) = {}
         /\ Rederived({}, store, axioms) = {}
<1>1. OverDeleted(deleted, old, live, axioms) \subseteq live
  BY DEF OverDeleted, Smallest
<1>2. \A o : Rederived(o, store, axioms) \subseteq o
  BY DEF Rederived, Smallest
<1>3. OverDeleted({}, old, live, axioms) = {}
  <2>1. live \cap UNION {Consequences(f, old, axioms) : f \in {} \cup {}} \subseteq {}
    OBVIOUS
  <2>2. \A x \in OverDeleted({}, old, live, axioms) : \A T \in SUBSET live :
           live \cap UNION {Consequences(f, old, axioms) : f \in {} \cup T} \subseteq T => x \in T
    BY DEF OverDeleted, Smallest
  <2>3. {} \in SUBSET live
    OBVIOUS
  <2> QED
    BY <2>1, <2>2, <2>3, Zenon
<1> QED
  BY <1>1, <1>2, <1>3

LEMMA InferenceTypeInit == InferenceInit => InferenceTypeOK
<1> SUFFICES ASSUME InferenceInit
             PROVE  InferenceTypeOK
  OBVIOUS
<1> DEFINE first == [by |-> "client", on |-> Given, off |-> {}]
<1>1. first \in Commit
  BY GivenType DEF Commit
<1>2. <<first>> \in Seq(Commit) /\ Len(<<first>>) = 1
  BY <1>1
<1>3. log = <<first>> /\ Len(log) = 1 /\ log \in Seq(Commit)
  BY <1>2 DEF InferenceInit
<1>4. todo \in [on : SUBSET Fact, off : SUBSET Fact]
  BY DEF InferenceInit, NoWork
<1> HIDE DEF first
<1>5. /\ landed = 1 /\ applied = -1 /\ count = 0 /\ phase = "idle" /\ full = FALSE
      /\ upto = 0 /\ basis = 0 /\ seen = {} /\ gone = {} /\ queue = {} /\ fresh = {}
      /\ crashes = 0 /\ fulls = 0 /\ exact = -1
      /\ spoiled = FALSE /\ skipped = FALSE /\ torn = FALSE
  BY DEF InferenceInit
<1>6. /\ landed \in {Len(log), Len(log) - 1} /\ applied \in -1 .. Len(log)
      /\ upto \in 0 .. Len(log) /\ basis \in 0 .. landed /\ exact \in -1 .. landed
  BY <1>3, <1>5
<1> QED
  BY <1>3, <1>4, <1>5, <1>6 DEF InferenceTypeOK, Commit

LEMMA RecomputeType ==
  ASSUME InferenceTypeOK, NEW at \in 0 .. Len(log), Recompute(at)
  PROVE  /\ full' \in BOOLEAN /\ upto' \in 0 .. Len(log) /\ basis' \in 0 .. landed
         /\ phase' = "deriving"
         /\ seen' \subseteq Fact /\ gone' \subseteq Fact /\ queue' \subseteq Fact
         /\ fresh' \subseteq Fact /\ todo' \in [on : SUBSET Fact, off : SUBSET Fact]
         /\ spoiled' \in BOOLEAN /\ skipped' \in BOOLEAN
<1>1. /\ full' = TRUE /\ upto' = at /\ basis' = landed
      /\ seen' = Live("client", landed) /\ queue' = Live("client", landed) /\ gone' = {}
      /\ phase' = "deriving" /\ fresh' = {} /\ todo' = NoWork
      /\ spoiled' = (\E i \in landed + 1 .. Len(log) : log[i].off # {})
      /\ skipped' = (landed < at)
  BY DEF Recompute
<1>2. Live("client", landed) \subseteq Fact
  BY LiveTypes
<1>3. landed \in Nat
  BY DEF InferenceTypeOK
<1>4. todo' \in [on : SUBSET Fact, off : SUBSET Fact]
  BY <1>1 DEF NoWork
<1>5. spoiled' \in BOOLEAN
  BY <1>1
<1> QED
  BY <1>1, <1>2, <1>3, <1>4, <1>5

\* The facts an incremental run starts with.
LEMMA BatchTypes ==
  ASSUME InferenceTypeOK, StartBatch
  PROVE  /\ gone' \subseteq Live("inference", landed)
         /\ seen' = Stored(landed) \ gone'
         /\ seen' \subseteq Fact /\ queue' \subseteq Fact
         /\ Fold("off") = {} => gone' = {} /\ queue' = Fold("on")
<1> DEFINE axioms == InForce(Live("client", applied))
           live == Live("inference", landed)
           over == OverDeleted(Fold("off"), Stored(applied), live, axioms)
           back == Rederived(over, Stored(landed), axioms)
<1>1. gone' = over \ back /\ seen' = Stored(landed) \ gone' /\ queue' = Fold("on") \cup back
  BY DEF StartBatch
<1>2. over \subseteq live /\ back \subseteq over /\ live \subseteq Fact
  BY SmallestFacts, LiveTypes
<1>3. Fold("off") = {} => over = {} /\ back = {}
  BY SmallestFacts
<1>4. Stored(landed) \subseteq Fact
  BY LiveTypes DEF Stored
<1>5. Fold("on") \subseteq Fact
  <2>1. \A i \in Changes : i \in 1 .. Len(log)
    BY LogFacts DEF Changes, Window
  <2> QED
    BY <2>1, LogFacts DEF Fold
<1> HIDE DEF over, back, live
<1> QED
  BY <1>1, <1>2, <1>3, <1>4, <1>5 DEF live

LEMMA LogStepType ==
  ASSUME InferenceTypeOK, NEW e \in Commit, log' = Append(log, e)
  PROVE  /\ log' \in Seq(Commit) /\ Len(log') = Len(log) + 1 /\ DOMAIN log' = 1 .. Len(log')
         /\ \A i \in 1 .. Len(log) : log'[i] = log[i]
         /\ log'[Len(log) + 1] = e
  BY LogFacts, AppendFacts

\* What a run's writes take.
LEMMA WriteFacts ==
  ASSUME InferenceTypeOK, Write
  PROVE  \E on \in SUBSET todo.on : \E off \in SUBSET todo.off :
            LET e == [by |-> "inference", on |-> on, off |-> off]
            IN  /\ e \in Commit /\ log' = Append(log, e) /\ landed = Len(log) /\ landed' = Len(log')
                /\ todo' = [on |-> todo.on \ on, off |-> todo.off \ off]
                /\ todo' \in [on : SUBSET Fact, off : SUBSET Fact]
<1>1. PICK on \in SUBSET todo.on : \E off \in SUBSET todo.off :
         /\ log' = Append(log, [by |-> "inference", on |-> on, off |-> off])
         /\ todo' = [on |-> todo.on \ on, off |-> todo.off \ off]
  BY DEF Write
<1>2. PICK off \in SUBSET todo.off :
         /\ log' = Append(log, [by |-> "inference", on |-> on, off |-> off])
         /\ todo' = [on |-> todo.on \ on, off |-> todo.off \ off]
  BY <1>1
<1>3. todo.on \subseteq Fact /\ todo.off \subseteq Fact
  BY DEF InferenceTypeOK
<1>4. landed = Len(log) /\ landed' = Len(log')
  BY DEF Write
<1> QED
  BY <1>2, <1>3, <1>4 DEF Commit

\* What drawing from f keeps.
LEMMA DeriveFacts ==
  ASSUME InferenceTypeOK, NEW f \in Fact, Derive(f)
  PROVE  \E kept \in SUBSET Fact :
            /\ f \in queue /\ phase = "deriving"
            /\ kept \cap seen = {}
            /\ kept \subseteq Consequences(f, seen, RunAxioms)
            /\ \A c \in Consequences(f, seen, RunAxioms) : Present(c, seen \cup kept)
            /\ seen' = seen \cup kept
            /\ queue' = (queue \ {f}) \cup kept
            /\ fresh' = fresh \cup (kept \ gone)
            /\ gone' = gone \ kept
<1> DEFINE all == Consequences(f, seen, RunAxioms)
           new == IF f.st \in Axiom THEN {} ELSE {c \in all : ~Present(c, seen)}
           same == {c \in new : c.label = Cross /\ \E d \in new : d # c /\ d.st = c.st}
<1>1. PICK late \in SUBSET same :
         /\ seen' = seen \cup (new \ late)
         /\ queue' = (queue \ {f}) \cup (new \ late)
         /\ fresh' = fresh \cup ((new \ late) \ gone)
         /\ gone' = gone \ (new \ late)
  BY DEF Derive
<1>2. f.label \in Label /\ seen \in SUBSET Fact /\ RunAxioms \in SUBSET Axiom
  BY InForceType DEF Fact, InferenceTypeOK, RunAxioms
<1>3. \A c \in all : c \in Fact /\ f.st \in Statement /\ c = [st |-> c.st, label |-> c.label]
  BY <1>2, ConsequencesType
<1>4. new = {c \in all : ~Present(c, seen)}
  <2>1. CASE f.st \in Axiom
    <3>1. all = {}
      BY <1>3, <2>1, RulesType
    <3> QED
      BY <2>1, <3>1
  <2>2. CASE f.st \notin Axiom
    BY <2>2
  <2> QED
    BY <2>1, <2>2
<1> HIDE DEF all, new
<1>5. new \subseteq Fact /\ new \subseteq all /\ new \cap seen = {}
  BY <1>3, <1>4 DEF Present
<1>6. ASSUME NEW c \in all
      PROVE  Present(c, seen \cup (new \ late))
  <2>1. CASE Present(c, seen)
    BY <2>1, PresentGrows
  <2>2. CASE c \in new \ late
    BY <2>2 DEF Present
  <2>3. CASE c \in late
    <3>1. c \in new /\ c.label = Cross
      BY <2>3
    <3>2. PICK d \in new : d # c /\ d.st = c.st
      BY <2>3
    <3>3. d.label # Cross
      BY <1>3, <1>5, <3>1, <3>2
    <3>4. d \in new \ late
      BY <3>2, <3>3
    <3> QED
      BY <3>1, <3>2, <3>4 DEF Present
  <2> QED
    BY <1>4, <2>1, <2>2, <2>3
<1> DEFINE kept == new \ late
<1>7. /\ kept \in SUBSET Fact /\ kept \cap seen = {} /\ kept \subseteq all
      /\ \A c \in all : Present(c, seen \cup kept)
      /\ seen' = seen \cup kept /\ queue' = (queue \ {f}) \cup kept
      /\ fresh' = fresh \cup (kept \ gone) /\ gone' = gone \ kept
  BY <1>1, <1>5, <1>6
<1>8. f \in queue /\ phase = "deriving"
  BY DEF Derive
<1> HIDE DEF kept
<1> QED
  BY <1>7, <1>8 DEF all

\* What a restart leaves of the log: a commit in flight becomes empty.
LEMMA CrashFacts ==
  ASSUME InferenceTypeOK, Crash
  PROVE  /\ log' \in Seq(Commit) /\ Len(log') = Len(log) /\ landed' = Len(log)
         /\ DOMAIN log' = DOMAIN log
         /\ \A i \in 1 .. Len(log) :
               \/ log'[i] = log[i]
               \/ /\ i = Len(log) /\ landed < i
                  /\ log'[i] = [by |-> "client", on |-> {}, off |-> {}]
<1> DEFINE empty == [by |-> "client", on |-> {}, off |-> {}]
<1>1. /\ landed' = Len(log)
      /\ log' = IF landed < Len(log) THEN [log EXCEPT ![Len(log)] = empty] ELSE log
  BY DEF Crash
<1>2. empty \in Commit
  BY DEF Commit
<1>3. CASE landed < Len(log)
  <2>1. log' = [log EXCEPT ![Len(log)] = empty]
    BY <1>1, <1>3
  <2>2. log' \in Seq(Commit) /\ Len(log') = Len(log) /\ DOMAIN log' = DOMAIN log
    <3>1. Len(log) \in 1 .. Len(log) /\ log \in Seq(Commit)
      BY <1>3, LogFacts DEF InferenceTypeOK
    <3>2. log' \in Seq(Commit) /\ Len(log') = Len(log)
      BY <1>2, <2>1, <3>1, ExceptSeq
    <3> QED
      BY <2>1, <3>2
  <2>3. \A i \in 1 .. Len(log) : log'[i] = IF i = Len(log) THEN empty ELSE log[i]
    BY <2>1, LogFacts
  <2> QED
    BY <1>1, <1>3, <2>2, <2>3
<1>4. CASE ~(landed < Len(log))
  BY <1>1, <1>4, LogFacts
<1> QED
  BY <1>3, <1>4

LEMMA InferenceTypeStep ==
  ASSUME InferenceTypeOK, [InferenceNext]_inferenceVars
  PROVE  InferenceTypeOK'
<1> DEFINE RunTypes ==
             /\ full \in BOOLEAN /\ upto \in 0 .. Len(log) /\ basis \in 0 .. landed
             /\ seen \subseteq Fact /\ gone \subseteq Fact /\ queue \subseteq Fact
             /\ fresh \subseteq Fact /\ todo \in [on : SUBSET Fact, off : SUBSET Fact]
           MarkTypes ==
             /\ landed \in {Len(log), Len(log) - 1}
             /\ applied \in -1 .. Len(log) /\ exact \in -1 .. landed
           FlagTypes ==
             /\ crashes \in Nat /\ fulls \in Nat
             /\ spoiled \in BOOLEAN /\ skipped \in BOOLEAN /\ torn \in BOOLEAN
           Phases == {"idle", "deriving", "writing", "counted"}
<1>1. InferenceTypeOK <=> /\ log \in Seq(Commit) /\ RunTypes /\ MarkTypes /\ FlagTypes
                          /\ count \in Nat /\ phase \in Phases
  BY DEF InferenceTypeOK, Commit
<1>2. InferenceTypeOK' <=> /\ log' \in Seq(Commit) /\ RunTypes' /\ MarkTypes' /\ FlagTypes'
                           /\ count' \in Nat /\ phase' \in Phases
  BY DEF InferenceTypeOK, Commit
<1>3. /\ log \in Seq(Commit) /\ RunTypes /\ MarkTypes /\ FlagTypes
      /\ count \in Nat /\ phase \in Phases
  BY <1>1
<1>4. /\ Len(log) \in Nat /\ landed \in Nat
      /\ landed <= Len(log) /\ Len(log) <= landed + 1
  BY <1>3, LogFacts
<1>5. ASSUME NEW f \in Writable, BeginCommit(f)
      PROVE  InferenceTypeOK'
  <2> DEFINE e == IF f \in Live("client", landed) THEN [by |-> "client", on |-> {}, off |-> {f}]
                  ELSE [by |-> "client", on |-> {f}, off |-> {}]
  <2>1. /\ landed = Len(log) /\ log' = Append(log, e)
        /\ spoiled' = (spoiled \/ f \in Live("client", landed))
        /\ UNCHANGED <<landed, applied, count, crashes, fulls, exact, skipped, torn>>
        /\ UNCHANGED <<phase, full, upto, seen, gone, queue, fresh, todo, basis>>
    BY <1>5 DEF BeginCommit, runVars
  <2>2. e \in Commit
    BY GivenType DEF Commit
  <2>3. log' \in Seq(Commit) /\ Len(log') = Len(log) + 1
    BY <2>1, <2>2, LogStepType
  <2>4. RunTypes' /\ MarkTypes'
    BY <1>3, <1>4, <2>1, <2>3
  <2>5. FlagTypes'
    BY <1>3, <2>1
  <2> QED
    BY <1>2, <1>3, <2>1, <2>3, <2>4, <2>5
<1>6. CASE Land
  <2>1. /\ landed' = Len(log) /\ UNCHANGED <<log, applied, count, crashes, fulls, exact, spoiled, skipped, torn>>
        /\ UNCHANGED <<phase, full, upto, seen, gone, queue, fresh, todo, basis>>
    BY <1>6 DEF Land, runVars
  <2>2. RunTypes' /\ MarkTypes' /\ FlagTypes'
    BY <1>3, <1>4, <2>1
  <2> QED
    BY <1>2, <1>3, <2>1, <2>2
<1>7. ASSUME NEW at \in 0 .. Len(log), Recompute(at), fulls' \in Nat,
             UNCHANGED <<log, landed, applied, count, crashes, exact, torn>>
      PROVE  InferenceTypeOK'
  <2>1. RunTypes' /\ phase' \in Phases /\ spoiled' \in BOOLEAN /\ skipped' \in BOOLEAN
    BY <1>7, RecomputeType
  <2>2. MarkTypes' /\ FlagTypes'
    BY <1>3, <1>7, <2>1
  <2> QED
    BY <1>2, <1>3, <1>7, <2>1, <2>2
<1>8. CASE StartFull
  <2>1. Len(log) \in 0 .. Len(log) /\ fulls' \in Nat
    BY <1>3, <1>4, <1>8 DEF StartFull
  <2> QED
    BY <1>7, <1>8, <2>1 DEF StartFull
<1>9. CASE SkipOwn
  <2>1. /\ applied' = To /\ Window # {}
        /\ UNCHANGED <<log, landed, count, crashes, fulls, exact, spoiled, skipped, torn>>
        /\ UNCHANGED <<phase, full, upto, seen, gone, queue, fresh, todo, basis>>
    BY <1>9 DEF SkipOwn, runVars
  <2>2. To \in 0 .. Len(log)
    BY <2>1, ToFacts
  <2>3. RunTypes' /\ MarkTypes' /\ FlagTypes'
    BY <1>3, <1>4, <2>1, <2>2
  <2> QED
    BY <1>2, <1>3, <2>1, <2>3
<1>10. CASE StartOver
  <2>1. Changes # {} => Window # {}
    BY DEF Changes
  <2>2. (IF applied < 0 THEN Len(log) ELSE To) \in 0 .. Len(log)
    BY <1>4, <1>10, <2>1, ToFacts DEF StartOver
  <2>3. /\ Recompute(IF applied < 0 THEN Len(log) ELSE To)
        /\ UNCHANGED <<log, landed, applied, count, crashes, fulls, exact, torn>>
    BY <1>10 DEF StartOver
  <2> QED
    BY <1>3, <1>7, <2>2, <2>3
<1>11. CASE StartBatch
  <2>1. /\ upto' = To /\ basis' = landed
        /\ phase' = "deriving" /\ fresh' = {} /\ todo' = NoWork
        /\ UNCHANGED <<log, landed, applied, count, crashes, fulls, exact, spoiled, skipped, torn>>
    BY <1>11 DEF StartBatch
  <2>2. To \in 0 .. Len(log)
    BY <1>11, ToFacts DEF StartBatch, Changes
  <2>3. gone' \subseteq Fact /\ seen' \subseteq Fact /\ queue' \subseteq Fact
    BY <1>11, BatchTypes, LiveTypes
  <2>4. todo' \in [on : SUBSET Fact, off : SUBSET Fact]
    BY <2>1 DEF NoWork
  <2>5. full' \in BOOLEAN
    BY <1>11 DEF StartBatch
  <2>6. RunTypes' /\ MarkTypes' /\ FlagTypes'
    BY <1>3, <1>4, <2>1, <2>2, <2>3, <2>4, <2>5
  <2> QED
    BY <1>2, <1>3, <2>1, <2>6
<1>12. ASSUME NEW f \in Fact, Derive(f)
       PROVE  InferenceTypeOK'
  <2>1. UNCHANGED <<log, landed, applied, count, phase, full, upto, todo, basis,
                    crashes, fulls, exact, spoiled, skipped, torn>>
    BY <1>12 DEF Derive
  <2>2. /\ seen' \subseteq Fact /\ gone' \subseteq Fact /\ queue' \subseteq Fact
        /\ fresh' \subseteq Fact
    BY <1>3, <1>12, DeriveFacts
  <2>3. RunTypes' /\ MarkTypes' /\ FlagTypes'
    BY <1>3, <2>1, <2>2
  <2> QED
    BY <1>2, <1>3, <2>1, <2>3
<1>13. CASE Compare
  <2>1. /\ todo' = IF full THEN [on |-> fresh \ Inferred, off |-> Inferred \ fresh]
                   ELSE [on |-> fresh, off |-> gone]
        /\ phase' = "writing"
        /\ UNCHANGED <<log, landed, applied, count, full, upto, seen, gone, queue, fresh, basis,
                       crashes, fulls, exact, spoiled, skipped, torn>>
    BY <1>13 DEF Compare, Inferred
  <2>2. todo' \in [on : SUBSET Fact, off : SUBSET Fact]
    BY <1>3, <2>1, LiveTypes DEF Inferred
  <2>3. UNCHANGED <<log, landed, applied, count, full, upto, seen, gone, queue, fresh, basis,
                    crashes, fulls, exact, spoiled, skipped, torn>> /\ phase' \in Phases
    BY <2>1
  <2>4. RunTypes' /\ MarkTypes' /\ FlagTypes'
    BY <1>3, <2>2, <2>3
  <2> QED
    BY <1>2, <1>3, <2>3, <2>4
<1>14. CASE Write
  <2>1. /\ log' \in Seq(Commit) /\ Len(log') = Len(log) + 1 /\ landed = Len(log)
        /\ landed' = Len(log') /\ todo' \in [on : SUBSET Fact, off : SUBSET Fact]
    BY <1>14, WriteFacts, LogStepType
  <2>2. UNCHANGED <<applied, count, phase, full, upto, seen, gone, queue, fresh, basis,
                    crashes, fulls, exact, spoiled, skipped, torn>>
    BY <1>14 DEF Write
  <2>3. RunTypes' /\ MarkTypes' /\ FlagTypes'
    BY <1>3, <1>4, <2>1, <2>2
  <2> QED
    BY <1>2, <1>3, <2>1, <2>2, <2>3
<1>15. CASE Count
  <2>1. /\ count' = IF full THEN Cardinality(fresh)
                    ELSE IF count + Cardinality(fresh) < Cardinality(gone) THEN 0
                    ELSE count + Cardinality(fresh) - Cardinality(gone)
        /\ phase' = "counted" /\ torn' = (torn /\ ~full)
        /\ UNCHANGED <<log, landed, applied, full, upto, seen, gone, queue, fresh, todo, basis,
                       crashes, fulls, exact, spoiled, skipped>>
    BY <1>15 DEF Count
  <2>2. Cardinality(fresh) \in Nat /\ Cardinality(gone) \in Nat
    BY <1>3, FactsFinite
  <2>3. count' \in Nat
    BY <1>3, <2>1, <2>2
  <2>4. RunTypes' /\ MarkTypes' /\ FlagTypes'
    BY <1>3, <2>1
  <2> QED
    BY <1>2, <1>3, <2>1, <2>3, <2>4
<1>16. CASE PutApplied
  <2>1. /\ applied' = upto /\ phase' = "idle" /\ exact' = IF full THEN basis ELSE -1
        /\ full' = FALSE /\ upto' = 0 /\ basis' = 0
        /\ seen' = {} /\ gone' = {} /\ fresh' = {}
        /\ UNCHANGED <<log, landed, count, queue, todo, crashes, fulls, spoiled, skipped, torn>>
    BY <1>16 DEF PutApplied
  <2>2. exact' \in -1 .. landed
    BY <1>3, <1>4, <2>1
  <2>3. /\ applied' = upto /\ full' \in BOOLEAN /\ upto' = 0 /\ basis' = 0
        /\ seen' = {} /\ gone' = {} /\ fresh' = {}
        /\ UNCHANGED <<log, landed, count, queue, todo, crashes, fulls, spoiled, skipped, torn>>
    BY <2>1
  <2>4. RunTypes'
    BY <1>3, <1>4, <2>3
  <2>5. MarkTypes'
    BY <1>3, <1>4, <2>2, <2>3
  <2>6. FlagTypes'
    BY <1>3, <2>3
  <2> QED
    BY <1>2, <1>3, <2>1, <2>4, <2>5, <2>6
<1>17. CASE Crash
  <2>1. /\ crashes' = crashes + 1 /\ phase' = "idle" /\ full' = FALSE /\ upto' = 0 /\ basis' = 0
        /\ seen' = {} /\ gone' = {} /\ queue' = {} /\ fresh' = {} /\ todo' = NoWork
        /\ exact' = IF phase = "idle" THEN exact ELSE -1
        /\ spoiled' = (spoiled \/ phase # "idle")
        /\ torn' = (torn \/ phase = "writing")
        /\ UNCHANGED <<applied, count, fulls, skipped>>
    BY <1>17 DEF Crash
  <2>2. log' \in Seq(Commit) /\ Len(log') = Len(log) /\ landed' = Len(log)
    BY <1>17, CrashFacts
  <2>3. todo' \in [on : SUBSET Fact, off : SUBSET Fact]
    BY <2>1 DEF NoWork
  <2>4. exact' \in -1 .. Len(log)
    BY <1>3, <1>4, <2>1
  <2>5. /\ full' \in BOOLEAN /\ upto' = 0 /\ basis' = 0 /\ applied' = applied
        /\ seen' = {} /\ gone' = {} /\ queue' = {} /\ fresh' = {}
    BY <2>1
  <2>6. RunTypes'
    BY <1>4, <2>2, <2>3, <2>5
  <2>7. MarkTypes'
    BY <1>3, <1>4, <2>2, <2>4, <2>5
  <2>8. FlagTypes'
    BY <1>3, <2>1
  <2> QED
    BY <1>2, <1>3, <2>1, <2>2, <2>6, <2>7, <2>8
<1>18. CASE UNCHANGED inferenceVars
  <2>1. /\ UNCHANGED <<log, landed, applied, count, crashes, fulls, exact, spoiled, skipped, torn>>
        /\ UNCHANGED <<phase, full, upto, seen, gone, queue, fresh, todo, basis>>
    BY <1>18 DEF inferenceVars, runVars
  <2>2. RunTypes' /\ MarkTypes' /\ FlagTypes'
    BY <1>3, <2>1
  <2> QED
    BY <1>2, <1>3, <2>1, <2>2
<1> QED
  BY <1>5, <1>6, <1>8, <1>9, <1>10, <1>11, <1>12, <1>13, <1>14, <1>15, <1>16, <1>17, <1>18
     DEF InferenceNext, Run

\* Every reachable state is well typed: marks stay within the log, sets of
\* facts stay sets of facts, the persisted count stays a number.
THEOREM InferenceTypes == InferenceSpec => []InferenceTypeOK
<1>1. InferenceInit => InferenceTypeOK
  BY InferenceTypeInit
<1>2. InferenceTypeOK /\ [InferenceNext]_inferenceVars => InferenceTypeOK'
  BY InferenceTypeStep
<1> QED
  BY <1>1, <1>2, PTL DEF InferenceSpec

-----------------------------------------------------------------------------
(* What steps do to live facts *)

LEMMA AppendLive ==
  ASSUME InferenceTypeOK, NEW e \in Commit, log' = Append(log, e),
         NEW by, NEW n \in Nat, n <= Len(log)
  PROVE  Live(by, n)' = Live(by, n)
<1>1. \A i \in 1 .. n : log'[i] = log[i]
  BY LogStepType, LogFacts
<1>2. \A i \in 1 .. n : On(by, i)' = On(by, i) /\ Off(by, i)' = Off(by, i)
  BY <1>1 DEF On, Off
<1> QED
  BY <1>2, LiveAgrees

LEMMA AppendLast ==
  ASSUME InferenceTypeOK, NEW e \in Commit, log' = Append(log, e), NEW by
  PROVE  Live(by, Len(log))' = IF e.by = by THEN (Live(by, Len(log)) \ e.off) \cup e.on
                               ELSE Live(by, Len(log))
<1>1. PICK n \in Nat : n = Len(log)
  BY LogFacts
<1>2. Len(log)' = n + 1 /\ log'[n + 1] = e /\ n <= Len(log)
  BY <1>1, LogStepType
<1>3. On(by, n + 1)' = IF e.by = by THEN e.on ELSE {}
  BY <1>2 DEF On
<1>4. Off(by, n + 1)' = IF e.by = by THEN e.off ELSE {}
  BY <1>2 DEF Off
<1>5. On(by, n + 1)' \subseteq Fact
  BY <1>3 DEF Commit
<1>6. Live(by, n)' = Live(by, n)
  BY <1>2, AppendLive
<1>7. (On(by, n + 1) \subseteq Fact =>
         Live(by, n + 1) = (Live(by, n) \ Off(by, n + 1)) \cup On(by, n + 1))'
  BY LiveAfterCommit, PTL
<1>8. Live(by, n + 1)' = IF e.by = by THEN (Live(by, n) \ e.off) \cup e.on ELSE Live(by, n)
  BY <1>3, <1>4, <1>5, <1>6, <1>7
<1>9. Live(by, Len(log))' = Live(by, n + 1)'
  BY <1>2
<1> QED
  BY <1>1, <1>8, <1>9

LEMMA SameLogLive ==
  ASSUME log' = log, NEW by, NEW n
  PROVE  Live(by, n)' = Live(by, n)
  BY DEF Live

LEMMA CrashLive ==
  ASSUME InferenceTypeOK, LogInv, Crash
  PROVE  /\ \A by : \A n \in 0 .. landed : Live(by, n)' = Live(by, n)
         /\ InferredNow' = InferredNow
<1>1. /\ Len(log') = Len(log) /\ Len(log) \in Nat
      /\ \A i \in 1 .. Len(log) :
            \/ log'[i] = log[i]
            \/ /\ i = Len(log) /\ landed < i
               /\ log'[i] = [by |-> "client", on |-> {}, off |-> {}]
  BY CrashFacts, LogFacts
<1>2. landed \in Nat /\ landed <= Len(log)
  BY LogFacts DEF InferenceTypeOK
<1>3. ASSUME NEW by, NEW n \in 0 .. landed
      PROVE  Live(by, n)' = Live(by, n)
  <2>1. \A i \in 1 .. n : log'[i] = log[i]
    BY <1>1, <1>2
  <2>2. \A i \in 1 .. n : On(by, i)' = On(by, i) /\ Off(by, i)' = Off(by, i)
    BY <2>1 DEF On, Off
  <2> QED
    BY <2>2, LiveAgrees
<1>4. ASSUME NEW n \in Nat, n = Len(log)
      PROVE  Live("inference", n)' = Live("inference", n)
  <2>1. \A i \in 1 .. n : \/ log'[i].by = log[i].by /\ log'[i].by = "client"
                          \/ log'[i] = log[i]
    BY <1>1, <1>4 DEF LogInv
  <2>2. \A i \in 1 .. n : /\ On("inference", i)' = On("inference", i)
                          /\ Off("inference", i)' = Off("inference", i)
    BY <2>1 DEF On, Off
  <2> QED
    BY <2>2, LiveAgrees
<1>5. Live("inference", Len(log))' = Live("inference", Len(log))
  <2>1. PICK n \in Nat : n = Len(log)
    BY <1>1
  <2>2. Live("inference", n)' = Live("inference", n)
    BY <1>4, <2>1
  <2>3. Len(log)' = n
    BY <1>1, <2>1
  <2> QED
    BY <2>1, <2>2, <2>3
<1> QED
  BY <1>3, <1>5 DEF InferredNow

\* What a client's commit does.
LEMMA BeginFacts ==
  ASSUME InferenceTypeOK, NEW f \in Writable, BeginCommit(f)
  PROVE  \E e \in Commit :
            /\ e.by = "client" /\ e.on \subseteq Base /\ landed = Len(log)
            /\ log' = Append(log, e)
            /\ ~spoiled' => ~spoiled /\ e.off = {}
            /\ UNCHANGED <<landed, applied, count, phase, full, upto, seen, gone, queue, fresh,
                           todo, basis, exact, skipped, torn>>
<1> DEFINE close == f \in Live("client", landed)
           e == IF close THEN [by |-> "client", on |-> {}, off |-> {f}]
                ELSE [by |-> "client", on |-> {f}, off |-> {}]
<1>1. /\ landed = Len(log) /\ log' = Append(log, e) /\ spoiled' = (spoiled \/ close)
      /\ UNCHANGED <<landed, applied, count, phase, full, upto, seen, gone, queue, fresh,
                     todo, basis, exact, skipped, torn>>
  BY DEF BeginCommit, runVars
<1>2. e \in Commit /\ e.by = "client" /\ e.on \subseteq Base /\ (~close => e.off = {})
  BY GivenType DEF Commit
<1>3. ~spoiled' => ~spoiled /\ ~close
  BY <1>1
<1> HIDE DEF e, close
<1> QED
  BY <1>1, <1>2, <1>3

\* Most steps leave the log alone.
LEMMA LogMoves ==
  ASSUME [InferenceNext]_inferenceVars
  PROVE  \/ \E f \in Writable : BeginCommit(f)
         \/ Land \/ Write \/ Crash
         \/ UNCHANGED <<log, landed>>
<1>1. CASE UNCHANGED inferenceVars
  BY <1>1 DEF inferenceVars
<1>2. CASE StartFull \/ SkipOwn \/ StartOver \/ StartBatch \/ Compare \/ Count \/ PutApplied
  BY <1>2 DEF StartFull, SkipOwn, StartOver, StartBatch, Compare, Count, PutApplied
<1>3. ASSUME NEW f \in Fact, Derive(f)
      PROVE  UNCHANGED <<log, landed>>
  BY <1>3 DEF Derive
<1> QED
  BY <1>1, <1>2, <1>3 DEF InferenceNext, Run

LEMMA LogInvInit == InferenceInit => LogInv
<1> SUFFICES ASSUME InferenceInit
             PROVE  LogInv
  OBVIOUS
<1>1. log = <<[by |-> "client", on |-> Given, off |-> {}]>> /\ landed = 1
  BY DEF InferenceInit
<1>2. DOMAIN log = {1} /\ Len(log) = 1 /\ log[1].on = Given
  BY <1>1
<1> QED
  BY <1>1, <1>2, GivenType DEF LogInv

LEMMA LogInvStep ==
  ASSUME InferenceTypeOK, LogInv, [InferenceNext]_inferenceVars
  PROVE  LogInv'
<1>0. DOMAIN log = 1 .. Len(log) /\ Len(log) \in Nat /\ landed <= Len(log) /\ landed \in Int
  BY LogFacts
<1>1. ASSUME NEW f \in Writable, BeginCommit(f)
      PROVE  LogInv'
  <2>1. PICK e \in Commit : e.by = "client" /\ e.on \subseteq Base /\ log' = Append(log, e)
    BY <1>1, BeginFacts
  <2>2. /\ Len(log') = Len(log) + 1 /\ DOMAIN log' = 1 .. Len(log')
        /\ \A i \in 1 .. Len(log) : log'[i] = log[i]
        /\ log'[Len(log) + 1] = e
    BY <2>1, LogStepType
  <2> QED
    BY <1>0, <2>1, <2>2 DEF LogInv
<1>2. CASE Land
  BY <1>0, <1>2 DEF Land, LogInv
<1>3. CASE Write
  <2>1. PICK e \in Commit : e.by = "inference" /\ log' = Append(log, e) /\ landed' = Len(log')
    BY <1>3, WriteFacts
  <2>2. /\ Len(log') = Len(log) + 1 /\ DOMAIN log' = 1 .. Len(log')
        /\ \A i \in 1 .. Len(log) : log'[i] = log[i]
        /\ log'[Len(log) + 1] = e
    BY <2>1, LogStepType
  <2>3. \A i \in DOMAIN log' : log'[i].by = "client" => log'[i].on \subseteq Base
    BY <1>0, <2>1, <2>2 DEF LogInv
  <2>4. ~(landed' < Len(log'))
    BY <1>0, <2>1, <2>2
  <2> QED
    BY <2>3, <2>4 DEF LogInv
<1>4. CASE Crash
  <2>1. /\ Len(log') = Len(log) /\ landed' = Len(log) /\ DOMAIN log' = DOMAIN log
        /\ \A i \in 1 .. Len(log) :
              log'[i] = log[i] \/ log'[i] = [by |-> "client", on |-> {}, off |-> {}]
    BY <1>4, CrashFacts
  <2>2. ~(landed' < Len(log'))
    BY <1>0, <2>1
  <2>3. \A i \in DOMAIN log' : log'[i].by = "client" => log'[i].on \subseteq Base
    BY <1>0, <2>1 DEF LogInv
  <2> QED
    BY <2>2, <2>3 DEF LogInv
<1>5. CASE UNCHANGED <<log, landed>>
  BY <1>5 DEF LogInv
<1> QED
  BY <1>1, <1>2, <1>3, <1>4, <1>5, LogMoves

\* The commits a run covers stay as they are.
LEMMA RunFrame ==
  ASSUME InferenceTypeOK, LogInv, [InferenceNext]_inferenceVars
  PROVE  /\ \A by : \A n \in 0 .. landed : Live(by, n)' = Live(by, n)
         /\ basis' = basis => /\ BaseFacts' = BaseFacts /\ Inferred' = Inferred
                              /\ RunAxioms' = RunAxioms
<1>0. landed \in Nat /\ landed <= Len(log) /\ Len(log) \in Nat /\ basis \in 0 .. landed
  BY LogFacts DEF InferenceTypeOK
<1>1. ASSUME NEW by, NEW n \in 0 .. landed
      PROVE  Live(by, n)' = Live(by, n)
  <2>1. ASSUME NEW f \in Writable, BeginCommit(f)
        PROVE  Live(by, n)' = Live(by, n)
    BY <1>0, <2>1, BeginFacts, AppendLive
  <2>2. CASE Write
    <3>1. PICK e \in Commit : log' = Append(log, e)
      BY <2>2, WriteFacts
    <3> QED
      BY <1>0, <3>1, AppendLive
  <2>3. CASE Crash
    BY <2>3, CrashLive
  <2>4. CASE Land \/ UNCHANGED <<log, landed>>
    BY <2>4, SameLogLive DEF Land
  <2> QED
    BY <2>1, <2>2, <2>3, <2>4, LogMoves
<1>2. ASSUME basis' = basis, NEW by
      PROVE  Live(by, basis)' = Live(by, basis)
  <2>1. PICK n \in 0 .. landed : n = basis
    BY <1>0
  <2>2. Live(by, n)' = Live(by, n)
    BY <1>1
  <2> QED
    BY <1>2, <2>1, <2>2
<1>3. ASSUME basis' = basis
      PROVE  /\ BaseFacts' = BaseFacts /\ Inferred' = Inferred
             /\ InForce(Live("client", basis))' = InForce(Live("client", basis))
  <2>1. BaseFacts' = BaseFacts /\ Inferred' = Inferred
    BY <1>2, <1>3 DEF BaseFacts, Inferred
  <2>2. Live("client", basis)' = Live("client", basis)
    BY <1>2, <1>3
  <2> QED
    BY <2>1, <2>2 DEF InForce
<1> QED
  BY <1>1, <1>3 DEF RunAxioms

\* Only a run's writes change what is inferred.
LEMMA NowFrame ==
  ASSUME InferenceTypeOK, LogInv, [InferenceNext]_inferenceVars, ~Write
  PROVE  InferredNow' = InferredNow
<1>1. ASSUME NEW f \in Writable, BeginCommit(f)
      PROVE  InferredNow' = InferredNow
  BY <1>1, BeginFacts, AppendLast DEF InferredNow
<1>2. CASE Crash
  BY <1>2, CrashLive
<1>3. CASE Land \/ UNCHANGED <<log, landed>>
  BY <1>3, SameLogLive DEF Land, InferredNow
<1> QED
  BY <1>1, <1>2, <1>3, LogMoves

\* A commit in flight is a client's.
LEMMA LandedInferred ==
  ASSUME InferenceTypeOK, LogInv
  PROVE  Live("inference", landed) = InferredNow
<1>1. landed \in Nat /\ (landed = Len(log) \/ landed + 1 = Len(log))
  BY LogFacts DEF InferenceTypeOK
<1>2. CASE landed + 1 = Len(log)
  <2>1. On("inference", landed + 1) = {} /\ Off("inference", landed + 1) = {}
    BY <1>1, <1>2 DEF LogInv, On, Off
  <2>2. Live("inference", landed + 1) = Live("inference", landed)
    BY <1>1, <2>1, LiveAfterCommit
  <2> QED
    BY <1>2, <2>2 DEF InferredNow
<1> QED
  BY <1>1, <1>2 DEF InferredNow

\* What a full run starts with.
LEMMA RecomputeFacts ==
  ASSUME InferenceTypeOK, LogInv, NEW at, Recompute(at), UNCHANGED log
  PROVE  /\ full' = TRUE /\ upto' = at /\ basis' = landed /\ phase' = "deriving"
         /\ gone' = {} /\ fresh' = {} /\ todo' = NoWork
         /\ BaseFacts' = Live("client", landed) /\ seen' = BaseFacts' /\ queue' = BaseFacts'
         /\ Inferred' = InferredNow /\ InferredNow' = InferredNow
         /\ skipped' = (landed < at)
         /\ spoiled' = (\E i \in landed + 1 .. Len(log) : log[i].off # {})
<1>1. /\ full' = TRUE /\ upto' = at /\ basis' = landed /\ phase' = "deriving"
      /\ gone' = {} /\ fresh' = {} /\ todo' = NoWork
      /\ seen' = Live("client", landed) /\ queue' = Live("client", landed)
      /\ skipped' = (landed < at)
      /\ spoiled' = (\E i \in landed + 1 .. Len(log) : log[i].off # {})
  BY DEF Recompute
<1>2. BaseFacts' = Live("client", landed)
  BY <1>1 DEF BaseFacts, Live
<1>3. Inferred' = Live("inference", landed)
  BY <1>1 DEF Inferred, Live
<1>4. InferredNow' = InferredNow
  BY DEF InferredNow, Live
<1> QED
  BY <1>1, <1>2, <1>3, <1>4, LandedInferred

\* What an incremental run starts with.
LEMMA StartFacts ==
  ASSUME InferenceTypeOK, LogInv, StartBatch
  PROVE  /\ full' = FALSE /\ upto' = To /\ basis' = landed /\ phase' = "deriving"
         /\ fresh' = {} /\ todo' = NoWork /\ UNCHANGED log
         /\ BaseFacts' = Live("client", landed)
         /\ Inferred' = InferredNow /\ InferredNow' = InferredNow
         /\ gone' \subseteq Inferred' /\ seen' = (BaseFacts' \cup Inferred') \ gone'
<1>1. /\ full' = FALSE /\ upto' = To /\ basis' = landed /\ phase' = "deriving"
      /\ fresh' = {} /\ todo' = NoWork /\ UNCHANGED log
  BY DEF StartBatch
<1>2. BaseFacts' = Live("client", landed)
  BY <1>1 DEF BaseFacts, Live
<1>3. Inferred' = Live("inference", landed)
  BY <1>1 DEF Inferred, Live
<1>4. InferredNow' = InferredNow
  BY <1>1 DEF InferredNow, Live
<1>5. gone' \subseteq Live("inference", landed) /\ seen' = Stored(landed) \ gone'
  BY BatchTypes
<1> QED
  BY <1>1, <1>2, <1>3, <1>4, <1>5, LandedInferred DEF Stored

-----------------------------------------------------------------------------
(* What a run knows, what it has written, and the count *)

LEMMA KnowsStep ==
  ASSUME InferenceTypeOK, LogInv, KnowsInv, [InferenceNext]_inferenceVars
  PROVE  KnowsInv'
<1>1. ASSUME NEW at, Recompute(at), UNCHANGED log
      PROVE  KnowsInv'
  BY <1>1, RecomputeFacts DEF KnowsInv
<1>2. CASE StartFull
  BY <1>1, <1>2 DEF StartFull
<1>3. CASE StartOver
  BY <1>1, <1>3 DEF StartOver
<1>4. CASE StartBatch
  BY <1>4, StartFacts DEF KnowsInv
<1>5. ASSUME NEW f \in Fact, Derive(f)
      PROVE  KnowsInv'
  <2>1. PICK kept \in SUBSET Fact :
           /\ phase = "deriving" /\ kept \cap seen = {}
           /\ seen' = seen \cup kept /\ fresh' = fresh \cup (kept \ gone) /\ gone' = gone \ kept
    BY <1>5, DeriveFacts
  <2>2. phase' = phase /\ full' = full /\ basis' = basis
    BY <1>5 DEF Derive
  <2>3. BaseFacts' = BaseFacts /\ Inferred' = Inferred
    BY <2>2, RunFrame
  <2> QED
    BY <2>1, <2>2, <2>3 DEF KnowsInv
<1>6. CASE PutApplied \/ Crash
  BY <1>6 DEF PutApplied, Crash, KnowsInv
<1>7. ASSUME UNCHANGED <<full, seen, gone, queue, fresh, basis>>,
             phase # "idle" \/ phase' = "idle", phase' = "deriving" \/ phase' = phase \/ queue = {}
      PROVE  KnowsInv'
  <2>1. BaseFacts' = BaseFacts /\ Inferred' = Inferred
    BY <1>7, RunFrame
  <2> QED
    BY <1>7, <2>1 DEF KnowsInv
<1>8. ASSUME NEW f \in Writable, BeginCommit(f)
      PROVE  KnowsInv'
  BY <1>7, <1>8 DEF BeginCommit, runVars
<1>9. CASE Compare
  BY <1>7, <1>9 DEF Compare
<1>10. CASE Count
  BY <1>7, <1>10 DEF Count, KnowsInv
<1>11. CASE Land \/ SkipOwn \/ Write \/ UNCHANGED inferenceVars
  BY <1>7, <1>11 DEF Land, SkipOwn, Write, runVars, inferenceVars
<1> QED
  BY <1>2, <1>3, <1>4, <1>5, <1>6, <1>8, <1>9, <1>10, <1>11 DEF InferenceNext, Run

LEMMA WrittenStep ==
  ASSUME InferenceTypeOK, LogInv, KnowsInv, WrittenInv, [InferenceNext]_inferenceVars
  PROVE  WrittenInv'
<1>1. ASSUME phase' = "deriving", InferredNow' = Inferred', todo' = NoWork
      PROVE  WrittenInv'
  BY <1>1 DEF WrittenInv
<1>2. ASSUME NEW at, Recompute(at), UNCHANGED log
      PROVE  WrittenInv'
  BY <1>1, <1>2, RecomputeFacts
<1>3. CASE StartFull
  BY <1>2, <1>3 DEF StartFull
<1>4. CASE StartOver
  BY <1>2, <1>4 DEF StartOver
<1>5. CASE StartBatch
  BY <1>1, <1>5, StartFacts
<1>6. ASSUME NEW f \in Fact, Derive(f)
      PROVE  WrittenInv'
  <2>1. phase = "deriving" /\ UNCHANGED <<log, phase, todo, basis>> /\ ~Write
    BY <1>6 DEF Derive, Write
  <2>2. Inferred' = Inferred /\ InferredNow' = InferredNow
    BY <2>1, RunFrame, NowFrame
  <2> QED
    BY <1>1, <2>1, <2>2 DEF WrittenInv
<1>7. CASE Compare
  <2>1. /\ phase = "deriving" /\ phase' = "writing"
        /\ UNCHANGED <<full, gone, fresh, basis>> /\ ~Write
        /\ todo' = IF full THEN [on |-> fresh \ Inferred, off |-> Inferred \ fresh]
                   ELSE [on |-> fresh, off |-> gone]
    BY <1>7 DEF Compare, Write, Inferred
  <2>2. Inferred' = Inferred /\ InferredNow' = Inferred
    BY <2>1, RunFrame, NowFrame DEF WrittenInv
  <2>3. CASE full
    <3>1. todo'.on = fresh \ Inferred /\ todo'.off = Inferred \ fresh /\ Target' = fresh
      BY <2>1, <2>3 DEF Target
    <3> QED
      BY <2>1, <2>2, <3>1 DEF WrittenInv
  <2>4. CASE ~full
    <3>1. todo'.on = fresh /\ todo'.off = gone /\ Target' = (Inferred \cup fresh) \ gone
      BY <2>1, <2>2, <2>4 DEF Target
    <3>2. fresh \cap Inferred = {} /\ gone \subseteq Inferred
      BY <2>1, <2>4 DEF KnowsInv
    <3> QED
      BY <2>1, <2>2, <3>1, <3>2 DEF WrittenInv
  <2> QED
    BY <2>3, <2>4
<1>8. CASE Write
  <2>1. PICK on \in SUBSET todo.on, off \in SUBSET todo.off, e \in Commit :
           /\ e.by = "inference" /\ e.on = on /\ e.off = off /\ log' = Append(log, e)
           /\ todo' = [on |-> todo.on \ on, off |-> todo.off \ off]
    BY <1>8, WriteFacts
  <2>2. phase = "writing" /\ UNCHANGED <<phase, full, gone, fresh, basis>>
    BY <1>8 DEF Write
  <2>3. InferredNow' = (InferredNow \ off) \cup on
    BY <2>1, AppendLast DEF InferredNow
  <2>4. Target' = Target
    BY <2>2, RunFrame DEF Target
  <2>5. /\ (InferredNow \cup todo.on) \ todo.off = Target
        /\ todo.on \cap InferredNow = {} /\ todo.off \subseteq InferredNow
    BY <2>2 DEF WrittenInv
  <2>6. todo'.on = todo.on \ on /\ todo'.off = todo.off \ off
    BY <2>1
  <2>7. /\ (InferredNow' \cup todo'.on) \ todo'.off = Target'
        /\ todo'.on \cap InferredNow' = {} /\ todo'.off \subseteq InferredNow'
    <3>1. on \subseteq todo.on /\ off \subseteq todo.off
      BY <2>1
    <3>2. /\ (InferredNow' \cup (todo.on \ on)) \ (todo.off \ off) = (InferredNow \cup todo.on) \ todo.off
          /\ (todo.on \ on) \cap InferredNow' = {} /\ todo.off \ off \subseteq InferredNow'
      BY <2>3, <2>5, <3>1
    <3> QED
      BY <2>4, <2>5, <2>6, <3>2
  <2> QED
    BY <2>2, <2>7 DEF WrittenInv
<1>9. CASE PutApplied \/ Crash
  BY <1>9 DEF PutApplied, Crash, WrittenInv
<1>10. ASSUME UNCHANGED <<full, gone, fresh, basis, todo>>, ~Write,
             phase' = phase \/ (phase = "writing" /\ todo = NoWork /\ phase' = "counted")
      PROVE  WrittenInv'
  <2>1. Inferred' = Inferred /\ InferredNow' = InferredNow /\ Target' = Target
    BY <1>10, RunFrame, NowFrame DEF Target
  <2> QED
    BY <1>10, <2>1 DEF WrittenInv
<1>11. ASSUME NEW f \in Writable, BeginCommit(f)
      PROVE  WrittenInv'
  <2>1. ~Write
    BY <1>11, BeginFacts, LogStepType, WriteFacts DEF Commit
  <2> QED
    BY <1>10, <1>11, <2>1 DEF BeginCommit, runVars
<1>12. CASE Count
  BY <1>10, <1>12 DEF Count, Write
<1>13. CASE Land \/ SkipOwn
  BY <1>10, <1>13 DEF Land, SkipOwn, Write, runVars
<1>14. CASE UNCHANGED inferenceVars /\ ~Write
  BY <1>10, <1>14 DEF runVars, inferenceVars
<1> QED
  BY <1>3, <1>4, <1>5, <1>6, <1>7, <1>8, <1>9, <1>11, <1>12, <1>13, <1>14 DEF InferenceNext, Run

LEMMA CountStep ==
  ASSUME InferenceTypeOK, LogInv, KnowsInv, WrittenInv, CountInv, [InferenceNext]_inferenceVars
  PROVE  CountInv'
<1>1. ASSUME UNCHANGED <<count, torn>>, phase # "writing", phase' # "writing", ~Write
      PROVE  CountInv'
  <2>1. InferredNow' = InferredNow
    BY <1>1, NowFrame
  <2> QED
    BY <1>1, <2>1 DEF CountInv
<1>2. ASSUME UNCHANGED <<count, torn, phase, basis>>, phase = "writing"
      PROVE  CountInv'
  <2>1. Inferred' = Inferred
    BY <1>2, RunFrame
  <2> QED
    BY <1>2, <2>1 DEF CountInv
<1>3. CASE StartFull \/ StartOver \/ StartBatch
  <2>1. phase = "idle" /\ phase' = "deriving" /\ UNCHANGED <<count, torn>>
    BY <1>3 DEF StartFull, StartOver, StartBatch, Recompute
  <2> QED
    BY <1>1, <2>1 DEF Write
<1>4. ASSUME NEW f \in Fact, Derive(f)
      PROVE  CountInv'
  BY <1>1, <1>4 DEF Derive, Write
<1>5. CASE Compare
  <2>1. phase = "deriving" /\ phase' = "writing" /\ UNCHANGED <<count, torn, basis>>
    BY <1>5 DEF Compare
  <2>2. Inferred' = Inferred /\ InferredNow = Inferred
    BY <2>1, RunFrame DEF WrittenInv
  <2> QED
    BY <2>1, <2>2 DEF CountInv
<1>6. CASE Write
  BY <1>2, <1>6 DEF Write
<1>7. CASE Count
  <2>1. /\ count' = IF full THEN Cardinality(fresh)
                    ELSE IF count + Cardinality(fresh) < Cardinality(gone) THEN 0
                    ELSE count + Cardinality(fresh) - Cardinality(gone)
        /\ phase = "writing" /\ phase' = "counted" /\ todo = NoWork /\ torn' = (torn /\ ~full)
        /\ ~Write
    BY <1>7 DEF Count, Write
  <2>2. InferredNow' = InferredNow
    BY <2>1, NowFrame
  <2>3. InferredNow = Target
    BY <2>1 DEF WrittenInv, NoWork
  <2>4. CASE full
    BY <2>1, <2>2, <2>3, <2>4 DEF CountInv, Target
  <2>5. CASE ~full /\ ~torn
    <3>1. Inferred \subseteq Fact /\ fresh \subseteq Fact /\ gone \subseteq Fact
      BY LiveTypes DEF Inferred, InferenceTypeOK
    <3>2. gone \subseteq Inferred /\ fresh \cap Inferred = {}
      BY <2>1, <2>5 DEF KnowsInv
    <3>3. /\ IsFiniteSet(Inferred) /\ IsFiniteSet(fresh) /\ IsFiniteSet(gone)
          /\ Cardinality(Inferred) \in Nat /\ Cardinality(fresh) \in Nat /\ Cardinality(gone) \in Nat
      BY <3>1, FactsFinite
    <3>4. IsFiniteSet(Inferred \cup fresh)
      BY <3>3, FS_Union
    <3>5. Cardinality(Inferred \cup fresh) = Cardinality(Inferred) + Cardinality(fresh)
      <4>1. Cardinality(Inferred \cup fresh)
              = Cardinality(Inferred) + Cardinality(fresh) - Cardinality(Inferred \cap fresh)
        BY <3>3, FS_Union
      <4>2. Inferred \cap fresh = {} /\ Cardinality({}) = 0
        BY <3>2, FS_EmptySet
      <4> QED
        BY <3>3, <4>1, <4>2
    <3>6. Cardinality((Inferred \cup fresh) \ gone)
            = Cardinality(Inferred \cup fresh) - Cardinality((Inferred \cup fresh) \cap gone)
      BY <3>4, FS_Difference
    <3>7. (Inferred \cup fresh) \cap gone = gone
      BY <3>2
    <3>8. Cardinality(Target) = Cardinality(Inferred) + Cardinality(fresh) - Cardinality(gone)
      <4>1. Target = (Inferred \cup fresh) \ gone
        BY <2>5 DEF Target
      <4>2. Cardinality((Inferred \cup fresh) \cap gone) = Cardinality(gone)
        BY <3>7
      <4>3. Cardinality((Inferred \cup fresh) \ gone) = Cardinality(Inferred \cup fresh) - Cardinality(gone)
        BY <3>6, <4>2
      <4> QED
        BY <3>3, <3>5, <4>1, <4>3
    <3>9. Cardinality(Target) \in Nat
      <4>1. Target \subseteq Fact
        BY <2>5, <3>1 DEF Target
      <4> QED
        BY <4>1, FactsFinite
    <3>10. count = Cardinality(Inferred)
      BY <2>1, <2>5 DEF CountInv
    <3>11. count' = Cardinality(Target)
      BY <2>1, <2>5, <3>3, <3>8, <3>9, <3>10
    <3> QED
      BY <2>1, <2>2, <2>3, <3>11 DEF CountInv
  <2> QED
    BY <2>1, <2>4, <2>5 DEF CountInv
<1>8. CASE PutApplied
  BY <1>1, <1>8 DEF PutApplied, Write
<1>9. CASE Crash
  <2>1. phase' = "idle" /\ count' = count /\ torn' = (torn \/ phase = "writing")
    BY <1>9 DEF Crash
  <2>2. InferredNow' = InferredNow
    BY <1>9, CrashLive
  <2> QED
    BY <2>1, <2>2 DEF CountInv
<1>10. ASSUME UNCHANGED <<count, torn, phase, basis>>, InferredNow' = InferredNow
       PROVE  CountInv'
  BY <1>2, <1>10 DEF CountInv
<1>11. ASSUME NEW f \in Writable, BeginCommit(f)
       PROVE  CountInv'
  <2>1. InferredNow' = InferredNow
    BY <1>11, BeginFacts, AppendLast DEF InferredNow
  <2> QED
    BY <1>10, <1>11, <2>1, BeginFacts
<1>12. CASE Land \/ SkipOwn \/ UNCHANGED inferenceVars
  <2>1. UNCHANGED <<log, count, torn, phase, basis>>
    BY <1>12 DEF Land, SkipOwn, runVars, inferenceVars
  <2> QED
    BY <1>10, <2>1, SameLogLive DEF InferredNow
<1> QED
  BY <1>3, <1>4, <1>5, <1>6, <1>7, <1>8, <1>9, <1>11, <1>12 DEF InferenceNext, Run

\* What holds of every run, full or not, exact or not.
RunInv == InferenceTypeOK /\ LogInv /\ KnowsInv /\ WrittenInv /\ CountInv

LEMMA RunInvInit == InferenceInit => RunInv
<1> SUFFICES ASSUME InferenceInit
             PROVE  RunInv
  OBVIOUS
<1>1. /\ phase = "idle" /\ count = 0
      /\ log = <<[by |-> "client", on |-> Given, off |-> {}]>>
  BY DEF InferenceInit
<1>2. InferredNow = {}
  BY <1>1 DEF InferredNow, Live
<1>3. KnowsInv /\ WrittenInv /\ CountInv
  BY <1>1, <1>2, FS_EmptySet DEF KnowsInv, WrittenInv, CountInv
<1> QED
  BY <1>3, InferenceTypeInit, LogInvInit DEF RunInv

LEMMA RunInvStep == RunInv /\ [InferenceNext]_inferenceVars => RunInv'
  BY InferenceTypeStep, LogInvStep, KnowsStep, WrittenStep, CountStep DEF RunInv

\* The count a status request reads is the number of inferred facts, whatever
\* commits, full and incremental runs and restarts came before, unless a run
\* was cut short between its writes and the count (owl_rl.rs:1135-1140).
THEOREM CountsMatch == InferenceSpec => []CountMatches
<1>1. InferenceSpec => []RunInv
  BY RunInvInit, RunInvStep, PTL DEF InferenceSpec
<1>2. RunInv => CountMatches
  BY DEF RunInv, CountInv, CountMatches, InferredNow
<1> QED
  BY <1>1, <1>2, PTL

-----------------------------------------------------------------------------
(* Full runs are exact *)

LEMMA LiveInBase ==
  ASSUME InferenceTypeOK, LogInv, NEW n \in Nat, n <= Len(log)
  PROVE  Live("client", n) \in SUBSET Base
<1>1. \A i \in 1 .. n : On("client", i) \subseteq Base
  BY LogFacts DEF LogInv, On
<1> QED
  BY <1>1, LiveMeans

\* Taking one fact from the queue draws what follows from it, and no more.
LEMMA DeriveStep ==
  ASSUME InferenceTypeOK, LogInv, DerivesRight, NEW f \in Fact, Derive(f)
  PROVE  DerivesRight'
<1>1. PICK kept \in SUBSET Fact :
         /\ f \in queue /\ kept \cap seen = {}
         /\ kept \subseteq Consequences(f, seen, RunAxioms)
         /\ \A c \in Consequences(f, seen, RunAxioms) : Present(c, seen \cup kept)
         /\ seen' = seen \cup kept
         /\ queue' = (queue \ {f}) \cup kept
  BY DeriveFacts
<1>2. basis' = basis /\ [InferenceNext]_inferenceVars
  BY DEF Derive, InferenceNext, Run
<1>3. BaseFacts' = BaseFacts /\ RunAxioms' = RunAxioms
  BY <1>2, RunFrame
<1>4. /\ queue \subseteq seen /\ BaseFacts \subseteq seen /\ Sound(seen, BaseFacts)
      /\ Drawn(seen \ queue, seen, RunAxioms)
  BY DEF DerivesRight
<1>5. /\ RunAxioms = InForce(BaseFacts) /\ RunAxioms \in SUBSET Axiom
      /\ seen \in SUBSET Fact /\ f \in seen
  BY <1>1, <1>4, InForceType DEF RunAxioms, BaseFacts, InferenceTypeOK
<1>6. Sound(seen \cup kept, BaseFacts)
  <2>1. Sound(Consequences(f, seen, RunAxioms), BaseFacts)
    BY <1>4, <1>5, ConsequencesAreSound
  <2> QED
    BY <1>1, <1>4, <2>1, SoundUnion
<1>7. /\ (queue \ {f}) \cup kept \subseteq seen \cup kept
      /\ Drawn((seen \cup kept) \ ((queue \ {f}) \cup kept), seen \cup kept, RunAxioms)
  <2>1. /\ seen \in SUBSET Fact /\ RunAxioms \in SUBSET Axiom /\ queue \in SUBSET seen
        /\ f \in queue /\ kept \subseteq Fact /\ kept \cap seen = {}
        /\ Drawn(seen \ queue, seen, RunAxioms)
        /\ \A c \in Consequences(f, seen, RunAxioms) : Present(c, seen \cup kept)
    BY <1>1, <1>4, <1>5
  <2> QED
    BY <2>1, DrawingOne
<1> QED
  BY <1>1, <1>3, <1>4, <1>6, <1>7 DEF DerivesRight

LEMMA DerivesFrame ==
  ASSUME InferenceTypeOK, LogInv, DerivesRight, [InferenceNext]_inferenceVars,
         UNCHANGED <<seen, queue, basis>>
  PROVE  DerivesRight'
  BY RunFrame DEF DerivesRight

LEMMA FullStep ==
  ASSUME InferenceTypeOK, LogInv, FullInv, [InferenceNext]_inferenceVars
  PROVE  FullInv'
<1>1. ASSUME NEW at, Recompute(at), UNCHANGED log
      PROVE  FullInv'
  <2>1. seen' = BaseFacts' /\ queue' = BaseFacts' /\ BaseFacts' = Live("client", landed)
    BY <1>1, RecomputeFacts
  <2>2. BaseFacts' \in SUBSET Base
    BY <2>1, LiveInBase, LogFacts DEF InferenceTypeOK
  <2>3. Sound(BaseFacts', BaseFacts')
    BY <2>2, BaseIsSound
  <2>4. Drawn(seen' \ queue', seen', RunAxioms')
    BY <2>1 DEF Drawn
  <2> QED
    BY <2>1, <2>3, <2>4 DEF FullInv, DerivesRight
<1>2. CASE StartFull
  BY <1>1, <1>2 DEF StartFull
<1>3. CASE StartOver
  BY <1>1, <1>3 DEF StartOver
<1>4. CASE StartBatch \/ PutApplied \/ Crash
  BY <1>4 DEF StartBatch, PutApplied, Crash, FullInv
<1>5. ASSUME NEW f \in Fact, Derive(f)
      PROVE  FullInv'
  <2>1. phase' = phase /\ full' = full
    BY <1>5 DEF Derive
  <2> QED
    BY <1>5, <2>1, DeriveStep DEF FullInv
<1>6. ASSUME UNCHANGED <<full, seen, queue, basis>>, phase # "idle" \/ phase' = "idle"
      PROVE  FullInv'
  BY <1>6, DerivesFrame DEF FullInv
<1>7. ASSUME NEW f \in Writable, BeginCommit(f)
      PROVE  FullInv'
  BY <1>6, <1>7 DEF BeginCommit, runVars
<1>8. CASE Land \/ SkipOwn \/ Compare \/ Write \/ Count \/ UNCHANGED inferenceVars
  BY <1>6, <1>8 DEF Land, SkipOwn, Compare, Write, Count, runVars, inferenceVars
<1> QED
  BY <1>2, <1>3, <1>4, <1>5, <1>7, <1>8 DEF InferenceNext, Run

\* A run that has written everything leaves exactly what it drew.
LEMMA RunEnds ==
  ASSUME InferenceTypeOK, LogInv, KnowsInv, WrittenInv, DerivesRight,
         phase = "counted", full \/ (gone = {} /\ seen = BaseFacts \cup Inferred \cup fresh)
  PROVE  Exact(BaseFacts \cup InferredNow, BaseFacts)
<1>1. InferredNow = Target
  BY DEF WrittenInv, NoWork
<1>2. queue = {} /\ (full => seen = BaseFacts \cup fresh)
  BY DEF KnowsInv
<1>3. seen = BaseFacts \cup InferredNow
  BY <1>1, <1>2 DEF Target
<1>4. Drawn(seen, seen, InForce(BaseFacts)) /\ Sound(seen, BaseFacts) /\ BaseFacts \subseteq seen
  <2>1. seen \ queue = seen
    BY <1>2
  <2> QED
    BY <2>1 DEF DerivesRight, RunAxioms, BaseFacts
<1> QED
  BY <1>3, <1>4 DEF Exact

LEMMA ExactStep ==
  ASSUME RunInv, FullInv, ExactInv, [InferenceNext]_inferenceVars
  PROVE  ExactInv'
<1>0. InferenceTypeOK /\ LogInv /\ KnowsInv /\ WrittenInv
  BY DEF RunInv
<1>1. ASSUME phase = "idle", exact' = exact, ~Write
      PROVE  ExactInv'
  <2>1. CASE exact >= 0
    <3>1. PICK n \in 0 .. landed : n = exact
      BY <1>0, <2>1 DEF InferenceTypeOK
    <3>2. Live("client", n)' = Live("client", n) /\ InferredNow' = InferredNow
      BY <1>0, <1>1, RunFrame, NowFrame
    <3>3. Live("client", exact)' = Live("client", exact)
      BY <1>1, <3>1, <3>2
    <3> QED
      BY <1>1, <3>2, <3>3 DEF ExactInv
  <2> QED
    BY <1>1, <2>1 DEF ExactInv
<1>2. CASE PutApplied
  <2>1. phase = "counted" /\ exact' = (IF full THEN basis ELSE -1) /\ UNCHANGED log
    BY <1>2 DEF PutApplied
  <2>2. CASE full
    <3>1. Exact(BaseFacts \cup InferredNow, BaseFacts)
      BY <1>0, <2>1, <2>2, RunEnds DEF FullInv
    <3>2. exact' = basis
      BY <2>1, <2>2
    <3>3. Live("client", exact)' = BaseFacts /\ InferredNow' = InferredNow
      BY <2>1, <3>2 DEF BaseFacts, InferredNow, Live
    <3> QED
      BY <3>1, <3>3 DEF ExactInv
  <2>3. CASE ~full
    BY <2>1, <2>3 DEF ExactInv
  <2> QED
    BY <2>2, <2>3
<1>3. CASE Crash
  <2>1. exact' = (IF phase = "idle" THEN exact ELSE -1)
    BY <1>3 DEF Crash
  <2>2. CASE phase = "idle"
    BY <1>1, <2>1, <2>2 DEF Write
  <2>3. CASE phase # "idle"
    BY <2>1, <2>3 DEF ExactInv
  <2> QED
    BY <2>2, <2>3
<1>4. ASSUME phase' # "idle"
      PROVE  ExactInv'
  BY <1>4 DEF ExactInv
<1>5. CASE StartFull \/ StartOver \/ StartBatch
  BY <1>4, <1>5 DEF StartFull, StartOver, StartBatch, Recompute
<1>6. CASE Compare \/ Write \/ Count
  BY <1>4, <1>6 DEF Compare, Write, Count
<1>7. ASSUME NEW f \in Fact, Derive(f)
      PROVE  ExactInv'
  BY <1>4, <1>7 DEF Derive
<1>8. CASE SkipOwn
  BY <1>1, <1>8 DEF SkipOwn, Write
<1>9. ASSUME UNCHANGED <<phase, exact>>
      PROVE  ExactInv'
  BY <1>1, <1>4, <1>9 DEF Write
<1>10. ASSUME NEW f \in Writable, BeginCommit(f)
       PROVE  ExactInv'
  BY <1>9, <1>10 DEF BeginCommit, runVars
<1>11. CASE Land \/ UNCHANGED inferenceVars
  BY <1>9, <1>11 DEF Land, runVars, inferenceVars
<1> QED
  BY <1>2, <1>3, <1>5, <1>6, <1>7, <1>8, <1>10, <1>11 DEF InferenceNext, Run

FullRunInv == RunInv /\ FullInv /\ ExactInv

LEMMA FullRunInvInit == InferenceInit => FullRunInv
<1> SUFFICES ASSUME InferenceInit
             PROVE  FullRunInv
  OBVIOUS
<1>1. phase = "idle" /\ exact = -1
  BY DEF InferenceInit
<1>2. FullInv /\ ExactInv
  BY <1>1 DEF FullInv, ExactInv
<1> QED
  BY <1>2, RunInvInit DEF FullRunInv

LEMMA FullRunInvStep == FullRunInv /\ [InferenceNext]_inferenceVars => FullRunInv'
<1> SUFFICES ASSUME FullRunInv, [InferenceNext]_inferenceVars
             PROVE  FullRunInv'
  OBVIOUS
<1>1. RunInv /\ FullInv /\ ExactInv /\ InferenceTypeOK /\ LogInv
  BY DEF FullRunInv, RunInv
<1> QED
  BY <1>1, RunInvStep, FullStep, ExactStep DEF FullRunInv

\* A full run leaves each graph with what follows from it alone, and all graphs
\* together with what follows from all, whatever earlier runs and restarts left
\* behind and whichever order it draws facts in (owl_rl.rs:967-1035).
THEOREM RecomputesAreExact == InferenceSpec => []RecomputeIsExact
<1>1. InferenceSpec => []FullRunInv
  BY FullRunInvInit, FullRunInvStep, PTL DEF InferenceSpec
<1>2. ASSUME FullRunInv, phase = "idle", exact >= 0
      PROVE  ClosesBase(Live("client", exact) \cup InferredNow, Live("client", exact))
  <2>1. InferenceTypeOK /\ LogInv /\ Exact(Live("client", exact) \cup InferredNow, Live("client", exact))
    BY <1>2 DEF FullRunInv, RunInv, ExactInv
  <2>2. exact \in Nat /\ exact <= Len(log)
    BY <1>2, <2>1, LogFacts DEF InferenceTypeOK
  <2>3. Live("client", exact) \in SUBSET Base
    BY <2>1, <2>2, LiveInBase
  <2>4. Live("client", exact) \cup InferredNow \in SUBSET Fact
    BY LiveTypes DEF InferredNow
  <2> QED
    BY <2>1, <2>3, <2>4, ExactCloses
<1>3. FullRunInv => RecomputeIsExact
  BY <1>2 DEF RecomputeIsExact, InferredNow
<1> QED
  BY <1>1, <1>3, PTL

-----------------------------------------------------------------------------
(* Following the change log, while facts are only asserted *)

\* What the commits of a window that clients did not make do to clients' facts.
LEMMA QuietOutside ==
  ASSUME InferenceTypeOK, NEW i \in 1 .. landed, applied < i, i \notin Changes
  PROVE  On("client", i) = {} /\ Off("client", i) = {}
<1>1. i \in 1 .. Len(log) /\ i <= landed
  BY LogFacts
<1>2. i \notin Window \/ log[i].by # "client"
  BY DEF Changes
<1>3. i \notin Window => log[i].on \cup log[i].off = {}
  BY <1>1, LogFacts DEF Window
<1> QED
  BY <1>2, <1>3 DEF On, Off

LEMMA QuietLive ==
  ASSUME NEW n \in Nat, NEW m \in Nat, n <= m,
         \A i \in n + 1 .. m : On("client", i) = {} /\ Off("client", i) = {}
  PROVE  Live("client", m) = Live("client", n)
<1>1. Live("client", m) = Live("client", n) \cup UNION {On("client", i) : i \in n + 1 .. m}
  BY LiveGrows
<1> QED
  BY <1>1

\* Past its last record a window changes nothing.
LEMMA QuietTail ==
  ASSUME InferenceTypeOK, Window # {}
  PROVE  To \in 0 .. landed /\ Live("client", landed) = Live("client", To)
<1>1. To \in Nat /\ applied < To /\ To <= landed /\ (\A i \in Window : i <= To) /\ landed \in Nat
  BY ToFacts DEF InferenceTypeOK
<1>2. ASSUME NEW i \in To + 1 .. landed
      PROVE  On("client", i) = {} /\ Off("client", i) = {}
  <2>1. i \in 1 .. landed /\ applied < i /\ i \notin Changes
    BY <1>1 DEF Changes, InferenceTypeOK
  <2> QED
    BY <2>1, QuietOutside
<1> QED
  BY <1>1, <1>2, QuietLive

LEMMA GrowStep ==
  ASSUME InferenceTypeOK, GrowInv, [InferenceNext]_inferenceVars
  PROVE  GrowInv'
<1>0. /\ DOMAIN log = 1 .. Len(log) /\ Len(log) \in Nat /\ applied \in Int
      /\ landed \in Nat /\ landed <= Len(log)
  BY LogFacts DEF InferenceTypeOK
<1>1. ASSUME NEW e \in Commit, log' = Append(log, e), Mark' = Mark, ~spoiled' => ~spoiled,
             ~spoiled' /\ e.by = "client" => e.off = {}
      PROVE  GrowInv'
  <2>1. /\ DOMAIN log' = 1 .. Len(log) + 1 /\ log'[Len(log) + 1] = e
        /\ \A i \in 1 .. Len(log) : log'[i] = log[i]
    BY <1>1, LogStepType
  <2>2. \A i \in 1 .. Len(log) : Off("client", i)' = Off("client", i)
    BY <2>1 DEF Off
  <2>3. ASSUME ~spoiled', NEW i \in DOMAIN log', i > Mark'
        PROVE  Off("client", i)' = {}
    <3>1. CASE i \in 1 .. Len(log)
      BY <1>0, <1>1, <2>2, <2>3, <3>1 DEF GrowInv
    <3>2. CASE i = Len(log) + 1
      BY <1>1, <2>1, <2>3, <3>2 DEF Off
    <3> QED
      BY <1>0, <2>1, <3>1, <3>2
  <2> QED
    BY <2>3 DEF GrowInv
<1>2. ASSUME NEW f \in Writable, BeginCommit(f)
      PROVE  GrowInv'
  <2>1. PICK e \in Commit : /\ log' = Append(log, e) /\ UNCHANGED <<phase, applied, upto>>
                            /\ ~spoiled' => ~spoiled /\ e.off = {}
    BY <1>2, BeginFacts
  <2> QED
    BY <1>1, <2>1 DEF Mark
<1>3. CASE Write
  <2>1. PICK e \in Commit : e.by = "inference" /\ log' = Append(log, e)
    BY <1>3, WriteFacts
  <2>2. UNCHANGED <<phase, applied, upto, spoiled>>
    BY <1>3 DEF Write
  <2> QED
    BY <1>1, <2>1, <2>2 DEF Mark
<1>4. ASSUME UNCHANGED <<log, spoiled>>, Mark <= Mark', Mark' \in Int
      PROVE  GrowInv'
  <2>1. Mark \in Int
    BY DEF Mark, InferenceTypeOK
  <2>2. \A i : Off("client", i)' = Off("client", i)
    BY <1>4 DEF Off
  <2> QED
    BY <1>0, <1>4, <2>1, <2>2 DEF GrowInv
<1>5. CASE SkipOwn \/ StartBatch
  <2>1. /\ UNCHANGED <<log, spoiled>> /\ phase = "idle" /\ Window # {} /\ Mark' = To
    BY <1>5 DEF SkipOwn, StartBatch, Changes, runVars, Mark
  <2>2. To \in Nat /\ applied < To
    BY <2>1, ToFacts
  <2> QED
    BY <1>0, <1>4, <2>1, <2>2 DEF Mark
<1>6. ASSUME UNCHANGED <<log, spoiled>>, Mark' = Mark
      PROVE  GrowInv'
  BY <1>4, <1>6 DEF Mark, InferenceTypeOK
<1>7. CASE Land \/ Compare \/ Count \/ UNCHANGED inferenceVars
  BY <1>6, <1>7 DEF Land, Compare, Count, runVars, inferenceVars, Mark
<1>8. ASSUME NEW f \in Fact, Derive(f)
      PROVE  GrowInv'
  BY <1>6, <1>8 DEF Derive, Mark
<1>9. CASE PutApplied
  BY <1>6, <1>9 DEF PutApplied, Mark
<1>10. ASSUME NEW at \in Nat, Recompute(at), UNCHANGED log,
              \A i \in DOMAIN log : i > at /\ i <= landed => Off("client", i) = {}
       PROVE  GrowInv'
  <2>1. /\ Mark' = at
        /\ spoiled' = (\E i \in landed + 1 .. Len(log) : log[i].off # {})
    BY <1>10 DEF Recompute, Mark
  <2>2. ASSUME ~spoiled', NEW i \in DOMAIN log, i > at
        PROVE  Off("client", i) = {}
    <3>1. i > landed => log[i].off = {}
      BY <1>0, <2>1, <2>2
    <3> QED
      BY <1>0, <1>10, <2>2, <3>1 DEF Off
  <2>3. \A i : Off("client", i)' = Off("client", i)
    BY <1>10 DEF Off
  <2> QED
    BY <1>10, <2>1, <2>2, <2>3 DEF GrowInv
<1>11. ASSUME NEW at, at = Len(log), Recompute(at), UNCHANGED log
       PROVE  GrowInv'
  BY <1>0, <1>10, <1>11
<1>12. CASE StartFull
  BY <1>11, <1>12 DEF StartFull
<1>13. CASE StartOver
  <2>1. CASE applied < 0
    BY <1>11, <1>13, <2>1 DEF StartOver
  <2>2. CASE ~(applied < 0)
    <3>1. Recompute(To) /\ UNCHANGED log /\ Window # {}
      BY <1>13, <2>2 DEF StartOver, Changes
    <3>2. To \in Nat /\ applied < To /\ \A i \in Window : i <= To
      BY <3>1, ToFacts
    <3>3. ASSUME NEW i \in DOMAIN log, i > To, i <= landed
          PROVE  Off("client", i) = {}
      <4>1. i \in 1 .. landed /\ applied < i /\ i \notin Changes
        BY <1>0, <3>2, <3>3 DEF Changes
      <4> QED
        BY <4>1, QuietOutside
    <3> QED
      BY <1>10, <3>1, <3>2, <3>3
  <2> QED
    BY <2>1, <2>2
<1>14. CASE Crash
  <2>1. /\ spoiled' = (spoiled \/ phase # "idle") /\ phase' = "idle" /\ applied' = applied
    BY <1>14 DEF Crash
  <2>2. /\ DOMAIN log' = DOMAIN log
        /\ \A i \in 1 .. Len(log) :
              log'[i] = log[i] \/ log'[i] = [by |-> "client", on |-> {}, off |-> {}]
    BY <1>14, CrashFacts
  <2>3. \A i \in DOMAIN log : Off("client", i)' = Off("client", i) \/ Off("client", i)' = {}
    BY <1>0, <2>2 DEF Off
  <2>4. ~spoiled' => ~spoiled /\ Mark' = Mark
    BY <2>1 DEF Mark
  <2> QED
    BY <1>0, <2>2, <2>3, <2>4 DEF GrowInv
<1> QED
  BY <1>2, <1>3, <1>5, <1>7, <1>8, <1>9, <1>12, <1>13, <1>14 DEF InferenceNext, Run

\* Statements added to a base that is complete, and not drawn from yet, leave
\* everything drawn from the rest.
LEMMA GrowingExact ==
  ASSUME NEW old, NEW base \in SUBSET Base, NEW known, old \subseteq base,
         InForce(base) = InForce(old), Exact(old \cup known, old),
         NEW added, base = old \cup added
  PROVE  /\ Sound(base \cup known, base)
         /\ Drawn((base \cup known) \ added, base \cup known, InForce(base))
<1>1. /\ Sound(old \cup known, old)
      /\ Drawn(old \cup known, old \cup known, InForce(base))
  BY DEF Exact
<1>2. Sound(old \cup known, base)
  BY <1>1, SoundGrows
<1>3. Sound(base \cup (old \cup known), base)
  BY <1>2, BaseIsSound, SoundUnion
<1>4. base \cup (old \cup known) = base \cup known
  OBVIOUS
<1>5. (base \cup known) \ added \subseteq old \cup known /\ old \cup known \subseteq base \cup known
  OBVIOUS
<1> QED
  BY <1>1, <1>3, <1>4, <1>5, DrawnGrows

\* An incremental run over assertions only starts with what it read to draw from.
LEMMA StartRight ==
  ASSUME RunInv, GrowInv, InsertInv, StartBatch, ~spoiled, ~skipped
  PROVE  gone' = {} /\ seen' = BaseFacts' \cup Inferred' /\ DerivesRight'
<1>0. InferenceTypeOK /\ LogInv
  BY DEF RunInv
<1>1. /\ phase = "idle" /\ applied >= 0 /\ ~SchemaChanged /\ applied \in Nat /\ landed \in Nat
      /\ DOMAIN log = 1 .. Len(log) /\ Len(log) \in Nat /\ landed <= Len(log)
  BY <1>0, LogFacts DEF StartBatch, InferenceTypeOK
<1>2. /\ applied <= landed
      /\ Exact(Live("client", applied) \cup InferredNow, Live("client", applied))
  BY <1>1 DEF InsertInv, IdleExact
<1>3. ASSUME NEW i \in 1 .. landed, applied < i
      PROVE  Off("client", i) = {}
  BY <1>1, <1>3 DEF GrowInv, Mark
<1>4. \A i \in Changes : i \in 1 .. landed /\ applied < i /\ log[i].by = "client"
  BY <1>0, <1>1 DEF Changes, Window
<1>5. Fold("off") = {}
  BY <1>3, <1>4 DEF Fold, Off
<1>6. gone' = {} /\ queue' = Fold("on")
  BY <1>0, <1>5, BatchTypes
<1>7. Fold("on") = UNION {On("client", i) : i \in applied + 1 .. landed}
  <2>1. \A i \in Changes : i \in applied + 1 .. landed /\ On("client", i) = log[i].on
    BY <1>1, <1>4 DEF On
  <2>2. ASSUME NEW i \in applied + 1 .. landed, i \notin Changes
        PROVE  On("client", i) = {}
    BY <1>0, <1>1, <2>2, QuietOutside
  <2> QED
    BY <2>1, <2>2 DEF Fold
<1>8. Live("client", landed) = Live("client", applied) \cup Fold("on")
  <2>1. \A i \in applied + 1 .. landed : Off("client", i) = {} /\ On("client", i) \subseteq Fact
    BY <1>0, <1>1, <1>3, LogFacts
  <2> QED
    BY <1>1, <1>2, <1>7, <2>1, LiveGrows
<1>9. InForce(Live("client", landed)) = InForce(Live("client", applied))
  <2>1. \A f \in Fold("on") : f.st \notin Axiom
    BY <1>1 DEF SchemaChanged
  <2> QED
    BY <1>8, <2>1 DEF InForce
<1>10. Live("client", landed) \in SUBSET Base
  BY <1>0, <1>1, LiveInBase
<1>11. /\ Sound(Live("client", landed) \cup InferredNow, Live("client", landed))
       /\ Drawn((Live("client", landed) \cup InferredNow) \ Fold("on"),
                Live("client", landed) \cup InferredNow, InForce(Live("client", landed)))
  BY <1>2, <1>8, <1>9, <1>10, GrowingExact
<1>12. /\ BaseFacts' = Live("client", landed) /\ Inferred' = InferredNow
       /\ basis' = landed /\ UNCHANGED log
       /\ seen' = Live("client", landed) \cup InferredNow
  BY <1>0, <1>6, StartFacts
<1>13. RunAxioms' = InForce(Live("client", landed))
  BY <1>12 DEF RunAxioms, BaseFacts, InForce
<1>14. DerivesRight'
  BY <1>6, <1>8, <1>11, <1>12, <1>13 DEF DerivesRight
<1> QED
  BY <1>6, <1>12, <1>14

LEMMA InsertFrame ==
  ASSUME RunInv, InsertInv, [InferenceNext]_inferenceVars,
         ~spoiled' /\ ~skipped' => ~spoiled /\ ~skipped,
         landed <= landed', landed' \in Nat,
         phase' = phase \/ (phase # "idle" /\ phase' # "idle"),
         UNCHANGED <<applied, upto, basis, full, seen, gone, queue, fresh>>,
         phase = "idle" => ~Write
  PROVE  InsertInv'
<1>0. InferenceTypeOK /\ LogInv /\ InferenceTypeOK'
  BY InferenceTypeStep DEF RunInv
<1>1. /\ landed \in Nat /\ applied \in Int /\ upto \in Nat /\ basis \in 0 .. landed
  BY <1>0, LogFacts DEF InferenceTypeOK
<1>2. ASSUME phase = "idle", applied >= 0, IdleExact
      PROVE  IdleExact'
  <2>1. PICK n \in 0 .. landed : n = applied
    BY <1>1, <1>2 DEF IdleExact
  <2>2. Live("client", n)' = Live("client", n) /\ InferredNow' = InferredNow
    BY <1>0, <1>2, RunFrame, NowFrame
  <2>3. Live("client", applied)' = Live("client", applied)
    BY <2>1, <2>2
  <2>4. applied' <= landed'
    BY <1>1, <1>2 DEF IdleExact
  <2> QED
    BY <1>2, <2>2, <2>3, <2>4 DEF IdleExact
<1>3. ASSUME phase # "idle", RunExact
      PROVE  RunExact'
  <2>1. PICK n \in 0 .. landed : n = upto
    BY <1>1, <1>3 DEF RunExact
  <2>2. Live("client", n)' = Live("client", n)
    BY <1>0, RunFrame
  <2>3. Live("client", upto)' = Live("client", upto)
    BY <2>1, <2>2
  <2>4. BaseFacts' = BaseFacts /\ Inferred' = Inferred
    BY <1>0, RunFrame
  <2>5. DerivesRight => DerivesRight'
    BY <1>0, DerivesFrame
  <2> QED
    BY <1>3, <2>3, <2>4, <2>5 DEF RunExact
<1> QED
  BY <1>2, <1>3 DEF InsertInv

LEMMA InsertStep ==
  ASSUME RunInv, FullInv, GrowInv, InsertInv, [InferenceNext]_inferenceVars
  PROVE  InsertInv'
<1>0. InferenceTypeOK /\ LogInv /\ KnowsInv /\ WrittenInv
  BY DEF RunInv
<1>1. /\ landed \in Nat /\ Len(log) \in Nat /\ landed <= Len(log) /\ applied \in Int
  BY <1>0, LogFacts DEF InferenceTypeOK
<1>2. ASSUME NEW f \in Writable, BeginCommit(f)
      PROVE  InsertInv'
  <2>1. /\ UNCHANGED <<landed, phase, applied, upto, basis, full, seen, gone, queue, fresh, skipped>>
        /\ ~spoiled' => ~spoiled
    BY <1>0, <1>2, BeginFacts
  <2>2. phase = "idle" => ~Write
    BY DEF Write
  <2> QED
    BY <1>1, <2>1, <2>2, InsertFrame
<1>3. CASE Land
  BY <1>1, <1>3, InsertFrame DEF Land, Write, runVars
<1>4. CASE Write
  <2>1. landed <= landed' /\ landed' \in Nat
    <3>1. PICK e \in Commit : log' = Append(log, e) /\ landed = Len(log) /\ landed' = Len(log')
      BY <1>0, <1>4, WriteFacts
    <3> QED
      BY <1>0, <1>1, <3>1, LogStepType
  <2> QED
    BY <1>4, <2>1, InsertFrame DEF Write
<1>5. CASE Compare
  BY <1>1, <1>5, InsertFrame DEF Compare, Write
<1>6. CASE Count
  BY <1>1, <1>6, InsertFrame DEF Count, Write
<1>7. CASE UNCHANGED inferenceVars
  BY <1>1, <1>7, InsertFrame DEF inferenceVars, runVars, Write
<1>8. ASSUME NEW at \in Nat, Recompute(at), UNCHANGED log, landed' = landed,
             at <= landed => Live("client", at) = Live("client", landed)
      PROVE  InsertInv'
  <2>1. /\ full' = TRUE /\ upto' = at /\ basis' = landed /\ phase' = "deriving"
        /\ BaseFacts' = Live("client", landed) /\ skipped' = (landed < at)
    BY <1>0, <1>8, RecomputeFacts
  <2>2. Live("client", upto)' = Live("client", at)
    BY <1>8, <2>1, SameLogLive
  <2>3. ~skipped' => at <= landed
    <3>1. ~skipped' => ~(landed < at)
      BY <2>1
    <3> QED
      BY <1>1, <3>1
  <2>4. ~skipped' => upto' <= basis' /\ Live("client", upto)' = BaseFacts'
    BY <1>8, <2>1, <2>2, <2>3
  <2> QED
    BY <2>1, <2>4 DEF InsertInv, RunExact
<1>9. ASSUME NEW at, at = Len(log), Recompute(at), UNCHANGED log, landed' = landed
      PROVE  InsertInv'
  <2>1. at <= landed => at = landed
    BY <1>1, <1>9
  <2> QED
    BY <1>1, <1>8, <1>9, <2>1
<1>10. CASE StartFull
  BY <1>9, <1>10 DEF StartFull
<1>11. CASE StartOver
  <2>1. CASE applied < 0
    BY <1>9, <1>11, <2>1 DEF StartOver
  <2>2. CASE ~(applied < 0)
    <3>1. Recompute(To) /\ UNCHANGED <<log, landed>> /\ Window # {}
      BY <1>11, <2>2 DEF StartOver, Changes
    <3>2. To \in Nat /\ Live("client", To) = Live("client", landed)
      BY <1>0, <1>1, <3>1, QuietTail
    <3> QED
      BY <1>8, <3>1, <3>2
  <2> QED
    BY <2>1, <2>2
<1>12. CASE SkipOwn
  <2>1. /\ phase = "idle" /\ applied >= 0 /\ Changes = {} /\ Window # {} /\ applied' = To
        /\ UNCHANGED <<log, landed, spoiled, skipped, phase>>
    BY <1>12 DEF SkipOwn, runVars
  <2>2. /\ applied < To /\ To <= landed /\ To \in Nat /\ applied \in Nat
    BY <1>0, <1>1, <2>1, ToFacts
  <2>3. Live("client", To) = Live("client", applied)
    <3>1. \A i \in applied + 1 .. To : On("client", i) = {} /\ Off("client", i) = {}
      <4>1. \A i \in applied + 1 .. To : i \in 1 .. landed /\ applied < i /\ i \notin Changes
        BY <1>1, <2>1, <2>2
      <4> QED
        BY <1>0, <4>1, QuietOutside
    <3> QED
      BY <2>2, <3>1, QuietLive
  <2>4. InferredNow' = InferredNow
    BY <2>1, SameLogLive DEF InferredNow
  <2>5. Live("client", applied)' = Live("client", To)
    <3>1. PICK n \in Nat : n = To
      BY <2>2
    <3>2. Live("client", n)' = Live("client", n)
      BY <2>1, SameLogLive
    <3> QED
      BY <2>1, <3>1, <3>2
  <2>6. IdleExact => IdleExact'
    BY <2>1, <2>2, <2>3, <2>4, <2>5 DEF IdleExact
  <2> QED
    BY <2>1, <2>6 DEF InsertInv, IdleExact
<1>13. CASE StartBatch
  <2>1. /\ full' = FALSE /\ upto' = To /\ basis' = landed /\ phase' = "deriving" /\ fresh' = {}
        /\ BaseFacts' = Live("client", landed) /\ UNCHANGED log
    BY <1>0, <1>13, StartFacts
  <2>2. Window # {} /\ UNCHANGED <<spoiled, skipped>>
    BY <1>13 DEF StartBatch, Changes
  <2>3. To <= landed /\ To \in Nat /\ Live("client", landed) = Live("client", To)
    BY <1>0, <2>2, ToFacts, QuietTail
  <2>4. Live("client", upto)' = Live("client", To)
    <3>1. PICK n \in Nat : n = To
      BY <2>3
    <3>2. Live("client", n)' = Live("client", n)
      BY <2>1, SameLogLive
    <3> QED
      BY <2>1, <3>1, <3>2
  <2>5. ~spoiled /\ ~skipped =>
           gone' = {} /\ seen' = BaseFacts' \cup Inferred' /\ DerivesRight'
    BY <1>13, StartRight
  <2>6. ~spoiled /\ ~skipped => RunExact'
    BY <2>1, <2>3, <2>4, <2>5 DEF RunExact
  <2> QED
    BY <2>1, <2>2, <2>6 DEF InsertInv, RunExact
<1>14. ASSUME NEW f \in Fact, Derive(f)
       PROVE  InsertInv'
  <2>1. PICK kept \in SUBSET Fact :
           /\ phase = "deriving" /\ seen' = seen \cup kept
           /\ fresh' = fresh \cup (kept \ gone) /\ gone' = gone \ kept
    BY <1>0, <1>14, DeriveFacts
  <2>2. UNCHANGED <<log, phase, full, upto, basis, spoiled, skipped>>
    BY <1>14 DEF Derive
  <2>3. BaseFacts' = BaseFacts /\ Inferred' = Inferred
    BY <1>0, <2>2, RunFrame
  <2>4. Live("client", upto)' = Live("client", upto)
    BY <2>2 DEF Live
  <2>5. DerivesRight => DerivesRight'
    BY <1>0, <1>14, DeriveStep
  <2>6. RunExact => RunExact'
    <3>1. CASE full
      BY <2>2, <2>3, <2>4, <3>1 DEF RunExact
    <3>2. CASE ~full
      BY <2>1, <2>2, <2>3, <2>4, <2>5, <3>2 DEF RunExact
    <3> QED
      BY <3>1, <3>2
  <2> QED
    BY <2>1, <2>2, <2>6 DEF InsertInv, RunExact
<1>15. CASE PutApplied
  <2>1. /\ phase = "counted" /\ phase' = "idle" /\ applied' = upto
        /\ UNCHANGED <<log, landed, spoiled, skipped>>
    BY <1>15 DEF PutApplied
  <2>2. ASSUME RunExact
        PROVE  IdleExact'
    <3>1. DerivesRight /\ (full \/ (gone = {} /\ seen = BaseFacts \cup Inferred \cup fresh))
      BY <2>1, <2>2 DEF FullInv, RunExact
    <3>2. Exact(BaseFacts \cup InferredNow, BaseFacts)
      BY <1>0, <2>1, <3>1, RunEnds
    <3>3. Live("client", applied)' = Live("client", upto)
      BY <2>1 DEF Live
    <3>4. InferredNow' = InferredNow
      BY <2>1 DEF InferredNow, Live
    <3>5. upto <= landed
      BY <1>0, <1>1, <2>2 DEF RunExact, InferenceTypeOK
    <3> QED
      BY <2>1, <2>2, <3>2, <3>3, <3>4, <3>5 DEF RunExact, IdleExact
  <2> QED
    BY <2>1, <2>2 DEF InsertInv
<1>16. CASE Crash
  <2>1. /\ spoiled' = (spoiled \/ phase # "idle") /\ phase' = "idle"
        /\ UNCHANGED <<applied, skipped>> /\ landed' = Len(log)
    BY <1>16 DEF Crash
  <2>2. ASSUME applied >= 0, IdleExact
        PROVE  IdleExact'
    <3>1. PICK n \in 0 .. landed : n = applied
      BY <1>1, <2>2 DEF IdleExact
    <3>2. Live("client", n)' = Live("client", n) /\ InferredNow' = InferredNow
      BY <1>0, <1>16, CrashLive
    <3>3. Live("client", applied)' = Live("client", applied)
      BY <2>1, <3>1, <3>2
    <3>4. applied' <= landed'
      BY <1>1, <2>1, <2>2 DEF IdleExact
    <3> QED
      BY <2>1, <2>2, <3>2, <3>3, <3>4 DEF IdleExact
  <2>3. ~spoiled' => ~spoiled /\ phase = "idle"
    BY <2>1
  <2> QED
    BY <2>1, <2>2, <2>3 DEF InsertInv, IdleExact
<1> QED
  BY <1>2, <1>3, <1>4, <1>5, <1>6, <1>7, <1>10, <1>11, <1>12, <1>13, <1>14, <1>15, <1>16
     DEF InferenceNext, Run

FollowInv == RunInv /\ FullInv /\ GrowInv /\ InsertInv

LEMMA FollowInvInit == InferenceInit => FollowInv
<1> SUFFICES ASSUME InferenceInit
             PROVE  FollowInv
  OBVIOUS
<1>1. /\ phase = "idle" /\ applied = -1
      /\ log = <<[by |-> "client", on |-> Given, off |-> {}]>>
  BY DEF InferenceInit
<1>2. FullInv /\ InsertInv
  BY <1>1 DEF FullInv, InsertInv
<1>3. GrowInv
  BY <1>1 DEF GrowInv, Off
<1> QED
  BY <1>2, <1>3, RunInvInit DEF FollowInv

LEMMA FollowInvStep == FollowInv /\ [InferenceNext]_inferenceVars => FollowInv'
<1> SUFFICES ASSUME FollowInv, [InferenceNext]_inferenceVars
             PROVE  FollowInv'
  OBVIOUS
<1>1. RunInv /\ FullInv /\ GrowInv /\ InsertInv /\ InferenceTypeOK /\ LogInv
  BY DEF FollowInv, RunInv
<1> QED
  BY <1>1, RunInvStep, FullStep, GrowStep, InsertStep DEF FollowInv

\* While clients close nothing and no run is cut short or skips a commit in
\* flight, following the change log leaves the same facts as recomputing
\* would, however many commits a window holds (owl_rl.rs:1037-1150).
THEOREM InsertsStayExact == InferenceSpec => []InsertsAreExact
<1>1. InferenceSpec => []FollowInv
  BY FollowInvInit, FollowInvStep, PTL DEF InferenceSpec
<1>2. ASSUME FollowInv, phase = "idle", ~spoiled, ~skipped, applied >= 0, Window = {}
      PROVE  ClosesBase(Stored(landed), Live("client", landed))
  <2>1. InferenceTypeOK /\ LogInv /\ InsertInv
    BY <1>2 DEF FollowInv, RunInv
  <2>2. /\ applied <= landed
        /\ Exact(Live("client", applied) \cup InferredNow, Live("client", applied))
    BY <1>2, <2>1 DEF InsertInv, IdleExact
  <2>3. applied \in Nat /\ landed \in Nat /\ landed <= Len(log)
    BY <1>2, <2>1, LogFacts DEF InferenceTypeOK
  <2>4. Live("client", landed) = Live("client", applied)
    <3>1. \A i \in applied + 1 .. landed : i \in 1 .. landed /\ applied < i /\ i \notin Changes
      BY <1>2, <2>3 DEF Changes
    <3>2. \A i \in applied + 1 .. landed : On("client", i) = {} /\ Off("client", i) = {}
      BY <2>1, <3>1, QuietOutside
    <3> QED
      BY <2>2, <2>3, <3>2, QuietLive
  <2>5. Stored(landed) = Live("client", applied) \cup InferredNow
    BY <2>1, <2>4, LandedInferred DEF Stored
  <2>6. Live("client", landed) \in SUBSET Base
    BY <2>1, <2>3, LiveInBase
  <2>7. Stored(landed) \in SUBSET Fact
    BY LiveTypes DEF Stored
  <2> QED
    BY <2>2, <2>4, <2>5, <2>6, <2>7, ExactCloses
<1>3. FollowInv => InsertsAreExact
  BY <1>2 DEF InsertsAreExact
<1> QED
  BY <1>1, <1>3, PTL
=============================================================================
