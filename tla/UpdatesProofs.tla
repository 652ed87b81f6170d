--------------------------- MODULE UpdatesProofs ---------------------------
(***************************************************************************)
(* Proofs about Updates and the evaluator in it.                            *)
(***************************************************************************)
EXTENDS Updates, TLAPS, SequenceTheorems, NaturalsInduction, WellFoundedInduction, FiniteSetTheorems

-----------------------------------------------------------------------------
(* Solutions and how a slot binds them *)

Term == Node \cup Literal \cup Pred \cup {Default}

Solution == UNION {[vs -> Term] : vs \in SUBSET Var}

\* b is sol with values for the variables among terms.
Widens(b, sol, terms) ==
  /\ b \in Solution
  /\ DOMAIN b = DOMAIN sol \cup (terms \cap Var)
  /\ \A v \in DOMAIN sol : b[v] = sol[v]

\* A slot of a pattern has x.
Has(term, b, x) == term = Blank \/ Value(term, b) = x

\* Solutions are functions from some variables to terms.
LEMMA SolutionIs ==
  /\ \A b \in Solution : DOMAIN b \subseteq Var /\ b \in [DOMAIN b -> Term]
  /\ \A vs \in SUBSET Var : \A b \in [vs -> Term] : b \in Solution
<1>1. \A b \in Solution : DOMAIN b \subseteq Var /\ b \in [DOMAIN b -> Term]
  <2> SUFFICES ASSUME NEW b \in Solution PROVE DOMAIN b \subseteq Var /\ b \in [DOMAIN b -> Term]
    OBVIOUS
  <2>1. PICK vs \in SUBSET Var : b \in [vs -> Term]
    BY DEF Solution
  <2> QED
    BY <2>1
<1>2. \A vs \in SUBSET Var : \A b \in [vs -> Term] : b \in Solution
  BY DEF Solution
<1> QED
  BY <1>1, <1>2

\* Solutions are equal when they bind the same variables to the same terms.
LEMMA SameSolution ==
  ASSUME NEW a \in Solution, NEW b \in Solution, DOMAIN a = DOMAIN b,
         \A v \in DOMAIN a : a[v] = b[v]
  PROVE  a = b
  BY SolutionIs

\* Bind finds the one widening of a solution by a slot that gives the slot its value, if there is one.
LEMMA BindIs ==
  ASSUME NEW sol \in Solution, NEW term, NEW x \in Term, NEW b
  PROVE  b \in Bind(term, x, sol) <=> Widens(b, sol, {term}) /\ Has(term, b, x)
<1> Blank \notin Var
  BY TermsAreDistinct
<1>0. DOMAIN sol \subseteq Var /\ sol \in [DOMAIN sol -> Term]
  BY SolutionIs
<1>1. CASE term \in Var \ DOMAIN sol
  <2> DEFINE w == With(sol, term, x)
  <2>1. Bind(term, x, sol) = {w}
    BY <1>1 DEF Bind
  <2>2. w \in [DOMAIN sol \cup {term} -> Term] /\ w[term] = x /\ \A v \in DOMAIN sol : w[v] = sol[v]
    BY <1>0, <1>1 DEF With
  <2> HIDE DEF w
  <2>3. w \in Solution
    BY <1>0, <1>1, <2>2, SolutionIs
  <2>4. Widens(w, sol, {term}) /\ Has(term, w, x)
    BY <1>1, <2>2, <2>3 DEF Widens, Has, Value
  <2>5. ASSUME Widens(b, sol, {term}), Has(term, b, x)
        PROVE  b = w
    <3>1. b \in Solution /\ DOMAIN b = DOMAIN w /\ \A v \in DOMAIN w : b[v] = w[v]
      BY <1>1, <2>2, <2>5 DEF Widens, Has, Value
    <3> QED
      BY <3>1, <2>3, SameSolution
  <2> QED
    BY <2>1, <2>4, <2>5
<1>2. CASE term \notin Var \ DOMAIN sol
  <2>1. DOMAIN sol \cup ({term} \cap Var) = DOMAIN sol
    BY <1>0, <1>2
  <2>2. Widens(b, sol, {term}) <=> b = sol
    <3>1. Widens(sol, sol, {term})
      BY <2>1 DEF Widens
    <3>2. Widens(b, sol, {term}) => b = sol
      BY <2>1, SameSolution DEF Widens
    <3> QED
      BY <3>1, <3>2
  <2>3. Bind(term, x, sol) = IF Has(term, sol, x) THEN {sol} ELSE {}
    BY <1>2 DEF Bind, Has, Value
  <2> QED
    BY <2>2, <2>3
<1> QED
  BY <1>1, <1>2

\* A solution cut down to fewer variables.
LEMMA Narrowed ==
  ASSUME NEW b \in Solution, NEW vs, vs \subseteq DOMAIN b
  PROVE  LET a == [v \in vs |-> b[v]] IN
         /\ a \in Solution /\ DOMAIN a = vs /\ \A v \in vs : a[v] = b[v]
         /\ \A term : term \in Var /\ term \in vs => Value(term, a) = Value(term, b)
         /\ \A term : term \notin Var => Value(term, a) = Value(term, b)
<1> DEFINE a == [v \in vs |-> b[v]]
<1>1. DOMAIN b \subseteq Var /\ b \in [DOMAIN b -> Term]
  BY SolutionIs
<1>2. a \in [vs -> Term] /\ DOMAIN a = vs /\ \A v \in vs : a[v] = b[v]
  BY <1>1
<1> HIDE DEF a
<1>3. a \in Solution
  BY <1>1, <1>2, SolutionIs
<1>4. /\ \A term : term \in Var /\ term \in vs => Value(term, a) = Value(term, b)
      /\ \A term : term \notin Var => Value(term, a) = Value(term, b)
  BY <1>2 DEF Value
<1> QED
  BY <1>2, <1>3, <1>4 DEF a

\* M are the ways to widen sol by terms so that the slots in C have their values.
Binds(M, sol, terms, C) ==
  /\ \A c \in C : c[1] \in terms
  /\ \A a : a \in M <=> Widens(a, sol, terms) /\ \A c \in C : Has(c[1], a, c[2])

\* N has what binds one more slot.
BindsNext(N, M, term, x) == \A b : b \in N <=> \E a \in M : b \in Bind(term, x, a)

\* Binding one more slot of each solution found for the slots before.
LEMMA BindNext ==
  ASSUME NEW sol \in Solution, NEW terms, NEW C, NEW M, NEW N, NEW term, NEW x \in Term,
         Binds(M, sol, terms, C), BindsNext(N, M, term, x)
  PROVE  Binds(N, sol, terms \cup {term}, C \cup {<<term, x>>})
<1> DEFINE c0 == <<term, x>>
<1>5. c0[1] = term /\ c0[2] = x
  OBVIOUS
<1> HIDE DEF c0
<1>6. \A c \in C \cup {c0} : c[1] \in terms \cup {term}
  BY <1>5 DEF Binds
<1> SUFFICES ASSUME NEW b
             PROVE  b \in N <=> /\ Widens(b, sol, terms \cup {term})
                                /\ \A c \in C \cup {c0} : Has(c[1], b, c[2])
  BY <1>6 DEF Binds, c0
<1>0. /\ \A c \in C : c[1] \in terms
      /\ \A a : a \in M <=> Widens(a, sol, terms) /\ \A c \in C : Has(c[1], a, c[2])
      /\ b \in N <=> \E a \in M : b \in Bind(term, x, a)
  BY DEF Binds, BindsNext
<1>1. \A a \in M : a \in Solution /\ (b \in Bind(term, x, a) <=> Widens(b, a, {term}) /\ Has(term, b, x))
  <2> TAKE a \in M
  <2>1. a \in Solution
    BY <1>0 DEF Widens
  <2> QED
    BY <2>1, BindIs
<1>2. ASSUME NEW a \in M, Widens(b, a, {term})
      PROVE  Widens(b, sol, terms \cup {term}) /\ \A c \in C : Has(c[1], b, c[2])
  <2>1. Widens(a, sol, terms) /\ \A c \in C : Has(c[1], a, c[2])
    BY <1>0
  <2>2. Widens(b, sol, terms \cup {term})
    BY <1>2, <2>1 DEF Widens
  <2>3. ASSUME NEW c \in C PROVE Value(c[1], b) = Value(c[1], a)
    <3>1. c[1] \in Var => c[1] \in DOMAIN a
      BY <1>0, <2>1 DEF Widens
    <3> QED
      BY <1>2, <3>1 DEF Widens, Value
  <2> QED
    BY <2>1, <2>2, <2>3 DEF Has
<1>3. ASSUME Widens(b, sol, terms \cup {term}), \A c \in C : Has(c[1], b, c[2])
      PROVE  \E a \in M : Widens(b, a, {term})
  <2> DEFINE vs == DOMAIN sol \cup (terms \cap Var)
             a == [v \in vs |-> b[v]]
  <2>1. b \in Solution /\ vs \subseteq DOMAIN b /\ DOMAIN b = vs \cup ({term} \cap Var)
    BY <1>3 DEF Widens
  <2>2. /\ a \in Solution /\ DOMAIN a = vs /\ \A v \in vs : a[v] = b[v]
        /\ \A t : t \in Var /\ t \in vs => Value(t, a) = Value(t, b)
        /\ \A t : t \notin Var => Value(t, a) = Value(t, b)
    BY <2>1, Narrowed, Zenon
  <2> HIDE DEF a
  <2>3. Widens(a, sol, terms) /\ Widens(b, a, {term})
    BY <1>3, <2>1, <2>2 DEF Widens
  <2>4. \A c \in C : Has(c[1], a, c[2])
    BY <1>0, <1>3, <2>2 DEF Has
  <2> QED
    BY <1>0, <2>3, <2>4
<1>4. Has(term, b, x) /\ (\A c \in C : Has(c[1], b, c[2])) <=> \A c \in C \cup {c0} : Has(c[1], b, c[2])
  BY <1>5
<1> QED
  BY <1>0, <1>1, <1>2, <1>3, <1>4

\* Extend binds the three slots of a pattern to those of a quad.
LEMMA ExtendIs ==
  ASSUME NEW sol \in Solution, NEW q \in Quad, NEW pat, NEW values
  PROVE  IF pat.o \in Var /\ q.o \in Literal /\ ~values THEN Extend(q, pat, sol, values) = {}
         ELSE Binds(Extend(q, pat, sol, values), sol, {pat.s, pat.o, pat.p},
                    {<<pat.s, q.s>>, <<pat.o, q.o>>, <<pat.p, q.p>>})
<1> DEFINE A == Bind(pat.s, q.s, sol)
           B == UNION {Bind(pat.o, q.o, a) : a \in A}
           C == UNION {UNION {Bind(pat.p, q.p, b) : b \in Bind(pat.o, q.o, a)} : a \in A}
<1>0. q.s \in Term /\ q.p \in Term /\ q.o \in Term
  BY DEF Quad, Term
<1>1. Binds(A, sol, {pat.s}, {<<pat.s, q.s>>})
  BY <1>0, BindIs DEF Binds
<1>2. BindsNext(B, A, pat.o, q.o) /\ BindsNext(C, B, pat.p, q.p)
  BY DEF BindsNext
<1>3. Extend(q, pat, sol, values) = IF pat.o \in Var /\ q.o \in Literal /\ ~values THEN {} ELSE C
  BY DEF Extend
<1> HIDE DEF A, B, C
<1>4. Binds(B, sol, {pat.s} \cup {pat.o}, {<<pat.s, q.s>>} \cup {<<pat.o, q.o>>})
  BY <1>0, <1>1, <1>2, BindNext
<1>5. Binds(C, sol, {pat.s} \cup {pat.o} \cup {pat.p}, {<<pat.s, q.s>>} \cup {<<pat.o, q.o>>} \cup {<<pat.p, q.p>>})
  BY <1>0, <1>2, <1>4, BindNext
<1>6. /\ {pat.s} \cup {pat.o} \cup {pat.p} = {pat.s, pat.o, pat.p}
      /\ {<<pat.s, q.s>>} \cup {<<pat.o, q.o>>} \cup {<<pat.p, q.p>>} = {<<pat.s, q.s>>, <<pat.o, q.o>>, <<pat.p, q.p>>}
  OBVIOUS
<1> QED
  BY <1>3, <1>5, <1>6

-----------------------------------------------------------------------------
(* One pattern *)

PathEdges(quads) == [p \in Pred |-> Edges(p, quads)]

\* A pattern holds, in a named graph if a variable stands for the graph.
Meets(pat, a, quads, base) ==
  /\ Satisfies(pat, a, quads, base, base, PathEdges(quads))
  /\ pat.hops = Unlimited /\ pat.g \in Var => a[pat.g] # Default

\* Without values an object variable is no literal.
Showable(pat, a, values) == values \/ (pat.o \in Var => a[pat.o] \notin Literal)

\* Pending writes that are no values of properties with other values.
Plain(pending, quads) ==
  {t \in Elements(pending) : ~\E q \in quads \cup Elements(pending) : OtherValue(q, t)}

\* The stored quads a pattern is looked up in are some, and all in a graph.
LEMMA SeenIs ==
  ASSUME NEW pat, NEW sol, NEW quads, NEW types
  PROVE  /\ Seen(pat, sol, quads, types) \subseteq quads
         /\ pat.g # Union => Seen(pat, sol, quads, types) = quads
  BY DEF Seen

\* Pending writes are quads.
LEMMA PendingAre ==
  ASSUME NEW pending \in Seq(Quad)
  PROVE  Elements(pending) \subseteq Quad
  BY ElementOfSeq, LenProperties DEF Elements

\* A term that is bound, or is no variable, matches exactly its value.
LEMMA HasIs ==
  ASSUME NEW a \in Solution, NEW t, t \in Var => t \in DOMAIN a, NEW x
  PROVE  Value(t, a) \in {Blank, x} <=> Has(t, a, x)
<1>1. Blank \notin Term
  BY TermsAreDistinct DEF Term
<1>2. t \in Var => a[t] \in Term
  BY SolutionIs
<1> QED
  BY <1>1, <1>2, TermsAreDistinct DEF Value, Has

\* Widening depends on the variables of the slots only.
LEMMA WidensSame ==
  ASSUME NEW b, NEW sol, NEW S, NEW T, S \cap Var = T \cap Var
  PROVE  Widens(b, sol, S) <=> Widens(b, sol, T)
  BY DEF Widens

\* The slots of a pattern without hops.
LEMMA SlotsOf ==
  ASSUME NEW pat \in Pattern, pat.hops = Unlimited
  PROVE  /\ Slots(pat) = {pat.s, pat.o, pat.p} \cup {pat.g}
         /\ pat.g = Union => Slots(pat) \cap Var = {pat.s, pat.o, pat.p} \cap Var
<1>1. Slots(pat) = {pat.s, pat.o, pat.p} \cup {pat.g}
  BY DEF Slots
<1>2. Union \notin Var
  BY TermsAreDistinct
<1> QED
  BY <1>1, <1>2

\* What a pattern with no graph or with one binds.
LEMMA GraphExtendIs ==
  ASSUME NEW sol \in Solution, NEW q \in Quad, NEW pat \in Pattern, pat.hops = Unlimited, NEW values,
         NEW m
  PROVE  LET bound == /\ Widens(m, sol, Slots(pat)) /\ Showable(pat, m, values)
                      /\ Has(pat.s, m, q.s) /\ Has(pat.o, m, q.o) /\ Has(pat.p, m, q.p)
         IN  /\ pat.g = Union => (m \in Extend(q, pat, sol, values) <=> bound)
             /\ pat.g # Union => ((\E c \in Extend(q, pat, sol, values) : m \in Bind(pat.g, q.g, c)) <=>
                                     bound /\ Has(pat.g, m, q.g))
<1> DEFINE C == {<<pat.s, q.s>>, <<pat.o, q.o>>, <<pat.p, q.p>>}
           E == Extend(q, pat, sol, values)
           G == UNION {Bind(pat.g, q.g, c) : c \in E}
           literal == pat.o \in Var /\ q.o \in Literal /\ ~values
<1>1. \A a : (\A c \in C : Has(c[1], a, c[2])) <=> Has(pat.s, a, q.s) /\ Has(pat.o, a, q.o) /\ Has(pat.p, a, q.p)
  <2> DEFINE c1 == <<pat.s, q.s>>  c2 == <<pat.o, q.o>>  c3 == <<pat.p, q.p>>
  <2>1. c1[1] = pat.s /\ c1[2] = q.s /\ c2[1] = pat.o /\ c2[2] = q.o /\ c3[1] = pat.p /\ c3[2] = q.p
    OBVIOUS
  <2>2. C = {c1, c2, c3}
    OBVIOUS
  <2> HIDE DEF c1, c2, c3, C
  <2> QED
    BY <2>1, <2>2
<1>2. \A a : (\A c \in C \cup {<<pat.g, q.g>>} : Has(c[1], a, c[2])) <=>
               (\A c \in C : Has(c[1], a, c[2])) /\ Has(pat.g, a, q.g)
  <2> DEFINE c4 == <<pat.g, q.g>>
  <2>1. c4[1] = pat.g /\ c4[2] = q.g
    OBVIOUS
  <2> HIDE DEF c4, C
  <2>2. \A a : (\A c \in C \cup {c4} : Has(c[1], a, c[2])) <=>
               (\A c \in C : Has(c[1], a, c[2])) /\ Has(pat.g, a, q.g)
    BY <2>1
  <2> QED
    BY <2>2 DEF c4
<1>3. literal => E = {}
  BY DEF Extend
<1>4. ~literal => Binds(E, sol, {pat.s, pat.o, pat.p}, C)
  BY ExtendIs
<1>5. BindsNext(G, E, pat.g, q.g) /\ q.g \in Term
  <2>1. q.g \in Term
    BY GraphsAreNodes DEF Quad, Term
  <2> QED
    BY <2>1 DEF BindsNext
<1>6. (m \in G) <=> \E c \in E : m \in Bind(pat.g, q.g, c)
  OBVIOUS
<1> HIDE DEF E, G, C
<1>7. ~literal => Binds(G, sol, {pat.s, pat.o, pat.p} \cup {pat.g}, C \cup {<<pat.g, q.g>>})
  BY <1>4, <1>5, BindNext
<1>8. literal => m \notin E /\ m \notin G
  BY <1>3, <1>6
<1>9. ASSUME Widens(m, sol, Slots(pat)), Has(pat.o, m, q.o)
      PROVE  literal <=> ~Showable(pat, m, values)
  <2>1. pat.o \in Var => m[pat.o] = q.o
    BY <1>9, TermsAreDistinct DEF Has, Value
  <2> QED
    BY <2>1 DEF Showable
<1>10. pat.g = Union => (Widens(m, sol, {pat.s, pat.o, pat.p}) <=> Widens(m, sol, Slots(pat)))
  BY SlotsOf, WidensSame
<1>11. Slots(pat) = {pat.s, pat.o, pat.p} \cup {pat.g}
  BY SlotsOf
<1>12. CASE literal
  BY <1>6, <1>8, <1>9, <1>12 DEF E
<1>13. CASE ~literal
  <2>1. m \in E <=> Widens(m, sol, {pat.s, pat.o, pat.p}) /\ \A c \in C : Has(c[1], m, c[2])
    BY <1>4, <1>13 DEF Binds
  <2>2. m \in G <=> Widens(m, sol, Slots(pat)) /\ \A c \in C \cup {<<pat.g, q.g>>} : Has(c[1], m, c[2])
    BY <1>7, <1>11, <1>13 DEF Binds
  <2> QED
    BY <2>1, <2>2, <1>1, <1>2, <1>6, <1>9, <1>10, <1>13 DEF E
<1> QED
  BY <1>12, <1>13

\* What match_pattern finds satisfies the pattern.
LEMMA PatternSound ==
  ASSUME NEW pat \in Pattern, pat.hops = Unlimited, NEW sol \in Solution, NEW quads, quads \subseteq Quad,
         NEW pending \in Seq(Quad), NEW types, NEW values, NEW m,
         m \in MatchPattern(pat, sol, quads, pending, NoVars, types, values)
  PROVE  /\ Widens(m, sol, Slots(pat))
         /\ Meets(pat, m, quads, Seen(pat, sol, quads, types) \cup Elements(pending))
         /\ Showable(pat, m, values)
<1> DEFINE base == Seen(pat, sol, quads, types) \cup Elements(pending)
           Right(q) == /\ q \in base
                       /\ Widens(m, sol, Slots(pat)) /\ Showable(pat, m, values)
                       /\ Has(pat.s, m, q.s) /\ Has(pat.o, m, q.o) /\ Has(pat.p, m, q.p)
                       /\ pat.g # Union => q \in quads /\ Has(pat.g, m, q.g) /\ (pat.g \in Var => q.g # Default)
<1>1. \E q \in Quad : Right(q)
  <2>1. CASE pat.g = Union
    <3>1. PICK q \in Ungraphed(pat, sol, quads, pending, NoVars, types) : m \in Extend(q, pat, sol, values)
      BY <2>1 DEF MatchPattern
    <3>2. q \in base
      BY <3>1 DEF Ungraphed, NoVars, Overlaid, Elements
    <3>3. q \in Quad
      BY <3>2, SeenIs, PendingAre
    <3> QED
      BY <2>1, <3>1, <3>2, <3>3, GraphExtendIs
  <2>2. CASE pat.g # Union
    <3>1. PICK q \in quads : /\ pat.g \in Var => q.g # Default
                             /\ \E c \in Extend(q, pat, sol, values) : m \in Bind(pat.g, q.g, c)
      BY <2>2 DEF MatchPattern
    <3>2. q \in Quad /\ q \in base
      BY <2>2, <3>1, SeenIs
    <3> QED
      BY <2>2, <3>1, <3>2, GraphExtendIs
  <2> QED
    BY <2>1, <2>2
<1>2. PICK q \in Quad : Right(q)
  BY <1>1
<1>3. m \in Solution /\ {pat.s, pat.p, pat.o, pat.g} \cap Var \subseteq DOMAIN m
  BY <1>2, SlotsOf DEF Widens
<1>4. /\ Value(pat.s, m) \in {Blank, q.s} /\ Value(pat.p, m) \in {Blank, q.p}
      /\ Value(pat.o, m) \in {Blank, q.o}
  BY <1>2, <1>3, HasIs
<1>5. pat.g # Union => q \in quads /\ Value(pat.g, m) = q.g /\ (pat.g \in Var => m[pat.g] # Default)
  <2>1. pat.g # Blank
    BY GraphsAreNodes, TermsAreDistinct DEF Pattern, NodeVar
  <2> QED
    BY <1>2, <2>1 DEF Has, Value
<1>6. pat.p \in Var => q \in base
  BY <1>2
<1>7. pat.g \in Var => pat.g # Union
  BY TermsAreDistinct
<1> QED
  BY <1>2, <1>4, <1>5, <1>6, <1>7 DEF Meets, Satisfies

\* match_pattern finds whatever satisfies the pattern and is not a pending value that a stored one hides.
LEMMA PatternComplete ==
  ASSUME NEW pat \in Pattern, pat.hops = Unlimited, NEW sol \in Solution, NEW quads, quads \subseteq Quad,
         NEW pending \in Seq(Quad), NEW types, NEW values, NEW m,
         Widens(m, sol, Slots(pat)), Showable(pat, m, values),
         Meets(pat, m, quads, Seen(pat, sol, quads, types) \cup Plain(pending, quads))
  PROVE  m \in MatchPattern(pat, sol, quads, pending, NoVars, types, values)
<1>1. PICK q \in Seen(pat, sol, quads, types) \cup Plain(pending, quads) :
         /\ Value(pat.s, m) \in {Blank, q.s} /\ Value(pat.p, m) \in {Blank, q.p}
         /\ Value(pat.o, m) \in {Blank, q.o}
         /\ pat.g # Union => q \in quads /\ Value(pat.g, m) = q.g
  BY DEF Meets, Satisfies
<1>2. m \in Solution /\ {pat.s, pat.p, pat.o, pat.g} \cap Var \subseteq DOMAIN m
  BY SlotsOf DEF Widens
<1>3. q \in Quad
  BY SeenIs, PendingAre DEF Plain
<1>4. Has(pat.s, m, q.s) /\ Has(pat.o, m, q.o) /\ Has(pat.p, m, q.p)
  BY <1>1, <1>2, HasIs
<1>5. CASE pat.g = Union
  <2>1. m \in Extend(q, pat, sol, values)
    BY <1>3, <1>4, <1>5, GraphExtendIs
  <2>2. \A t : \A x : Has(t, m, x) => Resolve(t, sol) \in {Blank, x}
    BY TermsAreDistinct DEF Has, Value, Resolve, Widens
  <2>3. Fits(q, pat, sol)
    BY <1>4, <2>2 DEF Fits
  <2> DEFINE found == {t \in Seen(pat, sol, quads, types) : Fits(t, pat, sol)}
  <2>4. q \in Overlaid(found, pending, pat, sol)
    <3>1. CASE q \in Seen(pat, sol, quads, types)
      BY <2>3, <3>1 DEF Overlaid
    <3>2. CASE q \in Plain(pending, quads)
      <4>1. PICK k \in DOMAIN pending : q = pending[k]
        BY <3>2 DEF Plain, Elements
      <4>2. found \subseteq quads /\ \A j \in DOMAIN pending : pending[j] \in Elements(pending)
        BY SeenIs DEF Elements
      <4> HIDE DEF found
      <4>3. ~(\E t \in found : OtherValue(t, q)) /\ ~\E j \in DOMAIN pending : OtherValue(pending[j], q)
        BY <3>2, <4>2 DEF Plain
      <4> QED
        BY <2>3, <4>1, <4>3 DEF Overlaid
    <3> QED
      BY <1>1, <3>1, <3>2
  <2>5. q \in Ungraphed(pat, sol, quads, pending, NoVars, types)
    BY <2>4 DEF Ungraphed, NoVars
  <2> QED
    BY <1>5, <2>1, <2>5 DEF MatchPattern
<1>6. CASE pat.g # Union
  <2>1. q \in quads /\ Has(pat.g, m, q.g)
    BY <1>1, <1>6 DEF Has
  <2>2. \E c \in Extend(q, pat, sol, values) : m \in Bind(pat.g, q.g, c)
    BY <1>3, <1>4, <1>6, <2>1, GraphExtendIs
  <2>3. pat.g \in Var => q.g # Default
    BY <1>1, <1>6 DEF Meets, Value
  <2> QED
    BY <1>6, <2>1, <2>2, <2>3 DEF MatchPattern
<1> QED
  BY <1>5, <1>6

-----------------------------------------------------------------------------
(* Paths *)

\* A nonempty set of numbers has a least element.
LEMMA LeastOf ==
  ASSUME NEW S \in SUBSET Nat, S # {}
  PROVE  \E m \in S : \A u \in S : m <= u
<1>1. PICK m \in S : \A u \in S : ~ (<<u, m>> \in OpToRel(<, Nat))
  BY NatLessThanWellFounded, WFMin, Zenon
<1>2. \A u \in S : ~ (u < m)
  BY <1>1 DEF OpToRel
<1> QED
  BY <1>2

\* A path of at most n + 1 edges is one edge, or an edge behind a path of at most n.
LEMMA PathSteps ==
  ASSUME NEW x \in Node, NEW y, NEW n \in Nat, NEW edges \in SUBSET (Node \X Node)
  PROVE  /\ ~Path(x, y, 0, edges)
         /\ Path(x, y, n, edges) => Path(x, y, n + 1, edges)
         /\ Path(x, y, n + 1, edges) <=>
              <<x, y>> \in edges \/ \E z \in Node : Path(x, z, n, edges) /\ <<z, y>> \in edges
<1>1. ~Path(x, y, 0, edges) /\ (Path(x, y, n, edges) => Path(x, y, n + 1, edges))
  BY DEF Path
<1>2. ASSUME Path(x, y, n + 1, edges)
      PROVE  <<x, y>> \in edges \/ \E z \in Node : Path(x, z, n, edges) /\ <<z, y>> \in edges
  <2>0. PICK m \in 1 .. n + 1 : \E walk \in [0 .. m -> Node] :
           walk[0] = x /\ walk[m] = y /\ \A i \in 1 .. m : <<walk[i - 1], walk[i]>> \in edges
    BY <1>2 DEF Path
  <2>1. PICK walk \in [0 .. m -> Node] :
           walk[0] = x /\ walk[m] = y /\ \A i \in 1 .. m : <<walk[i - 1], walk[i]>> \in edges
    BY <2>0
  <2>2. CASE m = 1
    BY <2>1, <2>2
  <2>3. CASE m # 1
    <3> DEFINE w == [i \in 0 .. m - 1 |-> walk[i]]
    <3>1. m - 1 \in 1 .. n /\ w \in [0 .. m - 1 -> Node] /\ walk[m - 1] \in Node
      BY <2>3
    <3>2. w[0] = x /\ w[m - 1] = walk[m - 1] /\ \A i \in 1 .. m - 1 : w[i - 1] = walk[i - 1] /\ w[i] = walk[i]
      BY <2>1, <2>3
    <3> HIDE DEF w
    <3>3. Path(x, walk[m - 1], n, edges)
      BY <2>1, <3>1, <3>2 DEF Path
    <3>4. <<walk[m - 1], y>> \in edges
      BY <2>1
    <3> QED
      BY <3>1, <3>3, <3>4
  <2> QED
    BY <2>2, <2>3
<1>3. ASSUME <<x, y>> \in edges
      PROVE  Path(x, y, n + 1, edges)
  <2> DEFINE w == [i \in 0 .. 1 |-> IF i = 0 THEN x ELSE y]
  <2>1. w \in [0 .. 1 -> Node] /\ w[0] = x /\ w[1] = y
    BY <1>3
  <2> HIDE DEF w
  <2>2. 1 \in 1 .. n + 1 /\ \A i \in 1 .. 1 : <<w[i - 1], w[i]>> \in edges
    BY <1>3, <2>1
  <2> QED
    BY <2>1, <2>2 DEF Path
<1>4. ASSUME NEW z \in Node, Path(x, z, n, edges), <<z, y>> \in edges
      PROVE  Path(x, y, n + 1, edges)
  <2>0. PICK m \in 1 .. n : \E walk \in [0 .. m -> Node] :
           walk[0] = x /\ walk[m] = z /\ \A i \in 1 .. m : <<walk[i - 1], walk[i]>> \in edges
    BY <1>4 DEF Path
  <2>1. PICK walk \in [0 .. m -> Node] :
           walk[0] = x /\ walk[m] = z /\ \A i \in 1 .. m : <<walk[i - 1], walk[i]>> \in edges
    BY <2>0
  <2> DEFINE w == [i \in 0 .. m + 1 |-> IF i = m + 1 THEN y ELSE walk[i]]
  <2>2. w \in [0 .. m + 1 -> Node] /\ w[0] = x /\ w[m + 1] = y /\ w[m] = z /\ m + 1 \in 1 .. n + 1
    BY <1>4, <2>1
  <2>3. \A i \in 1 .. m : w[i - 1] = walk[i - 1] /\ w[i] = walk[i]
    OBVIOUS
  <2> HIDE DEF w
  <2>4. \A i \in 1 .. m + 1 : <<w[i - 1], w[i]>> \in edges
    <3>1. <<w[(m + 1) - 1], w[m + 1]>> \in edges
      BY <1>4, <2>2
    <3>2. \A i \in 1 .. m + 1 : i \in 1 .. m \/ i = m + 1
      OBVIOUS
    <3> QED
      BY <2>1, <2>3, <3>1, <3>2
  <2> QED
    BY <2>2, <2>4 DEF Path
<1> QED
  BY <1>1, <1>2, <1>3, <1>4

\* Breadth first visits what a path of so many edges leads to.
LEMMA HopsArePaths ==
  ASSUME NEW start \in Node, NEW edges \in SUBSET (Node \X Node), NEW n \in Nat
  PROVE  HopsFrom(start, n, edges) = {y \in Node : Path(start, y, n, edges)}
<1> DEFINE reach(k) == {y \in Node : Path(start, y, k, edges)}
           grown(before) ==
             LET new == {e[2] : e \in {e \in edges : e[1] \in before.frontier}} \ before.visited
             IN  [visited |-> before.visited \cup new, frontier |-> new]
           layer(k) == [visited |-> reach(k), frontier |-> IF k = 0 THEN {start} ELSE reach(k) \ reach(k - 1)]
           layers[k \in 0 .. n] ==
             IF k = 0 THEN [visited |-> {}, frontier |-> {start}] ELSE grown(layers[k - 1])
           closed == [k \in 0 .. n |-> layer(k)]
<1>1. HopsFrom(start, n, edges) = layers[n].visited
  BY DEF HopsFrom
<1>2. layer(0) = [visited |-> {}, frontier |-> {start}]
  BY PathSteps
<1>3. ASSUME NEW k \in Nat
      PROVE  layer(k + 1) = grown(layer(k))
  <2> DEFINE front == layer(k).frontier
             new == {e[2] : e \in {e \in edges : e[1] \in front}} \ reach(k)
  <2>1. \A y : y \in reach(k + 1) <=> <<start, y>> \in edges \/ \E z \in reach(k) : <<z, y>> \in edges
    BY PathSteps
  <2>2. reach(k) \subseteq reach(k + 1)
    BY PathSteps
  <2>3. (front = {start} /\ reach(k) = {}) \/ \E i \in Nat : k = i + 1 /\ front = reach(k) \ reach(i)
    <3>1. CASE k = 0
      BY <3>1, PathSteps
    <3>2. CASE k # 0
      <4>1. k - 1 \in Nat /\ k = (k - 1) + 1 /\ front = reach(k) \ reach(k - 1)
        BY <3>2
      <4> QED
        BY <4>1
    <3> QED
      BY <3>1, <3>2
  <2>4. \A i \in Nat : \A y : y \in reach(i + 1) <=> <<start, y>> \in edges \/ \E z \in reach(i) : <<z, y>> \in edges
    BY PathSteps
  <2>5. \A y : y \in new <=> y \notin reach(k) /\ \E z \in front : <<z, y>> \in edges
    <3> HIDE DEF front, reach
    <3>1. \A y : y \in new <=> y \notin reach(k) /\ \E e \in edges : e[1] \in front /\ e[2] = y
      OBVIOUS
    <3>2. \A z, y : <<z, y>>[1] = z /\ <<z, y>>[2] = y
      OBVIOUS
    <3>3. \A e \in edges : e = <<e[1], e[2]>>
      OBVIOUS
    <3> HIDE DEF new
    <3>4. ASSUME NEW y, NEW e \in edges, e[1] \in front, e[2] = y
          PROVE  \E z \in front : <<z, y>> \in edges
      BY <3>3, <3>4
    <3>5. ASSUME NEW y, NEW z \in front, <<z, y>> \in edges
          PROVE  \E e \in edges : e[1] \in front /\ e[2] = y
      BY <3>2, <3>5
    <3> QED
      BY <3>1, <3>4, <3>5
  <2> HIDE DEF reach, front
  <2>6. \A y : y \in new <=> y \in reach(k + 1) \ reach(k)
    <3> HIDE DEF new
    <3> QED
      BY <2>1, <2>2, <2>3, <2>4, <2>5
  <2>7. new = reach(k + 1) \ reach(k) /\ reach(k) \cup new = reach(k + 1)
    <3> HIDE DEF new
    <3> QED
      BY <2>2, <2>6
  <2>8. grown(layer(k)) = [visited |-> reach(k) \cup new, frontier |-> new]
    BY DEF front
  <2>9. k + 1 # 0 /\ (k + 1) - 1 = k
    OBVIOUS
  <2>10. layer(k + 1) = [visited |-> reach(k + 1), frontier |-> reach(k + 1) \ reach(k)]
    BY <2>9
  <2> QED
    BY <2>7, <2>8, <2>10
<1>6. \A k \in 1 .. n : k - 1 \in Nat /\ k = (k - 1) + 1
  OBVIOUS
<1>7. layer(n).visited = {y \in Node : Path(start, y, n, edges)}
  OBVIOUS
<1> HIDE DEF layer, grown, reach
<1>4. layers = [k \in 0 .. n |-> IF k = 0 THEN [visited |-> {}, frontier |-> {start}] ELSE grown(layers[k - 1])]
  <2>1. closed = [k \in 0 .. n |-> IF k = 0 THEN [visited |-> {}, frontier |-> {start}] ELSE grown(closed[k - 1])]
    <3>1. \A k \in 0 .. n : closed[k] = IF k = 0 THEN [visited |-> {}, frontier |-> {start}] ELSE grown(closed[k - 1])
      <4> TAKE k \in 0 .. n
      <4>1. CASE k = 0
        BY <1>2, <4>1
      <4>2. CASE k # 0
        <5>1. k \in 1 .. n /\ k - 1 \in 0 .. n
          BY <4>2
        <5>2. layer((k - 1) + 1) = grown(layer(k - 1))
          BY <1>3, <1>6, <5>1
        <5>3. closed[k] = layer((k - 1) + 1) /\ closed[k - 1] = layer(k - 1)
          BY <1>6, <5>1
        <5> HIDE DEF closed
        <5> QED
          BY <4>2, <5>2, <5>3
      <4> QED
        BY <4>1, <4>2
    <3> QED
      BY <3>1
  <2> HIDE DEF closed
  <2> QED
    BY <2>1
<1> HIDE DEF layers
<1>5. \A k \in 0 .. n : layers[k] = layer(k)
  <2> DEFINE wrong == {k \in 0 .. n : layers[k] # layer(k)}
  <2> SUFFICES ASSUME wrong # {} PROVE FALSE
    OBVIOUS
  <2>1. PICK m \in wrong : \A u \in wrong : m <= u
    <3>1. wrong \in SUBSET Nat
      OBVIOUS
    <3> HIDE DEF wrong
    <3> QED
      BY <3>1, LeastOf
  <2>2. m # 0
    BY <1>2, <1>4
  <2>3. m - 1 \in 0 .. n /\ m \in 1 .. n /\ m - 1 \notin wrong
    BY <2>1, <2>2
  <2>4. layers[m] = grown(layer(m - 1))
    BY <1>4, <2>2, <2>3
  <2> QED
    BY <1>3, <1>6, <2>3, <2>4
<1> QED
  BY <1>1, <1>5, <1>7

\* A path begins with an edge.
LEMMA PathStarts ==
  ASSUME NEW x, NEW y, NEW n \in Nat, NEW edges, Path(x, y, n, edges)
  PROVE  \E e \in edges : e[1] = x
<1>1. PICK m \in 1 .. n : \E walk \in [0 .. m -> Node] :
         walk[0] = x /\ walk[m] = y /\ \A i \in 1 .. m : <<walk[i - 1], walk[i]>> \in edges
  BY DEF Path
<1>2. PICK walk \in [0 .. m -> Node] :
         walk[0] = x /\ walk[m] = y /\ \A i \in 1 .. m : <<walk[i - 1], walk[i]>> \in edges
  BY <1>1
<1>3. 1 \in 1 .. m /\ walk[1 - 1] = x
  BY <1>2
<1>4. <<x, walk[1]>> \in edges
  BY <1>2, <1>3
<1> QED
  BY <1>4

\* What a path pattern binds, from node x to node y.
LEMMA EndsAre ==
  ASSUME NEW sol \in Solution, NEW pat, NEW x \in Node, NEW y \in Node, NEW m
  PROVE  (\E b \in Bind(pat.s, x, sol) : m \in Bind(pat.o, y, b)) <=>
           Widens(m, sol, {pat.s, pat.o}) /\ Has(pat.s, m, x) /\ Has(pat.o, m, y)
<1> DEFINE M == Bind(pat.s, x, sol)
           N == UNION {Bind(pat.o, y, b) : b \in M}
           c1 == <<pat.s, x>>  c2 == <<pat.o, y>>
<1>0. x \in Term /\ y \in Term
  BY DEF Term
<1>1. c1[1] = pat.s /\ c1[2] = x /\ c2[1] = pat.o /\ c2[2] = y
  OBVIOUS
<1>2. Binds(M, sol, {pat.s}, {c1})
  <2>1. \A a : a \in M <=> Widens(a, sol, {pat.s}) /\ Has(pat.s, a, x)
    BY <1>0, BindIs
  <2> HIDE DEF M, c1
  <2> QED
    BY <1>1, <2>1 DEF Binds
<1>3. BindsNext(N, M, pat.o, y)
  BY DEF BindsNext
<1>4. m \in N <=> \E b \in M : m \in Bind(pat.o, y, b)
  OBVIOUS
<1> HIDE DEF M, N
<1>5. Binds(N, sol, {pat.s} \cup {pat.o}, {c1} \cup {c2})
  BY <1>0, <1>2, <1>3, BindNext
<1> HIDE DEF c1, c2
<1>6. {pat.s} \cup {pat.o} = {pat.s, pat.o}
  OBVIOUS
<1>7. m \in N <=> Widens(m, sol, {pat.s, pat.o}) /\ Has(pat.s, m, x) /\ Has(pat.o, m, y)
  BY <1>1, <1>5, <1>6 DEF Binds
<1> QED
  BY <1>4, <1>7 DEF M

\* The edges of a path lead from nodes to nodes.
LEMMA EdgesAreOfNodes ==
  ASSUME NEW quads, quads \subseteq Quad, NEW p
  PROVE  Edges(p, quads) \in SUBSET (Node \X Node)
  BY DEF Edges, Quad

\* A path pattern finds exactly the pairs that a path within its bounds joins.
LEMMA PathIs ==
  ASSUME NEW pat \in Pattern, pat.hops # Unlimited, pat.p \in Pred, NEW sol \in Solution,
         NEW quads, quads \subseteq Quad, NEW base, NEW m
  PROVE  m \in MatchPath(pat, sol, quads) <=> Widens(m, sol, Slots(pat)) /\ Meets(pat, m, quads, base)
<1> DEFINE edges == Edges(pat.p, quads)
           first == Resolve(pat.s, sol)
           starts == IF first = Blank THEN {e[1] : e \in edges} ELSE {first} \cap Node
<1>0. edges \in SUBSET (Node \X Node) /\ pat.hops \in Nat
  BY EdgesAreOfNodes DEF Pattern
<1>1. starts \subseteq Node
  BY <1>0
<1>2. m \in MatchPath(pat, sol, quads) <=>
        \E x \in starts : \E b \in Bind(pat.s, x, sol) :
          \E y \in HopsFrom(x, pat.hops, edges) : m \in Bind(pat.o, y, b)
  BY DEF MatchPath
<1> HIDE DEF starts
<1>3. \A x \in starts : HopsFrom(x, pat.hops, edges) = {y \in Node : Path(x, y, pat.hops, edges)}
  BY <1>0, <1>1, HopsArePaths
<1>4. Slots(pat) = {pat.s, pat.o}
  BY DEF Slots
<1>5. PathEdges(quads)[pat.p] = edges
  BY DEF PathEdges
<1> HIDE DEF edges
<1>6. m \in MatchPath(pat, sol, quads) <=>
        \E x \in starts : \E y \in Node :
          /\ Path(x, y, pat.hops, edges)
          /\ Widens(m, sol, Slots(pat)) /\ Has(pat.s, m, x) /\ Has(pat.o, m, y)
  <2>1. \A x \in starts : \A y \in Node :
          (\E b \in Bind(pat.s, x, sol) : m \in Bind(pat.o, y, b)) <=>
             Widens(m, sol, Slots(pat)) /\ Has(pat.s, m, x) /\ Has(pat.o, m, y)
    <3> TAKE x \in starts
    <3> TAKE y \in Node
    <3>1. x \in Node
      BY <1>1
    <3>2. (\E b \in Bind(pat.s, x, sol) : m \in Bind(pat.o, y, b)) <=>
             Widens(m, sol, {pat.s, pat.o}) /\ Has(pat.s, m, x) /\ Has(pat.o, m, y)
      BY <3>1, EndsAre, Zenon
    <3> QED
      BY <1>4, <3>2
  <2> QED
    BY <1>2, <1>3, <2>1
<1>7. ASSUME Widens(m, sol, Slots(pat)), NEW x \in Node, NEW y \in Node, Path(x, y, pat.hops, edges),
             Has(pat.s, m, x)
      PROVE  x \in starts
  <2>1. first \in {Blank, x}
    BY <1>7, TermsAreDistinct DEF Has, Value, Resolve, Widens
  <2>2. \E e \in edges : e[1] = x
    BY <1>0, <1>7, PathStarts
  <2> QED
    BY <2>1, <2>2 DEF starts
<1>8. ASSUME Widens(m, sol, Slots(pat))
      PROVE  \A x : /\ Value(pat.s, m) \in {Blank, x} <=> Has(pat.s, m, x)
                    /\ Value(pat.o, m) \in {Blank, x} <=> Has(pat.o, m, x)
  <2>1. m \in Solution /\ {pat.s, pat.o} \cap Var \subseteq DOMAIN m
    BY <1>4, <1>8 DEF Widens
  <2> QED
    BY <2>1, HasIs
<1>9. Meets(pat, m, quads, base) <=>
        \E x \in Node : \E y \in Node :
          /\ Value(pat.s, m) \in {Blank, x} /\ Value(pat.o, m) \in {Blank, y}
          /\ Path(x, y, pat.hops, edges)
  BY <1>5 DEF Meets, Satisfies
<1> QED
  BY <1>1, <1>6, <1>7, <1>8, <1>9

\* A path ends at a node.
LEMMA PathsAreShowable ==
  ASSUME NEW pat, pat.hops # Unlimited, NEW quads, NEW base, NEW m, NEW values,
         Meets(pat, m, quads, base)
  PROVE  Showable(pat, m, values)
<1>1. PICK y \in Node : Value(pat.o, m) \in {Blank, y}
  BY DEF Meets, Satisfies
<1> QED
  BY <1>1, TermsAreDistinct DEF Showable, Value

\* The two kinds of patterns together: what is found satisfies the pattern.
LEMMA MatchesSound ==
  ASSUME NEW pat \in Pattern, NEW sol \in Solution, NEW quads, quads \subseteq Quad,
         NEW pending \in Seq(Quad), NEW types, NEW values, NEW m,
         m \in Matches(pat, sol, quads, pending, NoVars, types, values)
  PROVE  /\ Widens(m, sol, Slots(pat))
         /\ Meets(pat, m, quads, Seen(pat, sol, quads, types) \cup Elements(pending))
         /\ Showable(pat, m, values)
<1>1. CASE pat.hops = Unlimited
  BY <1>1, PatternSound DEF Matches
<1>2. CASE pat.hops # Unlimited
  <2>1. pat.p \in Pred /\ m \in MatchPath(pat, sol, quads)
    BY <1>2 DEF Matches
  <2>2. Widens(m, sol, Slots(pat)) /\ Meets(pat, m, quads, Seen(pat, sol, quads, types) \cup Elements(pending))
    BY <1>2, <2>1, PathIs
  <2> QED
    BY <1>2, <2>2, PathsAreShowable
<1> QED
  BY <1>1, <1>2

\* And what satisfies the pattern is found.
LEMMA MatchesComplete ==
  ASSUME NEW pat \in Pattern, NEW sol \in Solution, NEW quads, quads \subseteq Quad,
         NEW pending \in Seq(Quad), NEW types, NEW values, NEW m,
         Widens(m, sol, Slots(pat)), Showable(pat, m, values),
         Meets(pat, m, quads, Seen(pat, sol, quads, types) \cup Plain(pending, quads))
  PROVE  m \in Matches(pat, sol, quads, pending, NoVars, types, values)
<1>1. CASE pat.hops = Unlimited
  BY <1>1, PatternComplete DEF Matches
<1>2. CASE pat.hops # Unlimited
  <2>1. pat.p \in Pred
    BY <1>2 DEF Meets, Satisfies
  <2>2. m \in MatchPath(pat, sol, quads)
    BY <1>2, <2>1, PathIs
  <2> QED
    BY <1>2, <2>1, <2>2 DEF Matches
<1> QED
  BY <1>1, <1>2

\* Whether a pattern holds depends on the values of its own variables.
LEMMA MeetsAgrees ==
  ASSUME NEW pat, NEW a, NEW b, \A v \in Slots(pat) \cap Var : a[v] = b[v], NEW quads, NEW base, NEW values
  PROVE  /\ Meets(pat, a, quads, base) <=> Meets(pat, b, quads, base)
         /\ Showable(pat, a, values) <=> Showable(pat, b, values)
<1>1. \A t \in Slots(pat) : Value(t, a) = Value(t, b)
  BY DEF Value
<1>2. pat.s \in Slots(pat) /\ pat.o \in Slots(pat)
  BY DEF Slots
<1>3. pat.hops = Unlimited => pat.p \in Slots(pat) /\ pat.g \in Slots(pat)
  BY DEF Slots
<1>4. Value(pat.s, a) = Value(pat.s, b) /\ Value(pat.o, a) = Value(pat.o, b)
  BY <1>1, <1>2
<1>5. pat.hops = Unlimited => /\ Value(pat.p, a) = Value(pat.p, b) /\ Value(pat.g, a) = Value(pat.g, b)
                              /\ pat.g \in Var => a[pat.g] = b[pat.g]
  BY <1>1, <1>3
<1>6. Satisfies(pat, a, quads, base, base, PathEdges(quads)) <=> Satisfies(pat, b, quads, base, base, PathEdges(quads))
  BY <1>4, <1>5 DEF Satisfies
<1>7. pat.o \in Var => a[pat.o] = b[pat.o]
  BY <1>2
<1> QED
  BY <1>5, <1>6, <1>7 DEF Meets, Showable

-----------------------------------------------------------------------------
(* Joining pattern by pattern *)

VarsUpto(patterns, n) == Var \cap UNION {Slots(patterns[k]) : k \in 1 .. n}

\* The quads that the k-th pattern is to be met with.
BaseAt(patterns, a, k, quads, pending, types) ==
  Seen(patterns[k], Prior(patterns, a, k), quads, types) \cup pending

\* What is bound before a pattern are the variables of those before it.
LEMMA PriorIs ==
  ASSUME NEW pats \in Seq(Pattern), NEW k \in 1 .. Len(pats)
  PROVE  \A a : Prior(pats, a, k) = [v \in VarsUpto(pats, k - 1) |-> a[v]]
<1> DEFINE before == SubSeq(pats, 1, k - 1)
<1>1. Len(pats) \in Nat /\ k - 1 \in 0 .. Len(pats) /\ DOMAIN pats = 1 .. Len(pats)
  BY LenProperties
<1>2. DOMAIN before = 1 .. k - 1 /\ \A j \in 1 .. k - 1 : before[j] = pats[j]
  BY <1>1
<1> HIDE DEF before
<1>3. VarsOf(before) = VarsUpto(pats, k - 1)
  BY <1>2 DEF VarsOf, VarsUpto
<1> QED
  BY <1>3 DEF Prior, before

\* Two solutions that agree on them meet the pattern with the same quads.
LEMMA PriorSame ==
  ASSUME NEW pats \in Seq(Pattern), NEW k \in 1 .. Len(pats), NEW a, NEW b,
         \A v \in VarsUpto(pats, k - 1) : a[v] = b[v]
  PROVE  Prior(pats, a, k) = Prior(pats, b, k)
  BY PriorIs

\* More patterns have more variables.
LEMMA VarsGrow ==
  ASSUME NEW pats, NEW n \in Nat, NEW k \in 1 .. n
  PROVE  VarsUpto(pats, k - 1) \subseteq VarsUpto(pats, n)
<1>1. \A j \in 1 .. k - 1 : j \in 1 .. n
  OBVIOUS
<1> QED
  BY <1>1 DEF VarsUpto

\* All of the first n patterns hold.
AllMeet(a, n, pending) ==
  \A k \in 1 .. n : /\ Meets(task.patterns[k], a, store, BaseAt(task.patterns, a, k, store, pending, EdgeTypes))
                    /\ Showable(task.patterns[k], a, task.values)

\* The partial solutions are what the first patterns mean: nothing else, and all
\* of it but what pending values of properties with other values would add.
Joined(n) ==
  /\ solutions \subseteq Solution
  /\ \A a \in solutions : DOMAIN a = VarsUpto(task.patterns, n) /\ AllMeet(a, n, Elements(task.pending))
  /\ \A a \in Solution :
       DOMAIN a = VarsUpto(task.patterns, n) /\ AllMeet(a, n, Plain(task.pending, store)) =>
         a \in solutions

\* What a query has joined.
JoinInv ==
  state # "idle" /\ task.kind = "query" =>
    /\ IsTask(task) /\ store \subseteq Quad
    /\ next \in 1 .. Len(task.patterns) + 1
    /\ Joined(next - 1)
    /\ state = "done" => next = Len(task.patterns) + 1 \/ solutions = {}

\* A query starts with the empty solution, which joins no pattern.
LEMMA StartsJoined ==
  ASSUME NEW t, IsTask(t), NEW quads, quads \subseteq Quad, NEW how, Holding(t, quads, how), how # "done"
  PROVE  JoinInv'
<1> SUFFICES ASSUME t.kind = "query"
             PROVE  JoinInv'
  BY DEF Holding, JoinInv
<1>1. task' = t /\ store' = quads /\ next' = 1 /\ solutions' = {NoVars} /\ state' = how
  BY DEF Holding
<1>2. t.patterns \in Seq(Pattern) /\ 1 \in 1 .. Len(t.patterns) + 1
  BY LenProperties DEF IsTask
<1>3. VarsUpto(t.patterns, 0) = {} /\ 1 - 1 = 0 /\ 1 .. 0 = {}
  BY DEF VarsUpto
<1>4. NoVars \in Solution /\ DOMAIN NoVars = {}
  <2>1. NoVars \in [{} -> Term]
    BY DEF NoVars
  <2> QED
    BY <2>1, SolutionIs
<1>5. \A a \in Solution : DOMAIN a = {} => a = NoVars
  BY <1>4, SameSolution
<1>6. Joined(0)'
  BY <1>1, <1>3, <1>4, <1>5 DEF Joined, AllMeet
<1> QED
  BY <1>1, <1>2, <1>3, <1>6 DEF JoinInv

\* Joining one more pattern keeps the solutions those of the patterns joined.
LEMMA JoinStep ==
  ASSUME JoinInv, Join
  PROVE  JoinInv'
<1> DEFINE pat == task.patterns[next]
           pats == task.patterns
           n == next - 1
           pending == Elements(task.pending)
           plain == Plain(task.pending, store)
           Base(a, k, writes) == BaseAt(pats, a, k, store, writes, EdgeTypes)
<1>1. /\ task.kind = "query" /\ IsTask(task) /\ store \subseteq Quad /\ Joined(n)
      /\ next \in 1 .. Len(pats) /\ pats \in Seq(Pattern) /\ task.pending \in Seq(Quad)
      /\ task' = task /\ store' = store /\ next' = next + 1 /\ state' = "running" /\ state = "running"
  BY LenProperties DEF JoinInv, Join, IsTask
<1>2. n \in Nat /\ n + 1 = next /\ (next + 1) - 1 = next /\ Len(pats) \in Nat /\ pat \in Pattern
  BY <1>1, LenProperties, ElementOfSeq
<1>3. VarsUpto(pats, next) = VarsUpto(pats, n) \cup (Slots(pat) \cap Var)
  <2>1. 1 .. next = 1 .. n \cup {next}
    BY <1>2
  <2> QED
    BY <2>1 DEF VarsUpto
<1>4. \A m : m \in solutions' <=> \E sol \in solutions : m \in Matches(pat, sol, store, task.pending, NoVars, EdgeTypes, task.values)
  BY DEF Join
<1>5. \A k \in 1 .. next : k = next \/ k \in 1 .. n
  BY <1>1, <1>2
<1>6. \A k \in 1 .. n : Slots(pats[k]) \cap Var \subseteq VarsUpto(pats, n)
  BY DEF VarsUpto
<1> HIDE DEF pending, plain
<1>12. \A k \in 1 .. n : k \in 1 .. Len(pats) /\ VarsUpto(pats, k - 1) \subseteq VarsUpto(pats, n)
  <2>1. \A k \in 1 .. n : k \in 1 .. Len(pats)
    BY <1>1, <1>2
  <2> QED
    BY <1>2, <2>1, VarsGrow
<1>13. ASSUME NEW m, NEW sol \in Solution, DOMAIN sol = VarsUpto(pats, n),
             \A v \in VarsUpto(pats, n) : m[v] = sol[v], NEW writes
       PROVE  Base(m, next, writes) = Seen(pat, sol, store, EdgeTypes) \cup writes
  <2>1. Prior(pats, m, next) = [v \in VarsUpto(pats, n) |-> m[v]]
    BY <1>1, <1>2, PriorIs
  <2>2. sol = [v \in DOMAIN sol |-> sol[v]]
    BY SolutionIs
  <2>3. Prior(pats, m, next) = sol
    BY <1>13, <2>1, <2>2
  <2> QED
    BY <2>3 DEF BaseAt
<1>7. ASSUME NEW m \in solutions'
      PROVE  m \in Solution /\ DOMAIN m = VarsUpto(pats, next) /\ AllMeet(m, next, pending)
  <2>1. PICK sol \in solutions : m \in Matches(pat, sol, store, task.pending, NoVars, EdgeTypes, task.values)
    BY <1>4
  <2>2. sol \in Solution /\ DOMAIN sol = VarsUpto(pats, n) /\ AllMeet(sol, n, pending)
    BY <1>1 DEF Joined, pending
  <2>3. /\ Widens(m, sol, Slots(pat)) /\ Meets(pat, m, store, Seen(pat, sol, store, EdgeTypes) \cup pending)
        /\ Showable(pat, m, task.values)
    BY <1>1, <1>2, <2>1, <2>2, MatchesSound DEF pending
  <2>5. \A v \in VarsUpto(pats, n) : m[v] = sol[v]
    BY <2>2, <2>3 DEF Widens
  <2>4. ASSUME NEW k \in 1 .. n
        PROVE  Meets(pats[k], m, store, Base(m, k, pending)) /\ Showable(pats[k], m, task.values)
    <3>1. \A v \in Slots(pats[k]) \cap Var : m[v] = sol[v]
      BY <1>6, <2>2, <2>3 DEF Widens
    <3>2. Base(m, k, pending) = Base(sol, k, pending)
      <4>1. k \in 1 .. Len(pats) /\ \A v \in VarsUpto(pats, k - 1) : m[v] = sol[v]
        BY <1>12, <2>5
      <4>2. Prior(pats, m, k) = Prior(pats, sol, k)
        BY <1>1, <4>1, PriorSame
      <4> QED
        BY <4>2 DEF BaseAt
    <3>3. Meets(pats[k], sol, store, Base(sol, k, pending)) /\ Showable(pats[k], sol, task.values)
      BY <2>2 DEF AllMeet
    <3> QED
      BY <3>1, <3>2, <3>3, MeetsAgrees
  <2>6. Meets(pat, m, store, Base(m, next, pending))
    <3>1. Base(m, next, pending) = Seen(pat, sol, store, EdgeTypes) \cup pending
      BY <1>13, <2>2, <2>5
    <3> QED
      BY <2>3, <3>1
  <2>7. \A k \in 1 .. next : Meets(pats[k], m, store, Base(m, k, pending)) /\ Showable(pats[k], m, task.values)
    BY <1>5, <2>3, <2>4, <2>6
  <2> QED
    BY <1>3, <2>2, <2>3, <2>7 DEF AllMeet, Widens
<1>8. ASSUME NEW m \in Solution, DOMAIN m = VarsUpto(pats, next),
             AllMeet(m, next, plain)
      PROVE  m \in solutions'
  <2> DEFINE vs == VarsUpto(pats, n)
             sol == [v \in vs |-> m[v]]
  <2>1. vs \subseteq DOMAIN m
    BY <1>3, <1>8
  <2>2. sol \in Solution /\ DOMAIN sol = vs /\ \A v \in vs : sol[v] = m[v]
    BY <2>1, Narrowed, Zenon
  <2> HIDE DEF sol, vs
  <2>3. Widens(m, sol, Slots(pat))
    BY <1>3, <1>8, <2>2 DEF Widens, vs
  <2>4. ASSUME NEW k \in 1 .. n
        PROVE  /\ Meets(pats[k], sol, store, Base(sol, k, plain))
               /\ Showable(pats[k], sol, task.values)
    <3>1. \A v \in Slots(pats[k]) \cap Var : m[v] = sol[v]
      BY <1>6, <2>2 DEF vs
    <3>2. k \in 1 .. next
      BY <1>2
    <3>3. Base(m, k, plain) = Base(sol, k, plain)
      <4>1. k \in 1 .. Len(pats) /\ \A v \in VarsUpto(pats, k - 1) : m[v] = sol[v]
        BY <1>12, <2>2 DEF vs
      <4>2. Prior(pats, m, k) = Prior(pats, sol, k)
        BY <1>1, <4>1, PriorSame
      <4> QED
        BY <4>2 DEF BaseAt
    <3>4. Meets(pats[k], m, store, Base(m, k, plain)) /\ Showable(pats[k], m, task.values)
      BY <1>8, <3>2 DEF AllMeet
    <3> QED
      BY <3>1, <3>3, <3>4, MeetsAgrees
  <2>5. sol \in solutions
    BY <1>1, <2>2, <2>4 DEF Joined, AllMeet, vs, plain
  <2>6. Meets(pat, m, store, Seen(pat, sol, store, EdgeTypes) \cup plain) /\ Showable(pat, m, task.values)
    <3>1. next \in 1 .. next
      BY <1>1, <1>2
    <3>2. Meets(pat, m, store, Base(m, next, plain)) /\ Showable(pat, m, task.values)
      BY <1>8, <3>1 DEF AllMeet
    <3> QED
      BY <1>13, <2>2, <3>2 DEF vs
  <2>7. m \in Matches(pat, sol, store, task.pending, NoVars, EdgeTypes, task.values)
    BY <1>1, <1>2, <2>2, <2>3, <2>6, MatchesComplete DEF plain
  <2> QED
    BY <1>4, <2>5, <2>7
<1>9. PICK i : i = next
  OBVIOUS
<1>10. Joined(i)'
  BY <1>1, <1>7, <1>8, <1>9 DEF Joined, AllMeet, pending, plain
<1>11. next' - 1 = i /\ next' \in 1 .. Len(pats) + 1
  BY <1>1, <1>2, <1>9
<1> QED
  BY <1>1, <1>10, <1>11 DEF JoinInv

\* Every step of the evaluator keeps the join invariant.
LEMMA EvaluatorSteps ==
  ASSUME JoinInv, DatalogNext
  PROVE  JoinInv'
<1>1. CASE Join
  BY <1>1, JoinStep
<1>2. CASE Answer
  <2>1. Joined(next - 1) => Joined(next - 1)'
    BY <1>2 DEF Answer, Joined, AllMeet
  <2>2. /\ IsTask(task) /\ store \subseteq Quad /\ next \in 1 .. Len(task.patterns) + 1 /\ Joined(next - 1)
        /\ next > Len(task.patterns) \/ solutions = {}
        /\ Len(task.patterns) \in Nat
    BY <1>2, LenProperties DEF Answer, JoinInv, IsTask
  <2>3. next = Len(task.patterns) + 1 \/ solutions = {}
    BY <2>2
  <2> QED
    BY <1>2, <2>1, <2>2, <2>3 DEF Answer, JoinInv
<1>3. CASE Apply \/ EndRound
  BY <1>3 DEF Apply, EndRound, JoinInv
<1>4. CASE Timeout
  <2>1. Joined(next - 1) => Joined(next - 1)'
    BY <1>4 DEF Timeout, Joined, AllMeet
  <2> QED
    BY <1>4, <2>1 DEF Timeout, JoinInv
<1> QED
  BY <1>1, <1>2, <1>3, <1>4 DEF DatalogNext, Step

\* A path ends with an edge.
LEMMA PathEnds ==
  ASSUME NEW x, NEW y, NEW n \in Nat, NEW edges, Path(x, y, n, edges)
  PROVE  \E e \in edges : e[2] = y
<1>1. PICK m \in 1 .. n : \E walk \in [0 .. m -> Node] :
         walk[0] = x /\ walk[m] = y /\ \A i \in 1 .. m : <<walk[i - 1], walk[i]>> \in edges
  BY DEF Path
<1>2. PICK walk \in [0 .. m -> Node] :
         walk[0] = x /\ walk[m] = y /\ \A i \in 1 .. m : <<walk[i - 1], walk[i]>> \in edges
  BY <1>1
<1>3. m \in 1 .. m /\ <<walk[m - 1], y>> \in edges
  BY <1>2
<1> QED
  BY <1>3

\* What a pattern binds a variable to, stands in the variable's slot of a fact.
LEMMA BoundInRange ==
  ASSUME NEW pats \in Seq(Pattern), NEW k \in DOMAIN pats, NEW a \in Solution, NEW quads, quads \subseteq Quad,
         NEW base, NEW all, quads \subseteq all, base \subseteq all, all \subseteq Quad,
         Meets(pats[k], a, quads, base), NEW v, v \in Slots(pats[k]), v \in Var, v \in DOMAIN a
  PROVE  a[v] \in TermsFor(v, pats, all)
<1> DEFINE pat == pats[k]
           found == {t \in {q.s : q \in all} : pat.s = v} \cup {t \in {q.p : q \in all} : pat.p = v}
                    \cup {t \in {q.o : q \in all} : pat.o = v} \cup {t \in Graph : pat.g = v}
<1>1. found \subseteq TermsFor(v, pats, all)
  BY DEF TermsFor
<1>2. pat \in Pattern
  BY LenProperties, ElementOfSeq
<1>3. a[v] # Blank /\ Value(v, a) = a[v]
  <2>1. a[v] \in Term
    BY SolutionIs
  <2> QED
    BY <2>1, TermsAreDistinct DEF Term, Value
<1>4. CASE pat.hops # Unlimited
  <2> DEFINE edges == Edges(pat.p, quads)
  <2>1. pat.hops \in Nat /\ edges = PathEdges(quads)[pat.p] /\ (pat.s = v \/ pat.o = v)
    BY <1>2, <1>4 DEF Pattern, Slots, Meets, Satisfies, PathEdges
  <2>2. PICK x \in Node : \E y \in Node :
          /\ Value(pat.s, a) \in {Blank, x} /\ Value(pat.o, a) \in {Blank, y}
          /\ Path(x, y, pat.hops, edges)
    BY <1>4, <2>1 DEF Meets, Satisfies
  <2>7. PICK y \in Node :
          /\ Value(pat.s, a) \in {Blank, x} /\ Value(pat.o, a) \in {Blank, y}
          /\ Path(x, y, pat.hops, edges)
    BY <2>2
  <2>3. (\E e \in edges : e[1] = x) /\ (\E e \in edges : e[2] = y)
    BY <2>1, <2>7, PathStarts, PathEnds
  <2>4. (\E q \in all : q.s = x) /\ (\E q \in all : q.o = y)
    <3>1. \A e \in edges : \E q \in quads : e = <<q.s, q.o>>
      BY DEF Edges
    <3> HIDE DEF edges
    <3> QED
      BY <2>3, <3>1
  <2>5. (pat.s = v => a[v] = x) /\ (pat.o = v => a[v] = y)
    BY <1>3, <2>7
  <2>6. a[v] \in found
    BY <2>1, <2>4, <2>5
  <2> QED
    BY <1>1, <2>6
<1>5. CASE pat.hops = Unlimited
  <2>1. PICK q \in base :
          /\ Value(pat.s, a) \in {Blank, q.s} /\ Value(pat.p, a) \in {Blank, q.p}
          /\ Value(pat.o, a) \in {Blank, q.o}
          /\ pat.g # Union => Value(pat.g, a) = q.g
    BY <1>5 DEF Meets, Satisfies
  <2>2. pat.s = v \/ pat.p = v \/ pat.o = v \/ pat.g = v
    BY <1>5 DEF Slots
  <2>3. pat.g = v => a[v] \in Graph
    <3>1. pat.g = v => a[v] = q.g /\ a[v] # Default
      BY <1>3, <1>5, <2>1, TermsAreDistinct DEF Meets
    <3> QED
      BY <3>1 DEF Quad
  <2>4. a[v] \in found
    BY <1>3, <2>1, <2>2, <2>3
  <2> QED
    BY <1>1, <2>4
<1> QED
  BY <1>4, <1>5

\* What assigns terms in range is a solution, which has no default graph.
LEMMA AssignmentsAreSolutions ==
  ASSUME NEW pats \in Seq(Pattern), NEW base, base \subseteq Quad, NEW a \in Assignments(pats, base)
  PROVE  /\ a \in Solution /\ DOMAIN a = VarsOf(pats)
         /\ \A v \in DOMAIN a : a[v] # Default
<1>1. \A v : TermsFor(v, pats, base) \subseteq Term \ {Default}
  <2> TAKE v
  <2>1. \A q \in base : q.s \in Node /\ q.p \in Pred /\ q.o \in Node \cup Literal
    BY DEF Quad
  <2>2. Node \cup Pred \cup Literal \cup Graph \subseteq Term \ {Default}
    BY TermsAreDistinct, GraphsAreNodes DEF Term
  <2> QED
    BY <2>1, <2>2 DEF TermsFor
<1> DEFINE vs == VarsOf(pats)
           terms == UNION {TermsFor(v, pats, base) : v \in vs}
<1>2. a \in [vs -> terms] /\ \A v \in vs : a[v] \in TermsFor(v, pats, base)
  BY DEF Assignments
<1>3. vs \in SUBSET Var
  BY DEF VarsOf
<1> HIDE DEF vs, terms
<1>4. a \in [vs -> Term] /\ \A v \in vs : a[v] # Default
  BY <1>1, <1>2
<1>5. a \in Solution
  BY <1>3, <1>4, SolutionIs
<1> QED
  BY <1>4, <1>5 DEF vs

\* The answers of patterns without rules are the assignments that satisfy each of them.
LEMMA PatternsMean ==
  ASSUME NEW pats \in Seq(Pattern), NEW quads, quads \subseteq Quad, NEW pending, pending \subseteq Quad,
         NEW types, NEW a
  PROVE  a \in Answers(pats, quads, pending, {}, types) <=>
           /\ a \in Solution /\ DOMAIN a = VarsOf(pats)
           /\ \A k \in DOMAIN pats : Meets(pats[k], a, quads, BaseAt(pats, a, k, quads, pending, types))
<1> DEFINE all == quads \cup pending
           Base(k) == BaseAt(pats, a, k, quads, pending, types)
<1>1. a \in Answers(pats, quads, pending, {}, types) <=>
        /\ a \in Assignments(pats, all)
        /\ \A k \in DOMAIN pats : Satisfies(pats[k], a, quads, Base(k), Base(k), PathEdges(quads))
  <2>1. \A k : Base(k) \cup {} = Base(k) /\ quads \cup pending \cup {} = all
    OBVIOUS
  <2> QED
    BY <2>1 DEF Answers, PathEdges, BaseAt
<1>2. \A k \in DOMAIN pats : Slots(pats[k]) \cap Var \subseteq VarsOf(pats)
  BY DEF VarsOf
<1>5. all \subseteq Quad /\ quads \subseteq all /\ \A k : Base(k) \subseteq all
  BY SeenIs DEF BaseAt
<1> HIDE DEF Base, all
<1>3. ASSUME a \in Assignments(pats, all), NEW k \in DOMAIN pats,
             Satisfies(pats[k], a, quads, Base(k), Base(k), PathEdges(quads))
      PROVE  Meets(pats[k], a, quads, Base(k))
  <2>1. DOMAIN a = VarsOf(pats) /\ \A v \in DOMAIN a : a[v] # Default
    BY <1>3, <1>5, AssignmentsAreSolutions
  <2>2. pats[k].hops = Unlimited /\ pats[k].g \in Var => pats[k].g \in DOMAIN a
    BY <1>2, <2>1 DEF Slots
  <2> QED
    BY <1>3, <2>1, <2>2 DEF Meets
<1>4. ASSUME a \in Solution, DOMAIN a = VarsOf(pats), \A k \in DOMAIN pats : Meets(pats[k], a, quads, Base(k))
      PROVE  a \in Assignments(pats, all)
  <2> DEFINE vs == VarsOf(pats)
             terms == UNION {TermsFor(v, pats, all) : v \in vs}
  <2>1. ASSUME NEW v \in vs
        PROVE  a[v] \in TermsFor(v, pats, all)
    <3>1. PICK k \in DOMAIN pats : v \in Slots(pats[k]) \cap Var
      BY DEF VarsOf
    <3>2. Meets(pats[k], a, quads, Base(k)) /\ Base(k) \subseteq all
      BY <1>4, <1>5
    <3> QED
      BY <1>4, <1>5, <3>1, <3>2, BoundInRange
  <2>2. a \in [vs -> terms]
    <3>1. a \in [DOMAIN a -> Term]
      BY <1>4, SolutionIs
    <3>2. \A v \in vs : a[v] \in terms
      BY <2>1
    <3> HIDE DEF terms
    <3> QED
      BY <1>4, <3>1, <3>2
  <2> QED
    BY <2>1, <2>2 DEF Assignments
<1>6. a \in Assignments(pats, all) => a \in Solution /\ DOMAIN a = VarsOf(pats)
  BY <1>5, AssignmentsAreSolutions
<1>7. \A k \in DOMAIN pats : Meets(pats[k], a, quads, Base(k)) =>
                              Satisfies(pats[k], a, quads, Base(k), Base(k), PathEdges(quads))
  BY DEF Meets
<1> QED
  BY <1>1, <1>3, <1>4, <1>6, <1>7 DEF Base

\* When all patterns are joined, the solutions are the answers.
LEMMA JoinedIsMeant ==
  ASSUME JoinInv
  PROVE  JoinIsConjunction
<1> SUFFICES ASSUME state = "done", task.kind = "query"
             PROVE  JoinIsConjunction
  BY DEF JoinIsConjunction
<1> DEFINE pats == task.patterns
           n == Len(pats)
           plain == Plain(task.pending, store)
           all == Elements(task.pending)
           Base(a, k, pending) == BaseAt(pats, a, k, store, pending, EdgeTypes)
<1>1. /\ pats \in Seq(Pattern) /\ all \subseteq Quad /\ store \subseteq Quad
      /\ next \in 1 .. n + 1 /\ Joined(next - 1) /\ (next = n + 1 \/ solutions = {})
  BY PendingAre DEF JoinInv, IsTask
<1>2. n \in Nat /\ DOMAIN pats = 1 .. n
  BY <1>1, LenProperties
<1>3. plain \subseteq all /\ {t \in Elements(task.pending) : ~MeetsOther(t)} = plain
  BY DEF Plain, MeetsOther
<1>4. VarsUpto(pats, n) = VarsOf(pats)
  BY <1>2 DEF VarsUpto, VarsOf
<1>5. \A a : task.values \/ NodesOnly(pats, a) <=> \A k \in 1 .. n : Showable(pats[k], a, task.values)
  BY <1>2 DEF NodesOnly, Showable
<1>6. ASSUME NEW pending \in SUBSET all, NEW a
      PROVE  a \in Meant(pending) <=>
               /\ a \in Solution /\ DOMAIN a = VarsUpto(pats, n)
               /\ AllMeet(a, n, pending)
  <2>1. a \in Answers(pats, store, pending, {}, EdgeTypes) <=>
           /\ a \in Solution /\ DOMAIN a = VarsOf(pats)
           /\ \A k \in DOMAIN pats : Meets(pats[k], a, store, Base(a, k, pending))
    BY <1>1, PatternsMean
  <2> QED
    BY <1>2, <1>4, <1>5, <2>1 DEF AllMeet, Meant
<1>7. ASSUME NEW a \in Meant(plain)
      PROVE  a \in solutions
  <2> DEFINE vs == VarsUpto(pats, next - 1)
             b == [v \in vs |-> a[v]]
  <2>1. a \in Solution /\ DOMAIN a = VarsUpto(pats, n) /\ AllMeet(a, n, plain)
    BY <1>3, <1>6
  <2>2. \A k \in 1 .. next - 1 : k \in 1 .. n
    BY <1>1, <1>2
  <2>3. vs \subseteq DOMAIN a
    BY <2>1, <2>2 DEF VarsUpto
  <2>4. b \in Solution /\ DOMAIN b = vs /\ \A v \in vs : b[v] = a[v]
    BY <2>1, <2>3, Narrowed, Zenon
  <2>5. \A k \in 1 .. next - 1 : Slots(pats[k]) \cap Var \subseteq vs
    BY DEF VarsUpto
  <2> HIDE DEF b, vs
  <2>6. ASSUME NEW k \in 1 .. next - 1
        PROVE  Meets(pats[k], b, store, Base(b, k, plain)) /\ Showable(pats[k], b, task.values)
    <3>1. \A v \in Slots(pats[k]) \cap Var : b[v] = a[v]
      BY <2>4, <2>5
    <3>2. Meets(pats[k], a, store, Base(a, k, plain)) /\ Showable(pats[k], a, task.values)
      BY <2>1, <2>2 DEF AllMeet
    <3>3. k \in 1 .. Len(pats) /\ VarsUpto(pats, k - 1) \subseteq vs
      BY <1>1, <1>2, <2>2, VarsGrow DEF vs
    <3>5. \A v \in VarsUpto(pats, k - 1) : a[v] = b[v]
      BY <2>4, <3>3
    <3>4. Base(a, k, plain) = Base(b, k, plain)
      <4>1. Prior(pats, a, k) = Prior(pats, b, k)
        BY <1>1, <3>3, <3>5, PriorSame
      <4> QED
        BY <4>1 DEF BaseAt
    <3> HIDE DEF Base
    <3> QED
      BY <3>1, <3>2, <3>4, MeetsAgrees
  <2>7. b \in solutions
    BY <1>1, <2>4, <2>6 DEF Joined, AllMeet, vs
  <2>8. next - 1 = n
    BY <1>1, <1>2, <2>7
  <2>9. b = a
    BY <2>1, <2>4, <2>8, SameSolution DEF vs
  <2> QED
    BY <2>7, <2>9
<1>8. ASSUME NEW a \in solutions
      PROVE  a \in Meant(all)
  <2>1. next - 1 = n
    BY <1>1, <1>2
  <2> QED
    BY <1>1, <1>6, <2>1 DEF Joined
<1> HIDE DEF plain
<1> QED
  BY <1>3, <1>7, <1>8 DEF JoinIsConjunction

-----------------------------------------------------------------------------
(* Functions that take a step per index *)

Steps(S, n) == [(1 .. n) \X S -> S]

Runs(f, S, start, n, step) ==
  f \in [0 .. n -> S] /\ f[0] = start /\ \A k \in 1 .. n : f[k] = step[<<k, f[k - 1]>>]

\* A step for each number has a run through all of them.
LEMMA RunsExist ==
  ASSUME NEW S, NEW start \in S, NEW n \in Nat, NEW step \in Steps(S, n)
  PROVE  \E f : Runs(f, S, start, n, step)
<1> USE DEF Steps
<1> DEFINE RunsTo(m, f) == Runs(f, S, start, m, step)
           wrong == {m \in 0 .. n : ~\E f : RunsTo(m, f)}
<1>1. RunsTo(0, [k \in 0 .. 0 |-> start])
  BY DEF Runs
<1>2. ASSUME NEW m \in 1 .. n, NEW f, RunsTo(m - 1, f)
      PROVE  RunsTo(m, [k \in 0 .. m |-> IF k = m THEN step[<<m, f[m - 1]>>] ELSE f[k]])
  <2> DEFINE h == [k \in 0 .. m |-> IF k = m THEN step[<<m, f[m - 1]>>] ELSE f[k]]
  <2> USE DEF Runs
  <2>1. f[m - 1] \in S /\ step[<<m, f[m - 1]>>] \in S
    <3>1. f[m - 1] \in S
      BY <1>2
    <3>2. <<m, f[m - 1]>> \in (1 .. n) \X S
      BY <3>1
    <3> QED
      BY <3>1, <3>2
  <2>2. h \in [0 .. m -> S] /\ h[0] = start
    BY <1>2, <2>1
  <2>3. ASSUME NEW k \in 1 .. m
        PROVE  h[k] = step[<<k, h[k - 1]>>]
    <3>1. h[k - 1] = f[k - 1] /\ h[m] = step[<<m, f[m - 1]>>] /\ (k # m => k \in 1 .. m - 1 /\ h[k] = f[k])
      OBVIOUS
    <3> HIDE DEF h
    <3> QED
      BY <1>2, <3>1
  <2> QED
    BY <2>2, <2>3
<1> HIDE DEF RunsTo
<1>3. wrong = {}
  <2> SUFFICES ASSUME wrong # {} PROVE FALSE
    OBVIOUS
  <2>1. PICK m \in wrong : \A u \in wrong : m <= u
    <3>1. wrong \in SUBSET Nat
      OBVIOUS
    <3> HIDE DEF wrong
    <3> QED
      BY <3>1, LeastOf
  <2>2. m \in 1 .. n
    BY <1>1
  <2>3. \E f : RunsTo(m - 1, f)
    BY <2>1, <2>2
  <2> QED
    BY <1>2, <2>2, <2>3
<1> QED
  BY <1>3 DEF RunsTo

\* f is what is sifted of each beginning of the sequence.
SiftRun(f, seq, set) ==
  /\ Sifted(seq, set) = f[Len(seq)]
  /\ f[0] = <<>>
  /\ \A k \in 1 .. Len(seq) : f[k] = IF seq[k] \in set THEN Append(f[k - 1], seq[k]) ELSE f[k - 1]
  /\ \A k \in 0 .. Len(seq) : f[k] \in Seq(set)

\* Sifted has a run, element by element.
LEMMA SiftRuns ==
  ASSUME NEW seq, Len(seq) \in Nat, NEW set
  PROVE  \E f : SiftRun(f, seq, set)
<1> DEFINE n == Len(seq)
           S == Seq(set)
           next1(k, s) == IF seq[k] \in set THEN Append(s, seq[k]) ELSE s
           step == [p \in (1 .. n) \X S |-> next1(p[1], p[2])]
           sifted[k \in 0 .. n] == IF k = 0 THEN <<>> ELSE next1(k, sifted[k - 1])
<1>1. \A k, s : s \in S => next1(k, s) \in S
  BY AppendProperties
<1>2. <<>> \in S
  OBVIOUS
<1>3. Sifted(seq, set) = sifted[n]
  BY DEF Sifted
<1> HIDE DEF S, next1
<1>4. step \in [(1 .. n) \X S -> S] /\ \A k \in 1 .. n : \A s \in S : step[<<k, s>>] = next1(k, s)
  BY <1>1
<1> n \in Nat
  OBVIOUS
<1> HIDE DEF step, n
<1>5. PICK f : Runs(f, S, <<>>, n, step)
  <2>1. step \in Steps(S, n)
    BY <1>4 DEF Steps
  <2> QED
    BY <1>2, <2>1, RunsExist
<1>6. \A k \in 0 .. n : f[k] = IF k = 0 THEN <<>> ELSE next1(k, f[k - 1])
  <2> TAKE k \in 0 .. n
  <2>1. k # 0 => k \in 1 .. n /\ k - 1 \in 0 .. n
    OBVIOUS
  <2> QED
    BY <1>4, <1>5, <2>1 DEF Runs
<1>7. f = [k \in 0 .. n |-> IF k = 0 THEN <<>> ELSE next1(k, f[k - 1])]
  BY <1>5, <1>6 DEF Runs
<1>8. sifted = [k \in 0 .. n |-> IF k = 0 THEN <<>> ELSE next1(k, sifted[k - 1])]
  BY <1>7
<1> HIDE DEF sifted
<1> DEFINE wrong == {k \in 0 .. n : sifted[k] \notin S}
<1>9. wrong = {}
  <2> SUFFICES ASSUME wrong # {} PROVE FALSE
    OBVIOUS
  <2>1. PICK m \in wrong : \A u \in wrong : m <= u
    <3>1. wrong \in SUBSET Nat
      OBVIOUS
    <3> HIDE DEF wrong
    <3> QED
      BY <3>1, LeastOf
  <2>2. m # 0
    BY <1>2, <1>8
  <2>3. sifted[m - 1] \in S
    BY <2>1, <2>2
  <2> QED
    BY <1>1, <1>8, <2>2, <2>3
<1>10. \A k \in 0 .. n : sifted[k] \in S
  BY <1>9
<1>11. sifted[0] = <<>> /\ \A k \in 1 .. n : sifted[k] = next1(k, sifted[k - 1])
  BY <1>8
<1>12. SiftRun(sifted, seq, set)
  BY <1>3, <1>10, <1>11 DEF SiftRun, S, next1, n
<1> QED
  BY <1>12

\* What is sifted is a sequence of the set's elements.
LEMMA SiftedIs ==
  ASSUME NEW seq, Len(seq) \in Nat, NEW set
  PROVE  Sifted(seq, set) \in Seq(set)
<1>1. PICK f : SiftRun(f, seq, set)
  BY SiftRuns
<1> QED
  BY <1>1 DEF SiftRun

\* There are finitely many solutions, which can be put in an order.
LEMMA SolutionsAreFinite == \A set \in SUBSET Solution : IsFiniteSet(set) /\ Cardinality(set) \in Nat
<1> DEFINE pairs == SUBSET (Var \X Term)
           pairsOf(b) == {<<v, b[v]>> : v \in DOMAIN b}
           f == [b \in Solution |-> pairsOf(b)]
<1>1. IsFiniteSet(Term)
  BY TermsAreFinite, FS_Union, FS_Singleton DEF Term
<1>2. IsFiniteSet(pairs)
  BY <1>1, TermsAreFinite, FS_Product, FS_SUBSET
<1>3. \A b \in Solution : pairsOf(b) \in pairs
  BY SolutionIs
<1>4. ASSUME NEW a \in Solution, NEW b \in Solution, pairsOf(a) = pairsOf(b)
      PROVE  a = b
  <2>1. \A v, x : <<v, x>> \in pairsOf(a) <=> v \in DOMAIN a /\ x = a[v]
    OBVIOUS
  <2>2. \A v, x : <<v, x>> \in pairsOf(b) <=> v \in DOMAIN b /\ x = b[v]
    OBVIOUS
  <2> HIDE DEF pairsOf
  <2>3. DOMAIN a = DOMAIN b /\ \A v \in DOMAIN a : a[v] = b[v]
    BY <1>4, <2>1, <2>2
  <2> QED
    BY <2>3, SameSolution
<1> HIDE DEF pairs, pairsOf
<1>5. f \in Injection(Solution, pairs)
  BY <1>3, <1>4 DEF Injection, IsInjective
<1> HIDE DEF f
<1>6. IsFiniteSet(Solution)
  BY <1>2, <1>5, FS_Injection
<1> QED
  BY <1>6, FS_Subset, FS_CardinalityType

\* What a batch holds before the adds.
BatchStart(closed) ==
  [windows |-> [q \in {w.quad : w \in closed} |->
                  LET w == CHOOSE w \in closed : w.quad = q IN [start |-> w.start, end |-> w.end]],
   values |-> {[quad |-> w.quad, end |-> w.end] : w \in {w \in closed : w.quad.o \in Literal}}]

\* The windows that a batch may write.
BatchWindows(closed) ==
  {BatchStart(closed).windows[q] : q \in {w.quad : w \in closed}}
  \cup {[start |-> NewestByTt(stored[r]).start, end |-> 0] : r \in DOMAIN stored}
  \cup {[start |-> 0, end |-> EndOfTime], [start |-> 0, end |-> 0]}

Batches(closed) ==
  [windows : UNION {[D -> BatchWindows(closed)] : D \in SUBSET Quad},
   values : SUBSET [quad : Quad, end : {w.end : w \in closed} \cup {EndOfTime}]]

\* f is the batch after each of the adds.
BatchRun(f, closed, adds, auto) ==
  /\ Batch(closed, adds, auto) = f[Len(adds)].windows
  /\ f[0] = BatchStart(closed)
  /\ \A k \in 1 .. Len(adds) : f[k] = Stage(f[k - 1], adds[k], auto)
  /\ \A k \in 0 .. Len(adds) : f[k] \in Batches(closed)

\* Batch has a run, which stages the adds one by one behind the closes.
LEMMA BatchRuns ==
  ASSUME DOMAIN stored \subseteq Quad, NEW closed, \A w \in closed : w.quad \in Quad, NEW adds \in Seq(Quad),
         NEW auto
  PROVE  \E f : BatchRun(f, closed, adds, auto)
<1> DEFINE n == Len(adds)
           windows == [q \in {w.quad : w \in closed} |->
                         LET w == CHOOSE w \in closed : w.quad = q IN [start |-> w.start, end |-> w.end]]
           values == {[quad |-> w.quad, end |-> w.end] : w \in {w \in closed : w.quad.o \in Literal}}
           window(r) == [start |-> NewestByTt(stored[r]).start, end |-> 0]
           W == BatchWindows(closed)
           E == {w.end : w \in closed} \cup {EndOfTime}
           S == Batches(closed)
           start == [windows |-> windows, values |-> values]
           stage(k, b) == Stage(b, adds[k], auto)
           step == [p \in (1 .. n) \X S |-> stage(p[1], p[2])]
           staged[k \in 0 .. n] == IF k = 0 THEN start ELSE stage(k, staged[k - 1])
<1> n \in Nat
  BY LenProperties
<1>1. Batch(closed, adds, auto) = staged[n].windows
  BY DEF Batch
<1>0. start = BatchStart(closed)
  BY DEF BatchStart
<1>2. start \in S
  <2>1. windows \in [DOMAIN windows -> W] /\ DOMAIN windows \in SUBSET Quad
    <3>1. \A q \in DOMAIN windows : windows[q] \in W
      BY DEF BatchStart, BatchWindows
    <3> QED
      BY <3>1
  <2>2. values \subseteq [quad : Quad, end : E]
    OBVIOUS
  <2> HIDE DEF windows, values, W, E
  <2> QED
    BY <2>1, <2>2 DEF Batches, E, W
<1>3. ASSUME NEW k \in 1 .. n, NEW b \in S
      PROVE  stage(k, b) \in S
  <2> DEFINE q == adds[k]
             always == [start |-> 0, end |-> EndOfTime]
             mine == {e \in b.values : SameSlot(e.quad, q)}
             quads == {e.quad : e \in mine}
             open == {e.quad : e \in {e \in mine : e.end = EndOfTime}}
             shut == IF Replaces(q, auto) THEN (OpenValues(q) \ quads) \cup open ELSE {}
             D == DOMAIN b.windows \cup shut \cup {q}
             ws == [r \in D |-> IF r = q THEN always
                                ELSE IF r \notin shut THEN b.windows[r]
                                ELSE IF r \in open THEN [start |-> 0, end |-> 0] ELSE window(r)]
             vs == (IF Replaces(q, auto) THEN b.values \ mine ELSE b.values)
                     \cup IF q.o \in Literal THEN {[quad |-> q, end |-> EndOfTime]} ELSE {}
  <2>1. stage(k, b) = [windows |-> ws, values |-> vs]
    BY DEF Stage
  <2>2. q \in Quad
    BY ElementOfSeq
  <2>3. PICK B \in SUBSET Quad : b.windows \in [B -> W]
    BY DEF Batches
  <2>4. b.values \subseteq [quad : Quad, end : E]
    BY DEF Batches
  <2>5. open \subseteq Quad /\ OpenValues(q) \subseteq DOMAIN stored
    BY <2>4 DEF OpenValues
  <2>6. always \in W /\ [start |-> 0, end |-> 0] \in W /\ \A r \in DOMAIN stored : window(r) \in W
    BY DEF BatchWindows
  <2>7. shut \subseteq Quad /\ \A r \in shut : r \in open \/ r \in DOMAIN stored
    BY <2>5
  <2> HIDE DEF S, W, E, window, always, open, quads, shut, mine, q
  <2>8. D \in SUBSET Quad /\ ws \in [D -> W]
    BY <2>2, <2>3, <2>6, <2>7
  <2>9. vs \subseteq [quad : Quad, end : E]
    BY <2>2, <2>4 DEF E
  <2> HIDE DEF D, ws, vs
  <2> QED
    BY <2>1, <2>8, <2>9 DEF S, W, E, Batches
<1> HIDE DEF S, stage, start
<1>4. step \in Steps(S, n) /\ \A k \in 1 .. n : \A b \in S : step[<<k, b>>] = stage(k, b)
  BY <1>3 DEF Steps
<1> HIDE DEF step
<1>5. PICK f : Runs(f, S, start, n, step)
  BY <1>2, <1>4, RunsExist
<1>6. \A k \in 0 .. n : f[k] = IF k = 0 THEN start ELSE stage(k, f[k - 1])
  <2> TAKE k \in 0 .. n
  <2>1. k # 0 => k \in 1 .. n /\ k - 1 \in 0 .. n
    OBVIOUS
  <2> QED
    BY <1>4, <1>5, <2>1 DEF Runs
<1>7. f = [k \in 0 .. n |-> IF k = 0 THEN start ELSE stage(k, f[k - 1])]
  BY <1>5, <1>6 DEF Runs
<1>8. staged = [k \in 0 .. n |-> IF k = 0 THEN start ELSE stage(k, staged[k - 1])]
  BY <1>7
<1> HIDE DEF staged
<1> DEFINE wrong == {k \in 0 .. n : staged[k] \notin S}
<1>9. wrong = {}
  <2> SUFFICES ASSUME wrong # {} PROVE FALSE
    OBVIOUS
  <2>1. PICK m \in wrong : \A u \in wrong : m <= u
    <3>1. wrong \in SUBSET Nat
      OBVIOUS
    <3> HIDE DEF wrong
    <3> QED
      BY <3>1, LeastOf
  <2>2. m # 0
    BY <1>2, <1>8
  <2>3. staged[m - 1] \in S
    BY <2>1, <2>2
  <2> QED
    BY <1>3, <1>8, <2>2, <2>3
<1>10. \A k \in 0 .. n : staged[k] \in S
  BY <1>9
<1>11. staged[0] = start /\ \A k \in 1 .. n : staged[k] = stage(k, staged[k - 1])
  BY <1>8
<1>12. BatchRun(staged, closed, adds, auto)
  BY <1>0, <1>1, <1>10, <1>11 DEF BatchRun, S, stage, start
<1> QED
  BY <1>12

\* A commit writes quads: those that it closes, adds or replaces.
LEMMA BatchWritesQuads ==
  ASSUME DOMAIN stored \subseteq Quad, NEW closed, \A w \in closed : w.quad \in Quad, NEW adds \in Seq(Quad),
         NEW auto
  PROVE  LET windows == Batch(closed, adds, auto)
         IN  /\ DOMAIN windows \subseteq Quad
             /\ \A q \in DOMAIN windows : windows[q] \in BatchWindows(closed)
<1>1. PICK f : BatchRun(f, closed, adds, auto)
  BY BatchRuns
<1>2. Len(adds) \in 0 .. Len(adds)
  BY LenProperties
<1>3. Batch(closed, adds, auto) = f[Len(adds)].windows /\ f[Len(adds)] \in Batches(closed)
  BY <1>1, <1>2 DEF BatchRun
<1>4. PICK D \in SUBSET Quad : f[Len(adds)].windows \in [D -> BatchWindows(closed)]
  BY <1>3 DEF Batches
<1> QED
  BY <1>3, <1>4

-----------------------------------------------------------------------------
(* Requests around the evaluator *)

Stages == {"idle", "new", "compiling", "asking", "answered", "failed", "shown", "nothing", "applying", "resolved",
           "begun", "committing", "refused", "applied", "conflict"}

Changesets == [adds : Seq(Quad), retractions : SUBSET QuadRef]

\* What is stored, asked for and compiled has its type; only an update is
\* compiled, and the evaluator's solutions are solutions.
UpdateTypeOK ==
  /\ DOMAIN stored \subseteq Quad /\ outside \subseteq Quad /\ writing \subseteq Quad
  /\ ts \in Nat /\ \A q \in DOMAIN stored : \A v \in stored[q] : v.tt \in 0 .. ts
  /\ \A c \in Client : IsRequest(request[c])
  /\ at \in [Client -> Stages]
  /\ \A c \in Client :
       /\ at[c] = "compiling" => request[c].kind = "update"
       /\ at[c] = "asking" => request[c].kind \in {"query", "update"}
  /\ readAt \in [Client -> Nat] /\ seen \in [Client -> Nat]
  /\ begun \in [Client -> Nat] /\ committed \in [Client -> Nat]
  /\ op \in [Client -> Nat \ {0}] /\ branch \in [Client -> Nat \ {0}]
  /\ rows \in [Client -> SUBSET Solution]
  /\ changes \in [Client -> Changesets]
  /\ approved \in [Client -> BOOLEAN]
  /\ shown \in [Client -> SUBSET Quad]
  /\ closes = [c \in Client |-> closes[c]] /\ \A c \in Client : \A w \in closes[c] : w.quad \in Quad
  /\ asker \in Client
  /\ state \in {"idle", "running", "done", "timeout"}
  /\ solutions \subseteq Solution

\* One commit at a time is between its time and its write.
LockOK ==
  /\ \A c, d \in Client : at[c] = "committing" /\ at[d] = "committing" => c = d
  /\ writing # {} => \A c \in Client : at[c] # "committing"
  /\ Locked => 0 < ts /\ \A q \in DOMAIN stored : \A v \in stored[q] : v.tt < ts

UpdateInv == UpdateTypeOK /\ LockOK /\ JoinInv

\* A store of quads shows quads.
LEMMA ShowsQuads ==
  ASSUME DOMAIN stored \subseteq Quad
  PROVE  \A t : ShownAt(t) \subseteq Quad /\ Snapshot(t) \subseteq Quad
  BY DEF ShownAt, Snapshot

\* A commit adds versions of its own time.
LEMMA WrittenIs ==
  ASSUME UpdateTypeOK, NEW windows, DOMAIN windows \subseteq Quad, stored' = Written(windows), ts' = ts
  PROVE  /\ DOMAIN stored' \subseteq Quad
         /\ \A q \in DOMAIN stored' : \A v \in stored'[q] : v.tt \in 0 .. ts'
<1> DEFINE new(q) == {[start |-> windows[q].start, end |-> windows[q].end, tt |-> ts]}
<1>1. DOMAIN stored' = DOMAIN stored \cup DOMAIN windows
  BY DEF Written
<1>2. \A q \in DOMAIN stored' : stored'[q] = Of(q) \cup IF q \in DOMAIN windows THEN new(q) ELSE {}
  BY DEF Written
<1>3. \A q : \A v \in Of(q) : v.tt \in 0 .. ts
  BY DEF UpdateTypeOK, Of
<1>4. \A q : \A v \in new(q) : v.tt = ts
  OBVIOUS
<1> HIDE DEF new
<1>5. ts \in Nat
  BY DEF UpdateTypeOK
<1> QED
  BY <1>1, <1>2, <1>3, <1>4, <1>5 DEF UpdateTypeOK

\* A request that is compiling has an operation at hand.
LEMMA CurrentIs ==
  ASSUME UpdateTypeOK, NEW c \in Client, Compiling(c)
  PROVE  /\ request[c].kind = "update" /\ Current(c) \in Operation
<1>1. request[c].kind = "update" /\ IsRequest(request[c]) /\ op[c] \in Nat \ {0} /\ op[c] <= Len(request[c].ops)
  BY DEF UpdateTypeOK, Compiling
<1>2. request[c].ops \in Seq(Operation)
  BY <1>1 DEF IsRequest
<1>3. op[c] \in 1 .. Len(request[c].ops)
  BY <1>1, <1>2, LenProperties
<1> QED
  BY <1>1, <1>2, <1>3, ElementOfSeq DEF Current

\* The parts of an operation have their types.
LEMMA OperationIs ==
  ASSUME NEW o \in Operation
  PROVE  /\ o.kind = "insert" => o.quads \in Seq(Quad)
         /\ o.kind = "delete" => o.quads \in Seq(QuadRef)
         /\ o.kind = "modify" => /\ o.insert \in Seq(Template) /\ o.delete \in Seq(Template)
                                 /\ o.branches \in Seq(Seq(Pattern) \ {<<>>})
         /\ o.kind \in {"insert", "delete", "modify"}
  BY DEF Operation

\* Changesets stay changesets.
LEMMA ChangesetsStayTyped ==
  ASSUME NEW cs \in Changesets
  PROVE  /\ \A quads \in Seq(Quad) : Add(cs, quads) \in Changesets
         /\ \A refs \in SUBSET QuadRef : Retract(cs, refs) \in Changesets
<1> USE DEF Changesets
<1>1. ASSUME NEW quads \in Seq(Quad)
      PROVE  Add(cs, quads) \in Changesets
  <2>1. cs.adds \o quads \in Seq(Quad)
    BY ConcatProperties
  <2> QED
    BY <2>1 DEF Add
<1>2. ASSUME NEW refs \in SUBSET QuadRef
      PROVE  Retract(cs, refs) \in Changesets
  <2> DEFINE kept == {q \in Quad : ~\E r \in refs : Names(r, q)}
  <2>1. Sifted(cs.adds, kept) \in Seq(kept)
    BY LenProperties, SiftedIs
  <2>2. Seq(kept) \subseteq Seq(Quad)
    BY SeqDef
  <2>3. Retract(cs, refs) = [adds |-> Sifted(cs.adds, kept), retractions |-> cs.retractions \cup refs]
    BY DEF Retract
  <2> HIDE DEF kept
  <2> QED
    BY <2>1, <2>2, <2>3
<1> QED
  BY <1>1, <1>2

\* Templates filled with solutions are quads.
LEMMA FilledIs ==
  ASSUME NEW templates \in Seq(Template), NEW set \in SUBSET Solution, NEW sols \in Orders(set)
  PROVE  Filled(templates, sols) \in Seq(Quad)
<1> DEFINE n == Len(templates)
           fill(k) == Insertion(templates[((k - 1) % n) + 1], sols[((k - 1) \div n) + 1])
           m == n * Len(sols)
           all == [k \in 1 .. m |-> fill(k)]
<1>1. Cardinality(set) \in Nat /\ sols \in [1 .. Cardinality(set) -> set]
  BY SolutionsAreFinite DEF Orders
<1>2. n \in Nat /\ Len(sols) \in Nat
  BY <1>1, LenProperties
<1>3. m \in Nat
  BY <1>2
<1>4. Filled(templates, sols) = Sifted(all, Quad)
  BY DEF Filled
<1> HIDE DEF fill, m
<1>5. Len(all) = m
  BY <1>3
<1> HIDE DEF all
<1> QED
  BY <1>3, <1>4, <1>5, SiftedIs

\* The start states have their types and nothing is joined yet.
LEMMA UpdateInvInit == UpdateInit => UpdateInv
<1> SUFFICES ASSUME UpdateInit PROVE UpdateInv
  OBVIOUS
<1>1. PICK start \in Starts :
        stored = start.stored /\ ts = start.ts /\ request = start.request /\ outside = start.outside
  BY DEF UpdateInit
<1>2. /\ DOMAIN stored \subseteq Quad /\ outside \subseteq Quad /\ ts \in Nat
      /\ stored \in [DOMAIN stored -> SUBSET Version]
      /\ \A q \in DOMAIN stored : \A v \in stored[q] : v.tt <= ts
      /\ \A c \in Client : IsRequest(request[c])
  BY <1>1, StartsType
<1>3. \A q \in DOMAIN stored : \A v \in stored[q] : v.tt \in 0 .. ts
  <2> TAKE q \in DOMAIN stored
  <2> TAKE v \in stored[q]
  <2>1. v \in Version
    BY <1>2
  <2> QED
    BY <1>2, <2>1 DEF Version
<1>4. NoChanges \in Changesets
  BY DEF NoChanges, Changesets
<1>5. solutions \subseteq Solution /\ state = "idle"
  <2>1. NoVars \in [{} -> Term]
    BY DEF NoVars
  <2> QED
    BY <2>1, SolutionIs DEF UpdateInit, DatalogInit
<1>6. UpdateTypeOK
  BY <1>2, <1>3, <1>4, <1>5 DEF UpdateInit, UpdateTypeOK, Stages
<1>7. JoinInv
  BY <1>5 DEF JoinInv
<1>8. LockOK
  BY DEF UpdateInit, LockOK, Locked
<1> QED
  BY <1>6, <1>7, <1>8 DEF UpdateInv

\* What the evaluator holds when it starts, or is cleared.
LEMMA HoldingKeeps ==
  ASSUME NEW t, IsTask(t) \/ t.kind = "none", NEW quads, quads \subseteq Quad, NEW how \in {"idle", "running"},
         t.kind = "none" => how = "idle", Holding(t, quads, how)
  PROVE  JoinInv' /\ solutions' \subseteq Solution /\ state' \in {"idle", "running"}
<1>1. solutions' = {NoVars} /\ state' = how
  BY DEF Holding
<1>2. NoVars \in Solution
  <2>1. NoVars \in [{} -> Term]
    BY DEF NoVars
  <2> QED
    BY <2>1, SolutionIs
<1>3. t.kind = "none" => JoinInv'
  BY <1>1 DEF JoinInv
<1>4. IsTask(t) => JoinInv'
  BY StartsJoined
<1> QED
  BY <1>1, <1>2, <1>3, <1>4

\* The evaluator's own steps keep the type of its solutions.
LEMMA EvaluatorKeepsTypes ==
  ASSUME UpdateTypeOK, JoinInv, DatalogNext
  PROVE  state' \in {"idle", "running", "done", "timeout"} /\ solutions' \subseteq Solution
<1>1. CASE Join
  <2>1. JoinInv' /\ task'.kind = "query" /\ state' = "running"
    BY <1>1, JoinStep DEF Join
  <2> QED
    BY <2>1 DEF JoinInv, Joined
<1>2. CASE Answer \/ Apply \/ EndRound \/ Timeout
  BY <1>2 DEF Answer, Apply, EndRound, Timeout, UpdateTypeOK
<1> QED
  BY <1>1, <1>2 DEF DatalogNext, Step

\* Steps of others leave the solutions joined so far alone.
LEMMA EvaluatorAlone ==
  ASSUME JoinInv, UNCHANGED datalogVars
  PROVE  JoinInv'
<1>1. Joined(next - 1) => Joined(next - 1)'
  BY DEF datalogVars, Joined, AllMeet
<1> QED
  BY <1>1 DEF datalogVars, JoinInv

\* The parts of a request that steps of the same client may change.
LEMMA StagesKeepTypes ==
  ASSUME UpdateTypeOK, LockOK, NEW c \in Client,
         StartUpdate(c) \/ Compiled(c) \/ Approve(c) \/ ResolveRetractions(c) \/ BeginTx(c)
  PROVE  UpdateTypeOK'
<1> USE DEF Stages
<1>1. CASE StartUpdate(c)
  <2>1. request[c].kind = "update" /\ IsRequest(request[c]) /\ ts \in Nat
    BY <1>1 DEF StartUpdate, UpdateTypeOK
  <2>2. request[c].readTs \in Nat
    BY <2>1 DEF IsRequest
  <2>3. ShownAt(readAt'[c]) \in SUBSET Quad
    BY ShowsQuads DEF UpdateTypeOK
  <2>4. shown' \in [Client -> SUBSET Quad]
    BY <1>1, <2>3 DEF StartUpdate, UpdateTypeOK
  <2> QED
    BY <1>1, <2>1, <2>2, <2>4 DEF StartUpdate, UpdateTypeOK, datalogVars
<1>2. CASE Compiled(c)
  BY <1>2 DEF Compiled, UpdateTypeOK, datalogVars
<1>3. CASE Approve(c)
  BY <1>3 DEF Approve, UpdateTypeOK, datalogVars
<1>4. CASE ResolveRetractions(c)
  <2> DEFINE t == IF readAt[c] > 0 THEN readAt[c] ELSE ts
             closing == Closing(changes[c].retractions, t)
             last == IF t <= Settled THEN t ELSE Settled
  <2>1. last \in Nat
    BY DEF UpdateTypeOK, LockOK, Settled
  <2>2. \A w \in closing : w.quad \in DOMAIN stored
    BY DEF Closing
  <2>3. /\ seen' = [seen EXCEPT ![c] = last] /\ closes' = [closes EXCEPT ![c] = closing]
        /\ at' = [at EXCEPT ![c] = "resolved"]
        /\ UNCHANGED <<stored, ts, outside, writing, request, readAt, shown, op, branch, rows, changes, approved, begun, committed,
                       asker, state, solutions>>
    BY <1>4 DEF ResolveRetractions, datalogVars
  <2> HIDE DEF t, closing, last
  <2> QED
    BY <2>1, <2>2, <2>3 DEF UpdateTypeOK
<1>5. CASE BeginTx(c)
  BY <1>5 DEF BeginTx, UpdateTypeOK, datalogVars
<1> QED
  BY <1>1, <1>2, <1>3, <1>4, <1>5

\* Compiling an operation keeps the types.
LEMMA CompilingKeepsTypes ==
  ASSUME UpdateTypeOK, NEW c \in Client, CompileData(c) \/ CompileTemplates(c)
  PROVE  UpdateTypeOK'
<1>1. Current(c) \in Operation /\ changes[c] \in Changesets
  BY CurrentIs DEF CompileData, CompileTemplates, UpdateTypeOK
<1>2. CASE CompileData(c)
  <2> DEFINE cs == IF Current(c).kind = "insert" THEN Add(changes[c], Current(c).quads)
                   ELSE Retract(changes[c], Elements(Current(c).quads))
  <2>1. Current(c).kind # "insert" => Elements(Current(c).quads) \in SUBSET QuadRef
    <3>1. Current(c).kind # "insert" => Current(c).quads \in Seq(QuadRef)
      BY <1>1, <1>2, OperationIs DEF CompileData
    <3> QED
      BY <3>1, ElementOfSeq, LenProperties DEF Elements
  <2>2. cs \in Changesets
    BY <1>1, <2>1, OperationIs, ChangesetsStayTyped
  <2>3. /\ changes' = [changes EXCEPT ![c] = cs] /\ op' = [op EXCEPT ![c] = @ + 1]
        /\ UNCHANGED <<stored, ts, outside, writing, request, at, readAt, shown, branch, rows, approved, seen, closes, begun,
                       committed, asker, state, solutions>>
    BY <1>2 DEF CompileData, datalogVars, UpdateTypeOK
  <2> HIDE DEF cs
  <2> QED
    BY <2>2, <2>3 DEF UpdateTypeOK
<1>3. CASE CompileTemplates(c)
  <2>1. PICK sols \in Orders(rows[c]) :
          changes' = [changes EXCEPT ![c] =
            Add(Retract(@, Instances(Current(c).delete, rows[c])), Filled(Current(c).insert, sols))]
    BY <1>3 DEF CompileTemplates
  <2> DEFINE cs == Add(Retract(changes[c], Instances(Current(c).delete, rows[c])), Filled(Current(c).insert, sols))
  <2>2. rows[c] \in SUBSET Solution /\ Current(c).insert \in Seq(Template)
    BY <1>1, <1>3, OperationIs DEF UpdateTypeOK, CompileTemplates
  <2>3. Instances(Current(c).delete, rows[c]) \in SUBSET QuadRef
    BY DEF Instances
  <2>4. Filled(Current(c).insert, sols) \in Seq(Quad)
    BY <2>2, FilledIs
  <2>5. cs \in Changesets
    BY <1>1, <2>3, <2>4, ChangesetsStayTyped
  <2>6. /\ changes' = [changes EXCEPT ![c] = cs] /\ op' = [op EXCEPT ![c] = @ + 1]
        /\ branch' = [branch EXCEPT ![c] = 1] /\ rows' = [rows EXCEPT ![c] = {}]
        /\ UNCHANGED <<stored, ts, outside, writing, request, at, readAt, shown, approved, seen, closes, begun,
                       committed, asker, state, solutions>>
    BY <1>3, <2>1 DEF CompileTemplates, datalogVars, UpdateTypeOK
  <2> HIDE DEF cs
  <2> QED
    BY <2>5, <2>6 DEF UpdateTypeOK
<1> QED
  BY <1>2, <1>3

\* A commit keeps the types: its batch holds quads only.
LEMMA CommitKeepsTypes ==
  ASSUME UpdateTypeOK, NEW c \in Client, PublishChanges(c) \/ CommitNothing(c) \/ CommitChanges(c)
  PROVE  UpdateTypeOK'
<1> USE DEF Stages
<1>1. CASE PublishChanges(c)
  <2>1. /\ ts' = ts + 1 /\ at' = [at EXCEPT ![c] = "committing"]
        /\ UNCHANGED <<stored, outside, writing, request, readAt, shown, op, branch, rows, changes, approved, seen,
                       closes, begun, committed, asker, state, solutions>>
    BY <1>1 DEF PublishChanges, datalogVars
  <2> QED
    BY <2>1 DEF UpdateTypeOK
<1>2. CASE CommitNothing(c)
  BY <1>2 DEF CommitNothing, UpdateTypeOK, datalogVars
<1>3. CASE CommitChanges(c)
  <2> DEFINE windows == Batch(closes[c], changes[c].adds, approved[c])
  <2>1. DOMAIN windows \subseteq Quad
    BY BatchWritesQuads DEF UpdateTypeOK, Changesets
  <2>2. stored' = stored \/ stored' = Written(windows)
    BY <1>3 DEF CommitChanges
  <2>3. /\ at' \in {[at EXCEPT ![c] = "applied"], [at EXCEPT ![c] = "conflict"]}
        /\ committed' = committed \/ committed' = [committed EXCEPT ![c] = ts]
        /\ UNCHANGED <<ts, outside, writing, request, readAt, shown, op, branch, rows, changes, approved, seen, closes,
                       begun, asker, state, solutions>>
    BY <1>3 DEF CommitChanges, datalogVars
  <2>4. DOMAIN stored' \subseteq Quad /\ \A q \in DOMAIN stored' : \A v \in stored'[q] : v.tt \in 0 .. ts'
    <3>1. CASE stored' = stored
      BY <2>3, <3>1 DEF UpdateTypeOK
    <3>2. CASE stored' = Written(windows)
      BY <2>1, <2>3, <3>2, WrittenIs
    <3> QED
      BY <2>2, <3>1, <3>2
  <2> QED
    BY <2>3, <2>4 DEF UpdateTypeOK
<1> QED
  BY <1>1, <1>2, <1>3

\* A step within a request leaves the lock alone.
LEMMA LockStays ==
  ASSUME LockOK, UNCHANGED <<stored, ts, writing>>, \A c \in Client : at'[c] = "committing" => at[c] = "committing"
  PROVE  LockOK'
  BY DEF LockOK, Locked

\* The write of a commit frees the lock.
LEMMA WritesUnlock ==
  ASSUME UpdateTypeOK, LockOK, (\E c \in Client : CommitChanges(c)) \/ WriteOutside
  PROVE  Locked /\ ~Locked'
<1>1. ASSUME NEW c \in Client, CommitChanges(c)
      PROVE  Locked /\ ~Locked'
  <2>1. /\ at[c] = "committing" /\ writing' = writing
        /\ at' \in {[at EXCEPT ![c] = "applied"], [at EXCEPT ![c] = "conflict"]}
    BY <1>1 DEF CommitChanges
  <2>2. at \in [Client -> Stages]
    BY DEF UpdateTypeOK
  <2> QED
    BY <2>1, <2>2 DEF LockOK, Locked
<1>2. CASE WriteOutside
  <2>1. writing # {} /\ writing' = {} /\ at' = at
    BY <1>2 DEF WriteOutside, requestVars
  <2> QED
    BY <2>1 DEF LockOK, Locked
<1> QED
  BY <1>1, <1>2

\* A commit takes the lock when it is free and leaves it with the write.
LEMMA LockMoves ==
  ASSUME UpdateTypeOK, LockOK,
         \/ \E c \in Client : PublishChanges(c) \/ CommitChanges(c)
         \/ \E q \in outside : PublishOutside(q)
         \/ WriteOutside
  PROVE  LockOK'
<1>1. ASSUME NEW c \in Client, PublishChanges(c)
      PROVE  LockOK'
  <2>1. ~Locked /\ ts' = ts + 1 /\ at' = [at EXCEPT ![c] = "committing"] /\ stored' = stored /\ writing' = writing
    BY <1>1 DEF PublishChanges
  <2> QED
    BY <2>1 DEF LockOK, Locked, UpdateTypeOK
<1>2. ASSUME NEW q \in outside, PublishOutside(q)
      PROVE  LockOK'
  <2>1. ~Locked /\ ts' = ts + 1 /\ at' = at /\ stored' = stored
    BY <1>2 DEF PublishOutside, requestVars
  <2> QED
    BY <2>1 DEF LockOK, Locked, UpdateTypeOK
<1>3. ASSUME (\E c \in Client : CommitChanges(c)) \/ WriteOutside
      PROVE  LockOK'
  BY <1>3, WritesUnlock DEF LockOK, Locked
<1> QED
  BY <1>1, <1>2, <1>3

\* Every step of Updates keeps the types and JoinInv.
LEMMA UpdateInvStep == UpdateInv /\ [UpdateNext]_updateVars => UpdateInv'
<1> SUFFICES ASSUME UpdateInv, [UpdateNext]_updateVars PROVE UpdateInv'
  OBVIOUS
<1> UpdateTypeOK /\ LockOK /\ JoinInv
  BY DEF UpdateInv
<1> {"asking", "failed", "answered", "compiling"} \subseteq Stages
  BY DEF Stages
<1>1. CASE UNCHANGED updateVars
  <2>1. UpdateTypeOK'
    BY <1>1 DEF updateVars, requestVars, datalogVars, UpdateTypeOK
  <2> QED
    BY <1>1, <2>1, LockStays, EvaluatorAlone DEF updateVars, requestVars, UpdateInv
<1>2. ASSUME NEW c \in Client, StartUpdate(c) \/ Compiled(c) \/ Approve(c) \/ ResolveRetractions(c) \/ BeginTx(c)
      PROVE  UpdateInv'
  <2>1. UNCHANGED datalogVars
    BY <1>2 DEF StartUpdate, Compiled, Approve, ResolveRetractions, BeginTx
  <2>2. LockOK'
    <3>1. at' \in {[at EXCEPT ![c] = d] : d \in Stages \ {"committing"}} /\ UNCHANGED <<stored, ts, writing>>
      BY <1>2 DEF StartUpdate, Compiled, Approve, ResolveRetractions, BeginTx, Stages
    <3> QED
      BY <3>1, LockStays DEF UpdateTypeOK
  <2> QED
    BY <1>2, <2>1, <2>2, StagesKeepTypes, EvaluatorAlone DEF UpdateInv
<1>3. ASSUME NEW c \in Client, CompileData(c) \/ CompileTemplates(c)
      PROVE  UpdateInv'
  <2>1. UNCHANGED datalogVars
    BY <1>3 DEF CompileData, CompileTemplates
  <2>2. LockOK'
    BY <1>3, LockStays DEF CompileData, CompileTemplates
  <2> QED
    BY <1>3, <2>1, <2>2, CompilingKeepsTypes, EvaluatorAlone DEF UpdateInv
<1>4. ASSUME NEW c \in Client, PublishChanges(c) \/ CommitNothing(c) \/ CommitChanges(c)
      PROVE  UpdateInv'
  <2>1. UNCHANGED datalogVars
    BY <1>4 DEF PublishChanges, CommitNothing, CommitChanges
  <2>2. LockOK'
    <3>1. CASE CommitNothing(c)
      <4>1. at' = [at EXCEPT ![c] = "applied"] /\ UNCHANGED <<stored, ts, writing>>
        BY <3>1 DEF CommitNothing
      <4> QED
        BY <4>1, LockStays DEF UpdateTypeOK
    <3> QED
      BY <1>4, <3>1, LockMoves
  <2> QED
    BY <1>4, <2>1, <2>2, CommitKeepsTypes, EvaluatorAlone DEF UpdateInv
<1>5. ASSUME NEW c \in Client, AskWhere(c) \/ AskQuery(c)
      PROVE  UpdateInv'
  <2>1. \E t, quads : /\ IsTask(t) /\ quads \subseteq Quad /\ Holding(t, quads, "running")
                      /\ request[c].kind \in {"query", "update"}
    <3>1. CASE AskWhere(c)
      <4> DEFINE t == [kind |-> "query", patterns |-> Current(c).branches[branch[c]], pending |-> <<>>, values |-> TRUE]
      <4>1. /\ Compiling(c) /\ Current(c).kind = "modify" /\ branch[c] <= Len(Current(c).branches)
            /\ Holding(t, Snapshot(readAt[c]), "running")
        BY <3>1 DEF AskWhere, Ask
      <4>2. request[c].kind = "update" /\ Current(c).branches \in Seq(Seq(Pattern) \ {<<>>})
        BY <4>1, CurrentIs, OperationIs
      <4>3. branch[c] \in 1 .. Len(Current(c).branches)
        BY <4>1, <4>2, LenProperties DEF UpdateTypeOK
      <4>4. Current(c).branches[branch[c]] \in Seq(Pattern)
        BY <4>2, <4>3, ElementOfSeq
      <4>5. IsTask(t)
        <5>1. <<>> \in Seq(Quad)
          BY EmptySeq
        <5> QED
          BY <4>4, <5>1 DEF IsTask
      <4>6. Snapshot(readAt[c]) \subseteq Quad
        BY ShowsQuads DEF UpdateTypeOK
      <4> QED
        BY <4>1, <4>2, <4>5, <4>6
    <3>2. CASE AskQuery(c)
      <4>1. request[c].kind = "query" /\ IsRequest(request[c]) /\ Holding(request[c].task, ShownAt(ts), "running")
        BY <3>2 DEF AskQuery, Ask, UpdateTypeOK
      <4>2. IsTask(request[c].task) /\ ShownAt(ts) \subseteq Quad
        BY <4>1, ShowsQuads DEF IsRequest, UpdateTypeOK
      <4> QED
        BY <4>1, <4>2
    <3> QED
      BY <1>5, <3>1, <3>2
  <2>2. JoinInv' /\ solutions' \subseteq Solution /\ state' \in {"idle", "running"}
    <3>1. PICK t : \E quads : IsTask(t) /\ quads \subseteq Quad /\ Holding(t, quads, "running")
      BY <2>1
    <3>2. PICK quads : IsTask(t) /\ quads \subseteq Quad /\ Holding(t, quads, "running")
      BY <3>1
    <3>3. t.kind # "none"
      BY <3>2 DEF IsTask
    <3> QED
      BY <3>2, <3>3, HoldingKeeps
  <2>3. /\ asker' = c /\ at' = [at EXCEPT ![c] = "asking"]
        /\ UNCHANGED <<stored, ts, outside, writing, request, readAt, shown, op, branch, rows, changes, approved, seen, closes,
                       begun, committed>>
    BY <1>5 DEF AskWhere, AskQuery
  <2>4. UpdateTypeOK'
    BY <2>1, <2>2, <2>3 DEF UpdateTypeOK
  <2>5. LockOK'
    BY <2>3, LockStays DEF UpdateTypeOK
  <2> QED
    BY <2>2, <2>4, <2>5 DEF UpdateInv
<1>6. ASSUME NEW c \in Client, TakeAnswer(c)
      PROVE  UpdateInv'
  <2>1. JoinInv' /\ solutions' \subseteq Solution /\ state' \in {"idle", "running"}
    <3>1. Holding(Nothing, {}, "idle") /\ Nothing.kind = "none"
      BY <1>6 DEF TakeAnswer, Clear, Nothing
    <3> QED
      BY <3>1, HoldingKeeps
  <2>2. \/ /\ at' \in {[at EXCEPT ![c] = "failed"], [at EXCEPT ![c] = "answered"]}
           /\ UNCHANGED <<rows, branch>>
        \/ /\ at' = [at EXCEPT ![c] = "compiling"] /\ request[c].kind # "query"
           /\ rows' = [rows EXCEPT ![c] = @ \cup solutions] /\ branch' = [branch EXCEPT ![c] = @ + 1]
    BY <1>6 DEF TakeAnswer
  <2>3. /\ at[c] = "asking"
        /\ UNCHANGED <<stored, ts, outside, writing, request, readAt, shown, op, changes, approved, seen, closes, begun, committed,
                       asker>>
    BY <1>6 DEF TakeAnswer
  <2>4. UpdateTypeOK'
    BY <2>1, <2>2, <2>3 DEF UpdateTypeOK
  <2>5. LockOK'
    BY <2>2, <2>3, LockStays DEF UpdateTypeOK
  <2> QED
    BY <2>1, <2>4, <2>5 DEF UpdateInv
<1>7. ASSUME NEW q \in outside, PublishOutside(q)
      PROVE  UpdateInv'
  <2>1. /\ ts' = ts + 1 /\ outside' = outside \ {q} /\ writing' = {q} /\ stored' = stored
        /\ UNCHANGED <<requestVars, asker>> /\ UNCHANGED datalogVars
    BY <1>7 DEF PublishOutside
  <2>2. UpdateTypeOK'
    BY <2>1 DEF UpdateTypeOK, requestVars, datalogVars
  <2> QED
    BY <1>7, <2>1, <2>2, LockMoves, EvaluatorAlone DEF UpdateInv
<1>9. CASE WriteOutside
  <2>1. /\ UNCHANGED <<ts, outside, requestVars, asker>> /\ UNCHANGED datalogVars /\ writing' = {}
    BY <1>9 DEF WriteOutside
  <2>2. DOMAIN stored' \subseteq Quad /\ \A r \in DOMAIN stored' : \A v \in stored'[r] : v.tt \in 0 .. ts'
    <3>1. CASE stored' = stored
      BY <2>1, <3>1 DEF UpdateTypeOK
    <3>2. ASSUME NEW q \in writing, NEW w, stored' = Written([r \in {q} |-> w])
          PROVE  <2>2
      BY <2>1, <3>2, WrittenIs DEF UpdateTypeOK
    <3> QED
      BY <1>9, <3>1, <3>2 DEF WriteOutside
  <2>3. UpdateTypeOK'
    BY <2>1, <2>2 DEF UpdateTypeOK, requestVars, datalogVars
  <2> QED
    BY <1>9, <2>1, <2>3, LockMoves, EvaluatorAlone DEF UpdateInv
<1>8. CASE Evaluate(DatalogNext)
  <2>1. UpdateTypeOK'
    BY <1>8, EvaluatorKeepsTypes DEF Evaluate, UpdateTypeOK, requestVars
  <2>2. LockOK'
    BY <1>8, LockStays DEF Evaluate, requestVars
  <2> QED
    BY <1>8, <2>1, <2>2, EvaluatorSteps DEF Evaluate, UpdateInv
<1> QED
  BY <1>1, <1>2, <1>3, <1>4, <1>5, <1>6, <1>7, <1>8, <1>9 DEF UpdateNext, RequestStep

-----------------------------------------------------------------------------

\* Whatever requests and writers do, what is stored, asked for, compiled and
\* found has its type (run_data_update, apply_changes, evaluate_solutions).
THEOREM UpdateTypes == UpdateSpec => []UpdateTypeOK
<1>1. UpdateInv => UpdateTypeOK
  BY DEF UpdateInv
<1> QED
  BY <1>1, UpdateInvInit, UpdateInvStep, PTL DEF UpdateSpec

\* For every query, snapshot and registry of edge types, and while others write,
\* joining pattern by pattern finds what all patterns mean together, each pruned
\* by what those before it bind, and misses at most pending values of properties
\* that have another one (evaluate_solutions and match_pattern in datalog.rs,
\* evaluate_with_overlay and evaluate_with_registry in eval.rs).
THEOREM JoinsAreConjunctions == UpdateSpec => []JoinIsConjunction
<1>1. UpdateInv => JoinIsConjunction
  BY JoinedIsMeant DEF UpdateInv
<1> QED
  BY <1>1, UpdateInvInit, UpdateInvStep, PTL DEF UpdateSpec

-----------------------------------------------------------------------------
(* What the store, the changesets and the answers are *)

\* A quad has versions, which are of different times.
VersionsOK ==
  \A q \in DOMAIN stored :
    /\ stored[q] \subseteq Version /\ stored[q] # {}
    /\ \A v \in stored[q] : \A w \in stored[q] : v.tt = w.tt => v = w

\* What is closed has a window.
Closed == [quad : Quad, start : Nat, end : Nat]

ClosesOK == \A c \in Client : closes[c] \subseteq Closed

\* The requests that have not reached a commit.
Pending == {c \in Client : at[c] \notin {"committing", "applied", "conflict"}}

\* A time that is past, or that the commits to come do not reach.
Point(t) == t <= ts \/ ts + Cardinality(outside) + Cardinality(Pending) < t

PointsOK ==
  /\ IsFiniteSet(outside)
  /\ \A c \in Client : Point(readAt[c]) /\ (request[c].kind = "update" => Point(request[c].readTs))

\* An update whose WHERE clauses have a point to read at.
Reads(c) == request[c].kind = "update" /\ readAt[c] <= ts /\ (HasWhere(request[c]) => readAt[c] > 0)

WhereTask(c) == [kind |-> "query", patterns |-> Current(c).branches[branch[c]], pending |-> <<>>, values |-> TRUE]

\* The operation at hand has a WHERE clause.
Modifying(c) == op[c] <= Len(request[c].ops) /\ Current(c).kind = "modify"

\* How far each request is.
Order(c) ==
  /\ at[c] = "idle" => request[c].kind = "none"
  /\ at[c] = "new" => op[c] = 1 /\ branch[c] = 1 /\ rows[c] = {} /\ changes[c] = NoChanges
  /\ at[c] \in {"compiling", "asking"} /\ request[c].kind = "update" =>
       /\ op[c] <= Len(request[c].ops) + 1
       /\ branch[c] = 1 \/ (Modifying(c) /\ branch[c] <= Len(Current(c).branches) + 1)
  /\ at[c] = "asking" => asker = c /\ state # "idle"
  /\ at[c] = "asking" /\ request[c].kind = "update" =>
       Modifying(c) /\ branch[c] <= Len(Current(c).branches) /\ task = WhereTask(c)
  /\ at[c] \in {"shown", "nothing", "applying", "resolved", "begun", "committing", "refused", "applied", "conflict"} =>
       request[c].kind = "update" /\ op[c] = Len(request[c].ops) + 1
  /\ at[c] \in {"begun", "committing"} => begun[c] <= ts /\ (readAt[c] > 0 => begun[c] = readAt[c])
  /\ at[c] = "committing" => begun[c] < ts /\ readAt[c] < ts
  /\ committed[c] > 0 => at[c] = "applied" /\ committed[c] <= Settled /\ readAt[c] < committed[c]

\* A changeset is what the first n operations lead to over these quads.
Means(cs, ops, n, quads) ==
  /\ \A q \in Quad : q \in Elements(cs.adds) <=>
       \E j \in 1 .. n : q \in Inserted(ops[j], quads) /\ \A i \in j + 1 .. n : ~DeletedBy(ops[i], q, quads)
  /\ \A r \in QuadRef : r \in cs.retractions <=> \E j \in 1 .. n : r \in Deleted(ops[j], quads)

\* Solutions are those of the branches before b.
RowsMean(sols, branches, b, quads) ==
  \A sol \in Solution : sol \in sols <=> \E k \in 1 .. b - 1 : sol \in Answers(branches[k], quads, {}, {}, EdgeTypes)

\* What an update has found out so far is what there was at its read point: its
\* closes are of what a settled point shows, the same as the read point did.
Found(c, read) ==
  /\ Means(changes[c], request[c].ops, op[c] - 1, read)
  /\ branch[c] > 1 => RowsMean(rows[c], Current(c).branches, branch[c], read)
  /\ branch[c] = 1 => rows[c] = {}
  /\ at[c] = "asking" => store = read
  /\ at[c] \in {"resolved", "begun", "committing", "refused", "applied", "conflict"} =>
       /\ seen[c] <= Settled /\ (readAt[c] > 0 /\ Undisturbed(c) => ShownAt(seen[c]) = read)
       /\ closes[c] = Closing(changes[c].retractions, seen[c])

\* WHERE clauses find the same as long as what they read is not disturbed.
Steady(c) == HasWhere(request[c]) => Undisturbed(c)

\* The commit that a read point is of may be in flight; what is read there
\* changes with its write only.
Meaning(c) ==
  Reads(c) /\ at[c] # "new" =>
    /\ Settled < readAt[c] => Undisturbed(c)
    /\ Steady(c) => Found(c, shown[c])

Closes(c, q) == \E w \in closes[c] : w.quad = q

\* No version of a quad that a commit with a read point has written is from
\* between the two.
Conditional(c) ==
  committed[c] > 0 /\ readAt[c] > 0 =>
    \A q \in Quad : q \in Adds(c) \/ Closes(c, q) => ~WrittenSince(q, readAt[c], committed[c])

\* The versions of a commit: of what is added, of what is closed and not
\* added, and of nothing else, but for values that are replaced.
Effect(c) ==
  committed[c] > 0 =>
    \A q \in Quad : ~Replaced(c, q) =>
      /\ q \in Adds(c) => [start |-> 0, end |-> EndOfTime, tt |-> committed[c]] \in Of(q)
      /\ q \notin Adds(c) /\ Closes(c, q) =>
           \E w \in closes[c] : w.quad = q /\ [start |-> w.start, end |-> w.end, tt |-> committed[c]] \in Of(q)
      /\ q \notin Adds(c) /\ ~Closes(c, q) => \A v \in Of(q) : v.tt # committed[c]

OfClient(c) == Order(c) /\ Meaning(c) /\ Conditional(c) /\ Effect(c)

MeaningInv ==
  /\ VersionsOK /\ ClosesOK /\ PointsOK
  /\ \A c \in Client : OfClient(c)

-----------------------------------------------------------------------------
(* Commits and what is read below them *)

\* Versions are only added, by the write that settles their commit.
Grows ==
  /\ ts' \in Nat /\ ts <= ts' /\ Settled <= Settled'
  /\ stored' = stored \/ Settled' = ts'
  /\ \A q : Of(q) \subseteq Of(q)' /\ \A v \in Of(q)' : v \in Of(q) \/ Settled < v.tt

\* All commits but the one in flight are settled.
LEMMA SettledIs ==
  ASSUME UpdateInv
  PROVE  /\ ts \in Nat /\ Settled \in Nat /\ Settled <= ts /\ ts <= Settled + 1
         /\ Settled < ts <=> Locked
         /\ \A q : \A v \in Of(q) : v.tt \in Nat /\ v.tt <= Settled
<1>1. ts \in Nat /\ (Locked => 0 < ts) /\ \A q \in DOMAIN stored : \A v \in stored[q] : v.tt \in 0 .. ts /\ (Locked => v.tt < ts)
  BY DEF UpdateInv, UpdateTypeOK, LockOK
<1>2. \A q : \A v \in Of(q) : v.tt \in 0 .. ts /\ (Locked => v.tt < ts)
  BY <1>1 DEF Of
<1> QED
  BY <1>1, <1>2 DEF Settled

\* A quad is shown at a time exactly when one of its versions holds then.
LEMMA ShownIs ==
  \A t, q : /\ q \in ShownAt(t) <=> Holds(Of(q), t, Now)
            /\ q \in ShownAt(t)' <=> Holds(Of(q)', t, Now)
<1> TAKE t, q
<1>1. q \in ShownAt(t) <=> Holds(Of(q), t, Now)
  BY DEF ShownAt, Of, Holds
<1>2. q \in ShownAt(t)' <=> Holds(Of(q)', t, Now)
  BY DEF ShownAt, Of, Holds
<1> QED
  BY <1>1, <1>2

\* w closes version v of q.
Closer(w, q, v) == w = [quad |-> q, start |-> v.start, end |-> MaxOf(Now, v.start)]

Named(refs, q) == \E r \in refs : Names(r, q)

\* The closes of a changeset are of the versions that its references show.
LEMMA ClosingIs ==
  \A refs, t, w :
    /\ w \in Closing(refs, t) <=>
         \E q : Named(refs, q) /\ \E v \in Of(q) : Governs(v, Of(q), t, Now) /\ Now < v.end /\ Closer(w, q, v)
    /\ w \in Closing(refs, t)' <=>
         \E q : Named(refs, q) /\ \E v \in Of(q)' : Governs(v, Of(q)', t, Now) /\ Now < v.end /\ Closer(w, q, v)
<1> TAKE refs, t, w
<1>1. w \in Closing(refs, t) <=>
        \E q \in DOMAIN stored : /\ \E r \in refs : Names(r, q)
                                 /\ \E v \in stored[q] : /\ Governs(v, stored[q], t, Now) /\ Now < v.end
                                                         /\ w = [quad |-> q, start |-> v.start, end |-> MaxOf(Now, v.start)]
  <2> DEFINE vs(q) == {v \in stored[q] : Governs(v, stored[q], t, Now) /\ Now < v.end}
             ws(q) == {[quad |-> q, start |-> v.start, end |-> MaxOf(Now, v.start)] : v \in vs(q)}
             qs == {q \in DOMAIN stored : \E r \in refs : Names(r, q)}
  <2>1. Closing(refs, t) = UNION {ws(q) : q \in qs}
    BY DEF Closing
  <2>2. \A q : w \in ws(q) <=> \E v \in vs(q) : w = [quad |-> q, start |-> v.start, end |-> MaxOf(Now, v.start)]
    OBVIOUS
  <2> HIDE DEF ws
  <2>3. w \in UNION {ws(q) : q \in qs} <=> \E q \in qs : w \in ws(q)
    OBVIOUS
  <2> QED
    BY <2>1, <2>2, <2>3, Zenon
<1>2. w \in Closing(refs, t)' <=>
        \E q \in DOMAIN stored' : /\ \E r \in refs : Names(r, q)
                                  /\ \E v \in stored'[q] : /\ Governs(v, stored'[q], t, Now) /\ Now < v.end
                                                           /\ w = [quad |-> q, start |-> v.start, end |-> MaxOf(Now, v.start)]
  <2> DEFINE vs(q) == {v \in stored'[q] : Governs(v, stored'[q], t, Now) /\ Now < v.end}
             ws(q) == {[quad |-> q, start |-> v.start, end |-> MaxOf(Now, v.start)] : v \in vs(q)}
             qs == {q \in DOMAIN stored' : \E r \in refs : Names(r, q)}
  <2>1. Closing(refs, t)' = UNION {ws(q) : q \in qs}
    BY DEF Closing
  <2>2. \A q : w \in ws(q) <=> \E v \in vs(q) : w = [quad |-> q, start |-> v.start, end |-> MaxOf(Now, v.start)]
    OBVIOUS
  <2> HIDE DEF ws
  <2>3. w \in UNION {ws(q) : q \in qs} <=> \E q \in qs : w \in ws(q)
    OBVIOUS
  <2> QED
    BY <2>1, <2>2, <2>3, Zenon
<1>3. \A q : Of(q) = IF q \in DOMAIN stored THEN stored[q] ELSE {}
  BY DEF Of
<1>4. \A q : Of(q)' = IF q \in DOMAIN stored' THEN stored'[q] ELSE {}
  BY DEF Of
<1> QED
  BY <1>1, <1>2, <1>3, <1>4, Zenon DEF Closer, Named

\* Versions from after a read point do not matter to it.
LEMMA GovernsBelow ==
  ASSUME NEW t \in Nat, NEW vs, NEW ws, vs \subseteq ws, \A v \in ws : v \in vs \/ ~(v.tt <= t), NEW v
  PROVE  Governs(v, vs, t, Now) <=> Governs(v, ws, t, Now)
  BY DEF Governs, InView

\* What is shown at a settled time stays, and so do the windows that are to be closed.
LEMMA ReadsStay ==
  ASSUME Grows, UpdateInv, UpdateInv', NEW t \in Nat, t <= Settled
  PROVE  /\ ShownAt(t)' = ShownAt(t)
         /\ \A refs : Closing(refs, t)' = Closing(refs, t)
<1>1. \A q : Of(q) \subseteq Of(q)' /\ \A v \in Of(q)' : v \in Of(q) \/ ~(v.tt <= t)
  <2>1. \A q : \A v \in Of(q)' : v.tt \in Nat
    <3>1. \A q \in DOMAIN stored' : \A v \in stored'[q] : v.tt \in Nat
      BY DEF UpdateInv, UpdateTypeOK
    <3>2. \A q : Of(q)' = IF q \in DOMAIN stored' THEN stored'[q] ELSE {}
      BY DEF Of
    <3> QED
      BY <3>1, <3>2
  <2> QED
    BY <2>1, SettledIs DEF Grows
<1>2. \A q, v : Governs(v, Of(q), t, Now) <=> Governs(v, Of(q)', t, Now)
  BY <1>1, GovernsBelow
<1>3. \A q, v : Governs(v, Of(q)', t, Now) => v \in Of(q)
  BY <1>2 DEF Governs
<1>4. \A q : Holds(Of(q), t, Now) <=> Holds(Of(q)', t, Now)
  BY <1>1, <1>2, <1>3 DEF Holds
<1>5. ASSUME NEW refs PROVE Closing(refs, t)' = Closing(refs, t)
  <2>1. \A w : w \in Closing(refs, t)' <=> w \in Closing(refs, t)
    BY <1>1, <1>2, <1>3, ClosingIs, Zenon
  <2> QED
    BY <2>1
<1>6. ShownAt(t)' = ShownAt(t)
  BY <1>4, ShownIs
<1> QED
  BY <1>5, <1>6

\* The commit in flight shows nothing before it is written.
LEMMA ShowsSettled ==
  ASSUME UpdateInv, NEW t \in Nat, Settled < t
  PROVE  /\ ShownAt(t) = ShownAt(Settled)
         /\ \A refs : Closing(refs, t) = Closing(refs, Settled)
<1>1. \A q : \A v \in Of(q) : v.tt <= t /\ v.tt <= Settled
  BY SettledIs
<1>2. \A q, v : Governs(v, Of(q), t, Now) <=> Governs(v, Of(q), Settled, Now)
  BY <1>1 DEF Governs, InView
<1>3. \A q : Holds(Of(q), t, Now) <=> Holds(Of(q), Settled, Now)
  BY <1>2 DEF Holds
<1>4. ASSUME NEW refs PROVE Closing(refs, t) = Closing(refs, Settled)
  <2>1. \A w : w \in Closing(refs, t) <=> w \in Closing(refs, Settled)
    BY <1>2, ClosingIs, Zenon
  <2> QED
    BY <2>1
<1>5. ShownAt(t) = ShownAt(Settled)
  <2>1. \A q : q \in ShownAt(t) <=> q \in ShownAt(Settled)
    BY <1>3, ShownIs, Zenon
  <2> QED
    BY <2>1
<1> QED
  BY <1>4, <1>5

\* A commit adds at most one version of a quad, of its own time.
LEMMA WritesGrow ==
  ASSUME UpdateInv, Locked, ~Locked', NEW windows, stored' = Written(windows), ts' = ts
  PROVE  /\ Grows
         /\ \A q : Of(q)' = Of(q) \cup (IF q \in DOMAIN windows
                                        THEN {[start |-> windows[q].start, end |-> windows[q].end, tt |-> ts]}
                                        ELSE {})
<1> DEFINE new(q) == IF q \in DOMAIN windows
                     THEN {[start |-> windows[q].start, end |-> windows[q].end, tt |-> ts]} ELSE {}
<1>1. DOMAIN stored' = DOMAIN stored \cup DOMAIN windows
  BY DEF Written
<1>2. \A q \in DOMAIN stored' : stored'[q] = Of(q) \cup new(q)
  BY DEF Written
<1>3. \A q : q \notin DOMAIN stored' => new(q) = {} /\ Of(q) = {}
  BY <1>1 DEF Of
<1>4. \A q : \A v \in new(q) : v.tt = ts
  OBVIOUS
<1>5. \A q : Of(q)' = IF q \in DOMAIN stored' THEN stored'[q] ELSE {}
  BY DEF Of
<1>6. \A q : Of(q)' = Of(q) \cup new(q)
  <2> HIDE DEF new
  <2> QED
    BY <1>2, <1>3, <1>5
<1>7. Grows
  <2>1. Settled = ts - 1 /\ Settled' = ts /\ ts \in Nat
    BY SettledIs DEF Settled
  <2> HIDE DEF new
  <2> QED
    BY <1>4, <1>6, <2>1 DEF Grows
<1> QED
  BY <1>6, <1>7

\* A step without a write keeps all versions.
LEMMA StaysGrow ==
  ASSUME UpdateInv, stored' = stored, (ts' = ts /\ (Locked' => Locked)) \/ ts' = ts + 1
  PROVE  Grows
<1>1. \A q : Of(q)' = Of(q)
  BY DEF Of
<1>2. ts' \in Nat /\ ts <= ts' /\ Settled <= Settled'
  BY SettledIs DEF Settled
<1> QED
  BY <1>1, <1>2 DEF Grows

-----------------------------------------------------------------------------
(* Read points *)

\* Each commit is of a request or a writer that has no other one.
Counts ==
  /\ IsFiniteSet(outside)' /\ ts' \in Nat /\ ts <= ts'
  /\ ts' + Cardinality(outside)' + Cardinality(Pending)' <= ts + Cardinality(outside) + Cardinality(Pending)

\* Finitely many commits are still to come.
LEMMA PendingIsFinite ==
  /\ IsFiniteSet(Pending) /\ Cardinality(Pending) \in Nat
  /\ IsFiniteSet(Pending)' /\ Cardinality(Pending)' \in Nat
<1>1. IsFiniteSet(Client)
  BY ReadPoints
<1>2. Pending \subseteq Client /\ Pending' \subseteq Client
  BY DEF Pending
<1> QED
  BY <1>1, <1>2, FS_Subset, FS_CardinalityType

\* A point is past for good or never reached: no step moves a point between the two.
LEMMA PointsStay ==
  ASSUME Counts, ts \in Nat, IsFiniteSet(outside), NEW t \in Nat, Point(t)
  PROVE  Point(t)' /\ (t <= ts' <=> t <= ts)
<1>1. Cardinality(outside) \in Nat /\ Cardinality(outside)' \in Nat
  BY FS_CardinalityType DEF Counts
<1> QED
  BY <1>1, PendingIsFinite DEF Counts, Point

\* A step without a commit leaves no more commits to come.
LEMMA CountsWithout ==
  ASSUME ts \in Nat, ts' = ts, IsFiniteSet(outside), outside' = outside, Pending' \subseteq Pending
  PROVE  Counts
<1>1. Cardinality(outside) \in Nat
  BY FS_CardinalityType
<1>2. Cardinality(Pending)' <= Cardinality(Pending)
  BY PendingIsFinite, FS_Subset
<1> QED
  BY <1>1, <1>2, PendingIsFinite DEF Counts

\* A commit of a request is one of those that were to come.
LEMMA CountsCommit ==
  ASSUME ts \in Nat, ts' = ts + 1, IsFiniteSet(outside), outside' = outside, NEW c \in Pending,
         Pending' \subseteq Pending \ {c}
  PROVE  Counts
<1>1. Cardinality(outside) \in Nat
  BY FS_CardinalityType
<1>2. IsFiniteSet(Pending \ {c}) /\ Cardinality(Pending \ {c}) = Cardinality(Pending) - 1
  BY PendingIsFinite, FS_RemoveElement
<1>3. Cardinality(Pending)' <= Cardinality(Pending \ {c})
  BY <1>2, PendingIsFinite, FS_Subset
<1> QED
  BY <1>1, <1>2, <1>3, PendingIsFinite DEF Counts

\* And so is a commit of another writer.
LEMMA CountsOutside ==
  ASSUME ts \in Nat, ts' = ts + 1, IsFiniteSet(outside), NEW q \in outside, outside' = outside \ {q},
         Pending' = Pending
  PROVE  Counts
<1>1. Cardinality(outside) \in Nat
  BY FS_CardinalityType
<1>2. IsFiniteSet(outside') /\ Cardinality(outside') = Cardinality(outside) - 1
  BY FS_RemoveElement
<1> QED
  BY <1>1, <1>2, PendingIsFinite DEF Counts

-----------------------------------------------------------------------------
(* Changesets *)

\* Appending adds one element,
LEMMA ElementsOfAppend ==
  ASSUME NEW S, NEW s \in Seq(S), NEW x \in S
  PROVE  \A e : e \in Elements(Append(s, x)) <=> e \in Elements(s) \/ e = x
<1>1. /\ Len(s) \in Nat /\ DOMAIN s = 1 .. Len(s) /\ DOMAIN Append(s, x) = 1 .. Len(s) + 1
      /\ \A k \in 1 .. Len(s) : Append(s, x)[k] = s[k]
      /\ Append(s, x)[Len(s) + 1] = x
  BY AppendProperties, LenProperties
<1> DEFINE t == Append(s, x)
<1> HIDE DEF t
<1>2. \A e : e \in Elements(s) <=> \E k \in 1 .. Len(s) : e = s[k]
  BY <1>1 DEF Elements
<1>3. \A e : e \in Elements(t) <=> \E k \in 1 .. Len(s) + 1 : e = t[k]
  BY <1>1 DEF Elements, t
<1>4. \A k \in 1 .. Len(s) : t[k] = s[k] /\ k \in 1 .. Len(s) + 1
  BY <1>1 DEF t
<1>5. t[Len(s) + 1] = x /\ Len(s) + 1 \in 1 .. Len(s) + 1
  BY <1>1 DEF t
<1>6. \A k \in 1 .. Len(s) + 1 : k \in 1 .. Len(s) \/ k = Len(s) + 1
  BY <1>1
<1>7. \A e : e \in Elements(t) <=> e \in Elements(s) \/ e = x
  BY <1>2, <1>3, <1>4, <1>5, <1>6
<1> QED
  BY <1>7 DEF t

\* and concatenation those of both sequences.
LEMMA ElementsOfConcat ==
  ASSUME NEW S, NEW s \in Seq(S), NEW t \in Seq(S)
  PROVE  \A e : e \in Elements(s \o t) <=> e \in Elements(s) \/ e \in Elements(t)
<1> DEFINE u == s \o t  m == Len(s)  n == Len(t)
<1>1. /\ m \in Nat /\ n \in Nat /\ DOMAIN s = 1 .. m /\ DOMAIN t = 1 .. n /\ DOMAIN u = 1 .. m + n
      /\ \A k \in 1 .. m + n : u[k] = IF k <= m THEN s[k] ELSE t[k - m]
  BY ConcatProperties, LenProperties
<1> HIDE DEF u, m, n
<1>2. \A e : /\ e \in Elements(s) <=> \E k \in 1 .. m : e = s[k]
             /\ e \in Elements(t) <=> \E k \in 1 .. n : e = t[k]
             /\ e \in Elements(u) <=> \E k \in 1 .. m + n : e = u[k]
  BY <1>1 DEF Elements
<1>3. \A k \in 1 .. m : k \in 1 .. m + n /\ u[k] = s[k]
  BY <1>1
<1>4. \A k \in 1 .. n : m + k \in 1 .. m + n /\ u[m + k] = t[k]
  BY <1>1
<1>5. \A k \in 1 .. m + n : (k \in 1 .. m /\ u[k] = s[k]) \/ (k - m \in 1 .. n /\ u[k] = t[k - m])
  BY <1>1
<1>6. \A e : e \in Elements(u) <=> e \in Elements(s) \/ e \in Elements(t)
  BY <1>2, <1>3, <1>4, <1>5
<1> QED
  BY <1>6 DEF u

\* Sifting keeps exactly the elements of a sequence that are in the set.
LEMMA ElementsSifted ==
  ASSUME NEW seq, Len(seq) \in Nat, DOMAIN seq = 1 .. Len(seq), NEW set
  PROVE  \A e : e \in Elements(Sifted(seq, set)) <=> e \in Elements(seq) /\ e \in set
<1> DEFINE n == Len(seq)
<1>1. PICK f : SiftRun(f, seq, set)
  BY SiftRuns
<1>2. /\ Sifted(seq, set) = f[n] /\ f[0] = <<>>
      /\ \A k \in 1 .. n : f[k] = IF seq[k] \in set THEN Append(f[k - 1], seq[k]) ELSE f[k - 1]
      /\ \A k \in 0 .. n : f[k] \in Seq(set)
  BY <1>1 DEF SiftRun
<1> n \in Nat
  OBVIOUS
<1> HIDE DEF n
<1> DEFINE has(k) == \A e : e \in Elements(f[k]) <=> e \in set /\ \E i \in 1 .. k : e = seq[i]
<1>3. has(0)
  BY <1>2 DEF Elements
<1>4. ASSUME NEW k \in 1 .. n, has(k - 1)
      PROVE  has(k)
  <2>1. k - 1 \in 0 .. n /\ f[k - 1] \in Seq(set)
    BY <1>2
  <2>2. \A i \in 1 .. k : i \in 1 .. k - 1 \/ i = k
    OBVIOUS
  <2>3. \A i \in 1 .. k - 1 : i \in 1 .. k
    OBVIOUS
  <2>4. CASE seq[k] \in set
    <3>1. \A e : e \in Elements(f[k]) <=> e \in Elements(f[k - 1]) \/ e = seq[k]
      BY <1>2, <2>1, <2>4, ElementsOfAppend
    <3> QED
      BY <1>4, <2>2, <2>3, <2>4, <3>1
  <2>5. CASE seq[k] \notin set
    <3>1. f[k] = f[k - 1]
      BY <1>2, <2>5
    <3> QED
      BY <1>4, <2>2, <2>3, <2>5, <3>1
  <2> QED
    BY <2>4, <2>5
<1> DEFINE wrong == {k \in 0 .. n : ~has(k)}
<1> HIDE DEF has
<1>5. wrong = {}
  <2> SUFFICES ASSUME wrong # {} PROVE FALSE
    OBVIOUS
  <2>1. PICK m \in wrong : \A u \in wrong : m <= u
    <3>1. wrong \in SUBSET Nat
      OBVIOUS
    <3> HIDE DEF wrong
    <3> QED
      BY <3>1, LeastOf
  <2>2. m \in 1 .. n /\ m - 1 \in 0 .. n
    BY <1>3
  <2>3. has(m - 1)
    BY <2>1, <2>2
  <2> QED
    BY <1>4, <2>2, <2>3
<1>6. has(n)
  BY <1>5
<1>7. \A e : e \in Elements(seq) <=> \E i \in 1 .. n : e = seq[i]
  BY DEF Elements, n
<1> QED
  BY <1>2, <1>6, <1>7 DEF has

\* An order of a finite set goes through all of it.
LEMMA OrdersAreOnto ==
  ASSUME NEW set \in SUBSET Solution, NEW sols \in Orders(set)
  PROVE  /\ Cardinality(set) \in Nat /\ sols \in [1 .. Cardinality(set) -> set] /\ Len(sols) = Cardinality(set)
         /\ \A sol \in set : \E j \in 1 .. Cardinality(set) : sols[j] = sol
<1> DEFINE n == Cardinality(set)
           found == {sols[j] : j \in 1 .. n}
<1>1. IsFiniteSet(set) /\ n \in Nat
  BY SolutionsAreFinite
<1>2. sols \in [1 .. n -> set] /\ \A i \in 1 .. n : \A j \in 1 .. n : i # j => sols[i] # sols[j]
  BY DEF Orders
<1>3. Len(sols) = n
  BY <1>1, <1>2
<1>4. found \in SUBSET set /\ \A j \in 1 .. n : sols[j] \in found
  BY <1>2
<1>5. \A e \in found : \E j \in 1 .. n : sols[j] = e
  OBVIOUS
<1> HIDE DEF n, found
<1>6. sols \in Bijection(1 .. n, found)
  <2>1. sols \in [1 .. n -> found]
    BY <1>2, <1>4
  <2> QED
    BY <1>2, <1>5, <2>1 DEF Bijection, Injection, Surjection, IsInjective
<1>7. Cardinality(found) = n
  BY <1>1, <1>6, FS_CountingElements DEF ExistsBijection
<1>8. found = set
  BY <1>1, <1>4, <1>7, FS_Subset DEF n
<1> QED
  BY <1>1, <1>2, <1>3, <1>5, <1>8 DEF n

\* Solutions and templates are counted through together.
Inner(k, n) == ((k - 1) % n) + 1
Outer(k, n) == ((k - 1) \div n) + 1

\* Counting through n * m numbers meets every pair.
LEMMA CountedThrough ==
  ASSUME NEW n \in Nat, NEW m \in Nat
  PROVE  /\ \A k \in 1 .. n * m : Inner(k, n) \in 1 .. n /\ Outer(k, n) \in 1 .. m
         /\ \A i \in 1 .. n : \A j \in 1 .. m : \E k \in 1 .. n * m : Inner(k, n) = i /\ Outer(k, n) = j
<1> USE DEF Inner, Outer
<1>1. ASSUME NEW k \in 1 .. n * m
      PROVE  ((k - 1) % n) + 1 \in 1 .. n /\ ((k - 1) \div n) + 1 \in 1 .. m
  <2>1. n > 0 /\ k - 1 \in Nat
    OBVIOUS
  <2>2. (k - 1) % n \in 0 .. n - 1
    BY <2>1
  <2>3. (k - 1) \div n \in 0 .. m - 1
    BY <2>1
  <2> QED
    BY <2>2, <2>3
<1>2. ASSUME NEW i \in 1 .. n, NEW j \in 1 .. m
      PROVE  \E k \in 1 .. n * m : ((k - 1) % n) + 1 = i /\ ((k - 1) \div n) + 1 = j
  <2> DEFINE a == (j - 1) * n + (i - 1)
  <2>1. i - 1 \in 0 .. n - 1 /\ j - 1 \in 0 .. m - 1
    OBVIOUS
  <2>2. \A x \in 0 .. n - 1 : \A y \in 0 .. m - 1 :
          y * n + x < n * m /\ y * n + x \in Nat /\ (y * n + x) % n = x /\ (y * n + x) \div n = y
    <3> TAKE x \in 0 .. n - 1
    <3> TAKE y \in 0 .. m - 1
    <3>1. y * n + x < n * m /\ y * n + x \in Nat
      OBVIOUS
    <3>2. (y * n + x) % n = x /\ (y * n + x) \div n = y
      OBVIOUS
    <3> QED
      BY <3>1, <3>2
  <2>3. a < n * m /\ a \in Nat /\ a % n = i - 1 /\ a \div n = j - 1
    BY <2>1, <2>2
  <2>4. n * m \in Nat
    OBVIOUS
  <2> HIDE DEF a
  <2>5. a + 1 \in 1 .. n * m /\ (a + 1) - 1 = a
    BY <2>3, <2>4
  <2>6. ((a + 1 - 1) % n) + 1 = i /\ ((a + 1 - 1) \div n) + 1 = j
    BY <2>3, <2>5
  <2> QED
    BY <2>5, <2>6
<1> QED
  BY <1>1, <1>2

\* Filling templates gives exactly their instances that are quads.
LEMMA ElementsFilled ==
  ASSUME NEW templates \in Seq(Template), NEW set \in SUBSET Solution, NEW sols \in Orders(set)
  PROVE  \A q : q \in Elements(Filled(templates, sols)) <=> q \in {Insertion(templates[i], sol) : i \in DOMAIN templates, sol \in set} \cap Quad
<1> DEFINE n == Len(templates)
           m == Len(sols)
           fill(k) == Insertion(templates[Inner(k, n)], sols[Outer(k, n)])
           all == [k \in 1 .. n * m |-> fill(k)]
<1>1. /\ m \in Nat /\ sols \in [1 .. m -> set] /\ \A sol \in set : \E j \in 1 .. m : sols[j] = sol
  BY OrdersAreOnto
<1>2. n \in Nat /\ DOMAIN templates = 1 .. n
  BY LenProperties
<1>3. n * m \in Nat
  BY <1>1, <1>2
<1>4. Filled(templates, sols) = Sifted(all, Quad)
  BY DEF Filled, Inner, Outer
<1>5. Len(all) = n * m /\ DOMAIN all = 1 .. n * m
  BY <1>3
<1>6. \A q : q \in Elements(all) <=> \E k \in 1 .. n * m : q = fill(k)
  BY <1>5 DEF Elements
<1>7. \A q : q \in Elements(Sifted(all, Quad)) <=> q \in Elements(all) /\ q \in Quad
  <2> HIDE DEF all
  <2> QED
    BY <1>3, <1>5, ElementsSifted
<1> HIDE DEF all, n, m
<1>8. \A q : (\E k \in 1 .. n * m : q = fill(k)) <=> \E i \in 1 .. n : \E sol \in set : q = Insertion(templates[i], sol)
  <2> TAKE q
  <2>1. ASSUME NEW k \in 1 .. n * m, q = fill(k)
        PROVE  \E i \in 1 .. n : \E sol \in set : q = Insertion(templates[i], sol)
    <3>1. Inner(k, n) \in 1 .. n /\ Outer(k, n) \in 1 .. m
      BY <1>1, <1>2, CountedThrough
    <3>2. sols[Outer(k, n)] \in set
      BY <1>1, <3>1
    <3> QED
      BY <2>1, <3>1, <3>2
  <2>2. ASSUME NEW i \in 1 .. n, NEW sol \in set, q = Insertion(templates[i], sol)
        PROVE  \E k \in 1 .. n * m : q = fill(k)
    <3>1. PICK j \in 1 .. m : sols[j] = sol
      BY <1>1
    <3>2. PICK k \in 1 .. n * m : Inner(k, n) = i /\ Outer(k, n) = j
      <4>1. m \in Nat /\ n \in Nat
        BY <1>1, <1>2
      <4> QED
        BY <4>1, CountedThrough, Zenon
    <3>3. q = fill(k)
      BY <2>2, <3>1, <3>2
    <3> QED
      BY <3>3
  <2> QED
    BY <2>1, <2>2
<1> DEFINE instances == {Insertion(templates[i], sol) : i \in DOMAIN templates, sol \in set}
<1>9. \A q : q \in instances <=> \E i \in 1 .. n : \E sol \in set : q = Insertion(templates[i], sol)
  BY <1>2
<1> HIDE DEF instances, fill
<1>10. \A q : q \in Elements(Filled(templates, sols)) <=> q \in instances /\ q \in Quad
  BY <1>4, <1>6, <1>7, <1>8, <1>9
<1> QED
  BY <1>10 DEF instances

\* One more operation.
LEMMA MeansNext ==
  ASSUME NEW ops, NEW n \in Nat, NEW quads, NEW cs, Means(cs, ops, n, quads), NEW new,
         \A q \in Quad : q \in Elements(new.adds) <=>
           q \in Inserted(ops[n + 1], quads) \/ (q \in Elements(cs.adds) /\ ~DeletedBy(ops[n + 1], q, quads)),
         \A r \in QuadRef : r \in new.retractions <=> r \in cs.retractions \/ r \in Deleted(ops[n + 1], quads)
  PROVE  Means(new, ops, n + 1, quads)
<1>1. \A j \in 1 .. n + 1 : j \in 1 .. n \/ j = n + 1
  OBVIOUS
<1>2. \A j \in 1 .. n : j \in 1 .. n + 1 /\ n + 1 \in j + 1 .. n + 1
  OBVIOUS
<1>3. n + 1 \in 1 .. n + 1 /\ (n + 1) + 1 .. n + 1 = {}
  OBVIOUS
<1>4. \A j \in 1 .. n : \A i \in j + 1 .. n + 1 : i \in j + 1 .. n \/ i = n + 1
  OBVIOUS
<1>5. \A j \in 1 .. n : \A i \in j + 1 .. n : i \in j + 1 .. n + 1
  OBVIOUS
<1>6. ASSUME NEW q \in Quad
      PROVE  q \in Elements(new.adds) <=>
               \E j \in 1 .. n + 1 : q \in Inserted(ops[j], quads)
                                     /\ \A i \in j + 1 .. n + 1 : ~DeletedBy(ops[i], q, quads)
  <2> DEFINE in(j) == q \in Inserted(ops[j], quads)
             del(i) == DeletedBy(ops[i], q, quads)
  <2>1. q \in Elements(cs.adds) <=> \E j \in 1 .. n : in(j) /\ \A i \in j + 1 .. n : ~del(i)
    BY DEF Means
  <2>2. q \in Elements(new.adds) <=> in(n + 1) \/ (q \in Elements(cs.adds) /\ ~del(n + 1))
    OBVIOUS
  <2> HIDE DEF in, del
  <2>3. q \in Elements(new.adds) <=> \E j \in 1 .. n + 1 : in(j) /\ \A i \in j + 1 .. n + 1 : ~del(i)
    BY <1>1, <1>2, <1>3, <1>4, <1>5, <2>1, <2>2
  <2> QED
    BY <2>3 DEF in, del
<1>7. ASSUME NEW r \in QuadRef
      PROVE  r \in new.retractions <=> \E j \in 1 .. n + 1 : r \in Deleted(ops[j], quads)
  BY <1>1, <1>2, <1>3 DEF Means
<1> QED
  BY <1>6, <1>7 DEF Means

-----------------------------------------------------------------------------
(* Versions and what a batch writes *)

\* What is known of the versions of a quad.
LEMMA VersionsOf ==
  ASSUME UpdateTypeOK, VersionsOK
  PROVE  \A q : /\ Of(q) \subseteq Version
                /\ \A v \in Of(q) : v.tt \in 0 .. ts
                /\ \A v \in Of(q) : \A w \in Of(q) : v.tt = w.tt => v = w
                /\ Of(q) # {} => q \in Quad
  BY DEF UpdateTypeOK, VersionsOK, Of

\* A quad that is stored has a newest version.
LEMMA NewestIs ==
  ASSUME UpdateTypeOK, VersionsOK, NEW r \in DOMAIN stored
  PROVE  NewestByTt(stored[r]) \in Version
<1> DEFINE vs == stored[r]
           ages == {ts - v.tt : v \in vs}
<1>1. vs # {} /\ vs \subseteq Version /\ ts \in Nat /\ \A v \in vs : v.tt \in 0 .. ts
  BY DEF UpdateTypeOK, VersionsOK
<1>2. ages \in SUBSET Nat /\ ages # {}
  BY <1>1
<1> HIDE DEF vs
<1>3. PICK m \in ages : \A u \in ages : m <= u
  <2> HIDE DEF ages
  <2> QED
    BY <1>2, LeastOf
<1>4. PICK v \in vs : m = ts - v.tt
  BY <1>3
<1>5. \A w \in vs : ts - v.tt <= ts - w.tt
  BY <1>3, <1>4
<1>6. \A w \in vs : w.tt <= v.tt
  BY <1>1, <1>5
<1>7. NewestByTt(vs) \in vs
  BY <1>6 DEF NewestByTt
<1> QED
  BY <1>1, <1>7 DEF vs

LEMMA ClosingIsClosed ==
  ASSUME UpdateTypeOK, VersionsOK, NEW refs, NEW t
  PROVE  Closing(refs, t) \subseteq Closed
<1> SUFFICES ASSUME NEW w \in Closing(refs, t) PROVE w \in Closed
  OBVIOUS
<1>1. PICK q : \E v \in Of(q) : Closer(w, q, v)
  BY ClosingIs
<1>2. PICK v \in Of(q) : Closer(w, q, v)
  BY <1>1
<1>3. v \in Version /\ q \in Quad
  BY VersionsOf
<1>4. v.start \in Nat /\ MaxOf(Now, v.start) \in Nat
  BY <1>3, UpdateConstants DEF Version, MaxOf
<1> QED
  BY <1>2, <1>3, <1>4 DEF Closer, Closed

LEMMA BatchWindowsAre ==
  ASSUME UpdateTypeOK, VersionsOK, NEW closed, closed \subseteq Closed
  PROVE  BatchWindows(closed) \subseteq [start : Nat, end : Nat]
<1> DEFINE ws == BatchStart(closed).windows
<1>1. ASSUME NEW q \in {w.quad : w \in closed}
      PROVE  ws[q] \in [start : Nat, end : Nat]
  <2> DEFINE w == CHOOSE w \in closed : w.quad = q
  <2>1. w \in closed
    OBVIOUS
  <2>2. ws[q] = [start |-> w.start, end |-> w.end]
    BY DEF BatchStart
  <2> HIDE DEF w
  <2> QED
    BY <2>1, <2>2 DEF Closed
<1>2. ASSUME NEW r \in DOMAIN stored
      PROVE  [start |-> NewestByTt(stored[r]).start, end |-> 0] \in [start : Nat, end : Nat]
  BY NewestIs DEF Version
<1>3. EndOfTime \in Nat
  BY EndOfTimeType
<1> HIDE DEF ws
<1>4. \A x \in {ws[q] : q \in {w.quad : w \in closed}} : x \in [start : Nat, end : Nat]
  BY <1>1
<1>5. \A x \in {[start |-> NewestByTt(stored[r]).start, end |-> 0] : r \in DOMAIN stored} : x \in [start : Nat, end : Nat]
  BY <1>2
<1>6. \A x \in {[start |-> 0, end |-> EndOfTime], [start |-> 0, end |-> 0]} : x \in [start : Nat, end : Nat]
  BY <1>3
<1> QED
  BY <1>4, <1>5, <1>6, Zenon DEF BatchWindows, ws

\* A commit keeps the times of the versions of a quad apart.
LEMMA WrittenVersions ==
  ASSUME UpdateInv, VersionsOK, Locked, NEW windows, \A q \in DOMAIN windows : windows[q] \in [start : Nat, end : Nat],
         stored' = Written(windows), ts' = ts
  PROVE  VersionsOK'
<1> DEFINE new(q) == IF q \in DOMAIN windows
                     THEN {[start |-> windows[q].start, end |-> windows[q].end, tt |-> ts]} ELSE {}
<1>1. ts \in Nat /\ UpdateTypeOK
  BY DEF UpdateInv, UpdateTypeOK
<1>2. DOMAIN stored' = DOMAIN stored \cup DOMAIN windows /\ \A q \in DOMAIN stored' : stored'[q] = Of(q) \cup new(q)
  BY DEF Written
<1>3. \A q : new(q) \subseteq Version /\ \A v \in new(q) : \A w \in new(q) : v = w /\ v.tt = ts
  BY <1>1 DEF Version
<1>4. \A q \in DOMAIN windows : new(q) # {}
  OBVIOUS
<1>5. \A q \in DOMAIN stored : Of(q) # {}
  BY DEF VersionsOK, Of
<1> HIDE DEF new
<1>6. \A q : \A v \in Of(q) : v.tt # ts
  BY SettledIs
<1>7. ASSUME NEW q \in DOMAIN stored'
      PROVE  /\ stored'[q] \subseteq Version /\ stored'[q] # {}
             /\ \A v \in stored'[q] : \A w \in stored'[q] : v.tt = w.tt => v = w
  BY <1>2, <1>3, <1>4, <1>5, <1>6, <1>1, VersionsOf
<1> QED
  BY <1>7 DEF VersionsOK

LitValues(batch) == \A e \in batch.values : e.quad.o \in Literal

\* An add closes no quad but other values of its property, when it replaces
\* them.
LEMMA StageIs ==
  ASSUME NEW batch, LitValues(batch), NEW r, NEW auto, NEW q
  PROVE  LET after == Stage(batch, r, auto)
         IN  /\ LitValues(after)
             /\ r \in DOMAIN after.windows /\ after.windows[r] = [start |-> 0, end |-> EndOfTime]
             /\ q # r /\ ~(Replaces(r, auto) /\ SameSlot(q, r) /\ q.o \in Literal) =>
                  /\ q \in DOMAIN after.windows <=> q \in DOMAIN batch.windows
                  /\ q \in DOMAIN batch.windows => after.windows[q] = batch.windows[q]
<1> DEFINE always == [start |-> 0, end |-> EndOfTime]
           window(x) == [start |-> NewestByTt(stored[x]).start, end |-> 0]
           mine == {e \in batch.values : SameSlot(e.quad, r)}
           quads == {e.quad : e \in mine}
           open == {e.quad : e \in {e \in mine : e.end = EndOfTime}}
           shut == IF Replaces(r, auto) THEN (OpenValues(r) \ quads) \cup open ELSE {}
           D == DOMAIN batch.windows \cup shut \cup {r}
           ws == [x \in D |-> IF x = r THEN always
                              ELSE IF x \notin shut THEN batch.windows[x]
                              ELSE IF x \in open THEN [start |-> 0, end |-> 0] ELSE window(x)]
           vs == (IF Replaces(r, auto) THEN batch.values \ mine ELSE batch.values)
                   \cup IF r.o \in Literal THEN {[quad |-> r, end |-> EndOfTime]} ELSE {}
           after == Stage(batch, r, auto)
<1>1. after = [windows |-> ws, values |-> vs]
  BY DEF Stage
<1>2. \A e \in vs : e.quad.o \in Literal
  BY DEF LitValues
<1>3. \A x \in shut : Replaces(r, auto) /\ SameSlot(x, r) /\ x.o \in Literal
  <2>1. \A x \in OpenValues(r) : SameSlot(x, r) /\ x.o \in Literal
    BY DEF OpenValues, SameSlot
  <2>2. \A x \in open : SameSlot(x, r) /\ x.o \in Literal
    BY DEF LitValues
  <2> HIDE DEF open, quads
  <2> QED
    BY <2>1, <2>2
<1> HIDE DEF always, window, mine, quads, open, shut, vs
<1>4. r \in D /\ ws[r] = always
  OBVIOUS
<1>5. q # r /\ q \notin shut => (q \in D <=> q \in DOMAIN batch.windows) /\ (q \in D => ws[q] = batch.windows[q])
  OBVIOUS
<1>6. DOMAIN ws = D
  OBVIOUS
<1> HIDE DEF ws, D
<1>7. after.windows = ws /\ after.values = vs
  BY <1>1
<1> HIDE DEF after
<1>8. LitValues(after)
  BY <1>2, <1>7 DEF LitValues
<1> QED
  BY <1>3, <1>4, <1>5, <1>6, <1>7, <1>8 DEF after, always

Shuts(closed, q) == \E w \in closed : w.quad = q

\* Another value replaces q.
Rivalled(q, adds, auto) == auto /\ q.o \in Literal /\ \E r \in Elements(adds) : r # q /\ r.o \in Literal /\ SameSlot(q, r)

\* These windows are always that of what is added, that of what is closed and
\* not added, and none for anything else.
WindowIs(ws, q, closed, adds) ==
  /\ q \in Elements(adds) => q \in DOMAIN ws /\ ws[q] = [start |-> 0, end |-> EndOfTime]
  /\ q \notin Elements(adds) /\ Shuts(closed, q) =>
       q \in DOMAIN ws /\ \E w \in closed : w.quad = q /\ ws[q] = [start |-> w.start, end |-> w.end]
  /\ q \notin Elements(adds) /\ ~Shuts(closed, q) => q \notin DOMAIN ws

\* A batch holds an added quad as open from 0 on, a closed one that is not added with a window that was
\* closed, and none else, but for values that an add in mode Auto replaces.
LEMMA BatchIs ==
  ASSUME DOMAIN stored \subseteq Quad, NEW closed, \A w \in closed : w.quad \in Quad, NEW adds \in Seq(Quad), NEW auto,
         NEW q, ~Rivalled(q, adds, auto)
  PROVE  WindowIs(Batch(closed, adds, auto), q, closed, adds)
<1> DEFINE n == Len(adds)
           always == [start |-> 0, end |-> EndOfTime]
           ws == Batch(closed, adds, auto)
<1>1. PICK f : BatchRun(f, closed, adds, auto)
  BY BatchRuns
<1>2. /\ ws = f[n].windows /\ f[0] = BatchStart(closed)
      /\ \A k \in 1 .. n : f[k] = Stage(f[k - 1], adds[k], auto)
  BY <1>1 DEF BatchRun
<1>3. n \in Nat /\ \A r : r \in Elements(adds) <=> \E k \in 1 .. n : adds[k] = r
  BY LenProperties DEF Elements
<1>4. \A k \in 1 .. n : adds[k] # q => ~(Replaces(adds[k], auto) /\ SameSlot(q, adds[k]) /\ q.o \in Literal)
  BY <1>3 DEF Replaces, Rivalled
<1> HIDE DEF n, always, ws
<1> DEFINE first == BatchStart(closed).windows
           right(k) == /\ LitValues(f[k])
                       /\ IF \E i \in 1 .. k : adds[i] = q
                          THEN q \in DOMAIN f[k].windows /\ f[k].windows[q] = always
                          ELSE /\ q \in DOMAIN f[k].windows <=> q \in DOMAIN first
                               /\ q \in DOMAIN first => f[k].windows[q] = first[q]
           wrong == {k \in 0 .. n : ~right(k)}
<1>5. right(0)
  <2>1. LitValues(BatchStart(closed))
    BY DEF BatchStart, LitValues
  <2>2. ~\E i \in 1 .. 0 : adds[i] = q
    OBVIOUS
  <2> QED
    BY <1>2, <2>1, <2>2
<1>6. ASSUME NEW k \in 1 .. n, right(k - 1)
      PROVE  right(k)
  <2> DEFINE b == f[k - 1]  r == adds[k]
  <2>1. f[k] = Stage(b, r, auto) /\ LitValues(b)
    BY <1>2, <1>6
  <2>2. \A i \in 1 .. k : i \in 1 .. k - 1 \/ i = k
    OBVIOUS
  <2>3. k \in 1 .. k /\ \A i \in 1 .. k - 1 : i \in 1 .. k
    OBVIOUS
  <2>4. /\ LitValues(f[k])
        /\ r \in DOMAIN f[k].windows /\ f[k].windows[r] = always
        /\ q # r => /\ q \in DOMAIN f[k].windows <=> q \in DOMAIN b.windows
                    /\ q \in DOMAIN b.windows => f[k].windows[q] = b.windows[q]
    BY <1>4, <2>1, StageIs DEF always
  <2>5. CASE r = q
    BY <2>3, <2>4, <2>5
  <2>6. CASE r # q
    <3>1. (\E i \in 1 .. k : adds[i] = q) <=> \E i \in 1 .. k - 1 : adds[i] = q
      BY <2>2, <2>3, <2>6
    <3> HIDE DEF first
    <3> QED
      BY <1>6, <2>4, <2>6, <3>1
  <2> QED
    BY <2>5, <2>6
<1> HIDE DEF right
<1>7. wrong = {}
  <2> SUFFICES ASSUME wrong # {} PROVE FALSE
    OBVIOUS
  <2> n \in Nat
    BY <1>3
  <2>1. PICK m \in wrong : \A u \in wrong : m <= u
    <3>1. wrong \in SUBSET Nat
      OBVIOUS
    <3> HIDE DEF wrong
    <3> QED
      BY <3>1, LeastOf
  <2>2. m \in 1 .. n /\ m - 1 \in 0 .. n
    BY <1>5
  <2>3. right(m - 1)
    BY <2>1, <2>2
  <2> QED
    BY <1>6, <2>2, <2>3
<1>8. right(n)
  BY <1>3, <1>7
<1>9. DOMAIN first = {w.quad : w \in closed}
  BY DEF BatchStart
<1>10. q \in DOMAIN first <=> Shuts(closed, q)
  BY <1>9 DEF Shuts
<1>11. ASSUME q \in DOMAIN first
       PROVE  \E w \in closed : w.quad = q /\ first[q] = [start |-> w.start, end |-> w.end]
  <2> DEFINE w == CHOOSE w \in closed : w.quad = q
  <2>1. w \in closed /\ w.quad = q
    BY <1>9, <1>11
  <2>2. first[q] = [start |-> w.start, end |-> w.end]
    BY <1>9, <1>11 DEF BatchStart
  <2> HIDE DEF w
  <2> QED
    BY <2>1, <2>2
<1> HIDE DEF first
<1> QED
  BY <1>2, <1>3, <1>8, <1>10, <1>11 DEF right, always, ws, WindowIs

-----------------------------------------------------------------------------
(* Requests that others work beside *)

\* The request of c is as it was.
Rests(c) ==
  /\ request' = request /\ at'[c] = at[c] /\ readAt'[c] = readAt[c] /\ shown'[c] = shown[c] /\ op'[c] = op[c] /\ branch'[c] = branch[c]
  /\ rows'[c] = rows[c] /\ changes'[c] = changes[c] /\ approved'[c] = approved[c] /\ seen'[c] = seen[c]
  /\ closes'[c] = closes[c] /\ begun'[c] = begun[c] /\ committed'[c] = committed[c]

\* The evaluator still has the query of c.
StillAsks(c) == at[c] = "asking" => asker' = asker /\ state' # "idle" /\ store' = store /\ task' = task

\* Steps of others leave a request where it is,
LEMMA OrderStays ==
  ASSUME UpdateInv, UpdateInv', NEW c \in Client, Order(c), Rests(c), StillAsks(c), Grows
  PROVE  Order(c)'
<1>1. committed[c] \in Nat /\ begun[c] \in Nat /\ readAt[c] \in Nat
  BY DEF UpdateInv, UpdateTypeOK
<1>2. Current(c)' = Current(c) /\ (Modifying(c)' <=> Modifying(c)) /\ WhereTask(c)' = WhereTask(c)
  BY DEF Rests, Current, Modifying, WhereTask
<1>3. ts \in Nat /\ ts' \in Nat /\ ts <= ts' /\ Settled \in Nat /\ Settled' \in Nat /\ Settled <= Settled'
  <2>1. ts' \in Nat /\ Settled' \in Nat
    BY DEF UpdateInv, UpdateTypeOK, LockOK, Settled
  <2> QED
    BY <2>1, SettledIs DEF Grows
<1> QED
  BY <1>1, <1>2, <1>3 DEF Rests, StillAsks, Order

\* What a request reads changes with the write of a commit that was in flight,
\* and then it is disturbed for good.
LEMMA ReadStays ==
  ASSUME UpdateInv, UpdateInv', PointsOK, NEW c \in Client, readAt'[c] = readAt[c], shown'[c] = shown[c],
         request' = request, Grows, Counts, Reads(c) => (Settled < readAt[c] => Undisturbed(c))
  PROVE  /\ Reads(c)' <=> Reads(c)
         /\ Reads(c) => /\ (Settled < readAt[c])' => Undisturbed(c)'
                        /\ Undisturbed(c)' => Undisturbed(c)
<1>1. PICK t : t = readAt[c]
  OBVIOUS
<1>2. t \in Nat /\ ts \in Nat /\ Point(t) /\ IsFiniteSet(outside)
  BY <1>1 DEF UpdateInv, UpdateTypeOK, PointsOK
<1>3. t <= ts' <=> t <= ts
  BY <1>2, PointsStay
<1>4. Reads(c)' <=> Reads(c)
  BY <1>1, <1>3 DEF Reads, HasWhere
<1>5. ShownAt(readAt[c])' = ShownAt(t)'
  BY <1>1 DEF ShownAt
<1>6. Settled \in Nat /\ Settled' \in Nat /\ Settled <= Settled' /\ ts <= ts' /\ ts' \in Nat
  <2>1. ts' \in Nat /\ Settled' \in Nat
    BY DEF UpdateInv, UpdateTypeOK, LockOK, Settled
  <2> QED
    BY <2>1, SettledIs DEF Grows
<1>7. (Settled < readAt[c])' <=> Settled' < t
  BY <1>1
<1>8. CASE t <= Settled
  <2>1. ShownAt(t)' = ShownAt(t)
    BY <1>2, <1>8, ReadsStay
  <2> QED
    BY <1>1, <1>2, <1>4, <1>5, <1>6, <1>7, <1>8, <2>1 DEF Undisturbed
<1>9. CASE Reads(c) /\ Settled < t
  <2>1. Undisturbed(c) /\ t <= ts
    BY <1>1, <1>9 DEF Reads
  <2>2. ASSUME Settled' < t
        PROVE  ShownAt(t)' = ShownAt(t)
    <3>1. Settled' # ts'
      BY <1>2, <1>6, <2>1, <2>2
    <3>2. stored' = stored
      BY <3>1 DEF Grows
    <3> QED
      BY <3>2 DEF ShownAt
  <2> QED
    BY <1>1, <1>4, <1>5, <1>7, <2>1, <2>2 DEF Undisturbed
<1> QED
  BY <1>2, <1>4, <1>6, <1>8, <1>9

\* An update goes on from what it has found.
LEMMA MeaningThen ==
  ASSUME UpdateInv, UpdateInv', PointsOK, NEW c \in Client, Meaning(c), at[c] # "new", readAt'[c] = readAt[c],
         shown'[c] = shown[c], request' = request, Grows, Counts, NEW read, read = shown[c],
         /\ Reads(c) /\ (HasWhere(request[c]) => Undisturbed(c)) /\ Found(c, read) /\ (Undisturbed(c)' => Undisturbed(c))
         => Found(c, read)'
  PROVE  Meaning(c)'
<1>1. Reads(c) => (Settled < readAt[c] => Undisturbed(c))
  BY DEF Meaning
<1>2. /\ Reads(c)' <=> Reads(c)
      /\ Reads(c) => /\ (Settled < readAt[c])' => Undisturbed(c)'
                     /\ Undisturbed(c)' => Undisturbed(c)
  BY <1>1, ReadStays
<1>3. Reads(c) /\ Steady(c)' => Steady(c)
  BY <1>2 DEF Steady, HasWhere
<1>4. Reads(c) /\ Steady(c) => Found(c, read)
  BY DEF Meaning
<1>5. Reads(c) /\ Steady(c)' => Found(c, read)'
  BY <1>2, <1>3, <1>4 DEF Steady
<1>6. Reads(c)' /\ Steady(c)' => Found(c, shown[c])'
  BY <1>2, <1>5 DEF Found
<1> QED
  BY <1>2, <1>6 DEF Meaning

\* What it has closed stays what it was.
LEMMA ClosesStay ==
  ASSUME UpdateInv, UpdateInv', NEW c \in Client, seen'[c] = seen[c], changes'[c] = changes[c], closes'[c] = closes[c],
         readAt'[c] = readAt[c], Grows, Undisturbed(c)' => Undisturbed(c), NEW read,
         /\ seen[c] <= Settled /\ (readAt[c] > 0 /\ Undisturbed(c) => ShownAt(seen[c]) = read)
         /\ closes[c] = Closing(changes[c].retractions, seen[c])
  PROVE  /\ (seen[c] <= Settled)' /\ (readAt'[c] > 0 /\ Undisturbed(c)' => ShownAt(seen[c])' = read)
         /\ closes'[c] = Closing(changes[c].retractions, seen[c])'
<1>1. PICK t : t = seen[c]
  OBVIOUS
<1>2. PICK refs : refs = changes[c].retractions
  OBVIOUS
<1>3. t \in Nat /\ t <= Settled
  BY <1>1 DEF UpdateInv, UpdateTypeOK
<1>4. ShownAt(t)' = ShownAt(t) /\ Closing(refs, t)' = Closing(refs, t)
  BY <1>3, ReadsStay
<1>5. Closing(changes[c].retractions, seen[c])' = Closing(refs, t)' /\ ShownAt(seen[c])' = ShownAt(t)'
  BY <1>1, <1>2 DEF Closing, ShownAt
<1>6. t <= Settled'
  <2>1. Settled' \in Nat
    BY DEF UpdateInv, UpdateTypeOK, LockOK, Settled
  <2> QED
    BY <1>3, <2>1, SettledIs DEF Grows
<1> QED
  BY <1>1, <1>2, <1>4, <1>5, <1>6

\* Steps of others leave it what it has found out,
LEMMA MeaningStays ==
  ASSUME UpdateInv, UpdateInv', PointsOK, NEW c \in Client, Meaning(c), Rests(c), StillAsks(c), Grows, Counts
  PROVE  Meaning(c)'
<1>1. CASE at[c] = "new"
  BY <1>1 DEF Meaning, Rests
<1>2. CASE at[c] # "new"
  <2>1. PICK read : read = shown[c]
    OBVIOUS
  <2>2. Current(c)' = Current(c)
    BY DEF Rests, Current
  <2>3. ASSUME Found(c, read), Undisturbed(c)' => Undisturbed(c)
        PROVE  Found(c, read)'
    <3>1. at[c] \in {"resolved", "begun", "committing", "refused", "applied", "conflict"} =>
            /\ (seen[c] <= Settled)' /\ (readAt'[c] > 0 /\ Undisturbed(c)' => ShownAt(seen[c])' = read)
            /\ closes'[c] = Closing(changes[c].retractions, seen[c])'
      BY <2>3, ClosesStay DEF Found, Rests
    <3> QED
      BY <2>2, <2>3, <3>1 DEF Found, Rests, StillAsks
  <2> QED
    BY <1>2, <2>1, <2>3, MeaningThen DEF Rests
<1> QED
  BY <1>1, <1>2

\* and what its commit has done, since versions of later times change nothing of it.
LEMMA CommitsStay ==
  ASSUME UpdateInv, UpdateInv', NEW c \in Client, Order(c), Conditional(c), Effect(c), changes'[c] = changes[c],
         closes'[c] = closes[c], approved'[c] = approved[c], readAt'[c] = readAt[c], committed'[c] = committed[c], Grows
  PROVE  Conditional(c)' /\ Effect(c)'
<1>1. Settled \in Nat /\ committed[c] \in Nat /\ (committed[c] > 0 => committed[c] <= Settled)
  BY SettledIs DEF UpdateInv, UpdateTypeOK, Order
<1>2. \A q : Of(q) \subseteq Of(q)' /\ \A v \in Of(q)' : v \in Of(q) \/ (v.tt \in Nat /\ Settled < v.tt)
  <2>1. \A q \in DOMAIN stored' : \A v \in stored'[q] : v.tt \in Nat
    BY DEF UpdateInv, UpdateTypeOK
  <2>2. \A q : Of(q)' = IF q \in DOMAIN stored' THEN stored'[q] ELSE {}
    BY DEF Of
  <2> QED
    BY <2>1, <2>2 DEF Grows
<1>3. Adds(c)' = Adds(c) /\ \A q : (Closes(c, q)' <=> Closes(c, q)) /\ (Replaced(c, q)' <=> Replaced(c, q))
  BY DEF Adds, Closes, Replaced
<1>4. Effect(c)'
  <2> SUFFICES ASSUME committed'[c] > 0, NEW q \in Quad, ~Replaced(c, q)'
               PROVE  /\ (q \in Adds(c))' => [start |-> 0, end |-> EndOfTime, tt |-> committed'[c]] \in Of(q)'
                      /\ (q \notin Adds(c))' /\ Closes(c, q)' =>
                           \E w \in closes'[c] : w.quad = q /\ [start |-> w.start, end |-> w.end, tt |-> committed'[c]] \in Of(q)'
                      /\ (q \notin Adds(c))' /\ ~Closes(c, q)' => \A v \in Of(q)' : v.tt # committed'[c]
    BY Zenon DEF Effect
  <2> QED
    BY <1>1, <1>2, <1>3 DEF Effect
<1>5. Conditional(c)'
  <2> SUFFICES ASSUME committed'[c] > 0, readAt'[c] > 0, NEW q \in Quad, (q \in Adds(c))' \/ Closes(c, q)',
                      NEW v \in Of(q)', readAt'[c] < v.tt, v.tt < committed'[c]
               PROVE  FALSE
    BY Zenon DEF Conditional, WrittenSince
  <2>1. v \in Of(q)
    BY <1>1, <1>2
  <2> QED
    BY <1>3, <2>1 DEF Conditional, WrittenSince
<1> QED
  BY <1>4, <1>5

\* Steps of others keep the invariant of a client.
LEMMA OthersStay ==
  ASSUME UpdateInv, UpdateInv', PointsOK, NEW c \in Client, OfClient(c), Rests(c), StillAsks(c), Grows, Counts
  PROVE  OfClient(c)'
<1>1. Order(c)' /\ Meaning(c)'
  BY OrderStays, MeaningStays DEF OfClient
<1>2. Conditional(c)' /\ Effect(c)'
  BY CommitsStay DEF OfClient, Rests
<1> QED
  BY <1>1, <1>2 DEF OfClient

-----------------------------------------------------------------------------
(* Steps of a request *)

\* The operations of an update are a sequence.
LEMMA OpsAre ==
  ASSUME UpdateTypeOK, NEW c \in Client, request[c].kind = "update"
  PROVE  /\ request[c].ops \in Seq(Operation) /\ Len(request[c].ops) \in Nat
         /\ DOMAIN request[c].ops = 1 .. Len(request[c].ops)
         /\ request[c].readTs \in Nat
<1>1. IsRequest(request[c])
  BY DEF UpdateTypeOK
<1>2. request[c].ops \in Seq(Operation) /\ request[c].readTs \in Nat
  BY <1>1 DEF IsRequest
<1> QED
  BY <1>2, LenProperties

\* Before its commit nothing is said of one.
LEMMA NotCommitted ==
  ASSUME NEW c \in Client, UpdateTypeOK, Order(c), at[c] # "applied", committed' = committed
  PROVE  committed'[c] = 0 /\ Conditional(c)' /\ Effect(c)'
<1>1. committed'[c] = 0
  BY DEF UpdateTypeOK, Order
<1> QED
  BY <1>1 DEF Conditional, Effect

\* A step that leaves the lock alone leaves what is settled.
LEMMA SameLock ==
  ASSUME UpdateTypeOK, NEW c \in Client, at[c] # "committing", NEW d, d # "committing",
         at' = at \/ at' = [at EXCEPT ![c] = d], ts' = ts, writing' = writing
  PROVE  (Locked' <=> Locked) /\ Settled' = Settled
<1>1. at' \in [Client -> Stages \cup {d}] /\ \A e \in Client : at'[e] = "committing" <=> at[e] = "committing"
  BY DEF UpdateTypeOK
<1> QED
  BY <1>1 DEF Locked, Settled

\* An update that moves on while nothing is committed.
LEMMA SameRead ==
  ASSUME NEW c \in Client, stored' = stored, ts' = ts, Settled' = Settled, readAt'[c] = readAt[c],
         shown'[c] = shown[c], request' = request, Meaning(c), at[c] # "new", NEW read, read = shown[c],
         Reads(c) /\ (HasWhere(request[c]) => Undisturbed(c)) /\ Found(c, read) /\ (Undisturbed(c)' <=> Undisturbed(c))
         => Found(c, read)'
  PROVE  Meaning(c)'
<1>1. /\ Reads(c)' <=> Reads(c)
      /\ ShownAt(readAt[c])' = ShownAt(readAt[c])
  BY DEF Reads, ShownAt, HasWhere
<1>2. (Undisturbed(c)' <=> Undisturbed(c)) /\ (Steady(c)' <=> Steady(c))
  BY <1>1 DEF Undisturbed, Steady, HasWhere
<1>3. Reads(c) /\ Steady(c) => Found(c, read)'
  BY <1>2 DEF Meaning, Steady
<1>4. Reads(c)' /\ Steady(c)' => Found(c, shown[c])'
  BY <1>1, <1>2, <1>3 DEF Found
<1> QED
  BY <1>1, <1>2, <1>4 DEF Meaning

\* No operations lead to no changes.
LEMMA MeansNothing ==
  ASSUME NEW ops, NEW quads
  PROVE  Means(NoChanges, ops, 0, quads)
<1>1. Elements(<<>>) = {}
  BY DEF Elements
<1> QED
  BY <1>1 DEF Means, NoChanges

\* The steps of a request keep its own invariant, one lemma for each.
LEMMA StartUpdateStep ==
  ASSUME UpdateTypeOK, NEW c \in Client, OfClient(c), StartUpdate(c)
  PROVE  OfClient(c)'
<1> DEFINE t == IF request[c].readTs = 0 /\ HasWhere(request[c]) THEN ts ELSE request[c].readTs
<1>1. /\ at[c] = "new" /\ request[c].kind = "update" /\ readAt' = [readAt EXCEPT ![c] = t]
      /\ at' = [at EXCEPT ![c] = "compiling"]
      /\ UNCHANGED <<stored, ts, writing, request, op, branch, rows, changes, committed>>
      /\ shown' = [shown EXCEPT ![c] = ShownAt(readAt'[c])]
  BY DEF StartUpdate
<1> HIDE DEF t
<1>2. at'[c] = "compiling"
  BY <1>1 DEF UpdateTypeOK
<1>3. op[c] = 1 /\ branch[c] = 1 /\ rows[c] = {} /\ changes[c] = NoChanges
  BY <1>1 DEF OfClient, Order
<1>4. Conditional(c)' /\ Effect(c)' /\ committed'[c] = 0
  BY <1>1, NotCommitted DEF OfClient
<1>5. Order(c)'
  BY <1>1, <1>2, <1>3, <1>4, OpsAre DEF Order
<1>6. Meaning(c)'
  <2>1. Undisturbed(c)'
    <3>1. shown'[c] = ShownAt(readAt'[c])
      BY <1>1 DEF UpdateTypeOK
    <3> QED
      BY <1>1, <3>1 DEF Undisturbed, ShownAt
  <2>2. PICK read : read = shown'[c]
    OBVIOUS
  <2>3. Means(changes[c], request[c].ops, op[c] - 1, read)
    BY <1>3, MeansNothing
  <2>4. Found(c, read)'
    BY <1>1, <1>2, <1>3, <2>3 DEF Found
  <2>5. Found(c, shown[c])'
    BY <2>2, <2>4 DEF Found
  <2> QED
    BY <2>1, <2>5 DEF Meaning
<1> QED
  BY <1>4, <1>5, <1>6 DEF OfClient

\* What one operation makes of a changeset.
LEMMA DataMeans ==
  ASSUME NEW o \in Operation, o.kind \in {"insert", "delete"}, NEW cs \in Changesets, NEW new,
         new = IF o.kind = "insert" THEN Add(cs, o.quads) ELSE Retract(cs, Elements(o.quads)), NEW quads
  PROVE  /\ \A q \in Quad : q \in Elements(new.adds) <=>
              q \in Inserted(o, quads) \/ (q \in Elements(cs.adds) /\ ~DeletedBy(o, q, quads))
         /\ \A r \in QuadRef : r \in new.retractions <=> r \in cs.retractions \/ r \in Deleted(o, quads)
<1>0. cs.adds \in Seq(Quad) /\ cs = [adds |-> cs.adds, retractions |-> cs.retractions]
  BY DEF Changesets
<1>1. CASE o.kind = "insert"
  <2>1. Inserted(o, quads) = Elements(o.quads) /\ Deleted(o, quads) = {}
    BY <1>1 DEF Inserted, Deleted
  <2>2. new.adds = cs.adds \o o.quads /\ new.retractions = cs.retractions
    BY <1>0, <1>1 DEF Add
  <2>3. o.quads \in Seq(Quad)
    BY <1>1, OperationIs
  <2>4. \A q : q \in Elements(new.adds) <=> q \in Elements(cs.adds) \/ q \in Elements(o.quads)
    <3>1. cs.adds \in Seq(Quad)
      BY <1>0
    <3>2. \A q : q \in Elements(cs.adds \o o.quads) <=> q \in Elements(cs.adds) \/ q \in Elements(o.quads)
      BY <2>3, <3>1, ElementsOfConcat, Zenon
    <3> QED
      BY <2>2, <3>2, Zenon
  <2> QED
    BY <2>1, <2>2, <2>4 DEF DeletedBy
<1>2. CASE o.kind = "delete"
  <2> DEFINE refs == Elements(o.quads)
             kept == {q \in Quad : ~\E r \in refs : Names(r, q)}
  <2>1. Inserted(o, quads) = {} /\ Deleted(o, quads) = refs
    BY <1>2 DEF Inserted, Deleted
  <2>2. new.adds = Sifted(cs.adds, kept) /\ new.retractions = cs.retractions \cup refs
    BY <1>0, <1>2 DEF Retract
  <2>3. \A q \in Quad : q \in kept <=> ~DeletedBy(o, q, quads)
    BY <2>1 DEF DeletedBy
  <2> HIDE DEF refs, kept
  <2>4. \A q : q \in Elements(new.adds) <=> q \in Elements(cs.adds) /\ q \in kept
    BY <1>0, <2>2, ElementsSifted, LenProperties
  <2> QED
    BY <2>1, <2>2, <2>3, <2>4
<1> QED
  BY <1>1, <1>2

LEMMA CompileDataStep ==
  ASSUME UpdateTypeOK, NEW c \in Client, OfClient(c), CompileData(c)
  PROVE  OfClient(c)'
<1> DEFINE o == Current(c)
           cs == changes[c]
           new == IF o.kind = "insert" THEN Add(cs, o.quads) ELSE Retract(cs, Elements(o.quads))
<1>1. /\ Compiling(c) /\ o.kind \in {"insert", "delete"}
      /\ changes' = [changes EXCEPT ![c] = new] /\ op' = [op EXCEPT ![c] = @ + 1]
      /\ UNCHANGED <<stored, ts, writing, request, at, readAt, shown, branch, rows, committed>>
  BY DEF CompileData
<1>2. at[c] = "compiling" /\ op[c] <= Len(request[c].ops) /\ request[c].kind = "update" /\ o \in Operation
  BY <1>1, CurrentIs DEF Compiling
<1>3. op[c] \in Nat \ {0} /\ op'[c] = op[c] + 1 /\ changes'[c] = new /\ Len(request[c].ops) \in Nat /\ cs \in Changesets
  BY <1>1, <1>2, OpsAre DEF UpdateTypeOK
<1>4. branch[c] = 1
  BY <1>1, <1>2 DEF OfClient, Order, Modifying
<1>5. Conditional(c)' /\ Effect(c)' /\ committed'[c] = 0
  BY <1>1, <1>2, NotCommitted DEF OfClient
<1>6. Order(c)'
  BY <1>1, <1>2, <1>3, <1>4, <1>5 DEF Order
<1>7. ASSUME NEW read, read = shown[c], Reads(c), HasWhere(request[c]) => Undisturbed(c), Found(c, read)
      PROVE  Found(c, read)'
  <2>4. PICK n \in Nat : n = op[c] - 1
    BY <1>3
  <2>5. o = request[c].ops[n + 1]
    BY <1>3, <2>4 DEF Current
  <2>6. Means(cs, request[c].ops, n, read)
    BY <1>7, <2>4 DEF Found
  <2>7. Means(new, request[c].ops, n + 1, read)
    <3>1. PICK fresh : fresh = new
      OBVIOUS
    <3>2. PICK p \in Operation : p = o
      BY <1>2
    <3>3. PICK old \in Changesets : old = cs
      BY <1>3
    <3>4. /\ p.kind \in {"insert", "delete"}
          /\ fresh = IF p.kind = "insert" THEN Add(old, p.quads) ELSE Retract(old, Elements(p.quads))
      BY <1>1, <3>1, <3>2, <3>3
    <3>5. /\ \A q \in Quad : q \in Elements(fresh.adds) <=>
               q \in Inserted(p, read) \/ (q \in Elements(old.adds) /\ ~DeletedBy(p, q, read))
          /\ \A r \in QuadRef : r \in fresh.retractions <=> r \in old.retractions \/ r \in Deleted(p, read)
      BY <3>4, DataMeans
    <3> HIDE DEF new, cs, o
    <3>6. Means(fresh, request[c].ops, n + 1, read)
      BY <2>5, <2>6, <3>2, <3>3, <3>5, MeansNext
    <3> QED
      BY <3>1, <3>6
  <2> HIDE DEF new, cs, o
  <2>8. Means(changes[c], request[c].ops, op[c] - 1, read)'
    BY <1>1, <1>3, <2>4, <2>7
  <2>9. rows'[c] = {} /\ branch'[c] = 1 /\ at'[c] = "compiling"
    BY <1>1, <1>2, <1>4, <1>7 DEF Found
  <2>10. Found(c, read)'
    BY <2>8, <2>9 DEF Found
  <2> QED
    BY <2>10
<1>8. Meaning(c)'
  <2>1. Settled' = Settled
    BY <1>1, <1>2, SameLock
  <2>2. PICK read : read = shown[c]
    OBVIOUS
  <2> HIDE DEF o, cs, new
  <2> QED
    BY <1>1, <1>2, <1>7, <2>1, <2>2, SameRead DEF OfClient
<1> QED
  BY <1>5, <1>6, <1>8 DEF OfClient

\* Compiling DELETE and INSERT templates: retractions first, which drop earlier adds they name, then adds.
LEMMA TemplatesMean ==
  ASSUME NEW o \in Operation, o.kind = "modify", NEW cs \in Changesets, NEW quads, NEW set \in SUBSET Solution,
         set = Solutions(o, quads), NEW sols \in Orders(set), NEW new,
         new = Add(Retract(cs, Instances(o.delete, set)), Filled(o.insert, sols))
  PROVE  /\ \A q \in Quad : q \in Elements(new.adds) <=>
              q \in Inserted(o, quads) \/ (q \in Elements(cs.adds) /\ ~DeletedBy(o, q, quads))
         /\ \A r \in QuadRef : r \in new.retractions <=> r \in cs.retractions \/ r \in Deleted(o, quads)
<1> DEFINE refs == Instances(o.delete, set)
           kept == {q \in Quad : ~\E r \in refs : Names(r, q)}
           less == Sifted(cs.adds, kept)
           more == Filled(o.insert, sols)
<1>1. cs.adds \in Seq(Quad)
  BY DEF Changesets
<1>2. /\ Inserted(o, quads) = {Insertion(o.insert[k], sol) : k \in DOMAIN o.insert, sol \in set} \cap Quad
      /\ Deleted(o, quads) = refs
  BY DEF Inserted, Deleted
<1>3. Retract(cs, refs) = [adds |-> less, retractions |-> cs.retractions \cup refs]
  BY DEF Retract
<1>4. \A q \in Quad : q \in kept <=> ~DeletedBy(o, q, quads)
  BY <1>2 DEF DeletedBy
<1>5. o.insert \in Seq(Template)
  BY OperationIs
<1>6. more \in Seq(Quad) /\ \A q : q \in Elements(more) <=> q \in Inserted(o, quads)
  <2>1. more \in Seq(Quad)
    BY <1>5, FilledIs
  <2>2. \A q : q \in Elements(more) <=> q \in {Insertion(o.insert[i], sol) : i \in DOMAIN o.insert, sol \in set} \cap Quad
    BY <1>5, ElementsFilled
  <2> QED
    BY <1>2, <2>1, <2>2
<1>7. kept \subseteq Quad
  OBVIOUS
<1> HIDE DEF kept, more, refs
<1>8. less \in Seq(kept) /\ \A q : q \in Elements(less) <=> q \in Elements(cs.adds) /\ q \in kept
  BY <1>1, SiftedIs, ElementsSifted, LenProperties
<1>9. less \in Seq(Quad)
  <2>1. Seq(kept) \subseteq Seq(Quad)
    BY <1>7, SeqDef
  <2> QED
    BY <1>8, <2>1
<1> HIDE DEF less
<1>10. new.adds = less \o more /\ new.retractions = cs.retractions \cup refs
  BY <1>3 DEF Add, refs, more
<1>11. \A q : q \in Elements(less \o more) <=> q \in Elements(less) \/ q \in Elements(more)
  BY <1>6, <1>9, ElementsOfConcat, Zenon
<1>12. \A q : q \in Elements(new.adds) <=> q \in Elements(less) \/ q \in Elements(more)
  BY <1>10, <1>11, Zenon
<1>13. \A r : r \in new.retractions <=> r \in cs.retractions \/ r \in Deleted(o, quads)
  BY <1>2, <1>10
<1> QED
  BY <1>4, <1>6, <1>8, <1>12, <1>13

\* Solutions of all branches are what the WHERE clause has.
LEMMA RowsAreSolutions ==
  ASSUME NEW o \in Operation, o.kind = "modify", NEW quads, quads \subseteq Quad, NEW set \in SUBSET Solution,
         NEW b \in Nat, b > Len(o.branches), b = 1 \/ b <= Len(o.branches) + 1,
         b > 1 => RowsMean(set, o.branches, b, quads), b = 1 => set = {}
  PROVE  set = Solutions(o, quads)
<1> DEFINE n == Len(o.branches)
           found(k) == Answers(o.branches[k], quads, {}, {}, EdgeTypes)
<1>1. o.branches \in Seq(Seq(Pattern) \ {<<>>})
  BY OperationIs
<1>2. n \in Nat /\ DOMAIN o.branches = 1 .. n
  BY <1>1, LenProperties
<1>3. \A k \in 1 .. n : found(k) \subseteq Solution
  <2> TAKE k \in 1 .. n
  <2>1. o.branches[k] \in Seq(Pattern)
    BY <1>1, <1>2, ElementOfSeq
  <2> QED
    BY <2>1, PatternsMean
<1>4. Solutions(o, quads) = UNION {found(k) : k \in 1 .. n}
  BY <1>2 DEF Solutions
<1>5. b > 1 => \A sol \in Solution : sol \in set <=> \E k \in 1 .. b - 1 : sol \in found(k)
  BY DEF RowsMean
<1> HIDE DEF found, n
<1>6. \A sol : sol \in Solutions(o, quads) <=> \E k \in 1 .. n : sol \in found(k)
  BY <1>4
<1>7. \A sol : sol \in set <=> \E k \in 1 .. n : sol \in found(k)
  <2>1. CASE b = 1
    BY <1>2, <2>1 DEF n
  <2>2. CASE b # 1
    <3>1. b > 1 /\ b - 1 = n
      BY <1>2, <2>2 DEF n
    <3> QED
      BY <1>3, <1>5, <3>1
  <2> QED
    BY <2>1, <2>2
<1> QED
  BY <1>6, <1>7

LEMMA CompileTemplatesStep ==
  ASSUME UpdateTypeOK, NEW c \in Client, OfClient(c), CompileTemplates(c)
  PROVE  OfClient(c)'
<1> DEFINE o == Current(c)
           cs == changes[c]
<1>1. PICK sols \in Orders(rows[c]) :
        changes' = [changes EXCEPT ![c] = Add(Retract(@, Instances(o.delete, rows[c])), Filled(o.insert, sols))]
  BY DEF CompileTemplates
<1> DEFINE new == Add(Retract(cs, Instances(o.delete, rows[c])), Filled(o.insert, sols))
<1>2. /\ Compiling(c) /\ o.kind = "modify" /\ branch[c] > Len(o.branches)
      /\ op' = [op EXCEPT ![c] = @ + 1] /\ branch' = [branch EXCEPT ![c] = 1] /\ rows' = [rows EXCEPT ![c] = {}]
      /\ UNCHANGED <<stored, ts, writing, request, at, readAt, shown, committed>>
  BY DEF CompileTemplates
<1>3. at[c] = "compiling" /\ op[c] <= Len(request[c].ops) /\ request[c].kind = "update" /\ o \in Operation
  BY <1>2, CurrentIs DEF Compiling
<1>4. /\ op[c] \in Nat \ {0} /\ op'[c] = op[c] + 1 /\ changes'[c] = new /\ Len(request[c].ops) \in Nat
      /\ cs \in Changesets /\ branch'[c] = 1 /\ rows'[c] = {} /\ branch[c] \in Nat /\ rows[c] \in SUBSET Solution
  BY <1>1, <1>2, <1>3, OpsAre DEF UpdateTypeOK
<1>5. branch[c] = 1 \/ branch[c] <= Len(o.branches) + 1
  BY <1>3 DEF OfClient, Order
<1>6. Conditional(c)' /\ Effect(c)' /\ committed'[c] = 0
  BY <1>2, <1>3, NotCommitted DEF OfClient
<1>7. Order(c)'
  BY <1>2, <1>3, <1>4, <1>6 DEF Order
<1>8. ASSUME NEW read, read = shown[c], Reads(c), HasWhere(request[c]) => Undisturbed(c), Found(c, read)
      PROVE  Found(c, read)'
  <2>4. PICK n \in Nat : n = op[c] - 1
    BY <1>4
  <2>5. o = request[c].ops[n + 1]
    BY <1>4, <2>4 DEF Current
  <2>6. Means(cs, request[c].ops, n, read)
    BY <1>8, <2>4 DEF Found
  <2>7. PICK set \in SUBSET Solution : set = rows[c]
    BY <1>4
  <2>8. set = Solutions(o, read)
    <3>1. read \subseteq Quad
      BY <1>8 DEF UpdateTypeOK
    <3>2. PICK b \in Nat : b = branch[c]
      BY <1>4
    <3>3. (b > 1 => RowsMean(set, o.branches, b, read)) /\ (b = 1 => set = {})
      BY <1>8, <2>7, <3>2 DEF Found
    <3>4. PICK p \in Operation : p = o
      BY <1>3
    <3>5. p.kind = "modify" /\ b > Len(p.branches) /\ (b = 1 \/ b <= Len(p.branches) + 1)
      BY <1>2, <1>5, <3>2, <3>4
    <3>6. set = Solutions(p, read)
      BY <3>1, <3>3, <3>4, <3>5, RowsAreSolutions
    <3> QED
      BY <3>4, <3>6
  <2>9. Means(new, request[c].ops, n + 1, read)
    <3>1. PICK fresh : fresh = new
      OBVIOUS
    <3>2. PICK p \in Operation : p = o
      BY <1>3
    <3>3. PICK old \in Changesets : old = cs
      BY <1>4
    <3>4. /\ p.kind = "modify" /\ set = Solutions(p, read) /\ sols \in Orders(set)
          /\ fresh = Add(Retract(old, Instances(p.delete, set)), Filled(p.insert, sols))
      BY <1>1, <1>2, <2>7, <2>8, <3>1, <3>2, <3>3
    <3>5. /\ \A q \in Quad : q \in Elements(fresh.adds) <=>
               q \in Inserted(p, read) \/ (q \in Elements(old.adds) /\ ~DeletedBy(p, q, read))
          /\ \A r \in QuadRef : r \in fresh.retractions <=> r \in old.retractions \/ r \in Deleted(p, read)
      BY <3>4, TemplatesMean
    <3> HIDE DEF new, cs, o
    <3>6. Means(fresh, request[c].ops, n + 1, read)
      BY <2>5, <2>6, <3>2, <3>3, <3>5, MeansNext
    <3> QED
      BY <3>1, <3>6
  <2> HIDE DEF new, cs, o
  <2>10. Means(changes[c], request[c].ops, op[c] - 1, read)'
    BY <1>2, <1>4, <2>4, <2>9
  <2>11. Found(c, read)'
    BY <1>2, <1>3, <1>4, <2>10 DEF Found
  <2> QED
    BY <2>11
<1>9. Meaning(c)'
  <2>1. Settled' = Settled
    BY <1>2, <1>3, SameLock
  <2>2. PICK read : read = shown[c]
    OBVIOUS
  <2> HIDE DEF o, cs, new
  <2> QED
    BY <1>2, <1>3, <1>8, <2>1, <2>2, SameRead DEF OfClient
<1> QED
  BY <1>6, <1>7, <1>9 DEF OfClient

LEMMA AskWhereStep ==
  ASSUME UpdateTypeOK, NEW c \in Client, OfClient(c), AskWhere(c)
  PROVE  OfClient(c)'
<1>1. /\ Compiling(c) /\ Current(c).kind = "modify" /\ branch[c] <= Len(Current(c).branches)
      /\ store' = Snapshot(readAt[c]) /\ task' = WhereTask(c) /\ state' = "running"
      /\ asker' = c /\ at' = [at EXCEPT ![c] = "asking"]
      /\ UNCHANGED <<stored, ts, writing, request, readAt, shown, op, branch, rows, changes, seen, closes, begun, committed>>
  BY DEF AskWhere, Ask, Holding, WhereTask
<1>2. at[c] = "compiling" /\ op[c] <= Len(request[c].ops) /\ request[c].kind = "update" /\ at'[c] = "asking"
  BY <1>1, CurrentIs DEF Compiling, UpdateTypeOK
<1>3. Modifying(c) /\ op[c] \in Nat \ {0} /\ Len(request[c].ops) \in Nat
  BY <1>1, <1>2, OpsAre DEF Modifying, UpdateTypeOK
<1>4. Conditional(c)' /\ Effect(c)' /\ committed'[c] = 0
  BY <1>1, <1>2, NotCommitted DEF OfClient
<1>5. Current(c)' = Current(c) /\ (Modifying(c)' <=> Modifying(c)) /\ WhereTask(c)' = WhereTask(c)
  BY <1>1 DEF Current, Modifying, WhereTask
<1>6. Order(c)'
  <2>1. /\ op[c] <= Len(request[c].ops) + 1
        /\ branch[c] = 1 \/ (Modifying(c) /\ branch[c] <= Len(Current(c).branches) + 1)
    BY <1>2 DEF OfClient, Order
  <2> QED
    BY <1>1, <1>2, <1>3, <1>4, <1>5, <2>1 DEF Order
<1>7. ASSUME NEW read, read = shown[c], Reads(c), HasWhere(request[c]) => Undisturbed(c), Found(c, read)
      PROVE  Found(c, read)'
  <2>4. HasWhere(request[c])
    <3>1. op[c] \in DOMAIN request[c].ops
      BY <1>2, <1>3, OpsAre
    <3> QED
      BY <1>1, <3>1 DEF HasWhere, Current
  <2>5. readAt[c] # 0
    BY <1>7, <2>4 DEF Reads, UpdateTypeOK
  <2>6. store' = read
    BY <1>1, <1>7, <2>4, <2>5 DEF Snapshot, Undisturbed
  <2>7. Found(c, read)'
    BY <1>1, <1>2, <1>5, <1>7, <2>6 DEF Found
  <2> QED
    BY <2>7
<1>8. Meaning(c)'
  <2>1. Settled' = Settled
    BY <1>1, <1>2, SameLock
  <2>2. PICK read : read = shown[c]
    OBVIOUS
  <2> QED
    BY <1>1, <1>2, <1>7, <2>1, <2>2, SameRead DEF OfClient
<1> QED
  BY <1>4, <1>6, <1>8 DEF OfClient

LEMMA AskQueryStep ==
  ASSUME UpdateTypeOK, NEW c \in Client, OfClient(c), AskQuery(c)
  PROVE  OfClient(c)'
<1>1. /\ at[c] = "new" /\ request[c].kind = "query" /\ state' = "running"
      /\ asker' = c /\ at' = [at EXCEPT ![c] = "asking"]
      /\ UNCHANGED <<stored, ts, request, readAt, op, branch, rows, changes, seen, closes, begun, committed>>
  BY DEF AskQuery, Ask, Holding
<1>2. at'[c] = "asking"
  BY <1>1 DEF UpdateTypeOK
<1>3. Conditional(c)' /\ Effect(c)' /\ committed'[c] = 0
  BY <1>1, NotCommitted DEF OfClient
<1>4. Order(c)'
  BY <1>1, <1>2, <1>3 DEF Order
<1>5. Meaning(c)'
  BY <1>1 DEF Meaning, Reads
<1> QED
  BY <1>3, <1>4, <1>5 DEF OfClient

\* What the evaluator answers a WHERE clause is what its patterns mean.
LEMMA AnswersAre ==
  ASSUME JoinInv, state = "done", NEW pats, task = [kind |-> "query", patterns |-> pats, pending |-> <<>>, values |-> TRUE]
  PROVE  solutions = Answers(pats, store, {}, {}, EdgeTypes)
<1>1. task.kind = "query" /\ task.patterns = pats /\ task.pending = <<>> /\ task.values = TRUE
  OBVIOUS
<1>2. JoinIsConjunction
  BY JoinedIsMeant
<1>3. Elements(task.pending) = {}
  BY <1>1 DEF Elements
<1>4. Meant({}) = Answers(pats, store, {}, {}, EdgeTypes)
  BY <1>1 DEF Meant
<1>5. {t \in Elements(task.pending) : ~MeetsOther(t)} = {}
  BY <1>3
<1> QED
  BY <1>1, <1>2, <1>3, <1>4, <1>5 DEF JoinIsConjunction

\* The answers of one more branch.
LEMMA RowsNext ==
  ASSUME NEW set, NEW branches, NEW b \in Nat \ {0}, NEW quads, NEW more,
         b > 1 => RowsMean(set, branches, b, quads), b = 1 => set = {},
         more = Answers(branches[b], quads, {}, {}, EdgeTypes)
  PROVE  RowsMean(set \cup more, branches, b + 1, quads)
<1>1. \A k \in 1 .. (b + 1) - 1 : k \in 1 .. b - 1 \/ k = b
  OBVIOUS
<1>2. b \in 1 .. (b + 1) - 1 /\ \A k \in 1 .. b - 1 : k \in 1 .. (b + 1) - 1
  OBVIOUS
<1>3. \A sol \in Solution : sol \in set <=> \E k \in 1 .. b - 1 : sol \in Answers(branches[k], quads, {}, {}, EdgeTypes)
  <2>1. b = 1 => 1 .. b - 1 = {}
    OBVIOUS
  <2> QED
    BY <2>1 DEF RowsMean
<1> QED
  BY <1>1, <1>2, <1>3 DEF RowsMean

\* An answer is a branch's solutions over the quads at the read point, since nothing is pending.
LEMMA TakeAnswerStep ==
  ASSUME UpdateTypeOK, JoinInv, NEW c \in Client, OfClient(c), TakeAnswer(c)
  PROVE  OfClient(c)'
<1>1. /\ at[c] = "asking" /\ asker = c /\ state \in {"done", "timeout"}
      /\ UNCHANGED <<stored, ts, writing, request, readAt, shown, op, changes, seen, closes, begun, committed>>
  BY DEF TakeAnswer
<1>2. Conditional(c)' /\ Effect(c)' /\ committed'[c] = 0
  BY <1>1, NotCommitted DEF OfClient
<1>3. request[c].kind \in {"query", "update"}
  BY <1>1 DEF UpdateTypeOK
<1>4. CASE state = "timeout" \/ request[c].kind = "query"
  <2>1. /\ at' = [at EXCEPT ![c] = IF state = "timeout" THEN "failed" ELSE "answered"] /\ UNCHANGED <<rows, branch>>
    BY <1>4 DEF TakeAnswer
  <2>2. at'[c] \in {"failed", "answered"}
    BY <2>1 DEF UpdateTypeOK
  <2>3. Order(c)'
    BY <1>2, <2>2 DEF Order
  <2>4. Settled' = Settled
    <3>1. PICK d \in {"failed", "answered"} : at' = [at EXCEPT ![c] = d]
      BY <2>1
    <3> QED
      BY <1>1, <3>1, SameLock
  <2>5. Meaning(c)'
    <3>1. PICK read : read = shown[c]
      OBVIOUS
    <3>2. Current(c)' = Current(c)
      BY <1>1 DEF Current
    <3>3. Found(c, read) => Found(c, read)'
      BY <1>1, <2>1, <2>2, <3>2 DEF Found
    <3> QED
      BY <1>1, <2>4, <3>1, <3>3, SameRead DEF OfClient
  <2> QED
    BY <1>2, <2>3, <2>5 DEF OfClient
<1>5. CASE state = "done" /\ request[c].kind = "update"
  <2>1. /\ at' = [at EXCEPT ![c] = "compiling"] /\ rows' = [rows EXCEPT ![c] = @ \cup solutions]
        /\ branch' = [branch EXCEPT ![c] = @ + 1]
    BY <1>5 DEF TakeAnswer
  <2>2. at'[c] = "compiling" /\ rows'[c] = rows[c] \cup solutions /\ branch'[c] = branch[c] + 1
    BY <2>1 DEF UpdateTypeOK
  <2>3. Current(c)' = Current(c) /\ (Modifying(c)' <=> Modifying(c))
    BY <1>1 DEF Current, Modifying
  <2>4. /\ op[c] <= Len(request[c].ops) + 1 /\ Modifying(c) /\ branch[c] <= Len(Current(c).branches)
        /\ task = WhereTask(c)
    BY <1>1, <1>5 DEF OfClient, Order
  <2>5. branch[c] \in Nat \ {0} /\ Len(Current(c).branches) \in Nat
    <3>1. op[c] \in 1 .. Len(request[c].ops) /\ request[c].ops \in Seq(Operation)
      <4>1. op[c] \in Nat \ {0} /\ op[c] <= Len(request[c].ops)
        BY <2>4 DEF Modifying, UpdateTypeOK
      <4>2. request[c].ops \in Seq(Operation) /\ Len(request[c].ops) \in Nat
        BY <1>5, OpsAre
      <4> QED
        BY <4>1, <4>2
    <3>2. Current(c) \in Operation /\ Current(c).kind = "modify"
      BY <2>4, <3>1, ElementOfSeq DEF Current, Modifying
    <3> QED
      BY <3>2, OperationIs, LenProperties DEF UpdateTypeOK
  <2>6. Order(c)'
    BY <1>1, <1>2, <1>5, <2>2, <2>3, <2>4, <2>5 DEF Order
  <2>7. ASSUME NEW read, read = shown[c], Reads(c), HasWhere(request[c]) => Undisturbed(c), Found(c, read)
        PROVE  Found(c, read)'
    <3>4. PICK b \in Nat \ {0} : b = branch[c]
      BY <2>5
    <3>5. PICK branches : branches = Current(c).branches
      OBVIOUS
    <3>6. PICK pats : pats = branches[b]
      OBVIOUS
    <3>7. task = [kind |-> "query", patterns |-> pats, pending |-> <<>>, values |-> TRUE] /\ store = read
      BY <1>1, <2>4, <2>7, <3>4, <3>5, <3>6 DEF WhereTask, Found
    <3>8. solutions = Answers(pats, read, {}, {}, EdgeTypes)
      BY <1>5, <3>7, AnswersAre
    <3>9. (b > 1 => RowsMean(rows[c], branches, b, read)) /\ (b = 1 => rows[c] = {})
      BY <2>7, <3>4, <3>5 DEF Found
    <3>10. RowsMean(rows[c] \cup solutions, branches, b + 1, read)
      <4>1. PICK set : set = rows[c]
        OBVIOUS
      <4>2. PICK more : more = solutions
        OBVIOUS
      <4>3. RowsMean(set \cup more, branches, b + 1, read)
        BY <3>6, <3>8, <3>9, <4>1, <4>2, RowsNext
      <4> QED
        BY <4>1, <4>2, <4>3
    <3>11. branch'[c] = b + 1 /\ b + 1 # 1 /\ Current(c)'.branches = branches
      BY <2>2, <2>3, <3>4, <3>5
    <3>12. RowsMean(rows[c], Current(c).branches, branch[c], read)'
      BY <2>2, <3>10, <3>11 DEF RowsMean
    <3>13. Found(c, read)'
      BY <1>1, <2>2, <2>7, <3>11, <3>12 DEF Found
    <3> QED
      BY <3>13
  <2>8. Meaning(c)'
    <3>1. Settled' = Settled
      BY <1>1, <2>1, SameLock
    <3>2. PICK read : read = shown[c]
      OBVIOUS
    <3> QED
      BY <1>1, <2>7, <3>1, <3>2, SameRead DEF OfClient
  <2> QED
    BY <1>2, <2>6, <2>8 DEF OfClient
<1> QED
  BY <1>1, <1>3, <1>4, <1>5

\* A request moves on with what it has found.
LEMMA MeaningMoves ==
  ASSUME UpdateInv, UpdateInv', PointsOK, NEW c \in Client, Meaning(c), Grows, Counts, request' = request,
         readAt'[c] = readAt[c], shown'[c] = shown[c], op'[c] = op[c], branch'[c] = branch[c], rows'[c] = rows[c],
         changes'[c] = changes[c], seen'[c] = seen[c], closes'[c] = closes[c],
         at[c] # "new", at'[c] # "asking",
         at'[c] \in {"resolved", "begun", "committing", "refused", "applied", "conflict"}
           => at[c] \in {"resolved", "begun", "committing"}
  PROVE  Meaning(c)'
<1>1. PICK read : read = shown[c]
  OBVIOUS
<1>2. Current(c)' = Current(c)
  BY DEF Current
<1>3. ASSUME Found(c, read), Undisturbed(c)' => Undisturbed(c)
      PROVE  Found(c, read)'
  <2>1. at'[c] \in {"resolved", "begun", "committing", "refused", "applied", "conflict"} =>
          /\ (seen[c] <= Settled)' /\ (readAt'[c] > 0 /\ Undisturbed(c)' => ShownAt(seen[c])' = read)
          /\ closes'[c] = Closing(changes[c].retractions, seen[c])'
    BY <1>3, ClosesStay DEF Found
  <2> QED
    BY <1>2, <1>3, <2>1 DEF Found
<1> QED
  BY <1>1, <1>3, MeaningThen

\* An approved changeset is the one that was shown, at its read point.
LEMMA CompiledStep ==
  ASSUME UpdateInv, UpdateInv', PointsOK, NEW c \in Client, OfClient(c), Compiled(c) \/ Approve(c), Counts
  PROVE  OfClient(c)'
<1>0. UpdateTypeOK
  BY DEF UpdateInv
<1>1. /\ at[c] \in {"compiling", "shown"} /\ (at[c] = "compiling" => op[c] > Len(request[c].ops))
      /\ \E s \in {"shown", "nothing", "applying"} : at' = [at EXCEPT ![c] = s]
      /\ UNCHANGED <<stored, ts, writing, request, readAt, shown, op, branch, rows, changes, seen, closes, begun, committed>>
  BY DEF Compiled, Approve
<1>2. at'[c] \in {"shown", "nothing", "applying"} /\ ts \in Nat
  BY <1>0, <1>1 DEF UpdateTypeOK
<1>3. request[c].kind = "update" /\ op[c] = Len(request[c].ops) + 1
  <2>1. CASE at[c] = "compiling"
    <3>1. request[c].kind = "update" /\ op[c] <= Len(request[c].ops) + 1
      BY <1>0, <2>1 DEF OfClient, Order, UpdateTypeOK
    <3>2. op[c] \in Nat /\ Len(request[c].ops) \in Nat
      BY <1>0, <3>1, OpsAre DEF UpdateTypeOK
    <3> QED
      BY <1>1, <2>1, <3>1, <3>2
  <2>2. CASE at[c] = "shown"
    BY <2>2 DEF OfClient, Order
  <2> QED
    BY <1>1, <2>1, <2>2
<1>4. Conditional(c)' /\ Effect(c)' /\ committed'[c] = 0
  BY <1>0, <1>1, NotCommitted DEF OfClient
<1>5. Order(c)'
  BY <1>1, <1>2, <1>3, <1>4 DEF Order
<1>6. Grows
  <2>1. PICK s \in {"shown", "nothing", "applying"} : at' = [at EXCEPT ![c] = s]
    BY <1>1
  <2>2. Locked' => Locked
    BY <1>0, <1>1, <2>1, SameLock
  <2> QED
    BY <1>1, <2>2, StaysGrow
<1>7. Meaning(c)'
  BY <1>1, <1>2, <1>6, MeaningMoves DEF OfClient
<1> QED
  BY <1>4, <1>5, <1>7 DEF OfClient

\* Closes are resolved at the read point, or, without one, at the last commit.
LEMMA ResolveStep ==
  ASSUME UpdateInv, NEW c \in Client, OfClient(c), ResolveRetractions(c)
  PROVE  OfClient(c)'
<1> DEFINE at0 == IF readAt[c] > 0 THEN readAt[c] ELSE ts
           last == IF at0 <= Settled THEN at0 ELSE Settled
<1>0. UpdateTypeOK
  BY DEF UpdateInv
<1>1. /\ at[c] = "applying" /\ seen' = [seen EXCEPT ![c] = last]
      /\ closes' = [closes EXCEPT ![c] = Closing(changes[c].retractions, at0)]
      /\ at' = [at EXCEPT ![c] = "resolved"]
      /\ UNCHANGED <<stored, ts, writing, request, readAt, shown, op, branch, rows, changes, begun, committed>>
  BY DEF ResolveRetractions
<1>2. at'[c] = "resolved" /\ seen'[c] = last /\ closes'[c] = Closing(changes[c].retractions, at0) /\ ts \in Nat
      /\ readAt[c] \in Nat
  BY <1>0, <1>1 DEF UpdateTypeOK
<1>3. request[c].kind = "update" /\ op[c] = Len(request[c].ops) + 1
  BY <1>1 DEF OfClient, Order
<1>4. Conditional(c)' /\ Effect(c)' /\ committed'[c] = 0
  BY <1>0, <1>1, NotCommitted DEF OfClient
<1>5. Order(c)'
  BY <1>1, <1>2, <1>3, <1>4 DEF Order
<1>6. Settled' = Settled
  BY <1>0, <1>1, SameLock
<1>7. Meaning(c)'
  <2>1. PICK t : t = at0
    OBVIOUS
  <2>2. PICK refs : refs = changes[c].retractions
    OBVIOUS
  <2>3. PICK u : u = last
    OBVIOUS
  <2>4. t \in Nat /\ u \in Nat /\ u <= Settled
    BY <1>2, <2>1, <2>3, SettledIs
  <2>5. Closing(refs, t) = Closing(refs, u) /\ ShownAt(t) = ShownAt(u)
    <3>1. CASE t <= Settled
      BY <2>1, <2>3, <3>1
    <3>2. CASE ~(t <= Settled)
      <4>1. u = Settled /\ Settled < t
        BY <2>1, <2>3, <2>4, <3>2, SettledIs
      <4> QED
        BY <2>4, <4>1, ShowsSettled
    <3> QED
      BY <3>1, <3>2
  <2>6. closes'[c] = Closing(refs, u) /\ seen'[c] = u
    BY <1>2, <2>1, <2>2, <2>3, <2>5
  <2>7. Closing(changes[c].retractions, seen[c])' = Closing(refs, u) /\ ShownAt(seen[c])' = ShownAt(u)
    BY <1>1, <2>2, <2>6 DEF Closing, ShownAt
  <2>8. Current(c)' = Current(c)
    BY <1>1 DEF Current
  <2>9. readAt[c] > 0 => t = readAt[c]
    BY <2>1
  <2> HIDE DEF at0, last
  <2>10. PICK read : read = shown[c]
    OBVIOUS
  <2>11. readAt[c] > 0 /\ Undisturbed(c) => ShownAt(u) = read
    BY <2>5, <2>9, <2>10 DEF Undisturbed
  <2>12. ASSUME Found(c, read), Undisturbed(c)' <=> Undisturbed(c)
         PROVE  Found(c, read)'
    <3>1. /\ (seen[c] <= Settled)' /\ (readAt'[c] > 0 /\ Undisturbed(c)' => ShownAt(seen[c])' = read)
          /\ closes'[c] = Closing(changes[c].retractions, seen[c])'
      BY <1>1, <1>6, <2>4, <2>6, <2>7, <2>11, <2>12
    <3> QED
      BY <1>1, <1>2, <2>8, <2>12, <3>1 DEF Found
  <2> QED
    BY <1>1, <1>6, <2>10, <2>12, SameRead DEF OfClient
<1> QED
  BY <1>4, <1>5, <1>7 DEF OfClient

\* The transaction begins at the read point, if it has one.
LEMMA BeginStep ==
  ASSUME UpdateInv, UpdateInv', PointsOK, NEW c \in Client, OfClient(c), BeginTx(c), Counts
  PROVE  OfClient(c)'
<1>0. UpdateTypeOK
  BY DEF UpdateInv
<1>1. /\ at[c] = "resolved" /\ begun' = [begun EXCEPT ![c] = IF readAt[c] > 0 THEN readAt[c] ELSE ts]
      /\ at' = [at EXCEPT ![c] = IF readAt[c] > ts THEN "refused" ELSE "begun"]
      /\ UNCHANGED <<stored, ts, writing, request, readAt, shown, op, branch, rows, changes, seen, closes, committed>>
  BY DEF BeginTx
<1>2. /\ ts \in Nat /\ readAt[c] \in Nat /\ at'[c] = IF readAt[c] > ts THEN "refused" ELSE "begun"
      /\ begun'[c] = IF readAt[c] > 0 THEN readAt[c] ELSE ts
  BY <1>0, <1>1 DEF UpdateTypeOK
<1>3. request[c].kind = "update" /\ op[c] = Len(request[c].ops) + 1
  BY <1>1 DEF OfClient, Order
<1>4. Conditional(c)' /\ Effect(c)' /\ committed'[c] = 0
  BY <1>0, <1>1, NotCommitted DEF OfClient
<1>5. Order(c)'
  BY <1>1, <1>2, <1>3, <1>4 DEF Order
<1>6. Grows
  <2>1. PICK d \in {"refused", "begun"} : at' = [at EXCEPT ![c] = d]
    BY <1>1
  <2>2. Locked' => Locked
    BY <1>0, <1>1, <2>1, SameLock
  <2> QED
    BY <1>1, <2>2, StaysGrow
<1>7. Meaning(c)'
  BY <1>1, <1>2, <1>6, MeaningMoves DEF OfClient
<1> QED
  BY <1>4, <1>5, <1>7 DEF OfClient

\* A quad without a conflict has no version since the transaction began.
LEMMA ClashesIs ==
  ASSUME NEW q, NEW auto, NEW t, ~Clashes(q, auto, t)
  PROVE  \A v \in Of(q) : ~(v.tt > t)
  BY DEF Clashes, Of

\* A commit gets a time, after that of all it has read.
LEMMA PublishStep ==
  ASSUME UpdateInv, UpdateInv', PointsOK, NEW c \in Client, OfClient(c), PublishChanges(c) \/ CommitNothing(c), Counts
  PROVE  OfClient(c)'
<1>0. UpdateTypeOK
  BY DEF UpdateInv
<1>1. /\ at[c] = "begun"
      /\ \/ at' = [at EXCEPT ![c] = "committing"] /\ ts' = ts + 1
         \/ at' = [at EXCEPT ![c] = "applied"] /\ ts' = ts
      /\ UNCHANGED <<stored, writing, request, readAt, shown, op, branch, rows, changes, approved, seen, closes,
                     begun, committed>>
  BY DEF PublishChanges, CommitNothing
<1>2. /\ request[c].kind = "update" /\ op[c] = Len(request[c].ops) + 1
      /\ begun[c] <= ts /\ (readAt[c] > 0 => begun[c] = readAt[c])
  BY <1>1 DEF OfClient, Order
<1>3. ts \in Nat /\ readAt[c] \in Nat /\ begun[c] \in Nat
  BY <1>0 DEF UpdateTypeOK
<1>4. at'[c] \in {"committing", "applied"} /\ (at'[c] = "committing" => ts' = ts + 1)
  BY <1>0, <1>1 DEF UpdateTypeOK
<1>5. Conditional(c)' /\ Effect(c)' /\ committed'[c] = 0
  BY <1>0, <1>1, NotCommitted DEF OfClient
<1>6. Order(c)'
  BY <1>1, <1>2, <1>3, <1>4, <1>5 DEF Order
<1>7. Grows
  <2>1. CASE ts' = ts + 1
    BY <1>1, <2>1, StaysGrow
  <2>2. CASE ts' = ts
    <3>1. at' = [at EXCEPT ![c] = "applied"]
      BY <1>1, <1>3, <2>2
    <3>2. Locked' => Locked
      BY <1>0, <1>1, <2>2, <3>1, SameLock
    <3> QED
      BY <1>1, <2>2, <3>2, StaysGrow
  <2> QED
    BY <1>1, <2>1, <2>2
<1>8. Meaning(c)'
  BY <1>1, <1>4, <1>7, MeaningMoves DEF OfClient
<1> QED
  BY <1>5, <1>6, <1>8 DEF OfClient

\* Its conflict check makes it conditional, its batch is its effect.
LEMMA CommitStep ==
  ASSUME UpdateInv, UpdateInv', VersionsOK, PointsOK, NEW c \in Client, OfClient(c), CommitChanges(c), Counts
  PROVE  OfClient(c)'
<1> DEFINE windows == Batch(closes[c], changes[c].adds, approved[c])
<1>0. UpdateTypeOK /\ Locked /\ ~Locked'
  BY WritesUnlock DEF UpdateInv
<1>1. /\ at[c] = "committing"
      /\ UNCHANGED <<ts, writing, request, readAt, shown, op, branch, rows, changes, approved, seen, closes, begun>>
  BY DEF CommitChanges
<1>2. /\ request[c].kind = "update" /\ op[c] = Len(request[c].ops) + 1
      /\ begun[c] <= ts /\ (readAt[c] > 0 => begun[c] = readAt[c]) /\ readAt[c] < ts
  BY <1>1 DEF OfClient, Order
<1>3. /\ ts \in Nat /\ readAt[c] \in Nat /\ begun[c] \in Nat /\ committed[c] \in Nat
      /\ DOMAIN stored \subseteq Quad /\ changes[c].adds \in Seq(Quad) /\ \A w \in closes[c] : w.quad \in Quad
  BY <1>0 DEF UpdateTypeOK, Changesets
<1>4. ASSUME Grows, at'[c] \in {"applied", "conflict"}
      PROVE  Meaning(c)'
  BY <1>1, <1>4, MeaningMoves DEF OfClient
<1>5. CASE committed' = committed
  <2>1. stored' = stored /\ at'[c] = "conflict"
    <3>1. \/ stored' = stored /\ at' = [at EXCEPT ![c] = "conflict"]
          \/ committed' = [committed EXCEPT ![c] = ts]
      BY Zenon DEF CommitChanges
    <3>2. committed[c] = 0
      BY <1>1, <1>3 DEF OfClient, Order
    <3>3. committed' # [committed EXCEPT ![c] = ts]
      BY <1>0, <1>2, <1>3, <1>5, <3>2 DEF UpdateTypeOK
    <3> QED
      BY <1>0, <3>1, <3>3 DEF UpdateTypeOK
  <2>2. Grows
    BY <1>0, <1>1, <2>1, StaysGrow
  <2>3. Conditional(c)' /\ Effect(c)' /\ committed'[c] = 0
    BY <1>0, <1>1, <1>5, NotCommitted DEF OfClient
  <2>4. Order(c)'
    BY <1>1, <1>2, <2>1, <2>3 DEF Order
  <2> QED
    BY <1>4, <2>1, <2>2, <2>3, <2>4 DEF OfClient
<1>6. CASE committed' # committed
  <2>1. /\ ~Conflicts(c) /\ at' = [at EXCEPT ![c] = "applied"] /\ stored' = Written(windows)
        /\ committed' = [committed EXCEPT ![c] = ts]
    BY <1>6, Zenon DEF CommitChanges
  <2>2. at'[c] = "applied" /\ committed'[c] = ts /\ Settled' = ts
    BY <1>0, <1>1, <1>3, <2>1 DEF UpdateTypeOK, Settled
  <2> HIDE DEF windows
  <2>3. Grows
    BY <1>0, <1>1, <2>1, WritesGrow
  <2>4. \A q : Of(q)' = Of(q) \cup (IF q \in DOMAIN windows
                                    THEN {[start |-> windows[q].start, end |-> windows[q].end, tt |-> ts]}
                                    ELSE {})
    BY <1>0, <1>1, <2>1, WritesGrow
  <2>5. Order(c)'
    BY <1>1, <1>2, <1>3, <2>1, <2>2 DEF Order
  <2>6. Conditional(c)'
    <3> SUFFICES ASSUME readAt'[c] > 0, NEW q \in Quad, (q \in Adds(c))' \/ Closes(c, q)',
                        NEW v \in Of(q)', readAt'[c] < v.tt, v.tt < committed'[c]
                 PROVE  FALSE
      BY Zenon DEF Conditional, WrittenSince
    <3>1. q \in Adds(c) \/ \E w \in closes[c] : w.quad = q
      BY <1>1 DEF Adds, Closes
    <3>2. \A x \in Of(q) : ~(x.tt > begun[c])
      BY <2>1, <3>1, ClashesIs DEF Conflicts
    <3>3. v \in Of(q)
      <4>1. v.tt \in Nat
        <5>1. \A r \in DOMAIN stored' : \A x \in stored'[r] : x.tt \in Nat
          BY DEF UpdateInv, UpdateTypeOK
        <5>2. \A r : Of(r)' = IF r \in DOMAIN stored' THEN stored'[r] ELSE {}
          BY DEF Of
        <5> QED
          BY <5>1, <5>2
      <4>2. ts <= Settled + 1 /\ Settled \in Nat
        BY SettledIs
      <4> QED
        BY <1>3, <2>2, <2>3, <4>1, <4>2 DEF Grows
    <3> QED
      BY <1>1, <1>2, <3>2, <3>3
  <2>7. Effect(c)'
    <3>1. ASSUME NEW q \in Quad, ~Replaced(c, q)
          PROVE  /\ q \in Adds(c) => [start |-> 0, end |-> EndOfTime, tt |-> ts] \in Of(q)'
                 /\ q \notin Adds(c) /\ Closes(c, q) =>
                      \E w \in closes[c] : w.quad = q /\ [start |-> w.start, end |-> w.end, tt |-> ts] \in Of(q)'
                 /\ q \notin Adds(c) /\ ~Closes(c, q) => \A v \in Of(q)' : v.tt # ts
      <4>1. PICK ws : ws = windows
        OBVIOUS
      <4>2. PICK adds \in Seq(Quad) : adds = changes[c].adds
        BY <1>3
      <4>3. PICK closed : closed = closes[c]
        OBVIOUS
      <4>4. PICK auto : auto = approved[c]
        OBVIOUS
      <4>5. ~Rivalled(q, adds, auto)
        BY <3>1, <4>2, <4>4 DEF Replaced, Adds, Rivalled
      <4>6. ws = Batch(closed, adds, auto) /\ \A w \in closed : w.quad \in Quad
        BY <1>3, <4>1, <4>2, <4>3, <4>4 DEF windows
      <4>7. WindowIs(ws, q, closed, adds)
        BY <1>3, <4>5, <4>6, BatchIs
      <4>8. Of(q)' = Of(q) \cup (IF q \in DOMAIN ws
                                 THEN {[start |-> ws[q].start, end |-> ws[q].end, tt |-> ts]} ELSE {})
        BY <2>4, <4>1
      <4>9. (q \in Adds(c) <=> q \in Elements(adds)) /\ (Closes(c, q) <=> Shuts(closed, q))
        BY <4>2, <4>3 DEF Adds, Closes, Shuts
      <4>10. \A v \in Of(q) : v.tt # ts
        BY <1>0, SettledIs
      <4>11. CASE q \in Adds(c)
        <5>1. q \in DOMAIN ws /\ ws[q] = [start |-> 0, end |-> EndOfTime]
          BY <4>7, <4>9, <4>11 DEF WindowIs
        <5> QED
          BY <4>8, <4>11, <5>1
      <4>12. CASE q \notin Adds(c) /\ Closes(c, q)
        <5>1. PICK w \in closed : w.quad = q /\ ws[q] = [start |-> w.start, end |-> w.end] /\ q \in DOMAIN ws
          BY <4>7, <4>9, <4>12 DEF WindowIs
        <5>2. [start |-> w.start, end |-> w.end, tt |-> ts] \in Of(q)'
          BY <4>8, <5>1
        <5> QED
          BY <4>3, <4>12, <5>1, <5>2
      <4>13. CASE q \notin Adds(c) /\ ~Closes(c, q)
        BY <4>7, <4>8, <4>9, <4>10, <4>13 DEF WindowIs
      <4> QED
        BY <4>11, <4>12, <4>13
    <3>2. Adds(c)' = Adds(c) /\ \A q : (Closes(c, q)' <=> Closes(c, q)) /\ (Replaced(c, q)' <=> Replaced(c, q))
      BY <1>1 DEF Adds, Closes, Replaced
    <3>3. closes'[c] = closes[c]
      BY <1>1
    <3> QED
      BY <2>2, <3>1, <3>2, <3>3 DEF Effect
  <2> QED
    BY <1>4, <2>2, <2>3, <2>5, <2>6, <2>7 DEF OfClient
<1> QED
  BY <1>5, <1>6

-----------------------------------------------------------------------------
(* All steps *)

Moves(c) == RequestStep(c) \/ Approve(c)

\* A request's step, but for a commit, leaves the store alone.
LEMMA MovesAre ==
  ASSUME UpdateTypeOK, NEW c \in Client, Moves(c), ~PublishChanges(c), ~CommitChanges(c)
  PROVE  /\ UNCHANGED <<stored, ts, outside, writing, request>>
         /\ at[c] \notin {"committing", "applied", "conflict"} /\ at'[c] # "committing"
         /\ \A d \in Client : d # c => Rests(d)
<1> USE DEF UpdateTypeOK, Rests
<1>1. CASE StartUpdate(c)
  BY <1>1 DEF StartUpdate
<1>2. CASE CompileData(c)
  BY <1>2 DEF CompileData, Compiling
<1>3. CASE AskWhere(c) \/ AskQuery(c)
  BY <1>3 DEF AskWhere, AskQuery, Compiling
<1>4. CASE TakeAnswer(c)
  <2>1. /\ at[c] = "asking"
        /\ \E s \in {"failed", "answered", "compiling"} : at' = [at EXCEPT ![c] = s]
        /\ rows' = rows \/ rows' = [rows EXCEPT ![c] = @ \cup solutions]
        /\ branch' = branch \/ branch' = [branch EXCEPT ![c] = @ + 1]
        /\ UNCHANGED <<stored, ts, outside, writing, request, readAt, shown, op, changes, approved, seen, closes, begun,
                       committed>>
    BY <1>4, Zenon DEF TakeAnswer
  <2> QED
    BY <2>1
<1>5. CASE CompileTemplates(c)
  <2>1. PICK cs : changes' = [changes EXCEPT ![c] = cs]
    <3>1. PICK sols : changes' = [changes EXCEPT ![c] =
                        Add(Retract(changes[c], Instances(Current(c).delete, rows[c])), Filled(Current(c).insert, sols))]
      BY <1>5 DEF CompileTemplates
    <3> QED
      BY <3>1, Zenon
  <2>2. /\ Compiling(c) /\ op' = [op EXCEPT ![c] = @ + 1] /\ branch' = [branch EXCEPT ![c] = 1]
        /\ rows' = [rows EXCEPT ![c] = {}]
        /\ UNCHANGED <<stored, ts, outside, writing, request, at, readAt, shown, approved, seen, closes, begun, committed>>
    BY <1>5 DEF CompileTemplates
  <2> QED
    BY <2>1, <2>2 DEF Compiling
<1>6. CASE Compiled(c) \/ Approve(c)
  BY <1>6 DEF Compiled, Approve
<1>7. CASE ResolveRetractions(c)
  <2>1. PICK t : seen' = [seen EXCEPT ![c] = t]
    BY <1>7 DEF ResolveRetractions
  <2>2. PICK ws : closes' = [closes EXCEPT ![c] = ws]
    BY <1>7, Zenon DEF ResolveRetractions
  <2>3. /\ at[c] = "applying" /\ at' = [at EXCEPT ![c] = "resolved"]
        /\ UNCHANGED <<stored, ts, outside, writing, request, readAt, shown, op, branch, rows, changes, approved, begun,
                       committed>>
    BY <1>7 DEF ResolveRetractions
  <2> QED
    BY <2>1, <2>2, <2>3
<1>8. CASE BeginTx(c) \/ CommitNothing(c)
  BY <1>8 DEF BeginTx, CommitNothing
<1> QED
  BY <1>1, <1>2, <1>3, <1>4, <1>5, <1>6, <1>7, <1>8 DEF Moves, RequestStep

\* A commit takes its time, for the store and for the others,
LEMMA PublishesAre ==
  ASSUME UpdateTypeOK, NEW c \in Client, PublishChanges(c)
  PROVE  /\ at[c] = "begun" /\ at'[c] = "committing" /\ ts' = ts + 1
         /\ UNCHANGED <<stored, outside, request, readAt, closes>>
         /\ \A d \in Client : d # c => Rests(d)
  BY DEF PublishChanges, UpdateTypeOK, Rests

\* and writes.
LEMMA CommitsAre ==
  ASSUME UpdateTypeOK, NEW c \in Client, CommitChanges(c)
  PROVE  /\ at[c] = "committing" /\ at'[c] \in {"applied", "conflict"}
         /\ UNCHANGED <<ts, outside, request, readAt, closes>>
         /\ stored' = stored \/ stored' = Written(Batch(closes[c], changes[c].adds, approved[c]))
         /\ \A d \in Client : d # c => Rests(d)
<1> DEFINE windows == Batch(closes[c], changes[c].adds, approved[c])
<1>1. /\ at[c] = "committing" /\ at' \in {[at EXCEPT ![c] = "applied"], [at EXCEPT ![c] = "conflict"]}
      /\ UNCHANGED <<ts, outside, request, readAt, shown, op, branch, rows, changes, approved, seen, closes, begun>>
      /\ committed' = committed \/ committed' = [committed EXCEPT ![c] = ts]
  BY DEF CommitChanges
<1>2. stored' = stored \/ stored' = Written(windows)
  BY Zenon DEF CommitChanges
<1>3. at'[c] \in {"applied", "conflict"} /\ \A d \in Client : d # c => Rests(d)
  BY <1>1 DEF UpdateTypeOK, Rests
<1> HIDE DEF windows
<1> QED
  BY <1>1, <1>2, <1>3 DEF windows

\* Nobody takes the evaluator from a request that is asking.
LEMMA OthersAsk ==
  ASSUME UpdateTypeOK, NEW c \in Client, Moves(c), NEW d \in Client, d # c, Order(d)
  PROVE  StillAsks(d)
<1> SUFFICES ASSUME at[d] = "asking" PROVE asker' = asker /\ state' # "idle" /\ store' = store /\ task' = task
  BY DEF StillAsks
<1>1. asker = d /\ state # "idle"
  BY DEF Order
<1>2. ~AskWhere(c) /\ ~AskQuery(c) /\ ~TakeAnswer(c)
  BY <1>1 DEF AskWhere, AskQuery, Ask, TakeAnswer
<1>3. UNCHANGED <<asker, datalogVars>>
  BY <1>2, Zenon DEF Moves, RequestStep, StartUpdate, CompileData, CompileTemplates, Compiled, Approve,
                     ResolveRetractions, BeginTx, PublishChanges, CommitNothing, CommitChanges
<1> QED
  BY <1>1, <1>3 DEF datalogVars

\* In every step the versions grow and the commits to come are counted.
LEMMA StepsCount ==
  ASSUME UpdateInv, PointsOK, [UpdateNext]_updateVars
  PROVE  Counts /\ Grows
<1>1. ts \in Nat /\ IsFiniteSet(outside) /\ UpdateTypeOK /\ LockOK
  BY DEF UpdateInv, UpdateTypeOK, PointsOK
<1>2. ASSUME NEW c \in Client, Moves(c), ~PublishChanges(c), ~CommitChanges(c)
      PROVE  Counts /\ Grows
  <2>1. Pending' \subseteq Pending /\ (Locked' => Locked)
    BY <1>1, <1>2, MovesAre DEF Pending, Rests, Locked
  <2> QED
    BY <1>1, <1>2, <2>1, MovesAre, CountsWithout, StaysGrow
<1>3. ASSUME NEW c \in Client, PublishChanges(c)
      PROVE  Counts /\ Grows
  <2>1. c \in Pending /\ Pending' \subseteq Pending \ {c}
    BY <1>1, <1>3, PublishesAre DEF Pending, Rests
  <2>2. Counts
    BY <1>1, <1>3, <2>1, PublishesAre, CountsCommit
  <2>3. Grows
    BY <1>1, <1>3, PublishesAre, StaysGrow
  <2> QED
    BY <2>2, <2>3
<1>4. ASSUME NEW c \in Client, CommitChanges(c)
      PROVE  Counts /\ Grows
  <2>1. Pending' \subseteq Pending
    BY <1>1, <1>4, CommitsAre DEF Pending, Rests
  <2>2. Counts
    BY <1>1, <1>4, <2>1, CommitsAre, CountsWithout
  <2>3. Locked /\ ~Locked'
    BY <1>1, <1>4, WritesUnlock
  <2>4. Grows
    BY <1>1, <1>4, <2>3, CommitsAre, WritesGrow, StaysGrow
  <2> QED
    BY <2>2, <2>4
<1>5. ASSUME NEW q \in outside, PublishOutside(q)
      PROVE  Counts /\ Grows
  <2>1. stored' = stored /\ ts' = ts + 1 /\ outside' = outside \ {q} /\ at' = at
    BY <1>5 DEF PublishOutside, requestVars
  <2>2. Pending' = Pending
    BY <2>1 DEF Pending
  <2> QED
    BY <1>1, <2>1, <2>2, CountsOutside, StaysGrow
<1>6. CASE WriteOutside
  <2>1. ts' = ts /\ outside' = outside /\ at' = at
    BY <1>6 DEF WriteOutside, requestVars
  <2>2. Pending' = Pending
    BY <2>1 DEF Pending
  <2>3. Counts
    BY <1>1, <2>1, <2>2, CountsWithout
  <2>4. Locked /\ ~Locked'
    BY <1>1, <1>6, WritesUnlock
  <2>5. CASE stored' = stored
    BY <2>1, <2>3, <2>4, <2>5, StaysGrow
  <2>6. ASSUME NEW q \in writing, NEW w, stored' = Written([r \in {q} |-> w])
        PROVE  Grows
    BY <2>1, <2>4, <2>6, WritesGrow
  <2> QED
    BY <1>6, <2>3, <2>5, <2>6 DEF WriteOutside
<1>7. CASE Evaluate(DatalogNext) \/ UNCHANGED updateVars
  <2>1. UNCHANGED <<stored, ts, outside, writing, at>>
    BY <1>7 DEF Evaluate, updateVars, requestVars
  <2>2. Pending' = Pending /\ (Locked' => Locked)
    BY <2>1 DEF Pending, Locked
  <2> QED
    BY <1>1, <2>1, <2>2, CountsWithout, StaysGrow
<1> QED
  BY <1>2, <1>3, <1>4, <1>5, <1>6, <1>7 DEF UpdateNext, Moves, RequestStep

\* No request has been started in a start state.
LEMMA MeaningInvInit == UpdateInit => MeaningInv
<1> SUFFICES ASSUME UpdateInit PROVE MeaningInv
  OBVIOUS
<1>1. PICK start \in Starts :
        stored = start.stored /\ ts = start.ts /\ request = start.request /\ outside = start.outside
  BY DEF UpdateInit
<1>2. UpdateTypeOK
  BY UpdateInvInit DEF UpdateInv
<1>3. /\ at = [c \in Client |-> IF request[c].kind = "none" THEN "idle" ELSE "new"]
      /\ readAt = [c \in Client |-> 0] /\ op = [c \in Client |-> 1] /\ branch = [c \in Client |-> 1]
      /\ rows = [c \in Client |-> {}] /\ changes = [c \in Client |-> NoChanges]
      /\ committed = [c \in Client |-> 0] /\ closes = [c \in Client |-> {}]
  BY DEF UpdateInit
<1>4. VersionsOK
  BY <1>1, StartsType DEF VersionsOK
<1>5. ClosesOK
  BY <1>3 DEF ClosesOK
<1>6. PointsOK
  <2>1. /\ IsFiniteSet(outside) /\ IsFiniteSet(Client)
        /\ \A c \in Client : request[c].kind = "update" =>
             request[c].readTs <= ts \/ ts + Cardinality(outside) + Cardinality(Client) < request[c].readTs
    BY <1>1, ReadPoints
  <2>2. Cardinality(Pending) <= Cardinality(Client) /\ Cardinality(Client) \in Nat /\ Cardinality(outside) \in Nat
    BY <2>1, FS_Subset, FS_CardinalityType DEF Pending
  <2>3. ts \in Nat
    BY <1>2 DEF UpdateTypeOK
  <2>4. \A c \in Client : Point(readAt[c])
    BY <1>3, <2>3 DEF Point
  <2>5. \A c \in Client : request[c].kind = "update" => Point(request[c].readTs)
    <3> TAKE c \in Client
    <3> HAVE request[c].kind = "update"
    <3>1. request[c].readTs \in Nat
      BY <1>2, OpsAre
    <3> QED
      BY <2>1, <2>2, <2>3, <3>1, PendingIsFinite DEF Point
  <2> QED
    BY <2>1, <2>4, <2>5 DEF PointsOK
<1>7. ASSUME NEW c \in Client
      PROVE  OfClient(c)
  <2>1. Order(c)
    BY <1>3 DEF Order
  <2>2. Meaning(c)
    BY <1>3 DEF Meaning, Reads
  <2>3. Conditional(c) /\ Effect(c)
    BY <1>3 DEF Conditional, Effect
  <2> QED
    BY <2>1, <2>2, <2>3 DEF OfClient
<1> QED
  BY <1>4, <1>5, <1>6, <1>7 DEF MeaningInv

\* The versions stay apart, and what is closed has a window.
LEMMA VersionsStep ==
  ASSUME UpdateInv, VersionsOK, ClosesOK, [UpdateNext]_updateVars
  PROVE  VersionsOK' /\ ClosesOK'
<1> UpdateTypeOK /\ LockOK
  BY DEF UpdateInv
<1>0. ASSUME stored' = stored PROVE VersionsOK'
  BY <1>0 DEF VersionsOK
<1>1. ASSUME closes' = closes PROVE ClosesOK'
  BY <1>1 DEF ClosesOK
<1>2. ASSUME NEW c \in Client, Moves(c), ~CommitChanges(c)
      PROVE  VersionsOK' /\ ClosesOK'
  <2>1. VersionsOK'
    BY <1>0, <1>2, MovesAre, PublishesAre
  <2>2. CASE ResolveRetractions(c)
    <3>1. PICK t : closes' = [closes EXCEPT ![c] = Closing(changes[c].retractions, t)]
      BY <2>2, Zenon DEF ResolveRetractions
    <3>2. Closing(changes[c].retractions, t) \subseteq Closed
      BY ClosingIsClosed
    <3>3. ClosesOK'
      BY <3>1, <3>2 DEF ClosesOK, UpdateTypeOK
    <3> QED
      BY <2>1, <3>3
  <2>3. CASE ~ResolveRetractions(c)
    <3>1. closes' = closes
      BY <1>2, <2>3, Zenon DEF Moves, RequestStep, StartUpdate, CompileData, CompileTemplates, Compiled, Approve,
                               BeginTx, AskWhere, AskQuery, TakeAnswer, PublishChanges, CommitNothing
    <3> QED
      BY <1>1, <2>1, <3>1
  <2> QED
    BY <2>2, <2>3
<1>3. ASSUME NEW c \in Client, CommitChanges(c)
      PROVE  VersionsOK' /\ ClosesOK'
  <2> DEFINE windows == Batch(closes[c], changes[c].adds, approved[c])
  <2>1. closes' = closes /\ ts' = ts /\ (stored' = stored \/ stored' = Written(windows)) /\ Locked
    BY <1>3, CommitsAre, WritesUnlock
  <2>2. \A q \in DOMAIN windows : windows[q] \in [start : Nat, end : Nat]
    <3>1. \A q \in DOMAIN windows : windows[q] \in BatchWindows(closes[c])
      BY BatchWritesQuads DEF UpdateTypeOK, Changesets
    <3>2. BatchWindows(closes[c]) \subseteq [start : Nat, end : Nat]
      BY BatchWindowsAre DEF ClosesOK
    <3> HIDE DEF windows
    <3> QED
      BY <3>1, <3>2
  <2> HIDE DEF windows
  <2>3. VersionsOK'
    BY <1>0, <2>1, <2>2, WrittenVersions
  <2> QED
    BY <1>1, <2>1, <2>3
<1>4. CASE WriteOutside
  <2>1. ts' = ts /\ closes' = closes /\ Locked
    BY <1>4, WritesUnlock DEF WriteOutside, requestVars
  <2>2. ASSUME NEW q, NEW w, stored' = Written([r \in {q} |-> w]),
               \/ w = [start |-> Now, end |-> EndOfTime]
               \/ \E e \in Closing({q}, ts) : w = [start |-> e.start, end |-> e.end]
        PROVE  VersionsOK'
    <3>1. w \in [start : Nat, end : Nat]
      <4>1. CASE w = [start |-> Now, end |-> EndOfTime]
        BY <4>1, UpdateConstants, EndOfTimeType
      <4>2. ASSUME NEW e \in Closing({q}, ts), w = [start |-> e.start, end |-> e.end]
            PROVE  w \in [start : Nat, end : Nat]
        <5>1. e \in Closed
          BY <4>2, ClosingIsClosed
        <5> QED
          BY <4>2, <5>1 DEF Closed
      <4> QED
        BY <2>2, <4>1, <4>2
    <3>2. PICK windows : windows = [r \in {q} |-> w]
      OBVIOUS
    <3>3. \A r \in DOMAIN windows : windows[r] \in [start : Nat, end : Nat]
      BY <3>1, <3>2
    <3> QED
      BY <2>1, <2>2, <3>2, <3>3, WrittenVersions
  <2>3. VersionsOK'
    BY <1>0, <1>4, <2>2 DEF WriteOutside
  <2> QED
    BY <1>1, <2>1, <2>3
<1>6. ASSUME NEW q \in outside, PublishOutside(q)
      PROVE  VersionsOK' /\ ClosesOK'
  <2>1. UNCHANGED <<stored, closes>>
    BY <1>6 DEF PublishOutside, requestVars
  <2> QED
    BY <1>0, <1>1, <2>1
<1>5. CASE Evaluate(DatalogNext) \/ UNCHANGED updateVars
  <2>1. UNCHANGED <<stored, closes>>
    BY <1>5 DEF Evaluate, updateVars, requestVars
  <2> QED
    BY <1>0, <1>1, <2>1
<1> QED
  BY <1>2, <1>3, <1>4, <1>5, <1>6 DEF UpdateNext, Moves, RequestStep

\* Points stay points.
LEMMA PointsStep ==
  ASSUME UpdateInv, PointsOK, [UpdateNext]_updateVars
  PROVE  PointsOK'
<1> UpdateTypeOK
  BY DEF UpdateInv
<1>1. Counts /\ ts \in Nat /\ IsFiniteSet(outside)
  BY StepsCount DEF UpdateTypeOK, PointsOK
<1>2. \A t \in Nat : Point(t) => Point(t)'
  BY <1>1, PointsStay
<1>3. request' = request
  <2>1. \A c \in Client : Moves(c) => request' = request
    BY MovesAre, PublishesAre, CommitsAre
  <2>2. WriteOutside \/ (\E q \in outside : PublishOutside(q)) => request' = request
    BY DEF WriteOutside, PublishOutside, requestVars
  <2>3. Evaluate(DatalogNext) \/ UNCHANGED updateVars => request' = request
    BY DEF Evaluate, updateVars, requestVars
  <2> QED
    BY <2>1, <2>2, <2>3 DEF UpdateNext, Moves
<1>4. \A c \in Client : request[c].kind = "update" => Point(request[c].readTs) /\ request[c].readTs \in Nat
  BY OpsAre DEF PointsOK
<1>5. \A c \in Client : Point(readAt[c]) /\ readAt[c] \in Nat
  BY DEF PointsOK, UpdateTypeOK
<1>6. \A c \in Client : \E t \in Nat : t = readAt'[c] /\ Point(t)
  <2>1. CASE readAt' = readAt
    BY <1>5, <2>1
  <2>2. ASSUME NEW c \in Client, StartUpdate(c)
        PROVE  \A d \in Client : \E t \in Nat : t = readAt'[d] /\ Point(t)
    <3>1. Point(ts)
      BY <1>1 DEF Point
    <3>2. PICK t : t = IF request[c].readTs = 0 /\ HasWhere(request[c]) THEN ts ELSE request[c].readTs
      OBVIOUS
    <3>3. readAt' = [readAt EXCEPT ![c] = t] /\ request[c].kind = "update"
      BY <2>2, <3>2 DEF StartUpdate
    <3>4. t \in Nat /\ Point(t)
      BY <1>1, <1>4, <3>1, <3>2, <3>3
    <3> QED
      BY <1>5, <3>3, <3>4 DEF UpdateTypeOK
  <2>3. readAt' = readAt \/ \E c \in Client : StartUpdate(c)
    <3>1. ASSUME NEW c \in Client, Moves(c), ~StartUpdate(c)
          PROVE  readAt' = readAt
      BY <3>1, Zenon DEF Moves, RequestStep, ResolveRetractions, CompileData, CompileTemplates, Compiled, Approve,
                         BeginTx, AskWhere, AskQuery, TakeAnswer, PublishChanges, CommitNothing, CommitChanges
    <3>2. WriteOutside \/ (\E q \in outside : PublishOutside(q)) => readAt' = readAt
      BY DEF WriteOutside, PublishOutside, requestVars
    <3>3. Evaluate(DatalogNext) \/ UNCHANGED updateVars => readAt' = readAt
      BY DEF Evaluate, updateVars, requestVars
    <3> QED
      BY <3>1, <3>2, <3>3 DEF UpdateNext, Moves
  <2> QED
    BY <2>1, <2>2, <2>3
<1>7. ASSUME NEW c \in Client
      PROVE  Point(readAt[c])' /\ (request[c].kind = "update" => Point(request[c].readTs))'
  <2>1. PICK t \in Nat : t = readAt'[c] /\ Point(t)
    BY <1>6
  <2>2. Point(t)'
    BY <1>2, <2>1
  <2>3. Point(readAt[c])'
    BY <2>1, <2>2 DEF Point
  <2>4. PICK u : u = request[c].readTs
    OBVIOUS
  <2>5. request[c].kind = "update" => Point(u)'
    BY <1>2, <1>4, <2>4
  <2>6. (request[c].kind = "update" => Point(request[c].readTs))'
    BY <1>3, <2>4, <2>5 DEF Point
  <2> QED
    BY <2>3, <2>6
<1> QED
  BY <1>1, <1>7 DEF PointsOK, Counts

\* A request's own steps keep its invariant.
LEMMA MoverStep ==
  ASSUME UpdateInv, UpdateInv', MeaningInv, NEW c \in Client, Moves(c), Counts
  PROVE  OfClient(c)'
<1>1. UpdateTypeOK /\ JoinInv /\ VersionsOK /\ PointsOK /\ OfClient(c)
  BY DEF UpdateInv, MeaningInv
<1>2. CASE StartUpdate(c)
  BY <1>1, <1>2, StartUpdateStep
<1>3. CASE CompileData(c)
  BY <1>1, <1>3, CompileDataStep
<1>4. CASE AskWhere(c)
  BY <1>1, <1>4, AskWhereStep
<1>5. CASE AskQuery(c)
  BY <1>1, <1>5, AskQueryStep
<1>6. CASE TakeAnswer(c)
  BY <1>1, <1>6, TakeAnswerStep
<1>7. CASE CompileTemplates(c)
  BY <1>1, <1>7, CompileTemplatesStep
<1>8. CASE Compiled(c) \/ Approve(c)
  BY <1>1, <1>8, CompiledStep
<1>9. CASE ResolveRetractions(c)
  BY <1>1, <1>9, ResolveStep
<1>10. CASE BeginTx(c)
  BY <1>1, <1>10, BeginStep
<1>11. CASE PublishChanges(c) \/ CommitNothing(c)
  BY <1>1, <1>11, PublishStep
<1>12. CASE CommitChanges(c)
  BY <1>1, <1>12, CommitStep
<1> QED
  BY <1>2, <1>3, <1>4, <1>5, <1>6, <1>7, <1>8, <1>9, <1>10, <1>11, <1>12 DEF Moves, RequestStep

\* Every step keeps the invariant: the request that moves by its own lemma, the others because they rest.
LEMMA MeaningInvStep == UpdateInv /\ MeaningInv /\ [UpdateNext]_updateVars => MeaningInv'
<1> SUFFICES ASSUME UpdateInv, MeaningInv, [UpdateNext]_updateVars PROVE MeaningInv'
  OBVIOUS
<1>1. UpdateTypeOK /\ VersionsOK /\ ClosesOK /\ PointsOK /\ UpdateInv' /\ \A d \in Client : OfClient(d)
  BY UpdateInvStep DEF UpdateInv, MeaningInv
<1>2. VersionsOK' /\ ClosesOK' /\ PointsOK' /\ Counts /\ Grows
  BY <1>1, VersionsStep, PointsStep, StepsCount
<1>3. ASSUME NEW d \in Client
      PROVE  OfClient(d)'
  <2>1. OfClient(d)
    BY <1>1
  <2>2. ASSUME Rests(d), StillAsks(d)
        PROVE  OfClient(d)'
    BY <1>1, <1>2, <2>1, <2>2, OthersStay
  <2>3. ASSUME NEW c \in Client, Moves(c)
        PROVE  OfClient(d)'
    <3>1. CASE d = c
      BY <1>1, <1>2, <2>3, <3>1, MoverStep
    <3>2. CASE d # c
      <4>1. Rests(d)
        BY <1>1, <2>3, <3>2, MovesAre, PublishesAre, CommitsAre
      <4>2. StillAsks(d)
        BY <1>1, <2>1, <2>3, <3>2, OthersAsk DEF OfClient
      <4> QED
        BY <2>2, <4>1, <4>2
    <3> QED
      BY <3>1, <3>2
  <2>4. ASSUME WriteOutside \/ \E q \in outside : PublishOutside(q)
        PROVE  OfClient(d)'
    <3>1. UNCHANGED requestVars /\ UNCHANGED asker /\ UNCHANGED datalogVars
      BY <2>4 DEF WriteOutside, PublishOutside
    <3>2. Rests(d)
      BY <3>1 DEF requestVars, Rests
    <3>3. StillAsks(d)
      BY <2>1, <3>1 DEF StillAsks, datalogVars, OfClient, Order
    <3> QED
      BY <2>2, <3>2, <3>3
  <2>5. CASE Evaluate(DatalogNext) \/ UNCHANGED updateVars
    <3>1. UNCHANGED requestVars /\ UNCHANGED asker
      BY <2>5 DEF Evaluate, updateVars
    <3>2. Rests(d)
      BY <3>1 DEF requestVars, Rests
    <3>3. StillAsks(d)
      <4>1. CASE Evaluate(DatalogNext)
        BY <2>1, <3>1, <4>1 DEF StillAsks, Evaluate, DatalogNext, Step, Join, Answer, Apply, EndRound, Timeout
      <4>2. CASE UNCHANGED updateVars
        BY <2>1, <3>1, <4>2 DEF StillAsks, updateVars, datalogVars, OfClient, Order
      <4> QED
        BY <2>5, <4>1, <4>2
    <3> QED
      BY <2>2, <3>2, <3>3
  <2> QED
    BY <2>3, <2>4, <2>5 DEF UpdateNext, Moves
<1> QED
  BY <1>2, <1>3 DEF MeaningInv

-----------------------------------------------------------------------------
(* What commits do *)

\* The operation that decides a quad is the last one that mentions it.
LEMMA DecidesIs ==
  ASSUME UpdateTypeOK, NEW c \in Client, request[c].kind = "update", NEW q, NEW k, k = Decides(c, q),
         NEW read, read = shown[c]
  PROVE  LET ops == request[c].ops
             mentions(j) == q \in Inserted(ops[j], read) \/ DeletedBy(ops[j], q, read)
         IN  /\ k = 0 => \A j \in 1 .. Len(ops) : ~mentions(j)
             /\ k # 0 => /\ k \in 1 .. Len(ops) /\ mentions(k)
                         /\ \A j \in 1 .. Len(ops) : j > k => ~mentions(j)
<1> DEFINE ops == request[c].ops
           n == Len(ops)
           mentions(j) == q \in Inserted(ops[j], read) \/ DeletedBy(ops[j], q, read)
           all == {j \in 1 .. n : mentions(j)}
<1>1. n \in Nat /\ DOMAIN ops = 1 .. n
  BY OpsAre
<1>2. k = IF all = {} THEN 0 ELSE CHOOSE j \in all : \A i \in all : i <= j
  BY <1>1 DEF Decides
<1> HIDE DEF mentions, n
<1>3. all # {} => \E j \in all : \A i \in all : i <= j
  <2> HAVE all # {}
  <2> DEFINE rest == {n - j : j \in all}
  <2>1. rest \in SUBSET Nat /\ rest # {}
    BY <1>1
  <2>2. PICK m \in rest : \A u \in rest : m <= u
    <3> HIDE DEF rest
    <3> QED
      BY <2>1, LeastOf
  <2>3. PICK j \in all : m = n - j
    BY <2>2
  <2>4. \A i \in all : n - j <= n - i
    BY <2>2, <2>3
  <2>5. \A i \in all : i <= j
    BY <1>1, <2>4
  <2> QED
    BY <2>5
<1>4. CASE all = {}
  BY <1>2, <1>4 DEF mentions, n
<1>5. CASE all # {}
  <2>1. k \in all /\ \A i \in all : i <= k
    <3> HIDE DEF all
    <3> QED
      BY <1>2, <1>3, <1>5
  <2>2. k \in 1 .. n /\ mentions(k) /\ \A j \in 1 .. n : j > k => ~mentions(j)
    BY <1>1, <2>1
  <2> QED
    BY <1>1, <2>2 DEF mentions, n
<1> QED
  BY <1>4, <1>5

\* A committed changeset, quad by quad: the operation that decides a quad
\* inserts it, or else deletes it.
LEMMA CommittedIs ==
  ASSUME UpdateTypeOK, NEW c \in Client, OfClient(c), Done(c), NEW q \in Quad, NEW read, read = shown[c],
         NEW k, k = Decides(c, q)
  PROVE  /\ Found(c, read) /\ at[c] = "applied" /\ readAt[c] < committed[c] /\ request[c].kind = "update"
         /\ k = 0 => q \notin Adds(c) /\ ~Named(changes[c].retractions, q)
         /\ k # 0 /\ q \in Inserted(request[c].ops[k], read) => q \in Adds(c)
         /\ k # 0 /\ q \notin Inserted(request[c].ops[k], read) =>
              q \notin Adds(c) /\ Named(changes[c].retractions, q)
<1> DEFINE ops == request[c].ops
           n == Len(ops)
           in(j) == q \in Inserted(ops[j], read)
           del(j) == DeletedBy(ops[j], q, read)
<1>1. /\ at[c] = "applied" /\ readAt[c] < committed[c] /\ ts > 0 /\ committed[c] = ts
      /\ ts \in Nat /\ readAt[c] \in Nat
  BY DEF OfClient, Order, Done, UpdateTypeOK
<1>2. request[c].kind = "update" /\ op[c] = n + 1
  BY <1>1 DEF OfClient, Order
<1>3. Reads(c)
  BY <1>1, <1>2 DEF Reads, Done
<1>4. Found(c, read)
  BY <1>1, <1>3 DEF OfClient, Meaning, Steady, Done
<1>5. n \in Nat /\ (n + 1) - 1 = n
  BY <1>2, OpsAre
<1>6. Means(changes[c], ops, n, read)
  BY <1>2, <1>4, <1>5 DEF Found
<1>7. q \in Adds(c) <=> \E j \in 1 .. n : in(j) /\ \A i \in j + 1 .. n : ~del(i)
  BY <1>6 DEF Means, Adds
<1>8. changes[c].retractions \subseteq QuadRef
  BY DEF UpdateTypeOK, Changesets
<1>9. \A j \in 1 .. n : del(j) => Named(changes[c].retractions, q)
  <2> TAKE j \in 1 .. n
  <2> HAVE del(j)
  <2>1. PICK r \in Deleted(ops[j], read) : Names(r, q)
    BY DEF DeletedBy
  <2>2. r \in QuadRef
    <3>1. ops[j] \in Operation
      BY <1>2, OpsAre, ElementOfSeq
    <3>2. ops[j].kind = "delete" => Elements(ops[j].quads) \subseteq QuadRef
      BY <3>1, OperationIs, ElementOfSeq, LenProperties DEF Elements
    <3>3. Deleted(ops[j], read) \subseteq QuadRef
      BY <3>1, <3>2, OperationIs DEF Deleted, Instances
    <3> QED
      BY <2>1, <3>3
  <2>3. r \in changes[c].retractions
    BY <1>6, <2>1, <2>2 DEF Means
  <2> QED
    BY <2>1, <2>3 DEF Named
<1>10. Named(changes[c].retractions, q) => \E j \in 1 .. n : del(j)
  BY <1>6, <1>8 DEF Named, Means, DeletedBy
<1>11. /\ k = 0 => \A j \in 1 .. n : ~in(j) /\ ~del(j)
       /\ k # 0 => /\ k \in 1 .. n /\ (in(k) \/ del(k))
                   /\ \A j \in 1 .. n : j > k => ~in(j) /\ ~del(j)
  BY <1>2, DecidesIs
<1> HIDE DEF in, del, n
<1>12. k = 0 => q \notin Adds(c) /\ ~Named(changes[c].retractions, q)
  BY <1>7, <1>10, <1>11
<1>13. k # 0 /\ in(k) => q \in Adds(c)
  <2> HAVE k # 0 /\ in(k)
  <2>1. \A i \in k + 1 .. n : i \in 1 .. n /\ i > k
    BY <1>5, <1>11
  <2> QED
    BY <1>7, <1>11, <2>1
<1>14. k # 0 /\ ~in(k) => q \notin Adds(c) /\ Named(changes[c].retractions, q)
  <2> HAVE k # 0 /\ ~in(k)
  <2>1. k \in 1 .. n /\ del(k)
    BY <1>11
  <2>2. \A j \in 1 .. n : in(j) => k \in j + 1 .. n
    BY <1>5, <1>11, <2>1
  <2> QED
    BY <1>7, <1>9, <2>1, <2>2
<1> QED
  BY <1>1, <1>2, <1>4, <1>12, <1>13, <1>14 DEF in

\* What is live and named is closed, and nothing else is.
LEMMA ClosedIs ==
  ASSUME NEW refs, NEW t
  PROVE  /\ \A q : Named(refs, q) /\ Holds(Of(q), t, Now) => \E w \in Closing(refs, t) : w.quad = q
         /\ \A w \in Closing(refs, t) :
              /\ Named(refs, w.quad)
              /\ \E v \in Of(w.quad) : /\ Governs(v, Of(w.quad), t, Now) /\ Now < v.end
                                       /\ w.start = v.start /\ w.end = MaxOf(Now, v.start)
<1>1. ASSUME NEW q, Named(refs, q), Holds(Of(q), t, Now)
      PROVE  \E w \in Closing(refs, t) : w.quad = q
  <2>1. PICK v \in Of(q) : Governs(v, Of(q), t, Now) /\ Now < v.end
    BY <1>1 DEF Holds
  <2>2. PICK w : Closer(w, q, v)
    BY DEF Closer
  <2>3. w \in Closing(refs, t)
    BY <1>1, <2>1, <2>2, ClosingIs
  <2> QED
    BY <2>2, <2>3 DEF Closer
<1>2. ASSUME NEW w \in Closing(refs, t)
      PROVE  /\ Named(refs, w.quad)
             /\ \E v \in Of(w.quad) : /\ Governs(v, Of(w.quad), t, Now) /\ Now < v.end
                                      /\ w.start = v.start /\ w.end = MaxOf(Now, v.start)
  <2>1. PICK q : Named(refs, q) /\ \E v \in Of(q) : Governs(v, Of(q), t, Now) /\ Now < v.end /\ Closer(w, q, v)
    BY ClosingIs
  <2>2. PICK v \in Of(q) : Governs(v, Of(q), t, Now) /\ Now < v.end /\ Closer(w, q, v)
    BY <2>1
  <2>3. w.quad = q /\ w.start = v.start /\ w.end = MaxOf(Now, v.start)
    BY <2>2 DEF Closer
  <2> QED
    BY <2>1, <2>2, <2>3
<1> QED
  BY <1>1, <1>2

\* A quad that an update inserts, or deletes and that was live, is one it adds or closes.
LEMMA MeaningIsConditional == UpdateInv /\ MeaningInv => NothingItWritesHasChanged
<1> SUFFICES ASSUME UpdateInv, MeaningInv, NEW c \in Client, Done(c), readAt[c] > 0, Undisturbed(c),
                    NEW q \in DOMAIN stored, Decides(c, q) > 0,
                    q \in Inserted(request[c].ops[Decides(c, q)], shown[c]) \cup shown[c]
             PROVE  ~WrittenSince(q, readAt[c], committed[c])
  BY DEF NothingItWritesHasChanged
<1>1. UpdateTypeOK /\ OfClient(c) /\ q \in Quad /\ committed[c] > 0
  BY DEF UpdateInv, MeaningInv, UpdateTypeOK, Done
<1>2. PICK read : read = shown[c]
  OBVIOUS
<1>3. PICK k : k = Decides(c, q)
  OBVIOUS
<1>4. /\ Found(c, read) /\ at[c] = "applied"
      /\ k # 0 /\ q \in Inserted(request[c].ops[k], read) => q \in Adds(c)
      /\ k # 0 /\ q \notin Inserted(request[c].ops[k], read) => Named(changes[c].retractions, q)
  BY <1>1, <1>2, <1>3, CommittedIs
<1>5. k # 0 /\ q \in Inserted(request[c].ops[k], read) \cup read
  BY <1>2, <1>3
<1>6. q \in Adds(c) \/ Closes(c, q)
  <2> SUFFICES ASSUME q \notin Inserted(request[c].ops[k], read) PROVE Closes(c, q)
    BY <1>4, <1>5
  <2>1. Named(changes[c].retractions, q) /\ q \in ShownAt(seen[c])
    BY <1>4, <1>5 DEF Found
  <2>2. Holds(Of(q), seen[c], Now)
    BY <2>1, ShownIs
  <2>3. closes[c] = Closing(changes[c].retractions, seen[c])
    BY <1>4 DEF Found
  <2> QED
    BY <2>1, <2>2, <2>3, ClosedIs DEF Closes
<1> QED
  BY <1>1, <1>6 DEF OfClient, Conditional

\* One of the versions that a read sees governs it.
LEMMA SomeGoverns ==
  ASSUME UpdateTypeOK, VersionsOK, NEW q, NEW t \in Nat, NEW n \in Of(q), InView(n, t, Now)
  PROVE  \E v \in Of(q) : Governs(v, Of(q), t, Now)
<1> DEFINE vs == {v \in Of(q) : InView(v, t, Now)}
           starts == {Now - v.start : v \in vs}
<1>1. /\ Now \in Nat
      /\ \A v \in vs : v \in Of(q) /\ v.start \in Nat /\ v.tt \in Nat /\ v.tt <= t /\ v.start <= Now
  BY VersionsOf, UpdateConstants DEF Version, InView
<1>2. starts \in SUBSET Nat /\ starts # {}
  BY <1>1
<1>3. PICK m \in starts : \A u \in starts : m <= u
  <2> HIDE DEF starts
  <2> QED
    BY <1>2, LeastOf
<1>4. PICK a \in vs : m = Now - a.start
  BY <1>3
<1>5. \A v \in vs : v.start <= a.start
  <2>1. \A v \in vs : Now - a.start <= Now - v.start
    BY <1>3, <1>4
  <2> QED
    BY <1>1, <2>1
<1> DEFINE ws == {v \in vs : v.start = a.start}
           times == {t - v.tt : v \in ws}
<1>6. times \in SUBSET Nat /\ times # {}
  BY <1>1
<1>7. PICK p \in times : \A u \in times : p <= u
  <2> HIDE DEF times
  <2> QED
    BY <1>6, LeastOf
<1>8. PICK b \in ws : p = t - b.tt
  BY <1>7
<1>9. \A v \in ws : v.tt <= b.tt
  <2>1. \A v \in ws : t - b.tt <= t - v.tt
    BY <1>7, <1>8
  <2> QED
    BY <1>1, <2>1
<1>10. b \in vs /\ b.start = a.start /\ \A v \in vs : ~Beats(v, b)
  <2>1. b \in vs /\ b.start = a.start
    OBVIOUS
  <2>2. \A v \in vs : v.start = a.start => v.tt <= b.tt
    BY <1>9
  <2> HIDE DEF vs, ws
  <2> QED
    BY <1>1, <1>5, <2>1, <2>2 DEF Beats
<1> QED
  BY <1>10 DEF Governs

\* What a commit has added is shown, or hidden behind a later window.
LEMMA AddedIsShown ==
  ASSUME UpdateTypeOK, VersionsOK, NEW q, [start |-> 0, end |-> EndOfTime, tt |-> ts] \in Of(q)
  PROVE  q \in ShownAt(ts) \/ Hidden(q, ts)
<1>1. PICK n \in Of(q) : n = [start |-> 0, end |-> EndOfTime, tt |-> ts]
  OBVIOUS
<1>2. ts \in Nat /\ Now \in Nat /\ Now < EndOfTime /\ EndOfTime \in Nat
  BY UpdateConstants, EndOfTimeType DEF UpdateTypeOK
<1>3. InView(n, ts, Now)
  BY <1>1, <1>2 DEF InView
<1>4. PICK v \in Of(q) : Governs(v, Of(q), ts, Now)
  BY <1>2, <1>3, SomeGoverns
<1>5. v \in Version /\ v.tt \in 0 .. ts /\ (v.tt = n.tt => v = n)
  BY VersionsOf
<1>6. ~Beats(n, v)
  BY <1>3, <1>4 DEF Governs
<1>7. v.start > 0 \/ v = n
  BY <1>1, <1>2, <1>5, <1>6 DEF Beats, Version
<1>8. CASE Now < v.end
  BY <1>4, <1>8, ShownIs DEF Holds
<1>9. CASE ~(Now < v.end)
  BY <1>1, <1>2, <1>4, <1>5, <1>7, <1>9 DEF Hidden, Version
<1> QED
  BY <1>8, <1>9

\* What a commit has closed, or found closed, is not shown, unless it has been
\* written since.
LEMMA DeletedIsGone ==
  ASSUME UpdateTypeOK, VersionsOK, NEW q, NEW t \in Nat, t <= ts, ~WrittenSince(q, t, ts), NEW refs, Named(refs, q),
         \/ \E w \in Closing(refs, t) : w.quad = q /\ [start |-> w.start, end |-> w.end, tt |-> ts] \in Of(q)
         \/ (~\E w \in Closing(refs, t) : w.quad = q) /\ \A v \in Of(q) : v.tt # ts
  PROVE  q \notin ShownAt(ts)
<1> SUFFICES ASSUME q \in ShownAt(ts) PROVE FALSE
  OBVIOUS
<1>0. ts \in Nat /\ Now \in Nat
  BY UpdateConstants DEF UpdateTypeOK
<1>1. PICK v \in Of(q) : Governs(v, Of(q), ts, Now) /\ Now < v.end
  BY ShownIs DEF Holds
<1>2. \A x \in Of(q) : x \in Version /\ x.tt \in 0 .. ts /\ (x.tt <= t \/ x.tt = ts)
  BY <1>0, VersionsOf DEF WrittenSince
<1>3. \A x \in Of(q) : \A y \in Of(q) : x.tt = y.tt => x = y
  BY VersionsOf
<1>4. CASE \E w \in Closing(refs, t) : w.quad = q /\ [start |-> w.start, end |-> w.end, tt |-> ts] \in Of(q)
  <2>1. PICK w \in Closing(refs, t) : w.quad = q /\ [start |-> w.start, end |-> w.end, tt |-> ts] \in Of(q)
    BY <1>4
  <2>2. PICK u \in Of(q) : Governs(u, Of(q), t, Now) /\ w.start = u.start /\ w.end = MaxOf(Now, u.start)
    BY <2>1, ClosedIs
  <2>3. PICK n \in Of(q) : n = [start |-> w.start, end |-> w.end, tt |-> ts]
    BY <2>1
  <2>4. u.start \in Nat /\ u.start <= Now /\ u.tt \in Nat
    BY <1>2, <2>2 DEF Governs, InView, Version
  <2>5. n.start = u.start /\ n.end = Now /\ n.tt = ts
    BY <1>0, <2>2, <2>3, <2>4 DEF MaxOf
  <2>6. InView(n, ts, Now)
    BY <1>0, <2>4, <2>5 DEF InView
  <2>7. ~Beats(n, v)
    BY <1>1, <2>6 DEF Governs
  <2>8. v # n
    BY <1>0, <1>1, <2>5
  <2>9. v.tt # ts
    BY <1>3, <2>5, <2>8
  <2>10. v.tt <= t /\ v.tt \in Nat /\ v.start \in Nat /\ v.start <= Now /\ v.tt < ts
    BY <1>0, <1>1, <1>2, <2>9 DEF Governs, InView, Version
  <2>11. v.start > u.start
    BY <1>0, <2>4, <2>5, <2>7, <2>10 DEF Beats
  <2>12. InView(v, t, Now) /\ Beats(v, u)
    BY <2>10, <2>11 DEF InView, Beats
  <2> QED
    BY <2>2, <2>12 DEF Governs
<1>5. CASE (~\E w \in Closing(refs, t) : w.quad = q) /\ \A x \in Of(q) : x.tt # ts
  <2>1. \A x \in Of(q) : x.tt <= t
    BY <1>2, <1>5
  <2>2. Governs(v, Of(q), t, Now)
    BY <1>0, <1>1, <1>2, <2>1 DEF Governs, InView
  <2> QED
    BY <1>1, <1>5, <2>2, ClosedIs DEF Holds
<1> QED
  BY <1>4, <1>5

\* What a commit does not write reads as before.
LEMMA OthersReadOn ==
  ASSUME UpdateTypeOK, VersionsOK, ts > 0, NEW q, \A v \in Of(q) : v.tt # ts
  PROVE  q \in ShownAt(ts) <=> q \in ShownAt(ts - 1)
<1>0. ts \in Nat
  BY DEF UpdateTypeOK
<1>1. \A v \in Of(q) : v.tt \in 0 .. ts /\ v.tt # ts
  BY VersionsOf
<1>2. \A v \in Of(q) : InView(v, ts, Now) <=> InView(v, ts - 1, Now)
  BY <1>0, <1>1 DEF InView
<1>3. \A v : Governs(v, Of(q), ts, Now) <=> Governs(v, Of(q), ts - 1, Now)
  BY <1>2 DEF Governs
<1> QED
  BY <1>3, ShownIs DEF Holds

\* The last operation that mentions a quad put it into the adds, or left it retracted and not added.
LEMMA MeaningIsDone == UpdateInv /\ MeaningInv => UpdatesDoWhatTheySay
<1> SUFFICES ASSUME UpdateInv, MeaningInv, NEW c \in Client, Done(c), NEW q \in DOMAIN stored, ~Replaced(c, q),
                    NEW k, k = Decides(c, q), NEW read, read = shown[c]
             PROVE  IF k = 0 THEN q \in ShownAt(committed[c]) <=> q \in ShownAt(committed[c] - 1)
                    ELSE IF q \in Inserted(request[c].ops[k], read)
                         THEN q \in ShownAt(committed[c]) \/ Hidden(q, committed[c])
                         ELSE q \notin ShownAt(committed[c]) \/ WrittenSince(q, seen[c], committed[c])
  BY Zenon DEF UpdatesDoWhatTheySay
<1>1. /\ UpdateTypeOK /\ VersionsOK /\ OfClient(c) /\ q \in Quad
      /\ committed[c] = ts /\ ts > 0 /\ ts \in Nat
  BY DEF UpdateInv, MeaningInv, UpdateTypeOK, Done
<1>2. /\ Found(c, read) /\ at[c] = "applied"
      /\ k = 0 => q \notin Adds(c) /\ ~Named(changes[c].retractions, q)
      /\ k # 0 /\ q \in Inserted(request[c].ops[k], read) => q \in Adds(c)
      /\ k # 0 /\ q \notin Inserted(request[c].ops[k], read) => q \notin Adds(c) /\ Named(changes[c].retractions, q)
  BY <1>1, CommittedIs
<1>3. seen[c] <= ts /\ seen[c] \in Nat /\ closes[c] = Closing(changes[c].retractions, seen[c])
  BY <1>1, <1>2, SettledIs DEF Found, UpdateTypeOK
<1>4. /\ q \in Adds(c) => [start |-> 0, end |-> EndOfTime, tt |-> ts] \in Of(q)
      /\ q \notin Adds(c) /\ Closes(c, q) =>
           \E w \in closes[c] : w.quad = q /\ [start |-> w.start, end |-> w.end, tt |-> ts] \in Of(q)
      /\ q \notin Adds(c) /\ ~Closes(c, q) => \A v \in Of(q) : v.tt # ts
  BY <1>1 DEF OfClient, Effect
<1>5. CASE k = 0
  <2>1. ~Closes(c, q)
    BY <1>2, <1>3, <1>5, ClosedIs DEF Closes
  <2>2. \A v \in Of(q) : v.tt # ts
    BY <1>2, <1>4, <1>5, <2>1
  <2>3. q \in ShownAt(ts) <=> q \in ShownAt(ts - 1)
    BY <1>1, <2>2, OthersReadOn
  <2> QED
    BY <1>1, <1>5, <2>3
<1>6. CASE k # 0 /\ q \in Inserted(request[c].ops[k], read)
  <2>1. q \in ShownAt(ts) \/ Hidden(q, ts)
    BY <1>1, <1>2, <1>4, <1>6, AddedIsShown
  <2> QED
    BY <1>1, <1>6, <2>1
<1>7. CASE k # 0 /\ q \notin Inserted(request[c].ops[k], read)
  <2>1. q \notin Adds(c) /\ Named(changes[c].retractions, q)
    BY <1>2, <1>7
  <2>2. PICK refs : refs = changes[c].retractions
    OBVIOUS
  <2>3. PICK t \in Nat : t = seen[c]
    BY <1>3
  <2>4. \/ \E w \in Closing(refs, t) : w.quad = q /\ [start |-> w.start, end |-> w.end, tt |-> ts] \in Of(q)
        \/ (~\E w \in Closing(refs, t) : w.quad = q) /\ \A v \in Of(q) : v.tt # ts
    BY <1>3, <1>4, <2>1, <2>2, <2>3 DEF Closes
  <2>5. ~WrittenSince(q, t, ts) => q \notin ShownAt(ts)
    <3> HAVE ~WrittenSince(q, t, ts)
    <3>1. t <= ts /\ Named(refs, q)
      BY <1>3, <2>1, <2>2, <2>3
    <3> QED
      BY <1>1, <2>4, <3>1, DeletedIsGone
  <2> QED
    BY <1>1, <1>7, <2>3, <2>5
<1> QED
  BY <1>5, <1>6, <1>7

-----------------------------------------------------------------------------

\* A commit with a read point writes nothing that has been written since that
\* point: no quad that it inserts, and none that it deletes and that was live
\* there, whatever else is committed while the request is compiled, shown,
\* approved and resolved (begin_at and check_conflict under apply_changes), if
\* the point's commit had been written when the request began.
THEOREM ReadPointsHold == UpdateSpec => []NothingItWritesHasChanged
<1>1. UpdateInit => UpdateInv /\ MeaningInv
  BY UpdateInvInit, MeaningInvInit
<1>2. UpdateInv /\ MeaningInv /\ [UpdateNext]_updateVars => (UpdateInv /\ MeaningInv)'
  BY UpdateInvStep, MeaningInvStep
<1> QED
  BY <1>1, <1>2, MeaningIsConditional, PTL DEF UpdateSpec

\* For every request, store and interleaving with other writers, the last
\* operation that mentions a quad decides it in the commit, and quads that none
\* mentions stay as they were: from the solutions of the WHERE clauses over
\* changeset, retractions and batch to what the store shows (run_data_update,
\* UpdateChangeset, apply_changes and stage_writes), if the commit that the WHERE
\* clauses read at had been written when the request began.
THEOREM UpdatesAreDone == UpdateSpec => []UpdatesDoWhatTheySay
<1>1. UpdateInit => UpdateInv /\ MeaningInv
  BY UpdateInvInit, MeaningInvInit
<1>2. UpdateInv /\ MeaningInv /\ [UpdateNext]_updateVars => (UpdateInv /\ MeaningInv)'
  BY UpdateInvStep, MeaningInvStep
<1> QED
  BY <1>1, <1>2, MeaningIsDone, PTL DEF UpdateSpec

-----------------------------------------------------------------------------
(* Patterns over derived facts *)

Pair == Node \X Node

\* Relations for some of the derived predicates.
IsModel(m, heads) == DOMAIN m \subseteq heads /\ m \in [DOMAIN m -> SUBSET Pair]

\* Derived predicates, of which the store has no quads.
Apart(heads, quads) == heads \subseteq Pred /\ \A q \in quads : q.p \notin heads

FactOf(p, e) == [g |-> Default, s |-> e[1], p |-> p, o |-> e[2]]

RelationOf(m, p) == IF p \in DOMAIN m THEN m[p] ELSE {}

\* The quads that a pattern is about: derived facts too if it names a
\* predicate, and no graph.
Source(pat, quads, m) ==
  IF pat.hops = Unlimited /\ pat.g = Union /\ pat.p \in Pred THEN quads \cup Facts(m) ELSE quads

MeetsWith(pat, a, quads, m) == Meets(pat, a, Source(pat, quads, m), Source(pat, quads, m))

\* Derived facts are quads, one for each pair of a relation.
LEMMA FactsAre ==
  ASSUME NEW heads, heads \subseteq Pred, NEW m, IsModel(m, heads)
  PROVE  /\ Facts(m) \subseteq Quad
         /\ \A q : q \in Facts(m) <=> \E p \in DOMAIN m : \E e \in m[p] : q = FactOf(p, e)
         /\ \A q \in Facts(m) : q.p \in DOMAIN m
<1>1. \A q : q \in Facts(m) <=> \E p \in DOMAIN m : \E e \in m[p] : q = FactOf(p, e)
  BY DEF Facts, FactOf
<1>2. ASSUME NEW p \in DOMAIN m, NEW e \in m[p]
      PROVE  FactOf(p, e) \in Quad /\ FactOf(p, e).p = p
  <2>1. p \in Pred /\ e[1] \in Node /\ e[2] \in Node
    BY DEF IsModel, Pair
  <2> QED
    BY <2>1 DEF FactOf, Quad
<1> QED
  BY <1>1, <1>2

\* What a pattern is about are quads, the given ones among them.
LEMMA SourceIs ==
  ASSUME NEW heads, NEW quads, quads \subseteq Quad, Apart(heads, quads), NEW m, IsModel(m, heads), NEW pat
  PROVE  Source(pat, quads, m) \subseteq Quad /\ quads \subseteq Source(pat, quads, m)
         /\ Source(pat, quads, m) \subseteq quads \cup Facts(m)
  BY FactsAre DEF Source, Apart

\* Rules have no registry of edge types to prune by and no pending writes.
LEMMA RulesSeeAll ==
  /\ \A pat, sol, quads : Seen(pat, sol, quads, NoVars) = quads
  /\ \A found, pat, sol : Overlaid(found, <<>>, pat, sol) = found
  /\ <<>> \in Seq(Quad) /\ Elements(<<>>) = {}
<1>1. DOMAIN NoVars = {} /\ DOMAIN <<>> = {}
  BY DEF NoVars
<1>2. ASSUME NEW pat, NEW sol, NEW quads
      PROVE  Seen(pat, sol, quads, NoVars) = quads
  <2>1. ~Prunes(pat, sol, quads, NoVars)
    BY <1>1 DEF Prunes
  <2> QED
    BY <2>1 DEF Seen
<1>3. ASSUME NEW found, NEW pat, NEW sol
      PROVE  Overlaid(found, <<>>, pat, sol) = found
  BY <1>1 DEF Overlaid
<1>4. <<>> \in Seq(Quad) /\ Elements(<<>>) = {}
  BY <1>1 DEF Elements
<1> QED
  BY <1>2, <1>3, <1>4

\* evaluate_hybrid matches a pattern as if the derived facts were stored.
LEMMA MatchesDerived ==
  ASSUME NEW heads, NEW quads, quads \subseteq Quad, Apart(heads, quads), NEW m, IsModel(m, heads),
         NEW pat \in Pattern, NEW sol \in Solution, \A v \in DOMAIN sol : sol[v] \notin heads, NEW values
  PROVE  Matches(pat, sol, quads, <<>>, m, NoVars, values)
           = Matches(pat, sol, Source(pat, quads, m), <<>>, NoVars, NoVars, values)
<1> DEFINE src == Source(pat, quads, m)
           named == pat.hops = Unlimited /\ pat.g = Union /\ pat.p \in Pred
<1>1. CASE pat.hops # Unlimited \/ pat.g # Union
  BY <1>1 DEF Matches, MatchPattern, Source
<1>2. CASE pat.hops = Unlimited /\ pat.g = Union
  <2> DEFINE p == Resolve(pat.p, sol)
             hybrid == Ungraphed(pat, sol, quads, <<>>, m, NoVars)
             plain == Ungraphed(pat, sol, src, <<>>, NoVars, NoVars)
  <2>1. plain = {q \in src : Fits(q, pat, sol)}
    <3>1. p \notin DOMAIN NoVars
      BY DEF NoVars
    <3> HIDE DEF p, src
    <3> QED
      BY <3>1, RulesSeeAll DEF Ungraphed, p
  <2>2. src \subseteq Quad
    BY SourceIs
  <2>3. /\ Matches(pat, sol, quads, <<>>, m, NoVars, values) = UNION {Extend(q, pat, sol, values) : q \in hybrid}
        /\ Matches(pat, sol, src, <<>>, NoVars, NoVars, values) = UNION {Extend(q, pat, sol, values) : q \in plain}
    BY <1>2 DEF Matches, MatchPattern
  <2>4. p \notin DOMAIN m => hybrid = {q \in quads : Fits(q, pat, sol)}
    BY RulesSeeAll DEF Ungraphed
  <2>5. CASE pat.p \notin Pred
    <3>1. p \notin heads
      <4>1. pat.p \in Var \cup {Blank}
        BY <2>5, TermsAreDistinct DEF Pattern
      <4> QED
        BY <4>1, TermsAreDistinct DEF Resolve, Apart
    <3>2. src = quads
      BY <2>5 DEF Source
    <3> QED
      BY <2>1, <2>3, <2>4, <3>1, <3>2 DEF IsModel
  <2>6. CASE pat.p \in Pred
    <3>1. p = pat.p /\ p # Blank
      BY <2>6, TermsAreDistinct DEF Resolve
    <3>2. src = quads \cup Facts(m)
      BY <1>2, <2>6 DEF Source
    <3>3. \A q : Fits(q, pat, sol) => q.p = p
      BY <3>1 DEF Fits
    <3>4. heads \subseteq Pred /\ DOMAIN m \subseteq heads
      BY DEF Apart, IsModel
    <3>5. CASE p \notin DOMAIN m
      <4>1. \A q \in Facts(m) : ~Fits(q, pat, sol)
        BY <3>3, <3>4, <3>5, FactsAre
      <4> QED
        BY <2>1, <2>3, <2>4, <3>2, <3>5, <4>1
    <3>6. CASE p \in DOMAIN m
      <4>1. hybrid = {FactOf(p, e) : e \in m[p]}
        BY <3>6 DEF Ungraphed, FactOf
      <4>2. \A q \in plain : q \in hybrid
        <5> TAKE q \in plain
        <5>1. q \in Facts(m) /\ q.p = p
          BY <2>1, <3>2, <3>3, <3>4, <3>6 DEF Apart
        <5>2. PICK p1 \in DOMAIN m : \E e \in m[p1] : q = FactOf(p1, e)
          BY <3>4, <5>1, FactsAre
        <5>3. p1 = p
          BY <5>1, <5>2 DEF FactOf
        <5> QED
          BY <4>1, <5>2, <5>3
      <4>3. ASSUME NEW q \in hybrid, Extend(q, pat, sol, values) # {}
            PROVE  q \in plain
        <5>1. q \in Facts(m)
          BY <3>4, <3>6, <4>1, FactsAre
        <5>2. q \in Quad
          BY <3>4, <5>1, FactsAre
        <5>3. PICK b : b \in Extend(q, pat, sol, values)
          BY <4>3
        <5>4. Widens(b, sol, Slots(pat)) /\ Has(pat.s, b, q.s) /\ Has(pat.o, b, q.o) /\ Has(pat.p, b, q.p)
          BY <1>2, <5>2, <5>3, GraphExtendIs
        <5>5. \A t : \A x : Has(t, b, x) => Resolve(t, sol) \in {Blank, x}
          BY <5>4, TermsAreDistinct DEF Has, Value, Resolve, Widens
        <5>6. Fits(q, pat, sol)
          BY <5>4, <5>5 DEF Fits
        <5> QED
          BY <2>1, <3>2, <5>1, <5>6
      <4> HIDE DEF plain, hybrid
      <4> QED
        BY <2>3, <4>2, <4>3
    <3> QED
      BY <3>5, <3>6
  <2> QED
    BY <2>5, <2>6
<1> QED
  BY <1>1, <1>2

\* What a pattern finds, and only that, satisfies it.
LEMMA MatchesAre ==
  ASSUME NEW heads, NEW quads, quads \subseteq Quad, Apart(heads, quads), NEW m, IsModel(m, heads),
         NEW pat \in Pattern, NEW sol \in Solution, \A v \in DOMAIN sol : sol[v] \notin heads, NEW a
  PROVE  a \in Matches(pat, sol, quads, <<>>, m, NoVars, TRUE) <=> Widens(a, sol, Slots(pat)) /\ MeetsWith(pat, a, quads, m)
<1> DEFINE src == Source(pat, quads, m)
<1>1. src \subseteq Quad
  BY SourceIs
<1>0. PICK values : values = TRUE
  OBVIOUS
<1>2. Matches(pat, sol, quads, <<>>, m, NoVars, values) = Matches(pat, sol, src, <<>>, NoVars, NoVars, values)
  BY MatchesDerived
<1>4. MeetsWith(pat, a, quads, m) <=> Meets(pat, a, src, src)
  BY DEF MeetsWith
<1> HIDE DEF src
<1>3. /\ Seen(pat, sol, src, NoVars) \cup Elements(<<>>) = src
      /\ Seen(pat, sol, src, NoVars) \cup Plain(<<>>, src) = src
      /\ <<>> \in Seq(Quad) /\ Showable(pat, a, values)
  BY <1>0, RulesSeeAll DEF Plain, Showable
<1>5. a \in Matches(pat, sol, src, <<>>, NoVars, NoVars, values) => Widens(a, sol, Slots(pat)) /\ Meets(pat, a, src, src)
  <2>1. a \in Matches(pat, sol, src, <<>>, NoVars, NoVars, values) =>
          Widens(a, sol, Slots(pat)) /\ Meets(pat, a, src, Seen(pat, sol, src, NoVars) \cup Elements(<<>>))
    BY <1>1, <1>3, MatchesSound
  <2> QED
    BY <1>3, <2>1
<1>6. Widens(a, sol, Slots(pat)) /\ Meets(pat, a, src, src) => a \in Matches(pat, sol, src, <<>>, NoVars, NoVars, values)
  BY <1>1, <1>3, MatchesComplete
<1>7. Matches(pat, sol, quads, <<>>, m, NoVars, TRUE) = Matches(pat, sol, quads, <<>>, m, NoVars, values)
  BY <1>0, Zenon
<1> QED
  BY <1>7, <1>2, <1>4, <1>5, <1>6 DEF src

\* No variable of a pattern that holds stands for a derived predicate.
LEMMA BoundIsNoHead ==
  ASSUME NEW heads, NEW quads, quads \subseteq Quad, Apart(heads, quads), NEW m, IsModel(m, heads),
         NEW pat \in Pattern, NEW a \in Solution, MeetsWith(pat, a, quads, m),
         NEW v \in DOMAIN a, v \in Slots(pat), v \in Var
  PROVE  a[v] \notin heads
<1> DEFINE src == Source(pat, quads, m)
<1>1. src \subseteq Quad
  BY SourceIs
<1>2. a[v] # Blank /\ Value(v, a) = a[v]
  <2>1. a[v] \in Term
    BY SolutionIs
  <2> QED
    BY <2>1, TermsAreDistinct DEF Term, Value
<1>3. heads \cap (Node \cup Literal \cup {Default}) = {} /\ Graph \subseteq Node
  BY TermsAreDistinct, GraphsAreNodes DEF Apart
<1>4. Meets(pat, a, src, src)
  BY DEF MeetsWith
<1>5. CASE pat.hops # Unlimited
  <2>1. \E x \in Node : \E y \in Node : Value(pat.s, a) \in {Blank, x} /\ Value(pat.o, a) \in {Blank, y}
    BY <1>4, <1>5 DEF Meets, Satisfies
  <2>2. v = pat.s \/ v = pat.o
    BY <1>5 DEF Slots
  <2> QED
    BY <1>2, <1>3, <2>1, <2>2
<1>6. CASE pat.hops = Unlimited
  <2>1. PICK q \in src :
          /\ Value(pat.s, a) \in {Blank, q.s} /\ Value(pat.p, a) \in {Blank, q.p}
          /\ Value(pat.o, a) \in {Blank, q.o}
          /\ pat.g # Union => Value(pat.g, a) = q.g
    BY <1>4, <1>6 DEF Meets, Satisfies
  <2>2. q.s \in Node /\ q.o \in Node \cup Literal /\ q.g \in Node \cup {Default}
    BY <1>1, <1>3 DEF Quad
  <2>3. pat.p \in Var => q.p \notin heads
    <3>1. pat.p \in Var => src = quads
      BY TermsAreDistinct DEF Source
    <3> QED
      BY <3>1 DEF Apart
  <2>4. v = pat.s \/ v = pat.p \/ v = pat.o \/ (v = pat.g /\ pat.g # Union)
    BY <1>6, TermsAreDistinct DEF Slots
  <2> QED
    BY <1>2, <1>3, <2>1, <2>2, <2>3, <2>4
<1> QED
  BY <1>5, <1>6

\* The solutions of the first n patterns.
RowsUpto(pats, n, quads, m) ==
  {a \in Solution : DOMAIN a = VarsUpto(pats, n) /\ \A k \in 1 .. n : MeetsWith(pats[k], a, quads, m)}

\* Whether a pattern holds depends on its own variables.
LEMMA MeetsWithAgrees ==
  ASSUME NEW pat, NEW a, NEW b, \A v \in Slots(pat) \cap Var : a[v] = b[v], NEW quads, NEW m
  PROVE  MeetsWith(pat, a, quads, m) <=> MeetsWith(pat, b, quads, m)
<1> DEFINE src == Source(pat, quads, m)
<1> HIDE DEF src
<1>1. Meets(pat, a, src, src) <=> Meets(pat, b, src, src)
  BY MeetsAgrees
<1> QED
  BY <1>1 DEF MeetsWith, src

\* Joining one more pattern to the solutions of those before.
LEMMA RowsJoin ==
  ASSUME NEW heads, NEW quads, quads \subseteq Quad, Apart(heads, quads), NEW m, IsModel(m, heads),
         NEW pats \in Seq(Pattern), NEW n \in 1 .. Len(pats), NEW a
  PROVE  a \in RowsUpto(pats, n, quads, m) <=>
           \E sol \in RowsUpto(pats, n - 1, quads, m) : a \in Matches(pats[n], sol, quads, <<>>, m, NoVars, TRUE)
<1> DEFINE pat == pats[n]
           vs == VarsUpto(pats, n - 1)
<1>1. Len(pats) \in Nat /\ \A k \in 1 .. Len(pats) : pats[k] \in Pattern
  BY LenProperties, ElementOfSeq
<1>2. n - 1 \in Nat /\ 1 .. n = (1 .. n - 1) \cup {n} /\ n \in 1 .. n /\ \A k \in 1 .. n - 1 : k \in 1 .. Len(pats)
  BY <1>1
<1>3. VarsUpto(pats, n) = vs \cup (Slots(pat) \cap Var)
  BY <1>2 DEF VarsUpto
<1>4. \A k \in 1 .. n - 1 : Slots(pats[k]) \cap Var \subseteq vs
  BY DEF VarsUpto
<1>5. \A v \in vs : \E k \in 1 .. n - 1 : v \in Slots(pats[k]) /\ v \in Var
  BY DEF VarsUpto
<1>6. ASSUME NEW sol \in RowsUpto(pats, n - 1, quads, m)
      PROVE  a \in Matches(pat, sol, quads, <<>>, m, NoVars, TRUE) <=> Widens(a, sol, Slots(pat)) /\ MeetsWith(pat, a, quads, m)
  <2>1. sol \in Solution /\ DOMAIN sol = vs /\ \A k \in 1 .. n - 1 : MeetsWith(pats[k], sol, quads, m)
    BY DEF RowsUpto
  <2>2. ASSUME NEW v \in DOMAIN sol
        PROVE  sol[v] \notin heads
    <3>1. PICK k \in 1 .. n - 1 : v \in Slots(pats[k]) /\ v \in Var
      BY <1>5, <2>1
    <3> QED
      BY <1>1, <1>2, <2>1, <3>1, BoundIsNoHead
  <2>3. pat \in Pattern
    BY <1>1
  <2> HIDE DEF pat
  <2> QED
    BY <2>1, <2>2, <2>3, MatchesAre
<1>7. ASSUME NEW sol \in RowsUpto(pats, n - 1, quads, m), Widens(a, sol, Slots(pat)), MeetsWith(pat, a, quads, m)
      PROVE  a \in RowsUpto(pats, n, quads, m)
  <2>1. sol \in Solution /\ DOMAIN sol = vs /\ \A k \in 1 .. n - 1 : MeetsWith(pats[k], sol, quads, m)
    BY DEF RowsUpto
  <2>2. a \in Solution /\ DOMAIN a = VarsUpto(pats, n) /\ \A v \in vs : a[v] = sol[v]
    BY <1>3, <1>7, <2>1 DEF Widens
  <2>3. ASSUME NEW k \in 1 .. n - 1
        PROVE  MeetsWith(pats[k], a, quads, m)
    <3>1. \A v \in Slots(pats[k]) \cap Var : a[v] = sol[v]
      BY <1>4, <2>2
    <3> QED
      BY <2>1, <3>1, MeetsWithAgrees
  <2> QED
    BY <1>2, <1>7, <2>2, <2>3 DEF RowsUpto
<1>8. ASSUME a \in RowsUpto(pats, n, quads, m)
      PROVE  \E sol \in RowsUpto(pats, n - 1, quads, m) : Widens(a, sol, Slots(pat)) /\ MeetsWith(pat, a, quads, m)
  <2> DEFINE sol == [v \in vs |-> a[v]]
  <2>1. a \in Solution /\ DOMAIN a = VarsUpto(pats, n) /\ \A k \in 1 .. n : MeetsWith(pats[k], a, quads, m)
    BY <1>8 DEF RowsUpto
  <2>2. sol \in Solution /\ DOMAIN sol = vs /\ \A v \in vs : sol[v] = a[v]
    <3>1. vs \subseteq DOMAIN a
      BY <1>3, <2>1
    <3> HIDE DEF vs
    <3> QED
      BY <2>1, <3>1, Narrowed, Zenon
  <2> HIDE DEF sol
  <2>3. ASSUME NEW k \in 1 .. n - 1
        PROVE  MeetsWith(pats[k], sol, quads, m)
    <3>1. \A v \in Slots(pats[k]) \cap Var : sol[v] = a[v]
      BY <1>4, <2>2
    <3> QED
      BY <1>2, <2>1, <3>1, MeetsWithAgrees
  <2>4. sol \in RowsUpto(pats, n - 1, quads, m)
    BY <2>2, <2>3 DEF RowsUpto
  <2>5. Widens(a, sol, Slots(pat))
    BY <1>3, <2>1, <2>2 DEF Widens
  <2> QED
    BY <1>2, <2>1, <2>4, <2>5
<1> QED
  BY <1>6, <1>7, <1>8

\* The body of a rule, joined from left to right, has the solutions of all of
\* its patterns.
LEMMA SolvedAre ==
  ASSUME NEW heads, NEW quads, quads \subseteq Quad, Apart(heads, quads), NEW m, IsModel(m, heads),
         NEW pats \in Seq(Pattern)
  PROVE  Solved(pats, quads, m) = RowsUpto(pats, Len(pats), quads, m)
<1> DEFINE n == Len(pats)
           more(k, sols) == UNION {Matches(pats[k], sol, quads, <<>>, m, NoVars, TRUE) : sol \in sols}
           found(k) == RowsUpto(pats, k, quads, m)
           join[k \in 0 .. n] == IF k = 0 THEN {NoVars} ELSE more(k, join[k - 1])
           closed == [k \in 0 .. n |-> found(k)]
<1>0. n \in Nat
  BY LenProperties
<1>1. Solved(pats, quads, m) = join[n]
  BY DEF Solved
<1>2. found(0) = {NoVars}
  <2>1. VarsUpto(pats, 0) = {}
    BY DEF VarsUpto
  <2>2. NoVars \in Solution /\ DOMAIN NoVars = {}
    <3>1. NoVars \in [{} -> Term]
      BY DEF NoVars
    <3> QED
      BY <3>1, SolutionIs
  <2>3. \A a \in Solution : DOMAIN a = {} => a = NoVars
    BY <2>2, SameSolution
  <2>4. \A a : a \in found(0) <=> a \in Solution /\ DOMAIN a = {}
    <3>1. 1 .. 0 = {}
      OBVIOUS
    <3> QED
      BY <2>1, <3>1 DEF RowsUpto
  <2>5. \A a : a \in found(0) <=> a = NoVars
    BY <2>2, <2>3, <2>4
  <2> HIDE DEF found
  <2> QED
    BY <2>5
<1>3. ASSUME NEW k \in 1 .. n
      PROVE  found(k) = more(k, found(k - 1))
  <2>1. \A a : a \in found(k) <=> \E sol \in found(k - 1) : a \in Matches(pats[k], sol, quads, <<>>, m, NoVars, TRUE)
    BY RowsJoin
  <2>2. \A a : a \in more(k, found(k - 1)) <=> \E sol \in found(k - 1) : a \in Matches(pats[k], sol, quads, <<>>, m, NoVars, TRUE)
    OBVIOUS
  <2> HIDE DEF found, more
  <2> QED
    BY <2>1, <2>2
<1> HIDE DEF found, more, n
<1>4. join = [k \in 0 .. n |-> IF k = 0 THEN {NoVars} ELSE more(k, join[k - 1])]
  <2>1. closed = [k \in 0 .. n |-> IF k = 0 THEN {NoVars} ELSE more(k, closed[k - 1])]
    <3>1. \A k \in 0 .. n : closed[k] = IF k = 0 THEN {NoVars} ELSE more(k, closed[k - 1])
      <4> TAKE k \in 0 .. n
      <4>1. CASE k = 0
        BY <1>2, <4>1
      <4>2. CASE k # 0
        <5>1. k \in 1 .. n /\ k - 1 \in 0 .. n
          BY <1>0, <4>2
        <5> QED
          BY <1>3, <4>2, <5>1
      <4> QED
        BY <4>1, <4>2
    <3> QED
      BY <3>1
  <2> HIDE DEF closed
  <2> QED
    BY <2>1
<1> HIDE DEF join
<1>5. \A k \in 0 .. n : join[k] = found(k)
  <2> DEFINE wrong == {k \in 0 .. n : join[k] # found(k)}
  <2> SUFFICES ASSUME wrong # {} PROVE FALSE
    OBVIOUS
  <2>1. PICK j \in wrong : \A u \in wrong : j <= u
    <3>1. wrong \in SUBSET Nat
      OBVIOUS
    <3> HIDE DEF wrong
    <3> QED
      BY <3>1, LeastOf
  <2>2. j # 0
    BY <1>2, <1>4
  <2>3. j - 1 \in 0 .. n /\ j \in 1 .. n /\ j - 1 \notin wrong
    BY <1>0, <2>1, <2>2
  <2>4. join[j] = more(j, found(j - 1))
    BY <1>4, <2>2, <2>3
  <2> QED
    BY <1>3, <2>3, <2>4
<1> QED
  BY <1>0, <1>1, <1>5 DEF found, n

\* What patterns mean over stored and derived facts.
LEMMA AnswersWith ==
  ASSUME NEW heads, NEW quads, quads \subseteq Quad, Apart(heads, quads), NEW m, IsModel(m, heads),
         NEW pats \in Seq(Pattern)
  PROVE  Answers(pats, quads, {}, Facts(m), NoVars) = RowsUpto(pats, Len(pats), quads, m)
<1> DEFINE facts == quads \cup Facts(m)
<1>0. facts \subseteq Quad /\ Len(pats) \in Nat /\ DOMAIN pats = 1 .. Len(pats)
  BY FactsAre, LenProperties DEF Apart
<1>1. VarsUpto(pats, Len(pats)) = VarsOf(pats)
  BY <1>0 DEF VarsUpto, VarsOf
<1>2. \A a : a \in Answers(pats, quads, {}, Facts(m), NoVars) <=>
        /\ a \in Assignments(pats, facts)
        /\ \A k \in DOMAIN pats : Satisfies(pats[k], a, quads, quads, facts, PathEdges(quads))
  <2>1. \A a, k : Seen(pats[k], Prior(pats, a, k), quads, NoVars) \cup {} = quads
    BY RulesSeeAll
  <2>2. quads \cup {} \cup Facts(m) = facts
    OBVIOUS
  <2> HIDE DEF facts
  <2> QED
    BY <2>1, <2>2 DEF Answers, PathEdges, facts
<1>3. ASSUME NEW pat, NEW a, pat.hops = Unlimited /\ pat.g \in Var => a[pat.g] # Default
      PROVE  Satisfies(pat, a, quads, quads, facts, PathEdges(quads)) <=> MeetsWith(pat, a, quads, m)
  <2> DEFINE src == Source(pat, quads, m)
  <2>1. MeetsWith(pat, a, quads, m) <=> Satisfies(pat, a, src, src, src, PathEdges(src))
    BY <1>3 DEF MeetsWith, Meets
  <2>2. CASE pat.hops # Unlimited
    <3>1. src = quads
      BY <2>2 DEF Source
    <3> QED
      BY <2>1, <2>2, <3>1 DEF Satisfies
  <2>3. CASE pat.hops = Unlimited
    <3>1. pat.g = Union /\ pat.p \in Pred => src = facts
      BY <2>3 DEF Source
    <3>2. pat.g # Union \/ pat.p \notin Pred => src = quads
      BY DEF Source
    <3> HIDE DEF src
    <3> QED
      BY <2>1, <2>3, <3>1, <3>2 DEF Satisfies
  <2> QED
    BY <2>2, <2>3
<1>4. ASSUME NEW a \in Assignments(pats, facts), NEW k \in DOMAIN pats
      PROVE  /\ a \in Solution /\ DOMAIN a = VarsOf(pats)
             /\ pats[k].hops = Unlimited /\ pats[k].g \in Var => a[pats[k].g] # Default
  <2>1. a \in Solution /\ DOMAIN a = VarsOf(pats) /\ \A v \in DOMAIN a : a[v] # Default
    BY <1>0, AssignmentsAreSolutions
  <2>2. Slots(pats[k]) \cap Var \subseteq VarsOf(pats)
    BY DEF VarsOf
  <2> QED
    BY <2>1, <2>2 DEF Slots
<1>5. ASSUME NEW a \in Solution, DOMAIN a = VarsOf(pats), \A k \in DOMAIN pats : MeetsWith(pats[k], a, quads, m)
      PROVE  a \in Assignments(pats, facts)
  <2> DEFINE vs == VarsOf(pats)
             terms == UNION {TermsFor(v, pats, facts) : v \in vs}
  <2>1. ASSUME NEW v \in vs
        PROVE  a[v] \in TermsFor(v, pats, facts)
    <3>1. PICK k \in DOMAIN pats : v \in Slots(pats[k]) /\ v \in Var
      BY DEF VarsOf
    <3> DEFINE src == Source(pats[k], quads, m)
    <3>2. src \subseteq Quad /\ src \subseteq facts
      BY SourceIs
    <3>3. Meets(pats[k], a, src, src)
      BY <1>5 DEF MeetsWith
    <3> HIDE DEF src
    <3>4. a[v] \in TermsFor(v, pats, src)
      BY <1>5, <3>1, <3>2, <3>3, BoundInRange
    <3>5. TermsFor(v, pats, src) \subseteq TermsFor(v, pats, facts)
      <4> HIDE DEF facts
      <4> QED
        BY <3>2 DEF TermsFor
    <3> QED
      BY <3>4, <3>5
  <2>2. a \in [vs -> terms]
    <3>1. a \in [DOMAIN a -> Term]
      BY SolutionIs
    <3>2. \A v \in vs : a[v] \in terms
      BY <2>1
    <3> HIDE DEF terms
    <3> QED
      BY <1>5, <3>1, <3>2
  <2> QED
    BY <2>1, <2>2 DEF Assignments
<1> HIDE DEF facts
<1>7. ASSUME NEW a \in Answers(pats, quads, {}, Facts(m), NoVars)
      PROVE  a \in RowsUpto(pats, Len(pats), quads, m)
  <2>1. a \in Assignments(pats, facts) /\ \A k \in DOMAIN pats : Satisfies(pats[k], a, quads, quads, facts, PathEdges(quads))
    BY <1>2
  <2>2. \A k \in DOMAIN pats : MeetsWith(pats[k], a, quads, m)
    BY <1>3, <1>4, <2>1
  <2>3. a \in Solution /\ DOMAIN a = VarsOf(pats)
    BY <1>0, <2>1, AssignmentsAreSolutions DEF facts
  <2> QED
    BY <1>0, <1>1, <2>2, <2>3 DEF RowsUpto
<1>8. ASSUME NEW a \in RowsUpto(pats, Len(pats), quads, m)
      PROVE  a \in Answers(pats, quads, {}, Facts(m), NoVars)
  <2>1. a \in Solution /\ DOMAIN a = VarsOf(pats) /\ \A k \in DOMAIN pats : MeetsWith(pats[k], a, quads, m)
    BY <1>0, <1>1 DEF RowsUpto
  <2>2. a \in Assignments(pats, facts)
    BY <1>5, <2>1
  <2>3. \A k \in DOMAIN pats : Satisfies(pats[k], a, quads, quads, facts, PathEdges(quads))
    BY <1>3, <1>4, <2>1, <2>2
  <2> QED
    BY <1>2, <2>2, <2>3
<1> QED
  BY <1>7, <1>8 DEF facts

-----------------------------------------------------------------------------
(* Rules and their least model *)

\* What a rule derives from the stored quads and these facts.
HeadsOf(r, quads, m) ==
  {<<a[r.s], a[r.o]>> : a \in {a \in RowsUpto(r.body, Len(r.body), quads, m) :
                                {r.s, r.o} \subseteq DOMAIN a /\ {a[r.s], a[r.o]} \subseteq Node}}

Derivable == DOMAIN task.seed \cup RuleHeads

\* Rules are being applied over a store without quads of derived predicates.
HasRules == task.kind = "rules" /\ IsTask(task) /\ store \subseteq Quad /\ HeadsAreDerived

Models == [Derivable -> SUBSET Pair]

\* A model has the seed and what the rules derive from it.
IsClosed(n) ==
  /\ \A p \in DOMAIN task.seed : task.seed[p] \subseteq n[p]
  /\ \A k \in DOMAIN task.rules : HeadsOf(task.rules[k], store, n) \subseteq n[task.rules[k].head]

\* More facts satisfy what fewer do.
LEMMA MeetsMore ==
  ASSUME NEW pat, NEW a, NEW quads, NEW m, NEW n, Facts(m) \subseteq Facts(n), MeetsWith(pat, a, quads, m)
  PROVE  MeetsWith(pat, a, quads, n)
<1> DEFINE few == Source(pat, quads, m)
           many == Source(pat, quads, n)
<1>1. few \subseteq many
  BY DEF Source
<1>2. pat.hops # Unlimited => few = many
  BY DEF Source
<1>3. Meets(pat, a, few, few)
  BY DEF MeetsWith
<1> HIDE DEF few, many
<1>4. Meets(pat, a, many, many)
  <2>1. CASE pat.hops # Unlimited
    BY <1>2, <1>3, <2>1
  <2>2. CASE pat.hops = Unlimited
    BY <1>1, <1>3, <2>2 DEF Meets, Satisfies
  <2> QED
    BY <2>1, <2>2
<1> QED
  BY <1>4 DEF MeetsWith, many

\* A rule derives from more facts what it derives from fewer.
LEMMA HeadsGrow ==
  ASSUME NEW r, NEW quads, NEW m, NEW n, Facts(m) \subseteq Facts(n)
  PROVE  HeadsOf(r, quads, m) \subseteq HeadsOf(r, quads, n)
<1>1. RowsUpto(r.body, Len(r.body), quads, m) \subseteq RowsUpto(r.body, Len(r.body), quads, n)
  BY MeetsMore DEF RowsUpto
<1> QED
  BY <1>1 DEF HeadsOf

\* Larger relations have more facts.
LEMMA FactsGrow ==
  ASSUME NEW heads, heads \subseteq Pred, NEW m, IsModel(m, heads), NEW n, IsModel(n, heads),
         \A p \in DOMAIN m : m[p] \subseteq RelationOf(n, p)
  PROVE  Facts(m) \subseteq Facts(n)
<1> SUFFICES ASSUME NEW q \in Facts(m) PROVE q \in Facts(n)
  OBVIOUS
<1>1. PICK p \in DOMAIN m : \E e \in m[p] : q = FactOf(p, e)
  BY FactsAre
<1>2. PICK e \in m[p] : q = FactOf(p, e)
  BY <1>1
<1>3. p \in DOMAIN n /\ e \in n[p]
  BY <1>2 DEF RelationOf
<1> QED
  BY <1>2, <1>3, FactsAre

\* What is known of a task with rules.
LEMMA RulesAre ==
  ASSUME HasRules
  PROVE  /\ Apart(Derivable, store) /\ task.rules \in Seq(Rule) /\ IsModel(task.seed, Derivable)
         /\ Len(task.rules) \in Nat /\ DOMAIN task.rules = 1 .. Len(task.rules)
         /\ \A k \in DOMAIN task.rules : /\ task.rules[k] \in Rule /\ task.rules[k].head \in Derivable
                                         /\ task.rules[k].body \in Seq(Pattern)
<1>1. task.rules \in Seq(Rule) /\ DOMAIN task.seed \subseteq Pred /\ task.seed \in [DOMAIN task.seed -> SUBSET Pair]
  BY DEF HasRules, IsTask, Pair
<1>2. Len(task.rules) \in Nat /\ DOMAIN task.rules = 1 .. Len(task.rules)
  BY <1>1, LenProperties
<1>3. \A k \in DOMAIN task.rules : task.rules[k] \in Rule
  BY <1>1, <1>2, ElementOfSeq
<1>4. \A k \in DOMAIN task.rules : task.rules[k].head \in Pred /\ task.rules[k].body \in Seq(Pattern)
  BY <1>3 DEF Rule
<1>5. RuleHeads \subseteq Pred /\ \A k \in DOMAIN task.rules : task.rules[k].head \in RuleHeads
  BY <1>4 DEF RuleHeads
<1> QED
  BY <1>1, <1>2, <1>3, <1>4, <1>5 DEF HasRules, HeadsAreDerived, Apart, Derivable, IsModel

\* Heads and Consequence derive the same from each rule.
LEMMA HeadsAre ==
  ASSUME HasRules, NEW k \in DOMAIN task.rules, IsModel(derived, Derivable)
  PROVE  Heads(task.rules[k]) = HeadsOf(task.rules[k], store, derived)
<1> DEFINE r == task.rules[k]
<1>1. Solved(r.body, store, derived) = RowsUpto(r.body, Len(r.body), store, derived)
  BY RulesAre, SolvedAre DEF HasRules
<1> QED
  BY <1>1 DEF Heads, HeadsOf

\* Rules derive pairs of nodes.
LEMMA HeadsArePairs ==
  ASSUME NEW r, NEW quads, NEW m
  PROVE  HeadsOf(r, quads, m) \subseteq Pair
  BY DEF HeadsOf, Pair

\* One round of the declarative meaning gives a model: what was there, the
\* seed, and what each rule derives.
LEMMA ConsequenceIs ==
  ASSUME HasRules, NEW m, IsModel(m, Derivable)
  PROVE  /\ Consequence(m) \in Models
         /\ \A p \in Derivable : \A e : e \in Consequence(m)[p] <=>
              \/ e \in RelationOf(m, p)
              \/ \E k \in DOMAIN task.rules : task.rules[k].head = p /\ e \in HeadsOf(task.rules[k], store, m)
<1> DEFINE derives(k) == {<<a[task.rules[k].s], a[task.rules[k].o]>> :
                            a \in {a \in Answers(task.rules[k].body, store, {}, Facts(m), NoVars) :
                                     /\ {task.rules[k].s, task.rules[k].o} \subseteq DOMAIN a
                                     /\ {a[task.rules[k].s], a[task.rules[k].o]} \subseteq Node}}
           of(p) == RelationOf(m, p) \cup UNION {derives(k) : k \in {k \in DOMAIN task.rules : task.rules[k].head = p}}
<1>1. \A k \in DOMAIN task.rules : derives(k) = HeadsOf(task.rules[k], store, m)
  <2> TAKE k \in DOMAIN task.rules
  <2>1. Answers(task.rules[k].body, store, {}, Facts(m), NoVars)
          = RowsUpto(task.rules[k].body, Len(task.rules[k].body), store, m)
    BY RulesAre, AnswersWith DEF HasRules
  <2> QED
    BY <2>1 DEF HeadsOf
<1>2. Consequence(m) = [p \in Derivable |-> of(p)]
  BY DEF Consequence, Derivable, RelationOf
<1> HIDE DEF derives
<1>3. ASSUME NEW p \in Derivable
      PROVE  of(p) \in SUBSET Pair
  <2>1. RelationOf(m, p) \subseteq Pair
    BY DEF RelationOf, IsModel
  <2> QED
    BY <1>1, <2>1, HeadsArePairs
<1>4. ASSUME NEW p \in Derivable, NEW e
      PROVE  e \in of(p) <=>
              \/ e \in RelationOf(m, p)
              \/ \E k \in DOMAIN task.rules : task.rules[k].head = p /\ e \in HeadsOf(task.rules[k], store, m)
  BY <1>1
<1> HIDE DEF of
<1> QED
  BY <1>2, <1>3, <1>4 DEF Models

\* The number of rounds that LeastModel takes.
Rounds == Cardinality(Node) * Cardinality(Node) * Cardinality(RuleHeads)

\* The models of the rounds.
Grown(f) ==
  /\ f \in [0 .. Rounds -> Models] /\ f[0] = Consequence(task.seed) /\ LeastModel = f[Rounds]
  /\ \A k \in 1 .. Rounds : f[k] = Consequence(f[k - 1])

\* A model has a relation for each derived predicate.
LEMMA ModelIs ==
  ASSUME NEW n \in Models
  PROVE  IsModel(n, Derivable) /\ DOMAIN n = Derivable /\ \A p \in Derivable : RelationOf(n, p) = n[p]
  BY DEF Models, IsModel, RelationOf

\* There are as many rounds as pairs that rules can derive.
LEMMA RoundsAre ==
  ASSUME HasRules
  PROVE  /\ Rounds \in Nat /\ IsFiniteSet(RuleHeads \X Pair) /\ Cardinality(RuleHeads \X Pair) = Rounds
<1>3. IsFiniteSet(RuleHeads)
  <2>1. RuleHeads \subseteq Pred
    BY RulesAre DEF Apart, Derivable
  <2> QED
    BY <2>1, TermsAreFinite, FS_Subset
<1>4. IsFiniteSet(Pair) /\ Cardinality(Pair) = Cardinality(Node) * Cardinality(Node)
  BY TermsAreFinite, FS_Product DEF Pair
<1>5. IsFiniteSet(RuleHeads \X Pair) /\ Cardinality(RuleHeads \X Pair) = Cardinality(RuleHeads) * Cardinality(Pair)
  BY <1>3, <1>4, FS_Product
<1>6. Cardinality(Node) \in Nat /\ Cardinality(RuleHeads) \in Nat
  BY <1>3, TermsAreFinite, FS_CardinalityType
<1> QED
  BY <1>4, <1>5, <1>6 DEF Rounds

\* The rounds behind LeastModel are a sequence of models, each the consequence
\* of the one before.
LEMMA RoundsGrow ==
  ASSUME HasRules
  PROVE  \E f : Grown(f)
<1> DEFINE n == Rounds
           start == Consequence(task.seed)
           grown[k \in 0 .. n] == IF k = 0 THEN start ELSE Consequence(grown[k - 1])
           step == [x \in (1 .. n) \X Models |-> Consequence(x[2])]
<1>0. n \in Nat
  BY RoundsAre
<1>1. LeastModel = grown[n]
  BY DEF LeastModel, Rounds
<1>2. start \in Models
  BY RulesAre, ConsequenceIs
<1>3. \A m \in Models : Consequence(m) \in Models
  BY ModelIs, ConsequenceIs
<1>4. step \in Steps(Models, n) /\ \A k \in 1 .. n : \A m \in Models : step[<<k, m>>] = Consequence(m)
  BY <1>3 DEF Steps
<1> HIDE DEF n, start, step
<1>5. PICK f : Runs(f, Models, start, n, step)
  BY <1>0, <1>2, <1>4, RunsExist
<1>6. \A k \in 0 .. n : f[k] = IF k = 0 THEN start ELSE Consequence(f[k - 1])
  <2> TAKE k \in 0 .. n
  <2>1. k # 0 => k \in 1 .. n /\ k - 1 \in 0 .. n
    BY <1>0
  <2> QED
    BY <1>4, <1>5, <2>1 DEF Runs
<1>7. f = [k \in 0 .. n |-> IF k = 0 THEN start ELSE Consequence(f[k - 1])]
  BY <1>5, <1>6 DEF Runs
<1>8. grown = [k \in 0 .. n |-> IF k = 0 THEN start ELSE Consequence(grown[k - 1])]
  BY <1>7
<1> HIDE DEF grown
<1> DEFINE wrong == {k \in 0 .. n : grown[k] # f[k]}
<1>9. wrong = {}
  <2> SUFFICES ASSUME wrong # {} PROVE FALSE
    OBVIOUS
  <2>1. PICK j \in wrong : \A u \in wrong : j <= u
    <3>1. wrong \in SUBSET Nat
      OBVIOUS
    <3> HIDE DEF wrong
    <3> QED
      BY <3>1, LeastOf
  <2>2. j # 0
    BY <1>6, <1>8
  <2>3. j - 1 \in 0 .. n /\ j \in 1 .. n /\ grown[j - 1] = f[j - 1]
    BY <1>0, <2>1, <2>2
  <2> QED
    BY <1>6, <1>8, <2>2, <2>3
<1>10. grown[n] = f[n] /\ f \in [0 .. n -> Models] /\ f[0] = start
  BY <1>0, <1>5, <1>9 DEF Runs
<1>11. \A k \in 1 .. n : f[k] = Consequence(f[k - 1])
  BY <1>0, <1>6
<1>12. Grown(f)
  BY <1>1, <1>10, <1>11 DEF Grown, n, start
<1> QED
  BY <1>12

\* A round without a new pair is the last that changes anything.
LEMMA RoundsStay ==
  ASSUME HasRules, NEW f, Grown(f), NEW k \in 0 .. Rounds, Consequence(f[k]) = f[k]
  PROVE  Consequence(f[Rounds]) = f[Rounds]
<1> DEFINE wrong == {j \in 0 .. Rounds : k <= j /\ f[j] # f[k]}
<1>0. Rounds \in Nat
  BY RoundsAre
<1>1. wrong = {}
  <2> SUFFICES ASSUME wrong # {} PROVE FALSE
    OBVIOUS
  <2>1. PICK j \in wrong : \A u \in wrong : j <= u
    <3>1. wrong \in SUBSET Nat
      OBVIOUS
    <3> HIDE DEF wrong
    <3> QED
      BY <3>1, LeastOf
  <2>2. j - 1 \in 0 .. Rounds /\ j \in 1 .. Rounds /\ k <= j - 1
    BY <1>0, <2>1
  <2>3. f[j - 1] = f[k]
    BY <2>1, <2>2
  <2> QED
    BY <2>1, <2>2, <2>3 DEF Grown
<1>2. f[Rounds] = f[k]
  BY <1>0, <1>1
<1> QED
  BY <1>2

\* After all rounds the rules derive nothing new: each round before that added
\* one of the pairs, or one of them added none.
LEMMA LeastModelIsStable ==
  ASSUME HasRules
  PROVE  LeastModel \in Models /\ Consequence(LeastModel) = LeastModel
<1>1. PICK f : Grown(f)
  BY RoundsGrow
<1> DEFINE All == RuleHeads \X Pair
           pairs(k) == {x \in All : x[2] \in f[k][x[1]]}
<1>0. Rounds \in Nat /\ IsFiniteSet(All) /\ Cardinality(All) = Rounds
  BY RoundsAre
<1>2. \A k \in 0 .. Rounds : f[k] \in Models
  BY <1>1 DEF Grown
<1>3. \A k \in 0 .. Rounds : IsFiniteSet(pairs(k)) /\ Cardinality(pairs(k)) \in Nat
  <2> TAKE k \in 0 .. Rounds
  <2>1. pairs(k) \subseteq All
    OBVIOUS
  <2> HIDE DEF pairs, All
  <2> QED
    BY <1>0, <2>1, FS_Subset, FS_CardinalityType
<1>4. ASSUME NEW k \in 0 .. Rounds, NEW p \in Derivable
      PROVE  /\ f[k][p] \subseteq Consequence(f[k])[p]
             /\ p \notin RuleHeads => Consequence(f[k])[p] = f[k][p]
  <2>1. /\ f[k] \in Models /\ IsModel(f[k], Derivable) /\ RelationOf(f[k], p) = f[k][p]
    BY <1>2, ModelIs
  <2>2. \A e : e \in Consequence(f[k])[p] <=>
          \/ e \in f[k][p]
          \/ \E j \in DOMAIN task.rules : task.rules[j].head = p /\ e \in HeadsOf(task.rules[j], store, f[k])
    BY <2>1, ConsequenceIs
  <2>3. p \notin RuleHeads => \A j \in DOMAIN task.rules : task.rules[j].head # p
    BY DEF RuleHeads
  <2> HIDE DEF HasRules
  <2>4. p \notin RuleHeads => \A e : e \in Consequence(f[k])[p] <=> e \in f[k][p]
    BY <2>2, <2>3
  <2> QED
    BY <2>2, <2>4
<1>5. \A k \in 0 .. Rounds : Consequence(f[k]) \in Models
  BY <1>2, ModelIs, ConsequenceIs
<1>6. ASSUME NEW k \in 0 .. Rounds, Consequence(f[k]) # f[k]
      PROVE  \E x \in All : x[2] \in Consequence(f[k])[x[1]] /\ x \notin pairs(k)
  <2>1. \E p \in Derivable : Consequence(f[k])[p] # f[k][p]
    BY <1>2, <1>5, <1>6 DEF Models
  <2>2. PICK p \in Derivable : Consequence(f[k])[p] # f[k][p]
    BY <2>1
  <2>3. p \in RuleHeads /\ \E e \in Consequence(f[k])[p] : e \notin f[k][p]
    BY <1>4, <2>2
  <2>4. PICK e \in Consequence(f[k])[p] : e \notin f[k][p]
    BY <2>3
  <2>5. e \in Pair
    BY <1>5, <2>4 DEF Models
  <2> DEFINE x == <<p, e>>
  <2>6. x \in All /\ x[1] = p /\ x[2] = e
    BY <2>3, <2>5
  <2> QED
    BY <2>4, <2>6
<1>7. CASE \E k \in 0 .. Rounds : Consequence(f[k]) = f[k]
  <2>1. Consequence(f[Rounds]) = f[Rounds]
    BY <1>1, <1>7, RoundsStay
  <2> QED
    BY <1>0, <1>1, <1>2, <2>1 DEF Grown
<1>8. CASE \A k \in 0 .. Rounds : Consequence(f[k]) # f[k]
  <2>1. ASSUME NEW k \in 1 .. Rounds
        PROVE  Cardinality(pairs(k)) > Cardinality(pairs(k - 1))
    <3>1. k - 1 \in 0 .. Rounds /\ k \in 0 .. Rounds /\ f[k] = Consequence(f[k - 1])
      BY <1>0, <1>1 DEF Grown
    <3>2. PICK x \in All : x[2] \in f[k][x[1]] /\ x \notin pairs(k - 1)
      BY <1>6, <1>8, <3>1
    <3>3. x \in pairs(k)
      BY <3>2
    <3>4. pairs(k - 1) \subseteq pairs(k)
      <4>1. RuleHeads \subseteq Derivable
        BY DEF Derivable
      <4> QED
        BY <1>4, <3>1, <4>1
    <3> HIDE DEF pairs
    <3>5. pairs(k - 1) # pairs(k)
      BY <3>2, <3>3
    <3>6. Cardinality(pairs(k - 1)) < Cardinality(pairs(k))
      BY <1>3, <3>1, <3>4, <3>5, FS_Subset
    <3> QED
      BY <1>3, <3>1, <3>6
  <2> DEFINE wrong == {k \in 0 .. Rounds : Cardinality(pairs(k)) < k}
  <2>2. wrong = {}
    <3> SUFFICES ASSUME wrong # {} PROVE FALSE
      OBVIOUS
    <3>1. PICK j \in wrong : \A u \in wrong : j <= u
      <4>1. wrong \in SUBSET Nat
        OBVIOUS
      <4> HIDE DEF wrong
      <4> QED
        BY <4>1, LeastOf
    <3> HIDE DEF pairs
    <3>2. j # 0
      BY <1>0, <1>3, <3>1
    <3>3. j - 1 \in 0 .. Rounds /\ j \in 1 .. Rounds /\ Cardinality(pairs(j - 1)) >= j - 1
      BY <1>0, <1>3, <3>1, <3>2
    <3> QED
      BY <1>3, <2>1, <3>1, <3>3
  <2>3. Rounds \in 0 .. Rounds /\ pairs(Rounds) \subseteq All
    BY <1>0
  <2>4. PICK x \in All : x \notin pairs(Rounds)
    BY <1>6, <1>8, <2>3
  <2> HIDE DEF pairs, All
  <2>5. pairs(Rounds) # All
    BY <2>4
  <2>6. Cardinality(pairs(Rounds)) < Rounds
    BY <1>0, <1>3, <2>3, <2>5, FS_Subset
  <2> QED
    BY <2>2, <2>3, <2>6
<1> QED
  BY <1>7, <1>8

\* The least model is a model of the seed and the rules,
LEMMA LeastModelIsClosed ==
  ASSUME HasRules
  PROVE  LeastModel \in Models /\ IsClosed(LeastModel)
<1>1. PICK f : Grown(f)
  BY RoundsGrow
<1>2. Rounds \in Nat
  BY RoundsAre
<1>3. LeastModel \in Models /\ Consequence(LeastModel) = LeastModel
  BY LeastModelIsStable
<1>4. IsModel(task.seed, Derivable) /\ DOMAIN task.seed \subseteq Derivable
  BY RulesAre DEF IsModel
<1>5. ASSUME NEW k \in 0 .. Rounds, NEW p \in DOMAIN task.seed
      PROVE  task.seed[p] \subseteq f[k][p]
  <2> DEFINE wrong == {j \in 0 .. Rounds : ~(task.seed[p] \subseteq f[j][p])}
  <2> SUFFICES ASSUME wrong # {} PROVE FALSE
    OBVIOUS
  <2>1. PICK j \in wrong : \A u \in wrong : j <= u
    <3>1. wrong \in SUBSET Nat
      OBVIOUS
    <3> HIDE DEF wrong
    <3> QED
      BY <3>1, LeastOf
  <2>2. j # 0
    <3>1. task.seed[p] \subseteq Consequence(task.seed)[p]
      BY <1>4, ConsequenceIs DEF RelationOf
    <3> QED
      BY <1>1, <2>1, <3>1 DEF Grown
  <2>3. j - 1 \in 0 .. Rounds /\ j \in 1 .. Rounds /\ task.seed[p] \subseteq f[j - 1][p]
    BY <1>2, <2>1, <2>2
  <2>4. f[j] = Consequence(f[j - 1]) /\ f[j - 1] \in Models
    BY <1>1, <2>3 DEF Grown
  <2>5. f[j - 1][p] \subseteq f[j][p]
    <3>1. IsModel(f[j - 1], Derivable) /\ RelationOf(f[j - 1], p) = f[j - 1][p] /\ p \in Derivable
      BY <1>4, <2>4, ModelIs
    <3>2. \A e : e \in RelationOf(f[j - 1], p) => e \in Consequence(f[j - 1])[p]
      BY <3>1, ConsequenceIs
    <3> QED
      BY <2>4, <3>1, <3>2
  <2> QED
    BY <2>1, <2>3, <2>5
<1>6. \A p \in DOMAIN task.seed : task.seed[p] \subseteq LeastModel[p]
  <2>1. Rounds \in 0 .. Rounds /\ LeastModel = f[Rounds]
    BY <1>1, <1>2 DEF Grown
  <2> HIDE DEF HasRules
  <2> QED
    BY <1>5, <2>1
<1>7. ASSUME NEW k \in DOMAIN task.rules
      PROVE  HeadsOf(task.rules[k], store, LeastModel) \subseteq LeastModel[task.rules[k].head]
  <2>1. task.rules[k].head \in Derivable
    BY RulesAre
  <2>2. IsModel(LeastModel, Derivable)
    BY <1>3, ModelIs
  <2>3. \A e : e \in HeadsOf(task.rules[k], store, LeastModel) => e \in Consequence(LeastModel)[task.rules[k].head]
    BY <2>1, <2>2, ConsequenceIs
  <2> QED
    BY <1>3, <2>3
<1> QED
  BY <1>3, <1>6, <1>7 DEF IsClosed

\* and is in every other one.
LEMMA LeastModelIsLeast ==
  ASSUME HasRules, NEW n \in Models, IsClosed(n), NEW p \in Derivable
  PROVE  LeastModel[p] \subseteq n[p]
<1>1. PICK f : Grown(f)
  BY RoundsGrow
<1>2. Rounds \in Nat /\ Derivable \subseteq Pred
  BY RoundsAre, RulesAre DEF Apart
<1>3. IsModel(n, Derivable) /\ \A r \in Derivable : RelationOf(n, r) = n[r]
  BY ModelIs
<1>4. ASSUME NEW m, IsModel(m, Derivable), \A r \in DOMAIN m : m[r] \subseteq n[r], NEW r \in Derivable
      PROVE  Consequence(m)[r] \subseteq n[r]
  <2>1. Facts(m) \subseteq Facts(n)
    <3>1. DOMAIN m \subseteq Derivable
      BY <1>4 DEF IsModel
    <3> QED
      BY <1>2, <1>3, <1>4, <3>1, FactsGrow
  <2>2. \A k \in DOMAIN task.rules : HeadsOf(task.rules[k], store, m) \subseteq HeadsOf(task.rules[k], store, n)
    BY <2>1, HeadsGrow
  <2>3. \A k \in DOMAIN task.rules : HeadsOf(task.rules[k], store, n) \subseteq n[task.rules[k].head]
    BY DEF IsClosed
  <2>4. RelationOf(m, r) \subseteq n[r]
    BY <1>4 DEF RelationOf
  <2>5. \A e : e \in Consequence(m)[r] <=>
          \/ e \in RelationOf(m, r)
          \/ \E k \in DOMAIN task.rules : task.rules[k].head = r /\ e \in HeadsOf(task.rules[k], store, m)
    BY <1>4, ConsequenceIs
  <2> HIDE DEF HasRules
  <2> QED
    BY <2>2, <2>3, <2>4, <2>5
<1> DEFINE wrong == {j \in 0 .. Rounds : \E r \in Derivable : ~(f[j][r] \subseteq n[r])}
<1>5. wrong = {}
  <2> SUFFICES ASSUME wrong # {} PROVE FALSE
    OBVIOUS
  <2>1. PICK j \in wrong : \A u \in wrong : j <= u
    <3>1. wrong \in SUBSET Nat
      OBVIOUS
    <3> HIDE DEF wrong
    <3> QED
      BY <3>1, LeastOf
  <2>2. j # 0
    <3>1. \A r \in DOMAIN task.seed : task.seed[r] \subseteq n[r]
      BY DEF IsClosed
    <3>2. \A r \in Derivable : Consequence(task.seed)[r] \subseteq n[r]
      BY <1>4, <3>1, RulesAre
    <3> QED
      BY <1>1, <2>1, <3>2 DEF Grown
  <2>3. j - 1 \in 0 .. Rounds /\ j \in 1 .. Rounds /\ \A r \in Derivable : f[j - 1][r] \subseteq n[r]
    BY <1>2, <2>1, <2>2
  <2>4. f[j] = Consequence(f[j - 1]) /\ f[j - 1] \in Models
    BY <1>1, <2>3 DEF Grown
  <2>5. IsModel(f[j - 1], Derivable) /\ DOMAIN f[j - 1] = Derivable
    BY <2>4, ModelIs
  <2>6. \A r \in Derivable : Consequence(f[j - 1])[r] \subseteq n[r]
    BY <1>4, <2>3, <2>5
  <2> QED
    BY <2>1, <2>4, <2>6
<1> QED
  BY <1>1, <1>2, <1>5 DEF Grown

-----------------------------------------------------------------------------
(* Applying rules *)

\* Rule k derives nothing that is not there.
Applied(k) ==
  /\ task.rules[k].head \in DOMAIN derived
  /\ HeadsOf(task.rules[k], store, derived) \subseteq derived[task.rules[k].head]

\* What has been derived has the seed and is in every model; the rules of a
\* round that has added nothing are applied.
Deriving ==
  /\ next \in 1 .. Len(task.rules) + 1
  /\ IsModel(derived, Derivable)
  /\ \A p \in DOMAIN task.seed : p \in DOMAIN derived /\ task.seed[p] \subseteq derived[p]
  /\ \A n \in Models : IsClosed(n) => \A p \in DOMAIN derived : derived[p] \subseteq n[p]
  /\ state = "running" /\ ~added => \A k \in 1 .. next - 1 : Applied(k)
  /\ state = "done" => \A k \in DOMAIN task.rules : Applied(k)

RulesInv ==
  state # "idle" /\ task.kind = "rules" =>
    /\ IsTask(task) /\ store \subseteq Quad
    /\ HeadsAreDerived => Deriving

\* Rules begin with the seed.
LEMMA StartsDeriving ==
  ASSUME NEW t, IsTask(t), NEW quads, quads \subseteq Quad, Holding(t, quads, "running")
  PROVE  RulesInv'
<1> SUFFICES ASSUME t.kind = "rules", HeadsAreDerived'
             PROVE  IsTask(t) /\ quads \subseteq Quad /\ Deriving'
  BY DEF Holding, RulesInv
<1>1. task' = t /\ store' = quads /\ next' = 1 /\ derived' = t.seed /\ state' = "running"
  BY DEF Holding
<1>2. t.rules \in Seq(Rule) /\ DOMAIN t.seed \subseteq Pred /\ t.seed \in [DOMAIN t.seed -> SUBSET Pair]
  BY DEF IsTask, Pair
<1>3. 1 \in 1 .. Len(t.rules) + 1
  BY <1>2, LenProperties
<1>4. IsModel(derived, Derivable)'
  BY <1>1, <1>2 DEF IsModel, Derivable
<1>5. (\A n \in Models : IsClosed(n) => \A p \in DOMAIN derived : derived[p] \subseteq n[p])'
  BY <1>1 DEF IsClosed
<1>6. \A k \in 1 .. 1 - 1 : FALSE
  OBVIOUS
<1> QED
  BY <1>1, <1>3, <1>4, <1>5, <1>6 DEF Deriving

\* A rule adds what every model has.
LEMMA ApplyStep ==
  ASSUME HasRules, Deriving, Apply
  PROVE  Deriving'
<1> DEFINE r == task.rules[next]
           heads == HeadsOf(r, store, derived)
<1>1. /\ next \in DOMAIN task.rules /\ next \in Nat /\ Len(task.rules) \in Nat
      /\ r.head \in Derivable /\ Derivable \subseteq Pred
      /\ IsModel(derived, Derivable)
  BY RulesAre DEF Deriving, Apply, Apart
<1>2. Heads(r) = heads
  BY <1>1, HeadsAre
<1>3. /\ derived' = With(derived, r.head, Known(r.head) \cup heads)
      /\ added' = (added \/ ~(heads \subseteq Known(r.head)))
      /\ next' = next + 1 /\ task' = task /\ store' = store /\ state' = "running" /\ state = "running"
  BY <1>2 DEF Apply
<1>4. Known(r.head) = RelationOf(derived, r.head)
  BY DEF Known, RelationOf
<1>5. heads \subseteq Pair /\ RelationOf(derived, r.head) \subseteq Pair
  BY <1>1, HeadsArePairs DEF IsModel, RelationOf
<1> HIDE DEF heads
<1> DEFINE d == derived'
<1>6. /\ DOMAIN d = DOMAIN derived \cup {r.head} /\ d[r.head] = RelationOf(derived, r.head) \cup heads
      /\ \A p \in DOMAIN derived : derived[p] \subseteq d[p] /\ (p # r.head => d[p] = derived[p])
  BY <1>3, <1>4 DEF With, RelationOf
<1>7. IsModel(d, Derivable)
  <2>1. DOMAIN d \subseteq Derivable
    BY <1>1, <1>6 DEF IsModel
  <2>2. \A p \in DOMAIN d : d[p] \in SUBSET Pair
    BY <1>1, <1>5, <1>6 DEF IsModel
  <2>3. d = [p \in DOMAIN d |-> d[p]]
    BY <1>3 DEF With
  <2> HIDE DEF d
  <2> QED
    BY <2>1, <2>2, <2>3 DEF IsModel
<1>8. ASSUME NEW n \in Models, IsClosed(n), NEW p \in DOMAIN d
      PROVE  d[p] \subseteq n[p]
  <2>1. \A k \in DOMAIN derived : derived[k] \subseteq n[k]
    BY <1>8 DEF Deriving
  <2>2. IsModel(n, Derivable) /\ \A k \in Derivable : RelationOf(n, k) = n[k]
    BY ModelIs
  <2>3. Facts(derived) \subseteq Facts(n)
    <3>1. DOMAIN derived \subseteq Derivable
      BY <1>1 DEF IsModel
    <3> QED
      BY <1>1, <2>1, <2>2, <3>1, FactsGrow
  <2>4. heads \subseteq n[r.head]
    BY <1>1, <1>8, <2>3, HeadsGrow DEF IsClosed, heads
  <2> HIDE DEF d
  <2> QED
    BY <1>6, <2>1, <2>4 DEF RelationOf
<1>9. ASSUME ~added', NEW k \in 1 .. next
      PROVE  task.rules[k].head \in DOMAIN d /\ HeadsOf(task.rules[k], store, d) \subseteq d[task.rules[k].head]
  <2>1. ~added /\ heads \subseteq RelationOf(derived, r.head)
    BY <1>3, <1>4, <1>9
  <2>2. Facts(d) \subseteq Facts(derived)
    <3>1. \A p \in DOMAIN d : d[p] \subseteq RelationOf(derived, p)
      BY <1>6, <2>1 DEF RelationOf
    <3> HIDE DEF d
    <3> QED
      BY <1>1, <1>7, <3>1, FactsGrow
  <2> HIDE DEF d
  <2>3. HeadsOf(task.rules[k], store, d) \subseteq HeadsOf(task.rules[k], store, derived)
    BY <2>2, HeadsGrow
  <2>4. CASE k = next
    BY <1>6, <2>3, <2>4 DEF heads
  <2>5. CASE k # next
    <3>1. k \in 1 .. next - 1
      BY <1>1, <2>5
    <3>2. Applied(k)
      BY <1>3, <2>1, <3>1 DEF Deriving
    <3> QED
      BY <1>6, <2>3, <3>2 DEF Applied
  <2> QED
    BY <2>4, <2>5
<1>10. next' \in 1 .. Len(task.rules) + 1 /\ next' - 1 = next
  BY <1>1, <1>3, RulesAre
<1>11. Derivable' = Derivable /\ Models' = Models /\ \A n : IsClosed(n)' <=> IsClosed(n)
  BY <1>3 DEF Derivable, RuleHeads, Models, IsClosed
<1>12. \A p \in DOMAIN task.seed : p \in DOMAIN d /\ task.seed[p] \subseteq d[p]
  BY <1>6 DEF Deriving
<1> HIDE DEF r
<1> QED
  BY <1>3, <1>7, <1>8, <1>9, <1>10, <1>11, <1>12 DEF Deriving, Applied

\* Steps that derive nothing keep what is known of what has been derived.
LEMMA DerivedStays ==
  ASSUME Deriving, UNCHANGED <<task, store, derived>>, next' \in 1 .. Len(task.rules) + 1,
         state' = "running" /\ ~added' => next' = 1 \/ (state = "running" /\ ~added /\ next' = next),
         state' = "done" => \A k \in DOMAIN task.rules : Applied(k)
  PROVE  Deriving'
<1>1. Derivable' = Derivable /\ Models' = Models /\ \A n : IsClosed(n)' <=> IsClosed(n)
  BY DEF Derivable, RuleHeads, Models, IsClosed
<1>2. \A k : Applied(k)' <=> Applied(k)
  BY DEF Applied
<1>3. state' = "running" /\ ~added' => \A k \in 1 .. next' - 1 : Applied(k)
  <2>1. CASE next' = 1
    <3>1. 1 .. next' - 1 = {}
      BY <2>1
    <3> QED
      BY <3>1
  <2>2. CASE next' # 1
    BY <2>2 DEF Deriving
  <2> QED
    BY <2>1, <2>2
<1> QED
  BY <1>1, <1>2, <1>3 DEF Deriving

\* Every step of the evaluator keeps what rules have derived between the seed
\* and the models.
LEMMA RulesSteps ==
  ASSUME RulesInv, DatalogNext
  PROVE  RulesInv'
<1> SUFFICES ASSUME state' # "idle", task'.kind = "rules"
             PROVE  RulesInv'
  BY DEF RulesInv
<1>1. task' = task /\ store' = store /\ state = "running"
  BY DEF DatalogNext, Step, Join, Answer, Apply, EndRound, Timeout
<1>2. task.kind = "rules" /\ IsTask(task) /\ store \subseteq Quad /\ (HeadsAreDerived => Deriving)
  BY <1>1 DEF RulesInv
<1>3. HeadsAreDerived' <=> HeadsAreDerived
  BY <1>1 DEF HeadsAreDerived, RuleHeads
<1> SUFFICES ASSUME HeadsAreDerived
             PROVE  Deriving'
  BY <1>1, <1>2, <1>3 DEF RulesInv
<1>4. HasRules /\ Deriving
  BY <1>2 DEF HasRules
<1>5. Len(task.rules) \in Nat /\ DOMAIN task.rules = 1 .. Len(task.rules)
  BY <1>4, RulesAre
<1>6. CASE Apply
  BY <1>4, <1>6, ApplyStep
<1>7. CASE EndRound
  <2>1. /\ next > Len(task.rules) /\ next' = 1 /\ UNCHANGED <<task, store, derived>>
        /\ state' = IF added THEN "running" ELSE "done"
    BY <1>7 DEF EndRound
  <2>2. next - 1 = Len(task.rules)
    BY <1>4, <1>5, <2>1 DEF Deriving
  <2>3. state' = "done" => \A k \in DOMAIN task.rules : Applied(k)
    BY <1>1, <1>4, <1>5, <2>1, <2>2 DEF Deriving
  <2> QED
    BY <1>4, <1>5, <2>1, <2>3, DerivedStays
<1>8. CASE Timeout
  BY <1>4, <1>8, DerivedStays DEF Timeout, Deriving
<1> QED
  BY <1>2, <1>6, <1>7, <1>8 DEF DatalogNext, Step, Join, Answer

\* Steps of others leave what has been derived alone.
LEMMA RulesAlone ==
  ASSUME RulesInv, UNCHANGED datalogVars
  PROVE  RulesInv'
<1> SUFFICES ASSUME state # "idle", task.kind = "rules"
             PROVE  RulesInv'
  BY DEF RulesInv, datalogVars
<1>1. UNCHANGED <<store, task, next, derived, added, state>>
  BY DEF datalogVars
<1>2. HeadsAreDerived' <=> HeadsAreDerived
  BY <1>1 DEF HeadsAreDerived, RuleHeads
<1>3. Deriving => Deriving'
  BY <1>1, DerivedStays DEF Deriving
<1> QED
  BY <1>1, <1>2, <1>3 DEF RulesInv

\* When the rules have ended, what is derived is the least model.
LEMMA DerivedIsLeast ==
  ASSUME RulesInv
  PROVE  RulesReachLeastModel
<1> SUFFICES ASSUME state = "done", task.kind = "rules", HeadsAreDerived
             PROVE  derived = LeastModel
  BY DEF RulesReachLeastModel
<1>1. HasRules /\ Deriving
  BY DEF RulesInv, HasRules
<1>2. \A k \in DOMAIN task.rules : Applied(k)
  BY <1>1 DEF Deriving
<1>3. DOMAIN derived = Derivable
  <2>1. RuleHeads \subseteq DOMAIN derived
    BY <1>2 DEF RuleHeads, Applied
  <2> QED
    BY <1>1, <2>1 DEF Deriving, Derivable, IsModel
<1>4. derived \in Models
  BY <1>1, <1>3 DEF Deriving, IsModel, Models
<1>5. IsClosed(derived)
  BY <1>1, <1>2 DEF IsClosed, Deriving, Applied
<1>6. LeastModel \in Models /\ IsClosed(LeastModel)
  BY <1>1, LeastModelIsClosed
<1>7. \A p \in Derivable : LeastModel[p] \subseteq derived[p]
  BY <1>1, <1>4, <1>5, LeastModelIsLeast
<1>8. \A p \in Derivable : derived[p] \subseteq LeastModel[p]
  BY <1>1, <1>3, <1>6 DEF Deriving
<1>9. \A p \in Derivable : derived[p] = LeastModel[p]
  BY <1>7, <1>8
<1> HIDE DEF HasRules
<1> QED
  BY <1>4, <1>6, <1>9 DEF Models

\* Every step of Updates keeps RulesInv.
LEMMA RulesInvStep == UpdateInv /\ RulesInv /\ [UpdateNext]_updateVars => RulesInv'
<1> SUFFICES ASSUME UpdateTypeOK, RulesInv, [UpdateNext]_updateVars PROVE RulesInv'
  BY DEF UpdateInv
<1>1. CASE UNCHANGED updateVars
  BY <1>1, RulesAlone DEF updateVars
<1>2. ASSUME NEW c \in Client,
             \/ StartUpdate(c) \/ CompileData(c) \/ CompileTemplates(c) \/ Compiled(c) \/ Approve(c)
             \/ ResolveRetractions(c) \/ BeginTx(c) \/ PublishChanges(c) \/ CommitNothing(c) \/ CommitChanges(c)
      PROVE  RulesInv'
  <2>1. UNCHANGED datalogVars
    BY <1>2 DEF StartUpdate, CompileData, CompileTemplates, Compiled, Approve, ResolveRetractions, BeginTx,
                PublishChanges, CommitNothing, CommitChanges
  <2> QED
    BY <2>1, RulesAlone
<1>3. ASSUME NEW c \in Client, AskWhere(c)
      PROVE  RulesInv'
  <2>1. task'.kind = "query"
    BY <1>3 DEF AskWhere, Ask, Holding
  <2> QED
    BY <2>1 DEF RulesInv
<1>4. ASSUME NEW c \in Client, AskQuery(c)
      PROVE  RulesInv'
  <2>1. request[c].kind = "query" /\ IsRequest(request[c]) /\ Holding(request[c].task, ShownAt(ts), "running")
    BY <1>4 DEF AskQuery, Ask, UpdateTypeOK
  <2>2. IsTask(request[c].task) /\ ShownAt(ts) \subseteq Quad
    BY <2>1, ShowsQuads DEF IsRequest, UpdateTypeOK
  <2> QED
    BY <2>1, <2>2, StartsDeriving
<1>5. ASSUME NEW c \in Client, TakeAnswer(c)
      PROVE  RulesInv'
  BY <1>5 DEF TakeAnswer, Clear, Holding, RulesInv
<1>6. ASSUME (\E q \in outside : PublishOutside(q)) \/ WriteOutside
      PROVE  RulesInv'
  BY <1>6, RulesAlone DEF PublishOutside, WriteOutside
<1>7. CASE Evaluate(DatalogNext)
  BY <1>7, RulesSteps DEF Evaluate
<1> QED
  BY <1>1, <1>2, <1>3, <1>4, <1>5, <1>6, <1>7 DEF UpdateNext, RequestStep

\* For every store, seed and set of rules, recursive or not, and whatever is
\* committed meanwhile, rules that have been applied one after the other until
\* a round adds nothing have derived their least model (execute_recursive), if
\* no stored quad has a derived predicate.
THEOREM RulesAreLeast == UpdateSpec => []RulesReachLeastModel
<1>1. UpdateInit => UpdateInv /\ RulesInv
  BY UpdateInvInit DEF UpdateInit, DatalogInit, RulesInv
<1>2. UpdateInv /\ RulesInv /\ [UpdateNext]_updateVars => (UpdateInv /\ RulesInv)'
  BY UpdateInvStep, RulesInvStep
<1> QED
  BY <1>1, <1>2, DerivedIsLeast, PTL DEF UpdateSpec
==============================================================================
