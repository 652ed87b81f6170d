------------------------------- MODULE Datalog -------------------------------
(***************************************************************************)
(* Conjunctive queries and recursive rules over one snapshot (datalog.rs,   *)
(* eval.rs): a query joins its patterns from left to right, rules are      *)
(* applied one after the other until none adds a fact; a deadline may end  *)
(* either in between.                                                      *)
(***************************************************************************)
EXTENDS Integers, Sequences, FiniteSets

CONSTANTS
  Node, Literal, Pred,
  Graph,     \* named graphs, which are nodes,
  Default,   \* and the default graph
  Var,
  PredVar,   \* the variables of predicate slots, which are bound apart (Solution.preds)
  RdfType,   \* rdf:type,
  EdgeTypes, \* and the classes that edge types declare for the ends of their edges
  Blank,       \* a slot with no variable in it
  Union,     \* no graph given: every graph, pending writes and derived facts
  Unlimited  \* a pattern of one step, without max_hops

ASSUME GraphsAreNodes == Graph \subseteq Node /\ Default \notin Node

\* Ids, values, predicates, variables and the absence of either are told apart.
ASSUME TermsAreDistinct ==
  /\ PredVar \subseteq Var
  /\ Var \cap (Node \cup Literal \cup Pred \cup {Default, Union, Blank}) = {}
  /\ Node \cap Literal = {} /\ Pred \cap (Node \cup Literal) = {}
  /\ {Default, Union, Blank} \cap (Node \cup Literal \cup Pred) = {}
  /\ Default # Union /\ Default # Blank /\ Union # Blank
  /\ Unlimited \notin Nat

\* Ids have 64 bits; names and values have a largest length.
ASSUME TermsAreFinite == IsFiniteSet(Node) /\ IsFiniteSet(Literal) /\ IsFiniteSet(Pred) /\ IsFiniteSet(Var)

\* EdgeTypeDef: no class or one for each end; a class is a node.
ASSUME EdgeTypesType ==
  /\ RdfType \in Pred /\ DOMAIN EdgeTypes \subseteq Pred
  /\ EdgeTypes \in [DOMAIN EdgeTypes -> [domain : SUBSET Node, range : SUBSET Node]]

NodeVar == Var \ PredVar

Quad == [g : Graph \cup {Default}, s : Node, p : Pred, o : Node \cup Literal]

\* VarPattern; slots hold a constant, a variable or Blank.
Pattern == [s : Node \cup NodeVar \cup {Blank}, p : Pred \cup PredVar \cup {Blank},
            o : Node \cup Literal \cup NodeVar \cup {Blank},
            g : Graph \cup NodeVar \cup {Default, Union}, hops : Nat \cup {Unlimited}]

Rule == [head : Pred, s : NodeVar, o : NodeVar, body : Seq(Pattern)]

\* Patterns and writes that are pending; rules and facts to begin with, which
\* are pairs of each predicate.
IsTask(t) ==
  \/ t.kind = "query" /\ t.patterns \in Seq(Pattern) /\ t.pending \in Seq(Quad) /\ t.values \in BOOLEAN
  \/ t.kind = "rules" /\ t.rules \in Seq(Rule)
                      /\ DOMAIN t.seed \subseteq Pred /\ t.seed \in [DOMAIN t.seed -> SUBSET (Node \X Node)]

VARIABLES
  store,      \* the quads of the snapshot
  task,       \* what is asked: a query with pending writes, or rules with a seed
  next,       \* the pattern or rule to come
  solutions,  \* the partial solutions of the query
  derived,    \* the derived facts: predicate to pairs
  added,      \* whether this round of the rules has added any
  state

datalogVars == <<store, task, next, solutions, derived, added, state>>

-----------------------------------------------------------------------------
(* Solutions: assignments of some variables.  A variable of subjects, objects  *)
(* and graphs has a node or a value, never both, so one map stands for the   *)
(* code's nodes and values.                                                 *)

With(f, x, y) == [z \in DOMAIN f \cup {x} |-> IF z = x THEN y ELSE f[z]]

\* bind_node and its like: an unbound variable takes the value, a bound one
\* must have it, as a constant must.
Bind(term, x, sol) ==
  IF term \in Var \ DOMAIN sol THEN {With(sol, term, x)}
  ELSE IF term = Blank \/ x = (IF term \in Var THEN sol[term] ELSE term) THEN {sol} ELSE {}

\* substitute
Resolve(term, sol) ==
  IF term \in Var THEN IF term \in DOMAIN sol THEN sol[term] ELSE Blank ELSE term

\* extend_full: without values, an object variable takes nodes only.
Extend(q, pat, sol, values) ==
  IF pat.o \in Var /\ q.o \in Literal /\ ~values THEN {}
  ELSE UNION {UNION {Bind(pat.p, q.p, b) : b \in Bind(pat.o, q.o, a)} : a \in Bind(pat.s, q.s, sol)}

Fits(q, pat, sol) ==
  /\ Resolve(pat.s, sol) \in {Blank, q.s}
  /\ Resolve(pat.p, sol) \in {Blank, q.p}
  /\ Resolve(pat.o, sol) \in {Blank, q.o}

Elements(seq) == {seq[k] : k \in DOMAIN seq}

\* Two values of one property.
OtherValue(q, t) == {q.o, t.o} \subseteq Literal /\ q.o # t.o /\ q.s = t.s /\ q.p = t.p

\* evaluate_with_overlay: pending writes join what the scan found, but not a
\* property that the scan or a write before has another value for.
Overlaid(found, pending, pat, sol) ==
  LET fit == {k \in DOMAIN pending : Fits(pending[k], pat, sol)}
      left == {k \in fit : \/ \E q \in found : OtherValue(q, pending[k])
                           \/ \E j \in fit : j < k /\ OtherValue(pending[j], pending[k])}
  IN  found \cup {pending[k] : k \in fit \ left}

\* node_has_type
HasType(x, class, quads) == \E q \in quads : q.s = x /\ q.p = RdfType /\ q.o = class

\* evaluate_with_registry: an end that is bound by now and lacks its class.
Prunes(pat, sol, quads, types) ==
  LET p == Resolve(pat.p, sol)
      lacks(x, classes) == x # Blank /\ \E class \in classes : ~HasType(x, class, quads)
  IN  p \in DOMAIN types /\ (lacks(Resolve(pat.s, sol), types[p].domain) \/ lacks(Resolve(pat.o, sol), types[p].range))

\* The stored quads that a pattern is looked up in; with a graph term there is
\* no pruning, nor along paths.
Seen(pat, sol, quads, types) ==
  IF pat.hops = Unlimited /\ pat.g = Union /\ Prunes(pat, sol, quads, types) THEN {} ELSE quads

\* evaluate_hybrid and evaluate_with_overlay: derived facts stand for their
\* predicate, pending writes join the stored quads.
Ungraphed(pat, sol, quads, pending, facts, types) ==
  LET p == Resolve(pat.p, sol)
  IN  IF p \in DOMAIN facts
      THEN {[g |-> Default, s |-> f[1], p |-> p, o |-> f[2]] : f \in facts[p]}
      ELSE Overlaid({q \in Seen(pat, sol, quads, types) : Fits(q, pat, sol)}, pending, pat, sol)

\* Faulty: a graph variable ranges over the default graph too.
MatchPatternAnywhere(pat, sol, quads, pending, facts, types, values) ==
  IF pat.g = Union
  THEN UNION {Extend(q, pat, sol, values) : q \in Ungraphed(pat, sol, quads, pending, facts, types)}
  ELSE UNION {UNION {Bind(pat.g, q.g, c) : c \in Extend(q, pat, sol, values)} : q \in quads}

\* match_pattern: a graph variable ranges over the named graphs.
MatchPattern(pat, sol, quads, pending, facts, types, values) ==
  IF pat.g = Union
  THEN UNION {Extend(q, pat, sol, values) : q \in Ungraphed(pat, sol, quads, pending, facts, types)}
  ELSE UNION {UNION {Bind(pat.g, q.g, c) : c \in Extend(q, pat, sol, values)} :
                q \in {q \in quads : pat.g \in Var => q.g # Default}}

Edges(p, quads) == {<<q.s, q.o>> : q \in {q \in quads : q.p = p /\ q.o \in Node}}

\* reachable_from_hops: breadth first, at most n layers.
HopsFrom(start, n, edges) ==
  LET layers[k \in 0 .. n] ==
        IF k = 0 THEN [visited |-> {}, frontier |-> {start}]
        ELSE LET before == layers[k - 1]
                 new == {e[2] : e \in {e \in edges : e[1] \in before.frontier}} \ before.visited
             IN  [visited |-> before.visited \cup new, frontier |-> new]
  IN  layers[n].visited

\* The subjects of a path pattern; its graph term is ignored.
MatchPath(pat, sol, quads) ==
  LET edges == Edges(pat.p, quads)
      start == Resolve(pat.s, sol)
      starts == IF start = Blank THEN {e[1] : e \in edges} ELSE {start} \cap Node
  IN  UNION {UNION {UNION {Bind(pat.o, x, b) : x \in HopsFrom(n, pat.hops, edges)} :
                      b \in Bind(pat.s, n, sol)} : n \in starts}

Matches(pat, sol, quads, pending, facts, types, values) ==
  IF pat.hops = Unlimited THEN MatchPattern(pat, sol, quads, pending, facts, types, values)
  ELSE IF pat.p \in Pred THEN MatchPath(pat, sol, quads)
  ELSE {}

NoVars == [v \in {} |-> Blank]

\* evaluate_solutions over all patterns: what a rule's body has, with no
\* registry of edge types.
Solved(patterns, quads, facts) ==
  LET join[k \in 0 .. Len(patterns)] ==
        IF k = 0 THEN {NoVars}
        ELSE UNION {Matches(patterns[k], sol, quads, <<>>, facts, NoVars, TRUE) : sol \in join[k - 1]}
  IN  join[Len(patterns)]

-----------------------------------------------------------------------------

Nothing == [kind |-> "none"]

Holding(t, quads, how) ==
  /\ store' = quads /\ task' = t
  /\ next' = 1 /\ added' = FALSE
  /\ solutions' = {NoVars}
  /\ derived' = IF t.kind = "rules" THEN t.seed ELSE NoVars
  /\ state' = how

DatalogInit ==
  /\ store = {} /\ task = Nothing
  /\ next = 1 /\ added = FALSE
  /\ solutions = {NoVars}
  /\ derived = NoVars
  /\ state = "idle"

\* A query or rules over a snapshot that shows these quads.
Ask(t, quads) == state = "idle" /\ Holding(t, quads, "running")

\* The answer, or the error of a timeout, has been taken.
Clear == Holding(Nothing, {}, "idle")

\* One pattern of a query, joined to every partial solution.
Join ==
  /\ state = "running" /\ task.kind = "query" /\ next <= Len(task.patterns)
  /\ solutions' = UNION {Matches(task.patterns[next], sol, store, task.pending, NoVars, EdgeTypes, task.values) :
                           sol \in solutions}
  /\ next' = next + 1
  /\ UNCHANGED <<store, task, derived, added, state>>

Answer ==
  /\ state = "running" /\ task.kind = "query"
  /\ next > Len(task.patterns) \/ solutions = {}
  /\ state' = "done"
  /\ UNCHANGED <<store, task, next, solutions, derived, added>>

\* The pairs of the head's variables, where both hold nodes.
Heads(rule) ==
  {<<sol[rule.s], sol[rule.o]>> : sol \in
     {sol \in Solved(rule.body, store, derived) :
        {rule.s, rule.o} \subseteq DOMAIN sol /\ {sol[rule.s], sol[rule.o]} \subseteq Node}}

Known(p) == IF p \in DOMAIN derived THEN derived[p] ELSE {}

\* Faulty: a rule that derives something keeps the rounds going.
ApplyAlways ==
  /\ state = "running" /\ task.kind = "rules" /\ next <= Len(task.rules)
  /\ LET rule == task.rules[next]  heads == Heads(rule)
     IN  /\ derived' = With(derived, rule.head, Known(rule.head) \cup heads)
         /\ added' = (added \/ heads # {})
  /\ next' = next + 1
  /\ UNCHANGED <<store, task, solutions, state>>

\* One rule, over the stored quads and the facts derived so far.
Apply ==
  /\ state = "running" /\ task.kind = "rules" /\ next <= Len(task.rules)
  /\ LET rule == task.rules[next]  heads == Heads(rule)
     IN  /\ derived' = With(derived, rule.head, Known(rule.head) \cup heads)
         /\ added' = (added \/ ~(heads \subseteq Known(rule.head)))
  /\ next' = next + 1
  /\ UNCHANGED <<store, task, solutions, state>>

\* Faulty: two rounds are enough.
EndRoundEarly ==
  /\ state = "running" /\ task.kind = "rules" /\ next > Len(task.rules)
  /\ state' = IF added /\ derived = task.seed THEN "running" ELSE "done"
  /\ next' = 1 /\ added' = FALSE
  /\ UNCHANGED <<store, task, solutions, derived>>

\* Another round while the last one added a fact.
EndRound ==
  /\ state = "running" /\ task.kind = "rules" /\ next > Len(task.rules)
  /\ state' = IF added THEN "running" ELSE "done"
  /\ next' = 1 /\ added' = FALSE
  /\ UNCHANGED <<store, task, solutions, derived>>

\* The deadline is looked at before each pattern and each round.
Timeout ==
  /\ state = "running"
  /\ IF task.kind = "query" THEN next <= Len(task.patterns) ELSE next = 1
  /\ state' = "timeout"
  /\ UNCHANGED <<store, task, next, solutions, derived, added>>

Step == Join \/ Answer \/ Apply \/ EndRound

DatalogNext == Step \/ Timeout

-----------------------------------------------------------------------------
(* The references: what queries and rules mean, without an order *)

Slots(pat) == IF pat.hops = Unlimited THEN {pat.s, pat.p, pat.o, pat.g} ELSE {pat.s, pat.o}

VarsOf(patterns) == Var \cap UNION {Slots(patterns[k]) : k \in DOMAIN patterns}

Value(term, a) == IF term \in Var THEN a[term] ELSE term

\* A path of at most n edges leads from x to y.
Path(x, y, n, edges) ==
  \E m \in 1 .. n : \E walk \in [0 .. m -> Node] :
    walk[0] = x /\ walk[m] = y /\ \A i \in 1 .. m : <<walk[i - 1], walk[i]>> \in edges

\* Under assignment a, a fact matches the pattern; without a given predicate the
\* facts are stored and pending quads only, and with a graph term stored ones.
Satisfies(pat, a, quads, base, facts, edges) ==
  IF pat.hops # Unlimited
  THEN \E x \in Node : \E y \in Node :
         /\ pat.p \in Pred
         /\ Value(pat.s, a) \in {Blank, x} /\ Value(pat.o, a) \in {Blank, y}
         /\ Path(x, y, pat.hops, edges[pat.p])
  ELSE \E q \in facts :
         /\ Value(pat.s, a) \in {Blank, q.s} /\ Value(pat.p, a) \in {Blank, q.p}
         /\ Value(pat.o, a) \in {Blank, q.o}
         /\ pat.p \notin Pred => q \in base
         /\ pat.g # Union => q \in quads /\ Value(pat.g, a) = q.g

\* The terms that may stand for v: the slots of facts where patterns have it.
TermsFor(v, patterns, facts) ==
  UNION {{t \in {q.s : q \in facts} : patterns[k].s = v} \cup {t \in {q.p : q \in facts} : patterns[k].p = v}
         \cup {t \in {q.o : q \in facts} : patterns[k].o = v}
         \cup {t \in Graph : patterns[k].g = v} : k \in DOMAIN patterns}

Assignments(patterns, facts) ==
  LET vs == VarsOf(patterns)
      terms == UNION {TermsFor(v, patterns, facts) : v \in vs}
  IN  {a \in [vs -> terms] : \A v \in vs : a[v] \in TermsFor(v, patterns, facts)}

\* What an assignment has bound before the k-th pattern.
Prior(patterns, a, k) == [v \in VarsOf(SubSeq(patterns, 1, k - 1)) |-> a[v]]

\* What patterns mean over stored quads, pending writes and facts.  Their order
\* matters only for the ends that a pattern is pruned by.
Answers(patterns, quads, pending, facts, types) ==
  LET edges == [p \in Pred |-> Edges(p, quads)]
      base(a, k) == Seen(patterns[k], Prior(patterns, a, k), quads, types) \cup pending
  IN  {a \in Assignments(patterns, quads \cup pending \cup facts) :
         \A k \in DOMAIN patterns :
           Satisfies(patterns[k], a, quads, base(a, k), base(a, k) \cup facts, edges)}

\* Without values, no object variable holds a literal.
NodesOnly(patterns, a) ==
  \A k \in DOMAIN patterns : patterns[k].o \in Var => a[patterns[k].o] \notin Literal

\* Derived facts as quads of the default graph.
Facts(m) == UNION {{[g |-> Default, s |-> f[1], p |-> p, o |-> f[2]] : f \in m[p]} : p \in DOMAIN m}

RuleHeads == {task.rules[k].head : k \in DOMAIN task.rules}

\* What the rules lead to in one simultaneous step.
Consequence(m) ==
  [p \in DOMAIN task.seed \cup RuleHeads |->
     (IF p \in DOMAIN m THEN m[p] ELSE {}) \cup
       UNION {LET r == task.rules[k]
              IN  {<<a[r.s], a[r.o]>> :
                    a \in {a \in Answers(r.body, store, {}, Facts(m), NoVars) :
                             {r.s, r.o} \subseteq DOMAIN a /\ {a[r.s], a[r.o]} \subseteq Node}} :
                k \in {k \in DOMAIN task.rules : task.rules[k].head = p}}]

LeastModel ==
  LET rounds == Cardinality(Node) * Cardinality(Node) * Cardinality(RuleHeads)
      grown[k \in 0 .. rounds] ==
        IF k = 0 THEN Consequence(task.seed) ELSE Consequence(grown[k - 1])
  IN  grown[rounds]

\* No stored quad has a derived predicate (datalog.rs:1001).
HeadsAreDerived == \A q \in store : q.p \notin DOMAIN task.seed \cup RuleHeads

\* The assignments that a query should find, with these writes pending.
Meant(pending) ==
  {a \in Answers(task.patterns, store, pending, {}, EdgeTypes) : task.values \/ NodesOnly(task.patterns, a)}

\* A pending value of a property that has another one, stored or pending.
MeetsOther(t) == \E q \in store \cup Elements(task.pending) : OtherValue(q, t)

\* Joining from left to right, with variables of one pattern filled into the
\* next, finds exactly the assignments that satisfy all patterns, each of them
\* pruned by what the patterns before it bind (datalog.rs:486-580,
\* eval.rs:38-60).  Of pending values of a property that has another value it
\* may miss some, and nothing else (eval.rs:129-160).
JoinIsConjunction ==
  state = "done" /\ task.kind = "query" =>
    /\ Meant({t \in Elements(task.pending) : ~MeetsOther(t)}) \subseteq solutions
    /\ solutions \subseteq Meant(Elements(task.pending))

\* Applying rules one after the other on what is derived so far reaches the
\* least model of the rules, cycles or not (datalog.rs:796-850), for predicates
\* that are derived only, as evaluate_hybrid has them.
RulesReachLeastModel ==
  state = "done" /\ task.kind = "rules" /\ HeadsAreDerived => derived = LeastModel
=============================================================================
