------------------------------ MODULE MCUpdates ------------------------------
(***************************************************************************)
(* Small instances of Updates: three nodes, one of which is a named graph. *)
(* Either one client asks a query or rules of each form over any of 132    *)
(* stores, or two clients update the values of one property, which each    *)
(* graph has on its own, while another writer changes it.                  *)
(***************************************************************************)
EXTENDS Updates, TLC

Ext == INSTANCE FiniteSetsExt

CONSTANTS a, b, g, one, two, edge, name, type, tc, back, x, y, z, w, pz, pw, c1, c2

In(graph, s, p, o) == [g |-> graph, s |-> s, p |-> p, o |-> o]
Edge(s, o) == In(Default, s, edge, o)

\* Edges lead from instances of g to instances of g.
MCEdgeTypes == edge :> [domain |-> {g}, range |-> {g}]
IsG(s) == In(Default, s, type, g)

\* Up to two edges between the nodes, or three without loops, without any
\* types, with all of them, or with some and some properties and quads of a
\* graph.
QueriedStores ==
  {{Edge(e[1], e[2]) : e \in edges} \cup more :
     edges \in {es \in SUBSET (Node \X Node) :
                 Cardinality(es) <= IF \E n \in Node : <<n, n>> \in es THEN 2 ELSE 3},
     more \in {{}, {IsG(a), IsG(b), IsG(g)},
               {IsG(a), In(g, b, type, g), In(g, a, edge, b), In(Default, b, name, one), In(g, g, name, one)}}}

Pat(s, p, o) == [s |-> s, p |-> p, o |-> o, g |-> Union, hops |-> Unlimited]
From(graph, pat) == [pat EXCEPT !.g = graph]
Upto(pat, n) == [pat EXCEPT !.hops = n]

Find(patterns, pending, values) ==
  [kind |-> "query", patterns |-> patterns, pending |-> pending, values |-> values]

Queries ==
  {Find(<<Pat(x, edge, y), Pat(y, edge, x)>>, <<>>, FALSE),
   Find(<<Pat(x, name, y), Pat(z, name, y)>>, <<>>, TRUE),
   Find(<<Pat(x, pz, y), Pat(y, pz, z)>>, <<>>, FALSE),
   Find(<<From(z, Pat(x, edge, y)), Pat(z, name, w)>>, <<>>, TRUE),
   Find(<<From(z, Pat(a, edge, x)), Pat(x, edge, y)>>, <<>>, FALSE),
   Find(<<Pat(z, name, one), From(z, Pat(x, pw, y))>>, <<>>, FALSE),
   Find(<<Upto(Pat(x, edge, y), 2), From(Default, Pat(y, Blank, Blank))>>, <<>>, FALSE),
   Find(<<Pat(a, edge, x), Upto(Pat(x, edge, a), 3)>>, <<>>, FALSE),
   Find(<<Upto(Pat(a, edge, b), 0)>>, <<>>, FALSE),
   Find(<<Pat(x, edge, y), Pat(x, name, z)>>,
        <<Edge(a, a), In(Default, a, name, two), In(Default, b, name, two), In(Default, a, name, one)>>, TRUE)}

Solve(rules, seed) == [kind |-> "rules", rules |-> rules, seed |-> seed]
If(h, s, o, body) == [head |-> h, s |-> s, o |-> o, body |-> body]

RuleSets ==
  {Solve(<<If(tc, x, z, <<Pat(x, tc, y), Pat(y, edge, z)>>)>>, tc :> {<<a, b>>}),
   Solve(<<If(tc, x, z, <<Pat(x, tc, y), Pat(y, tc, z)>>), If(tc, x, y, <<Pat(x, edge, y)>>)>>, NoVars),
   Solve(<<If(back, x, y, <<Pat(y, tc, x)>>), If(tc, x, y, <<Pat(x, edge, y)>>),
           If(tc, x, z, <<Pat(x, back, y), Pat(z, back, y)>>)>>, NoVars),
   Solve(<<If(back, x, z, <<Pat(x, edge, y), Pat(y, pw, z)>>)>>, NoVars)}

Window(start, end, tt) == [start |-> start, end |-> end, tt |-> tt]
Always == Window(0, EndOfTime, 1)

Asked(t) == [kind |-> "query", task |-> t]
None == [kind |-> "none"]

QueryStarts ==
  {[stored |-> [q \in quads |-> {Always}], request |-> (c1 :> Asked(t) @@ c2 :> None), outside |-> {}] :
     quads \in QueriedStores, t \in Queries \cup RuleSets}

-----------------------------------------------------------------------------

\* Variables z and w are also the names of predicate variables.
MCAsPred == z :> pz @@ w :> pw
MCNodeOf == [p \in Pred |-> IF p = edge THEN b ELSE g]

Update(ops) == [kind |-> "update", ops |-> ops, dry |-> FALSE, readTs |-> 0]
Shown(u) == [u EXCEPT !.dry = TRUE]
At(u, t) == [u EXCEPT !.readTs = t]
Insert(quads) == [kind |-> "insert", quads |-> quads]
Delete(quads) == [kind |-> "delete", quads |-> quads]
Modify(del, ins, branches) == [kind |-> "modify", delete |-> del, insert |-> ins, branches |-> branches]

One == In(Default, a, name, one)
Two == In(Default, a, name, two)
OneOfG == In(g, a, name, one)
TwoOfG == In(g, a, name, two)

\* The property is set to two, for what has another value, in all graphs or
\* graph by graph; two are swapped; two values lead to an edge.
SetTwo == Modify(<<In(Union, x, name, y)>>, <<In(Default, x, name, two)>>, <<<<Pat(x, name, y)>>>>)
SetTwoByGraph ==
  Modify(<<In(z, x, name, one)>>, <<In(z, x, name, two)>>, <<<<From(z, Pat(x, name, one))>>>>)
Swap ==
  Modify(<<In(Union, x, name, y)>>, <<In(Default, x, name, w)>>, <<<<Pat(x, name, y), Pat(z, name, w)>>>>)
Link ==
  Modify(<<>>, <<Edge(x, g), In(Default, x, name, y)>>, <<<<Pat(x, name, one)>>, <<Pat(x, edge, y)>>>>)

\* What has a property or an edge, and what names it, change places.
Describe ==
  Modify(<<In(Union, x, pz, z), In(Union, z, edge, x)>>, <<In(Default, z, pz, x)>>, <<<<Pat(x, pz, y)>>>>)

UpdatedStores ==
  {<<>>, One :> {Always}, (One :> {Always}) @@ (OneOfG :> {Always}),
   (Two :> {Always}) @@ (TwoOfG :> {Always, Window(0, Now, 2)}) @@ (Edge(a, b) :> {Always}),
   (One :> {Always, Window(Now, Now, 2)}) @@ (Two :> {Window(Now, EndOfTime, 1)})}

Pairs ==
  {<<Update(<<SetTwo>>), Update(<<Insert(<<One>>), Delete(<<In(Union, a, name, two)>>)>>)>>,
   <<Shown(Update(<<SetTwo>>)), Update(<<SetTwoByGraph>>)>>,
   <<Update(<<Swap>>), Shown(Update(<<Delete(<<OneOfG>>), Insert(<<One, Two>>)>>))>>,
   <<Update(<<Link, Delete(<<In(Union, a, name, one)>>), Insert(<<OneOfG>>)>>), Update(<<Delete(<<Two>>)>>)>>,
   <<Update(<<Describe>>), Update(<<Insert(<<Edge(b, a), Two>>)>>)>>,
   <<At(Update(<<Insert(<<One, TwoOfG>>), SetTwo>>), 1), At(Update(<<Delete(<<One>>)>>), EndOfTime)>>}

\* A read point is one that the store has had.
UpdateStarts ==
  {start \in
     {[stored |-> s, request |-> (c1 :> p[1] @@ c2 :> p[2]), outside |-> {o}] :
        s \in UpdatedStores, p \in Pairs, o \in {One, TwoOfG}} :
   start.stored = <<>> => start.request[c1].readTs = 0}

LastCommit(vs) == Ext!Max({0} \cup {v.tt : v \in UNION {vs[q] : q \in DOMAIN vs}})

MCStarts ==
  {[stored |-> st.stored, ts |-> LastCommit(st.stored), request |-> st.request, outside |-> st.outside] :
     st \in QueryStarts \cup UpdateStarts}
=============================================================================
