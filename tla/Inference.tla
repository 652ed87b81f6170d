------------------------------ MODULE Inference ------------------------------
(***************************************************************************)
(* OWL RL inference (owl_rl.rs): full runs and incremental ones that follow *)
(* the change log, between the commits of clients, with crashes.           *)
(*                                                                         *)
(* A statement stands for a relation (s p o), and an axiom for a schema     *)
(* fact that turns on the rules it names: one-premise rules (domain, range, *)
(* subproperty, subclass, symmetric, inverse) and joins of two statements   *)
(* (transitive, sameAs).                                                   *)
(***************************************************************************)
EXTENDS Integers, Sequences, FiniteSets

CONSTANTS
  Statement, Axiom,
  OneRule,     \* the one-premise rules of an axiom: <<premise, conclusion>>
  Join,        \* its joins: <<premise, premise, conclusion>>
  Graph,
  Cross,       \* the label of what follows from premises of several graphs
  Given,       \* the base facts from the start
  Writable,    \* the facts that clients write
  Chunk,       \* quads per commit: CHUNK
  MaxClient,   \* bound on the commits of clients,
  MaxFull,     \* on the full runs someone asks for
  MaxCrashes   \* and on crashes

Label == Graph \cup {Cross}
Fact == [st : Statement \cup Axiom, label : Label]

ASSUME RulesType ==
  /\ OneRule \in [Axiom -> SUBSET (Statement \X Statement)]
  /\ Join \in [Axiom -> SUBSET (Statement \X Statement \X Statement)]
  /\ Cross \notin Graph /\ Statement \cap Axiom = {}
  /\ Given \cup Writable \subseteq [st : Statement \cup Axiom, label : Graph]
  /\ Chunk \in Nat \ {0}

ASSUME FactsAreFinite == IsFiniteSet(Statement) /\ IsFiniteSet(Axiom) /\ IsFiniteSet(Graph)

ASSUME InferenceBounds == MaxClient \in Nat /\ MaxFull \in Nat /\ MaxCrashes \in Nat

VARIABLES
  log,       \* commits in timestamp order: base quads of clients, inferred ones of inference
  landed,    \* the commits whose batch is written; at most one more has its timestamp
  applied,   \* META __inference__/applied: the last commit covered, -1 before the first run
  count,     \* META __inference__/live_count
  phase,     \* where the run is
  full,      \* it recomputes
  upto,      \* the commit it covers
  seen,      \* the facts it knows
  gone,      \* over-deleted facts not derived again
  queue,     \* facts whose consequences are to be drawn
  fresh,     \* facts derived
  todo,      \* facts to assert and facts to close, not written yet
  crashes, fulls,
  basis,     \* history: the commits its snapshot showed
  exact,     \* history: the last completed run was full and covered what it saw up to here
  spoiled,   \* history: after what the last full run saw a fact was closed, or a run cut short
  skipped,   \* history: it began while a commit was in flight, and covers it unseen
  torn       \* history: since then a run was cut short after it wrote

runVars == <<phase, full, upto, seen, gone, queue, fresh, todo, basis>>
inferenceVars == <<log, landed, applied, count, runVars, crashes, fulls, exact, spoiled, skipped, torn>>

-----------------------------------------------------------------------------
(* Facts *)

\* What the quads that `by` wrote show after the first n commits.
Live(by, n) ==
  {f \in Fact : \E i \in 1 .. n :
     /\ log[i].by = by /\ f \in log[i].on
     /\ \A j \in i + 1 .. n : ~(log[j].by = by /\ f \in log[j].off)}

Stored(n) == Live("client", n) \cup Live("inference", n)

Combine(l, m) == IF l = m THEN l ELSE Cross

\* The axioms in force: base ones only.
InForce(base) == {f.st : f \in base} \cap Axiom

\* Schema::consequences: what one rule step draws from f, with what is seen.
Consequences(f, facts, axioms) ==
  UNION {
    {[st |-> r[2], label |-> f.label] : r \in {r \in OneRule[a] : r[1] = f.st}}
      \cup UNION {{[st |-> r[3], label |-> Combine(f.label, g.label)] :
                     r \in {r \in Join[a] : <<f.st, g.st>> \in {<<r[1], r[2]>>, <<r[2], r[1]>>}}} :
                  g \in facts} : a \in axioms}

\* Schema::supported: some rule step derives x, with its label.
Supported(x, facts, axioms) == \E f \in facts : x \in Consequences(f, facts, axioms)

\* Faulty: a fact is present when any graph has it.
PresentAnywhere(x, facts) == \E f \in facts : f.st = x.st

\* FactSource::present: a cross fact is present when any graph has it.
Present(x, facts) == x \in facts \/ (x.label = Cross /\ \E f \in facts : f.st = x.st)

\* The smallest closed subset of S: what a worklist that starts empty, or a
\* loop until nothing is found, ends with.
Smallest(S, Closed(_)) == {x \in S : \A T \in SUBSET S : Closed(T) => x \in T}

\* 1. Inferred facts with a derivation through a deleted one.
OverDeleted(deleted, old, live, axioms) ==
  LET holdsReached(T) ==
        live \cap UNION {Consequences(f, old, axioms) : f \in deleted \cup T} \subseteq T
  IN  Smallest(live, holdsReached)

\* 2. Over-deleted facts that what remains supports, round by round.
Rederived(over, store, axioms) ==
  LET holdsSupported(T) == {x \in over : Supported(x, store \ (over \ T), axioms)} \subseteq T
  IN  Smallest(over, holdsSupported)

-----------------------------------------------------------------------------

NoWork == [on |-> {}, off |-> {}]

InferenceInit ==
  /\ log = <<[by |-> "client", on |-> Given, off |-> {}]>> /\ landed = 1 /\ applied = -1 /\ count = 0
  /\ phase = "idle" /\ full = FALSE /\ upto = 0 /\ basis = 0
  /\ seen = {} /\ gone = {} /\ queue = {} /\ fresh = {} /\ todo = NoWork
  /\ crashes = 0 /\ fulls = 0
  /\ exact = -1 /\ spoiled = FALSE /\ skipped = FALSE /\ torn = FALSE

ClientCommits == {i \in DOMAIN log : log[i].by = "client"}

\* A client's commit takes its timestamp: it asserts a fact or closes one.
BeginCommit(f) ==
  /\ landed = Len(log) /\ Cardinality(ClientCommits) <= MaxClient
  /\ LET close == f \in Live("client", landed)
     IN  /\ log' = Append(log, IF close THEN [by |-> "client", on |-> {}, off |-> {f}]
                               ELSE [by |-> "client", on |-> {f}, off |-> {}])
         /\ spoiled' = (spoiled \/ close)
  /\ UNCHANGED <<landed, applied, count, runVars, crashes, fulls, exact, skipped, torn>>

\* Its batch is written.
Land ==
  /\ landed < Len(log)
  /\ landed' = Len(log)
  /\ UNCHANGED <<log, applied, count, runVars, crashes, fulls, exact, spoiled, skipped, torn>>

\* materialize_at: the facts of the snapshot, and all of them to draw from.
Recompute(at) ==
  LET base == Live("client", landed)
  IN  /\ full' = TRUE /\ upto' = at /\ basis' = landed
      /\ seen' = base /\ queue' = base /\ gone' = {}
      /\ phase' = "deriving" /\ fresh' = {} /\ todo' = NoWork
      /\ spoiled' = (\E i \in landed + 1 .. Len(log) : log[i].off # {})
      /\ skipped' = (landed < at)

\* materialize: up to the oracle's timestamp.
StartFull ==
  /\ phase = "idle" /\ fulls < MaxFull
  /\ fulls' = fulls + 1
  /\ Recompute(Len(log))
  /\ UNCHANGED <<log, landed, applied, count, crashes, exact, torn>>

\* The records of changes_after: a lost commit has none.
Window ==
  {i \in DOMAIN log : applied < i /\ i <= landed /\ log[i].on \cup log[i].off # {}}
To == CHOOSE i \in Window : \A j \in Window : j <= i
Changes == {i \in Window : log[i].by = "client"}

\* infer_changes with no commits but inference's own.
SkipOwn ==
  /\ phase = "idle" /\ applied >= 0 /\ Changes = {} /\ Window # {}
  /\ applied' = To
  /\ UNCHANGED <<log, landed, count, runVars, crashes, fulls, exact, spoiled, skipped, torn>>

\* What the window asserts or closes, whatever came after it in the window.
Fold(kind) == UNION {log[i][kind] : i \in Changes}

SchemaChanged == \E f \in Fold("on") \cup Fold("off") : f.st \in Axiom

\* infer_changes without a resume point, or with a schema change.
StartOver ==
  /\ phase = "idle" /\ (applied < 0 \/ (Changes # {} /\ SchemaChanged))
  /\ Recompute(IF applied < 0 THEN Len(log) ELSE To)
  /\ UNCHANGED <<log, landed, applied, count, crashes, fulls, exact, torn>>

\* Faulty: it draws from re-derived facts only.
StartBatchForgetting ==
  /\ phase = "idle" /\ applied >= 0 /\ Changes # {} /\ ~SchemaChanged
  /\ LET axioms == InForce(Live("client", applied))
         live   == Live("inference", landed)
         over   == OverDeleted(Fold("off"), Stored(applied), live, axioms)
         back   == Rederived(over, Stored(landed), axioms)
     IN  /\ gone' = over \ back
         /\ seen' = Stored(landed) \ gone'
         /\ queue' = back
  /\ full' = FALSE /\ upto' = To /\ basis' = landed
  /\ phase' = "deriving" /\ fresh' = {} /\ todo' = NoWork
  /\ UNCHANGED <<log, landed, applied, count, crashes, fulls, exact, spoiled, skipped, torn>>

\* infer_changes: over-delete and re-derive; facts are drawn from those
\* asserted and re-derived.
StartBatch ==
  /\ phase = "idle" /\ applied >= 0 /\ Changes # {} /\ ~SchemaChanged
  /\ LET axioms == InForce(Live("client", applied))
         live   == Live("inference", landed)
         over   == OverDeleted(Fold("off"), Stored(applied), live, axioms)
         back   == Rederived(over, Stored(landed), axioms)
     IN  /\ gone' = over \ back
         /\ seen' = Stored(landed) \ gone'
         /\ queue' = Fold("on") \cup back
  /\ full' = FALSE /\ upto' = To /\ basis' = landed
  /\ phase' = "deriving" /\ fresh' = {} /\ todo' = NoWork
  /\ UNCHANGED <<log, landed, applied, count, crashes, fulls, exact, spoiled, skipped, torn>>

RunAxioms == InForce(Live("client", basis))

\* One fact is taken and its consequences are kept that are not present yet.
\* Of two that come together, a graph's and a cross one, the first may
\* make the second present.
Derive(f) ==
  /\ phase = "deriving" /\ f \in queue
  /\ LET new == IF f.st \in Axiom THEN {}
                ELSE {c \in Consequences(f, seen, RunAxioms) : ~Present(c, seen)}
         same == {c \in new : c.label = Cross /\ \E d \in new : d # c /\ d.st = c.st}
     IN  \E late \in SUBSET same :
           LET kept == new \ late
           IN  /\ seen' = seen \cup kept
               /\ queue' = (queue \ {f}) \cup kept
               /\ fresh' = fresh \cup (kept \ gone)
               /\ gone' = gone \ kept
  /\ UNCHANGED <<log, landed, applied, count, phase, full, upto, todo, basis,
                 crashes, fulls, exact, spoiled, skipped, torn>>

\* What changes in the inferred graphs.
Compare ==
  /\ phase = "deriving" /\ queue = {}
  /\ LET live == Live("inference", basis)
     IN  todo' = IF full THEN [on |-> fresh \ live, off |-> live \ fresh]
                 ELSE [on |-> fresh, off |-> gone]
  /\ phase' = "writing"
  /\ UNCHANGED <<log, landed, applied, count, full, upto, seen, gone, queue, fresh, basis,
                 crashes, fulls, exact, spoiled, skipped, torn>>

Size(w) == Cardinality(w.on) + Cardinality(w.off)

\* One commit of write: assertions before closes.
Write ==
  /\ phase = "writing" /\ todo # NoWork /\ landed = Len(log)
  /\ \E on \in SUBSET todo.on : \E off \in SUBSET todo.off :
       LET part == [on |-> on, off |-> off]
       IN  /\ Size(part) = (IF Size(todo) < Chunk THEN Size(todo) ELSE Chunk)
           /\ off # {} => on = todo.on
           /\ log' = Append(log, [by |-> "inference", on |-> on, off |-> off])
           /\ todo' = [on |-> todo.on \ on, off |-> todo.off \ off]
  /\ landed' = Len(log')
  /\ UNCHANGED <<applied, count, phase, full, upto, seen, gone, queue, fresh, basis,
                 crashes, fulls, exact, spoiled, skipped, torn>>

\* Faulty: re-derived facts count as asserted.
CountStored ==
  /\ phase = "writing" /\ todo = NoWork
  /\ count' = IF full THEN Cardinality(fresh)
              ELSE IF count + Cardinality(fresh) < Cardinality(gone) THEN 0
              ELSE count + Cardinality(fresh)
  /\ phase' = "counted"
  /\ torn' = (torn /\ ~full)
  /\ UNCHANGED <<log, landed, applied, full, upto, seen, gone, queue, fresh, todo, basis,
                 crashes, fulls, exact, spoiled, skipped>>

\* put_inferred_count
Count ==
  /\ phase = "writing" /\ todo = NoWork
  /\ count' = IF full THEN Cardinality(fresh)
              ELSE IF count + Cardinality(fresh) < Cardinality(gone) THEN 0
              ELSE count + Cardinality(fresh) - Cardinality(gone)
  /\ phase' = "counted"
  /\ torn' = (torn /\ ~full)
  /\ UNCHANGED <<log, landed, applied, full, upto, seen, gone, queue, fresh, todo, basis,
                 crashes, fulls, exact, spoiled, skipped>>

\* Faulty: one past what the run read.
PutAppliedNext ==
  /\ phase = "counted"
  /\ applied' = upto + 1
  /\ phase' = "idle"
  /\ exact' = IF full THEN basis ELSE -1
  /\ full' = FALSE /\ upto' = 0 /\ basis' = 0
  /\ seen' = {} /\ gone' = {} /\ fresh' = {}
  /\ UNCHANGED <<log, landed, count, queue, todo, crashes, fulls, spoiled, skipped, torn>>

\* put_applied
PutApplied ==
  /\ phase = "counted"
  /\ applied' = upto
  /\ phase' = "idle"
  /\ exact' = IF full THEN basis ELSE -1
  /\ full' = FALSE /\ upto' = 0 /\ basis' = 0
  /\ seen' = {} /\ gone' = {} /\ fresh' = {}
  /\ UNCHANGED <<log, landed, count, queue, todo, crashes, fulls, spoiled, skipped, torn>>

\* The process ends and starts again: a commit in flight is lost, and a run
\* with what it has not written.  Without either nothing is lost.
Crash ==
  /\ crashes < MaxCrashes /\ (phase # "idle" \/ landed < Len(log))
  /\ crashes' = crashes + 1
  /\ log' = IF landed < Len(log) THEN [log EXCEPT ![Len(log)] = [by |-> "client", on |-> {}, off |-> {}]]
            ELSE log
  /\ landed' = Len(log)
  /\ phase' = "idle" /\ full' = FALSE /\ upto' = 0 /\ basis' = 0
  /\ seen' = {} /\ gone' = {} /\ queue' = {} /\ fresh' = {} /\ todo' = NoWork
  /\ exact' = IF phase = "idle" THEN exact ELSE -1
  /\ spoiled' = (spoiled \/ phase # "idle")
  /\ torn' = (torn \/ phase = "writing")
  /\ UNCHANGED <<applied, count, fulls, skipped>>

Run ==
  \/ SkipOwn \/ StartOver \/ StartBatch
  \/ \E f \in Fact : Derive(f)
  \/ Compare \/ Write \/ Count \/ PutApplied

InferenceNext ==
  \/ \E f \in Writable : BeginCommit(f)
  \/ Land \/ StartFull \/ Run \/ Crash

InferenceSpec == InferenceInit /\ [][InferenceNext]_inferenceVars

-----------------------------------------------------------------------------
(* The reference: the smallest set of statements that holds a base and is  *)
(* closed under the rules.                                                 *)

ClosedUnder(sts, axioms) ==
  \A a \in axioms :
     /\ \A r \in OneRule[a] : r[1] \in sts => r[2] \in sts
     /\ \A r \in Join[a] : r[1] \in sts /\ r[2] \in sts => r[3] \in sts

Follows(sts, axioms) ==
  LET closed(T) == sts \subseteq T /\ ClosedUnder(T, axioms)
  IN  Smallest(Statement, closed)

In(facts, labels) == {f.st : f \in {f \in facts : f.label \in labels}} \cap Statement

\* Each graph with its inferred graph holds what follows from it alone, and
\* all graphs together with the cross graph what follows from all.
ClosesBase(facts, base) ==
  /\ \A g \in Graph : In(facts, {g}) = Follows(In(base, {g}), InForce(base))
  /\ In(facts, Label) = Follows(In(base, Graph), InForce(base))

\* Types of the log, the persisted marks and the run under way.
InferenceTypeOK ==
  /\ log \in Seq([by : {"client", "inference"}, on : SUBSET Fact, off : SUBSET Fact])
  /\ landed \in {Len(log), Len(log) - 1}
  /\ applied \in -1 .. Len(log) /\ count \in Nat
  /\ phase \in {"idle", "deriving", "writing", "counted"} /\ full \in BOOLEAN
  /\ upto \in 0 .. Len(log) /\ basis \in 0 .. landed
  /\ seen \subseteq Fact /\ gone \subseteq Fact /\ queue \subseteq Fact /\ fresh \subseteq Fact
  /\ todo \in [on : SUBSET Fact, off : SUBSET Fact]
  /\ crashes \in Nat /\ fulls \in Nat
  /\ exact \in -1 .. landed
  /\ spoiled \in BOOLEAN /\ skipped \in BOOLEAN /\ torn \in BOOLEAN

\* A full run brings the inferred graphs in line with the base data it read,
\* whatever earlier runs and crashes left in them, and whichever order it draws
\* facts in (owl_rl.rs:967-1035).
RecomputeIsExact ==
  phase = "idle" /\ exact >= 0 =>
    ClosesBase(Live("client", exact) \cup Live("inference", Len(log)), Live("client", exact))

\* While facts are only asserted, following the change log leaves the same
\* facts as recomputing would (owl_rl.rs:1037-1150).
InsertsAreExact ==
  phase = "idle" /\ ~spoiled /\ ~skipped /\ applied >= 0 /\ Window = {} =>
    ClosesBase(Stored(landed), Live("client", landed))

\* The persisted count of live inferred facts, which runs adjust by what they
\* assert and close, is their number; only a run cut short between its writes
\* and the count leaves it wrong, until the next full run (owl_rl.rs:1135-1140).
CountMatches ==
  phase = "idle" /\ ~torn => count = Cardinality(Live("inference", Len(log)))
=============================================================================
