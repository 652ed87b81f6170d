CONSTANTS
  Tx = {t1, t2}
  NoTx = NoTx
  name = name
  knows = knows
  a = a
  b = b
  bob = bob
  Slot = {name, knows}
  Predicate = {name, knows}
  Value = {a, b, bob}
  Node = {bob}
  PredicateOf <- MCPredicateOf
  Writes <- AddingWrites
  EndOfTime <- MCEnd
  Instant = {0, 1, 2}
  MaxWall = 2
  MaxTs = 4
  MaxWrites = 2
  MaxRestarts = 1
SPECIFICATION FairSpec
PROPERTIES
  CommitIsAtomic
  StreamsCommits
  CommitsEnd
CHECK_DEADLOCK FALSE
