CONSTANTS
  Tx = {t1, t2, t3}
  NoTx = NoTx
  name = name
  knows = knows
  a = a
  b = b
  bob = bob
  Slot = {name, knows}
  Predicate = {name, knows}
  Value = {a, b, bob}
  Node = {bob}
  PredicateOf <- MCPredicateOf
  Writes <- MCWrites
  EndOfTime <- MCEnd
  Instant = {0, 1, 2}
  MaxWall = 2
  MaxTs = 5
  MaxWrites = 1
  MaxRestarts = 1
SPECIFICATION Spec
SYMMETRY TxSymmetry
INVARIANTS
  TimestampsOrdered
  FirstCommitterWins
  SettledSnapshotsRepeat
  NoLostUpdateWhenSettled
  ReplaceKeepsOneValue
  DictionaryDecodes
  WatchShowsWritten
CHECK_DEADLOCK FALSE
