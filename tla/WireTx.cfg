CONSTANTS
  c1 = c1
  c2 = c2
  c3 = c3
  c4 = c4
  c5 = c5
  t1 = t1
  t2 = t2
  Tx = {t1, t2}
  Call = {c1, c2, c3, c4, c5}
  Shard <- MCShard
  Workers = 2
  Scripts <- AllScripts
SPECIFICATION TxFairSpec
INVARIANTS
  CommitIsWhole
  OneFate
PROPERTIES
  CallsReturnOrStall
  IdleIsSwept
CHECK_DEADLOCK FALSE
