CONSTANTS
  ab = ab
  bc = bc
  ac = ac
  super = super
  transitive = transitive
  sub = sub
  g = g
  h = h
  Cross = Cross
  Statement = {ab, bc, ac, super}
  Axiom = {transitive, sub}
  Graph = {g, h}
  OneRule <- MCOneRule
  Join <- MCJoin
  Given <- MCGiven
  Writable <- MCWritable
  Chunk = 1
  MaxClient = 2
  MaxFull = 1
  MaxCrashes = 1
SPECIFICATION InferenceSpec
INVARIANTS
  InferenceTypeOK
  RecomputeIsExact
  InsertsAreExact
  CountMatches
CHECK_DEADLOCK FALSE
