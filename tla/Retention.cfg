CONSTANTS
  Timestamp <- MCTimestamp
  EndOfTime = 9
  h = h
  r1 = r1
  r2 = r2
  NoHash = NoHash
  Quad = {p}
  Hash = {h}
  HashOf <- MCHashOf
  Orders <- MCOrders
  Windows <- MCWindows
  Instant = {1, 2, 3, 4, 5}
  Policies <- MCPolicies
  Run = {r1, r2}
SPECIFICATION RetSpec
INVARIANTS
  AnswersKept
  NewestKept
  BlobsResolve
SYMMETRY RunSymmetry
