CONSTANTS
  from = from
  into = into
  new = new
  p = p
  q = q
  c1 = c1
  c2 = c2
  Default = Default
  Graph = {from, into, new, Default}
  Quad = {p, q}
  Known = {from, into, Default}
  Chunk = 2
  Caller = {c1}
  Jobs <- MoveJobs
  Contents <- MCContents
  EndOfTime = 9
  FirstNow = 2
  MaxWrites = 0
  Writers <- MCWriters
  MaxNow = 3
SPECIFICATION GraphSpec
INVARIANT MoveKeepsQuads
CHECK_DEADLOCK FALSE
