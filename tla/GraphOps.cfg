CONSTANTS
  from = from
  into = into
  new = new
  p = p
  c1 = c1
  c2 = c2
  q = q
  Default = Default
  Graph = {from, into, new, Default}
  Quad = {p, q}
  Known = {from, into, Default}
  Chunk = 1
  Caller = {c1, c2}
  Jobs <- MCJobs
  Contents <- MCContents
  EndOfTime = 9
  FirstNow = 2
  MaxWrites = 1
  Writers <- MCWriters
  MaxNow = 3
SPECIFICATION GraphSpec
INVARIANTS
  GraphTypeOK
  LoggedIsDone
  CopiesShow
  PartialIsFlagged
  GraphsAreAnnounced
PROPERTY
  HistoryStays
CHECK_DEADLOCK FALSE
