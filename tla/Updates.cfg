CONSTANTS
  a = a
  b = b
  g = g
  one = one
  two = two
  edge = edge
  name = name
  type = type
  tc = tc
  back = back
  x = x
  y = y
  z = z
  w = w
  pz = pz
  pw = pw
  c1 = c1
  c2 = c2
  Client = {c1, c2}
  Node = {a, b, g}
  Literal = {one, two}
  Pred = {edge, name, type, tc, back}
  Graph = {g}
  Default = Default
  Var = {x, y, z, w, pz, pw}
  PredVar = {pz, pw}
  RdfType = type
  EdgeTypes <- MCEdgeTypes
  AsPred <- MCAsPred
  NodeOf <- MCNodeOf
  Blank = Blank
  Union = Union
  Unlimited = Unlimited
  EndOfTime = 9
  Now = 2
  Starts <- MCStarts
SPECIFICATION UpdateSpec
INVARIANTS
  JoinIsConjunction
  RulesReachLeastModel
  UpdatesDoWhatTheySay
  NothingItWritesHasChanged
PROPERTY
  RequestsEnd
CHECK_DEADLOCK FALSE
