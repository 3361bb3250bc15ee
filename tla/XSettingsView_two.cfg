\* A second manager takes over with a list of its own.
CONSTANTS
  m1 = m1
  m2 = m2
  w1 = w1
  w2 = w2
  w3 = w3
  c1 = c1
  Managers = {m1, m2}
  Clients = {c1}
  Before <- Alphabetical
  MaySet <- OnlyRead
  Windows = {w1, w3}
  Creator <- CreatorOf
  Names = {"a", "b"}
  Values = {1}
  Root = Root
  None = None
  MaxTime = 0
  MaxSerial = 1
  MaxQueue = 2
SPECIFICATION ViewSpec
INVARIANTS
  ViewExact
