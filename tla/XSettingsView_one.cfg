\* One manager; its lists only grow.
CONSTANTS
  m1 = m1
  m2 = m2
  w1 = w1
  w2 = w2
  w3 = w3
  c1 = c1
  Managers = {m1}
  Clients = {c1}
  Before <- Alphabetical
  MaySet <- OnlyRead
  Windows = {w1}
  Creator <- CreatorOf
  Names = {"a", "b", "c"}
  Values = {1, 2}
  Root = Root
  None = None
  MaxTime = 0
  MaxSerial = 2
  MaxQueue = 2
SPECIFICATION ViewSpec
INVARIANTS
  ViewExact
PROPERTIES
  SerialTellsChange
  StampsTellChanges
