\* Two managers contend for the selection, one of them twice; a client watches.
CONSTANTS
  m1 = m1
  m2 = m2
  w1 = w1
  w2 = w2
  w3 = w3
  c1 = c1
  c2 = c2
  Managers = {m1, m2}
  Clients = {c1}
  MaySet <- OnlyRead
  Windows = {w1, w2, w3}
  Creator <- CreatorOf
  Names = {"a"}
  Values = {1}
  Root = Root
  None = None
  MaxTime = 1
  MaxSerial = 0
  MaxQueue = 2
SPECIFICATION FairSpec
INVARIANTS
  TypeOK
  NothingMissed
  LoserIsTold
PROPERTIES
  ClientsCatchUp
  LosersStop
