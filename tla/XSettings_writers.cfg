\* A client publishes on the manager's window while another watches; the manager
\* can start again.
CONSTANTS
  m1 = m1
  m2 = m2
  w1 = w1
  w2 = w2
  w3 = w3
  c1 = c1
  c2 = c2
  Managers = {m1}
  Clients = {c1, c2}
  MaySet <- OneSets
  Windows = {w1, w2}
  Creator <- CreatorOf
  Names = {"a"}
  Values = {1}
  Root = Root
  None = None
  MaxTime = 0
  MaxSerial = 1
  MaxQueue = 2
SPECIFICATION Spec
INVARIANTS
  NothingMissed
  StampsBounded
