\* Three containers on a heap that has no room for a leak.
CONSTANTS
  Handles = {h1, h2, h3}
  h1 = h1
  h2 = h2
  h3 = h3
  c1 = c1
  c2 = c2
  s1 = s1
  s2 = s2
  nan = nan
  path = path
  dict = dict
  Cells = {c1, c2}
  None = None
  Freed = Freed
  Data <- MCData
  TypeOf <- MCTypeOf
  NaNs = {nan}
  Items <- MCItems
  MaxLen = 2
SYMMETRY Alike
SPECIFICATION EdbusSpec
INVARIANTS
  TypeOK
  CountsExact
  DictsStayWellFormed
  ArraysStayOneType
PROPERTIES
  SharingInvisible
  DictsAreMaps
