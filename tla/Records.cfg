CONSTANTS
  n1 = n1
  n2 = n2
  n3 = n3
  p1 = p1
  p2 = p2
  g1 = g1
  Nodes = {n1, n2, n3}
  Puts = {p1, p2}
  Gets = {g1}
  NodeOf <- MCNodeOf
  ValuesOf <- MCValuesOf
  Valid = {1, 2}
  MaxAge = 0
  MaxNow = 1
  MayFail = TRUE
  NoRecord = NoRecord
SPECIFICATION Spec
CHECK_DEADLOCK FALSE
INVARIANTS
  CorrectionReachesAll
  InvalidStaysPut
