SPECIFICATION Spec
CONSTANTS
  q1 = q1
  q2 = q2
  r1 = r1
  Items = {q1, q2}
  SideOf <- BySide
  MaxSeq = 3
  Fetches = {f1, f2}
  Buffer = 1
  MaxCuts = 1
SYMMETRY Alike
INVARIANTS MirrorIsPast
PROPERTIES RemovedStaysRemoved
CHECK_DEADLOCK FALSE
