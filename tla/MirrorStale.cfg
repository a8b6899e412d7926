SPECIFICATION Spec
CONSTANTS
  q1 = q1
  q2 = q2
  r1 = r1
  Items = {q1}
  SideOf <- BySide
  MaxSeq = 3
  Fetches = {f1, f2}
  Buffer = 3
  MaxCuts = 0
SYMMETRY Alike
INVARIANT QuietIsExact
CHECK_DEADLOCK FALSE
