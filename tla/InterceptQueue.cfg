SPECIFICATION Spec
CONSTANTS
  q1 = q1
  q2 = q2
  r1 = r1
  Items = {q1, q2, r1}
  SideOf <- BySide
  Operators = {c1, c2}
  MaxSeq = 4
INVARIANTS NeverStranded ScheduledDropWins OffHoldsNothing EveryChangeCounted
PROPERTIES TakenIsAnswered
CHECK_DEADLOCK FALSE
