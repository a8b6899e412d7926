\* Three runs, two at a time, the last one kept.
SPECIFICATION FairSpec
CONSTANTS
  r1 = r1  r2 = r2  r3 = r3  o1 = o1  o2 = o2
  Runs = {r1, r2, r3}
  Operators = {o1, o2}
  MaxActive = 2
  Keep = 1
  MaxRequests = 1
  MaxOps = 2
INVARIANTS ActiveBounded KeptAreTheLast FirstAnswerCounts
PROPERTIES AbortedEnds
CHECK_DEADLOCK FALSE
