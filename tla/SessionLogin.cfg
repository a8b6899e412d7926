\* Two calls, requests or runs by hand, and an edit.
SPECIFICATION FairSpec
CONSTANTS
  c1 = c1  c2 = c2  c3 = c3  e1 = e1  e2 = e2
  Callers = {c1, c2}
  Edits = {e1}
  Notes = {n1, n2}
  MaxCalls = 1
  MaxEdits = 1
  MaxLogins = 2
INVARIANTS OneSharedLogin OneLoginPerGeneration StoredIsLive
PROPERTIES OnlyTheTargetIsWaitedFor
CHECK_DEADLOCK FALSE
