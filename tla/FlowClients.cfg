\* One client that reads and deletes flows while they are captured.
CONSTANTS
  BufCap = 2
  BatchMax = 2
  PassMax = 1
  WaitMax = 2
  MaxFlows = 2
  MaxWrites = 3
  Bad = {2}
  Clients = {c1}
SPECIFICATION FairSpec
INVARIANTS ReadsSeeCapture DeletedStaysDeleted
PROPERTIES CallsReturn 
CHECK_DEADLOCK FALSE
