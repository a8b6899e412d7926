\* Capture and shutdown: no client, two flows, a buffer of three, chunks of two.
CONSTANTS
  BufCap = 3
  BatchMax = 2
  PassMax = 1
  WaitMax = 2
  MaxFlows = 2
  MaxWrites = 5
  Bad = {2}
  Clients = {}
SPECIFICATION FairSpec
INVARIANTS NoLostWakeup BusyIsExact DroppedIsExact RowsMatchFates
PROPERTIES EveryWriteSettles CloseTerminates PromiseSpec
CHECK_DEADLOCK FALSE
