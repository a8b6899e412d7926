\* Two flows and one caller with two calls; a buffer of three, batches of two, two rows kept.
SPECIFICATION FairSpec
CONSTANTS
  f1 = f1  f2 = f2  c1 = c1  c2 = c2
  Flows = {f1, f2}
  Callers = {c1}
  BufCap = 3
  BatchSize = 2
  PerFlow = 2
  MaxFrames = 4
  MaxCalls = 2
INVARIANTS Accounted Retained DeletedStayGone
PROPERTIES FramesSettle
CHECK_DEADLOCK FALSE
