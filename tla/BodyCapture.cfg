SPECIFICATION Spec
CONSTANTS
  h1 = h1  h2 = h2  f1 = f1  f2 = f2  f3 = f3  m1 = m1
  Hashes = {h1}
  NoHash = NoHash
  Captured = {h1}
  Flows = {f1, f2, f3}
  Edited = {}
  Imported = {f3}
  Merges = {}
  PeerBodies <- NoPeer
  PendingMax = 1
  QueueMax = 2
  ChunkMax = 2
  Leftovers = {}
  Uploads = 1
  Passes = 1
  Deletes = 1
  Failures = 1
  Rejects = TRUE
SYMMETRY SameFlows
INVARIANTS ReferencesResolve CapturedBodyKept OwnershipBalanced NothingOverlooked
CHECK_DEADLOCK FALSE
