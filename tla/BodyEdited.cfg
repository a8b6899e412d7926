SPECIFICATION Spec
CONSTANTS
  h1 = h1  h2 = h2  f1 = f1  f2 = f2  f3 = f3  m1 = m1
  Hashes = {h1, h2}
  NoHash = NoHash
  Captured = {h1, h2}
  Flows = {f1, f2}
  Edited = {f1}
  Imported = {}
  Merges = {}
  PeerBodies <- NoPeer
  PendingMax = 2
  QueueMax = 4
  ChunkMax = 2
  Leftovers = {}
  Uploads = 0
  Passes = 1
  Deletes = 1
  Failures = 0
  Rejects = FALSE
SYMMETRY SameHashes
INVARIANTS CapturedBodyKept
CHECK_DEADLOCK FALSE
