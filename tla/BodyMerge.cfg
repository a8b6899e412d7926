\* One merge and one edited flow, with different contents; files of earlier sessions.
SPECIFICATION Spec
CONSTANTS
  h1 = h1  h2 = h2  f1 = f1  f2 = f2  f3 = f3  m1 = m1
  Hashes = {h1, h2}
  NoHash = NoHash
  Flows = {f1}
  Edited = {f1}
  Imported = {}
  Captured = {h2}
  Merges = {m1}
  PeerBodies <- PeerOne
  PendingMax = 2
  QueueMax = 1
  ChunkMax = 1
  Leftovers = {h1, h2}
  Uploads = 1
  Passes = 2
  Deletes = 1
  Failures = 1
  Rejects = FALSE
INVARIANTS MergedBodiesKept OriginalBodyKept
CHECK_DEADLOCK FALSE
