----------------------------- MODULE MCBodyStore -----------------------------
EXTENDS BodyStore, TLC

CONSTANTS f1, f2, f3, m1, h1, h2

NoPeer == [m \in Merges |-> {}]
PeerOne == [m \in Merges |-> {h1}]
SameHashes == Permutations(Hashes)
SameFlows == Permutations(Flows \ Imported)
==============================================================================
