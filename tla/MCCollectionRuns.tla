---------------------------- MODULE MCCollectionRuns ----------------------------
EXTENDS CollectionRuns, TLC

CONSTANTS r1, r2, r3, o1, o2
================================================================================
