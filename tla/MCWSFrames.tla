------------------------------- MODULE MCWSFrames -------------------------------
EXTENDS WSFrames, TLC

CONSTANTS f1, f2, c1, c2
================================================================================
