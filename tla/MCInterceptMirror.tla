-------------------------- MODULE MCInterceptMirror --------------------------
EXTENDS InterceptMirror, TLC

CONSTANTS q1, q2, r1  \* two requests and a response

BySide == [m \in Items |-> IF m = r1 THEN "resp" ELSE "req"]

\* Requests are alike, and so are fetches.
Alike == Permutations(Items \ {r1}) \cup Permutations(Fetches)
==============================================================================
