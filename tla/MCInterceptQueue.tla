--------------------------- MODULE MCInterceptQueue ---------------------------
EXTENDS InterceptQueue

CONSTANTS q1, q2, r1  \* two requests and a response

BySide == [m \in Items |-> IF m = r1 THEN "resp" ELSE "req"]
==============================================================================
