---------------------------- MODULE MCSessionLogin ----------------------------
EXTENDS SessionLogin

CONSTANTS c1, c2, c3, e1, e2
================================================================================
