----------------------------- MODULE MCProxyConnect -----------------------------
EXTENDS ProxyConnect, TLC

CONSTANTS h1, h2, c1, c2, c3

OneRoute == <<"upstream">>
SomeLists == {{h1}}

================================================================================
