------------------------------- MODULE Handshakes -------------------------------
(***************************************************************************)
(* What the leaf cache, the bypass list and the CONNECT handler share.      *)
(***************************************************************************)
CONSTANTS
  Hosts,  \* names a client may connect to
  Conns   \* connections that may be in their handshake at once

ASSUME HostsAssumption == Hosts # {}
================================================================================
