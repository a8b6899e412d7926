------------------------- MODULE MCFlowWriteBehind -------------------------
(* Small instances of FlowWriteBehind for TLC. *)
EXTENDS FlowWriteBehind
=============================================================================
