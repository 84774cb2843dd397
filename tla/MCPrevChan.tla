---------------------------- MODULE MCPrevChan ----------------------------
(* PrevChan with few channels; all its state is bounded by itself. *)
EXTENDS PrevChan
=============================================================================
