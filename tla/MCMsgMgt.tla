------------------------------ MODULE MCMsgMgt ------------------------------
(* Three concurrent calls. *)
EXTENDS MsgMgt

CONSTANTS c1, c2, c3

MCCalls == {c1, c2, c3}
=============================================================================
