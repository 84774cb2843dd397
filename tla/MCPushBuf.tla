------------------------------ MODULE MCPushBuf ------------------------------
(* Two channels, which want four pictures, over three buffers: requests of  *)
(* D1 run out of buffers, requests of CIF and QCIF share them.              *)
EXTENDS PushBuf, TLC

CONSTANTS c1, c2

MCChans == {c1, c2}
ChanSymmetry == Permutations(MCChans)
=============================================================================
