----------------------------- MODULE MCFramePool -----------------------------
(* An instance of FramePool: small enough that the pool runs empty while     *)
(* two consumers hold packets of all its frames.                             *)
EXTENDS FramePool

CONSTANTS f1, f2, p1, p2, c1, c2

MCFrames == {f1, f2}
MCPackets == {p1, p2}
MCConsumers == {c1, c2}
=============================================================================
