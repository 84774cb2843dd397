----------------------------- MODULE MCVideoBuf -----------------------------
EXTENDS VideoBuf

CONSTANTS f1, f2, p1, p2, p3

TwoFrames == {f1, f2}
ThreePackets == {p1, p2, p3}
SmallAndLarge == {1, 2}
=============================================================================
