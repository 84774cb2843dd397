---------------------------- MODULE MCFileAlloc ----------------------------
EXTENDS FileAlloc

CONSTANTS c1, c2

OneChan == {c1}
TwoChans == {c1, c2}
Videos == {"video"}
VideosAndShots == {"video", "shot"}
=============================================================================
