---------------------------- MODULE MCEncChan ----------------------------
(* EncChan with two channels; all its state is bounded by itself. *)
EXTENDS EncChan

CONSTANTS c1, c2

\* Whether a picture is an I or a P picture decides only what its reader can
\* decode: no guard looks at it, nor, beyond its type, does an invariant of the
\* run that uses this view.
View ==
  <<fsmVars, status, [c \in Chans |-> frame_type[c] = "none"], b_flush,
    [c \in Chans |-> Len(frame_queue[c])], reader, engineVars, msgVars, stack,
    userVars>>
=============================================================================
