----------------------------- MODULE EncStream -----------------------------
(***************************************************************************)
(* What an encode channel promises to whoever reads it, whatever goes on   *)
(* between the chip, the threads and the other channels.                   *)
(*                                                                         *)
(* A channel gives frames only while it is on, and no frame of an earlier  *)
(* opening.  A P frame follows the picture it refers to: once a picture    *)
(* was lost, or the chip got another reference, an I frame comes first.    *)
(***************************************************************************)
EXTENDS Naturals, Sequences

CONSTANTS Chans, FRAMES

VARIABLES
  mode,              \* per channel: "closed", "off" or "on"
  out,               \* per channel: the types of the frames to be read
  gap                \* per channel: a P frame could not be decoded

vars == <<mode, out, gap>>

Init ==
  /\ mode = [c \in Chans |-> "closed"]
  /\ out = [c \in Chans |-> <<>>]
  /\ gap = [c \in Chans |-> TRUE]

Goes(c, from, to) == mode[c] = from /\ mode' = [mode EXCEPT ![c] = to]

Open(c) == Goes(c, "closed", "off") /\ out[c] = <<>> /\ UNCHANGED <<out, gap>>

Enable(c) ==
  Goes(c, "off", "on") /\ gap' = [gap EXCEPT ![c] = TRUE] /\ UNCHANGED out

Disable(c) == Goes(c, "on", "off") /\ UNCHANGED <<out, gap>>

Close(c) ==
  /\ mode[c] # "closed" /\ mode' = [mode EXCEPT ![c] = "closed"]
  /\ UNCHANGED <<out, gap>>

Encode(c, type) ==
  /\ mode[c] = "on" /\ Len(out[c]) < FRAMES
  /\ type = "I" \/ ~gap[c]
  /\ out' = [out EXCEPT ![c] = Append(@, type)]
  /\ gap' = [gap EXCEPT ![c] = FALSE]
  /\ UNCHANGED mode

\* A picture that was encoded is dropped, or all that wait to be read are.
Lose(c) ==
  /\ gap' = [gap EXCEPT ![c] = TRUE]
  /\ \/ UNCHANGED out
     \/ out' = [out EXCEPT ![c] = <<>>]
  /\ UNCHANGED mode

Read(c) ==
  /\ mode[c] # "closed" /\ out[c] # <<>>
  /\ out' = [out EXCEPT ![c] = Tail(@)]
  /\ UNCHANGED <<mode, gap>>

Next ==
  \E c \in Chans :
    \/ Open(c) \/ Enable(c) \/ Disable(c) \/ Close(c) \/ Lose(c) \/ Read(c)
    \/ \E type \in {"I", "P"} : Encode(c, type)

Spec == Init /\ [][Next]_vars
=============================================================================
