------------------------------ MODULE CallOnce ------------------------------
(***************************************************************************)
(* What is promised to threads that hand work to another thread, whatever  *)
(* queues, locks, counts and shutdowns are in between: the work that was   *)
(* taken runs once, never work that was refused, and never after the       *)
(* service closed; who waits for its end goes on after it, or when the     *)
(* service is closing.                                                     *)
(***************************************************************************)
EXTENDS Naturals

CONSTANT Calls

VARIABLES
  caller,   \* per call: "start", "asked", "returned" or "refused"
  ran,      \* per call: how often its work was started
  open      \* the service runs work

vars == <<caller, ran, open>>

Init ==
  /\ caller = [c \in Calls |-> "start"]
  /\ ran = [c \in Calls |-> 0]
  /\ open = TRUE

Caller(c, from, to) ==
  caller[c] = from /\ caller' = [caller EXCEPT ![c] = to]

Ask(c) == Caller(c, "start", "asked") /\ UNCHANGED <<ran, open>>

Refuse(c) == Caller(c, "start", "refused") /\ UNCHANGED <<ran, open>>

Run(c) ==
  /\ open /\ caller[c] = "asked" /\ ran[c] = 0
  /\ ran' = [ran EXCEPT ![c] = 1]
  /\ UNCHANGED <<caller, open>>

Return(c) ==
  /\ ran[c] = 1 \/ ~open
  /\ Caller(c, "asked", "returned") /\ UNCHANGED <<ran, open>>

Close == open /\ open' = FALSE /\ UNCHANGED <<caller, ran>>

Next ==
  \/ Close
  \/ \E c \in Calls : Ask(c) \/ Refuse(c) \/ Run(c) \/ Return(c)

Spec == Init /\ [][Next]_vars

\* What was taken runs.
AllRun == \A c \in Calls : caller[c] = "asked" ~> ran[c] = 1
=============================================================================
