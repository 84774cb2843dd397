--------------------------- MODULE PrevChanProofs ---------------------------
(***************************************************************************)
(* PrevChan for any channels.  On one processor a call and the tasklet     *)
(* never overlap: the tasklet handles an event only that the running call  *)
(* has raised and not yet read, so the state that a call has read stays    *)
(* good, whatever it is that the tasklet delivers meanwhile, and the value *)
(* of VP_CHANNEL_EN it has read is current when it is written back.  With  *)
(* SMP none of this holds; that a channel is still no more than twice open *)
(* rests on the tasklet's having to find a machine running to handle a     *)
(* pending open event.                                                     *)
(***************************************************************************)
EXTENDS PrevChan, TLAPS

Running == {"STANDBY", "TRANSFERING", "DONE"}
Off == {"UNREGISTER", "SUSPEND"}
Held == {"event", "remap", "free", "alloc", "resume", "end"}

\* The events that a call drives.
Drive(k) ==
  CASE k = "open" -> {"open"}
    [] k = "close" -> {"close"}
    [] k \in {"reqbufs", "streamoff"} -> {"suspend"}
    [] k = "streamon" -> {"resume"}
    [] k = "s_fmt" -> {"suspend", "resume"}
    [] k = "none" -> {}

TypeInv ==
  /\ curr_state \in [Chans -> States]
  /\ pending \in [Chans -> SUBSET Events]
  /\ done \in [Chans -> SUBSET Waited]
  /\ opened_flag \in [Chans -> Nat]
  /\ stream_on \in [Chans -> BOOLEAN]
  /\ nbuffers \in [Chans -> {0, 1}]
  /\ en \subseteq Chans /\ chan_flag \subseteq Chans /\ todo \subseteq Chans
  /\ pci_push \in BOOLEAN /\ cpus \in CPUS
  /\ vp_mutex \subseteq Chans /\ cpu \subseteq Chans
  /\ call \in [Chans -> Calls] /\ pc \in [Chans -> Pcs]
  /\ want \in [Chans -> {0, 1}]
  /\ ctx \in [Actors -> Ctx]

\* A call drives the events that belong to it, on its own channel unless it
\* is S_FMT.
CallInv ==
  \A c \in Chans :
    /\ ctx[c].step = "none" <=> pc[c] # "event"
    /\ pc[c] = "idle" <=> call[c] = "none"
    /\ pc[c] = "lock" => call[c] \in {"streamon", "streamoff", "s_fmt"}
    /\ pc[c] \in {"remap", "resume"} => call[c] = "s_fmt"
    /\ pc[c] = "dead" => call[c] = "open"
    /\ pc[c] = "free" => call[c] \in {"reqbufs", "s_fmt", "close"}
    /\ pc[c] = "alloc" => call[c] \in {"reqbufs", "s_fmt"}
    /\ pc[c] = "event" =>
         /\ ctx[c].ev \in Drive(call[c]) /\ ctx[c].step \notin {"check", "trigger"}
         /\ call[c] # "s_fmt" => ctx[c].chan = c

\* The tasklet never waits and raises no event but close.
TaskletInv ==
  /\ ctx[TASKLET].step \notin {"wait", "asleep", "lost"}
  /\ ctx[TASKLET].step = "raise" => ctx[TASKLET].ev = "close"
  /\ ctx[TASKLET].step = "check" => ctx[TASKLET].ev = "deliver"
  /\ ctx[TASKLET].step \in {"trigger", "load", "store"} => ctx[TASKLET].ev # "deliver"
  /\ \A a \in Actors : ctx[a].step \in {"load", "store"} => ctx[a].ev # "open"

\* A call, and the tasklet, about to open channel c.
Opening(c) == ctx[c].step \in {"raise", "read", "act"} /\ ctx[c].ev = "open"
OpeningToo(c) ==
  LET t == ctx[TASKLET]
  IN t.step \in {"read", "act"} /\ t.ev = "open" /\ t.chan = c

\* The tasklet takes channel c for running.
Hot(c) ==
  LET t == ctx[TASKLET]
  IN /\ t.chan = c
     /\ \/ t.ev = "deliver" /\ (t.step = "check" \/ (t.step = "act" /\ t.st \in Running))
        \/ t.ev = "open" /\ t.step \in {"trigger", "read", "act"}

\* What keeps a channel from being opened a third time.
OpenInv ==
  \A c \in Chans :
    /\ opened_flag[c] \in 0 .. 2
    /\ "open" \in pending[c] => ctx[c].step = "read" /\ ctx[c].ev = "open"
    /\ OpeningToo(c) => opened_flag[c] <= 1
    /\ Opening(c) /\ opened_flag[c] # 0 =>
         /\ opened_flag[c] = 1 /\ ~Hot(c)
         /\ curr_state[c] \in Off /\ ~stream_on[c]
    /\ call[c] = "close" /\ opened_flag[c] = 0 => ~stream_on[c]
    /\ /\ Hot(c) /\ opened_flag[c] = 0
       /\ \/ curr_state[c] = "UNREGISTER"
          \/ OpeningToo(c) /\ ctx[TASKLET].step = "act" /\ ctx[TASKLET].st = "UNREGISTER"
       => ~stream_on[c] /\ pc[c] # "lock"

Inv == TypeInv /\ CallInv /\ TaskletInv /\ OpenInv

-----------------------------------------------------------------------------
\* One processor: who holds it, and vp_mutex.
LockInv ==
  /\ \A c \in Chans : c \in cpu <=> pc[c] \in Held \ {"alloc"}
  /\ \A c, d \in cpu : c = d
  /\ \A c \in Chans :
       c \in vp_mutex <=>
         pc[c] \in Held /\ call[c] \in {"streamon", "streamoff", "s_fmt"}
  /\ \A c, d \in vp_mutex : c = d

\* A channel is at most once open; it is registered exactly while it is open,
\* but for a close under way.
StateInv ==
  \A c \in Chans :
    /\ opened_flag[c] \in {0, 1}
    /\ opened_flag[c] = 0 => curr_state[c] = "UNREGISTER"
    /\ Opening(c) => opened_flag[c] = 0

\* What a call has read stays good: whether its channel runs.
ReadInv ==
  \A c \in Chans :
    /\ ctx[c].step \notin {"asleep", "lost"}
    /\ ctx[c].step = "act" =>
         \/ ctx[c].st \in {"STANDBY", "DONE"} /\ curr_state[ctx[c].chan] \in Running
         \/ ctx[c].st \in Off /\ curr_state[ctx[c].chan] = ctx[c].st

\* The call that has raised event e on channel d, and not read it.
Raised(c, e, d) == ctx[c].step = "read" /\ ctx[c].ev = e /\ ctx[c].chan = d

\* The tasklet: what it has read is so, and it handles what a call has raised.
FrameInv ==
  LET t == ctx[TASKLET]
  IN /\ t.step = "act" => t.st = curr_state[t.chan]
     /\ t.step = "check" => curr_state[t.chan] = "DONE"
     /\ t.ev = "open" /\ t.step # "none" =>
          t.step = "trigger" /\ curr_state[t.chan] = "DONE"
     /\ \A d \in Chans : curr_state[d] = "TRANSFERING" =>
          t.chan = d /\ t.ev = "deliver" /\ t.step \in {"read", "act"}
     /\ \A d \in Chans : \A e \in pending[d] : \E c \in Chans : Raised(c, e, d)
     /\ t.step # "none" /\ t.ev # "deliver" =>
          \E c \in Chans :
            /\ ctx[c].step = "read" /\ ctx[c].chan = t.chan
            /\ t.step # "trigger" => ctx[c].ev = t.ev

\* Actor a changes VP_CHANNEL_EN for channel d.
Switches(a, e, d) ==
  ctx[a].chan = d /\ ctx[a].ev = e /\ ctx[a].step \in {"load", "store"}
\* It is going to, when it finds the channel closed.
Closes(a, d) ==
  /\ ctx[a].chan = d /\ ctx[a].ev = "close"
  /\ ctx[a].step \in {"raise", "read", "act"} /\ opened_flag[d] = 1

EnInv ==
  /\ \A a \in Actors :
       /\ ctx[a].step = "store" => ctx[a].reg = en
       /\ ctx[a].step \in {"load", "store"} =>
            /\ ctx[a].ev = "suspend" => curr_state[ctx[a].chan] = "SUSPEND"
            /\ ctx[a].ev = "resume" => curr_state[ctx[a].chan] \in Running
            /\ ctx[a].ev = "close" => curr_state[ctx[a].chan] = "UNREGISTER"
  /\ \A d \in en : curr_state[d] \in Off =>
       \E a \in Actors :
         Switches(a, "suspend", d) \/ Switches(a, "close", d) \/ Closes(a, d)
  /\ \A d \in Chans \ en : curr_state[d] \in Running =>
       \E a \in Actors : Switches(a, "resume", d)

\* The completions.
DoneInv ==
  /\ \A c \in Chans : ctx[c].step = "wait" =>
       ctx[c].ev = "open" \/ ctx[c].ev \in done[ctx[c].chan]
  /\ \A d \in Chans : opened_flag[d] = 0 =>
       "close" \in done[d] \/ \E a \in Actors : Switches(a, "close", d)

Quiet(d) == curr_state[d] \in Off /\ d \notin en

\* Frames are given back only by a channel that is quiet; S_FMT has them all
\* quiet from its suspending them to its resuming them.
QuietInv ==
  \A c \in Chans :
    /\ ctx[c].step = "wait" /\ ctx[c].ev \in {"suspend", "close"} => Quiet(ctx[c].chan)
    /\ pc[c] = "free" => Quiet(c)
    /\ pc[c] = "event" /\ call[c] = "s_fmt" /\ ctx[c].ev = "suspend" =>
         \A d \in Chans : d < ctx[c].chan => Quiet(d)
    /\ pc[c] \in {"remap", "free", "alloc", "resume"} /\ call[c] = "s_fmt" =>
         \A d \in Chans : Quiet(d)

\* A channel that runs has frames, so none that waits for memory does, and the
\* chip is on the bus.
BufInv ==
  /\ \A d \in Chans : d \in en \/ curr_state[d] \in Running => nbuffers[d] = 1
  /\ ~pci_push =>
       \E c \in Chans : call[c] = "s_fmt" /\ pc[c] \in {"free", "alloc", "resume"}
  /\ \A c \in Chans : pc[c] = "alloc" => nbuffers[c] = 0

\* A channel that runs is on, or its STREAMOFF is about to suspend it.
OnInv ==
  \A c \in Chans : curr_state[c] \in Running /\ ~stream_on[c] =>
    /\ pc[c] = "event" /\ call[c] = "streamoff"
    /\ \/ ctx[c].step \in {"raise", "read"}
       \/ ctx[c].step = "act" /\ ctx[c].st \in Running

\* A call moves while the tasklet is idle, so its steps are alone.
AloneInv ==
  /\ LockInv /\ StateInv /\ ReadInv /\ FrameInv /\ EnInv
  /\ DoneInv /\ QuietInv /\ BufInv /\ OnInv

IInv == Inv /\ (~SMP => AloneInv)

-----------------------------------------------------------------------------
(* What the operators do *)

LEMMA Numbers == TASKLET \notin Chans /\ 1 \in Chans /\ Chans \subseteq Actors /\ TASKLET \in Actors
  BY ChanAssumption DEF TASKLET, Chans, Actors

LEMMA NoEventIs ==
  /\ NoEvent \in Ctx /\ NoEvent.step = "none" /\ NoEvent.ev = "open" /\ NoEvent.chan = 1
  BY Numbers DEF NoEvent, Ctx, Steps, Events, States

LEMMA EventIs ==
  ASSUME NEW e \in Events \cup {"deliver"}, NEW c \in Chans
  PROVE  /\ Event(e, c) \in Ctx
         /\ Event(e, c).step = "raise" /\ Event(e, c).ev = e /\ Event(e, c).chan = c
  BY Numbers DEF Event, NoEvent, Ctx, Steps, Events, States

LEMMA GoesIs ==
  ASSUME TypeInv, NEW a \in Actors, NEW s \in Steps, Goes(a, s)
  PROVE  /\ ctx' \in [Actors -> Ctx]
         /\ \A b \in Actors : b # a => ctx'[b] = ctx[b]
         /\ ctx'[a].step = s /\ ctx'[a].ev = ctx[a].ev /\ ctx'[a].chan = ctx[a].chan
<1>1. ctx \in [Actors -> Ctx] /\ ctx[a] \in Ctx
  BY DEF TypeInv
<1> DEFINE g == [ctx[a] EXCEPT !.step = s, !.st = "UNREGISTER"]
<1>2. /\ g \in Ctx /\ g.step = s /\ g.ev = ctx[a].ev /\ g.chan = ctx[a].chan
  BY <1>1 DEF Ctx, States
<1>3. ctx' = [ctx EXCEPT ![a] = g]
  BY <1>1 DEF Goes
<1> HIDE DEF g
<1> QED  BY <1>1, <1>2, <1>3

LEMMA ThroughIs ==
  ASSUME TypeInv, NEW a \in Actors, EventThrough(a)
  PROVE  /\ ctx' \in [Actors -> Ctx]
         /\ \A b \in Actors : b # a => ctx'[b] = ctx[b]
         /\ a # TASKLET => /\ ctx'[a].step = "wait" /\ ctx'[a].ev = ctx[a].ev
                           /\ ctx'[a].chan = ctx[a].chan
         /\ a = TASKLET /\ ctx[a].ev \in {"open", "suspend", "resume"} =>
              /\ ctx'[a].step = "trigger" /\ ctx'[a].chan = ctx[a].chan
              /\ ctx'[a].ev = NextFlag[ctx[a].ev]
              /\ ctx'[a].ev \in {"suspend", "resume", "close"}
         /\ a = TASKLET /\ ctx[a].ev \in {"close", "deliver"} => ctx'[a] = NoEvent
<1>1. CASE a # TASKLET
  <2>1. Through(a) = [NoEvent EXCEPT !.step = "wait", !.ev = ctx[a].ev, !.chan = ctx[a].chan]
    BY <1>1 DEF Through
  <2>2. /\ Through(a) \in Ctx /\ Through(a).step = "wait" /\ Through(a).ev = ctx[a].ev
        /\ Through(a).chan = ctx[a].chan
    BY <2>1 DEF TypeInv, NoEvent, Ctx, Steps, States
  <2> QED  BY <1>1, <2>2 DEF EventThrough, TypeInv
<1>2. CASE a = TASKLET /\ ctx[a].ev \in {"open", "suspend", "resume"}
  <2>1. /\ Through(a) = [NoEvent EXCEPT !.step = "trigger", !.ev = NextFlag[ctx[a].ev],
                                        !.chan = ctx[a].chan]
        /\ NextFlag[ctx[a].ev] \in {"suspend", "resume", "close"}
    BY <1>2 DEF Through, NextFlag
  <2>2. /\ Through(a) \in Ctx /\ Through(a).step = "trigger"
        /\ Through(a).ev = NextFlag[ctx[a].ev] /\ Through(a).chan = ctx[a].chan
    BY <2>1 DEF TypeInv, NoEvent, Ctx, Steps, States, Events
  <2> QED  BY <1>2, <2>1, <2>2 DEF EventThrough, TypeInv
<1>3. CASE a = TASKLET /\ ctx[a].ev \in {"close", "deliver"}
  <2>1. Through(a) = NoEvent
    BY <1>3 DEF Through, NextFlag
  <2> QED  BY <1>3, <2>1, NoEventIs DEF EventThrough, TypeInv
<1> QED  BY <1>1, <1>2, <1>3 DEF TypeInv, Ctx, Events

-----------------------------------------------------------------------------
(* The steps of an actor with its event keep Inv *)

LEMMA EventOf ==
  ASSUME Inv, NEW a \in Actors
  PROVE  /\ ctx[a] \in Ctx /\ ctx[a].chan \in Chans
         /\ a # TASKLET => a \in Chans
         /\ a \in Chans /\ ctx[a].step # "none" =>
              /\ pc[a] = "event" /\ ctx[a].ev \in Drive(call[a])
              /\ ctx[a].step \notin {"check", "trigger"} /\ ctx[a].ev \in Events
              /\ ctx[a].ev \in {"open", "close"} => ctx[a].chan = a
              /\ ctx[a].ev = "open" => call[a] = "open"
              /\ ctx[a].ev = "close" => call[a] = "close"
<1>1. ctx[a] \in Ctx
  BY DEF Inv, TypeInv
<1>2. ctx[a].chan \in Chans /\ (a # TASKLET => a \in Chans)
  BY <1>1 DEF Ctx, Actors
<1>3. ASSUME a \in Chans, ctx[a].step # "none"
      PROVE  /\ pc[a] = "event" /\ ctx[a].ev \in Drive(call[a])
             /\ ctx[a].step \notin {"check", "trigger"} /\ ctx[a].ev \in Events
             /\ ctx[a].ev \in {"open", "close"} => ctx[a].chan = a
             /\ ctx[a].ev = "open" => call[a] = "open"
             /\ ctx[a].ev = "close" => call[a] = "close"
  <2>1. /\ pc[a] = "event" /\ ctx[a].ev \in Drive(call[a])
        /\ ctx[a].step \notin {"check", "trigger"}
        /\ call[a] # "s_fmt" => ctx[a].chan = a
    BY <1>3 DEF Inv, CallInv
  <2>2. /\ Drive(call[a]) \subseteq Events
        /\ "open" \in Drive(call[a]) => call[a] = "open"
        /\ "close" \in Drive(call[a]) => call[a] = "close"
    <3>1. call[a] \in Calls
      BY <1>3 DEF Inv, TypeInv
    <3> QED  BY <3>1 DEF Drive, Calls, Events
  <2> QED  BY <2>1, <2>2
<1> QED  BY <1>1, <1>2, <1>3

LEMMA RaiseStep ==
  ASSUME Inv, NEW a \in Actors, Raise(a)
  PROVE  Inv'
<1>1. TypeInv /\ CallInv /\ TaskletInv /\ OpenInv
  BY DEF Inv
<1> DEFINE e == ctx[a].ev
           c == ctx[a].chan
<1>2. /\ c \in Chans /\ e \in Events /\ ctx[a].step = "raise"
      /\ a # TASKLET => a \in Chans
      /\ e = "open" => a = c
  <2>1. ctx[a].step = "raise"
    BY DEF Raise
  <2>2. a = TASKLET => ctx[a].ev = "close"
    BY <1>1, <2>1 DEF TaskletInv
  <2> QED  BY <2>1, <2>2, EventOf DEF Events
<1>3. /\ UNCHANGED <<chanVars, curr_state, en, hwVars, callVars, todo>>
      /\ pending' \in [Chans -> SUBSET Events] /\ pending'[c] = pending[c] \cup {e}
      /\ \A d \in Chans : d # c => pending'[d] = pending[d]
      /\ done' \in [Chans -> SUBSET Waited]
  BY <1>1, <1>2 DEF Raise, TypeInv
<1>4. /\ ctx' \in [Actors -> Ctx]
      /\ ctx'[a].step = "read" /\ ctx'[a].ev = e /\ ctx'[a].chan = c
      /\ \A b \in Actors : b # a =>
           /\ ctx'[b].ev = ctx[b].ev /\ ctx'[b].chan = ctx[b].chan /\ ctx'[b].st = ctx[b].st
           /\ \/ ctx'[b].step = ctx[b].step
              \/ ctx[b].step = "asleep" /\ ctx'[b].step = "lost"
  <2> DEFINE Lost(b) == e \in {"suspend", "resume"} /\ SleepsOn(b, e, c)
             F(b) == IF b = a THEN [ctx[a] EXCEPT !.step = "read"]
                     ELSE IF Lost(b) THEN [ctx[b] EXCEPT !.step = "lost"] ELSE ctx[b]
  <2>1. ctx' = [b \in Actors |-> F(b)]
    BY DEF Raise
  <2>2. ASSUME NEW b \in Actors
        PROVE  /\ F(b) \in Ctx /\ F(b).ev = ctx[b].ev /\ F(b).chan = ctx[b].chan
               /\ b # a => F(b).st = ctx[b].st
               /\ b = a => F(b).step = "read"
               /\ b # a => \/ F(b).step = ctx[b].step
                           \/ ctx[b].step = "asleep" /\ F(b).step = "lost"
    <3>1. ctx[b] \in Ctx
      BY <1>1 DEF TypeInv
    <3> QED  BY <3>1 DEF Ctx, Steps, SleepsOn
  <2> HIDE DEF F
  <2> QED  BY <2>1, <2>2
<1> HIDE DEF e, c
<1>5. TypeInv'
  BY <1>1, <1>3, <1>4 DEF TypeInv, chanVars, hwVars, callVars
<1>6. CallInv'
  BY <1>1, <1>2, <1>3, <1>4, Numbers DEF CallInv, callVars, e, c
<1>7. TaskletInv'
  BY <1>1, <1>2, <1>4, Numbers DEF TaskletInv, e
<1>8. OpenInv'
  BY <1>1, <1>2, <1>3, <1>4, Numbers
     DEF OpenInv, Opening, OpeningToo, Hot, chanVars, callVars, TaskletInv, e, c
<1> QED  BY <1>5, <1>6, <1>7, <1>8 DEF Inv

LEMMA ReadStep ==
  ASSUME Inv, NEW a \in Actors, Read(a)
  PROVE  Inv'
<1>1. TypeInv /\ CallInv /\ TaskletInv /\ OpenInv
  BY DEF Inv
<1> DEFINE e == ctx[a].ev
           c == ctx[a].chan
<1>2. /\ ctx[a] \in Ctx /\ c \in Chans /\ ctx[a].step = "read"
      /\ a # TASKLET => a \in Chans
      /\ a \in Chans => pc[a] = "event" /\ (e \in {"open", "close"} => a = c)
  <2>1. ctx[a].step = "read"
    BY DEF Read
  <2> QED  BY <2>1, EventOf
<1>3. /\ UNCHANGED <<chanVars, curr_state, done, en, hwVars, callVars, todo>>
      /\ pending' \in [Chans -> SUBSET Events] /\ pending'[c] = pending[c] \ {e}
      /\ \A d \in Chans : d # c => pending'[d] = pending[d]
  BY <1>1, <1>2 DEF Read, TypeInv
<1>4. /\ ctx' \in [Actors -> Ctx]
      /\ \A b \in Actors : b # a => ctx'[b] = ctx[b]
      /\ ctx'[a].step = "act" /\ ctx'[a].ev = e /\ ctx'[a].chan = c
      /\ ctx'[a].st = curr_state[c]
  <2> DEFINE g == [ctx[a] EXCEPT !.step = "act", !.st = curr_state[c]]
  <2>1. g \in Ctx /\ g.step = "act" /\ g.ev = e /\ g.chan = c /\ g.st = curr_state[c]
    <3>1. curr_state[c] \in States
      BY <1>1, <1>2 DEF TypeInv
    <3> QED  BY <1>2, <3>1 DEF Ctx, Steps
  <2>2. ctx \in [Actors -> Ctx] /\ ctx' = [ctx EXCEPT ![a] = g]
    BY <1>1 DEF Read, TypeInv
  <2> HIDE DEF g
  <2> QED  BY <2>1, <2>2
<1> HIDE DEF e, c
<1>5. TypeInv'
  BY <1>1, <1>3, <1>4 DEF TypeInv, chanVars, hwVars, callVars
<1>6. CallInv'
  BY <1>1, <1>2, <1>3, <1>4, Numbers DEF CallInv, callVars, e, c
<1>7. TaskletInv'
  BY <1>1, <1>2, <1>4, Numbers DEF TaskletInv, e
<1>8. OpenInv'
  BY <1>1, <1>2, <1>3, <1>4, Numbers
     DEF OpenInv, Opening, OpeningToo, Hot, Running, Off, chanVars, callVars, e, c
<1> QED  BY <1>5, <1>6, <1>7, <1>8 DEF Inv

LEMMA ActSuspendStep ==
  ASSUME Inv, NEW a \in Actors, ActSuspend(a)
  PROVE  Inv'
<1>1. TypeInv /\ CallInv /\ TaskletInv /\ OpenInv
  BY DEF Inv
<1> DEFINE c == ctx[a].chan
<1>2. /\ c \in Chans /\ ctx[a].step = "act" /\ ctx[a].ev = "suspend"
      /\ a # TASKLET => a \in Chans
  BY EventOf DEF ActSuspend
<1>3. /\ UNCHANGED <<opened_flag, stream_on, en, nbuffers, hwVars, callVars, todo>>
      /\ pending' \in [Chans -> SUBSET Events] /\ done' \in [Chans -> SUBSET Waited]
      /\ \A d \in Chans : "open" \in pending'[d] <=> "open" \in pending[d]
      /\ curr_state' \in [Chans -> States]
      /\ \A d \in Chans : curr_state'[d] = curr_state[d] \/ curr_state'[d] = "SUSPEND"
  BY <1>1, <1>2 DEF ActSuspend, FsmUnchanged, Complete, Becomes, TypeInv, Events, Waited, States
<1>4. /\ ctx' \in [Actors -> Ctx]
      /\ \A b \in Actors : b # a => ctx'[b] = ctx[b]
      /\ \/ ctx'[a].step = "load" /\ ctx'[a].ev = "suspend"
         \/ a # TASKLET /\ ctx'[a].step = "wait" /\ ctx'[a].ev = "suspend"
         \/ a = TASKLET /\ ctx'[a].step = "trigger" /\ ctx'[a].ev = "resume"
      /\ ctx'[a].chan = c
  <2>1. Goes(a, "load") \/ EventThrough(a)
    BY DEF ActSuspend
  <2> QED  BY <1>1, <1>2, <2>1, GoesIs, ThroughIs DEF Steps, NextFlag
<1> HIDE DEF c
<1>5. TypeInv'
  BY <1>1, <1>3, <1>4 DEF TypeInv, hwVars, callVars
<1>6. CallInv'
  BY <1>1, <1>2, <1>3, <1>4, Numbers DEF CallInv, callVars, c
<1>7. TaskletInv'
  BY <1>1, <1>2, <1>4, Numbers DEF TaskletInv
<1>8. OpenInv'
  BY <1>1, <1>2, <1>3, <1>4, Numbers
     DEF OpenInv, Opening, OpeningToo, Hot, Running, Off, callVars, c
<1> QED  BY <1>5, <1>6, <1>7, <1>8 DEF Inv

LEMMA ActResumeStep ==
  ASSUME Inv, NEW a \in Actors, ActResume(a)
  PROVE  Inv'
<1>1. TypeInv /\ CallInv /\ TaskletInv /\ OpenInv
  BY DEF Inv
<1> DEFINE c == ctx[a].chan
<1>2. /\ c \in Chans /\ ctx[a].step = "act" /\ ctx[a].ev = "resume"
      /\ a # TASKLET => a \in Chans
  BY EventOf DEF ActResume
<1>3. /\ UNCHANGED <<opened_flag, stream_on, pending, en, nbuffers, hwVars, callVars, todo>>
      /\ done' \in [Chans -> SUBSET Waited]
      /\ curr_state' \in [Chans -> States]
      /\ \A d \in Chans : d # c => curr_state'[d] = curr_state[d]
      /\ curr_state'[c] = curr_state[c] \/ (curr_state'[c] = "STANDBY" /\ stream_on[c])
  <2>1. /\ UNCHANGED <<opened_flag, stream_on, pending, en, nbuffers, hwVars, callVars, todo>>
        /\ done' = done \/ Complete(c, {"resume"})
        /\ curr_state' = curr_state \/ (Becomes(c, "STANDBY") /\ stream_on[c])
    BY DEF ActResume, FsmUnchanged, prev_resource_on
  <2> QED  BY <1>1, <1>2, <2>1 DEF Complete, Becomes, TypeInv, Waited, States
<1>4. /\ ctx' \in [Actors -> Ctx]
      /\ \A b \in Actors : b # a => ctx'[b] = ctx[b]
      /\ \/ ctx'[a].step = "load" /\ ctx'[a].ev = "resume"
         \/ a # TASKLET /\ ctx'[a].step = "wait" /\ ctx'[a].ev = "resume"
         \/ a = TASKLET /\ ctx'[a].step = "trigger" /\ ctx'[a].ev = "close"
      /\ ctx'[a].chan = c
  <2>1. Goes(a, "load") \/ EventThrough(a)
    BY DEF ActResume
  <2> QED  BY <1>1, <1>2, <2>1, GoesIs, ThroughIs DEF Steps, NextFlag
<1> HIDE DEF c
<1>5. TypeInv'
  BY <1>1, <1>3, <1>4 DEF TypeInv, hwVars, callVars
<1>6. CallInv'
  BY <1>1, <1>2, <1>3, <1>4, Numbers DEF CallInv, callVars, c
<1>7. TaskletInv'
  BY <1>1, <1>2, <1>4, Numbers DEF TaskletInv
<1>8. OpenInv'
  BY <1>1, <1>2, <1>3, <1>4, Numbers
     DEF OpenInv, Opening, OpeningToo, Hot, Running, Off, callVars, c
<1> QED  BY <1>5, <1>6, <1>7, <1>8 DEF Inv
LEMMA ActCloseStep ==
  ASSUME Inv, NEW a \in Actors, ActClose(a)
  PROVE  Inv'
<1>1. TypeInv /\ CallInv /\ TaskletInv /\ OpenInv
  BY DEF Inv
<1> DEFINE c == ctx[a].chan
<1>2. /\ c \in Chans /\ ctx[a].step = "act" /\ ctx[a].ev = "close"
      /\ a # TASKLET => a \in Chans /\ a = c /\ call[c] = "close" /\ pc[c] = "event"
  <2>1. ctx[a].step = "act" /\ ctx[a].ev = "close"
    BY DEF ActClose
  <2> QED  BY <2>1, EventOf
<1>3. /\ UNCHANGED <<done, en, nbuffers, hwVars, callVars, todo>>
      /\ pending' \in [Chans -> SUBSET Events]
      /\ \A d \in Chans : "open" \in pending'[d] <=> "open" \in pending[d]
      /\ curr_state' \in [Chans -> States] /\ opened_flag' \in [Chans -> Nat]
      /\ stream_on' \in [Chans -> BOOLEAN]
      /\ \A d \in Chans : d # c =>
           /\ curr_state'[d] = curr_state[d] /\ opened_flag'[d] = opened_flag[d]
           /\ stream_on'[d] = stream_on[d]
      /\ curr_state'[c] = curr_state[c] \/ curr_state'[c] = "UNREGISTER"
      /\ \/ opened_flag'[c] = opened_flag[c]
         \/ /\ curr_state'[c] = curr_state[c]
            /\ opened_flag[c] > 0 /\ opened_flag'[c] = opened_flag[c] - 1
      /\ stream_on'[c] => stream_on[c]
      /\ opened_flag'[c] # opened_flag[c] /\ opened_flag'[c] = 0 => ~stream_on'[c]
  <2>1. /\ UNCHANGED <<done, en, nbuffers, hwVars, callVars, todo>>
        /\ \/ pending' = pending
           \/ pending' = [pending EXCEPT ![c] = @ \cup {"close"}]
        /\ curr_state' = curr_state \/ Becomes(c, "UNREGISTER")
        /\ \/ opened_flag' = opened_flag /\ stream_on' = stream_on
           \/ /\ curr_state' = curr_state
              /\ opened_flag[c] > 0 /\ opened_flag' = [opened_flag EXCEPT ![c] = @ - 1]
              /\ stream_on' = [stream_on EXCEPT ![c] = @ /\ ~(opened_flag[c] = 1)]
    BY DEF ActClose, FsmUnchanged
  <2>2. CASE opened_flag' = opened_flag /\ stream_on' = stream_on
    BY <1>1, <1>2, <2>1, <2>2 DEF TypeInv, Becomes, Events, States
  <2>3. CASE /\ curr_state' = curr_state
             /\ opened_flag[c] > 0 /\ opened_flag' = [opened_flag EXCEPT ![c] = @ - 1]
             /\ stream_on' = [stream_on EXCEPT ![c] = @ /\ ~(opened_flag[c] = 1)]
    <3>1. /\ pending' \in [Chans -> SUBSET Events] /\ opened_flag' \in [Chans -> Nat]
          /\ \A d \in Chans : "open" \in pending'[d] <=> "open" \in pending[d]
          /\ \A d \in Chans : d # c => opened_flag'[d] = opened_flag[d]
          /\ opened_flag[c] > 0 /\ opened_flag'[c] = opened_flag[c] - 1
          /\ opened_flag'[c] = 0 => opened_flag[c] = 1
      BY <1>1, <1>2, <2>1, <2>3 DEF TypeInv, Events
    <3>2. /\ stream_on \in [Chans -> BOOLEAN]
          /\ stream_on' = [stream_on EXCEPT ![c] = @ /\ ~(opened_flag[c] = 1)]
      BY <1>1, <2>3 DEF TypeInv
    <3>3. /\ stream_on' \in [Chans -> BOOLEAN]
          /\ \A d \in Chans : d # c => stream_on'[d] = stream_on[d]
      BY <1>2, <3>2
    <3>4. stream_on'[c] = (stream_on[c] /\ ~(opened_flag[c] = 1))
      BY <1>2, <3>2
    <3>5. (stream_on'[c] => stream_on[c]) /\ (opened_flag[c] = 1 => ~stream_on'[c])
      BY <3>4
    <3> QED  BY <1>1, <2>1, <2>3, <3>1, <3>3, <3>5 DEF TypeInv
  <2> QED  BY <2>1, <2>2, <2>3
<1>4. /\ ctx' \in [Actors -> Ctx]
      /\ \A b \in Actors : b # a => ctx'[b] = ctx[b]
      /\ \/ ctx'[a].step \in {"load", "raise"} /\ ctx'[a].ev = "close" /\ ctx'[a].chan = c
         \/ /\ a # TASKLET /\ ctx'[a].step = "wait" /\ ctx'[a].ev = "close"
            /\ ctx'[a].chan = c
         \/ a = TASKLET /\ ctx'[a] = NoEvent
  <2>1. Goes(a, "load") \/ Goes(a, "raise") \/ EventThrough(a)
    BY DEF ActClose
  <2> QED  BY <1>1, <1>2, <2>1, GoesIs, ThroughIs DEF Steps
<1> HIDE DEF c
<1>5. TypeInv'
  BY <1>1, <1>3, <1>4 DEF TypeInv, chanVars, fsmVars, hwVars, callVars
<1>6. CallInv'
  BY <1>1, <1>2, <1>3, <1>4, Numbers, NoEventIs DEF CallInv, callVars, c
<1>7. TaskletInv'
  BY <1>1, <1>2, <1>4, Numbers, NoEventIs DEF TaskletInv
<1>8. OpenInv'
  BY <1>1, <1>2, <1>3, <1>4, Numbers, NoEventIs
     DEF OpenInv, Opening, OpeningToo, Hot, Running, Off, fsmVars, callVars, TypeInv, c
<1> QED  BY <1>5, <1>6, <1>7, <1>8 DEF Inv

LEMMA ActOpenStep ==
  ASSUME Inv, NEW a \in Actors, ActOpen(a)
  PROVE  Inv'
<1>1. TypeInv /\ CallInv /\ TaskletInv /\ OpenInv
  BY DEF Inv
<1> DEFINE c == ctx[a].chan
<1>2. /\ c \in Chans /\ ctx[a].step = "act" /\ ctx[a].ev = "open"
      /\ a # TASKLET => a \in Chans /\ a = c /\ call[c] = "open" /\ pc[c] = "event"
  <2>1. ctx[a].step = "act" /\ ctx[a].ev = "open"
    BY DEF ActOpen
  <2> QED  BY <2>1, EventOf
<1>3. /\ UNCHANGED <<stream_on, pending, en, nbuffers, hwVars, callVars, todo>>
      /\ curr_state' \in [Chans -> States] /\ opened_flag' \in [Chans -> Nat]
      /\ done' \in [Chans -> SUBSET Waited]
      /\ \A d \in Chans : d # c =>
           curr_state'[d] = curr_state[d] /\ opened_flag'[d] = opened_flag[d]
      /\ IF ctx[a].st = "UNREGISTER"
         THEN /\ opened_flag'[c] = opened_flag[c] + 1
              /\ curr_state'[c] = IF opened_flag[c] = 0 THEN "SUSPEND" ELSE curr_state[c]
         ELSE opened_flag'[c] = opened_flag[c] /\ curr_state'[c] = curr_state[c]
  BY <1>1, <1>2 DEF ActOpen, FsmUnchanged, Becomes, TypeInv, States, Waited
<1>4. /\ ctx' \in [Actors -> Ctx]
      /\ \A b \in Actors : b # a => ctx'[b] = ctx[b]
      /\ \/ a # TASKLET /\ ctx'[a].step = "wait" /\ ctx'[a].ev = "open"
         \/ a = TASKLET /\ ctx'[a].step = "trigger" /\ ctx'[a].ev = "suspend"
      /\ ctx'[a].chan = c
  <2>1. EventThrough(a)
    BY DEF ActOpen
  <2> QED  BY <1>1, <1>2, <2>1, ThroughIs DEF NextFlag
<1> HIDE DEF c
<1>5. TypeInv'
  BY <1>1, <1>3, <1>4 DEF TypeInv, chanVars, fsmVars, hwVars, callVars
<1>6. CallInv'
  BY <1>1, <1>2, <1>3, <1>4, Numbers DEF CallInv, callVars, c
<1>7. TaskletInv'
  BY <1>1, <1>2, <1>4, Numbers DEF TaskletInv
<1>8. OpenInv'
  BY <1>1, <1>2, <1>3, <1>4, Numbers
     DEF OpenInv, Opening, OpeningToo, Hot, Running, Off, fsmVars, callVars, TypeInv, c
<1> QED  BY <1>5, <1>6, <1>7, <1>8 DEF Inv

LEMMA ActDeliverStep ==
  ASSUME Inv, NEW a \in Actors, ActDeliver(a)
  PROVE  Inv'
<1>1. TypeInv /\ CallInv /\ TaskletInv /\ OpenInv
  BY DEF Inv
<1> DEFINE c == ctx[a].chan
<1>2. c \in Chans /\ ctx[a].step = "act" /\ ctx[a].ev = "deliver" /\ a = TASKLET
  <2>1. ctx[a].step = "act" /\ ctx[a].ev = "deliver"
    BY DEF ActDeliver
  <2> QED  BY <2>1, EventOf DEF Events
<1>3. /\ UNCHANGED <<opened_flag, stream_on, pending, done, en, nbuffers, hwVars, callVars, todo>>
      /\ curr_state' \in [Chans -> States]
      /\ \A d \in Chans : d # c => curr_state'[d] = curr_state[d]
      /\ \/ curr_state'[c] = curr_state[c]
         \/ curr_state'[c] \in Running /\ ctx[a].st \in Running
  BY <1>1, <1>2 DEF ActDeliver, FsmUnchanged, Becomes, TypeInv, States, Running
<1>4. /\ ctx' \in [Actors -> Ctx]
      /\ \A b \in Actors : b # a => ctx'[b] = ctx[b]
      /\ \/ ctx'[a].step = "read" /\ ctx'[a].ev = "deliver" /\ ctx'[a].chan = c
         \/ /\ ctx'[a].step = "check" /\ ctx'[a].ev = "deliver" /\ ctx'[a].chan = c
            /\ curr_state'[c] = "DONE"
         \/ ctx'[a] = NoEvent
  <2>1. Goes(a, "read") \/ (Goes(a, "check") /\ Becomes(c, "DONE")) \/ EventThrough(a)
    BY DEF ActDeliver
  <2>2. Becomes(c, "DONE") => curr_state'[c] = "DONE"
    BY <1>1, <1>2 DEF Becomes, TypeInv
  <2> QED  BY <1>1, <1>2, <2>1, <2>2, GoesIs, ThroughIs DEF Steps
<1> HIDE DEF c
<1>5. TypeInv'
  BY <1>1, <1>3, <1>4 DEF TypeInv, chanVars, fsmVars, hwVars, callVars
<1>6. CallInv'
  BY <1>1, <1>2, <1>3, <1>4, Numbers, NoEventIs DEF CallInv, callVars, c
<1>7. TaskletInv'
  BY <1>1, <1>2, <1>4, Numbers, NoEventIs DEF TaskletInv
<1>8. OpenInv'
  BY <1>1, <1>2, <1>3, <1>4, Numbers, NoEventIs
     DEF OpenInv, Opening, OpeningToo, Hot, Running, Off, fsmVars, callVars, TypeInv, c
<1> QED  BY <1>5, <1>6, <1>7, <1>8 DEF Inv

LEMMA CheckStep ==
  ASSUME Inv, NEW a \in Actors, Check(a)
  PROVE  Inv'
<1>1. TypeInv /\ CallInv /\ TaskletInv /\ OpenInv
  BY DEF Inv
<1> DEFINE c == ctx[a].chan
<1>2. /\ ctx[a] \in Ctx /\ c \in Chans /\ ctx[a].step = "check"
      /\ ctx[a].ev = "deliver" /\ a = TASKLET
  <2>1. ctx[a].step = "check"
    BY DEF Check
  <2> QED  BY <1>1, <2>1, EventOf DEF TaskletInv
<1>3. UNCHANGED <<chanVars, fsmVars, en, hwVars, callVars, todo>>
  BY DEF Check, FsmUnchanged, chanVars
<1>4. /\ ctx' \in [Actors -> Ctx]
      /\ \A b \in Actors : b # a => ctx'[b] = ctx[b]
      /\ \/ ctx'[a].step = "trigger" /\ ctx'[a].ev = "open"
         \/ ctx'[a].step = "read" /\ ctx'[a].ev = "deliver"
      /\ ctx'[a].chan = c
  <2> DEFINE g == [ctx[a] EXCEPT !.step = "trigger", !.ev = "open"]
             h == [ctx[a] EXCEPT !.step = "read"]
  <2>1. /\ g \in Ctx /\ g.step = "trigger" /\ g.ev = "open" /\ g.chan = c
        /\ h \in Ctx /\ h.step = "read" /\ h.ev = ctx[a].ev /\ h.chan = c
    BY <1>2 DEF Ctx, Steps, Events
  <2>2. /\ ctx \in [Actors -> Ctx]
        /\ ctx' = [ctx EXCEPT ![a] = g] \/ ctx' = [ctx EXCEPT ![a] = h]
    BY <1>1 DEF Check, TypeInv
  <2> HIDE DEF g, h
  <2> QED  BY <1>2, <2>1, <2>2
<1> HIDE DEF c
<1>5. TypeInv'
  BY <1>1, <1>3, <1>4 DEF TypeInv, chanVars, fsmVars, hwVars, callVars
<1>6. CallInv'
  BY <1>1, <1>2, <1>3, <1>4, Numbers DEF CallInv, callVars, c
<1>7. TaskletInv'
  BY <1>1, <1>2, <1>4, Numbers DEF TaskletInv
<1>8. OpenInv'
  BY <1>1, <1>2, <1>3, <1>4, Numbers
     DEF OpenInv, chanVars, Opening, OpeningToo, Hot, Running, Off, fsmVars, callVars, TypeInv, c
<1> QED  BY <1>5, <1>6, <1>7, <1>8 DEF Inv

LEMMA TriggerStep ==
  ASSUME Inv, NEW a \in Actors, Trigger(a)
  PROVE  Inv'
<1>1. TypeInv /\ CallInv /\ TaskletInv /\ OpenInv
  BY DEF Inv
<1> DEFINE c == ctx[a].chan
<1>2. /\ c \in Chans /\ ctx[a].step = "trigger" /\ a = TASKLET /\ ctx[a].ev \in Events
  <2>1. ctx[a].step = "trigger"
    BY DEF Trigger
  <2>2. ctx[a].ev \in Events \cup {"deliver"}
    BY EventOf DEF Ctx
  <2> QED  BY <1>1, <2>1, <2>2, EventOf DEF TaskletInv
<1>3. UNCHANGED <<chanVars, fsmVars, en, hwVars, callVars, todo>>
  BY DEF Trigger, FsmUnchanged, chanVars
<1>4. /\ ctx' \in [Actors -> Ctx]
      /\ \A b \in Actors : b # a => ctx'[b] = ctx[b]
      /\ \/ /\ ctx'[a].step = "read" /\ ctx'[a].ev = ctx[a].ev /\ ctx'[a].chan = c
            /\ ctx[a].ev \in pending[c]
         \/ /\ ctx'[a].step = "trigger" /\ ctx'[a].chan = c
            /\ ctx'[a].ev \in {"suspend", "resume", "close"}
         \/ ctx'[a] = NoEvent
  <2>1. (ctx[a].ev \in pending[c] /\ Goes(a, "read")) \/ EventThrough(a)
    BY DEF Trigger
  <2> QED  BY <1>1, <1>2, <2>1, GoesIs, ThroughIs DEF Steps, Events
<1> HIDE DEF c
<1>5. TypeInv'
  BY <1>1, <1>3, <1>4 DEF TypeInv, chanVars, fsmVars, hwVars, callVars
<1>6. CallInv'
  BY <1>1, <1>2, <1>3, <1>4, Numbers, NoEventIs DEF CallInv, callVars, c
<1>7. TaskletInv'
  BY <1>1, <1>2, <1>4, Numbers, NoEventIs DEF TaskletInv, Events
<1>8. OpenInv'
  BY <1>1, <1>2, <1>3, <1>4, Numbers, NoEventIs
     DEF OpenInv, chanVars, Events, Opening, OpeningToo, Hot, Running, Off, fsmVars, callVars, TypeInv, c
<1> QED  BY <1>5, <1>6, <1>7, <1>8 DEF Inv

LEMMA LoadStep ==
  ASSUME Inv, NEW a \in Actors, Load(a)
  PROVE  Inv'
<1>1. TypeInv /\ CallInv /\ TaskletInv /\ OpenInv
  BY DEF Inv
<1> DEFINE c == ctx[a].chan
<1>2. /\ ctx[a] \in Ctx /\ c \in Chans /\ ctx[a].step = "load" /\ ctx[a].ev # "open"
      /\ a # TASKLET => a \in Chans
      /\ a = TASKLET => ctx[a].ev # "deliver"
  <2>1. ctx[a].step = "load"
    BY DEF Load
  <2> QED  BY <1>1, <2>1, EventOf DEF TaskletInv
<1>3. UNCHANGED <<chanVars, fsmVars, en, hwVars, callVars, todo>>
  BY DEF Load, FsmUnchanged, chanVars
<1>4. /\ ctx' \in [Actors -> Ctx]
      /\ \A b \in Actors : b # a => ctx'[b] = ctx[b]
      /\ ctx'[a].step = "store" /\ ctx'[a].ev = ctx[a].ev /\ ctx'[a].chan = c
      /\ ctx'[a].reg = en
  <2> DEFINE g == [ctx[a] EXCEPT !.step = "store", !.reg = en]
  <2>1. g \in Ctx /\ g.step = "store" /\ g.ev = ctx[a].ev /\ g.chan = c /\ g.reg = en
    BY <1>1, <1>2 DEF Ctx, Steps, TypeInv
  <2>2. ctx \in [Actors -> Ctx] /\ ctx' = [ctx EXCEPT ![a] = g]
    BY <1>1 DEF Load, TypeInv
  <2> HIDE DEF g
  <2> QED  BY <2>1, <2>2
<1> HIDE DEF c
<1>5. TypeInv'
  BY <1>1, <1>3, <1>4 DEF TypeInv, chanVars, fsmVars, hwVars, callVars
<1>6. CallInv'
  BY <1>1, <1>2, <1>3, <1>4, Numbers DEF CallInv, callVars, c
<1>7. TaskletInv'
  BY <1>1, <1>2, <1>4, Numbers DEF TaskletInv
<1>8. OpenInv'
  BY <1>1, <1>2, <1>3, <1>4, Numbers
     DEF OpenInv, chanVars, Opening, OpeningToo, Hot, Running, Off, fsmVars, callVars, TypeInv, c
<1> QED  BY <1>5, <1>6, <1>7, <1>8 DEF Inv

LEMMA StoreStep ==
  ASSUME Inv, NEW a \in Actors, Store(a)
  PROVE  Inv'
<1>1. TypeInv /\ CallInv /\ TaskletInv /\ OpenInv
  BY DEF Inv
<1> DEFINE c == ctx[a].chan
<1>2. /\ ctx[a] \in Ctx /\ c \in Chans /\ ctx[a].step = "store"
      /\ ctx[a].ev \in {"suspend", "resume", "close"}
      /\ a # TASKLET => a \in Chans
  <2>1. ctx[a].step = "store"
    BY DEF Store
  <2>2. ctx[a].ev \in Events \cup {"deliver"}
    BY EventOf DEF Ctx
  <2> QED  BY <1>1, <2>1, <2>2, EventOf DEF TaskletInv, Events
<1>3. /\ UNCHANGED <<curr_state, chanVars, hwVars, callVars, todo>>
      /\ pending' \in [Chans -> SUBSET Events] /\ done' \in [Chans -> SUBSET Waited]
      /\ \A d \in Chans : pending'[d] \subseteq pending[d]
      /\ en' \subseteq Chans
  <2>1. Writes(a) \subseteq Chans
    BY <1>2 DEF Writes, Ctx
  <2> QED  BY <1>1, <1>2, <2>1 DEF Store, FsmUnchanged, Complete, TypeInv, Waited, chanVars
<1>4. /\ ctx' \in [Actors -> Ctx]
      /\ \A b \in Actors : b # a => ctx'[b] = ctx[b]
      /\ \/ a # TASKLET /\ ctx'[a].step = "wait" /\ ctx'[a].ev = ctx[a].ev /\ ctx'[a].chan = c
         \/ /\ a = TASKLET /\ ctx'[a].step = "trigger" /\ ctx'[a].chan = c
            /\ ctx'[a].ev \in {"suspend", "resume", "close"}
         \/ a = TASKLET /\ ctx'[a] = NoEvent
  <2>1. EventThrough(a)
    BY DEF Store
  <2> QED  BY <1>1, <1>2, <2>1, ThroughIs
<1> HIDE DEF c
<1>5. TypeInv'
  BY <1>1, <1>3, <1>4 DEF TypeInv, chanVars, fsmVars, hwVars, callVars
<1>6. CallInv'
  BY <1>1, <1>2, <1>3, <1>4, Numbers, NoEventIs DEF CallInv, callVars, c
<1>7. TaskletInv'
  BY <1>1, <1>2, <1>4, Numbers, NoEventIs DEF TaskletInv
<1>8. OpenInv'
  BY <1>1, <1>2, <1>3, <1>4, Numbers, NoEventIs
     DEF OpenInv, chanVars, Opening, OpeningToo, Hot, Running, Off, fsmVars, callVars, TypeInv, c
<1> QED  BY <1>5, <1>6, <1>7, <1>8 DEF Inv

-----------------------------------------------------------------------------
(* The steps of the calls and of the frames keep Inv *)

LEMMA DrivesIs ==
  ASSUME TypeInv, NEW c \in Chans, NEW e \in Events, NEW t \in Chans, Drives(c, e, t)
  PROVE  /\ ctx' \in [Actors -> Ctx]
         /\ \A b \in Actors : b # c => ctx'[b] = ctx[b]
         /\ ctx'[c].step = "raise" /\ ctx'[c].ev = e /\ ctx'[c].chan = t
  BY Numbers, EventIs DEF Drives, TypeInv

LEMMA TakesCpu ==
  ASSUME TypeInv, NEW c \in Chans, NEW k, TakeCpu(c, k) \/ LeaveCpu(c) \/ UNCHANGED cpu
  PROVE  cpu' \subseteq Chans
  BY DEF TakeCpu, LeaveCpu, TypeInv

LEMMA DriveIs ==
  /\ Drive("open") = {"open"} /\ Drive("close") = {"close"}
  /\ Drive("reqbufs") = {"suspend"} /\ Drive("streamoff") = {"suspend"}
  /\ Drive("streamon") = {"resume"} /\ Drive("s_fmt") = {"suspend", "resume"}
  BY DEF Drive

LEMMA OpenStep ==
  ASSUME Inv, NEW c \in Chans, Open(c)
  PROVE  Inv'
<1>1. TypeInv /\ CallInv /\ TaskletInv /\ OpenInv
  BY DEF Inv
<1>2. /\ pc[c] = "idle" /\ opened_flag[c] = 0 /\ c \in Actors
      /\ ctx[c].step = "none"
  BY <1>1, Numbers DEF Open, Begins, CallInv
<1>3. /\ UNCHANGED <<chanVars, fsmVars, en, hwVars, todo, vp_mutex>>
      /\ call' \in [Chans -> Calls] /\ call'[c] = "open" /\ pc' \in [Chans -> Pcs] /\ pc'[c] = "event"
      /\ \A d \in Chans : d # c => call'[d] = call[d] /\ pc'[d] = pc[d]
      /\ want' \in [Chans -> {0, 1}]
  BY <1>1 DEF Open, Begins, Goto, TypeInv, Calls, Pcs
<1>4. /\ ctx' \in [Actors -> Ctx] /\ cpu' \subseteq Chans
      /\ \A b \in Actors : b # c => ctx'[b] = ctx[b]
      /\ ctx'[c].step = "raise" /\ ctx'[c].ev = "open" /\ ctx'[c].chan = c
  <2>1. Drives(c, "open", c) /\ TakeCpu(c, "open")
    BY DEF Open
  <2> QED  BY <1>1, <2>1, DrivesIs, TakesCpu DEF Events
<1>5. TypeInv'
  BY <1>1, <1>2, <1>3, <1>4 DEF TypeInv, chanVars, fsmVars, hwVars
<1>6. CallInv'
  BY <1>1, <1>2, <1>3, <1>4, Numbers, DriveIs DEF CallInv
<1>7. TaskletInv'
  BY <1>1, <1>2, <1>4, Numbers DEF TaskletInv
<1>8. OpenInv'
  BY <1>1, <1>2, <1>3, <1>4, Numbers
     DEF OpenInv, Opening, OpeningToo, Hot, Running, Off, chanVars, fsmVars, TypeInv
<1> QED  BY <1>5, <1>6, <1>7, <1>8 DEF Inv

LEMMA OpenBusyStep ==
  ASSUME Inv, NEW c \in Chans, OpenBusy(c)
  PROVE  Inv'
<1>1. TypeInv /\ CallInv /\ TaskletInv /\ OpenInv
  BY DEF Inv
<1>2. /\ pc[c] = "idle" /\ opened_flag[c] > 0 /\ c \in Actors
      /\ ctx[c].step = "none"
  BY <1>1, Numbers DEF OpenBusy, Begins, CallInv
<1>3. /\ UNCHANGED <<chanVars, fsmVars, en, hwVars, todo, vp_mutex>>
      /\ call' \in [Chans -> Calls] /\ call'[c] = "open" /\ pc' \in [Chans -> Pcs] /\ pc'[c] = "dead"
      /\ \A d \in Chans : d # c => call'[d] = call[d] /\ pc'[d] = pc[d]
      /\ want' \in [Chans -> {0, 1}]
  BY <1>1 DEF OpenBusy, Begins, Goto, TypeInv, Calls, Pcs
<1>4. ctx' = ctx /\ cpu' = cpu
  BY DEF OpenBusy
<1>5. TypeInv'
  BY <1>1, <1>2, <1>3, <1>4 DEF TypeInv, chanVars, fsmVars, hwVars
<1>6. CallInv'
  BY <1>1, <1>2, <1>3, <1>4, Numbers, DriveIs DEF CallInv
<1>7. TaskletInv'
  BY <1>1, <1>2, <1>4, Numbers DEF TaskletInv
<1>8. OpenInv'
  BY <1>1, <1>2, <1>3, <1>4, Numbers
     DEF OpenInv, Opening, OpeningToo, Hot, Running, Off, chanVars, fsmVars, TypeInv
<1> QED  BY <1>5, <1>6, <1>7, <1>8 DEF Inv

LEMMA ReqBufsStep ==
  ASSUME Inv, NEW c \in Chans, NEW n \in {0, 1}, ReqBufs(c, n)
  PROVE  Inv'
<1>1. TypeInv /\ CallInv /\ TaskletInv /\ OpenInv
  BY DEF Inv
<1>2. /\ pc[c] = "idle" /\ opened_flag[c] > 0 /\ c \in Actors
      /\ ctx[c].step = "none"
  BY <1>1, Numbers DEF ReqBufs, Begins, CallInv
<1>3. /\ UNCHANGED <<chanVars, fsmVars, en, hwVars, todo, vp_mutex>>
      /\ call' \in [Chans -> Calls] /\ call'[c] = "reqbufs" /\ pc' \in [Chans -> Pcs] /\ pc'[c] = "event"
      /\ \A d \in Chans : d # c => call'[d] = call[d] /\ pc'[d] = pc[d]
      /\ want' \in [Chans -> {0, 1}]
  BY <1>1 DEF ReqBufs, Begins, Goto, TypeInv, Calls, Pcs
<1>4. /\ ctx' \in [Actors -> Ctx] /\ cpu' \subseteq Chans
      /\ \A b \in Actors : b # c => ctx'[b] = ctx[b]
      /\ ctx'[c].step = "raise" /\ ctx'[c].ev = "suspend" /\ ctx'[c].chan = c
  <2>1. Drives(c, "suspend", c) /\ TakeCpu(c, "reqbufs")
    BY DEF ReqBufs
  <2> QED  BY <1>1, <2>1, DrivesIs, TakesCpu DEF Events
<1>5. TypeInv'
  BY <1>1, <1>2, <1>3, <1>4 DEF TypeInv, chanVars, fsmVars, hwVars
<1>6. CallInv'
  BY <1>1, <1>2, <1>3, <1>4, Numbers, DriveIs DEF CallInv
<1>7. TaskletInv'
  BY <1>1, <1>2, <1>4, Numbers DEF TaskletInv
<1>8. OpenInv'
  BY <1>1, <1>2, <1>3, <1>4, Numbers
     DEF OpenInv, Opening, OpeningToo, Hot, Running, Off, chanVars, fsmVars, TypeInv
<1> QED  BY <1>5, <1>6, <1>7, <1>8 DEF Inv

LEMMA IoctlStep ==
  ASSUME Inv, NEW c \in Chans, NEW k \in {"streamon", "streamoff", "s_fmt"}, Ioctl(c, k)
  PROVE  Inv'
<1>1. TypeInv /\ CallInv /\ TaskletInv /\ OpenInv
  BY DEF Inv
<1>2. /\ pc[c] = "idle" /\ opened_flag[c] > 0 /\ c \in Actors
      /\ ctx[c].step = "none"
  BY <1>1, Numbers DEF Ioctl, Begins, CallInv
<1>3. /\ UNCHANGED <<chanVars, fsmVars, en, hwVars, todo, vp_mutex>>
      /\ call' \in [Chans -> Calls] /\ call'[c] = k /\ pc' \in [Chans -> Pcs] /\ pc'[c] = "lock"
      /\ \A d \in Chans : d # c => call'[d] = call[d] /\ pc'[d] = pc[d]
      /\ want' \in [Chans -> {0, 1}]
  BY <1>1 DEF Ioctl, Begins, Goto, TypeInv, Calls, Pcs
<1>4. ctx' = ctx /\ cpu' = cpu
  BY DEF Ioctl
<1>5. TypeInv'
  BY <1>1, <1>2, <1>3, <1>4 DEF TypeInv, chanVars, fsmVars, hwVars
<1>6. CallInv'
  BY <1>1, <1>2, <1>3, <1>4, Numbers, DriveIs DEF CallInv
<1>7. TaskletInv'
  BY <1>1, <1>2, <1>4, Numbers DEF TaskletInv
<1>8. OpenInv'
  BY <1>1, <1>2, <1>3, <1>4, Numbers
     DEF OpenInv, Opening, OpeningToo, Hot, Running, Off, chanVars, fsmVars, TypeInv
<1> QED  BY <1>5, <1>6, <1>7, <1>8 DEF Inv

LEMMA CloseStep ==
  ASSUME Inv, NEW c \in Chans, Close(c)
  PROVE  Inv'
<1>1. TypeInv /\ CallInv /\ TaskletInv /\ OpenInv
  BY DEF Inv
<1>2. /\ pc[c] = "idle" /\ opened_flag[c] > 0 /\ c \in Actors
      /\ ctx[c].step = "none"
  BY <1>1, Numbers DEF Close, Begins, CallInv
<1>3. /\ UNCHANGED <<chanVars, fsmVars, en, hwVars, todo, vp_mutex>>
      /\ call' \in [Chans -> Calls] /\ call'[c] = "close" /\ pc' \in [Chans -> Pcs] /\ pc'[c] = "event"
      /\ \A d \in Chans : d # c => call'[d] = call[d] /\ pc'[d] = pc[d]
      /\ want' \in [Chans -> {0, 1}]
  BY <1>1 DEF Close, Begins, Goto, TypeInv, Calls, Pcs
<1>4. /\ ctx' \in [Actors -> Ctx] /\ cpu' \subseteq Chans
      /\ \A b \in Actors : b # c => ctx'[b] = ctx[b]
      /\ ctx'[c].step = "raise" /\ ctx'[c].ev = "close" /\ ctx'[c].chan = c
  <2>1. Drives(c, "close", c) /\ TakeCpu(c, "close")
    BY DEF Close
  <2> QED  BY <1>1, <2>1, DrivesIs, TakesCpu DEF Events
<1>5. TypeInv'
  BY <1>1, <1>2, <1>3, <1>4 DEF TypeInv, chanVars, fsmVars, hwVars
<1>6. CallInv'
  BY <1>1, <1>2, <1>3, <1>4, Numbers, DriveIs DEF CallInv
<1>7. TaskletInv'
  BY <1>1, <1>2, <1>4, Numbers DEF TaskletInv
<1>8. OpenInv'
  BY <1>1, <1>2, <1>3, <1>4, Numbers
     DEF OpenInv, Opening, OpeningToo, Hot, Running, Off, chanVars, fsmVars, TypeInv
<1> QED  BY <1>5, <1>6, <1>7, <1>8 DEF Inv

LEMMA LockStep ==
  ASSUME Inv, NEW c \in Chans, Lock(c)
  PROVE  Inv'
<1>1. TypeInv /\ CallInv /\ TaskletInv /\ OpenInv
  BY DEF Inv
<1>2. /\ pc[c] = "lock" /\ c \in Actors /\ ctx[c].step = "none"
      /\ call[c] \in {"streamon", "streamoff", "s_fmt"}
  BY <1>1, Numbers DEF Lock, CallInv
<1>3. /\ UNCHANGED <<opened_flag, nbuffers, fsmVars, en, hwVars, todo, call, want>>
      /\ pc' \in [Chans -> Pcs] /\ pc'[c] = "event"
      /\ \A d \in Chans : d # c => pc'[d] = pc[d] /\ stream_on'[d] = stream_on[d]
      /\ stream_on' \in [Chans -> BOOLEAN]
      /\ vp_mutex' \subseteq Chans
  BY <1>1, <1>2 DEF Lock, Goto, StreamFlag, TypeInv, Pcs
<1>4. /\ ctx' \in [Actors -> Ctx] /\ cpu' \subseteq Chans
      /\ \A b \in Actors : b # c => ctx'[b] = ctx[b]
      /\ ctx'[c].step = "raise" /\ ctx'[c].ev \in Drive(call[c])
      /\ call[c] # "s_fmt" => ctx'[c].chan = c
      /\ ctx'[c].ev \in {"suspend", "resume"}
  <2>1. /\ TakeCpu(c, call[c])
        /\ \/ Drives(c, "resume", c) /\ call[c] = "streamon"
           \/ Drives(c, "suspend", c) /\ call[c] = "streamoff"
           \/ Drives(c, "suspend", 1) /\ call[c] = "s_fmt"
    BY <1>2 DEF Lock
  <2>2. cpu' \subseteq Chans
    BY <1>1, <2>1, TakesCpu
  <2>3. CASE Drives(c, "resume", c) /\ call[c] = "streamon"
    BY <1>1, <2>2, <2>3, DrivesIs DEF Drive, Events
  <2>4. CASE Drives(c, "suspend", c) /\ call[c] = "streamoff"
    BY <1>1, <2>2, <2>4, DrivesIs DEF Drive, Events
  <2>5. CASE Drives(c, "suspend", 1) /\ call[c] = "s_fmt"
    BY <1>1, <2>2, <2>5, DrivesIs, Numbers DEF Drive, Events
  <2> QED  BY <2>1, <2>3, <2>4, <2>5
<1>5. TypeInv'
  BY <1>1, <1>2, <1>3, <1>4 DEF TypeInv, chanVars, fsmVars, hwVars
<1>6. CallInv'
  BY <1>1, <1>2, <1>3, <1>4, Numbers, DriveIs DEF CallInv
<1>7. TaskletInv'
  BY <1>1, <1>2, <1>4, Numbers DEF TaskletInv
<1>8. OpenInv'
  BY <1>1, <1>2, <1>3, <1>4, Numbers
     DEF OpenInv, Opening, OpeningToo, Hot, Running, Off, chanVars, fsmVars, TypeInv
<1> QED  BY <1>5, <1>6, <1>7, <1>8 DEF Inv


LEMMA ContinueIs ==
  ASSUME Inv, NEW c \in Chans, ctx[c].step \in {"wait", "asleep"}, Continue(c)
  PROVE  /\ ctx' \in [Actors -> Ctx] /\ pc' \in [Chans -> Pcs]
         /\ \A b \in Actors : b # c => ctx'[b] = ctx[b]
         /\ \A d \in Chans : d # c => pc'[d] = pc[d]
         /\ \/ /\ call[c] = "s_fmt" /\ pc'[c] = pc[c]
               /\ ctx[c].chan + 1 \in Chans
               /\ ctx'[c].step = "raise" /\ ctx'[c].ev = ctx[c].ev
               /\ ctx'[c].chan = ctx[c].chan + 1
            \/ /\ ~(call[c] = "s_fmt" /\ ctx[c].chan < CHAN_CNT)
               /\ ctx'[c] = NoEvent /\ pc'[c] = AfterEvent(c)
               /\ AfterEvent(c) \in {"free", "remap", "end"}
<1>1. /\ TypeInv /\ c \in Actors /\ ctx[c].chan \in Chans /\ ctx[c].ev \in Events
      /\ CHAN_CNT \in Nat
  BY EventOf, Numbers, ChanAssumption DEF Inv
<1>2. CASE call[c] = "s_fmt" /\ ctx[c].chan < CHAN_CNT
  <2>1. Drives(c, ctx[c].ev, ctx[c].chan + 1) /\ UNCHANGED pc
    BY <1>2 DEF Continue
  <2>2. ctx[c].chan + 1 \in Chans
    BY <1>1, <1>2 DEF Chans
  <2> QED  BY <1>1, <1>2, <2>1, <2>2, DrivesIs DEF TypeInv
<1>3. CASE ~(call[c] = "s_fmt" /\ ctx[c].chan < CHAN_CNT)
  <2>1. ctx' = [ctx EXCEPT ![c] = NoEvent] /\ Goto(c, AfterEvent(c))
    BY <1>3 DEF Continue
  <2>2. AfterEvent(c) \in {"free", "remap", "end"}
    BY DEF AfterEvent
  <2> QED  BY <1>1, <1>3, <2>1, <2>2, NoEventIs DEF TypeInv, Goto, Pcs
<1> QED  BY <1>2, <1>3

LEMMA WaitStep ==
  ASSUME Inv, NEW c \in Chans, Wait(c)
  PROVE  Inv'
<1>1. TypeInv /\ CallInv /\ TaskletInv /\ OpenInv
  BY DEF Inv
<1>2. /\ ctx[c].step = "wait" /\ pc[c] = "event" /\ c \in Actors
      /\ ctx[c].ev \in Drive(call[c])
  <2>1. ctx[c].step = "wait"
    BY DEF Wait
  <2> QED  BY <2>1, EventOf, Numbers
<1>3. UNCHANGED <<chanVars, fsmVars, en, hwVars, todo, vp_mutex, call, want>>
  BY DEF Wait
<1>4. /\ ctx' \in [Actors -> Ctx] /\ pc' \in [Chans -> Pcs] /\ cpu' \subseteq Chans
      /\ \A b \in Actors : b # c => ctx'[b] = ctx[b]
      /\ \A d \in Chans : d # c => pc'[d] = pc[d]
      /\ \/ /\ call[c] = "s_fmt" /\ pc'[c] = "event" /\ ctx'[c].step = "raise"
            /\ ctx'[c].ev = ctx[c].ev /\ ctx'[c].ev \in {"suspend", "resume"}
         \/ /\ ctx'[c] = NoEvent /\ pc'[c] \in {"free", "remap", "end"}
            /\ pc'[c] = "remap" => call[c] = "s_fmt"
            /\ pc'[c] = "free" => call[c] \in {"reqbufs", "s_fmt", "close"}
         \/ /\ pc'[c] = pc[c] /\ ctx'[c].step = "asleep" /\ ctx'[c].ev = ctx[c].ev
            /\ ctx'[c].chan = ctx[c].chan
  <2>1. cpu' \subseteq Chans
    BY <1>1, TakesCpu DEF Wait
  <2>2. CASE Continue(c)
    <3>1. /\ call[c] = "s_fmt" => ctx[c].ev \in {"suspend", "resume"}
          /\ AfterEvent(c) = "remap" => call[c] = "s_fmt"
          /\ AfterEvent(c) = "free" => call[c] \in {"reqbufs", "s_fmt", "close"}
      BY <1>2, DriveIs DEF AfterEvent
    <3> QED  BY <1>2, <2>1, <2>2, <3>1, ContinueIs
  <2>3. CASE Goes(c, "asleep") /\ UNCHANGED pc
    BY <1>1, <1>2, <2>1, <2>3, GoesIs DEF Steps, TypeInv
  <2> QED  BY <2>2, <2>3 DEF Wait
<1>5. TypeInv'
  BY <1>1, <1>2, <1>3, <1>4 DEF TypeInv, chanVars, fsmVars, hwVars, callVars
<1>6. CallInv'
  BY <1>1, <1>2, <1>3, <1>4, Numbers, NoEventIs DEF CallInv, callVars
<1>7. TaskletInv'
  BY <1>1, <1>2, <1>4, Numbers, NoEventIs DEF TaskletInv
<1>8. OpenInv'
  BY <1>1, <1>2, <1>3, <1>4, Numbers, NoEventIs
     DEF OpenInv, Opening, OpeningToo, Hot, Running, Off, chanVars, fsmVars, callVars, TypeInv
<1> QED  BY <1>5, <1>6, <1>7, <1>8 DEF Inv

LEMMA WakeStep ==
  ASSUME Inv, NEW c \in Chans, Wake(c)
  PROVE  Inv'
<1>1. TypeInv /\ CallInv /\ TaskletInv /\ OpenInv
  BY DEF Inv
<1>2. /\ ctx[c].step = "asleep" /\ pc[c] = "event" /\ c \in Actors
      /\ ctx[c].ev \in Drive(call[c])
  <2>1. ctx[c].step = "asleep"
    BY DEF Wake
  <2> QED  BY <2>1, EventOf, Numbers
<1>3. UNCHANGED <<chanVars, fsmVars, en, hwVars, todo, vp_mutex, call, want>>
  BY DEF Wake
<1>4. /\ ctx' \in [Actors -> Ctx] /\ pc' \in [Chans -> Pcs] /\ cpu' \subseteq Chans
      /\ \A b \in Actors : b # c => ctx'[b] = ctx[b]
      /\ \A d \in Chans : d # c => pc'[d] = pc[d]
      /\ \/ /\ call[c] = "s_fmt" /\ pc'[c] = "event" /\ ctx'[c].step = "raise"
            /\ ctx'[c].ev = ctx[c].ev /\ ctx'[c].ev \in {"suspend", "resume"}
         \/ /\ ctx'[c] = NoEvent /\ pc'[c] \in {"free", "remap", "end"}
            /\ pc'[c] = "remap" => call[c] = "s_fmt"
            /\ pc'[c] = "free" => call[c] \in {"reqbufs", "s_fmt", "close"}
  <2>1. cpu' \subseteq Chans
    BY <1>1, TakesCpu DEF Wake
  <2>2. Continue(c)
    BY DEF Wake
  <2> QED
    <3>1. /\ call[c] = "s_fmt" => ctx[c].ev \in {"suspend", "resume"}
          /\ AfterEvent(c) = "remap" => call[c] = "s_fmt"
          /\ AfterEvent(c) = "free" => call[c] \in {"reqbufs", "s_fmt", "close"}
      BY <1>2, DriveIs DEF AfterEvent
    <3> QED  BY <1>2, <2>1, <2>2, <3>1, ContinueIs
<1>5. TypeInv'
  BY <1>1, <1>2, <1>3, <1>4 DEF TypeInv, chanVars, fsmVars, hwVars, callVars
<1>6. CallInv'
  BY <1>1, <1>2, <1>3, <1>4, Numbers, NoEventIs DEF CallInv, callVars
<1>7. TaskletInv'
  BY <1>1, <1>2, <1>4, Numbers, NoEventIs DEF TaskletInv
<1>8. OpenInv'
  BY <1>1, <1>2, <1>3, <1>4, Numbers, NoEventIs
     DEF OpenInv, Opening, OpeningToo, Hot, Running, Off, chanVars, fsmVars, callVars, TypeInv
<1> QED  BY <1>5, <1>6, <1>7, <1>8 DEF Inv

LEMMA RemapStep ==
  ASSUME Inv, NEW c \in Chans, Remap(c)
  PROVE  Inv'
<1>1. TypeInv /\ CallInv /\ TaskletInv /\ OpenInv
  BY DEF Inv
<1>2. pc[c] = "remap" /\ c \in Actors /\ ctx[c].step = "none"
  BY <1>1, Numbers DEF Remap, CallInv
<1>3. /\ UNCHANGED <<chanVars, fsmVars, en, chan_flag, cpus, todo, vp_mutex, cpu, call>>
      /\ want' \in [Chans -> {0, 1}] /\ pci_push' \in BOOLEAN
      /\ pc' \in [Chans -> Pcs] /\ pc'[c] \in {"free", "resume"}
      /\ \A d \in Chans : d # c => pc'[d] = pc[d]
  BY <1>1, <1>2 DEF Remap, Goto, TypeInv, Pcs
<1>4. ctx' = ctx
  BY DEF Remap
<1>5. TypeInv'
  BY <1>1, <1>2, <1>3, <1>4 DEF TypeInv, chanVars, fsmVars, hwVars, callVars
<1>6. CallInv'
  BY <1>1, <1>2, <1>3, <1>4, Numbers, NoEventIs DEF CallInv, callVars
<1>7. TaskletInv'
  BY <1>1, <1>2, <1>4, Numbers DEF TaskletInv
<1>8. OpenInv'
  BY <1>1, <1>2, <1>3, <1>4, Numbers, NoEventIs
     DEF OpenInv, Opening, OpeningToo, Hot, Running, Off, chanVars, fsmVars, callVars, TypeInv
<1> QED  BY <1>5, <1>6, <1>7, <1>8 DEF Inv

LEMMA FreeStep ==
  ASSUME Inv, NEW c \in Chans, Free(c)
  PROVE  Inv'
<1>1. TypeInv /\ CallInv /\ TaskletInv /\ OpenInv
  BY DEF Inv
<1>2. pc[c] = "free" /\ c \in Actors /\ ctx[c].step = "none"
  BY <1>1, Numbers DEF Free, CallInv
<1>3. /\ UNCHANGED <<opened_flag, stream_on, fsmVars, en, hwVars, todo, vp_mutex, call, want>>
      /\ nbuffers' \in [Chans -> {0, 1}]
      /\ pc' \in [Chans -> Pcs] /\ pc'[c] \in {"alloc", "resume", "end"}
      /\ \A d \in Chans : d # c => pc'[d] = pc[d]
      /\ pc'[c] = "alloc" => call[c] # "close"
      /\ pc'[c] = "resume" => call[c] = "s_fmt"
  BY <1>1, <1>2 DEF Free, Goto, AfterFrames, TypeInv, Pcs
<1>4. ctx' = ctx /\ cpu' \subseteq Chans
  BY <1>1, TakesCpu DEF Free
<1>5. TypeInv'
  BY <1>1, <1>2, <1>3, <1>4 DEF TypeInv, chanVars, fsmVars, hwVars, callVars
<1>6. CallInv'
  BY <1>1, <1>2, <1>3, <1>4, Numbers, NoEventIs DEF CallInv, callVars
<1>7. TaskletInv'
  BY <1>1, <1>2, <1>4, Numbers DEF TaskletInv
<1>8. OpenInv'
  BY <1>1, <1>2, <1>3, <1>4, Numbers, NoEventIs
     DEF OpenInv, Opening, OpeningToo, Hot, Running, Off, chanVars, fsmVars, callVars, TypeInv
<1> QED  BY <1>5, <1>6, <1>7, <1>8 DEF Inv

LEMMA AllocStep ==
  ASSUME Inv, NEW c \in Chans, Alloc(c)
  PROVE  Inv'
<1>1. TypeInv /\ CallInv /\ TaskletInv /\ OpenInv
  BY DEF Inv
<1>2. pc[c] = "alloc" /\ c \in Actors /\ ctx[c].step = "none"
  BY <1>1, Numbers DEF Alloc, CallInv
<1>3. /\ UNCHANGED <<opened_flag, stream_on, fsmVars, en, hwVars, todo, vp_mutex, call, want>>
      /\ nbuffers' \in [Chans -> {0, 1}]
      /\ pc' \in [Chans -> Pcs] /\ pc'[c] \in {"resume", "end"}
      /\ \A d \in Chans : d # c => pc'[d] = pc[d]
      /\ pc'[c] = "resume" => call[c] = "s_fmt"
  BY <1>1, <1>2 DEF Alloc, Goto, AfterFrames, TypeInv, Pcs
<1>4. ctx' = ctx /\ cpu' \subseteq Chans
  BY <1>1, TakesCpu DEF Alloc
<1>5. TypeInv'
  BY <1>1, <1>2, <1>3, <1>4 DEF TypeInv, chanVars, fsmVars, hwVars, callVars
<1>6. CallInv'
  BY <1>1, <1>2, <1>3, <1>4, Numbers, NoEventIs DEF CallInv, callVars
<1>7. TaskletInv'
  BY <1>1, <1>2, <1>4, Numbers DEF TaskletInv
<1>8. OpenInv'
  BY <1>1, <1>2, <1>3, <1>4, Numbers, NoEventIs
     DEF OpenInv, Opening, OpeningToo, Hot, Running, Off, chanVars, fsmVars, callVars, TypeInv
<1> QED  BY <1>5, <1>6, <1>7, <1>8 DEF Inv

LEMMA ResumeAllStep ==
  ASSUME Inv, NEW c \in Chans, ResumeAll(c)
  PROVE  Inv'
<1>1. TypeInv /\ CallInv /\ TaskletInv /\ OpenInv
  BY DEF Inv
<1>2. pc[c] = "resume" /\ c \in Actors /\ ctx[c].step = "none" /\ call[c] = "s_fmt"
  BY <1>1, Numbers DEF ResumeAll, CallInv
<1>3. /\ UNCHANGED <<chanVars, fsmVars, en, chan_flag, cpus, todo, vp_mutex, cpu, call, want>>
      /\ pci_push' \in BOOLEAN
      /\ pc' \in [Chans -> Pcs] /\ pc'[c] \in {"event"}
      /\ \A d \in Chans : d # c => pc'[d] = pc[d]
  BY <1>1, <1>2 DEF ResumeAll, Goto, TypeInv, Pcs
<1>4. /\ ctx' \in [Actors -> Ctx]
      /\ \A b \in Actors : b # c => ctx'[b] = ctx[b]
      /\ ctx'[c].step = "raise" /\ ctx'[c].ev = "resume" /\ ctx'[c].ev \in Drive(call[c])
  <2>1. Drives(c, "resume", 1)
    BY DEF ResumeAll
  <2> QED  BY <1>1, <1>2, <2>1, DrivesIs, DriveIs, Numbers DEF Events
<1>5. TypeInv'
  BY <1>1, <1>2, <1>3, <1>4 DEF TypeInv, chanVars, fsmVars, hwVars, callVars
<1>6. CallInv'
  BY <1>1, <1>2, <1>3, <1>4, Numbers, NoEventIs DEF CallInv, callVars
<1>7. TaskletInv'
  BY <1>1, <1>2, <1>4, Numbers DEF TaskletInv
<1>8. OpenInv'
  BY <1>1, <1>2, <1>3, <1>4, Numbers, NoEventIs
     DEF OpenInv, Opening, OpeningToo, Hot, Running, Off, chanVars, fsmVars, callVars, TypeInv
<1> QED  BY <1>5, <1>6, <1>7, <1>8 DEF Inv

LEMMA EndStep ==
  ASSUME Inv, NEW c \in Chans, End(c)
  PROVE  Inv'
<1>1. TypeInv /\ CallInv /\ TaskletInv /\ OpenInv
  BY DEF Inv
<1>2. pc[c] = "end" /\ c \in Actors /\ ctx[c].step = "none"
  BY <1>1, Numbers DEF End, CallInv
<1>3. /\ UNCHANGED <<chanVars, fsmVars, en, hwVars, todo>>
      /\ call' \in [Chans -> Calls] /\ call'[c] = "none"
      /\ want' \in [Chans -> {0, 1}] /\ vp_mutex' \subseteq Chans
      /\ \A d \in Chans : d # c => call'[d] = call[d]
      /\ pc' \in [Chans -> Pcs] /\ pc'[c] \in {"idle"}
      /\ \A d \in Chans : d # c => pc'[d] = pc[d]
  BY <1>1, <1>2 DEF End, Goto, Unlocks, TypeInv, Pcs, Calls
<1>4. ctx' = ctx /\ cpu' \subseteq Chans
  BY <1>1, TakesCpu DEF End
<1>5. TypeInv'
  BY <1>1, <1>2, <1>3, <1>4 DEF TypeInv, chanVars, fsmVars, hwVars, callVars
<1>6. CallInv'
  BY <1>1, <1>2, <1>3, <1>4, Numbers, NoEventIs DEF CallInv, callVars
<1>7. TaskletInv'
  BY <1>1, <1>2, <1>4, Numbers DEF TaskletInv
<1>8. OpenInv'
  BY <1>1, <1>2, <1>3, <1>4, Numbers, NoEventIs
     DEF OpenInv, Opening, OpeningToo, Hot, Running, Off, chanVars, fsmVars, callVars, TypeInv
<1> QED  BY <1>5, <1>6, <1>7, <1>8 DEF Inv

LEMMA FrameStep ==
  ASSUME Inv, NEW c \in Chans, Frame(c)
  PROVE  Inv'
<1>1. /\ UNCHANGED <<chanVars, fsmVars, en, pci_push, cpus, callVars, ctx, todo>>
      /\ chan_flag' \subseteq Chans
  BY DEF Frame, Inv, TypeInv
<1> QED
  BY <1>1 DEF Inv, TypeInv, CallInv, TaskletInv, OpenInv, Opening, OpeningToo, Hot,
              chanVars, fsmVars, callVars

LEMMA TaskletRunStep ==
  ASSUME Inv, TaskletRun
  PROVE  Inv'
<1>1. /\ UNCHANGED <<chanVars, fsmVars, en, pci_push, cpus, callVars, ctx>>
      /\ chan_flag' \subseteq Chans /\ todo' \subseteq Chans
  BY DEF TaskletRun, Inv, TypeInv
<1> QED
  BY <1>1 DEF Inv, TypeInv, CallInv, TaskletInv, OpenInv, Opening, OpeningToo, Hot,
              chanVars, fsmVars, callVars

LEMMA TaskletFrameStep ==
  ASSUME Inv, NEW c \in Chans, TaskletFrame(c)
  PROVE  Inv'
<1>1. TypeInv /\ CallInv /\ TaskletInv /\ OpenInv
  BY DEF Inv
<1>2. ctx[TASKLET] = NoEvent
  BY DEF TaskletFrame
<1>3. /\ UNCHANGED <<chanVars, fsmVars, en, hwVars, callVars>>
      /\ todo' \subseteq Chans
  BY <1>1 DEF TaskletFrame, TypeInv
<1>4. /\ ctx' \in [Actors -> Ctx]
      /\ \A b \in Actors : b # TASKLET => ctx'[b] = ctx[b]
      /\ ctx'[TASKLET].step = "read" /\ ctx'[TASKLET].ev = "deliver" /\ ctx'[TASKLET].chan = c
  <2> DEFINE g == [Event("deliver", c) EXCEPT !.step = "read"]
  <2>1. g \in Ctx /\ g.step = "read" /\ g.ev = "deliver" /\ g.chan = c
    BY EventIs DEF Ctx, Steps
  <2>2. ctx \in [Actors -> Ctx] /\ ctx' = [ctx EXCEPT ![TASKLET] = g]
    BY <1>1 DEF TaskletFrame, TypeInv
  <2> HIDE DEF g
  <2> QED  BY <2>1, <2>2, Numbers
<1>5. TypeInv'
  BY <1>1, <1>2, <1>3, <1>4 DEF TypeInv, chanVars, fsmVars, hwVars, callVars
<1>6. CallInv'
  BY <1>1, <1>2, <1>3, <1>4, Numbers, NoEventIs DEF CallInv, callVars
<1>7. TaskletInv'
  BY <1>1, <1>2, <1>4, Numbers DEF TaskletInv
<1>8. OpenInv'
  BY <1>1, <1>2, <1>3, <1>4, Numbers, NoEventIs
     DEF OpenInv, Opening, OpeningToo, Hot, Running, Off, chanVars, fsmVars, callVars, TypeInv
<1> QED  BY <1>5, <1>6, <1>7, <1>8 DEF Inv

LEMMA InitInv == Init => Inv
<1> SUFFICES ASSUME Init PROVE Inv
  OBVIOUS
<1>1. \A a \in Actors : ctx[a].step = "none"
  BY NoEventIs DEF Init
<1>2. TypeInv
  BY Numbers, NoEventIs, ChanAssumption
     DEF Init, TypeInv, States, Waited, Calls, Pcs
<1>3. CallInv /\ TaskletInv /\ OpenInv
  BY <1>1, Numbers DEF Init, CallInv, TaskletInv, OpenInv, Opening, OpeningToo, Hot
<1> QED  BY <1>2, <1>3 DEF Inv

LEMMA FsmStepKeeps ==
  ASSUME Inv, NEW a \in Actors, FsmStep(a)
  PROVE  Inv'
BY RaiseStep, ReadStep, ActSuspendStep, ActResumeStep, ActCloseStep, ActOpenStep,
   ActDeliverStep, CheckStep, TriggerStep, LoadStep, StoreStep DEF FsmStep

LEMMA NextInv ==
  ASSUME Inv, [Next]_vars
  PROVE  Inv'
<1>1. CASE UNCHANGED vars
  BY <1>1 DEF Inv, TypeInv, CallInv, TaskletInv, OpenInv, Opening, OpeningToo, Hot, vars,
              chanVars, fsmVars, hwVars, callVars
<1>2. Users \subseteq Chans
  BY ChanAssumption DEF Users, Chans
<1>3. ASSUME NEW c \in Users, Open(c) \/ OpenBusy(c) \/ Close(c) PROVE Inv'
  BY <1>2, <1>3, OpenStep, OpenBusyStep, CloseStep
<1>4. ASSUME NEW c \in Users, NEW n \in {0, 1}, ReqBufs(c, n) PROVE Inv'
  BY <1>2, <1>4, ReqBufsStep
<1>5. ASSUME NEW c \in Users, NEW k \in {"streamon", "streamoff", "s_fmt"}, Ioctl(c, k)
      PROVE  Inv'
  BY <1>2, <1>5, IoctlStep
<1>6. ASSUME NEW c \in Users, Calling(c) PROVE Inv'
  <2>1. c \in Chans /\ c \in Actors
    BY <1>2, Numbers
  <2> QED
    BY <1>6, <2>1, FsmStepKeeps, LockStep, WaitStep, WakeStep, RemapStep, FreeStep,
       AllocStep, ResumeAllStep, EndStep DEF Calling
<1>7. ASSUME NEW c \in Users, Frame(c) PROVE Inv'
  BY <1>2, <1>7, FrameStep
<1>8. CASE Tasklet
  BY <1>8, TaskletRunStep, TaskletFrameStep, FsmStepKeeps, Numbers DEF Tasklet
<1> QED  BY <1>1, <1>3, <1>4, <1>5, <1>6, <1>7, <1>8 DEF Next

-----------------------------------------------------------------------------
(* One processor: a call moves alone *)

LEMMA AloneCall ==
  ASSUME Inv, AloneInv, ~SMP, MayRun, NEW c \in Chans, pc[c] \in Held \ {"alloc"}
  PROVE  /\ \A a \in Actors : a # c => ctx[a].step = "none"
         /\ ctx[TASKLET] = NoEvent
         /\ \A d \in Chans : d # c => pc[d] \in {"idle", "lock", "alloc", "dead"}
         /\ \A d \in Chans : curr_state[d] # "TRANSFERING"
         /\ \A d \in Chans : \A e \in pending[d] : Raised(c, e, d)
         /\ c \in cpu
<1>1. ctx[TASKLET] = NoEvent
  BY DEF MayRun, TaskletIdle
<1>2. c \in cpu /\ \A d \in Chans : d # c => pc[d] \notin Held \ {"alloc"}
  BY DEF AloneInv, LockInv
<1>3. \A d \in Chans : d # c =>
        pc[d] \in {"idle", "lock", "alloc", "dead"} /\ ctx[d].step = "none"
  <2> SUFFICES ASSUME NEW d \in Chans, d # c
               PROVE  pc[d] \in {"idle", "lock", "alloc", "dead"} /\ ctx[d].step = "none"
    OBVIOUS
  <2>1. pc[d] \in Pcs /\ pc[d] \notin Held \ {"alloc"}
    BY <1>2 DEF Inv, TypeInv
  <2>2. pc[d] \in {"idle", "lock", "alloc", "dead"}
    BY <2>1 DEF Pcs, Held
  <2> QED  BY <2>2 DEF Inv, CallInv
<1>4. \A d \in Chans : curr_state[d] # "TRANSFERING"
  BY <1>1, NoEventIs DEF AloneInv, FrameInv
<1>5. \A d \in Chans : \A e \in pending[d] : Raised(c, e, d)
  BY <1>3 DEF AloneInv, FrameInv, Raised
<1> QED  BY <1>1, <1>2, <1>3, <1>4, <1>5, NoEventIs DEF Actors

LEMMA CallRaise ==
  ASSUME Inv, AloneInv, ~SMP, MayRun, NEW c \in Chans, Raise(c), Inv'
  PROVE  AloneInv'
<1>1. /\ TypeInv /\ TypeInv' /\ CallInv /\ OpenInv
      /\ LockInv /\ StateInv /\ ReadInv /\ FrameInv /\ EnInv
      /\ DoneInv /\ QuietInv /\ BufInv /\ OnInv
  BY DEF Inv, AloneInv
<1> DEFINE e == ctx[c].ev
           d == ctx[c].chan
<1>2. /\ ctx[c] \in Ctx /\ d \in Chans /\ e \in Events /\ c \in Actors
      /\ ctx[c].step = "raise" /\ pc[c] = "event"
      /\ e \in {"open", "close"} => d = c
      /\ call[c] # "s_fmt" => d = c
      /\ call[c] = "streamoff" => e = "suspend"
      /\ en \subseteq Chans
  <2>1. ctx[c].step = "raise"
    BY DEF Raise
  <2>2. call[c] # "s_fmt" => d = c
    BY <1>1, <2>1 DEF CallInv
  <2>3. en \subseteq Chans
    BY <1>1 DEF TypeInv
  <2>4. call[c] = "streamoff" => e = "suspend"
    BY <2>1, EventOf, DriveIs, Numbers
  <2> QED  BY <2>1, <2>2, <2>3, <2>4, EventOf, Numbers
<1>3. /\ \A a \in Actors : a # c => ctx[a].step = "none"
      /\ ctx[TASKLET] = NoEvent
      /\ \A x \in Chans : x # c => pc[x] \in {"idle", "lock", "alloc", "dead"}
      /\ \A x \in Chans : curr_state[x] # "TRANSFERING"
      /\ \A x \in Chans : \A f \in pending[x] : Raised(c, f, x)
      /\ \A x \in en : curr_state[x] \in Off =>
           Switches(c, "suspend", x) \/ Switches(c, "close", x) \/ Closes(c, x)
      /\ \A x \in Chans \ en : curr_state[x] \in Running => Switches(c, "resume", x)
      /\ Switches(c, "suspend", d) => curr_state[d] = "SUSPEND"
      /\ Switches(c, "resume", d) => curr_state[d] \in Running
      /\ Switches(c, "close", d) => curr_state[d] = "UNREGISTER"
  <2>1. /\ \A a \in Actors : a # c => ctx[a].step = "none"
        /\ ctx[TASKLET] = NoEvent
        /\ \A x \in Chans : x # c => pc[x] \in {"idle", "lock", "alloc", "dead"}
        /\ \A x \in Chans : curr_state[x] # "TRANSFERING"
        /\ \A x \in Chans : \A f \in pending[x] : Raised(c, f, x)
    BY <1>2, AloneCall DEF Held
  <2>2. /\ \A x \in en : curr_state[x] \in Off =>
             Switches(c, "suspend", x) \/ Switches(c, "close", x) \/ Closes(c, x)
        /\ \A x \in Chans \ en : curr_state[x] \in Running => Switches(c, "resume", x)
    BY <1>1, <2>1 DEF EnInv, Switches, Closes
  <2>3. /\ Switches(c, "suspend", d) => curr_state[d] = "SUSPEND"
        /\ Switches(c, "resume", d) => curr_state[d] \in Running
        /\ Switches(c, "close", d) => curr_state[d] = "UNREGISTER"
    BY <1>1, <1>2 DEF EnInv, Switches
  <2> QED  BY <2>1, <2>2, <2>3
<1>4. /\ UNCHANGED <<chanVars, curr_state, en, hwVars, callVars, todo>>
      /\ \A x \in Chans : \A f \in pending'[x] : f = e /\ x = d
      /\ done' \in [Chans -> SUBSET Waited]
      /\ \A x \in Chans : "close" \in done[x] => "close" \in done'[x]
  <2>1. pending' = [pending EXCEPT ![d] = @ \cup {e}]
    BY DEF Raise
  <2>2. \A x \in Chans : pending[x] = {}
    BY <1>2, <1>3 DEF Raised
  <2>3. /\ done' = done \/ done' = [done EXCEPT ![d] = @ \ {e}]
        /\ e = "close" => done' = done
    BY DEF Raise
  <2>4. UNCHANGED <<chanVars, curr_state, en, hwVars, callVars, todo>>
    BY DEF Raise
  <2> QED  BY <1>1, <1>2, <2>1, <2>2, <2>3, <2>4 DEF TypeInv, Events, Waited
<1>5. /\ \A b \in Actors : b # c => ctx'[b] = ctx[b]
      /\ ctx'[c].step = "read" /\ ctx'[c].ev = e /\ ctx'[c].chan = d
  <2>1. ctx' \in [Actors -> Ctx]
    BY <1>1 DEF TypeInv
  <2>2. \A b \in Actors : ctx'[b] =
           IF b = c THEN [ctx[c] EXCEPT !.step = "read"]
           ELSE IF e \in {"suspend", "resume"} /\ SleepsOn(b, e, d)
                THEN [ctx[b] EXCEPT !.step = "lost"] ELSE ctx[b]
    BY DEF Raise
  <2>3. \A b \in Actors : b # c => ~SleepsOn(b, e, d)
    BY <1>3 DEF SleepsOn
  <2>4. ctx'[c] = [ctx[c] EXCEPT !.step = "read"] /\ \A b \in Actors : b # c => ctx'[b] = ctx[b]
    BY <1>2, <2>2, <2>3
  <2> QED  BY <1>2, <2>4 DEF Ctx
<1> HIDE DEF e, d
<1>6. LockInv'
  BY <1>1, <1>4 DEF LockInv, callVars
<1>7. StateInv' /\ OpenInv'
  BY <1>1, <1>2, <1>3, <1>4, <1>5, Numbers DEF StateInv, Opening, Running, Off, chanVars, fsmVars, e, d, Inv
<1>8. ReadInv'
  BY <1>1, <1>2, <1>3, <1>4, <1>5, Numbers DEF ReadInv, chanVars, fsmVars, Running, Off, States, TypeInv, e, d
<1>9. FrameInv'
  BY <1>1, <1>2, <1>3, <1>4, <1>5, Numbers, NoEventIs DEF FrameInv, Raised, chanVars, fsmVars, e, d
<1>10. EnInv'
  <2>1. /\ \A a \in Actors : a # c => ctx'[a].step = "none"
        /\ \A a \in Actors : ctx'[a].step = "store" => ctx'[a].reg = en'
    BY <1>1, <1>2, <1>3, <1>4, <1>5 DEF EnInv, chanVars, fsmVars
  <2>2. ctx'[c].step \in {"load", "store"} =>
          /\ ctx'[c].ev = "suspend" => curr_state'[d] = "SUSPEND"
          /\ ctx'[c].ev = "resume" => curr_state'[d] \in Running
          /\ ctx'[c].ev = "close" => curr_state'[d] = "UNREGISTER"
    BY <1>2, <1>3, <1>4, <1>5 DEF Switches, chanVars, fsmVars, Running, e, d
  <2>3. \A x \in en' : curr_state'[x] \in Off =>
          (Switches(c, "suspend", x) \/ Switches(c, "close", x) \/ Closes(c, x))'
    BY <1>1, <1>2, <1>3, <1>4, <1>5
       DEF Switches, Closes, chanVars, fsmVars, Running, Off, e, d
  <2>4. \A x \in Chans \ en' : curr_state'[x] \in Running => Switches(c, "resume", x)'
    BY <1>1, <1>2, <1>3, <1>4, <1>5
       DEF Switches, chanVars, fsmVars, Running, Off, e, d
  <2> QED  BY <1>2, <1>5, <2>1, <2>2, <2>3, <2>4 DEF EnInv
<1>11. DoneInv'
  BY <1>1, <1>2, <1>3, <1>4, <1>5, Numbers DEF DoneInv, Switches, chanVars, fsmVars, e, d
<1>12. QuietInv'
  BY <1>1, <1>2, <1>3, <1>4, <1>5, Numbers DEF QuietInv, Quiet, Switches, Closes, chanVars, callVars, fsmVars, Running, Off, e, d
<1>13. BufInv'
  BY <1>1, <1>2, <1>3, <1>4, <1>5, Numbers DEF BufInv, Switches, chanVars, callVars, hwVars, fsmVars, Running, e, d
<1>14. OnInv'
  BY <1>1, <1>2, <1>3, <1>4, <1>5, Numbers DEF OnInv, chanVars, callVars, fsmVars, Running, Off, e, d
<1> QED
  BY <1>6, <1>7, <1>8, <1>9, <1>10, <1>11, <1>12, <1>13, <1>14 DEF AloneInv

LEMMA CallRead ==
  ASSUME Inv, AloneInv, ~SMP, MayRun, NEW c \in Chans, Read(c), Inv'
  PROVE  AloneInv'
<1>1. /\ TypeInv /\ TypeInv' /\ CallInv /\ OpenInv
      /\ LockInv /\ StateInv /\ ReadInv /\ FrameInv /\ EnInv
      /\ DoneInv /\ QuietInv /\ BufInv /\ OnInv
  BY DEF Inv, AloneInv
<1> DEFINE e == ctx[c].ev
           d == ctx[c].chan
<1>2. /\ ctx[c] \in Ctx /\ d \in Chans /\ e \in Events /\ c \in Actors
      /\ ctx[c].step = "read" /\ pc[c] = "event"
      /\ e \in {"open", "close"} => d = c
      /\ call[c] # "s_fmt" => d = c
      /\ call[c] = "streamoff" => e = "suspend"
      /\ en \subseteq Chans
  <2>1. ctx[c].step = "read"
    BY DEF Read
  <2>2. call[c] # "s_fmt" => d = c
    BY <1>1, <2>1 DEF CallInv
  <2>3. en \subseteq Chans
    BY <1>1 DEF TypeInv
  <2>4. call[c] = "streamoff" => e = "suspend"
    BY <2>1, EventOf, DriveIs, Numbers
  <2> QED  BY <2>1, <2>2, <2>3, <2>4, EventOf, Numbers
<1>3. /\ \A a \in Actors : a # c => ctx[a].step = "none"
      /\ ctx[TASKLET] = NoEvent
      /\ \A x \in Chans : x # c => pc[x] \in {"idle", "lock", "alloc", "dead"}
      /\ \A x \in Chans : curr_state[x] # "TRANSFERING"
      /\ \A x \in Chans : \A f \in pending[x] : Raised(c, f, x)
      /\ \A x \in en : curr_state[x] \in Off =>
           Switches(c, "suspend", x) \/ Switches(c, "close", x) \/ Closes(c, x)
      /\ \A x \in Chans \ en : curr_state[x] \in Running => Switches(c, "resume", x)
      /\ Switches(c, "suspend", d) => curr_state[d] = "SUSPEND"
      /\ Switches(c, "resume", d) => curr_state[d] \in Running
      /\ Switches(c, "close", d) => curr_state[d] = "UNREGISTER"
  <2>1. /\ \A a \in Actors : a # c => ctx[a].step = "none"
        /\ ctx[TASKLET] = NoEvent
        /\ \A x \in Chans : x # c => pc[x] \in {"idle", "lock", "alloc", "dead"}
        /\ \A x \in Chans : curr_state[x] # "TRANSFERING"
        /\ \A x \in Chans : \A f \in pending[x] : Raised(c, f, x)
    BY <1>2, AloneCall DEF Held
  <2>2. /\ \A x \in en : curr_state[x] \in Off =>
             Switches(c, "suspend", x) \/ Switches(c, "close", x) \/ Closes(c, x)
        /\ \A x \in Chans \ en : curr_state[x] \in Running => Switches(c, "resume", x)
    BY <1>1, <2>1 DEF EnInv, Switches, Closes
  <2>3. /\ Switches(c, "suspend", d) => curr_state[d] = "SUSPEND"
        /\ Switches(c, "resume", d) => curr_state[d] \in Running
        /\ Switches(c, "close", d) => curr_state[d] = "UNREGISTER"
    BY <1>1, <1>2 DEF EnInv, Switches
  <2> QED  BY <2>1, <2>2, <2>3
<1>4. /\ UNCHANGED <<chanVars, curr_state, done, en, hwVars, callVars, todo>>
      /\ \A x \in Chans : pending'[x] = {}
  <2>1. \A x \in Chans : pending[x] \subseteq IF x = d THEN {e} ELSE {}
    BY <1>3 DEF Raised
  <2>2. pending' = [pending EXCEPT ![d] = @ \ {e}] /\ pending \in [Chans -> SUBSET Events]
    BY <1>1 DEF Read, TypeInv
  <2>3. UNCHANGED <<chanVars, curr_state, done, en, hwVars, callVars, todo>>
    BY DEF Read
  <2> QED  BY <1>2, <2>1, <2>2, <2>3
<1>5. /\ \A b \in Actors : b # c => ctx'[b] = ctx[b]
      /\ ctx'[c].step = "act" /\ ctx'[c].ev = e /\ ctx'[c].chan = d
      /\ ctx'[c].st = curr_state[d]
  <2> DEFINE g == [ctx[c] EXCEPT !.step = "act", !.st = curr_state[d]]
  <2>1. g.step = "act" /\ g.ev = e /\ g.chan = d /\ g.st = curr_state[d]
    BY <1>2 DEF Ctx
  <2>2. ctx \in [Actors -> Ctx] /\ ctx' = [ctx EXCEPT ![c] = g]
    BY <1>1 DEF Read, TypeInv
  <2> HIDE DEF g
  <2> QED  BY <1>2, <2>1, <2>2
<1> HIDE DEF e, d
<1>6. LockInv'
  BY <1>1, <1>4 DEF LockInv, callVars
<1>7. StateInv' /\ OpenInv'
  BY <1>1, <1>2, <1>3, <1>4, <1>5, Numbers DEF StateInv, Opening, Running, Off, chanVars, fsmVars, e, d, Inv
<1>8. ReadInv'
  BY <1>1, <1>2, <1>3, <1>4, <1>5, Numbers DEF ReadInv, chanVars, fsmVars, Running, Off, States, TypeInv, e, d
<1>9. FrameInv'
  BY <1>1, <1>2, <1>3, <1>4, <1>5, Numbers, NoEventIs DEF FrameInv, Raised, chanVars, fsmVars, e, d
<1>10. EnInv'
  <2>1. /\ \A a \in Actors : a # c => ctx'[a].step = "none"
        /\ \A a \in Actors : ctx'[a].step = "store" => ctx'[a].reg = en'
    BY <1>1, <1>2, <1>3, <1>4, <1>5 DEF EnInv, chanVars, fsmVars
  <2>2. ctx'[c].step \in {"load", "store"} =>
          /\ ctx'[c].ev = "suspend" => curr_state'[d] = "SUSPEND"
          /\ ctx'[c].ev = "resume" => curr_state'[d] \in Running
          /\ ctx'[c].ev = "close" => curr_state'[d] = "UNREGISTER"
    BY <1>2, <1>3, <1>4, <1>5 DEF Switches, chanVars, fsmVars, Running, e, d
  <2>3. \A x \in en' : curr_state'[x] \in Off =>
          (Switches(c, "suspend", x) \/ Switches(c, "close", x) \/ Closes(c, x))'
    BY <1>1, <1>2, <1>3, <1>4, <1>5
       DEF Switches, Closes, chanVars, fsmVars, Running, Off, e, d
  <2>4. \A x \in Chans \ en' : curr_state'[x] \in Running => Switches(c, "resume", x)'
    BY <1>1, <1>2, <1>3, <1>4, <1>5
       DEF Switches, chanVars, fsmVars, Running, Off, e, d
  <2> QED  BY <1>2, <1>5, <2>1, <2>2, <2>3, <2>4 DEF EnInv
<1>11. DoneInv'
  BY <1>1, <1>2, <1>3, <1>4, <1>5, Numbers DEF DoneInv, Switches, chanVars, fsmVars, e, d
<1>12. QuietInv'
  BY <1>1, <1>2, <1>3, <1>4, <1>5, Numbers DEF QuietInv, Quiet, Switches, Closes, chanVars, callVars, fsmVars, Running, Off, e, d
<1>13. BufInv'
  BY <1>1, <1>2, <1>3, <1>4, <1>5, Numbers DEF BufInv, Switches, chanVars, callVars, hwVars, fsmVars, Running, e, d
<1>14. OnInv'
  BY <1>1, <1>2, <1>3, <1>4, <1>5, Numbers DEF OnInv, chanVars, callVars, fsmVars, Running, Off, e, d
<1> QED
  BY <1>6, <1>7, <1>8, <1>9, <1>10, <1>11, <1>12, <1>13, <1>14 DEF AloneInv

LEMMA CallActSuspend ==
  ASSUME Inv, AloneInv, ~SMP, MayRun, NEW c \in Chans, ActSuspend(c), Inv'
  PROVE  AloneInv'
<1>1. /\ TypeInv /\ TypeInv' /\ CallInv /\ OpenInv
      /\ LockInv /\ StateInv /\ ReadInv /\ FrameInv /\ EnInv
      /\ DoneInv /\ QuietInv /\ BufInv /\ OnInv
  BY DEF Inv, AloneInv
<1> DEFINE e == ctx[c].ev
           d == ctx[c].chan
<1>2. /\ ctx[c] \in Ctx /\ d \in Chans /\ e \in Events /\ c \in Actors
      /\ ctx[c].step = "act" /\ e = "suspend" /\ pc[c] = "event"
      /\ e \in {"open", "close"} => d = c
      /\ call[c] # "s_fmt" => d = c
      /\ call[c] = "streamoff" => e = "suspend"
      /\ en \subseteq Chans
  <2>1. ctx[c].step = "act" /\ e = "suspend"
    BY DEF ActSuspend
  <2>2. call[c] # "s_fmt" => d = c
    BY <1>1, <2>1 DEF CallInv
  <2>3. en \subseteq Chans
    BY <1>1 DEF TypeInv
  <2>4. call[c] = "streamoff" => e = "suspend"
    BY <2>1, EventOf, DriveIs, Numbers
  <2> QED  BY <2>1, <2>2, <2>3, <2>4, EventOf, Numbers
<1>3. /\ \A a \in Actors : a # c => ctx[a].step = "none"
      /\ ctx[TASKLET] = NoEvent
      /\ \A x \in Chans : x # c => pc[x] \in {"idle", "lock", "alloc", "dead"}
      /\ \A x \in Chans : curr_state[x] # "TRANSFERING"
      /\ \A x \in Chans : \A f \in pending[x] : Raised(c, f, x)
      /\ \A x \in en : curr_state[x] \in Off =>
           Switches(c, "suspend", x) \/ Switches(c, "close", x) \/ Closes(c, x)
      /\ \A x \in Chans \ en : curr_state[x] \in Running => Switches(c, "resume", x)
      /\ Switches(c, "suspend", d) => curr_state[d] = "SUSPEND"
      /\ Switches(c, "resume", d) => curr_state[d] \in Running
      /\ Switches(c, "close", d) => curr_state[d] = "UNREGISTER"
  <2>1. /\ \A a \in Actors : a # c => ctx[a].step = "none"
        /\ ctx[TASKLET] = NoEvent
        /\ \A x \in Chans : x # c => pc[x] \in {"idle", "lock", "alloc", "dead"}
        /\ \A x \in Chans : curr_state[x] # "TRANSFERING"
        /\ \A x \in Chans : \A f \in pending[x] : Raised(c, f, x)
    BY <1>2, AloneCall DEF Held
  <2>2. /\ \A x \in en : curr_state[x] \in Off =>
             Switches(c, "suspend", x) \/ Switches(c, "close", x) \/ Closes(c, x)
        /\ \A x \in Chans \ en : curr_state[x] \in Running => Switches(c, "resume", x)
    BY <1>1, <2>1 DEF EnInv, Switches, Closes
  <2>3. /\ Switches(c, "suspend", d) => curr_state[d] = "SUSPEND"
        /\ Switches(c, "resume", d) => curr_state[d] \in Running
        /\ Switches(c, "close", d) => curr_state[d] = "UNREGISTER"
    BY <1>1, <1>2 DEF EnInv, Switches
  <2> QED  BY <2>1, <2>2, <2>3
<1>4. /\ UNCHANGED <<opened_flag, stream_on, pending, en, nbuffers, hwVars, callVars, todo>>
      /\ \A x \in Chans : pending[x] = {}
      /\ \/ /\ curr_state[d] \in Off /\ curr_state' = curr_state
            /\ done' = [done EXCEPT ![d] = @ \cup {"suspend"}] /\ EventThrough(c)
         \/ /\ curr_state[d] \in Running
            /\ curr_state' = [curr_state EXCEPT ![d] = "SUSPEND"]
            /\ done' = done /\ Goes(c, "load")
  <2>1. UNCHANGED <<opened_flag, stream_on, en, nbuffers, hwVars, callVars, todo>>
    BY DEF ActSuspend, FsmUnchanged
  <2>2. \A x \in Chans : pending[x] = {}
    BY <1>1, <1>2, <1>3 DEF Raised, TypeInv
  <2>3. \/ ctx[c].st \in {"STANDBY", "DONE"} /\ curr_state[d] \in Running
        \/ ctx[c].st \in Off /\ curr_state[d] = ctx[c].st
    BY <1>1, <1>2 DEF ReadInv
  <2>4. CASE ctx[c].st \in Off /\ curr_state[d] = ctx[c].st
    BY <2>1, <2>2, <2>4 DEF ActSuspend, Complete, Off
  <2>5. CASE ctx[c].st \in {"STANDBY", "DONE"} /\ curr_state[d] \in Running
    BY <2>1, <2>2, <2>5 DEF ActSuspend, Becomes, Off
  <2> QED  BY <2>3, <2>4, <2>5
<1>5. /\ \A b \in Actors : b # c => ctx'[b] = ctx[b]
      /\ ctx'[c].ev = e /\ ctx'[c].chan = d
      /\ \/ /\ curr_state[d] \in Off /\ curr_state' = curr_state /\ "suspend" \in done'[d]
            /\ ctx'[c].step = "wait"
         \/ /\ curr_state[d] \in Running /\ curr_state'[d] = "SUSPEND"
            /\ ctx'[c].step = "load"
      /\ \A x \in Chans : x # d => curr_state'[x] = curr_state[x]
      /\ \A x \in Chans : done[x] \subseteq done'[x]
  BY <1>1, <1>2, <1>4, Numbers, ThroughIs, GoesIs DEF TypeInv, Steps
<1> HIDE DEF e, d
<1>6. LockInv'
  BY <1>1, <1>4 DEF LockInv, callVars
<1>7. StateInv' /\ OpenInv'
  BY <1>1, <1>2, <1>3, <1>4, <1>5, Numbers DEF StateInv, Opening, Running, Off, chanVars, fsmVars, e, d, Inv
<1>8. ReadInv'
  BY <1>1, <1>2, <1>3, <1>4, <1>5, Numbers DEF ReadInv, chanVars, fsmVars, Running, Off, States, TypeInv, e, d
<1>9. FrameInv'
  BY <1>1, <1>2, <1>3, <1>4, <1>5, Numbers, NoEventIs DEF FrameInv, Raised, chanVars, fsmVars, e, d
<1>10. EnInv'
  <2>1. /\ \A a \in Actors : a # c => ctx'[a].step = "none"
        /\ \A a \in Actors : ctx'[a].step = "store" => ctx'[a].reg = en'
    BY <1>1, <1>2, <1>3, <1>4, <1>5 DEF EnInv, chanVars, fsmVars
  <2>2. ctx'[c].step \in {"load", "store"} =>
          /\ ctx'[c].ev = "suspend" => curr_state'[d] = "SUSPEND"
          /\ ctx'[c].ev = "resume" => curr_state'[d] \in Running
          /\ ctx'[c].ev = "close" => curr_state'[d] = "UNREGISTER"
    BY <1>2, <1>3, <1>4, <1>5 DEF Switches, chanVars, fsmVars, Running, e, d
  <2>3. \A x \in en' : curr_state'[x] \in Off =>
          (Switches(c, "suspend", x) \/ Switches(c, "close", x) \/ Closes(c, x))'
    BY <1>1, <1>2, <1>3, <1>4, <1>5
       DEF Switches, Closes, chanVars, fsmVars, Running, Off, e, d
  <2>4. \A x \in Chans \ en' : curr_state'[x] \in Running => Switches(c, "resume", x)'
    BY <1>1, <1>2, <1>3, <1>4, <1>5
       DEF Switches, chanVars, fsmVars, Running, Off, e, d
  <2> QED  BY <1>2, <1>5, <2>1, <2>2, <2>3, <2>4 DEF EnInv
<1>11. DoneInv'
  BY <1>1, <1>2, <1>3, <1>4, <1>5, Numbers DEF DoneInv, Switches, chanVars, fsmVars, e, d
<1>12. QuietInv'
  BY <1>1, <1>2, <1>3, <1>4, <1>5, Numbers DEF QuietInv, Quiet, Switches, Closes, chanVars, callVars, fsmVars, Running, Off, e, d
<1>13. BufInv'
  BY <1>1, <1>2, <1>3, <1>4, <1>5, Numbers DEF BufInv, Switches, chanVars, callVars, hwVars, fsmVars, Running, e, d
<1>14. OnInv'
  BY <1>1, <1>2, <1>3, <1>4, <1>5, Numbers DEF OnInv, chanVars, callVars, fsmVars, Running, Off, e, d
<1> QED
  BY <1>6, <1>7, <1>8, <1>9, <1>10, <1>11, <1>12, <1>13, <1>14 DEF AloneInv

LEMMA CallActResume ==
  ASSUME Inv, AloneInv, ~SMP, MayRun, NEW c \in Chans, ActResume(c), Inv'
  PROVE  AloneInv'
<1>1. /\ TypeInv /\ TypeInv' /\ CallInv /\ OpenInv
      /\ LockInv /\ StateInv /\ ReadInv /\ FrameInv /\ EnInv
      /\ DoneInv /\ QuietInv /\ BufInv /\ OnInv
  BY DEF Inv, AloneInv
<1> DEFINE e == ctx[c].ev
           d == ctx[c].chan
<1>2. /\ ctx[c] \in Ctx /\ d \in Chans /\ e \in Events /\ c \in Actors
      /\ ctx[c].step = "act" /\ e = "resume" /\ pc[c] = "event"
      /\ e \in {"open", "close"} => d = c
      /\ call[c] # "s_fmt" => d = c
      /\ call[c] = "streamoff" => e = "suspend"
      /\ en \subseteq Chans
  <2>1. ctx[c].step = "act" /\ e = "resume"
    BY DEF ActResume
  <2>2. call[c] # "s_fmt" => d = c
    BY <1>1, <2>1 DEF CallInv
  <2>3. en \subseteq Chans
    BY <1>1 DEF TypeInv
  <2>4. call[c] = "streamoff" => e = "suspend"
    BY <2>1, EventOf, DriveIs, Numbers
  <2> QED  BY <2>1, <2>2, <2>3, <2>4, EventOf, Numbers
<1>3. /\ \A a \in Actors : a # c => ctx[a].step = "none"
      /\ ctx[TASKLET] = NoEvent
      /\ \A x \in Chans : x # c => pc[x] \in {"idle", "lock", "alloc", "dead"}
      /\ \A x \in Chans : curr_state[x] # "TRANSFERING"
      /\ \A x \in Chans : \A f \in pending[x] : Raised(c, f, x)
      /\ \A x \in en : curr_state[x] \in Off =>
           Switches(c, "suspend", x) \/ Switches(c, "close", x) \/ Closes(c, x)
      /\ \A x \in Chans \ en : curr_state[x] \in Running => Switches(c, "resume", x)
      /\ Switches(c, "suspend", d) => curr_state[d] = "SUSPEND"
      /\ Switches(c, "resume", d) => curr_state[d] \in Running
      /\ Switches(c, "close", d) => curr_state[d] = "UNREGISTER"
  <2>1. /\ \A a \in Actors : a # c => ctx[a].step = "none"
        /\ ctx[TASKLET] = NoEvent
        /\ \A x \in Chans : x # c => pc[x] \in {"idle", "lock", "alloc", "dead"}
        /\ \A x \in Chans : curr_state[x] # "TRANSFERING"
        /\ \A x \in Chans : \A f \in pending[x] : Raised(c, f, x)
    BY <1>2, AloneCall DEF Held
  <2>2. /\ \A x \in en : curr_state[x] \in Off =>
             Switches(c, "suspend", x) \/ Switches(c, "close", x) \/ Closes(c, x)
        /\ \A x \in Chans \ en : curr_state[x] \in Running => Switches(c, "resume", x)
    BY <1>1, <2>1 DEF EnInv, Switches, Closes
  <2>3. /\ Switches(c, "suspend", d) => curr_state[d] = "SUSPEND"
        /\ Switches(c, "resume", d) => curr_state[d] \in Running
        /\ Switches(c, "close", d) => curr_state[d] = "UNREGISTER"
    BY <1>1, <1>2 DEF EnInv, Switches
  <2> QED  BY <2>1, <2>2, <2>3
<1>4. /\ UNCHANGED <<opened_flag, stream_on, pending, en, nbuffers, hwVars, callVars, todo>>
      /\ \A x \in Chans : pending[x] = {}
      /\ \A x \in Chans : pc[x] = "alloc" => call[x] # "s_fmt"
      /\ \/ /\ curr_state' = curr_state
            /\ done' = [done EXCEPT ![d] = @ \cup {"resume"}] /\ EventThrough(c)
         \/ /\ curr_state[d] = "SUSPEND" /\ nbuffers[d] # 0 /\ stream_on[d]
            /\ curr_state' = [curr_state EXCEPT ![d] = "STANDBY"]
            /\ done' = done /\ Goes(c, "load")
  <2>1. UNCHANGED <<opened_flag, stream_on, pending, en, nbuffers, hwVars, callVars, todo>>
    BY DEF ActResume, FsmUnchanged
  <2>2. \A x \in Chans : pending[x] = {}
    BY <1>1, <1>2, <1>3 DEF Raised, TypeInv
  <2>3. c \in vp_mutex
    <3>1. "resume" \in Drive(call[c]) /\ call[c] \in Calls
      BY <1>1, <1>2, EventOf DEF TypeInv
    <3>2. call[c] \in {"streamon", "s_fmt"}
      BY <3>1 DEF Drive, Calls
    <3> QED  BY <1>1, <1>2, <3>2 DEF LockInv, Held
  <2>4. \A x \in Chans : pc[x] = "alloc" => call[x] # "s_fmt"
    BY <1>1, <1>2, <2>3 DEF LockInv, Held
  <2>5. CASE ctx[c].st = "SUSPEND" /\ prev_resource_on(d)
    <3>1. curr_state[d] = "SUSPEND"
      BY <1>1, <1>2, <2>5 DEF ReadInv, Off
    <3>2. nbuffers[d] # 0 /\ stream_on[d]
      BY <2>5 DEF prev_resource_on
    <3>3. curr_state' = [curr_state EXCEPT ![d] = "STANDBY"] /\ done' = done /\ Goes(c, "load")
      BY <2>5 DEF ActResume, Becomes
    <3> QED  BY <2>1, <2>2, <2>4, <3>1, <3>2, <3>3
  <2>6. CASE ~(ctx[c].st = "SUSPEND" /\ prev_resource_on(d))
    <3>1. /\ curr_state' = curr_state /\ EventThrough(c)
          /\ done' = [done EXCEPT ![d] = @ \cup {"resume"}]
      BY <2>6 DEF ActResume, Complete
    <3> QED  BY <2>1, <2>2, <2>4, <3>1
  <2> QED  BY <2>5, <2>6
<1>5. /\ \A b \in Actors : b # c => ctx'[b] = ctx[b]
      /\ ctx'[c].ev = e /\ ctx'[c].chan = d
      /\ \/ curr_state' = curr_state /\ "resume" \in done'[d] /\ ctx'[c].step = "wait"
         \/ /\ curr_state[d] = "SUSPEND" /\ nbuffers[d] # 0 /\ stream_on[d]
            /\ curr_state'[d] = "STANDBY" /\ ctx'[c].step = "load"
      /\ \A x \in Chans : x # d => curr_state'[x] = curr_state[x]
      /\ \A x \in Chans : done[x] \subseteq done'[x]
  BY <1>1, <1>2, <1>4, Numbers, ThroughIs, GoesIs DEF TypeInv, Steps
<1> HIDE DEF e, d
<1>6. LockInv'
  BY <1>1, <1>4 DEF LockInv, callVars
<1>7. StateInv' /\ OpenInv'
  BY <1>1, <1>2, <1>3, <1>4, <1>5, Numbers DEF StateInv, Opening, Running, Off, chanVars, fsmVars, e, d, Inv
<1>8. ReadInv'
  BY <1>1, <1>2, <1>3, <1>4, <1>5, Numbers DEF ReadInv, chanVars, fsmVars, Running, Off, States, TypeInv, e, d
<1>9. FrameInv'
  BY <1>1, <1>2, <1>3, <1>4, <1>5, Numbers, NoEventIs DEF FrameInv, Raised, chanVars, fsmVars, e, d
<1>10. EnInv'
  <2>1. /\ \A a \in Actors : a # c => ctx'[a].step = "none"
        /\ \A a \in Actors : ctx'[a].step = "store" => ctx'[a].reg = en'
    BY <1>1, <1>2, <1>3, <1>4, <1>5 DEF EnInv, chanVars, fsmVars
  <2>2. ctx'[c].step \in {"load", "store"} =>
          /\ ctx'[c].ev = "suspend" => curr_state'[d] = "SUSPEND"
          /\ ctx'[c].ev = "resume" => curr_state'[d] \in Running
          /\ ctx'[c].ev = "close" => curr_state'[d] = "UNREGISTER"
    BY <1>2, <1>3, <1>4, <1>5 DEF Switches, chanVars, fsmVars, Running, e, d
  <2>3. \A x \in en' : curr_state'[x] \in Off =>
          (Switches(c, "suspend", x) \/ Switches(c, "close", x) \/ Closes(c, x))'
    BY <1>1, <1>2, <1>3, <1>4, <1>5
       DEF Switches, Closes, chanVars, fsmVars, Running, Off, e, d
  <2>4. \A x \in Chans \ en' : curr_state'[x] \in Running => Switches(c, "resume", x)'
    BY <1>1, <1>2, <1>3, <1>4, <1>5
       DEF Switches, chanVars, fsmVars, Running, Off, e, d
  <2> QED  BY <1>2, <1>5, <2>1, <2>2, <2>3, <2>4 DEF EnInv
<1>11. DoneInv'
  BY <1>1, <1>2, <1>3, <1>4, <1>5, Numbers DEF DoneInv, Switches, chanVars, fsmVars, e, d
<1>12. QuietInv'
  BY <1>1, <1>2, <1>3, <1>4, <1>5, Numbers DEF QuietInv, Quiet, Switches, Closes, chanVars, callVars, fsmVars, Running, Off, e, d
<1>13. BufInv'
  BY <1>1, <1>2, <1>3, <1>4, <1>5, Numbers DEF BufInv, Switches, chanVars, callVars, hwVars, fsmVars, Running, e, d, TypeInv
<1>14. OnInv'
  BY <1>1, <1>2, <1>3, <1>4, <1>5, Numbers DEF OnInv, chanVars, callVars, fsmVars, Running, Off, e, d
<1> QED
  BY <1>6, <1>7, <1>8, <1>9, <1>10, <1>11, <1>12, <1>13, <1>14 DEF AloneInv

LEMMA CallActClose ==
  ASSUME Inv, AloneInv, ~SMP, MayRun, NEW c \in Chans, ActClose(c), Inv'
  PROVE  AloneInv'
<1>1. /\ TypeInv /\ TypeInv' /\ CallInv /\ OpenInv
      /\ LockInv /\ StateInv /\ ReadInv /\ FrameInv /\ EnInv
      /\ DoneInv /\ QuietInv /\ BufInv /\ OnInv
  BY DEF Inv, AloneInv
<1> DEFINE e == ctx[c].ev
           d == ctx[c].chan
<1>2. /\ ctx[c] \in Ctx /\ d \in Chans /\ e \in Events /\ c \in Actors
      /\ ctx[c].step = "act" /\ e = "close" /\ pc[c] = "event"
      /\ e \in {"open", "close"} => d = c
      /\ call[c] # "s_fmt" => d = c
      /\ call[c] = "streamoff" => e = "suspend"
      /\ en \subseteq Chans
  <2>1. ctx[c].step = "act" /\ e = "close"
    BY DEF ActClose
  <2>2. call[c] # "s_fmt" => d = c
    BY <1>1, <2>1 DEF CallInv
  <2>3. en \subseteq Chans
    BY <1>1 DEF TypeInv
  <2>4. call[c] = "streamoff" => e = "suspend"
    BY <2>1, EventOf, DriveIs, Numbers
  <2> QED  BY <2>1, <2>2, <2>3, <2>4, EventOf, Numbers
<1>3. /\ \A a \in Actors : a # c => ctx[a].step = "none"
      /\ ctx[TASKLET] = NoEvent
      /\ \A x \in Chans : x # c => pc[x] \in {"idle", "lock", "alloc", "dead"}
      /\ \A x \in Chans : curr_state[x] # "TRANSFERING"
      /\ \A x \in Chans : \A f \in pending[x] : Raised(c, f, x)
      /\ \A x \in en : curr_state[x] \in Off =>
           Switches(c, "suspend", x) \/ Switches(c, "close", x) \/ Closes(c, x)
      /\ \A x \in Chans \ en : curr_state[x] \in Running => Switches(c, "resume", x)
      /\ Switches(c, "suspend", d) => curr_state[d] = "SUSPEND"
      /\ Switches(c, "resume", d) => curr_state[d] \in Running
      /\ Switches(c, "close", d) => curr_state[d] = "UNREGISTER"
  <2>1. /\ \A a \in Actors : a # c => ctx[a].step = "none"
        /\ ctx[TASKLET] = NoEvent
        /\ \A x \in Chans : x # c => pc[x] \in {"idle", "lock", "alloc", "dead"}
        /\ \A x \in Chans : curr_state[x] # "TRANSFERING"
        /\ \A x \in Chans : \A f \in pending[x] : Raised(c, f, x)
    BY <1>2, AloneCall DEF Held
  <2>2. /\ \A x \in en : curr_state[x] \in Off =>
             Switches(c, "suspend", x) \/ Switches(c, "close", x) \/ Closes(c, x)
        /\ \A x \in Chans \ en : curr_state[x] \in Running => Switches(c, "resume", x)
    BY <1>1, <2>1 DEF EnInv, Switches, Closes
  <2>3. /\ Switches(c, "suspend", d) => curr_state[d] = "SUSPEND"
        /\ Switches(c, "resume", d) => curr_state[d] \in Running
        /\ Switches(c, "close", d) => curr_state[d] = "UNREGISTER"
    BY <1>1, <1>2 DEF EnInv, Switches
  <2> QED  BY <2>1, <2>2, <2>3
<1>4. /\ UNCHANGED <<done, pending, en, nbuffers, hwVars, callVars, todo>>
      /\ \A x \in Chans : pending[x] = {}
      /\ \/ /\ curr_state[d] = "UNREGISTER" /\ opened_flag[d] = 0
            /\ UNCHANGED <<curr_state, opened_flag, stream_on>> /\ EventThrough(c)
         \/ /\ curr_state[d] = "UNREGISTER" /\ opened_flag[d] = 1 /\ curr_state' = curr_state
            /\ opened_flag' = [opened_flag EXCEPT ![d] = 0]
            /\ \A x \in Chans : x # d => stream_on'[x] = stream_on[x]
            /\ Goes(c, "load")
         \/ /\ curr_state' = [curr_state EXCEPT ![d] = "UNREGISTER"] /\ opened_flag[d] = 1
            /\ UNCHANGED <<opened_flag, stream_on>> /\ Goes(c, "raise")
  <2>1. UNCHANGED <<done, en, nbuffers, hwVars, callVars, todo>>
    BY DEF ActClose, FsmUnchanged
  <2>2. \A x \in Chans : pending[x] = {}
    BY <1>1, <1>2, <1>3 DEF Raised, TypeInv
  <2>3. /\ \/ ctx[c].st \in {"STANDBY", "DONE"} /\ curr_state[d] \in Running
           \/ ctx[c].st \in Off /\ curr_state[d] = ctx[c].st
        /\ opened_flag[d] \in {0, 1} /\ (opened_flag[d] = 0 => curr_state[d] = "UNREGISTER")
    BY <1>1, <1>2 DEF ReadInv, StateInv
  <2>4. CASE ctx[c].st = "UNREGISTER" /\ opened_flag[d] = 0
    BY <2>1, <2>2, <2>3, <2>4 DEF ActClose
  <2>5. CASE ctx[c].st = "UNREGISTER" /\ opened_flag[d] = 1
    <3>1. /\ opened_flag' = [opened_flag EXCEPT ![d] = @ - 1] /\ curr_state' = curr_state
          /\ stream_on' = [stream_on EXCEPT ![d] = @ /\ ~(opened_flag[d] = 1)]
          /\ pending' = pending /\ Goes(c, "load")
      BY <2>5 DEF ActClose
    <3>2. opened_flag' = [opened_flag EXCEPT ![d] = 0]
      BY <2>5, <3>1
    <3>3. \A x \in Chans : x # d => stream_on'[x] = stream_on[x]
      BY <1>1, <3>1 DEF TypeInv
    <3> QED  BY <2>1, <2>2, <2>3, <2>5, <3>1, <3>2, <3>3
  <2>6. CASE ctx[c].st # "UNREGISTER"
    <3>1. opened_flag[d] = 1
      BY <2>3, <2>6 DEF Running, Off
    <3> QED  BY <2>1, <2>2, <2>3, <2>6, <3>1 DEF ActClose, Becomes, Off
  <2> QED  BY <2>3, <2>4, <2>5, <2>6
<1>5. /\ \A b \in Actors : b # c => ctx'[b] = ctx[b]
      /\ ctx'[c].ev = e /\ ctx'[c].chan = d
      /\ \/ /\ curr_state[d] = "UNREGISTER" /\ opened_flag[d] = 0 /\ ctx'[c].step = "wait"
            /\ UNCHANGED <<curr_state, opened_flag, stream_on>>
         \/ /\ curr_state[d] = "UNREGISTER" /\ opened_flag'[d] = 0 /\ curr_state' = curr_state
            /\ ctx'[c].step = "load"
         \/ /\ curr_state'[d] = "UNREGISTER" /\ opened_flag[d] = 1 /\ opened_flag'[d] = 1
            /\ ctx'[c].step = "raise"
      /\ \A x \in Chans : x # d => /\ curr_state'[x] = curr_state[x]
                                   /\ opened_flag'[x] = opened_flag[x]
                                   /\ stream_on'[x] = stream_on[x]
  BY <1>1, <1>2, <1>4, Numbers, ThroughIs, GoesIs DEF TypeInv, Steps
<1> HIDE DEF e, d
<1>6. LockInv'
  BY <1>1, <1>4 DEF LockInv, callVars
<1>7. StateInv' /\ OpenInv'
  BY <1>1, <1>2, <1>3, <1>4, <1>5, Numbers DEF StateInv, Opening, Running, Off, chanVars, fsmVars, e, d, Inv
<1>8. ReadInv'
  BY <1>1, <1>2, <1>3, <1>4, <1>5, Numbers DEF ReadInv, chanVars, fsmVars, Running, Off, States, TypeInv, e, d
<1>9. FrameInv'
  BY <1>1, <1>2, <1>3, <1>4, <1>5, Numbers, NoEventIs DEF FrameInv, Raised, chanVars, fsmVars, e, d
<1>10. EnInv'
  <2>1. /\ \A a \in Actors : a # c => ctx'[a].step = "none"
        /\ \A a \in Actors : ctx'[a].step = "store" => ctx'[a].reg = en'
    BY <1>1, <1>2, <1>3, <1>4, <1>5 DEF EnInv, chanVars, fsmVars
  <2>2. ctx'[c].step \in {"load", "store"} =>
          /\ ctx'[c].ev = "suspend" => curr_state'[d] = "SUSPEND"
          /\ ctx'[c].ev = "resume" => curr_state'[d] \in Running
          /\ ctx'[c].ev = "close" => curr_state'[d] = "UNREGISTER"
    BY <1>2, <1>3, <1>4, <1>5 DEF Switches, chanVars, fsmVars, Running, e, d
  <2>3. \A x \in en' : curr_state'[x] \in Off =>
          (Switches(c, "suspend", x) \/ Switches(c, "close", x) \/ Closes(c, x))'
    BY <1>1, <1>2, <1>3, <1>4, <1>5
       DEF Switches, Closes, chanVars, fsmVars, Running, Off, e, d
  <2>4. \A x \in Chans \ en' : curr_state'[x] \in Running => Switches(c, "resume", x)'
    BY <1>1, <1>2, <1>3, <1>4, <1>5
       DEF Switches, chanVars, fsmVars, Running, Off, e, d
  <2> QED  BY <1>2, <1>5, <2>1, <2>2, <2>3, <2>4 DEF EnInv
<1>11. DoneInv'
  BY <1>1, <1>2, <1>3, <1>4, <1>5, Numbers DEF DoneInv, Switches, chanVars, fsmVars, e, d
<1>12. QuietInv'
  BY <1>1, <1>2, <1>3, <1>4, <1>5, Numbers DEF QuietInv, Quiet, Switches, Closes, chanVars, callVars, fsmVars, Running, Off, e, d
<1>13. BufInv'
  BY <1>1, <1>2, <1>3, <1>4, <1>5, Numbers DEF BufInv, Switches, chanVars, callVars, hwVars, fsmVars, Running, e, d
<1>14. OnInv'
  BY <1>1, <1>2, <1>3, <1>4, <1>5, Numbers DEF OnInv, chanVars, callVars, fsmVars, Running, Off, e, d
<1> QED
  BY <1>6, <1>7, <1>8, <1>9, <1>10, <1>11, <1>12, <1>13, <1>14 DEF AloneInv

LEMMA CallActOpen ==
  ASSUME Inv, AloneInv, ~SMP, MayRun, NEW c \in Chans, ActOpen(c), Inv'
  PROVE  AloneInv'
<1>1. /\ TypeInv /\ TypeInv' /\ CallInv /\ OpenInv
      /\ LockInv /\ StateInv /\ ReadInv /\ FrameInv /\ EnInv
      /\ DoneInv /\ QuietInv /\ BufInv /\ OnInv
  BY DEF Inv, AloneInv
<1> DEFINE e == ctx[c].ev
           d == ctx[c].chan
<1>2. /\ ctx[c] \in Ctx /\ d \in Chans /\ e \in Events /\ c \in Actors
      /\ ctx[c].step = "act" /\ e = "open" /\ pc[c] = "event"
      /\ e \in {"open", "close"} => d = c
      /\ call[c] # "s_fmt" => d = c
      /\ call[c] = "streamoff" => e = "suspend"
      /\ en \subseteq Chans
  <2>1. ctx[c].step = "act" /\ e = "open"
    BY DEF ActOpen
  <2>2. call[c] # "s_fmt" => d = c
    BY <1>1, <2>1 DEF CallInv
  <2>3. en \subseteq Chans
    BY <1>1 DEF TypeInv
  <2>4. call[c] = "streamoff" => e = "suspend"
    BY <2>1, EventOf, DriveIs, Numbers
  <2> QED  BY <2>1, <2>2, <2>3, <2>4, EventOf, Numbers
<1>3. /\ \A a \in Actors : a # c => ctx[a].step = "none"
      /\ ctx[TASKLET] = NoEvent
      /\ \A x \in Chans : x # c => pc[x] \in {"idle", "lock", "alloc", "dead"}
      /\ \A x \in Chans : curr_state[x] # "TRANSFERING"
      /\ \A x \in Chans : \A f \in pending[x] : Raised(c, f, x)
      /\ \A x \in en : curr_state[x] \in Off =>
           Switches(c, "suspend", x) \/ Switches(c, "close", x) \/ Closes(c, x)
      /\ \A x \in Chans \ en : curr_state[x] \in Running => Switches(c, "resume", x)
      /\ Switches(c, "suspend", d) => curr_state[d] = "SUSPEND"
      /\ Switches(c, "resume", d) => curr_state[d] \in Running
      /\ Switches(c, "close", d) => curr_state[d] = "UNREGISTER"
  <2>1. /\ \A a \in Actors : a # c => ctx[a].step = "none"
        /\ ctx[TASKLET] = NoEvent
        /\ \A x \in Chans : x # c => pc[x] \in {"idle", "lock", "alloc", "dead"}
        /\ \A x \in Chans : curr_state[x] # "TRANSFERING"
        /\ \A x \in Chans : \A f \in pending[x] : Raised(c, f, x)
    BY <1>2, AloneCall DEF Held
  <2>2. /\ \A x \in en : curr_state[x] \in Off =>
             Switches(c, "suspend", x) \/ Switches(c, "close", x) \/ Closes(c, x)
        /\ \A x \in Chans \ en : curr_state[x] \in Running => Switches(c, "resume", x)
    BY <1>1, <2>1 DEF EnInv, Switches, Closes
  <2>3. /\ Switches(c, "suspend", d) => curr_state[d] = "SUSPEND"
        /\ Switches(c, "resume", d) => curr_state[d] \in Running
        /\ Switches(c, "close", d) => curr_state[d] = "UNREGISTER"
    BY <1>1, <1>2 DEF EnInv, Switches
  <2> QED  BY <2>1, <2>2, <2>3
<1>4. /\ UNCHANGED <<stream_on, pending, en, nbuffers, hwVars, callVars, todo>>
      /\ \A x \in Chans : pending[x] = {}
      /\ curr_state[d] = "UNREGISTER" /\ opened_flag[d] = 0 /\ EventThrough(c)
      /\ curr_state' = [curr_state EXCEPT ![d] = "SUSPEND"]
      /\ opened_flag' = [opened_flag EXCEPT ![d] = @ + 1]
      /\ done' = [done EXCEPT ![d] = @ \ {"close"}]
  <2>1. \A x \in Chans : pending[x] = {}
    BY <1>1, <1>2, <1>3 DEF Raised, TypeInv
  <2>2. opened_flag[d] = 0 /\ curr_state[d] = "UNREGISTER"
    BY <1>1, <1>2 DEF StateInv, Opening
  <2>3. ctx[c].st = "UNREGISTER"
    BY <1>1, <1>2, <2>2 DEF ReadInv, Running
  <2> QED  BY <2>1, <2>2, <2>3 DEF ActOpen, FsmUnchanged, Becomes
<1>5. /\ \A b \in Actors : b # c => ctx'[b] = ctx[b]
      /\ ctx'[c].ev = e /\ ctx'[c].chan = d /\ ctx'[c].step = "wait"
      /\ curr_state'[d] = "SUSPEND" /\ opened_flag'[d] = 1
      /\ \A x \in Chans : x # d => /\ curr_state'[x] = curr_state[x]
                                   /\ opened_flag'[x] = opened_flag[x]
                                   /\ done'[x] = done[x]
  BY <1>1, <1>2, <1>4, Numbers, ThroughIs DEF TypeInv
<1> HIDE DEF e, d
<1>6. LockInv'
  BY <1>1, <1>4 DEF LockInv, callVars
<1>7. StateInv' /\ OpenInv'
  BY <1>1, <1>2, <1>3, <1>4, <1>5, Numbers DEF StateInv, Opening, Running, Off, chanVars, fsmVars, e, d, Inv
<1>8. ReadInv'
  BY <1>1, <1>2, <1>3, <1>4, <1>5, Numbers DEF ReadInv, chanVars, fsmVars, Running, Off, States, TypeInv, e, d
<1>9. FrameInv'
  BY <1>1, <1>2, <1>3, <1>4, <1>5, Numbers, NoEventIs DEF FrameInv, Raised, chanVars, fsmVars, e, d
<1>10. EnInv'
  <2>1. /\ \A a \in Actors : a # c => ctx'[a].step = "none"
        /\ \A a \in Actors : ctx'[a].step = "store" => ctx'[a].reg = en'
    BY <1>1, <1>2, <1>3, <1>4, <1>5 DEF EnInv, chanVars, fsmVars
  <2>2. ctx'[c].step \in {"load", "store"} =>
          /\ ctx'[c].ev = "suspend" => curr_state'[d] = "SUSPEND"
          /\ ctx'[c].ev = "resume" => curr_state'[d] \in Running
          /\ ctx'[c].ev = "close" => curr_state'[d] = "UNREGISTER"
    BY <1>2, <1>3, <1>4, <1>5 DEF Switches, chanVars, fsmVars, Running, e, d
  <2>3. \A x \in en' : curr_state'[x] \in Off =>
          (Switches(c, "suspend", x) \/ Switches(c, "close", x) \/ Closes(c, x))'
    BY <1>1, <1>2, <1>3, <1>4, <1>5
       DEF Switches, Closes, chanVars, fsmVars, Running, Off, e, d
  <2>4. \A x \in Chans \ en' : curr_state'[x] \in Running => Switches(c, "resume", x)'
    BY <1>1, <1>2, <1>3, <1>4, <1>5
       DEF Switches, chanVars, fsmVars, Running, Off, e, d
  <2> QED  BY <1>2, <1>5, <2>1, <2>2, <2>3, <2>4 DEF EnInv
<1>11. DoneInv'
  BY <1>1, <1>2, <1>3, <1>4, <1>5, Numbers DEF DoneInv, Switches, chanVars, fsmVars, e, d
<1>12. QuietInv'
  BY <1>1, <1>2, <1>3, <1>4, <1>5, Numbers DEF QuietInv, Quiet, Switches, Closes, chanVars, callVars, fsmVars, Running, Off, e, d
<1>13. BufInv'
  BY <1>1, <1>2, <1>3, <1>4, <1>5, Numbers DEF BufInv, Switches, chanVars, callVars, hwVars, fsmVars, Running, e, d
<1>14. OnInv'
  BY <1>1, <1>2, <1>3, <1>4, <1>5, Numbers DEF OnInv, chanVars, callVars, fsmVars, Running, Off, e, d
<1> QED
  BY <1>6, <1>7, <1>8, <1>9, <1>10, <1>11, <1>12, <1>13, <1>14 DEF AloneInv

LEMMA CallLoad ==
  ASSUME Inv, AloneInv, ~SMP, MayRun, NEW c \in Chans, Load(c), Inv'
  PROVE  AloneInv'
<1>1. /\ TypeInv /\ TypeInv' /\ CallInv /\ OpenInv
      /\ LockInv /\ StateInv /\ ReadInv /\ FrameInv /\ EnInv
      /\ DoneInv /\ QuietInv /\ BufInv /\ OnInv
  BY DEF Inv, AloneInv
<1> DEFINE e == ctx[c].ev
           d == ctx[c].chan
<1>2. /\ ctx[c] \in Ctx /\ d \in Chans /\ e \in Events /\ c \in Actors
      /\ ctx[c].step = "load" /\ pc[c] = "event"
      /\ e \in {"open", "close"} => d = c
      /\ call[c] # "s_fmt" => d = c
      /\ call[c] = "streamoff" => e = "suspend"
      /\ en \subseteq Chans
  <2>1. ctx[c].step = "load"
    BY DEF Load
  <2>2. call[c] # "s_fmt" => d = c
    BY <1>1, <2>1 DEF CallInv
  <2>3. en \subseteq Chans
    BY <1>1 DEF TypeInv
  <2>4. call[c] = "streamoff" => e = "suspend"
    BY <2>1, EventOf, DriveIs, Numbers
  <2> QED  BY <2>1, <2>2, <2>3, <2>4, EventOf, Numbers
<1>3. /\ \A a \in Actors : a # c => ctx[a].step = "none"
      /\ ctx[TASKLET] = NoEvent
      /\ \A x \in Chans : x # c => pc[x] \in {"idle", "lock", "alloc", "dead"}
      /\ \A x \in Chans : curr_state[x] # "TRANSFERING"
      /\ \A x \in Chans : \A f \in pending[x] : Raised(c, f, x)
      /\ \A x \in en : curr_state[x] \in Off =>
           Switches(c, "suspend", x) \/ Switches(c, "close", x) \/ Closes(c, x)
      /\ \A x \in Chans \ en : curr_state[x] \in Running => Switches(c, "resume", x)
      /\ Switches(c, "suspend", d) => curr_state[d] = "SUSPEND"
      /\ Switches(c, "resume", d) => curr_state[d] \in Running
      /\ Switches(c, "close", d) => curr_state[d] = "UNREGISTER"
  <2>1. /\ \A a \in Actors : a # c => ctx[a].step = "none"
        /\ ctx[TASKLET] = NoEvent
        /\ \A x \in Chans : x # c => pc[x] \in {"idle", "lock", "alloc", "dead"}
        /\ \A x \in Chans : curr_state[x] # "TRANSFERING"
        /\ \A x \in Chans : \A f \in pending[x] : Raised(c, f, x)
    BY <1>2, AloneCall DEF Held
  <2>2. /\ \A x \in en : curr_state[x] \in Off =>
             Switches(c, "suspend", x) \/ Switches(c, "close", x) \/ Closes(c, x)
        /\ \A x \in Chans \ en : curr_state[x] \in Running => Switches(c, "resume", x)
    BY <1>1, <2>1 DEF EnInv, Switches, Closes
  <2>3. /\ Switches(c, "suspend", d) => curr_state[d] = "SUSPEND"
        /\ Switches(c, "resume", d) => curr_state[d] \in Running
        /\ Switches(c, "close", d) => curr_state[d] = "UNREGISTER"
    BY <1>1, <1>2 DEF EnInv, Switches
  <2> QED  BY <2>1, <2>2, <2>3
<1>4. /\ UNCHANGED <<chanVars, fsmVars, en, hwVars, callVars, todo>>
      /\ \A x \in Chans : pending[x] = {}
  <2>1. \A x \in Chans : pending[x] = {}
    BY <1>1, <1>2, <1>3 DEF Raised, TypeInv
  <2> QED  BY <2>1 DEF Load, FsmUnchanged, chanVars
<1>5. /\ \A b \in Actors : b # c => ctx'[b] = ctx[b]
      /\ ctx'[c].step = "store" /\ ctx'[c].ev = e /\ ctx'[c].chan = d /\ ctx'[c].reg = en
  <2> DEFINE g == [ctx[c] EXCEPT !.step = "store", !.reg = en]
  <2>1. g.step = "store" /\ g.ev = e /\ g.chan = d /\ g.reg = en
    BY <1>2 DEF Ctx
  <2>2. ctx \in [Actors -> Ctx] /\ ctx' = [ctx EXCEPT ![c] = g]
    BY <1>1 DEF Load, TypeInv
  <2> HIDE DEF g
  <2> QED  BY <1>2, <2>1, <2>2
<1> HIDE DEF e, d
<1>6. LockInv'
  BY <1>1, <1>4 DEF LockInv, callVars
<1>7. StateInv' /\ OpenInv'
  BY <1>1, <1>2, <1>3, <1>4, <1>5, Numbers DEF StateInv, Opening, Running, Off, chanVars, fsmVars, e, d, Inv
<1>8. ReadInv'
  BY <1>1, <1>2, <1>3, <1>4, <1>5, Numbers DEF ReadInv, chanVars, fsmVars, Running, Off, States, TypeInv, e, d
<1>9. FrameInv'
  BY <1>1, <1>2, <1>3, <1>4, <1>5, Numbers, NoEventIs DEF FrameInv, Raised, chanVars, fsmVars, e, d
<1>10. EnInv'
  <2>1. /\ \A a \in Actors : a # c => ctx'[a].step = "none"
        /\ \A a \in Actors : ctx'[a].step = "store" => ctx'[a].reg = en'
    BY <1>1, <1>2, <1>3, <1>4, <1>5 DEF EnInv, chanVars, fsmVars
  <2>2. ctx'[c].step \in {"load", "store"} =>
          /\ ctx'[c].ev = "suspend" => curr_state'[d] = "SUSPEND"
          /\ ctx'[c].ev = "resume" => curr_state'[d] \in Running
          /\ ctx'[c].ev = "close" => curr_state'[d] = "UNREGISTER"
    BY <1>2, <1>3, <1>4, <1>5 DEF Switches, chanVars, fsmVars, Running, e, d
  <2>3. \A x \in en' : curr_state'[x] \in Off =>
          (Switches(c, "suspend", x) \/ Switches(c, "close", x) \/ Closes(c, x))'
    BY <1>1, <1>2, <1>3, <1>4, <1>5
       DEF Switches, Closes, chanVars, fsmVars, Running, Off, e, d
  <2>4. \A x \in Chans \ en' : curr_state'[x] \in Running => Switches(c, "resume", x)'
    BY <1>1, <1>2, <1>3, <1>4, <1>5
       DEF Switches, chanVars, fsmVars, Running, Off, e, d
  <2> QED  BY <1>2, <1>5, <2>1, <2>2, <2>3, <2>4 DEF EnInv
<1>11. DoneInv'
  BY <1>1, <1>2, <1>3, <1>4, <1>5, Numbers DEF DoneInv, Switches, chanVars, fsmVars, e, d
<1>12. QuietInv'
  BY <1>1, <1>2, <1>3, <1>4, <1>5, Numbers DEF QuietInv, Quiet, Switches, Closes, chanVars, callVars, fsmVars, Running, Off, e, d
<1>13. BufInv'
  BY <1>1, <1>2, <1>3, <1>4, <1>5, Numbers DEF BufInv, Switches, chanVars, callVars, hwVars, fsmVars, Running, e, d
<1>14. OnInv'
  BY <1>1, <1>2, <1>3, <1>4, <1>5, Numbers DEF OnInv, chanVars, callVars, fsmVars, Running, Off, e, d
<1> QED
  BY <1>6, <1>7, <1>8, <1>9, <1>10, <1>11, <1>12, <1>13, <1>14 DEF AloneInv

LEMMA CallStore ==
  ASSUME Inv, AloneInv, ~SMP, MayRun, NEW c \in Chans, Store(c), Inv'
  PROVE  AloneInv'
<1>1. /\ TypeInv /\ TypeInv' /\ CallInv /\ OpenInv
      /\ LockInv /\ StateInv /\ ReadInv /\ FrameInv /\ EnInv
      /\ DoneInv /\ QuietInv /\ BufInv /\ OnInv
  BY DEF Inv, AloneInv
<1> DEFINE e == ctx[c].ev
           d == ctx[c].chan
<1>2. /\ ctx[c] \in Ctx /\ d \in Chans /\ e \in Events /\ c \in Actors
      /\ ctx[c].step = "store" /\ pc[c] = "event"
      /\ e \in {"open", "close"} => d = c
      /\ call[c] # "s_fmt" => d = c
      /\ call[c] = "streamoff" => e = "suspend"
      /\ en \subseteq Chans
  <2>1. ctx[c].step = "store"
    BY DEF Store
  <2>2. call[c] # "s_fmt" => d = c
    BY <1>1, <2>1 DEF CallInv
  <2>3. en \subseteq Chans
    BY <1>1 DEF TypeInv
  <2>4. call[c] = "streamoff" => e = "suspend"
    BY <2>1, EventOf, DriveIs, Numbers
  <2> QED  BY <2>1, <2>2, <2>3, <2>4, EventOf, Numbers
<1>3. /\ \A a \in Actors : a # c => ctx[a].step = "none"
      /\ ctx[TASKLET] = NoEvent
      /\ \A x \in Chans : x # c => pc[x] \in {"idle", "lock", "alloc", "dead"}
      /\ \A x \in Chans : curr_state[x] # "TRANSFERING"
      /\ \A x \in Chans : \A f \in pending[x] : Raised(c, f, x)
      /\ \A x \in en : curr_state[x] \in Off =>
           Switches(c, "suspend", x) \/ Switches(c, "close", x) \/ Closes(c, x)
      /\ \A x \in Chans \ en : curr_state[x] \in Running => Switches(c, "resume", x)
      /\ Switches(c, "suspend", d) => curr_state[d] = "SUSPEND"
      /\ Switches(c, "resume", d) => curr_state[d] \in Running
      /\ Switches(c, "close", d) => curr_state[d] = "UNREGISTER"
  <2>1. /\ \A a \in Actors : a # c => ctx[a].step = "none"
        /\ ctx[TASKLET] = NoEvent
        /\ \A x \in Chans : x # c => pc[x] \in {"idle", "lock", "alloc", "dead"}
        /\ \A x \in Chans : curr_state[x] # "TRANSFERING"
        /\ \A x \in Chans : \A f \in pending[x] : Raised(c, f, x)
    BY <1>2, AloneCall DEF Held
  <2>2. /\ \A x \in en : curr_state[x] \in Off =>
             Switches(c, "suspend", x) \/ Switches(c, "close", x) \/ Closes(c, x)
        /\ \A x \in Chans \ en : curr_state[x] \in Running => Switches(c, "resume", x)
    BY <1>1, <2>1 DEF EnInv, Switches, Closes
  <2>3. /\ Switches(c, "suspend", d) => curr_state[d] = "SUSPEND"
        /\ Switches(c, "resume", d) => curr_state[d] \in Running
        /\ Switches(c, "close", d) => curr_state[d] = "UNREGISTER"
    BY <1>1, <1>2 DEF EnInv, Switches
  <2> QED  BY <2>1, <2>2, <2>3
<1>4. /\ UNCHANGED <<curr_state, chanVars, hwVars, callVars, todo>>
      /\ \A x \in Chans : pending'[x] = {}
      /\ e \in {"suspend", "resume", "close"}
      /\ e = "resume" => \A x \in Chans : pc[x] = "alloc" => call[x] # "s_fmt"
      /\ en' = IF e = "resume" THEN en \cup {d} ELSE en \ {d}
      /\ \A x \in Chans : done[x] \subseteq done'[x]
      /\ e \in done'[d]
  <2>1. \A x \in Chans : pending[x] = {}
    BY <1>1, <1>2, <1>3 DEF Raised, TypeInv
  <2>2. e \in {"suspend", "resume", "close"}
    BY <1>2 DEF Inv, TaskletInv, Events
  <2>3. pending' = pending \/ pending' = [pending EXCEPT ![d] = {}]
    BY DEF Store
  <2>4. /\ UNCHANGED <<curr_state, chanVars, hwVars, callVars, todo>> /\ EventThrough(c)
        /\ done' = [done EXCEPT ![d] = @ \cup IF e = "close" THEN Waited ELSE {e}]
    BY DEF Store, Complete, FsmUnchanged, chanVars
  <2>5. ctx[c].reg = en
    BY <1>1, <1>2 DEF EnInv
  <2>6. en' = IF e = "resume" THEN en \cup {d} ELSE en \ {d}
    BY <2>5 DEF Store, Writes
  <2>7. (\A x \in Chans : done[x] \subseteq done'[x]) /\ e \in done'[d]
    BY <1>1, <1>2, <2>2, <2>4 DEF TypeInv, Waited
  <2>8. e = "resume" => \A x \in Chans : pc[x] = "alloc" => call[x] # "s_fmt"
    <3> SUFFICES ASSUME e = "resume"
                 PROVE  \A x \in Chans : pc[x] = "alloc" => call[x] # "s_fmt"
      OBVIOUS
    <3>1. "resume" \in Drive(call[c]) /\ call[c] \in Calls
      BY <1>1, <1>2, EventOf DEF TypeInv
    <3>2. call[c] \in {"streamon", "s_fmt"}
      BY <3>1 DEF Drive, Calls
    <3> QED  BY <1>1, <1>2, <3>2 DEF LockInv, Held
  <2> QED  BY <1>1, <2>1, <2>2, <2>3, <2>4, <2>6, <2>7, <2>8 DEF TypeInv
<1>5. /\ \A b \in Actors : b # c => ctx'[b] = ctx[b]
      /\ ctx'[c].step = "wait" /\ ctx'[c].ev = e /\ ctx'[c].chan = d
  <2>1. EventThrough(c)
    BY DEF Store
  <2> QED  BY <1>1, <1>2, <2>1, Numbers, ThroughIs
<1> HIDE DEF e, d
<1>6. LockInv'
  BY <1>1, <1>4 DEF LockInv, callVars
<1>7. StateInv' /\ OpenInv'
  BY <1>1, <1>2, <1>3, <1>4, <1>5, Numbers DEF StateInv, Opening, Running, Off, chanVars, fsmVars, e, d, Inv
<1>8. ReadInv'
  BY <1>1, <1>2, <1>3, <1>4, <1>5, Numbers DEF ReadInv, chanVars, fsmVars, Running, Off, States, TypeInv, e, d
<1>9. FrameInv'
  BY <1>1, <1>2, <1>3, <1>4, <1>5, Numbers, NoEventIs DEF FrameInv, Raised, chanVars, fsmVars, e, d
<1>10. EnInv'
  <2>1. /\ \A a \in Actors : a # c => ctx'[a].step = "none"
        /\ \A a \in Actors : ctx'[a].step = "store" => ctx'[a].reg = en'
    BY <1>1, <1>2, <1>3, <1>4, <1>5 DEF EnInv, chanVars, fsmVars
  <2>2. ctx'[c].step \in {"load", "store"} =>
          /\ ctx'[c].ev = "suspend" => curr_state'[d] = "SUSPEND"
          /\ ctx'[c].ev = "resume" => curr_state'[d] \in Running
          /\ ctx'[c].ev = "close" => curr_state'[d] = "UNREGISTER"
    BY <1>2, <1>3, <1>4, <1>5 DEF Switches, chanVars, fsmVars, Running, e, d
  <2>3. \A x \in en' : curr_state'[x] \in Off =>
          (Switches(c, "suspend", x) \/ Switches(c, "close", x) \/ Closes(c, x))'
    BY <1>1, <1>2, <1>3, <1>4, <1>5
       DEF Switches, Closes, chanVars, fsmVars, Running, Off, e, d
  <2>4. \A x \in Chans \ en' : curr_state'[x] \in Running => Switches(c, "resume", x)'
    BY <1>1, <1>2, <1>3, <1>4, <1>5
       DEF Switches, chanVars, fsmVars, Running, Off, e, d
  <2> QED  BY <1>2, <1>5, <2>1, <2>2, <2>3, <2>4 DEF EnInv
<1>11. DoneInv'
  BY <1>1, <1>2, <1>3, <1>4, <1>5, Numbers DEF DoneInv, Switches, chanVars, fsmVars, e, d
<1>12. QuietInv'
  BY <1>1, <1>2, <1>3, <1>4, <1>5, Numbers DEF QuietInv, Quiet, Switches, Closes, chanVars, callVars, fsmVars, Running, Off, e, d
<1>13. BufInv'
  BY <1>1, <1>2, <1>3, <1>4, <1>5, Numbers DEF BufInv, Switches, chanVars, callVars, hwVars, fsmVars, Running, e, d
<1>14. OnInv'
  BY <1>1, <1>2, <1>3, <1>4, <1>5, Numbers DEF OnInv, chanVars, callVars, fsmVars, Running, Off, e, d
<1> QED
  BY <1>6, <1>7, <1>8, <1>9, <1>10, <1>11, <1>12, <1>13, <1>14 DEF AloneInv

-----------------------------------------------------------------------------
(* One processor: the tasklet handles what the call has raised *)

LEMMA OneCall ==
  ASSUME Inv, AloneInv, NEW c \in Chans, pc[c] \in Held \ {"alloc"}
  PROVE  \A x \in Chans : x # c =>
           ctx[x].step = "none" /\ pc[x] \in {"idle", "lock", "alloc", "dead"}
<1>1. \A x \in Chans : x # c => pc[x] \notin Held \ {"alloc"}
  BY DEF AloneInv, LockInv
<1> SUFFICES ASSUME NEW x \in Chans, x # c
             PROVE  ctx[x].step = "none" /\ pc[x] \in {"idle", "lock", "alloc", "dead"}
  OBVIOUS
<1>2. pc[x] \in Pcs /\ pc[x] \notin Held \ {"alloc"}
  BY <1>1 DEF Inv, TypeInv
<1>3. pc[x] \in {"idle", "lock", "alloc", "dead"}
  BY <1>2 DEF Pcs, Held
<1> QED  BY <1>3 DEF Inv, CallInv

LEMMA TaskRaise ==
  ASSUME Inv, AloneInv, Raise(TASKLET), ctx[TASKLET].ev # "deliver", Inv'
  PROVE  AloneInv'
<1>1. /\ TypeInv /\ TypeInv' /\ CallInv /\ OpenInv /\ TaskletInv
      /\ LockInv /\ StateInv /\ ReadInv /\ FrameInv /\ EnInv
      /\ DoneInv /\ QuietInv /\ BufInv /\ OnInv
  BY DEF Inv, AloneInv
<1> DEFINE e == ctx[TASKLET].ev
           d == ctx[TASKLET].chan
<1>2. /\ ctx[TASKLET] \in Ctx /\ d \in Chans /\ e \in Events
      /\ ctx[TASKLET].step = "raise" /\ en \subseteq Chans
  <2>1. ctx[TASKLET].step = "raise"
    BY DEF Raise
  <2>2. ctx[TASKLET] \in Ctx /\ d \in Chans
    BY EventOf, Numbers
  <2>3. e \in Events
    BY <2>2 DEF Ctx
  <2> QED  BY <1>1, <2>1, <2>2, <2>3 DEF TypeInv
<1>3. PICK c \in Chans : /\ ctx[c].step = "read" /\ ctx[c].chan = d /\ ctx[c].ev = e
  BY <1>1, <1>2 DEF FrameInv
<1>4. /\ \A x \in Chans : x # c =>
           ctx[x].step = "none" /\ pc[x] \in {"idle", "lock", "alloc", "dead"}
      /\ pc[c] = "event" /\ c \in Actors /\ c # TASKLET /\ TASKLET \in Actors
      /\ \A a \in Actors : a = TASKLET \/ a \in Chans
      /\ \A x \in Chans : \A f \in pending[x] : Raised(c, f, x)
      /\ \A x \in Chans : curr_state[x] # "TRANSFERING"
      /\ \A x \in en : curr_state[x] \in Off =>
           \/ Switches(TASKLET, "suspend", x) \/ Switches(TASKLET, "close", x)
           \/ Closes(TASKLET, x) \/ Closes(c, x)
      /\ \A x \in Chans \ en : curr_state[x] \in Running => Switches(TASKLET, "resume", x)
      /\ Switches(TASKLET, "suspend", d) => curr_state[d] = "SUSPEND"
      /\ Switches(TASKLET, "resume", d) => curr_state[d] \in Running
      /\ Switches(TASKLET, "close", d) => curr_state[d] = "UNREGISTER"
      /\ \A x \in Chans : opened_flag[x] = 0 =>
           "close" \in done[x] \/ Switches(TASKLET, "close", x)
  <2>1. c \in Actors /\ c # TASKLET /\ TASKLET \in Actors
    BY Numbers
  <2>2. pc[c] = "event"
    BY <1>3, <2>1, EventOf
  <2>3. \A x \in Chans : x # c =>
           ctx[x].step = "none" /\ pc[x] \in {"idle", "lock", "alloc", "dead"}
    BY <2>2, OneCall DEF Held
  <2>4. \A a \in Actors : a = TASKLET \/ a \in Chans
    BY DEF Actors
  <2>5. /\ \A x \in Chans : \A f \in pending[x] : Raised(c, f, x)
        /\ \A x \in Chans : curr_state[x] # "TRANSFERING"
    BY <1>1, <1>2, <2>3 DEF FrameInv, Raised
  <2>6. /\ \A x \in en : curr_state[x] \in Off =>
             \/ Switches(TASKLET, "suspend", x) \/ Switches(TASKLET, "close", x)
             \/ Closes(TASKLET, x) \/ Closes(c, x)
        /\ \A x \in Chans \ en : curr_state[x] \in Running => Switches(TASKLET, "resume", x)
    BY <1>1, <1>3, <2>3, <2>4 DEF EnInv, Switches, Closes
  <2>7. /\ Switches(TASKLET, "suspend", d) => curr_state[d] = "SUSPEND"
        /\ Switches(TASKLET, "resume", d) => curr_state[d] \in Running
        /\ Switches(TASKLET, "close", d) => curr_state[d] = "UNREGISTER"
    BY <1>1, <2>1 DEF EnInv, Switches
  <2>8. \A x \in Chans : opened_flag[x] = 0 =>
           "close" \in done[x] \/ Switches(TASKLET, "close", x)
    BY <1>1, <1>3, <2>3, <2>4 DEF DoneInv, Switches
  <2> QED  BY <2>1, <2>2, <2>3, <2>4, <2>5, <2>6, <2>7, <2>8
<1>5. /\ UNCHANGED <<chanVars, curr_state, done, en, hwVars, callVars, todo>>
      /\ pending' = [pending EXCEPT ![d] = @ \cup {e}] /\ e = "close"
      /\ \A x \in Chans : \A f \in pending'[x] : Raised(c, f, x)
  <2>1. e = "close"
    BY <1>1, <1>2 DEF TaskletInv
  <2>2. /\ UNCHANGED <<chanVars, curr_state, done, en, hwVars, callVars, todo>>
        /\ pending' = [pending EXCEPT ![d] = @ \cup {e}]
    BY <2>1 DEF Raise
  <2> QED  BY <1>1, <1>2, <1>3, <1>4, <2>1, <2>2 DEF TypeInv, Raised
<1>6. /\ \A b \in Chans : ctx'[b] = ctx[b]
      /\ ctx'[TASKLET].step = "read" /\ ctx'[TASKLET].ev = e /\ ctx'[TASKLET].chan = d
  <2> DEFINE g == [ctx[TASKLET] EXCEPT !.step = "read"]
  <2>1. g.step = "read" /\ g.ev = e /\ g.chan = d
    BY <1>2 DEF Ctx
  <2>2. \A b \in Actors : ctx'[b] = IF b = TASKLET THEN g ELSE ctx[b]
    BY <1>5 DEF Raise
  <2> HIDE DEF g
  <2> QED  BY <2>1, <2>2, Numbers
<1> HIDE DEF e, d
<1>7. LockInv'
  BY <1>1, <1>5 DEF LockInv, callVars
<1>8. StateInv'
  BY <1>1, <1>2, <1>3, <1>4, <1>5, <1>6
     DEF StateInv, Opening, Running, Off, chanVars, fsmVars, e, d
<1>9. ReadInv'
  BY <1>1, <1>3, <1>4, <1>6 DEF ReadInv
<1>10. FrameInv'
  BY <1>1, <1>2, <1>3, <1>4, <1>5, <1>6, NoEventIs
     DEF FrameInv, Raised, chanVars, fsmVars, e, d
<1>11. EnInv'
  <2>1. \A a \in Actors : ctx'[a].step = "store" => ctx'[a].reg = en'
    BY <1>2, <1>3, <1>4, <1>5, <1>6, NoEventIs
  <2>2. ctx'[TASKLET].step \in {"load", "store"} =>
          /\ ctx'[TASKLET].chan = d
          /\ ctx'[TASKLET].ev = "suspend" => curr_state'[d] = "SUSPEND"
          /\ ctx'[TASKLET].ev = "resume" => curr_state'[d] \in Running
          /\ ctx'[TASKLET].ev = "close" => curr_state'[d] = "UNREGISTER"
    BY <1>2, <1>3, <1>4, <1>5, <1>6, NoEventIs DEF Switches, fsmVars, Running, e, d
  <2>3. \A x \in en' : curr_state'[x] \in Off =>
          \/ (Switches(TASKLET, "suspend", x) \/ Switches(TASKLET, "close", x))'
          \/ (Closes(TASKLET, x) \/ Closes(c, x))'
    BY <1>1, <1>2, <1>3, <1>4, <1>5, <1>6, NoEventIs
       DEF Switches, Closes, chanVars, fsmVars, Running, Off, e, d
  <2>4. \A x \in Chans \ en' : curr_state'[x] \in Running => Switches(TASKLET, "resume", x)'
    BY <1>1, <1>2, <1>3, <1>4, <1>5, <1>6, NoEventIs
       DEF Switches, chanVars, fsmVars, Running, Off, e, d
  <2> QED  BY <1>3, <1>4, <1>6, <2>1, <2>2, <2>3, <2>4 DEF EnInv
<1>12. DoneInv'
  <2>1. \A x \in Chans : opened_flag'[x] = 0 =>
           "close" \in done'[x] \/ Switches(TASKLET, "close", x)'
    BY <1>1, <1>2, <1>3, <1>4, <1>5, <1>6, NoEventIs
       DEF Switches, chanVars, fsmVars, e, d
  <2> QED  BY <1>3, <1>4, <1>6, <2>1 DEF DoneInv
<1>13. QuietInv'
  BY <1>1, <1>2, <1>3, <1>4, <1>5, <1>6
     DEF QuietInv, Quiet, Switches, Closes, chanVars, callVars, fsmVars, Running, Off, e, d
<1>14. BufInv'
  BY <1>1, <1>2, <1>3, <1>4, <1>5, <1>6
     DEF BufInv, Switches, chanVars, callVars, hwVars, fsmVars, Running, e, d
<1>15. OnInv'
  BY <1>1, <1>2, <1>3, <1>4, <1>5, <1>6
     DEF OnInv, chanVars, callVars, fsmVars, Running, Off, e, d
<1> QED
  BY <1>7, <1>8, <1>9, <1>10, <1>11, <1>12, <1>13, <1>14, <1>15 DEF AloneInv

LEMMA TaskRead ==
  ASSUME Inv, AloneInv, Read(TASKLET), ctx[TASKLET].ev # "deliver", Inv'
  PROVE  AloneInv'
<1>1. /\ TypeInv /\ TypeInv' /\ CallInv /\ OpenInv /\ TaskletInv
      /\ LockInv /\ StateInv /\ ReadInv /\ FrameInv /\ EnInv
      /\ DoneInv /\ QuietInv /\ BufInv /\ OnInv
  BY DEF Inv, AloneInv
<1> DEFINE e == ctx[TASKLET].ev
           d == ctx[TASKLET].chan
<1>2. /\ ctx[TASKLET] \in Ctx /\ d \in Chans /\ e \in Events
      /\ ctx[TASKLET].step = "read" /\ en \subseteq Chans
  <2>1. ctx[TASKLET].step = "read"
    BY DEF Read
  <2>2. ctx[TASKLET] \in Ctx /\ d \in Chans
    BY EventOf, Numbers
  <2>3. e \in Events
    BY <2>2 DEF Ctx
  <2> QED  BY <1>1, <2>1, <2>2, <2>3 DEF TypeInv
<1>3. PICK c \in Chans : /\ ctx[c].step = "read" /\ ctx[c].chan = d /\ ctx[c].ev = e
  BY <1>1, <1>2 DEF FrameInv
<1>4. /\ \A x \in Chans : x # c =>
           ctx[x].step = "none" /\ pc[x] \in {"idle", "lock", "alloc", "dead"}
      /\ pc[c] = "event" /\ c \in Actors /\ c # TASKLET /\ TASKLET \in Actors
      /\ \A a \in Actors : a = TASKLET \/ a \in Chans
      /\ \A x \in Chans : \A f \in pending[x] : Raised(c, f, x)
      /\ \A x \in Chans : curr_state[x] # "TRANSFERING"
      /\ \A x \in en : curr_state[x] \in Off =>
           \/ Switches(TASKLET, "suspend", x) \/ Switches(TASKLET, "close", x)
           \/ Closes(TASKLET, x) \/ Closes(c, x)
      /\ \A x \in Chans \ en : curr_state[x] \in Running => Switches(TASKLET, "resume", x)
      /\ Switches(TASKLET, "suspend", d) => curr_state[d] = "SUSPEND"
      /\ Switches(TASKLET, "resume", d) => curr_state[d] \in Running
      /\ Switches(TASKLET, "close", d) => curr_state[d] = "UNREGISTER"
      /\ \A x \in Chans : opened_flag[x] = 0 =>
           "close" \in done[x] \/ Switches(TASKLET, "close", x)
  <2>1. c \in Actors /\ c # TASKLET /\ TASKLET \in Actors
    BY Numbers
  <2>2. pc[c] = "event"
    BY <1>3, <2>1, EventOf
  <2>3. \A x \in Chans : x # c =>
           ctx[x].step = "none" /\ pc[x] \in {"idle", "lock", "alloc", "dead"}
    BY <2>2, OneCall DEF Held
  <2>4. \A a \in Actors : a = TASKLET \/ a \in Chans
    BY DEF Actors
  <2>5. /\ \A x \in Chans : \A f \in pending[x] : Raised(c, f, x)
        /\ \A x \in Chans : curr_state[x] # "TRANSFERING"
    BY <1>1, <1>2, <2>3 DEF FrameInv, Raised
  <2>6. /\ \A x \in en : curr_state[x] \in Off =>
             \/ Switches(TASKLET, "suspend", x) \/ Switches(TASKLET, "close", x)
             \/ Closes(TASKLET, x) \/ Closes(c, x)
        /\ \A x \in Chans \ en : curr_state[x] \in Running => Switches(TASKLET, "resume", x)
    BY <1>1, <1>3, <2>3, <2>4 DEF EnInv, Switches, Closes
  <2>7. /\ Switches(TASKLET, "suspend", d) => curr_state[d] = "SUSPEND"
        /\ Switches(TASKLET, "resume", d) => curr_state[d] \in Running
        /\ Switches(TASKLET, "close", d) => curr_state[d] = "UNREGISTER"
    BY <1>1, <2>1 DEF EnInv, Switches
  <2>8. \A x \in Chans : opened_flag[x] = 0 =>
           "close" \in done[x] \/ Switches(TASKLET, "close", x)
    BY <1>1, <1>3, <2>3, <2>4 DEF DoneInv, Switches
  <2> QED  BY <2>1, <2>2, <2>3, <2>4, <2>5, <2>6, <2>7, <2>8
<1>5. /\ UNCHANGED <<chanVars, curr_state, done, en, hwVars, callVars, todo>>
      /\ \A x \in Chans : \A f \in pending'[x] : Raised(c, f, x)
  BY <1>1, <1>2, <1>4 DEF Read, TypeInv
<1>6. /\ \A b \in Chans : ctx'[b] = ctx[b]
      /\ ctx'[TASKLET].step = "act" /\ ctx'[TASKLET].ev = e /\ ctx'[TASKLET].chan = d
      /\ ctx'[TASKLET].st = curr_state[d]
  <2> DEFINE g == [ctx[TASKLET] EXCEPT !.step = "act", !.st = curr_state[d]]
  <2>1. g.step = "act" /\ g.ev = e /\ g.chan = d /\ g.st = curr_state[d]
    BY <1>2 DEF Ctx
  <2>2. ctx \in [Actors -> Ctx] /\ ctx' = [ctx EXCEPT ![TASKLET] = g]
    BY <1>1 DEF Read, TypeInv
  <2> HIDE DEF g
  <2> QED  BY <2>1, <2>2, Numbers
<1> HIDE DEF e, d
<1>7. LockInv'
  BY <1>1, <1>5 DEF LockInv, callVars
<1>8. StateInv'
  BY <1>1, <1>2, <1>3, <1>4, <1>5, <1>6
     DEF StateInv, Opening, Running, Off, chanVars, fsmVars, e, d
<1>9. ReadInv'
  BY <1>1, <1>3, <1>4, <1>6 DEF ReadInv
<1>10. FrameInv'
  BY <1>1, <1>2, <1>3, <1>4, <1>5, <1>6, NoEventIs
     DEF FrameInv, Raised, chanVars, fsmVars, e, d
<1>11. EnInv'
  <2>1. \A a \in Actors : ctx'[a].step = "store" => ctx'[a].reg = en'
    BY <1>2, <1>3, <1>4, <1>5, <1>6, NoEventIs
  <2>2. ctx'[TASKLET].step \in {"load", "store"} =>
          /\ ctx'[TASKLET].chan = d
          /\ ctx'[TASKLET].ev = "suspend" => curr_state'[d] = "SUSPEND"
          /\ ctx'[TASKLET].ev = "resume" => curr_state'[d] \in Running
          /\ ctx'[TASKLET].ev = "close" => curr_state'[d] = "UNREGISTER"
    BY <1>2, <1>3, <1>4, <1>5, <1>6, NoEventIs DEF Switches, fsmVars, Running, e, d
  <2>3. \A x \in en' : curr_state'[x] \in Off =>
          \/ (Switches(TASKLET, "suspend", x) \/ Switches(TASKLET, "close", x))'
          \/ (Closes(TASKLET, x) \/ Closes(c, x))'
    BY <1>1, <1>2, <1>3, <1>4, <1>5, <1>6, NoEventIs
       DEF Switches, Closes, chanVars, fsmVars, Running, Off, e, d
  <2>4. \A x \in Chans \ en' : curr_state'[x] \in Running => Switches(TASKLET, "resume", x)'
    BY <1>1, <1>2, <1>3, <1>4, <1>5, <1>6, NoEventIs
       DEF Switches, chanVars, fsmVars, Running, Off, e, d
  <2> QED  BY <1>3, <1>4, <1>6, <2>1, <2>2, <2>3, <2>4 DEF EnInv
<1>12. DoneInv'
  <2>1. \A x \in Chans : opened_flag'[x] = 0 =>
           "close" \in done'[x] \/ Switches(TASKLET, "close", x)'
    BY <1>1, <1>2, <1>3, <1>4, <1>5, <1>6, NoEventIs
       DEF Switches, chanVars, fsmVars, e, d
  <2> QED  BY <1>3, <1>4, <1>6, <2>1 DEF DoneInv
<1>13. QuietInv'
  BY <1>1, <1>2, <1>3, <1>4, <1>5, <1>6
     DEF QuietInv, Quiet, Switches, Closes, chanVars, callVars, fsmVars, Running, Off, e, d
<1>14. BufInv'
  BY <1>1, <1>2, <1>3, <1>4, <1>5, <1>6
     DEF BufInv, Switches, chanVars, callVars, hwVars, fsmVars, Running, e, d
<1>15. OnInv'
  BY <1>1, <1>2, <1>3, <1>4, <1>5, <1>6
     DEF OnInv, chanVars, callVars, fsmVars, Running, Off, e, d
<1> QED
  BY <1>7, <1>8, <1>9, <1>10, <1>11, <1>12, <1>13, <1>14, <1>15 DEF AloneInv

LEMMA TaskActSuspend ==
  ASSUME Inv, AloneInv, ActSuspend(TASKLET), ctx[TASKLET].ev # "deliver", Inv'
  PROVE  AloneInv'
<1>1. /\ TypeInv /\ TypeInv' /\ CallInv /\ OpenInv /\ TaskletInv
      /\ LockInv /\ StateInv /\ ReadInv /\ FrameInv /\ EnInv
      /\ DoneInv /\ QuietInv /\ BufInv /\ OnInv
  BY DEF Inv, AloneInv
<1> DEFINE e == ctx[TASKLET].ev
           d == ctx[TASKLET].chan
<1>2. /\ ctx[TASKLET] \in Ctx /\ d \in Chans /\ e \in Events
      /\ ctx[TASKLET].step = "act" /\ e = "suspend" /\ en \subseteq Chans
  <2>1. ctx[TASKLET].step = "act" /\ e = "suspend"
    BY DEF ActSuspend
  <2>2. ctx[TASKLET] \in Ctx /\ d \in Chans
    BY EventOf, Numbers
  <2>3. e \in Events
    BY <2>2 DEF Ctx
  <2> QED  BY <1>1, <2>1, <2>2, <2>3 DEF TypeInv
<1>3. PICK c \in Chans : /\ ctx[c].step = "read" /\ ctx[c].chan = d /\ ctx[c].ev = e
  BY <1>1, <1>2 DEF FrameInv
<1>4. /\ \A x \in Chans : x # c =>
           ctx[x].step = "none" /\ pc[x] \in {"idle", "lock", "alloc", "dead"}
      /\ pc[c] = "event" /\ c \in Actors /\ c # TASKLET /\ TASKLET \in Actors
      /\ \A a \in Actors : a = TASKLET \/ a \in Chans
      /\ \A x \in Chans : \A f \in pending[x] : Raised(c, f, x)
      /\ \A x \in Chans : curr_state[x] # "TRANSFERING"
      /\ \A x \in en : curr_state[x] \in Off =>
           \/ Switches(TASKLET, "suspend", x) \/ Switches(TASKLET, "close", x)
           \/ Closes(TASKLET, x) \/ Closes(c, x)
      /\ \A x \in Chans \ en : curr_state[x] \in Running => Switches(TASKLET, "resume", x)
      /\ Switches(TASKLET, "suspend", d) => curr_state[d] = "SUSPEND"
      /\ Switches(TASKLET, "resume", d) => curr_state[d] \in Running
      /\ Switches(TASKLET, "close", d) => curr_state[d] = "UNREGISTER"
      /\ \A x \in Chans : opened_flag[x] = 0 =>
           "close" \in done[x] \/ Switches(TASKLET, "close", x)
  <2>1. c \in Actors /\ c # TASKLET /\ TASKLET \in Actors
    BY Numbers
  <2>2. pc[c] = "event"
    BY <1>3, <2>1, EventOf
  <2>3. \A x \in Chans : x # c =>
           ctx[x].step = "none" /\ pc[x] \in {"idle", "lock", "alloc", "dead"}
    BY <2>2, OneCall DEF Held
  <2>4. \A a \in Actors : a = TASKLET \/ a \in Chans
    BY DEF Actors
  <2>5. /\ \A x \in Chans : \A f \in pending[x] : Raised(c, f, x)
        /\ \A x \in Chans : curr_state[x] # "TRANSFERING"
    BY <1>1, <1>2, <2>3 DEF FrameInv, Raised
  <2>6. /\ \A x \in en : curr_state[x] \in Off =>
             \/ Switches(TASKLET, "suspend", x) \/ Switches(TASKLET, "close", x)
             \/ Closes(TASKLET, x) \/ Closes(c, x)
        /\ \A x \in Chans \ en : curr_state[x] \in Running => Switches(TASKLET, "resume", x)
    BY <1>1, <1>3, <2>3, <2>4 DEF EnInv, Switches, Closes
  <2>7. /\ Switches(TASKLET, "suspend", d) => curr_state[d] = "SUSPEND"
        /\ Switches(TASKLET, "resume", d) => curr_state[d] \in Running
        /\ Switches(TASKLET, "close", d) => curr_state[d] = "UNREGISTER"
    BY <1>1, <2>1 DEF EnInv, Switches
  <2>8. \A x \in Chans : opened_flag[x] = 0 =>
           "close" \in done[x] \/ Switches(TASKLET, "close", x)
    BY <1>1, <1>3, <2>3, <2>4 DEF DoneInv, Switches
  <2> QED  BY <2>1, <2>2, <2>3, <2>4, <2>5, <2>6, <2>7, <2>8
<1>5. /\ UNCHANGED <<opened_flag, stream_on, pending, en, nbuffers, hwVars, callVars, todo>>
      /\ \/ /\ curr_state[d] \in Off /\ curr_state' = curr_state
            /\ done' = [done EXCEPT ![d] = @ \cup {"suspend"}] /\ EventThrough(TASKLET)
         \/ /\ curr_state[d] \in Running
            /\ curr_state' = [curr_state EXCEPT ![d] = "SUSPEND"]
            /\ done' = done /\ Goes(TASKLET, "load")
  <2>1. ctx[TASKLET].st = curr_state[d] /\ curr_state[d] # "TRANSFERING"
    BY <1>1, <1>2, <1>4 DEF FrameInv
  <2> QED  BY <2>1 DEF ActSuspend, FsmUnchanged, Complete, Becomes, Running, Off
<1>6. /\ \A b \in Chans : ctx'[b] = ctx[b]
      /\ ctx'[TASKLET].chan = d
      /\ \/ /\ curr_state[d] \in Off /\ curr_state' = curr_state
            /\ ctx'[TASKLET].step = "trigger" /\ ctx'[TASKLET].ev = "resume"
         \/ /\ curr_state[d] \in Running /\ curr_state'[d] = "SUSPEND"
            /\ ctx'[TASKLET].step = "load" /\ ctx'[TASKLET].ev = "suspend"
      /\ \A x \in Chans : x # d => curr_state'[x] = curr_state[x]
      /\ \A x \in Chans : done[x] \subseteq done'[x]
  BY <1>1, <1>2, <1>5, Numbers, ThroughIs, GoesIs DEF TypeInv, Steps, NextFlag
<1> HIDE DEF e, d
<1>7. LockInv'
  BY <1>1, <1>5 DEF LockInv, callVars
<1>8. StateInv'
  BY <1>1, <1>2, <1>3, <1>4, <1>5, <1>6
     DEF StateInv, Opening, Running, Off, chanVars, fsmVars, e, d
<1>9. ReadInv'
  BY <1>1, <1>3, <1>4, <1>6 DEF ReadInv
<1>10. FrameInv'
  BY <1>1, <1>2, <1>3, <1>4, <1>5, <1>6, NoEventIs
     DEF FrameInv, Raised, chanVars, fsmVars, e, d
<1>11. EnInv'
  <2>1. \A a \in Actors : ctx'[a].step = "store" => ctx'[a].reg = en'
    BY <1>2, <1>3, <1>4, <1>5, <1>6, NoEventIs
  <2>2. ctx'[TASKLET].step \in {"load", "store"} =>
          /\ ctx'[TASKLET].chan = d
          /\ ctx'[TASKLET].ev = "suspend" => curr_state'[d] = "SUSPEND"
          /\ ctx'[TASKLET].ev = "resume" => curr_state'[d] \in Running
          /\ ctx'[TASKLET].ev = "close" => curr_state'[d] = "UNREGISTER"
    BY <1>2, <1>3, <1>4, <1>5, <1>6, NoEventIs DEF Switches, fsmVars, Running, e, d
  <2>3. \A x \in en' : curr_state'[x] \in Off =>
          \/ (Switches(TASKLET, "suspend", x) \/ Switches(TASKLET, "close", x))'
          \/ (Closes(TASKLET, x) \/ Closes(c, x))'
    BY <1>1, <1>2, <1>3, <1>4, <1>5, <1>6, NoEventIs
       DEF Switches, Closes, chanVars, fsmVars, Running, Off, e, d
  <2>4. \A x \in Chans \ en' : curr_state'[x] \in Running => Switches(TASKLET, "resume", x)'
    BY <1>1, <1>2, <1>3, <1>4, <1>5, <1>6, NoEventIs
       DEF Switches, chanVars, fsmVars, Running, Off, e, d
  <2> QED  BY <1>3, <1>4, <1>6, <2>1, <2>2, <2>3, <2>4 DEF EnInv
<1>12. DoneInv'
  <2>1. \A x \in Chans : opened_flag'[x] = 0 =>
           "close" \in done'[x] \/ Switches(TASKLET, "close", x)'
    BY <1>1, <1>2, <1>3, <1>4, <1>5, <1>6, NoEventIs
       DEF Switches, chanVars, fsmVars, e, d
  <2> QED  BY <1>3, <1>4, <1>6, <2>1 DEF DoneInv
<1>13. QuietInv'
  BY <1>1, <1>2, <1>3, <1>4, <1>5, <1>6
     DEF QuietInv, Quiet, Switches, Closes, chanVars, callVars, fsmVars, Running, Off, e, d
<1>14. BufInv'
  BY <1>1, <1>2, <1>3, <1>4, <1>5, <1>6
     DEF BufInv, Switches, chanVars, callVars, hwVars, fsmVars, Running, e, d
<1>15. OnInv'
  BY <1>1, <1>2, <1>3, <1>4, <1>5, <1>6
     DEF OnInv, chanVars, callVars, fsmVars, Running, Off, e, d
<1> QED
  BY <1>7, <1>8, <1>9, <1>10, <1>11, <1>12, <1>13, <1>14, <1>15 DEF AloneInv

LEMMA TaskActResume ==
  ASSUME Inv, AloneInv, ActResume(TASKLET), ctx[TASKLET].ev # "deliver", Inv'
  PROVE  AloneInv'
<1>1. /\ TypeInv /\ TypeInv' /\ CallInv /\ OpenInv /\ TaskletInv
      /\ LockInv /\ StateInv /\ ReadInv /\ FrameInv /\ EnInv
      /\ DoneInv /\ QuietInv /\ BufInv /\ OnInv
  BY DEF Inv, AloneInv
<1> DEFINE e == ctx[TASKLET].ev
           d == ctx[TASKLET].chan
<1>2. /\ ctx[TASKLET] \in Ctx /\ d \in Chans /\ e \in Events
      /\ ctx[TASKLET].step = "act" /\ e = "resume" /\ en \subseteq Chans
  <2>1. ctx[TASKLET].step = "act" /\ e = "resume"
    BY DEF ActResume
  <2>2. ctx[TASKLET] \in Ctx /\ d \in Chans
    BY EventOf, Numbers
  <2>3. e \in Events
    BY <2>2 DEF Ctx
  <2> QED  BY <1>1, <2>1, <2>2, <2>3 DEF TypeInv
<1>3. PICK c \in Chans : /\ ctx[c].step = "read" /\ ctx[c].chan = d /\ ctx[c].ev = e
  BY <1>1, <1>2 DEF FrameInv
<1>4. /\ \A x \in Chans : x # c =>
           ctx[x].step = "none" /\ pc[x] \in {"idle", "lock", "alloc", "dead"}
      /\ pc[c] = "event" /\ c \in Actors /\ c # TASKLET /\ TASKLET \in Actors
      /\ \A a \in Actors : a = TASKLET \/ a \in Chans
      /\ \A x \in Chans : \A f \in pending[x] : Raised(c, f, x)
      /\ \A x \in Chans : curr_state[x] # "TRANSFERING"
      /\ \A x \in en : curr_state[x] \in Off =>
           \/ Switches(TASKLET, "suspend", x) \/ Switches(TASKLET, "close", x)
           \/ Closes(TASKLET, x) \/ Closes(c, x)
      /\ \A x \in Chans \ en : curr_state[x] \in Running => Switches(TASKLET, "resume", x)
      /\ Switches(TASKLET, "suspend", d) => curr_state[d] = "SUSPEND"
      /\ Switches(TASKLET, "resume", d) => curr_state[d] \in Running
      /\ Switches(TASKLET, "close", d) => curr_state[d] = "UNREGISTER"
      /\ \A x \in Chans : opened_flag[x] = 0 =>
           "close" \in done[x] \/ Switches(TASKLET, "close", x)
  <2>1. c \in Actors /\ c # TASKLET /\ TASKLET \in Actors
    BY Numbers
  <2>2. pc[c] = "event"
    BY <1>3, <2>1, EventOf
  <2>3. \A x \in Chans : x # c =>
           ctx[x].step = "none" /\ pc[x] \in {"idle", "lock", "alloc", "dead"}
    BY <2>2, OneCall DEF Held
  <2>4. \A a \in Actors : a = TASKLET \/ a \in Chans
    BY DEF Actors
  <2>5. /\ \A x \in Chans : \A f \in pending[x] : Raised(c, f, x)
        /\ \A x \in Chans : curr_state[x] # "TRANSFERING"
    BY <1>1, <1>2, <2>3 DEF FrameInv, Raised
  <2>6. /\ \A x \in en : curr_state[x] \in Off =>
             \/ Switches(TASKLET, "suspend", x) \/ Switches(TASKLET, "close", x)
             \/ Closes(TASKLET, x) \/ Closes(c, x)
        /\ \A x \in Chans \ en : curr_state[x] \in Running => Switches(TASKLET, "resume", x)
    BY <1>1, <1>3, <2>3, <2>4 DEF EnInv, Switches, Closes
  <2>7. /\ Switches(TASKLET, "suspend", d) => curr_state[d] = "SUSPEND"
        /\ Switches(TASKLET, "resume", d) => curr_state[d] \in Running
        /\ Switches(TASKLET, "close", d) => curr_state[d] = "UNREGISTER"
    BY <1>1, <2>1 DEF EnInv, Switches
  <2>8. \A x \in Chans : opened_flag[x] = 0 =>
           "close" \in done[x] \/ Switches(TASKLET, "close", x)
    BY <1>1, <1>3, <2>3, <2>4 DEF DoneInv, Switches
  <2> QED  BY <2>1, <2>2, <2>3, <2>4, <2>5, <2>6, <2>7, <2>8
<1>5. /\ UNCHANGED <<opened_flag, stream_on, pending, en, nbuffers, hwVars, callVars, todo>>
      /\ \A x \in Chans : pc[x] = "alloc" => call[x] # "s_fmt"
      /\ \/ /\ curr_state' = curr_state
            /\ done' = [done EXCEPT ![d] = @ \cup {"resume"}] /\ EventThrough(TASKLET)
         \/ /\ curr_state[d] = "SUSPEND" /\ nbuffers[d] # 0 /\ stream_on[d]
            /\ curr_state' = [curr_state EXCEPT ![d] = "STANDBY"]
            /\ done' = done /\ Goes(TASKLET, "load")
  <2>1. UNCHANGED <<opened_flag, stream_on, pending, en, nbuffers, hwVars, callVars, todo>>
    BY DEF ActResume, FsmUnchanged
  <2>2. \A x \in Chans : pc[x] = "alloc" => call[x] # "s_fmt"
    <3>1. "resume" \in Drive(call[c]) /\ call[c] \in Calls
      BY <1>1, <1>2, <1>3, <1>4, EventOf DEF TypeInv
    <3>2. call[c] \in {"streamon", "s_fmt"}
      BY <3>1 DEF Drive, Calls
    <3>3. c \in vp_mutex
      BY <1>1, <1>4, <3>2 DEF LockInv, Held
    <3> QED  BY <1>1, <1>4, <3>3 DEF LockInv, Held
  <2>3. CASE ctx[TASKLET].st = "SUSPEND" /\ prev_resource_on(d)
    <3>1. curr_state[d] = "SUSPEND"
      BY <1>1, <1>2, <2>3 DEF FrameInv
    <3>2. nbuffers[d] # 0 /\ stream_on[d]
      BY <2>3 DEF prev_resource_on
    <3>3. curr_state' = [curr_state EXCEPT ![d] = "STANDBY"] /\ done' = done /\ Goes(TASKLET, "load")
      BY <2>3 DEF ActResume, Becomes
    <3> QED  BY <2>1, <2>2, <3>1, <3>2, <3>3
  <2>4. CASE ~(ctx[TASKLET].st = "SUSPEND" /\ prev_resource_on(d))
    <3>1. /\ curr_state' = curr_state /\ EventThrough(TASKLET)
          /\ done' = [done EXCEPT ![d] = @ \cup {"resume"}]
      BY <2>4 DEF ActResume, Complete
    <3> QED  BY <2>1, <2>2, <3>1
  <2> QED  BY <2>3, <2>4
<1>6. /\ \A b \in Chans : ctx'[b] = ctx[b]
      /\ ctx'[TASKLET].chan = d
      /\ \/ /\ curr_state' = curr_state
            /\ ctx'[TASKLET].step = "trigger" /\ ctx'[TASKLET].ev = "close"
         \/ /\ curr_state[d] = "SUSPEND" /\ nbuffers[d] # 0 /\ stream_on[d]
            /\ curr_state'[d] = "STANDBY"
            /\ ctx'[TASKLET].step = "load" /\ ctx'[TASKLET].ev = "resume"
      /\ \A x \in Chans : x # d => curr_state'[x] = curr_state[x]
      /\ \A x \in Chans : done[x] \subseteq done'[x]
  BY <1>1, <1>2, <1>5, Numbers, ThroughIs, GoesIs DEF TypeInv, Steps, NextFlag
<1> HIDE DEF e, d
<1>7. LockInv'
  BY <1>1, <1>5 DEF LockInv, callVars
<1>8. StateInv'
  BY <1>1, <1>2, <1>3, <1>4, <1>5, <1>6
     DEF StateInv, Opening, Running, Off, chanVars, fsmVars, e, d
<1>9. ReadInv'
  BY <1>1, <1>3, <1>4, <1>6 DEF ReadInv
<1>10. FrameInv'
  BY <1>1, <1>2, <1>3, <1>4, <1>5, <1>6, NoEventIs
     DEF FrameInv, Raised, chanVars, fsmVars, e, d
<1>11. EnInv'
  <2>1. \A a \in Actors : ctx'[a].step = "store" => ctx'[a].reg = en'
    BY <1>2, <1>3, <1>4, <1>5, <1>6, NoEventIs
  <2>2. ctx'[TASKLET].step \in {"load", "store"} =>
          /\ ctx'[TASKLET].chan = d
          /\ ctx'[TASKLET].ev = "suspend" => curr_state'[d] = "SUSPEND"
          /\ ctx'[TASKLET].ev = "resume" => curr_state'[d] \in Running
          /\ ctx'[TASKLET].ev = "close" => curr_state'[d] = "UNREGISTER"
    BY <1>2, <1>3, <1>4, <1>5, <1>6, NoEventIs DEF Switches, fsmVars, Running, e, d
  <2>3. \A x \in en' : curr_state'[x] \in Off =>
          \/ (Switches(TASKLET, "suspend", x) \/ Switches(TASKLET, "close", x))'
          \/ (Closes(TASKLET, x) \/ Closes(c, x))'
    BY <1>1, <1>2, <1>3, <1>4, <1>5, <1>6, NoEventIs
       DEF Switches, Closes, chanVars, fsmVars, Running, Off, e, d
  <2>4. \A x \in Chans \ en' : curr_state'[x] \in Running => Switches(TASKLET, "resume", x)'
    BY <1>1, <1>2, <1>3, <1>4, <1>5, <1>6, NoEventIs
       DEF Switches, chanVars, fsmVars, Running, Off, e, d
  <2> QED  BY <1>3, <1>4, <1>6, <2>1, <2>2, <2>3, <2>4 DEF EnInv
<1>12. DoneInv'
  <2>1. \A x \in Chans : opened_flag'[x] = 0 =>
           "close" \in done'[x] \/ Switches(TASKLET, "close", x)'
    BY <1>1, <1>2, <1>3, <1>4, <1>5, <1>6, NoEventIs
       DEF Switches, chanVars, fsmVars, e, d
  <2> QED  BY <1>3, <1>4, <1>6, <2>1 DEF DoneInv
<1>13. QuietInv'
  BY <1>1, <1>2, <1>3, <1>4, <1>5, <1>6
     DEF QuietInv, Quiet, Switches, Closes, chanVars, callVars, fsmVars, Running, Off, e, d
<1>14. BufInv'
  BY <1>1, <1>2, <1>3, <1>4, <1>5, <1>6
     DEF BufInv, Switches, chanVars, callVars, hwVars, fsmVars, Running, e, d, TypeInv
<1>15. OnInv'
  BY <1>1, <1>2, <1>3, <1>4, <1>5, <1>6
     DEF OnInv, chanVars, callVars, fsmVars, Running, Off, e, d
<1> QED
  BY <1>7, <1>8, <1>9, <1>10, <1>11, <1>12, <1>13, <1>14, <1>15 DEF AloneInv

LEMMA TaskActClose ==
  ASSUME Inv, AloneInv, ActClose(TASKLET), ctx[TASKLET].ev # "deliver", Inv'
  PROVE  AloneInv'
<1>1. /\ TypeInv /\ TypeInv' /\ CallInv /\ OpenInv /\ TaskletInv
      /\ LockInv /\ StateInv /\ ReadInv /\ FrameInv /\ EnInv
      /\ DoneInv /\ QuietInv /\ BufInv /\ OnInv
  BY DEF Inv, AloneInv
<1> DEFINE e == ctx[TASKLET].ev
           d == ctx[TASKLET].chan
<1>2. /\ ctx[TASKLET] \in Ctx /\ d \in Chans /\ e \in Events
      /\ ctx[TASKLET].step = "act" /\ e = "close" /\ en \subseteq Chans
  <2>1. ctx[TASKLET].step = "act" /\ e = "close"
    BY DEF ActClose
  <2>2. ctx[TASKLET] \in Ctx /\ d \in Chans
    BY EventOf, Numbers
  <2>3. e \in Events
    BY <2>2 DEF Ctx
  <2> QED  BY <1>1, <2>1, <2>2, <2>3 DEF TypeInv
<1>3. PICK c \in Chans : /\ ctx[c].step = "read" /\ ctx[c].chan = d /\ ctx[c].ev = e
  BY <1>1, <1>2 DEF FrameInv
<1>4. /\ \A x \in Chans : x # c =>
           ctx[x].step = "none" /\ pc[x] \in {"idle", "lock", "alloc", "dead"}
      /\ pc[c] = "event" /\ c \in Actors /\ c # TASKLET /\ TASKLET \in Actors
      /\ \A a \in Actors : a = TASKLET \/ a \in Chans
      /\ \A x \in Chans : \A f \in pending[x] : Raised(c, f, x)
      /\ \A x \in Chans : curr_state[x] # "TRANSFERING"
      /\ \A x \in en : curr_state[x] \in Off =>
           \/ Switches(TASKLET, "suspend", x) \/ Switches(TASKLET, "close", x)
           \/ Closes(TASKLET, x) \/ Closes(c, x)
      /\ \A x \in Chans \ en : curr_state[x] \in Running => Switches(TASKLET, "resume", x)
      /\ Switches(TASKLET, "suspend", d) => curr_state[d] = "SUSPEND"
      /\ Switches(TASKLET, "resume", d) => curr_state[d] \in Running
      /\ Switches(TASKLET, "close", d) => curr_state[d] = "UNREGISTER"
      /\ \A x \in Chans : opened_flag[x] = 0 =>
           "close" \in done[x] \/ Switches(TASKLET, "close", x)
  <2>1. c \in Actors /\ c # TASKLET /\ TASKLET \in Actors
    BY Numbers
  <2>2. pc[c] = "event"
    BY <1>3, <2>1, EventOf
  <2>3. \A x \in Chans : x # c =>
           ctx[x].step = "none" /\ pc[x] \in {"idle", "lock", "alloc", "dead"}
    BY <2>2, OneCall DEF Held
  <2>4. \A a \in Actors : a = TASKLET \/ a \in Chans
    BY DEF Actors
  <2>5. /\ \A x \in Chans : \A f \in pending[x] : Raised(c, f, x)
        /\ \A x \in Chans : curr_state[x] # "TRANSFERING"
    BY <1>1, <1>2, <2>3 DEF FrameInv, Raised
  <2>6. /\ \A x \in en : curr_state[x] \in Off =>
             \/ Switches(TASKLET, "suspend", x) \/ Switches(TASKLET, "close", x)
             \/ Closes(TASKLET, x) \/ Closes(c, x)
        /\ \A x \in Chans \ en : curr_state[x] \in Running => Switches(TASKLET, "resume", x)
    BY <1>1, <1>3, <2>3, <2>4 DEF EnInv, Switches, Closes
  <2>7. /\ Switches(TASKLET, "suspend", d) => curr_state[d] = "SUSPEND"
        /\ Switches(TASKLET, "resume", d) => curr_state[d] \in Running
        /\ Switches(TASKLET, "close", d) => curr_state[d] = "UNREGISTER"
    BY <1>1, <2>1 DEF EnInv, Switches
  <2>8. \A x \in Chans : opened_flag[x] = 0 =>
           "close" \in done[x] \/ Switches(TASKLET, "close", x)
    BY <1>1, <1>3, <2>3, <2>4 DEF DoneInv, Switches
  <2> QED  BY <2>1, <2>2, <2>3, <2>4, <2>5, <2>6, <2>7, <2>8
<1>5. /\ UNCHANGED <<done, pending, en, nbuffers, hwVars, callVars, todo>>
      /\ \/ /\ curr_state[d] = "UNREGISTER" /\ opened_flag[d] = 0
            /\ UNCHANGED <<curr_state, opened_flag, stream_on>> /\ EventThrough(TASKLET)
         \/ /\ curr_state[d] = "UNREGISTER" /\ opened_flag[d] = 1 /\ curr_state' = curr_state
            /\ opened_flag' = [opened_flag EXCEPT ![d] = 0]
            /\ \A x \in Chans : x # d => stream_on'[x] = stream_on[x]
            /\ Goes(TASKLET, "load")
         \/ /\ curr_state' = [curr_state EXCEPT ![d] = "UNREGISTER"] /\ opened_flag[d] = 1
            /\ UNCHANGED <<opened_flag, stream_on>> /\ Goes(TASKLET, "raise")
  <2>1. UNCHANGED <<done, en, nbuffers, hwVars, callVars, todo>>
    BY DEF ActClose, FsmUnchanged
  <2>2. ctx[TASKLET].st = curr_state[d] /\ curr_state[d] # "TRANSFERING"
    BY <1>1, <1>2, <1>4 DEF FrameInv
  <2>3. opened_flag[d] \in {0, 1} /\ (opened_flag[d] = 0 => curr_state[d] = "UNREGISTER")
    BY <1>1, <1>2 DEF StateInv
  <2>4. CASE ctx[TASKLET].st = "UNREGISTER" /\ opened_flag[d] = 0
    BY <2>1, <2>2, <2>4 DEF ActClose
  <2>5. CASE ctx[TASKLET].st = "UNREGISTER" /\ opened_flag[d] = 1
    <3>1. /\ opened_flag' = [opened_flag EXCEPT ![d] = @ - 1] /\ curr_state' = curr_state
          /\ stream_on' = [stream_on EXCEPT ![d] = @ /\ ~(opened_flag[d] = 1)]
          /\ pending' = pending /\ Goes(TASKLET, "load")
      BY <2>5 DEF ActClose
    <3>2. opened_flag' = [opened_flag EXCEPT ![d] = 0]
      BY <2>5, <3>1
    <3>3. \A x \in Chans : x # d => stream_on'[x] = stream_on[x]
      BY <1>1, <3>1 DEF TypeInv
    <3> QED  BY <2>1, <2>2, <2>5, <3>1, <3>2, <3>3
  <2>6. CASE ctx[TASKLET].st # "UNREGISTER"
    <3>1. opened_flag[d] = 1
      BY <2>2, <2>3, <2>6
    <3> QED  BY <2>1, <2>2, <2>6, <3>1 DEF ActClose, Becomes
  <2> QED  BY <2>3, <2>4, <2>5, <2>6
<1>6. /\ \A b \in Chans : ctx'[b] = ctx[b]
      /\ \/ /\ curr_state[d] = "UNREGISTER" /\ opened_flag[d] = 0 /\ ctx'[TASKLET] = NoEvent
            /\ UNCHANGED <<curr_state, opened_flag, stream_on>>
         \/ /\ curr_state[d] = "UNREGISTER" /\ opened_flag'[d] = 0 /\ curr_state' = curr_state
            /\ ctx'[TASKLET].step = "load"
            /\ ctx'[TASKLET].chan = d /\ ctx'[TASKLET].ev = e
         \/ /\ curr_state'[d] = "UNREGISTER" /\ opened_flag[d] = 1 /\ opened_flag'[d] = 1
            /\ ctx'[TASKLET].step = "raise"
            /\ ctx'[TASKLET].chan = d /\ ctx'[TASKLET].ev = e
      /\ \A x \in Chans : x # d => /\ curr_state'[x] = curr_state[x]
                                   /\ opened_flag'[x] = opened_flag[x]
                                   /\ stream_on'[x] = stream_on[x]
  BY <1>1, <1>2, <1>5, Numbers, ThroughIs, GoesIs DEF TypeInv, Steps
<1> HIDE DEF e, d
<1>7. LockInv'
  BY <1>1, <1>5 DEF LockInv, callVars
<1>8. StateInv'
  BY <1>1, <1>2, <1>3, <1>4, <1>5, <1>6
     DEF StateInv, Opening, Running, Off, chanVars, fsmVars, e, d
<1>9. ReadInv'
  BY <1>1, <1>3, <1>4, <1>6 DEF ReadInv
<1>10. FrameInv'
  BY <1>1, <1>2, <1>3, <1>4, <1>5, <1>6, NoEventIs
     DEF FrameInv, Raised, chanVars, fsmVars, e, d
<1>11. EnInv'
  <2>1. \A a \in Actors : ctx'[a].step = "store" => ctx'[a].reg = en'
    BY <1>2, <1>3, <1>4, <1>5, <1>6, NoEventIs
  <2>2. ctx'[TASKLET].step \in {"load", "store"} =>
          /\ ctx'[TASKLET].chan = d
          /\ ctx'[TASKLET].ev = "suspend" => curr_state'[d] = "SUSPEND"
          /\ ctx'[TASKLET].ev = "resume" => curr_state'[d] \in Running
          /\ ctx'[TASKLET].ev = "close" => curr_state'[d] = "UNREGISTER"
    BY <1>2, <1>3, <1>4, <1>5, <1>6, NoEventIs DEF Switches, fsmVars, Running, e, d
  <2>3. \A x \in en' : curr_state'[x] \in Off =>
          \/ (Switches(TASKLET, "suspend", x) \/ Switches(TASKLET, "close", x))'
          \/ (Closes(TASKLET, x) \/ Closes(c, x))'
    BY <1>1, <1>2, <1>3, <1>4, <1>5, <1>6, NoEventIs
       DEF Switches, Closes, chanVars, fsmVars, Running, Off, e, d
  <2>4. \A x \in Chans \ en' : curr_state'[x] \in Running => Switches(TASKLET, "resume", x)'
    BY <1>1, <1>2, <1>3, <1>4, <1>5, <1>6, NoEventIs
       DEF Switches, chanVars, fsmVars, Running, Off, e, d
  <2> QED  BY <1>3, <1>4, <1>6, <2>1, <2>2, <2>3, <2>4 DEF EnInv
<1>12. DoneInv'
  <2>1. \A x \in Chans : opened_flag'[x] = 0 =>
           "close" \in done'[x] \/ Switches(TASKLET, "close", x)'
    BY <1>1, <1>2, <1>3, <1>4, <1>5, <1>6, NoEventIs
       DEF Switches, chanVars, fsmVars, e, d
  <2> QED  BY <1>3, <1>4, <1>6, <2>1 DEF DoneInv
<1>13. QuietInv'
  BY <1>1, <1>2, <1>3, <1>4, <1>5, <1>6
     DEF QuietInv, Quiet, Switches, Closes, chanVars, callVars, fsmVars, Running, Off, e, d
<1>14. BufInv'
  BY <1>1, <1>2, <1>3, <1>4, <1>5, <1>6
     DEF BufInv, Switches, chanVars, callVars, hwVars, fsmVars, Running, e, d
<1>15. OnInv'
  BY <1>1, <1>2, <1>3, <1>4, <1>5, <1>6
     DEF OnInv, chanVars, callVars, fsmVars, Running, Off, e, d
<1> QED
  BY <1>7, <1>8, <1>9, <1>10, <1>11, <1>12, <1>13, <1>14, <1>15 DEF AloneInv

LEMMA TaskTrigger ==
  ASSUME Inv, AloneInv, Trigger(TASKLET), ctx[TASKLET].ev # "deliver", Inv'
  PROVE  AloneInv'
<1>1. /\ TypeInv /\ TypeInv' /\ CallInv /\ OpenInv /\ TaskletInv
      /\ LockInv /\ StateInv /\ ReadInv /\ FrameInv /\ EnInv
      /\ DoneInv /\ QuietInv /\ BufInv /\ OnInv
  BY DEF Inv, AloneInv
<1> DEFINE e == ctx[TASKLET].ev
           d == ctx[TASKLET].chan
<1>2. /\ ctx[TASKLET] \in Ctx /\ d \in Chans /\ e \in Events
      /\ ctx[TASKLET].step = "trigger" /\ en \subseteq Chans
  <2>1. ctx[TASKLET].step = "trigger"
    BY DEF Trigger
  <2>2. ctx[TASKLET] \in Ctx /\ d \in Chans
    BY EventOf, Numbers
  <2>3. e \in Events
    BY <2>2 DEF Ctx
  <2> QED  BY <1>1, <2>1, <2>2, <2>3 DEF TypeInv
<1>3. PICK c \in Chans : /\ ctx[c].step = "read" /\ ctx[c].chan = d 
  BY <1>1, <1>2 DEF FrameInv
<1>4. /\ \A x \in Chans : x # c =>
           ctx[x].step = "none" /\ pc[x] \in {"idle", "lock", "alloc", "dead"}
      /\ pc[c] = "event" /\ c \in Actors /\ c # TASKLET /\ TASKLET \in Actors
      /\ \A a \in Actors : a = TASKLET \/ a \in Chans
      /\ \A x \in Chans : \A f \in pending[x] : Raised(c, f, x)
      /\ \A x \in Chans : curr_state[x] # "TRANSFERING"
      /\ \A x \in en : curr_state[x] \in Off =>
           \/ Switches(TASKLET, "suspend", x) \/ Switches(TASKLET, "close", x)
           \/ Closes(TASKLET, x) \/ Closes(c, x)
      /\ \A x \in Chans \ en : curr_state[x] \in Running => Switches(TASKLET, "resume", x)
      /\ Switches(TASKLET, "suspend", d) => curr_state[d] = "SUSPEND"
      /\ Switches(TASKLET, "resume", d) => curr_state[d] \in Running
      /\ Switches(TASKLET, "close", d) => curr_state[d] = "UNREGISTER"
      /\ \A x \in Chans : opened_flag[x] = 0 =>
           "close" \in done[x] \/ Switches(TASKLET, "close", x)
  <2>1. c \in Actors /\ c # TASKLET /\ TASKLET \in Actors
    BY Numbers
  <2>2. pc[c] = "event"
    BY <1>3, <2>1, EventOf
  <2>3. \A x \in Chans : x # c =>
           ctx[x].step = "none" /\ pc[x] \in {"idle", "lock", "alloc", "dead"}
    BY <2>2, OneCall DEF Held
  <2>4. \A a \in Actors : a = TASKLET \/ a \in Chans
    BY DEF Actors
  <2>5. /\ \A x \in Chans : \A f \in pending[x] : Raised(c, f, x)
        /\ \A x \in Chans : curr_state[x] # "TRANSFERING"
    BY <1>1, <1>2, <2>3 DEF FrameInv, Raised
  <2>6. /\ \A x \in en : curr_state[x] \in Off =>
             \/ Switches(TASKLET, "suspend", x) \/ Switches(TASKLET, "close", x)
             \/ Closes(TASKLET, x) \/ Closes(c, x)
        /\ \A x \in Chans \ en : curr_state[x] \in Running => Switches(TASKLET, "resume", x)
    BY <1>1, <1>3, <2>3, <2>4 DEF EnInv, Switches, Closes
  <2>7. /\ Switches(TASKLET, "suspend", d) => curr_state[d] = "SUSPEND"
        /\ Switches(TASKLET, "resume", d) => curr_state[d] \in Running
        /\ Switches(TASKLET, "close", d) => curr_state[d] = "UNREGISTER"
    BY <1>1, <2>1 DEF EnInv, Switches
  <2>8. \A x \in Chans : opened_flag[x] = 0 =>
           "close" \in done[x] \/ Switches(TASKLET, "close", x)
    BY <1>1, <1>3, <2>3, <2>4 DEF DoneInv, Switches
  <2> QED  BY <2>1, <2>2, <2>3, <2>4, <2>5, <2>6, <2>7, <2>8
<1>5. /\ UNCHANGED <<chanVars, fsmVars, en, hwVars, callVars, todo>>
  BY DEF Trigger, FsmUnchanged, chanVars
<1>6. /\ \A b \in Chans : ctx'[b] = ctx[b]
      /\ \/ /\ ctx'[TASKLET].step = "read" /\ ctx'[TASKLET].ev = e /\ ctx'[TASKLET].chan = d
            /\ ctx[c].ev = e /\ e # "open"
         \/ /\ ctx'[TASKLET].step = "trigger" /\ ctx'[TASKLET].chan = d
            /\ ctx'[TASKLET].ev \in {"suspend", "resume", "close"}
         \/ ctx'[TASKLET] = NoEvent
  <2>1. (e \in pending[d] /\ Goes(TASKLET, "read")) \/ EventThrough(TASKLET)
    BY DEF Trigger
  <2>2. ASSUME e \in pending[d] PROVE ctx[c].ev = e /\ e # "open"
    <3>1. ctx[c].ev = e
      BY <1>2, <1>4, <2>2 DEF Raised
    <3>2. ASSUME e = "open" PROVE FALSE
      <4>1. c = d /\ Opening(c)
        BY <1>3, <1>4, <3>1, <3>2, EventOf DEF Opening
      <4>2. curr_state[d] = "UNREGISTER"
        BY <1>1, <4>1 DEF StateInv
      <4> QED  BY <1>1, <1>2, <3>2, <4>2 DEF FrameInv
    <3> QED  BY <3>1, <3>2
  <2> QED  BY <1>1, <1>2, <2>1, <2>2, Numbers, ThroughIs, GoesIs DEF TypeInv, Steps, Events
<1> HIDE DEF e, d
<1>7. LockInv'
  BY <1>1, <1>5 DEF LockInv, callVars
<1>8. StateInv'
  BY <1>1, <1>2, <1>3, <1>4, <1>5, <1>6
     DEF StateInv, Opening, Running, Off, chanVars, fsmVars, e, d
<1>9. ReadInv'
  BY <1>1, <1>3, <1>4, <1>6 DEF ReadInv
<1>10. FrameInv'
  BY <1>1, <1>2, <1>3, <1>4, <1>5, <1>6, NoEventIs
     DEF FrameInv, Raised, chanVars, fsmVars, e, d
<1>11. EnInv'
  <2>1. \A a \in Actors : ctx'[a].step = "store" => ctx'[a].reg = en'
    BY <1>2, <1>3, <1>4, <1>5, <1>6, NoEventIs
  <2>2. ctx'[TASKLET].step \in {"load", "store"} =>
          /\ ctx'[TASKLET].chan = d
          /\ ctx'[TASKLET].ev = "suspend" => curr_state'[d] = "SUSPEND"
          /\ ctx'[TASKLET].ev = "resume" => curr_state'[d] \in Running
          /\ ctx'[TASKLET].ev = "close" => curr_state'[d] = "UNREGISTER"
    BY <1>2, <1>3, <1>4, <1>5, <1>6, NoEventIs DEF Switches, fsmVars, Running, e, d
  <2>3. \A x \in en' : curr_state'[x] \in Off =>
          \/ (Switches(TASKLET, "suspend", x) \/ Switches(TASKLET, "close", x))'
          \/ (Closes(TASKLET, x) \/ Closes(c, x))'
    BY <1>1, <1>2, <1>3, <1>4, <1>5, <1>6, NoEventIs
       DEF Switches, Closes, chanVars, fsmVars, Running, Off, e, d
  <2>4. \A x \in Chans \ en' : curr_state'[x] \in Running => Switches(TASKLET, "resume", x)'
    BY <1>1, <1>2, <1>3, <1>4, <1>5, <1>6, NoEventIs
       DEF Switches, chanVars, fsmVars, Running, Off, e, d
  <2> QED  BY <1>3, <1>4, <1>6, <2>1, <2>2, <2>3, <2>4 DEF EnInv
<1>12. DoneInv'
  <2>1. \A x \in Chans : opened_flag'[x] = 0 =>
           "close" \in done'[x] \/ Switches(TASKLET, "close", x)'
    BY <1>1, <1>2, <1>3, <1>4, <1>5, <1>6, NoEventIs
       DEF Switches, chanVars, fsmVars, e, d
  <2> QED  BY <1>3, <1>4, <1>6, <2>1 DEF DoneInv
<1>13. QuietInv'
  BY <1>1, <1>2, <1>3, <1>4, <1>5, <1>6
     DEF QuietInv, Quiet, Switches, Closes, chanVars, callVars, fsmVars, Running, Off, e, d
<1>14. BufInv'
  BY <1>1, <1>2, <1>3, <1>4, <1>5, <1>6
     DEF BufInv, Switches, chanVars, callVars, hwVars, fsmVars, Running, e, d
<1>15. OnInv'
  BY <1>1, <1>2, <1>3, <1>4, <1>5, <1>6
     DEF OnInv, chanVars, callVars, fsmVars, Running, Off, e, d
<1> QED
  BY <1>7, <1>8, <1>9, <1>10, <1>11, <1>12, <1>13, <1>14, <1>15 DEF AloneInv

LEMMA TaskLoad ==
  ASSUME Inv, AloneInv, Load(TASKLET), ctx[TASKLET].ev # "deliver", Inv'
  PROVE  AloneInv'
<1>1. /\ TypeInv /\ TypeInv' /\ CallInv /\ OpenInv /\ TaskletInv
      /\ LockInv /\ StateInv /\ ReadInv /\ FrameInv /\ EnInv
      /\ DoneInv /\ QuietInv /\ BufInv /\ OnInv
  BY DEF Inv, AloneInv
<1> DEFINE e == ctx[TASKLET].ev
           d == ctx[TASKLET].chan
<1>2. /\ ctx[TASKLET] \in Ctx /\ d \in Chans /\ e \in Events
      /\ ctx[TASKLET].step = "load" /\ en \subseteq Chans
  <2>1. ctx[TASKLET].step = "load"
    BY DEF Load
  <2>2. ctx[TASKLET] \in Ctx /\ d \in Chans
    BY EventOf, Numbers
  <2>3. e \in Events
    BY <2>2 DEF Ctx
  <2> QED  BY <1>1, <2>1, <2>2, <2>3 DEF TypeInv
<1>3. PICK c \in Chans : /\ ctx[c].step = "read" /\ ctx[c].chan = d /\ ctx[c].ev = e
  BY <1>1, <1>2 DEF FrameInv
<1>4. /\ \A x \in Chans : x # c =>
           ctx[x].step = "none" /\ pc[x] \in {"idle", "lock", "alloc", "dead"}
      /\ pc[c] = "event" /\ c \in Actors /\ c # TASKLET /\ TASKLET \in Actors
      /\ \A a \in Actors : a = TASKLET \/ a \in Chans
      /\ \A x \in Chans : \A f \in pending[x] : Raised(c, f, x)
      /\ \A x \in Chans : curr_state[x] # "TRANSFERING"
      /\ \A x \in en : curr_state[x] \in Off =>
           \/ Switches(TASKLET, "suspend", x) \/ Switches(TASKLET, "close", x)
           \/ Closes(TASKLET, x) \/ Closes(c, x)
      /\ \A x \in Chans \ en : curr_state[x] \in Running => Switches(TASKLET, "resume", x)
      /\ Switches(TASKLET, "suspend", d) => curr_state[d] = "SUSPEND"
      /\ Switches(TASKLET, "resume", d) => curr_state[d] \in Running
      /\ Switches(TASKLET, "close", d) => curr_state[d] = "UNREGISTER"
      /\ \A x \in Chans : opened_flag[x] = 0 =>
           "close" \in done[x] \/ Switches(TASKLET, "close", x)
  <2>1. c \in Actors /\ c # TASKLET /\ TASKLET \in Actors
    BY Numbers
  <2>2. pc[c] = "event"
    BY <1>3, <2>1, EventOf
  <2>3. \A x \in Chans : x # c =>
           ctx[x].step = "none" /\ pc[x] \in {"idle", "lock", "alloc", "dead"}
    BY <2>2, OneCall DEF Held
  <2>4. \A a \in Actors : a = TASKLET \/ a \in Chans
    BY DEF Actors
  <2>5. /\ \A x \in Chans : \A f \in pending[x] : Raised(c, f, x)
        /\ \A x \in Chans : curr_state[x] # "TRANSFERING"
    BY <1>1, <1>2, <2>3 DEF FrameInv, Raised
  <2>6. /\ \A x \in en : curr_state[x] \in Off =>
             \/ Switches(TASKLET, "suspend", x) \/ Switches(TASKLET, "close", x)
             \/ Closes(TASKLET, x) \/ Closes(c, x)
        /\ \A x \in Chans \ en : curr_state[x] \in Running => Switches(TASKLET, "resume", x)
    BY <1>1, <1>3, <2>3, <2>4 DEF EnInv, Switches, Closes
  <2>7. /\ Switches(TASKLET, "suspend", d) => curr_state[d] = "SUSPEND"
        /\ Switches(TASKLET, "resume", d) => curr_state[d] \in Running
        /\ Switches(TASKLET, "close", d) => curr_state[d] = "UNREGISTER"
    BY <1>1, <2>1 DEF EnInv, Switches
  <2>8. \A x \in Chans : opened_flag[x] = 0 =>
           "close" \in done[x] \/ Switches(TASKLET, "close", x)
    BY <1>1, <1>3, <2>3, <2>4 DEF DoneInv, Switches
  <2> QED  BY <2>1, <2>2, <2>3, <2>4, <2>5, <2>6, <2>7, <2>8
<1>5. /\ UNCHANGED <<chanVars, fsmVars, en, hwVars, callVars, todo>>
  BY DEF Load, FsmUnchanged, chanVars
<1>6. /\ \A b \in Chans : ctx'[b] = ctx[b]
      /\ ctx'[TASKLET].step = "store" /\ ctx'[TASKLET].ev = e /\ ctx'[TASKLET].chan = d
      /\ ctx'[TASKLET].reg = en
  <2> DEFINE g == [ctx[TASKLET] EXCEPT !.step = "store", !.reg = en]
  <2>1. g.step = "store" /\ g.ev = e /\ g.chan = d /\ g.reg = en
    BY <1>2 DEF Ctx
  <2>2. ctx \in [Actors -> Ctx] /\ ctx' = [ctx EXCEPT ![TASKLET] = g]
    BY <1>1 DEF Load, TypeInv
  <2> HIDE DEF g
  <2> QED  BY <2>1, <2>2, Numbers
<1> HIDE DEF e, d
<1>7. LockInv'
  BY <1>1, <1>5 DEF LockInv, callVars
<1>8. StateInv'
  BY <1>1, <1>2, <1>3, <1>4, <1>5, <1>6
     DEF StateInv, Opening, Running, Off, chanVars, fsmVars, e, d
<1>9. ReadInv'
  BY <1>1, <1>3, <1>4, <1>6 DEF ReadInv
<1>10. FrameInv'
  BY <1>1, <1>2, <1>3, <1>4, <1>5, <1>6, NoEventIs
     DEF FrameInv, Raised, chanVars, fsmVars, e, d
<1>11. EnInv'
  <2>1. \A a \in Actors : ctx'[a].step = "store" => ctx'[a].reg = en'
    BY <1>2, <1>3, <1>4, <1>5, <1>6, NoEventIs
  <2>2. ctx'[TASKLET].step \in {"load", "store"} =>
          /\ ctx'[TASKLET].chan = d
          /\ ctx'[TASKLET].ev = "suspend" => curr_state'[d] = "SUSPEND"
          /\ ctx'[TASKLET].ev = "resume" => curr_state'[d] \in Running
          /\ ctx'[TASKLET].ev = "close" => curr_state'[d] = "UNREGISTER"
    BY <1>2, <1>3, <1>4, <1>5, <1>6, NoEventIs DEF Switches, fsmVars, Running, e, d
  <2>3. \A x \in en' : curr_state'[x] \in Off =>
          \/ (Switches(TASKLET, "suspend", x) \/ Switches(TASKLET, "close", x))'
          \/ (Closes(TASKLET, x) \/ Closes(c, x))'
    BY <1>1, <1>2, <1>3, <1>4, <1>5, <1>6, NoEventIs
       DEF Switches, Closes, chanVars, fsmVars, Running, Off, e, d
  <2>4. \A x \in Chans \ en' : curr_state'[x] \in Running => Switches(TASKLET, "resume", x)'
    BY <1>1, <1>2, <1>3, <1>4, <1>5, <1>6, NoEventIs
       DEF Switches, chanVars, fsmVars, Running, Off, e, d
  <2> QED  BY <1>3, <1>4, <1>6, <2>1, <2>2, <2>3, <2>4 DEF EnInv
<1>12. DoneInv'
  <2>1. \A x \in Chans : opened_flag'[x] = 0 =>
           "close" \in done'[x] \/ Switches(TASKLET, "close", x)'
    BY <1>1, <1>2, <1>3, <1>4, <1>5, <1>6, NoEventIs
       DEF Switches, chanVars, fsmVars, e, d
  <2> QED  BY <1>3, <1>4, <1>6, <2>1 DEF DoneInv
<1>13. QuietInv'
  BY <1>1, <1>2, <1>3, <1>4, <1>5, <1>6
     DEF QuietInv, Quiet, Switches, Closes, chanVars, callVars, fsmVars, Running, Off, e, d
<1>14. BufInv'
  BY <1>1, <1>2, <1>3, <1>4, <1>5, <1>6
     DEF BufInv, Switches, chanVars, callVars, hwVars, fsmVars, Running, e, d
<1>15. OnInv'
  BY <1>1, <1>2, <1>3, <1>4, <1>5, <1>6
     DEF OnInv, chanVars, callVars, fsmVars, Running, Off, e, d
<1> QED
  BY <1>7, <1>8, <1>9, <1>10, <1>11, <1>12, <1>13, <1>14, <1>15 DEF AloneInv

LEMMA TaskStore ==
  ASSUME Inv, AloneInv, Store(TASKLET), ctx[TASKLET].ev # "deliver", Inv'
  PROVE  AloneInv'
<1>1. /\ TypeInv /\ TypeInv' /\ CallInv /\ OpenInv /\ TaskletInv
      /\ LockInv /\ StateInv /\ ReadInv /\ FrameInv /\ EnInv
      /\ DoneInv /\ QuietInv /\ BufInv /\ OnInv
  BY DEF Inv, AloneInv
<1> DEFINE e == ctx[TASKLET].ev
           d == ctx[TASKLET].chan
<1>2. /\ ctx[TASKLET] \in Ctx /\ d \in Chans /\ e \in Events
      /\ ctx[TASKLET].step = "store" /\ en \subseteq Chans
  <2>1. ctx[TASKLET].step = "store"
    BY DEF Store
  <2>2. ctx[TASKLET] \in Ctx /\ d \in Chans
    BY EventOf, Numbers
  <2>3. e \in Events
    BY <2>2 DEF Ctx
  <2> QED  BY <1>1, <2>1, <2>2, <2>3 DEF TypeInv
<1>3. PICK c \in Chans : /\ ctx[c].step = "read" /\ ctx[c].chan = d /\ ctx[c].ev = e
  BY <1>1, <1>2 DEF FrameInv
<1>4. /\ \A x \in Chans : x # c =>
           ctx[x].step = "none" /\ pc[x] \in {"idle", "lock", "alloc", "dead"}
      /\ pc[c] = "event" /\ c \in Actors /\ c # TASKLET /\ TASKLET \in Actors
      /\ \A a \in Actors : a = TASKLET \/ a \in Chans
      /\ \A x \in Chans : \A f \in pending[x] : Raised(c, f, x)
      /\ \A x \in Chans : curr_state[x] # "TRANSFERING"
      /\ \A x \in en : curr_state[x] \in Off =>
           \/ Switches(TASKLET, "suspend", x) \/ Switches(TASKLET, "close", x)
           \/ Closes(TASKLET, x) \/ Closes(c, x)
      /\ \A x \in Chans \ en : curr_state[x] \in Running => Switches(TASKLET, "resume", x)
      /\ Switches(TASKLET, "suspend", d) => curr_state[d] = "SUSPEND"
      /\ Switches(TASKLET, "resume", d) => curr_state[d] \in Running
      /\ Switches(TASKLET, "close", d) => curr_state[d] = "UNREGISTER"
      /\ \A x \in Chans : opened_flag[x] = 0 =>
           "close" \in done[x] \/ Switches(TASKLET, "close", x)
  <2>1. c \in Actors /\ c # TASKLET /\ TASKLET \in Actors
    BY Numbers
  <2>2. pc[c] = "event"
    BY <1>3, <2>1, EventOf
  <2>3. \A x \in Chans : x # c =>
           ctx[x].step = "none" /\ pc[x] \in {"idle", "lock", "alloc", "dead"}
    BY <2>2, OneCall DEF Held
  <2>4. \A a \in Actors : a = TASKLET \/ a \in Chans
    BY DEF Actors
  <2>5. /\ \A x \in Chans : \A f \in pending[x] : Raised(c, f, x)
        /\ \A x \in Chans : curr_state[x] # "TRANSFERING"
    BY <1>1, <1>2, <2>3 DEF FrameInv, Raised
  <2>6. /\ \A x \in en : curr_state[x] \in Off =>
             \/ Switches(TASKLET, "suspend", x) \/ Switches(TASKLET, "close", x)
             \/ Closes(TASKLET, x) \/ Closes(c, x)
        /\ \A x \in Chans \ en : curr_state[x] \in Running => Switches(TASKLET, "resume", x)
    BY <1>1, <1>3, <2>3, <2>4 DEF EnInv, Switches, Closes
  <2>7. /\ Switches(TASKLET, "suspend", d) => curr_state[d] = "SUSPEND"
        /\ Switches(TASKLET, "resume", d) => curr_state[d] \in Running
        /\ Switches(TASKLET, "close", d) => curr_state[d] = "UNREGISTER"
    BY <1>1, <2>1 DEF EnInv, Switches
  <2>8. \A x \in Chans : opened_flag[x] = 0 =>
           "close" \in done[x] \/ Switches(TASKLET, "close", x)
    BY <1>1, <1>3, <2>3, <2>4 DEF DoneInv, Switches
  <2> QED  BY <2>1, <2>2, <2>3, <2>4, <2>5, <2>6, <2>7, <2>8
<1>5. /\ UNCHANGED <<curr_state, chanVars, hwVars, callVars, todo>>
      /\ e \in {"suspend", "resume", "close"}
      /\ e = "resume" => \A x \in Chans : pc[x] = "alloc" => call[x] # "s_fmt"
      /\ en' = IF e = "resume" THEN en \cup {d} ELSE en \ {d}
      /\ \A x \in Chans : pending'[x] \subseteq pending[x]
      /\ \A x \in Chans : done[x] \subseteq done'[x]
      /\ e \in done'[d]
  <2>1. e \in {"suspend", "resume", "close"}
    BY <1>1, <1>2, Numbers DEF TaskletInv, Events
  <2>2. pending' = pending \/ pending' = [pending EXCEPT ![d] = {}]
    BY DEF Store
  <2>3. /\ UNCHANGED <<curr_state, chanVars, hwVars, callVars, todo>>
        /\ done' = [done EXCEPT ![d] = @ \cup IF e = "close" THEN Waited ELSE {e}]
    BY DEF Store, Complete, FsmUnchanged, chanVars
  <2>4. ctx[TASKLET].reg = en
    BY <1>1, <1>2, Numbers DEF EnInv
  <2>5. en' = IF e = "resume" THEN en \cup {d} ELSE en \ {d}
    BY <2>4 DEF Store, Writes
  <2>6. (\A x \in Chans : done[x] \subseteq done'[x]) /\ e \in done'[d]
    BY <1>1, <1>2, <2>1, <2>3 DEF TypeInv, Waited
  <2>7. e = "resume" => \A x \in Chans : pc[x] = "alloc" => call[x] # "s_fmt"
    <3> SUFFICES ASSUME e = "resume"
                 PROVE  \A x \in Chans : pc[x] = "alloc" => call[x] # "s_fmt"
      OBVIOUS
    <3>1. "resume" \in Drive(call[c]) /\ call[c] \in Calls
      BY <1>1, <1>2, <1>3, <1>4, EventOf DEF TypeInv
    <3>2. call[c] \in {"streamon", "s_fmt"}
      BY <3>1 DEF Drive, Calls
    <3>3. c \in vp_mutex
      BY <1>1, <1>4, <3>2 DEF LockInv, Held
    <3> QED  BY <1>1, <1>4, <3>3 DEF LockInv, Held
  <2> QED  BY <1>1, <2>1, <2>2, <2>3, <2>5, <2>6, <2>7 DEF TypeInv
<1>6. /\ \A b \in Chans : ctx'[b] = ctx[b]
      /\ \/ /\ ctx'[TASKLET].step = "trigger" /\ ctx'[TASKLET].chan = d
            /\ ctx'[TASKLET].ev \in {"suspend", "resume", "close"}
         \/ ctx'[TASKLET] = NoEvent
  <2>1. EventThrough(TASKLET)
    BY DEF Store
  <2> QED  BY <1>1, <1>2, <1>5, <2>1, Numbers, ThroughIs
<1> HIDE DEF e, d
<1>7. LockInv'
  BY <1>1, <1>5 DEF LockInv, callVars
<1>8. StateInv'
  BY <1>1, <1>2, <1>3, <1>4, <1>5, <1>6
     DEF StateInv, Opening, Running, Off, chanVars, fsmVars, e, d
<1>9. ReadInv'
  BY <1>1, <1>3, <1>4, <1>6 DEF ReadInv
<1>10. FrameInv'
  BY <1>1, <1>2, <1>3, <1>4, <1>5, <1>6, NoEventIs
     DEF FrameInv, Raised, chanVars, fsmVars, e, d
<1>11. EnInv'
  <2>1. \A a \in Actors : ctx'[a].step = "store" => ctx'[a].reg = en'
    BY <1>2, <1>3, <1>4, <1>5, <1>6, NoEventIs
  <2>2. ctx'[TASKLET].step \in {"load", "store"} =>
          /\ ctx'[TASKLET].chan = d
          /\ ctx'[TASKLET].ev = "suspend" => curr_state'[d] = "SUSPEND"
          /\ ctx'[TASKLET].ev = "resume" => curr_state'[d] \in Running
          /\ ctx'[TASKLET].ev = "close" => curr_state'[d] = "UNREGISTER"
    BY <1>2, <1>3, <1>4, <1>5, <1>6, NoEventIs DEF Switches, fsmVars, Running, e, d
  <2>3. \A x \in en' : curr_state'[x] \in Off =>
          \/ (Switches(TASKLET, "suspend", x) \/ Switches(TASKLET, "close", x))'
          \/ (Closes(TASKLET, x) \/ Closes(c, x))'
    BY <1>1, <1>2, <1>3, <1>4, <1>5, <1>6, NoEventIs
       DEF Switches, Closes, chanVars, fsmVars, Running, Off, e, d
  <2>4. \A x \in Chans \ en' : curr_state'[x] \in Running => Switches(TASKLET, "resume", x)'
    BY <1>1, <1>2, <1>3, <1>4, <1>5, <1>6, NoEventIs
       DEF Switches, chanVars, fsmVars, Running, Off, e, d
  <2> QED  BY <1>3, <1>4, <1>6, <2>1, <2>2, <2>3, <2>4 DEF EnInv
<1>12. DoneInv'
  <2>1. \A x \in Chans : opened_flag'[x] = 0 =>
           "close" \in done'[x] \/ Switches(TASKLET, "close", x)'
    BY <1>1, <1>2, <1>3, <1>4, <1>5, <1>6, NoEventIs
       DEF Switches, chanVars, fsmVars, e, d
  <2> QED  BY <1>3, <1>4, <1>6, <2>1 DEF DoneInv
<1>13. QuietInv'
  BY <1>1, <1>2, <1>3, <1>4, <1>5, <1>6
     DEF QuietInv, Quiet, Switches, Closes, chanVars, callVars, fsmVars, Running, Off, e, d
<1>14. BufInv'
  BY <1>1, <1>2, <1>3, <1>4, <1>5, <1>6
     DEF BufInv, Switches, chanVars, callVars, hwVars, fsmVars, Running, e, d
<1>15. OnInv'
  BY <1>1, <1>2, <1>3, <1>4, <1>5, <1>6
     DEF OnInv, chanVars, callVars, fsmVars, Running, Off, e, d
<1> QED
  BY <1>7, <1>8, <1>9, <1>10, <1>11, <1>12, <1>13, <1>14, <1>15 DEF AloneInv

-----------------------------------------------------------------------------
(* One processor: frames *)

LEMMA Delivers ==
  ASSUME Inv, AloneInv, Inv', FrameInv',
         UNCHANGED <<chanVars, done, en, pci_push, callVars>>,
         \A x \in Chans : ctx'[x] = ctx[x],
         ctx[TASKLET].step = "none" \/ ctx[TASKLET].ev = "deliver",
         ctx'[TASKLET].step \notin {"load", "store"},
         \A x \in Chans : \/ curr_state'[x] = curr_state[x]
                          \/ curr_state[x] \in Running /\ curr_state'[x] \in Running
  PROVE  AloneInv'
<1>1. /\ TypeInv /\ TaskletInv /\ LockInv /\ StateInv /\ ReadInv /\ EnInv
      /\ DoneInv /\ QuietInv /\ BufInv /\ OnInv
  BY DEF Inv, AloneInv
<1>2. \A x \in Chans :
        /\ curr_state'[x] \in Running <=> curr_state[x] \in Running
        /\ curr_state'[x] \in Off <=> curr_state[x] \in Off
        /\ curr_state[x] \in Off => curr_state'[x] = curr_state[x]
  BY DEF Running, Off
<1>3. /\ \A a \in Actors : a = TASKLET \/ a \in Chans
      /\ en \subseteq Chans /\ TASKLET \in Actors /\ TASKLET \notin Chans
      /\ \A x \in Chans : x \in Actors /\ ctx[x].chan \in Chans
  BY <1>1, Numbers, EventOf DEF Actors, TypeInv
<1>4. /\ UNCHANGED <<opened_flag, stream_on, nbuffers, done, en, pci_push>>
      /\ UNCHANGED <<vp_mutex, cpu, call, pc, want>>
  BY DEF chanVars, callVars
<1>5. ctx[TASKLET].step \notin {"load", "store"}
  BY <1>1 DEF TaskletInv
<1>6. LockInv'
  BY <1>1, <1>4 DEF LockInv
<1>7. StateInv'
  BY <1>1, <1>2, <1>4 DEF StateInv, Opening, Off, Running
<1>8. ReadInv'
  BY <1>1, <1>2, <1>3 DEF ReadInv, Off, Running
<1>9. EnInv'
  <2>1. ASSUME NEW a \in Actors, ctx'[a].step \in {"load", "store"}
        PROVE  /\ ctx'[a].step = "store" => ctx'[a].reg = en'
               /\ ctx'[a].ev = "suspend" => curr_state'[ctx'[a].chan] = "SUSPEND"
               /\ ctx'[a].ev = "resume" => curr_state'[ctx'[a].chan] \in Running
               /\ ctx'[a].ev = "close" => curr_state'[ctx'[a].chan] = "UNREGISTER"
    BY <1>1, <1>2, <1>3, <1>4, <2>1 DEF EnInv, Off, Running
  <2>2. ASSUME NEW x \in en', curr_state'[x] \in Off
        PROVE  \E a \in Actors :
                 (Switches(a, "suspend", x) \/ Switches(a, "close", x) \/ Closes(a, x))'
    <3>1. PICK a \in Actors :
            Switches(a, "suspend", x) \/ Switches(a, "close", x) \/ Closes(a, x)
      BY <1>1, <1>2, <1>3, <1>4, <2>2 DEF EnInv
    <3>2. a # TASKLET
      BY <1>5, <3>1 DEF Switches, Closes
    <3> QED  BY <1>3, <1>4, <3>1, <3>2 DEF Switches, Closes
  <2>3. ASSUME NEW x \in Chans \ en', curr_state'[x] \in Running
        PROVE  \E a \in Actors : Switches(a, "resume", x)'
    <3>1. PICK a \in Actors : Switches(a, "resume", x)
      BY <1>1, <1>2, <1>4, <2>3 DEF EnInv
    <3> QED  BY <1>3, <1>5, <3>1 DEF Switches
  <2> QED  BY <2>1, <2>2, <2>3 DEF EnInv
<1>10. DoneInv'
  <2>1. ASSUME NEW x \in Chans, opened_flag'[x] = 0, "close" \notin done'[x]
        PROVE  \E a \in Actors : Switches(a, "close", x)'
    <3>1. PICK a \in Actors : Switches(a, "close", x)
      BY <1>1, <1>4, <2>1 DEF DoneInv
    <3> QED  BY <1>3, <1>5, <3>1 DEF Switches
  <2>2. \A x \in Chans : ctx'[x].step = "wait" =>
          ctx'[x].ev = "open" \/ ctx'[x].ev \in done'[ctx'[x].chan]
    BY <1>1, <1>4 DEF DoneInv
  <2> QED  BY <2>1, <2>2 DEF DoneInv
<1>11. QuietInv'
  BY <1>1, <1>2, <1>3, <1>4 DEF QuietInv, Quiet
<1>12. BufInv'
  BY <1>1, <1>2, <1>3, <1>4 DEF BufInv
<1>13. OnInv'
  BY <1>1, <1>2, <1>4 DEF OnInv
<1> QED
  BY <1>6, <1>7, <1>8, <1>9, <1>10, <1>11, <1>12, <1>13 DEF AloneInv

LEMMA StandStill ==
  ASSUME AloneInv, UNCHANGED <<chanVars, fsmVars, en, pci_push, callVars, ctx>>
  PROVE  AloneInv'
<1>1. /\ UNCHANGED <<opened_flag, stream_on, nbuffers, curr_state, pending, done, en, pci_push>>
      /\ UNCHANGED <<vp_mutex, cpu, call, pc, want, ctx>>
  BY DEF chanVars, fsmVars, callVars
<1>2. LockInv' /\ StateInv' /\ ReadInv' /\ OnInv'
  BY <1>1 DEF AloneInv, LockInv, StateInv, Opening, ReadInv, OnInv
<1>3. FrameInv'
  BY <1>1 DEF AloneInv, FrameInv, Raised
<1>4. EnInv' /\ DoneInv'
  BY <1>1 DEF AloneInv, EnInv, DoneInv, Switches, Closes
<1>5. QuietInv' /\ BufInv'
  BY <1>1 DEF AloneInv, QuietInv, Quiet, BufInv
<1> QED  BY <1>2, <1>3, <1>4, <1>5 DEF AloneInv

LEMMA TaskFrame ==
  ASSUME Inv, AloneInv, Inv', NEW c \in Chans, TaskletFrame(c)
  PROVE  AloneInv'
<1>1. FrameInv
  BY DEF AloneInv
<1> DEFINE g == [Event("deliver", c) EXCEPT !.step = "read"]
<1>2. g.step = "read" /\ g.ev = "deliver"
  BY EventIs DEF Ctx
<1>3. /\ UNCHANGED <<chanVars, fsmVars, en, hwVars, callVars>>
      /\ ctx[TASKLET] = NoEvent /\ ctx' = [ctx EXCEPT ![TASKLET] = g]
      /\ ctx \in [Actors -> Ctx]
  BY DEF TaskletFrame, Inv, TypeInv
<1> HIDE DEF g
<1>4. /\ \A x \in Chans : ctx'[x] = ctx[x]
      /\ ctx'[TASKLET].step = "read" /\ ctx'[TASKLET].ev = "deliver"
  BY <1>2, <1>3, Numbers
<1>5. curr_state' = curr_state /\ pending' = pending /\ done' = done /\ pci_push' = pci_push
  BY <1>3 DEF fsmVars, hwVars
<1>6. FrameInv'
  BY <1>1, <1>3, <1>4, <1>5, NoEventIs DEF FrameInv, Raised
<1>7. ctx[TASKLET].step = "none" /\ ctx'[TASKLET].step \notin {"load", "store"}
  BY <1>3, <1>4, NoEventIs
<1> QED  BY <1>3, <1>4, <1>5, <1>6, <1>7, Delivers

LEMMA TaskDeliver ==
  ASSUME Inv, AloneInv, Inv', ctx[TASKLET].ev = "deliver",
         Read(TASKLET) \/ ActDeliver(TASKLET) \/ Check(TASKLET)
  PROVE  AloneInv'
<1>1. TypeInv /\ FrameInv
  BY DEF Inv, AloneInv
<1> DEFINE d == ctx[TASKLET].chan
<1>2. ctx[TASKLET] \in Ctx /\ d \in Chans /\ TASKLET \in Actors /\ TASKLET \notin Chans
  BY EventOf, Numbers
<1>3. CASE Read(TASKLET)
  <2>1. UNCHANGED <<chanVars, curr_state, done, en, hwVars, callVars, todo>>
    BY <1>3 DEF Read
  <2>2. pending' = pending
    <3>1. "deliver" \notin pending[d] /\ pending \in [Chans -> SUBSET Events]
      BY <1>1, <1>2 DEF TypeInv, Events
    <3>2. pending' = [pending EXCEPT ![d] = @ \ {"deliver"}]
      BY <1>3 DEF Read
    <3> QED  BY <1>2, <3>1, <3>2
  <2>3. /\ \A x \in Chans : ctx'[x] = ctx[x]
        /\ ctx'[TASKLET].step = "act" /\ ctx'[TASKLET].ev = "deliver"
        /\ ctx'[TASKLET].chan = d /\ ctx'[TASKLET].st = curr_state[d]
    <3> DEFINE g == [ctx[TASKLET] EXCEPT !.step = "act", !.st = curr_state[d]]
    <3>1. g.step = "act" /\ g.ev = "deliver" /\ g.chan = d /\ g.st = curr_state[d]
      BY <1>2 DEF Ctx
    <3>2. ctx \in [Actors -> Ctx] /\ ctx' = [ctx EXCEPT ![TASKLET] = g]
      BY <1>1, <1>3 DEF Read, TypeInv
    <3> HIDE DEF g
    <3> QED  BY <1>2, <3>1, <3>2
  <2>4. FrameInv'
    BY <1>1, <1>2, <2>1, <2>2, <2>3 DEF FrameInv, Raised
  <2>5. pci_push' = pci_push /\ ctx'[TASKLET].step \notin {"load", "store"}
    BY <2>1, <2>3 DEF hwVars
  <2> QED  BY <2>1, <2>3, <2>4, <2>5, Delivers
<1>4. CASE ActDeliver(TASKLET)
  <2>1. /\ UNCHANGED <<opened_flag, stream_on, pending, done, en, nbuffers, hwVars, callVars, todo>>
        /\ ctx[TASKLET].st = curr_state[d] /\ ctx[TASKLET].step = "act"
    BY <1>1, <1>4 DEF ActDeliver, FsmUnchanged, FrameInv
  <2>2. /\ \A x \in Chans : ctx'[x] = ctx[x]
        /\ \A x \in Chans : x # d => curr_state'[x] = curr_state[x]
        /\ \/ /\ curr_state[d] = "STANDBY" /\ curr_state'[d] = "TRANSFERING"
              /\ ctx'[TASKLET].step = "read" /\ ctx'[TASKLET].ev = "deliver"
              /\ ctx'[TASKLET].chan = d
           \/ /\ curr_state[d] = "TRANSFERING" /\ curr_state'[d] = "DONE"
              /\ ctx'[TASKLET].step = "check" /\ ctx'[TASKLET].ev = "deliver"
              /\ ctx'[TASKLET].chan = d
           \/ /\ curr_state[d] = "DONE" /\ curr_state'[d] = "STANDBY"
              /\ ctx'[TASKLET] = NoEvent
           \/ /\ curr_state[d] \in Off /\ curr_state' = curr_state
              /\ ctx'[TASKLET] = NoEvent
    <3>1. \/ curr_state[d] = "STANDBY" /\ Becomes(d, "TRANSFERING") /\ Goes(TASKLET, "read")
          \/ curr_state[d] = "TRANSFERING" /\ Becomes(d, "DONE") /\ Goes(TASKLET, "check")
          \/ curr_state[d] = "DONE" /\ Becomes(d, "STANDBY") /\ EventThrough(TASKLET)
          \/ curr_state[d] \in Off /\ EventThrough(TASKLET) /\ curr_state' = curr_state
      BY <1>4, <2>1 DEF ActDeliver, Off
    <3>2. curr_state \in [Chans -> States] /\ \A x \in Chans : x \in Actors /\ x # TASKLET
      BY <1>1, Numbers DEF TypeInv
    <3>3. CASE curr_state[d] = "STANDBY" /\ Becomes(d, "TRANSFERING") /\ Goes(TASKLET, "read")
      <4>1. /\ \A x \in Chans : ctx'[x] = ctx[x]
            /\ ctx'[TASKLET].step = "read" /\ ctx'[TASKLET].ev = "deliver"
            /\ ctx'[TASKLET].chan = d
        BY <1>1, <1>2, <3>2, <3>3, GoesIs DEF Steps
      <4> QED  BY <1>2, <3>2, <3>3, <4>1 DEF Becomes
    <3>4. CASE curr_state[d] = "TRANSFERING" /\ Becomes(d, "DONE") /\ Goes(TASKLET, "check")
      <4>1. /\ \A x \in Chans : ctx'[x] = ctx[x]
            /\ ctx'[TASKLET].step = "check" /\ ctx'[TASKLET].ev = "deliver"
            /\ ctx'[TASKLET].chan = d
        BY <1>1, <1>2, <3>2, <3>4, GoesIs DEF Steps
      <4> QED  BY <1>2, <3>2, <3>4, <4>1 DEF Becomes
    <3>5. CASE EventThrough(TASKLET)
      <4>1. ctx'[TASKLET] = NoEvent /\ \A x \in Chans : ctx'[x] = ctx[x]
        BY <1>1, <1>2, <3>2, <3>5, ThroughIs
      <4>2. \A x \in Chans : x # d => curr_state'[x] = curr_state[x]
        BY <1>2, <3>1, <3>2 DEF Becomes
      <4>3. \/ curr_state[d] = "STANDBY" /\ curr_state'[d] = "TRANSFERING" /\ Goes(TASKLET, "read")
            \/ curr_state[d] = "TRANSFERING" /\ curr_state'[d] = "DONE" /\ Goes(TASKLET, "check")
            \/ curr_state[d] = "DONE" /\ curr_state'[d] = "STANDBY"
            \/ curr_state[d] \in Off /\ curr_state' = curr_state
        BY <1>2, <3>1, <3>2 DEF Becomes
      <4>4. Goes(TASKLET, "read") \/ Goes(TASKLET, "check") => ctx'[TASKLET].step # "none"
        BY <1>1, <1>2, GoesIs DEF Steps
      <4> QED  BY <4>1, <4>2, <4>3, <4>4, NoEventIs
    <3> QED  BY <3>1, <3>3, <3>4, <3>5
  <2>3. FrameInv'
    BY <1>1, <1>2, <2>1, <2>2, NoEventIs DEF FrameInv, Raised, Off
  <2>4. /\ UNCHANGED <<chanVars, done, en, pci_push, callVars>>
        /\ ctx'[TASKLET].step \notin {"load", "store"}
    BY <2>1, <2>2, NoEventIs DEF hwVars, chanVars
  <2>5. \A x \in Chans : \/ curr_state'[x] = curr_state[x]
                         \/ curr_state[x] \in Running /\ curr_state'[x] \in Running
    BY <2>2 DEF Running
  <2> QED  BY <2>2, <2>3, <2>4, <2>5, Delivers
<1>5. CASE Check(TASKLET)
  <2>1. /\ UNCHANGED <<chanVars, fsmVars, en, hwVars, callVars, todo>>
        /\ ctx[TASKLET].step = "check" /\ curr_state[d] = "DONE"
    BY <1>1, <1>5 DEF Check, FsmUnchanged, chanVars, FrameInv
  <2>2. /\ \A x \in Chans : ctx'[x] = ctx[x]
        /\ ctx'[TASKLET].chan = d
        /\ \/ /\ ctx'[TASKLET].step = "trigger" /\ ctx'[TASKLET].ev = "open"
              /\ pending[d] # {}
           \/ ctx'[TASKLET].step = "read" /\ ctx'[TASKLET].ev = "deliver"
    <3> DEFINE g == IF pending[d] # {}
                    THEN [ctx[TASKLET] EXCEPT !.step = "trigger", !.ev = "open"]
                    ELSE [ctx[TASKLET] EXCEPT !.step = "read"]
    <3>1. /\ g.chan = d
          /\ \/ g.step = "trigger" /\ g.ev = "open" /\ pending[d] # {}
             \/ g.step = "read" /\ g.ev = "deliver"
      BY <1>2 DEF Ctx
    <3>2. ctx \in [Actors -> Ctx] /\ ctx' = [ctx EXCEPT ![TASKLET] = g]
      BY <1>1, <1>5 DEF Check, have_any_pending_event, TypeInv
    <3> HIDE DEF g
    <3> QED  BY <1>2, <3>1, <3>2
  <2>3. curr_state' = curr_state /\ pending' = pending /\ done' = done /\ pci_push' = pci_push
    BY <2>1 DEF fsmVars, hwVars
  <2>4. pending[d] # {} => \E c \in Chans : ctx[c].step = "read" /\ ctx[c].chan = d
    BY <1>1, <1>2 DEF FrameInv, Raised
  <2>5. FrameInv'
    BY <1>1, <1>2, <2>1, <2>2, <2>3, <2>4 DEF FrameInv, Raised
  <2>6. ctx'[TASKLET].step \notin {"load", "store"}
    BY <2>2
  <2> QED  BY <2>1, <2>2, <2>3, <2>5, <2>6, Delivers
<1> QED  BY <1>3, <1>4, <1>5

-----------------------------------------------------------------------------
(* One processor: a call begins, goes on and ends *)

LEMMA Nobody ==
  ASSUME Inv, AloneInv, ~SMP, MayRun, cpu = {}
  PROVE  /\ \A a \in Actors : ctx[a].step = "none"
         /\ \A d \in Chans : pc[d] \in {"idle", "lock", "alloc", "dead"}
<1>1. ctx[TASKLET] = NoEvent
  BY DEF MayRun, TaskletIdle
<1>2. ASSUME NEW d \in Chans
      PROVE  pc[d] \in {"idle", "lock", "alloc", "dead"} /\ ctx[d].step = "none"
  <2>1. pc[d] \in Pcs /\ pc[d] \notin Held \ {"alloc"}
    BY DEF Inv, TypeInv, AloneInv, LockInv
  <2>2. pc[d] \in {"idle", "lock", "alloc", "dead"}
    BY <2>1 DEF Pcs, Held
  <2> QED  BY <2>2 DEF Inv, CallInv
<1> QED  BY <1>1, <1>2, NoEventIs DEF Actors

\* What such a step keeps whatever it does, and what it finds.
LEMMA CallMoves ==
  ASSUME Inv, AloneInv, ~SMP, MayRun, NEW c \in Chans,
         \A a \in Actors : a # c => ctx[a].step = "none" /\ ctx'[a] = ctx[a],
         ctx[c].step \in {"none", "wait"}, ctx'[c].step \in {"none", "raise"},
         UNCHANGED <<opened_flag, curr_state, pending, done, en>>,
         Opening(c)' => opened_flag[c] = 0
  PROVE  /\ StateInv' /\ ReadInv' /\ FrameInv' /\ EnInv' /\ DoneInv'
         /\ \A d \in Chans : d \in en <=> curr_state[d] \in Running
<1>1. /\ TypeInv /\ StateInv /\ ReadInv /\ FrameInv /\ EnInv /\ DoneInv
      /\ c \in Actors /\ c # TASKLET /\ TASKLET \in Actors /\ Chans \subseteq Actors
      /\ ctx[TASKLET] = NoEvent
  BY Numbers DEF Inv, AloneInv, MayRun, TaskletIdle
<1>2. ctx'[TASKLET] = NoEvent /\ \A d \in Chans : curr_state[d] # "TRANSFERING"
  BY <1>1, NoEventIs DEF FrameInv
<1>3. \A d \in Chans : pending[d] = {}
  <2> SUFFICES ASSUME NEW d \in Chans, NEW e \in pending[d]
               PROVE  FALSE
    OBVIOUS
  <2>1. PICK b \in Chans : Raised(b, e, d)
    BY <1>1 DEF FrameInv
  <2> QED  BY <1>1, <2>1 DEF Raised
<1>4. \A a \in Actors : /\ ctx[a].step \in {"none", "wait"}
                        /\ ctx'[a].step \in {"none", "raise"}
  BY <1>1
<1>5. \A d \in Chans : d \in en <=> curr_state[d] \in Running
  <2>1. \A d \in Chans : curr_state[d] \in Running \/ curr_state[d] \in Off
    BY <1>1 DEF TypeInv, States, Running, Off
  <2>2. \A a \in Actors, d \in Chans, e \in Events : ~Switches(a, e, d) /\ ~Closes(a, d)
    BY <1>4 DEF Switches, Closes
  <2>3. \A d \in en : curr_state[d] \notin Off
    BY <1>1, <2>2 DEF EnInv, TypeInv, Events
  <2>4. \A d \in Chans \ en : curr_state[d] \notin Running
    BY <1>1, <2>2 DEF EnInv, Events
  <2> QED  BY <2>1, <2>3, <2>4 DEF Running, Off
<1>6. StateInv'
  BY <1>1 DEF StateInv, Opening
<1>7. ReadInv'
  BY <1>1, <1>4 DEF ReadInv
<1>8. FrameInv'
  BY <1>2, <1>3, NoEventIs DEF FrameInv
<1>9. EnInv'
  BY <1>1, <1>4, <1>5 DEF EnInv, Running, Off, TypeInv
<1>10. DoneInv'
  <2>1. \A d \in Chans : opened_flag[d] = 0 => "close" \in done[d]
    BY <1>1, <1>4 DEF DoneInv, Switches
  <2> QED  BY <1>1, <1>4, <2>1 DEF DoneInv
<1> QED  BY <1>5, <1>6, <1>7, <1>8, <1>9, <1>10

\* A call that takes the processor to drive an event.
LEMMA CallBegins ==
  ASSUME Inv, AloneInv, ~SMP, MayRun, NEW c \in Chans, Inv',
         UNCHANGED <<opened_flag, stream_on, nbuffers, fsmVars, en, hwVars, vp_mutex>>,
         pc[c] = "idle", pc' = [pc EXCEPT ![c] = "event"],
         NEW k \in {"open", "reqbufs", "close"}, call' = [call EXCEPT ![c] = k],
         TakeCpu(c, k), NEW e \in Events, Drives(c, e, c),
         e = "open" => opened_flag[c] = 0
  PROVE  AloneInv'
<1>1. /\ TypeInv /\ CallInv /\ LockInv /\ StateInv /\ QuietInv /\ BufInv /\ OnInv
      /\ c \in Actors
  BY Numbers DEF Inv, AloneInv
<1>2. cpu = {} /\ cpu' = {c}
  BY DEF TakeCpu
<1>3. /\ \A a \in Actors : ctx[a].step = "none"
      /\ \A d \in Chans : pc[d] \in {"idle", "lock", "alloc", "dead"}
  BY <1>2, Nobody
<1>4. /\ \A b \in Actors : b # c => ctx'[b] = ctx[b]
      /\ ctx'[c].step = "raise" /\ ctx'[c].ev = e /\ ctx'[c].chan = c
  BY <1>1, DrivesIs
<1>5. /\ pc'[c] = "event" /\ call'[c] = k
      /\ \A d \in Chans : d # c => pc'[d] = pc[d] /\ call'[d] = call[d]
      /\ curr_state' = curr_state /\ pending' = pending /\ done' = done
      /\ pci_push' = pci_push
  BY <1>1 DEF TypeInv, fsmVars, hwVars
<1>6. /\ StateInv' /\ ReadInv' /\ FrameInv' /\ EnInv' /\ DoneInv'
      /\ \A d \in Chans : d \in en <=> curr_state[d] \in Running
  <2>1. Opening(c)' => opened_flag[c] = 0
    BY <1>4 DEF Opening
  <2>2. UNCHANGED <<opened_flag, curr_state, pending, done, en>>
    BY <1>5
  <2> QED  BY <1>1, <1>3, <1>4, <2>1, <2>2, CallMoves
<1>7. LockInv'
  BY <1>1, <1>2, <1>3, <1>5 DEF LockInv, Held
<1>8. QuietInv'
  BY <1>1, <1>3, <1>4, <1>5, Numbers DEF QuietInv, Quiet
<1>9. BufInv'
  BY <1>1, <1>3, <1>5 DEF BufInv
<1>10. OnInv'
  BY <1>1, <1>3, <1>5 DEF OnInv
<1> QED  BY <1>6, <1>7, <1>8, <1>9, <1>10 DEF AloneInv

LEMMA BeginsAlone ==
  ASSUME Inv, AloneInv, ~SMP, NEW c \in Chans, Inv',
         Open(c) \/ Close(c) \/ \E n \in {0, 1} : ReqBufs(c, n)
  PROVE  AloneInv'
<1>1. \E k \in {"open", "reqbufs", "close"}, e \in Events :
        /\ Begins(c, k, "event") /\ TakeCpu(c, k) /\ Drives(c, e, c)
        /\ e = "open" => opened_flag[c] = 0
  <2>1. CASE Open(c)
    BY <2>1 DEF Open, Events
  <2>2. CASE Close(c)
    BY <2>2 DEF Close, Events
  <2>3. CASE \E n \in {0, 1} : ReqBufs(c, n)
    BY <2>3 DEF ReqBufs, Events
  <2> QED  BY <2>1, <2>2, <2>3
<1>2. PICK k \in {"open", "reqbufs", "close"}, e \in Events :
        /\ Begins(c, k, "event") /\ TakeCpu(c, k) /\ Drives(c, e, c)
        /\ e = "open" => opened_flag[c] = 0
  BY <1>1
<1>3. /\ MayRun /\ pc[c] = "idle"
      /\ pc' = [pc EXCEPT ![c] = "event"] /\ call' = [call EXCEPT ![c] = k]
      /\ UNCHANGED <<chanVars, fsmVars, en, hwVars, todo, vp_mutex>>
  BY <1>2 DEF Begins, Goto
<1> QED  BY <1>2, <1>3, CallBegins DEF chanVars

\* A call that only waits for vp_mutex, or for ever.
LEMMA QueuesAlone ==
  ASSUME Inv, AloneInv, ~SMP, NEW c \in Chans, Inv',
         OpenBusy(c) \/ \E k \in {"streamon", "streamoff", "s_fmt"} : Ioctl(c, k)
  PROVE  AloneInv'
<1>1. /\ TypeInv /\ CallInv /\ LockInv /\ StateInv /\ ReadInv /\ FrameInv /\ EnInv
      /\ DoneInv /\ QuietInv /\ BufInv /\ OnInv
  BY DEF Inv, AloneInv
<1>2. PICK k \in Calls, l \in {"lock", "dead"} : Begins(c, k, l) /\ UNCHANGED <<want, cpu, ctx>>
  BY DEF OpenBusy, Ioctl, Calls
<1>3. /\ pc[c] = "idle" /\ pc'[c] = l
      /\ \A d \in Chans : d # c => pc'[d] = pc[d] /\ call'[d] = call[d]
      /\ UNCHANGED <<opened_flag, stream_on, nbuffers, curr_state, pending, done>>
      /\ UNCHANGED <<en, pci_push, vp_mutex, cpu, ctx>>
  BY <1>1, <1>2 DEF Begins, Goto, TypeInv, chanVars, fsmVars, hwVars
<1>4. LockInv'
  BY <1>1, <1>3 DEF LockInv, Held
<1>5. StateInv' /\ ReadInv' /\ FrameInv'
  BY <1>1, <1>3 DEF StateInv, Opening, ReadInv, FrameInv, Raised
<1>6. EnInv' /\ DoneInv'
  BY <1>1, <1>3 DEF EnInv, DoneInv, Switches, Closes
<1>7. QuietInv'
  BY <1>1, <1>3 DEF QuietInv, Quiet
<1>8. BufInv'
  BY <1>1, <1>3 DEF BufInv
<1>9. OnInv'
  BY <1>1, <1>3 DEF OnInv
<1> QED  BY <1>4, <1>5, <1>6, <1>7, <1>8, <1>9 DEF AloneInv

LEMMA LockAlone ==
  ASSUME Inv, AloneInv, ~SMP, NEW c \in Chans, Inv', Lock(c)
  PROVE  AloneInv'
<1>1. /\ TypeInv /\ CallInv /\ LockInv /\ StateInv /\ QuietInv /\ BufInv /\ OnInv
      /\ c \in Actors /\ MayRun /\ pc[c] = "lock"
  BY Numbers DEF Inv, AloneInv, Lock
<1>2. cpu = {} /\ cpu' = {c} /\ vp_mutex = {} /\ vp_mutex' = {c}
  BY DEF Lock, TakeCpu
<1>3. /\ \A a \in Actors : ctx[a].step = "none"
      /\ \A d \in Chans : pc[d] \in {"idle", "lock", "alloc", "dead"}
  BY <1>1, <1>2, Nobody
<1>4. /\ pc'[c] = "event" /\ \A d \in Chans : d # c => pc'[d] = pc[d]
      /\ UNCHANGED <<opened_flag, nbuffers, curr_state, pending, done, en, pci_push, call>>
      /\ stream_on' = StreamFlag(c)
  BY <1>1 DEF Lock, Goto, TypeInv, fsmVars, hwVars
<1>5. /\ \A b \in Actors : b # c => ctx'[b] = ctx[b]
      /\ ctx'[c].step = "raise" /\ ctx'[c].ev \in {"suspend", "resume"}
      /\ \/ call[c] = "streamon" /\ stream_on'[c]
         \/ call[c] = "streamoff"
         \/ /\ call[c] = "s_fmt" /\ ctx'[c].chan = 1
            /\ stream_on' = stream_on
  <2>1. call[c] \in {"streamon", "streamoff", "s_fmt"}
    BY <1>1 DEF CallInv
  <2>2. CASE call[c] = "streamon"
    <3>1. Drives(c, "resume", c) /\ stream_on'[c]
      BY <1>1, <1>4, <2>2 DEF Lock, StreamFlag, TypeInv
    <3> QED  BY <1>1, <2>2, <3>1, DrivesIs DEF Events
  <2>3. CASE call[c] = "streamoff"
    <3>1. Drives(c, "suspend", c)
      BY <2>3 DEF Lock
    <3> QED  BY <1>1, <2>3, <3>1, DrivesIs DEF Events
  <2>4. CASE call[c] = "s_fmt"
    <3>1. Drives(c, "suspend", 1) /\ stream_on' = stream_on
      BY <1>4, <2>4 DEF Lock, StreamFlag
    <3> QED  BY <1>1, <2>4, <3>1, DrivesIs, Numbers DEF Events
  <2> QED  BY <2>1, <2>2, <2>3, <2>4
<1>6. \A d \in Chans : d # c => (stream_on'[d] <=> stream_on[d])
  BY <1>1, <1>4 DEF StreamFlag, TypeInv
<1>7. /\ StateInv' /\ ReadInv' /\ FrameInv' /\ EnInv' /\ DoneInv'
      /\ \A d \in Chans : d \in en <=> curr_state[d] \in Running
  BY <1>1, <1>3, <1>4, <1>5, CallMoves DEF Opening
<1>8. LockInv'
  BY <1>1, <1>2, <1>3, <1>4, <1>5 DEF LockInv, Held
<1>9. QuietInv'
  <2>1. \A d \in Chans : ~(d < 1)
    BY ChanAssumption DEF Chans
  <2> QED  BY <1>1, <1>3, <1>4, <1>5, <2>1, Numbers DEF QuietInv, Quiet
<1>10. BufInv'
  BY <1>1, <1>3, <1>4 DEF BufInv
<1>11. OnInv'
  BY <1>1, <1>3, <1>4, <1>5, <1>6 DEF OnInv
<1> QED  BY <1>7, <1>8, <1>9, <1>10, <1>11 DEF AloneInv

LEMMA WaitAlone ==
  ASSUME Inv, AloneInv, ~SMP, NEW c \in Chans, Inv', Wait(c)
  PROVE  AloneInv'
<1>1. /\ TypeInv /\ CallInv /\ LockInv /\ StateInv /\ DoneInv /\ QuietInv /\ BufInv /\ OnInv
      /\ c \in Actors /\ MayRun /\ ctx[c].step = "wait" /\ pc[c] = "event"
      /\ ctx[c].ev \in Drive(call[c]) /\ ctx[c].chan \in Chans
      /\ call[c] # "s_fmt" => ctx[c].chan = c
  <2>1. MayRun /\ ctx[c].step = "wait" /\ c \in Actors
    BY Numbers DEF Wait
  <2>2. pc[c] = "event"
    BY <2>1, EventOf
  <2>3. call[c] # "s_fmt" => ctx[c].chan = c
    BY <2>2 DEF Inv, CallInv
  <2> QED  BY <2>1, <2>2, <2>3, EventOf DEF Inv, AloneInv
<1>2. /\ Continue(c) /\ cpu' = cpu
      /\ UNCHANGED <<opened_flag, stream_on, nbuffers, curr_state, pending, done>>
      /\ UNCHANGED <<en, pci_push, vp_mutex, call>>
  <2>1. CompleteFor(c)
    BY <1>1 DEF DoneInv, CompleteFor
  <2> QED  BY <2>1 DEF Wait, chanVars, fsmVars, hwVars
<1>3. /\ \A a \in Actors : a # c => ctx[a].step = "none"
      /\ \A d \in Chans : d # c => pc[d] \in {"idle", "lock", "alloc", "dead"}
      /\ c \in cpu
  BY <1>1, <1>2, AloneCall DEF Held
<1>4. /\ \A b \in Actors : b # c => ctx'[b] = ctx[b]
      /\ \A d \in Chans : d # c => pc'[d] = pc[d]
      /\ \/ /\ call[c] = "s_fmt" /\ pc'[c] = "event"
            /\ ctx'[c].step = "raise" /\ ctx'[c].ev = ctx[c].ev
            /\ ctx'[c].chan = ctx[c].chan + 1
         \/ /\ ~(call[c] = "s_fmt" /\ ctx[c].chan < CHAN_CNT)
            /\ ctx'[c] = NoEvent /\ pc'[c] = AfterEvent(c)
            /\ AfterEvent(c) \in {"free", "remap", "end"}
  BY <1>1, <1>2, ContinueIs
<1>5. /\ AfterEvent(c) = "remap" => call[c] = "s_fmt" /\ ctx[c].ev = "suspend"
      /\ AfterEvent(c) = "free" => call[c] \in {"reqbufs", "close"}
      /\ call[c] \in {"reqbufs", "close"} => ctx[c].ev \in {"suspend", "close"}
      /\ call[c] = "s_fmt" => ctx[c].ev \in {"suspend", "resume"}
  BY <1>1 DEF AfterEvent, Drive
<1>6. /\ StateInv' /\ ReadInv' /\ FrameInv' /\ EnInv' /\ DoneInv'
      /\ \A d \in Chans : d \in en <=> curr_state[d] \in Running
  <2>1. ctx'[c].step \in {"none", "raise"} /\ ~Opening(c)'
    BY <1>4, <1>5, NoEventIs DEF Opening
  <2>2. UNCHANGED <<opened_flag, curr_state, pending, done, en>>
    BY <1>2
  <2> QED  BY <1>1, <1>3, <1>4, <2>1, <2>2, CallMoves
<1>7. LockInv'
  BY <1>1, <1>2, <1>4 DEF LockInv, Held
<1>8. QuietInv'
  <2>1. \A d \in Chans : CHAN_CNT \in Nat /\ d \in Nat /\ d <= CHAN_CNT
    BY ChanAssumption DEF Chans
  <2>2. ASSUME ctx[c].ev \in {"suspend", "close"} PROVE Quiet(ctx[c].chan)
    BY <1>1, <2>2 DEF QuietInv
  <2>3. ASSUME call[c] = "s_fmt", ctx[c].ev = "suspend",
               NEW d \in Chans, d < ctx[c].chan + 1
        PROVE  Quiet(d)
    <3>1. d < ctx[c].chan \/ d = ctx[c].chan
      BY <1>1, <2>1, <2>3
    <3>2. d < ctx[c].chan => Quiet(d)
      BY <1>1, <2>3 DEF QuietInv
    <3> QED  BY <2>2, <2>3, <3>1, <3>2
  <2>4. ASSUME call[c] = "s_fmt", ctx[c].ev = "suspend", ~(ctx[c].chan < CHAN_CNT),
               NEW d \in Chans
        PROVE  Quiet(d)
    <3>1. d < ctx[c].chan + 1
      BY <1>1, <2>1, <2>4
    <3> QED  BY <2>3, <2>4, <3>1
  <2>5. \A d \in Chans : Quiet(d)' = Quiet(d)
    BY <1>2 DEF Quiet
  <2>6. ASSUME NEW x \in Chans, x # c
        PROVE  /\ ctx'[x].step = "none" /\ pc'[x] = pc[x] /\ call'[x] = call[x]
    BY <1>2, <1>3, <1>4, <2>6, Numbers
  <2>7. /\ ctx'[c].step = "wait" => FALSE
        /\ pc'[c] = "free" => Quiet(c)
        /\ pc'[c] = "event" /\ call'[c] = "s_fmt" /\ ctx'[c].ev = "suspend" =>
             \A d \in Chans : d < ctx'[c].chan => Quiet(d)
        /\ pc'[c] \in {"remap", "free", "alloc", "resume"} /\ call'[c] = "s_fmt" =>
             \A d \in Chans : Quiet(d)
    <3>1. CASE ctx'[c].step = "raise"
      BY <1>2, <1>4, <1>5, <2>3, <3>1, NoEventIs
    <3>2. CASE ctx'[c] = NoEvent
      BY <1>1, <1>2, <1>4, <1>5, <2>2, <2>4, <3>2, NoEventIs
    <3> QED  BY <1>4, <3>1, <3>2
  <2> QED  BY <1>1, <1>3, <2>5, <2>6, <2>7 DEF QuietInv
<1>9. BufInv'
  BY <1>1, <1>2, <1>4 DEF BufInv
<1>10. OnInv'
  BY <1>1, <1>2, <1>3, <1>4 DEF OnInv
<1> QED  BY <1>6, <1>7, <1>8, <1>9, <1>10 DEF AloneInv

\* S_FMT changes the bus map, and resumes.
LEMMA FormatAlone ==
  ASSUME Inv, AloneInv, ~SMP, NEW c \in Chans, Inv', Remap(c) \/ ResumeAll(c)
  PROVE  AloneInv'
<1>1. /\ TypeInv /\ CallInv /\ LockInv /\ StateInv /\ QuietInv /\ BufInv /\ OnInv
      /\ c \in Actors /\ MayRun /\ pc[c] \in {"remap", "resume"} /\ call[c] = "s_fmt"
      /\ ctx[c].step = "none"
  BY Numbers DEF Inv, AloneInv, CallInv, Remap, ResumeAll
<1>2. /\ \A a \in Actors : a # c => ctx[a].step = "none"
      /\ \A d \in Chans : d # c => pc[d] \in {"idle", "lock", "alloc", "dead"}
  BY <1>1, AloneCall DEF Held
<1>3. /\ UNCHANGED <<opened_flag, stream_on, nbuffers, curr_state, pending, done>>
      /\ UNCHANGED <<en, vp_mutex, cpu, call>>
      /\ \A d \in Chans : d # c => pc'[d] = pc[d]
      /\ \A a \in Actors : a # c => ctx'[a] = ctx[a]
      /\ \/ pc'[c] \in {"free", "resume"} /\ ctx' = ctx
         \/ /\ pc'[c] = "event" /\ pci_push' = TRUE
            /\ ctx'[c].step = "raise" /\ ctx'[c].ev = "resume"
  <2>1. CASE Remap(c)
    BY <1>1, <2>1 DEF Remap, Goto, TypeInv, chanVars, fsmVars
  <2>2. CASE ResumeAll(c)
    <3>1. /\ UNCHANGED <<chanVars, fsmVars, en, vp_mutex, cpu, call>>
          /\ Goto(c, "event") /\ Drives(c, "resume", 1) /\ pci_push' = TRUE
      BY <2>2 DEF ResumeAll
    <3> QED  BY <1>1, <3>1, DrivesIs, Numbers DEF Goto, TypeInv, chanVars, fsmVars, Events
  <2> QED  BY <2>1, <2>2
<1>4. \A d \in Chans : Quiet(d)
  BY <1>1 DEF QuietInv
<1>5. /\ StateInv' /\ ReadInv' /\ FrameInv' /\ EnInv' /\ DoneInv'
  <2>1. ctx'[c].step \in {"none", "raise"} /\ ~Opening(c)'
    BY <1>1, <1>3 DEF Opening
  <2>2. UNCHANGED <<opened_flag, curr_state, pending, done, en>>
    BY <1>3
  <2> QED  BY <1>1, <1>2, <1>3, <2>1, <2>2, CallMoves
<1>6. LockInv'
  BY <1>1, <1>3 DEF LockInv, Held
<1>7. QuietInv'
  BY <1>1, <1>2, <1>3, <1>4, Numbers DEF QuietInv, Quiet
<1>8. BufInv'
  BY <1>1, <1>2, <1>3 DEF BufInv
<1>9. OnInv'
  BY <1>1, <1>3, Numbers DEF OnInv
<1> QED  BY <1>5, <1>6, <1>7, <1>8, <1>9 DEF AloneInv

\* Frames given back and allocated, and the end of a call.
LEMMA RestAlone ==
  ASSUME Inv, AloneInv, ~SMP, NEW c \in Chans, Inv', Free(c) \/ Alloc(c) \/ End(c)
  PROVE  AloneInv'
<1>1. /\ TypeInv /\ CallInv /\ LockInv /\ StateInv /\ QuietInv /\ BufInv /\ OnInv
      /\ c \in Actors /\ MayRun /\ pc[c] \in {"free", "alloc", "end"}
      /\ ctx[c].step = "none" /\ en \subseteq Chans
  BY Numbers DEF Inv, AloneInv, CallInv, TypeInv, Free, Alloc, End
<1>2. /\ \A a \in Actors : a # c => ctx[a].step = "none"
      /\ \A d \in Chans : d # c => pc[d] \in {"idle", "lock", "alloc", "dead"}
  <2>1. CASE pc[c] = "alloc"
    <3>1. cpu = {}
      BY <1>1, <2>1 DEF Free, Alloc, End, TakeCpu
    <3> QED  BY <1>1, <3>1, Nobody
  <2>2. CASE pc[c] # "alloc"
    BY <1>1, <2>2, AloneCall DEF Held
  <2> QED  BY <2>1, <2>2
<1>3. /\ UNCHANGED <<opened_flag, stream_on, curr_state, pending, done, en, pci_push, ctx>>
      /\ \A d \in Chans : d # c =>
           pc'[d] = pc[d] /\ call'[d] = call[d] /\ nbuffers'[d] = nbuffers[d]
  BY <1>1 DEF Free, Alloc, End, Goto, TypeInv, chanVars, fsmVars, hwVars
<1>4. /\ StateInv' /\ ReadInv' /\ FrameInv' /\ EnInv' /\ DoneInv'
      /\ \A d \in Chans : d \in en <=> curr_state[d] \in Running
  <2>1. ctx'[c].step \in {"none", "raise"} /\ ~Opening(c)'
    BY <1>1, <1>3 DEF Opening
  <2>2. UNCHANGED <<opened_flag, curr_state, pending, done, en>>
    BY <1>3
  <2> QED  BY <1>1, <1>2, <1>3, <2>1, <2>2, CallMoves
<1>5. /\ \/ /\ pc[c] = "free" /\ pc'[c] = "alloc" /\ nbuffers'[c] = 0
            /\ call'[c] = call[c] /\ call[c] # "close" /\ vp_mutex' = vp_mutex
            /\ cpu' = cpu \ {c}
         \/ /\ pc[c] = "free" /\ pc'[c] \in {"resume", "end"} /\ nbuffers'[c] = 0
            /\ call'[c] = call[c] /\ vp_mutex' = vp_mutex /\ cpu' = cpu
            /\ pc'[c] = "resume" <=> call[c] = "s_fmt"
         \/ /\ pc[c] = "alloc" /\ pc'[c] \in {"resume", "end"}
            /\ call'[c] = call[c] /\ vp_mutex' = vp_mutex /\ cpu = {} /\ cpu' = {c}
            /\ pc'[c] = "resume" <=> call[c] = "s_fmt"
         \/ /\ pc[c] = "end" /\ pc'[c] = "idle" /\ nbuffers' = nbuffers
            /\ call'[c] = "none" /\ vp_mutex' = vp_mutex \ {c} /\ cpu' = cpu \ {c}
      /\ c \in Chans
  <2>1. CASE Free(c)
    BY <1>1, <2>1 DEF Free, Goto, LeaveCpu, AfterFrames, TypeInv
  <2>2. CASE Alloc(c)
    BY <1>1, <2>2 DEF Alloc, Goto, TakeCpu, AfterFrames, TypeInv
  <2>3. CASE End(c)
    BY <1>1, <2>3 DEF End, Goto, LeaveCpu, Unlocks, TypeInv, chanVars
  <2> QED  BY <2>1, <2>2, <2>3
<1>6. curr_state[c] \notin Running \/ pc[c] = "end"
  BY <1>1 DEF QuietInv, Quiet, BufInv, Running, Off
<1>7. LockInv'
  BY <1>1, <1>2, <1>3, <1>5 DEF LockInv, Held
<1>8. QuietInv'
  BY <1>1, <1>2, <1>3, <1>5, Numbers DEF QuietInv, Quiet
<1>9. BufInv'
  <2>1. \A d \in Chans : d \in en' \/ curr_state'[d] \in Running => nbuffers'[d] = 1
    BY <1>1, <1>3, <1>4, <1>5, <1>6 DEF BufInv
  <2>2. ~pci_push' =>
          \E x \in Chans : call'[x] = "s_fmt" /\ pc'[x] \in {"free", "alloc", "resume"}
    BY <1>1, <1>3, <1>5 DEF BufInv
  <2>3. \A d \in Chans : pc'[d] = "alloc" => nbuffers'[d] = 0
    BY <1>1, <1>3, <1>5 DEF BufInv
  <2> QED  BY <2>1, <2>2, <2>3 DEF BufInv
<1>10. OnInv'
  BY <1>1, <1>3, <1>5 DEF OnInv
<1> QED  BY <1>4, <1>7, <1>8, <1>9, <1>10 DEF AloneInv

-----------------------------------------------------------------------------
(* One processor: every step *)

LEMMA FsmAlone ==
  ASSUME Inv, AloneInv, ~SMP, MayRun, NEW c \in Chans, FsmStep(c), Inv'
  PROVE  AloneInv'
<1>1. c \in Actors
  BY Numbers
<1>2. ~ActDeliver(c) /\ ~Check(c) /\ ~Trigger(c)
  BY <1>1, EventOf DEF ActDeliver, Check, Trigger, Events
<1> QED
  BY <1>2, CallRaise, CallRead, CallActSuspend, CallActResume, CallActClose,
     CallActOpen, CallLoad, CallStore DEF FsmStep

LEMMA TaskletAlone ==
  ASSUME Inv, AloneInv, Inv', FsmStep(TASKLET)
  PROVE  AloneInv'
<1>1. TaskletInv /\ FrameInv
  BY DEF Inv, AloneInv
<1>2. CASE ctx[TASKLET].ev = "deliver"
  <2>1. Read(TASKLET) \/ ActDeliver(TASKLET) \/ Check(TASKLET)
    BY <1>1, <1>2
       DEF FsmStep, TaskletInv, Raise, ActSuspend, ActResume, ActClose, ActOpen,
           Trigger, Load, Store
  <2> QED  BY <1>2, <2>1, TaskDeliver
<1>3. CASE ctx[TASKLET].ev # "deliver"
  <2>1. ~ActOpen(TASKLET) /\ ~ActDeliver(TASKLET) /\ ~Check(TASKLET)
    BY <1>1, <1>3 DEF FrameInv, TaskletInv, ActOpen, ActDeliver, Check
  <2> QED
    BY <1>3, <2>1, TaskRaise, TaskRead, TaskActSuspend, TaskActResume, TaskActClose,
       TaskTrigger, TaskLoad, TaskStore DEF FsmStep
<1> QED  BY <1>2, <1>3

LEMMA NextAlone ==
  ASSUME Inv, AloneInv, ~SMP, [Next]_vars, Inv'
  PROVE  AloneInv'
<1>1. CASE UNCHANGED vars
  BY <1>1, StandStill DEF vars, hwVars
<1>2. Users \subseteq Chans
  BY ChanAssumption DEF Users, Chans
<1>3. ASSUME NEW c \in Users,
             \/ Open(c) \/ Close(c)
             \/ \E n \in {0, 1} : ReqBufs(c, n)
      PROVE  AloneInv'
  BY <1>2, <1>3, BeginsAlone
<1>4. ASSUME NEW c \in Users,
             OpenBusy(c) \/ \E k \in {"streamon", "streamoff", "s_fmt"} : Ioctl(c, k)
      PROVE  AloneInv'
  BY <1>2, <1>4, QueuesAlone
<1>5. ASSUME NEW c \in Users, Calling(c)
      PROVE  AloneInv'
  <2>1. c \in Chans /\ c \in Actors
    BY <1>2, Numbers
  <2>2. ~Wake(c)
    BY <2>1 DEF AloneInv, ReadInv, Wake
  <2> QED
    BY <1>5, <2>1, <2>2, FsmAlone, LockAlone, WaitAlone, FormatAlone, RestAlone
       DEF Calling
<1>6. ASSUME NEW c \in Users, Frame(c)
      PROVE  AloneInv'
  BY <1>6, StandStill DEF Frame
<1>7. CASE Tasklet
  <2>1. CASE TaskletRun
    BY <2>1, StandStill DEF TaskletRun
  <2>2. CASE \E c \in Chans : TaskletFrame(c)
    BY <2>2, TaskFrame
  <2>3. CASE FsmStep(TASKLET)
    BY <2>3, TaskletAlone
  <2> QED  BY <1>7, <2>1, <2>2, <2>3 DEF Tasklet
<1> QED  BY <1>1, <1>3, <1>4, <1>5, <1>6, <1>7 DEF Next

LEMMA InitAlone == Init => AloneInv
<1> SUFFICES ASSUME Init PROVE AloneInv
  OBVIOUS
<1>1. /\ \A a \in Actors : ctx[a] = NoEvent /\ ctx[a].step = "none"
      /\ Chans \subseteq Actors /\ TASKLET \in Actors
  BY NoEventIs, Numbers DEF Init
<1>2. LockInv /\ StateInv /\ ReadInv
  BY <1>1 DEF Init, LockInv, StateInv, ReadInv, Opening, Held
<1>3. FrameInv
  BY <1>1 DEF Init, FrameInv
<1>4. EnInv /\ DoneInv
  BY <1>1 DEF Init, EnInv, DoneInv, Running, Waited
<1>5. QuietInv /\ BufInv /\ OnInv
  BY <1>1 DEF Init, QuietInv, BufInv, OnInv, Running
<1> QED  BY <1>2, <1>3, <1>4, <1>5 DEF AloneInv

LEMMA CpusKept == [Next]_vars => cpus' = cpus
<1> SUFFICES ASSUME [Next]_vars PROVE cpus' = cpus
  OBVIOUS
<1>1. \A a : FsmStep(a) => cpus' = cpus
  BY DEF FsmStep, Raise, Read, ActSuspend, ActResume, ActClose, ActOpen, ActDeliver,
         Check, Trigger, Load, Store, FsmUnchanged, hwVars
<1>2. \A c : \/ Open(c) \/ OpenBusy(c) \/ Close(c)
             \/ \E n \in {0, 1} : ReqBufs(c, n)
             \/ \E k \in {"streamon", "streamoff", "s_fmt"} : Ioctl(c, k)
             => cpus' = cpus
  BY DEF Open, OpenBusy, Close, ReqBufs, Ioctl, Begins, hwVars
<1>3. \A c : \/ Lock(c) \/ Wait(c) \/ Wake(c) \/ Remap(c) \/ Free(c) \/ Alloc(c)
             \/ ResumeAll(c) \/ End(c) \/ Frame(c)
             => cpus' = cpus
  BY DEF Lock, Wait, Wake, Remap, Free, Alloc, ResumeAll, End, Frame, hwVars
<1>4. Tasklet => cpus' = cpus
  BY <1>1 DEF Tasklet, TaskletRun, TaskletFrame, hwVars
<1>5. UNCHANGED vars => cpus' = cpus
  BY DEF vars, hwVars
<1> QED  BY <1>1, <1>2, <1>3, <1>4, <1>5 DEF Next, Calling

-----------------------------------------------------------------------------
(* The theorems *)

\* IInv always holds, whatever the number of channels and of processors.
THEOREM Invariant == Spec => []IInv
<1>1. Init => IInv
  BY InitInv, InitAlone DEF IInv
<1>2. IInv /\ [Next]_vars => IInv'
  <2> SUFFICES ASSUME IInv, [Next]_vars PROVE IInv'
    OBVIOUS
  <2>1. Inv'
    BY NextInv DEF IInv
  <2>2. SMP' <=> SMP
    BY CpusKept DEF SMP
  <2>3. ~SMP => AloneInv'
    BY <2>1, NextAlone DEF IInv
  <2> QED  BY <2>1, <2>2, <2>3 DEF IInv
<1> QED  BY <1>1, <1>2, PTL DEF Spec

\* Every variable of PrevChan keeps its type: in particular open counts a
\* channel open at most twice, even with two processors.
THEOREM TypeCorrect == Spec => []TypeOK
<1>1. IInv => TypeOK
  BY DEF IInv, Inv, TypeInv, OpenInv, TypeOK
<1> QED  BY <1>1, Invariant, PTL

\* On one processor the chip writes pictures only of a channel that has push
\* buffers, and never while S_FMT has it off the bus.
THEOREM BufsCorrect == Spec => []EnabledHasBufs
<1>1. IInv => EnabledHasBufs
  <2> SUFFICES ASSUME IInv, ~SMP, NEW c \in en PROVE nbuffers[c] # 0 /\ pci_push
    BY DEF EnabledHasBufs
  <2>1. BufInv /\ QuietInv /\ c \in Chans
    BY DEF IInv, Inv, TypeInv, AloneInv
  <2> QED  BY <2>1 DEF BufInv, QuietInv, Quiet
<1> QED  BY <1>1, Invariant, PTL

\* On one processor, when no event is under way, VP_CHANNEL_EN has exactly the
\* channels whose machine is running.
THEOREM ExactCorrect == Spec => []EnableExact
<1>1. IInv => EnableExact
  <2> SUFFICES ASSUME IInv, ~SMP, Busy = {}
               PROVE  en = {c \in Chans : curr_state[c] \in Running}
    BY DEF EnableExact, Running
  <2>1. EnInv /\ TypeInv
    BY DEF IInv, Inv, AloneInv
  <2>2. \A a \in Actors, d \in Chans, e \in Events : ~Switches(a, e, d) /\ ~Closes(a, d)
    BY DEF Busy, Switches, Closes
  <2>3. \A d \in Chans : curr_state[d] \in Running \/ curr_state[d] \in Off
    BY <2>1 DEF TypeInv, States, Running, Off
  <2> QED  BY <2>1, <2>2, <2>3 DEF EnInv, Events, TypeInv
<1> QED  BY <1>1, Invariant, PTL

\* On one processor a channel that is off, and in no call of its own, is not
\* running: no other channel's S_FMT starts it.
THEOREM StoppedCorrect == Spec => []StoppedIsOff
<1>1. IInv => StoppedIsOff
  <2> SUFFICES ASSUME IInv, ~SMP, NEW c \in Chans, pc[c] = "idle", ~stream_on[c]
               PROVE  curr_state[c] \in Off
    BY DEF StoppedIsOff, Off
  <2>1. OnInv /\ curr_state[c] \in States
    BY DEF IInv, Inv, AloneInv, TypeInv
  <2> QED  BY <2>1 DEF OnInv, States, Running, Off
<1> QED  BY <1>1, Invariant, PTL
=============================================================================
