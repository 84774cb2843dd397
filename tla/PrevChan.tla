------------------------------ MODULE PrevChan ------------------------------
(***************************************************************************)
(* The preview channels of a chip (isil_preview.c) and the endpoint state  *)
(* machine they run (chip_bus_scheduler.c).                                *)
(*                                                                         *)
(* A call on a channel, under its chan->sem, and the tasklet that handles  *)
(* the frames drive the machine of the channel by events.  fsm->lock       *)
(* protects each change of a flag or of the state, not the way from        *)
(* reading the state to the change; VP_CHANNEL_EN, which lets the chip     *)
(* write pictures of a channel, is read and written back unlocked.         *)
(* S_FMT suspends and resumes every channel, under vp_mutex.               *)
(*                                                                         *)
(* Environment: ioctl and open run under the big kernel lock, release does *)
(* not.  With SMP the tasklet and the calls run at the same time; without  *)
(* it the tasklet runs in between steps of a call, and to its end.         *)
(*                                                                         *)
(* The frame queues are left out: a frame moves the machine in the same    *)
(* way whether it is copied or discarded.                                  *)
(***************************************************************************)
EXTENDS Naturals

CONSTANTS
  CHAN_CNT,          \* ISIL_PHY_VP_CHAN_NUMBER, 16 in the driver
  CPUS,              \* the numbers of processors a machine may have, 1 or 2
  SmpChans           \* bound: the channels whose users make calls on two

ASSUME ChanAssumption ==
  CHAN_CNT \in Nat \ {0} /\ CPUS \subseteq {1, 2} /\ SmpChans \subseteq 1 .. CHAN_CNT

Chans == 1 .. CHAN_CNT
TASKLET == 0
Actors == Chans \cup {TASKLET}   \* the call on each channel, the tasklet

VARIABLES
  curr_state,        \* per channel: the state of its machine
  pending,           \* per channel: the transfer_pending flags that are set
  done,              \* per channel: the completions that are complete
  opened_flag,
  stream_on,
  nbuffers,          \* per channel: it has frames and push buffers, 0 or 1
  en,                \* VP_CHANNEL_EN
  pci_push,          \* the chip may interrupt and master the bus
  cpus,              \* the processors of the machine
  chan_flag,         \* the channels whose frames the tasklet shall handle
  vp_mutex,          \* the channels (at most one) whose call holds it
  cpu,               \* the channels (at most one) whose call holds the
                     \* kernel lock or, without SMP, the processor
  call, pc,          \* per channel: the call and where it is
  want,              \* per channel: the nbuffers its call asks for
  ctx,               \* per actor: the event it drives through a machine
  todo               \* the channels left in this run of the tasklet

chanVars == <<opened_flag, stream_on, nbuffers>>
fsmVars == <<curr_state, pending, done>>
hwVars == <<pci_push, chan_flag, cpus>>
callVars == <<vp_mutex, cpu, call, pc, want>>
vars == <<chanVars, fsmVars, en, hwVars, callVars, ctx, todo>>

SMP == cpus = 2
Users == IF SMP THEN SmpChans ELSE Chans

States == {"UNREGISTER", "SUSPEND", "STANDBY", "TRANSFERING", "DONE"}
Events == {"open", "suspend", "resume", "close"}
Waited == {"suspend", "resume", "close"}   \* the events with a completion

\* What an actor is doing with an event: none, or its next step.
Steps == {"none", "raise", "read", "act", "check", "trigger", "load", "store",
          "wait", "asleep", "lost"}
Ctx == [step : Steps, ev : Events \cup {"deliver"}, chan : Chans,
        st : States, reg : SUBSET Chans]
NoEvent == [step |-> "none", ev |-> "open", chan |-> 1,
            st |-> "UNREGISTER", reg |-> {}]
Event(e, c) == [NoEvent EXCEPT !.step = "raise", !.ev = e, !.chan = c]

Calls == {"none", "open", "reqbufs", "streamon", "streamoff", "s_fmt", "close"}
Pcs == {"idle", "lock", "event", "remap", "free", "alloc", "resume", "end",
        "dead"}

Init ==
  /\ curr_state = [c \in Chans |-> "UNREGISTER"]
  /\ pending = [c \in Chans |-> {}]
  /\ done = [c \in Chans |-> Waited]
  /\ opened_flag = [c \in Chans |-> 0]
  /\ stream_on = [c \in Chans |-> FALSE]
  /\ nbuffers = [c \in Chans |-> 0]
  /\ en = {} /\ pci_push = TRUE /\ chan_flag = {} /\ cpus \in CPUS
  /\ vp_mutex = {} /\ cpu = {}
  /\ call = [c \in Chans |-> "none"] /\ pc = [c \in Chans |-> "idle"]
  /\ want = [c \in Chans |-> 0]
  /\ ctx = [a \in Actors |-> NoEvent] /\ todo = {}

-----------------------------------------------------------------------------
(* isil_ed_fsm_gen_fsm_event and isil_ed_fsm_transfer *)

Goes(a, s) == ctx' = [ctx EXCEPT ![a].step = s, ![a].st = "UNREGISTER"]
Becomes(c, s) == curr_state' = [curr_state EXCEPT ![c] = s]

NextFlag == [open |-> "suspend", suspend |-> "resume", resume |-> "close"]

\* The event is through: a call waits for its completion, the tasklet goes
\* on to the next flag after a pending event, and is done after a frame.
Through(a) ==
  IF a # TASKLET
  THEN [NoEvent EXCEPT !.step = "wait", !.ev = ctx[a].ev, !.chan = ctx[a].chan]
  ELSE IF ctx[a].ev \in DOMAIN NextFlag
       THEN [NoEvent EXCEPT !.step = "trigger", !.ev = NextFlag[ctx[a].ev],
                            !.chan = ctx[a].chan]
       ELSE NoEvent

EventThrough(a) == ctx' = [ctx EXCEPT ![a] = Through(a)]

\* A call that waits for the same completion of the same channel; to
\* initialise the completion again forgets it.
SleepsOn(b, e, c) == ctx[b].step = "asleep" /\ ctx[b].ev = e /\ ctx[b].chan = c

\* init_completion, for suspend and resume, and the flag of the event.
Raise(a) ==
  LET e == ctx[a].ev
      c == ctx[a].chan
      fresh == e \in {"suspend", "resume"}
  IN /\ ctx[a].step = "raise"
     /\ pending' = [pending EXCEPT ![c] = @ \cup {e}]
     /\ done' = IF fresh THEN [done EXCEPT ![c] = @ \ {e}] ELSE done
     /\ ctx' = [b \in Actors |->
          IF b = a THEN [ctx[a] EXCEPT !.step = "read"]
          ELSE IF fresh /\ SleepsOn(b, e, c) THEN [ctx[b] EXCEPT !.step = "lost"]
          ELSE ctx[b]]
     /\ UNCHANGED <<chanVars, curr_state, en, hwVars, callVars, todo>>

\* The flag is acknowledged and the state read; deliver sets no flag that
\* anyone looks at.
Read(a) ==
  /\ ctx[a].step = "read"
  /\ pending' = [pending EXCEPT ![ctx[a].chan] = @ \ {ctx[a].ev}]
  /\ ctx' = [ctx EXCEPT ![a].step = "act", ![a].st = curr_state[ctx[a].chan]]
  /\ UNCHANGED <<chanVars, curr_state, done, en, hwVars, callVars, todo>>

\* What every action on an event leaves alone.
FsmUnchanged == UNCHANGED <<nbuffers, hwVars, callVars, todo>>
Complete(c, es) == done' = [done EXCEPT ![c] = @ \cup es]

ActSuspend(a) ==
  LET c == ctx[a].chan
  IN /\ ctx[a].step = "act" /\ ctx[a].ev = "suspend"
     /\ \/ /\ ctx[a].st \in {"UNREGISTER", "SUSPEND"}
           /\ Complete(c, {"suspend"}) /\ EventThrough(a)
           /\ UNCHANGED <<curr_state, pending>>
        \/ /\ ctx[a].st \in {"STANDBY", "DONE"}
           /\ Becomes(c, "SUSPEND") /\ Goes(a, "load")
           /\ UNCHANGED <<pending, done>>
        \/ /\ ctx[a].st = "TRANSFERING"
           /\ pending' = [pending EXCEPT ![c] = @ \cup {"suspend"}]
           /\ EventThrough(a)
           /\ UNCHANGED <<curr_state, done>>
     /\ FsmUnchanged /\ UNCHANGED <<opened_flag, stream_on, en>>

\* Faulty variants: a channel without frames is enabled, one that is off is.
OnWithoutFrames(c) == stream_on[c]
OnWithoutStream(c) == nbuffers[c] # 0

prev_resource_on(c) == nbuffers[c] # 0 /\ stream_on[c]

ActResume(a) ==
  LET c == ctx[a].chan
      starts == ctx[a].st = "SUSPEND" /\ prev_resource_on(c)
  IN /\ ctx[a].step = "act" /\ ctx[a].ev = "resume"
     /\ \/ /\ starts
           /\ Becomes(c, "STANDBY") /\ Goes(a, "load")
           /\ UNCHANGED done
        \/ /\ ~starts
           /\ Complete(c, {"resume"}) /\ EventThrough(a)
           /\ UNCHANGED curr_state
     /\ FsmUnchanged /\ UNCHANGED <<opened_flag, stream_on, pending, en>>

ActClose(a) ==
  LET c == ctx[a].chan
      last == opened_flag[c] = 1
  IN /\ ctx[a].step = "act" /\ ctx[a].ev = "close"
     /\ \/ /\ ctx[a].st = "UNREGISTER" /\ opened_flag[c] = 0
           /\ EventThrough(a)
           /\ UNCHANGED <<curr_state, pending, opened_flag, stream_on>>
        \/ /\ ctx[a].st = "UNREGISTER" /\ opened_flag[c] > 0
           /\ opened_flag' = [opened_flag EXCEPT ![c] = @ - 1]
           /\ stream_on' = [stream_on EXCEPT ![c] = @ /\ ~last]
           /\ IF last THEN Goes(a, "load") ELSE EventThrough(a)
           /\ UNCHANGED <<curr_state, pending>>
        \/ /\ ctx[a].st \in {"STANDBY", "SUSPEND", "DONE"}
           /\ Becomes(c, "UNREGISTER") /\ Goes(a, "raise")
           /\ UNCHANGED <<pending, opened_flag, stream_on>>
        \/ /\ ctx[a].st = "TRANSFERING"
           /\ pending' = [pending EXCEPT ![c] = @ \cup {"close"}]
           /\ EventThrough(a)
           /\ UNCHANGED <<curr_state, opened_flag, stream_on>>
     /\ FsmUnchanged /\ UNCHANGED <<done, en>>

ActOpen(a) ==
  LET c == ctx[a].chan
      first == ctx[a].st = "UNREGISTER" /\ opened_flag[c] = 0
  IN /\ ctx[a].step = "act" /\ ctx[a].ev = "open"
     /\ EventThrough(a)
     /\ opened_flag' = IF ctx[a].st = "UNREGISTER"
                       THEN [opened_flag EXCEPT ![c] = @ + 1] ELSE opened_flag
     /\ IF first
        THEN Becomes(c, "SUSPEND") /\ done' = [done EXCEPT ![c] = @ \ {"close"}]
        ELSE UNCHANGED <<curr_state, done>>
     /\ FsmUnchanged /\ UNCHANGED <<pending, stream_on, en>>

\* A frame: STANDBY to TRANSFERING to DONE and back, the flags that are
\* pending looked at on the way.
ActDeliver(a) ==
  LET c == ctx[a].chan
  IN /\ ctx[a].step = "act" /\ ctx[a].ev = "deliver"
     /\ \/ ctx[a].st = "STANDBY" /\ Becomes(c, "TRANSFERING") /\ Goes(a, "read")
        \/ ctx[a].st = "TRANSFERING" /\ Becomes(c, "DONE") /\ Goes(a, "check")
        \/ ctx[a].st = "DONE" /\ Becomes(c, "STANDBY") /\ EventThrough(a)
        \/ /\ ctx[a].st \in {"UNREGISTER", "SUSPEND"}
           /\ EventThrough(a) /\ UNCHANGED curr_state
     /\ FsmUnchanged /\ UNCHANGED <<opened_flag, stream_on, pending, done, en>>

have_any_pending_event(c) == pending[c] # {}

Check(a) ==
  /\ ctx[a].step = "check"
  /\ ctx' = [ctx EXCEPT ![a] =
       IF have_any_pending_event(@.chan)
       THEN [@ EXCEPT !.step = "trigger", !.ev = "open"]
       ELSE [@ EXCEPT !.step = "read"]]
  /\ FsmUnchanged /\ UNCHANGED <<opened_flag, stream_on, fsmVars, en>>

Trigger(a) ==
  /\ ctx[a].step = "trigger"
  /\ IF ctx[a].ev \in pending[ctx[a].chan] THEN Goes(a, "read") ELSE EventThrough(a)
  /\ FsmUnchanged /\ UNCHANGED <<opened_flag, stream_on, fsmVars, en>>

\* prev_chan_enable and prev_chan_disable: VP_CHANNEL_EN is read ...
Load(a) ==
  /\ ctx[a].step = "load"
  /\ ctx' = [ctx EXCEPT ![a].step = "store", ![a].reg = en]
  /\ FsmUnchanged /\ UNCHANGED <<opened_flag, stream_on, fsmVars, en>>

\* Faulty variant: disabling one channel clears the other bits.
WritesOne(a) ==
  IF ctx[a].ev = "resume" THEN ctx[a].reg \cup {ctx[a].chan}
  ELSE ctx[a].reg \cap {ctx[a].chan}

Writes(a) ==
  IF ctx[a].ev = "resume" THEN ctx[a].reg \cup {ctx[a].chan}
  ELSE ctx[a].reg \ {ctx[a].chan}

\* ... and written; then the event is complete, a close resets the machine.
Store(a) ==
  LET c == ctx[a].chan
      e == ctx[a].ev
  IN /\ ctx[a].step = "store"
     /\ en' = Writes(a)
     /\ IF e = "close"
        THEN pending' = [pending EXCEPT ![c] = {}] /\ Complete(c, Waited)
        ELSE Complete(c, {e}) /\ UNCHANGED pending
     /\ EventThrough(a)
     /\ FsmUnchanged /\ UNCHANGED <<opened_flag, stream_on, curr_state>>

\* One step of an actor with its event.
FsmStep(a) ==
  \/ Raise(a) \/ Read(a)
  \/ ActSuspend(a) \/ ActResume(a) \/ ActClose(a) \/ ActOpen(a) \/ ActDeliver(a)
  \/ Check(a) \/ Trigger(a) \/ Load(a) \/ Store(a)

-----------------------------------------------------------------------------
(* The calls on a channel *)

TaskletIdle == todo = {} /\ ctx[TASKLET] = NoEvent

\* Without SMP a call only gets the processor when the tasklet is done.
MayRun == SMP \/ TaskletIdle

\* release does not take the kernel lock, so with SMP a close runs beside
\* the other calls.
TakeCpu(c, k) ==
  IF SMP /\ k = "close" THEN UNCHANGED cpu ELSE cpu = {} /\ cpu' = {c}
LeaveCpu(c) == cpu' = cpu \ {c}

Goto(c, l) == pc' = [pc EXCEPT ![c] = l]
Drives(c, e, t) == ctx' = [ctx EXCEPT ![c] = Event(e, t)]

Begins(c, k, l) ==
  /\ MayRun /\ pc[c] = "idle"
  /\ call' = [call EXCEPT ![c] = k] /\ Goto(c, l)
  /\ UNCHANGED <<chanVars, fsmVars, en, hwVars, todo, vp_mutex>>

Open(c) ==
  /\ opened_flag[c] = 0
  /\ Begins(c, "open", "event") /\ TakeCpu(c, "open") /\ Drives(c, "open", c)
  /\ UNCHANGED want

\* A second open returns -EBUSY and keeps chan->sem: no call on the channel
\* gets it any more.
OpenBusy(c) ==
  /\ opened_flag[c] > 0
  /\ Begins(c, "open", "dead")
  /\ UNCHANGED <<want, cpu, ctx>>

\* VIDIOC_REQBUFS for n frames, the old ones unmapped.
ReqBufs(c, n) ==
  /\ opened_flag[c] > 0
  /\ Begins(c, "reqbufs", "event") /\ TakeCpu(c, "reqbufs")
  /\ Drives(c, "suspend", c)
  /\ want' = [want EXCEPT ![c] = n]

\* VIDIOC_STREAMON, _STREAMOFF and _S_FMT up to vp_mutex.
Ioctl(c, k) ==
  /\ opened_flag[c] > 0
  /\ Begins(c, k, "lock")
  /\ UNCHANGED <<want, cpu, ctx>>

StreamFlag(c) ==
  IF call[c] = "s_fmt" THEN stream_on
  ELSE [stream_on EXCEPT ![c] = call[c] = "streamon"]

Lock(c) ==
  /\ MayRun /\ pc[c] = "lock"
  /\ vp_mutex = {} /\ vp_mutex' = {c} /\ TakeCpu(c, call[c])
  /\ Goto(c, "event")
  /\ stream_on' = StreamFlag(c)
  /\ CASE call[c] = "streamon" -> Drives(c, "resume", c)
       [] call[c] = "streamoff" -> Drives(c, "suspend", c)
       [] call[c] = "s_fmt" -> Drives(c, "suspend", 1)
  /\ UNCHANGED <<opened_flag, nbuffers, fsmVars, en, hwVars, todo, call, want>>

Close(c) ==
  /\ opened_flag[c] > 0
  /\ Begins(c, "close", "event") /\ TakeCpu(c, "close") /\ Drives(c, "close", c)
  /\ UNCHANGED want

CompleteFor(c) == ctx[c].ev = "open" \/ ctx[c].ev \in done[ctx[c].chan]

\* Where a call goes when its last event is through.
AfterEvent(c) ==
  IF call[c] \in {"reqbufs", "close"} THEN "free"
  ELSE IF call[c] = "s_fmt" /\ ctx[c].ev = "suspend" THEN "remap"
  ELSE "end"

\* Faulty variant: S_FMT goes one channel too far.
ContinueTooFar(c) ==
  IF call[c] = "s_fmt" /\ ctx[c].chan <= CHAN_CNT
  THEN Drives(c, ctx[c].ev, ctx[c].chan + 1) /\ UNCHANGED pc
  ELSE ctx' = [ctx EXCEPT ![c] = NoEvent] /\ Goto(c, AfterEvent(c))

\* S_FMT goes on with the next channel.
Continue(c) ==
  IF call[c] = "s_fmt" /\ ctx[c].chan < CHAN_CNT
  THEN Drives(c, ctx[c].ev, ctx[c].chan + 1) /\ UNCHANGED pc
  ELSE ctx' = [ctx EXCEPT ![c] = NoEvent] /\ Goto(c, AfterEvent(c))

\* wait_for_completion: goes on at once, or sleeps.
Wait(c) ==
  /\ MayRun /\ ctx[c].step = "wait"
  /\ \/ CompleteFor(c) /\ Continue(c) /\ UNCHANGED cpu
     \/ ~CompleteFor(c) /\ Goes(c, "asleep") /\ LeaveCpu(c) /\ UNCHANGED pc
  /\ UNCHANGED <<chanVars, fsmVars, en, hwVars, todo, vp_mutex, call, want>>

Wake(c) ==
  /\ MayRun /\ ctx[c].step = "asleep" /\ CompleteFor(c)
  /\ TakeCpu(c, call[c]) /\ Continue(c)
  /\ UNCHANGED <<chanVars, fsmVars, en, hwVars, todo, vp_mutex, call, want>>

\* S_FMT with every channel suspended: vp_disable_pci_push and bus_map,
\* which may refuse.  S_PARM is such a call, too, and keeps the frames.
Remap(c) ==
  /\ MayRun /\ pc[c] = "remap"
  /\ pci_push' = FALSE
  /\ want' = [want EXCEPT ![c] = nbuffers[c]]
  /\ Goto(c, "free") \/ Goto(c, "resume")
  /\ UNCHANGED <<chanVars, fsmVars, en, chan_flag, cpus, todo, vp_mutex, cpu, call, ctx>>

\* Where a call goes when it has its frames, or goes without.
AfterFrames(c) == IF call[c] = "s_fmt" THEN "resume" ELSE "end"

\* prev_chan_release_vbufs; the vmalloc that follows may sleep.
Free(c) ==
  /\ MayRun /\ pc[c] = "free"
  /\ nbuffers' = [nbuffers EXCEPT ![c] = 0]
  /\ IF call[c] = "close" \/ want[c] = 0
     THEN Goto(c, AfterFrames(c)) /\ UNCHANGED cpu
     ELSE Goto(c, "alloc") /\ LeaveCpu(c)
  /\ UNCHANGED <<opened_flag, stream_on, fsmVars, en, hwVars, todo, vp_mutex,
                 call, want, ctx>>

\* prev_chan_req_vbufs, which may fail.
Alloc(c) ==
  /\ MayRun /\ pc[c] = "alloc"
  /\ TakeCpu(c, call[c]) /\ Goto(c, AfterFrames(c))
  /\ \E n \in {0, want[c]} : nbuffers' = [nbuffers EXCEPT ![c] = n]
  /\ UNCHANGED <<opened_flag, stream_on, fsmVars, en, hwVars, todo, vp_mutex,
                 call, want, ctx>>

\* vp_bus_notify_resume_logic_chan.
ResumeAll(c) ==
  /\ MayRun /\ pc[c] = "resume"
  /\ pci_push' = TRUE
  /\ Goto(c, "event") /\ Drives(c, "resume", 1)
  /\ UNCHANGED <<chanVars, fsmVars, en, chan_flag, cpus, todo, vp_mutex, cpu, call, want>>

\* Faulty variant: S_FMT returns with vp_mutex held.
KeepsMutex(c) == IF call[c] = "s_fmt" THEN vp_mutex ELSE vp_mutex \ {c}

Unlocks(c) == vp_mutex \ {c}

End(c) ==
  /\ MayRun /\ pc[c] = "end"
  /\ Goto(c, "idle") /\ LeaveCpu(c)
  /\ call' = [call EXCEPT ![c] = "none"] /\ want' = [want EXCEPT ![c] = 0]
  /\ vp_mutex' = Unlocks(c)
  /\ UNCHANGED <<chanVars, fsmVars, en, hwVars, todo, ctx>>

-----------------------------------------------------------------------------
(* Frames: the chip, prev_push_irq_handler and prev_tasklet_handler *)

Frame(c) ==
  /\ c \in en /\ pci_push /\ c \notin chan_flag
  /\ chan_flag' = chan_flag \cup {c}
  /\ UNCHANGED <<chanVars, fsmVars, en, pci_push, cpus, callVars, ctx, todo>>

\* The tasklet takes the channels that have a frame ...
TaskletRun ==
  /\ TaskletIdle /\ chan_flag # {}
  /\ todo' = chan_flag /\ chan_flag' = {}
  /\ UNCHANGED <<chanVars, fsmVars, en, pci_push, cpus, callVars, ctx>>

\* ... and delivers each; those whose frame is discarded come first.
TaskletFrame(c) ==
  /\ ctx[TASKLET] = NoEvent /\ c \in todo
  /\ todo' = todo \ {c}
  /\ ctx' = [ctx EXCEPT ![TASKLET] = [Event("deliver", c) EXCEPT !.step = "read"]]
  /\ UNCHANGED <<chanVars, fsmVars, en, hwVars, callVars>>

-----------------------------------------------------------------------------
Calling(c) ==
  \/ MayRun /\ FsmStep(c)
  \/ Lock(c) \/ Wait(c) \/ Wake(c) \/ Remap(c) \/ Free(c) \/ Alloc(c)
  \/ ResumeAll(c) \/ End(c)

Tasklet ==
  \/ TaskletRun
  \/ \E c \in Chans : TaskletFrame(c)
  \/ FsmStep(TASKLET)

Next ==
  \/ \E c \in Users :
       \/ Open(c) \/ OpenBusy(c) \/ Close(c)
       \/ \E n \in {0, 1} : ReqBufs(c, n)
       \/ \E k \in {"streamon", "streamoff", "s_fmt"} : Ioctl(c, k)
       \/ Calling(c)
       \/ Frame(c)
  \/ Tasklet

Spec == Init /\ [][Next]_vars

\* The tasklet runs once it is scheduled.  A call that can go on again and
\* again does: whoever holds the kernel lock, the processor or vp_mutex gives
\* it back or sleeps, and none of them keeps a caller out forever.
FairSpec == Spec /\ WF_vars(Tasklet) /\ \A c \in Chans : SF_vars(Calling(c))

-----------------------------------------------------------------------------
(* Properties *)

\* Every variable keeps its type; a channel is never more than twice open
\* (with SMP a stale open event can be handled a second time).
TypeOK ==
  /\ curr_state \in [Chans -> States]
  /\ pending \in [Chans -> SUBSET Events]
  /\ done \in [Chans -> SUBSET Waited]
  /\ opened_flag \in [Chans -> 0 .. 2]
  /\ stream_on \in [Chans -> BOOLEAN]
  /\ nbuffers \in [Chans -> {0, 1}]
  /\ en \subseteq Chans /\ chan_flag \subseteq Chans /\ todo \subseteq Chans
  /\ pci_push \in BOOLEAN /\ cpus \in CPUS
  /\ vp_mutex \subseteq Chans /\ cpu \subseteq Chans
  /\ call \in [Chans -> Calls] /\ pc \in [Chans -> Pcs]
  /\ want \in [Chans -> {0, 1}]
  /\ ctx \in [Actors -> Ctx]

\* The chip writes pictures of a channel only while the channel has push
\* buffers: REQBUFS, S_FMT and close give them back only after VP_CHANNEL_EN
\* was cleared, and no resume of another channel's S_FMT sets it meanwhile.
\* And none is enabled while S_FMT changes the bus map with the PCI push
\* disabled, whatever the other channels' calls do.  (On one processor, like
\* the next two: with SMP the tasklet may be about to clear the register for
\* a suspension that a call already finds done.)
EnabledHasBufs == ~SMP => \A c \in en : nbuffers[c] # 0 /\ pci_push

\* The actors in the middle of an event.
Busy == {a \in Actors : ctx[a].step \notin {"none", "wait", "asleep", "lost"}}

\* When no event is under way VP_CHANNEL_EN has exactly the channels whose
\* machine is running: no read-modify-write lost the bit of another channel.
EnableExact ==
  ~SMP /\ Busy = {} =>
    en = {c \in Chans : curr_state[c] \in {"STANDBY", "TRANSFERING", "DONE"}}

\* A channel that is off, by STREAMOFF or close or never on, is stopped when no
\* call of its own runs: S_FMT of another channel does not start it.
StoppedIsOff ==
  \A c \in Chans : ~SMP /\ pc[c] = "idle" /\ ~stream_on[c] =>
    curr_state[c] \in {"UNREGISTER", "SUSPEND"}

\* No two channels change VP_CHANNEL_EN at the same time ("vp is global res, so
\* we must lock it before changing it", isil_preview.c:1957).
Storing == {a \in Actors : ctx[a].step = "store"}
VpExclusive == \A a, b \in Storing : ctx[a].chan = ctx[b].chan

\* On one processor every call returns: its completion comes, and S_FMT,
\* STREAMON and STREAMOFF give vp_mutex back; only an open of an open channel
\* never gives chan->sem back.  With SMP a call that finds a frame being
\* transferred sleeps until the tasklet handles its suspension, and is woken
\* as long as frames come (isil_preview.c:2693-2752).
Waiting(c) ==
  IF SMP THEN SleepsOn(c, "suspend", c) ELSE pc[c] \notin {"idle", "dead"}

CallReturns ==
  \A c \in Chans :
    []<>(SMP => c \in chan_flag) => (Waiting(c) ~> ~Waiting(c))
=============================================================================
