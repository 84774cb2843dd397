------------------------------ MODULE EncChan ------------------------------
(***************************************************************************)
(* The H264 encode channels of a chip: isil_h264_encode.c, the slice head  *)
(* thread of isil_kthread.c, the service queue of isil_chip.c and the read *)
(* side of the device, device_layer/tc_video_en.c.                         *)
(*                                                                         *)
(* A chip encodes one picture at a time, for up to 32 channels.  A channel *)
(* that is enabled waits, IDLE, for the head of its next slice, which a    *)
(* kernel thread prepares when a message asks it to, and for a picture,    *)
(* which the polling of the chip sees.  With both it queues a request for  *)
(* the encoder (STANDBY), encodes when its turn comes (RUNNING), and the   *)
(* interrupt at the end queues the frame for the reader, hands the encoder *)
(* to the next channel and asks for the next head.                         *)
(*                                                                         *)
(* The calls of a channel run one at a time, under tve->sem; the interrupt *)
(* and the thread take fsm_matrix_call_lock of the channel they work for,  *)
(* and from there start the encoder for another channel without its lock.  *)
(* A stack per context holds what is still to be done on the way back.     *)
(* Without SMP nothing else runs as long as a stack is not empty.          *)
(***************************************************************************)
EXTENDS Naturals, SequencesExt

CONSTANTS
  Chans,             \* the encode channels
  None,              \* no channel: NULL
  FRAMES,            \* the frames of a channel's pool
  MSGS,              \* the messages of the thread's pool, 128 in the driver
  SMP,
  Free               \* the channels whose user makes every call at any time;
                     \* the others he opens, enables once, and reads when a
                     \* frame is there

ASSUME EncChanAssumption ==
  /\ IsFiniteSet(Chans) /\ None \notin Chans
  /\ SMP \in BOOLEAN /\ Free \subseteq Chans
  /\ FRAMES \in Nat \ {0} /\ MSGS \in Nat \ {0}

VARIABLES
  curr_state,        \* per channel: the state of its machine
  pending,           \* per channel: its transfer_pending flag
  done,              \* per channel: the completions that are complete
  opened_flag,
  status,            \* per channel: slice_head_and_ad_status
  frame_type,        \* per channel: the frame of curr_producer, or "none"
  force_i,           \* b_force_i_frame
  gop_start,         \* per channel: i_gop_stride or i_p_stride is 0
  b_flush,           \* b_flush_all_frame
  frame_queue,       \* per channel: the types of the frames for the reader
  reader,            \* per channel: the queue's curr_consumer is a frame
  timers,            \* per channel: its message timers that are to fire
  timer_id,          \* per channel: those of the fields nonblock_msg_timer_id
                     \* and delay_msg_timer_id that are not INVALIDTIMERID
  service_queue,     \* the channels that wait for the encoder
  curr_consumer,     \* the channel the encoder serves
  push_chan,         \* the channel whose picture the chip encodes
  msg_queue,         \* the messages to the thread: the channel of each
  taken,             \* the channel of the message the thread works on
  stack,             \* per context: what is left to do, the first first
  polling,           \* per channel: its polling timer is set
  pc,                \* per channel: where the call of its user is
  lost               \* per channel: the reader did not get the picture that
                     \* the next P picture refers to

fsmVars == <<curr_state, pending, done, opened_flag>>
frameVars == <<frame_type, force_i, gop_start, b_flush, lost>>
readVars == <<frame_queue, reader>>
engineVars == <<service_queue, curr_consumer, push_chan>>
timerVars == <<timers, timer_id>>
msgVars == <<timers, timer_id, msg_queue, taken>>
userVars == <<polling, pc>>
vars == <<fsmVars, status, frameVars, readVars, engineVars, msgVars, stack,
          userVars>>

States == {"UNREGISTER", "SUSPEND", "IDLE", "STANDBY", "RUNNING",
           "TRANSFERING", "DONE"}
Contexts == {"isr", "kthread"}
Timers == {"nonblock", "delay"}
Hooks == Timers \cup {"clear"}
Steps == {"trigger", "start", "escape", "rest", "check", "deliver", "unlock"}
           \cup Hooks
Pcs == {"closed", "open", "enable", "suspend", "suspending", "flush",
        "read", "copy", "messages", "close", "closing"}

Init ==
  /\ curr_state = [c \in Chans |-> "UNREGISTER"]
  /\ pending = [c \in Chans |-> "none"]
  /\ done = [c \in Chans |-> {"suspend", "resume", "close"}]
  /\ opened_flag = [c \in Chans |-> FALSE]
  /\ status = [c \in Chans |-> {}]
  /\ frame_type = [c \in Chans |-> "none"]
  /\ force_i = [c \in Chans |-> TRUE] /\ gop_start = [c \in Chans |-> TRUE]
  /\ b_flush = [c \in Chans |-> {}]
  /\ frame_queue = [c \in Chans |-> <<>>] /\ reader = [c \in Chans |-> FALSE]
  /\ timers = [c \in Chans |-> {}] /\ timer_id = [c \in Chans |-> {}]
  /\ service_queue = <<>> /\ curr_consumer = None /\ push_chan = None
  /\ msg_queue = <<>> /\ taken = None
  /\ stack = [x \in Contexts |-> <<>>]
  /\ polling = [c \in Chans |-> FALSE] /\ pc = [c \in Chans |-> "closed"]
  /\ lost = [c \in Chans |-> TRUE]

-----------------------------------------------------------------------------
(* Contexts and locks *)

\* A context holds the lock of a channel until it is back at its unlock.
Locked(c) == \E x \in Contexts : Contains(stack[x], <<"unlock", c>>)
CpuFree == SMP \/ \A x \in Contexts : stack[x] = <<>>
MayLock(c) == CpuFree /\ ~Locked(c)

Top(x, step, c) == stack[x] # <<>> /\ stack[x][1] = <<step, c>>
\* What the context does next replaces what it has done.
Return(x, steps) == stack' = [stack EXCEPT ![x] = steps \o Tail(@)]
Enter(x, steps) == stack[x] = <<>> /\ stack' = [stack EXCEPT ![x] = steps]
Trigger == <<"trigger", None>>

Becomes(c, s) == curr_state' = [curr_state EXCEPT ![c] = s]

\* The entries of a queue that are not e, in their order: entry j is the one with
\* j - 1 of them before it (SelectSeq, in a form that can be proved about).
Without(queue, e) ==
  LET Kept == {i \in DOMAIN queue : queue[i] # e}
      Before(i) == Cardinality({k \in Kept : k < i})
  IN  [j \in 1 .. Cardinality(Kept) |->
         queue[CHOOSE i \in Kept : Before(i) = j - 1]]

-----------------------------------------------------------------------------
(* Messages to the slice head thread *)

MsgFree == Len(msg_queue) + (IF taken = None THEN 0 ELSE 1) < MSGS

\* AddSingleFireTimerJob; several timers of a kind count as one.
AddTimer(c, t) ==
  /\ timers' = [timers EXCEPT ![c] = @ \cup {t}]
  /\ timer_id' = [timer_id EXCEPT ![c] = @ \cup {t}]

\* Faulty variant: without a free message the request is forgotten.
GenReqMsgOnce(c) ==
  /\ msg_queue' = IF MsgFree THEN Append(msg_queue, c) ELSE msg_queue
  /\ UNCHANGED timerVars

\* send_msg without waiting: when the pool is empty a timer tries again.
GenReqMsg(c) ==
  IF "nonblock" \in timer_id[c] THEN UNCHANGED <<timerVars, msg_queue>>
  ELSE IF MsgFree
       THEN msg_queue' = Append(msg_queue, c) /\ UNCHANGED timerVars
       ELSE AddTimer(c, "nonblock") /\ UNCHANGED msg_queue

\* A timer fires in the interrupt and its hook begins: that of "delay" with
\* its id, which is cleared first.
MsgTimer(c, t) ==
  /\ CpuFree /\ t \in timers[c] /\ Enter("isr", <<<<t, c>>>>)
  /\ timers' = [timers EXCEPT ![c] = @ \ {t}]
  /\ timer_id' = [timer_id EXCEPT ![c] = @ \ (IF t = "delay" THEN {t} ELSE {})]
  /\ UNCHANGED <<fsmVars, status, frameVars, readVars, engineVars, msg_queue,
                 taken, userVars>>

\* The hook sends the message, or without a free one sets the timer again.
TimerSend(c, t) ==
  /\ Top("isr", t, c)
  /\ IF MsgFree
     THEN /\ msg_queue' = Append(msg_queue, c) /\ UNCHANGED timerVars
          /\ Return("isr", IF t = "nonblock" THEN <<<<"clear", c>>>> ELSE <<>>)
     ELSE AddTimer(c, t) /\ Return("isr", <<>>) /\ UNCHANGED msg_queue
  /\ UNCHANGED <<fsmVars, status, frameVars, readVars, engineVars, taken,
                 userVars>>

\* The hook of "nonblock" clears the id last, without the controller's lock:
\* on another processor GenReqMsg may meet it before, and drop its request.
TimerClear(c) ==
  /\ Top("isr", "clear", c) /\ Return("isr", <<>>)
  /\ timer_id' = [timer_id EXCEPT ![c] = @ \ {"nonblock"}]
  /\ UNCHANGED <<fsmVars, status, frameVars, readVars, engineVars, timers,
                 msg_queue, taken, userVars>>

\* delete_send_msg_controller; a hook that has begun goes on.
DeleteTimers(c) ==
  /\ timers' = [timers EXCEPT ![c] = @ \ timer_id[c]]
  /\ timer_id' = [timer_id EXCEPT ![c] = {}]

\* kthread_algo_agent: the thread takes its next message.
TakeMsg ==
  /\ CpuFree /\ stack["kthread"] = <<>>
  /\ taken = None /\ msg_queue # <<>>
  /\ taken' = Head(msg_queue) /\ msg_queue' = Tail(msg_queue)
  /\ UNCHANGED <<fsmVars, status, frameVars, readVars, engineVars, timerVars,
                 stack, userVars>>

-----------------------------------------------------------------------------
(* The slice head and the picture *)

Held(c) == (IF frame_type[c] = "none" THEN 0 ELSE 1) + Len(frame_queue[c])
             + (IF reader[c] THEN 1 ELSE 0)

\* Faulty variant: the last frame is given away twice.
FrameFreeOffByOne(c) == Held(c) <= FRAMES

FrameFree(c) == Held(c) < FRAMES

\* get_slice_head_and_ad_status: with both bits the channel is delivered to
\* STANDBY and its request queued, in the context that saw the second.
SetStatus(x, c, bit) ==
  IF status[c] \cup {bit} = {"head", "ad"}
  THEN /\ status' = [status EXCEPT ![c] = {}]
       /\ Becomes(c, "STANDBY")
       /\ service_queue' = Append(service_queue, c)
       /\ Enter(x, <<Trigger, <<"unlock", c>>>>)
  ELSE /\ status' = [status EXCEPT ![c] = @ \cup {bit}]
       /\ UNCHANGED <<curr_state, service_queue, stack>>

\* A picture that waits in its slot is discarded; the bit of an earlier one
\* is cleared only when there is none.
DiscardOrig(c) ==
  \E ad \in {status[c], status[c] \ {"ad"}} : status' = [status EXCEPT ![c] = ad]

\* process_slice_header_req, under the lock of the channel.
HeadNotWanted(c) ==
  /\ taken = c /\ MayLock(c) /\ stack["kthread"] = <<>>
  /\ "head" \in status[c] \/ curr_state[c] # "IDLE"
  /\ DiscardOrig(c) /\ taken' = None
  /\ UNCHANGED <<fsmVars, frameVars, readVars, engineVars, timerVars,
                 msg_queue, stack, userVars>>

\* Faulty variant: nothing tries again.
NoDelay(c) == UNCHANGED timerVars

Delay(c) ==
  IF "delay" \in timer_id[c] THEN UNCHANGED timerVars ELSE AddTimer(c, "delay")

\* All frames, or all packets, are with the reader: try again later.
HeadDelayed(c) ==
  /\ taken = c /\ MayLock(c) /\ stack["kthread"] = <<>>
  /\ "head" \notin status[c] /\ curr_state[c] = "IDLE"
  /\ Held(c) > 0 /\ frame_type[c] = "none"
  /\ Delay(c)
  /\ DiscardOrig(c) /\ taken' = None
  /\ UNCHANGED <<fsmVars, frameVars, readVars, engineVars, msg_queue, stack,
                 userVars>>

\* An IDR picture at the start of a group and when one is forced.  When the
\* thread has a picture to start it releases the message after its unlock.
HeadReady(c) ==
  LET idr == gop_start[c] \/ force_i[c]
  IN /\ taken = c /\ MayLock(c) /\ stack["kthread"] = <<>>
     /\ "head" \notin status[c] /\ curr_state[c] = "IDLE"
     /\ FrameFree(c)
     /\ frame_type' = [frame_type EXCEPT ![c] = IF idr THEN "I" ELSE "P"]
     /\ force_i' = [force_i EXCEPT ![c] = @ /\ ~idr]
     /\ gop_start' = [gop_start EXCEPT ![c] = idr]
     /\ SetStatus("kthread", c, "head")
     /\ taken' = IF "ad" \in status[c] THEN taken ELSE None
     /\ UNCHANGED <<pending, done, opened_flag, b_flush, lost, readVars,
                    curr_consumer, push_chan, timerVars, msg_queue, userVars>>

SliceHead(c) == HeadNotWanted(c) \/ HeadDelayed(c) \/ HeadReady(c)

\* isil_h264_logic_encode_chan_monitor: the polling of the chip sees a
\* picture of the channel that is not one of those to leave out.
Picture(c) ==
  /\ MayLock(c) /\ stack["isr"] = <<>>
  /\ curr_state[c] = "IDLE" /\ "ad" \notin status[c]
  /\ SetStatus("isr", c, "ad")
  /\ UNCHANGED <<pending, done, opened_flag, frameVars, readVars,
                 curr_consumer, push_chan, msgVars, userVars>>

\* While the channel is off its pictures are discarded.
PictureOff(c) ==
  /\ MayLock(c) /\ stack["isr"] = <<>>
  /\ curr_state[c] \in {"UNREGISTER", "SUSPEND"} /\ "ad" \in status[c]
  /\ status' = [status EXCEPT ![c] = @ \ {"ad"}]
  /\ UNCHANGED <<fsmVars, frameVars, readVars, engineVars, msgVars, stack,
                 userVars>>

-----------------------------------------------------------------------------
(* The encoder and its queue *)

\* trigger_chip_pending_service_request
TriggerRequest(x) ==
  /\ stack[x] # <<>> /\ stack[x][1] = Trigger
  /\ IF curr_consumer # None \/ service_queue = <<>>
     THEN Return(x, <<>>) /\ UNCHANGED <<curr_consumer, service_queue>>
     ELSE /\ curr_consumer' = Head(service_queue)
          /\ service_queue' = Tail(service_queue)
          /\ Return(x, <<<<"start", curr_consumer'>>>>)
  /\ UNCHANGED <<fsmVars, status, frameVars, readVars, push_chan, msgVars,
                 userVars>>

\* flush_curr_producer_frame: the frame that is left, the flags that are.
Flushed(c) == IF "producer" \in b_flush[c] THEN "none" ELSE frame_type[c]
FlushProducer(c) == b_flush' = [b_flush EXCEPT ![c] = @ \ {"producer"}]

\* Faulty variant: after a picture is lost P pictures go on.
ForceNothing(c) == UNCHANGED force_i

ForceI(c) == force_i' = [force_i EXCEPT ![c] = TRUE]

\* start_encode: the chip starts, or without a frame the encoder is released
\* and handed on before the channel cleans up.
StartEncode(x, c) ==
  /\ Top(x, "start", c)
  /\ Becomes(c, "RUNNING")
  /\ FlushProducer(c) /\ frame_type' = [frame_type EXCEPT ![c] = Flushed(c)]
  /\ IF Flushed(c) # "none"
     THEN push_chan' = c /\ Return(x, <<>>) /\ UNCHANGED curr_consumer
     ELSE /\ curr_consumer' = None
          /\ Return(x, <<Trigger, <<"escape", c>>>>)
          /\ UNCHANGED push_chan
  /\ UNCHANGED <<pending, done, opened_flag, status, force_i, gop_start, lost,
                 readVars, service_queue, msgVars, userVars>>

\* Faulty variant: a call that waits for the end of the picture is not seen.
SkipPending(c) == <<"deliver", c>>

AfterPicture(c) == <<"check", c>>

\* state_err_escape, after the trigger; the strides count on and may wrap.
Escape(x, c) ==
  /\ Top(x, "escape", c)
  /\ \E start \in BOOLEAN : gop_start' = [gop_start EXCEPT ![c] = start]
  /\ frame_type' = [frame_type EXCEPT ![c] = "none"]
  /\ ForceI(c)
  /\ Becomes(c, "DONE") /\ Return(x, <<AfterPicture(c)>>)
  /\ UNCHANGED <<pending, done, opened_flag, status, b_flush, lost, readVars,
                 engineVars, msgVars, userVars>>

\* irq_func until notify has handed the encoder on.
Irq(c) ==
  /\ push_chan = c /\ MayLock(c)
  /\ Becomes(c, "TRANSFERING")
  /\ push_chan' = None /\ curr_consumer' = None
  /\ \E start \in BOOLEAN : gop_start' = [gop_start EXCEPT ![c] = start]
  /\ Enter("isr", <<Trigger, <<"rest", c>>, <<"unlock", c>>>>)
  /\ UNCHANGED <<pending, done, opened_flag, status, frame_type, force_i,
                 b_flush, lost, readVars, service_queue, msgVars, userVars>>

\* The rest of irq_func: the frame goes to the reader ...
FrameReady(c) ==
  /\ Top("isr", "rest", c)
  /\ frame_type[c] # "none" /\ b_flush[c] = {}
  /\ frame_queue' = [frame_queue EXCEPT ![c] = Append(@, frame_type[c])]
  /\ lost' = [lost EXCEPT ![c] = @ /\ frame_type[c] # "I"]
  /\ frame_type' = [frame_type EXCEPT ![c] = "none"]
  /\ Becomes(c, "DONE") /\ Return("isr", <<AfterPicture(c)>>)
  /\ UNCHANGED <<pending, done, opened_flag, status, force_i, gop_start,
                 b_flush, reader, engineVars, msgVars, userVars>>

\* ... or is dropped: it does not fit, is damaged or is to be flushed.
FrameDropped(c) ==
  /\ Top("isr", "rest", c)
  /\ FlushProducer(c)
  /\ frame_type' = [frame_type EXCEPT ![c] = "none"]
  /\ ForceI(c)
  /\ lost' = [lost EXCEPT ![c] = TRUE]
  /\ Becomes(c, "DONE") /\ Return("isr", <<AfterPicture(c)>>)
  /\ UNCHANGED <<pending, done, opened_flag, status, gop_start, readVars,
                 engineVars, msgVars, userVars>>

Complete(c, e) == done' = [done EXCEPT ![c] = @ \cup {e}]

\* have_any_pending_event, and the action of the event in DONE.
CheckPending(x, c) ==
  /\ Top(x, "check", c)
  /\ pending' = [pending EXCEPT ![c] = "none"]
  /\ CASE pending[c] = "none" ->
            /\ Return(x, <<<<"deliver", c>>>>)
            /\ UNCHANGED <<curr_state, done, opened_flag>>
       [] pending[c] = "suspend" ->
            /\ Becomes(c, "SUSPEND") /\ Complete(c, "suspend")
            /\ Return(x, <<>>) /\ UNCHANGED opened_flag
       [] pending[c] = "resume" ->
            /\ Complete(c, "resume") /\ Return(x, <<<<"deliver", c>>>>)
            /\ UNCHANGED <<curr_state, opened_flag>>
       [] pending[c] = "close" ->
            /\ Becomes(c, "UNREGISTER") /\ Complete(c, "close")
            /\ opened_flag' = [opened_flag EXCEPT ![c] = FALSE]
            /\ Return(x, <<>>)
  /\ UNCHANGED <<status, frameVars, readVars, engineVars, msgVars, userVars>>

\* deliver in DONE; nothing when a call changed the state in between.
Deliver(x, c) ==
  /\ Top(x, "deliver", c) /\ Return(x, <<>>)
  /\ IF curr_state[c] = "DONE"
     THEN Becomes(c, "IDLE") /\ GenReqMsg(c)
     ELSE UNCHANGED <<curr_state, timerVars, msg_queue>>
  /\ UNCHANGED <<pending, done, opened_flag, status, frameVars, readVars,
                 engineVars, taken, userVars>>

Unlock(x, c) ==
  /\ Top(x, "unlock", c) /\ Return(x, <<>>)
  /\ taken' = IF x = "kthread" THEN None ELSE taken
  /\ UNCHANGED <<fsmVars, status, frameVars, readVars, engineVars, timerVars,
                 msg_queue, userVars>>

-----------------------------------------------------------------------------
(* The calls of the user *)

Goes(c, s) == pc' = [pc EXCEPT ![c] = s]

\* An event that has to wait for the end of the picture.
Raise(c, e) == pending' = [pending EXCEPT ![c] = e]
\* Faulty variant: only the transfer keeps a channel busy.
BusyTransfering(c) == curr_state[c] = "TRANSFERING"

Busy(c) ==
  \/ curr_state[c] \in {"RUNNING", "TRANSFERING"}
  \/ curr_state[c] = "STANDBY" /\ ~Contains(service_queue, c)
\* Faulty variant: the request stays in the queue.
NoWithdraw(c) == UNCHANGED service_queue

Withdraw(c) == service_queue' = Without(service_queue, c)

\* videoh264_en_open and h264_encode_hcd_interface_open
Open(c) ==
  /\ pc[c] = "closed" /\ MayLock(c)
  /\ opened_flag' = [opened_flag EXCEPT ![c] = TRUE]
  /\ Becomes(c, "SUSPEND") /\ status' = [status EXCEPT ![c] = {}]
  /\ force_i' = [force_i EXCEPT ![c] = TRUE]
  /\ gop_start' = [gop_start EXCEPT ![c] = TRUE]
  /\ done' = [done EXCEPT ![c] = {"suspend", "resume"}]
  /\ polling' = [polling EXCEPT ![c] = TRUE] /\ Goes(c, "open")
  /\ UNCHANGED <<pending, frame_type, b_flush, lost, readVars, engineVars,
                 msgVars, stack>>

\* h264_encode_hcd_interface_resume: from SUSPEND the chip gets another
\* reference picture.
Resume(c) ==
  /\ pc[c] = "open" /\ MayLock(c)
  /\ c \in Free \/ curr_state[c] = "SUSPEND"
  /\ Goes(c, "enable")
  /\ \/ /\ Busy(c) /\ Raise(c, "resume")
        /\ done' = [done EXCEPT ![c] = @ \ {"resume"}]
        /\ UNCHANGED <<curr_state, lost, timerVars, msg_queue>>
     \/ /\ ~Busy(c) /\ curr_state[c] # "SUSPEND" /\ curr_state[c] # "DONE"
        /\ UNCHANGED <<curr_state, pending, done, lost, timerVars, msg_queue>>
     \/ /\ curr_state[c] \in {"SUSPEND", "DONE"}
        /\ Becomes(c, "IDLE") /\ GenReqMsg(c)
        /\ lost' = [lost EXCEPT ![c] = @ \/ curr_state[c] = "SUSPEND"]
        /\ UNCHANGED <<pending, done>>
  /\ UNCHANGED <<opened_flag, status, frame_type, force_i, gop_start, b_flush,
                 readVars, engineVars, taken, stack, polling>>

Resumed(c) ==
  /\ pc[c] = "enable" /\ "resume" \in done[c] /\ CpuFree /\ Goes(c, "open")
  /\ UNCHANGED <<fsmVars, status, frameVars, readVars, engineVars, msgVars,
                 stack, polling>>

\* h264_encode_hcd_interface_suspend: the timers go first, ...
Suspend(c) ==
  /\ c \in Free /\ pc[c] = "open" /\ CpuFree
  /\ done' = [done EXCEPT ![c] = @ \ {"suspend"}]
  /\ DeleteTimers(c) /\ Goes(c, "suspend")
  /\ UNCHANGED <<curr_state, pending, opened_flag, status, frameVars, readVars,
                 engineVars, msg_queue, taken, stack, polling>>

\* ... then the event, ...
GenSuspend(c) ==
  /\ pc[c] = "suspend" /\ MayLock(c) /\ Goes(c, "suspending")
  /\ IF Busy(c)
     THEN Raise(c, "suspend") /\ UNCHANGED <<curr_state, done, service_queue>>
     ELSE /\ Becomes(c, "SUSPEND") /\ Complete(c, "suspend") /\ Withdraw(c)
          /\ UNCHANGED pending
  /\ UNCHANGED <<opened_flag, status, frameVars, readVars, curr_consumer,
                 push_chan, msgVars, stack, polling>>

\* ... and what was prepared is dropped.
Suspended(c) ==
  /\ pc[c] = "suspending" /\ "suspend" \in done[c] /\ CpuFree
  /\ status' = [status EXCEPT ![c] = @ \ {"head"}]
  /\ frame_type' = [frame_type EXCEPT ![c] = "none"] /\ Goes(c, "flush")
  /\ UNCHANGED <<fsmVars, force_i, gop_start, b_flush, lost, readVars,
                 engineVars, msgVars, stack, polling>>

\* flush_all_frame
FlushAll(c) ==
  /\ MayLock(c) /\ Goes(c, "open")
  /\ b_flush' = [b_flush EXCEPT ![c] = {"producer", "consumer"}]
  /\ ForceI(c)
  /\ frame_queue' = [frame_queue EXCEPT ![c] = <<>>]
  /\ lost' = [lost EXCEPT ![c] = TRUE]
  /\ UNCHANGED <<fsmVars, status, frame_type, gop_start, reader, engineVars,
                 msgVars, stack, polling>>

\* A call of its own, and what the SDK has follow when it disables.
Flush(c) == c \in Free /\ pc[c] = "open" /\ FlushAll(c)
Disabled(c) == pc[c] = "flush" /\ FlushAll(c)

\* videoh264_en_release and h264_encode_hcd_interface_close: the timers, ...
Close(c) ==
  /\ c \in Free /\ pc[c] = "open" /\ CpuFree
  /\ polling' = [polling EXCEPT ![c] = FALSE]
  /\ DeleteTimers(c) /\ Goes(c, "messages")
  /\ UNCHANGED <<fsmVars, status, frameVars, readVars, engineVars, msg_queue,
                 taken, stack>>

\* ... the messages that the thread has not taken, ...
CloseMsgs(c) ==
  /\ pc[c] = "messages" /\ CpuFree /\ Goes(c, "close")
  /\ msg_queue' = Without(msg_queue, c)
  /\ UNCHANGED <<fsmVars, status, frameVars, readVars, engineVars, timerVars,
                 taken, stack, polling>>

\* ... the event, for which unregister_node_from_table waits, ...
GenClose(c) ==
  /\ pc[c] = "close" /\ MayLock(c) /\ Goes(c, "closing")
  /\ IF Busy(c)
     THEN /\ Raise(c, "close")
          /\ UNCHANGED <<curr_state, done, opened_flag, service_queue>>
     ELSE /\ Becomes(c, "UNREGISTER") /\ Complete(c, "close") /\ Withdraw(c)
          /\ opened_flag' = [opened_flag EXCEPT ![c] = FALSE]
          /\ UNCHANGED pending
  /\ UNCHANGED <<status, frameVars, readVars, curr_consumer, push_chan,
                 msgVars, stack, polling>>

\* ... and the frames; what was to be flushed stays so.
Closed(c) ==
  /\ pc[c] = "closing" /\ done[c] = {"suspend", "resume", "close"} /\ CpuFree
  /\ Becomes(c, "UNREGISTER") /\ status' = [status EXCEPT ![c] = {}]
  /\ frame_type' = [frame_type EXCEPT ![c] = "none"]
  /\ frame_queue' = [frame_queue EXCEPT ![c] = <<>>]
  /\ reader' = [reader EXCEPT ![c] = FALSE]
  /\ force_i' = [force_i EXCEPT ![c] = TRUE]
  /\ gop_start' = [gop_start EXCEPT ![c] = TRUE]
  /\ lost' = [lost EXCEPT ![c] = TRUE] /\ Goes(c, "closed")
  /\ UNCHANGED <<pending, done, opened_flag, b_flush, engineVars, msgVars,
                 stack, polling>>

-----------------------------------------------------------------------------
(* The reader and the polling timer *)

\* flush_curr_consumer_frame: the frame the reader holds and those queued.
FlushConsumer(c) ==
  LET flush == "consumer" \in b_flush[c]
  IN /\ reader' = [reader EXCEPT ![c] = @ /\ ~flush]
     /\ frame_queue' = [frame_queue EXCEPT ![c] = IF flush THEN <<>> ELSE @]
     /\ lost' = [lost EXCEPT ![c] = @ \/ (flush /\ frame_queue[c] # <<>>)]
     /\ b_flush' = [b_flush EXCEPT ![c] = @ \ {"consumer"}]

\* video_h264_en_polling
Poll(c) ==
  /\ polling[c] /\ MayLock(c) /\ "consumer" \in b_flush[c]
  /\ FlushConsumer(c)
  /\ UNCHANGED <<fsmVars, status, frame_type, force_i, gop_start, engineVars,
                 msgVars, stack, userVars>>

\* Faulty variant: read leaves it to the timer to flush.
ReadOnly(c) ==
  /\ pc[c] = "open" /\ MayLock(c)
  /\ c \in Free \/ reader[c] \/ frame_queue[c] # <<>>
  /\ Goes(c, "read") /\ UNCHANGED <<readVars, frameVars, engineVars>>
  /\ UNCHANGED <<fsmVars, status, msgVars, stack, polling>>

\* videoh264_en_read: a frame that is to be flushed goes first, ...
Read(c) ==
  /\ pc[c] = "open" /\ MayLock(c)
  /\ c \in Free \/ reader[c] \/ frame_queue[c] # <<>>
  /\ Goes(c, "read") /\ FlushConsumer(c)
  /\ UNCHANGED <<fsmVars, status, frame_type, force_i, gop_start, engineVars,
                 msgVars, stack, polling>>

\* ... then the reader takes the next one, unless it kept one, ...
GetConsumer(c) ==
  /\ pc[c] = "read" /\ CpuFree
  /\ IF reader[c] \/ frame_queue[c] # <<>>
     THEN /\ reader' = [reader EXCEPT ![c] = TRUE] /\ Goes(c, "copy")
          /\ frame_queue' = [frame_queue EXCEPT ![c] =
                               IF reader[c] THEN @ ELSE Tail(@)]
     ELSE Goes(c, "open") /\ UNCHANGED readVars
  /\ UNCHANGED <<fsmVars, status, frameVars, engineVars, msgVars, stack,
                 polling>>

\* ... copies it and releases it, or keeps it when it could not.
Copied(c) ==
  /\ pc[c] = "copy" /\ CpuFree /\ Goes(c, "open")
  /\ \E kept \in BOOLEAN : reader' = [reader EXCEPT ![c] = @ /\ kept]
  /\ UNCHANGED <<fsmVars, status, frameVars, frame_queue, engineVars, msgVars,
                 stack, polling>>

-----------------------------------------------------------------------------
Engine(x) ==
  \/ TriggerRequest(x)
  \/ \E c \in Chans : \/ StartEncode(x, c) \/ Escape(x, c)
                      \/ CheckPending(x, c) \/ Deliver(x, c) \/ Unlock(x, c)

Hook(c) == (\E t \in Timers : TimerSend(c, t)) \/ TimerClear(c)
Interrupt(c) == Irq(c) \/ FrameReady(c) \/ FrameDropped(c)
Call(c) ==
  \/ Open(c) \/ Resume(c) \/ Suspend(c) \/ Flush(c) \/ Close(c) \/ Read(c)
Continue(c) ==
  \/ Resumed(c) \/ GenSuspend(c) \/ Suspended(c) \/ Disabled(c)
  \/ CloseMsgs(c) \/ GenClose(c) \/ Closed(c) \/ GetConsumer(c) \/ Copied(c)

Next ==
  \/ \E x \in Contexts : Engine(x)
  \/ TakeMsg
  \/ \E c \in Chans :
       \/ SliceHead(c) \/ Picture(c) \/ PictureOff(c) \/ Interrupt(c)
       \/ Call(c) \/ Continue(c) \/ Poll(c) \/ Hook(c)
       \/ \E t \in Timers : MsgTimer(c, t)

Spec == Init /\ [][Next]_vars

\* The threads and the interrupts run and the timers fire, also when calls of
\* the channel take its lock again and again; a call that can go on goes on.
\* The chip answers, video comes, and not every frame is damaged.  Nothing
\* makes a user call, read or keep its frame from being released.
Fairness ==
  /\ \A x \in Contexts : WF_vars(Engine(x))
  /\ SF_vars(TakeMsg)
  /\ \A c \in Chans :
       /\ SF_vars(SliceHead(c)) /\ SF_vars(Picture(c)) /\ SF_vars(Irq(c))
       /\ WF_vars(FrameReady(c) \/ FrameDropped(c)) /\ SF_vars(FrameReady(c))
       /\ SF_vars(Continue(c)) /\ WF_vars(Poll(c)) /\ WF_vars(Hook(c))
       /\ \A t \in Timers : SF_vars(MsgTimer(c, t))

FairSpec == Spec /\ Fairness

-----------------------------------------------------------------------------
(* Properties *)

\* Every variable keeps its type: a channel never has more frames than its
\* pool, and no more requests wait for the encoder than there are channels.
TypeOK ==
  /\ curr_state \in [Chans -> States]
  /\ pending \in [Chans -> {"none", "suspend", "resume", "close"}]
  /\ done \in [Chans -> SUBSET {"suspend", "resume", "close"}]
  /\ opened_flag \in [Chans -> BOOLEAN]
  /\ status \in [Chans -> SUBSET {"head", "ad"}]
  /\ frame_type \in [Chans -> {"none", "I", "P"}]
  /\ force_i \in [Chans -> BOOLEAN] /\ gop_start \in [Chans -> BOOLEAN]
  /\ b_flush \in [Chans -> SUBSET {"producer", "consumer"}]
  /\ frame_queue \in [Chans -> BoundedSeq({"I", "P"}, FRAMES)]
  /\ reader \in [Chans -> BOOLEAN] /\ lost \in [Chans -> BOOLEAN]
  /\ timers \in [Chans -> SUBSET Timers] /\ timer_id \in [Chans -> SUBSET Timers]
  /\ service_queue \in BoundedSeq(Chans, Cardinality(Chans))
  /\ {curr_consumer, push_chan, taken} \subseteq Chans \cup {None}
  /\ msg_queue \in BoundedSeq(Chans, MSGS)
  /\ stack \in [Contexts -> Seq(Steps \X (Chans \cup {None}))]
  /\ polling \in [Chans -> BOOLEAN] /\ pc \in [Chans -> Pcs]

On(x, step, c) == Contains(stack[x], <<step, c>>)
Starting(c) == \E x \in Contexts : On(x, "start", c)
Escaping(c) == \E x \in Contexts : On(x, "escape", c)

\* A channel that waits in the queue is served: the encoder works, or the
\* context that freed it still has to look (isil_chip.c:1083-1137).
EngineNotIdle ==
  service_queue # <<>> =>
    curr_consumer # None \/ \E x \in Contexts : Contains(stack[x], Trigger)

\* The machines, the queue and the chip agree on whom the encoder serves: a
\* channel asks for it once, it works for an open channel with a frame, a
\* call, an escape or another channel's interrupt never leaves it with one
\* that is gone, nor idle while one waits (isil_chip.c:1020-1137,
\* isil_h264_encode.c:4030-4262).
EngineOwner ==
  /\ IsInjective(service_queue)
  /\ \A c \in Chans :
       /\ Contains(service_queue, c) => curr_state[c] = "STANDBY"
       /\ curr_state[c] = "STANDBY" =>
            Contains(service_queue, c) \/ (curr_consumer = c /\ Starting(c))
       /\ Starting(c) => curr_consumer = c /\ frame_type[c] # "none"
       /\ push_chan = c =>
            /\ curr_consumer = c /\ curr_state[c] = "RUNNING"
            /\ frame_type[c] # "none" /\ opened_flag[c]
       /\ curr_state[c] = "RUNNING" => push_chan = c \/ Escaping(c)
  /\ curr_consumer # None => push_chan = curr_consumer \/ Starting(curr_consumer)
  /\ EngineNotIdle

\* A channel that waits for its slice head gets one: there is a message to
\* the thread, or a timer or its hook that will send it, also when the pool of
\* messages was empty or a call has just stopped the timers
\* (isil_devices_machine.c:961-1072, isil_kthread.c:6-245).  So it is on one
\* processor; on two, TimerClear may come after the request it let drop.
HeadComes ==
  \A c \in Chans :
    curr_state[c] = "IDLE" /\ pc[c] \notin {"suspend", "messages", "close"} =>
      \/ "head" \in status[c] \/ timers[c] # {} \/ Contains(msg_queue, c)
      \/ taken = c /\ stack["kthread"] = <<>>
      \/ \E t \in Timers : Top("isr", t, c)

\* A channel that its user has turned off, while no call of his runs, ...
Off(c) == \/ pc[c] \in {"flush", "closed"}
          \/ pc[c] \in {"open", "read", "copy"} /\ curr_state[c] = "SUSPEND"

\* ... has nothing under way: no frame to fill, no request, no picture in the
\* chip, although messages, timers and interrupts of the time before may
\* still come (isil_h264_encode.c:4898-4991).
OffIsQuiet ==
  \A c \in Chans : Off(c) =>
    /\ curr_state[c] \in {"UNREGISTER", "SUSPEND"} /\ pending[c] = "none"
    /\ frame_type[c] = "none" /\ "head" \notin status[c]
    /\ ~Contains(service_queue, c) /\ c \notin {curr_consumer, push_chan}

\* The frame that the reader copies stays his, although the polling timer may
\* flush the frame he holds at any time (tc_video_en.c:325-345, 395-455).
ReaderKeepsFrame == \A c \in Chans : pc[c] = "copy" => reader[c]

\* What the machine, the flags and the queues of a channel come to for its
\* reader ...
Mode(c) == CASE curr_state[c] = "UNREGISTER" -> "closed"
             [] curr_state[c] = "SUSPEND" -> "off"
             [] OTHER -> "on"

Stream == INSTANCE EncStream
  WITH mode <- [c \in Chans |-> Mode(c)], out <- frame_queue, gap <- lost

\* ... is a stream he can decode: frames come only while the channel is on,
\* and after a lost or flushed picture, or another reference in the chip, an
\* I frame comes before the next P frame (isil_h264_encode.c:3409-3632).
IsStream == Stream!Spec

\* Every call returns: the machine completes what it waits for, whatever the
\* interrupt, the thread and an escape do meanwhile.
CallReturns ==
  \A c \in Chans : pc[c] \notin {"open", "closed"} ~> pc[c] \in {"open", "closed"}

\* A channel that is and stays on, with no flush to come, goes on to give its
\* reader frames; when he held them all, it starts again once he releases.
EnabledEncodes ==
  \A c \in Chans :
    <>[](Mode(c) = "on" /\ b_flush[c] = {})
      => []<>(frame_queue[c] # <<>> \/ reader[c])
=============================================================================
