------------------------------ MODULE VideoBuf ------------------------------
(***************************************************************************)
(* The frames and packets of an H264 encode channel of the driver:         *)
(* isil_new_buf.c (nodes, pools, queues), isil_h264_video_buf.c (packets,  *)
(* frames and their queues), and those who use them: the slice head thread *)
(* (isil_kthread.c), the encoder's interrupt (isil_h264_encode.c) and the  *)
(* read of device_layer/tc_video_en.c.                                     *)
(*                                                                         *)
(* The thread takes a frame and its first packet, the interrupt copies the *)
(* picture into as many packets as it needs, the reader copies them to the *)
(* user and gives each back as he goes.  Interrupt and thread exclude each *)
(* other (fsm_matrix_call_lock), the calls of a channel do (tve->sem), but *)
(* the reader runs beside the interrupt, on another processor.             *)
(*                                                                         *)
(* Lengths count packets, the header of a stream is left out.  EncChan has *)
(* the machine of the channel, which is only hinted at here (engine).      *)
(***************************************************************************)
EXTENDS Naturals, SequencesExt

CONSTANTS
  Frames, Packets,   \* what the pools of the channel hold
  None,              \* NULL
  Rooms,             \* the lengths of the buffers the user reads into
  MaxLen,            \* the packets of the largest picture, H264_BUF_SIZE
  MaxCalls           \* bound: flushes, disables and closes

ASSUME VideoBufAssumption ==
  /\ None \notin Frames \cup Packets
  /\ MaxLen \in Nat \ {0} /\ Rooms \subseteq Nat \ {0} /\ MaxCalls \in Nat

VARIABLES
  frame_pool, packet_pool,
  buf,               \* per frame: its video_packet_queue
  frame_type,        \* per frame: "IDR" or "P"
  frame_len,         \* per frame: the packets of its picture
  force_i,           \* the next frame is an IDR frame
  frame_queue,       \* the frames for the reader,
  curr_producer,     \* the frame being encoded
  curr_consumer,     \* and the one being read
  engine,            \* "idle", "ready", "encoding", or in the "irq"
  left,              \* the packets the interrupt has still to fill
  b_flush,           \* b_flush_all_frame
  reader,            \* where read is
  room,              \* its count
  slience_discard,   \* if_slience_discard
  copied,            \* the packets of the frame that read has copied
  calls

poolVars == <<frame_pool, packet_pool, buf>>
queueVars == <<frame_queue, curr_producer, curr_consumer>>
frameVars == <<frame_type, frame_len, force_i>>
engineVars == <<engine, left>>
readVars == <<reader, room, slience_discard, copied>>
vars == <<poolVars, queueVars, frameVars, engineVars, b_flush, readVars, calls>>

NoPackets == [queue |-> <<>>, producer |-> None]

Init ==
  /\ frame_pool = Frames /\ packet_pool = Packets
  /\ buf = [f \in Frames |-> NoPackets]
  /\ frame_type = [f \in Frames |-> "IDR"]
  /\ frame_len = [f \in Frames |-> 0] /\ force_i = TRUE
  /\ frame_queue = <<>> /\ curr_producer = None /\ curr_consumer = None
  /\ engine = "idle" /\ left = 0 /\ b_flush = {}
  /\ reader = "idle" /\ room = 0 /\ slience_discard = FALSE /\ copied = 0
  /\ calls = 0

-----------------------------------------------------------------------------
(* Packets and frames *)

\* Faulty variant: remove_isil_video_packet_tcb_queue forgets the packet
\* that is being filled.
HeldQueued(f) == ToSet(buf[f].queue)

\* The packets of a frame, which go back with it.
Held(f) == ToSet(buf[f].queue) \cup ({buf[f].producer} \ {None})

\* isil_video_frame_tcb_release, the only reference: first the packets, then
\* the frame.
ReleaseFrames(fs) ==
  /\ packet_pool' = packet_pool \cup UNION {Held(f) : f \in fs}
  /\ buf' = [f \in Frames |-> IF f \in fs THEN NoPackets ELSE buf[f]]
  /\ frame_pool' = frame_pool \cup fs

\* The frame a queue points to, if it does.
Given(f) == {f} \ {None}

-----------------------------------------------------------------------------
(* The slice head thread and the start of the encoder *)

\* process_slice_header_req.  Without a frame, or a packet for it, nothing is
\* kept, and a timer tries again.
SliceHead ==
  /\ engine = "idle" /\ curr_producer = None
  /\ frame_pool # {} /\ packet_pool # {}
  /\ \E f \in frame_pool, p \in packet_pool,
        type \in IF force_i THEN {"IDR"} ELSE {"IDR", "P"} :
       /\ frame_pool' = frame_pool \ {f} /\ packet_pool' = packet_pool \ {p}
       /\ buf' = [buf EXCEPT ![f].producer = p]
       /\ frame_type' = [frame_type EXCEPT ![f] = type]
       /\ curr_producer' = f
  /\ force_i' = FALSE
  /\ engine' = "ready"
  /\ UNCHANGED <<frame_len, frame_queue, curr_consumer, left, b_flush, readVars,
                 calls>>

\* release_curr_producer; the channel has nothing under way then.
ReleaseProducer ==
  /\ ReleaseFrames(Given(curr_producer)) /\ curr_producer' = None
  /\ engine' = "idle"
  /\ UNCHANGED <<frame_type, frame_len, frame_queue, curr_consumer>>

\* ... and force_I_frame, where a picture is lost.
DropProducer == ReleaseProducer /\ force_i' = TRUE

\* start_encode; a flushed frame is not encoded.
StartEncode ==
  /\ engine = "ready"
  /\ b_flush' = b_flush \ {"producer"}
  /\ IF "producer" \in b_flush
     THEN DropProducer
     ELSE engine' = "encoding" /\ UNCHANGED <<poolVars, queueVars, frameVars>>
  /\ UNCHANGED <<left, readVars, calls>>

-----------------------------------------------------------------------------
(* The interrupt at the end of a picture *)

\* A frame that was flushed meanwhile, or whose length is wrong, is dropped.
IrqDrops ==
  /\ engine = "encoding"
  /\ b_flush' = b_flush \ {"producer"}
  /\ DropProducer
  /\ UNCHANGED <<left, readVars, calls>>

Irq ==
  /\ engine = "encoding" /\ "producer" \notin b_flush
  /\ left' \in 1 .. MaxLen
  /\ frame_len' = [frame_len EXCEPT ![curr_producer] = left']
  /\ engine' = "irq"
  /\ UNCHANGED <<poolVars, queueVars, frame_type, force_i, b_flush, readVars, calls>>

\* put_curr_producer_into_queue of the packet that is full.
Filled(b) == [b EXCEPT !.queue = Append(@, b.producer), !.producer = None]

IrqNextPacket ==
  /\ engine = "irq" /\ left > 1
  /\ \E p \in packet_pool :
       /\ packet_pool' = packet_pool \ {p}
       /\ buf' = [buf EXCEPT ![curr_producer] = [Filled(@) EXCEPT !.producer = p]]
  /\ left' = left - 1
  /\ UNCHANGED <<frame_pool, queueVars, frameVars, engine, b_flush, readVars,
                 calls>>

\* Faulty variant: frame_is_err is not looked at.
ErrIgnored ==
  /\ engine = "irq" /\ left > 1 /\ packet_pool = {}
  /\ left' = 0
  /\ buf' = [buf EXCEPT ![curr_producer] = Filled(@)]
  /\ frame_queue' = Append(frame_queue, curr_producer) /\ curr_producer' = None
  /\ engine' = "idle"
  /\ UNCHANGED <<frame_pool, packet_pool, frameVars, curr_consumer, b_flush,
                 readVars, calls>>

\* There is no packet left: frame_is_err, and the frame is dropped.
IrqNoPacket ==
  /\ engine = "irq" /\ left > 1 /\ packet_pool = {}
  /\ left' = 0
  /\ DropProducer
  /\ UNCHANGED <<b_flush, readVars, calls>>

\* The last packet is full: the frame is the reader's, if it is not flushed.
IrqFrame ==
  /\ engine = "irq" /\ left = 1
  /\ left' = 0
  /\ IF b_flush # {}
     THEN DropProducer
     ELSE /\ buf' = [buf EXCEPT ![curr_producer] = Filled(@)]
          /\ frame_queue' = Append(frame_queue, curr_producer)
          /\ curr_producer' = None /\ engine' = "idle"
          /\ UNCHANGED <<frame_pool, packet_pool, frameVars, curr_consumer>>
  /\ UNCHANGED <<b_flush, readVars, calls>>

-----------------------------------------------------------------------------
(* The reader *)

FsmUnlocked == engine # "irq"

\* flush_curr_consumer_frame
FlushConsumer ==
  /\ FsmUnlocked
  /\ IF "consumer" \in b_flush
     THEN /\ ReleaseFrames(Given(curr_consumer) \cup ToSet(frame_queue))
          /\ curr_consumer' = None /\ frame_queue' = <<>>
          /\ b_flush' = b_flush \ {"consumer"}
     ELSE UNCHANGED <<poolVars, curr_consumer, frame_queue, b_flush>>
  /\ UNCHANGED <<curr_producer, frameVars, engineVars, calls>>

\* videoh264_en_read
Read ==
  /\ reader = "idle" /\ FlushConsumer
  /\ reader' = "get" /\ room' \in Rooms /\ copied' = 0
  /\ UNCHANGED slience_discard

\* video_h264_en_polling, which does not take tve->sem.
Poll == FlushConsumer /\ UNCHANGED readVars

\* try_get_curr_consumer_from_queue
GetConsumer ==
  /\ reader = "get"
  /\ IF curr_consumer = None /\ frame_queue # <<>>
     THEN curr_consumer' = Head(frame_queue) /\ frame_queue' = Tail(frame_queue)
     ELSE UNCHANGED <<curr_consumer, frame_queue>>
  /\ reader' = IF curr_consumer' = None THEN "idle" ELSE "submit"
  /\ UNCHANGED <<poolVars, curr_producer, frameVars, engineVars, b_flush, room,
                 slience_discard, copied, calls>>

Fits == frame_len[curr_consumer] <= room

\* isil_video_frame_tcb_submit of a P frame: one that does not fit is left
\* where it is, to be discarded.
SubmitP ==
  /\ reader = "submit" /\ frame_type[curr_consumer] = "P"
  /\ reader' = IF Fits THEN "copy" ELSE "idle"
  /\ slience_discard' = (slience_discard \/ ~Fits)
  /\ UNCHANGED <<poolVars, queueVars, frameVars, engineVars, b_flush, room,
                 copied, calls>>

\* release_curr_consumer of a packet queue, whose packet was copied.
GiveBack(b) == [b EXCEPT !.queue = Tail(@)]
CopyPacket ==
  /\ buf[curr_consumer].queue # <<>>
  /\ packet_pool' = packet_pool \cup {Head(buf[curr_consumer].queue)}
  /\ buf' = [buf EXCEPT ![curr_consumer] = GiveBack(@)]
  /\ copied' = copied + 1
  /\ UNCHANGED <<frame_pool, queueVars, frameVars, engineVars, b_flush, room,
                 calls>>

\* ... of an IDR frame: it waits for the first packet, with SPS and PPS, and
\* a frame that does not fit is discarded from the second on.
SubmitIDR ==
  /\ reader = "submit" /\ frame_type[curr_consumer] = "IDR"
  /\ CopyPacket
  /\ reader' = "copy" /\ slience_discard' = ~Fits

Copy ==
  /\ reader = "copy"
  /\ CopyPacket
  /\ UNCHANGED <<reader, slience_discard>>

Copied == reader = "copy" /\ buf[curr_consumer].queue = <<>>

\* Faulty variant: read leaves the frame it delivered in curr_consumer.
FrameKept ==
  /\ Copied
  /\ reader' = "idle"
  /\ UNCHANGED <<poolVars, queueVars, frameVars, engineVars, b_flush, room,
                 slience_discard, copied, calls>>

\* The frame is released, unless it was discarded: then submit returns 0, and
\* read returns without.
Delivered ==
  /\ Copied
  /\ reader' = "idle"
  /\ IF slience_discard
     THEN UNCHANGED <<poolVars, curr_consumer>>
     ELSE ReleaseFrames({curr_consumer}) /\ curr_consumer' = None
  /\ UNCHANGED <<curr_producer, frame_queue, frameVars, engineVars, b_flush,
                 room, slience_discard, copied, calls>>

-----------------------------------------------------------------------------
(* The other calls, which exclude read *)

Called == reader = "idle" /\ calls < MaxCalls /\ calls' = calls + 1

\* flush_all_frame
Flush ==
  /\ Called /\ FsmUnlocked
  /\ b_flush' = {"producer", "consumer"}
  /\ ReleaseFrames(ToSet(frame_queue)) /\ frame_queue' = <<>>
  /\ force_i' = TRUE
  /\ UNCHANGED <<curr_producer, curr_consumer, frame_type, frame_len, engineVars,
                 readVars>>

\* The end of h264_encode_hcd_interface_suspend, when the channel is off; it
\* leaves force_i alone.
Disable ==
  /\ Called /\ engine \in {"idle", "ready"}
  /\ ReleaseProducer
  /\ UNCHANGED <<force_i, left, b_flush, readVars>>

\* h264_encode_hcd_interface_close, and the next open.
Close ==
  /\ Called /\ engine = "idle"
  /\ ReleaseFrames(Given(curr_consumer) \cup ToSet(frame_queue))
  /\ curr_consumer' = None /\ frame_queue' = <<>>
  /\ force_i' = TRUE
  /\ UNCHANGED <<curr_producer, frame_type, frame_len, engineVars, b_flush,
                 readVars>>

-----------------------------------------------------------------------------
Encoder == \/ SliceHead \/ StartEncode \/ IrqDrops \/ Irq \/ IrqNextPacket
           \/ IrqNoPacket \/ IrqFrame
Reader == Read \/ GetConsumer \/ SubmitP \/ SubmitIDR \/ Copy \/ Delivered

Next == Encoder \/ Reader \/ Poll \/ Flush \/ Disable \/ Close

Spec == Init /\ [][Next]_vars

\* The thread and the chip go on, pictures that can be had come, and the user
\* reads for ever.
FairSpec ==
  /\ Spec /\ WF_vars(Encoder) /\ SF_vars(Irq) /\ SF_vars(Reader)

-----------------------------------------------------------------------------
(* Properties *)

\* Every variable has its type.
TypeOK ==
  /\ frame_pool \subseteq Frames /\ packet_pool \subseteq Packets
  /\ buf \in [Frames -> [queue : Seq(Packets), producer : Packets \cup {None}]]
  /\ frame_type \in [Frames -> {"IDR", "P"}]
  /\ frame_len \in [Frames -> 0 .. MaxLen] /\ force_i \in BOOLEAN
  /\ frame_queue \in Seq(Frames)
  /\ {curr_producer, curr_consumer} \subseteq Frames \cup {None}
  /\ engine \in {"idle", "ready", "encoding", "irq"} /\ left \in 0 .. MaxLen
  /\ b_flush \subseteq {"producer", "consumer"}
  /\ reader \in {"idle", "get", "submit", "copy"}
  /\ room \in Rooms \cup {0} /\ slience_discard \in BOOLEAN
  /\ copied \in 0 .. MaxLen /\ calls \in 0 .. MaxCalls

Owned == Given(curr_producer) \cup Given(curr_consumer) \cup ToSet(frame_queue)

\* Through shortages, flushes, frames that are dropped or read in part, and
\* closes, every frame is in its pool or with exactly one of encoder, queue and
\* reader, every packet in its pool or with exactly one frame, and a frame in
\* the pool holds none: nothing leaks and nothing is given out twice.
Conserved ==
  /\ TypeOK
  /\ frame_pool = Frames \ Owned
  /\ curr_producer \notin Given(curr_consumer) \cup ToSet(frame_queue)
  /\ curr_consumer \notin ToSet(frame_queue) /\ IsInjective(frame_queue)
  /\ packet_pool = Packets \ UNION {Held(f) : f \in Frames}
  /\ \A f, g \in Frames : f # g => Held(f) \cap Held(g) = {}
  /\ \A f \in frame_pool : Held(f) = {}
  /\ \A f \in Frames : IsInjective(buf[f].queue)

\* What read hands to the user as a frame is all of it, although packets ran
\* out, frames were dropped and earlier reads gave up in the middle.
DeliveredWhole ==
  Copied /\ ~slience_discard => copied = frame_len[curr_consumer]

\* A frame that did not fit in a read: it stays with the reader, who gets 0 for
\* it again and again or, if it is an IDR frame, waits for its packets.
Stuck == curr_consumer # None /\ slience_discard

\* A user who reads gets frames for ever: the shortages that a slow reader
\* causes end.  The one exception is that a frame once did not fit.
GoesOn == []<>(Copied /\ ~slience_discard) \/ <>[]Stuck
=============================================================================
