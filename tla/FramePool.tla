------------------------------ MODULE FramePool ------------------------------
(***************************************************************************)
(* The frame pool and the packets that keep its frames alive:              *)
(* eventcore/isil_frame.c, isilsdk/isil_data_stream.c and the read handler *)
(* of isilsdk/isil_media_sdk_ev.c (dvr/isilsdk/src).                       *)
(*                                                                         *)
(* The SDK's loop thread takes a frame from the pool (blocking while the   *)
(* pool is empty), reads encoder data into it, and hands every packet it   *)
(* finds there to the registered consumers; each packet holds a reference  *)
(* on the frame, each consumer that clones the packet a reference on the   *)
(* packet.  Consumers release their packets later, from their own threads. *)
(* When the loop has ended, the main thread releases the pool (in lpc too). *)
(*                                                                         *)
(* Locks: a thread in "put" holds its frame's ref_lock and asks for the    *)
(* pool's lock; the loop in "addref" holds the pool's lock and asks for    *)
(* the frame's ref_lock, so the two locks are taken in both orders.        *)
(* The pool of HD frames is a copy of this code that nothing calls.        *)
(***************************************************************************)
EXTENDS Integers, FiniteSets, Sequences, Functions

CONSTANTS
  Frames,      \* the frames of the pool, max_buff_num of them
  Packets,     \* packets that may be allocated at a time
  Consumers,   \* threads that clone and release packets
  MaxPerFrame  \* packets in one frame

ASSUME FramesAssumption == IsFiniteSet(Frames) /\ Frames # {}
ASSUME OthersAssumption == IsFiniteSet(Packets) /\ IsFiniteSet(Consumers)
ASSUME NamesAssumption ==
  "none" \notin Frames \cup Packets /\ "loop" \notin Consumers
ASSUME MaxPerFrameAssumption == MaxPerFrame \in Nat

None == "none"
Loop == "loop"
Threads == Consumers \cup {Loop}

VARIABLES
  framesList,  \* the free frames; which of them is at the head does not matter
  ref,         \* per frame: its reference count
  pref,        \* per packet: its reference count, 0 when it is not allocated
  pframe,      \* per packet: the frame it points into (priv)
  held,        \* per consumer: its queue of cloned packets to release
  lpc,         \* the loop thread's place
  lframe,      \* the frame it works on
  lpkt,        \* the packet it is handing out
  left,        \* packets of lframe still to hand out
  rpc,         \* per thread: its place in release_frame
  rframe       \* per thread: the frame it is releasing

pktVars == <<pref, pframe, held>>
loopVars == <<lpc, lframe, lpkt, left>>
relVars == <<rpc, rframe>>
vars == <<framesList, ref, pktVars, loopVars, relVars>>

LoopState == {"idle", "wait", "woken", "addref", "read", "packets", "notify", "relpkt",
              "poolwait", "poolwoken", "released"}

Init ==
  /\ framesList = Frames
  /\ ref = [f \in Frames |-> 0]
  /\ pref = [p \in Packets |-> 0]
  /\ pframe = [p \in Packets |-> None]
  /\ held = [c \in Consumers |-> <<>>]
  /\ lpc = "idle" /\ lframe = None /\ lpkt = None /\ left = 0
  /\ rpc = [t \in Threads |-> "no"]
  /\ rframe = [t \in Threads |-> None]

\* Some thread holds the ref_lock of f beyond one step.
RefLocked(f) == \E t \in Threads : rpc[t] \in {"put", "unlock"} /\ rframe[t] = f

\* The loop thread is not inside release_frame.
LoopFree == rpc[Loop] = "no"

-----------------------------------------------------------------------------
(* release_frame and put_frame_to_pool *)

\* A thread calls frame->release(f).
StartRelease(t, f) ==
  /\ rpc' = [rpc EXCEPT ![t] = "dec"]
  /\ rframe' = [rframe EXCEPT ![t] = f]

\* Faulty variant: the frame goes to the pool while a reference is left.
PutEarly(n) == n <= 1

LastReference(n) == n = 0

\* Under ref_lock: --ref, and the last reference leads to the pool.  The code
\* asserts that the count is not 0 already, which CountsExact implies.
ReleaseDec(t) ==
  /\ rpc[t] = "dec" /\ ~ RefLocked(rframe[t])
  /\ ref[rframe[t]] > 0
  /\ ref' = [ref EXCEPT ![rframe[t]] = @ - 1]
  /\ rpc' = [rpc EXCEPT ![t] =
               IF LastReference(ref'[rframe[t]]) THEN "put" ELSE "no"]
  /\ UNCHANGED <<framesList, pktVars, loopVars, rframe>>

\* Faulty variant: put_frame_to_pool signals nobody.
NoWake(n) == lpc

\* pthread_cond_signal(cond) when framesNum becomes 1: the loop thread is the
\* only thread that ever waits on cond.
WakeOnPut(n) ==
  CASE n = 1 /\ lpc = "wait"     -> "woken"
    [] n = 1 /\ lpc = "poolwait" -> "poolwoken"
    [] OTHER                     -> lpc

\* frame_reset and list_add_tail under the pool's lock.
ReleasePut(t) ==
  /\ rpc[t] = "put" /\ lpc # "addref"
  /\ framesList' = framesList \cup {rframe[t]}
  /\ ref' = [ref EXCEPT ![rframe[t]] = 0]
  /\ lpc' = WakeOnPut(Cardinality(framesList) + 1)
  /\ rpc' = [rpc EXCEPT ![t] = "unlock"]
  /\ UNCHANGED <<pktVars, lframe, lpkt, left, rframe>>

ReleaseUnlock(t) ==
  /\ rpc[t] = "unlock"
  /\ rpc' = [rpc EXCEPT ![t] = "no"]
  /\ UNCHANGED <<framesList, ref, pktVars, loopVars, rframe>>

-----------------------------------------------------------------------------
(* get_frame_from_pool *)

TakeOut(f) == framesList \ {f}

\* Pop the head, or wait while the pool is empty; the pool's lock stays held.
GetFrame ==
  /\ lpc \in {"idle", "woken"} /\ LoopFree
  /\ IF framesList = {}
       THEN lpc' = "wait" /\ UNCHANGED <<framesList, lframe>>
       ELSE /\ lframe' \in framesList
            /\ framesList' = TakeOut(lframe')
            /\ lpc' = "addref"
  /\ UNCHANGED <<ref, pktVars, lpkt, left, relVars>>

\* add_frame_ref, then the pool's lock is given up.
GetFrameRef ==
  /\ lpc = "addref" /\ ~ RefLocked(lframe)
  /\ ref' = [ref EXCEPT ![lframe] = @ + 1]
  /\ lpc' = "read"
  /\ UNCHANGED <<framesList, pktVars, lframe, lpkt, left, relVars>>

-----------------------------------------------------------------------------
(* data_handle_ev_cb, frame_to_av_packet, isil_av_packet_release *)

\* r_read fills the frame with some packets, or with none.
ReadData ==
  /\ lpc = "read"
  /\ left' \in 0 .. MaxPerFrame
  /\ lpc' = "packets"
  /\ UNCHANGED <<framesList, ref, pktVars, lframe, lpkt, relVars>>

AddFrameRef(f) == ref' = [ref EXCEPT ![f] = @ + 1]

\* isil_av_packet_minit and add_frame_ref; the allocation or the parser may fail,
\* which ends the work on the frame.
NewPacket ==
  /\ lpc = "packets" /\ LoopFree /\ left > 0
  /\ \/ \E p \in Packets :
          /\ pref[p] = 0
          /\ pref' = [pref EXCEPT ![p] = 1]
          /\ pframe' = [pframe EXCEPT ![p] = lframe]
          /\ lpkt' = p
          /\ AddFrameRef(lframe)
          /\ lpc' = "notify" /\ left' = left - 1
     \/ left' = 0 /\ UNCHANGED <<pref, pframe, lpkt, ref, lpc>>
  /\ UNCHANGED <<framesList, held, lframe, relVars>>

ClonePacket(S) == pref' = [pref EXCEPT ![lpkt] = @ + Cardinality(S)]

\* The hooks of the notify list: some of the consumers clone the packet.  One
\* step, since the loop's own reference keeps the packet during the walk.
Notify ==
  /\ lpc = "notify" /\ lpkt # None
  /\ \E S \in SUBSET Consumers :
       /\ ClonePacket(S)
       /\ held' = [c \in Consumers |->
                     IF c \in S THEN Append(held[c], lpkt) ELSE held[c]]
  /\ lpc' = "relpkt"
  /\ UNCHANGED <<framesList, ref, pframe, lframe, lpkt, left, relVars>>

\* Under the packet's lock: --ref; the last reference releases the frame.
DropPacket(t, p) ==
  /\ rpc[t] = "no" /\ pref[p] > 0
  /\ pref' = [pref EXCEPT ![p] = @ - 1]
  /\ IF pref[p] = 1 THEN StartRelease(t, pframe[p]) ELSE UNCHANGED relVars

LoopDropsPacket ==
  /\ lpc = "relpkt"
  /\ DropPacket(Loop, lpkt)
  /\ lpc' = "packets" /\ lpkt' = None
  /\ UNCHANGED <<framesList, ref, pframe, held, lframe, left>>

ConsumerDropsPacket(c) ==
  /\ held[c] # <<>>
  /\ DropPacket(c, Head(held[c]))
  /\ held' = [held EXCEPT ![c] = Tail(@)]
  /\ UNCHANGED <<framesList, ref, pframe, loopVars>>

\* The loop's own frame->release at the end of the handler.
EndOfFrame ==
  /\ lpc = "packets" /\ left = 0 /\ LoopFree
  /\ StartRelease(Loop, lframe)
  /\ lpc' = "idle" /\ lframe' = None
  /\ UNCHANGED <<framesList, ref, pktVars, lpkt, left>>

-----------------------------------------------------------------------------
(* frame_pool_release, once the loop has ended *)

AllFramesBack == framesList = Frames

ReleasePool ==
  /\ lpc \in {"idle", "poolwoken"} /\ LoopFree
  /\ lpc' = IF AllFramesBack THEN "released" ELSE "poolwait"
  /\ UNCHANGED <<framesList, ref, pktVars, lframe, lpkt, left, relVars>>

-----------------------------------------------------------------------------
ReleaseStep(t) == ReleaseDec(t) \/ ReleasePut(t) \/ ReleaseUnlock(t)
LoopThread == \/ GetFrame \/ GetFrameRef \/ ReadData \/ NewPacket \/ Notify
              \/ LoopDropsPacket \/ EndOfFrame
              \/ ReleaseStep(Loop)
Consumer(c) == ConsumerDropsPacket(c) \/ ReleaseStep(c)

Next == LoopThread \/ ReleasePool \/ \E c \in Consumers : Consumer(c)

Spec == Init /\ [][Next]_vars

\* Every thread runs and gets a mutex it keeps asking for, and every consumer
\* goes on releasing what it cloned, in order.
FairSpec == Spec /\ SF_vars(LoopThread) /\ \A c \in Consumers : SF_vars(Consumer(c))

-----------------------------------------------------------------------------
(* Properties *)

\* Every variable has its type.
TypeOK ==
  /\ framesList \subseteq Frames
  /\ ref \in [Frames -> Nat]
  /\ pref \in [Packets -> 0 .. 1 + Cardinality(Consumers)]
  /\ pframe \in [Packets -> Frames \cup {None}]
  /\ held \in [Consumers -> Seq(Packets)]
  /\ lpc \in LoopState
  /\ lframe \in Frames \cup {None}
  /\ lpkt \in Packets \cup {None}
  /\ left \in 0 .. MaxPerFrame
  /\ rpc \in [Threads -> {"no", "dec", "put", "unlock"}]
  /\ rframe \in [Threads -> Frames \cup {None}]

\* Those that count as references on f: the loop, packets, releases under way.
LoopHolds(f) == lframe = f /\ lpc \in {"read", "packets", "notify", "relpkt"}
PacketsOf(f) == {p \in Packets : pref[p] > 0 /\ pframe[p] = f}
Releasing(f) == {t \in Threads : rpc[t] = "dec" /\ rframe[t] = f}

\* A frame's count is the number of its holders, and a packet's the number of its.
CountsExact ==
  /\ \A f \in Frames :
       ref[f] = Cardinality(PacketsOf(f)) + Cardinality(Releasing(f))
                  + (IF LoopHolds(f) THEN 1 ELSE 0)
  /\ \A p \in Packets :
       pref[p] = Cardinality({c \in Consumers : p \in Range(held[c])})
                   + (IF lpkt = p THEN 1 ELSE 0)

\* A frame in the pool (where the loop overwrites it next) is read by nobody, and a
\* frame outside it is in somebody's hands: every reference is counted, and none is
\* lost, whatever the order in which the loop and the consumers release.
PoolExact ==
  /\ TypeOK
  /\ CountsExact
  /\ \A f \in Frames :
       f \in framesList <=>
         /\ ref[f] = 0
         /\ ~ \E t \in Threads : rpc[t] = "put" /\ rframe[t] = f
         /\ ~ (lpc = "addref" /\ lframe = f)

\* The loop is never stuck on an empty pool once the consumers release, and a frame
\* in use comes back to the pool, although the pool's lock and a frame's ref_lock
\* are taken in both orders and a put signals only an empty pool.
FramesCirculate ==
  /\ (lpc = "wait") ~> (lpc = "addref")
  /\ \A f \in Frames : ref[f] > 0 ~> f \in framesList
=============================================================================
