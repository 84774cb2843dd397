------------------------------- MODULE PushBuf -------------------------------
(***************************************************************************)
(* The preview part of the driver's push buffer pool                       *)
(* (isil_push_buf_mgt.c) and the preview channels that draw on it          *)
(* (isil_preview.c).                                                       *)
(*                                                                         *)
(* A preview buffer is one D1 picture, four CIF or sixteen QCIF pictures;  *)
(* the chip writes pictures into it by DMA.  A buffer takes its format     *)
(* from the first picture put into it and gives it up with the last.  A    *)
(* channel owns two pictures, pushA and pushB, which REQBUFS, S_FMT and    *)
(* close exchange.  Each get and each release is one step, under           *)
(* preview_queue_lock; what a channel does between them is not protected   *)
(* against the other channels.  chan->sem keeps the calls on one channel   *)
(* apart.                                                                  *)
(***************************************************************************)
EXTENDS Naturals, FiniteSets

CONSTANTS
  Chans,             \* the preview channels
  PREVIEW_BUF_CNT    \* 16 in the driver

ASSUME CntAssumption == PREVIEW_BUF_CNT \in Nat

NULL == [buf |-> 0, off |-> 0]
USER == "USER"       \* the format of a buffer nobody uses

BufIds == 1 .. PREVIEW_BUF_CNT
Formats == {"D1", "CIF", "QCIF"}
Units == 0 .. 15     \* the bits of bit_map, QCIF_PUSH_SIZE each

\* The units a picture of each format covers, and the bits where one may
\* start.
PicUnits == [D1 |-> 16, CIF |-> 4, QCIF |-> 1]
Offsets(f) == {u \in Units : u % PicUnits[f] = 0}
Area(f, off) == off .. off + PicUnits[f] - 1

Addr == [buf : BufIds, off : Units]

\* A place that can hold an address: <<channel, "A" or "B">>.
Places == Chans \X {"A", "B"}

VARIABLES
  fmt,               \* per buffer
  bit_map,           \* per buffer: the units in use
  preview_free_cnt,
  push,              \* per place: pushA_buf, pushB_buf
  video_size,        \* per channel: the configured format
  nbuffers,          \* per channel: the frames REQBUFS asked for, 0 or 1
  pc,                \* per channel: where its call is
  call,              \* per channel: which call it is in
  rel_fmt,           \* per channel: the format its call releases with
  want,              \* per channel: the nbuffers its call asks for
  vp_mutex           \* the channels (at most one) that hold it

poolVars == <<fmt, bit_map, preview_free_cnt>>
callVars == <<call, rel_fmt, want>>
vars == <<poolVars, push, video_size, nbuffers, pc, callVars, vp_mutex>>

Steps == {"idle", "relA", "relB", "getA", "getB", "fill", "end"}
Calls == {"none", "reqbufs", "s_fmt", "close"}

DefaultSize == "QCIF"

Init ==
  /\ fmt = [i \in BufIds |-> USER]
  /\ bit_map = [i \in BufIds |-> {}]
  /\ preview_free_cnt = PREVIEW_BUF_CNT
  /\ push = [p \in Places |-> NULL]
  /\ video_size = [c \in Chans |-> DefaultSize]
  /\ nbuffers = [c \in Chans |-> 0]
  /\ pc = [c \in Chans |-> "idle"]
  /\ call = [c \in Chans |-> "none"]
  /\ rel_fmt = [c \in Chans |-> DefaultSize]
  /\ want = [c \in Chans |-> 0]
  /\ vp_mutex = {}

-----------------------------------------------------------------------------
(* get_push_buf(BUF_TYPE_PREVIEW, ...) *)

Before(a, b) == a.buf < b.buf \/ (a.buf = b.buf /\ a.off <= b.off)

\* A free place in a buffer that already has the format; D1 fills a buffer.
SlotFree(f, a) ==
  /\ fmt[a.buf] = f /\ f # "D1"
  /\ Area(f, a.off) \cap bit_map[a.buf] = {}

FreeSlots(f) == {a \in [buf : BufIds, off : Offsets(f)] : SlotFree(f, a)}
UnusedBufs == {i \in BufIds : fmt[i] = USER}

\* The first free place of a used buffer with this format goes to p.
GetShared(f, p) ==
  \E a \in FreeSlots(f) :
    /\ \A b \in FreeSlots(f) : Before(a, b)
    /\ bit_map' = [bit_map EXCEPT ![a.buf] = @ \cup Area(f, a.off)]
    /\ push' = [push EXCEPT ![p] = a]
    /\ UNCHANGED <<fmt, preview_free_cnt>>

\* Faulty variant: takes an unused buffer and forgets to count it.
GetUncounted(f, p) ==
  /\ FreeSlots(f) = {}
  /\ \E i \in UnusedBufs :
       /\ \A j \in UnusedBufs : i <= j
       /\ fmt' = [fmt EXCEPT ![i] = f]
       /\ bit_map' = [bit_map EXCEPT ![i] = Area(f, 0)]
       /\ push' = [push EXCEPT ![p] = [buf |-> i, off |-> 0]]
  /\ UNCHANGED preview_free_cnt

\* Without one, the first unused buffer takes the format.
GetUnused(f, p) ==
  /\ FreeSlots(f) = {}
  /\ \E i \in UnusedBufs :
       /\ \A j \in UnusedBufs : i <= j
       /\ fmt' = [fmt EXCEPT ![i] = f]
       /\ bit_map' = [bit_map EXCEPT ![i] = Area(f, 0)]
       /\ push' = [push EXCEPT ![p] = [buf |-> i, off |-> 0]]
  /\ preview_free_cnt' = preview_free_cnt - 1

GetFails(f) == FreeSlots(f) = {} /\ UnusedBufs = {}

-----------------------------------------------------------------------------
(* release_push_buf(BUF_TYPE_PREVIEW, ...) *)

\* The address belongs to a buffer that has the format the caller names.
Found(f, a) == a.buf \in BufIds /\ fmt[a.buf] = f /\ a.off \in Offsets(f)

\* Faulty variant: empties the buffer with its first picture.
NothingLeft(f, a) == {}

\* Faulty variant: clears one bit of the picture only.
OneBitLess(f, a) == bit_map[a.buf] \ {a.off}

LeftAfter(f, a) == bit_map[a.buf] \ Area(f, a.off)

\* Nothing happens to the pool if no buffer is found.
Release(f, a) ==
  IF Found(f, a)
  THEN /\ bit_map' = [bit_map EXCEPT ![a.buf] = LeftAfter(f, a)]
       /\ fmt' = [fmt EXCEPT ![a.buf] = IF LeftAfter(f, a) = {} THEN USER ELSE f]
       /\ preview_free_cnt' =
            IF LeftAfter(f, a) = {} THEN preview_free_cnt + 1 ELSE preview_free_cnt
  ELSE UNCHANGED poolVars

-----------------------------------------------------------------------------
(* The calls on a channel *)

Goto(c, l) == pc' = [pc EXCEPT ![c] = l]

\* Starts to release with format f, to ask for n frames afterwards.
StartRelease(c, kind, f, n) ==
  /\ Goto(c, "relA")
  /\ call' = [call EXCEPT ![c] = kind]
  /\ rel_fmt' = [rel_fmt EXCEPT ![c] = f]
  /\ want' = [want EXCEPT ![c] = n]

\* VIDIOC_REQBUFS with a count of n, the old frames unmapped.
ReqBufs(c, n) ==
  /\ pc[c] = "idle"
  /\ StartRelease(c, "reqbufs", video_size[c], n)
  /\ UNCHANGED <<poolVars, push, video_size, nbuffers, vp_mutex>>

\* Faulty variant: S_FMT releases the pictures with the format it just set.
NewSize(c, size) == size

\* The format S_FMT releases with: the one before the change.
OldSize(c, size) == video_size[c]

\* VIDIOC_S_FMT whose bus map is accepted; a refused one restores video_size
\* before it unlocks and leaves nothing behind.
SetFmt(c, size) ==
  /\ pc[c] = "idle" /\ vp_mutex = {}
  /\ vp_mutex' = {c}
  /\ StartRelease(c, "s_fmt", OldSize(c, size), nbuffers[c])
  /\ video_size' = [video_size EXCEPT ![c] = size]
  /\ UNCHANGED <<poolVars, push, nbuffers>>

\* The last close of the device file.
Close(c) ==
  /\ pc[c] = "idle"
  /\ StartRelease(c, "close", video_size[c], 0)
  /\ UNCHANGED <<poolVars, push, video_size, nbuffers, vp_mutex>>

\* One place of prev_chan_release_vbufs.
ReleasePlace(c, p) ==
  IF push[p] = NULL
  THEN UNCHANGED <<poolVars, push>>
  ELSE Release(rel_fmt[c], push[p]) /\ push' = [push EXCEPT ![p] = NULL]

ReleaseA(c) ==
  /\ pc[c] = "relA" /\ Goto(c, "relB")
  /\ ReleasePlace(c, <<c, "A">>)
  /\ UNCHANGED <<video_size, nbuffers, callVars, vp_mutex>>

ReleaseB(c) ==
  /\ pc[c] = "relB" /\ Goto(c, IF want[c] = 0 THEN "end" ELSE "getA")
  /\ ReleasePlace(c, <<c, "B">>)
  /\ nbuffers' = [nbuffers EXCEPT ![c] = 0]
  /\ UNCHANGED <<video_size, callVars, vp_mutex>>

GetPlace(c, p, next) ==
  /\ Goto(c, next)
  /\ GetShared(video_size[c], p) \/ GetUnused(video_size[c], p)
  /\ UNCHANGED <<video_size, nbuffers, callVars, vp_mutex>>

\* Faulty variant: a request that fails keeps what it got.
KeepVbufs(c) ==
  /\ Goto(c, "end")
  /\ UNCHANGED <<callVars, poolVars, push, video_size, nbuffers, vp_mutex>>

\* The error path of prev_chan_req_vbufs.
GiveUp(c) ==
  /\ StartRelease(c, call[c], video_size[c], 0)
  /\ UNCHANGED <<poolVars, push, video_size, nbuffers, vp_mutex>>

GetA(c) == /\ pc[c] = "getA"
           /\ \/ GetPlace(c, <<c, "A">>, "getB")
              \/ GetFails(video_size[c]) /\ GiveUp(c)

GetB(c) == /\ pc[c] = "getB"
           /\ \/ GetPlace(c, <<c, "B">>, "fill")
              \/ GetFails(video_size[c]) /\ GiveUp(c)

\* The frames themselves; vmalloc, or for REQBUFS the copy of the answer to
\* user space, may fail.
Fill(c) ==
  /\ pc[c] = "fill"
  /\ \/ /\ Goto(c, "end")
        /\ nbuffers' = [nbuffers EXCEPT ![c] = want[c]]
        /\ UNCHANGED <<poolVars, push, video_size, callVars, vp_mutex>>
     \/ GiveUp(c)

\* The call returns; close resets the property, S_FMT unlocks.
End(c) ==
  /\ pc[c] = "end" /\ Goto(c, "idle")
  /\ call' = [call EXCEPT ![c] = "none"]
  /\ video_size' = IF call[c] = "close"
                   THEN [video_size EXCEPT ![c] = DefaultSize] ELSE video_size
  /\ vp_mutex' = vp_mutex \ {c}
  /\ UNCHANGED <<poolVars, push, nbuffers, rel_fmt, want>>

Next ==
  \E c \in Chans :
    \/ \E n \in {0, 1} : ReqBufs(c, n)
    \/ \E size \in Formats : SetFmt(c, size)
    \/ Close(c)
    \/ ReleaseA(c) \/ ReleaseB(c) \/ GetA(c) \/ GetB(c) \/ Fill(c) \/ End(c)

Spec == Init /\ [][Next]_vars

-----------------------------------------------------------------------------
(* Properties *)

\* Every variable has its type.
TypeOK ==
  /\ fmt \in [BufIds -> Formats \cup {USER}]
  /\ bit_map \in [BufIds -> SUBSET Units]
  /\ preview_free_cnt \in 0 .. PREVIEW_BUF_CNT
  /\ push \in [Places -> Addr \cup {NULL}]
  /\ video_size \in [Chans -> Formats]
  /\ nbuffers \in [Chans -> {0, 1}]
  /\ pc \in [Chans -> Steps]
  /\ call \in [Chans -> Calls]
  /\ rel_fmt \in [Chans -> Formats]
  /\ want \in [Chans -> {0, 1}]
  /\ vp_mutex \subseteq Chans

Held == {p \in Places : push[p] # NULL}

\* The format a channel's pictures have now.
SizeOf(c) == IF pc[c] \in {"relA", "relB"} THEN rel_fmt[c] ELSE video_size[c]

AreaOf(p) == Area(SizeOf(p[1]), push[p].off)

\* Two pictures the chip writes to never overlap, whatever formats were
\* requested, changed and released in between (isil_push_buf_mgt.c:300-366).
NoOverlap ==
  \A p, q \in Held : p # q /\ push[p].buf = push[q].buf =>
    AreaOf(p) \cap AreaOf(q) = {}

\* Every picture is in a buffer of its own format, at a place that format
\* has, so release_push_buf finds it with the format the caller will name
\* and "can't find right fmt" (isil_push_buf_mgt.c:534) never happens.
ReleaseFinds == \A p \in Held : Found(SizeOf(p[1]), push[p])

\* bit_map marks the units of the pictures that are held and no others: no
\* unit is lost on the way through the calls and their error paths.
MapExact ==
  \A i \in BufIds :
    bit_map[i] = UNION {AreaOf(p) : p \in {q \in Held : push[q].buf = i}}

\* A buffer nobody uses has no picture, one in use has some, and
\* preview_free_cnt counts the first kind.
FreeCntExact ==
  /\ \A i \in BufIds : fmt[i] = USER <=> bit_map[i] = {}
  /\ preview_free_cnt = Cardinality(UnusedBufs)

\* Between calls a channel has both pictures or none, and has them exactly
\* if it has frames (prev_chan_req_vbufs fails as a whole).
AllOrNothing ==
  \A c \in Chans : pc[c] = "idle" =>
    \A s \in {"A", "B"} : push[<<c, s>>] # NULL <=> nbuffers[c] # 0
=============================================================================
