---------------------------- MODULE PushBufProofs ----------------------------
(***************************************************************************)
(* Proofs about PushBuf, for any number of channels and buffers.           *)
(*                                                                         *)
(* The inductive invariant has two halves.  PoolInv relates the pool to    *)
(* the pictures held: they lie in buffers of their format, do not overlap, *)
(* and bit_map marks exactly them.  PlaceInv says which of its two places  *)
(* a channel has filled at each point of a call; it is what allows a get   *)
(* to overwrite a place and a call to change the format of the channel.    *)
(***************************************************************************)
EXTENDS PushBuf, FiniteSetTheorems, TLAPS

\* bit_map marks every picture held ...
Covers == \A p \in Held : AreaOf(p) \subseteq bit_map[push[p].buf]

\* ... and marks nothing else.
Minimal ==
  \A i \in BufIds : \A u \in bit_map[i] :
    \E p \in Held : push[p].buf = i /\ u \in AreaOf(p)

FreeMark == \A i \in BufIds : fmt[i] = USER <=> bit_map[i] = {}

FreeCnt == preview_free_cnt = Cardinality(UnusedBufs)

PoolInv ==
  /\ NoOverlap
  /\ ReleaseFinds
  /\ Covers
  /\ Minimal
  /\ FreeMark
  /\ FreeCnt

Has(c, s) == push[<<c, s>>] # NULL

\* The places of a channel at each point of its call.
PlacesOf(c) ==
  /\ pc[c] = "relB" => ~Has(c, "A")
  /\ pc[c] = "getA" => ~Has(c, "A") /\ ~Has(c, "B")
  /\ pc[c] = "getB" => Has(c, "A") /\ ~Has(c, "B")
  /\ pc[c] = "fill" => Has(c, "A") /\ Has(c, "B")
  /\ pc[c] \in {"getA", "getB", "fill"} => want[c] = 1
  /\ pc[c] \in {"end", "idle"} =>
       /\ Has(c, "A") <=> nbuffers[c] # 0
       /\ Has(c, "B") <=> nbuffers[c] # 0
  /\ pc[c] = "end" /\ want[c] = 0 => nbuffers[c] = 0
  /\ call[c] = "close" => want[c] = 0

PlaceInv == \A c \in Chans : PlacesOf(c)

IInv == TypeOK /\ PoolInv /\ PlaceInv

-----------------------------------------------------------------------------
(* Facts about the geometry of a buffer *)

\* A picture at one of its places lies inside the buffer and is not empty.
LEMMA AreaInside ==
  ASSUME NEW f \in Formats, NEW o \in Offsets(f)
  PROVE  /\ o \in Units
         /\ Area(f, o) \subseteq Units
         /\ o \in Area(f, o)
<1>1. /\ o \in 0 .. 15
      /\ \/ f = "D1" /\ o % 16 = 0
         \/ f = "CIF" /\ o % 4 = 0
         \/ f = "QCIF"
  BY DEF Formats, Offsets, PicUnits, Units
<1>2. PicUnits["D1"] = 16 /\ PicUnits["CIF"] = 4 /\ PicUnits["QCIF"] = 1
  BY DEF PicUnits
<1>3. o + PicUnits[f] - 1 \in 0 .. 15 /\ PicUnits[f] \in 1 .. 16
  BY <1>1, <1>2
<1> QED
  BY <1>1, <1>3 DEF Area, Units

\* USER is no format a channel can have.
LEMMA UserNoFormat == USER \notin Formats
BY DEF USER, Formats

\* A place that is not NULL holds an address.
LEMMA HeldAddr ==
  ASSUME TypeOK, NEW p \in Held
  PROVE  /\ p \in Places
         /\ push[p] \in Addr
         /\ push[p].buf \in BufIds
         /\ push[p].off \in Units
BY DEF TypeOK, Held, Addr

\* The buffers nobody uses are finitely many, at most all of them; the same
\* holds of any other set of buffers.
LEMMA SomeBufs ==
  ASSUME NEW S \in SUBSET BufIds
  PROVE  IsFiniteSet(S) /\ Cardinality(S) \in 0 .. PREVIEW_BUF_CNT
<1>1. IsFiniteSet(BufIds) /\ Cardinality(BufIds) = PREVIEW_BUF_CNT
  BY FS_Interval, CntAssumption, SMT DEF BufIds
<1>2. IsFiniteSet(S) /\ Cardinality(S) <= Cardinality(BufIds)
  BY <1>1, FS_Subset
<1>3. Cardinality(S) \in Nat
  BY <1>2, FS_CardinalityType
<1> QED
  BY <1>1, <1>2, <1>3, CntAssumption

\* The count of the unused buffers is in its range after a step, too.
LEMMA CntInRange ==
  ASSUME PoolInv'
  PROVE  (preview_free_cnt \in 0 .. PREVIEW_BUF_CNT)'
<1>1. UnusedBufs' \in SUBSET BufIds
  BY DEF UnusedBufs
<1> QED
  BY <1>1, SomeBufs DEF PoolInv, FreeCnt

-----------------------------------------------------------------------------
(* What the operations on the pool preserve *)

\* The channels that hold pictures keep their format in this step.
Steady == \A q \in Held : SizeOf(q[1])' = SizeOf(q[1])

\* A step that leaves the pool and the places alone.
LEMMA PoolKept ==
  ASSUME TypeOK, PoolInv, Steady, UNCHANGED <<poolVars, push>>
  PROVE  PoolInv'
<1>1. Held' = Held /\ UnusedBufs' = UnusedBufs
  BY DEF Held, UnusedBufs, poolVars
<1>2. \A q \in Held : AreaOf(q)' = AreaOf(q)
  BY DEF AreaOf, Steady
<1>3. NoOverlap' /\ Covers' /\ Minimal'
  BY <1>1, <1>2 DEF PoolInv, NoOverlap, Covers, Minimal, poolVars
<1>4. ReleaseFinds'
  BY <1>1 DEF PoolInv, ReleaseFinds, Found, Steady, poolVars
<1>5. FreeMark' /\ FreeCnt'
  BY <1>1 DEF PoolInv, FreeMark, FreeCnt, poolVars
<1> QED
  BY <1>3, <1>4, <1>5 DEF PoolInv

\* A place filled with an address: it is held, the others are as before.
LEMMA PlaceFilled ==
  ASSUME TypeOK, Steady, NEW p \in Places, push[p] = NULL,
         NEW a \in Addr, push' = [push EXCEPT ![p] = a],
         NEW f \in Formats, SizeOf(p[1])' = f
  PROVE  /\ Held' = Held \cup {p} /\ p \notin Held
         /\ push'[p] = a /\ AreaOf(p)' = Area(f, a.off)
         /\ \A q \in Held : push'[q] = push[q] /\ AreaOf(q)' = AreaOf(q)
<1>1. p \notin Held /\ \A q \in Held : q # p /\ q \in Places
  BY DEF Held
<1>2. push'[p] = a /\ \A q \in Places : q # p => push'[q] = push[q]
  BY DEF TypeOK
<1>3. a # NULL
  BY SMT DEF Addr, NULL, BufIds
<1>4. Held' = Held \cup {p}
  BY <1>1, <1>2, <1>3 DEF Held
<1>5. AreaOf(p)' = Area(f, a.off)
  BY <1>2 DEF AreaOf
<1>6. \A q \in Held : AreaOf(q)' = AreaOf(q)
  BY <1>1, <1>2 DEF AreaOf, Steady
<1> QED
  BY <1>1, <1>2, <1>4, <1>5, <1>6

\* get_push_buf that finds a place in a buffer in use.
LEMMA GetSharedPool ==
  ASSUME TypeOK, PoolInv, Steady, NEW p \in Places, push[p] = NULL,
         NEW f \in Formats, SizeOf(p[1])' = f, GetShared(f, p)
  PROVE  PoolInv'
<1>1. PICK a \in FreeSlots(f) :
        /\ bit_map' = [bit_map EXCEPT ![a.buf] = @ \cup Area(f, a.off)]
        /\ push' = [push EXCEPT ![p] = a]
        /\ UNCHANGED <<fmt, preview_free_cnt>>
  BY DEF GetShared
<1>2. /\ a.buf \in BufIds /\ a.off \in Offsets(f)
      /\ fmt[a.buf] = f /\ Area(f, a.off) \cap bit_map[a.buf] = {}
      /\ a = [buf |-> a.buf, off |-> a.off]
  BY DEF FreeSlots, SlotFree
<1>3. a.off \in Units /\ a.off \in Area(f, a.off)
  BY <1>2, AreaInside
<1>4. a \in Addr
  BY <1>2, <1>3 DEF Addr
<1>5. /\ Held' = Held \cup {p} /\ p \notin Held
      /\ push'[p] = a /\ AreaOf(p)' = Area(f, a.off)
      /\ \A q \in Held : push'[q] = push[q] /\ AreaOf(q)' = AreaOf(q)
  BY <1>1, <1>4, PlaceFilled
<1>6. /\ bit_map'[a.buf] = bit_map[a.buf] \cup Area(f, a.off)
      /\ \A i \in BufIds : i # a.buf => bit_map'[i] = bit_map[i]
  BY <1>1, <1>2 DEF TypeOK
<1>7. \A q \in Held : push[q].buf \in BufIds
  BY HeldAddr
<1>8. \A q \in Held : push[q].buf = a.buf => AreaOf(q) \cap Area(f, a.off) = {}
  BY <1>2 DEF PoolInv, Covers
<1>9. NoOverlap'
  BY <1>5, <1>8 DEF PoolInv, NoOverlap
<1>10. ReleaseFinds'
  BY <1>1, <1>2, <1>5 DEF PoolInv, ReleaseFinds, Found, Steady
<1>11. Covers'
  BY <1>2, <1>5, <1>6, <1>7 DEF PoolInv, Covers
<1>12. Minimal'
  <2> SUFFICES ASSUME NEW i \in BufIds, NEW u \in bit_map'[i]
               PROVE  \E q \in Held' : push'[q].buf = i /\ u \in AreaOf(q)'
    BY DEF Minimal
  <2>1. CASE u \in bit_map[i]
    <3>1. PICK q \in Held : push[q].buf = i /\ u \in AreaOf(q)
      BY <2>1 DEF PoolInv, Minimal
    <3> QED
      BY <3>1, <1>5
  <2>2. CASE u \notin bit_map[i]
    <3>1. i = a.buf /\ u \in Area(f, a.off)
      BY <2>2, <1>6
    <3> QED
      BY <3>1, <1>5
  <2> QED
    BY <2>1, <2>2
<1>13. FreeMark'
  BY <1>1, <1>2, <1>3, <1>6, UserNoFormat DEF PoolInv, FreeMark
<1>14. FreeCnt'
  BY <1>1 DEF PoolInv, FreeCnt, UnusedBufs
<1> QED
  BY <1>9, <1>10, <1>11, <1>12, <1>13, <1>14 DEF PoolInv

\* get_push_buf that gives an unused buffer the format.
LEMMA GetUnusedPool ==
  ASSUME TypeOK, PoolInv, Steady, NEW p \in Places, push[p] = NULL,
         NEW f \in Formats, SizeOf(p[1])' = f, GetUnused(f, p)
  PROVE  PoolInv'
<1>1. PICK i \in UnusedBufs :
        /\ fmt' = [fmt EXCEPT ![i] = f]
        /\ bit_map' = [bit_map EXCEPT ![i] = Area(f, 0)]
        /\ push' = [push EXCEPT ![p] = [buf |-> i, off |-> 0]]
        /\ preview_free_cnt' = preview_free_cnt - 1
  BY DEF GetUnused
<1> DEFINE a == [buf |-> i, off |-> 0]
<1>2. i \in BufIds /\ fmt[i] = USER /\ bit_map[i] = {}
  BY DEF UnusedBufs, PoolInv, FreeMark
<1>3. 0 \in Offsets(f)
  BY SMT DEF Offsets, Units, PicUnits, Formats
<1>4. 0 \in Units /\ 0 \in Area(f, 0)
  BY <1>3, AreaInside
<1>5. a \in Addr /\ a.buf = i /\ a.off = 0
  BY <1>2, <1>4 DEF Addr
<1>6. /\ Held' = Held \cup {p} /\ p \notin Held
      /\ push'[p] = a /\ AreaOf(p)' = Area(f, 0)
      /\ \A q \in Held : push'[q] = push[q] /\ AreaOf(q)' = AreaOf(q)
  BY <1>1, <1>5, PlaceFilled
<1>7. /\ bit_map'[i] = Area(f, 0) /\ fmt'[i] = f
      /\ \A j \in BufIds : j # i => bit_map'[j] = bit_map[j] /\ fmt'[j] = fmt[j]
  BY <1>1, <1>2 DEF TypeOK
<1>8. \A q \in Held : push[q].buf \in BufIds /\ push[q].buf # i
  <2> SUFFICES ASSUME NEW q \in Held PROVE push[q].buf \in BufIds /\ push[q].buf # i
    OBVIOUS
  <2>1. fmt[push[q].buf] = SizeOf(q[1])
    BY DEF PoolInv, ReleaseFinds, Found
  <2>2. SizeOf(q[1]) \in Formats
    BY HeldAddr DEF SizeOf, TypeOK, Places
  <2> QED
    BY <2>1, <2>2, <1>2, HeldAddr, UserNoFormat
<1>9. NoOverlap' /\ Covers'
  BY <1>5, <1>6, <1>7, <1>8 DEF PoolInv, NoOverlap, Covers
<1>10. ReleaseFinds'
  BY <1>2, <1>3, <1>5, <1>6, <1>7, <1>8 DEF PoolInv, ReleaseFinds, Found, Steady
<1>11. Minimal'
  <2> SUFFICES ASSUME NEW j \in BufIds, NEW u \in bit_map'[j]
               PROVE  \E q \in Held' : push'[q].buf = j /\ u \in AreaOf(q)'
    BY DEF Minimal
  <2>1. CASE j = i
    BY <2>1, <1>5, <1>6, <1>7
  <2>2. CASE j # i
    <3>1. PICK q \in Held : push[q].buf = j /\ u \in AreaOf(q)
      BY <2>2, <1>7 DEF PoolInv, Minimal
    <3> QED
      BY <3>1, <1>6
  <2> QED
    BY <2>1, <2>2
<1>12. FreeMark'
  BY <1>4, <1>7, UserNoFormat DEF PoolInv, FreeMark
<1>13. FreeCnt'
  <2>1. UnusedBufs' = UnusedBufs \ {i}
    BY <1>2, <1>7, UserNoFormat DEF UnusedBufs
  <2>2. Cardinality(UnusedBufs \ {i}) = Cardinality(UnusedBufs) - 1
    BY SomeBufs, FS_RemoveElement DEF UnusedBufs
  <2> QED
    BY <1>1, <2>1, <2>2 DEF PoolInv, FreeCnt
<1> QED
  BY <1>9, <1>10, <1>11, <1>12, <1>13 DEF PoolInv

\* release_push_buf of a picture that is held.
LEMMA ReleasePool ==
  ASSUME TypeOK, PoolInv, NEW p \in Held,
         \A q \in Held \ {p} : SizeOf(q[1])' = SizeOf(q[1]),
         Release(SizeOf(p[1]), push[p]), push' = [push EXCEPT ![p] = NULL]
  PROVE  PoolInv'
<1> DEFINE f == SizeOf(p[1])
           b == push[p].buf
           o == push[p].off
           left == LeftAfter(f, push[p])
<1>1. /\ p \in Places /\ b \in BufIds /\ fmt[b] = f /\ o \in Offsets(f)
      /\ Found(f, push[p])
  BY HeldAddr DEF PoolInv, ReleaseFinds, Found
<1>2. f \in Formats
  BY <1>1 DEF SizeOf, TypeOK, Places
<1>3. /\ bit_map' = [bit_map EXCEPT ![b] = left]
      /\ fmt' = [fmt EXCEPT ![b] = IF left = {} THEN USER ELSE f]
      /\ preview_free_cnt' =
           IF left = {} THEN preview_free_cnt + 1 ELSE preview_free_cnt
  BY <1>1 DEF Release
<1>4. left = bit_map[b] \ AreaOf(p)
  BY DEF LeftAfter, AreaOf
<1>5. /\ bit_map'[b] = left /\ fmt'[b] = IF left = {} THEN USER ELSE f
      /\ \A j \in BufIds : j # b => bit_map'[j] = bit_map[j] /\ fmt'[j] = fmt[j]
  BY <1>1, <1>3 DEF TypeOK
<1>6. push'[p] = NULL /\ \A q \in Places : q # p => push'[q] = push[q]
  BY <1>1 DEF TypeOK
<1>7. Held' = Held \ {p}
  BY <1>1, <1>6 DEF Held
<1>8. \A q \in Held' : /\ q \in Held /\ q # p /\ push'[q] = push[q]
                       /\ AreaOf(q)' = AreaOf(q) /\ push[q].buf \in BufIds
  BY <1>6, <1>7, HeldAddr DEF AreaOf
<1>9. \A q \in Held' : push[q].buf = b => AreaOf(q) \subseteq left
  BY <1>4, <1>8 DEF PoolInv, NoOverlap, Covers
<1>10. NoOverlap'
  BY <1>8 DEF PoolInv, NoOverlap
<1>11. Covers'
  BY <1>5, <1>8, <1>9 DEF PoolInv, Covers
<1>12. ReleaseFinds'
  <2> SUFFICES ASSUME NEW q \in Held' PROVE Found(SizeOf(q[1]), push[q])'
    BY DEF ReleaseFinds
  <2>1. /\ push[q].buf \in BufIds /\ fmt[push[q].buf] = SizeOf(q[1])
        /\ push[q].off \in Offsets(SizeOf(q[1]))
    BY <1>8 DEF PoolInv, ReleaseFinds, Found
  <2>2. q \in Places /\ SizeOf(q[1]) \in Formats
    BY <1>8, HeldAddr DEF SizeOf, TypeOK, Places
  <2>3. push[q].off \in AreaOf(q)
    BY <2>1, <2>2, AreaInside DEF AreaOf
  <2>4. push[q].buf = b => left # {}
    BY <2>3, <1>9
  <2>5. fmt'[push[q].buf] = SizeOf(q[1])
    BY <2>1, <2>4, <1>1, <1>5
  <2> QED
    BY <2>1, <2>5, <1>7, <1>8 DEF Found
<1>13. Minimal'
  <2> SUFFICES ASSUME NEW j \in BufIds, NEW u \in bit_map'[j]
               PROVE  \E q \in Held' : push'[q].buf = j /\ u \in AreaOf(q)'
    BY DEF Minimal
  <2>1. u \in bit_map[j] /\ (j = b => u \notin AreaOf(p))
    BY <1>4, <1>5
  <2>2. PICK q \in Held : push[q].buf = j /\ u \in AreaOf(q)
    BY <2>1 DEF PoolInv, Minimal
  <2>3. q # p
    BY <2>1, <2>2
  <2> QED
    BY <2>2, <2>3, <1>7, <1>8
<1>14. FreeMark'
  BY <1>2, <1>5, UserNoFormat DEF PoolInv, FreeMark
<1>15. FreeCnt'
  <2>1. CASE left = {}
    <3>1. UnusedBufs' = UnusedBufs \cup {b} /\ b \notin UnusedBufs
      BY <2>1, <1>1, <1>2, <1>5, UserNoFormat DEF UnusedBufs
    <3>2. Cardinality(UnusedBufs \cup {b}) = Cardinality(UnusedBufs) + 1
      BY <3>1, SomeBufs, FS_AddElement DEF UnusedBufs
    <3> QED
      BY <2>1, <3>1, <3>2, <1>3 DEF PoolInv, FreeCnt
  <2>2. CASE left # {}
    <3>1. UnusedBufs' = UnusedBufs
      BY <2>2, <1>1, <1>2, <1>5, UserNoFormat DEF UnusedBufs
    <3> QED
      BY <2>2, <3>1, <1>3 DEF PoolInv, FreeCnt
  <2> QED
    BY <2>1, <2>2
<1> QED
  BY <1>10, <1>11, <1>12, <1>13, <1>14, <1>15 DEF PoolInv

-----------------------------------------------------------------------------
(* The steps of a call *)

\* A call starts, or gives up: the channel starts to release its pictures.
LEMMA StartStep ==
  ASSUME IInv, NEW c \in Chans, NEW k \in Calls, NEW f \in Formats,
         NEW n \in {0, 1}, StartRelease(c, k, f, n),
         f = SizeOf(c), k = "close" => n = 0,
         UNCHANGED <<poolVars, push, nbuffers>>,
         video_size' \in [Chans -> Formats],
         \A d \in Chans : d # c => video_size'[d] = video_size[d],
         vp_mutex' \subseteq Chans
  PROVE  IInv'
<1> USE DEF IInv
<1>1. /\ pc'[c] = "relA" /\ rel_fmt'[c] = f /\ want'[c] = n /\ call'[c] = k
      /\ \A d \in Chans : d # c =>
           /\ pc'[d] = pc[d] /\ rel_fmt'[d] = rel_fmt[d]
           /\ want'[d] = want[d] /\ call'[d] = call[d]
  BY DEF StartRelease, Goto, TypeOK
<1>2. \A d \in Chans : SizeOf(d)' = SizeOf(d)
  BY <1>1 DEF SizeOf
<1>3. PoolInv'
  BY <1>2, PoolKept, HeldAddr DEF Steady, Places
<1>4. PlaceInv'
  <2>1. PlacesOf(c)'
    BY <1>1 DEF PlacesOf
  <2>2. \A d \in Chans : d # c => PlacesOf(d)'
    BY <1>1 DEF PlaceInv, PlacesOf, Has
  <2> QED
    BY <2>1, <2>2 DEF PlaceInv
<1>5. TypeOK'
  BY <1>3, CntInRange DEF TypeOK, StartRelease, Goto, Steps, poolVars
<1> QED
  BY <1>3, <1>4, <1>5

\* The picture of a place is given back, if it has one.
LEMMA ReleaseStep ==
  ASSUME IInv, NEW c \in Chans, NEW s \in {"A", "B"},
         pc[c] \in {"relA", "relB"}, ReleasePlace(c, <<c, s>>),
         \A q \in Held \ {<<c, s>>} : SizeOf(q[1])' = SizeOf(q[1])
  PROVE  /\ PoolInv'
         /\ push' = [push EXCEPT ![<<c, s>>] = NULL]
         /\ fmt' \in [BufIds -> Formats \cup {USER}]
         /\ bit_map' \in [BufIds -> SUBSET Units]
<1> DEFINE p == <<c, s>>
<1> USE DEF IInv
<1>1. p \in Places /\ p[1] = c
  BY DEF Places
<1>2. CASE push[p] = NULL
  <2>1. UNCHANGED <<poolVars, push>> /\ p \notin Held
    BY <1>2 DEF ReleasePlace, Held
  <2>2. PoolInv'
    BY <2>1, PoolKept DEF Steady
  <2>3. push' = [push EXCEPT ![p] = NULL]
    BY <1>1, <1>2, <2>1 DEF TypeOK
  <2> QED
    BY <2>1, <2>2, <2>3 DEF TypeOK, poolVars
<1>3. CASE push[p] # NULL
  <2>1. /\ Release(rel_fmt[c], push[p]) /\ push' = [push EXCEPT ![p] = NULL]
        /\ p \in Held
    BY <1>1, <1>3 DEF ReleasePlace, Held
  <2>2. rel_fmt[c] = SizeOf(p[1]) /\ rel_fmt[c] \in Formats
    BY <1>1 DEF SizeOf, TypeOK
  <2>3. PoolInv'
    BY <2>1, <2>2, ReleasePool
  <2>4. /\ fmt' \in [BufIds -> Formats \cup {USER}]
        /\ bit_map' \in [BufIds -> SUBSET Units]
    BY <2>1, <2>2 DEF TypeOK, Release, LeftAfter, poolVars
  <2> QED
    BY <2>1, <2>3, <2>4
<1> QED
  BY <1>2, <1>3

\* A picture is had for an empty place of a channel that releases nothing.
LEMMA GetStep ==
  ASSUME IInv, NEW c \in Chans, NEW s \in {"A", "B"}, NEW next \in Steps,
         GetPlace(c, <<c, s>>, next), push[<<c, s>>] = NULL,
         pc[c] \notin {"relA", "relB"}, next \notin {"relA", "relB"}
  PROVE  /\ PoolInv'
         /\ TypeOK'
         /\ Has(c, s)'
         /\ \A q \in Places : q # <<c, s>> => push'[q] = push[q]
<1> DEFINE p == <<c, s>>
           f == video_size[c]
<1> USE DEF IInv
<1>1. p \in Places /\ p[1] = c /\ f \in Formats
  BY DEF Places, TypeOK
<1>2. /\ pc'[c] = next /\ \A d \in Chans : d # c => pc'[d] = pc[d]
      /\ UNCHANGED <<video_size, nbuffers, callVars, vp_mutex>>
  BY DEF GetPlace, Goto, TypeOK
<1>3. SizeOf(p[1])' = f /\ \A d \in Chans : SizeOf(d)' = SizeOf(d)
  BY <1>1, <1>2 DEF SizeOf, callVars
<1>4. Steady
  BY <1>3, HeldAddr DEF Steady, Places
<1>5. GetShared(f, p) \/ GetUnused(f, p)
  BY DEF GetPlace
<1>6. PoolInv'
  BY <1>1, <1>3, <1>4, <1>5, GetSharedPool, GetUnusedPool
<1>7. \E a \in Addr : push' = [push EXCEPT ![p] = a]
  <2>1. CASE GetShared(f, p)
    <3>1. PICK a \in FreeSlots(f) : push' = [push EXCEPT ![p] = a]
      BY <2>1 DEF GetShared
    <3> QED
      BY <3>1, <1>1, AreaInside DEF FreeSlots, Addr
  <2>2. CASE GetUnused(f, p)
    <3>1. PICK i \in UnusedBufs : push' = [push EXCEPT ![p] = [buf |-> i, off |-> 0]]
      BY <2>2 DEF GetUnused
    <3>2. [buf |-> i, off |-> 0] \in Addr
      BY SMT DEF UnusedBufs, Addr, Units
    <3> QED
      BY <3>1, <3>2
  <2> QED
    BY <2>1, <2>2, <1>5
<1>8. \A a \in Addr : a # NULL
  BY SMT DEF Addr, NULL, BufIds
<1>9. /\ push' \in [Places -> Addr \cup {NULL}] /\ Has(c, s)'
      /\ \A q \in Places : q # p => push'[q] = push[q]
  BY <1>1, <1>7, <1>8 DEF TypeOK, Has
<1>10. /\ fmt' \in [BufIds -> Formats \cup {USER}]
       /\ bit_map' \in [BufIds -> SUBSET Units]
  <2>1. CASE GetShared(f, p)
    <3>1. PICK a \in FreeSlots(f) :
            bit_map' = [bit_map EXCEPT ![a.buf] = @ \cup Area(f, a.off)]
      BY <2>1 DEF GetShared
    <3>2. Area(f, a.off) \subseteq Units
      BY <1>1, AreaInside DEF FreeSlots
    <3> QED
      BY <2>1, <3>1, <3>2 DEF GetShared, TypeOK
  <2>2. CASE GetUnused(f, p)
    <3>1. 0 \in Offsets(f)
      BY <1>1, SMT DEF Offsets, Units, PicUnits, Formats
    <3>2. Area(f, 0) \subseteq Units
      BY <1>1, <3>1, AreaInside
    <3> QED
      BY <2>2, <3>2, <1>1 DEF GetUnused, TypeOK
  <2> QED
    BY <2>1, <2>2, <1>5
<1>11. TypeOK'
  BY <1>2, <1>6, <1>9, <1>10, CntInRange DEF TypeOK, callVars, GetPlace, Goto
<1> QED
  BY <1>6, <1>9, <1>11

-----------------------------------------------------------------------------
(* The invariant *)

\* It holds when the pool has just been set up: no buffer is used.
LEMMA InitInv == Init => IInv
<1> SUFFICES ASSUME Init PROVE IInv
  OBVIOUS
<1>1. Held = {} /\ \A c \in Chans, s \in {"A", "B"} : ~Has(c, s)
  BY DEF Init, Held, Has, Places
<1>2. UnusedBufs = BufIds /\ Cardinality(BufIds) = PREVIEW_BUF_CNT
  BY FS_Interval, CntAssumption, SMT DEF Init, UnusedBufs, BufIds
<1>3. PoolInv
  BY <1>1, <1>2 DEF Init, PoolInv, NoOverlap, ReleaseFinds, Covers, Minimal,
                    FreeMark, FreeCnt
<1>4. PlaceInv
  BY <1>1 DEF Init, PlaceInv, PlacesOf
<1>5. TypeOK
  BY CntAssumption DEF Init, TypeOK, DefaultSize, Formats, Steps, Calls
<1> QED
  BY <1>3, <1>4, <1>5 DEF IInv

\* Every step keeps it.
LEMMA NextInv == IInv /\ [Next]_vars => IInv'
<1> SUFFICES ASSUME IInv, [Next]_vars PROVE IInv'
  OBVIOUS
<1> USE DEF IInv
<1>1. ASSUME NEW c \in Chans, NEW n \in {0, 1}, ReqBufs(c, n)
      PROVE  IInv'
  <2>1. /\ video_size[c] \in Formats /\ video_size[c] = SizeOf(c)
        /\ "reqbufs" \in Calls
    BY <1>1 DEF ReqBufs, SizeOf, TypeOK, Calls
  <2> QED
    BY <1>1, <2>1, StartStep DEF ReqBufs, TypeOK
<1>2. ASSUME NEW c \in Chans, NEW size \in Formats, SetFmt(c, size)
      PROVE  IInv'
  <2>1. /\ video_size[c] \in Formats /\ video_size[c] = SizeOf(c)
        /\ "s_fmt" \in Calls /\ nbuffers[c] \in {0, 1}
    BY <1>2 DEF SetFmt, SizeOf, TypeOK, Calls
  <2>2. StartRelease(c, "s_fmt", video_size[c], nbuffers[c])
    BY <1>2 DEF SetFmt, OldSize
  <2>3. /\ UNCHANGED <<poolVars, push, nbuffers>>
        /\ video_size' \in [Chans -> Formats] /\ vp_mutex' \subseteq Chans
        /\ \A d \in Chans : d # c => video_size'[d] = video_size[d]
    BY <1>2 DEF SetFmt, TypeOK
  <2> QED
    BY <2>1, <2>2, <2>3, StartStep
<1>3. ASSUME NEW c \in Chans, Close(c)
      PROVE  IInv'
  <2>1. /\ video_size[c] \in Formats /\ video_size[c] = SizeOf(c)
        /\ "close" \in Calls
    BY <1>3 DEF Close, SizeOf, TypeOK, Calls
  <2> QED
    BY <1>3, <2>1, StartStep DEF Close, TypeOK
<1>4. ASSUME NEW c \in Chans, pc[c] \in {"getA", "getB", "fill"}, GiveUp(c)
      PROVE  IInv'
  <2>1. /\ video_size[c] \in Formats /\ video_size[c] = SizeOf(c)
        /\ call[c] \in Calls
    BY <1>4 DEF SizeOf, TypeOK
  <2> QED
    BY <1>4, <2>1, StartStep DEF GiveUp, TypeOK
<1>5. ASSUME NEW c \in Chans, ReleaseA(c)
      PROVE  IInv'
  <2>1. /\ pc[c] = "relA" /\ pc'[c] = "relB"
        /\ \A d \in Chans : d # c => pc'[d] = pc[d]
        /\ UNCHANGED <<video_size, nbuffers, call, rel_fmt, want, vp_mutex>>
    BY <1>5 DEF ReleaseA, Goto, TypeOK, callVars
  <2>2. \A d \in Chans : SizeOf(d)' = SizeOf(d)
    BY <2>1 DEF SizeOf
  <2>3. /\ PoolInv' /\ push' = [push EXCEPT ![<<c, "A">>] = NULL]
        /\ fmt' \in [BufIds -> Formats \cup {USER}]
        /\ bit_map' \in [BufIds -> SUBSET Units]
    BY <1>5, <2>1, <2>2, ReleaseStep, HeldAddr DEF ReleaseA, Places
  <2>4. TypeOK'
    BY <1>5, <2>1, <2>3, CntInRange DEF TypeOK, ReleaseA, Goto, Steps
  <2>5. /\ ~Has(c, "A")'
        /\ \A d \in Chans, s \in {"A", "B"} : d # c => Has(d, s)' = Has(d, s)
    BY <2>3 DEF Has, Places, TypeOK
  <2>6. PlacesOf(c)'
    BY <2>1, <2>5 DEF PlaceInv, PlacesOf
  <2>7. \A d \in Chans : d # c => PlacesOf(d)'
    BY <2>1, <2>5 DEF PlaceInv, PlacesOf
  <2> QED
    BY <2>3, <2>4, <2>6, <2>7 DEF PlaceInv
<1>6. ASSUME NEW c \in Chans, ReleaseB(c)
      PROVE  IInv'
  <2>1. /\ pc[c] = "relB"
        /\ pc'[c] = IF want[c] = 0 THEN "end" ELSE "getA"
        /\ nbuffers'[c] = 0
        /\ \A d \in Chans : d # c =>
             pc'[d] = pc[d] /\ nbuffers'[d] = nbuffers[d]
        /\ UNCHANGED <<video_size, call, rel_fmt, want, vp_mutex>>
    BY <1>6 DEF ReleaseB, Goto, TypeOK, callVars
  <2>2. \A d \in Chans : d # c => SizeOf(d)' = SizeOf(d)
    BY <2>1 DEF SizeOf
  <2>3. \A q \in Held \ {<<c, "B">>} : q[1] \in Chans /\ q[1] # c
    <3>1. push[<<c, "A">>] = NULL
      BY <2>1 DEF PlaceInv, PlacesOf, Has
    <3> SUFFICES ASSUME NEW q \in Held, q # <<c, "B">> PROVE q[1] \in Chans /\ q[1] # c
      OBVIOUS
    <3>2. /\ q[1] \in Chans /\ q[2] \in {"A", "B"} /\ q = <<q[1], q[2]>>
          /\ q # <<c, "A">>
      BY <3>1 DEF Held, Places
    <3> QED
      BY <3>2
  <2>4. /\ PoolInv' /\ push' = [push EXCEPT ![<<c, "B">>] = NULL]
        /\ fmt' \in [BufIds -> Formats \cup {USER}]
        /\ bit_map' \in [BufIds -> SUBSET Units]
    BY <1>6, <2>1, <2>2, <2>3, ReleaseStep DEF ReleaseB
  <2>5. TypeOK'
    BY <1>6, <2>1, <2>4, CntInRange DEF TypeOK, ReleaseB, Goto, Steps
  <2>6. /\ ~Has(c, "A")' /\ ~Has(c, "B")'
        /\ \A d \in Chans, s \in {"A", "B"} : d # c => Has(d, s)' = Has(d, s)
    BY <2>1, <2>4 DEF Has, Places, TypeOK, PlaceInv, PlacesOf
  <2>7. PlacesOf(c)'
    BY <2>1, <2>6 DEF PlaceInv, PlacesOf, TypeOK
  <2>8. \A d \in Chans : d # c => PlacesOf(d)'
    BY <2>1, <2>6 DEF PlaceInv, PlacesOf
  <2> QED
    BY <2>4, <2>5, <2>7, <2>8 DEF PlaceInv
<1>7. ASSUME NEW c \in Chans, pc[c] = "getA", GetPlace(c, <<c, "A">>, "getB")
      PROVE  IInv'
  <2>1. /\ pc'[c] = "getB" /\ \A d \in Chans : d # c => pc'[d] = pc[d]
        /\ UNCHANGED <<nbuffers, call, want>>
    BY <1>7 DEF GetPlace, Goto, TypeOK, callVars
  <2>2. push[<<c, "A">>] = NULL
    BY <1>7 DEF PlaceInv, PlacesOf, Has
  <2>3. /\ PoolInv' /\ TypeOK' /\ Has(c, "A")'
        /\ \A q \in Places : q # <<c, "A">> => push'[q] = push[q]
    BY <1>7, <2>2, GetStep DEF Steps
  <2>4. /\ Has(c, "B")' = Has(c, "B")
        /\ \A d \in Chans, s \in {"A", "B"} : d # c => Has(d, s)' = Has(d, s)
    BY <2>3 DEF Has, Places
  <2>5. PlacesOf(c)'
    BY <1>7, <2>1, <2>3, <2>4 DEF PlaceInv, PlacesOf
  <2>6. \A d \in Chans : d # c => PlacesOf(d)'
    BY <2>1, <2>4 DEF PlaceInv, PlacesOf
  <2> QED
    BY <2>3, <2>5, <2>6 DEF PlaceInv
<1>8. ASSUME NEW c \in Chans, pc[c] = "getB", GetPlace(c, <<c, "B">>, "fill")
      PROVE  IInv'
  <2>1. /\ pc'[c] = "fill" /\ \A d \in Chans : d # c => pc'[d] = pc[d]
        /\ UNCHANGED <<nbuffers, call, want>>
    BY <1>8 DEF GetPlace, Goto, TypeOK, callVars
  <2>2. push[<<c, "B">>] = NULL
    BY <1>8 DEF PlaceInv, PlacesOf, Has
  <2>3. /\ PoolInv' /\ TypeOK' /\ Has(c, "B")'
        /\ \A q \in Places : q # <<c, "B">> => push'[q] = push[q]
    BY <1>8, <2>2, GetStep DEF Steps
  <2>4. /\ Has(c, "A")' = Has(c, "A")
        /\ \A d \in Chans, s \in {"A", "B"} : d # c => Has(d, s)' = Has(d, s)
    BY <2>3 DEF Has, Places
  <2>5. PlacesOf(c)'
    BY <1>8, <2>1, <2>3, <2>4 DEF PlaceInv, PlacesOf
  <2>6. \A d \in Chans : d # c => PlacesOf(d)'
    BY <2>1, <2>4 DEF PlaceInv, PlacesOf
  <2> QED
    BY <2>3, <2>5, <2>6 DEF PlaceInv
<1>9. ASSUME NEW c \in Chans, pc[c] = "fill", Goto(c, "end"),
             nbuffers' = [nbuffers EXCEPT ![c] = want[c]],
             UNCHANGED <<poolVars, push, video_size, callVars, vp_mutex>>
      PROVE  IInv'
  <2>1. /\ pc'[c] = "end" /\ nbuffers'[c] = want[c]
        /\ \A d \in Chans : d # c =>
             pc'[d] = pc[d] /\ nbuffers'[d] = nbuffers[d]
        /\ UNCHANGED <<call, rel_fmt, want>>
    BY <1>9 DEF Goto, TypeOK, callVars
  <2>2. \A d \in Chans : SizeOf(d)' = SizeOf(d)
    BY <1>9, <2>1 DEF SizeOf
  <2>3. PoolInv'
    BY <1>9, <2>2, PoolKept, HeldAddr DEF Steady, Places
  <2>4. TypeOK'
    BY <1>9, <2>1 DEF TypeOK, Goto, Steps, poolVars
  <2>5. PlacesOf(c)'
    BY <1>9, <2>1 DEF PlaceInv, PlacesOf, Has
  <2>6. \A d \in Chans : d # c => PlacesOf(d)'
    BY <1>9, <2>1 DEF PlaceInv, PlacesOf, Has
  <2> QED
    BY <2>3, <2>4, <2>5, <2>6 DEF PlaceInv
<1>10. ASSUME NEW c \in Chans, End(c)
       PROVE  IInv'
  <2>1. /\ pc[c] = "end" /\ pc'[c] = "idle" /\ call'[c] = "none"
        /\ \A d \in Chans : d # c => pc'[d] = pc[d] /\ call'[d] = call[d]
        /\ UNCHANGED <<fmt, bit_map, preview_free_cnt, push, nbuffers, rel_fmt, want>>
    BY <1>10 DEF End, Goto, TypeOK, poolVars
  <2>2. /\ \A d \in Chans : d # c => video_size'[d] = video_size[d]
        /\ call[c] # "close" => video_size' = video_size
        /\ video_size' \in [Chans -> Formats]
    BY <1>10 DEF End, TypeOK, DefaultSize, Formats
  <2>3. call[c] = "close" => ~Has(c, "A") /\ ~Has(c, "B")
    BY <2>1 DEF PlaceInv, PlacesOf
  <2>4. \A d \in Chans : d # c \/ call[c] # "close" => SizeOf(d)' = SizeOf(d)
    BY <2>1, <2>2 DEF SizeOf
  <2>5. \A q \in Held : q[1] \in Chans /\ (call[c] = "close" => q[1] # c)
    BY <2>3 DEF Held, Places, Has
  <2>6. PoolInv'
    BY <2>1, <2>4, <2>5, PoolKept DEF Steady, poolVars
  <2>7. TypeOK'
    BY <1>10, <2>1, <2>2 DEF TypeOK, End, Goto, Steps, Calls
  <2>8. PlacesOf(c)'
    BY <2>1 DEF PlaceInv, PlacesOf, Has
  <2>9. \A d \in Chans : d # c => PlacesOf(d)'
    BY <2>1 DEF PlaceInv, PlacesOf, Has
  <2> QED
    BY <2>6, <2>7, <2>8, <2>9 DEF PlaceInv
<1>11. CASE UNCHANGED vars
  <2>1. Steady /\ UNCHANGED <<poolVars, push>>
    BY <1>11 DEF vars, Steady, SizeOf, callVars
  <2>2. TypeOK' /\ PlaceInv'
    BY <1>11 DEF vars, poolVars, callVars, TypeOK, PlaceInv, PlacesOf, Has
  <2> QED
    BY <2>1, <2>2, PoolKept
<1>12. CASE Next
  <2> PICK c \in Chans :
        \/ \E n \in {0, 1} : ReqBufs(c, n)
        \/ \E size \in Formats : SetFmt(c, size)
        \/ Close(c)
        \/ ReleaseA(c) \/ ReleaseB(c) \/ GetA(c) \/ GetB(c) \/ Fill(c) \/ End(c)
    BY <1>12 DEF Next
  <2>1. CASE GetA(c)
    BY <2>1, <1>4, <1>7 DEF GetA
  <2>2. CASE GetB(c)
    BY <2>2, <1>4, <1>8 DEF GetB
  <2>3. CASE Fill(c)
    BY <2>3, <1>4, <1>9 DEF Fill
  <2> QED
    BY <2>1, <2>2, <2>3, <1>1, <1>2, <1>3, <1>5, <1>6, <1>10
<1> QED
  BY <1>11, <1>12

\* It holds in every state the driver reaches.
THEOREM Invariant == Spec => []IInv
BY InitInv, NextInv, PTL DEF Spec

-----------------------------------------------------------------------------
(* What it says *)

\* Every variable keeps its type; preview_free_cnt never leaves 0 ..
\* PREVIEW_BUF_CNT.
THEOREM TypeCorrect == Spec => []TypeOK
BY Invariant, PTL DEF IInv

\* The chip never writes two pictures to the same place.
THEOREM NoOverlapCorrect == Spec => []NoOverlap
BY Invariant, PTL DEF IInv, PoolInv

\* release_push_buf finds the buffer of every picture it is given.
THEOREM ReleaseCorrect == Spec => []ReleaseFinds
BY Invariant, PTL DEF IInv, PoolInv

\* bit_map marks the units of the pictures held, and no unit is lost.
THEOREM MapCorrect == Spec => []MapExact
<1>1. IInv => MapExact
  <2> SUFFICES ASSUME IInv, NEW i \in BufIds
               PROVE  bit_map[i] = UNION {AreaOf(p) : p \in {q \in Held : push[q].buf = i}}
    BY DEF MapExact
  <2>1. \A u \in bit_map[i] : \E p \in Held : push[p].buf = i /\ u \in AreaOf(p)
    BY DEF IInv, PoolInv, Minimal
  <2>2. \A p \in Held : push[p].buf = i => AreaOf(p) \subseteq bit_map[i]
    BY DEF IInv, PoolInv, Covers
  <2> QED
    BY <2>1, <2>2
<1> QED
  BY <1>1, Invariant, PTL

\* preview_free_cnt is the number of buffers nobody uses.
THEOREM CountCorrect == Spec => []FreeCntExact
<1>1. IInv => FreeCntExact
  BY DEF IInv, PoolInv, FreeMark, FreeCnt, FreeCntExact
<1> QED
  BY <1>1, Invariant, PTL

\* A request of pictures succeeds or fails as a whole.
THEOREM AllOrNothingCorrect == Spec => []AllOrNothing
<1>1. IInv => AllOrNothing
  <2> SUFFICES ASSUME IInv, NEW c \in Chans, pc[c] = "idle"
               PROVE  \A s \in {"A", "B"} : push[<<c, s>>] # NULL <=> nbuffers[c] # 0
    BY DEF AllOrNothing
  <2>1. PlacesOf(c)
    BY DEF IInv, PlaceInv
  <2> QED
    BY <2>1 DEF PlacesOf, Has
<1> QED
  BY <1>1, Invariant, PTL
=============================================================================
