-------------------------- MODULE FramePoolProofs --------------------------
(***************************************************************************)
(* FramePool for any frames, packets and consumers.  The counts are exact  *)
(* because a packet is once in a consumer's queue, and the loop hands one  *)
(* out before anybody has it; a frame on its way back to the pool has the  *)
(* count 0 and one thread that brings it, so nobody can count it up again. *)
(***************************************************************************)
EXTENDS FramePool, FiniteSetTheorems, TLAPS

\* The loop's place says whether it has a frame and a packet.
LoopInv ==
  /\ lframe # None <=> lpc \in {"addref", "read", "packets", "notify", "relpkt"}
  /\ lpkt # None <=> lpc \in {"notify", "relpkt"}

\* A queue has a packet once; the one about to be handed out is in none.
QueueInv ==
  /\ \A c \in Consumers : IsInjective(held[c])
  /\ lpc = "notify" => \A c \in Consumers : lpkt \notin Range(held[c])
  /\ \A p \in Packets : pref[p] > 0 => pframe[p] \in Frames
  /\ \A t \in Threads : rpc[t] # "no" => rframe[t] \in Frames

\* A frame on its way into the pool, or just taken from it.
Putting(t, f) == rpc[t] = "put" /\ rframe[t] = f
PutInv ==
  /\ \A t, u \in Threads : \A f \in Frames : Putting(t, f) /\ Putting(u, f) => t = u
  /\ \A t \in Threads : \A f \in Frames :
       Putting(t, f) => ref[f] = 0 /\ ~(lpc = "addref" /\ lframe = f)
  /\ lpc = "addref" => ref[lframe] = 0

InPool ==
  \A f \in Frames :
    f \in framesList <=>
      /\ ref[f] = 0
      /\ ~ \E t \in Threads : Putting(t, f)
      /\ ~ (lpc = "addref" /\ lframe = f)

\* The holders of a frame and of a packet, as CountsExact counts them.
FrameCount(f) ==
  Cardinality(PacketsOf(f)) + Cardinality(Releasing(f)) + (IF LoopHolds(f) THEN 1 ELSE 0)
Holders(p) == {c \in Consumers : p \in Range(held[c])}
FrameCounts == \A f \in Frames : ref[f] = FrameCount(f)
PacketCounts ==
  \A p \in Packets : pref[p] = Cardinality(Holders(p)) + (IF lpkt = p THEN 1 ELSE 0)

IInv == TypeOK /\ FrameCounts /\ PacketCounts /\ InPool /\ LoopInv /\ QueueInv /\ PutInv

-----------------------------------------------------------------------------
(* Lemmas on sets and queues *)

LEMMA OneMore ==
  ASSUME NEW S, IsFiniteSet(S), NEW x, x \notin S
  PROVE  /\ Cardinality(S \cup {x}) = Cardinality(S) + 1
         /\ Cardinality(S) \in Nat
BY FS_AddElement, FS_CardinalityType

LEMMA OneLess ==
  ASSUME NEW S, IsFiniteSet(S), NEW x \in S
  PROVE  /\ Cardinality(S) = Cardinality(S \ {x}) + 1
         /\ Cardinality(S \ {x}) \in Nat /\ Cardinality(S) \in Nat
<1>1. IsFiniteSet(S \ {x}) /\ Cardinality(S \ {x}) = Cardinality(S) - 1
  BY FS_RemoveElement
<1>2. Cardinality(S \ {x}) \in Nat /\ Cardinality(S) \in Nat
  BY <1>1, FS_CardinalityType
<1> QED  BY <1>1, <1>2

LEMMA Finite ==
  /\ \A f : /\ IsFiniteSet(PacketsOf(f)) /\ Cardinality(PacketsOf(f)) \in Nat
            /\ IsFiniteSet(Releasing(f)) /\ Cardinality(Releasing(f)) \in Nat
  /\ \A p : /\ IsFiniteSet(Holders(p)) /\ Cardinality(Holders(p)) \in Nat
            /\ Cardinality(Holders(p)) <= Cardinality(Consumers)
  /\ Cardinality(Consumers) \in Nat
<1>1. IsFiniteSet(Threads)
  BY OthersAssumption, FS_AddElement DEF Threads
<1>2. Cardinality(Consumers) \in Nat
  BY OthersAssumption, FS_CardinalityType
<1>3. \A f : IsFiniteSet(PacketsOf(f)) /\ IsFiniteSet(Releasing(f))
  BY <1>1, OthersAssumption, FS_Subset DEF PacketsOf, Releasing
<1>4. \A p : IsFiniteSet(Holders(p)) /\ Cardinality(Holders(p)) <= Cardinality(Consumers)
  BY OthersAssumption, FS_Subset DEF Holders
<1> QED  BY <1>2, <1>3, <1>4, FS_CardinalityType

LEMMA AppendRange ==
  ASSUME NEW S, NEW s \in Seq(S), NEW e \in S, IsInjective(s), e \notin Range(s)
  PROVE  /\ Append(s, e) \in Seq(S) /\ Range(Append(s, e)) = Range(s) \cup {e}
         /\ IsInjective(Append(s, e))
<1> DEFINE t == Append(s, e)
<1>1. /\ t \in Seq(S) /\ DOMAIN t = 1 .. Len(s) + 1
      /\ DOMAIN s = 1 .. Len(s) /\ Len(s) \in Nat
      /\ \A i \in 1 .. Len(s) : t[i] = s[i]
  OBVIOUS
<1>2. t[Len(s) + 1] = e
  OBVIOUS
<1> HIDE DEF t
<1>3. Range(t) = Range(s) \cup {e}
  <2>1. ASSUME NEW x \in Range(t) PROVE x \in Range(s) \cup {e}
    <3>1. PICK i \in 1 .. Len(s) + 1 : x = t[i]
      BY <1>1 DEF Range
    <3> QED  BY <1>1, <1>2, <3>1 DEF Range
  <2>2. ASSUME NEW x \in Range(s) PROVE x \in Range(t)
    <3>1. PICK i \in 1 .. Len(s) : x = s[i]
      BY <1>1 DEF Range
    <3>2. i \in DOMAIN t /\ t[i] = x
      BY <1>1, <3>1
    <3> QED  BY <3>2 DEF Range
  <2>3. e \in Range(t)
    BY <1>1, <1>2 DEF Range
  <2> QED  BY <2>1, <2>2, <2>3
<1>4. IsInjective(t)
  <2>1. \A i \in 1 .. Len(s) : s[i] # e
    BY <1>1 DEF Range
  <2> QED  BY <1>1, <1>2, <2>1 DEF IsInjective
<1> QED  BY <1>1, <1>3, <1>4 DEF t

LEMMA TailRange ==
  ASSUME NEW S, NEW s \in Seq(S), s # <<>>, IsInjective(s)
  PROVE  /\ Head(s) \in S /\ Tail(s) \in Seq(S) /\ IsInjective(Tail(s))
         /\ Range(s) = Range(Tail(s)) \cup {Head(s)} /\ Head(s) \notin Range(Tail(s))
<1> DEFINE t == Tail(s)
<1>1. /\ t \in Seq(S) /\ DOMAIN t = 1 .. Len(t) /\ DOMAIN s = 1 .. Len(t) + 1
      /\ Len(t) \in Nat /\ Head(s) = s[1] /\ Head(s) \in S
      /\ \A i \in 1 .. Len(t) : t[i] = s[i + 1]
  OBVIOUS
<1> HIDE DEF t
<1>2. Range(s) = Range(t) \cup {Head(s)}
  <2>1. ASSUME NEW x \in Range(s) PROVE x \in Range(t) \cup {Head(s)}
    <3>1. PICK i \in 1 .. Len(t) + 1 : x = s[i]
      BY <1>1 DEF Range
    <3>2. CASE i = 1
      BY <1>1, <3>1, <3>2
    <3>3. CASE i # 1
      <4>1. i - 1 \in 1 .. Len(t) /\ t[i - 1] = x
        BY <1>1, <3>1, <3>3
      <4> QED  BY <1>1, <4>1 DEF Range
    <3> QED  BY <3>2, <3>3
  <2>2. ASSUME NEW x \in Range(t) PROVE x \in Range(s)
    <3>1. PICK i \in 1 .. Len(t) : x = t[i]
      BY <1>1 DEF Range
    <3>2. i + 1 \in DOMAIN s /\ s[i + 1] = x
      BY <1>1, <3>1
    <3> QED  BY <3>2 DEF Range
  <2>3. Head(s) \in Range(s)
    BY <1>1 DEF Range
  <2> QED  BY <2>1, <2>2, <2>3
<1>3. Head(s) \notin Range(t)
  BY <1>1 DEF Range, IsInjective
<1>4. IsInjective(t)
  BY <1>1 DEF IsInjective
<1> QED  BY <1>1, <1>2, <1>3, <1>4 DEF t

-----------------------------------------------------------------------------
(* The steps keep the invariant *)

LEMMA InitIInv == Init => IInv
<1> SUFFICES ASSUME Init PROVE IInv
  OBVIOUS
<1>1. \A c \in Consumers : held[c] = <<>>
  BY DEF Init
<1>2. \A c \in Consumers : Range(held[c]) = {} /\ IsInjective(held[c])
  <2>1. \A c \in Consumers : DOMAIN held[c] = {}
    BY <1>1
  <2> QED  BY <2>1 DEF Range, IsInjective
<1>3. TypeOK
  <2>1. held \in [Consumers -> Seq(Packets)]
    BY DEF Init
  <2>2. /\ pref \in [Packets -> 0 .. 1 + Cardinality(Consumers)] /\ left \in 0 .. MaxPerFrame
    BY Finite, MaxPerFrameAssumption DEF Init
  <2> QED  BY <2>1, <2>2 DEF Init, TypeOK, LoopState
<1>4. FrameCounts
  <2>1. \A f \in Frames : PacketsOf(f) = {} /\ Releasing(f) = {} /\ ~LoopHolds(f)
    BY DEF Init, PacketsOf, Releasing, LoopHolds
  <2>2. Cardinality({}) = 0
    BY FS_EmptySet
  <2>3. \A f \in Frames : FrameCount(f) = 0
    BY <2>1, <2>2 DEF FrameCount
  <2> QED  BY <2>3 DEF Init, FrameCounts
<1>5. PacketCounts
  <2>1. \A p \in Packets : Holders(p) = {} /\ lpkt # p
    BY <1>2, NamesAssumption DEF Init, Holders, None
  <2> QED  BY <2>1, FS_EmptySet DEF Init, PacketCounts
<1>6. InPool /\ PutInv
  BY DEF Init, InPool, PutInv, Putting
<1>7. LoopInv /\ QueueInv
  BY <1>2 DEF Init, LoopInv, QueueInv
<1> QED  BY <1>3, <1>4, <1>5, <1>6, <1>7 DEF IInv

\* The count of a frame stays when its holders do.
LEMMA CountKept ==
  ASSUME FrameCounts, NEW f \in Frames, ref'[f] = ref[f],
         PacketsOf(f)' = PacketsOf(f), Releasing(f)' = Releasing(f),
         LoopHolds(f)' <=> LoopHolds(f)
  PROVE  ref'[f] = FrameCount(f)'
BY DEF FrameCounts, FrameCount

LEMMA PacketCountsKept ==
  ASSUME PacketCounts, UNCHANGED <<pref, held, lpkt>> PROVE PacketCounts'
<1>1. \A p \in Packets : Holders(p)' = Holders(p)
  BY DEF Holders
<1> QED  BY <1>1 DEF PacketCounts

\* A thread gives up a counted reference.
LEMMA ReleaseDecStep ==
  ASSUME IInv, NEW t \in Threads, ReleaseDec(t) PROVE IInv'
<1>1. PICK f \in Frames :
      /\ rpc[t] = "dec" /\ f = rframe[t] /\ ref[f] > 0 /\ ref[f] \in Nat
      /\ ref' = [ref EXCEPT ![f] = @ - 1] /\ ref'[f] = ref[f] - 1
      /\ rpc' = [rpc EXCEPT ![t] = IF ref'[f] = 0 THEN "put" ELSE "no"]
      /\ UNCHANGED <<framesList, pref, pframe, held, lpc, lframe, lpkt, left, rframe>>
  BY DEF ReleaseDec, LastReference, IInv, TypeOK, QueueInv, pktVars, loopVars
<1>2. /\ \A g \in Frames : g # f => ref'[g] = ref[g]
      /\ \A u \in Threads : u # t => rpc'[u] = rpc[u]
      /\ rpc'[t] = IF ref'[f] = 0 THEN "put" ELSE "no"
  BY <1>1 DEF IInv, TypeOK
<1>3. TypeOK'
  BY <1>1 DEF IInv, TypeOK
<1>4. FrameCounts'
  <2>1. \A g \in Frames : PacketsOf(g)' = PacketsOf(g) /\ (LoopHolds(g)' <=> LoopHolds(g))
    BY <1>1 DEF PacketsOf, LoopHolds
  <2>2. \A g \in Frames : g # f => Releasing(g)' = Releasing(g)
    BY <1>1, <1>2 DEF Releasing
  <2>3. t \in Releasing(f) /\ Releasing(f)' = Releasing(f) \ {t}
    BY <1>1, <1>2 DEF Releasing
  <2>4. Cardinality(Releasing(f)) = Cardinality(Releasing(f)') + 1
    BY <2>3, Finite, OneLess
  <2>5. ref'[f] = FrameCount(f)'
    <3> DEFINE a == Cardinality(PacketsOf(f))
               b == Cardinality(Releasing(f))
               d == Cardinality(Releasing(f)')
               e == IF LoopHolds(f) THEN 1 ELSE 0
    <3>1. /\ a \in Nat /\ b \in Nat /\ d \in Nat /\ e \in Nat /\ b = d + 1
          /\ ref[f] = a + b + e
      BY <1>1, <2>3, <2>4, Finite, OneLess DEF IInv, FrameCounts, FrameCount
    <3>2. FrameCount(f)' = a + d + e
      BY <1>1, <2>1 DEF FrameCount
    <3> HIDE DEF a, b, d, e
    <3> QED  BY <1>1, <3>1, <3>2
  <2>6. \A g \in Frames : ref'[g] = FrameCount(g)'
    <3> TAKE g \in Frames
    <3>1. CASE g = f
      BY <2>5, <3>1
    <3>2. CASE g # f
      BY <1>2, <2>1, <2>2, <3>2, CountKept DEF IInv
    <3> QED  BY <3>1, <3>2
  <2> QED  BY <2>6 DEF FrameCounts
<1>5. PacketCounts'
  BY <1>1, PacketCountsKept DEF IInv
<1>6. \A u \in Threads : \A g \in Frames :
        Putting(u, g)' <=> Putting(u, g) \/ (u = t /\ g = f /\ ref'[f] = 0)
  BY <1>1, <1>2 DEF Putting
<1>7. /\ \A u \in Threads : ~Putting(u, f)
      /\ ~(lpc = "addref" /\ lframe = f) /\ f \notin framesList
  BY <1>1 DEF IInv, PutInv, InPool
<1>8. InPool'
  BY <1>1, <1>2, <1>6, <1>7 DEF IInv, InPool
<1>9. PutInv'
  BY <1>1, <1>2, <1>6, <1>7 DEF IInv, PutInv
<1>10. LoopInv' /\ QueueInv'
  BY <1>1, <1>2 DEF IInv, LoopInv, QueueInv
<1> QED  BY <1>3, <1>4, <1>5, <1>8, <1>9, <1>10 DEF IInv

\* A frame comes back to the pool, which may wake the loop.
LEMMA ReleasePutStep ==
  ASSUME IInv, NEW t \in Threads, ReleasePut(t) PROVE IInv'
<1>1. PICK f \in Frames :
      /\ rpc[t] = "put" /\ f = rframe[t] /\ lpc # "addref" /\ ref[f] = 0
      /\ framesList' = framesList \cup {f} /\ ref' = [ref EXCEPT ![f] = 0]
      /\ rpc' = [rpc EXCEPT ![t] = "unlock"]
      /\ UNCHANGED <<pref, pframe, held, lframe, lpkt, left, rframe>>
  BY DEF ReleasePut, IInv, TypeOK, QueueInv, PutInv, Putting, pktVars
<1>2. /\ lpc' \in LoopState
      /\ lpc' = lpc \/ (lpc \in {"wait", "poolwait"} /\ lpc' \in {"woken", "poolwoken"})
  BY DEF ReleasePut, WakeOnPut, IInv, TypeOK, LoopState
<1>3. /\ ref' = ref /\ rpc'[t] = "unlock"
      /\ \A u \in Threads : u # t => rpc'[u] = rpc[u]
  BY <1>1 DEF IInv, TypeOK
<1>4. TypeOK'
  BY <1>1, <1>2 DEF IInv, TypeOK
<1>5. FrameCounts'
  <2>1. \A g \in Frames : /\ PacketsOf(g)' = PacketsOf(g) /\ Releasing(g)' = Releasing(g)
                          /\ (LoopHolds(g)' <=> LoopHolds(g))
    BY <1>1, <1>2, <1>3 DEF PacketsOf, Releasing, LoopHolds
  <2>2. \A g \in Frames : ref'[g] = FrameCount(g)'
    BY <1>3, <2>1, CountKept DEF IInv
  <2> QED  BY <2>2 DEF FrameCounts
<1>6. PacketCounts'
  BY <1>1, PacketCountsKept DEF IInv
<1>7. \A u \in Threads : \A g \in Frames :
        Putting(u, g)' <=> Putting(u, g) /\ u # t
  BY <1>1, <1>3 DEF Putting
<1>8. \A g \in Frames : Putting(t, g) <=> g = f
  BY <1>1 DEF Putting
<1>9. InPool'
  BY <1>1, <1>2, <1>3, <1>7, <1>8 DEF IInv, InPool, PutInv
<1>10. PutInv'
  BY <1>1, <1>2, <1>3, <1>7 DEF IInv, PutInv
<1>11. LoopInv' /\ QueueInv'
  BY <1>1, <1>2, <1>3 DEF IInv, LoopInv, QueueInv
<1> QED  BY <1>4, <1>5, <1>6, <1>9, <1>10, <1>11 DEF IInv

LEMMA ReleaseUnlockStep ==
  ASSUME IInv, NEW t \in Threads, ReleaseUnlock(t) PROVE IInv'
<1>1. /\ rpc[t] = "unlock" /\ rpc' = [rpc EXCEPT ![t] = "no"] /\ rpc'[t] = "no"
      /\ \A u \in Threads : u # t => rpc'[u] = rpc[u]
      /\ UNCHANGED <<framesList, ref, pref, pframe, held, lpc, lframe, lpkt, left, rframe>>
  BY DEF ReleaseUnlock, IInv, TypeOK, pktVars, loopVars
<1>2. TypeOK'
  BY <1>1 DEF IInv, TypeOK
<1>3. FrameCounts'
  <2>1. \A g \in Frames : /\ PacketsOf(g)' = PacketsOf(g) /\ Releasing(g)' = Releasing(g)
                          /\ (LoopHolds(g)' <=> LoopHolds(g))
    BY <1>1 DEF PacketsOf, Releasing, LoopHolds
  <2>2. \A g \in Frames : ref'[g] = FrameCount(g)'
    BY <1>1, <2>1, CountKept DEF IInv
  <2> QED  BY <2>2 DEF FrameCounts
<1>4. PacketCounts'
  BY <1>1, PacketCountsKept DEF IInv
<1>5. \A u \in Threads : \A g \in Frames : Putting(u, g)' <=> Putting(u, g)
  BY <1>1 DEF Putting
<1>6. InPool' /\ PutInv'
  BY <1>1, <1>5 DEF IInv, InPool, PutInv
<1>7. LoopInv' /\ QueueInv'
  BY <1>1 DEF IInv, LoopInv, QueueInv
<1> QED  BY <1>2, <1>3, <1>4, <1>6, <1>7 DEF IInv

\* The loop moves between places where it counts for the same frames.
LEMMA LoopMoves ==
  ASSUME IInv, lpc' \in LoopState, left' \in 0 .. MaxPerFrame,
         \/ lpc' \in {"idle", "wait", "woken", "poolwait", "poolwoken", "released"}
              /\ lpc \in {"idle", "wait", "woken", "poolwait", "poolwoken", "released"}
         \/ lpc' \in {"read", "packets"} /\ lpc \in {"read", "packets"},
         UNCHANGED <<framesList, ref, pref, pframe, held, lframe, lpkt, rpc, rframe>>
  PROVE  IInv'
<1>1. TypeOK'
  BY DEF IInv, TypeOK
<1>2. FrameCounts'
  <2>1. \A g \in Frames : /\ PacketsOf(g)' = PacketsOf(g) /\ Releasing(g)' = Releasing(g)
                          /\ (LoopHolds(g)' <=> LoopHolds(g))
    BY DEF PacketsOf, Releasing, LoopHolds
  <2>2. \A g \in Frames : ref'[g] = FrameCount(g)'
    BY <2>1, CountKept DEF IInv
  <2> QED  BY <2>2 DEF FrameCounts
<1>3. PacketCounts'
  BY PacketCountsKept DEF IInv
<1>4. \A u \in Threads : \A g \in Frames : Putting(u, g)' <=> Putting(u, g)
  BY DEF Putting
<1>5. InPool' /\ PutInv'
  BY <1>4 DEF IInv, InPool, PutInv
<1>6. LoopInv' /\ QueueInv'
  BY DEF IInv, LoopInv, QueueInv
<1> QED  BY <1>1, <1>2, <1>3, <1>5, <1>6 DEF IInv

LEMMA QuietSteps ==
  ASSUME IInv, ReadData \/ ReleasePool \/ (GetFrame /\ framesList = {}) PROVE IInv'
<1>1. CASE ReadData
  <2>1. /\ lpc = "read" /\ lpc' = "packets" /\ left' \in 0 .. MaxPerFrame
        /\ UNCHANGED <<framesList, ref, pref, pframe, held, lframe, lpkt, rpc, rframe>>
    BY <1>1 DEF ReadData, pktVars, relVars
  <2> QED  BY <2>1, LoopMoves DEF LoopState
<1>2. CASE ReleasePool
  <2>1. /\ lpc \in {"idle", "poolwoken"} /\ lpc' \in {"released", "poolwait"}
        /\ left' \in 0 .. MaxPerFrame
        /\ UNCHANGED <<framesList, ref, pref, pframe, held, lframe, lpkt, rpc, rframe>>
    BY <1>2 DEF ReleasePool, pktVars, relVars, IInv, TypeOK
  <2> QED  BY <2>1, LoopMoves DEF LoopState
<1>3. CASE GetFrame /\ framesList = {}
  <2>1. /\ lpc \in {"idle", "woken"} /\ lpc' = "wait" /\ left' \in 0 .. MaxPerFrame
        /\ UNCHANGED <<framesList, ref, pref, pframe, held, lframe, lpkt, rpc, rframe>>
    BY <1>3 DEF GetFrame, pktVars, relVars, IInv, TypeOK
  <2> QED  BY <2>1, LoopMoves DEF LoopState
<1> QED  BY <1>1, <1>2, <1>3

\* A frame is taken out of the pool ...
LEMMA GetFrameStep ==
  ASSUME IInv, GetFrame, framesList # {} PROVE IInv'
<1>1. PICK f \in Frames :
      /\ lpc \in {"idle", "woken"} /\ f \in framesList /\ lframe' = f
      /\ framesList' = framesList \ {f} /\ lpc' = "addref"
      /\ UNCHANGED <<ref, pref, pframe, held, lpkt, left, rpc, rframe>>
  BY DEF GetFrame, TakeOut, IInv, TypeOK, pktVars, relVars
<1>2. ref[f] = 0 /\ \A t \in Threads : ~Putting(t, f)
  BY <1>1 DEF IInv, InPool
<1>3. TypeOK'
  BY <1>1 DEF IInv, TypeOK, LoopState
<1>4. FrameCounts'
  <2>1. \A g \in Frames : /\ PacketsOf(g)' = PacketsOf(g) /\ Releasing(g)' = Releasing(g)
                          /\ (LoopHolds(g)' <=> LoopHolds(g))
    BY <1>1 DEF PacketsOf, Releasing, LoopHolds
  <2>2. \A g \in Frames : ref'[g] = FrameCount(g)'
    BY <1>1, <2>1, CountKept DEF IInv
  <2> QED  BY <2>2 DEF FrameCounts
<1>5. PacketCounts'
  BY <1>1, PacketCountsKept DEF IInv
<1>6. \A u \in Threads : \A g \in Frames : Putting(u, g)' <=> Putting(u, g)
  BY <1>1 DEF Putting
<1>7. InPool' /\ PutInv'
  BY <1>1, <1>2, <1>6 DEF IInv, InPool, PutInv
<1>8. LoopInv' /\ QueueInv'
  BY <1>1, NamesAssumption DEF IInv, LoopInv, QueueInv, None
<1> QED  BY <1>3, <1>4, <1>5, <1>7, <1>8 DEF IInv

\* ... and counted.
LEMMA GetFrameRefStep ==
  ASSUME IInv, GetFrameRef PROVE IInv'
<1>1. PICK f \in Frames :
      /\ lpc = "addref" /\ f = lframe /\ lpc' = "read" /\ ref[f] = 0
      /\ ref' = [ref EXCEPT ![f] = @ + 1] /\ ref'[f] = 1
      /\ \A g \in Frames : g # f => ref'[g] = ref[g]
      /\ UNCHANGED <<framesList, pref, pframe, held, lframe, lpkt, left, rpc, rframe>>
  <2>1. lpc = "addref" /\ lframe \in Frames /\ ref[lframe] = 0 /\ ref \in [Frames -> Nat]
    BY DEF GetFrameRef, IInv, TypeOK, LoopInv, PutInv
  <2>2. ref' = [ref EXCEPT ![lframe] = 1]
    BY <2>1 DEF GetFrameRef
  <2> QED  BY <2>1, <2>2 DEF GetFrameRef, pktVars, relVars
<1>2. f \notin framesList /\ \A t \in Threads : ~Putting(t, f)
  BY <1>1 DEF IInv, InPool, PutInv
<1>3. TypeOK'
  BY <1>1 DEF IInv, TypeOK, LoopState
<1>4. FrameCounts'
  <2>1. \A g \in Frames : PacketsOf(g)' = PacketsOf(g) /\ Releasing(g)' = Releasing(g)
    BY <1>1 DEF PacketsOf, Releasing
  <2>2. \A g \in Frames : g # f => (LoopHolds(g)' <=> LoopHolds(g))
    BY <1>1 DEF LoopHolds
  <2>3. ref'[f] = FrameCount(f)'
    <3>1. LoopHolds(f)' /\ ~LoopHolds(f)
      BY <1>1 DEF LoopHolds
    <3> DEFINE a == Cardinality(PacketsOf(f))
               b == Cardinality(Releasing(f))
    <3>2. a \in Nat /\ b \in Nat /\ a + b = 0
      BY <1>1, <3>1, Finite DEF IInv, FrameCounts, FrameCount
    <3>3. FrameCount(f)' = a + b + 1
      BY <2>1, <3>1 DEF FrameCount
    <3> HIDE DEF a, b
    <3> QED  BY <1>1, <3>2, <3>3
  <2>4. \A g \in Frames : ref'[g] = FrameCount(g)'
    <3> TAKE g \in Frames
    <3>1. CASE g = f
      BY <2>3, <3>1
    <3>2. CASE g # f
      BY <1>1, <2>1, <2>2, <3>2, CountKept DEF IInv
    <3> QED  BY <3>1, <3>2
  <2> QED  BY <2>4 DEF FrameCounts
<1>5. PacketCounts'
  BY <1>1, PacketCountsKept DEF IInv
<1>6. \A u \in Threads : \A g \in Frames : Putting(u, g)' <=> Putting(u, g)
  BY <1>1 DEF Putting
<1>7. InPool' /\ PutInv'
  BY <1>1, <1>2, <1>6 DEF IInv, InPool, PutInv
<1>8. LoopInv' /\ QueueInv'
  BY <1>1 DEF IInv, LoopInv, QueueInv
<1> QED  BY <1>3, <1>4, <1>5, <1>7, <1>8 DEF IInv

\* A new packet, which nobody has yet, refers to the loop's frame.
LEMMA NewPacketStep ==
  ASSUME IInv, NewPacket PROVE IInv'
<1>1. CASE lpc' = lpc
  <2>1. /\ lpc = "packets" /\ left' \in 0 .. MaxPerFrame
        /\ UNCHANGED <<framesList, ref, pref, pframe, held, lframe, lpkt, rpc, rframe>>
    BY <1>1, MaxPerFrameAssumption DEF NewPacket, relVars
  <2> QED  BY <1>1, <2>1, LoopMoves DEF LoopState
<1>2. CASE lpc' # lpc
  <2>1. PICK p \in Packets :
        /\ lpc = "packets" /\ pref[p] = 0 /\ pref' = [pref EXCEPT ![p] = 1]
        /\ pframe' = [pframe EXCEPT ![p] = lframe] /\ lpkt' = p
        /\ AddFrameRef(lframe) /\ lpc' = "notify" /\ left > 0 /\ left' = left - 1
        /\ UNCHANGED <<framesList, held, lframe, rpc, rframe>>
    BY <1>2 DEF NewPacket, relVars
  <2>2. PICK f \in Frames : f = lframe
    BY <2>1 DEF IInv, TypeOK, LoopInv
  <2>3. /\ ref' = [ref EXCEPT ![f] = @ + 1] /\ ref'[f] = ref[f] + 1 /\ ref[f] \in Nat
        /\ \A g \in Frames : g # f => ref'[g] = ref[g]
    BY <2>1, <2>2 DEF AddFrameRef, IInv, TypeOK
  <2>4. /\ pref'[p] = 1 /\ pframe'[p] = f /\ p # None /\ lpkt = None
        /\ \A q \in Packets : q # p => pref'[q] = pref[q] /\ pframe'[q] = pframe[q]
    BY <2>1, <2>2, NamesAssumption DEF IInv, TypeOK, LoopInv, None
  <2>5. TypeOK'
    <3>1. left' \in 0 .. MaxPerFrame
      BY <2>1, MaxPerFrameAssumption DEF IInv, TypeOK
    <3>2. pref' \in [Packets -> 0 .. 1 + Cardinality(Consumers)]
      BY <2>1, Finite DEF IInv, TypeOK
    <3> QED  BY <2>1, <2>2, <2>3, <3>1, <3>2 DEF IInv, TypeOK, LoopState
  <2>6. FrameCounts'
    <3>1. \A g \in Frames :
            Releasing(g)' = Releasing(g) /\ (LoopHolds(g)' <=> LoopHolds(g))
      BY <2>1 DEF Releasing, LoopHolds
    <3>2. \A g \in Frames : g # f => PacketsOf(g)' = PacketsOf(g)
      BY <2>1, <2>4 DEF PacketsOf
    <3>3. p \notin PacketsOf(f) /\ PacketsOf(f)' = PacketsOf(f) \cup {p}
      BY <2>1, <2>4 DEF PacketsOf
    <3>4. ref'[f] = FrameCount(f)'
      <4> DEFINE a == Cardinality(PacketsOf(f))
                 b == Cardinality(Releasing(f))
                 d == Cardinality(PacketsOf(f)')
                 e == IF LoopHolds(f) THEN 1 ELSE 0
      <4>1. /\ a \in Nat /\ b \in Nat /\ e \in Nat /\ d = a + 1 /\ ref[f] = a + b + e
        BY <3>3, Finite, OneMore DEF IInv, FrameCounts, FrameCount
      <4>2. FrameCount(f)' = d + b + e
        BY <3>1 DEF FrameCount
      <4> HIDE DEF a, b, d, e
      <4> QED  BY <2>3, <4>1, <4>2
    <3>5. \A g \in Frames : ref'[g] = FrameCount(g)'
      <4> TAKE g \in Frames
      <4>1. CASE g = f
        BY <3>4, <4>1
      <4>2. CASE g # f
        BY <2>3, <3>1, <3>2, <4>2, CountKept DEF IInv
      <4> QED  BY <4>1, <4>2
    <3> QED  BY <3>5 DEF FrameCounts
  <2>7. Holders(p) = {}
    <3>1. Cardinality(Holders(p)) = 0 /\ IsFiniteSet(Holders(p))
      BY <2>1, <2>4, Finite DEF IInv, PacketCounts
    <3> QED  BY <3>1, FS_EmptySet
  <2>8. PacketCounts'
    <3>1. \A q \in Packets : Holders(q)' = Holders(q)
      BY <2>1 DEF Holders
    <3>2. Cardinality({}) = 0
      BY FS_EmptySet
    <3>3. \A q \in Packets : q # lpkt
      BY <2>4, NamesAssumption DEF None
    <3> QED  BY <2>1, <2>4, <2>7, <3>1, <3>2, <3>3 DEF IInv, PacketCounts
  <2>9. \A u \in Threads : \A g \in Frames : Putting(u, g)' <=> Putting(u, g)
    BY <2>1 DEF Putting
  <2>10. ref[f] > 0
    <3>1. LoopHolds(f)
      BY <2>1, <2>2 DEF LoopHolds
    <3> QED  BY <3>1, Finite DEF IInv, FrameCounts, FrameCount
  <2>11. InPool' /\ PutInv'
    BY <2>1, <2>3, <2>9, <2>10 DEF IInv, InPool, PutInv
  <2>12. LoopInv' /\ QueueInv'
    BY <2>1, <2>4, <2>7 DEF IInv, LoopInv, QueueInv, Holders
  <2> QED  BY <2>5, <2>6, <2>8, <2>11, <2>12 DEF IInv
<1> QED  BY <1>1, <1>2

LEMMA NotifyStep ==
  ASSUME IInv, Notify PROVE IInv'
<1>1. PICK p \in Packets, S \in SUBSET Consumers :
      /\ lpc = "notify" /\ p = lpkt /\ lpc' = "relpkt"
      /\ pref' = [pref EXCEPT ![p] = @ + Cardinality(S)]
      /\ held' = [c \in Consumers |->
                    IF c \in S THEN Append(held[c], p) ELSE held[c]]
      /\ UNCHANGED <<framesList, ref, pframe, lframe, lpkt, left, rpc, rframe>>
  BY DEF Notify, ClonePacket, relVars, IInv, TypeOK
<1>2. \A c \in Consumers :
        /\ held[c] \in Seq(Packets) /\ p \notin Range(held[c]) /\ IsInjective(held[c])
        /\ c \in S => held'[c] = Append(held[c], p)
        /\ c \notin S => held'[c] = held[c]
  BY <1>1 DEF IInv, TypeOK, QueueInv
<1>3. \A c \in Consumers :
        /\ held'[c] \in Seq(Packets) /\ IsInjective(held'[c])
        /\ c \in S => Range(held'[c]) = Range(held[c]) \cup {p}
        /\ c \notin S => Range(held'[c]) = Range(held[c])
  <2> TAKE c \in Consumers
  <2>1. CASE c \in S
    <3> DEFINE s == held[c]
    <3>1. s \in Seq(Packets) /\ p \notin Range(s) /\ IsInjective(s) /\ held'[c] = Append(s, p)
      BY <1>2, <2>1
    <3> HIDE DEF s
    <3>2. /\ Append(s, p) \in Seq(Packets) /\ Range(Append(s, p)) = Range(s) \cup {p}
          /\ IsInjective(Append(s, p))
      BY <3>1, AppendRange
    <3>3. /\ held'[c] \in Seq(Packets) /\ Range(held'[c]) = Range(s) \cup {p}
          /\ IsInjective(held'[c])
      BY <3>1, <3>2
    <3> QED  BY <2>1, <3>3 DEF s
  <2>2. CASE c \notin S
    BY <1>2, <2>2
  <2> QED  BY <2>1, <2>2
<1>4. /\ Holders(p) = {} /\ Holders(p)' = S
      /\ \A q \in Packets : q # p => Holders(q)' = Holders(q)
  <2>1. Holders(p) = {}
    BY <1>2 DEF Holders
  <2>2. \A c \in Consumers : p \in Range(held'[c]) <=> c \in S
    BY <1>2, <1>3
  <2>3. \A c \in Consumers : \A q \in Packets :
          q # p => (q \in Range(held'[c]) <=> q \in Range(held[c]))
    BY <1>3
  <2> QED  BY <2>1, <2>2, <2>3 DEF Holders
<1>5. /\ pref[p] = 1 /\ pref'[p] = 1 + Cardinality(S) /\ Cardinality(S) \in Nat
      /\ Cardinality(S) <= Cardinality(Consumers)
      /\ \A q \in Packets : q # p => pref'[q] = pref[q]
  <2>1. /\ IsFiniteSet(S) /\ Cardinality(S) \in Nat
        /\ Cardinality(S) <= Cardinality(Consumers)
    BY OthersAssumption, FS_Subset, FS_CardinalityType
  <2>2. pref[p] = 1
    <3>1. Cardinality(Holders(p)) = 0
      BY <1>4, FS_EmptySet
    <3>2. pref[p] = Cardinality(Holders(p)) + 1
      BY <1>1 DEF IInv, PacketCounts
    <3> QED  BY <3>1, <3>2
  <2> QED  BY <1>1, <2>1, <2>2 DEF IInv, TypeOK
<1>6. TypeOK'
  <2>1. held' \in [Consumers -> Seq(Packets)]
    BY <1>1, <1>3
  <2>2. pref' \in [Packets -> 0 .. 1 + Cardinality(Consumers)]
    <3>1. 1 + Cardinality(S) \in 0 .. 1 + Cardinality(Consumers)
      BY <1>5, Finite
    <3> QED  BY <1>1, <1>5, <3>1 DEF IInv, TypeOK
  <2> QED  BY <1>1, <2>1, <2>2 DEF IInv, TypeOK, LoopState
<1>7. FrameCounts'
  <2>1. \A g \in Frames : Releasing(g)' = Releasing(g) /\ (LoopHolds(g)' <=> LoopHolds(g))
    BY <1>1 DEF Releasing, LoopHolds
  <2>2. \A q \in Packets : pref'[q] > 0 <=> pref[q] > 0
    BY <1>5
  <2>3. \A g \in Frames : PacketsOf(g)' = PacketsOf(g)
    BY <1>1, <2>2 DEF PacketsOf
  <2>4. \A g \in Frames : ref'[g] = FrameCount(g)'
    BY <1>1, <2>1, <2>3, CountKept DEF IInv
  <2> QED  BY <2>4 DEF FrameCounts
<1>8. PacketCounts'
  BY <1>1, <1>4, <1>5 DEF IInv, PacketCounts
<1>9. \A u \in Threads : \A g \in Frames : Putting(u, g)' <=> Putting(u, g)
  BY <1>1 DEF Putting
<1>10. InPool' /\ PutInv'
  BY <1>1, <1>9 DEF IInv, InPool, PutInv
<1>11. LoopInv' /\ QueueInv'
  <2>1. \A q \in Packets : pref'[q] > 0 => pref[q] > 0
    BY <1>5
  <2> QED  BY <1>1, <1>3, <2>1 DEF IInv, LoopInv, QueueInv
<1> QED  BY <1>6, <1>7, <1>8, <1>10, <1>11 DEF IInv

\* A thread that is free starts to release f.
LEMMA Started ==
  ASSUME IInv, NEW t \in Threads, NEW f \in Frames, rpc[t] = "no", StartRelease(t, f)
  PROVE  /\ Cardinality(Releasing(f)') = Cardinality(Releasing(f)) + 1
         /\ \A g \in Frames : g # f => Releasing(g)' = Releasing(g)
         /\ \A u \in Threads : \A g \in Frames : Putting(u, g)' <=> Putting(u, g)
         /\ rpc' \in [Threads -> {"no", "dec", "put", "unlock"}]
         /\ rframe' \in [Threads -> Frames \cup {None}]
         /\ \A u \in Threads : rpc'[u] # "no" => rframe'[u] \in Frames
<1>1. /\ rpc' = [rpc EXCEPT ![t] = "dec"] /\ rframe' = [rframe EXCEPT ![t] = f]
      /\ rpc'[t] = "dec" /\ rframe'[t] = f
      /\ \A u \in Threads : u # t => rpc'[u] = rpc[u] /\ rframe'[u] = rframe[u]
  BY DEF StartRelease, IInv, TypeOK
<1>2. t \notin Releasing(f) /\ Releasing(f)' = Releasing(f) \cup {t}
  BY <1>1 DEF Releasing
<1>3. Cardinality(Releasing(f)') = Cardinality(Releasing(f)) + 1
  BY <1>2, Finite, OneMore
<1>4. \A g \in Frames : g # f => Releasing(g)' = Releasing(g)
  BY <1>1 DEF Releasing
<1>5. \A u \in Threads : \A g \in Frames : Putting(u, g)' <=> Putting(u, g)
  BY <1>1 DEF Putting
<1>6. /\ rpc' \in [Threads -> {"no", "dec", "put", "unlock"}]
      /\ rframe' \in [Threads -> Frames \cup {None}]
      /\ \A u \in Threads : rpc'[u] # "no" => rframe'[u] \in Frames
  BY <1>1 DEF IInv, TypeOK, QueueInv
<1> QED  BY <1>3, <1>4, <1>5, <1>6

\* What giving up a packet does to the frames: the last reference on it turns the
\* packet into a release of its frame.
LEMMA Dropped ==
  ASSUME IInv, NEW t \in Threads, NEW p \in Packets, DropPacket(t, p),
         lpc' = lpc \/ (lpc = "relpkt" /\ lpc' = "packets"),
         UNCHANGED <<framesList, ref, pframe, lframe>>
  PROVE  /\ FrameCounts' /\ InPool' /\ PutInv'
         /\ pref' \in [Packets -> 0 .. 1 + Cardinality(Consumers)]
         /\ rpc' \in [Threads -> {"no", "dec", "put", "unlock"}]
         /\ rframe' \in [Threads -> Frames \cup {None}]
         /\ \A q \in Packets : pref'[q] > 0 => pframe'[q] \in Frames
         /\ \A u \in Threads : rpc'[u] # "no" => rframe'[u] \in Frames
         /\ pref[p] > 0 /\ pref' = [pref EXCEPT ![p] = @ - 1]
<1>1. /\ rpc[t] = "no" /\ pref[p] > 0 /\ pref[p] \in Nat /\ pref'[p] = pref[p] - 1
      /\ pref' = [pref EXCEPT ![p] = @ - 1]
      /\ pref[p] \in 0 .. 1 + Cardinality(Consumers)
      /\ \A q \in Packets : q # p => pref'[q] = pref[q]
  BY Finite DEF DropPacket, IInv, TypeOK
<1>2. pref' \in [Packets -> 0 .. 1 + Cardinality(Consumers)]
  <2>1. pref[p] - 1 \in 0 .. 1 + Cardinality(Consumers)
    BY <1>1, Finite
  <2> QED  BY <1>1, <2>1 DEF IInv, TypeOK
<1>3. \A q \in Packets : pref'[q] > 0 => pref[q] > 0
  BY <1>1
<1>4. \A q \in Packets : pref'[q] > 0 => pframe'[q] \in Frames
  BY <1>3 DEF IInv, QueueInv
<1>5. \A g \in Frames : LoopHolds(g)' <=> LoopHolds(g)
  BY DEF LoopHolds
<1>6. CASE pref[p] # 1
  <2>1. UNCHANGED <<rpc, rframe>>
    BY <1>6 DEF DropPacket, relVars
  <2>2. \A q \in Packets : pref'[q] > 0 <=> pref[q] > 0
    BY <1>1, <1>6
  <2>3. \A g \in Frames : PacketsOf(g)' = PacketsOf(g) /\ Releasing(g)' = Releasing(g)
    BY <2>1, <2>2 DEF PacketsOf, Releasing
  <2>4. \A g \in Frames : ref'[g] = FrameCount(g)'
    BY <1>5, <2>3, CountKept DEF IInv
  <2>5. \A u \in Threads : \A g \in Frames : Putting(u, g)' <=> Putting(u, g)
    BY <2>1 DEF Putting
  <2>6. InPool' /\ PutInv'
    BY <2>5 DEF IInv, InPool, PutInv
  <2>7. FrameCounts'
    BY <2>4 DEF FrameCounts
  <2>8. /\ rpc' \in [Threads -> {"no", "dec", "put", "unlock"}]
        /\ rframe' \in [Threads -> Frames \cup {None}]
        /\ \A u \in Threads : rpc'[u] # "no" => rframe'[u] \in Frames
    BY <2>1 DEF IInv, TypeOK, QueueInv
  <2> QED  BY <1>1, <1>2, <1>4, <2>6, <2>7, <2>8
<1>7. CASE pref[p] = 1
  <2>1. PICK f \in Frames : f = pframe[p] /\ StartRelease(t, f)
    BY <1>1, <1>7 DEF DropPacket, IInv, QueueInv
  <2>2. /\ Cardinality(Releasing(f)') = Cardinality(Releasing(f)) + 1
        /\ \A g \in Frames : g # f => Releasing(g)' = Releasing(g)
        /\ \A u \in Threads : \A g \in Frames : Putting(u, g)' <=> Putting(u, g)
        /\ rpc' \in [Threads -> {"no", "dec", "put", "unlock"}]
        /\ rframe' \in [Threads -> Frames \cup {None}]
        /\ \A u \in Threads : rpc'[u] # "no" => rframe'[u] \in Frames
    BY <1>1, <2>1, Started
  <2>3. \A g \in Frames : g # f => PacketsOf(g)' = PacketsOf(g)
    BY <1>1, <2>1 DEF PacketsOf
  <2>4. p \in PacketsOf(f) /\ PacketsOf(f)' = PacketsOf(f) \ {p}
    BY <1>1, <1>7, <2>1 DEF PacketsOf
  <2>5. Cardinality(PacketsOf(f)) = Cardinality(PacketsOf(f)') + 1
        /\ Cardinality(PacketsOf(f)') \in Nat
    BY <2>4, Finite, OneLess
  <2>6. ref'[f] = FrameCount(f)'
    <3> DEFINE a == Cardinality(PacketsOf(f)')
               b == Cardinality(Releasing(f))
               e == IF LoopHolds(f) THEN 1 ELSE 0
    <3>1. a \in Nat /\ b \in Nat /\ e \in Nat /\ ref[f] = (a + 1) + b + e
      BY <2>5, Finite DEF IInv, FrameCounts, FrameCount
    <3>2. FrameCount(f)' = a + (b + 1) + e
      BY <1>5, <2>2 DEF FrameCount
    <3> HIDE DEF a, b, e
    <3> QED  BY <3>1, <3>2
  <2>7. \A g \in Frames : ref'[g] = FrameCount(g)'
    <3> TAKE g \in Frames
    <3>1. CASE g = f
      BY <2>6, <3>1
    <3>2. CASE g # f
      BY <1>5, <2>2, <2>3, <3>2, CountKept DEF IInv
    <3> QED  BY <3>1, <3>2
  <2>8. FrameCounts'
    BY <2>7 DEF FrameCounts
  <2>9. InPool' /\ PutInv'
    BY <2>2 DEF IInv, InPool, PutInv
  <2> QED  BY <1>1, <1>2, <1>4, <2>2, <2>8, <2>9
<1> QED  BY <1>6, <1>7

LEMMA LoopDropsPacketStep ==
  ASSUME IInv, LoopDropsPacket PROVE IInv'
<1>1. PICK p \in Packets :
      /\ p = lpkt /\ DropPacket(Loop, p) /\ lpc = "relpkt" /\ lpc' = "packets"
      /\ lpkt' = None /\ None \notin Packets
      /\ UNCHANGED <<framesList, ref, pframe, held, lframe, left>>
  BY NamesAssumption DEF LoopDropsPacket, IInv, TypeOK, LoopInv, None
<1>2. /\ FrameCounts' /\ InPool' /\ PutInv'
      /\ pref' \in [Packets -> 0 .. 1 + Cardinality(Consumers)]
      /\ rpc' \in [Threads -> {"no", "dec", "put", "unlock"}]
      /\ rframe' \in [Threads -> Frames \cup {None}]
      /\ \A q \in Packets : pref'[q] > 0 => pframe'[q] \in Frames
      /\ \A u \in Threads : rpc'[u] # "no" => rframe'[u] \in Frames
      /\ pref' = [pref EXCEPT ![p] = @ - 1]
  <2>1. Loop \in Threads
    BY DEF Threads
  <2> QED  BY <1>1, <2>1, Dropped
<1>3. TypeOK'
  BY <1>1, <1>2 DEF IInv, TypeOK, LoopState
<1>4. PacketCounts'
  <2> SUFFICES ASSUME NEW q \in Packets
               PROVE  pref'[q] = Cardinality(Holders(q)') + (IF lpkt' = q THEN 1 ELSE 0)
    BY DEF PacketCounts
  <2> DEFINE h == Cardinality(Holders(q))
  <2>1. Holders(q)' = Holders(q) /\ h \in Nat
    BY <1>1, Finite DEF Holders
  <2>2. pref[q] = h + (IF lpkt = q THEN 1 ELSE 0)
    BY DEF IInv, PacketCounts
  <2>3. pref'[q] = IF q = p THEN pref[q] - 1 ELSE pref[q]
    BY <1>2 DEF IInv, TypeOK
  <2>4. Cardinality(Holders(q)') = h
    BY <2>1
  <2> HIDE DEF h
  <2> QED  BY <1>1, <2>1, <2>2, <2>3, <2>4
<1>5. LoopInv' /\ QueueInv'
  BY <1>1, <1>2 DEF IInv, LoopInv, QueueInv
<1> QED  BY <1>2, <1>3, <1>4, <1>5 DEF IInv

LEMMA ConsumerDropsPacketStep ==
  ASSUME IInv, NEW c \in Consumers, ConsumerDropsPacket(c) PROVE IInv'
<1>1. /\ held[c] # <<>> /\ DropPacket(c, Head(held[c]))
      /\ held' = [held EXCEPT ![c] = Tail(@)] /\ held'[c] = Tail(held[c])
      /\ \A d \in Consumers : d # c => held'[d] = held[d]
      /\ UNCHANGED <<framesList, ref, pframe, lpc, lframe, lpkt, left>>
  BY DEF ConsumerDropsPacket, loopVars, IInv, TypeOK
<1>2. PICK p \in Packets :
      /\ DropPacket(c, p) /\ held'[c] \in Seq(Packets) /\ IsInjective(held'[c])
      /\ Range(held[c]) = Range(held'[c]) \cup {p} /\ p \notin Range(held'[c])
  <2> DEFINE s == held[c]
  <2>1. s \in Seq(Packets) /\ s # <<>> /\ IsInjective(s)
    BY <1>1 DEF IInv, TypeOK, QueueInv
  <2> HIDE DEF s
  <2>2. /\ Head(s) \in Packets /\ Tail(s) \in Seq(Packets) /\ IsInjective(Tail(s))
        /\ Range(s) = Range(Tail(s)) \cup {Head(s)} /\ Head(s) \notin Range(Tail(s))
    BY <2>1, TailRange
  <2>3. DropPacket(c, Head(s)) /\ held'[c] = Tail(s)
    BY <1>1 DEF s
  <2>4. /\ Head(s) \in Packets /\ DropPacket(c, Head(s))
        /\ held'[c] \in Seq(Packets) /\ IsInjective(held'[c])
        /\ Range(s) = Range(held'[c]) \cup {Head(s)} /\ Head(s) \notin Range(held'[c])
    BY <2>2, <2>3
  <2> QED  BY <2>4 DEF s
<1>3. /\ FrameCounts' /\ InPool' /\ PutInv'
      /\ pref' \in [Packets -> 0 .. 1 + Cardinality(Consumers)]
      /\ rpc' \in [Threads -> {"no", "dec", "put", "unlock"}]
      /\ rframe' \in [Threads -> Frames \cup {None}]
      /\ \A q \in Packets : pref'[q] > 0 => pframe'[q] \in Frames
      /\ \A u \in Threads : rpc'[u] # "no" => rframe'[u] \in Frames
      /\ pref' = [pref EXCEPT ![p] = @ - 1]
  <2>1. c \in Threads
    BY DEF Threads
  <2> QED  BY <1>1, <1>2, <2>1, Dropped
<1>4. /\ \A d \in Consumers : held'[d] \in Seq(Packets) /\ IsInjective(held'[d])
      /\ \A d \in Consumers : \A q \in Packets :
           q \in Range(held'[d]) <=> q \in Range(held[d]) /\ ~(d = c /\ q = p)
  <2>1. \A d \in Consumers : held[d] \in Seq(Packets) /\ IsInjective(held[d])
    BY DEF IInv, TypeOK, QueueInv
  <2> QED  BY <1>1, <1>2, <2>1
<1>5. TypeOK'
  <2>1. held' \in [Consumers -> Seq(Packets)]
    BY <1>1, <1>4 DEF IInv, TypeOK
  <2> QED  BY <1>1, <1>3, <2>1 DEF IInv, TypeOK
<1>6. PacketCounts'
  <2>1. c \in Holders(p) /\ Holders(p)' = Holders(p) \ {c}
    BY <1>2, <1>4 DEF Holders
  <2>2. Cardinality(Holders(p)) = Cardinality(Holders(p)') + 1
        /\ Cardinality(Holders(p)') \in Nat
    BY <2>1, Finite, OneLess
  <2>3. \A q \in Packets : q # p => Holders(q)' = Holders(q)
    BY <1>4 DEF Holders
  <2>4. /\ pref'[p] = pref[p] - 1
        /\ \A q \in Packets : q # p => pref'[q] = pref[q]
    BY <1>3 DEF IInv, TypeOK
  <2>5. pref'[p] = Cardinality(Holders(p)') + (IF lpkt' = p THEN 1 ELSE 0)
    <3> DEFINE h == Cardinality(Holders(p)')
               e == IF lpkt = p THEN 1 ELSE 0
    <3>1. h \in Nat /\ e \in Nat /\ pref[p] = (h + 1) + e
      BY <2>2 DEF IInv, PacketCounts
    <3>2. (IF lpkt' = p THEN 1 ELSE 0) = e
      BY <1>1
    <3> HIDE DEF h, e
    <3>3. pref'[p] = h + e
      BY <2>4, <3>1
    <3> QED  BY <3>2, <3>3 DEF h
  <2>6. \A q \in Packets : q # p =>
          pref'[q] = Cardinality(Holders(q)') + (IF lpkt' = q THEN 1 ELSE 0)
    BY <1>1, <2>3, <2>4 DEF IInv, PacketCounts
  <2> QED  BY <2>5, <2>6 DEF PacketCounts
<1>7. LoopInv' /\ QueueInv'
  <2>1. LoopInv'
    BY <1>1 DEF IInv, LoopInv
  <2>2. lpc' = "notify" => \A d \in Consumers : lpkt' \notin Range(held'[d])
    <3>1. lpc = "notify" => lpkt \in Packets
      BY DEF IInv, TypeOK, LoopInv
    <3>2. lpc = "notify" => \A d \in Consumers : lpkt \notin Range(held[d])
      BY DEF IInv, QueueInv
    <3> QED  BY <1>1, <1>4, <3>1, <3>2
  <2> QED  BY <1>3, <1>4, <2>1, <2>2 DEF QueueInv
<1> QED  BY <1>3, <1>5, <1>6, <1>7 DEF IInv

\* The loop's own reference becomes a release under way.
LEMMA EndOfFrameStep ==
  ASSUME IInv, EndOfFrame PROVE IInv'
<1>1. PICK f \in Frames :
      /\ f = lframe /\ lpc = "packets" /\ rpc[Loop] = "no" /\ StartRelease(Loop, f)
      /\ lpc' = "idle" /\ lframe' = None
      /\ UNCHANGED <<framesList, ref, pref, pframe, held, lpkt, left>>
  BY DEF EndOfFrame, LoopFree, pktVars, IInv, TypeOK, LoopInv
<1>2. /\ Cardinality(Releasing(f)') = Cardinality(Releasing(f)) + 1
      /\ \A g \in Frames : g # f => Releasing(g)' = Releasing(g)
      /\ \A u \in Threads : \A g \in Frames : Putting(u, g)' <=> Putting(u, g)
      /\ rpc' \in [Threads -> {"no", "dec", "put", "unlock"}]
      /\ rframe' \in [Threads -> Frames \cup {None}]
      /\ \A u \in Threads : rpc'[u] # "no" => rframe'[u] \in Frames
  <2>1. Loop \in Threads
    BY DEF Threads
  <2> QED  BY <1>1, <2>1, Started
<1>3. TypeOK'
  BY <1>1, <1>2 DEF IInv, TypeOK, LoopState
<1>4. FrameCounts'
  <2>1. \A g \in Frames : PacketsOf(g)' = PacketsOf(g)
    BY <1>1 DEF PacketsOf
  <2>2. /\ LoopHolds(f) /\ \A g \in Frames : ~LoopHolds(g)'
        /\ \A g \in Frames : g # f => ~LoopHolds(g)
    BY <1>1 DEF LoopHolds
  <2>3. ref'[f] = FrameCount(f)'
    <3> DEFINE a == Cardinality(PacketsOf(f))
               b == Cardinality(Releasing(f))
    <3>1. a \in Nat /\ b \in Nat /\ ref[f] = a + b + 1
      BY <2>2, Finite DEF IInv, FrameCounts, FrameCount
    <3>2. FrameCount(f)' = a + (b + 1) + 0
      BY <1>2, <2>1, <2>2 DEF FrameCount
    <3> HIDE DEF a, b
    <3> QED  BY <1>1, <3>1, <3>2
  <2>4. \A g \in Frames : ref'[g] = FrameCount(g)'
    <3> TAKE g \in Frames
    <3>1. CASE g = f
      BY <2>3, <3>1
    <3>2. CASE g # f
      BY <1>1, <1>2, <2>1, <2>2, <3>2, CountKept DEF IInv
    <3> QED  BY <3>1, <3>2
  <2> QED  BY <2>4 DEF FrameCounts
<1>5. PacketCounts'
  BY <1>1, PacketCountsKept DEF IInv
<1>6. InPool' /\ PutInv'
  BY <1>1, <1>2 DEF IInv, InPool, PutInv
<1>7. LoopInv' /\ QueueInv'
  BY <1>1, <1>2 DEF IInv, LoopInv, QueueInv
<1> QED  BY <1>2, <1>3, <1>4, <1>5, <1>6, <1>7 DEF IInv

LEMMA NextIInv == IInv /\ [Next]_vars => IInv'
<1> SUFFICES ASSUME IInv, [Next]_vars PROVE IInv'
  OBVIOUS
<1>1. ASSUME NEW t \in Threads, ReleaseStep(t) PROVE IInv'
  BY <1>1, ReleaseDecStep, ReleasePutStep, ReleaseUnlockStep DEF ReleaseStep
<1>2. CASE LoopThread
  <2>1. Loop \in Threads
    BY DEF Threads
  <2> QED
    BY <1>1, <1>2, <2>1, QuietSteps, GetFrameStep, GetFrameRefStep, NewPacketStep,
       NotifyStep, LoopDropsPacketStep, EndOfFrameStep DEF LoopThread
<1>3. CASE ReleasePool
  BY <1>3, QuietSteps
<1>4. CASE \E c \in Consumers : Consumer(c)
  <2>1. PICK c \in Consumers : Consumer(c)
    BY <1>4
  <2>2. c \in Threads
    BY DEF Threads
  <2> QED  BY <1>1, <2>1, <2>2, ConsumerDropsPacketStep DEF Consumer
<1>5. CASE UNCHANGED vars
  <2>1. UNCHANGED <<framesList, ref, pref, pframe, held, lpc, lframe, lpkt, left, rpc, rframe>>
    BY <1>5 DEF vars, pktVars, loopVars, relVars
  <2>2. \A f \in Frames : FrameCount(f)' = FrameCount(f)
    BY <2>1 DEF FrameCount, PacketsOf, Releasing, LoopHolds
  <2>3. FrameCounts'
    BY <2>1, <2>2 DEF IInv, FrameCounts
  <2>4. PacketCounts'
    BY <2>1, PacketCountsKept DEF IInv
  <2> QED
    BY <2>1, <2>3, <2>4
       DEF IInv, TypeOK, InPool, LoopInv, QueueInv, PutInv, Putting
<1> QED  BY <1>2, <1>3, <1>4, <1>5 DEF Next

LEMMA InvariantCorrect == Spec => []IInv
BY InitIInv, NextIInv, PTL DEF Spec

\* For any frames, packets and consumers: a frame is in the pool exactly when
\* nobody refers to it, nobody is bringing it back and the loop has not just taken
\* it; every reference on a frame and on a packet is counted once
\* (isil_frame.c's ref and framesList, isil_data_stream.c's ref).
THEOREM PoolCorrect == Spec => []PoolExact
<1>1. IInv => PoolExact
  <2> SUFFICES ASSUME IInv PROVE PoolExact
    OBVIOUS
  <2>1. \A f \in Frames :
          ref[f] = Cardinality(PacketsOf(f)) + Cardinality(Releasing(f))
                     + (IF LoopHolds(f) THEN 1 ELSE 0)
    BY DEF IInv, FrameCounts, FrameCount
  <2>2. \A p \in Packets :
          pref[p] = Cardinality({c \in Consumers : p \in Range(held[c])})
                      + (IF lpkt = p THEN 1 ELSE 0)
    BY DEF IInv, PacketCounts, Holders
  <2>3. TypeOK /\ CountsExact
    BY <2>1, <2>2 DEF IInv, CountsExact
  <2> QED  BY <2>3 DEF IInv, InPool, Putting, PoolExact
<1> QED  BY <1>1, InvariantCorrect, PTL
=============================================================================
