--------------------------- MODULE VideoBufProofs ---------------------------
(***************************************************************************)
(* VideoBuf for any frames and packets.  Who owns a frame follows from     *)
(* where the encoder and the reader are: the encoder has one exactly while *)
(* it is not idle, and the polling can take the reader's away only between *)
(* two reads, since read flushes before it starts.                         *)
(***************************************************************************)
EXTENDS VideoBuf, TLAPS

FrameBufs == [queue : Seq(Packets), producer : Packets \cup {None}]

HeldIn(b) == ToSet(b.queue) \cup ({b.producer} \ {None})

\* The packets: each in the pool or with one frame, and there once.
PacketInv ==
  /\ packet_pool \subseteq Packets /\ buf \in [Frames -> FrameBufs]
  /\ \A p \in Packets : p \in packet_pool <=> \A f \in Frames : p \notin Held(f)
  /\ \A f, g \in Frames : f # g => Held(f) \cap Held(g) = {}
  /\ \A f \in Frames :
       IsInjective(buf[f].queue) /\ buf[f].producer \notin ToSet(buf[f].queue)

\* The types of the other variables.
OtherTypes ==
  /\ frame_type \in [Frames -> {"IDR", "P"}]
  /\ frame_len \in [Frames -> 0 .. MaxLen] /\ force_i \in BOOLEAN
  /\ frame_queue \in Seq(Frames)
  /\ {curr_producer, curr_consumer} \subseteq Frames \cup {None}
  /\ engine \in {"idle", "ready", "encoding", "irq"} /\ left \in 0 .. MaxLen
  /\ b_flush \subseteq {"producer", "consumer"}
  /\ reader \in {"idle", "get", "submit", "copy"}
  /\ room \in Rooms \cup {0} /\ slience_discard \in BOOLEAN
  /\ copied \in 0 .. MaxLen /\ calls \in 0 .. MaxCalls

\* The frames: each in the pool, and then empty, or with one owner.
OwnerInv ==
  /\ frame_pool = Frames \ Owned
  /\ \A f \in frame_pool : buf[f] = NoPackets
  /\ curr_producer # None =>
       curr_producer # curr_consumer /\ curr_producer \notin ToSet(frame_queue)
  /\ curr_consumer \notin ToSet(frame_queue) /\ IsInjective(frame_queue)

\* The frame of the encoder, before the chip has its picture and after.
EncoderInv ==
  /\ engine = "idle" <=> curr_producer = None
  /\ engine # "idle" => buf[curr_producer].producer # None
  /\ engine \in {"ready", "encoding"} => buf[curr_producer].queue = <<>>
  /\ IF engine = "irq"
     THEN left > 0 /\ Len(buf[curr_producer].queue) + left = frame_len[curr_producer]
     ELSE left = 0

\* A frame that is complete.
Whole(f) == buf[f].producer = None /\ Len(buf[f].queue) = frame_len[f]

\* The frame of the reader: what he has not copied is still there.
ConsumerInv ==
  /\ buf[curr_consumer].producer = None
  /\ IF reader = "copy"
     THEN /\ copied + Len(buf[curr_consumer].queue) <= frame_len[curr_consumer]
          /\ ~slience_discard =>
               copied + Len(buf[curr_consumer].queue) = frame_len[curr_consumer]
     ELSE Whole(curr_consumer)
            \/ (buf[curr_consumer].queue = <<>> /\ slience_discard)

\* The queue, and where the reader is: nobody flushes while he reads.
ReaderInv ==
  /\ \A f \in ToSet(frame_queue) : Whole(f)
  /\ curr_consumer # None => ConsumerInv
  /\ reader \in {"submit", "copy"} => curr_consumer # None
  /\ reader \in {"get", "submit"} => copied = 0
  /\ reader # "idle" => "consumer" \notin b_flush

IInv == PacketInv /\ OtherTypes /\ OwnerInv /\ EncoderInv /\ ReaderInv

-----------------------------------------------------------------------------
(* Lemmas on sequences, and on the packets of a frame *)

LEMMA MembersOfNone ==
  ASSUME NEW s, s = <<>>
  PROVE  ToSet(s) = {} /\ IsInjective(s)
<1>1. DOMAIN s = {}
  OBVIOUS
<1>2. ToSet(s) = {}
  BY <1>1 DEF ToSet
<1>3. IsInjective(s)
  BY <1>1 DEF IsInjective
<1> QED  BY <1>2, <1>3

LEMMA AppendNew ==
  ASSUME NEW S, NEW s \in Seq(S), NEW e \in S, IsInjective(s), e \notin ToSet(s)
  PROVE  /\ Append(s, e) \in Seq(S) /\ Len(Append(s, e)) = Len(s) + 1
         /\ ToSet(Append(s, e)) = ToSet(s) \cup {e}
         /\ IsInjective(Append(s, e))
<1> DEFINE t == Append(s, e)
<1>1. /\ t \in Seq(S) /\ Len(t) = Len(s) + 1 /\ DOMAIN t = 1 .. Len(s) + 1
      /\ DOMAIN s = 1 .. Len(s) /\ Len(s) \in Nat
      /\ \A i \in 1 .. Len(s) : t[i] = s[i] /\ t[Len(s) + 1] = e
  OBVIOUS
<1>2. t[Len(s) + 1] = e
  OBVIOUS
<1> HIDE DEF t
<1>3. ToSet(t) = ToSet(s) \cup {e}
  <2>1. ASSUME NEW x \in ToSet(t) PROVE x \in ToSet(s) \cup {e}
    <3>1. PICK i \in 1 .. Len(s) + 1 : x = t[i]
      BY <1>1 DEF ToSet
    <3> QED  BY <1>1, <1>2, <3>1 DEF ToSet
  <2>2. ASSUME NEW x \in ToSet(s) PROVE x \in ToSet(t)
    <3>1. PICK i \in 1 .. Len(s) : x = s[i]
      BY <1>1 DEF ToSet
    <3>2. i \in DOMAIN t /\ t[i] = x
      BY <1>1, <3>1
    <3> QED  BY <3>2 DEF ToSet
  <2>3. e \in ToSet(t)
    BY <1>1, <1>2 DEF ToSet
  <2> QED  BY <2>1, <2>2, <2>3
<1>4. IsInjective(t)
  <2>1. \A i \in 1 .. Len(s) : s[i] # e
    BY <1>1 DEF ToSet
  <2> QED  BY <1>1, <1>2, <2>1 DEF IsInjective
<1> QED  BY <1>1, <1>3, <1>4 DEF t

LEMMA TakeFirst ==
  ASSUME NEW S, NEW s \in Seq(S), s # <<>>, IsInjective(s)
  PROVE  /\ Head(s) \in S /\ Tail(s) \in Seq(S) /\ Len(s) = Len(Tail(s)) + 1
         /\ ToSet(s) = ToSet(Tail(s)) \cup {Head(s)} /\ Head(s) \notin ToSet(Tail(s))
         /\ IsInjective(Tail(s))
<1> DEFINE t == Tail(s)
<1>1. /\ t \in Seq(S) /\ Len(s) = Len(t) + 1 /\ DOMAIN t = 1 .. Len(t)
      /\ DOMAIN s = 1 .. Len(t) + 1 /\ Len(t) \in Nat
      /\ Head(s) = s[1] /\ Head(s) \in S
      /\ \A i \in 1 .. Len(t) : t[i] = s[i + 1]
  OBVIOUS
<1> HIDE DEF t
<1>2. ToSet(s) = ToSet(t) \cup {Head(s)}
  <2>1. ASSUME NEW x \in ToSet(s) PROVE x \in ToSet(t) \cup {Head(s)}
    <3>1. PICK i \in 1 .. Len(t) + 1 : x = s[i]
      BY <1>1 DEF ToSet
    <3>2. CASE i = 1
      BY <1>1, <3>1, <3>2
    <3>3. CASE i # 1
      <4>1. i - 1 \in 1 .. Len(t) /\ t[i - 1] = x
        BY <1>1, <3>1, <3>3
      <4> QED  BY <1>1, <4>1 DEF ToSet
    <3> QED  BY <3>2, <3>3
  <2>2. ASSUME NEW x \in ToSet(t) PROVE x \in ToSet(s)
    <3>1. PICK i \in 1 .. Len(t) : x = t[i]
      BY <1>1 DEF ToSet
    <3>2. i + 1 \in DOMAIN s /\ s[i + 1] = x
      BY <1>1, <3>1
    <3> QED  BY <3>2 DEF ToSet
  <2>3. Head(s) \in ToSet(s)
    BY <1>1 DEF ToSet
  <2> QED  BY <2>1, <2>2, <2>3
<1>3. Head(s) \notin ToSet(t)
  BY <1>1 DEF ToSet, IsInjective
<1>4. IsInjective(t)
  BY <1>1 DEF IsInjective
<1> QED  BY <1>1, <1>2, <1>3, <1>4 DEF t

LEMMA MembersOf == ASSUME NEW S, NEW s \in Seq(S) PROVE ToSet(s) \subseteq S
BY DEF ToSet

LEMMA HeldTypes ==
  ASSUME NEW b \in FrameBufs
  PROVE  /\ HeldIn(b) \subseteq Packets /\ None \notin HeldIn(b)
         /\ b.producer = None => HeldIn(b) = ToSet(b.queue)
         /\ b.producer # None => HeldIn(b) = ToSet(b.queue) \cup {b.producer}
<1>1. b.queue \in Seq(Packets) /\ b.producer \in Packets \cup {None}
  BY DEF FrameBufs
<1>2. ToSet(b.queue) \subseteq Packets
  BY <1>1, MembersOf
<1> QED  BY <1>1, <1>2, VideoBufAssumption DEF HeldIn

\* One frame takes packets from the pool or gives them back to it.
LEMMA ChangeOne ==
  ASSUME PacketInv, NEW f \in Frames, NEW b \in FrameBufs, NEW P \in SUBSET Packets,
         buf' = [buf EXCEPT ![f] = b], packet_pool' = P,
         P \cup HeldIn(b) = packet_pool \cup HeldIn(buf[f]), P \cap HeldIn(b) = {},
         IsInjective(b.queue), b.producer \notin ToSet(b.queue)
  PROVE  PacketInv'
<1> DEFINE H == HeldIn(b)
           G == HeldIn(buf[f])
<1>1. /\ buf'[f] = b /\ \A g \in Frames : g # f => buf'[g] = buf[g]
      /\ buf' \in [Frames -> FrameBufs]
  BY DEF PacketInv
<1>2. /\ Held(f) = G /\ Held(f)' = H
      /\ \A g \in Frames : g # f => Held(g)' = Held(g)
  BY <1>1 DEF Held, HeldIn
<1>3. P \cup H = packet_pool \cup G /\ P \cap H = {}
  OBVIOUS
<1>4. \A p \in Packets : p \in packet_pool <=> \A g \in Frames : p \notin Held(g)
  BY DEF PacketInv
<1>5. \A g, h \in Frames : g # h => Held(g) \cap Held(h) = {}
  BY DEF PacketInv
<1>6. \A g \in Frames : Held(g) \subseteq Packets
  <2>1. \A g \in Frames : Held(g) = HeldIn(buf[g]) /\ buf[g] \in FrameBufs
    BY DEF PacketInv, Held, HeldIn
  <2> QED  BY <2>1, HeldTypes
<1>7. H \subseteq Packets
  BY HeldTypes
<1> HIDE DEF H, G
<1>8. \A p \in Packets : p \in packet_pool' <=> \A g \in Frames : p \notin Held(g)'
  <2> SUFFICES ASSUME NEW p \in Packets
               PROVE  p \in P <=> \A g \in Frames : p \notin Held(g)'
    OBVIOUS
  <2>1. p \in P => \A g \in Frames : p \notin Held(g)'
    BY <1>2, <1>3, <1>4, <1>5
  <2>2. (\A g \in Frames : p \notin Held(g)') => p \in P
    BY <1>2, <1>3, <1>4
  <2> QED  BY <2>1, <2>2
<1>9. \A g, h \in Frames : g # h => Held(g)' \cap Held(h)' = {}
  <2>1. \A g \in Frames : g # f => H \cap Held(g) = {}
    BY <1>2, <1>3, <1>4, <1>5, <1>6
  <2> QED  BY <1>2, <1>5, <2>1
<1>10. \A g \in Frames : IsInjective(buf'[g].queue)
                           /\ buf'[g].producer \notin ToSet(buf'[g].queue)
  BY <1>1 DEF PacketInv
<1> QED  BY <1>1, <1>8, <1>9, <1>10 DEF PacketInv

\* Frames that are released give back every packet they have.
LEMMA ReleaseKeeps ==
  ASSUME PacketInv, NEW fs \in SUBSET Frames, ReleaseFrames(fs)
  PROVE  /\ PacketInv' /\ frame_pool' = frame_pool \cup fs
         /\ \A f \in fs : buf'[f] = NoPackets
         /\ \A f \in Frames \ fs : buf'[f] = buf[f]
<1>1. /\ packet_pool' = packet_pool \cup UNION {Held(f) : f \in fs}
      /\ \A f \in Frames : buf'[f] = IF f \in fs THEN NoPackets ELSE buf[f]
      /\ frame_pool' = frame_pool \cup fs
  BY DEF ReleaseFrames
<1>2. /\ NoPackets \in FrameBufs /\ HeldIn(NoPackets) = {}
      /\ IsInjective(NoPackets.queue) /\ NoPackets.producer \notin ToSet(NoPackets.queue)
  <2> DEFINE q == NoPackets.queue
  <2>1. q = <<>> /\ NoPackets.producer = None /\ NoPackets = [queue |-> q, producer |-> None]
    BY DEF NoPackets
  <2> HIDE DEF q
  <2>2. ToSet(q) = {} /\ IsInjective(q)
    BY <2>1, MembersOfNone, Zenon
  <2>3. q \in Seq(Packets)
    BY <2>1
  <2>4. NoPackets \in FrameBufs
    BY <2>1, <2>3 DEF FrameBufs
  <2> QED  BY <2>1, <2>2, <2>4 DEF HeldIn, q
<1>3. buf' \in [Frames -> FrameBufs]
  BY <1>2 DEF ReleaseFrames, PacketInv
<1>4. \A f \in Frames : Held(f)' = IF f \in fs THEN {} ELSE Held(f)
  BY <1>1, <1>2 DEF Held, HeldIn
<1>5. \A f \in Frames : Held(f) \subseteq Packets
  <2>1. \A g \in Frames : Held(g) = HeldIn(buf[g]) /\ buf[g] \in FrameBufs
    BY DEF PacketInv, Held, HeldIn
  <2> QED  BY <2>1, HeldTypes
<1>6. packet_pool' \subseteq Packets
  BY <1>1, <1>5 DEF PacketInv
<1>7. \A p \in Packets : p \in packet_pool' <=> \A f \in Frames : p \notin Held(f)'
  <2> SUFFICES ASSUME NEW p \in Packets
               PROVE  p \in packet_pool' <=> \A f \in Frames : p \notin Held(f)'
    OBVIOUS
  <2>1. p \in packet_pool <=> \A f \in Frames : p \notin Held(f)
    BY DEF PacketInv
  <2>2. p \in packet_pool' <=> p \in packet_pool \/ \E f \in fs : p \in Held(f)
    BY <1>1
  <2>3. \A f, g \in Frames : f # g => p \notin Held(f) \/ p \notin Held(g)
    BY DEF PacketInv
  <2> QED  BY <1>4, <2>1, <2>2, <2>3
<1>8. \A f, g \in Frames : f # g => Held(f)' \cap Held(g)' = {}
  BY <1>4 DEF PacketInv
<1>9. \A f \in Frames :
        IsInjective(buf'[f].queue) /\ buf'[f].producer \notin ToSet(buf'[f].queue)
  BY <1>1, <1>2 DEF PacketInv
<1> QED  BY <1>1, <1>3, <1>6, <1>7, <1>8, <1>9 DEF PacketInv

\* Owners that let go of frames, and put them back.
LEMMA ReleaseOwned ==
  ASSUME IInv, NEW fs \in SUBSET Frames, ReleaseFrames(fs),
         curr_producer' \in {curr_producer, None},
         curr_consumer' \in {curr_consumer, None},
         frame_queue' = frame_queue \/ frame_queue' = <<>>, fs = Owned \ Owned'
  PROVE  /\ PacketInv' /\ OwnerInv'
         /\ \A f \in Owned' : f \in Frames /\ buf'[f] = buf[f]
<1>1. /\ PacketInv' /\ frame_pool' = frame_pool \cup fs
      /\ \A f \in fs : buf'[f] = NoPackets
      /\ \A f \in Frames \ fs : buf'[f] = buf[f]
  BY ReleaseKeeps DEF IInv
<1>2. ToSet(frame_queue) \subseteq Frames /\ None \notin Frames
  BY MembersOf, VideoBufAssumption DEF IInv, OtherTypes
<1>3. ToSet(frame_queue') \subseteq ToSet(frame_queue) /\ IsInjective(frame_queue')
  <2>1. CASE frame_queue' = frame_queue
    BY <2>1 DEF IInv, OwnerInv
  <2>2. CASE frame_queue' = <<>>
    BY <2>2, MembersOfNone
  <2> QED  BY <2>1, <2>2
<1>4. Owned' \subseteq Owned /\ Owned \subseteq Frames
  BY <1>2, <1>3 DEF Owned, Given, IInv, OtherTypes
<1>5. frame_pool' = Frames \ Owned'
  BY <1>1, <1>4 DEF IInv, OwnerInv
<1>6. \A f \in frame_pool' : buf'[f] = NoPackets
  BY <1>1, <1>4 DEF IInv, OwnerInv
<1>7. /\ curr_producer' # None => curr_producer' # curr_consumer'
                                    /\ curr_producer' \notin ToSet(frame_queue')
      /\ curr_consumer' \notin ToSet(frame_queue')
  BY <1>2, <1>3 DEF IInv, OwnerInv
<1>8. \A f \in Owned' : f \in Frames /\ buf'[f] = buf[f]
  BY <1>1, <1>4
<1> QED  BY <1>1, <1>3, <1>5, <1>6, <1>7, <1>8 DEF OwnerInv

-----------------------------------------------------------------------------
(* The steps keep the invariant *)

LEMMA InitIInv == Init => IInv
<1> SUFFICES ASSUME Init PROVE IInv
  OBVIOUS
<1>1. /\ ToSet(frame_queue) = {} /\ IsInjective(frame_queue)
  BY MembersOfNone DEF Init
<1>2. /\ \A f \in Frames : buf[f] = NoPackets
      /\ NoPackets.producer = None /\ NoPackets \in FrameBufs
  BY DEF Init, NoPackets, FrameBufs
<1>3. ToSet(NoPackets.queue) = {} /\ IsInjective(NoPackets.queue)
  <2>1. NoPackets.queue = <<>>
    BY DEF NoPackets
  <2> QED  BY <2>1, MembersOfNone
<1>4. \A f \in Frames : Held(f) = {}
  BY <1>2, <1>3 DEF Held
<1>5. PacketInv
  BY <1>2, <1>3, <1>4 DEF Init, PacketInv
<1>6. OtherTypes
  <2>1. frame_queue \in Seq(Frames)
    BY DEF Init
  <2>2. /\ frame_type \in [Frames -> {"IDR", "P"}]
        /\ frame_len \in [Frames -> 0 .. MaxLen]
        /\ left \in 0 .. MaxLen /\ copied \in 0 .. MaxLen /\ calls \in 0 .. MaxCalls
    BY VideoBufAssumption DEF Init
  <2>3. /\ force_i \in BOOLEAN /\ slience_discard \in BOOLEAN /\ room \in Rooms \cup {0}
        /\ engine = "idle" /\ reader = "idle" /\ b_flush = {}
        /\ curr_producer = None /\ curr_consumer = None
    BY DEF Init
  <2> QED  BY <2>1, <2>2, <2>3 DEF OtherTypes
<1>7. OwnerInv
  BY <1>1, <1>2 DEF Init, OwnerInv, Owned, Given
<1>8. EncoderInv /\ ReaderInv
  BY <1>1 DEF Init, EncoderInv, ReaderInv
<1> QED  BY <1>5, <1>6, <1>7, <1>8 DEF IInv

LEMMA SliceHeadStep == ASSUME IInv, SliceHead PROVE IInv'
<1>1. PICK f \in frame_pool, p \in packet_pool :
        /\ frame_pool' = frame_pool \ {f} /\ packet_pool' = packet_pool \ {p}
        /\ buf' = [buf EXCEPT ![f].producer = p] /\ curr_producer' = f
        /\ frame_type' \in [Frames -> {"IDR", "P"}]
  BY DEF SliceHead, IInv, OtherTypes
<1> DEFINE b == [buf[f] EXCEPT !.producer = p]
<1>2. /\ f \in Frames /\ f \notin Owned /\ f # None /\ p \in Packets /\ p # None
      /\ buf[f] = NoPackets /\ buf[f] \in FrameBufs
  BY VideoBufAssumption DEF IInv, OwnerInv, PacketInv
<1>3. b \in FrameBufs /\ b.queue = <<>> /\ b.producer = p
  <2>1. b = [queue |-> <<>>, producer |-> p]
    BY <1>2 DEF NoPackets
  <2>2. b \in FrameBufs
    BY <1>2, <2>1 DEF FrameBufs
  <2> QED  BY <2>1, <2>2
<1>4. buf' = [buf EXCEPT ![f] = b]
  BY <1>1
<1>5. HeldIn(buf[f]) = {}
  <2>1. buf[f].queue = <<>> /\ buf[f].producer = None
    BY <1>2 DEF NoPackets
  <2>2. ToSet(buf[f].queue) = {}
    BY <2>1, MembersOfNone
  <2> QED  BY <2>1, <2>2 DEF HeldIn
<1> HIDE DEF b
<1>6. /\ ToSet(b.queue) = {} /\ IsInjective(b.queue) /\ HeldIn(b) = {p}
      /\ Len(b.queue) = 0
  BY <1>2, <1>3, MembersOfNone, HeldTypes
<1>7. PacketInv'
  <2>1. packet_pool' \in SUBSET Packets
    BY <1>1 DEF IInv, PacketInv
  <2>2. packet_pool' \cup HeldIn(b) = packet_pool \cup HeldIn(buf[f])
    BY <1>1, <1>5, <1>6
  <2>3. packet_pool' \cap HeldIn(b) = {} /\ b.producer \notin ToSet(b.queue)
    BY <1>1, <1>6
  <2> QED  BY <1>2, <1>3, <1>4, <1>6, <2>1, <2>2, <2>3, ChangeOne DEF IInv
<1>8. buf'[f] = b /\ \A g \in Frames : g # f => buf'[g] = buf[g]
  BY <1>2, <1>4 DEF IInv, PacketInv
<1>9. OtherTypes'
  BY <1>1, <1>2 DEF SliceHead, IInv, OtherTypes, readVars
<1>10. ToSet(frame_queue) \subseteq Frames
  BY MembersOf DEF IInv, OtherTypes
<1>11. OwnerInv'
  BY <1>1, <1>2, <1>8 DEF SliceHead, IInv, OwnerInv, Owned, Given
<1>12. EncoderInv'
  BY <1>1, <1>2, <1>3, <1>8 DEF SliceHead, IInv, EncoderInv, OtherTypes
<1>13. ReaderInv'
  <2>1. /\ \A g \in ToSet(frame_queue) : buf'[g] = buf[g]
        /\ curr_consumer # None => buf'[curr_consumer] = buf[curr_consumer]
    BY <1>2, <1>8, <1>10 DEF Owned, Given, IInv, OtherTypes
  <2> QED  BY <2>1 DEF SliceHead, IInv, ReaderInv, ConsumerInv, Whole, readVars
<1> QED  BY <1>7, <1>9, <1>11, <1>12, <1>13 DEF IInv

\* Whatever stage the encoder's frame was in, it can be released.
LEMMA ReleaseProducerStep ==
  ASSUME IInv, ReleaseProducer, left' = 0, force_i' \in BOOLEAN,
         b_flush' \subseteq b_flush, calls' \in 0 .. MaxCalls, UNCHANGED readVars
  PROVE  IInv'
<1>1. /\ ReleaseFrames(Given(curr_producer)) /\ curr_producer' = None
      /\ engine' = "idle"
      /\ UNCHANGED <<frame_type, frame_len, frame_queue, curr_consumer>>
  BY DEF ReleaseProducer
<1>2. Given(curr_producer) \in SUBSET Frames
  BY DEF Given, IInv, OtherTypes
<1>3. Given(curr_producer) = Owned \ Owned'
  BY <1>1, VideoBufAssumption DEF Owned, Given, IInv, OwnerInv
<1>4. PacketInv' /\ OwnerInv' /\ \A f \in Owned' : buf'[f] = buf[f]
  BY <1>1, <1>2, <1>3, ReleaseOwned
<1>5. OtherTypes'
  BY <1>1, VideoBufAssumption DEF IInv, OtherTypes, readVars
<1>6. EncoderInv'
  BY <1>1 DEF EncoderInv
<1>7. ReaderInv'
  <2>1. /\ \A g \in ToSet(frame_queue) : buf'[g] = buf[g]
        /\ curr_consumer # None => buf'[curr_consumer] = buf[curr_consumer]
    BY <1>1, <1>4 DEF Owned, Given
  <2> QED  BY <1>1, <2>1 DEF IInv, ReaderInv, ConsumerInv, Whole, readVars
<1> QED  BY <1>4, <1>5, <1>6, <1>7 DEF IInv

LEMMA StartEncodeStep == ASSUME IInv, StartEncode PROVE IInv'
<1>1. /\ left' = left /\ left = 0 /\ b_flush' \subseteq b_flush
      /\ UNCHANGED readVars /\ calls' = calls /\ calls \in 0 .. MaxCalls
  BY DEF StartEncode, IInv, OtherTypes, EncoderInv
<1>2. CASE "producer" \in b_flush
  <2>1. ReleaseProducer /\ force_i' = TRUE
    BY <1>2 DEF StartEncode, DropProducer
  <2> QED  BY <1>1, <2>1, ReleaseProducerStep
<1>3. CASE "producer" \notin b_flush
  <2>1. engine' = "encoding" /\ UNCHANGED <<poolVars, queueVars, frameVars>>
    BY <1>3 DEF StartEncode
  <2>2. PacketInv' /\ OwnerInv'
    BY <2>1 DEF IInv, PacketInv, OwnerInv, Owned, Given, Held, poolVars, queueVars
  <2>3. OtherTypes'
    BY <1>1, <2>1 DEF IInv, OtherTypes, queueVars, frameVars, readVars
  <2>4. EncoderInv'
    BY <1>1, <2>1 DEF StartEncode, IInv, EncoderInv, poolVars, queueVars, frameVars
  <2>5. ReaderInv'
    BY <1>1, <2>1 DEF IInv, ReaderInv, ConsumerInv, Whole, poolVars, queueVars,
                      frameVars, readVars
  <2> QED  BY <2>2, <2>3, <2>4, <2>5 DEF IInv
<1> QED  BY <1>2, <1>3

LEMMA IrqDropsStep == ASSUME IInv, IrqDrops \/ IrqNoPacket PROVE IInv'
<1>1. /\ left' = 0 /\ b_flush' \subseteq b_flush /\ UNCHANGED readVars
      /\ calls' = calls /\ calls \in 0 .. MaxCalls
  BY DEF IrqDrops, IrqNoPacket, IInv, OtherTypes, EncoderInv
<1>2. ReleaseProducer /\ force_i' = TRUE
  BY DEF IrqDrops, IrqNoPacket, DropProducer
<1> QED  BY <1>1, <1>2, ReleaseProducerStep

LEMMA IrqStep == ASSUME IInv, Irq PROVE IInv'
<1>1. /\ engine = "encoding" /\ curr_producer \in Frames /\ curr_producer # None
      /\ left' \in 1 .. MaxLen /\ engine' = "irq"
      /\ frame_len' = [frame_len EXCEPT ![curr_producer] = left']
      /\ UNCHANGED <<poolVars, queueVars, frame_type, force_i, b_flush, readVars, calls>>
  BY DEF Irq, IInv, OtherTypes, EncoderInv
<1>2. /\ frame_len'[curr_producer] = left'
      /\ \A f \in Frames : f # curr_producer => frame_len'[f] = frame_len[f]
  BY <1>1 DEF IInv, OtherTypes
<1>3. PacketInv' /\ OwnerInv'
  BY <1>1 DEF IInv, PacketInv, OwnerInv, Owned, Given, Held, poolVars, queueVars
<1>4. OtherTypes'
  BY <1>1, VideoBufAssumption DEF IInv, OtherTypes, queueVars, readVars
<1>5. EncoderInv'
  <2>1. Len(buf[curr_producer].queue) = 0 /\ buf[curr_producer].producer # None
    BY <1>1 DEF IInv, EncoderInv
  <2> QED  BY <1>1, <1>2, <2>1, VideoBufAssumption DEF EncoderInv, poolVars, queueVars
<1>6. ReaderInv'
  <2>1. ToSet(frame_queue) \subseteq Frames
    BY MembersOf DEF IInv, OtherTypes
  <2>2. /\ \A g \in ToSet(frame_queue) : frame_len'[g] = frame_len[g]
        /\ curr_consumer # None => frame_len'[curr_consumer] = frame_len[curr_consumer]
    BY <1>1, <1>2, <2>1 DEF IInv, OwnerInv, OtherTypes
  <2> QED  BY <1>1, <2>2 DEF IInv, ReaderInv, ConsumerInv, Whole, poolVars, queueVars,
                             readVars
<1> QED  BY <1>3, <1>4, <1>5, <1>6 DEF IInv

\* A packet that is full goes to the queue of its frame.
LEMMA FilledKeeps ==
  ASSUME NEW b \in FrameBufs, b.producer # None, IsInjective(b.queue),
         b.producer \notin ToSet(b.queue)
  PROVE  /\ Filled(b) \in FrameBufs /\ Filled(b).producer = None
         /\ Len(Filled(b).queue) = Len(b.queue) + 1
         /\ IsInjective(Filled(b).queue) /\ HeldIn(Filled(b)) = HeldIn(b)
         /\ ToSet(Filled(b).queue) = HeldIn(b)
<1> DEFINE q == Append(b.queue, b.producer)
           d == Filled(b)
<1>1. b.queue \in Seq(Packets) /\ b.producer \in Packets
  BY DEF FrameBufs
<1>2. /\ q \in Seq(Packets) /\ Len(q) = Len(b.queue) + 1 /\ IsInjective(q)
      /\ ToSet(q) = ToSet(b.queue) \cup {b.producer}
  BY <1>1, AppendNew
<1>3. d = [queue |-> q, producer |-> None]
  <2>1. DOMAIN b = {"queue", "producer"}
    BY DEF FrameBufs
  <2>2. d = [b EXCEPT !.queue = q, !.producer = None]
    BY DEF Filled
  <2> HIDE DEF d, q
  <2> QED  BY <2>1, <2>2 DEF FrameBufs
<1> HIDE DEF q
<1>4. d \in FrameBufs /\ d.queue = q /\ d.producer = None
  BY <1>2, <1>3 DEF FrameBufs
<1> HIDE DEF d
<1>5. HeldIn(d) = ToSet(q) /\ HeldIn(b) = ToSet(q)
  BY <1>2, <1>4, HeldTypes
<1> QED  BY <1>2, <1>4, <1>5 DEF d

LEMMA IrqNextPacketStep == ASSUME IInv, IrqNextPacket PROVE IInv'
<1>1. PICK p \in packet_pool :
        /\ packet_pool' = packet_pool \ {p}
        /\ buf' = [buf EXCEPT ![curr_producer] = [Filled(@) EXCEPT !.producer = p]]
  BY DEF IrqNextPacket
<1> DEFINE f == curr_producer
           c == buf[f]
           d == Filled(c)
           b == [d EXCEPT !.producer = p]
<1>2. /\ engine = "irq" /\ left > 1 /\ left' = left - 1 /\ f \in Frames /\ f # None
      /\ UNCHANGED <<frame_pool, queueVars, frameVars, engine, b_flush, readVars, calls>>
      /\ c \in FrameBufs /\ c.producer # None /\ p \in Packets /\ p # None
      /\ IsInjective(c.queue) /\ c.producer \notin ToSet(c.queue)
  BY VideoBufAssumption DEF IrqNextPacket, IInv, OtherTypes, EncoderInv, PacketInv
<1>3. /\ d \in FrameBufs /\ d.producer = None /\ Len(d.queue) = Len(c.queue) + 1
      /\ IsInjective(d.queue) /\ ToSet(d.queue) = HeldIn(c)
  BY <1>2, FilledKeeps
<1>4. buf' = [buf EXCEPT ![f] = b]
  BY <1>1
<1> HIDE DEF d
<1>5. b \in FrameBufs /\ b.queue = d.queue /\ b.producer = p
  BY <1>2, <1>3 DEF FrameBufs
<1>6. p \notin HeldIn(c)
  <2>1. HeldIn(c) = Held(f)
    BY DEF HeldIn, Held
  <2> QED  BY <1>2, <2>1 DEF IInv, PacketInv
<1> HIDE DEF b
<1>7. HeldIn(b) = HeldIn(c) \cup {p}
  BY <1>2, <1>3, <1>5, HeldTypes
<1>8. PacketInv'
  <2>1. packet_pool' \in SUBSET Packets
    BY <1>1 DEF IInv, PacketInv
  <2>2. HeldIn(c) \cap packet_pool = {}
    <3>1. HeldIn(c) = Held(f) /\ HeldIn(c) \subseteq Packets
      BY <1>2, HeldTypes DEF HeldIn, Held
    <3> QED  BY <1>2, <3>1 DEF IInv, PacketInv
  <2>3. /\ packet_pool' \cup HeldIn(b) = packet_pool \cup HeldIn(buf[f])
        /\ packet_pool' \cap HeldIn(b) = {}
    BY <1>1, <1>7, <2>2
  <2>4. IsInjective(b.queue) /\ b.producer \notin ToSet(b.queue)
    BY <1>3, <1>5, <1>6
  <2> QED  BY <1>2, <1>4, <1>5, <2>1, <2>3, <2>4, ChangeOne DEF IInv
<1>9. buf'[f] = b /\ \A g \in Frames : g # f => buf'[g] = buf[g]
  BY <1>2, <1>4 DEF IInv, PacketInv
<1>10. OtherTypes'
  BY <1>2, VideoBufAssumption DEF IInv, OtherTypes, queueVars, frameVars, readVars
<1>11. OwnerInv'
  <2>1. f \notin frame_pool
    BY <1>2 DEF IInv, OwnerInv, Owned, Given
  <2>2. \A g \in frame_pool : buf'[g] = buf[g]
    BY <1>9, <2>1 DEF IInv, OwnerInv
  <2> QED  BY <1>2, <2>2 DEF IInv, OwnerInv, Owned, Given, queueVars
<1>12. EncoderInv'
  <2>1. Len(c.queue) + left = frame_len[f] /\ Len(c.queue) \in Nat /\ left \in Nat
    BY <1>2 DEF IInv, EncoderInv, OtherTypes, FrameBufs
  <2>2. Len(b.queue) + (left - 1) = frame_len[f] /\ left - 1 > 0
    BY <1>2, <1>3, <1>5, <2>1
  <2> QED  BY <1>2, <1>5, <1>9, <2>2 DEF EncoderInv, queueVars, frameVars
<1>13. ReaderInv'
  <2>1. ToSet(frame_queue) \subseteq Frames
    BY MembersOf DEF IInv, OtherTypes
  <2>2. /\ \A g \in ToSet(frame_queue) : buf'[g] = buf[g]
        /\ curr_consumer # None => buf'[curr_consumer] = buf[curr_consumer]
    BY <1>2, <1>9, <2>1 DEF IInv, OwnerInv, OtherTypes
  <2> QED  BY <1>2, <2>2 DEF IInv, ReaderInv, ConsumerInv, Whole, queueVars,
                             frameVars, readVars
<1> QED  BY <1>8, <1>10, <1>11, <1>12, <1>13 DEF IInv

LEMMA IrqFrameStep == ASSUME IInv, IrqFrame PROVE IInv'
<1> DEFINE f == curr_producer
           c == buf[f]
           d == Filled(c)
<1>1. /\ engine = "irq" /\ left = 1 /\ left' = 0 /\ f \in Frames /\ f # None
      /\ UNCHANGED <<b_flush, readVars, calls>> /\ calls \in 0 .. MaxCalls
      /\ c \in FrameBufs /\ c.producer # None
      /\ IsInjective(c.queue) /\ c.producer \notin ToSet(c.queue)
  BY DEF IrqFrame, IInv, OtherTypes, EncoderInv, PacketInv
<1>2. CASE b_flush # {}
  <2>1. ReleaseProducer /\ force_i' = TRUE
    BY <1>2 DEF IrqFrame, DropProducer
  <2> QED  BY <1>1, <2>1, ReleaseProducerStep
<1>3. CASE b_flush = {}
  <2>1. /\ buf' = [buf EXCEPT ![f] = d] /\ frame_queue' = Append(frame_queue, f)
        /\ curr_producer' = None /\ engine' = "idle"
        /\ UNCHANGED <<frame_pool, packet_pool, frameVars, curr_consumer>>
    BY <1>3 DEF IrqFrame
  <2>2. /\ d \in FrameBufs /\ d.producer = None /\ Len(d.queue) = Len(c.queue) + 1
        /\ IsInjective(d.queue) /\ HeldIn(d) = HeldIn(c) /\ HeldIn(d) \subseteq Packets
    BY <1>1, FilledKeeps, HeldTypes
  <2> HIDE DEF d
  <2>3. PacketInv'
    <3>1. packet_pool' \in SUBSET Packets
      BY <2>1 DEF IInv, PacketInv
    <3>2. HeldIn(d) \cap packet_pool = {}
      <4>1. HeldIn(c) = Held(f)
        BY DEF HeldIn, Held
      <4> QED  BY <1>1, <2>2, <4>1 DEF IInv, PacketInv
    <3>3. /\ packet_pool' \cup HeldIn(d) = packet_pool \cup HeldIn(buf[f])
          /\ packet_pool' \cap HeldIn(d) = {}
      BY <2>1, <2>2, <3>2
    <3>4. d.producer \notin ToSet(d.queue)
      <4>1. ToSet(d.queue) \subseteq HeldIn(d) /\ None \notin HeldIn(d)
        BY <2>2, HeldTypes
      <4> QED  BY <2>2, <4>1
    <3> QED  BY <1>1, <2>1, <2>2, <3>1, <3>3, <3>4, ChangeOne DEF IInv
  <2>4. buf'[f] = d /\ \A g \in Frames : g # f => buf'[g] = buf[g]
    BY <1>1, <2>1 DEF IInv, PacketInv
  <2>5. /\ frame_queue' \in Seq(Frames) /\ IsInjective(frame_queue')
        /\ ToSet(frame_queue') = ToSet(frame_queue) \cup {f}
        /\ ToSet(frame_queue) \subseteq Frames
    BY <1>1, <2>1, AppendNew, MembersOf DEF IInv, OtherTypes, OwnerInv
  <2>6. OtherTypes'
    BY <1>1, <2>1, <2>5, VideoBufAssumption DEF IInv, OtherTypes, frameVars, readVars
  <2>7. OwnerInv'
    <3>1. Owned' = Owned
      BY <1>1, <2>1, <2>5 DEF Owned, Given
    <3>2. \A g \in frame_pool : g # f
      BY <1>1 DEF IInv, OwnerInv, Owned, Given
    <3>3. curr_consumer' \notin ToSet(frame_queue')
      BY <1>1, <2>1, <2>5 DEF IInv, OwnerInv
    <3> QED  BY <2>1, <2>4, <2>5, <3>1, <3>2, <3>3 DEF IInv, OwnerInv
  <2>8. EncoderInv'
    BY <1>1, <2>1 DEF EncoderInv
  <2>9. ReaderInv'
    <3>1. /\ \A g \in ToSet(frame_queue) : buf'[g] = buf[g] /\ Whole(g)
          /\ curr_consumer # None => buf'[curr_consumer] = buf[curr_consumer]
      BY <1>1, <2>4, <2>5 DEF IInv, OwnerInv, OtherTypes, ReaderInv
    <3>2. d.producer = None /\ Len(d.queue) = frame_len[f]
      BY <1>1, <2>2 DEF IInv, EncoderInv
    <3> QED  BY <1>1, <2>1, <2>4, <2>5, <3>1, <3>2
             DEF IInv, ReaderInv, ConsumerInv, Whole, frameVars, readVars
  <2> QED  BY <2>3, <2>6, <2>7, <2>8, <2>9 DEF IInv
<1> QED  BY <1>2, <1>3

\* The reader's frames, or only those in the queue, are released.
LEMMA FlushFrames ==
  ASSUME IInv, NEW fs, ReleaseFrames(fs), frame_queue' = <<>>,
         \/ curr_consumer' = curr_consumer /\ fs = ToSet(frame_queue)
         \/ curr_consumer' = None /\ fs = Given(curr_consumer) \cup ToSet(frame_queue),
         UNCHANGED <<curr_producer, frame_len, engineVars>>
  PROVE  /\ PacketInv' /\ OwnerInv' /\ EncoderInv' /\ ToSet(frame_queue') = {}
         /\ frame_queue' \in Seq(Frames)
         /\ curr_consumer' # None => buf'[curr_consumer] = buf[curr_consumer]
<1>1. ToSet(frame_queue) \subseteq Frames /\ None \notin Frames
  BY MembersOf, VideoBufAssumption DEF IInv, OtherTypes
<1>2. ToSet(frame_queue') = {} /\ frame_queue' \in Seq(Frames)
  <2>1. ToSet(frame_queue') = {}
    BY MembersOfNone
  <2>2. frame_queue' \in Seq(Frames)
    OBVIOUS
  <2> QED  BY <2>1, <2>2
<1>3. fs \in SUBSET Frames
  BY <1>1 DEF Given, IInv, OtherTypes
<1>4. fs = Owned \ Owned'
  <2>1. Given(curr_producer) \cap (Given(curr_consumer) \cup ToSet(frame_queue)) = {}
    BY DEF Given, IInv, OwnerInv
  <2>2. Given(curr_consumer) \cap ToSet(frame_queue) = {}
    BY DEF Given, IInv, OwnerInv
  <2> QED  BY <1>2, <2>1, <2>2 DEF Owned, Given
<1>5. PacketInv' /\ OwnerInv' /\ \A f \in Owned' : buf'[f] = buf[f]
  BY <1>3, <1>4, ReleaseOwned
<1>6. EncoderInv'
  <2>1. curr_producer # None => buf'[curr_producer] = buf[curr_producer]
    BY <1>5 DEF Owned, Given
  <2> QED  BY <2>1 DEF IInv, EncoderInv, engineVars
<1>7. curr_consumer' # None => buf'[curr_consumer] = buf[curr_consumer]
  BY <1>5 DEF Owned, Given
<1> QED  BY <1>2, <1>5, <1>6, <1>7

LEMMA FlushStep == ASSUME IInv, Flush \/ Close PROVE IInv'
<1>1. /\ reader = "idle" /\ calls' \in 0 .. MaxCalls /\ force_i' = TRUE
      /\ frame_queue' = <<>>
      /\ UNCHANGED <<curr_producer, frame_type, frame_len, engineVars, readVars>>
      /\ b_flush' \subseteq {"producer", "consumer"}
  <2>1. calls' = calls + 1 /\ calls < MaxCalls /\ calls \in 0 .. MaxCalls
    BY DEF Flush, Close, Called, IInv, OtherTypes
  <2>2. calls' \in 0 .. MaxCalls
    BY <2>1, VideoBufAssumption
  <2>3. b_flush' \subseteq {"producer", "consumer"}
    BY DEF Flush, Close, IInv, OtherTypes
  <2> QED  BY <2>2, <2>3 DEF Flush, Close, Called
<1>2. /\ PacketInv' /\ OwnerInv' /\ EncoderInv' /\ ToSet(frame_queue') = {}
      /\ frame_queue' \in Seq(Frames) /\ curr_consumer' \in {curr_consumer, None}
      /\ curr_consumer' # None => buf'[curr_consumer] = buf[curr_consumer]
  <2>1. CASE Flush
    <3>1. ReleaseFrames(ToSet(frame_queue)) /\ curr_consumer' = curr_consumer
      BY <2>1 DEF Flush
    <3> QED  BY <1>1, <3>1, FlushFrames
  <2>2. CASE Close
    <3>1. /\ ReleaseFrames(Given(curr_consumer) \cup ToSet(frame_queue))
          /\ curr_consumer' = None
      BY <2>2 DEF Close
    <3> QED  BY <1>1, <3>1, FlushFrames
  <2> QED  BY <2>1, <2>2
<1>3. OtherTypes'
  BY <1>1, <1>2 DEF IInv, OtherTypes, engineVars, readVars
<1>4. ReaderInv'
  BY <1>1, <1>2 DEF IInv, ReaderInv, ConsumerInv, Whole, readVars
<1> QED  BY <1>2, <1>3, <1>4 DEF IInv

LEMMA DisableStep == ASSUME IInv, Disable PROVE IInv'
<1>1. /\ ReleaseProducer /\ left' = left /\ left = 0 /\ force_i' \in BOOLEAN
      /\ b_flush' \subseteq b_flush /\ UNCHANGED readVars /\ calls' \in 0 .. MaxCalls
  BY VideoBufAssumption DEF Disable, Called, IInv, OtherTypes, EncoderInv
<1> QED  BY <1>1, ReleaseProducerStep

\* Nobody flushes while a read is under way.
LEMMA FlushConsumerStep ==
  ASSUME IInv, FlushConsumer, UNCHANGED slience_discard,
         \/ UNCHANGED readVars
         \/ reader = "idle" /\ reader' = "get" /\ room' \in Rooms /\ copied' = 0
  PROVE  IInv'
<1>1. /\ UNCHANGED <<curr_producer, frame_type, frame_len, force_i, engineVars, calls>>
      /\ copied' \in 0 .. MaxLen /\ room' \in Rooms \cup {0}
      /\ reader' \in {"idle", "get", "submit", "copy"}
  BY VideoBufAssumption DEF FlushConsumer, frameVars, readVars, IInv, OtherTypes
<1>2. CASE "consumer" \in b_flush
  <2>1. /\ ReleaseFrames(Given(curr_consumer) \cup ToSet(frame_queue))
        /\ curr_consumer' = None /\ frame_queue' = <<>>
        /\ b_flush' = b_flush \ {"consumer"} /\ reader = "idle"
    BY <1>2 DEF FlushConsumer, IInv, ReaderInv
  <2>2. /\ PacketInv' /\ OwnerInv' /\ EncoderInv' /\ ToSet(frame_queue') = {}
        /\ frame_queue' \in Seq(Frames)
    BY <1>1, <2>1, FlushFrames
  <2>3. OtherTypes'
    BY <1>1, <2>1, <2>2 DEF IInv, OtherTypes, engineVars
  <2>4. ReaderInv'
    BY <1>1, <2>1, <2>2 DEF IInv, ReaderInv, readVars
  <2> QED  BY <2>2, <2>3, <2>4 DEF IInv
<1>3. CASE "consumer" \notin b_flush
  <2>1. UNCHANGED <<poolVars, curr_consumer, frame_queue, b_flush>>
    BY <1>3 DEF FlushConsumer
  <2>2. PacketInv' /\ OwnerInv'
    BY <1>1, <2>1 DEF IInv, PacketInv, OwnerInv, Owned, Given, Held, poolVars
  <2>3. OtherTypes'
    BY <1>1, <2>1 DEF IInv, OtherTypes, engineVars
  <2>4. EncoderInv'
    BY <1>1, <2>1 DEF IInv, EncoderInv, poolVars, engineVars
  <2>5. ReaderInv'
    BY <1>1, <1>3, <2>1 DEF IInv, ReaderInv, ConsumerInv, Whole, poolVars, readVars
  <2> QED  BY <2>2, <2>3, <2>4, <2>5 DEF IInv
<1> QED  BY <1>2, <1>3

LEMMA GetConsumerStep == ASSUME IInv, GetConsumer PROVE IInv'
<1>1. /\ reader = "get" /\ copied = 0 /\ "consumer" \notin b_flush
      /\ reader' = IF curr_consumer' = None THEN "idle" ELSE "submit"
      /\ UNCHANGED <<poolVars, curr_producer, frameVars, engineVars, b_flush, room,
                     slience_discard, copied, calls>>
  BY DEF GetConsumer, IInv, ReaderInv
<1>2. CASE curr_consumer = None /\ frame_queue # <<>>
  <2> DEFINE h == Head(frame_queue)
             t == Tail(frame_queue)
  <2>1. curr_consumer' = h /\ frame_queue' = t
    BY <1>2 DEF GetConsumer
  <2>2. /\ h \in Frames /\ t \in Seq(Frames) /\ IsInjective(t)
        /\ ToSet(frame_queue) = ToSet(t) \cup {h} /\ h \notin ToSet(t)
    BY <1>2, TakeFirst DEF IInv, OtherTypes, OwnerInv
  <2> HIDE DEF h, t
  <2>3. h # None /\ Owned' = Owned
    BY <1>1, <1>2, <2>1, <2>2, VideoBufAssumption DEF Owned, Given
  <2>4. PacketInv'
    BY <1>1 DEF IInv, PacketInv, Held, poolVars
  <2>5. OtherTypes'
    BY <1>1, <2>1, <2>2, <2>3 DEF IInv, OtherTypes, frameVars, engineVars
  <2>6. OwnerInv'
    BY <1>1, <2>1, <2>2, <2>3 DEF IInv, OwnerInv, poolVars
  <2>7. EncoderInv'
    BY <1>1 DEF IInv, EncoderInv, poolVars, frameVars, engineVars
  <2>8. ReaderInv'
    BY <1>1, <2>1, <2>2, <2>3 DEF IInv, ReaderInv, ConsumerInv, Whole, poolVars, frameVars
  <2> QED  BY <2>4, <2>5, <2>6, <2>7, <2>8 DEF IInv
<1>3. CASE ~(curr_consumer = None /\ frame_queue # <<>>)
  <2>1. UNCHANGED <<curr_consumer, frame_queue>>
    BY <1>3 DEF GetConsumer
  <2>2. PacketInv' /\ OwnerInv'
    BY <1>1, <2>1 DEF IInv, PacketInv, OwnerInv, Owned, Given, Held, poolVars
  <2>3. OtherTypes'
    BY <1>1, <2>1 DEF IInv, OtherTypes, frameVars, engineVars
  <2>4. EncoderInv'
    BY <1>1 DEF IInv, EncoderInv, poolVars, frameVars, engineVars
  <2>5. ReaderInv'
    BY <1>1, <2>1 DEF IInv, ReaderInv, ConsumerInv, Whole, poolVars, frameVars
  <2> QED  BY <2>2, <2>3, <2>4, <2>5 DEF IInv
<1> QED  BY <1>2, <1>3

LEMMA SubmitPStep == ASSUME IInv, SubmitP PROVE IInv'
<1>1. /\ reader = "submit" /\ copied = 0 /\ curr_consumer # None
      /\ reader' = IF Fits THEN "copy" ELSE "idle"
      /\ slience_discard' = (slience_discard \/ ~Fits)
      /\ UNCHANGED <<poolVars, queueVars, frameVars, engineVars, b_flush, room,
                     copied, calls>>
  BY DEF SubmitP, IInv, ReaderInv
<1>2. PacketInv' /\ OwnerInv'
  BY <1>1 DEF IInv, PacketInv, OwnerInv, Owned, Given, Held, poolVars, queueVars
<1>3. EncoderInv'
  BY <1>1 DEF IInv, EncoderInv, poolVars, queueVars, frameVars, engineVars
<1>4. reader' \in {"copy", "idle"} /\ slience_discard' \in BOOLEAN
  BY <1>1 DEF IInv, OtherTypes
<1>5. OtherTypes'
  BY <1>1, <1>4 DEF IInv, OtherTypes, queueVars, frameVars, engineVars
<1>6. curr_consumer \in Frames /\ ConsumerInv
  BY <1>1 DEF IInv, OtherTypes, ReaderInv
<1>7. ConsumerInv'
  <2>1. /\ Len(buf[curr_consumer].queue) \in Nat /\ frame_len[curr_consumer] \in Nat
        /\ Len(buf[curr_consumer].queue) <= frame_len[curr_consumer]
        /\ buf[curr_consumer].queue = <<>> => Len(buf[curr_consumer].queue) = 0
    BY <1>1, <1>6 DEF ConsumerInv, Whole, IInv, OtherTypes, PacketInv, FrameBufs
  <2>2. ~slience_discard' => ~slience_discard
    BY <1>1
  <2> QED  BY <1>1, <1>4, <1>6, <2>1, <2>2
           DEF ConsumerInv, Whole, poolVars, queueVars, frameVars
<1>8. ReaderInv'
  BY <1>1, <1>4, <1>7 DEF IInv, ReaderInv, Whole, poolVars, queueVars, frameVars
<1> QED  BY <1>2, <1>3, <1>5, <1>8 DEF IInv

LEMMA CopyStep == ASSUME IInv, SubmitIDR \/ Copy PROVE IInv'
<1> DEFINE f == curr_consumer
           c == buf[f]
           b == GiveBack(c)
           p == Head(c.queue)
<1>1. /\ c.queue # <<>> /\ packet_pool' = packet_pool \cup {p}
      /\ buf' = [buf EXCEPT ![f] = b] /\ copied' = copied + 1
      /\ UNCHANGED <<frame_pool, queueVars, frameVars, engineVars, b_flush, room, calls>>
      /\ reader \in {"submit", "copy"} /\ reader' = "copy"
  BY DEF SubmitIDR, Copy, CopyPacket
<1>2. /\ f \in Frames /\ f # None /\ c \in FrameBufs /\ c.queue \in Seq(Packets)
      /\ c.producer = None /\ IsInjective(c.queue) /\ ConsumerInv
  BY <1>1 DEF IInv, OtherTypes, ReaderInv, ConsumerInv, PacketInv, FrameBufs
<1>3. /\ p \in Packets /\ Tail(c.queue) \in Seq(Packets)
      /\ Len(c.queue) = Len(Tail(c.queue)) + 1
      /\ ToSet(c.queue) = ToSet(Tail(c.queue)) \cup {p} /\ p \notin ToSet(Tail(c.queue))
      /\ IsInjective(Tail(c.queue))
  BY <1>1, <1>2, TakeFirst
<1>4. b \in FrameBufs /\ b.queue = Tail(c.queue) /\ b.producer = None
  <2> DEFINE t == Tail(c.queue)
  <2>1. b = [c EXCEPT !.queue = t]
    BY DEF GiveBack
  <2>2. t \in Seq(Packets)
    BY <1>3
  <2> HIDE DEF t, b
  <2>3. b \in FrameBufs /\ b.queue = t /\ b.producer = None
    BY <1>2, <2>1, <2>2 DEF FrameBufs
  <2> QED  BY <2>3 DEF t
<1> HIDE DEF p, b
<1>5. HeldIn(b) = ToSet(b.queue) /\ HeldIn(c) = HeldIn(b) \cup {p} /\ p \notin HeldIn(b)
  BY <1>2, <1>3, <1>4, HeldTypes
<1>6. PacketInv'
  <2>1. packet_pool' \in SUBSET Packets
    BY <1>1, <1>3 DEF IInv, PacketInv
  <2>2. HeldIn(c) \cap packet_pool = {}
    <3>1. HeldIn(c) = Held(f) /\ HeldIn(c) \subseteq Packets
      BY <1>2, HeldTypes DEF HeldIn, Held
    <3> QED  BY <1>2, <3>1 DEF IInv, PacketInv
  <2>3. /\ packet_pool' \cup HeldIn(b) = packet_pool \cup HeldIn(buf[f])
        /\ packet_pool' \cap HeldIn(b) = {}
    BY <1>1, <1>5, <2>2
  <2>4. IsInjective(b.queue) /\ b.producer \notin ToSet(b.queue)
    <3>1. None \notin HeldIn(b)
      BY <1>4, HeldTypes
    <3> QED  BY <1>3, <1>4, <1>5, <3>1
  <2> QED  BY <1>1, <1>2, <1>4, <2>1, <2>3, <2>4, ChangeOne DEF IInv
<1>7. buf'[f] = b /\ \A g \in Frames : g # f => buf'[g] = buf[g]
  BY <1>1, <1>2 DEF IInv, PacketInv
<1>8. /\ Len(b.queue) \in Nat /\ Len(c.queue) = Len(b.queue) + 1 /\ copied \in Nat
      /\ frame_len[f] \in 0 .. MaxLen /\ copied + Len(c.queue) <= frame_len[f]
      /\ ~slience_discard' => copied + Len(c.queue) = frame_len[f]
  <2>1. /\ Len(b.queue) \in Nat /\ Len(c.queue) = Len(b.queue) + 1 /\ copied \in Nat
        /\ frame_len[f] \in 0 .. MaxLen
    BY <1>2, <1>3, <1>4 DEF IInv, OtherTypes
  <2>2. CASE SubmitIDR
    BY <1>1, <1>2, <2>1, <2>2
    DEF SubmitIDR, IInv, ReaderInv, ConsumerInv, Whole
  <2>3. CASE Copy
    BY <1>2, <2>1, <2>3 DEF Copy, ConsumerInv
  <2> QED  BY <2>1, <2>2, <2>3
<1>9. slience_discard' \in BOOLEAN
  BY DEF SubmitIDR, Copy, IInv, OtherTypes
<1>10. copied' \in 0 .. MaxLen
  BY <1>1, <1>8, VideoBufAssumption
<1>11. OtherTypes'
  BY <1>1, <1>9, <1>10 DEF IInv, OtherTypes, queueVars, frameVars, engineVars
<1>12. OwnerInv'
  <2>1. \A g \in frame_pool : g # f /\ buf'[g] = buf[g]
    BY <1>2, <1>7 DEF IInv, OwnerInv, Owned, Given
  <2> QED  BY <1>1, <2>1 DEF IInv, OwnerInv, Owned, Given, queueVars
<1>13. EncoderInv'
  <2>1. curr_producer # None => buf'[curr_producer] = buf[curr_producer]
    BY <1>7 DEF IInv, OwnerInv, OtherTypes
  <2> QED  BY <1>1, <2>1 DEF IInv, EncoderInv, queueVars, frameVars, engineVars
<1>14. ConsumerInv'
  <2>1. copied' + Len(b.queue) = copied + Len(c.queue)
    <3> DEFINE m == Len(b.queue)
               n == Len(c.queue)
    <3>1. m \in Nat /\ n = m + 1 /\ copied \in Nat /\ copied' = copied + 1
      BY <1>1, <1>8
    <3> HIDE DEF m, n
    <3>2. copied' + m = copied + n
      BY <3>1
    <3> QED  BY <3>2 DEF m, n
  <2>2. curr_consumer' = f /\ frame_len' = frame_len /\ reader' = "copy"
    BY <1>1 DEF queueVars, frameVars
  <2>3. buf'[curr_consumer'] = b
    BY <1>7, <2>2
  <2> QED  BY <1>4, <1>8, <2>1, <2>2, <2>3 DEF ConsumerInv
<1>15. ReaderInv'
  <2>1. ToSet(frame_queue) \subseteq Frames
    BY MembersOf DEF IInv, OtherTypes
  <2>2. \A g \in ToSet(frame_queue) : buf'[g] = buf[g]
    BY <1>7, <2>1 DEF IInv, OwnerInv
  <2> QED  BY <1>1, <1>2, <1>14, <2>2 DEF IInv, ReaderInv, Whole, queueVars, frameVars
<1> QED  BY <1>6, <1>11, <1>12, <1>13, <1>15 DEF IInv

LEMMA DeliveredStep == ASSUME IInv, Delivered PROVE IInv'
<1>1. /\ reader = "copy" /\ reader' = "idle" /\ buf[curr_consumer].queue = <<>>
      /\ curr_consumer # None /\ curr_consumer \in Frames /\ ConsumerInv
      /\ UNCHANGED <<curr_producer, frame_queue, frameVars, engineVars, b_flush,
                     room, slience_discard, copied, calls>>
  BY DEF Delivered, Copied, IInv, ReaderInv, OtherTypes
<1>2. CASE slience_discard
  <2>1. UNCHANGED <<poolVars, curr_consumer>>
    BY <1>2 DEF Delivered
  <2>2. PacketInv' /\ OwnerInv'
    BY <1>1, <2>1 DEF IInv, PacketInv, OwnerInv, Owned, Given, Held, poolVars
  <2>3. OtherTypes'
    BY <1>1, <2>1 DEF IInv, OtherTypes, frameVars, engineVars
  <2>4. EncoderInv'
    BY <1>1, <2>1 DEF IInv, EncoderInv, poolVars, frameVars, engineVars
  <2>5. ConsumerInv'
    BY <1>1, <1>2, <2>1 DEF ConsumerInv, poolVars, frameVars
  <2>6. ReaderInv'
    BY <1>1, <2>1, <2>5 DEF IInv, ReaderInv, Whole, poolVars, frameVars
  <2> QED  BY <2>2, <2>3, <2>4, <2>6 DEF IInv
<1>3. CASE ~slience_discard
  <2>1. ReleaseFrames({curr_consumer}) /\ curr_consumer' = None
    BY <1>3 DEF Delivered
  <2>2. {curr_consumer} = Owned \ Owned'
    BY <1>1, <2>1 DEF Owned, Given, IInv, OwnerInv
  <2>3. PacketInv' /\ OwnerInv' /\ \A f \in Owned' : buf'[f] = buf[f]
    BY <1>1, <2>1, <2>2, ReleaseOwned
  <2>4. OtherTypes'
    BY <1>1, <2>1 DEF IInv, OtherTypes, frameVars, engineVars
  <2>5. EncoderInv'
    <3>1. curr_producer # None => buf'[curr_producer] = buf[curr_producer]
      BY <1>1, <2>3 DEF Owned, Given
    <3> QED  BY <1>1, <3>1 DEF IInv, EncoderInv, frameVars, engineVars
  <2>6. ReaderInv'
    <3>1. \A g \in ToSet(frame_queue) : buf'[g] = buf[g]
      BY <1>1, <2>3 DEF Owned
    <3> QED  BY <1>1, <2>1, <3>1 DEF IInv, ReaderInv, Whole, frameVars
  <2> QED  BY <2>3, <2>4, <2>5, <2>6 DEF IInv
<1> QED  BY <1>2, <1>3

-----------------------------------------------------------------------------
(* The invariant, and what follows from it *)

LEMMA NextIInv == IInv /\ [Next]_vars => IInv'
<1> SUFFICES ASSUME IInv, [Next]_vars PROVE IInv'
  OBVIOUS
<1>1. CASE Encoder
  BY <1>1, SliceHeadStep, StartEncodeStep, IrqDropsStep, IrqStep, IrqNextPacketStep,
     IrqFrameStep DEF Encoder
<1>2. CASE Reader
  <2>1. CASE Read
    BY <2>1, FlushConsumerStep DEF Read
  <2> QED  BY <1>2, <2>1, GetConsumerStep, SubmitPStep, CopyStep, DeliveredStep DEF Reader
<1>3. CASE Poll
  BY <1>3, FlushConsumerStep DEF Poll, readVars
<1>4. CASE UNCHANGED vars
  <2>1. PacketInv' /\ OwnerInv'
    BY <1>4 DEF IInv, PacketInv, OwnerInv, Owned, Given, Held, vars, poolVars, queueVars
  <2>2. OtherTypes'
    BY <1>4 DEF IInv, OtherTypes, vars, queueVars, frameVars, engineVars, readVars
  <2>3. EncoderInv'
    BY <1>4 DEF IInv, EncoderInv, vars, poolVars, queueVars, frameVars, engineVars
  <2>4. ReaderInv'
    BY <1>4 DEF IInv, ReaderInv, ConsumerInv, Whole, vars, poolVars, queueVars,
                frameVars, readVars
  <2> QED  BY <2>1, <2>2, <2>3, <2>4 DEF IInv
<1> QED  BY <1>1, <1>2, <1>3, <1>4, FlushStep, DisableStep DEF Next

LEMMA InvariantCorrect == Spec => []IInv
<1>1. Init => IInv
  BY InitIInv
<1>2. IInv /\ [Next]_vars => IInv'
  BY NextIInv
<1> QED  BY <1>1, <1>2, PTL DEF Spec

\* No frame and no packet of the driver is lost or in two hands, for any
\* number of them, any length of a picture and any reads, flushes and closes.
THEOREM ConservedCorrect == Spec => []Conserved
<1>1. IInv => Conserved
  <2> SUFFICES ASSUME IInv PROVE Conserved
    OBVIOUS
  <2>1. TypeOK
    BY DEF TypeOK, IInv, PacketInv, OtherTypes, OwnerInv, FrameBufs
  <2>2. /\ frame_pool = Frames \ Owned
        /\ curr_producer \notin Given(curr_consumer) \cup ToSet(frame_queue)
        /\ curr_consumer \notin ToSet(frame_queue) /\ IsInjective(frame_queue)
    <3>1. None \notin ToSet(frame_queue)
      BY MembersOf, VideoBufAssumption DEF IInv, OtherTypes
    <3> QED  BY <3>1 DEF IInv, OwnerInv, Given
  <2>3. packet_pool = Packets \ UNION {Held(f) : f \in Frames}
    BY DEF IInv, PacketInv
  <2>4. \A f \in frame_pool : Held(f) = {}
    <3>1. NoPackets.queue = <<>> /\ NoPackets.producer = None
      BY DEF NoPackets
    <3>2. ToSet(NoPackets.queue) = {}
      BY <3>1, MembersOfNone
    <3> QED  BY <3>1, <3>2 DEF IInv, OwnerInv, Held
  <2> QED  BY <2>1, <2>2, <2>3, <2>4 DEF Conserved, IInv, PacketInv
<1> QED  BY <1>1, InvariantCorrect, PTL

\* Every frame that read delivers as one is all the packets of its picture.
THEOREM WholeCorrect == Spec => []DeliveredWhole
<1>1. IInv => DeliveredWhole
  <2> SUFFICES ASSUME IInv, Copied, ~slience_discard
               PROVE  copied = frame_len[curr_consumer]
    BY DEF DeliveredWhole
  <2>1. curr_consumer # None /\ ConsumerInv /\ reader = "copy"
    BY DEF Copied, IInv, ReaderInv
  <2>2. Len(buf[curr_consumer].queue) = 0 /\ copied \in Nat
    BY DEF Copied, IInv, OtherTypes
  <2> QED  BY <2>1, <2>2 DEF ConsumerInv
<1> QED  BY <1>1, InvariantCorrect, PTL
=============================================================================
