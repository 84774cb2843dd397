---------------------------- MODULE MsgMgtProofs ----------------------------
(***************************************************************************)
(* MsgMgt for any number of calls.  The argument counts who still has to   *)
(* give up a reference of a block: its client (Asks) and the server (Owes).*)
(* A racing decrement can only leave ref too high, so ref never reaches 0  *)
(* while one of them remains, and nobody frees the block before.           *)
(***************************************************************************)
EXTENDS MsgMgt, TLAPS

Within(s, x) == \E i \in 1 .. Len(s) : s[i] = x
Distinct(s) == \A i, j \in 1 .. Len(s) : s[i] = s[j] => i = j

Queued(c) == Within(msg_list, c)

\* The client has a reference to give up.
Asks(c) == pc[c] \in {"wait", "read", "load", "store"}

\* The server has one, in its queue or in its hands.
Owes(c) == Queued(c) \/ (c \in cur /\ spc \in {"hook", "wake", "load", "store"})

OneIf(b) == IF b THEN 1 ELSE 0

\* The queue and the block in hand: distinct blocks, none answered before.
QueueInv ==
  /\ Distinct(msg_list)
  /\ \A c, d \in cur : c = d
  /\ \A c \in Calls : pc[c] = "start" =>
       ~ Queued(c) /\ c \notin cur /\ hooked[c] = 0 /\ frees[c] = 0 /\ ~ is_ok[c]
  /\ \A c \in Calls : Queued(c) =>
       pc[c] = "wait" /\ ~ is_ok[c] /\ hooked[c] = 0 /\ c \notin cur
  /\ \A c \in cur :
       /\ spc \in {"hook", "wake"} => pc[c] = "wait" /\ ~ is_ok[c]
       /\ spc = "hook" => hooked[c] = 0
       /\ spc = "wake" => hooked[c] = 1 \/ closing
       /\ Queued(c) => spc \notin {"hook", "wake", "load", "store", "test"}
  /\ \A c \in Calls : is_ok[c] => hooked[c] = 1 \/ closing
  /\ \A c \in Calls : pc[c] \in ClientState \ {"start", "wait"} => is_ok[c]
  /\ closing => spc # "hook"

\* No count, stored or on its way to be stored, is too low.
CountInv ==
  /\ \A c \in Calls : ref[c] >= OneIf(Asks(c)) + OneIf(Owes(c))
  /\ \A c \in Calls : pc[c] = "store" => loaded[c] >= 1 + OneIf(Owes(c))
  /\ \A c \in cur : spc = "store" => loaded[Server] >= 1 + OneIf(Asks(c))
  /\ \A c \in Calls : frees[c] > 0 => ~ Asks(c) /\ ~ Owes(c)

IInv == TypeOK /\ QueueInv /\ CountInv /\ RunsOnce

-----------------------------------------------------------------------------
(* Lemmas on queues without duplicates *)

LEMMA AppendNew ==
  ASSUME NEW S, NEW s \in Seq(S), NEW e \in S, Distinct(s), ~ Within(s, e)
  PROVE  /\ Append(s, e) \in Seq(S)
         /\ Distinct(Append(s, e))
         /\ \A x : Within(Append(s, e), x) <=> Within(s, x) \/ x = e
BY DEF Within, Distinct

LEMMA TakeFirst ==
  ASSUME NEW S, NEW s \in Seq(S), Distinct(s), s # <<>>
  PROVE  /\ Tail(s) \in Seq(S) /\ Head(s) \in S
         /\ Distinct(Tail(s))
         /\ Within(s, Head(s))
         /\ \A x : Within(Tail(s), x) <=> Within(s, x) /\ x # Head(s)
<1> DEFINE n == Len(s)
<1>1. n \in Nat /\ n > 0 /\ Len(Tail(s)) = n - 1 /\ Head(s) = s[1]
  OBVIOUS
<1>2. \A i \in 1 .. n - 1 : Tail(s)[i] = s[i + 1]
  OBVIOUS
<1>3. Tail(s) \in Seq(S) /\ Head(s) \in S
  OBVIOUS
<1>4. Distinct(Tail(s)) /\ Within(s, Head(s))
  BY <1>1, <1>2 DEF Distinct, Within
<1>5. ASSUME NEW x, Within(Tail(s), x) PROVE Within(s, x) /\ x # Head(s)
  BY <1>1, <1>2, <1>5 DEF Distinct, Within
<1>6. ASSUME NEW x, Within(s, x), x # Head(s) PROVE Within(Tail(s), x)
  <2>1. PICK i \in 1 .. n : s[i] = x
    BY <1>6 DEF Within
  <2>2. i # 1
    BY <1>1, <1>6, <2>1
  <2>3. i - 1 \in 1 .. n - 1 /\ Tail(s)[i - 1] = x
    BY <1>1, <1>2, <2>1, <2>2
  <2> QED
    BY <1>1, <2>3 DEF Within
<1> QED
  BY <1>3, <1>4, <1>5, <1>6

-----------------------------------------------------------------------------
(* Every step keeps the invariant: first the steps that leave the queue    *)
(* alone, then those that change it.                                       *)

LEMMA WaitKeeps ==
  ASSUME NEW c \in Calls, IInv, Wait(c)
  PROVE  IInv'
<1> USE CallsAssumption
<1>1. TypeOK'
  BY DEF IInv, TypeOK, QueueInv, CountInv, Asks, Owes, OneIf, Users, ClientState, ServerState, Client, srvVars, blkVars, Wait, Answered
<1>2. QueueInv'
  BY DEF IInv, TypeOK, QueueInv, CountInv, Asks, Owes, OneIf, Users, ClientState, ServerState, Client, srvVars, blkVars, Queued, Wait, Answered
<1>3. CountInv'
  BY DEF IInv, TypeOK, QueueInv, CountInv, Asks, Owes, OneIf, Users, ClientState, ServerState, Client, srvVars, blkVars, Queued, Wait, Answered
<1>4. RunsOnce'
  BY DEF IInv, TypeOK, RunsOnce, QueueInv, Users, ClientState, Client, srvVars, blkVars, Wait, Answered
<1> QED
  BY <1>1, <1>2, <1>3, <1>4 DEF IInv

LEMMA ReadResultKeeps ==
  ASSUME NEW c \in Calls, IInv, ReadResult(c)
  PROVE  IInv'
<1> USE CallsAssumption
<1>1. TypeOK'
  BY DEF IInv, TypeOK, QueueInv, CountInv, Asks, Owes, OneIf, Users, ClientState, ServerState, Client, srvVars, blkVars, ReadResult
<1>2. QueueInv'
  BY DEF IInv, TypeOK, QueueInv, CountInv, Asks, Owes, OneIf, Users, ClientState, ServerState, Client, srvVars, blkVars, Queued, ReadResult
<1>3. CountInv'
  BY DEF IInv, TypeOK, QueueInv, CountInv, Asks, Owes, OneIf, Users, ClientState, ServerState, Client, srvVars, blkVars, Queued, ReadResult
<1>4. RunsOnce'
  BY DEF IInv, TypeOK, RunsOnce, QueueInv, Users, ClientState, Client, srvVars, blkVars, ReadResult
<1> QED
  BY <1>1, <1>2, <1>3, <1>4 DEF IInv

LEMMA ClientLoadKeeps ==
  ASSUME NEW c \in Calls, IInv, ClientLoad(c)
  PROVE  IInv'
<1> USE CallsAssumption
<1>1. TypeOK'
  BY DEF IInv, TypeOK, QueueInv, CountInv, Asks, Owes, OneIf, Users, ClientState, ServerState, Client, srvVars, blkVars, ClientLoad, LoadRef
<1>2. QueueInv'
  BY DEF IInv, TypeOK, QueueInv, CountInv, Asks, Owes, OneIf, Users, ClientState, ServerState, Client, srvVars, blkVars, Queued, ClientLoad, LoadRef
<1>3. CountInv'
  BY DEF IInv, TypeOK, QueueInv, CountInv, Asks, Owes, OneIf, Users, ClientState, ServerState, Client, srvVars, blkVars, Queued, ClientLoad, LoadRef
<1>4. RunsOnce'
  BY DEF IInv, TypeOK, RunsOnce, QueueInv, Users, ClientState, Client, srvVars, blkVars, ClientLoad, LoadRef
<1> QED
  BY <1>1, <1>2, <1>3, <1>4 DEF IInv

LEMMA ClientStoreKeeps ==
  ASSUME NEW c \in Calls, IInv, ClientStore(c)
  PROVE  IInv'
<1> USE CallsAssumption
<1>0. /\ loaded[c] - 1 \in 0 .. 2 /\ loaded[c] \in 0 .. 2
      /\ ref' = [ref EXCEPT ![c] = loaded[c] - 1]
      /\ pc[c] = "store"
  <2>1. pc[c] = "store" /\ ref' = [ref EXCEPT ![c] = loaded[c] - 1]
    BY DEF ClientStore, StoreRef
  <2>2. loaded[c] \in 0 .. 2
    BY DEF IInv, TypeOK, Users
  <2>3. loaded[c] >= 1
    BY <2>1, <2>2 DEF IInv, CountInv, OneIf
  <2> QED
    BY <2>1, <2>2, <2>3
<1>1. TypeOK'
  BY <1>0 DEF IInv, TypeOK, Users, ClientState, ServerState, Client, srvVars, blkVars, ClientStore
<1>2. QueueInv'
  BY DEF IInv, TypeOK, QueueInv, ClientState, ServerState, Client, srvVars, blkVars, Queued, ClientStore
<1>3. CountInv'
  <2>1. \A d \in Calls : d # c => ref'[d] = ref[d] /\ (Asks(d)' <=> Asks(d)) /\ (Owes(d)' <=> Owes(d))
    BY <1>0 DEF IInv, TypeOK, QueueInv, Asks, Owes, Queued, ClientState, ServerState, Client, srvVars, ClientStore
  <2>2. ref'[c] = loaded[c] - 1 /\ ~ Asks(c)' /\ (Owes(c)' <=> Owes(c)) /\ frees[c] = 0
    BY <1>0 DEF TypeOK, QueueInv, CountInv, Asks, Owes, OneIf, Users, ClientState, ServerState, Client, srvVars, blkVars, IInv, Queued, ClientStore
  <2>3. \A d \in Calls : ref'[d] >= OneIf(Asks(d)') + OneIf(Owes(d)')
    <3> TAKE d \in Calls
    <3>1. CASE d # c
      BY <2>1, <3>1 DEF IInv, CountInv, OneIf
    <3>2. CASE d = c
      <4>1. loaded[c] >= 1 + OneIf(Owes(c))
        BY <1>0 DEF IInv, CountInv
      <4> QED
        BY <1>0, <2>2, <3>2, <4>1 DEF OneIf
    <3> QED
      BY <3>1, <3>2
  <2>4. \A d \in Calls : pc'[d] = "store" => loaded'[d] >= 1 + OneIf(Owes(d)')
    <3> TAKE d \in Calls
    <3> HAVE pc'[d] = "store"
    <3>1. pc[d] = "store" /\ loaded' = loaded /\ loaded[d] \in 0 .. 2
      BY DEF IInv, TypeOK, ClientState, Users, Client, ClientStore
    <3>2. loaded[d] >= 1 + OneIf(Owes(d))
      BY <3>1 DEF IInv, CountInv
    <3>3. Owes(d)' => Owes(d)
      BY <2>1, <2>2
    <3> QED
      BY <3>1, <3>2, <3>3 DEF OneIf
  <2>5. \A d \in cur' : spc' = "store" => loaded'[Server] >= 1 + OneIf(Asks(d)')
    <3> TAKE d \in cur'
    <3> HAVE spc' = "store"
    <3>1. d \in Calls /\ spc = "store" /\ d \in cur /\ loaded' = loaded /\ loaded[Server] \in 0 .. 2
      BY <1>0 DEF IInv, TypeOK, Users, srvVars, ClientStore
    <3>2. loaded[Server] >= 1 + OneIf(Asks(d))
      BY <3>1 DEF IInv, CountInv
    <3>3. Asks(d)' => Asks(d)
      BY <2>1, <2>2, <3>1
    <3> QED
      BY <3>1, <3>2, <3>3 DEF OneIf
  <2>6. \A d \in Calls : frees'[d] > 0 => ~ Asks(d)' /\ ~ Owes(d)'
    BY <2>1, <2>2 DEF IInv, TypeOK, CountInv, ClientStore
  <2> QED
    BY <2>3, <2>4, <2>5, <2>6 DEF CountInv
<1>4. RunsOnce'
  BY DEF IInv, TypeOK, RunsOnce, QueueInv, Users, ClientState, Client, srvVars, blkVars, ClientStore
<1> QED
  BY <1>1, <1>2, <1>3, <1>4 DEF IInv

LEMMA ClientTestKeeps ==
  ASSUME NEW c \in Calls, IInv, ClientTest(c)
  PROVE  IInv'
<1> USE CallsAssumption
<1>0. /\ frees' \in [Calls -> Nat]
      /\ \A d \in Calls : frees'[d] > 0 => frees[d] > 0 \/ (d = c /\ ref[c] = 0)
      /\ \A d \in Calls : d # c => frees'[d] = frees[d]
  <2>1. frees \in [Calls -> Nat]
    BY DEF IInv, TypeOK
  <2>2. CASE (ref[c] = 0 \/ frees[c] > 0) /\ frees' = [frees EXCEPT ![c] = @ + 1]
    BY <2>1, <2>2
  <2>3. CASE frees' = frees
    BY <2>1, <2>3
  <2> QED
    BY <2>2, <2>3 DEF ClientTest, FreeIfLast
<1>1. TypeOK'
  BY <1>0 DEF IInv, TypeOK, ClientState, ServerState, Client, srvVars, ClientTest
<1>2. QueueInv'
  BY <1>0 DEF IInv, TypeOK, QueueInv, ClientState, ServerState, Client, srvVars, Queued, ClientTest
<1>3. CountInv'
  <2>1. \A d \in Calls : (Asks(d)' <=> Asks(d)) /\ (Owes(d)' <=> Owes(d))
    BY DEF IInv, TypeOK, Asks, Owes, Queued, ClientState, ServerState, Client, srvVars, ClientTest
  <2>2. \A d \in Calls : frees'[d] > 0 => ~ Asks(d) /\ ~ Owes(d)
    BY <1>0 DEF IInv, TypeOK, CountInv, OneIf
  <2>3. \A d \in Calls : pc'[d] = "store" => pc[d] = "store"
    BY DEF IInv, TypeOK, ClientState, Client, ClientTest
  <2>4. spc' = "store" => spc = "store"
    BY DEF srvVars, ClientTest
  <2> QED
    <3>1. ref' = ref /\ loaded' = loaded /\ cur' = cur /\ cur \in SUBSET Calls
      BY DEF IInv, TypeOK, srvVars, ClientTest
    <3>2. \A d \in Calls : ref'[d] >= OneIf(Asks(d)') + OneIf(Owes(d)')
      BY <2>1, <3>1 DEF IInv, CountInv, OneIf
    <3>3. \A d \in Calls : pc'[d] = "store" => loaded'[d] >= 1 + OneIf(Owes(d)')
      BY <2>1, <2>3, <3>1 DEF IInv, CountInv, OneIf
    <3>4. \A d \in cur' : spc' = "store" => loaded'[Server] >= 1 + OneIf(Asks(d)')
      BY <2>1, <2>4, <3>1 DEF IInv, CountInv, OneIf
    <3>5. \A d \in Calls : frees'[d] > 0 => ~ Asks(d)' /\ ~ Owes(d)'
      BY <2>1, <2>2
    <3> QED
      BY <3>2, <3>3, <3>4, <3>5 DEF CountInv
<1>4. RunsOnce'
  BY DEF IInv, TypeOK, RunsOnce, QueueInv, ClientState, Client, srvVars, ClientTest
<1> QED
  BY <1>1, <1>2, <1>3, <1>4 DEF IInv

LEMMA StopKeeps ==
  ASSUME IInv, Stop
  PROVE  IInv'
<1> USE CallsAssumption
<1>1. TypeOK'
  BY DEF IInv, TypeOK, QueueInv, CountInv, Asks, Owes, OneIf, Users, ClientState, ServerState, Client, srvVars, blkVars, Stop
<1>2. QueueInv'
  BY DEF IInv, TypeOK, QueueInv, CountInv, Asks, Owes, OneIf, Users, ClientState, ServerState, Client, srvVars, blkVars, Queued, Stop
<1>3. CountInv'
  BY DEF IInv, TypeOK, QueueInv, CountInv, Asks, Owes, OneIf, Users, ClientState, ServerState, Client, srvVars, blkVars, Queued, Stop
<1>4. RunsOnce'
  BY DEF IInv, TypeOK, RunsOnce, QueueInv, Users, ClientState, Client, srvVars, blkVars, Stop
<1> QED
  BY <1>1, <1>2, <1>3, <1>4 DEF IInv

LEMMA TurnKeeps ==
  ASSUME IInv, Turn
  PROVE  IInv'
<1> USE CallsAssumption
<1>1. TypeOK'
  BY DEF IInv, TypeOK, QueueInv, CountInv, Asks, Owes, OneIf, Users, ClientState, ServerState, Client, srvVars, blkVars, Turn
<1>2. QueueInv'
  BY DEF IInv, TypeOK, QueueInv, CountInv, Asks, Owes, OneIf, Users, ClientState, ServerState, Client, srvVars, blkVars, Queued, Turn
<1>3. CountInv'
  BY DEF IInv, TypeOK, QueueInv, CountInv, Asks, Owes, OneIf, Users, ClientState, ServerState, Client, srvVars, blkVars, Queued, Turn
<1>4. RunsOnce'
  BY DEF IInv, TypeOK, RunsOnce, QueueInv, Users, ClientState, Client, srvVars, blkVars, Turn
<1> QED
  BY <1>1, <1>2, <1>3, <1>4 DEF IInv

LEMMA EndOfWalkKeeps ==
  ASSUME IInv, EndOfWalk
  PROVE  IInv'
<1> USE CallsAssumption
<1>1. TypeOK'
  BY DEF IInv, TypeOK, EndOfWalk, ServerState, blkVars
<1>2. QueueInv'
  BY DEF IInv, TypeOK, QueueInv, CountInv, Asks, Owes, OneIf, Users, ClientState, ServerState, Client, srvVars, blkVars, Queued, EndOfWalk
<1>3. CountInv'
  BY DEF IInv, TypeOK, QueueInv, CountInv, Asks, Owes, OneIf, Users, ClientState, ServerState, Client, srvVars, blkVars, Queued, EndOfWalk
<1>4. RunsOnce'
  BY DEF IInv, TypeOK, RunsOnce, QueueInv, Users, ClientState, Client, srvVars, blkVars, EndOfWalk
<1> QED
  BY <1>1, <1>2, <1>3, <1>4 DEF IInv

LEMMA RunHookKeeps ==
  ASSUME NEW c \in Calls, IInv, RunHook(c)
  PROVE  IInv'
<1> USE CallsAssumption
<1>1. TypeOK'
  BY DEF IInv, TypeOK, QueueInv, CountInv, Asks, Owes, OneIf, Users, ClientState, ServerState, Client, srvVars, blkVars, RunHook
<1>2. QueueInv'
  BY DEF IInv, TypeOK, QueueInv, CountInv, Asks, Owes, OneIf, Users, ClientState, ServerState, Client, srvVars, blkVars, Queued, RunHook
<1>3. CountInv'
  BY DEF IInv, TypeOK, QueueInv, CountInv, Asks, Owes, OneIf, Users, ClientState, ServerState, Client, srvVars, blkVars, Queued, RunHook
<1>4. RunsOnce'
  BY DEF IInv, TypeOK, RunsOnce, QueueInv, Users, ClientState, Client, srvVars, blkVars, RunHook
<1> QED
  BY <1>1, <1>2, <1>3, <1>4 DEF IInv

LEMMA WeekupKeeps ==
  ASSUME NEW c \in Calls, IInv, Weekup(c)
  PROVE  IInv'
<1> USE CallsAssumption
<1>1. TypeOK'
  BY DEF IInv, TypeOK, QueueInv, CountInv, Asks, Owes, OneIf, Users, ClientState, ServerState, Client, srvVars, blkVars, Weekup, SetOk
<1>2. QueueInv'
  BY DEF IInv, TypeOK, QueueInv, CountInv, Asks, Owes, OneIf, Users, ClientState, ServerState, Client, srvVars, blkVars, Queued, Weekup, SetOk
<1>3. CountInv'
  BY DEF IInv, TypeOK, QueueInv, CountInv, Asks, Owes, OneIf, Users, ClientState, ServerState, Client, srvVars, blkVars, Queued, Weekup, SetOk
<1>4. RunsOnce'
  BY DEF IInv, TypeOK, RunsOnce, QueueInv, Users, ClientState, Client, srvVars, blkVars, Weekup, SetOk
<1> QED
  BY <1>1, <1>2, <1>3, <1>4 DEF IInv

LEMMA ServerLoadKeeps ==
  ASSUME NEW c \in Calls, IInv, ServerLoad(c)
  PROVE  IInv'
<1> USE CallsAssumption
<1>1. TypeOK'
  BY DEF IInv, TypeOK, QueueInv, CountInv, Asks, Owes, OneIf, Users, ClientState, ServerState, Client, srvVars, blkVars, ServerLoad, LoadRef
<1>2. QueueInv'
  BY DEF IInv, TypeOK, QueueInv, CountInv, Asks, Owes, OneIf, Users, ClientState, ServerState, Client, srvVars, blkVars, Queued, ServerLoad, LoadRef
<1>3. CountInv'
  BY DEF IInv, TypeOK, QueueInv, CountInv, Asks, Owes, OneIf, Users, ClientState, ServerState, Client, srvVars, blkVars, Queued, ServerLoad, LoadRef
<1>4. RunsOnce'
  BY DEF IInv, TypeOK, RunsOnce, QueueInv, Users, ClientState, Client, srvVars, blkVars, ServerLoad, LoadRef
<1> QED
  BY <1>1, <1>2, <1>3, <1>4 DEF IInv

LEMMA ServerStoreKeeps ==
  ASSUME NEW c \in Calls, IInv, ServerStore(c)
  PROVE  IInv'
<1> USE CallsAssumption
<1>0. /\ loaded[Server] - 1 \in 0 .. 2 /\ loaded[Server] \in 0 .. 2
      /\ ref' = [ref EXCEPT ![c] = loaded[Server] - 1]
      /\ spc = "store" /\ c \in cur
  <2>1. spc = "store" /\ ref' = [ref EXCEPT ![c] = loaded[Server] - 1] /\ c \in cur
    BY DEF ServerStore, StoreRef
  <2>2. loaded[Server] \in 0 .. 2
    BY DEF IInv, TypeOK, Users
  <2>3. loaded[Server] >= 1
    BY <2>1, <2>2 DEF IInv, CountInv, OneIf
  <2> QED
    BY <2>1, <2>2, <2>3
<1>1. TypeOK'
  BY <1>0 DEF IInv, TypeOK, Users, ClientState, ServerState, Client, srvVars, blkVars, ServerStore
<1>2. QueueInv'
  BY DEF IInv, TypeOK, QueueInv, ClientState, ServerState, Client, srvVars, blkVars, Queued, ServerStore
<1>3. CountInv'
  <2>1. \A d \in Calls : d # c => ref'[d] = ref[d] /\ (Asks(d)' <=> Asks(d)) /\ (Owes(d)' <=> Owes(d))
    BY <1>0 DEF IInv, TypeOK, QueueInv, Asks, Owes, Queued, ClientState, ServerState, Client, srvVars, ServerStore
  <2>2. ref'[c] = loaded[Server] - 1 /\ ~ Owes(c)' /\ (Asks(c)' <=> Asks(c)) /\ frees[c] = 0
    BY <1>0 DEF TypeOK, QueueInv, CountInv, Asks, Owes, OneIf, Users, ClientState, ServerState, Client, srvVars, blkVars, IInv, Queued, ServerStore
  <2>3. \A d \in Calls : ref'[d] >= OneIf(Asks(d)') + OneIf(Owes(d)')
    <3> TAKE d \in Calls
    <3>1. CASE d # c
      BY <2>1, <3>1 DEF IInv, CountInv, OneIf
    <3>2. CASE d = c
      <4>1. loaded[Server] >= 1 + OneIf(Asks(c))
        BY <1>0 DEF IInv, CountInv
      <4> QED
        BY <1>0, <2>2, <3>2, <4>1 DEF OneIf
    <3> QED
      BY <3>1, <3>2
  <2>4. \A d \in Calls : pc'[d] = "store" => loaded'[d] >= 1 + OneIf(Owes(d)')
    <3> TAKE d \in Calls
    <3> HAVE pc'[d] = "store"
    <3>1. pc[d] = "store" /\ loaded' = loaded /\ loaded[d] \in 0 .. 2
      BY DEF IInv, TypeOK, ClientState, Users, Client, ServerStore
    <3>2. loaded[d] >= 1 + OneIf(Owes(d))
      BY <3>1 DEF IInv, CountInv
    <3>3. Owes(d)' => Owes(d)
      BY <2>1, <2>2
    <3> QED
      BY <3>1, <3>2, <3>3 DEF OneIf
  <2>5. \A d \in cur' : spc' = "store" => loaded'[Server] >= 1 + OneIf(Asks(d)')
    <3> TAKE d \in cur'
    <3> HAVE spc' = "store"
    <3>1. d \in Calls /\ spc = "store" /\ d \in cur /\ loaded' = loaded /\ loaded[Server] \in 0 .. 2
      BY <1>0 DEF IInv, TypeOK, Users, srvVars, ServerStore
    <3>2. loaded[Server] >= 1 + OneIf(Asks(d))
      BY <3>1 DEF IInv, CountInv
    <3>3. Asks(d)' => Asks(d)
      BY <2>1, <2>2, <3>1
    <3> QED
      BY <3>1, <3>2, <3>3 DEF OneIf
  <2>6. \A d \in Calls : frees'[d] > 0 => ~ Asks(d)' /\ ~ Owes(d)'
    BY <2>1, <2>2 DEF IInv, TypeOK, CountInv, ServerStore
  <2> QED
    BY <2>3, <2>4, <2>5, <2>6 DEF CountInv
<1>4. RunsOnce'
  BY DEF IInv, TypeOK, RunsOnce, QueueInv, Users, ClientState, Client, srvVars, blkVars, ServerStore
<1> QED
  BY <1>1, <1>2, <1>3, <1>4 DEF IInv

LEMMA ServerTestKeeps ==
  ASSUME NEW c \in Calls, IInv, ServerTest(c)
  PROVE  IInv'
<1> USE CallsAssumption
<1>0. /\ frees' \in [Calls -> Nat]
      /\ \A d \in Calls : frees'[d] > 0 => frees[d] > 0 \/ (d = c /\ ref[c] = 0)
      /\ \A d \in Calls : d # c => frees'[d] = frees[d]
  <2>1. frees \in [Calls -> Nat]
    BY DEF IInv, TypeOK
  <2>2. CASE (ref[c] = 0 \/ frees[c] > 0) /\ frees' = [frees EXCEPT ![c] = @ + 1]
    BY <2>1, <2>2
  <2>3. CASE frees' = frees
    BY <2>1, <2>3
  <2> QED
    BY <2>2, <2>3 DEF ServerTest, FreeIfLast
<1>1. TypeOK'
  BY <1>0 DEF IInv, TypeOK, ClientState, ServerState, Client, srvVars, ServerTest
<1>2. QueueInv'
  BY <1>0 DEF IInv, TypeOK, QueueInv, ClientState, ServerState, Client, srvVars, Queued, ServerTest
<1>3. CountInv'
  <2>1. \A d \in Calls : (Asks(d)' <=> Asks(d)) /\ (Owes(d)' <=> Owes(d))
    BY DEF IInv, TypeOK, Asks, Owes, Queued, ClientState, ServerState, Client, srvVars, ServerTest
  <2>2. \A d \in Calls : frees'[d] > 0 => ~ Asks(d) /\ ~ Owes(d)
    BY <1>0 DEF IInv, TypeOK, CountInv, OneIf
  <2>3. \A d \in Calls : pc'[d] = "store" => pc[d] = "store"
    BY DEF IInv, TypeOK, ClientState, Client, ServerTest
  <2>4. spc' = "store" => spc = "store"
    BY DEF srvVars, ServerTest
  <2> QED
    <3>1. ref' = ref /\ loaded' = loaded /\ cur' = cur /\ cur \in SUBSET Calls
      BY DEF IInv, TypeOK, srvVars, ServerTest
    <3>2. \A d \in Calls : ref'[d] >= OneIf(Asks(d)') + OneIf(Owes(d)')
      BY <2>1, <3>1 DEF IInv, CountInv, OneIf
    <3>3. \A d \in Calls : pc'[d] = "store" => loaded'[d] >= 1 + OneIf(Owes(d)')
      BY <2>1, <2>3, <3>1 DEF IInv, CountInv, OneIf
    <3>4. \A d \in cur' : spc' = "store" => loaded'[Server] >= 1 + OneIf(Asks(d)')
      BY <2>1, <2>4, <3>1 DEF IInv, CountInv, OneIf
    <3>5. \A d \in Calls : frees'[d] > 0 => ~ Asks(d)' /\ ~ Owes(d)'
      BY <2>1, <2>2
    <3> QED
      BY <3>2, <3>3, <3>4, <3>5 DEF CountInv
<1>4. RunsOnce'
  BY DEF IInv, TypeOK, RunsOnce, QueueInv, ClientState, Client, srvVars, ServerTest
<1> QED
  BY <1>1, <1>2, <1>3, <1>4 DEF IInv

LEMMA StartReleaseKeeps ==
  ASSUME IInv, StartRelease
  PROVE  IInv'
<1> USE CallsAssumption
<1>1. TypeOK'
  BY DEF IInv, TypeOK, QueueInv, CountInv, Asks, Owes, OneIf, Users, ClientState, ServerState, Client, srvVars, blkVars, StartRelease
<1>2. QueueInv'
  BY DEF IInv, TypeOK, QueueInv, CountInv, Asks, Owes, OneIf, Users, ClientState, ServerState, Client, srvVars, blkVars, Queued, StartRelease
<1>3. CountInv'
  BY DEF IInv, TypeOK, QueueInv, CountInv, Asks, Owes, OneIf, Users, ClientState, ServerState, Client, srvVars, blkVars, Queued, StartRelease
<1>4. RunsOnce'
  BY DEF IInv, TypeOK, RunsOnce, QueueInv, Users, ClientState, Client, srvVars, blkVars, StartRelease
<1> QED
  BY <1>1, <1>2, <1>3, <1>4 DEF IInv

LEMMA PutKeeps ==
  ASSUME NEW c \in Calls, IInv, Put(c)
  PROVE  IInv'
<1> USE CallsAssumption
<1>0. /\ msg_list' \in Seq(Calls) /\ Distinct(msg_list')
      /\ \A x : Within(msg_list', x) <=> Within(msg_list, x) \/ x = c
  BY AppendNew DEF IInv, TypeOK, QueueInv, Queued, Put
<1>1. TypeOK'
  BY <1>0 DEF IInv, TypeOK, Users, ClientState, ServerState, Client, srvVars, blkVars, Put, InitialRef
<1>2. QueueInv'
  BY <1>0 DEF IInv, TypeOK, QueueInv, ClientState, ServerState, Client, ListLocked, srvVars, blkVars, Queued, Put, InitialRef
<1>3. CountInv'
  BY <1>0 DEF IInv, TypeOK, QueueInv, CountInv, Asks, Owes, OneIf, Users, ClientState, ServerState, Client, ListLocked, srvVars, blkVars, Queued, Put, InitialRef
<1>4. RunsOnce'
  BY <1>0 DEF IInv, TypeOK, RunsOnce, ClientState, Client, srvVars, blkVars, Put, InitialRef
<1> QED
  BY <1>1, <1>2, <1>3, <1>4 DEF IInv

LEMMA TakeBlkKeeps ==
  ASSUME IInv, TakeBlk
  PROVE  IInv'
<1> USE CallsAssumption
<1>0. /\ msg_list' \in Seq(Calls) /\ Distinct(msg_list')
      /\ Head(msg_list) \in Calls /\ Queued(Head(msg_list))
      /\ \A x : Within(msg_list', x) <=> Within(msg_list, x) /\ x # Head(msg_list)
  BY TakeFirst DEF IInv, TypeOK, QueueInv, Queued, TakeBlk
<1>1. TypeOK'
  BY <1>0 DEF IInv, TypeOK, Users, ClientState, ServerState, Client, srvVars, blkVars, TakeBlk
<1>2. QueueInv'
  BY <1>0 DEF IInv, TypeOK, QueueInv, ClientState, ServerState, Client, ListLocked, srvVars, blkVars, Queued, TakeBlk
<1>3. CountInv'
  BY <1>0 DEF IInv, TypeOK, QueueInv, CountInv, Asks, Owes, OneIf, Users, ClientState, ServerState, Client, ListLocked, srvVars, blkVars, Queued, TakeBlk
<1>4. RunsOnce'
  BY <1>0 DEF IInv, TypeOK, RunsOnce, ClientState, Client, srvVars, blkVars, TakeBlk
<1> QED
  BY <1>1, <1>2, <1>3, <1>4 DEF IInv

-----------------------------------------------------------------------------
LEMMA InitIInv == Init => IInv
<1> SUFFICES ASSUME Init PROVE IInv
  OBVIOUS
<1>1. TypeOK
  <2>1. msg_list \in Seq(Calls) /\ cur \in SUBSET Calls
    BY DEF Init
  <2>2. /\ ref \in [Calls -> 0 .. 2] /\ loaded \in [Users -> 0 .. 2]
        /\ hooked \in [Calls -> Nat] /\ frees \in [Calls -> Nat]
    BY DEF Init
  <2>3. /\ pc \in [Calls -> ClientState] /\ is_ok \in [Calls -> BOOLEAN]
        /\ spc \in ServerState /\ run_flag \in BOOLEAN /\ closing \in BOOLEAN
    BY DEF Init, ClientState, ServerState
  <2> QED
    BY <2>1, <2>2, <2>3 DEF TypeOK
<1>2. QueueInv /\ RunsOnce
  BY DEF Init, QueueInv, RunsOnce, Queued, Within, Distinct, ClientState
<1>3. CountInv
  BY DEF Init, CountInv, Asks, Owes, OneIf, Queued, Within
<1> QED
  BY <1>1, <1>2, <1>3 DEF IInv

LEMMA NextIInv == IInv /\ [Next]_vars => IInv'
<1> SUFFICES ASSUME IInv, [Next]_vars PROVE IInv'
  OBVIOUS
<1>1. ASSUME NEW c \in Calls, ClientStep(c) PROVE IInv'
  BY <1>1, PutKeeps, WaitKeeps, ReadResultKeeps, ClientLoadKeeps, ClientStoreKeeps,
     ClientTestKeeps DEF ClientStep
<1>2. CASE ServerStep
  BY <1>2, TurnKeeps, TakeBlkKeeps, EndOfWalkKeeps, StartReleaseKeeps, RunHookKeeps,
     WeekupKeeps, ServerLoadKeeps, ServerStoreKeeps, ServerTestKeeps DEF ServerStep
<1>3. CASE Stop
  BY <1>3, StopKeeps
<1>4. CASE UNCHANGED vars
  BY <1>4 DEF IInv, TypeOK, QueueInv, CountInv, RunsOnce, Asks, Owes, OneIf, Queued,
     vars, srvVars, blkVars
<1> QED
  BY <1>1, <1>2, <1>3, <1>4 DEF Next

LEMMA Inductive == Spec => []IInv
BY InitIInv, NextIInv, PTL DEF Spec

\* Type correctness: in particular ref and the values loaded from it stay in
\* 0..2, although clients and server decrement without a lock.
THEOREM TypeCorrect == Spec => []TypeOK
<1>1. IInv => TypeOK
  BY DEF IInv
<1> QED
  BY <1>1, Inductive, PTL

\* A hook runs only while its caller, who owns its parameter, waits.
THEOREM HookCorrect == Spec => []HookWhileCallerWaits
<1>1. IInv => HookWhileCallerWaits
  BY DEF IInv, QueueInv, HookWhileCallerWaits
<1> QED
  BY <1>1, Inductive, PTL

\* No block is freed while its client or the server still has to use it.
THEOREM FreeCorrect == Spec => []FreedAfterUse
<1>1. IInv => FreedAfterUse
  <2> SUFFICES ASSUME IInv, NEW c \in Calls, frees[c] > 0
               PROVE  /\ pc[c] \in {"test", "returned"}
                      /\ c \in cur => spc \notin {"hook", "wake", "load", "store"}
    BY DEF FreedAfterUse
  <2>1. ~ Asks(c) /\ ~ Owes(c) /\ pc[c] # "start"
    BY DEF IInv, TypeOK, CountInv, QueueInv
  <2>2. pc[c] \in {"test", "returned"}
    BY <2>1 DEF IInv, TypeOK, ClientState, Asks
  <2>3. c \in cur => spc \notin {"hook", "wake", "load", "store"}
    BY <2>1 DEF IInv, TypeOK, QueueInv, ServerState, Owes
  <2> QED
    BY <2>2, <2>3
<1> QED
  BY <1>1, Inductive, PTL

\* Every call that returns was answered by its hook, which ran once, or by
\* the release of the queue.
THEOREM AnswerCorrect == Spec => []RunsOnce
<1>1. IInv => RunsOnce
  BY DEF IInv
<1> QED
  BY <1>1, Inductive, PTL

-----------------------------------------------------------------------------
(* The queue implements CallOnce: only the five steps that put, run, give  *)
(* up, answer and close are seen there, all others leave it where it is.   *)

Phase(c) == CASE pc[c] = "start" -> "start"
              [] pc[c] = "wait" -> "asked"
              [] OTHER -> "returned"
Phases == [c \in Calls |-> Phase(c)]

\* One call's phase changes as CallOnce's Caller says.
LEMMA OnePhase ==
  ASSUME NEW c \in Calls, NEW s, TypeOK, Client(c, s), s \in ClientState
  PROVE  Phases' = [Phases EXCEPT ![c] = CASE s = "start" -> "start"
                                           [] s = "wait" -> "asked"
                                           [] OTHER -> "returned"]
<1>1. pc' = [pc EXCEPT ![c] = s] /\ pc \in [Calls -> ClientState]
  BY DEF Client, TypeOK
<1>2. pc'[c] = s /\ \A d \in Calls : d # c => pc'[d] = pc[d]
  BY <1>1
<1>3. \A d \in Calls : d # c => Phase(d)' = Phase(d)
  BY <1>2 DEF Phase
<1>4. Phase(c)' = CASE s = "start" -> "start"
                    [] s = "wait" -> "asked"
                    [] OTHER -> "returned"
  BY <1>2 DEF Phase
<1> QED
  BY <1>3, <1>4 DEF Phases

LEMMA InitRefines == Init => SyncCall!Init
BY DEF Init, SyncCall!Init

LEMMA NextRefines ==
  ASSUME IInv, [Next]_vars
  PROVE  [SyncCall!Next]_(SyncCall!vars)
<1> USE DEF Phases, Phase
<1> DEFINE Same == /\ Phases' = Phases /\ hooked' = hooked /\ closing' = closing
<1>0. Same => UNCHANGED SyncCall!vars
  BY DEF SyncCall!vars
<1>1. ASSUME NEW c \in Calls, Put(c) PROVE SyncCall!Ask(c)
  <2>1. Client(c, "wait") /\ pc[c] = "start" /\ UNCHANGED <<hooked, closing>>
    BY <1>1 DEF Put, srvVars
  <2>2. Phases' = [Phases EXCEPT ![c] = "asked"]
    BY <2>1, OnePhase DEF IInv, ClientState
  <2>3. Phases[c] = "start"
    BY <2>1
  <2> QED
    BY <2>1, <2>2, <2>3 DEF SyncCall!Ask, SyncCall!Caller
<1>2. ASSUME NEW c \in Calls, Wait(c) PROVE SyncCall!Return(c)
  <2>1. Client(c, "read") /\ pc[c] = "wait" /\ UNCHANGED <<hooked, closing>>
    BY <1>2 DEF Wait, srvVars, blkVars
  <2>2. Phases' = [Phases EXCEPT ![c] = "returned"]
    BY <2>1, OnePhase DEF IInv, ClientState
  <2>3. Phases[c] = "asked" /\ (hooked[c] = 1 \/ closing)
    BY <1>2, <2>1 DEF Wait, Answered, IInv, QueueInv
  <2> QED
    BY <2>1, <2>2, <2>3 DEF SyncCall!Return, SyncCall!Caller
<1>3. ASSUME NEW c \in Calls, NEW s \in {"load", "store", "test", "returned"},
             Client(c, s), pc[c] \notin {"start", "wait"},
             UNCHANGED <<hooked, closing>>
      PROVE  Same
  <2>1. Phases' = [Phases EXCEPT ![c] = "returned"]
    BY <1>3, OnePhase DEF IInv, ClientState
  <2>2. Phases[c] = "returned"
    BY <1>3
  <2> QED
    BY <1>3, <2>1, <2>2
<1>4. ASSUME NEW c \in Calls, ClientStep(c)
      PROVE  [SyncCall!Next]_(SyncCall!vars)
  <2>1. CASE Put(c) \/ Wait(c)
    BY <2>1, <1>1, <1>2 DEF SyncCall!Next
  <2>2. CASE ReadResult(c)
    BY <2>2, <1>0, <1>3 DEF ReadResult, srvVars, blkVars
  <2>3. CASE ClientLoad(c)
    BY <2>3, <1>0, <1>3 DEF ClientLoad, srvVars, blkVars
  <2>4. CASE ClientStore(c)
    BY <2>4, <1>0, <1>3 DEF ClientStore, srvVars
  <2>5. CASE ClientTest(c)
    BY <2>5, <1>0, <1>3 DEF ClientTest, srvVars
  <2> QED
    BY <1>4, <2>1, <2>2, <2>3, <2>4, <2>5 DEF ClientStep
<1>5. ASSUME NEW c \in Calls, RunHook(c) PROVE SyncCall!Run(c)
  <2>0. spc = "hook" /\ c \in cur /\ UNCHANGED <<pc, closing>>
        /\ hooked' = [hooked EXCEPT ![c] = @ + 1]
    BY <1>5 DEF RunHook
  <2>1. ~closing /\ pc[c] = "wait" /\ hooked[c] = 0
    BY <2>0 DEF IInv, QueueInv
  <2>2. hooked' = [hooked EXCEPT ![c] = 1]
    BY <2>0, <2>1
  <2>3. Phases' = Phases /\ Phases[c] = "asked"
    BY <2>0, <2>1
  <2> QED
    BY <2>0, <2>1, <2>2, <2>3 DEF SyncCall!Run
<1>6. ASSUME StartRelease PROVE [SyncCall!Next]_(SyncCall!vars)
  <2>1. pc' = pc /\ hooked' = hooked /\ closing' = TRUE /\ closing \in BOOLEAN
    BY <1>6 DEF StartRelease, blkVars, IInv, TypeOK
  <2>2. Phases' = Phases
    BY <2>1
  <2>3. CASE closing
    BY <1>0, <2>1, <2>2, <2>3
  <2>4. CASE ~closing
    BY <2>1, <2>2, <2>4 DEF SyncCall!Next, SyncCall!Close
  <2> QED
    BY <2>3, <2>4
<1>7. ASSUME UNCHANGED <<pc, hooked, closing>> PROVE UNCHANGED SyncCall!vars
  BY <1>0, <1>7
<1>8. ASSUME ServerStep PROVE [SyncCall!Next]_(SyncCall!vars)
  <2>1. CASE Turn \/ TakeBlk \/ EndOfWalk
    BY <1>7, <2>1 DEF Turn, TakeBlk, EndOfWalk, blkVars
  <2>2. CASE StartRelease
    BY <1>6, <2>2
  <2>3. ASSUME NEW c \in Calls, RunHook(c) PROVE SyncCall!Next
    BY <1>5, <2>3 DEF SyncCall!Next
  <2>4. ASSUME NEW c \in Calls,
               Weekup(c) \/ ServerLoad(c) \/ ServerStore(c) \/ ServerTest(c)
        PROVE  UNCHANGED SyncCall!vars
    BY <1>7, <2>4 DEF Weekup, ServerLoad, ServerStore, ServerTest, blkVars
  <2> QED
    BY <1>8, <2>1, <2>2, <2>3, <2>4 DEF ServerStep
<1>9. CASE Stop \/ UNCHANGED vars
  BY <1>7, <1>9 DEF Stop, vars, srvVars, blkVars
<1> QED
  BY <1>4, <1>8, <1>9 DEF Next

\* Every behaviour of the queue, the racing counts and the release included, is
\* one of CallOnce: the hook of a call runs once, while the call waits and before
\* the release, and the call returns after it or because of the release.
THEOREM Refines == Spec => IsCallOnce
<1>1. Spec => SyncCall!Spec
  BY InitRefines, NextRefines, Inductive, PTL DEF Spec, SyncCall!Spec
<1> QED
  BY <1>1 DEF IsCallOnce
=============================================================================
