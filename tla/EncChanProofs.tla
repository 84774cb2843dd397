---------------------------- MODULE EncChanProofs ----------------------------
(***************************************************************************)
(* EncChan for any channels, frames and messages.  What a context has on   *)
(* its stack says where the machines of the channels are: a channel to be  *)
(* started waits in STANDBY outside the queue, one to escape is RUNNING    *)
(* without a picture in the chip, and one whose end a context has still to *)
(* work on cannot be asked for again until that context is back, because   *)
(* one of the two bits it would need comes from there.                     *)
(* On one processor a second invariant, WaitInv, follows the messages and  *)
(* their timers: no channel that waits for its slice head is forgotten.    *)
(***************************************************************************)
EXTENDS EncChan, FunctionTheorems, FiniteSetTheorems, TLAPS

Queued(c) == Contains(service_queue, c)
EndSteps == {"escape", "rest", "check", "deliver"}
\* The bit of slice_head_and_ad_status that only this context sets.
Bit(x) == IF x = "kthread" THEN "head" ELSE "ad"

Entries == Steps \X (Chans \cup {None})
StackType == stack \in [Contexts -> Seq(Entries)]
Distinct == \A y \in Contexts : IsInjective(stack[y])
\* The hook of a message timer is all that its context has to do.
Alone == \A y \in Contexts, h \in Hooks : \A d : On(y, h, d) => stack[y] = <<<<h, d>>>>
Injectives == Distinct /\ Alone

TypeInv ==
  /\ curr_state \in [Chans -> States]
  /\ pending \in [Chans -> {"none", "suspend", "resume", "close"}]
  /\ done \in [Chans -> SUBSET {"suspend", "resume", "close"}]
  /\ opened_flag \in [Chans -> BOOLEAN]
  /\ status \in [Chans -> SUBSET {"head", "ad"}]
  /\ frame_type \in [Chans -> {"none", "I", "P"}]
  /\ force_i \in [Chans -> BOOLEAN] /\ gop_start \in [Chans -> BOOLEAN]
  /\ b_flush \in [Chans -> SUBSET {"producer", "consumer"}]
  /\ frame_queue \in [Chans -> Seq({"I", "P"})]
  /\ reader \in [Chans -> BOOLEAN] /\ lost \in [Chans -> BOOLEAN]
  /\ timers \in [Chans -> SUBSET Timers] /\ timer_id \in [Chans -> SUBSET Timers]
  /\ service_queue \in Seq(Chans) /\ msg_queue \in Seq(Chans)
  /\ curr_consumer \in Chans \cup {None} /\ push_chan \in Chans \cup {None}
  /\ taken \in Chans \cup {None}
  /\ StackType
  /\ polling \in [Chans -> BOOLEAN] /\ pc \in [Chans -> Pcs]

\* No more frames than a channel's pool has, and no more messages.
HeldInv == \A c \in Chans : Held(c) <= FRAMES
PoolInv == Len(msg_queue) + (IF taken = None THEN 0 ELSE 1) <= MSGS

\* One context starts the encoder, for the channel it serves, ...
StartInv ==
  \A x \in Contexts, c \in Chans :
    On(x, "start", c) =>
      /\ ~On(x, "trigger", None)
      /\ curr_consumer = c /\ curr_state[c] = "STANDBY" /\ ~Queued(c)
      /\ \A y \in Contexts : On(y, "start", c) => x = y

\* ... and what is left of a picture is in one place, ...
OnceInv ==
  \A x, y \in Contexts, c \in Chans, s, t \in EndSteps :
    On(x, s, c) /\ On(y, t, c) => x = y /\ s = t

\* ... until then the channel is not asked for again.
EndInv ==
  \A x \in Contexts, c \in Chans :
    /\ On(x, "escape", c) => curr_state[c] = "RUNNING" /\ push_chan # c
    /\ On(x, "rest", c) => x = "isr" /\ curr_state[c] = "TRANSFERING"
    /\ On(x, "check", c) \/ On(x, "deliver", c) =>
         /\ curr_state[c] \notin {"STANDBY", "RUNNING", "TRANSFERING"}
         /\ Bit(x) \notin status[c]

StackInv == Injectives /\ StartInv /\ OnceInv /\ EndInv

\* The encoder.
EngineInv ==
  /\ IsInjective(service_queue)
  /\ \A c \in Chans :
       /\ Queued(c) => curr_state[c] = "STANDBY"
       /\ curr_state[c] = "STANDBY" => Queued(c) \/ (curr_consumer = c /\ Starting(c))
       /\ push_chan = c => curr_consumer = c /\ curr_state[c] = "RUNNING"
       /\ curr_state[c] = "RUNNING" => push_chan = c \/ Escaping(c)
  /\ curr_consumer # None => push_chan = curr_consumer \/ Starting(curr_consumer)

\* The calls: what they wait for and what the machine is then.
CallInv ==
  \A c \in Chans :
    /\ pending[c] = "resume" => pc[c] = "enable" /\ "resume" \notin done[c]
    /\ pending[c] = "suspend" <=> pc[c] = "suspending" /\ "suspend" \notin done[c]
    /\ pending[c] = "close" <=> pc[c] = "closing" /\ "close" \notin done[c]
    /\ pc[c] \notin {"closed", "closing"} => "close" \notin done[c]
    /\ pending[c] # "none" =>
         \/ curr_state[c] \in {"STANDBY", "RUNNING", "TRANSFERING"}
         \/ curr_state[c] = "DONE" /\ \E x \in Contexts : On(x, "check", c)
    /\ pc[c] = "suspending" /\ "suspend" \in done[c] => curr_state[c] = "SUSPEND"
    /\ pc[c] = "suspend" => "suspend" \notin done[c]
    /\ pc[c] = "flush" => curr_state[c] = "SUSPEND"
    /\ pc[c] = "enable" => curr_state[c] # "SUSPEND"
    /\ pc[c] = "closing" /\ "close" \in done[c] => curr_state[c] = "UNREGISTER"
    /\ pc[c] = "closed" => curr_state[c] = "UNREGISTER"
    /\ pc[c] \notin {"closed", "closing"} => curr_state[c] # "UNREGISTER"
    /\ curr_state[c] # "UNREGISTER" => opened_flag[c]

\* The head of the next slice, and the frame it has.
HeadInv ==
  \A c \in Chans :
    /\ curr_state[c] \in {"STANDBY", "RUNNING", "TRANSFERING", "DONE"} => status[c] = {}
    /\ "head" \in status[c] => frame_type[c] # "none"
    /\ curr_state[c] = "STANDBY" => frame_type[c] # "none"
    /\ push_chan = c => frame_type[c] # "none"
    /\ curr_state[c] = "IDLE" /\ frame_type[c] # "none" => "head" \in status[c]
    /\ curr_state[c] = "DONE" => frame_type[c] = "none"
    /\ Off(c) => frame_type[c] = "none"

\* What the reader sees, and what the next frames are.
ReaderInv ==
  \A c \in Chans :
    /\ pc[c] \in {"read", "copy"} => "consumer" \notin b_flush[c]
    /\ pc[c] = "copy" => reader[c]
    /\ "consumer" \in b_flush[c] \/ pc[c] = "closed" => frame_queue[c] = <<>>
    /\ pc[c] \in {"open", "read", "copy"} /\ curr_state[c] = "SUSPEND" => lost[c]
    /\ pc[c] = "closed" => lost[c]
    /\ lost[c] /\ frame_type[c] = "P" => "producer" \in b_flush[c] /\ force_i[c]
    /\ lost[c] /\ frame_type[c] = "none" => force_i[c] \/ gop_start[c]
    /\ frame_type[c] = "I" => gop_start[c] \/ curr_state[c] = "TRANSFERING"

IInv == /\ TypeInv /\ HeldInv /\ PoolInv /\ StackInv /\ EngineInv /\ EngineNotIdle
        /\ CallInv /\ HeadInv /\ ReaderInv

-----------------------------------------------------------------------------
(* Lemmas on queues *)

LEMMA Appended ==
  ASSUME NEW S, NEW q \in Seq(S), NEW e \in S
  PROVE  /\ Append(q, e) \in Seq(S) /\ Append(q, e) # <<>>
         /\ Len(Append(q, e)) = Len(q) + 1
         /\ \A d : Contains(Append(q, e), d) <=> Contains(q, d) \/ d = e
         /\ IsInjective(q) /\ ~Contains(q, e) => IsInjective(Append(q, e))
<1> DEFINE t == Append(q, e)
<1>1. /\ t \in Seq(S) /\ Len(t) = Len(q) + 1 /\ Len(q) \in Nat
      /\ DOMAIN q = 1 .. Len(q) /\ DOMAIN t = 1 .. Len(q) + 1
      /\ \A i \in 1 .. Len(q) : t[i] = q[i]
      /\ t[Len(q) + 1] = e
  OBVIOUS
<1>2. t # <<>>
  BY <1>1
<1> HIDE DEF t
<1>3. \A d : Contains(t, d) <=> Contains(q, d) \/ d = e
  BY <1>1 DEF Contains
<1>4. IsInjective(q) /\ ~Contains(q, e) => IsInjective(t)
  BY <1>1 DEF Contains, IsInjective
<1> QED  BY <1>1, <1>2, <1>3, <1>4 DEF t

LEMMA Popped ==
  ASSUME NEW S, NEW q \in Seq(S), q # <<>>
  PROVE  /\ Head(q) \in S /\ Head(q) = q[1] /\ Tail(q) \in Seq(S)
         /\ Len(Tail(q)) = Len(q) - 1 /\ Len(q) \in Nat \ {0}
         /\ \A d : Contains(q, d) <=> Contains(Tail(q), d) \/ d = Head(q)
         /\ IsInjective(q) => IsInjective(Tail(q)) /\ ~Contains(Tail(q), Head(q))
<1> DEFINE t == Tail(q)
           n == Len(q) - 1
<1>1. /\ t \in Seq(S) /\ Len(t) = n /\ n \in Nat
      /\ DOMAIN t = 1 .. n /\ DOMAIN q = 1 .. n + 1 /\ Len(q) = n + 1
      /\ Head(q) = q[1] /\ Head(q) \in S
      /\ \A i \in 1 .. n : t[i] = q[i + 1]
  OBVIOUS
<1> HIDE DEF t, n
<1>2. ASSUME NEW d PROVE Contains(q, d) <=> Contains(t, d) \/ d = Head(q)
  <2>1. ASSUME NEW i \in 1 .. n + 1, q[i] = d, i # 1
        PROVE  i - 1 \in 1 .. n /\ t[i - 1] = d
    BY <1>1, <2>1
  <2>2. ASSUME NEW i \in 1 .. n, t[i] = d PROVE i + 1 \in 1 .. n + 1 /\ q[i + 1] = d
    BY <1>1, <2>2
  <2> QED  BY <1>1, <2>1, <2>2 DEF Contains
<1>3. \A i \in 1 .. n : i + 1 \in 1 .. n + 1 /\ i + 1 # 1 /\ t[i] = q[i + 1]
  BY <1>1
<1>4. IsInjective(q) => IsInjective(t)
  <2> SUFFICES ASSUME IsInjective(q), NEW i \in 1 .. n, NEW j \in 1 .. n, t[i] = t[j]
               PROVE  i = j
    BY <1>1 DEF IsInjective
  <2>1. \A a, b \in 1 .. n + 1 : q[a] = q[b] => a = b
    BY <1>1 DEF IsInjective
  <2> DEFINE a == i + 1
             b == j + 1
  <2>3. a \in 1 .. n + 1 /\ b \in 1 .. n + 1 /\ q[a] = q[b]
    BY <1>3
  <2>4. a = b
    <3> HIDE DEF a, b
    <3> QED  BY <2>1, <2>3
  <2>5. i \in Nat /\ j \in Nat
    BY <1>1
  <2> QED  BY <2>4, <2>5
<1>5. IsInjective(q) => ~Contains(t, Head(q))
  <2> SUFFICES ASSUME IsInjective(q), NEW i \in 1 .. n, t[i] = q[1] PROVE FALSE
    BY <1>1 DEF Contains
  <2>1. 1 \in 1 .. n + 1
    BY <1>1
  <2>2. i + 1 = 1
    BY <1>1, <1>3, <2>1 DEF IsInjective
  <2> QED  BY <1>3, <2>2
<1> QED  BY <1>1, <1>2, <1>4, <1>5 DEF t, n

\* What is put in front of the rest of a stack.
LEMMA Pushed ==
  ASSUME NEW S, NEW t \in Seq(S), NEW q \in Seq(S)
  PROVE  /\ t \o q \in Seq(S)
         /\ \A d : Contains(t \o q, d) <=> Contains(t, d) \/ Contains(q, d)
         /\ IsInjective(t) /\ IsInjective(q) /\ (\A d : ~(Contains(t, d) /\ Contains(q, d)))
              => IsInjective(t \o q)
<1> DEFINE u == t \o q
           m == Len(t)
           n == Len(q)
<1>1. /\ u \in Seq(S) /\ m \in Nat /\ n \in Nat /\ Len(u) = m + n
      /\ DOMAIN t = 1 .. m /\ DOMAIN q = 1 .. n /\ DOMAIN u = 1 .. m + n
      /\ Len(t) = m /\ Len(q) = n
      /\ \A i \in 1 .. m : u[i] = t[i]
      /\ \A i \in 1 .. m + n : i > m => u[i] = q[i - m]
  OBVIOUS
<1> HIDE DEF u, m, n
<1>2. \A i \in 1 .. n : u[i + m] = q[i] /\ i + m \in 1 .. m + n
  BY <1>1
<1>3. \A i \in 1 .. m + n : i <= m \/ (i - m \in 1 .. n /\ u[i] = q[i - m])
  BY <1>1
<1>4. ASSUME NEW d PROVE Contains(u, d) <=> Contains(t, d) \/ Contains(q, d)
  <2>1. ASSUME NEW i \in 1 .. m + n, u[i] = d PROVE Contains(t, d) \/ Contains(q, d)
    <3>1. CASE i <= m
      <4>1. i \in 1 .. m /\ t[i] = d
        BY <1>1, <2>1, <3>1
      <4> QED  BY <1>1, <4>1 DEF Contains
    <3>2. CASE ~(i <= m)
      <4>1. i - m \in 1 .. n /\ q[i - m] = d
        BY <1>3, <2>1, <3>2
      <4> QED  BY <1>1, <4>1 DEF Contains
    <3> QED  BY <3>1, <3>2
  <2>2. ASSUME NEW i \in 1 .. m, t[i] = d PROVE i \in 1 .. m + n /\ u[i] = d
    BY <1>1, <2>2
  <2>3. ASSUME NEW i \in 1 .. n, q[i] = d PROVE i + m \in 1 .. m + n /\ u[i + m] = d
    BY <1>2, <2>3
  <2> QED  BY <1>1, <2>1, <2>2, <2>3 DEF Contains
<1>5. ASSUME IsInjective(t), IsInjective(q), \A d : ~(Contains(t, d) /\ Contains(q, d))
      PROVE  IsInjective(u)
  <2> SUFFICES ASSUME NEW i \in 1 .. m + n, NEW j \in 1 .. m + n, u[i] = u[j]
               PROVE  i = j
    BY <1>1 DEF IsInjective
  <2>1. ASSUME NEW k \in 1 .. m + n, NEW l \in 1 .. m + n, k <= m, ~(l <= m)
        PROVE  u[k] # u[l]
    <3>1. k \in 1 .. m /\ u[k] = t[k] /\ l - m \in 1 .. n /\ u[l] = q[l - m]
      BY <1>1, <1>3, <2>1
    <3> QED  BY <1>1, <1>5, <3>1 DEF Contains
  <2>2. CASE i <= m /\ j <= m
    BY <1>1, <1>5, <2>2 DEF IsInjective
  <2>3. CASE ~(i <= m) /\ ~(j <= m)
    <3>1. i - m \in 1 .. n /\ j - m \in 1 .. n /\ q[i - m] = q[j - m]
      BY <1>3, <2>3
    <3>2. i - m = j - m
      BY <1>1, <1>5, <3>1 DEF IsInjective
    <3> QED  BY <1>1, <3>2
  <2> QED  BY <2>1, <2>2, <2>3
<1>6. IsInjective(t) /\ IsInjective(q) /\ (\A d : ~(Contains(t, d) /\ Contains(q, d)))
        => IsInjective(u)
  BY <1>5
<1>7. \A d : Contains(u, d) <=> Contains(t, d) \/ Contains(q, d)
  BY <1>4
<1>8. u \in Seq(S)
  BY <1>1
<1>9. u = t \o q
  BY DEF u
<1> QED  BY <1>6, <1>7, <1>8, <1>9

LEMMA Listed ==
  /\ \A d : ~Contains(<<>>, d)
  /\ \A a, d : Contains(<<a>>, d) <=> d = a
  /\ \A a, b, d : Contains(<<a, b>>, d) <=> d = a \/ d = b
  /\ \A a, b, c, d : Contains(<<a, b, c>>, d) <=> d = a \/ d = b \/ d = c
  /\ IsInjective(<<>>) /\ \A a : IsInjective(<<a>>)
  /\ \A a, b : a # b => IsInjective(<<a, b>>)
  /\ \A a, b, c : a # b /\ b # c /\ a # c => IsInjective(<<a, b, c>>)
<1>1. \A d : ~Contains(<<>>, d)
  BY DEF Contains
<1>2. \A a, d : Contains(<<a>>, d) <=> d = a
  BY DEF Contains
<1>3. \A a, b, d : Contains(<<a, b>>, d) <=> d = a \/ d = b
  BY DEF Contains
<1>4. \A a, b, c, d : Contains(<<a, b, c>>, d) <=> d = a \/ d = b \/ d = c
  BY DEF Contains
<1>5. IsInjective(<<>>) /\ \A a : IsInjective(<<a>>)
  BY DEF IsInjective
<1>6. \A a, b : a # b => IsInjective(<<a, b>>)
  BY DEF IsInjective
<1>7. \A a, b, c : a # b /\ b # c /\ a # c => IsInjective(<<a, b, c>>)
  BY DEF IsInjective
<1> QED  BY <1>1, <1>2, <1>3, <1>4, <1>5, <1>6, <1>7

\* The first n numbers are n.
LEMMA FirstNumbers ==
  ASSUME NEW n \in Nat
  PROVE  IsFiniteSet(1 .. n) /\ Cardinality(1 .. n) = n
BY FS_Interval

\* The places that are kept can be numbered: their ranks are all numbers there are.
LEMMA Ranks ==
  ASSUME NEW n \in Nat, NEW K \in SUBSET (1 .. n)
  PROVE  /\ IsFiniteSet(K) /\ Cardinality(K) \in Nat /\ Cardinality(K) <= n
         /\ \A i \in K : Cardinality({k \in K : k < i}) \in 0 .. Cardinality(K) - 1
         /\ \A i, j \in K : Cardinality({k \in K : k < i}) = Cardinality({k \in K : k < j})
                              => i = j
         /\ \A r \in 0 .. Cardinality(K) - 1 :
              \E i \in K : Cardinality({k \in K : k < i}) = r
<1> DEFINE B(i) == {k \in K : k < i}
           R == [i \in K |-> Cardinality(B(i))]
<1>1. IsFiniteSet(1 .. n) /\ Cardinality(1 .. n) = n
  BY FirstNumbers
<1>2. IsFiniteSet(K) /\ Cardinality(K) \in Nat /\ Cardinality(K) <= n
  BY <1>1, FS_Subset, FS_CardinalityType
<1>3. \A i : IsFiniteSet(B(i)) /\ Cardinality(B(i)) \in Nat
  BY <1>2, FS_Subset, FS_CardinalityType
<1>4. ASSUME NEW i \in K, NEW S \in SUBSET K, B(i) \cup {i} \subseteq S
      PROVE  Cardinality(B(i)) + 1 <= Cardinality(S)
  <2>1. i \notin B(i)
    OBVIOUS
  <2>2. Cardinality(B(i) \cup {i}) = Cardinality(B(i)) + 1
    BY <1>3, <2>1, FS_AddElement
  <2>3. IsFiniteSet(S)
    BY <1>2, FS_Subset
  <2>4. Cardinality(B(i) \cup {i}) <= Cardinality(S)
    BY <1>4, <2>3, FS_Subset
  <2> QED  BY <2>2, <2>4
<1>5. \A i \in K : Cardinality(B(i)) \in 0 .. Cardinality(K) - 1
  <2> TAKE i \in K
  <2>1. B(i) \cup {i} \subseteq K
    OBVIOUS
  <2>2. Cardinality(B(i)) + 1 <= Cardinality(K)
    BY <1>4, <2>1
  <2> QED  BY <1>2, <1>3, <2>2
<1>6. ASSUME NEW i \in K, NEW j \in K, i < j PROVE Cardinality(B(i)) < Cardinality(B(j))
  <2>1. B(i) \cup {i} \subseteq B(j) /\ B(j) \subseteq K
    <3>1. \A k \in K : k < i => k < j
      <4> TAKE k \in K
      <4>1. k \in Nat /\ i \in Nat /\ j \in Nat
        OBVIOUS
      <4> QED  BY <1>6, <4>1
    <3> QED  BY <1>6, <3>1
  <2>2. Cardinality(B(i)) + 1 <= Cardinality(B(j))
    BY <1>4, <2>1
  <2> QED  BY <1>3, <2>2
<1>7. \A i, j \in K : Cardinality(B(i)) = Cardinality(B(j)) => i = j
  <2> SUFFICES ASSUME NEW i \in K, NEW j \in K, Cardinality(B(i)) = Cardinality(B(j))
               PROVE  i = j
    OBVIOUS
  <2>1. i \in Nat /\ j \in Nat
    OBVIOUS
  <2>2. i < j \/ j < i \/ i = j
    BY <2>1
  <2> QED  BY <1>3, <1>6, <2>2
<1>8. \A r \in 0 .. Cardinality(K) - 1 : \E i \in K : Cardinality(B(i)) = r
  <2> DEFINE T == 0 .. Cardinality(K) - 1
  <2>1. R \in [K -> T]
    BY <1>5
  <2>2. R \in Injection(K, T)
    BY <1>7, <2>1 DEF Injection, IsInjective
  <2>3. IsFiniteSet(T) /\ Cardinality(T) = Cardinality(K)
    <3>1. 0 \in Int /\ Cardinality(K) - 1 \in Int
      BY <1>2
    <3>2. /\ IsFiniteSet(T)
          /\ Cardinality(T) = IF 0 > Cardinality(K) - 1 THEN 0 ELSE Cardinality(K) - 1 - 0 + 1
      BY <3>1, FS_Interval
    <3> QED  BY <1>2, <3>2
  <2>4. R \in Surjection(K, T)
    BY <2>2, <2>3, FS_Injection
  <2> QED  BY <2>4 DEF Surjection
<1> QED  BY <1>2, <1>5, <1>7, <1>8

LEMMA Withdrawn ==
  ASSUME NEW S, NEW q \in Seq(S), NEW e
  PROVE  /\ Without(q, e) \in Seq(S) /\ Len(Without(q, e)) <= Len(q)
         /\ Len(Without(q, e)) \in Nat
         /\ \A d : Contains(Without(q, e), d) <=> Contains(q, d) /\ d # e
         /\ Without(q, e) # <<>> => q # <<>>
         /\ IsInjective(q) => IsInjective(Without(q, e))
<1> DEFINE n == Len(q)
           K == {i \in 1 .. n : q[i] # e}
           m == Cardinality(K)
           B(i) == Cardinality({k \in K : k < i})
           At(j) == CHOOSE i \in K : B(i) = j - 1
           t == [j \in 1 .. m |-> q[At(j)]]
<1>1. n \in Nat /\ DOMAIN q = 1 .. n /\ Len(q) = n /\ \A i \in 1 .. n : q[i] \in S
  OBVIOUS
<1>2. Without(q, e) = t
  BY <1>1 DEF Without
<1>3. /\ m \in Nat /\ m <= n
      /\ \A i \in K : B(i) \in 0 .. m - 1
      /\ \A i, j \in K : B(i) = B(j) => i = j
      /\ \A r \in 0 .. m - 1 : \E i \in K : B(i) = r
  <2>1. K \in SUBSET (1 .. n)
    OBVIOUS
  <2> HIDE DEF K
  <2> QED  BY <1>1, <2>1, Ranks
<1>4. \A i \in 1 .. n : i \in K <=> q[i] # e
  OBVIOUS
<1>5. K \subseteq 1 .. n
  OBVIOUS
<1> HIDE DEF n, K, m, B
<1>6. \A j \in 1 .. m : At(j) \in K /\ B(At(j)) = j - 1
  <2> TAKE j \in 1 .. m
  <2>1. j - 1 \in 0 .. m - 1
    BY <1>3
  <2>2. \E i \in K : B(i) = j - 1
    BY <1>3, <2>1
  <2> QED  BY <2>2
<1>7. \A i \in K : B(i) + 1 \in 1 .. m /\ At(B(i) + 1) = i
  <2> TAKE i \in K
  <2>1. B(i) + 1 \in 1 .. m /\ (B(i) + 1) - 1 = B(i)
    BY <1>3
  <2>2. At(B(i) + 1) \in K /\ B(At(B(i) + 1)) = B(i)
    BY <1>6, <2>1
  <2> QED  BY <1>3, <2>1, <2>2
<1> HIDE DEF At
<1>8. t \in Seq(S) /\ Len(t) = m /\ DOMAIN t = 1 .. m
  <2>1. \A j \in 1 .. m : q[At(j)] \in S
    BY <1>1, <1>5, <1>6
  <2>2. t \in [1 .. m -> S]
    BY <2>1
  <2> QED  BY <1>3, <2>2
<1>9. \A d : Contains(t, d) <=> Contains(q, d) /\ d # e
  <2> TAKE d
  <2>1. ASSUME NEW j \in 1 .. m, t[j] = d PROVE Contains(q, d) /\ d # e
    <3>1. At(j) \in K /\ At(j) \in 1 .. n /\ q[At(j)] = d
      BY <1>5, <1>6, <2>1
    <3> QED  BY <1>1, <1>4, <3>1 DEF Contains
  <2>2. ASSUME NEW i \in 1 .. n, q[i] = d, d # e PROVE Contains(t, d)
    <3>1. i \in K
      BY <1>4, <2>2
    <3>2. B(i) + 1 \in 1 .. m /\ t[B(i) + 1] = d
      BY <1>7, <2>2, <3>1
    <3> QED  BY <1>8, <3>2 DEF Contains
  <2>3. Contains(t, d) <=> \E j \in 1 .. m : t[j] = d
    BY <1>8 DEF Contains
  <2>4. Contains(q, d) <=> \E i \in 1 .. n : q[i] = d
    BY <1>1 DEF Contains
  <2> HIDE DEF t
  <2> QED  BY <2>1, <2>2, <2>3, <2>4
<1>10. IsInjective(q) => IsInjective(t)
  <2> SUFFICES ASSUME IsInjective(q), NEW i \in 1 .. m, NEW j \in 1 .. m, t[i] = t[j]
               PROVE  i = j
    BY <1>8 DEF IsInjective
  <2>1. At(i) \in 1 .. n /\ At(j) \in 1 .. n /\ q[At(i)] = q[At(j)]
    BY <1>5, <1>6
  <2>2. At(i) = At(j)
    BY <1>1, <2>1 DEF IsInjective
  <2>3. B(At(i)) = i - 1 /\ B(At(j)) = j - 1
    BY <1>6
  <2>4. i - 1 = j - 1
    BY <2>2, <2>3
  <2> QED  BY <1>3, <2>4
<1>11. Len(t) <= n /\ Len(t) \in Nat
  BY <1>3, <1>8
<1>12. t # <<>> => q # <<>>
  <2> SUFFICES ASSUME q = <<>> PROVE t = <<>>
    OBVIOUS
  <2>1. m = 0
    BY <1>1, <1>3
  <2> QED  BY <1>8, <2>1
<1> HIDE DEF t
<1> QED  BY <1>1, <1>2, <1>8, <1>9, <1>10, <1>11, <1>12

-----------------------------------------------------------------------------
(* Lemmas on the stacks *)

LEMMA Replaced ==
  ASSUME StackType, Distinct, NEW x \in Contexts, NEW t \in Seq(Entries),
         IsInjective(t), NEW q \in Seq(Entries), IsInjective(q),
         \A d : ~(Contains(t, d) /\ Contains(q, d)),
         stack' = [stack EXCEPT ![x] = t \o q]
  PROVE  /\ StackType' /\ Distinct'
         /\ \A y \in Contexts : \A s, d :
              On(y, s, d)' <=> IF y = x THEN Contains(t, <<s, d>>) \/ Contains(q, <<s, d>>)
                               ELSE On(y, s, d)
<1>1. /\ t \o q \in Seq(Entries)
      /\ \A d : Contains(t \o q, d) <=> Contains(t, d) \/ Contains(q, d)
      /\ IsInjective(t \o q)
  BY Pushed
<1> DEFINE u == t \o q
<1> HIDE DEF u
<1>2. u \in Seq(Entries) /\ IsInjective(u)
      /\ \A d : Contains(u, d) <=> Contains(t, d) \/ Contains(q, d)
  BY <1>1 DEF u
<1>3. stack' = [stack EXCEPT ![x] = u]
  BY DEF u
<1>4. \A y \in Contexts : stack'[y] = IF y = x THEN u ELSE stack[y]
  BY <1>3 DEF StackType
<1>5. StackType'
  BY <1>2, <1>3 DEF StackType
<1>6. Distinct'
  BY <1>2, <1>4 DEF Distinct
<1>7. ASSUME NEW y \in Contexts, NEW s, NEW d
      PROVE  On(y, s, d)' <=> IF y = x THEN Contains(t, <<s, d>>) \/ Contains(q, <<s, d>>)
                               ELSE On(y, s, d)
  BY <1>2, <1>4 DEF On
<1> QED  BY <1>5, <1>6, <1>7

\* The step on top is done, and t comes in its place.
LEMMA Returned ==
  ASSUME StackType, Injectives, NEW x \in Contexts, NEW r, NEW e, stack[x] # <<>>,
         stack[x][1] = <<r, e>>, NEW t \in Seq(Entries), IsInjective(t),
         \A s, d : ~(Contains(t, <<s, d>>) /\ On(x, s, d)),
         \A h \in Hooks : \A d : ~Contains(t, <<h, d>>), Return(x, t)
  PROVE  /\ StackType' /\ Injectives' /\ On(x, r, e)
         /\ \A y \in Contexts : \A s, d :
              On(y, s, d)' <=> \/ On(y, s, d) /\ ~(y = x /\ s = r /\ d = e)
                               \/ y = x /\ Contains(t, <<s, d>>)
<1> DEFINE q == stack[x]
<1>1. q \in Seq(Entries) /\ q # <<>> /\ IsInjective(q) /\ q[1] = <<r, e>>
  BY DEF StackType, Injectives, Distinct
<1>2. stack' = [stack EXCEPT ![x] = t \o Tail(q)]
  BY DEF Return
<1>3. \A s, d : On(x, s, d) <=> Contains(q, <<s, d>>)
  BY DEF On
<1> HIDE DEF q
<1>4. /\ Tail(q) \in Seq(Entries) /\ IsInjective(Tail(q))
      /\ \A d : Contains(q, d) <=> Contains(Tail(q), d) \/ d = <<r, e>>
      /\ ~Contains(Tail(q), <<r, e>>) /\ Head(q) = <<r, e>>
  BY <1>1, Popped
<1> DEFINE w == Tail(q)
<1>5. /\ w \in Seq(Entries) /\ IsInjective(w)
      /\ \A s, d : On(x, s, d) <=> Contains(w, <<s, d>>) \/ (s = r /\ d = e)
      /\ ~Contains(w, <<r, e>>)
  BY <1>3, <1>4
<1>6. stack' = [stack EXCEPT ![x] = t \o w]
  BY <1>2
<1> HIDE DEF w
<1>7. ASSUME NEW d PROVE ~(Contains(t, d) /\ Contains(w, d))
  <2>1. CASE \E p \in Entries : p = d
    <3>1. PICK s \in Steps, b \in Chans \cup {None} : d = <<s, b>>
      BY <2>1 DEF Entries
    <3> QED  BY <1>5, <3>1
  <2>2. CASE ~ \E p \in Entries : p = d
    BY <2>2 DEF Contains
  <2> QED  BY <2>1, <2>2
<1>8. /\ StackType' /\ Distinct'
      /\ \A y \in Contexts : \A s, d :
           On(y, s, d)' <=> IF y = x THEN Contains(t, <<s, d>>) \/ Contains(w, <<s, d>>)
                            ELSE On(y, s, d)
  BY <1>5, <1>6, <1>7, Replaced DEF Injectives
<1>9. ASSUME NEW y \in Contexts, NEW s, NEW d
      PROVE  On(y, s, d)' <=> \/ On(y, s, d) /\ ~(y = x /\ s = r /\ d = e)
                              \/ y = x /\ Contains(t, <<s, d>>)
  BY <1>5, <1>8
<1>10. Alone'
  <2> SUFFICES ASSUME NEW y \in Contexts, NEW h \in Hooks, NEW d, On(y, h, d)'
               PROVE  stack'[y] = <<<<h, d>>>>
    BY DEF Alone
  <2>1. On(y, h, d) /\ ~(y = x /\ h = r /\ d = e)
    BY <1>9
  <2>2. stack[y] = <<<<h, d>>>>
    BY <2>1 DEF Injectives, Alone
  <2>3. y # x
    BY <2>1, <2>2
  <2> QED  BY <1>2, <2>2, <2>3 DEF StackType
<1> QED  BY <1>5, <1>8, <1>9, <1>10 DEF Injectives

\* A context that is idle starts with t.
LEMMA Entered ==
  ASSUME StackType, Injectives, NEW x \in Contexts, NEW t \in Seq(Entries),
         IsInjective(t), \A h \in Hooks : \A d : ~Contains(t, <<h, d>>), Enter(x, t)
  PROVE  /\ StackType' /\ Injectives' /\ (\A s, d : ~On(x, s, d))
         /\ \A y \in Contexts : \A s, d :
              On(y, s, d)' <=> On(y, s, d) \/ (y = x /\ Contains(t, <<s, d>>))
<1>1. stack[x] = <<>> /\ stack' = [stack EXCEPT ![x] = t]
  BY DEF Enter
<1>2. t = t \o <<>> /\ <<>> \in Seq(Entries)
  OBVIOUS
<1>3. stack' = [stack EXCEPT ![x] = t \o <<>>]
  BY <1>1, <1>2
<1> DEFINE q == <<>>
<1>4. q \in Seq(Entries) /\ IsInjective(q) /\ (\A d : ~Contains(q, d))
      /\ stack' = [stack EXCEPT ![x] = t \o q] /\ stack[x] = q
  BY <1>1, <1>2, <1>3, Listed
<1> HIDE DEF q
<1>5. /\ StackType' /\ Distinct'
      /\ \A y \in Contexts : \A s, d :
           On(y, s, d)' <=> IF y = x THEN Contains(t, <<s, d>>) \/ Contains(q, <<s, d>>)
                            ELSE On(y, s, d)
  BY <1>4, Replaced DEF Injectives
<1>6. \A s, d : ~On(x, s, d)
  BY <1>4 DEF On
<1>7. \A y \in Contexts : \A s, d :
        On(y, s, d)' <=> On(y, s, d) \/ (y = x /\ Contains(t, <<s, d>>))
  BY <1>4, <1>5, <1>6
<1>8. Alone'
  <2> SUFFICES ASSUME NEW y \in Contexts, NEW h \in Hooks, NEW d, On(y, h, d)'
               PROVE  stack'[y] = <<<<h, d>>>>
    BY DEF Alone
  <2>1. On(y, h, d) /\ y # x
    BY <1>6, <1>7
  <2> QED  BY <1>4, <2>1 DEF Injectives, Alone, StackType
<1> QED  BY <1>5, <1>6, <1>7, <1>8 DEF Injectives

\* A context whose hook is all it has to do, or that is idle, is left with the hook h.
LEMMA Hooked ==
  ASSUME StackType, Injectives, NEW x \in Contexts, NEW h \in Hooks, NEW c \in Chans,
         stack' = [stack EXCEPT ![x] = <<<<h, c>>>>]
  PROVE  /\ StackType' /\ Injectives'
         /\ \A y \in Contexts : \A s, d :
              On(y, s, d)' <=> IF y = x THEN s = h /\ d = c ELSE On(y, s, d)
<1> DEFINE p == <<h, c>>
           t == <<p>>
<1>1. p \in Entries /\ \A s, d : <<s, d>> = p <=> s = h /\ d = c
  BY DEF Entries, Steps
<1>2. stack' = [stack EXCEPT ![x] = t]
  OBVIOUS
<1> HIDE DEF p
<1>3. t \in Seq(Entries) /\ IsInjective(t) /\ \A d : Contains(t, d) <=> d = p
  BY <1>1, Listed
<1>4. t = <<p>>
  OBVIOUS
<1> HIDE DEF t
<1>5. StackType' /\ \A y \in Contexts : stack'[y] = IF y = x THEN t ELSE stack[y]
  BY <1>2, <1>3 DEF StackType
<1>6. ASSUME NEW y \in Contexts, NEW s, NEW d
      PROVE  On(y, s, d)' <=> IF y = x THEN s = h /\ d = c ELSE On(y, s, d)
  BY <1>1, <1>3, <1>5 DEF On
<1>7. Distinct'
  BY <1>3, <1>5 DEF Injectives, Distinct
<1>8. Alone'
  <2> SUFFICES ASSUME NEW y \in Contexts, NEW g \in Hooks, NEW d, On(y, g, d)'
               PROVE  stack'[y] = <<<<g, d>>>>
    BY DEF Alone
  <2>1. CASE y = x
    BY <1>4, <1>5, <1>6, <2>1 DEF p
  <2>2. CASE y # x
    BY <1>5, <1>6, <2>2 DEF Injectives, Alone
  <2> QED  BY <2>1, <2>2
<1> QED  BY <1>5, <1>6, <1>7, <1>8 DEF Injectives

\* The step on top is done, and nothing comes in its place.
LEMMA Finished ==
  ASSUME StackType, Injectives, NEW x \in Contexts, NEW r, NEW e, stack[x] # <<>>,
         stack[x][1] = <<r, e>>, Return(x, <<>>)
  PROVE  /\ StackType' /\ Injectives' /\ On(x, r, e)
         /\ \A y \in Contexts : \A s, d :
              On(y, s, d)' <=> On(y, s, d) /\ ~(y = x /\ s = r /\ d = e)
<1> DEFINE t == <<>>
<1>1. t \in Seq(Entries) /\ IsInjective(t) /\ (\A s, d : ~Contains(t, <<s, d>>))
      /\ Return(x, t)
  BY Listed
<1> HIDE DEF t
<1>2. /\ StackType' /\ Injectives' /\ On(x, r, e)
      /\ \A y \in Contexts : \A s, d :
           On(y, s, d)' <=> \/ On(y, s, d) /\ ~(y = x /\ s = r /\ d = e)
                            \/ y = x /\ Contains(t, <<s, d>>)
  BY <1>1, Returned
<1> QED  BY <1>1, <1>2

\* The step on top is done, and the step r2 of e2 comes in its place.
LEMMA Followed ==
  ASSUME StackType, Injectives, NEW x \in Contexts, NEW r, NEW e, stack[x] # <<>>,
         stack[x][1] = <<r, e>>, NEW r2 \in Steps \ Hooks, NEW e2 \in Chans \cup {None},
         ~On(x, r2, e2), Return(x, <<<<r2, e2>>>>)
  PROVE  /\ StackType' /\ Injectives' /\ On(x, r, e)
         /\ \A y \in Contexts : \A s, d :
              On(y, s, d)' <=> \/ On(y, s, d) /\ ~(y = x /\ s = r /\ d = e)
                               \/ y = x /\ s = r2 /\ d = e2
<1> DEFINE p == <<r2, e2>>
           t == <<p>>
           In(s, d) == Contains(t, <<s, d>>)
<1>1. p \in Entries /\ \A s, d : <<s, d>> = p <=> s = r2 /\ d = e2
  BY DEF Entries
<1>2. Return(x, t)
  OBVIOUS
<1> HIDE DEF p
<1>3. t \in Seq(Entries) /\ IsInjective(t) /\ \A d : Contains(t, d) <=> d = p
  BY <1>1, Listed
<1> HIDE DEF t
<1>4. \A s, d : In(s, d) <=> s = r2 /\ d = e2
  BY <1>1, <1>3
<1>5. /\ StackType' /\ Injectives' /\ On(x, r, e)
      /\ \A y \in Contexts : \A s, d :
           On(y, s, d)' <=> \/ On(y, s, d) /\ ~(y = x /\ s = r /\ d = e)
                            \/ y = x /\ In(s, d)
  BY <1>2, <1>3, <1>4, Returned
<1> HIDE DEF In
<1> QED  BY <1>4, <1>5

\* What start_encode leaves when it has no frame.
LEMMA Released ==
  ASSUME StackType, Injectives, NEW x \in Contexts, NEW r, NEW e, stack[x] # <<>>,
         stack[x][1] = <<r, e>>, NEW c \in Chans, ~On(x, "trigger", None),
         ~On(x, "escape", c), Return(x, <<Trigger, <<"escape", c>>>>)
  PROVE  /\ StackType' /\ Injectives' /\ On(x, r, e)
         /\ \A y \in Contexts : \A s, d :
              On(y, s, d)' <=> \/ On(y, s, d) /\ ~(y = x /\ s = r /\ d = e)
                               \/ y = x /\ s = "trigger" /\ d = None
                               \/ y = x /\ s = "escape" /\ d = c
<1> DEFINE p == Trigger
           w == <<"escape", c>>
           t == <<p, w>>
           In(s, d) == Contains(t, <<s, d>>)
<1>1. /\ p \in Entries /\ w \in Entries /\ p # w
      /\ \A s, d : <<s, d>> = p <=> s = "trigger" /\ d = None
      /\ \A s, d : <<s, d>> = w <=> s = "escape" /\ d = c
  BY DEF Entries, Trigger, Steps
<1>2. Return(x, t)
  OBVIOUS
<1> HIDE DEF p, w
<1>3. t \in Seq(Entries) /\ IsInjective(t) /\ \A d : Contains(t, d) <=> d = p \/ d = w
  BY <1>1, Listed
<1> HIDE DEF t
<1>4. \A s, d : In(s, d) <=> (s = "trigger" /\ d = None) \/ (s = "escape" /\ d = c)
  BY <1>1, <1>3
<1>5. \A s, d : ~(In(s, d) /\ On(x, s, d))
  <2> HIDE DEF In
  <2> QED  BY <1>4
<1>6. /\ StackType' /\ Injectives' /\ On(x, r, e)
      /\ \A y \in Contexts : \A s, d :
           On(y, s, d)' <=> \/ On(y, s, d) /\ ~(y = x /\ s = r /\ d = e)
                            \/ y = x /\ In(s, d)
  BY <1>2, <1>3, <1>4, <1>5, Returned DEF Hooks, Timers
<1> HIDE DEF In
<1> QED  BY <1>4, <1>6

\* What a context has to do when a channel has both bits.
LEMMA Requested ==
  ASSUME StackType, Injectives, NEW x \in Contexts, NEW c \in Chans,
         Enter(x, <<Trigger, <<"unlock", c>>>>)
  PROVE  /\ StackType' /\ Injectives' /\ (\A s, d : ~On(x, s, d))
         /\ \A y \in Contexts : \A s, d :
              On(y, s, d)' <=> \/ On(y, s, d)
                               \/ y = x /\ s = "trigger" /\ d = None
                               \/ y = x /\ s = "unlock" /\ d = c
<1> DEFINE p == Trigger
           w == <<"unlock", c>>
           t == <<p, w>>
           In(s, d) == Contains(t, <<s, d>>)
<1>1. /\ p \in Entries /\ w \in Entries /\ p # w
      /\ \A s, d : <<s, d>> = p <=> s = "trigger" /\ d = None
      /\ \A s, d : <<s, d>> = w <=> s = "unlock" /\ d = c
  BY DEF Entries, Trigger, Steps
<1>2. Enter(x, t)
  OBVIOUS
<1> HIDE DEF p, w
<1>3. t \in Seq(Entries) /\ IsInjective(t) /\ \A d : Contains(t, d) <=> d = p \/ d = w
  BY <1>1, Listed
<1> HIDE DEF t
<1>4. \A s, d : In(s, d) <=> (s = "trigger" /\ d = None) \/ (s = "unlock" /\ d = c)
  BY <1>1, <1>3
<1>5. /\ StackType' /\ Injectives' /\ (\A s, d : ~On(x, s, d))
      /\ \A y \in Contexts : \A s, d :
           On(y, s, d)' <=> On(y, s, d) \/ (y = x /\ In(s, d))
  BY <1>2, <1>3, <1>4, Entered DEF Hooks, Timers
<1> HIDE DEF In
<1> QED  BY <1>4, <1>5

\* What the interrupt at the end of a picture has to do.
LEMMA Notified ==
  ASSUME StackType, Injectives, NEW c \in Chans,
         Enter("isr", <<Trigger, <<"rest", c>>, <<"unlock", c>>>>)
  PROVE  /\ StackType' /\ Injectives' /\ (\A s, d : ~On("isr", s, d))
         /\ \A y \in Contexts : \A s, d :
              On(y, s, d)' <=> \/ On(y, s, d)
                               \/ y = "isr" /\ s = "trigger" /\ d = None
                               \/ y = "isr" /\ s = "rest" /\ d = c
                               \/ y = "isr" /\ s = "unlock" /\ d = c
<1> DEFINE p == Trigger
           v == <<"rest", c>>
           w == <<"unlock", c>>
           t == <<p, v, w>>
           In(s, d) == Contains(t, <<s, d>>)
<1>1. /\ p \in Entries /\ v \in Entries /\ w \in Entries /\ p # w /\ p # v /\ v # w
      /\ \A s, d : <<s, d>> = p <=> s = "trigger" /\ d = None
      /\ \A s, d : <<s, d>> = v <=> s = "rest" /\ d = c
      /\ \A s, d : <<s, d>> = w <=> s = "unlock" /\ d = c
  BY DEF Entries, Trigger, Steps
<1>2. Enter("isr", t) /\ "isr" \in Contexts
  BY DEF Contexts
<1> HIDE DEF p, v, w
<1>3. t \in Seq(Entries) /\ IsInjective(t)
      /\ \A d : Contains(t, d) <=> d = p \/ d = v \/ d = w
  BY <1>1, Listed
<1> HIDE DEF t
<1>4. \A s, d : In(s, d) <=> \/ s = "trigger" /\ d = None
                             \/ s = "rest" /\ d = c
                             \/ s = "unlock" /\ d = c
  BY <1>1, <1>3
<1>5. /\ StackType' /\ Injectives' /\ (\A s, d : ~On("isr", s, d))
      /\ \A y \in Contexts : \A s, d :
           On(y, s, d)' <=> On(y, s, d) \/ (y = "isr" /\ In(s, d))
  BY <1>2, <1>3, <1>4, Entered DEF Hooks, Timers
<1> HIDE DEF In
<1> QED  BY <1>4, <1>5

-----------------------------------------------------------------------------
(* The invariant *)

\* What a step does not touch.
LEMMA Kept ==
  /\ stack' = stack =>
       /\ \A y \in Contexts : \A s, d : On(y, s, d)' <=> On(y, s, d)
       /\ (StackType' <=> StackType) /\ (Injectives' <=> Injectives)
  /\ service_queue' = service_queue =>
       /\ \A d : Queued(d)' <=> Queued(d)
       /\ IsInjective(service_queue)' <=> IsInjective(service_queue)
BY DEF On, Queued, StackType, Injectives, Distinct, Alone

LEMMA Untouched ==
  /\ UNCHANGED <<frame_type, frame_queue, reader>> /\ HeldInv => HeldInv'
  /\ UNCHANGED <<msg_queue, taken>> /\ PoolInv => PoolInv'
  /\ UNCHANGED <<stack, curr_consumer, curr_state, service_queue>> /\ StartInv
       => StartInv'
  /\ UNCHANGED stack /\ OnceInv => OnceInv'
  /\ UNCHANGED <<stack, curr_state, push_chan, status>> /\ EndInv => EndInv'
  /\ UNCHANGED <<stack, curr_state, curr_consumer, push_chan, service_queue>> /\ EngineInv
       => EngineInv'
  /\ UNCHANGED <<stack, curr_consumer, service_queue>> /\ EngineNotIdle => EngineNotIdle'
  /\ UNCHANGED <<pending, pc, done, curr_state, opened_flag, stack>> /\ CallInv
       => CallInv'
  /\ UNCHANGED <<curr_state, status, frame_type, push_chan, pc>> /\ HeadInv => HeadInv'
  /\ UNCHANGED <<pc, b_flush, reader, frame_queue, lost, frame_type, force_i, gop_start,
                 curr_state>> /\ ReaderInv => ReaderInv'
<1>1. /\ UNCHANGED <<frame_type, frame_queue, reader>> /\ HeldInv => HeldInv'
      /\ UNCHANGED <<msg_queue, taken>> /\ PoolInv => PoolInv'
  BY DEF HeldInv, Held, PoolInv
<1>2. UNCHANGED <<stack, curr_consumer, curr_state, service_queue>> /\ StartInv
        => StartInv'
  BY Kept DEF StartInv
<1>3. UNCHANGED stack /\ OnceInv => OnceInv'
  BY Kept DEF OnceInv
<1>4. UNCHANGED <<stack, curr_state, push_chan, status>> /\ EndInv => EndInv'
  BY Kept DEF EndInv, Bit
<1>5. UNCHANGED <<stack, curr_state, curr_consumer, push_chan, service_queue>> /\ EngineInv
        => EngineInv'
  BY Kept DEF EngineInv, Starting, Escaping
<1>6. UNCHANGED <<stack, curr_consumer, service_queue>> /\ EngineNotIdle => EngineNotIdle'
  BY DEF EngineNotIdle
<1>7. UNCHANGED <<pending, pc, done, curr_state, opened_flag, stack>> /\ CallInv
        => CallInv'
  BY Kept DEF CallInv
<1>8. UNCHANGED <<curr_state, status, frame_type, push_chan, pc>> /\ HeadInv => HeadInv'
  BY DEF HeadInv, Off
<1>9. UNCHANGED <<pc, b_flush, reader, frame_queue, lost, frame_type, force_i, gop_start,
                  curr_state>> /\ ReaderInv => ReaderInv'
  BY DEF ReaderInv
<1> QED  BY <1>1, <1>2, <1>3, <1>4, <1>5, <1>6, <1>7, <1>8, <1>9

LEMMA Parts ==
  IInv <=> /\ TypeInv /\ HeldInv /\ PoolInv /\ Injectives /\ StartInv /\ OnceInv /\ EndInv
           /\ EngineInv /\ EngineNotIdle /\ CallInv /\ HeadInv /\ ReaderInv
BY DEF IInv, StackInv

\* No event is pending before or after the call it comes from.
LEMMA CallOf ==
  ASSUME TypeInv, CallInv, NEW c \in Chans, pc[c] \notin {"enable", "suspending", "closing"}
  PROVE  pending[c] = "none"
BY DEF TypeInv, CallInv

LEMMA OnTop ==
  ASSUME StackType, NEW x \in Contexts, NEW r, NEW e, stack[x] # <<>>,
         stack[x][1] = <<r, e>>
  PROVE  On(x, r, e)
<1>1. stack[x] \in Seq(Entries) /\ 1 \in DOMAIN stack[x]
  BY DEF StackType
<1> QED  BY <1>1 DEF On, Contains

\* Frames that go away leave no more of them.
LEMMA HeldLess ==
  ASSUME TypeInv, HeldInv, NEW c \in Chans, UNCHANGED <<frame_queue, reader>>,
         frame_type'[c] \in {"none", frame_type[c]},
         \A d \in Chans : d # c => frame_type'[d] = frame_type[d]
  PROVE  HeldInv'
<1> SUFFICES ASSUME NEW d \in Chans PROVE Held(d)' <= FRAMES
  BY DEF HeldInv
<1> DEFINE n == Len(frame_queue[d])
           r == IF reader[d] THEN 1 ELSE 0
           f == IF frame_type[d] = "none" THEN 0 ELSE 1
           g == IF frame_type'[d] = "none" THEN 0 ELSE 1
<1>1. n \in Nat /\ r \in Nat /\ f \in {0, 1} /\ g \in {0, 1} /\ FRAMES \in Nat
  BY EncChanAssumption DEF TypeInv
<1>2. g <= f
  OBVIOUS
<1>3. f + n + r <= FRAMES
  BY DEF HeldInv, Held
<1>4. Held(d)' = g + n + r
  BY DEF Held
<1> HIDE DEF n, r, f, g
<1> QED  BY <1>1, <1>2, <1>3, <1>4

LEMMA HeldFewer ==
  ASSUME TypeInv, HeldInv, NEW c \in Chans, frame_type' = frame_type,
         frame_queue'[c] \in {<<>>, frame_queue[c]}, reader'[c] => reader[c],
         \A d \in Chans : d # c => /\ frame_queue'[d] = frame_queue[d]
                                   /\ reader'[d] = reader[d]
  PROVE  HeldInv'
<1> SUFFICES ASSUME NEW d \in Chans PROVE Held(d)' <= FRAMES
  BY DEF HeldInv
<1>1. CASE d # c
  BY <1>1 DEF HeldInv, Held
<1>2. CASE d = c
  <2> DEFINE f == IF frame_type[c] = "none" THEN 0 ELSE 1
             n == Len(frame_queue[c])
             m == Len(frame_queue'[c])
             r == IF reader[c] THEN 1 ELSE 0
             q == IF reader'[c] THEN 1 ELSE 0
  <2>1. n \in Nat /\ m \in {0, n} /\ f \in Nat /\ r \in Nat /\ q \in {0, r} /\ FRAMES \in Nat
    BY EncChanAssumption DEF TypeInv
  <2>2. f + n + r <= FRAMES
    BY DEF HeldInv, Held
  <2>3. Held(c)' = f + m + q
    BY DEF Held
  <2> HIDE DEF f, n, m, r, q
  <2> QED  BY <1>2, <2>1, <2>2, <2>3
<1> QED  BY <1>1, <1>2

\* Messages and their timers: the machines, the encoder and the frames stay as they are,
\* and what a hook leaves on a stack concerns none of them.
LEMMA MsgStep ==
  ASSUME IInv, StackType', Injectives', PoolInv', msg_queue' \in Seq(Chans),
         taken' \in Chans \cup {None}, timers' \in [Chans -> SUBSET Timers],
         timer_id' \in [Chans -> SUBSET Timers],
         \A y \in Contexts, s \in EndSteps \cup {"start", "trigger"} : \A d :
           On(y, s, d)' <=> On(y, s, d),
         UNCHANGED <<fsmVars, status, frameVars, readVars, engineVars, userVars>>
  PROVE  IInv'
<1>1. /\ TypeInv /\ HeldInv /\ PoolInv /\ Injectives /\ StartInv /\ OnceInv /\ EndInv
      /\ EngineInv /\ EngineNotIdle /\ CallInv /\ HeadInv /\ ReaderInv
  BY Parts
<1>2. HeldInv' /\ HeadInv' /\ ReaderInv'
  BY <1>1, Untouched DEF fsmVars, frameVars, readVars, engineVars, userVars
<1>3. TypeInv'
  BY <1>1 DEF TypeInv, fsmVars, frameVars, readVars, engineVars, userVars
<1>4. (\A d : Queued(d)' <=> Queued(d)) /\ IsInjective(service_queue)'
  BY <1>1, Kept DEF engineVars, EngineInv
<1>5. StartInv'
  BY <1>1, <1>4 DEF StartInv, fsmVars, engineVars
<1>6. OnceInv' /\ EndInv'
  BY <1>1 DEF OnceInv, EndInv, EndSteps, Bit, fsmVars, engineVars
<1>7. EngineInv'
  BY <1>1, <1>4 DEF EngineInv, Starting, Escaping, EndSteps, fsmVars, engineVars
<1>8. EngineNotIdle'
  BY <1>1 DEF EngineNotIdle, On, Trigger, engineVars
<1>9. CallInv'
  BY <1>1 DEF CallInv, EndSteps, fsmVars, userVars
<1> QED  BY <1>2, <1>3, <1>5, <1>6, <1>7, <1>8, <1>9 DEF IInv, StackInv

LEMMA MsgTimerStep ==
  ASSUME IInv, NEW c \in Chans, NEW t \in Timers, MsgTimer(c, t)
  PROVE  IInv'
<1>1. TypeInv /\ StackType /\ Injectives /\ PoolInv
  BY Parts DEF TypeInv
<1>2. /\ stack["isr"] = <<>> /\ stack' = [stack EXCEPT !["isr"] = <<<<t, c>>>>]
      /\ "isr" \in Contexts /\ t \in Hooks
      /\ UNCHANGED <<fsmVars, status, frameVars, readVars, engineVars, msg_queue, taken,
                     userVars>>
  BY DEF MsgTimer, Enter, Contexts, Hooks
<1>3. /\ StackType' /\ Injectives'
      /\ \A y \in Contexts : \A s, d :
           On(y, s, d)' <=> IF y = "isr" THEN s = t /\ d = c ELSE On(y, s, d)
  BY <1>1, <1>2, Hooked
<1>4. \A s, d : ~On("isr", s, d)
  <2> DEFINE e == <<>>
  <2>1. \A d : ~Contains(e, d)
    BY Listed
  <2>2. stack["isr"] = e
    BY <1>2
  <2> HIDE DEF e
  <2> QED  BY <2>1, <2>2 DEF On
<1>5. \A y \in Contexts, s \in EndSteps \cup {"start", "trigger"} : \A d :
        On(y, s, d)' <=> On(y, s, d)
  BY <1>3, <1>4 DEF EndSteps, Timers
<1>6. /\ timers' \in [Chans -> SUBSET Timers] /\ timer_id' \in [Chans -> SUBSET Timers]
      /\ msg_queue' \in Seq(Chans) /\ taken' \in Chans \cup {None}
  BY <1>1, <1>2 DEF MsgTimer, TypeInv
<1>7. PoolInv'
  BY <1>1, <1>2, Untouched
<1> QED  BY <1>2, <1>3, <1>5, <1>6, <1>7, MsgStep

LEMMA SetTimer ==
  ASSUME TypeInv, NEW c \in Chans, NEW t \in Timers, AddTimer(c, t)
  PROVE  /\ timers' \in [Chans -> SUBSET Timers] /\ timer_id' \in [Chans -> SUBSET Timers]
         /\ timers'[c] = timers[c] \cup {t} /\ timer_id'[c] = timer_id[c] \cup {t}
         /\ \A d \in Chans : d # c => /\ timers'[d] = timers[d]
                                      /\ timer_id'[d] = timer_id[d]
BY DEF TypeInv, AddTimer

\* A message that is sent is one of those the pool has.
LEMMA Sent ==
  ASSUME TypeInv, PoolInv, NEW c \in Chans, MsgFree, msg_queue' = Append(msg_queue, c),
         taken' = taken
  PROVE  /\ PoolInv' /\ msg_queue' \in Seq(Chans)
         /\ \A d : Contains(msg_queue', d) <=> Contains(msg_queue, d) \/ d = c
<1>1. /\ msg_queue' \in Seq(Chans) /\ Len(msg_queue') = Len(msg_queue) + 1
      /\ \A d : Contains(msg_queue', d) <=> Contains(msg_queue, d) \/ d = c
  BY Appended DEF TypeInv
<1>2. Len(msg_queue) \in Nat /\ MSGS \in Nat
  BY EncChanAssumption DEF TypeInv
<1>3. PoolInv'
  BY <1>1, <1>2 DEF PoolInv, MsgFree
<1> QED  BY <1>1, <1>3

LEMMA TimerSendStep ==
  ASSUME IInv, NEW c \in Chans, NEW t \in Timers, TimerSend(c, t)
  PROVE  IInv'
<1>1. TypeInv /\ StackType /\ Injectives /\ PoolInv
  BY Parts DEF TypeInv
<1>2. /\ stack["isr"] # <<>> /\ stack["isr"][1] = <<t, c>> /\ "isr" \in Contexts
      /\ t \in Hooks /\ "clear" \in Hooks
      /\ UNCHANGED <<fsmVars, status, frameVars, readVars, engineVars, taken, userVars>>
  BY DEF TimerSend, Top, Contexts, Hooks
<1>3. On("isr", t, c)
  BY <1>1, <1>2, OnTop
<1>4. stack["isr"] = <<<<t, c>>>>
  BY <1>1, <1>2, <1>3 DEF Injectives, Alone
<1>5. \A s, d : On("isr", s, d) => s = t
  BY <1>4, Listed DEF On
<1>6. /\ StackType' /\ Injectives'
      /\ \A y \in Contexts : y # "isr" => \A s, d : On(y, s, d)' <=> On(y, s, d)
      /\ \A s, d : On("isr", s, d)' => s \in {t, "clear"}
  <2>1. CASE Return("isr", <<>>)
    <3>1. /\ StackType' /\ Injectives'
          /\ \A y \in Contexts : \A s, d :
               On(y, s, d)' <=> On(y, s, d) /\ ~(y = "isr" /\ s = t /\ d = c)
      BY <1>1, <1>2, <2>1, Finished
    <3> QED  BY <1>2, <1>5, <3>1
  <2>2. CASE Return("isr", <<<<"clear", c>>>>)
    <3>1. stack' = [stack EXCEPT !["isr"] = <<<<"clear", c>>>>]
      BY <1>4, <2>2 DEF Return
    <3>2. /\ StackType' /\ Injectives'
          /\ \A y \in Contexts : \A s, d :
               On(y, s, d)' <=> IF y = "isr" THEN s = "clear" /\ d = c ELSE On(y, s, d)
      BY <1>1, <1>2, <3>1, Hooked
    <3> QED  BY <1>2, <3>2
  <2> QED  BY <2>1, <2>2 DEF TimerSend
<1>7. \A y \in Contexts, s \in EndSteps \cup {"start", "trigger"} : \A d :
        On(y, s, d)' <=> On(y, s, d)
  BY <1>5, <1>6 DEF EndSteps, Timers
<1>8. /\ timers' \in [Chans -> SUBSET Timers] /\ timer_id' \in [Chans -> SUBSET Timers]
      /\ msg_queue' \in Seq(Chans) /\ PoolInv'
  <2>1. CASE MsgFree
    <3>1. msg_queue' = Append(msg_queue, c) /\ UNCHANGED timerVars
      BY <2>1 DEF TimerSend
    <3>2. msg_queue' \in Seq(Chans) /\ PoolInv'
      BY <1>1, <1>2, <2>1, <3>1, Sent
    <3> QED  BY <1>1, <3>1, <3>2 DEF timerVars, TypeInv
  <2>2. CASE ~MsgFree
    <3>1. AddTimer(c, t) /\ UNCHANGED msg_queue
      BY <2>2 DEF TimerSend
    <3>2. PoolInv' /\ msg_queue' \in Seq(Chans)
      BY <1>1, <1>2, <3>1, Untouched DEF TypeInv
    <3> QED  BY <1>1, <3>1, <3>2, SetTimer
  <2> QED  BY <2>1, <2>2
<1>9. taken' \in Chans \cup {None}
  BY <1>1, <1>2 DEF TypeInv
<1> QED  BY <1>2, <1>6, <1>7, <1>8, <1>9, MsgStep

LEMMA TimerClearStep ==
  ASSUME IInv, NEW c \in Chans, TimerClear(c)
  PROVE  IInv'
<1>1. TypeInv /\ StackType /\ Injectives /\ PoolInv
  BY Parts DEF TypeInv
<1>2. /\ stack["isr"] # <<>> /\ stack["isr"][1] = <<"clear", c>> /\ "isr" \in Contexts
      /\ Return("isr", <<>>)
      /\ UNCHANGED <<fsmVars, status, frameVars, readVars, engineVars, timers, msg_queue,
                     taken, userVars>>
  BY DEF TimerClear, Top, Contexts
<1>3. /\ StackType' /\ Injectives'
      /\ \A y \in Contexts : \A s, d :
           On(y, s, d)' <=> On(y, s, d) /\ ~(y = "isr" /\ s = "clear" /\ d = c)
  BY <1>1, <1>2, Finished
<1>4. \A y \in Contexts, s \in EndSteps \cup {"start", "trigger"} : \A d :
        On(y, s, d)' <=> On(y, s, d)
  BY <1>3 DEF EndSteps
<1>5. /\ timers' \in [Chans -> SUBSET Timers] /\ timer_id' \in [Chans -> SUBSET Timers]
      /\ msg_queue' \in Seq(Chans) /\ taken' \in Chans \cup {None}
  BY <1>1, <1>2 DEF TimerClear, TypeInv
<1>6. PoolInv'
  BY <1>1, <1>2, Untouched
<1> QED  BY <1>2, <1>3, <1>4, <1>5, <1>6, MsgStep

LEMMA TakeMsgStep ==
  ASSUME IInv, TakeMsg
  PROVE  IInv'
<1>1. /\ TypeInv /\ HeldInv /\ PoolInv /\ Injectives /\ StartInv /\ OnceInv /\ EndInv
      /\ EngineInv /\ EngineNotIdle /\ CallInv /\ HeadInv /\ ReaderInv
  BY Parts
<1>2. UNCHANGED <<fsmVars, status, frameVars, readVars, engineVars, timerVars, stack, userVars>>
  BY DEF TakeMsg
<1>3. /\ msg_queue' \in Seq(Chans) /\ Len(msg_queue') = Len(msg_queue) - 1
      /\ Len(msg_queue) \in Nat \ {0} /\ taken' \in Chans
      /\ \A d : Contains(msg_queue, d) <=> Contains(msg_queue', d) \/ d = taken'
  <2>1. msg_queue \in Seq(Chans) /\ msg_queue # <<>>
    BY <1>1 DEF TypeInv, TakeMsg
  <2> QED  BY <2>1, Popped DEF TakeMsg
<1>4. /\ OnceInv' /\ StartInv' /\ EndInv' /\ EngineInv' /\ EngineNotIdle' /\ CallInv'
      /\ HeadInv' /\ ReaderInv' /\ HeldInv' /\ StackType' /\ Injectives'
  BY <1>1, <1>2, Untouched, Kept
     DEF fsmVars, frameVars, readVars, engineVars, userVars, TypeInv
<1>5. TypeInv'
  BY <1>1, <1>2, <1>3, <1>4
     DEF TypeInv, timerVars, fsmVars, frameVars, readVars, engineVars, userVars
<1>6. PoolInv'
  <2>1. taken = None
    BY DEF TakeMsg
  <2> QED  BY <1>1, <1>3, <2>1, EncChanAssumption DEF PoolInv
<1> QED  BY <1>4, <1>5, <1>6 DEF IInv, StackInv

\* The slice head and the picture.  With one bit the channel waits for the other; with
\* both nothing of an earlier picture is on a stack, or its bit could not be there.
LEMMA SetStatusStep ==
  ASSUME TypeInv, Injectives, StartInv, OnceInv, EndInv, EngineInv, EngineNotIdle, CallInv,
         NEW x \in Contexts, NEW c \in Chans, curr_state[c] = "IDLE",
         SetStatus(x, c, Bit(x)), Bit(x) \notin status[c], stack[x] = <<>>,
         UNCHANGED <<pending, done, opened_flag, curr_consumer, push_chan, pc>>
  PROVE  /\ StackType' /\ Injectives' /\ StartInv' /\ OnceInv' /\ EndInv' /\ EngineInv'
         /\ EngineNotIdle' /\ CallInv'
         /\ service_queue' \in Seq(Chans) /\ curr_state' \in [Chans -> States]
         /\ status' \in [Chans -> SUBSET {"head", "ad"}]
         /\ \A d \in Chans : d # c => status'[d] = status[d] /\ curr_state'[d] = curr_state[d]
         /\ \/ status'[c] = {} /\ curr_state'[c] = "STANDBY"
               /\ status[c] \cup {Bit(x)} = {"head", "ad"}
            \/ status'[c] = status[c] \cup {Bit(x)} /\ curr_state'[c] = "IDLE"
<1> DEFINE both == status[c] \cup {Bit(x)} = {"head", "ad"}
<1>1. CASE both
  <2>1. /\ status' = [status EXCEPT ![c] = {}] /\ Becomes(c, "STANDBY")
        /\ service_queue' = Append(service_queue, c)
        /\ Enter(x, <<Trigger, <<"unlock", c>>>>)
    BY <1>1 DEF SetStatus
  <2>2. /\ StackType' /\ Injectives' /\ (\A s, d : ~On(x, s, d))
        /\ \A y \in Contexts : \A s, d :
             On(y, s, d)' <=> \/ On(y, s, d)
                              \/ y = x /\ s = "trigger" /\ d = None
                              \/ y = x /\ s = "unlock" /\ d = c
    BY <2>1, Requested DEF TypeInv
  <2>3. ~Queued(c)
    BY DEF EngineInv
  <2>4. /\ service_queue' \in Seq(Chans) /\ \A d : Queued(d)' <=> Queued(d) \/ d = c
        /\ IsInjective(service_queue)' /\ service_queue' # <<>>
    BY <2>1, <2>3, Appended DEF TypeInv, EngineInv, Queued
  <2>5. /\ curr_state' \in [Chans -> States] /\ status' \in [Chans -> SUBSET {"head", "ad"}]
        /\ \A d \in Chans : d # c => status'[d] = status[d] /\ curr_state'[d] = curr_state[d]
        /\ status'[c] = {} /\ curr_state'[c] = "STANDBY"
    BY <2>1 DEF Becomes, TypeInv, States
  <2>6. \A y \in Contexts, s \in EndSteps \cup {"start"} : ~On(y, s, c)
    <3> SUFFICES ASSUME NEW y \in Contexts, y # x, NEW s \in EndSteps \cup {"start"}, On(y, s, c)
                 PROVE  FALSE
      BY <2>2
    <3>1. s \in {"check", "deliver"}
      BY DEF EndInv, StartInv, EndSteps
    <3>2. Bit(y) \notin status[c]
      BY <3>1 DEF EndInv
    <3>3. Bit(y) # Bit(x) /\ Bit(y) \in {"head", "ad"}
      BY DEF Bit, Contexts
    <3> QED  BY <1>1, <3>2, <3>3
  <2>7. StartInv'
    BY <2>2, <2>4, <2>5, <2>6 DEF StartInv
  <2>8. OnceInv'
    BY <2>2 DEF OnceInv, EndSteps
  <2>9. EndInv'
    BY <2>2, <2>5, <2>6 DEF EndInv, EndSteps
  <2>10. EngineInv'
    <3>1. push_chan # c /\ None \notin Chans
      BY EncChanAssumption DEF EngineInv
    <3> QED  BY <2>2, <2>4, <2>5, <2>6, <3>1 DEF EngineInv, Starting, Escaping
  <2>11. EngineNotIdle'
    BY <2>2 DEF EngineNotIdle, On, Trigger
  <2>12. CallInv'
    BY <2>2, <2>5 DEF CallInv
  <2> QED  BY <1>1, <2>2, <2>4, <2>5, <2>7, <2>8, <2>9, <2>10, <2>11, <2>12
<1>2. CASE ~both
  <2>1. /\ status' = [status EXCEPT ![c] = @ \cup {Bit(x)}]
        /\ UNCHANGED <<curr_state, service_queue, stack>>
    BY <1>2 DEF SetStatus
  <2>2. /\ status' \in [Chans -> SUBSET {"head", "ad"}]
        /\ \A d \in Chans : d # c => status'[d] = status[d]
        /\ status'[c] = status[c] \cup {Bit(x)}
    BY <2>1 DEF TypeInv, Bit
  <2>3. \A s, d : ~On(x, s, d)
    <3> DEFINE q == <<>>
    <3>1. \A d : ~Contains(q, d)
      BY Listed
    <3>2. stack[x] = q
      OBVIOUS
    <3> HIDE DEF q
    <3> QED  BY <3>1, <3>2 DEF On
  <2>4. EndInv'
    <3>1. \A y \in Contexts : y # x => Bit(y) # Bit(x)
      BY DEF Bit, Contexts
    <3>2. \A y \in Contexts : \A s, d : On(y, s, d)' <=> On(y, s, d)
      BY <2>1, Kept
    <3> QED  BY <2>1, <2>2, <2>3, <3>1, <3>2 DEF EndInv, Bit
  <2>5. /\ StartInv' /\ OnceInv' /\ EngineInv' /\ EngineNotIdle' /\ CallInv'
        /\ StackType' /\ Injectives'
    BY <2>1, Untouched, Kept DEF TypeInv
  <2> QED  BY <2>1, <2>2, <2>4, <2>5 DEF TypeInv
<1> QED  BY <1>1, <1>2

LEMMA PictureStep ==
  ASSUME IInv, NEW c \in Chans, Picture(c)
  PROVE  IInv'
<1>1. /\ TypeInv /\ HeldInv /\ PoolInv /\ Injectives /\ StartInv /\ OnceInv /\ EndInv
      /\ EngineInv /\ EngineNotIdle /\ CallInv /\ HeadInv /\ ReaderInv
  BY Parts
<1>2. UNCHANGED <<pending, done, opened_flag, frameVars, readVars, curr_consumer,
                  push_chan, msgVars, userVars>>
  BY DEF Picture
<1>3. "isr" \in Contexts /\ Bit("isr") = "ad"
  BY DEF Contexts, Bit
<1>4. curr_state[c] = "IDLE" /\ SetStatus("isr", c, Bit("isr")) /\ Bit("isr") \notin status[c]
      /\ stack["isr"] = <<>>
  BY <1>3 DEF Picture
<1>5. /\ StackType' /\ Injectives' /\ StartInv' /\ OnceInv' /\ EndInv' /\ EngineInv'
      /\ EngineNotIdle' /\ CallInv'
      /\ service_queue' \in Seq(Chans) /\ curr_state' \in [Chans -> States]
      /\ status' \in [Chans -> SUBSET {"head", "ad"}]
      /\ \A d \in Chans : d # c => status'[d] = status[d] /\ curr_state'[d] = curr_state[d]
      /\ \/ status'[c] = {} /\ curr_state'[c] = "STANDBY" /\ "head" \in status[c]
         \/ status'[c] = status[c] \cup {"ad"} /\ curr_state'[c] = "IDLE"
  BY <1>1, <1>2, <1>3, <1>4, SetStatusStep DEF userVars
<1>6. TypeInv'
  BY <1>1, <1>2, <1>5
     DEF TypeInv, frameVars, readVars, msgVars, userVars
<1>7. HeldInv' /\ PoolInv'
  BY <1>1, <1>2, Untouched DEF frameVars, readVars, msgVars
<1>8. HeadInv'
  BY <1>1, <1>2, <1>4, <1>5 DEF HeadInv, EngineInv, CallInv, Off, frameVars, userVars
<1>9. ReaderInv'
  BY <1>1, <1>2, <1>4, <1>5 DEF ReaderInv, frameVars, readVars, userVars
<1> QED  BY <1>5, <1>6, <1>7, <1>8, <1>9 DEF IInv, StackInv

LEMMA PictureOffStep ==
  ASSUME IInv, NEW c \in Chans, PictureOff(c)
  PROVE  IInv'
<1>1. /\ TypeInv /\ HeldInv /\ PoolInv /\ Injectives /\ StartInv /\ OnceInv /\ EndInv
      /\ EngineInv /\ EngineNotIdle /\ CallInv /\ HeadInv /\ ReaderInv
  BY Parts
<1>2. UNCHANGED <<fsmVars, frameVars, readVars, engineVars, msgVars, stack, userVars>>
  BY DEF PictureOff
<1>3. /\ status' \in [Chans -> SUBSET {"head", "ad"}]
      /\ \A d \in Chans : status'[d] \subseteq status[d]
      /\ \A d \in Chans : "head" \in status'[d] <=> "head" \in status[d]
  BY <1>1 DEF PictureOff, TypeInv
<1>4. /\ HeldInv' /\ PoolInv' /\ Injectives' /\ StartInv' /\ OnceInv' /\ EngineInv'
      /\ EngineNotIdle' /\ CallInv' /\ ReaderInv'
  BY <1>1, <1>2, Untouched, Kept
     DEF fsmVars, frameVars, readVars, engineVars, msgVars, userVars
<1>5. TypeInv'
  BY <1>1, <1>2, <1>3, Kept
     DEF TypeInv, fsmVars, frameVars, readVars, engineVars, msgVars, userVars
<1>6. EndInv'
  BY <1>1, <1>2, <1>3, Kept DEF EndInv, fsmVars, engineVars
<1>7. HeadInv'
  BY <1>1, <1>2, <1>3 DEF HeadInv, Off, fsmVars, frameVars, engineVars, userVars
<1> QED  BY <1>4, <1>5, <1>6, <1>7 DEF IInv, StackInv

LEMMA Discarded ==
  ASSUME TypeInv, NEW c \in Chans, DiscardOrig(c)
  PROVE  /\ status' \in [Chans -> SUBSET {"head", "ad"}]
         /\ \A d \in Chans : status'[d] \subseteq status[d]
         /\ \A d \in Chans : "head" \in status'[d] <=> "head" \in status[d]
<1>1. PICK ad \in {status[c], status[c] \ {"ad"}} : status' = [status EXCEPT ![c] = ad]
  BY DEF DiscardOrig
<1>2. status \in [Chans -> SUBSET {"head", "ad"}]
  BY DEF TypeInv
<1> QED  BY <1>1, <1>2

LEMMA HeadNotWantedStep ==
  ASSUME IInv, NEW c \in Chans, HeadNotWanted(c)
  PROVE  IInv'
<1>1. /\ TypeInv /\ HeldInv /\ PoolInv /\ Injectives /\ StartInv /\ OnceInv /\ EndInv
      /\ EngineInv /\ EngineNotIdle /\ CallInv /\ HeadInv /\ ReaderInv
  BY Parts
<1>2. /\ UNCHANGED <<fsmVars, frameVars, readVars, engineVars, timerVars, msg_queue,
                     stack, userVars>>
      /\ taken = c /\ taken' = None /\ ("head" \in status[c] \/ curr_state[c] # "IDLE")
  BY DEF HeadNotWanted
<1>3. /\ status' \in [Chans -> SUBSET {"head", "ad"}]
      /\ \A d \in Chans : status'[d] \subseteq status[d]
      /\ \A d \in Chans : "head" \in status'[d] <=> "head" \in status[d]
  BY <1>1, Discarded DEF HeadNotWanted
<1>4. /\ HeldInv' /\ Injectives' /\ StartInv' /\ OnceInv' /\ EngineInv'
      /\ EngineNotIdle' /\ CallInv' /\ ReaderInv'
  BY <1>1, <1>2, Untouched, Kept
     DEF fsmVars, frameVars, readVars, engineVars, userVars
<1>5. TypeInv'
  BY <1>1, <1>2, <1>3, Kept
     DEF TypeInv, timerVars, fsmVars, frameVars, readVars, engineVars, userVars
<1>6. EndInv'
  BY <1>1, <1>2, <1>3, Kept DEF EndInv, fsmVars, engineVars
<1>7. HeadInv'
  BY <1>1, <1>2, <1>3 DEF HeadInv, Off, fsmVars, frameVars, engineVars, userVars
<1>8. PoolInv'
  BY <1>1, <1>2, EncChanAssumption DEF PoolInv, TypeInv
<1> QED  BY <1>4, <1>5, <1>6, <1>7, <1>8 DEF IInv, StackInv

LEMMA HeadDelayedStep ==
  ASSUME IInv, NEW c \in Chans, HeadDelayed(c)
  PROVE  IInv'
<1>1. /\ TypeInv /\ HeldInv /\ PoolInv /\ Injectives /\ StartInv /\ OnceInv /\ EndInv
      /\ EngineInv /\ EngineNotIdle /\ CallInv /\ HeadInv /\ ReaderInv
  BY Parts
<1>2. /\ UNCHANGED <<fsmVars, frameVars, readVars, engineVars, msg_queue, stack, userVars>>
      /\ taken = c /\ taken' = None
  BY DEF HeadDelayed
<1>3. /\ status' \in [Chans -> SUBSET {"head", "ad"}]
      /\ \A d \in Chans : status'[d] \subseteq status[d]
      /\ \A d \in Chans : "head" \in status'[d] <=> "head" \in status[d]
  BY <1>1, Discarded DEF HeadDelayed
<1>4. /\ HeldInv' /\ Injectives' /\ StartInv' /\ OnceInv' /\ EngineInv'
      /\ EngineNotIdle' /\ CallInv' /\ ReaderInv'
  BY <1>1, <1>2, Untouched, Kept
     DEF fsmVars, frameVars, readVars, engineVars, userVars
<1>5. timers' \in [Chans -> SUBSET Timers] /\ timer_id' \in [Chans -> SUBSET Timers]
  <2>1. CASE UNCHANGED timerVars
    BY <1>1, <2>1 DEF TypeInv, timerVars
  <2>2. CASE AddTimer(c, "delay")
    BY <1>1, <2>2, SetTimer DEF Timers
  <2> QED  BY <2>1, <2>2 DEF HeadDelayed, Delay
<1>6. TypeInv'
  BY <1>1, <1>2, <1>3, <1>5, Kept
     DEF TypeInv, fsmVars, frameVars, readVars, engineVars, userVars
<1>7. EndInv'
  BY <1>1, <1>2, <1>3, Kept DEF EndInv, fsmVars, engineVars
<1>8. HeadInv'
  BY <1>1, <1>2, <1>3 DEF HeadInv, Off, fsmVars, frameVars, engineVars, userVars
<1>9. PoolInv'
  BY <1>1, <1>2, EncChanAssumption DEF PoolInv, TypeInv
<1> QED  BY <1>4, <1>6, <1>7, <1>8, <1>9 DEF IInv, StackInv

\* A frame that is lost to the reader is followed by an I frame: the head asks for one.
LEMMA HeadReadyStep ==
  ASSUME IInv, NEW c \in Chans, HeadReady(c)
  PROVE  IInv'
<1> DEFINE idr == gop_start[c] \/ force_i[c]
<1>1. /\ TypeInv /\ HeldInv /\ PoolInv /\ Injectives /\ StartInv /\ OnceInv /\ EndInv
      /\ EngineInv /\ EngineNotIdle /\ CallInv /\ HeadInv /\ ReaderInv
  BY Parts
<1>2. /\ UNCHANGED <<pending, done, opened_flag, b_flush, lost, readVars, curr_consumer,
                     push_chan, timerVars, msg_queue, userVars>>
      /\ taken = c /\ taken' \in {taken, None} /\ FrameFree(c)
  BY DEF HeadReady
<1>3. "kthread" \in Contexts /\ Bit("kthread") = "head"
  BY DEF Contexts, Bit
<1>4. /\ curr_state[c] = "IDLE" /\ SetStatus("kthread", c, Bit("kthread"))
      /\ Bit("kthread") \notin status[c] /\ stack["kthread"] = <<>>
  BY <1>3 DEF HeadReady
<1>5. /\ StackType' /\ Injectives' /\ StartInv' /\ OnceInv' /\ EndInv' /\ EngineInv'
      /\ EngineNotIdle' /\ CallInv'
      /\ service_queue' \in Seq(Chans) /\ curr_state' \in [Chans -> States]
      /\ status' \in [Chans -> SUBSET {"head", "ad"}]
      /\ \A d \in Chans : d # c => status'[d] = status[d] /\ curr_state'[d] = curr_state[d]
      /\ \/ status'[c] = {} /\ curr_state'[c] = "STANDBY"
         \/ status'[c] = status[c] \cup {"head"} /\ curr_state'[c] = "IDLE"
  BY <1>1, <1>2, <1>3, <1>4, SetStatusStep DEF userVars
<1>6. /\ frame_type' \in [Chans -> {"none", "I", "P"}] /\ force_i' \in [Chans -> BOOLEAN]
      /\ gop_start' \in [Chans -> BOOLEAN]
      /\ frame_type'[c] = (IF idr THEN "I" ELSE "P") /\ gop_start'[c] = idr
      /\ force_i'[c] = (force_i[c] /\ ~idr)
      /\ \A d \in Chans : d # c => /\ frame_type'[d] = frame_type[d]
                                   /\ force_i'[d] = force_i[d]
                                   /\ gop_start'[d] = gop_start[d]
  BY <1>1 DEF HeadReady, TypeInv
<1>7. frame_type[c] = "none" /\ push_chan # c /\ pc[c] \notin {"flush", "closed"}
  BY <1>1, <1>3, <1>4 DEF HeadInv, EngineInv, CallInv
<1>8. TypeInv'
  BY <1>1, <1>2, <1>5, <1>6 DEF TypeInv, timerVars, readVars, userVars
<1>9. HeldInv'
  <2> SUFFICES ASSUME NEW d \in Chans PROVE Held(d)' <= FRAMES
    BY DEF HeldInv
  <2>1. /\ readVars' = readVars /\ FRAMES \in Nat /\ Held(d) <= FRAMES
        /\ Len(frame_queue[d]) \in Nat
    BY <1>1, <1>2, EncChanAssumption DEF HeldInv, TypeInv
  <2>2. CASE d # c
    BY <1>6, <2>1, <2>2 DEF Held, readVars
  <2>3. CASE d = c
    <3> DEFINE n == Len(frame_queue[c])
               r == IF reader[c] THEN 1 ELSE 0
    <3>1. n \in Nat /\ r \in Nat
      BY <2>1, <2>3
    <3>2. Held(c) = 0 + n + r
      BY <1>7 DEF Held
    <3>3. Held(c)' = 1 + n + r
      BY <1>6, <2>1 DEF Held, readVars
    <3> HIDE DEF n, r
    <3> QED  BY <1>2, <2>1, <2>3, <3>1, <3>2, <3>3 DEF FrameFree
  <2> QED  BY <2>2, <2>3
<1>10. PoolInv'
  BY <1>1, <1>2, EncChanAssumption DEF PoolInv, TypeInv
<1>11. HeadInv'
  BY <1>1, <1>2, <1>5, <1>6, <1>7 DEF HeadInv, EngineInv, Off, userVars
<1>12. ReaderInv'
  BY <1>1, <1>2, <1>5, <1>6, <1>7 DEF ReaderInv, readVars, userVars
<1> QED  BY <1>5, <1>8, <1>9, <1>10, <1>11, <1>12 DEF IInv, StackInv

\* The encoder goes to the channel at the head of the queue.
LEMMA TriggerRequestStep ==
  ASSUME IInv, NEW x \in Contexts, TriggerRequest(x)
  PROVE  IInv'
<1>1. /\ TypeInv /\ HeldInv /\ PoolInv /\ Injectives /\ StartInv /\ OnceInv /\ EndInv
      /\ EngineInv /\ EngineNotIdle /\ CallInv /\ HeadInv /\ ReaderInv
  BY Parts
<1>2. UNCHANGED <<fsmVars, status, frameVars, readVars, push_chan, msgVars, userVars>>
  BY DEF TriggerRequest
<1>3. /\ HeldInv' /\ PoolInv' /\ HeadInv' /\ ReaderInv'
  BY <1>1, <1>2, Untouched DEF fsmVars, frameVars, readVars, msgVars, userVars
<1>4. StackType /\ stack[x] # <<>> /\ stack[x][1] = <<"trigger", None>>
  BY <1>1 DEF TypeInv, TriggerRequest, Trigger
<1>5. CASE curr_consumer # None \/ service_queue = <<>>
  <2>1. Return(x, <<>>) /\ UNCHANGED <<curr_consumer, service_queue>>
    BY <1>5 DEF TriggerRequest
  <2>2. /\ StackType' /\ Injectives'
        /\ \A y \in Contexts : \A s, d :
             On(y, s, d)' <=> On(y, s, d) /\ ~(y = x /\ s = "trigger" /\ d = None)
    BY <1>1, <1>4, <2>1, Finished
  <2>3. TypeInv'
    BY <1>1, <1>2, <2>1, <2>2
       DEF TypeInv, fsmVars, frameVars, readVars, msgVars, userVars
  <2>4. \A d : Queued(d)' <=> Queued(d)
    BY <2>1, Kept
  <2>5. StartInv'
    BY <1>1, <1>2, <2>1, <2>2, <2>4 DEF StartInv, fsmVars
  <2>6. OnceInv' /\ EndInv'
    BY <1>1, <1>2, <2>2 DEF OnceInv, EndInv, EndSteps, Bit, fsmVars
  <2>7. EngineInv'
    BY <1>1, <1>2, <2>1, <2>2, <2>4 DEF EngineInv, Starting, Escaping, fsmVars
  <2>8. EngineNotIdle'
    BY <1>5, <2>1 DEF EngineNotIdle
  <2>9. CallInv'
    BY <1>1, <1>2, <2>2 DEF CallInv, fsmVars, userVars
  <2> QED  BY <1>3, <2>2, <2>3, <2>5, <2>6, <2>7, <2>8, <2>9 DEF IInv, StackInv
<1>6. CASE ~(curr_consumer # None \/ service_queue = <<>>)
  <2>1. service_queue \in Seq(Chans) /\ service_queue # <<>> /\ IsInjective(service_queue)
    BY <1>1, <1>6 DEF TypeInv, EngineInv
  <2>2. PICK c \in Chans : c = Head(service_queue)
    BY <2>1, Popped
  <2>3. /\ curr_consumer' = c /\ service_queue' = Tail(service_queue)
        /\ Return(x, <<<<"start", c>>>>)
    BY <1>6, <2>2 DEF TriggerRequest
  <2>4. /\ service_queue' \in Seq(Chans) /\ IsInjective(service_queue)'
        /\ \A d : Queued(d) <=> Queued(d)' \/ d = c
        /\ ~Queued(c)'
    BY <2>3, <2>1, <2>2, Popped DEF Queued
  <2>5. /\ curr_consumer = None /\ None \notin Chans /\ curr_state[c] = "STANDBY"
        /\ \A y \in Contexts, d \in Chans : ~On(y, "start", d)
        /\ \A d \in Chans : push_chan # d
    BY <1>1, <1>6, <2>4, EncChanAssumption DEF EngineInv, StartInv
  <2>6. /\ StackType' /\ Injectives' /\ On(x, "trigger", None)
        /\ \A y \in Contexts : \A s, d :
             On(y, s, d)' <=> \/ On(y, s, d) /\ ~(y = x /\ s = "trigger" /\ d = None)
                              \/ y = x /\ s = "start" /\ d = c
    BY <1>1, <1>4, <2>3, <2>4, <2>5, Followed DEF Steps, Hooks, Timers
  <2>7. TypeInv'
    BY <1>1, <1>2, <2>3, <2>4, <2>6
       DEF TypeInv, fsmVars, frameVars, readVars, msgVars, userVars
  <2>8. StartInv'
    BY <1>1, <1>2, <2>3, <2>4, <2>5, <2>6 DEF StartInv, fsmVars
  <2>9. OnceInv' /\ EndInv'
    BY <1>1, <1>2, <2>6 DEF OnceInv, EndInv, EndSteps, Bit, fsmVars
  <2>10. EngineInv'
    BY <1>1, <1>2, <2>3, <2>4, <2>5, <2>6 DEF EngineInv, Starting, Escaping, fsmVars
  <2>11. EngineNotIdle'
    BY <2>3, <2>4, <2>5 DEF EngineNotIdle
  <2>12. CallInv'
    BY <1>1, <1>2, <2>6 DEF CallInv, fsmVars, userVars
  <2> QED  BY <1>3, <2>6, <2>7, <2>8, <2>9, <2>10, <2>11, <2>12 DEF IInv, StackInv
<1> QED  BY <1>5, <1>6

LEMMA StartEncodeStep ==
  ASSUME IInv, NEW x \in Contexts, NEW c \in Chans, StartEncode(x, c)
  PROVE  IInv'
<1>1. /\ TypeInv /\ HeldInv /\ PoolInv /\ Injectives /\ StartInv /\ OnceInv /\ EndInv
      /\ EngineInv /\ EngineNotIdle /\ CallInv /\ HeadInv /\ ReaderInv
  BY Parts
<1>2. UNCHANGED <<pending, done, opened_flag, status, force_i, gop_start, lost, readVars,
                  service_queue, msgVars, userVars>>
  BY DEF StartEncode
<1>3. StackType /\ stack[x] # <<>> /\ stack[x][1] = <<"start", c>>
  BY <1>1 DEF TypeInv, StartEncode, Top
<1>4. On(x, "start", c)
  BY <1>3, OnTop
<1>5. /\ ~On(x, "trigger", None) /\ curr_consumer = c /\ curr_state[c] = "STANDBY"
      /\ ~Queued(c) /\ None \notin Chans /\ push_chan # c
      /\ frame_type[c] # "none" /\ status[c] = {}
      /\ \A y \in Contexts, d \in Chans : On(y, "start", d) => y = x /\ d = c
      /\ \A y \in Contexts, s \in EndSteps : ~On(y, s, c)
  BY <1>1, <1>4, EncChanAssumption DEF StartInv, EngineInv, HeadInv, EndInv, EndSteps
<1>6. /\ curr_state' \in [Chans -> States] /\ curr_state'[c] = "RUNNING"
      /\ \A d \in Chans : d # c => curr_state'[d] = curr_state[d]
      /\ frame_type' \in [Chans -> {"none", "I", "P"}] /\ frame_type'[c] = Flushed(c)
      /\ \A d \in Chans : d # c => frame_type'[d] = frame_type[d]
      /\ b_flush' \in [Chans -> SUBSET {"producer", "consumer"}]
      /\ b_flush'[c] = b_flush[c] \ {"producer"}
      /\ \A d \in Chans : d # c => b_flush'[d] = b_flush[d]
      /\ Flushed(c) \in {"none", frame_type[c]}
      /\ Flushed(c) # "none" => "producer" \notin b_flush[c]
  BY <1>1, <1>5 DEF StartEncode, TypeInv, Becomes, States, FlushProducer, Flushed
<1>7. HeldInv'
  BY <1>1, <1>2, <1>6, HeldLess DEF readVars
<1>8. ReaderInv'
  BY <1>1, <1>2, <1>5, <1>6 DEF ReaderInv, TypeInv, readVars, userVars
<1>9. PoolInv'
  BY <1>1, <1>2, Untouched DEF msgVars
<1>10. \A d : Queued(d)' <=> Queued(d)
  BY <1>2, Kept
<1>11. IsInjective(service_queue)'
  BY <1>1, <1>2 DEF EngineInv
<1>12. CASE Flushed(c) # "none"
  <2>1. push_chan' = c /\ Return(x, <<>>) /\ UNCHANGED curr_consumer
    BY <1>12 DEF StartEncode
  <2>2. /\ StackType' /\ Injectives'
        /\ \A y \in Contexts : \A s, d :
             On(y, s, d)' <=> On(y, s, d) /\ ~(y = x /\ s = "start" /\ d = c)
    BY <1>1, <1>3, <2>1, Finished
  <2>3. TypeInv'
    BY <1>1, <1>2, <1>6, <2>1, <2>2 DEF TypeInv, readVars, msgVars, userVars
  <2>4. StartInv'
    BY <1>5, <2>2 DEF StartInv
  <2>5. OnceInv'
    BY <1>1, <2>2 DEF OnceInv, EndSteps
  <2>6. EndInv'
    BY <1>1, <1>2, <1>5, <1>6, <2>1, <2>2 DEF EndInv, EndSteps
  <2>7. EngineInv'
    BY <1>1, <1>2, <1>5, <1>6, <1>10, <1>11, <2>1, <2>2 DEF EngineInv, Starting, Escaping
  <2>8. EngineNotIdle'
    BY <1>5, <2>1 DEF EngineNotIdle
  <2>9. CallInv'
    BY <1>1, <1>2, <1>5, <1>6, <2>2 DEF CallInv, userVars
  <2>10. HeadInv'
    BY <1>1, <1>2, <1>5, <1>6, <1>12, <2>1 DEF HeadInv, EngineInv, Off, userVars
  <2> QED  BY <1>7, <1>8, <1>9, <2>2, <2>3, <2>4, <2>5, <2>6, <2>7, <2>8, <2>9, <2>10
           DEF IInv, StackInv
<1>13. CASE Flushed(c) = "none"
  <2>1. curr_consumer' = None /\ Return(x, <<Trigger, <<"escape", c>>>>)
        /\ UNCHANGED push_chan
    BY <1>13 DEF StartEncode
  <2>2. /\ StackType' /\ Injectives'
        /\ \A y \in Contexts : \A s, d :
             On(y, s, d)' <=> \/ On(y, s, d) /\ ~(y = x /\ s = "start" /\ d = c)
                              \/ y = x /\ s = "trigger" /\ d = None
                              \/ y = x /\ s = "escape" /\ d = c
    BY <1>1, <1>3, <1>5, <2>1, Released DEF EndSteps
  <2>3. TypeInv'
    BY <1>1, <1>2, <1>6, <2>1, <2>2 DEF TypeInv, readVars, msgVars, userVars
  <2>4. StartInv'
    BY <1>5, <2>2 DEF StartInv
  <2>5. OnceInv'
    BY <1>1, <1>5, <2>2 DEF OnceInv, EndSteps
  <2>6. EndInv'
    BY <1>1, <1>2, <1>5, <1>6, <2>1, <2>2 DEF EndInv, EndSteps
  <2>7. EngineInv'
    BY <1>1, <1>2, <1>5, <1>6, <1>10, <1>11, <2>1, <2>2 DEF EngineInv, Starting, Escaping
  <2>8. EngineNotIdle'
    BY <2>2 DEF EngineNotIdle, On, Trigger
  <2>9. CallInv'
    BY <1>1, <1>2, <1>5, <1>6, <2>2 DEF CallInv, userVars
  <2>10. HeadInv'
    BY <1>1, <1>2, <1>5, <1>6, <2>1 DEF HeadInv, EngineInv, Off, userVars
  <2> QED  BY <1>7, <1>8, <1>9, <2>2, <2>3, <2>4, <2>5, <2>6, <2>7, <2>8, <2>9, <2>10
           DEF IInv, StackInv
<1> QED  BY <1>12, <1>13

LEMMA EscapeStep ==
  ASSUME IInv, NEW x \in Contexts, NEW c \in Chans, Escape(x, c)
  PROVE  IInv'
<1>1. /\ TypeInv /\ HeldInv /\ PoolInv /\ Injectives /\ StartInv /\ OnceInv /\ EndInv
      /\ EngineInv /\ EngineNotIdle /\ CallInv /\ HeadInv /\ ReaderInv
  BY Parts
<1>2. UNCHANGED <<pending, done, opened_flag, status, b_flush, lost, readVars,
                  engineVars, msgVars, userVars>>
  BY DEF Escape
<1>3. /\ StackType /\ stack[x] # <<>> /\ stack[x][1] = <<"escape", c>>
      /\ Return(x, <<<<"check", c>>>>)
  BY <1>1 DEF TypeInv, Escape, Top, AfterPicture
<1>4. On(x, "escape", c)
  BY <1>3, OnTop
<1>5. /\ curr_state[c] = "RUNNING" /\ push_chan # c /\ status[c] = {} /\ ~Queued(c)
      /\ ~On(x, "check", c)
      /\ \A y \in Contexts : ~On(y, "start", c)
      /\ \A y \in Contexts, s \in EndSteps : On(y, s, c) => y = x /\ s = "escape"
  BY <1>1, <1>4 DEF StartInv, EndInv, OnceInv, HeadInv, EngineInv, EndSteps
<1>6. /\ StackType' /\ Injectives'
      /\ \A y \in Contexts : \A s, d :
           On(y, s, d)' <=> \/ On(y, s, d) /\ ~(y = x /\ s = "escape" /\ d = c)
                            \/ y = x /\ s = "check" /\ d = c
  BY <1>1, <1>3, <1>5, Followed DEF Steps, Hooks, Timers
<1>7. /\ curr_state' \in [Chans -> States] /\ curr_state'[c] = "DONE"
      /\ \A d \in Chans : d # c => curr_state'[d] = curr_state[d]
      /\ frame_type' \in [Chans -> {"none", "I", "P"}] /\ frame_type'[c] = "none"
      /\ \A d \in Chans : d # c => frame_type'[d] = frame_type[d]
      /\ force_i' \in [Chans -> BOOLEAN] /\ force_i'[c] = TRUE
      /\ \A d \in Chans : d # c => force_i'[d] = force_i[d]
  BY <1>1 DEF Escape, TypeInv, Becomes, States, ForceI
<1>8. /\ gop_start' \in [Chans -> BOOLEAN]
      /\ \A d \in Chans : d # c => gop_start'[d] = gop_start[d]
  BY <1>1 DEF Escape, TypeInv
<1>9. (\A d : Queued(d)' <=> Queued(d)) /\ IsInjective(service_queue)'
  BY <1>1, <1>2, Kept DEF engineVars, EngineInv
<1>10. TypeInv'
  BY <1>1, <1>2, <1>6, <1>7, <1>8 DEF TypeInv, readVars, engineVars, msgVars, userVars
<1>11. HeldInv'
  BY <1>1, <1>2, <1>7, HeldLess DEF readVars
<1>12. PoolInv'
  BY <1>1, <1>2, Untouched DEF msgVars
<1>13. StartInv'
  BY <1>1, <1>2, <1>5, <1>6, <1>7, <1>9 DEF StartInv, engineVars
<1>14. OnceInv'
  BY <1>1, <1>5, <1>6 DEF OnceInv, EndSteps
<1>15. EndInv'
  BY <1>1, <1>2, <1>5, <1>6, <1>7 DEF EndInv, EndSteps, engineVars
<1>16. EngineInv'
  BY <1>1, <1>2, <1>5, <1>6, <1>7, <1>9 DEF EngineInv, Starting, Escaping, engineVars
<1>17. EngineNotIdle'
  <2>1. \A y \in Contexts : On(y, "trigger", None) => On(y, "trigger", None)'
    BY <1>6
  <2> QED  BY <1>1, <1>2, <2>1 DEF EngineNotIdle, On, Trigger, engineVars
<1>18. CallInv'
  BY <1>1, <1>2, <1>5, <1>6, <1>7 DEF CallInv, userVars
<1>19. HeadInv'
  BY <1>1, <1>2, <1>5, <1>7 DEF HeadInv, Off, userVars, engineVars
<1>20. ReaderInv'
  BY <1>1, <1>2, <1>7, <1>8 DEF ReaderInv, readVars, userVars
<1> QED  BY <1>6, <1>10, <1>11, <1>12, <1>13, <1>14, <1>15, <1>16, <1>17, <1>18, <1>19,
            <1>20
         DEF IInv, StackInv

\* The end of a picture: what both ways of its interrupt have in common.
LEMMA RestStep ==
  ASSUME TypeInv, PoolInv, Injectives, StartInv, OnceInv, EndInv, EngineInv, EngineNotIdle,
         CallInv, HeadInv, NEW c \in Chans, Top("isr", "rest", c),
         Becomes(c, "DONE"), Return("isr", <<<<"check", c>>>>),
         frame_type' = [frame_type EXCEPT ![c] = "none"],
         UNCHANGED <<pending, done, opened_flag, status, engineVars, msgVars, userVars>>
  PROVE  /\ StackType' /\ PoolInv' /\ Injectives' /\ StartInv' /\ OnceInv' /\ EndInv'
         /\ EngineInv' /\ EngineNotIdle' /\ CallInv' /\ HeadInv'
         /\ curr_state' \in [Chans -> States] /\ curr_state'[c] = "DONE"
         /\ curr_state[c] = "TRANSFERING"
         /\ \A d \in Chans : d # c => curr_state'[d] = curr_state[d]
<1>1. "isr" \in Contexts
  BY DEF Contexts
<1>2. StackType /\ stack["isr"] # <<>> /\ stack["isr"][1] = <<"rest", c>>
  BY DEF TypeInv, Top
<1>3. On("isr", "rest", c)
  BY <1>1, <1>2, OnTop
<1>4. /\ curr_state[c] = "TRANSFERING" /\ push_chan # c /\ status[c] = {} /\ ~Queued(c)
      /\ ~On("isr", "check", c)
      /\ \A y \in Contexts : ~On(y, "start", c)
      /\ \A y \in Contexts, s \in EndSteps : On(y, s, c) => y = "isr" /\ s = "rest"
  BY <1>1, <1>3 DEF StartInv, EndInv, OnceInv, HeadInv, EngineInv, EndSteps
<1>5. /\ StackType' /\ Injectives'
      /\ \A y \in Contexts : \A s, d :
           On(y, s, d)' <=> \/ On(y, s, d) /\ ~(y = "isr" /\ s = "rest" /\ d = c)
                            \/ y = "isr" /\ s = "check" /\ d = c
  BY <1>1, <1>2, <1>4, Followed DEF Steps, Hooks, Timers
<1>6. /\ curr_state' \in [Chans -> States] /\ curr_state'[c] = "DONE"
      /\ \A d \in Chans : d # c => curr_state'[d] = curr_state[d]
      /\ frame_type'[c] = "none"
      /\ \A d \in Chans : d # c => frame_type'[d] = frame_type[d]
  BY DEF TypeInv, Becomes, States
<1>7. (\A d : Queued(d)' <=> Queued(d)) /\ IsInjective(service_queue)'
  BY Kept DEF engineVars, EngineInv
<1>8. PoolInv'
  BY Untouched DEF msgVars
<1>9. StartInv'
  BY <1>4, <1>5, <1>6, <1>7 DEF StartInv, engineVars
<1>10. OnceInv'
  BY <1>4, <1>5 DEF OnceInv, EndSteps
<1>11. EndInv'
  BY <1>4, <1>5, <1>6 DEF EndInv, EndSteps, engineVars
<1>12. EngineInv'
  BY <1>4, <1>5, <1>6, <1>7 DEF EngineInv, Starting, Escaping, engineVars
<1>13. EngineNotIdle'
  <2>1. \A y \in Contexts : On(y, "trigger", None) => On(y, "trigger", None)'
    BY <1>5
  <2> QED  BY <2>1 DEF EngineNotIdle, On, Trigger, engineVars
<1>14. CallInv'
  BY <1>1, <1>4, <1>5, <1>6 DEF CallInv, userVars
<1>15. HeadInv'
  BY <1>4, <1>6 DEF HeadInv, Off, userVars, engineVars
<1> QED  BY <1>4, <1>5, <1>6, <1>8, <1>9, <1>10, <1>11, <1>12, <1>13, <1>14, <1>15

LEMMA FrameReadyStep ==
  ASSUME IInv, NEW c \in Chans, FrameReady(c)
  PROVE  IInv'
<1>1. /\ TypeInv /\ HeldInv /\ PoolInv /\ Injectives /\ StartInv /\ OnceInv /\ EndInv
      /\ EngineInv /\ EngineNotIdle /\ CallInv /\ HeadInv /\ ReaderInv
  BY Parts
<1>2. /\ UNCHANGED <<pending, done, opened_flag, status, force_i, gop_start, b_flush,
                     reader, engineVars, msgVars, userVars>>
      /\ frame_type[c] # "none" /\ b_flush[c] = {}
  BY DEF FrameReady
<1>3. /\ StackType' /\ PoolInv' /\ Injectives' /\ StartInv' /\ OnceInv' /\ EndInv'
      /\ EngineInv' /\ EngineNotIdle' /\ CallInv' /\ HeadInv'
      /\ curr_state' \in [Chans -> States] /\ curr_state'[c] = "DONE"
      /\ curr_state[c] = "TRANSFERING"
      /\ \A d \in Chans : d # c => curr_state'[d] = curr_state[d]
  BY <1>1, <1>2, RestStep DEF FrameReady, AfterPicture
<1>4. /\ frame_type' \in [Chans -> {"none", "I", "P"}] /\ frame_type'[c] = "none"
      /\ \A d \in Chans : d # c => frame_type'[d] = frame_type[d]
      /\ lost' \in [Chans -> BOOLEAN] /\ lost'[c] = (lost[c] /\ frame_type[c] # "I")
      /\ \A d \in Chans : d # c => lost'[d] = lost[d]
      /\ frame_type[c] \in {"I", "P"}
  BY <1>1, <1>2 DEF FrameReady, TypeInv
<1>5. /\ frame_queue' \in [Chans -> Seq({"I", "P"})] /\ frame_queue'[c] # <<>>
      /\ Len(frame_queue'[c]) = Len(frame_queue[c]) + 1
      /\ \A d \in Chans : d # c => frame_queue'[d] = frame_queue[d]
  <2> DEFINE S == {"I", "P"}
  <2>1. PICK e \in S : e = frame_type[c]
    BY <1>4
  <2>2. frame_queue \in [Chans -> Seq(S)]
    BY <1>1 DEF TypeInv
  <2>3. frame_queue' = [frame_queue EXCEPT ![c] = Append(@, e)]
    BY <2>1 DEF FrameReady
  <2> HIDE DEF S
  <2>4. PICK t \in Seq(S) : t = Append(frame_queue[c], e)
    BY <2>2, Appended
  <2>5. t # <<>> /\ Len(t) = Len(frame_queue[c]) + 1
    BY <2>2, <2>4, Appended
  <2>6. frame_queue' = [frame_queue EXCEPT ![c] = t]
    BY <2>3, <2>4
  <2>7. frame_queue' \in [Chans -> Seq(S)]
    BY <2>2, <2>6
  <2> QED  BY <2>2, <2>5, <2>6, <2>7 DEF S
<1>6. TypeInv'
  BY <1>1, <1>2, <1>3, <1>4, <1>5 DEF TypeInv, engineVars, msgVars, userVars
<1>7. HeldInv'
  <2> SUFFICES ASSUME NEW d \in Chans PROVE Held(d)' <= FRAMES
    BY DEF HeldInv
  <2> DEFINE n == Len(frame_queue[d])
             r == IF reader[d] THEN 1 ELSE 0
  <2>1. n \in Nat /\ r \in Nat /\ Held(d) <= FRAMES
    BY <1>1 DEF TypeInv, HeldInv
  <2>2. CASE d # c
    BY <1>2, <1>4, <1>5, <2>1, <2>2 DEF Held
  <2>3. CASE d = c
    <3>1. Held(d) = 1 + n + r
      BY <1>2, <2>3 DEF Held
    <3>2. Held(d)' = 0 + (n + 1) + r
      BY <1>2, <1>4, <1>5, <2>3 DEF Held
    <3> HIDE DEF n, r
    <3> QED  BY <2>1, <3>1, <3>2
  <2> QED  BY <2>2, <2>3
<1>8. ReaderInv'
  <2>1. pc[c] # "closed"
    BY <1>1, <1>3 DEF CallInv
  <2> QED  BY <1>1, <1>2, <1>3, <1>4, <1>5, <2>1 DEF ReaderInv, userVars
<1> QED  BY <1>3, <1>6, <1>7, <1>8 DEF IInv, StackInv

LEMMA FrameDroppedStep ==
  ASSUME IInv, NEW c \in Chans, FrameDropped(c)
  PROVE  IInv'
<1>1. /\ TypeInv /\ HeldInv /\ PoolInv /\ Injectives /\ StartInv /\ OnceInv /\ EndInv
      /\ EngineInv /\ EngineNotIdle /\ CallInv /\ HeadInv /\ ReaderInv
  BY Parts
<1>2. UNCHANGED <<pending, done, opened_flag, status, gop_start, readVars, engineVars,
                  msgVars, userVars>>
  BY DEF FrameDropped
<1>3. /\ StackType' /\ PoolInv' /\ Injectives' /\ StartInv' /\ OnceInv' /\ EndInv'
      /\ EngineInv' /\ EngineNotIdle' /\ CallInv' /\ HeadInv'
      /\ curr_state' \in [Chans -> States] /\ curr_state'[c] = "DONE"
      /\ curr_state[c] = "TRANSFERING"
      /\ \A d \in Chans : d # c => curr_state'[d] = curr_state[d]
  BY <1>1, <1>2, RestStep DEF FrameDropped, AfterPicture
<1>4. /\ frame_type' \in [Chans -> {"none", "I", "P"}] /\ frame_type'[c] = "none"
      /\ \A d \in Chans : d # c => frame_type'[d] = frame_type[d]
      /\ lost' \in [Chans -> BOOLEAN] /\ lost'[c] = TRUE
      /\ \A d \in Chans : d # c => lost'[d] = lost[d]
      /\ force_i' \in [Chans -> BOOLEAN] /\ force_i'[c] = TRUE
      /\ \A d \in Chans : d # c => force_i'[d] = force_i[d]
      /\ b_flush' \in [Chans -> SUBSET {"producer", "consumer"}]
      /\ b_flush'[c] = b_flush[c] \ {"producer"}
      /\ \A d \in Chans : d # c => b_flush'[d] = b_flush[d]
  BY <1>1, <1>2 DEF FrameDropped, TypeInv, FlushProducer, ForceI
<1>5. TypeInv'
  BY <1>1, <1>2, <1>3, <1>4 DEF TypeInv, readVars, engineVars, msgVars, userVars
<1>6. HeldInv'
  BY <1>1, <1>2, <1>4, HeldLess DEF readVars
<1>7. ReaderInv'
  BY <1>1, <1>2, <1>3, <1>4 DEF ReaderInv, readVars, userVars
<1> QED  BY <1>3, <1>5, <1>6, <1>7 DEF IInv, StackInv

LEMMA UnlockStep ==
  ASSUME IInv, NEW x \in Contexts, NEW c \in Chans, Unlock(x, c)
  PROVE  IInv'
<1>1. TypeInv /\ StackType /\ Injectives /\ PoolInv
  BY Parts DEF TypeInv
<1>2. /\ UNCHANGED <<fsmVars, status, frameVars, readVars, engineVars, timerVars, msg_queue,
                     userVars>>
      /\ taken' \in {taken, None}
      /\ stack[x] # <<>> /\ stack[x][1] = <<"unlock", c>> /\ Return(x, <<>>)
  BY DEF Unlock, Top
<1>3. /\ StackType' /\ Injectives'
      /\ \A y \in Contexts : \A s, d :
           On(y, s, d)' <=> On(y, s, d) /\ ~(y = x /\ s = "unlock" /\ d = c)
  BY <1>1, <1>2, Finished
<1>4. \A y \in Contexts, s \in EndSteps \cup {"start", "trigger"} : \A d :
        On(y, s, d)' <=> On(y, s, d)
  BY <1>3 DEF EndSteps
<1>5. /\ timers' \in [Chans -> SUBSET Timers] /\ timer_id' \in [Chans -> SUBSET Timers]
      /\ msg_queue' \in Seq(Chans) /\ taken' \in Chans \cup {None}
  BY <1>1, <1>2 DEF timerVars, TypeInv
<1>6. PoolInv'
  BY <1>1, <1>2, EncChanAssumption DEF PoolInv, TypeInv
<1> QED  BY <1>2, <1>3, <1>4, <1>5, <1>6, MsgStep

\* A request for a head is a message, or a timer that will send it, or is dropped for the
\* timer that there is.
LEMMA Asked ==
  ASSUME TypeInv, PoolInv, NEW c \in Chans, GenReqMsg(c), taken' = taken
  PROVE  /\ PoolInv' /\ msg_queue' \in Seq(Chans)
         /\ timers' \in [Chans -> SUBSET Timers] /\ timer_id' \in [Chans -> SUBSET Timers]
         /\ \A d : Contains(msg_queue, d) => Contains(msg_queue', d)
         /\ \A d \in Chans : /\ timers[d] \subseteq timers'[d]
                             /\ timer_id'[d] \subseteq timer_id[d] \cup timers'[d]
         /\ \/ "nonblock" \in timer_id[c] \/ "nonblock" \in timers'[c]
            \/ Contains(msg_queue', c)
<1>1. CASE UNCHANGED <<timerVars, msg_queue>> /\ "nonblock" \in timer_id[c]
  <2>1. timers' = timers /\ timer_id' = timer_id /\ msg_queue' = msg_queue
    BY <1>1 DEF timerVars
  <2>2. PoolInv'
    BY <2>1, Untouched
  <2> QED  BY <1>1, <2>1, <2>2 DEF TypeInv
<1>2. CASE MsgFree /\ msg_queue' = Append(msg_queue, c) /\ UNCHANGED timerVars
  BY <1>2, Sent DEF TypeInv, timerVars
<1>3. CASE AddTimer(c, "nonblock") /\ UNCHANGED msg_queue
  <2>1. PoolInv'
    BY <1>3, Untouched
  <2>2. /\ timers' \in [Chans -> SUBSET Timers] /\ timer_id' \in [Chans -> SUBSET Timers]
        /\ timers'[c] = timers[c] \cup {"nonblock"}
        /\ timer_id'[c] = timer_id[c] \cup {"nonblock"}
        /\ \A d \in Chans : d # c => timers'[d] = timers[d] /\ timer_id'[d] = timer_id[d]
    BY <1>3, SetTimer DEF Timers
  <2> QED  BY <1>3, <2>1, <2>2 DEF TypeInv
<1> QED  BY <1>1, <1>2, <1>3 DEF GenReqMsg

LEMMA DeliverStep ==
  ASSUME IInv, NEW x \in Contexts, NEW c \in Chans, Deliver(x, c)
  PROVE  IInv'
<1>1. /\ TypeInv /\ HeldInv /\ PoolInv /\ Injectives /\ StartInv /\ OnceInv /\ EndInv
      /\ EngineInv /\ EngineNotIdle /\ CallInv /\ HeadInv /\ ReaderInv
  BY Parts
<1>2. UNCHANGED <<pending, done, opened_flag, status, frameVars, readVars, engineVars,
                  taken, userVars>>
  BY DEF Deliver
<1>3. /\ StackType /\ stack[x] # <<>> /\ stack[x][1] = <<"deliver", c>> /\ Return(x, <<>>)
  BY <1>1 DEF TypeInv, Deliver, Top
<1>4. On(x, "deliver", c)
  BY <1>3, OnTop
<1>5. /\ StackType' /\ Injectives'
      /\ \A y \in Contexts : \A s, d :
           On(y, s, d)' <=> On(y, s, d) /\ ~(y = x /\ s = "deliver" /\ d = c)
  BY <1>1, <1>3, Finished
<1>6. /\ \A y \in Contexts : ~On(y, "start", c)
      /\ \A y \in Contexts, s \in EndSteps : On(y, s, c) => y = x /\ s = "deliver"
      /\ push_chan # c /\ ~Queued(c)
  BY <1>1, <1>4 DEF StartInv, EndInv, OnceInv, EngineInv, EndSteps
<1>7. /\ curr_state' \in [Chans -> States]
      /\ \A d \in Chans : d # c => curr_state'[d] = curr_state[d]
      /\ \/ curr_state'[c] = curr_state[c]
         \/ curr_state[c] = "DONE" /\ curr_state'[c] = "IDLE"
  BY <1>1 DEF Deliver, TypeInv, Becomes, States
<1>8. /\ PoolInv' /\ msg_queue' \in Seq(Chans)
      /\ timers' \in [Chans -> SUBSET Timers] /\ timer_id' \in [Chans -> SUBSET Timers]
  <2>1. CASE curr_state[c] = "DONE"
    <3>1. GenReqMsg(c) /\ taken' = taken
      BY <1>2, <2>1 DEF Deliver
    <3> QED  BY <1>1, <3>1, Asked, Zenon
  <2>2. CASE curr_state[c] # "DONE"
    BY <1>1, <1>2, <2>2, Untouched DEF Deliver, TypeInv, timerVars
  <2> QED  BY <2>1, <2>2
<1>9. TypeInv' /\ HeldInv'
  BY <1>1, <1>2, <1>5, <1>7, <1>8, Untouched
     DEF TypeInv, frameVars, readVars, engineVars, userVars
<1>10. (\A d : Queued(d)' <=> Queued(d)) /\ IsInjective(service_queue)'
  BY <1>1, <1>2, Kept DEF engineVars, EngineInv
<1>11. StartInv'
  BY <1>1, <1>2, <1>5, <1>6, <1>7, <1>10 DEF StartInv, engineVars
<1>12. OnceInv'
  BY <1>1, <1>5 DEF OnceInv
<1>13. EndInv'
  BY <1>1, <1>2, <1>5, <1>6, <1>7 DEF EndInv, EndSteps, Bit, engineVars
<1>14. EngineInv'
  BY <1>1, <1>2, <1>5, <1>6, <1>7, <1>10 DEF EngineInv, Starting, Escaping, engineVars
<1>15. EngineNotIdle'
  <2>1. \A y \in Contexts : On(y, "trigger", None) => On(y, "trigger", None)'
    BY <1>5
  <2> QED  BY <1>1, <1>2, <2>1 DEF EngineNotIdle, On, Trigger, engineVars
<1>16. CallInv'
  <2>1. curr_state[c] = "DONE" => pending[c] = "none"
    BY <1>1, <1>6 DEF CallInv, EndSteps
  <2> QED  BY <1>1, <1>2, <1>5, <1>7, <2>1 DEF CallInv, userVars
<1>17. HeadInv'
  BY <1>1, <1>2, <1>6, <1>7 DEF HeadInv, CallInv, Off, frameVars, engineVars, userVars
<1>18. ReaderInv'
  BY <1>1, <1>2, <1>7 DEF ReaderInv, frameVars, readVars, userVars
<1> QED  BY <1>5, <1>8, <1>9, <1>11, <1>12, <1>13, <1>14, <1>15, <1>16, <1>17, <1>18
         DEF IInv, StackInv

\* A call that waited for the end of the picture is answered: only then is the channel
\* in DONE, and its call still where it was.
LEMMA CheckPendingStep ==
  ASSUME IInv, NEW x \in Contexts, NEW c \in Chans, CheckPending(x, c)
  PROVE  IInv'
<1>1. /\ TypeInv /\ HeldInv /\ PoolInv /\ Injectives /\ StartInv /\ OnceInv /\ EndInv
      /\ EngineInv /\ EngineNotIdle /\ CallInv /\ HeadInv /\ ReaderInv
  BY Parts
<1>2. UNCHANGED <<status, frameVars, readVars, engineVars, msgVars, userVars>>
  BY DEF CheckPending
<1>3. /\ StackType /\ stack[x] # <<>> /\ stack[x][1] = <<"check", c>>
  BY <1>1 DEF TypeInv, CheckPending, Top
<1>4. On(x, "check", c)
  BY <1>3, OnTop
<1>5. /\ \A y \in Contexts : ~On(y, "start", c)
      /\ \A y \in Contexts, s \in EndSteps : On(y, s, c) => y = x /\ s = "check"
      /\ push_chan # c /\ ~Queued(c) /\ Bit(x) \notin status[c]
      /\ curr_state[c] \notin {"STANDBY", "RUNNING", "TRANSFERING"}
      /\ pending[c] # "none" => curr_state[c] = "DONE"
      /\ pending[c] \in {"none", "suspend", "resume", "close"}
  BY <1>1, <1>4 DEF StartInv, EndInv, OnceInv, EngineInv, CallInv, TypeInv, EndSteps
<1>6. /\ StackType' /\ Injectives'
      /\ \A y \in Contexts : \A s, d : s # "deliver" =>
           (On(y, s, d)' <=> On(y, s, d) /\ ~(y = x /\ s = "check" /\ d = c))
      /\ \A y \in Contexts : \A d : On(y, "deliver", d)' =>
           On(y, "deliver", d) \/ (y = x /\ d = c)
  <2>1. CASE Return(x, <<>>)
    <3>1. /\ StackType' /\ Injectives'
          /\ \A y \in Contexts : \A s, d :
               On(y, s, d)' <=> On(y, s, d) /\ ~(y = x /\ s = "check" /\ d = c)
      BY <1>1, <1>3, <2>1, Finished
    <3> QED  BY <3>1
  <2>2. CASE Return(x, <<<<"deliver", c>>>>)
    <3>1. ~On(x, "deliver", c)
      BY <1>5 DEF EndSteps
    <3>2. /\ StackType' /\ Injectives'
          /\ \A y \in Contexts : \A s, d :
               On(y, s, d)' <=> \/ On(y, s, d) /\ ~(y = x /\ s = "check" /\ d = c)
                                \/ y = x /\ s = "deliver" /\ d = c
      BY <1>1, <1>3, <2>2, <3>1, Followed DEF Steps, Hooks, Timers
    <3> QED  BY <3>2
  <2> QED  BY <1>5, <2>1, <2>2 DEF CheckPending
<1>7. /\ curr_state' \in [Chans -> States]
      /\ pending' \in [Chans -> {"none", "suspend", "resume", "close"}]
      /\ done' \in [Chans -> SUBSET {"suspend", "resume", "close"}]
      /\ opened_flag' \in [Chans -> BOOLEAN]
      /\ \A d \in Chans : d # c => /\ curr_state'[d] = curr_state[d]
                                   /\ pending'[d] = pending[d] /\ done'[d] = done[d]
                                   /\ opened_flag'[d] = opened_flag[d]
      /\ pending'[c] = "none"
      /\ \/ /\ pending[c] = "none" /\ done'[c] = done[c] /\ curr_state'[c] = curr_state[c]
            /\ opened_flag'[c] = opened_flag[c]
         \/ /\ pending[c] = "suspend" /\ done'[c] = done[c] \cup {"suspend"}
            /\ curr_state'[c] = "SUSPEND" /\ opened_flag'[c] = opened_flag[c]
         \/ /\ pending[c] = "resume" /\ done'[c] = done[c] \cup {"resume"}
            /\ curr_state'[c] = curr_state[c] /\ opened_flag'[c] = opened_flag[c]
         \/ /\ pending[c] = "close" /\ done'[c] = done[c] \cup {"close"}
            /\ curr_state'[c] = "UNREGISTER" /\ opened_flag'[c] = FALSE
  <2>1. pending' = [pending EXCEPT ![c] = "none"]
    BY DEF CheckPending
  <2>2. CASE pending[c] = "none"
    <3>1. UNCHANGED <<curr_state, done, opened_flag>>
      BY <2>2 DEF CheckPending
    <3> QED  BY <1>1, <2>1, <2>2, <3>1 DEF TypeInv
  <2>3. CASE pending[c] = "suspend"
    <3>1. Becomes(c, "SUSPEND") /\ Complete(c, "suspend") /\ UNCHANGED opened_flag
      BY <2>3 DEF CheckPending
    <3> QED  BY <1>1, <2>1, <2>3, <3>1 DEF TypeInv, Becomes, Complete, States
  <2>4. CASE pending[c] = "resume"
    <3>1. Complete(c, "resume") /\ UNCHANGED <<curr_state, opened_flag>>
      BY <2>4 DEF CheckPending
    <3> QED  BY <1>1, <2>1, <2>4, <3>1 DEF TypeInv, Complete
  <2>5. CASE pending[c] = "close"
    <3>1. /\ Becomes(c, "UNREGISTER") /\ Complete(c, "close")
          /\ opened_flag' = [opened_flag EXCEPT ![c] = FALSE]
      BY <2>5 DEF CheckPending
    <3> QED  BY <1>1, <2>1, <2>5, <3>1 DEF TypeInv, Becomes, Complete, States
  <2> QED  BY <1>5, <2>2, <2>3, <2>4, <2>5
<1>8. /\ pending[c] = "suspend" => pc[c] = "suspending"
      /\ pending[c] = "close" => pc[c] = "closing"
      /\ pending[c] = "resume" => pc[c] = "enable"
  BY <1>1 DEF CallInv
<1>9. TypeInv' /\ HeldInv' /\ PoolInv'
  BY <1>1, <1>2, <1>6, <1>7, Untouched
     DEF TypeInv, frameVars, readVars, engineVars, msgVars, userVars
<1>10. (\A d : Queued(d)' <=> Queued(d)) /\ IsInjective(service_queue)'
  BY <1>1, <1>2, Kept DEF engineVars, EngineInv
<1>11. StartInv'
  BY <1>1, <1>2, <1>5, <1>6, <1>7, <1>10 DEF StartInv, engineVars
<1>12. OnceInv'
  BY <1>1, <1>5, <1>6 DEF OnceInv, EndSteps
<1>13. EndInv'
  <2>1. curr_state'[c] \notin {"STANDBY", "RUNNING", "TRANSFERING"}
    BY <1>5, <1>7
  <2> QED  BY <1>1, <1>2, <1>5, <1>6, <1>7, <2>1 DEF EndInv, EndSteps, Bit, engineVars
<1>14. EngineInv'
  <2>1. curr_state'[c] \notin {"STANDBY", "RUNNING", "TRANSFERING"}
    BY <1>5, <1>7
  <2> QED  BY <1>1, <1>2, <1>5, <1>6, <1>7, <1>10, <2>1
           DEF EngineInv, Starting, Escaping, engineVars
<1>15. EngineNotIdle'
  <2>1. \A y \in Contexts : On(y, "trigger", None) => On(y, "trigger", None)'
    BY <1>6
  <2> QED  BY <1>1, <1>2, <2>1 DEF EngineNotIdle, On, Trigger, engineVars
<1>16. CallInv'
  <2>1. \A y \in Contexts, d \in Chans : d # c => (On(y, "check", d)' <=> On(y, "check", d))
    BY <1>6
  <2> QED  BY <1>1, <1>2, <1>7, <1>8, <2>1 DEF CallInv, userVars
<1>17. HeadInv'
  BY <1>1, <1>2, <1>5, <1>7, <1>8
     DEF HeadInv, Off, frameVars, engineVars, userVars
<1>18. ReaderInv'
  BY <1>1, <1>2, <1>5, <1>7, <1>8 DEF ReaderInv, frameVars, readVars, userVars
<1> QED  BY <1>6, <1>9, <1>11, <1>12, <1>13, <1>14, <1>15, <1>16, <1>17, <1>18
         DEF IInv, StackInv

\* The calls.  They leave the stacks alone.  A channel that is not busy is off at once:
\* no context works for it but one that comes from the end of its last picture.
LEMMA WithdrawStep ==
  ASSUME TypeInv, StartInv, EndInv, EngineInv, EngineNotIdle, NEW c \in Chans, ~Busy(c),
         Withdraw(c), curr_state' \in [Chans -> States],
         curr_state'[c] \in {"SUSPEND", "UNREGISTER"},
         \A d \in Chans : d # c => curr_state'[d] = curr_state[d],
         UNCHANGED <<status, curr_consumer, push_chan, stack>>
  PROVE  /\ StartInv' /\ EndInv' /\ EngineInv' /\ EngineNotIdle'
         /\ service_queue' \in Seq(Chans) /\ push_chan # c
         /\ curr_state[c] \notin {"RUNNING", "TRANSFERING"}
<1>1. \A y \in Contexts : \A s, d : On(y, s, d)' <=> On(y, s, d)
  BY Kept
<1>2. /\ service_queue' \in Seq(Chans) /\ IsInjective(service_queue)'
      /\ \A d : Queued(d)' <=> Queued(d) /\ d # c
      /\ service_queue' # <<>> => service_queue # <<>>
  <2>1. service_queue \in Seq(Chans) /\ IsInjective(service_queue)
        /\ service_queue' = Without(service_queue, c)
    BY DEF TypeInv, EngineInv, Withdraw
  <2> QED  BY <2>1, Withdrawn DEF Queued
<1>3. /\ curr_state[c] \notin {"RUNNING", "TRANSFERING"}
      /\ curr_state[c] = "STANDBY" => Queued(c)
  BY DEF Busy, Queued
<1>4. /\ push_chan # c
      /\ \A y \in Contexts : ~On(y, "start", c) /\ ~On(y, "escape", c) /\ ~On(y, "rest", c)
  BY <1>3 DEF StartInv, EndInv, EngineInv
<1>5. StartInv'
  BY <1>1, <1>2, <1>4 DEF StartInv
<1>6. EndInv'
  BY <1>1, <1>4 DEF EndInv, Bit
<1>7. EngineInv'
  BY <1>1, <1>2, <1>4 DEF EngineInv, Starting, Escaping
<1>8. EngineNotIdle'
  BY <1>2 DEF EngineNotIdle
<1> QED  BY <1>2, <1>3, <1>4, <1>5, <1>6, <1>7, <1>8

LEMMA EmptiedQueue ==
  ASSUME NEW S, NEW q \in [Chans -> Seq(S)], NEW c \in Chans
  PROVE  /\ [q EXCEPT ![c] = <<>>] \in [Chans -> Seq(S)]
         /\ [q EXCEPT ![c] = <<>>][c] = <<>>
         /\ \A d \in Chans : d # c => [q EXCEPT ![c] = <<>>][d] = q[d]
<1>1. <<>> \in Seq(S)
  OBVIOUS
<1> DEFINE e == <<>>
<1> HIDE DEF e
<1>2. e \in Seq(S)
  BY <1>1 DEF e
<1>3. /\ [q EXCEPT ![c] = e] \in [Chans -> Seq(S)] /\ [q EXCEPT ![c] = e][c] = e
      /\ \A d \in Chans : d # c => [q EXCEPT ![c] = e][d] = q[d]
  BY <1>2
<1> QED  BY <1>3 DEF e

LEMMA OpenStep ==
  ASSUME IInv, NEW c \in Chans, Open(c)
  PROVE  IInv'
<1>1. /\ TypeInv /\ HeldInv /\ PoolInv /\ Injectives /\ StartInv /\ OnceInv /\ EndInv
      /\ EngineInv /\ EngineNotIdle /\ CallInv /\ HeadInv /\ ReaderInv
  BY Parts
<1>2. /\ UNCHANGED <<pending, frame_type, b_flush, lost, readVars, engineVars, msgVars, stack>>
      /\ pc[c] = "closed"
  BY DEF Open
<1>3. /\ pc' \in [Chans -> Pcs] /\ pc'[c] = "open"
      /\ curr_state' \in [Chans -> States] /\ curr_state'[c] = "SUSPEND"
      /\ opened_flag' \in [Chans -> BOOLEAN] /\ opened_flag'[c] = TRUE
      /\ status' \in [Chans -> SUBSET {"head", "ad"}] /\ status'[c] = {}
      /\ force_i' \in [Chans -> BOOLEAN] /\ force_i'[c] = TRUE
      /\ gop_start' \in [Chans -> BOOLEAN] /\ gop_start'[c] = TRUE
      /\ done' \in [Chans -> SUBSET {"suspend", "resume", "close"}]
      /\ done'[c] = {"suspend", "resume"} /\ polling' \in [Chans -> BOOLEAN]
      /\ \A d \in Chans : d # c =>
           /\ pc'[d] = pc[d] /\ curr_state'[d] = curr_state[d] /\ done'[d] = done[d]
           /\ opened_flag'[d] = opened_flag[d] /\ status'[d] = status[d]
           /\ force_i'[d] = force_i[d] /\ gop_start'[d] = gop_start[d]
  BY <1>1 DEF Open, TypeInv, Goes, Becomes, Pcs, States
<1>4. /\ curr_state[c] = "UNREGISTER" /\ push_chan # c /\ ~Queued(c)
      /\ \A y \in Contexts : ~On(y, "start", c) /\ ~On(y, "escape", c) /\ ~On(y, "rest", c)
      /\ frame_type[c] = "none" /\ pending[c] = "none" /\ lost[c]
  BY <1>1, <1>2, CallOf DEF CallInv, EngineInv, StartInv, EndInv, HeadInv, ReaderInv, Off
<1>5. /\ \A y \in Contexts : \A s, d : On(y, s, d)' <=> On(y, s, d)
      /\ StackType' /\ Injectives' /\ (\A d : Queued(d)' <=> Queued(d))
      /\ IsInjective(service_queue)'
  BY <1>1, <1>2, Kept DEF TypeInv, EngineInv, engineVars
<1>6. HeldInv' /\ PoolInv' /\ OnceInv' /\ EngineNotIdle'
  BY <1>1, <1>2, Untouched DEF readVars, msgVars, engineVars
<1>7. TypeInv'
  BY <1>1, <1>2, <1>3, <1>5 DEF TypeInv, readVars, engineVars, msgVars
<1>8. StartInv'
  BY <1>1, <1>2, <1>3, <1>4, <1>5 DEF StartInv, engineVars
<1>9. EndInv'
  BY <1>1, <1>2, <1>3, <1>4, <1>5 DEF EndInv, Bit, engineVars
<1>10. EngineInv'
  BY <1>1, <1>2, <1>3, <1>4, <1>5 DEF EngineInv, Starting, Escaping, engineVars
<1>11. CallInv'
  BY <1>1, <1>2, <1>3, <1>4, <1>5 DEF CallInv
<1>12. HeadInv'
  BY <1>1, <1>2, <1>3, <1>4 DEF HeadInv, Off, engineVars
<1>13. ReaderInv'
  BY <1>1, <1>2, <1>3, <1>4 DEF ReaderInv, readVars
<1> QED  BY <1>5, <1>6, <1>7, <1>8, <1>9, <1>10, <1>11, <1>12, <1>13
         DEF IInv, StackInv

LEMMA ResumeStep ==
  ASSUME IInv, NEW c \in Chans, Resume(c)
  PROVE  IInv'
<1>1. /\ TypeInv /\ HeldInv /\ PoolInv /\ Injectives /\ StartInv /\ OnceInv /\ EndInv
      /\ EngineInv /\ EngineNotIdle /\ CallInv /\ HeadInv /\ ReaderInv
  BY Parts
<1>2. /\ UNCHANGED <<opened_flag, status, frame_type, force_i, gop_start, b_flush,
                     readVars, engineVars, taken, stack, polling>>
      /\ pc[c] = "open"
  BY DEF Resume
<1>3. /\ pc' \in [Chans -> Pcs] /\ pc'[c] = "enable"
      /\ \A d \in Chans : d # c => pc'[d] = pc[d]
  BY <1>1 DEF Resume, TypeInv, Goes, Pcs
<1>4. pending[c] = "none"
  BY <1>1, <1>2, CallOf
<1>5. /\ \A y \in Contexts : \A s, d : On(y, s, d)' <=> On(y, s, d)
      /\ StackType' /\ Injectives' /\ (\A d : Queued(d)' <=> Queued(d))
      /\ IsInjective(service_queue)'
  BY <1>1, <1>2, Kept DEF TypeInv, EngineInv, engineVars
<1>6. HeldInv' /\ OnceInv' /\ EngineNotIdle'
  BY <1>1, <1>2, Untouched DEF readVars, engineVars
<1>7. CASE curr_state[c] \in {"SUSPEND", "DONE"} /\ curr_state' # curr_state
  <2>1. /\ Becomes(c, "IDLE") /\ GenReqMsg(c) /\ UNCHANGED <<pending, done>>
        /\ lost' = [lost EXCEPT ![c] = @ \/ curr_state[c] = "SUSPEND"]
    BY <1>7 DEF Resume
  <2>2. /\ curr_state' \in [Chans -> States] /\ curr_state'[c] = "IDLE"
        /\ lost' \in [Chans -> BOOLEAN]
        /\ lost'[c] = (lost[c] \/ curr_state[c] = "SUSPEND")
        /\ \A d \in Chans : d # c => curr_state'[d] = curr_state[d] /\ lost'[d] = lost[d]
    BY <1>1, <2>1 DEF TypeInv, Becomes, States
  <2>3. /\ PoolInv' /\ msg_queue' \in Seq(Chans)
        /\ timers' \in [Chans -> SUBSET Timers] /\ timer_id' \in [Chans -> SUBSET Timers]
    BY <1>1, <1>2, <2>1, Asked, Zenon
  <2>4. /\ push_chan # c /\ ~Queued(c) /\ frame_type[c] = "none"
        /\ curr_state[c] = "SUSPEND" => lost[c]
        /\ \A y \in Contexts : ~On(y, "start", c) /\ ~On(y, "escape", c) /\ ~On(y, "rest", c)
    BY <1>1, <1>2, <1>7 DEF EngineInv, StartInv, EndInv, HeadInv, ReaderInv, Off
  <2>5. TypeInv'
    BY <1>1, <1>2, <1>3, <1>5, <2>1, <2>2, <2>3 DEF TypeInv, readVars, engineVars
  <2>6. StartInv'
    BY <1>1, <1>2, <1>5, <2>2, <2>4 DEF StartInv, engineVars
  <2>7. EndInv'
    BY <1>1, <1>2, <1>5, <2>2, <2>4 DEF EndInv, Bit, engineVars
  <2>8. EngineInv'
    BY <1>1, <1>2, <1>5, <2>2, <2>4 DEF EngineInv, Starting, Escaping, engineVars
  <2>9. CallInv'
    BY <1>1, <1>2, <1>3, <1>4, <1>5, <1>7, <2>1, <2>2 DEF CallInv
  <2>10. HeadInv'
    BY <1>1, <1>2, <1>3, <2>2, <2>4 DEF HeadInv, Off, engineVars
  <2>11. ReaderInv'
    BY <1>1, <1>2, <1>3, <2>2, <2>4 DEF ReaderInv, readVars
  <2> QED  BY <1>5, <1>6, <2>3, <2>5, <2>6, <2>7, <2>8, <2>9, <2>10, <2>11
           DEF IInv, StackInv
<1>8. CASE curr_state' = curr_state
  <2>1. /\ UNCHANGED <<lost, timerVars, msg_queue>>
        /\ curr_state[c] # "SUSPEND"
        /\ \/ /\ Busy(c) /\ Raise(c, "resume")
              /\ done' = [done EXCEPT ![c] = @ \ {"resume"}]
           \/ UNCHANGED <<pending, done>>
    <3>1. ASSUME Becomes(c, "IDLE"), curr_state[c] \in {"SUSPEND", "DONE"} PROVE FALSE
      BY <1>1, <1>8, <3>1 DEF Becomes, TypeInv
    <3>2. Busy(c) => curr_state[c] # "SUSPEND"
      BY DEF Busy
    <3> QED  BY <3>1, <3>2 DEF Resume
  <2>2. /\ pending' \in [Chans -> {"none", "suspend", "resume", "close"}]
        /\ done' \in [Chans -> SUBSET {"suspend", "resume", "close"}]
        /\ \A d \in Chans : d # c => pending'[d] = pending[d] /\ done'[d] = done[d]
        /\ \/ /\ pending'[c] = "resume" /\ done'[c] = done[c] \ {"resume"}
              /\ curr_state[c] \in {"STANDBY", "RUNNING", "TRANSFERING"}
           \/ pending'[c] = pending[c] /\ done'[c] = done[c]
    <3>1. CASE UNCHANGED <<pending, done>>
      BY <1>1, <3>1 DEF TypeInv
    <3>2. CASE /\ Busy(c) /\ Raise(c, "resume")
               /\ done' = [done EXCEPT ![c] = @ \ {"resume"}]
      BY <1>1, <3>2 DEF TypeInv, Raise, Busy
    <3> QED  BY <2>1, <3>1, <3>2
  <2>3. PoolInv' /\ StartInv' /\ EndInv' /\ EngineInv'
    BY <1>1, <1>2, <1>8, <2>1, Untouched DEF engineVars
  <2>4. TypeInv'
    BY <1>1, <1>2, <1>3, <1>5, <1>8, <2>1, <2>2 DEF TypeInv, timerVars, readVars, engineVars
  <2>5. CallInv'
    BY <1>1, <1>2, <1>3, <1>4, <1>5, <1>8, <2>1, <2>2 DEF CallInv
  <2>6. HeadInv'
    BY <1>1, <1>2, <1>3, <1>8, <2>1 DEF HeadInv, Off, engineVars
  <2>7. ReaderInv'
    BY <1>1, <1>2, <1>3, <1>8, <2>1 DEF ReaderInv, readVars
  <2> QED  BY <1>5, <1>6, <2>3, <2>4, <2>5, <2>6, <2>7 DEF IInv, StackInv
<1> QED  BY <1>7, <1>8 DEF Resume

LEMMA ResumedStep ==
  ASSUME IInv, NEW c \in Chans, Resumed(c)
  PROVE  IInv'
<1>1. /\ TypeInv /\ HeldInv /\ PoolInv /\ Injectives /\ StartInv /\ OnceInv /\ EndInv
      /\ EngineInv /\ EngineNotIdle /\ CallInv /\ HeadInv /\ ReaderInv
  BY Parts
<1>2. /\ UNCHANGED <<fsmVars, status, frameVars, readVars, engineVars, msgVars, stack, polling>>
      /\ pc[c] = "enable" /\ "resume" \in done[c]
  BY DEF Resumed
<1>3. /\ pc' \in [Chans -> Pcs] /\ pc'[c] = "open"
      /\ \A d \in Chans : d # c => pc'[d] = pc[d]
  BY <1>1 DEF Resumed, TypeInv, Goes, Pcs
<1>4. /\ HeldInv' /\ PoolInv' /\ StartInv' /\ OnceInv' /\ EndInv' /\ EngineInv'
      /\ EngineNotIdle' /\ StackType' /\ Injectives'
  BY <1>1, <1>2, Untouched, Kept
     DEF fsmVars, frameVars, readVars, engineVars, msgVars, TypeInv
<1>5. TypeInv'
  BY <1>1, <1>2, <1>3, <1>4
     DEF TypeInv, fsmVars, frameVars, readVars, engineVars, msgVars
<1>6. CallInv'
  BY <1>1, <1>2, <1>3, Kept DEF CallInv, fsmVars
<1>7. HeadInv'
  BY <1>1, <1>2, <1>3 DEF HeadInv, CallInv, Off, fsmVars, frameVars, engineVars
<1>8. ReaderInv'
  BY <1>1, <1>2, <1>3 DEF ReaderInv, CallInv, fsmVars, frameVars, readVars
<1> QED  BY <1>4, <1>5, <1>6, <1>7, <1>8 DEF IInv, StackInv

LEMMA SuspendStep ==
  ASSUME IInv, NEW c \in Chans, Suspend(c)
  PROVE  IInv'
<1>1. /\ TypeInv /\ HeldInv /\ PoolInv /\ Injectives /\ StartInv /\ OnceInv /\ EndInv
      /\ EngineInv /\ EngineNotIdle /\ CallInv /\ HeadInv /\ ReaderInv
  BY Parts
<1>2. /\ UNCHANGED <<curr_state, pending, opened_flag, status, frameVars, readVars,
                     engineVars, msg_queue, taken, stack, polling>>
      /\ pc[c] = "open"
  BY DEF Suspend
<1>3. /\ pc' \in [Chans -> Pcs] /\ pc'[c] = "suspend"
      /\ done' \in [Chans -> SUBSET {"suspend", "resume", "close"}]
      /\ done'[c] = done[c] \ {"suspend"}
      /\ timers' \in [Chans -> SUBSET Timers] /\ timer_id' \in [Chans -> SUBSET Timers]
      /\ \A d \in Chans : d # c => pc'[d] = pc[d] /\ done'[d] = done[d]
  BY <1>1 DEF Suspend, DeleteTimers, TypeInv, Goes, Pcs
<1>4. /\ HeldInv' /\ PoolInv' /\ StartInv' /\ OnceInv' /\ EndInv' /\ EngineInv'
      /\ EngineNotIdle' /\ StackType' /\ Injectives'
  BY <1>1, <1>2, Untouched, Kept DEF frameVars, readVars, engineVars, TypeInv
<1>5. TypeInv'
  BY <1>1, <1>2, <1>3, <1>4 DEF TypeInv, frameVars, readVars, engineVars
<1>6. CallInv'
  BY <1>1, <1>2, <1>3, Kept, CallOf DEF CallInv
<1>7. HeadInv'
  BY <1>1, <1>2, <1>3 DEF HeadInv, Off, frameVars, engineVars
<1>8. ReaderInv'
  BY <1>1, <1>2, <1>3 DEF ReaderInv, frameVars, readVars
<1> QED  BY <1>4, <1>5, <1>6, <1>7, <1>8 DEF IInv, StackInv

LEMMA GenSuspendStep ==
  ASSUME IInv, NEW c \in Chans, GenSuspend(c)
  PROVE  IInv'
<1>1. /\ TypeInv /\ HeldInv /\ PoolInv /\ Injectives /\ StartInv /\ OnceInv /\ EndInv
      /\ EngineInv /\ EngineNotIdle /\ CallInv /\ HeadInv /\ ReaderInv
  BY Parts
<1>2. /\ UNCHANGED <<opened_flag, status, frameVars, readVars, curr_consumer, push_chan,
                     msgVars, stack, polling>>
      /\ pc[c] = "suspend"
  BY DEF GenSuspend
<1>3. /\ pc' \in [Chans -> Pcs] /\ pc'[c] = "suspending"
      /\ \A d \in Chans : d # c => pc'[d] = pc[d]
  BY <1>1 DEF GenSuspend, TypeInv, Goes, Pcs
<1>4. pending[c] = "none" /\ "suspend" \notin done[c] /\ "close" \notin done[c]
  BY <1>1, <1>2, CallOf DEF CallInv
<1>5. /\ \A y \in Contexts : \A s, d : On(y, s, d)' <=> On(y, s, d)
      /\ StackType' /\ Injectives'
  BY <1>1, <1>2, Kept DEF TypeInv
<1>6. HeldInv' /\ PoolInv' /\ OnceInv'
  BY <1>1, <1>2, Untouched DEF frameVars, readVars, msgVars
<1>7. CASE Busy(c)
  <2>1. Raise(c, "suspend") /\ UNCHANGED <<curr_state, done, service_queue>>
    BY <1>7 DEF GenSuspend
  <2>2. /\ pending' \in [Chans -> {"none", "suspend", "resume", "close"}]
        /\ pending'[c] = "suspend" /\ \A d \in Chans : d # c => pending'[d] = pending[d]
        /\ curr_state[c] \in {"STANDBY", "RUNNING", "TRANSFERING"}
    BY <1>1, <1>7, <2>1 DEF TypeInv, Raise, Busy
  <2>3. StartInv' /\ EndInv' /\ EngineInv' /\ EngineNotIdle'
    BY <1>1, <1>2, <2>1, Untouched
  <2>4. TypeInv'
    BY <1>1, <1>2, <1>3, <1>5, <2>1, <2>2 DEF TypeInv, frameVars, readVars, msgVars
  <2>5. CallInv'
    BY <1>1, <1>2, <1>3, <1>4, <1>5, <2>1, <2>2 DEF CallInv
  <2>6. HeadInv'
    BY <1>1, <1>2, <1>3, <2>1 DEF HeadInv, Off, frameVars
  <2>7. ReaderInv'
    BY <1>1, <1>2, <1>3, <2>1 DEF ReaderInv, frameVars, readVars
  <2> QED  BY <1>5, <1>6, <2>3, <2>4, <2>5, <2>6, <2>7 DEF IInv, StackInv
<1>8. CASE ~Busy(c)
  <2>1. Becomes(c, "SUSPEND") /\ Complete(c, "suspend") /\ Withdraw(c) /\ UNCHANGED pending
    BY <1>8 DEF GenSuspend
  <2>2. /\ curr_state' \in [Chans -> States] /\ curr_state'[c] = "SUSPEND"
        /\ done' \in [Chans -> SUBSET {"suspend", "resume", "close"}]
        /\ done'[c] = done[c] \cup {"suspend"}
        /\ \A d \in Chans : d # c => curr_state'[d] = curr_state[d] /\ done'[d] = done[d]
    BY <1>1, <2>1 DEF TypeInv, Becomes, Complete, States
  <2>3. /\ StartInv' /\ EndInv' /\ EngineInv' /\ EngineNotIdle'
        /\ service_queue' \in Seq(Chans) /\ push_chan # c
        /\ curr_state[c] \notin {"RUNNING", "TRANSFERING"}
    BY <1>1, <1>2, <1>8, <2>1, <2>2, WithdrawStep
  <2>4. TypeInv'
    BY <1>1, <1>2, <1>3, <1>5, <2>1, <2>2, <2>3 DEF TypeInv, frameVars, readVars, msgVars
  <2>5. CallInv'
    BY <1>1, <1>2, <1>3, <1>4, <1>5, <2>1, <2>2 DEF CallInv
  <2>6. HeadInv'
    BY <1>1, <1>2, <1>3, <2>2, <2>3 DEF HeadInv, Off, frameVars
  <2>7. ReaderInv'
    BY <1>1, <1>2, <1>3, <2>2, <2>3 DEF ReaderInv, frameVars, readVars
  <2> QED  BY <1>5, <1>6, <2>3, <2>4, <2>5, <2>6, <2>7 DEF IInv, StackInv
<1> QED  BY <1>7, <1>8

LEMMA GenCloseStep ==
  ASSUME IInv, NEW c \in Chans, GenClose(c)
  PROVE  IInv'
<1>1. /\ TypeInv /\ HeldInv /\ PoolInv /\ Injectives /\ StartInv /\ OnceInv /\ EndInv
      /\ EngineInv /\ EngineNotIdle /\ CallInv /\ HeadInv /\ ReaderInv
  BY Parts
<1>2. /\ UNCHANGED <<status, frameVars, readVars, curr_consumer, push_chan, msgVars, stack,
                     polling>>
      /\ pc[c] = "close"
  BY DEF GenClose
<1>3. /\ pc' \in [Chans -> Pcs] /\ pc'[c] = "closing"
      /\ \A d \in Chans : d # c => pc'[d] = pc[d]
  BY <1>1 DEF GenClose, TypeInv, Goes, Pcs
<1>4. pending[c] = "none" /\ "close" \notin done[c]
  BY <1>1, <1>2, CallOf DEF CallInv
<1>5. /\ \A y \in Contexts : \A s, d : On(y, s, d)' <=> On(y, s, d)
      /\ StackType' /\ Injectives'
  BY <1>1, <1>2, Kept DEF TypeInv
<1>6. HeldInv' /\ PoolInv' /\ OnceInv'
  BY <1>1, <1>2, Untouched DEF frameVars, readVars, msgVars
<1>7. CASE Busy(c)
  <2>1. Raise(c, "close") /\ UNCHANGED <<curr_state, done, opened_flag, service_queue>>
    BY <1>7 DEF GenClose
  <2>2. /\ pending' \in [Chans -> {"none", "suspend", "resume", "close"}]
        /\ pending'[c] = "close" /\ \A d \in Chans : d # c => pending'[d] = pending[d]
        /\ curr_state[c] \in {"STANDBY", "RUNNING", "TRANSFERING"}
    BY <1>1, <1>7, <2>1 DEF TypeInv, Raise, Busy
  <2>3. StartInv' /\ EndInv' /\ EngineInv' /\ EngineNotIdle'
    BY <1>1, <1>2, <2>1, Untouched
  <2>4. TypeInv'
    BY <1>1, <1>2, <1>3, <1>5, <2>1, <2>2 DEF TypeInv, frameVars, readVars, msgVars
  <2>5. CallInv'
    BY <1>1, <1>2, <1>3, <1>4, <1>5, <2>1, <2>2 DEF CallInv
  <2>6. HeadInv'
    BY <1>1, <1>2, <1>3, <2>1 DEF HeadInv, Off, frameVars
  <2>7. ReaderInv'
    BY <1>1, <1>2, <1>3, <2>1 DEF ReaderInv, frameVars, readVars
  <2> QED  BY <1>5, <1>6, <2>3, <2>4, <2>5, <2>6, <2>7 DEF IInv, StackInv
<1>8. CASE ~Busy(c)
  <2>1. /\ Becomes(c, "UNREGISTER") /\ Complete(c, "close") /\ Withdraw(c)
        /\ opened_flag' = [opened_flag EXCEPT ![c] = FALSE] /\ UNCHANGED pending
    BY <1>8 DEF GenClose
  <2>2. /\ curr_state' \in [Chans -> States] /\ curr_state'[c] = "UNREGISTER"
        /\ done' \in [Chans -> SUBSET {"suspend", "resume", "close"}]
        /\ done'[c] = done[c] \cup {"close"} /\ opened_flag' \in [Chans -> BOOLEAN]
        /\ \A d \in Chans : d # c => /\ curr_state'[d] = curr_state[d]
                                     /\ done'[d] = done[d]
                                     /\ opened_flag'[d] = opened_flag[d]
    BY <1>1, <2>1 DEF TypeInv, Becomes, Complete, States
  <2>3. /\ StartInv' /\ EndInv' /\ EngineInv' /\ EngineNotIdle'
        /\ service_queue' \in Seq(Chans) /\ push_chan # c
        /\ curr_state[c] \notin {"RUNNING", "TRANSFERING"}
    BY <1>1, <1>2, <1>8, <2>1, <2>2, WithdrawStep
  <2>4. TypeInv'
    BY <1>1, <1>2, <1>3, <1>5, <2>1, <2>2, <2>3 DEF TypeInv, frameVars, readVars, msgVars
  <2>5. CallInv'
    BY <1>1, <1>2, <1>3, <1>4, <1>5, <2>1, <2>2 DEF CallInv
  <2>6. HeadInv'
    BY <1>1, <1>2, <1>3, <2>2, <2>3 DEF HeadInv, Off, frameVars
  <2>7. ReaderInv'
    BY <1>1, <1>2, <1>3, <2>2, <2>3 DEF ReaderInv, frameVars, readVars
  <2> QED  BY <1>5, <1>6, <2>3, <2>4, <2>5, <2>6, <2>7 DEF IInv, StackInv
<1> QED  BY <1>7, <1>8

LEMMA SuspendedStep ==
  ASSUME IInv, NEW c \in Chans, Suspended(c)
  PROVE  IInv'
<1>1. /\ TypeInv /\ HeldInv /\ PoolInv /\ Injectives /\ StartInv /\ OnceInv /\ EndInv
      /\ EngineInv /\ EngineNotIdle /\ CallInv /\ HeadInv /\ ReaderInv
  BY Parts
<1>2. /\ UNCHANGED <<fsmVars, force_i, gop_start, b_flush, lost, readVars, engineVars, msgVars,
                     stack, polling>>
      /\ pc[c] = "suspending" /\ "suspend" \in done[c]
  BY DEF Suspended
<1>3. /\ pc' \in [Chans -> Pcs] /\ pc'[c] = "flush"
      /\ status' \in [Chans -> SUBSET {"head", "ad"}] /\ status'[c] = status[c] \ {"head"}
      /\ frame_type' \in [Chans -> {"none", "I", "P"}] /\ frame_type'[c] = "none"
      /\ \A d \in Chans : d # c => /\ pc'[d] = pc[d] /\ status'[d] = status[d]
                                   /\ frame_type'[d] = frame_type[d]
  BY <1>1 DEF Suspended, TypeInv, Goes, Pcs
<1>4. /\ curr_state[c] = "SUSPEND" /\ pending[c] = "none" /\ push_chan # c
  BY <1>1, <1>2 DEF CallInv, EngineInv, TypeInv
<1>5. /\ PoolInv' /\ StartInv' /\ OnceInv' /\ EngineInv' /\ EngineNotIdle'
      /\ StackType' /\ Injectives'
  BY <1>1, <1>2, Untouched, Kept DEF fsmVars, engineVars, msgVars, TypeInv
<1>6. HeldInv'
  BY <1>1, <1>2, <1>3, HeldLess DEF readVars
<1>7. TypeInv'
  BY <1>1, <1>2, <1>3, <1>5 DEF TypeInv, fsmVars, readVars, engineVars, msgVars
<1>8. EndInv'
  BY <1>1, <1>2, <1>3, Kept DEF EndInv, Bit, fsmVars, engineVars
<1>9. CallInv'
  BY <1>1, <1>2, <1>3, <1>4, Kept DEF CallInv, fsmVars
<1>10. HeadInv'
  BY <1>1, <1>2, <1>3, <1>4 DEF HeadInv, Off, fsmVars, engineVars
<1>11. ReaderInv'
  BY <1>1, <1>2, <1>3, <1>4 DEF ReaderInv, TypeInv, fsmVars, readVars
<1> QED  BY <1>5, <1>6, <1>7, <1>8, <1>9, <1>10, <1>11 DEF IInv, StackInv

LEMMA ClosedStep ==
  ASSUME IInv, NEW c \in Chans, Closed(c)
  PROVE  IInv'
<1>1. /\ TypeInv /\ HeldInv /\ PoolInv /\ Injectives /\ StartInv /\ OnceInv /\ EndInv
      /\ EngineInv /\ EngineNotIdle /\ CallInv /\ HeadInv /\ ReaderInv
  BY Parts
<1>2. /\ UNCHANGED <<pending, done, opened_flag, b_flush, engineVars, msgVars, stack, polling>>
      /\ pc[c] = "closing" /\ "close" \in done[c]
  BY DEF Closed
<1>3. /\ curr_state[c] = "UNREGISTER" /\ pending[c] = "none" /\ push_chan # c
  BY <1>1, <1>2 DEF CallInv, EngineInv, TypeInv
<1>4. /\ pc' \in [Chans -> Pcs] /\ pc'[c] = "closed" /\ curr_state' = curr_state
      /\ status' \in [Chans -> SUBSET {"head", "ad"}] /\ status'[c] = {}
      /\ frame_type' \in [Chans -> {"none", "I", "P"}] /\ frame_type'[c] = "none"
      /\ force_i' \in [Chans -> BOOLEAN] /\ force_i'[c] = TRUE
      /\ gop_start' \in [Chans -> BOOLEAN] /\ lost' \in [Chans -> BOOLEAN] /\ lost'[c] = TRUE
      /\ reader' \in [Chans -> BOOLEAN] /\ reader'[c] = FALSE
      /\ \A d \in Chans : d # c =>
           /\ pc'[d] = pc[d] /\ status'[d] = status[d] /\ frame_type'[d] = frame_type[d]
           /\ force_i'[d] = force_i[d] /\ gop_start'[d] = gop_start[d]
           /\ lost'[d] = lost[d] /\ reader'[d] = reader[d]
  BY <1>1, <1>3 DEF Closed, TypeInv, Goes, Becomes, Pcs
<1>5. /\ frame_queue' \in [Chans -> Seq({"I", "P"})] /\ frame_queue'[c] = <<>>
      /\ \A d \in Chans : d # c => frame_queue'[d] = frame_queue[d]
  BY <1>1, EmptiedQueue DEF Closed, TypeInv
<1>6. /\ PoolInv' /\ StartInv' /\ OnceInv' /\ EngineInv' /\ EngineNotIdle'
      /\ StackType' /\ Injectives'
  BY <1>1, <1>2, <1>4, Untouched, Kept DEF engineVars, msgVars, TypeInv
<1>7. HeldInv'
  <2> SUFFICES ASSUME NEW d \in Chans PROVE Held(d)' <= FRAMES
    BY DEF HeldInv
  <2>1. CASE d # c
    BY <1>1, <1>4, <1>5, <2>1 DEF HeldInv, Held
  <2>2. CASE d = c
    <3>1. Len(frame_queue'[c]) = 0
      BY <1>5
    <3> QED  BY <1>4, <2>2, <3>1, EncChanAssumption DEF Held
  <2> QED  BY <2>1, <2>2
<1>8. TypeInv'
  BY <1>1, <1>2, <1>4, <1>5, <1>6 DEF TypeInv, engineVars, msgVars
<1>9. EndInv'
  BY <1>1, <1>2, <1>4, Kept DEF EndInv, Bit, engineVars
<1>10. CallInv'
  BY <1>1, <1>2, <1>3, <1>4, Kept DEF CallInv
<1>11. HeadInv'
  BY <1>1, <1>2, <1>3, <1>4 DEF HeadInv, Off, engineVars
<1>12. ReaderInv'
  <2>1. \A d \in Chans : d # c =>
          /\ pc'[d] = pc[d] /\ curr_state'[d] = curr_state[d] /\ b_flush'[d] = b_flush[d]
          /\ frame_type'[d] = frame_type[d] /\ force_i'[d] = force_i[d]
          /\ gop_start'[d] = gop_start[d] /\ lost'[d] = lost[d]
          /\ reader'[d] = reader[d] /\ frame_queue'[d] = frame_queue[d]
    BY <1>2, <1>4, <1>5
  <2>2. /\ pc'[c] = "closed" /\ frame_type'[c] = "none" /\ force_i'[c] /\ lost'[c]
        /\ frame_queue'[c] = <<>>
    BY <1>4, <1>5
  <2> QED  BY <1>1, <2>1, <2>2 DEF ReaderInv
<1> QED  BY <1>6, <1>7, <1>8, <1>9, <1>10, <1>11, <1>12 DEF IInv, StackInv

LEMMA IrqStep ==
  ASSUME IInv, NEW c \in Chans, Irq(c)
  PROVE  IInv'
<1>1. /\ TypeInv /\ HeldInv /\ PoolInv /\ Injectives /\ StartInv /\ OnceInv /\ EndInv
      /\ EngineInv /\ EngineNotIdle /\ CallInv /\ HeadInv /\ ReaderInv
  BY Parts
<1>2. /\ StackType' /\ Injectives' /\ (\A s, d : ~On("isr", s, d))
      /\ \A y \in Contexts : \A s, d :
           On(y, s, d)' <=> \/ On(y, s, d)
                            \/ y = "isr" /\ s = "trigger" /\ d = None
                            \/ y = "isr" /\ s = "rest" /\ d = c
                            \/ y = "isr" /\ s = "unlock" /\ d = c
  BY <1>1, Notified DEF Irq, TypeInv
<1>3. /\ \A d \in Chans : curr_state'[d] = IF d = c THEN "TRANSFERING" ELSE curr_state[d]
      /\ push_chan = c /\ push_chan' = None /\ curr_consumer' = None
      /\ status' = status /\ pending' = pending /\ done' = done /\ pc' = pc
      /\ opened_flag' = opened_flag /\ frame_type' = frame_type
      /\ None \notin Chans /\ service_queue' = service_queue
  BY <1>1, EncChanAssumption DEF Irq, Becomes, TypeInv, userVars
<1>4. /\ curr_consumer = c /\ curr_state[c] = "RUNNING" /\ frame_type[c] # "none"
      /\ \A y \in Contexts, d \in Chans : ~On(y, "start", d)
      /\ \A y \in Contexts, s \in EndSteps : ~On(y, s, c)
  BY <1>1, <1>3 DEF EngineInv, HeadInv, StartInv, EndInv, EndSteps
<1>5. /\ \A d : Queued(d)' <=> Queued(d)
      /\ IsInjective(service_queue)' <=> IsInjective(service_queue)
  BY Kept DEF Irq
<1>6. TypeInv'
  BY <1>1, <1>2 DEF TypeInv, Irq, Becomes, States, userVars, msgVars, readVars
<1>7. HeldInv' /\ PoolInv'
  BY <1>1, Untouched DEF Irq, msgVars, readVars
<1>8. StartInv'
  BY <1>2, <1>3, <1>4 DEF StartInv
<1>9. OnceInv'
  BY <1>1, <1>2, <1>4 DEF OnceInv, EndSteps
<1>10. EndInv'
  BY <1>1, <1>2, <1>3, <1>4 DEF EndInv, EndSteps
<1>11. EngineInv'
  BY <1>1, <1>2, <1>3, <1>4, <1>5 DEF EngineInv, Starting, Escaping
<1>12. EngineNotIdle'
  BY <1>2 DEF EngineNotIdle, On, Trigger, Contexts
<1>13. CallInv'
  BY <1>1, <1>2, <1>3, <1>4 DEF CallInv
<1>14. HeadInv'
  BY <1>1, <1>3, <1>4 DEF HeadInv, Off
<1>15. ReaderInv'
  BY <1>1, <1>3, <1>4 DEF TypeInv, ReaderInv, Irq, readVars
<1> QED  BY <1>2, <1>6, <1>7, <1>8, <1>9, <1>10, <1>11, <1>12, <1>13, <1>14, <1>15
         DEF IInv, StackInv

LEMMA FlushAllStep ==
  ASSUME IInv, NEW c \in Chans, FlushAll(c), pc[c] \in {"open", "flush"}
  PROVE  IInv'
<1>1. /\ TypeInv /\ HeldInv /\ PoolInv /\ Injectives /\ StartInv /\ OnceInv /\ EndInv
      /\ EngineInv /\ EngineNotIdle /\ CallInv /\ HeadInv /\ ReaderInv
  BY Parts
<1>2. UNCHANGED <<fsmVars, status, frame_type, gop_start, reader, engineVars, msgVars,
                  stack, polling>>
  BY DEF FlushAll
<1>3. /\ pc' \in [Chans -> Pcs] /\ pc'[c] = "open"
      /\ b_flush' \in [Chans -> SUBSET {"producer", "consumer"}]
      /\ b_flush'[c] = {"producer", "consumer"}
      /\ force_i' \in [Chans -> BOOLEAN] /\ force_i'[c] = TRUE
      /\ lost' \in [Chans -> BOOLEAN] /\ lost'[c] = TRUE
      /\ \A d \in Chans : d # c => /\ pc'[d] = pc[d] /\ b_flush'[d] = b_flush[d]
                                   /\ force_i'[d] = force_i[d] /\ lost'[d] = lost[d]
  BY <1>1 DEF FlushAll, ForceI, TypeInv, Goes, Pcs
<1>4. /\ frame_queue' \in [Chans -> Seq({"I", "P"})] /\ frame_queue'[c] = <<>>
      /\ \A d \in Chans : d # c => frame_queue'[d] = frame_queue[d]
  BY <1>1, EmptiedQueue DEF FlushAll, TypeInv
<1>5. /\ PoolInv' /\ StartInv' /\ OnceInv' /\ EndInv' /\ EngineInv' /\ EngineNotIdle'
      /\ StackType' /\ Injectives'
  BY <1>1, <1>2, Untouched, Kept DEF fsmVars, engineVars, msgVars, TypeInv
<1>6. TypeInv'
  BY <1>1, <1>2, <1>3, <1>4, <1>5 DEF TypeInv, fsmVars, engineVars, msgVars
<1>7. HeldInv'
  BY <1>1, <1>2, <1>4, HeldFewer
<1>8. CallInv'
  <2>1. pending[c] = "none"
    BY <1>1, CallOf
  <2> QED  BY <1>1, <1>2, <1>3, <2>1, Kept DEF CallInv, fsmVars
<1>9. HeadInv'
  BY <1>1, <1>2, <1>3 DEF HeadInv, CallInv, Off, fsmVars, engineVars
<1>10. ReaderInv'
  BY <1>1, <1>2, <1>3, <1>4 DEF ReaderInv, fsmVars
<1> QED  BY <1>5, <1>6, <1>7, <1>8, <1>9, <1>10 DEF IInv, StackInv

LEMMA CloseStep ==
  ASSUME IInv, NEW c \in Chans, Close(c)
  PROVE  IInv'
<1>1. /\ TypeInv /\ HeldInv /\ PoolInv /\ Injectives /\ StartInv /\ OnceInv /\ EndInv
      /\ EngineInv /\ EngineNotIdle /\ CallInv /\ HeadInv /\ ReaderInv
  BY Parts
<1>2. /\ UNCHANGED <<fsmVars, status, frameVars, readVars, engineVars, msg_queue, taken, stack>>
      /\ pc[c] = "open"
  BY DEF Close
<1>3. /\ pc' \in [Chans -> Pcs] /\ pc'[c] = "messages" /\ polling' \in [Chans -> BOOLEAN]
      /\ timers' \in [Chans -> SUBSET Timers] /\ timer_id' \in [Chans -> SUBSET Timers]
      /\ \A d \in Chans : d # c => pc'[d] = pc[d]
  BY <1>1 DEF Close, DeleteTimers, TypeInv, Goes, Pcs
<1>4. /\ HeldInv' /\ PoolInv' /\ StartInv' /\ OnceInv' /\ EndInv' /\ EngineInv'
      /\ EngineNotIdle' /\ StackType' /\ Injectives'
  BY <1>1, <1>2, Untouched, Kept DEF fsmVars, frameVars, readVars, engineVars, TypeInv
<1>5. TypeInv'
  BY <1>1, <1>2, <1>3, <1>4 DEF TypeInv, fsmVars, frameVars, readVars, engineVars
<1>6. CallInv'
  <2>1. pending[c] = "none"
    BY <1>1, <1>2, CallOf
  <2> QED  BY <1>1, <1>2, <1>3, <2>1, Kept DEF CallInv, fsmVars
<1>7. HeadInv'
  BY <1>1, <1>2, <1>3 DEF HeadInv, Off, fsmVars, frameVars, engineVars
<1>8. ReaderInv'
  BY <1>1, <1>2, <1>3 DEF ReaderInv, fsmVars, frameVars, readVars
<1> QED  BY <1>4, <1>5, <1>6, <1>7, <1>8 DEF IInv, StackInv

LEMMA CloseMsgsStep ==
  ASSUME IInv, NEW c \in Chans, CloseMsgs(c)
  PROVE  IInv'
<1>1. /\ TypeInv /\ HeldInv /\ PoolInv /\ Injectives /\ StartInv /\ OnceInv /\ EndInv
      /\ EngineInv /\ EngineNotIdle /\ CallInv /\ HeadInv /\ ReaderInv
  BY Parts
<1>2. /\ UNCHANGED <<fsmVars, status, frameVars, readVars, engineVars, timerVars, taken,
                     stack, polling>>
      /\ pc[c] = "messages"
  BY DEF CloseMsgs
<1>3. /\ pc' \in [Chans -> Pcs] /\ pc'[c] = "close"
      /\ \A d \in Chans : d # c => pc'[d] = pc[d]
  BY <1>1 DEF CloseMsgs, TypeInv, Goes, Pcs
<1>4. /\ msg_queue' \in Seq(Chans) /\ Len(msg_queue') <= Len(msg_queue)
      /\ Len(msg_queue') \in Nat /\ Len(msg_queue) \in Nat
      /\ \A d : Contains(msg_queue', d) <=> Contains(msg_queue, d) /\ d # c
  <2>1. msg_queue \in Seq(Chans) /\ msg_queue' = Without(msg_queue, c)
    BY <1>1 DEF TypeInv, CloseMsgs
  <2>2. Len(msg_queue) \in Nat
    BY <2>1
  <2> QED  BY <2>1, <2>2, Withdrawn
<1>5. /\ HeldInv' /\ StartInv' /\ OnceInv' /\ EndInv' /\ EngineInv'
      /\ EngineNotIdle' /\ StackType' /\ Injectives'
  BY <1>1, <1>2, Untouched, Kept DEF fsmVars, frameVars, readVars, engineVars, TypeInv
<1>6. TypeInv'
  BY <1>1, <1>2, <1>3, <1>4, <1>5 DEF TypeInv, timerVars, fsmVars, frameVars, readVars, engineVars
<1>7. PoolInv'
  BY <1>1, <1>2, <1>4, EncChanAssumption DEF PoolInv
<1>8. CallInv'
  <2>1. pending[c] = "none"
    BY <1>1, <1>2, CallOf
  <2> QED  BY <1>1, <1>2, <1>3, <2>1, Kept DEF CallInv, fsmVars
<1>9. HeadInv'
  BY <1>1, <1>2, <1>3 DEF HeadInv, Off, fsmVars, frameVars, engineVars
<1>10. ReaderInv'
  BY <1>1, <1>2, <1>3 DEF ReaderInv, fsmVars, frameVars, readVars
<1> QED  BY <1>5, <1>6, <1>7, <1>8, <1>9, <1>10 DEF IInv, StackInv

\* A flush finds the queue empty: flush_all_frame has emptied it, and until now every
\* frame was dropped.
LEMMA Flushing ==
  ASSUME TypeInv, HeldInv, ReaderInv, NEW c \in Chans, FlushConsumer(c)
  PROVE  /\ frame_queue' = frame_queue /\ lost' = lost
         /\ reader' \in [Chans -> BOOLEAN]
         /\ b_flush' \in [Chans -> SUBSET {"producer", "consumer"}]
         /\ b_flush'[c] = b_flush[c] \ {"consumer"}
         /\ "consumer" \notin b_flush[c] => reader'[c] = reader[c]
         /\ reader'[c] => reader[c]
         /\ \A d \in Chans : d # c => reader'[d] = reader[d] /\ b_flush'[d] = b_flush[d]
<1> DEFINE flush == "consumer" \in b_flush[c]
<1>1. flush => frame_queue[c] = <<>>
  BY DEF ReaderInv
<1>2. frame_queue' = [frame_queue EXCEPT ![c] = frame_queue[c]]
  BY <1>1 DEF FlushConsumer
<1>3. frame_queue' = frame_queue
  BY <1>2 DEF TypeInv
<1>4. lost' = [lost EXCEPT ![c] = lost[c]]
  BY <1>1 DEF FlushConsumer, TypeInv
<1>5. lost' = lost
  BY <1>4 DEF TypeInv
<1> QED  BY <1>3, <1>5 DEF FlushConsumer, TypeInv

LEMMA PollStep ==
  ASSUME IInv, NEW c \in Chans, Poll(c)
  PROVE  IInv'
<1>1. /\ TypeInv /\ HeldInv /\ PoolInv /\ Injectives /\ StartInv /\ OnceInv /\ EndInv
      /\ EngineInv /\ EngineNotIdle /\ CallInv /\ HeadInv /\ ReaderInv
  BY Parts
<1>2. /\ UNCHANGED <<fsmVars, status, frame_type, force_i, gop_start, engineVars, msgVars,
                     stack, userVars>>
      /\ "consumer" \in b_flush[c]
  BY DEF Poll
<1>3. /\ frame_queue' = frame_queue /\ lost' = lost
      /\ reader' \in [Chans -> BOOLEAN]
      /\ b_flush' \in [Chans -> SUBSET {"producer", "consumer"}]
      /\ b_flush'[c] = b_flush[c] \ {"consumer"}
      /\ reader'[c] => reader[c]
      /\ \A d \in Chans : d # c => reader'[d] = reader[d] /\ b_flush'[d] = b_flush[d]
  BY <1>1, Flushing DEF Poll
<1>4. /\ PoolInv' /\ StartInv' /\ OnceInv' /\ EndInv' /\ EngineInv' /\ EngineNotIdle'
      /\ CallInv' /\ HeadInv' /\ StackType' /\ Injectives'
  BY <1>1, <1>2, Untouched, Kept DEF fsmVars, engineVars, msgVars, userVars, TypeInv
<1>5. TypeInv'
  BY <1>1, <1>2, <1>3, <1>4 DEF TypeInv, fsmVars, engineVars, msgVars, userVars
<1>6. HeldInv'
  BY <1>1, <1>2, <1>3, HeldFewer
<1>7. ReaderInv'
  <2>1. pc[c] \notin {"read", "copy"} /\ frame_queue[c] = <<>>
    BY <1>1, <1>2 DEF ReaderInv
  <2> QED  BY <1>1, <1>2, <1>3, <2>1 DEF ReaderInv, fsmVars, userVars
<1> QED  BY <1>4, <1>5, <1>6, <1>7 DEF IInv, StackInv

LEMMA ReadStep ==
  ASSUME IInv, NEW c \in Chans, Read(c)
  PROVE  IInv'
<1>1. /\ TypeInv /\ HeldInv /\ PoolInv /\ Injectives /\ StartInv /\ OnceInv /\ EndInv
      /\ EngineInv /\ EngineNotIdle /\ CallInv /\ HeadInv /\ ReaderInv
  BY Parts
<1>2. /\ UNCHANGED <<fsmVars, status, frame_type, force_i, gop_start, engineVars, msgVars,
                     stack, polling>>
      /\ pc[c] = "open"
  BY DEF Read
<1>3. /\ frame_queue' = frame_queue /\ lost' = lost
      /\ reader' \in [Chans -> BOOLEAN]
      /\ b_flush' \in [Chans -> SUBSET {"producer", "consumer"}]
      /\ b_flush'[c] = b_flush[c] \ {"consumer"}
      /\ reader'[c] => reader[c]
      /\ \A d \in Chans : d # c => reader'[d] = reader[d] /\ b_flush'[d] = b_flush[d]
  BY <1>1, Flushing DEF Read
<1>4. /\ pc' \in [Chans -> Pcs] /\ pc'[c] = "read"
      /\ \A d \in Chans : d # c => pc'[d] = pc[d]
  BY <1>1 DEF Read, TypeInv, Goes, Pcs
<1>5. /\ PoolInv' /\ StartInv' /\ OnceInv' /\ EndInv' /\ EngineInv' /\ EngineNotIdle'
      /\ StackType' /\ Injectives'
  BY <1>1, <1>2, Untouched, Kept DEF fsmVars, engineVars, msgVars, TypeInv
<1>6. TypeInv'
  BY <1>1, <1>2, <1>3, <1>4, <1>5 DEF TypeInv, fsmVars, engineVars, msgVars
<1>7. HeldInv'
  BY <1>1, <1>2, <1>3, HeldFewer
<1>8. CallInv'
  <2>1. pending[c] = "none"
    BY <1>1, <1>2, CallOf
  <2> QED  BY <1>1, <1>2, <1>4, <2>1, Kept DEF CallInv, fsmVars
<1>9. HeadInv'
  BY <1>1, <1>2, <1>4 DEF HeadInv, Off, fsmVars, engineVars
<1>10. ReaderInv'
  BY <1>1, <1>2, <1>3, <1>4 DEF ReaderInv, fsmVars
<1> QED  BY <1>5, <1>6, <1>7, <1>8, <1>9, <1>10 DEF IInv, StackInv

LEMMA GetConsumerStep ==
  ASSUME IInv, NEW c \in Chans, GetConsumer(c)
  PROVE  IInv'
<1>1. /\ TypeInv /\ HeldInv /\ PoolInv /\ Injectives /\ StartInv /\ OnceInv /\ EndInv
      /\ EngineInv /\ EngineNotIdle /\ CallInv /\ HeadInv /\ ReaderInv
  BY Parts
<1>2. /\ UNCHANGED <<fsmVars, status, frameVars, engineVars, msgVars, stack, polling>>
      /\ pc[c] = "read"
  BY DEF GetConsumer
<1>3. /\ pc' \in [Chans -> Pcs] /\ pc'[c] \in {"open", "copy"}
      /\ \A d \in Chans : d # c => pc'[d] = pc[d]
  <2>1. PICK s \in {"open", "copy"} : pc' = [pc EXCEPT ![c] = s]
    BY DEF GetConsumer, Goes
  <2> QED  BY <1>1, <2>1 DEF TypeInv, Pcs
<1>4. /\ PoolInv' /\ StartInv' /\ OnceInv' /\ EndInv' /\ EngineInv' /\ EngineNotIdle'
      /\ StackType' /\ Injectives'
  BY <1>1, <1>2, Untouched, Kept DEF fsmVars, engineVars, msgVars, TypeInv
<1>5. CallInv'
  <2>1. pending[c] = "none"
    BY <1>1, <1>2, CallOf
  <2> QED  BY <1>1, <1>2, <1>3, <2>1, Kept DEF CallInv, fsmVars
<1>6. HeadInv'
  BY <1>1, <1>2, <1>3 DEF HeadInv, Off, fsmVars, frameVars, engineVars
<1>8. TypeInv' /\ HeldInv' /\ ReaderInv'
  <2>1. CASE UNCHANGED readVars /\ pc'[c] = "open"
    <3>1. TypeInv'
      BY <1>1, <1>2, <1>3, <1>4, <2>1
         DEF TypeInv, fsmVars, frameVars, readVars, engineVars, msgVars
    <3>2. HeldInv'
      BY <1>1, <1>2, <2>1, Untouched DEF frameVars, readVars
    <3>3. ReaderInv'
      BY <1>1, <1>2, <1>3, <2>1 DEF ReaderInv, fsmVars, frameVars, readVars
    <3> QED  BY <3>1, <3>2, <3>3
  <2>2. CASE /\ reader[c] /\ reader' = [reader EXCEPT ![c] = TRUE] /\ pc'[c] = "copy"
             /\ frame_queue' = [frame_queue EXCEPT ![c] = @]
    <3>1. reader' = reader /\ frame_queue' = frame_queue
      BY <1>1, <2>2 DEF TypeInv
    <3>2. TypeInv'
      BY <1>1, <1>2, <1>3, <1>4, <3>1
         DEF TypeInv, fsmVars, frameVars, engineVars, msgVars
    <3>3. HeldInv'
      BY <1>1, <1>2, <3>1, Untouched DEF frameVars
    <3>4. ReaderInv'
      BY <1>1, <1>2, <1>3, <2>2, <3>1 DEF ReaderInv, fsmVars, frameVars
    <3> QED  BY <3>2, <3>3, <3>4
  <2>3. CASE /\ ~reader[c] /\ reader' = [reader EXCEPT ![c] = TRUE] /\ pc'[c] = "copy"
             /\ frame_queue[c] # <<>>
             /\ frame_queue' = [frame_queue EXCEPT ![c] = Tail(@)]
    <3> DEFINE S == {"I", "P"}
    <3>1. frame_queue \in [Chans -> Seq(S)]
      BY <1>1 DEF TypeInv
    <3> HIDE DEF S
    <3> DEFINE q == frame_queue[c]
    <3>2. q \in Seq(S) /\ q # <<>>
      BY <2>3, <3>1
    <3> HIDE DEF q
    <3>3. Tail(q) \in Seq(S) /\ Len(Tail(q)) = Len(q) - 1 /\ Len(q) \in Nat \ {0}
      BY <3>2, Popped
    <3>4. PICK t \in Seq(S) : t = Tail(q) /\ Len(t) = Len(q) - 1 /\ Len(q) \in Nat \ {0}
      BY <3>3
    <3>5. frame_queue' \in [Chans -> Seq(S)] /\ frame_queue'[c] = t
          /\ \A d \in Chans : d # c => frame_queue'[d] = frame_queue[d]
      BY <2>3, <3>1, <3>4 DEF q
    <3>6. /\ reader' \in [Chans -> BOOLEAN] /\ reader'[c] = TRUE
          /\ \A d \in Chans : d # c => reader'[d] = reader[d]
      BY <1>1, <2>3 DEF TypeInv
    <3>7. TypeInv'
      BY <1>1, <1>2, <1>3, <1>4, <3>5, <3>6
         DEF TypeInv, fsmVars, frameVars, engineVars, msgVars, S
    <3>8. HeldInv'
      <4> SUFFICES ASSUME NEW d \in Chans PROVE Held(d)' <= FRAMES
        BY DEF HeldInv
      <4>1. CASE d # c
        BY <1>1, <1>2, <3>5, <3>6, <4>1 DEF HeldInv, Held, frameVars
      <4>2. CASE d = c
        <5> DEFINE f == IF frame_type[c] = "none" THEN 0 ELSE 1
                   n == Len(frame_queue[c])
        <5>1. f \in Nat /\ n \in Nat /\ Len(t) = n - 1 /\ Held(c) <= FRAMES
          BY <1>1, <3>4 DEF HeldInv, q
        <5>2. Held(c) = f + n + 0
          BY <2>3 DEF Held
        <5>3. Held(c)' = f + Len(t) + 1
          BY <1>2, <3>5, <3>6 DEF Held, frameVars
        <5> HIDE DEF f, n
        <5> QED  BY <4>2, <5>1, <5>2, <5>3
      <4> QED  BY <4>1, <4>2
    <3>9. ReaderInv'
      <4>1. pc[c] # "closed" /\ "consumer" \notin b_flush[c]
        BY <1>1, <1>2 DEF ReaderInv
      <4> QED  BY <1>1, <1>2, <1>3, <2>3, <3>5, <3>6, <4>1 DEF ReaderInv, fsmVars, frameVars
    <3> QED  BY <3>7, <3>8, <3>9
  <2>4. pc \in [Chans -> Pcs]
    BY <1>1 DEF TypeInv
  <2> QED  BY <2>1, <2>2, <2>3, <2>4 DEF GetConsumer, Goes
<1> QED  BY <1>1, <1>4, <1>5, <1>6, <1>8 DEF IInv, StackInv

LEMMA CopiedStep ==
  ASSUME IInv, NEW c \in Chans, Copied(c)
  PROVE  IInv'
<1>1. /\ TypeInv /\ HeldInv /\ PoolInv /\ Injectives /\ StartInv /\ OnceInv /\ EndInv
      /\ EngineInv /\ EngineNotIdle /\ CallInv /\ HeadInv /\ ReaderInv
  BY Parts
<1>2. /\ UNCHANGED <<fsmVars, status, frameVars, frame_queue, engineVars, msgVars, stack, polling>>
      /\ pc[c] = "copy"
  BY DEF Copied
<1>3. /\ pc' \in [Chans -> Pcs] /\ pc'[c] = "open"
      /\ \A d \in Chans : d # c => pc'[d] = pc[d]
  BY <1>1 DEF Copied, TypeInv, Goes, Pcs
<1>4. /\ reader' \in [Chans -> BOOLEAN] /\ (reader'[c] => reader[c])
      /\ \A d \in Chans : d # c => reader'[d] = reader[d]
  BY <1>1 DEF Copied, TypeInv
<1>5. /\ PoolInv' /\ StartInv' /\ OnceInv' /\ EndInv' /\ EngineInv' /\ EngineNotIdle'
      /\ StackType' /\ Injectives'
  BY <1>1, <1>2, Untouched, Kept DEF fsmVars, engineVars, msgVars, TypeInv
<1>6. TypeInv'
  BY <1>1, <1>2, <1>3, <1>4, <1>5 DEF TypeInv, fsmVars, frameVars, engineVars, msgVars
<1>7. HeldInv'
  BY <1>1, <1>2, <1>4, HeldFewer DEF frameVars
<1>8. CallInv'
  <2>1. pending[c] = "none"
    BY <1>1, <1>2, CallOf
  <2> QED  BY <1>1, <1>2, <1>3, <2>1, Kept DEF CallInv, fsmVars
<1>9. HeadInv'
  BY <1>1, <1>2, <1>3 DEF HeadInv, Off, fsmVars, frameVars, engineVars
<1>10. ReaderInv'
  BY <1>1, <1>2, <1>3, <1>4 DEF ReaderInv, fsmVars, frameVars
<1> QED  BY <1>5, <1>6, <1>7, <1>8, <1>9, <1>10 DEF IInv, StackInv

LEMMA InitStep ==
  ASSUME Init
  PROVE  IInv
<1>1. /\ \A x \in Contexts : stack[x] = <<>>
      /\ stack = [x \in Contexts |-> <<>>]
  BY DEF Init
<1>2. StackType /\ Injectives /\ \A x \in Contexts : \A s, d : ~On(x, s, d)
  <2> DEFINE e == <<>>
  <2>1. e \in Seq(Entries) /\ IsInjective(e) /\ (\A d : ~Contains(e, d))
        /\ stack = [x \in Contexts |-> e]
    BY <1>1, Listed
  <2> HIDE DEF e
  <2> QED  BY <2>1 DEF StackType, Injectives, Distinct, Alone, On
<1>3. /\ service_queue \in Seq(Chans) /\ msg_queue \in Seq(Chans)
      /\ IsInjective(service_queue) /\ (\A d : ~Queued(d)) /\ service_queue = <<>>
      /\ Len(msg_queue) = 0
  BY Listed DEF Init, Queued
<1>4. frame_queue \in [Chans -> Seq({"I", "P"})] /\ \A c \in Chans : frame_queue[c] = <<>>
  <2> DEFINE e == <<>>
             S == {"I", "P"}
  <2>1. e \in Seq(S) /\ frame_queue = [c \in Chans |-> e]
    BY DEF Init
  <2> HIDE DEF e, S
  <2>2. frame_queue \in [Chans -> Seq(S)] /\ \A c \in Chans : frame_queue[c] = e
    BY <2>1
  <2> QED  BY <2>2 DEF e, S
<1>5. TypeInv
  BY <1>2, <1>3, <1>4 DEF Init, TypeInv, States, Pcs
<1>6. HeldInv
  BY <1>4, EncChanAssumption DEF HeldInv, Held, Init
<1>7. PoolInv
  BY <1>3, EncChanAssumption DEF PoolInv, Init
<1>8. StackInv
  BY <1>2 DEF StackInv, StartInv, OnceInv, EndInv
<1>9. EngineInv /\ EngineNotIdle
  BY <1>3, EncChanAssumption DEF Init, EngineInv, EngineNotIdle
<1>10. CallInv
  BY DEF Init, CallInv
<1>11. HeadInv
  BY EncChanAssumption DEF Init, HeadInv
<1>12. ReaderInv
  BY <1>4 DEF Init, ReaderInv
<1> QED  BY <1>5, <1>6, <1>7, <1>8, <1>9, <1>10, <1>11, <1>12 DEF IInv

LEMMA NextStep ==
  ASSUME IInv, [Next]_vars
  PROVE  IInv'
<1>1. ASSUME NEW x \in Contexts, Engine(x) PROVE IInv'
  <2>1. CASE TriggerRequest(x)
    BY <2>1, TriggerRequestStep
  <2>2. ASSUME NEW c \in Chans,
               \/ StartEncode(x, c) \/ Escape(x, c) \/ CheckPending(x, c)
               \/ Deliver(x, c) \/ Unlock(x, c)
        PROVE  IInv'
    BY <2>2, StartEncodeStep, EscapeStep, CheckPendingStep, DeliverStep, UnlockStep
  <2> QED  BY <1>1, <2>1, <2>2 DEF Engine
<1>2. CASE TakeMsg
  BY <1>2, TakeMsgStep
<1>3. ASSUME NEW c \in Chans, SliceHead(c) \/ Picture(c) \/ PictureOff(c) \/ Interrupt(c)
      PROVE  IInv'
  BY <1>3, HeadNotWantedStep, HeadDelayedStep, HeadReadyStep, PictureStep, PictureOffStep,
     IrqStep, FrameReadyStep, FrameDroppedStep
     DEF SliceHead, Interrupt
<1>4. ASSUME NEW c \in Chans, Call(c) PROVE IInv'
  BY <1>4, OpenStep, ResumeStep, SuspendStep, FlushAllStep, CloseStep, ReadStep
     DEF Call, Flush
<1>5. ASSUME NEW c \in Chans, Continue(c) PROVE IInv'
  BY <1>5, ResumedStep, GenSuspendStep, SuspendedStep, FlushAllStep, CloseMsgsStep,
     GenCloseStep, ClosedStep, GetConsumerStep, CopiedStep
     DEF Continue, Disabled
<1>6. ASSUME NEW c \in Chans, Poll(c) PROVE IInv'
  BY <1>6, PollStep
<1>7. ASSUME NEW c \in Chans, Hook(c) \/ \E t \in Timers : MsgTimer(c, t) PROVE IInv'
  BY <1>7, MsgTimerStep, TimerSendStep, TimerClearStep DEF Hook
<1>8. CASE UNCHANGED vars
  <2>1. /\ UNCHANGED <<fsmVars, status, frameVars, readVars, engineVars, msgVars, stack,
                       userVars>>
    BY <1>8 DEF vars
  <2>2. /\ HeldInv' /\ PoolInv' /\ StartInv' /\ OnceInv' /\ EndInv' /\ EngineInv'
        /\ EngineNotIdle' /\ CallInv' /\ HeadInv' /\ ReaderInv' /\ Injectives'
        /\ StackType'
    BY <2>1, Parts, Untouched, Kept
       DEF fsmVars, frameVars, readVars, engineVars, msgVars, userVars, TypeInv
  <2>3. TypeInv'
    BY <2>1, <2>2, Parts
       DEF fsmVars, frameVars, readVars, engineVars, msgVars, userVars, TypeInv
  <2> QED  BY <2>2, <2>3 DEF IInv, StackInv
<1> QED  BY <1>1, <1>2, <1>3, <1>4, <1>5, <1>6, <1>7, <1>8 DEF Next

LEMMA Invariant == Spec => []IInv
<1>1. Init => IInv
  BY InitStep
<1>2. IInv /\ [Next]_vars => IInv'
  BY NextStep
<1> QED  BY <1>1, <1>2, PTL DEF Spec

-----------------------------------------------------------------------------
(* The properties *)

LEMMA Bounded ==
  ASSUME NEW S, NEW q \in Seq(S), NEW n \in Nat, Len(q) <= n
  PROVE  q \in BoundedSeq(S, n)
<1> DEFINE m == Len(q)
<1>1. m \in 0 .. n /\ q \in [1 .. m -> S]
  OBVIOUS
<1> HIDE DEF m
<1>2. q \in UNION {[1 .. k -> S] : k \in 0 .. n}
  BY <1>1
<1> QED  BY <1>2 DEF BoundedSeq, SeqOf

\* The variables keep their types for any channels, frames and messages: no channel has
\* more frames than its pool, and none asks for the encoder more than once.
THEOREM TypeCorrect == Spec => []TypeOK
<1>1. IInv => TypeOK
  <2> SUFFICES ASSUME TypeInv, HeldInv, PoolInv, EngineInv PROVE TypeOK
    BY Parts
  <2>1. \A c \in Chans : frame_queue[c] \in BoundedSeq({"I", "P"}, FRAMES)
    <3> TAKE c \in Chans
    <3> DEFINE S == {"I", "P"}
               q == frame_queue[c]
               f == IF frame_type[c] = "none" THEN 0 ELSE 1
               r == IF reader[c] THEN 1 ELSE 0
               n == Len(q)
    <3>1. q \in Seq(S) /\ FRAMES \in Nat /\ f \in Nat /\ r \in Nat /\ n \in Nat
      BY EncChanAssumption DEF TypeInv
    <3>2. f + n + r <= FRAMES
      BY DEF HeldInv, Held
    <3> HIDE DEF f, r, n
    <3>3. n <= FRAMES
      BY <3>1, <3>2
    <3>4. Len(q) <= FRAMES
      BY <3>3 DEF n
    <3> HIDE DEF q, S
    <3>5. q \in BoundedSeq(S, FRAMES)
      BY <3>1, <3>4, Bounded
    <3> QED  BY <3>5 DEF q, S
  <2>2. service_queue \in BoundedSeq(Chans, Cardinality(Chans))
    <3> DEFINE q == service_queue
               n == Len(q)
               N == Cardinality(Chans)
    <3>1. q \in Seq(Chans) /\ IsInjective(q) /\ n \in Nat
      BY DEF TypeInv, EngineInv
    <3>2. q \in [1 .. n -> Chans]
      BY <3>1
    <3>3. q \in Injection(1 .. n, Chans)
      BY <3>1, <3>2 DEF Injection
    <3>4. IsFiniteSet(Chans) /\ N \in Nat
      BY EncChanAssumption, FS_CardinalityType
    <3>5. Cardinality(1 .. n) = n
      BY <3>1, FirstNumbers
    <3>6. n <= N
      BY <3>3, <3>4, <3>5, FS_Injection
    <3>7. Len(q) <= N
      BY <3>6
    <3> HIDE DEF q, N
    <3>8. q \in BoundedSeq(Chans, N)
      BY <3>1, <3>4, <3>7, Bounded
    <3> QED  BY <3>8 DEF q, N
  <2>3. msg_queue \in BoundedSeq(Chans, MSGS)
    <3>1. msg_queue \in Seq(Chans) /\ MSGS \in Nat /\ Len(msg_queue) <= MSGS
      BY EncChanAssumption DEF TypeInv, PoolInv
    <3> QED  BY <3>1, Bounded
  <2>4. frame_queue \in [Chans -> BoundedSeq({"I", "P"}, FRAMES)]
    <3> DEFINE B == BoundedSeq({"I", "P"}, FRAMES)
    <3>1. \A c \in Chans : frame_queue[c] \in B
      BY <2>1
    <3> HIDE DEF B
    <3>2. frame_queue \in [Chans -> B]
      BY <3>1 DEF TypeInv
    <3> QED  BY <3>2 DEF B
  <2> QED  BY <2>2, <2>3, <2>4 DEF TypeInv, TypeOK, StackType, Entries
<1> QED  BY <1>1, Invariant, PTL

\* The machines, the queue, the chip and the contexts agree on whom the encoder serves,
\* for any number of channels and whatever their users call.
THEOREM EngineCorrect == Spec => []EngineOwner
<1>1. IInv => EngineOwner
  <2> SUFFICES ASSUME EngineInv, EngineNotIdle, StartInv, HeadInv, CallInv
               PROVE  EngineOwner
    BY Parts
  <2>1. \A c \in Chans : Starting(c) => curr_consumer = c /\ curr_state[c] = "STANDBY"
    BY DEF Starting, StartInv
  <2> QED  BY <2>1 DEF EngineInv, HeadInv, CallInv, EngineOwner, Queued
<1> QED  BY <1>1, Invariant, PTL

\* A channel that is off has nothing under way.
THEOREM OffCorrect == Spec => []OffIsQuiet
<1>1. IInv => OffIsQuiet
  <2> SUFFICES ASSUME TypeInv, StartInv, EngineInv, HeadInv, CallInv, NEW c \in Chans, Off(c)
               PROVE  /\ curr_state[c] \in {"UNREGISTER", "SUSPEND"} /\ pending[c] = "none"
                      /\ frame_type[c] = "none" /\ "head" \notin status[c]
                      /\ ~Contains(service_queue, c) /\ c \notin {curr_consumer, push_chan}
    BY Parts DEF OffIsQuiet
  <2>1. pc[c] \in {"flush", "closed", "open", "read", "copy"}
        /\ curr_state[c] \in {"UNREGISTER", "SUSPEND"}
    BY DEF Off, CallInv
  <2>2. pending[c] = "none"
    BY <2>1, CallOf
  <2>3. frame_type[c] = "none" /\ "head" \notin status[c]
    BY DEF HeadInv
  <2>4. ~Contains(service_queue, c) /\ push_chan # c /\ ~Starting(c)
    BY <2>1 DEF EngineInv, StartInv, Starting, Queued
  <2>5. curr_consumer # c
    BY <2>4, EncChanAssumption DEF EngineInv
  <2> QED  BY <2>1, <2>2, <2>3, <2>4, <2>5
<1> QED  BY <1>1, Invariant, PTL

\* The frame a reader copies is not taken from him, whenever the polling timer runs.
THEOREM ReaderCorrect == Spec => []ReaderKeepsFrame
<1>1. IInv => ReaderKeepsFrame
  BY DEF IInv, ReaderInv, ReaderKeepsFrame
<1> QED  BY <1>1, Invariant, PTL

-----------------------------------------------------------------------------
(* One processor: no channel is forgotten *)

Ending == {"suspend", "messages", "close"}
\* The channel waits for its slice head, ...
Waits(c) == curr_state[c] = "IDLE" /\ pc[c] \notin Ending
\* ... which it has, or something will ask the thread for it.
Coming(c) ==
  \/ "head" \in status[c] \/ timers[c] # {} \/ Contains(msg_queue, c)
  \/ taken = c /\ stack["kthread"] = <<>>
  \/ \E t \in Timers : Top("isr", t, c)

\* One context is at work at a time, ...
OneInv == stack["isr"] = <<>> \/ stack["kthread"] = <<>>
\* ... so a timer's id is there only with the timer, or with its hook under way.
IdInv ==
  \A c \in Chans :
    /\ "nonblock" \in timer_id[c] =>
         "nonblock" \in timers[c] \/ Top("isr", "nonblock", c) \/ Top("isr", "clear", c)
    /\ "delay" \in timer_id[c] => "delay" \in timers[c]

WaitInv == OneInv /\ IdInv /\ HeadComes

LEMMA Comes == HeadComes <=> \A c \in Chans : Waits(c) => Coming(c)
BY DEF HeadComes, Waits, Coming, Ending

\* What starts a context, or works without one, finds none at work.
LEMMA NoneAtWork ==
  ASSUME ~SMP, CpuFree
  PROVE  /\ stack["isr"] = <<>> /\ stack["kthread"] = <<>>
         /\ \A h, d : ~Top("isr", h, d)
BY DEF CpuFree, Contexts, Top

\* The messages and their timers stay as they are.
LEMMA QuietWaits ==
  ASSUME WaitInv, UNCHANGED <<stack, timers, timer_id, msg_queue, taken>>,
         \A d \in Chans : Waits(d)' =>
           Waits(d) /\ ("head" \in status[d] => "head" \in status'[d])
  PROVE  WaitInv'
<1>1. \A d \in Chans : Waits(d)' => Coming(d)'
  BY Comes DEF WaitInv, Coming, Top
<1>2. OneInv' /\ IdInv'
  BY DEF WaitInv, OneInv, IdInv, Top
<1> QED  BY <1>1, <1>2, Comes DEF WaitInv, HeadComes, Waits, Coming, Ending

\* A context goes on with what it has to do, none of it for a hook.
LEMMA ContextWaits ==
  ASSUME WaitInv, NEW x \in Contexts, stack[x] # <<>>,
         \A h \in Hooks : \A d : stack[x][1] # <<h, d>>,
         \A y \in Contexts : y # x => stack'[y] = stack[y],
         UNCHANGED <<timers, timer_id, msg_queue>>, taken' = taken \/ x = "kthread",
         \A d \in Chans : Waits(d)' =>
           Waits(d) /\ ("head" \in status[d] => "head" \in status'[d])
  PROVE  WaitInv'
<1>1. x \in {"isr", "kthread"} /\ {"nonblock", "delay", "clear"} \subseteq Hooks
  BY DEF Contexts, Hooks, Timers
<1>2. OneInv'
  BY <1>1 DEF WaitInv, OneInv, Contexts
<1>3. \A h \in Hooks : \A d : Top("isr", h, d) => x = "kthread" /\ Top("isr", h, d)'
  BY <1>1 DEF Top, Contexts
<1>4. IdInv'
  BY <1>1, <1>3 DEF WaitInv, IdInv
<1>5. \A d \in Chans : Waits(d)' => Coming(d)'
  <2> SUFFICES ASSUME NEW d \in Chans, Waits(d)' PROVE Coming(d)'
    OBVIOUS
  <2>1. Coming(d)
    BY Comes DEF WaitInv
  <2>2. taken = d /\ stack["kthread"] = <<>> => taken' = d /\ stack'["kthread"] = <<>>
    BY <1>1 DEF Contexts
  <2>3. \A t \in Timers : Top("isr", t, d) => Top("isr", t, d)'
    BY <1>3 DEF Hooks
  <2> QED  BY <2>1, <2>2, <2>3 DEF Coming
<1> QED  BY <1>2, <1>4, <1>5 DEF WaitInv, HeadComes, Waits, Coming, Ending

\* No context is at work, and one may start; the thread may be done with its message.
LEMMA EnteredWaits ==
  ASSUME ~SMP, CpuFree, WaitInv, NEW x \in Contexts,
         \A y \in Contexts : y # x => stack'[y] = stack[y],
         UNCHANGED <<timers, timer_id, msg_queue>>,
         \A d \in Chans : Waits(d)' =>
           /\ Waits(d) /\ ("head" \in status[d] => "head" \in status'[d])
           /\ taken = d => \/ "head" \in status'[d]
                           \/ taken' = d /\ stack'["kthread"] = stack["kthread"]
  PROVE  WaitInv'
<1>1. /\ stack["isr"] = <<>> /\ stack["kthread"] = <<>>
      /\ \A h, d : ~Top("isr", h, d)
  BY NoneAtWork
<1>2. OneInv'
  BY <1>1 DEF OneInv, Contexts
<1>3. IdInv'
  BY <1>1 DEF WaitInv, IdInv
<1>4. \A d \in Chans : Waits(d)' => Coming(d)'
  <2> SUFFICES ASSUME NEW d \in Chans, Waits(d)' PROVE Coming(d)'
    OBVIOUS
  <2>1. \/ "head" \in status[d] \/ timers[d] # {} \/ Contains(msg_queue, d) \/ taken = d
    BY <1>1, Comes DEF WaitInv, Coming
  <2> QED  BY <1>1, <2>1 DEF Coming
<1> QED  BY <1>2, <1>3, <1>4 DEF WaitInv, HeadComes, Waits, Coming, Ending

\* A channel asks for a head: a request that is dropped has its timer.
LEMMA AskedWaits ==
  ASSUME TypeInv, PoolInv, WaitInv, NEW c \in Chans, GenReqMsg(c), taken' = taken,
         \A h \in Hooks : \A d : ~Top("isr", h, d),
         stack["kthread"] = <<>> => stack'["kthread"] = <<>>, OneInv',
         status' = status, \A d \in Chans : Waits(d)' => Waits(d) \/ d = c
  PROVE  WaitInv'
<1>1. /\ \A d : Contains(msg_queue, d) => Contains(msg_queue', d)
      /\ \A d \in Chans : /\ timers[d] \subseteq timers'[d]
                          /\ timer_id'[d] \subseteq timer_id[d] \cup timers'[d]
      /\ \/ "nonblock" \in timer_id[c] \/ "nonblock" \in timers'[c]
         \/ Contains(msg_queue', c)
  BY Asked
<1>2. \A d \in Chans : "nonblock" \in timer_id[d] => "nonblock" \in timers[d]
  BY DEF WaitInv, IdInv, Hooks, Timers
<1>3. IdInv'
  BY <1>1, <1>2 DEF WaitInv, IdInv
<1>4. \A d \in Chans : Waits(d)' => Coming(d)'
  <2> SUFFICES ASSUME NEW d \in Chans, Waits(d)' PROVE Coming(d)'
    OBVIOUS
  <2>1. CASE d = c
    BY <1>1, <1>2, <2>1 DEF Coming
  <2>2. CASE Waits(d)
    <3>1. Coming(d) /\ \A t \in Timers : ~Top("isr", t, d)
      BY <2>2, Comes DEF WaitInv, Hooks
    <3>2. \/ "head" \in status[d] \/ timers[d] # {} \/ Contains(msg_queue, d)
          \/ taken = d /\ stack["kthread"] = <<>>
      BY <3>1 DEF Coming
    <3> QED  BY <1>1, <3>2 DEF Coming
  <2> QED  BY <2>1, <2>2
<1> QED  BY <1>3, <1>4 DEF WaitInv, HeadComes, Waits, Coming, Ending

\* The messages and their timers.
LEMMA TakeMsgWaits ==
  ASSUME ~SMP, IInv, WaitInv, TakeMsg
  PROVE  WaitInv'
<1>1. /\ UNCHANGED <<stack, timers, timer_id, curr_state, pc, status>>
      /\ stack["kthread"] = <<>> /\ taken = None /\ None \notin Chans
  BY EncChanAssumption DEF TakeMsg, timerVars, fsmVars, userVars
<1>2. \A d \in Chans : Contains(msg_queue, d) => Contains(msg_queue', d) \/ taken' = d
  <2>1. msg_queue \in Seq(Chans) /\ msg_queue # <<>>
    BY Parts DEF TypeInv, TakeMsg
  <2> QED  BY <2>1, Popped DEF TakeMsg
<1>3. OneInv' /\ IdInv'
  BY <1>1 DEF WaitInv, OneInv, IdInv, Top
<1>4. \A d \in Chans : Waits(d)' => Coming(d)'
  BY <1>1, <1>2, Comes DEF WaitInv, Waits, Coming, Top
<1> QED  BY <1>3, <1>4 DEF WaitInv, HeadComes, Waits, Coming, Ending

LEMMA MsgTimerWaits ==
  ASSUME ~SMP, IInv, WaitInv, NEW c \in Chans, NEW t \in Timers, MsgTimer(c, t)
  PROVE  WaitInv'
<1>1. /\ stack["isr"] = <<>> /\ stack["kthread"] = <<>>
      /\ \A h, d : ~Top("isr", h, d)
  BY NoneAtWork DEF MsgTimer
<1>2. /\ UNCHANGED <<curr_state, pc, status, msg_queue, taken>>
      /\ stack' = [stack EXCEPT !["isr"] = <<<<t, c>>>>]
      /\ timers' = [timers EXCEPT ![c] = @ \ {t}]
      /\ timer_id' = [timer_id EXCEPT ![c] = @ \ (IF t = "delay" THEN {t} ELSE {})]
  BY DEF MsgTimer, Enter, fsmVars, userVars
<1>3. /\ stack'["isr"] = <<<<t, c>>>> /\ stack'["kthread"] = <<>>
      /\ timers \in [Chans -> SUBSET Timers] /\ timer_id \in [Chans -> SUBSET Timers]
  BY <1>1, <1>2, Parts DEF TypeInv, StackType, Contexts
<1>4. Top("isr", t, c)' /\ OneInv'
  BY <1>3 DEF Top, OneInv
<1>5. /\ \A d \in Chans : d # c => timers'[d] = timers[d] /\ timer_id'[d] = timer_id[d]
      /\ timers'[c] = timers[c] \ {t}
      /\ timer_id'[c] \subseteq timer_id[c] /\ (t = "delay" => "delay" \notin timer_id'[c])
  BY <1>2, <1>3
<1>6. IdInv'
  BY <1>1, <1>4, <1>5 DEF WaitInv, IdInv, Timers
<1>7. \A d \in Chans : Waits(d)' => Coming(d)'
  BY <1>1, <1>2, <1>3, <1>4, <1>5, Comes DEF WaitInv, Waits, Coming
<1> QED  BY <1>4, <1>6, <1>7 DEF WaitInv, HeadComes, Waits, Coming, Ending

LEMMA TimerSendWaits ==
  ASSUME ~SMP, IInv, WaitInv, NEW c \in Chans, NEW t \in Timers, TimerSend(c, t)
  PROVE  WaitInv'
<1>1. TypeInv /\ StackType /\ Injectives /\ PoolInv
  BY Parts DEF TypeInv
<1>2. /\ stack["isr"] # <<>> /\ stack["isr"][1] = <<t, c>> /\ t \in Hooks
      /\ "isr" \in Contexts /\ "kthread" \in Contexts
      /\ UNCHANGED <<curr_state, pc, status, taken>>
  BY DEF TimerSend, Top, Contexts, Hooks, fsmVars, userVars
<1>3. stack["isr"] = <<<<t, c>>>>
  BY <1>1, <1>2, OnTop DEF Injectives, Alone
<1>4. /\ stack["kthread"] = <<>>
      /\ \A d : d # c => \A h : ~Top("isr", h, d)
      /\ ~Top("isr", "clear", c) /\ (Top("isr", "nonblock", c) => t = "nonblock")
  BY <1>2 DEF WaitInv, OneInv, Top, Timers
<1>5. stack'["kthread"] = <<>>
  BY <1>1, <1>2, <1>4 DEF TimerSend, Return, StackType
<1>6. OneInv'
  BY <1>5 DEF OneInv
<1>7. CASE MsgFree
  <2>1. /\ msg_queue' = Append(msg_queue, c) /\ UNCHANGED <<timers, timer_id>>
        /\ Return("isr", IF t = "nonblock" THEN <<<<"clear", c>>>> ELSE <<>>)
    BY <1>7 DEF TimerSend, timerVars
  <2>2. \A d : Contains(msg_queue', d) <=> Contains(msg_queue, d) \/ d = c
    BY <1>1, <1>2, <1>7, <2>1, Sent
  <2>3. t = "nonblock" => Top("isr", "clear", c)'
    <3> SUFFICES ASSUME t = "nonblock" PROVE Top("isr", "clear", c)'
      OBVIOUS
    <3>1. stack' = [stack EXCEPT !["isr"] = <<<<"clear", c>>>>]
      BY <1>3, <2>1 DEF Return
    <3>2. stack'["isr"] = <<<<"clear", c>>>>
      BY <1>1, <1>2, <3>1 DEF StackType
    <3> QED  BY <3>2 DEF Top
  <2>4. IdInv'
    BY <1>4, <2>1, <2>3 DEF WaitInv, IdInv
  <2>5. \A d \in Chans : Waits(d)' => Coming(d)'
    BY <1>2, <1>4, <1>5, <2>1, <2>2, Comes DEF WaitInv, Waits, Coming
  <2> QED  BY <1>6, <2>4, <2>5 DEF WaitInv, HeadComes, Waits, Coming, Ending
<1>8. CASE ~MsgFree
  <2>1. AddTimer(c, t) /\ msg_queue' = msg_queue
    BY <1>8 DEF TimerSend
  <2>2. /\ timers'[c] = timers[c] \cup {t} /\ timer_id'[c] = timer_id[c] \cup {t}
        /\ \A d \in Chans : d # c => timers'[d] = timers[d] /\ timer_id'[d] = timer_id[d]
    BY <1>1, <2>1, SetTimer
  <2>3. IdInv'
    BY <1>4, <2>2 DEF WaitInv, IdInv
  <2>4. \A d \in Chans : Waits(d)' => Coming(d)'
    BY <1>2, <1>4, <1>5, <2>1, <2>2, Comes DEF WaitInv, Waits, Coming
  <2> QED  BY <1>6, <2>3, <2>4 DEF WaitInv, HeadComes, Waits, Coming, Ending
<1> QED  BY <1>7, <1>8

LEMMA TimerClearWaits ==
  ASSUME ~SMP, IInv, WaitInv, NEW c \in Chans, TimerClear(c)
  PROVE  WaitInv'
<1>1. /\ stack["isr"] # <<>> /\ stack["isr"][1] = <<"clear", c>> /\ "kthread" \in Contexts
      /\ UNCHANGED <<curr_state, pc, status, timers, msg_queue, taken>>
      /\ timer_id' = [timer_id EXCEPT ![c] = @ \ {"nonblock"}]
  BY DEF TimerClear, Top, Contexts, fsmVars, userVars
<1>2. stack["kthread"] = <<>> /\ stack'["kthread"] = <<>>
  BY <1>1, Parts DEF WaitInv, OneInv, TimerClear, Return, TypeInv, StackType
<1>3. /\ \A d : \A t \in Timers : ~Top("isr", t, d)
      /\ \A d : d # c => ~Top("isr", "clear", d)
  BY <1>1 DEF Top, Timers
<1>4. /\ \A d \in Chans : d # c => timer_id'[d] = timer_id[d]
      /\ timer_id'[c] = timer_id[c] \ {"nonblock"}
  BY <1>1, Parts DEF TypeInv
<1>5. OneInv' /\ IdInv'
  BY <1>1, <1>2, <1>3, <1>4 DEF WaitInv, OneInv, IdInv, Timers
<1>6. \A d \in Chans : Waits(d)' => Coming(d)'
  BY <1>1, <1>2, <1>3, Comes DEF WaitInv, Waits, Coming
<1> QED  BY <1>5, <1>6 DEF WaitInv, HeadComes, Waits, Coming, Ending

\* The slice head and the picture.
LEMMA SliceHeadWaits ==
  ASSUME ~SMP, IInv, WaitInv, NEW c \in Chans, SliceHead(c)
  PROVE  WaitInv'
<1>1. TypeInv /\ "isr" \in Contexts /\ "kthread" \in Contexts
  BY Parts DEF Contexts
<1>2. CpuFree /\ taken = c /\ "kthread" \in Contexts
  BY DEF SliceHead, HeadNotWanted, HeadDelayed, HeadReady, MayLock, Contexts
<1>3. CASE HeadNotWanted(c)
  <2>1. UNCHANGED <<stack, curr_state, pc, timers, timer_id, msg_queue>>
        /\ ("head" \in status[c] \/ curr_state[c] # "IDLE")
    BY <1>3 DEF HeadNotWanted, fsmVars, timerVars, userVars
  <2>2. \A d \in Chans : "head" \in status'[d] <=> "head" \in status[d]
    BY <1>1, <1>3, Discarded DEF HeadNotWanted
  <2>3. \A d \in Chans : Waits(d)' => /\ Waits(d)
                                      /\ taken = d => "head" \in status'[d]
    BY <1>2, <2>1, <2>2 DEF Waits
  <2> QED  BY <1>2, <2>1, <2>2, <2>3, EnteredWaits
<1>4. CASE HeadDelayed(c)
  <2>1. UNCHANGED <<stack, curr_state, pc, msg_queue>> /\ Delay(c)
    BY <1>4 DEF HeadDelayed, fsmVars, userVars
  <2>2. \A d \in Chans : "head" \in status'[d] <=> "head" \in status[d]
    BY <1>1, <1>4, Discarded DEF HeadDelayed
  <2>3. /\ \A d \in Chans : /\ timers[d] \subseteq timers'[d]
                            /\ timer_id'[d] \subseteq timer_id[d] \cup timers'[d]
        /\ timers'[c] # {}
    <3>1. CASE AddTimer(c, "delay")
      <4>1. /\ timers'[c] = timers[c] \cup {"delay"} /\ timer_id'[c] = timer_id[c] \cup {"delay"}
            /\ \A d \in Chans : d # c => /\ timers'[d] = timers[d]
                                         /\ timer_id'[d] = timer_id[d]
        BY <1>1, <3>1, SetTimer DEF Timers
      <4> QED  BY <4>1
    <3>2. CASE "delay" \in timer_id[c] /\ UNCHANGED timerVars
      BY <3>2 DEF timerVars, WaitInv, IdInv
    <3> QED  BY <2>1, <3>1, <3>2 DEF Delay
  <2>4. OneInv' /\ IdInv'
    BY <2>1, <2>3 DEF WaitInv, OneInv, IdInv, Top
  <2>5. \A d \in Chans : Waits(d)' => Coming(d)'
    BY <1>2, <2>1, <2>2, <2>3, Comes DEF WaitInv, Waits, Coming, Top
  <2> QED  BY <2>4, <2>5 DEF WaitInv, HeadComes, Waits, Coming, Ending
<1>5. CASE HeadReady(c)
  <2>1. UNCHANGED <<pc, timers, timer_id, msg_queue>> /\ SetStatus("kthread", c, "head")
    BY <1>5 DEF HeadReady, timerVars, userVars
  <2>2. /\ \A y \in Contexts : y # "kthread" => stack'[y] = stack[y]
        /\ \A d \in Chans : d # c => status'[d] = status[d] /\ curr_state'[d] = curr_state[d]
        /\ \/ curr_state'[c] = "STANDBY"
           \/ curr_state'[c] = curr_state[c] /\ "head" \in status'[c]
    <3>1. CASE Enter("kthread", <<Trigger, <<"unlock", c>>>>)
               /\ status' = [status EXCEPT ![c] = {}] /\ Becomes(c, "STANDBY")
      BY <1>1, <3>1 DEF Enter, Becomes, TypeInv, StackType
    <3>2. CASE UNCHANGED <<curr_state, stack>>
               /\ status' = [status EXCEPT ![c] = @ \cup {"head"}]
      BY <1>1, <3>2 DEF TypeInv
    <3> QED  BY <2>1, <3>1, <3>2 DEF SetStatus
  <2>3. \A d \in Chans : Waits(d)' =>
          /\ Waits(d) /\ ("head" \in status[d] => "head" \in status'[d])
          /\ taken = d => "head" \in status'[d]
    BY <1>2, <2>1, <2>2 DEF Waits
  <2> QED  BY <1>2, <2>1, <2>2, <2>3, EnteredWaits
<1> QED  BY <1>3, <1>4, <1>5 DEF SliceHead

LEMMA PictureWaits ==
  ASSUME ~SMP, IInv, WaitInv, NEW c \in Chans, Picture(c) \/ PictureOff(c)
  PROVE  WaitInv'
<1>1. TypeInv /\ "isr" \in Contexts /\ "kthread" \in Contexts /\ "isr" # "kthread"
  BY Parts DEF Contexts
<1>2. CASE Picture(c)
  <2>1. /\ UNCHANGED <<pc, timers, timer_id, msg_queue, taken>> /\ SetStatus("isr", c, "ad")
        /\ CpuFree
    BY <1>2 DEF Picture, MayLock, msgVars, userVars
  <2>2. /\ \A y \in Contexts : y # "isr" => stack'[y] = stack[y]
        /\ \A d \in Chans : d # c => status'[d] = status[d] /\ curr_state'[d] = curr_state[d]
        /\ \/ curr_state'[c] = "STANDBY"
           \/ curr_state'[c] = curr_state[c] /\ status[c] \subseteq status'[c]
    <3>1. CASE Enter("isr", <<Trigger, <<"unlock", c>>>>)
               /\ status' = [status EXCEPT ![c] = {}] /\ Becomes(c, "STANDBY")
      BY <1>1, <3>1 DEF Enter, Becomes, TypeInv, StackType
    <3>2. CASE UNCHANGED <<curr_state, stack>>
               /\ status' = [status EXCEPT ![c] = @ \cup {"ad"}]
      BY <1>1, <3>2 DEF TypeInv
    <3> QED  BY <2>1, <3>1, <3>2 DEF SetStatus
  <2>3. \A d \in Chans : Waits(d)' =>
          Waits(d) /\ ("head" \in status[d] => "head" \in status'[d])
    BY <2>1, <2>2 DEF Waits
  <2> QED  BY <1>1, <2>1, <2>2, <2>3, EnteredWaits
<1>3. CASE PictureOff(c)
  <2>1. UNCHANGED <<stack, curr_state, pc, timers, timer_id, msg_queue, taken>>
        /\ status' = [status EXCEPT ![c] = @ \ {"ad"}]
    BY <1>3 DEF PictureOff, fsmVars, msgVars, userVars
  <2>2. \A d \in Chans : "head" \in status[d] => "head" \in status'[d]
    BY <1>1, <2>1 DEF TypeInv
  <2> QED  BY <2>1, <2>2, QuietWaits DEF Waits
<1> QED  BY <1>2, <1>3

\* The contexts and the interrupt: what they change of a channel takes it out of IDLE.
LEMMA InterruptWaits ==
  ASSUME ~SMP, IInv, WaitInv, NEW c \in Chans, Interrupt(c)
  PROVE  WaitInv'
<1>1. TypeInv /\ StackType /\ "isr" \in Contexts /\ "kthread" \in Contexts
  BY Parts DEF TypeInv, Contexts
<1>2. CASE Irq(c)
  <2>1. /\ UNCHANGED <<status, pc, timers, timer_id, msg_queue, taken>> /\ CpuFree
        /\ curr_state' = [curr_state EXCEPT ![c] = "TRANSFERING"]
        /\ Enter("isr", <<Trigger, <<"rest", c>>, <<"unlock", c>>>>)
    BY <1>2 DEF Irq, Becomes, MayLock, msgVars, userVars
  <2>2. \A y \in Contexts : y # "isr" => stack'[y] = stack[y]
    BY <1>1, <2>1 DEF Enter, StackType
  <2>3. \A d \in Chans : Waits(d)' => Waits(d)
    BY <1>1, <2>1 DEF Waits, TypeInv
  <2> QED  BY <1>1, <2>1, <2>2, <2>3, EnteredWaits DEF Contexts
<1>3. CASE FrameReady(c) \/ FrameDropped(c)
  <2>1. /\ stack["isr"] # <<>> /\ stack["isr"][1] = <<"rest", c>>
        /\ UNCHANGED <<status, pc, timers, timer_id, msg_queue, taken>>
        /\ curr_state' = [curr_state EXCEPT ![c] = "DONE"]
        /\ Return("isr", <<AfterPicture(c)>>)
    BY <1>3 DEF FrameReady, FrameDropped, Top, Becomes, msgVars, userVars
  <2>2. /\ \A y \in Contexts : y # "isr" => stack'[y] = stack[y]
        /\ \A h \in Hooks : \A d : stack["isr"][1] # <<h, d>>
    BY <1>1, <2>1 DEF Return, StackType, Hooks, Timers
  <2>3. \A d \in Chans : Waits(d)' => Waits(d)
    BY <1>1, <2>1 DEF Waits, TypeInv
  <2> QED  BY <1>1, <2>1, <2>2, <2>3, ContextWaits
<1> QED  BY <1>2, <1>3 DEF Interrupt

LEMMA EngineWaits ==
  ASSUME ~SMP, IInv, WaitInv, NEW x \in Contexts, Engine(x)
  PROVE  WaitInv'
<1>1. TypeInv /\ StackType /\ PoolInv
  BY Parts DEF TypeInv
<1>2. /\ stack[x] # <<>> /\ \A h \in Hooks : \A d : stack[x][1] # <<h, d>>
      /\ \A y \in Contexts : y # x => stack'[y] = stack[y]
  <2>1. \E steps : Return(x, steps)
    <3>1. ASSUME TriggerRequest(x) PROVE \E steps : Return(x, steps)
      BY <3>1 DEF TriggerRequest
    <3>2. ASSUME NEW c \in Chans, StartEncode(x, c) PROVE \E steps : Return(x, steps)
      BY <3>2 DEF StartEncode
    <3>3. ASSUME NEW c \in Chans, CheckPending(x, c) PROVE \E steps : Return(x, steps)
      <4>1. pending[c] \in {"none", "suspend", "resume", "close"}
        BY <1>1 DEF TypeInv
      <4> QED  BY <3>3, <4>1 DEF CheckPending
    <3>4. ASSUME NEW c \in Chans, Escape(x, c) \/ Deliver(x, c) \/ Unlock(x, c)
          PROVE  \E steps : Return(x, steps)
      BY <3>4 DEF Escape, Deliver, Unlock
    <3> QED  BY <3>1, <3>2, <3>3, <3>4 DEF Engine
  <2>2. /\ stack[x] # <<>>
        /\ \E s, d : /\ stack[x][1] = <<s, d>>
                     /\ s \in {"trigger", "start", "escape", "check", "deliver", "unlock"}
    BY DEF Engine, TriggerRequest, StartEncode, Escape, CheckPending, Deliver, Unlock, Top,
           Trigger
  <2> QED  BY <1>1, <2>1, <2>2 DEF Return, StackType, Hooks, Timers
<1>3. ASSUME NEW c \in Chans, Deliver(x, c), curr_state[c] = "DONE" PROVE WaitInv'
  <2>1. /\ GenReqMsg(c) /\ taken' = taken /\ status' = status /\ pc' = pc
        /\ curr_state' = [curr_state EXCEPT ![c] = "IDLE"]
    BY <1>3 DEF Deliver, Becomes, userVars
  <2>2. \A h \in Hooks : \A d : ~Top("isr", h, d)
    BY <1>2 DEF WaitInv, OneInv, Top, Contexts
  <2>3. /\ stack["kthread"] = <<>> => stack'["kthread"] = <<>>
        /\ OneInv'
    BY <1>2 DEF WaitInv, OneInv, Contexts
  <2>4. \A d \in Chans : Waits(d)' => Waits(d) \/ d = c
    BY <1>1, <2>1 DEF Waits, TypeInv
  <2> QED  BY <1>1, <2>1, <2>2, <2>3, <2>4, AskedWaits
<1>4. CASE ~ \E c \in Chans : Deliver(x, c) /\ curr_state[c] = "DONE"
  <2>1. /\ UNCHANGED <<status, pc, timers, timer_id, msg_queue>>
        /\ taken' = taken \/ x = "kthread"
    BY <1>4 DEF Engine, TriggerRequest, StartEncode, Escape, CheckPending, Deliver, Unlock,
                msgVars, timerVars, userVars
  <2>2. \/ curr_state' = curr_state
        \/ \E c \in Chans, s \in {"RUNNING", "DONE", "SUSPEND", "UNREGISTER"} :
             curr_state' = [curr_state EXCEPT ![c] = s]
    <3>1. ASSUME NEW c \in Chans, CheckPending(x, c)
          PROVE  \/ curr_state' = curr_state
                 \/ \E s \in {"SUSPEND", "UNREGISTER"} :
                      curr_state' = [curr_state EXCEPT ![c] = s]
      <4>1. pending[c] \in {"none", "suspend", "resume", "close"}
        BY <1>1 DEF TypeInv
      <4> QED  BY <3>1, <4>1 DEF CheckPending, Becomes
    <3>2. ASSUME NEW c \in Chans, StartEncode(x, c)
          PROVE  curr_state' = [curr_state EXCEPT ![c] = "RUNNING"]
      BY <3>2 DEF StartEncode, Becomes
    <3>3. ASSUME NEW c \in Chans, Escape(x, c)
          PROVE  curr_state' = [curr_state EXCEPT ![c] = "DONE"]
      BY <3>3 DEF Escape, Becomes
    <3>4. ASSUME TriggerRequest(x) \/ \E c \in Chans : Unlock(x, c) \/ Deliver(x, c)
          PROVE  curr_state' = curr_state
      BY <1>4, <3>4 DEF TriggerRequest, Unlock, Deliver, fsmVars
    <3> QED  BY <3>1, <3>2, <3>3, <3>4 DEF Engine
  <2>3. \A d \in Chans : Waits(d)' => Waits(d)
    BY <1>1, <2>1, <2>2 DEF Waits, TypeInv
  <2> QED  BY <1>2, <2>1, <2>3, ContextWaits
<1> QED  BY <1>3, <1>4

\* The calls that leave the messages and their timers to others.
LEMMA QuietCallWaits ==
  ASSUME IInv, WaitInv, NEW c \in Chans,
         \/ Open(c) \/ Flush(c) \/ Read(c) \/ Resumed(c) \/ GenSuspend(c) \/ Suspended(c)
         \/ Disabled(c) \/ GenClose(c) \/ Closed(c) \/ GetConsumer(c) \/ Copied(c) \/ Poll(c)
  PROVE  WaitInv'
<1>1. TypeInv /\ CallInv
  BY Parts
<1>2. UNCHANGED <<stack, timers, timer_id, msg_queue, taken>>
  BY DEF Open, Flush, FlushAll, Read, Resumed, GenSuspend, Suspended, Disabled, GenClose,
         Closed, GetConsumer, Copied, Poll, msgVars
<1>3. ASSUME Open(c) \/ Flush(c) \/ Read(c) \/ Resumed(c) \/ GetConsumer(c) \/ Copied(c)
      PROVE  /\ \A d \in Chans : d # c => /\ curr_state'[d] = curr_state[d] /\ pc'[d] = pc[d]
                                          /\ status'[d] = status[d]
             /\ \/ curr_state'[c] = "SUSPEND"
                \/ /\ curr_state'[c] = curr_state[c] /\ status'[c] = status[c]
                   /\ pc[c] \notin Ending
  BY <1>1, <1>3
     DEF TypeInv, Open, Flush, FlushAll, Read, Resumed, GetConsumer, Copied, Goes, Becomes,
         fsmVars, Ending
<1>4. ASSUME GenSuspend(c) \/ GenClose(c)
      PROVE  /\ status' = status
             /\ \A d \in Chans : d # c => curr_state'[d] = curr_state[d] /\ pc'[d] = pc[d]
             /\ curr_state'[c] # "IDLE"
  BY <1>1, <1>4 DEF TypeInv, GenSuspend, GenClose, Goes, Becomes, Busy
<1>5. ASSUME Suspended(c) \/ Disabled(c) \/ Closed(c)
      PROVE  /\ \A d \in Chans : d # c => /\ curr_state'[d] = curr_state[d] /\ pc'[d] = pc[d]
                                          /\ status'[d] = status[d]
             /\ curr_state'[c] # "IDLE"
  BY <1>1, <1>5
     DEF TypeInv, CallInv, Suspended, Disabled, FlushAll, Closed, Goes, Becomes, fsmVars
<1>6. Poll(c) => UNCHANGED <<curr_state, pc, status>>
  BY DEF Poll, fsmVars, userVars
<1>7. \A d \in Chans : Waits(d)' => Waits(d) /\ ("head" \in status[d] => "head" \in status'[d])
  BY <1>3, <1>4, <1>5, <1>6 DEF Waits
<1> QED  BY <1>2, <1>7, QuietWaits

\* Those that ask for a head, or that are about to turn the channel off.
LEMMA CallWaits ==
  ASSUME ~SMP, IInv, WaitInv, NEW c \in Chans, Call(c) \/ Continue(c) \/ Poll(c)
  PROVE  WaitInv'
<1>1. TypeInv /\ PoolInv
  BY Parts
<1>2. CASE Resume(c)
  <2>1. /\ UNCHANGED <<stack, taken, status>> /\ CpuFree /\ pc[c] = "open"
        /\ \A d \in Chans : d # c => curr_state'[d] = curr_state[d] /\ pc'[d] = pc[d]
    BY <1>1, <1>2 DEF Resume, MayLock, Goes, Becomes, TypeInv
  <2>2. \A d \in Chans : Waits(d)' => Waits(d) \/ d = c
    BY <2>1 DEF Waits
  <2>3. CASE GenReqMsg(c)
    <3>1. (\A h \in Hooks : \A d : ~Top("isr", h, d)) /\ OneInv'
      BY <2>1, NoneAtWork DEF OneInv
    <3> QED  BY <1>1, <2>1, <2>2, <2>3, <3>1, AskedWaits
  <2>4. CASE UNCHANGED <<curr_state, timerVars, msg_queue>>
    <3>1. UNCHANGED <<timers, timer_id, msg_queue>>
          /\ \A d \in Chans : Waits(d)' => Waits(d)
      BY <2>1, <2>4 DEF timerVars, Waits, Ending
    <3> QED  BY <2>1, <3>1, QuietWaits
  <2> QED  BY <1>2, <2>3, <2>4 DEF Resume
<1>3. CASE Suspend(c) \/ Close(c)
  <2>1. /\ UNCHANGED <<stack, taken, status, curr_state, msg_queue>>
        /\ CpuFree /\ pc'[c] \in Ending /\ DeleteTimers(c)
        /\ \A d \in Chans : d # c => pc'[d] = pc[d]
    BY <1>1, <1>3 DEF Suspend, Close, Goes, TypeInv, Ending, fsmVars
  <2>2. /\ timer_id'[c] = {}
        /\ \A d \in Chans : d # c => timers'[d] = timers[d] /\ timer_id'[d] = timer_id[d]
    BY <1>1, <2>1 DEF DeleteTimers, TypeInv
  <2>3. OneInv' /\ IdInv'
    BY <2>1, <2>2 DEF WaitInv, OneInv, IdInv, Top
  <2>4. \A d \in Chans : Waits(d)' => Coming(d)'
    BY <2>1, <2>2, Comes DEF WaitInv, Waits, Coming, Top
  <2> QED  BY <2>3, <2>4 DEF WaitInv, HeadComes, Waits, Coming, Ending
<1>4. CASE CloseMsgs(c)
  <2>1. /\ UNCHANGED <<stack, taken, status, curr_state, timers, timer_id>>
        /\ pc'[c] \in Ending /\ \A d \in Chans : d # c => pc'[d] = pc[d]
    BY <1>1, <1>4 DEF CloseMsgs, Goes, TypeInv, Ending, fsmVars, timerVars
  <2>2. \A d : Contains(msg_queue', d) <=> Contains(msg_queue, d) /\ d # c
    BY <1>1, <1>4, Withdrawn DEF TypeInv, CloseMsgs
  <2>3. OneInv' /\ IdInv'
    BY <2>1 DEF WaitInv, OneInv, IdInv, Top
  <2>4. \A d \in Chans : Waits(d)' => Coming(d)'
    BY <2>1, <2>2, Comes DEF WaitInv, Waits, Coming, Top
  <2> QED  BY <2>3, <2>4 DEF WaitInv, HeadComes, Waits, Coming, Ending
<1> QED  BY <1>2, <1>3, <1>4, QuietCallWaits DEF Call, Continue

LEMMA InitWaits == Init => WaitInv
BY DEF Init, WaitInv, OneInv, IdInv, HeadComes, Contexts

LEMMA NextWaits ==
  ASSUME ~SMP, IInv, WaitInv, [Next]_vars
  PROVE  WaitInv'
<1>1. ASSUME NEW c \in Chans, Hook(c) \/ \E t \in Timers : MsgTimer(c, t) PROVE WaitInv'
  BY <1>1, MsgTimerWaits, TimerSendWaits, TimerClearWaits DEF Hook
<1>2. CASE UNCHANGED vars
  <2>1. UNCHANGED <<stack, timers, timer_id, msg_queue, taken, curr_state, pc, status>>
    BY <1>2 DEF vars, fsmVars, msgVars, userVars
  <2> QED  BY <2>1, QuietWaits DEF Waits
<1> QED  BY <1>1, <1>2, EngineWaits, TakeMsgWaits, SliceHeadWaits, PictureWaits,
            InterruptWaits, CallWaits DEF Next

\* On one processor a channel that waits for its slice head is never forgotten, however
\* often the pool of messages is empty, a call stops the timers or a hook runs.  On two it
\* is: the thread may drop its request for an id that TimerClear has yet to clear.
THEOREM HeadCorrect ==
  ASSUME ~SMP
  PROVE  Spec => []HeadComes
<1>1. Init => WaitInv
  BY InitWaits
<1>2. IInv /\ WaitInv /\ [Next]_vars => WaitInv'
  BY NextWaits
<1>3. WaitInv => HeadComes
  BY DEF WaitInv
<1> QED  BY <1>1, <1>2, <1>3, Invariant, PTL DEF Spec

-----------------------------------------------------------------------------
(* The stream of a channel *)

LEMMA SameModes ==
  ASSUME \A d \in Chans : Mode(d)' = Mode(d), frame_queue' = frame_queue, lost' = lost
  PROVE  UNCHANGED Stream!vars
<1>1. [d \in Chans |-> Mode(d)]' = [d \in Chans |-> Mode(d)]
  OBVIOUS
<1> QED  BY <1>1 DEF Stream!vars

LEMMA NewMode ==
  ASSUME NEW c \in Chans, \A d \in Chans : d # c => curr_state'[d] = curr_state[d]
  PROVE  [d \in Chans |-> Mode(d)]' = [[d \in Chans |-> Mode(d)] EXCEPT ![c] = Mode(c)']
BY DEF Mode

LEMMA InitRefines == Init => Stream!Init
BY DEF Init, Stream!Init, Mode

\* What the contexts and the thread do.
LEMMA EngineRefines ==
  ASSUME IInv, NEW x \in Contexts, Engine(x)
  PROVE  [Stream!Next]_(Stream!vars)
<1>1. TypeInv /\ StartInv /\ EndInv /\ CallInv /\ StackType
  BY Parts DEF TypeInv
<1>2. CASE TriggerRequest(x)
  <2>1. UNCHANGED <<fsmVars, frameVars, readVars>>
    BY <1>2 DEF TriggerRequest
  <2> QED  BY <2>1, SameModes DEF fsmVars, frameVars, readVars, Mode
<1>3. ASSUME NEW c \in Chans, StartEncode(x, c) PROVE UNCHANGED Stream!vars
  <2>1. On(x, "start", c)
    BY <1>1, <1>3, OnTop DEF StartEncode, Top
  <2>2. curr_state[c] = "STANDBY" /\ curr_state' = [curr_state EXCEPT ![c] = "RUNNING"]
        /\ UNCHANGED <<lost, readVars>>
    BY <1>1, <1>3, <2>1 DEF StartEncode, Becomes, StartInv
  <2> QED  BY <1>1, <2>2, SameModes DEF Mode, TypeInv, readVars
<1>4. ASSUME NEW c \in Chans, Escape(x, c) PROVE UNCHANGED Stream!vars
  <2>1. On(x, "escape", c)
    BY <1>1, <1>4, OnTop DEF Escape, Top
  <2>2. curr_state[c] = "RUNNING" /\ curr_state' = [curr_state EXCEPT ![c] = "DONE"]
        /\ UNCHANGED <<lost, readVars>>
    BY <1>1, <1>4, <2>1 DEF Escape, Becomes, EndInv
  <2> QED  BY <1>1, <2>2, SameModes DEF Mode, TypeInv, readVars
<1>5. ASSUME NEW c \in Chans, Deliver(x, c) PROVE UNCHANGED Stream!vars
  <2>1. UNCHANGED <<frameVars, readVars>>
        /\ \/ curr_state' = curr_state
           \/ curr_state[c] = "DONE" /\ curr_state' = [curr_state EXCEPT ![c] = "IDLE"]
    BY <1>5 DEF Deliver, Becomes
  <2> QED  BY <1>1, <2>1, SameModes DEF Mode, TypeInv, frameVars, readVars
<1>6. ASSUME NEW c \in Chans, Unlock(x, c) PROVE UNCHANGED Stream!vars
  <2>1. UNCHANGED <<fsmVars, frameVars, readVars>>
    BY <1>6 DEF Unlock
  <2> QED  BY <2>1, SameModes DEF fsmVars, frameVars, readVars, Mode
<1>7. ASSUME NEW c \in Chans, CheckPending(x, c) PROVE [Stream!Next]_(Stream!vars)
  <2>1. On(x, "check", c)
    BY <1>1, <1>7, OnTop DEF CheckPending, Top
  <2>2. /\ pending[c] # "none" => curr_state[c] = "DONE"
        /\ pending[c] \in {"none", "suspend", "resume", "close"}
    BY <1>1, <2>1 DEF EndInv, CallInv, TypeInv
  <2>3. UNCHANGED <<frame_queue, lost>>
    BY <1>7 DEF CheckPending, frameVars, readVars
  <2>4. CASE pending[c] \in {"none", "resume"}
    <3>1. curr_state' = curr_state
      BY <1>7, <2>4 DEF CheckPending
    <3> QED  BY <2>3, <3>1, SameModes DEF Mode
  <2>5. CASE pending[c] = "suspend"
    <3>1. curr_state' = [curr_state EXCEPT ![c] = "SUSPEND"]
      BY <1>7, <2>5 DEF CheckPending, Becomes
    <3>2. Mode(c) = "on" /\ Mode(c)' = "off"
      BY <1>1, <2>2, <2>5, <3>1 DEF Mode, TypeInv
    <3>3. [d \in Chans |-> Mode(d)]' = [[d \in Chans |-> Mode(d)] EXCEPT ![c] = "off"]
      BY <1>1, <3>1, <3>2, NewMode DEF TypeInv
    <3>4. Stream!Disable(c)
      BY <2>3, <3>2, <3>3 DEF Stream!Disable, Stream!Goes
    <3> QED  BY <3>4 DEF Stream!Next
  <2>6. CASE pending[c] = "close"
    <3>1. curr_state' = [curr_state EXCEPT ![c] = "UNREGISTER"]
      BY <1>7, <2>6 DEF CheckPending, Becomes
    <3>2. Mode(c) # "closed" /\ Mode(c)' = "closed"
      BY <1>1, <2>2, <2>6, <3>1 DEF Mode, TypeInv
    <3>3. [d \in Chans |-> Mode(d)]' = [[d \in Chans |-> Mode(d)] EXCEPT ![c] = "closed"]
      BY <1>1, <3>1, <3>2, NewMode DEF TypeInv
    <3>4. Stream!Close(c)
      BY <2>3, <3>2, <3>3 DEF Stream!Close
    <3> QED  BY <3>4 DEF Stream!Next
  <2> QED  BY <2>2, <2>4, <2>5, <2>6
<1> QED  BY <1>2, <1>3, <1>4, <1>5, <1>6, <1>7 DEF Engine

LEMMA SetStatusRefines ==
  ASSUME TypeInv, NEW x \in Contexts, NEW c \in Chans, NEW bit, SetStatus(x, c, bit),
         curr_state[c] = "IDLE", UNCHANGED <<frame_queue, lost>>
  PROVE  UNCHANGED Stream!vars
<1>1. curr_state' = curr_state \/ curr_state' = [curr_state EXCEPT ![c] = "STANDBY"]
  BY DEF SetStatus, Becomes
<1> QED  BY <1>1, SameModes DEF Mode, TypeInv

\* The slice head, the picture and the interrupt.
LEMMA ChannelRefines ==
  ASSUME IInv, NEW c \in Chans, SliceHead(c) \/ Picture(c) \/ PictureOff(c) \/ Interrupt(c)
  PROVE  [Stream!Next]_(Stream!vars)
<1>1. TypeInv /\ HeldInv /\ EngineInv /\ EndInv /\ ReaderInv /\ StackType
      /\ "isr" \in Contexts /\ "kthread" \in Contexts
  BY Parts DEF TypeInv, Contexts
<1>2. CASE HeadNotWanted(c) \/ HeadDelayed(c) \/ PictureOff(c)
  <2>1. UNCHANGED <<fsmVars, frameVars, readVars>>
    BY <1>2 DEF HeadNotWanted, HeadDelayed, PictureOff
  <2> QED  BY <2>1, SameModes DEF fsmVars, frameVars, readVars, Mode
<1>3. CASE HeadReady(c)
  <2>1. /\ SetStatus("kthread", c, "head") /\ curr_state[c] = "IDLE"
        /\ UNCHANGED <<lost, readVars>>
    BY <1>3 DEF HeadReady
  <2> QED  BY <1>1, <2>1, SetStatusRefines DEF readVars
<1>4. CASE Picture(c)
  <2>1. /\ SetStatus("isr", c, "ad") /\ curr_state[c] = "IDLE"
        /\ UNCHANGED <<frameVars, readVars>>
    BY <1>4 DEF Picture
  <2> QED  BY <1>1, <2>1, SetStatusRefines DEF frameVars, readVars
<1>5. CASE Irq(c)
  <2>1. curr_state[c] = "RUNNING" /\ curr_state' = [curr_state EXCEPT ![c] = "TRANSFERING"]
        /\ UNCHANGED <<lost, readVars>>
    BY <1>1, <1>5 DEF Irq, Becomes, EngineInv
  <2> QED  BY <1>1, <2>1, SameModes DEF Mode, TypeInv, readVars
<1>6. CASE FrameReady(c) \/ FrameDropped(c)
  <2>1. On("isr", "rest", c)
    BY <1>1, <1>6, OnTop DEF FrameReady, FrameDropped, Top
  <2>2. curr_state[c] = "TRANSFERING" /\ curr_state' = [curr_state EXCEPT ![c] = "DONE"]
    BY <1>1, <1>6, <2>1 DEF FrameReady, FrameDropped, Becomes, EndInv
  <2>3. /\ Mode(c) = "on"
        /\ [d \in Chans |-> Mode(d)]' = [d \in Chans |-> Mode(d)]
    BY <1>1, <2>2 DEF Mode, TypeInv
  <2>4. CASE FrameReady(c)
    <3>1. PICK type \in {"I", "P"} : type = frame_type[c]
      BY <1>1, <2>4 DEF FrameReady, TypeInv
    <3>2. b_flush[c] = {} /\ frame_queue' = [frame_queue EXCEPT ![c] = Append(@, type)]
          /\ lost' = [lost EXCEPT ![c] = @ /\ type # "I"]
      BY <2>4, <3>1 DEF FrameReady
    <3>3. type = "I" \/ ~lost[c]
      BY <1>1, <3>1, <3>2 DEF ReaderInv, TypeInv
    <3>4. lost' = [lost EXCEPT ![c] = FALSE]
      <4>1. lost \in [Chans -> BOOLEAN]
        BY <1>1 DEF TypeInv
      <4> QED  BY <3>2, <3>3, <4>1
    <3>5. Len(frame_queue[c]) < FRAMES
      <4> DEFINE n == Len(frame_queue[c])
                 r == IF reader[c] THEN 1 ELSE 0
      <4>1. n \in Nat /\ r \in Nat /\ Held(c) <= FRAMES /\ FRAMES \in Nat
        BY <1>1, EncChanAssumption DEF TypeInv, HeldInv
      <4>2. Held(c) = 1 + n + r
        BY <3>1 DEF Held
      <4>3. n < FRAMES
        <5> HIDE DEF n, r
        <5> QED  BY <4>1, <4>2
      <4> QED  BY <4>3
    <3>6. Stream!Encode(c, type)
      BY <2>3, <3>2, <3>3, <3>4, <3>5 DEF Stream!Encode
    <3> QED  BY <3>6 DEF Stream!Next
  <2>5. CASE FrameDropped(c)
    <3>1. lost' = [lost EXCEPT ![c] = TRUE] /\ frame_queue' = frame_queue
      BY <2>5 DEF FrameDropped, readVars
    <3>2. Stream!Lose(c)
      BY <2>3, <3>1 DEF Stream!Lose
    <3> QED  BY <3>2 DEF Stream!Next
  <2> QED  BY <1>6, <2>4, <2>5
<1> QED  BY <1>2, <1>3, <1>4, <1>5, <1>6 DEF SliceHead, Interrupt

\* The calls and the polling timer.
LEMMA UserRefines ==
  ASSUME IInv, NEW c \in Chans, Call(c) \/ Continue(c) \/ Poll(c)
  PROVE  [Stream!Next]_(Stream!vars)
<1>1. TypeInv /\ HeldInv /\ CallInv /\ ReaderInv
  BY Parts
<1>2. CASE Suspend(c) \/ Close(c) \/ Resumed(c) \/ Suspended(c) \/ CloseMsgs(c)
  <2>1. UNCHANGED <<curr_state, lost, readVars>>
    BY <1>2 DEF Suspend, Close, Resumed, Suspended, CloseMsgs, fsmVars, frameVars
  <2> QED  BY <2>1, SameModes DEF readVars, Mode
<1>3. CASE Copied(c)
  <2>1. UNCHANGED <<curr_state, lost, frame_queue>>
    BY <1>3 DEF Copied, fsmVars, frameVars
  <2> QED  BY <2>1, SameModes DEF Mode
<1>4. CASE Poll(c) \/ Read(c)
  <2>1. curr_state' = curr_state /\ FlushConsumer(c)
    BY <1>4 DEF Poll, Read, fsmVars
  <2> QED  BY <1>1, <2>1, Flushing, SameModes DEF Mode
<1>5. CASE Open(c)
  <2>1. /\ pc[c] = "closed" /\ curr_state' = [curr_state EXCEPT ![c] = "SUSPEND"]
        /\ UNCHANGED <<frame_queue, lost>>
    BY <1>5 DEF Open, Becomes, readVars
  <2>2. curr_state[c] = "UNREGISTER" /\ frame_queue[c] = <<>>
    BY <1>1, <2>1 DEF CallInv, ReaderInv
  <2>3. Mode(c) = "closed" /\ Mode(c)' = "off"
    BY <1>1, <2>1, <2>2 DEF Mode, TypeInv
  <2>4. [d \in Chans |-> Mode(d)]' = [[d \in Chans |-> Mode(d)] EXCEPT ![c] = "off"]
    BY <1>1, <2>1, <2>3, NewMode DEF TypeInv
  <2>5. Stream!Open(c)
    BY <2>1, <2>2, <2>3, <2>4 DEF Stream!Open, Stream!Goes
  <2> QED  BY <2>5 DEF Stream!Next
<1>6. CASE Resume(c)
  <2>1. frame_queue' = frame_queue
    BY <1>6 DEF Resume, readVars
  <2>2. CASE UNCHANGED <<curr_state, lost>>
    BY <2>1, <2>2, SameModes DEF Mode
  <2>3. CASE /\ curr_state[c] \in {"SUSPEND", "DONE"} /\ Becomes(c, "IDLE")
             /\ lost' = [lost EXCEPT ![c] = @ \/ curr_state[c] = "SUSPEND"]
    <3>1. CASE curr_state[c] = "DONE"
      <4>1. lost' = lost
        BY <1>1, <2>3, <3>1 DEF TypeInv
      <4> QED  BY <1>1, <2>1, <2>3, <3>1, <4>1, SameModes DEF Mode, TypeInv, Becomes
    <3>2. CASE curr_state[c] = "SUSPEND"
      <4>1. lost' = [lost EXCEPT ![c] = TRUE]
        BY <1>1, <2>3, <3>2 DEF TypeInv
      <4>2. Mode(c) = "off" /\ Mode(c)' = "on"
        BY <1>1, <2>3, <3>2 DEF Mode, TypeInv, Becomes
      <4>3. [d \in Chans |-> Mode(d)]' = [[d \in Chans |-> Mode(d)] EXCEPT ![c] = "on"]
        BY <1>1, <2>3, <4>2, NewMode DEF TypeInv, Becomes
      <4>4. Stream!Enable(c)
        BY <2>1, <4>1, <4>2, <4>3 DEF Stream!Enable, Stream!Goes
      <4> QED  BY <4>4 DEF Stream!Next
    <3> QED  BY <2>3, <3>1, <3>2
  <2> QED  BY <1>6, <2>2, <2>3 DEF Resume
<1>7. CASE FlushAll(c)
  <2>1. /\ curr_state' = curr_state /\ frame_queue' = [frame_queue EXCEPT ![c] = <<>>]
        /\ lost' = [lost EXCEPT ![c] = TRUE]
    BY <1>7 DEF FlushAll, fsmVars
  <2>2. [d \in Chans |-> Mode(d)]' = [d \in Chans |-> Mode(d)]
    BY <2>1 DEF Mode
  <2>3. Stream!Lose(c)
    BY <2>1, <2>2 DEF Stream!Lose
  <2> QED  BY <2>3 DEF Stream!Next
<1>8. CASE GenSuspend(c)
  <2>1. UNCHANGED <<frame_queue, lost>> /\ pc[c] = "suspend"
    BY <1>8 DEF GenSuspend, frameVars, readVars
  <2>2. CASE curr_state' = curr_state
    BY <2>1, <2>2, SameModes DEF Mode
  <2>3. CASE Becomes(c, "SUSPEND") /\ curr_state' # curr_state
    <3>1. curr_state[c] = "SUSPEND" => curr_state' = curr_state
      BY <1>1, <2>3 DEF TypeInv, Becomes
    <3>2. curr_state[c] # "UNREGISTER"
      BY <1>1, <2>1 DEF CallInv
    <3>3. curr_state[c] \notin {"UNREGISTER", "SUSPEND"}
      BY <2>3, <3>1, <3>2
    <3>4. Mode(c) = "on" /\ Mode(c)' = "off"
      BY <1>1, <2>3, <3>3 DEF Mode, TypeInv, Becomes
    <3>5. [d \in Chans |-> Mode(d)]' = [[d \in Chans |-> Mode(d)] EXCEPT ![c] = "off"]
      BY <1>1, <2>3, <3>4, NewMode DEF TypeInv, Becomes
    <3>6. Stream!Disable(c)
      BY <2>1, <3>4, <3>5 DEF Stream!Disable, Stream!Goes
    <3> QED  BY <3>6 DEF Stream!Next
  <2> QED  BY <1>8, <2>2, <2>3 DEF GenSuspend
<1>9. CASE GenClose(c)
  <2>1. UNCHANGED <<frame_queue, lost>> /\ pc[c] = "close"
    BY <1>9 DEF GenClose, frameVars, readVars
  <2>2. CASE curr_state' = curr_state
    BY <2>1, <2>2, SameModes DEF Mode
  <2>3. CASE Becomes(c, "UNREGISTER")
    <3>1. Mode(c) # "closed" /\ Mode(c)' = "closed"
      BY <1>1, <2>1, <2>3 DEF Mode, CallInv, TypeInv, Becomes
    <3>2. [d \in Chans |-> Mode(d)]' = [[d \in Chans |-> Mode(d)] EXCEPT ![c] = "closed"]
      BY <1>1, <2>3, <3>1, NewMode DEF TypeInv, Becomes
    <3>3. Stream!Close(c)
      BY <2>1, <3>1, <3>2 DEF Stream!Close
    <3> QED  BY <3>3 DEF Stream!Next
  <2> QED  BY <1>9, <2>2, <2>3 DEF GenClose
<1>10. CASE Closed(c)
  <2>1. /\ pc[c] = "closing" /\ "close" \in done[c] /\ Becomes(c, "UNREGISTER")
        /\ frame_queue' = [frame_queue EXCEPT ![c] = <<>>]
        /\ lost' = [lost EXCEPT ![c] = TRUE]
    BY <1>10 DEF Closed
  <2>2. curr_state' = curr_state
    BY <1>1, <2>1 DEF CallInv, TypeInv, Becomes
  <2>3. [d \in Chans |-> Mode(d)]' = [d \in Chans |-> Mode(d)]
    BY <2>2 DEF Mode
  <2>4. Stream!Lose(c)
    BY <2>1, <2>3 DEF Stream!Lose
  <2> QED  BY <2>4 DEF Stream!Next
<1>11. CASE GetConsumer(c)
  <2>1. UNCHANGED <<curr_state, lost>> /\ pc[c] = "read"
    BY <1>11 DEF GetConsumer, fsmVars, frameVars
  <2>2. [d \in Chans |-> Mode(d)]' = [d \in Chans |-> Mode(d)]
    BY <2>1 DEF Mode
  <2>3. Mode(c) # "closed"
    BY <1>1, <2>1 DEF CallInv, Mode
  <2>4. CASE reader[c] \/ frame_queue[c] = <<>>
    <3>1. frame_queue' = [frame_queue EXCEPT ![c] = @] \/ frame_queue' = frame_queue
      BY <1>11, <2>4 DEF GetConsumer, readVars
    <3>2. frame_queue' = frame_queue
      BY <1>1, <3>1 DEF TypeInv
    <3> QED  BY <2>1, <3>2, SameModes DEF Mode
  <2>5. CASE ~reader[c] /\ frame_queue[c] # <<>>
    <3>1. frame_queue' = [frame_queue EXCEPT ![c] = Tail(@)]
      BY <1>11, <2>5 DEF GetConsumer
    <3>2. Stream!Read(c)
      BY <2>1, <2>2, <2>3, <2>5, <3>1 DEF Stream!Read
    <3> QED  BY <3>2 DEF Stream!Next
  <2> QED  BY <2>4, <2>5
<1> QED  BY <1>2, <1>3, <1>4, <1>5, <1>6, <1>7, <1>8, <1>9, <1>10, <1>11
         DEF Call, Continue, Flush, Disabled

LEMMA NextRefines ==
  ASSUME IInv, [Next]_vars
  PROVE  [Stream!Next]_(Stream!vars)
<1>1. CASE TakeMsg \/ \E c \in Chans : Hook(c) \/ \E t \in Timers : MsgTimer(c, t)
  <2>1. UNCHANGED <<fsmVars, frameVars, readVars>>
    BY <1>1 DEF TakeMsg, Hook, MsgTimer, TimerSend, TimerClear
  <2> QED  BY <2>1, SameModes DEF fsmVars, frameVars, readVars, Mode
<1>2. CASE UNCHANGED vars
  BY <1>2, SameModes DEF vars, fsmVars, frameVars, readVars, Mode
<1> QED  BY <1>1, <1>2, EngineRefines, ChannelRefines, UserRefines DEF Next

\* A channel gives frames only while it is on, none of an earlier opening, and an I frame
\* after a picture was lost: the promise of EncStream, for any channels and pools.
THEOREM Refines == Spec => IsStream
<1>1. Spec => Stream!Spec
  BY InitRefines, NextRefines, Invariant, PTL DEF Spec, Stream!Spec
<1> QED
  BY <1>1 DEF IsStream
=============================================================================
