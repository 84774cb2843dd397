-------------------------- MODULE ThreadPoolProofs --------------------------
(***************************************************************************)
(* The count of threads in ThreadPool, for any number of calls and threads.*)
(* The count and the idle list depend on each other: save_thread keeps     *)
(* every thread because the list has at most threads_num entries, and the  *)
(* shutdown waits for every thread because it starts when the list has     *)
(* threads_num entries, which are then all the threads there are.          *)
(***************************************************************************)
EXTENDS ThreadPool, FiniteSetTheorems, TLAPS

Leaving == {"exit", "store", "empty", "unlock", "gone"}

\* A worker that loaded the count for its decrement did not load too little.
LoadedEnough ==
  \A w \in Workers : wpc[w] = "store" => loaded[w] >= Cardinality(Counted)

\* The idle list: distinct threads, none on its way to a job.
ListInv ==
  /\ \A i \in 0 .. index - 1 : threads_list[i] \in Workers
  /\ \A i, j \in 0 .. index - 1 : threads_list[i] = threads_list[j] => i = j
  /\ \A w \in Workers : job[w] \in Calls => call[job[w]] \in {"signal", "done"}
  /\ \A i \in 0 .. index - 1 : \A c \in Calls :
       call[c] = "signal" => job[threads_list[i]] # c

\* Before the shutdown idle threads stay parked and nobody leaves.
RunningInv ==
  ~ is_shutdown =>
    /\ fpc \in {"idle", "fullwait", "fullwoken"}
    /\ freed = {}
    /\ threads_num <= MaxThreads
    /\ \A i \in 0 .. index - 1 : wpc[threads_list[i]] \in {"park", "wait"}
    /\ \A w \in Workers : wpc[w] \notin Leaving

\* After it no thread is at work, and no call is in progress.
ShutdownInv ==
  is_shutdown =>
    /\ fpc \notin {"idle", "fullwait", "fullwoken"}
    /\ \A c \in Calls : call[c] \in {"done", "failed"}
    /\ \A i \in 0 .. index - 1 : wpc[threads_list[i]] # "none"
    /\ \A w \in Workers : wpc[w] \in {"none", "park", "wait", "woken"} \cup Leaving

IInv == TypeOK /\ CountNeverTooLow /\ LoadedEnough /\ ListInv /\ RunningInv
          /\ ShutdownInv /\ FreedOnlyAfterExit

-----------------------------------------------------------------------------
\* A list of n different members of a finite set T has at most as many entries
\* as T has members, and all of T when it has as many.
LEMMA ListFits ==
  ASSUME NEW n \in Nat, NEW f, NEW T, IsFiniteSet(T),
         \A i \in 0 .. n - 1 : f[i] \in T,
         \A i, j \in 0 .. n - 1 : f[i] = f[j] => i = j
  PROVE  /\ n <= Cardinality(T)
         /\ n >= Cardinality(T) => \A t \in T : \E i \in 0 .. n - 1 : f[i] = t
<1> DEFINE g == [i \in 0 .. n - 1 |-> f[i]]
<1>1. g \in Injection(0 .. n - 1, T)
  BY DEF Injection, IsInjective
<1>2. Cardinality(0 .. n - 1) = n
  BY FS_Interval
<1>3. /\ n <= Cardinality(T)
      /\ n = Cardinality(T) <=> g \in Surjection(0 .. n - 1, T)
  BY <1>1, <1>2, FS_Injection
<1>4. Cardinality(T) \in Nat
  BY FS_CardinalityType
<1>5. g \in Surjection(0 .. n - 1, T) => \A t \in T : \E i \in 0 .. n - 1 : f[i] = t
  BY DEF Surjection
<1> QED  BY <1>3, <1>4, <1>5

\* Counted is finite, so that its cardinality is a number.
LEMMA CountedFinite == IsFiniteSet(Counted) /\ Cardinality(Counted) \in Nat
BY FiniteAssumption, FS_Subset, FS_CardinalityType DEF Counted

\* The initial state satisfies the invariant.
LEMMA InitIInv == Init => IInv
<1> SUFFICES ASSUME Init PROVE IInv
  OBVIOUS
<1>1. Counted = {}
  BY DEF Init, Counted
<1>2. Cardinality(Counted) = 0
  BY <1>1, FS_EmptySet
<1>3. TypeOK
  <2>1. /\ threads_list \in [0 .. MaxThreads - 1 -> Workers \cup {NULL}]
        /\ index \in 0 .. MaxThreads /\ threads_num \in Nat /\ fi \in Nat
    BY MaxThreadsAssumption DEF Init
  <2>2. /\ call \in [Calls -> CallState] /\ wpc \in [Workers -> WorkerState]
        /\ fpc \in FreerState /\ is_shutdown \in BOOLEAN /\ freed \subseteq Workers
    BY DEF Init, CallState, WorkerState, FreerState
  <2>3. /\ job \in [Workers -> Calls \cup {NoJob}]
        /\ loaded \in [Workers -> Nat] /\ ran \in [Calls -> Nat]
    BY DEF Init
  <2> QED  BY <2>1, <2>2, <2>3 DEF TypeOK
<1>4. CountNeverTooLow /\ LoadedEnough
  BY <1>2 DEF Init, CountNeverTooLow, LoadedEnough
<1>5. ListInv
  BY NoJobAssumption DEF Init, ListInv
<1>6. RunningInv /\ ShutdownInv /\ FreedOnlyAfterExit
  BY MaxThreadsAssumption DEF Init, RunningInv, ShutdownInv, FreedOnlyAfterExit, Leaving
<1> QED
  BY <1>3, <1>4, <1>5, <1>6 DEF IInv

\* DispatchWait keeps the invariant.
LEMMA DispatchWaitStep == ASSUME IInv, NEW c \in Calls, DispatchWait(c) PROVE IInv'
<1> USE DEF CallMove, WorkerMove, poolVars, workVars, freeVars, vars
<1>1. Counted' = Counted
  BY DEF DispatchWait, IInv, TypeOK, Counted
<1>2. TypeOK'
  BY DEF DispatchWait, IInv, TypeOK, CallState, WorkerState, FreerState
<1>3. CountNeverTooLow' /\ LoadedEnough'
  BY <1>1 DEF DispatchWait, IInv, TypeOK, CountNeverTooLow, LoadedEnough
<1>4. ListInv'
  BY DEF DispatchWait, IInv, TypeOK, ListInv, MayEnter, RunningInv
<1>5. RunningInv'
  BY DEF DispatchWait, IInv, TypeOK, RunningInv, ListInv, Leaving, MayEnter, RunningInv
<1>6. ShutdownInv'
  BY DEF DispatchWait, IInv, TypeOK, ShutdownInv, Leaving, MayEnter, RunningInv
<1>7. FreedOnlyAfterExit'
  BY DEF DispatchWait, IInv, TypeOK, FreedOnlyAfterExit, RunningInv, ShutdownInv, Leaving, MayEnter, RunningInv
<1> QED  BY <1>2, <1>3, <1>4, <1>5, <1>6, <1>7 DEF IInv

\* WorkerRan keeps the invariant.
LEMMA WorkerRanStep == ASSUME IInv, NEW w \in Workers, WorkerRan(w) PROVE IInv'
<1> USE DEF CallMove, WorkerMove, poolVars, workVars, freeVars, vars
<1>1. Counted' = Counted
  BY DEF WorkerRan, IInv, TypeOK, Counted
<1>2. TypeOK'
  BY DEF WorkerRan, IInv, TypeOK, CallState, WorkerState, FreerState
<1>3. CountNeverTooLow' /\ LoadedEnough'
  BY <1>1 DEF WorkerRan, IInv, TypeOK, CountNeverTooLow, LoadedEnough
<1>4. ListInv'
  BY DEF WorkerRan, IInv, TypeOK, ListInv
<1>5. RunningInv'
  BY DEF WorkerRan, IInv, TypeOK, RunningInv, ListInv, Leaving
<1>6. ShutdownInv'
  BY DEF WorkerRan, IInv, TypeOK, ShutdownInv, Leaving
<1>7. FreedOnlyAfterExit'
  BY DEF WorkerRan, IInv, TypeOK, FreedOnlyAfterExit, RunningInv, ShutdownInv, Leaving
<1> QED  BY <1>2, <1>3, <1>4, <1>5, <1>6, <1>7 DEF IInv

\* WorkerLock keeps the invariant.
LEMMA WorkerLockStep == ASSUME IInv, NEW w \in Workers, WorkerLock(w) PROVE IInv'
<1> USE DEF CallMove, WorkerMove, poolVars, workVars, freeVars, vars
<1>1. Counted' = Counted
  BY DEF WorkerLock, IInv, TypeOK, Counted
<1>2. TypeOK'
  BY DEF WorkerLock, IInv, TypeOK, CallState, WorkerState, FreerState
<1>3. CountNeverTooLow' /\ LoadedEnough'
  BY <1>1 DEF WorkerLock, IInv, TypeOK, CountNeverTooLow, LoadedEnough
<1>4. ListInv'
  BY DEF WorkerLock, IInv, TypeOK, ListInv, RunningInv
<1>5. RunningInv'
  BY DEF WorkerLock, IInv, TypeOK, RunningInv, ListInv, Leaving, RunningInv
<1>6. ShutdownInv'
  BY DEF WorkerLock, IInv, TypeOK, ShutdownInv, Leaving, RunningInv
<1>7. FreedOnlyAfterExit'
  BY DEF WorkerLock, IInv, TypeOK, FreedOnlyAfterExit, RunningInv, ShutdownInv, Leaving, RunningInv
<1> QED  BY <1>2, <1>3, <1>4, <1>5, <1>6, <1>7 DEF IInv

\* WorkerPark keeps the invariant.
LEMMA WorkerParkStep == ASSUME IInv, NEW w \in Workers, WorkerPark(w) PROVE IInv'
<1> USE DEF CallMove, WorkerMove, poolVars, workVars, freeVars, vars
<1>1. Counted' = Counted
  BY DEF WorkerPark, IInv, TypeOK, Counted
<1>2. TypeOK'
  BY DEF WorkerPark, IInv, TypeOK, CallState, WorkerState, FreerState
<1>3. CountNeverTooLow' /\ LoadedEnough'
  BY <1>1 DEF WorkerPark, IInv, TypeOK, CountNeverTooLow, LoadedEnough
<1>4. ListInv'
  BY DEF WorkerPark, IInv, TypeOK, ListInv
<1>5. RunningInv'
  BY DEF WorkerPark, IInv, TypeOK, RunningInv, ListInv, Leaving
<1>6. ShutdownInv'
  BY DEF WorkerPark, IInv, TypeOK, ShutdownInv, Leaving
<1>7. FreedOnlyAfterExit'
  BY DEF WorkerPark, IInv, TypeOK, FreedOnlyAfterExit, RunningInv, ShutdownInv, Leaving
<1> QED  BY <1>2, <1>3, <1>4, <1>5, <1>6, <1>7 DEF IInv

\* WorkerLoad keeps the invariant.
LEMMA WorkerLoadStep == ASSUME IInv, NEW w \in Workers, WorkerLoad(w) PROVE IInv'
<1> USE DEF CallMove, WorkerMove, poolVars, workVars, freeVars, vars
<1>1. Counted' = Counted
  BY DEF WorkerLoad, IInv, TypeOK, Counted
<1>2. TypeOK'
  BY DEF WorkerLoad, IInv, TypeOK, CallState, WorkerState, FreerState
<1>3. CountNeverTooLow' /\ LoadedEnough'
  BY <1>1 DEF WorkerLoad, IInv, TypeOK, CountNeverTooLow, LoadedEnough
<1>4. ListInv'
  BY DEF WorkerLoad, IInv, TypeOK, ListInv
<1>5. RunningInv'
  BY DEF WorkerLoad, IInv, TypeOK, RunningInv, ListInv, Leaving
<1>6. ShutdownInv'
  BY DEF WorkerLoad, IInv, TypeOK, ShutdownInv, Leaving
<1>7. FreedOnlyAfterExit'
  BY DEF WorkerLoad, IInv, TypeOK, FreedOnlyAfterExit, RunningInv, ShutdownInv, Leaving
<1> QED  BY <1>2, <1>3, <1>4, <1>5, <1>6, <1>7 DEF IInv

\* WorkerUnlock keeps the invariant.
LEMMA WorkerUnlockStep == ASSUME IInv, NEW w \in Workers, WorkerUnlock(w) PROVE IInv'
<1> USE DEF CallMove, WorkerMove, poolVars, workVars, freeVars, vars
<1>1. Counted' = Counted
  BY DEF WorkerUnlock, IInv, TypeOK, Counted
<1>2. TypeOK'
  BY DEF WorkerUnlock, IInv, TypeOK, CallState, WorkerState, FreerState
<1>3. CountNeverTooLow' /\ LoadedEnough'
  BY <1>1 DEF WorkerUnlock, IInv, TypeOK, CountNeverTooLow, LoadedEnough
<1>4. ListInv'
  BY DEF WorkerUnlock, IInv, TypeOK, ListInv
<1>5. RunningInv'
  BY DEF WorkerUnlock, IInv, TypeOK, RunningInv, ListInv, Leaving
<1>6. ShutdownInv'
  BY DEF WorkerUnlock, IInv, TypeOK, ShutdownInv, Leaving
<1>7. FreedOnlyAfterExit'
  BY DEF WorkerUnlock, IInv, TypeOK, FreedOnlyAfterExit, RunningInv, ShutdownInv, Leaving
<1> QED  BY <1>2, <1>3, <1>4, <1>5, <1>6, <1>7 DEF IInv

\* FreeBlock keeps the invariant.
LEMMA FreeBlockStep == ASSUME IInv, FreeBlock PROVE IInv'
<1> USE DEF CallMove, WorkerMove, poolVars, workVars, freeVars, vars
<1>1. Counted' = Counted
  BY DEF FreeBlock, IInv, TypeOK, Counted
<1>2. TypeOK'
  BY DEF FreeBlock, IInv, TypeOK, CallState, WorkerState, FreerState
<1>3. CountNeverTooLow' /\ LoadedEnough'
  BY <1>1 DEF FreeBlock, IInv, TypeOK, CountNeverTooLow, LoadedEnough
<1>4. ListInv'
  BY DEF FreeBlock, IInv, TypeOK, ListInv
<1>5. RunningInv'
  BY DEF FreeBlock, IInv, TypeOK, RunningInv, ListInv, Leaving
<1>6. ShutdownInv'
  BY DEF FreeBlock, IInv, TypeOK, ShutdownInv, Leaving
<1>7. FreedOnlyAfterExit'
  BY DEF FreeBlock, IInv, TypeOK, FreedOnlyAfterExit, RunningInv, ShutdownInv, Leaving
<1> QED  BY <1>2, <1>3, <1>4, <1>5, <1>6, <1>7 DEF IInv

\* The popped thread leaves the list, and no other thread has its job.
LEMMA DispatchPopStep == ASSUME IInv, NEW c \in Calls, DispatchPop(c) PROVE IInv'
<1> USE DEF CallMove, poolVars, workVars, freeVars, MayEnter
<1>1. Counted' = Counted
  BY DEF DispatchPop, Counted
<1>2. index - 1 \in 0 .. MaxThreads - 1 /\ index - 1 \in 0 .. index - 1
  BY MaxThreadsAssumption DEF DispatchPop, IInv, TypeOK
<1>3. threads_list[index - 1] \in Workers
  BY <1>2 DEF IInv, ListInv
<1>4. TypeOK'
  <2>1. threads_list' \in [0 .. MaxThreads - 1 -> Workers \cup {NULL}]
    BY DEF DispatchPop, IInv, TypeOK
  <2>2. index' \in 0 .. MaxThreads
    BY <1>2, MaxThreadsAssumption DEF DispatchPop, IInv, TypeOK
  <2>3. call' \in [Calls -> CallState] /\ job' \in [Workers -> Calls \cup {NoJob}]
    BY <1>3 DEF DispatchPop, IInv, TypeOK, CallState
  <2> QED  BY <2>1, <2>2, <2>3 DEF DispatchPop, IInv, TypeOK
<1>5. CountNeverTooLow' /\ LoadedEnough'
  BY <1>1 DEF DispatchPop, IInv, TypeOK, CountNeverTooLow, LoadedEnough
<1>6. ListInv'
  <2>1. \A i \in 0 .. index' - 1 : /\ i \in 0 .. index - 1 /\ i # index - 1
                                   /\ threads_list'[i] = threads_list[i]
    BY <1>2 DEF DispatchPop, IInv, TypeOK
  <2>2. \A w \in Workers : job[w] # c
    BY DEF DispatchPop, IInv, ListInv
  <2>3. \A i \in 0 .. index' - 1 : threads_list'[i] # threads_list[index - 1]
    BY <1>2, <2>1 DEF IInv, ListInv
  <2>4. \A i \in 0 .. index' - 1 : \A d \in Calls :
          call'[d] = "signal" => job'[threads_list'[i]] # d
    BY <1>3, <2>1, <2>2, <2>3 DEF DispatchPop, IInv, TypeOK, ListInv
  <2>5. \A w \in Workers : job'[w] \in Calls => call'[job'[w]] \in {"signal", "done"}
    BY <1>3, <2>2 DEF DispatchPop, IInv, TypeOK, ListInv
  <2> QED  BY <2>1, <2>4, <2>5 DEF IInv, ListInv
<1>7. RunningInv' /\ ShutdownInv' /\ FreedOnlyAfterExit'
  BY <1>2 DEF DispatchPop, IInv, TypeOK, RunningInv, ShutdownInv,
              FreedOnlyAfterExit, Leaving
<1> QED  BY <1>4, <1>5, <1>6, <1>7 DEF IInv

\* The signalled thread is not in the list: only parked threads are.
LEMMA DispatchSignalStep == ASSUME IInv, NEW c \in Calls, DispatchSignal(c) PROVE IInv'
<1> USE DEF CallMove, WorkerMove, poolVars, workVars, freeVars
<1>1. PICK w \in Workers : job[w] = c /\ SignalThread(w)
  BY DEF DispatchSignal
<1>2. wpc' = wpc \/ (wpc[w] = "wait" /\ wpc' = [wpc EXCEPT ![w] = "woken"])
  BY <1>1 DEF SignalThread
<1>3. wpc' \in [Workers -> WorkerState]
  BY <1>2 DEF IInv, TypeOK, WorkerState
<1>4. Counted' = Counted
  BY <1>2 DEF IInv, TypeOK, Counted
<1>5. call' \in [Calls -> CallState]
  BY DEF DispatchSignal, IInv, TypeOK, CallState
<1>6. TypeOK'
  BY <1>3, <1>5 DEF DispatchSignal, IInv, TypeOK
<1>7. CountNeverTooLow' /\ LoadedEnough'
  BY <1>2, <1>4 DEF DispatchSignal, IInv, TypeOK, CountNeverTooLow, LoadedEnough
<1>8. ListInv'
  BY DEF DispatchSignal, IInv, TypeOK, ListInv
<1>9. \A i \in 0 .. index - 1 : threads_list[i] # w
  BY <1>1 DEF DispatchSignal, IInv, ListInv
<1>10. RunningInv' /\ ShutdownInv' /\ FreedOnlyAfterExit'
  BY <1>2, <1>9 DEF DispatchSignal, IInv, TypeOK, RunningInv, ShutdownInv,
                    FreedOnlyAfterExit, ListInv, Leaving
<1> QED  BY <1>6, <1>7, <1>8, <1>10 DEF IInv

\* A worker that finds no shutdown is not idle; one that finds it leaves.
LEMMA WorkerTestStep == ASSUME IInv, NEW w \in Workers, WorkerTest(w) PROVE IInv'
<1> USE DEF WorkerMove, poolVars, workVars, freeVars
<1>1. wpc' = [wpc EXCEPT ![w] = IF is_shutdown THEN "exit" ELSE "run"]
  BY DEF WorkerTest
<1>2. wpc' \in [Workers -> WorkerState]
  BY <1>1 DEF IInv, TypeOK, WorkerState
<1>3. ran' \in [Calls -> Nat]
  <2>1. ran' = ran \/ ran' = [ran EXCEPT ![job[w]] = @ + 1]
    BY DEF WorkerTest
  <2> QED  BY <2>1 DEF IInv, TypeOK
<1>4. TypeOK'
  BY <1>2, <1>3 DEF WorkerTest, IInv, TypeOK
<1>5. Counted' = Counted
  BY <1>1 DEF WorkerTest, IInv, TypeOK, Counted
<1>6. CountNeverTooLow' /\ LoadedEnough'
  BY <1>1, <1>5 DEF WorkerTest, IInv, TypeOK, CountNeverTooLow, LoadedEnough
<1>7. ListInv'
  BY DEF WorkerTest, IInv, TypeOK, ListInv
<1>8. RunningInv'
  BY <1>1 DEF WorkerTest, IInv, TypeOK, RunningInv, ListInv, Leaving
<1>9. ShutdownInv'
  BY <1>1 DEF WorkerTest, IInv, TypeOK, ShutdownInv, ListInv, Leaving
<1>10. FreedOnlyAfterExit'
  BY <1>1 DEF WorkerTest, IInv, TypeOK, FreedOnlyAfterExit
<1> QED  BY <1>4, <1>6, <1>7, <1>8, <1>9, <1>10 DEF IInv

\* The freer signals a thread of the list.
LEMMA FreeWakeAllStep == ASSUME IInv, FreeWakeAll PROVE IInv'
<1> USE DEF WorkerMove, poolVars, workVars, freeVars
<1>1. is_shutdown
  BY DEF FreeWakeAll, IInv, TypeOK, RunningInv
<1>2. \/ wpc' = wpc
      \/ \E w \in Workers : wpc[w] = "wait" /\ wpc' = [wpc EXCEPT ![w] = "woken"]
  <2>1. fi < index => threads_list[fi] \in Workers
    BY DEF IInv, TypeOK, ListInv
  <2> QED  BY <2>1 DEF FreeWakeAll, SignalThread
<1>3. /\ wpc' \in [Workers -> WorkerState]
      /\ \A w \in Workers : wpc'[w] # wpc[w] => wpc[w] = "wait" /\ wpc'[w] = "woken"
  BY <1>2 DEF IInv, TypeOK, WorkerState
<1>4. Counted' = Counted
  BY <1>3 DEF Counted
<1>5. fpc' \in {"wakeall", "emptytest"} /\ fi' \in Nat
  BY DEF FreeWakeAll, IInv, TypeOK
<1>6. TypeOK'
  BY <1>3, <1>5 DEF FreeWakeAll, IInv, TypeOK, FreerState
<1>7. CountNeverTooLow' /\ LoadedEnough'
  BY <1>3, <1>4 DEF FreeWakeAll, IInv, TypeOK, CountNeverTooLow, LoadedEnough
<1>8. ListInv' /\ RunningInv'
  BY <1>1 DEF FreeWakeAll, IInv, TypeOK, ListInv, RunningInv
<1>9. ShutdownInv'
  <2>1. \A w \in Workers : wpc'[w] \in {"none", "park", "wait", "woken"} \cup Leaving
    BY <1>1, <1>3 DEF IInv, ShutdownInv
  <2>2. \A i \in 0 .. index - 1 : wpc'[threads_list[i]] # "none"
    BY <1>1, <1>3 DEF IInv, ShutdownInv, ListInv
  <2> QED  BY <1>1, <1>5, <2>1, <2>2 DEF FreeWakeAll, IInv, ShutdownInv
<1>10. FreedOnlyAfterExit'
  BY DEF FreeWakeAll, IInv, FreedOnlyAfterExit
<1> QED  BY <1>6, <1>7, <1>8, <1>9, <1>10 DEF IInv

\* A created thread is counted at once.
LEMMA DispatchCreateStep == ASSUME IInv, NEW c \in Calls, DispatchCreate(c) PROVE IInv'
<1> USE DEF CallMove, WorkerMove, poolVars, workVars, freeVars, MayEnter
<1>0. ~ is_shutdown
  BY DEF DispatchCreate, IInv, TypeOK, ShutdownInv
<1>1. CASE CallMove(c, "failed") /\ UNCHANGED <<wpc, job, threads_num>>
  <2>1. Counted' = Counted
    BY <1>1 DEF Counted
  <2>2. TypeOK'
    BY <1>1 DEF DispatchCreate, IInv, TypeOK, CallState
  <2>3. CountNeverTooLow' /\ LoadedEnough'
    BY <1>1, <2>1 DEF DispatchCreate, IInv, CountNeverTooLow, LoadedEnough
  <2>4. ListInv'
    BY <1>1 DEF DispatchCreate, IInv, TypeOK, ListInv
  <2>5. RunningInv' /\ ShutdownInv' /\ FreedOnlyAfterExit'
    BY <1>0, <1>1 DEF DispatchCreate, IInv, RunningInv, ShutdownInv, FreedOnlyAfterExit
  <2> QED  BY <2>2, <2>3, <2>4, <2>5 DEF IInv
<1>2. ASSUME NEW w \in Workers, wpc[w] = "none", WorkerMove(w, "test"),
             job' = [job EXCEPT ![w] = c], threads_num' = threads_num + 1,
             CallMove(c, "done")
      PROVE  IInv'
  <2>1. Counted' = Counted \cup {w} /\ w \notin Counted
    BY <1>2 DEF Counted, IInv, TypeOK
  <2>2. Cardinality(Counted') = Cardinality(Counted) + 1
    BY <2>1, CountedFinite, FS_AddElement
  <2>3. call' \in [Calls -> CallState] /\ wpc' \in [Workers -> WorkerState]
    BY <1>2 DEF IInv, TypeOK, CallState, WorkerState
  <2>4. TypeOK'
    BY <1>2, <2>3 DEF DispatchCreate, IInv, TypeOK
  <2>5. CountNeverTooLow' /\ LoadedEnough'
    BY <1>0, <1>2, <2>2, CountedFinite
    DEF DispatchCreate, IInv, TypeOK, CountNeverTooLow, LoadedEnough, RunningInv, Leaving
  <2>6. index' = 0
    BY DEF DispatchCreate, IInv, TypeOK
  <2>7. ListInv'
    BY <1>2, <2>6 DEF DispatchCreate, IInv, TypeOK, ListInv
  <2>8. threads_num' <= MaxThreads
    BY <1>2, MaxThreadsAssumption DEF DispatchCreate, IInv, TypeOK
  <2>9. RunningInv' /\ ShutdownInv' /\ FreedOnlyAfterExit'
    BY <1>0, <1>2, <2>6, <2>8 DEF DispatchCreate, IInv, TypeOK, RunningInv, ShutdownInv,
                            FreedOnlyAfterExit, Leaving
  <2> QED  BY <2>4, <2>5, <2>7, <2>9 DEF IInv
<1> QED  BY <1>1, <1>2 DEF DispatchCreate

\* Before the shutdown the list is part of the counted threads, so that a thread
\* outside it finds room, and a full count of idle threads is all of them.
LEMMA ListBound ==
  ASSUME IInv, ~ is_shutdown
  PROVE  /\ index <= threads_num
         /\ AllIdle(index) => \A w \in Counted : \E i \in 0 .. index - 1 : threads_list[i] = w
         /\ \A w \in Counted :
              (\A i \in 0 .. index - 1 : threads_list[i] # w) => index < threads_num
<1>1. \A i \in 0 .. index - 1 : threads_list[i] \in Counted
  BY DEF IInv, ListInv, RunningInv, Counted
<1>2. \A i, j \in 0 .. index - 1 : threads_list[i] = threads_list[j] => i = j
  BY DEF IInv, ListInv
<1>3. index \in Nat /\ threads_num = Cardinality(Counted)
  BY MaxThreadsAssumption DEF IInv, TypeOK, CountNeverTooLow
<1>4. /\ index <= threads_num
      /\ index >= threads_num =>
           \A w \in Counted : \E i \in 0 .. index - 1 : threads_list[i] = w
  BY <1>1, <1>2, <1>3, CountedFinite, ListFits
<1> QED  BY <1>3, <1>4, CountedFinite DEF AllIdle

\* The thread that saves itself finds room, and joins the list once.
LEMMA SaveThreadStep == ASSUME IInv, NEW w \in Workers, SaveThread(w) PROVE IInv'
<1> USE DEF CallMove, WorkerMove, poolVars, workVars, freeVars
<1>1. ~ is_shutdown
  BY DEF SaveThread, IInv, ShutdownInv, Leaving
<1>2. \A i \in 0 .. index - 1 : threads_list[i] # w
  BY <1>1 DEF SaveThread, IInv, RunningInv
<1>3. w \in Counted
  BY DEF SaveThread, Counted
<1>4. index < MaxThreads
  <2>1. index < threads_num
    BY <1>1, <1>2, <1>3, ListBound
  <2>2. threads_num <= MaxThreads
    BY <1>1 DEF IInv, RunningInv
  <2> QED  BY <2>1, <2>2, MaxThreadsAssumption DEF IInv, TypeOK
<1>5. /\ threads_list' = [threads_list EXCEPT ![index] = w]
      /\ index' = index + 1 /\ SignalIdle
      /\ fpc' \in {fpc, "fullwoken"} /\ wpc' = [wpc EXCEPT ![w] = "park"]
      /\ freed' = freed
  BY <1>4 DEF SaveThread
<1>6. index \in 0 .. MaxThreads - 1
  BY <1>4, MaxThreadsAssumption DEF IInv, TypeOK
<1>7. /\ call' \in [Calls -> CallState]
      /\ \A c \in Calls : call'[c] # call[c] => call[c] = "wait" /\ call'[c] = "woken"
  BY <1>5 DEF SignalIdle, IInv, TypeOK, CallState
<1>8. TypeOK'
  <2>1. threads_list' \in [0 .. MaxThreads - 1 -> Workers \cup {NULL}]
    BY <1>5 DEF IInv, TypeOK
  <2>2. index' \in 0 .. MaxThreads
    BY <1>5, <1>6, MaxThreadsAssumption
  <2>3. wpc' \in [Workers -> WorkerState] /\ fpc' \in FreerState
    BY <1>5 DEF IInv, TypeOK, WorkerState, FreerState
  <2> QED  BY <1>5, <1>7, <2>1, <2>2, <2>3 DEF SaveThread, IInv, TypeOK
<1>9. Counted' = Counted
  BY <1>5 DEF SaveThread, IInv, TypeOK, Counted
<1>10. CountNeverTooLow' /\ LoadedEnough'
  BY <1>5, <1>9 DEF SaveThread, IInv, TypeOK, CountNeverTooLow, LoadedEnough
<1>11. \A i \in 0 .. index' - 1 :
         \/ i \in 0 .. index - 1 /\ threads_list'[i] = threads_list[i]
         \/ i = index /\ threads_list'[i] = w
  BY <1>5, <1>6 DEF IInv, TypeOK
<1>12. ListInv'
  <2>1. \A c \in Calls : call[c] # "signal" /\ call'[c] # "signal"
    BY <1>7 DEF SaveThread, PoolUnlocked
  <2>2. \A v \in Workers : job[v] \in Calls => call'[job[v]] \in {"signal", "done"}
    BY <1>7 DEF IInv, ListInv
  <2>3. \A i \in 0 .. index' - 1 : threads_list'[i] \in Workers
    BY <1>11 DEF IInv, ListInv
  <2>4. \A i, j \in 0 .. index' - 1 : threads_list'[i] = threads_list'[j] => i = j
    BY <1>2, <1>11 DEF IInv, ListInv
  <2> QED  BY <2>1, <2>2, <2>3, <2>4 DEF SaveThread, ListInv
<1>13. RunningInv'
  BY <1>1, <1>2, <1>5, <1>11 DEF SaveThread, IInv, TypeOK, RunningInv, ListInv, Leaving
<1>14. ShutdownInv' /\ FreedOnlyAfterExit'
  BY <1>1, <1>5 DEF SaveThread, IInv, ShutdownInv, FreedOnlyAfterExit, RunningInv
<1> QED  BY <1>8, <1>10, <1>12, <1>13, <1>14 DEF IInv

\* A decrement from a load that was not too low leaves a count that is not.
LEMMA WorkerStoreStep == ASSUME IInv, NEW w \in Workers, WorkerStore(w) PROVE IInv'
<1> USE DEF WorkerMove, poolVars, workVars, freeVars
<1>1. Counted' = Counted \ {w} /\ w \in Counted
  BY DEF WorkerStore, IInv, TypeOK, Counted
<1>2. Cardinality(Counted') = Cardinality(Counted) - 1 /\ Cardinality(Counted') \in Nat
  BY <1>1, CountedFinite, FS_RemoveElement, FS_CardinalityType
<1>3. is_shutdown
  BY DEF WorkerStore, IInv, TypeOK, RunningInv, Leaving
<1>4. loaded[w] \in Nat /\ loaded[w] >= Cardinality(Counted)
  BY DEF WorkerStore, IInv, TypeOK, LoadedEnough
<1>5. threads_num' \in Nat /\ threads_num' >= Cardinality(Counted')
  BY <1>2, <1>4, CountedFinite DEF WorkerStore
<1>6. wpc' \in [Workers -> WorkerState]
  BY DEF WorkerStore, IInv, TypeOK, WorkerState
<1>7. TypeOK'
  BY <1>5, <1>6 DEF WorkerStore, IInv, TypeOK
<1>8. CountNeverTooLow'
  BY <1>3, <1>5 DEF WorkerStore, CountNeverTooLow
<1>9. LoadedEnough'
  BY <1>2, CountedFinite DEF WorkerStore, IInv, TypeOK, LoadedEnough
<1>10. ListInv' /\ RunningInv'
  BY <1>3 DEF WorkerStore, IInv, ListInv, RunningInv
<1>11. ShutdownInv'
  BY <1>3 DEF WorkerStore, IInv, TypeOK, ShutdownInv, ListInv, Leaving
<1>12. FreedOnlyAfterExit'
  BY DEF WorkerStore, IInv, TypeOK, FreedOnlyAfterExit
<1> QED  BY <1>7, <1>8, <1>9, <1>10, <1>11, <1>12 DEF IInv

\* The exiting thread may wake the freer.
LEMMA WorkerEmptyStep == ASSUME IInv, NEW w \in Workers, WorkerEmpty(w) PROVE IInv'
<1> USE DEF WorkerMove, poolVars, workVars, freeVars
<1>1. fpc' = fpc \/ (fpc = "emptywait" /\ fpc' = "emptywoken")
  BY DEF WorkerEmpty
<1>2. Counted' = Counted
  BY DEF WorkerEmpty, IInv, TypeOK, Counted
<1>3. wpc' \in [Workers -> WorkerState] /\ fpc' \in FreerState
  BY <1>1 DEF WorkerEmpty, IInv, TypeOK, WorkerState, FreerState
<1>4. TypeOK'
  BY <1>3 DEF WorkerEmpty, IInv, TypeOK
<1>5. CountNeverTooLow' /\ LoadedEnough'
  BY <1>2 DEF WorkerEmpty, IInv, TypeOK, CountNeverTooLow, LoadedEnough
<1>6. ListInv' /\ RunningInv'
  BY DEF WorkerEmpty, IInv, ListInv, RunningInv, Leaving
<1>7. ShutdownInv'
  BY <1>1 DEF WorkerEmpty, IInv, TypeOK, ShutdownInv, ListInv, Leaving
<1>8. FreedOnlyAfterExit'
  BY <1>1 DEF WorkerEmpty, IInv, TypeOK, FreedOnlyAfterExit
<1> QED  BY <1>4, <1>5, <1>6, <1>7, <1>8 DEF IInv

\* The shutdown begins when every counted thread is idle.
LEMMA FreeBeginStep == ASSUME IInv, FreeBegin PROVE IInv'
<1> USE DEF poolVars, workVars, freeVars
<1>1. ~ is_shutdown
  BY DEF FreeBegin, IInv, ShutdownInv
<1>2. Counted' = Counted
  BY DEF FreeBegin, Counted
<1>3. TypeOK'
  <2>1. fi' \in Nat /\ fpc' \in FreerState
    BY DEF FreeBegin, IInv, TypeOK, FreerState
  <2>2. is_shutdown' \in BOOLEAN
    BY DEF FreeBegin, IInv, TypeOK
  <2> QED  BY <2>1, <2>2 DEF FreeBegin, IInv, TypeOK
<1>4. CountNeverTooLow' /\ LoadedEnough'
  BY <1>2, <1>1 DEF FreeBegin, IInv, CountNeverTooLow, LoadedEnough
<1>5. ListInv'
  BY DEF FreeBegin, IInv, ListInv
<1>6. RunningInv'
  BY <1>1 DEF FreeBegin, IInv, RunningInv
<1>7. CASE ~ AllIdle(index)
  BY <1>1, <1>3, <1>4, <1>5, <1>6, <1>7
  DEF FreeBegin, IInv, ShutdownInv, FreedOnlyAfterExit, RunningInv
<1>8. CASE AllIdle(index)
  <2>1. \A w \in Workers : wpc[w] \in {"none", "park", "wait"}
    BY <1>1, <1>8, ListBound DEF IInv, RunningInv, Counted, Leaving
  <2>2. \A i \in 0 .. index - 1 : wpc[threads_list[i]] # "none"
    BY <1>1 DEF IInv, RunningInv
  <2>3. ShutdownInv'
    BY <1>8, <2>1, <2>2 DEF FreeBegin, ShutdownInv
  <2>4. FreedOnlyAfterExit'
    BY <1>1 DEF FreeBegin, IInv, RunningInv, FreedOnlyAfterExit
  <2> QED  BY <1>3, <1>4, <1>5, <1>6, <2>3, <2>4 DEF IInv
<1> QED  BY <1>7, <1>8

\* The list is freed when the count says that no thread is left, and none is.
LEMMA FreeTestStep == ASSUME IInv, FreeTest PROVE IInv'
<1> USE DEF poolVars, workVars, freeVars
<1>1. is_shutdown
  BY DEF FreeTest, IInv, TypeOK, RunningInv
<1>2. Counted' = Counted
  BY DEF FreeTest, Counted
<1>3. CountNeverTooLow' /\ LoadedEnough'
  BY <1>2, <1>1 DEF FreeTest, IInv, CountNeverTooLow, LoadedEnough
<1>4. freed = {}
  BY DEF FreeTest, IInv, FreedOnlyAfterExit, TypeOK
<1>5. CASE ThreadsLeft
  <2>1. TypeOK'
    BY <1>5 DEF FreeTest, IInv, TypeOK, FreerState
  <2>2. ListInv' /\ RunningInv' /\ ShutdownInv' /\ FreedOnlyAfterExit'
    BY <1>1, <1>4, <1>5 DEF FreeTest, IInv, ListInv, RunningInv, ShutdownInv,
                            FreedOnlyAfterExit
  <2> QED  BY <1>3, <2>1, <2>2 DEF IInv
<1>6. CASE ~ ThreadsLeft
  <2>1. Cardinality(Counted) = 0
    BY <1>6, CountedFinite DEF ThreadsLeft, IInv, TypeOK, CountNeverTooLow
  <2>2. \A w \in Workers : wpc[w] \in {"none", "empty", "unlock", "gone"}
    BY <2>1, CountedFinite, FS_EmptySet DEF Counted
  <2>3. \A w \in Idle : w \in Workers /\ wpc[w] \in {"empty", "unlock", "gone"}
    BY <1>1, <2>2 DEF Idle, IInv, ListInv, ShutdownInv
  <2>4. TypeOK'
    BY <1>6, <2>3, MaxThreadsAssumption DEF FreeTest, IInv, TypeOK, FreerState
  <2>5. ListInv' /\ RunningInv' /\ ShutdownInv'
    BY <1>1, <1>6 DEF FreeTest, IInv, ListInv, RunningInv, ShutdownInv
  <2>6. FreedOnlyAfterExit'
    BY <1>4, <1>6, <2>3 DEF FreeTest, FreedOnlyAfterExit
  <2> QED  BY <1>3, <2>4, <2>5, <2>6 DEF IInv
<1> QED  BY <1>5, <1>6

\* Every step keeps the invariant.
LEMMA NextStep == ASSUME IInv, [Next]_vars PROVE IInv'
<1>1. CASE UNCHANGED vars
  <2>1. Counted' = Counted
    BY <1>1 DEF vars, poolVars, workVars, freeVars, Counted
  <2> QED
    BY <1>1, <2>1 DEF vars, poolVars, workVars, freeVars, IInv, TypeOK,
       CountNeverTooLow, LoadedEnough, ListInv, RunningInv, ShutdownInv,
       FreedOnlyAfterExit
<1>2. ASSUME NEW c \in Calls, CallStep(c) PROVE IInv'
  BY <1>2, DispatchWaitStep, DispatchCreateStep, DispatchPopStep, DispatchSignalStep
  DEF CallStep
<1>3. ASSUME NEW w \in Workers, WorkerStep(w) PROVE IInv'
  BY <1>3, WorkerTestStep, WorkerRanStep, WorkerLockStep, SaveThreadStep,
     WorkerParkStep, WorkerLoadStep, WorkerStoreStep, WorkerEmptyStep,
     WorkerUnlockStep
  DEF WorkerStep
<1>4. ASSUME FreeStep PROVE IInv'
  BY <1>4, FreeBeginStep, FreeWakeAllStep, FreeTestStep, FreeBlockStep DEF FreeStep
<1> QED  BY <1>1, <1>2, <1>3, <1>4 DEF Next

\* The invariant holds in every reachable state.
LEMMA SpecIInv == Spec => []IInv
BY InitIInv, NextStep, PTL DEF Spec

\* threads_num is never below the number of threads that still have to leave, and
\* exact before the shutdown, for any number of calls and threads.
THEOREM CountCorrect == Spec => []CountNeverTooLow
<1>1. IInv => CountNeverTooLow
  BY DEF IInv
<1> QED  BY <1>1, SpecIInv, PTL

\* free_thread_pool frees only threads that have left the pool, and save_thread
\* never drops one.
THEOREM FreeCorrect == Spec => []FreedOnlyAfterExit
<1>1. IInv => FreedOnlyAfterExit
  BY DEF IInv
<1> QED  BY <1>1, SpecIInv, PTL

\* Type correctness.
THEOREM TypeCorrect == Spec => []TypeOK
<1>1. IInv => TypeOK
  BY DEF IInv
<1> QED  BY <1>1, SpecIInv, PTL

-----------------------------------------------------------------------------
(* The pool implements CallOnce.  A job belongs to one thread for good, and *)
(* a thread that has still to start its job is out of the idle list.        *)

Unstarted(w) ==
  /\ ~ is_shutdown
  /\ \/ wpc[w] = "test"
     \/ wpc[w] \in {"park", "wait", "woken"} /\ w \notin Idle

JobInv ==
  /\ \A v, w \in Workers : job[v] \in Calls /\ job[v] = job[w] => v = w
  /\ \A w \in Workers : wpc[w] # "none" => job[w] \in Calls
  /\ \A c \in Calls : call[c] \notin {"signal", "done"} => ran[c] = 0
  /\ \A w \in Workers : Unstarted(w) /\ job[w] \in Calls => ran[job[w]] = 0

\* Steps that hand out no job and start none only have to leave the threads that
\* have yet to start one as they are.
LEMMA JobsLeftAlone ==
  ASSUME JobInv, UNCHANGED <<job, ran>>,
         \A w \in Workers : wpc'[w] # "none" => wpc[w] # "none",
         \A c \in Calls : call[c] \in {"signal", "done"} => call'[c] \in {"signal", "done"},
         \A w \in Workers : Unstarted(w)' => Unstarted(w)
  PROVE  JobInv'
BY DEF JobInv

\* Of the others, only save_thread changes the idle list before the shutdown.
LEMMA IdleSame == ASSUME UNCHANGED <<threads_list, index>> PROVE Idle' = Idle
BY DEF Idle

LEMMA CallJobs ==
  ASSUME IInv, JobInv, NEW c \in Calls, CallStep(c)
  PROVE  JobInv'
<1> USE DEF CallMove, WorkerMove, poolVars, workVars, freeVars
<1>1. CASE DispatchWait(c)
  <2>1. Idle' = Idle
    BY <1>1, IdleSame DEF DispatchWait
  <2> QED
    BY <1>1, <2>1, JobsLeftAlone DEF DispatchWait, MayEnter, IInv, TypeOK, Unstarted
<1>2. CASE DispatchCreate(c)
  <2>1. Idle' = Idle /\ UNCHANGED <<ran, is_shutdown>> /\ call[c] \in {"start", "woken"}
    BY <1>2, IdleSame DEF DispatchCreate, MayEnter
  <2>2. ran[c] = 0 /\ \A w \in Workers : job[w] # c
    BY <2>1 DEF JobInv, IInv, ListInv
  <2>3. CASE CallMove(c, "failed") /\ UNCHANGED <<wpc, job, threads_num>>
    BY <2>1, <2>3, JobsLeftAlone DEF IInv, TypeOK, Unstarted
  <2>4. ASSUME NEW w \in Workers, wpc[w] = "none", WorkerMove(w, "test"),
               job' = [job EXCEPT ![w] = c], CallMove(c, "done")
        PROVE  JobInv'
    <3>1. /\ job'[w] = c /\ \A v \in Workers : v # w => job'[v] = job[v]
          /\ \A v \in Workers : v # w => wpc'[v] = wpc[v]
          /\ call'[c] = "done" /\ \A d \in Calls : d # c => call'[d] = call[d]
      BY <2>4 DEF IInv, TypeOK
    <3>2. \A v \in Workers : v # w => (Unstarted(v)' <=> Unstarted(v))
      BY <2>1, <3>1 DEF Unstarted
    <3> QED
      BY <2>1, <2>2, <3>1, <3>2 DEF JobInv
  <2> QED
    BY <1>2, <2>3, <2>4 DEF DispatchCreate
<1>3. CASE DispatchPop(c)
  <2> DEFINE w == threads_list[index - 1]
  <2>1. /\ UNCHANGED <<ran, is_shutdown, wpc>> /\ call[c] \in {"start", "woken"}
        /\ w \in Workers /\ index \in Nat /\ index > 0 /\ index' = index - 1
        /\ \A i \in 0 .. index - 2 : threads_list'[i] = threads_list[i]
    BY <1>3 DEF DispatchPop, MayEnter, IInv, TypeOK, ListInv
  <2>2. ran[c] = 0 /\ \A v \in Workers : job[v] # c
    BY <2>1 DEF JobInv, IInv, ListInv
  <2>3. /\ job'[w] = c /\ \A v \in Workers : v # w => job'[v] = job[v]
        /\ call'[c] = "signal" /\ \A d \in Calls : d # c => call'[d] = call[d]
    BY <1>3, <2>1 DEF DispatchPop, IInv, TypeOK
  <2>4. ASSUME NEW v \in Idle, v # w PROVE v \in Idle'
    <3>1. PICK i \in 0 .. index - 1 : threads_list[i] = v
      BY <2>4 DEF Idle
    <3>2. i \in 0 .. index' - 1 /\ threads_list'[i] = v
      BY <2>1, <2>4, <3>1
    <3> QED
      BY <3>2 DEF Idle
  <2>5. \A v \in Workers : v # w /\ Unstarted(v)' => Unstarted(v)
    BY <2>1, <2>4 DEF Unstarted
  <2> QED
    BY <2>1, <2>2, <2>3, <2>5 DEF JobInv
<1>4. CASE DispatchSignal(c)
  <2>1. Idle' = Idle /\ UNCHANGED <<job, ran, is_shutdown>>
    BY <1>4, IdleSame DEF DispatchSignal
  <2>2. PICK w \in Workers : SignalThread(w)
    BY <1>4 DEF DispatchSignal
  <2>3. \A v \in Workers : wpc'[v] = wpc[v] \/ (wpc[v] = "wait" /\ wpc'[v] = "woken")
    BY <2>2 DEF SignalThread, IInv, TypeOK
  <2>4. \A d \in Calls : d # c => call'[d] = call[d]
    BY <1>4 DEF DispatchSignal, IInv, TypeOK
  <2>5. call'[c] = "done"
    BY <1>4 DEF DispatchSignal, IInv, TypeOK
  <2>6. \A v \in Workers : Unstarted(v)' => Unstarted(v)
    BY <2>1, <2>3 DEF Unstarted
  <2> QED
    BY <2>1, <2>3, <2>4, <2>5, <2>6, JobsLeftAlone
<1> QED
  BY <1>1, <1>2, <1>3, <1>4 DEF CallStep

LEMMA WorkerJobs ==
  ASSUME IInv, JobInv, NEW w \in Workers, WorkerStep(w)
  PROVE  JobInv'
<1> USE DEF CallMove, WorkerMove, poolVars, freeVars
<1>1. CASE WorkerTest(w)
  <2>1. /\ Idle' = Idle /\ UNCHANGED <<job, call, is_shutdown>>
        /\ \A v \in Workers : v # w => wpc'[v] = wpc[v]
    BY <1>1, IdleSame DEF WorkerTest, IInv, TypeOK
  <2>2. \A v \in Workers : v # w => (Unstarted(v)' <=> Unstarted(v))
    BY <2>1 DEF Unstarted
  <2>3. CASE is_shutdown
    <3>1. UNCHANGED ran /\ wpc[w] # "none" /\ ~Unstarted(w)'
      BY <1>1, <2>1, <2>3 DEF WorkerTest, Unstarted
    <3> QED
      BY <2>1, <2>2, <3>1, JobsLeftAlone
  <2>4. CASE ~ is_shutdown
    <3>1. /\ wpc[w] # "none" /\ wpc'[w] = "run" /\ job[w] \in Calls
          /\ ran' = [ran EXCEPT ![job[w]] = @ + 1]
      BY <1>1, <2>4 DEF WorkerTest, IInv, TypeOK, JobInv
    <3>2. call[job[w]] \in {"signal", "done"}
      BY <3>1 DEF IInv, ListInv
    <3>3. \A d \in Calls : d # job[w] => ran'[d] = ran[d]
      BY <3>1 DEF IInv, TypeOK
    <3>4. ~ Unstarted(w)'
      BY <3>1 DEF Unstarted
    <3>5. \A v \in Workers : v # w /\ job[v] \in Calls => job[v] # job[w]
      BY DEF JobInv
    <3> QED
      BY <2>1, <2>2, <3>1, <3>2, <3>3, <3>4, <3>5 DEF JobInv
  <2> QED
    BY <2>3, <2>4
<1>2. CASE SaveThread(w)
  <2>1. /\ UNCHANGED <<job, ran, is_shutdown>> /\ wpc[w] = "save"
        /\ \A v \in Workers : v # w => wpc'[v] = wpc[v]
        /\ index \in 0 .. MaxThreads
    BY <1>2 DEF SaveThread, IInv, TypeOK
  <2>2. \A c \in Calls : call[c] \in {"signal", "done"} => call'[c] \in {"signal", "done"}
    BY <1>2 DEF SaveThread, SignalIdle, IInv, TypeOK
  <2>3. CASE index < MaxThreads
    <3>1. /\ index' = index + 1 /\ threads_list'[index] = w
          /\ \A i \in 0 .. index - 1 : threads_list'[i] = threads_list[i]
      BY <1>2, <2>1, <2>3, MaxThreadsAssumption DEF SaveThread, IInv, TypeOK
    <3>2. w \in Idle' /\ \A v \in Idle : v \in Idle'
      BY <2>1, <3>1 DEF Idle
    <3>3. wpc'[w] = "park"
      BY <1>2, <2>3 DEF SaveThread, IInv, TypeOK
    <3>4. \A v \in Workers : Unstarted(v)' => Unstarted(v)
      BY <2>1, <3>2, <3>3 DEF Unstarted
    <3> QED
      BY <2>1, <2>2, <3>4, JobsLeftAlone
  <2>4. CASE ~ (index < MaxThreads)
    <3>1. wpc'[w] = "gone" /\ Idle' = Idle
      BY <1>2, <2>4, IdleSame DEF SaveThread, IInv, TypeOK
    <3>2. \A v \in Workers : Unstarted(v)' => Unstarted(v)
      BY <2>1, <3>1 DEF Unstarted
    <3> QED
      BY <2>1, <2>2, <3>2, JobsLeftAlone
  <2> QED
    BY <2>3, <2>4
<1>3. ASSUME NEW s \in WorkerState \ {"test", "woken", "park"}, WorkerMove(w, s),
             wpc[w] # "none", s = "wait" => wpc[w] = "park",
             UNCHANGED <<threads_list, index, is_shutdown, call, job, ran>>
      PROVE  JobInv'
  <2>1. Idle' = Idle
    BY <1>3, IdleSame
  <2>2. wpc'[w] = s /\ \A v \in Workers : v # w => wpc'[v] = wpc[v]
    BY <1>3 DEF IInv, TypeOK
  <2>3. \A v \in Workers : Unstarted(v)' => Unstarted(v)
    BY <1>3, <2>1, <2>2 DEF Unstarted
  <2> QED
    BY <1>3, <2>2, <2>3, JobsLeftAlone
<1>4. CASE WorkerRan(w)
  BY <1>3, <1>4 DEF WorkerRan, WorkerState
<1>5. CASE WorkerLock(w)
  BY <1>3, <1>5 DEF WorkerLock, WorkerState
<1>6. CASE WorkerPark(w)
  BY <1>3, <1>6 DEF WorkerPark, WorkerState
<1>7. CASE WorkerLoad(w)
  BY <1>3, <1>7 DEF WorkerLoad, WorkerState
<1>8. CASE WorkerStore(w)
  BY <1>3, <1>8 DEF WorkerStore, WorkerState
<1>9. CASE WorkerEmpty(w)
  BY <1>3, <1>9 DEF WorkerEmpty, WorkerState
<1>10. CASE WorkerUnlock(w)
  BY <1>3, <1>10 DEF WorkerUnlock, WorkerState
<1> QED
  BY <1>1, <1>2, <1>4, <1>5, <1>6, <1>7, <1>8, <1>9, <1>10 DEF WorkerStep

LEMMA FreeJobs ==
  ASSUME IInv, JobInv, FreeStep
  PROVE  JobInv'
<1>1. UNCHANGED <<job, ran, call>>
  BY DEF FreeStep, FreeBegin, FreeWakeAll, FreeTest, FreeBlock, workVars, poolVars,
         freeVars
<1>2. \A v \in Workers : wpc'[v] # "none" => wpc[v] # "none"
  BY DEF FreeStep, FreeBegin, FreeWakeAll, FreeTest, FreeBlock, workVars,
         SignalThread, WorkerMove, IInv, TypeOK
<1>3. CASE is_shutdown'
  BY <1>1, <1>2, <1>3, JobsLeftAlone DEF Unstarted
<1>4. CASE ~ is_shutdown'
  <2>1. ~ is_shutdown /\ UNCHANGED <<wpc, is_shutdown, threads_list, index>>
    BY <1>4 DEF FreeStep, FreeBegin, FreeWakeAll, FreeTest, FreeBlock, workVars,
       poolVars, IInv, TypeOK, RunningInv
  <2>2. Idle' = Idle
    BY <2>1, IdleSame
  <2>3. \A v \in Workers : Unstarted(v)' => Unstarted(v)
    BY <2>1, <2>2 DEF Unstarted
  <2> QED
    BY <1>1, <1>2, <2>3, JobsLeftAlone
<1> QED
  BY <1>3, <1>4

LEMMA SpecJobInv == Spec => [](IInv /\ JobInv)
<1>1. Init => JobInv
  BY NoJobAssumption DEF Init, JobInv, Unstarted
<1>2. IInv /\ JobInv /\ [Next]_vars => JobInv'
  <2> SUFFICES ASSUME IInv, JobInv, [Next]_vars PROVE JobInv'
    OBVIOUS
  <2>1. CASE UNCHANGED vars
    <3>1. Idle' = Idle
      BY <2>1, IdleSame DEF vars, poolVars
    <3> QED
      BY <2>1, <3>1 DEF vars, poolVars, workVars, JobInv, Unstarted
  <2> QED
    BY <2>1, CallJobs, WorkerJobs, FreeJobs DEF Next
<1> QED
  BY <1>1, <1>2, InitIInv, NextStep, PTL DEF Spec

Phase(c) == CASE call[c] \in {"signal", "done"} -> "asked"
              [] call[c] = "failed" -> "refused"
              [] OTHER -> "start"
Phases == [c \in Calls |-> Phase(c)]

LEMMA InitRefines == Init => Jobs!Init
BY DEF Init, Jobs!Init

LEMMA NextRefines ==
  ASSUME IInv, JobInv, [Next]_vars
  PROVE  [Jobs!Next]_(Jobs!vars)
<1> USE DEF Phases, Phase
<1>1. ASSUME Phases' = Phases, UNCHANGED <<ran, is_shutdown>>
      PROVE  UNCHANGED Jobs!vars
  BY <1>1 DEF Jobs!vars
<1>2. ASSUME UNCHANGED <<call, ran, is_shutdown>> PROVE UNCHANGED Jobs!vars
  BY <1>1, <1>2
<1>3. ASSUME NEW c \in Calls, CallStep(c)
      PROVE  [Jobs!Next]_(Jobs!vars)
  <2>1. UNCHANGED <<ran, is_shutdown>> /\ call \in [Calls -> CallState]
    BY <1>3 DEF CallStep, DispatchWait, DispatchCreate, DispatchPop, DispatchSignal,
       poolVars, workVars, IInv, TypeOK
  <2>2. ASSUME NEW s \in {"signal", "done"}, CallMove(c, s), call[c] \in {"start", "woken"}
        PROVE  Jobs!Ask(c)
    <3>1. Phases[c] = "start"
      BY <2>2
    <3>2. Phases' = [Phases EXCEPT ![c] = "asked"]
      BY <2>1, <2>2 DEF CallMove
    <3> QED
      BY <2>1, <3>1, <3>2 DEF Jobs!Ask, Jobs!Caller
  <2>3. ASSUME CallMove(c, "failed"), call[c] \in {"start", "woken"}
        PROVE  Jobs!Refuse(c)
    <3>1. Phases[c] = "start"
      BY <2>3
    <3>2. Phases' = [Phases EXCEPT ![c] = "refused"]
      BY <2>1, <2>3 DEF CallMove
    <3> QED
      BY <2>1, <3>1, <3>2 DEF Jobs!Refuse, Jobs!Caller
  <2>4. CASE DispatchWait(c)
    <3>1. call' = [call EXCEPT ![c] = "wait"] /\ call[c] \in {"start", "woken"}
      BY <2>4 DEF DispatchWait, MayEnter, CallMove
    <3>2. Phases' = Phases
      BY <2>1, <3>1
    <3> QED
      BY <1>1, <2>1, <3>2
  <2>5. CASE DispatchCreate(c)
    BY <2>2, <2>3, <2>5 DEF DispatchCreate, MayEnter, Jobs!Next
  <2>6. CASE DispatchPop(c)
    BY <2>2, <2>6 DEF DispatchPop, MayEnter, Jobs!Next
  <2>7. CASE DispatchSignal(c)
    <3>1. call' = [call EXCEPT ![c] = "done"] /\ call[c] = "signal"
      BY <2>7 DEF DispatchSignal, CallMove
    <3>2. Phases' = Phases
      BY <2>1, <3>1
    <3> QED
      BY <1>1, <2>1, <3>2
  <2> QED
    BY <1>3, <2>4, <2>5, <2>6, <2>7 DEF CallStep
<1>4. ASSUME NEW w \in Workers, WorkerStep(w)
      PROVE  [Jobs!Next]_(Jobs!vars)
  <2>1. CASE WorkerTest(w)
    <3>1. CASE is_shutdown
      BY <1>2, <2>1, <3>1 DEF WorkerTest, poolVars
    <3>2. CASE ~ is_shutdown
      <4>1. /\ wpc[w] \in {"test", "woken"} /\ UNCHANGED <<call, is_shutdown>>
            /\ ran' = [ran EXCEPT ![job[w]] = @ + 1]
        BY <2>1, <3>2 DEF WorkerTest, poolVars
      <4>2. w \notin Idle \/ wpc[w] = "test"
        BY <3>2, <4>1 DEF Idle, IInv, RunningInv
      <4>3. job[w] \in Calls /\ ran[job[w]] = 0
        BY <3>2, <4>1, <4>2 DEF JobInv, Unstarted
      <4>4. Phases' = Phases /\ Phases[job[w]] = "asked"
        BY <4>1, <4>3 DEF IInv, ListInv
      <4>5. ran' = [ran EXCEPT ![job[w]] = 1]
        BY <4>1, <4>3
      <4>6. Jobs!Run(job[w])
        BY <3>2, <4>1, <4>3, <4>4, <4>5 DEF Jobs!Run
      <4> QED
        BY <4>3, <4>6 DEF Jobs!Next
    <3> QED
      BY <3>1, <3>2
  <2>2. CASE SaveThread(w)
    <3>1. UNCHANGED <<ran, is_shutdown>> /\ call \in [Calls -> CallState]
      BY <2>2 DEF SaveThread, IInv, TypeOK
    <3>2. CASE call' = call
      BY <1>2, <3>1, <3>2
    <3>3. ASSUME NEW c \in Calls, call[c] = "wait", call' = [call EXCEPT ![c] = "woken"]
          PROVE  UNCHANGED Jobs!vars
      <4>1. Phases' = Phases
        BY <3>1, <3>3
      <4> QED
        BY <1>1, <3>1, <4>1
    <3> QED
      BY <2>2, <3>2, <3>3 DEF SaveThread, SignalIdle, CallMove
  <2>3. CASE ~ WorkerTest(w) /\ ~ SaveThread(w)
    BY <1>2, <1>4, <2>3 DEF WorkerStep, WorkerRan, WorkerLock, WorkerPark, WorkerLoad,
       WorkerStore, WorkerEmpty, WorkerUnlock, poolVars
  <2> QED
    BY <2>1, <2>2, <2>3
<1>5. ASSUME FreeStep PROVE [Jobs!Next]_(Jobs!vars)
  <2>1. UNCHANGED <<call, ran>>
    BY <1>5 DEF FreeStep, FreeBegin, FreeWakeAll, FreeTest, FreeBlock, workVars
  <2>2. CASE is_shutdown' = is_shutdown
    BY <1>2, <2>1, <2>2
  <2>3. CASE is_shutdown' # is_shutdown
    <3>1. ~ is_shutdown /\ is_shutdown' = TRUE
      BY <1>5, <2>3 DEF FreeStep, FreeBegin, FreeWakeAll, FreeTest, FreeBlock,
         poolVars, IInv, TypeOK
    <3>2. Phases' = Phases
      BY <2>1
    <3> QED
      BY <2>1, <3>1, <3>2 DEF Jobs!Next, Jobs!Close
  <2> QED
    BY <2>2, <2>3
<1>6. CASE UNCHANGED vars
  BY <1>2, <1>6 DEF vars, poolVars, workVars
<1> QED
  BY <1>3, <1>4, <1>5, <1>6 DEF Next

\* Every behaviour of the pool, through waiting calls, threads handed over before
\* they wait, and the shutdown, is one of CallOnce: a job that was taken starts
\* at most once, never after the shutdown, and never when its call failed.
THEOREM Refines == Spec => IsCallOnce
<1>1. Spec => Jobs!Spec
  BY InitRefines, NextRefines, SpecJobInv, PTL DEF Spec, Jobs!Spec
<1> QED
  BY <1>1 DEF IsCallOnce
=============================================================================
