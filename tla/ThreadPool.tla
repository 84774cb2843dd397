----------------------------- MODULE ThreadPool -----------------------------
(***************************************************************************)
(* The worker pool of the SDK, dvr/isilsdk/src/eventcore/isil_thread_pool.c*)
(* (dvr/netsdk/src/net_thread_pool.c is a copy of it).                      *)
(*                                                                         *)
(* Each member of Calls is a client thread inside one thread_dispatch(),   *)
(* and also names the job that call hands over.  Each member of Workers is *)
(* an isil_thread_t that a call may create.  One more thread, the freer,   *)
(* runs free_thread_pool() once no call is in progress: the SDK's main     *)
(* thread does so after its event loop ended.                              *)
(*                                                                         *)
(* A thread in pthread_cond_wait is in a "...wait" state and needs the     *)
(* mutex again once it was signalled; spurious wake-ups are left out (the  *)
(* README says what they would do).  threads_num-- (line 62) is done under *)
(* the worker's own lock only: two workers may interleave load and store,  *)
(* and mEmptyCond may be signalled between the freer's test and its wait.  *)
(***************************************************************************)
EXTENDS Integers, FiniteSets

CONSTANTS Calls, Workers, MaxThreads

ASSUME MaxThreadsAssumption == MaxThreads \in Nat \ {0}
ASSUME FiniteAssumption == IsFiniteSet(Workers)

NoJob == "nojob"
NULL == "null"

ASSUME NoJobAssumption == NoJob \notin Calls

VARIABLES
  threads_list,   \* the array of idle threads
  index,          \* the idle threads are threads_list[0 .. index - 1]
  threads_num,    \* the number of threads the pool believes it has
  is_shutdown,
  call,           \* per call: its place in thread_dispatch
  wpc,            \* per worker: its place in thread_wrapperFunc
  job,            \* per worker: mFunc and arg
  loaded,         \* per worker: the threads_num it loaded for its decrement
  ran,            \* per job: how often a worker started it (for the properties)
  fpc,            \* the freer's place in free_thread_pool
  fi,             \* the freer's loop variable i
  freed           \* the isil_thread_t that were passed to free()

poolVars == <<threads_list, index, threads_num, is_shutdown>>
workVars == <<wpc, job, loaded, ran>>
freeVars == <<fpc, fi, freed>>
vars == <<poolVars, call, workVars, freeVars>>

CallState == {"start", "wait", "woken", "signal", "done", "failed"}
WorkerState == {"none", "test", "run", "ran", "lock", "save", "park", "wait",
                "woken", "exit", "store", "empty", "unlock", "gone"}
FreerState == {"idle", "fullwait", "fullwoken", "wakeall", "emptytest",
               "emptyblock", "emptywait", "emptywoken", "done"}

Init ==
  /\ threads_list = [i \in 0 .. MaxThreads - 1 |-> NULL]
  /\ index = 0
  /\ threads_num = 0
  /\ is_shutdown = FALSE
  /\ call = [c \in Calls |-> "start"]
  /\ wpc = [w \in Workers |-> "none"]
  /\ job = [w \in Workers |-> NoJob]
  /\ loaded = [w \in Workers |-> 0]
  /\ ran = [c \in Calls |-> 0]
  /\ fpc = "idle"
  /\ fi = 0
  /\ freed = {}

\* The threads in the list of idle threads.
Idle == {threads_list[i] : i \in 0 .. index - 1}

CallMove(c, s) == call' = [call EXCEPT ![c] = s]
WorkerMove(w, s) == wpc' = [wpc EXCEPT ![w] = s]

\* Nobody holds threads_lock: its critical sections are one step, but for a
\* call on its way to thread_cond and for the freer's loops.
PoolUnlocked ==
  /\ \A c \in Calls : call[c] # "signal"
  /\ fpc \notin {"wakeall", "emptytest", "emptyblock"}

\* Worker w holds its own thread_lock.
HoldsOwnLock(w) == wpc[w] \in {"save", "park", "store", "empty", "unlock"}

\* lock; pthread_cond_signal(thread_cond); unlock: lost if w does not wait.
SignalThread(w) ==
  /\ ~ HoldsOwnLock(w)
  /\ IF wpc[w] = "wait" THEN WorkerMove(w, "woken") ELSE UNCHANGED wpc

-----------------------------------------------------------------------------
(* thread_dispatch *)

MayEnter(c) == call[c] \in {"start", "woken"} /\ PoolUnlocked /\ fpc = "idle"

DispatchWait(c) ==
  /\ MayEnter(c)
  /\ index <= 0 /\ threads_num >= MaxThreads
  /\ CallMove(c, "wait")
  /\ UNCHANGED <<poolVars, workVars, freeVars>>

\* A new thread for the job; pthread_create may fail.
DispatchCreate(c) ==
  /\ MayEnter(c)
  /\ index <= 0 /\ threads_num < MaxThreads
  /\ \/ \E w \in Workers :
          /\ wpc[w] = "none"
          /\ WorkerMove(w, "test")
          /\ job' = [job EXCEPT ![w] = c]
          /\ threads_num' = threads_num + 1
          /\ CallMove(c, "done")
     \/ CallMove(c, "failed") /\ UNCHANGED <<wpc, job, threads_num>>
  /\ UNCHANGED <<threads_list, index, is_shutdown, loaded, ran, freeVars>>

\* The last idle thread is handed the job; threads_lock stays held.
DispatchPop(c) ==
  /\ MayEnter(c)
  /\ index > 0
  /\ index' = index - 1
  /\ job' = [job EXCEPT ![threads_list[index - 1]] = c]
  /\ threads_list' = [threads_list EXCEPT ![index - 1] = NULL]
  /\ CallMove(c, "signal")
  /\ UNCHANGED <<threads_num, is_shutdown, wpc, loaded, ran, freeVars>>

DispatchSignal(c) ==
  /\ call[c] = "signal"
  /\ \E w \in Workers : job[w] = c /\ SignalThread(w)
  /\ CallMove(c, "done")
  /\ UNCHANGED <<poolVars, job, loaded, ran, freeVars>>

-----------------------------------------------------------------------------
(* thread_wrapperFunc and save_thread *)

\* The loop test and the call of mFunc(arg).
WorkerTest(w) ==
  /\ wpc[w] \in {"test", "woken"}
  /\ IF is_shutdown
       THEN WorkerMove(w, "exit") /\ UNCHANGED ran
       ELSE /\ WorkerMove(w, "run")
            /\ ran' = [ran EXCEPT ![job[w]] = @ + 1]
  /\ UNCHANGED <<poolVars, call, job, loaded, freeVars>>

\* The job returns; is_shutdown is tested without a lock (line 45).
WorkerRan(w) ==
  /\ wpc[w] = "run"
  /\ WorkerMove(w, "ran")
  /\ UNCHANGED <<poolVars, call, job, loaded, ran, freeVars>>

WorkerLock(w) ==
  /\ wpc[w] = "ran"
  /\ WorkerMove(w, IF is_shutdown THEN "exit" ELSE "save")
  /\ UNCHANGED <<poolVars, call, job, loaded, ran, freeVars>>

\* pthread_cond_signal(mIdleCond) wakes one waiting call, if there is one.
SignalIdle ==
  IF \E c \in Calls : call[c] = "wait"
    THEN \E c \in Calls : call[c] = "wait" /\ CallMove(c, "woken")
    ELSE UNCHANGED call

\* Faulty variant: the freer is signalled only above the count.
AllIdleOffByOne(n) == n > threads_num

AllIdle(n) == n >= threads_num

SaveThread(w) ==
  /\ wpc[w] = "save" /\ PoolUnlocked
  /\ IF index < MaxThreads
       THEN /\ threads_list' = [threads_list EXCEPT ![index] = w]
            /\ index' = index + 1
            /\ SignalIdle
            /\ fpc' = IF fpc = "fullwait" /\ AllIdle(index + 1)
                        THEN "fullwoken" ELSE fpc
            /\ WorkerMove(w, "park")
            /\ UNCHANGED freed
       ELSE /\ freed' = freed \cup {w}
            /\ WorkerMove(w, "gone")
            /\ UNCHANGED <<threads_list, index, call, fpc>>
  /\ UNCHANGED <<threads_num, is_shutdown, job, loaded, ran, fi>>

\* Faulty variant: the saved thread goes on instead of waiting.
NoPark(w) ==
  /\ wpc[w] = "park"
  /\ WorkerMove(w, "woken")
  /\ UNCHANGED <<poolVars, call, job, loaded, ran, freeVars>>

\* pthread_cond_wait(thread_cond) gives thread_lock up.
WorkerPark(w) ==
  /\ wpc[w] = "park"
  /\ WorkerMove(w, "wait")
  /\ UNCHANGED <<poolVars, call, job, loaded, ran, freeVars>>

\* threads_num-- is a load and a store.
WorkerLoad(w) ==
  /\ wpc[w] = "exit"
  /\ WorkerMove(w, "store")
  /\ loaded' = [loaded EXCEPT ![w] = threads_num]
  /\ UNCHANGED <<poolVars, call, job, ran, freeVars>>

\* Faulty variant: an exiting thread gives its count back twice.
StoreTwice(w) ==
  /\ wpc[w] = "store"
  /\ WorkerMove(w, "empty")
  /\ threads_num' = loaded[w] - 2
  /\ UNCHANGED <<threads_list, index, is_shutdown, call, job, loaded, ran, freeVars>>

WorkerStore(w) ==
  /\ wpc[w] = "store"
  /\ WorkerMove(w, "empty")
  /\ threads_num' = loaded[w] - 1
  /\ UNCHANGED <<threads_list, index, is_shutdown, call, job, loaded, ran, freeVars>>

\* if(threads_num <= 0) pthread_cond_signal(mEmptyCond): lost unless the freer
\* waits.
WorkerEmpty(w) ==
  /\ wpc[w] = "empty"
  /\ WorkerMove(w, "unlock")
  /\ fpc' = IF threads_num = 0 /\ fpc = "emptywait" THEN "emptywoken" ELSE fpc
  /\ UNCHANGED <<poolVars, call, job, loaded, ran, fi, freed>>

WorkerUnlock(w) ==
  /\ wpc[w] = "unlock"
  /\ WorkerMove(w, "gone")
  /\ UNCHANGED <<poolVars, call, job, loaded, ran, freeVars>>

-----------------------------------------------------------------------------
(* free_thread_pool *)

FreeBegin ==
  /\ fpc \in {"idle", "fullwoken"} /\ PoolUnlocked
  /\ \A c \in Calls : call[c] \in {"done", "failed"}
  /\ IF ~ AllIdle(index)
       THEN fpc' = "fullwait" /\ UNCHANGED <<is_shutdown, fi>>
       ELSE fpc' = "wakeall" /\ is_shutdown' = TRUE /\ fi' = 0
  /\ UNCHANGED <<threads_list, index, threads_num, call, workVars, freed>>

FreeWakeAll ==
  /\ fpc = "wakeall"
  /\ IF fi < index
       THEN SignalThread(threads_list[fi]) /\ fi' = fi + 1 /\ UNCHANGED fpc
       ELSE fpc' = "emptytest" /\ UNCHANGED <<wpc, fi>>
  /\ UNCHANGED <<poolVars, call, job, loaded, ran, freed>>

\* Faulty variant: the test is off by one.
OneLeft == threads_num > 1

ThreadsLeft == threads_num > 0

\* while(threads_num > 0): the list is destroyed when no thread is left.
FreeTest ==
  /\ fpc \in {"emptytest", "emptywoken"}
  /\ IF ThreadsLeft
       THEN fpc' = "emptyblock" /\ UNCHANGED <<index, threads_list, freed>>
       ELSE /\ fpc' = "done"
            /\ freed' = freed \cup Idle
            /\ threads_list' = [i \in DOMAIN threads_list |-> NULL]
            /\ index' = 0
  /\ UNCHANGED <<threads_num, is_shutdown, call, workVars, fi>>

FreeBlock ==
  /\ fpc = "emptyblock"
  /\ fpc' = "emptywait"
  /\ UNCHANGED <<poolVars, call, workVars, fi, freed>>

-----------------------------------------------------------------------------
CallStep(c) == DispatchWait(c) \/ DispatchCreate(c) \/ DispatchPop(c)
                 \/ DispatchSignal(c)
WorkerStep(w) == WorkerTest(w) \/ WorkerRan(w) \/ WorkerLock(w)
                   \/ SaveThread(w) \/ WorkerPark(w) \/ WorkerLoad(w)
                   \/ WorkerStore(w) \/ WorkerEmpty(w) \/ WorkerUnlock(w)
FreeStep == FreeBegin \/ FreeWakeAll \/ FreeTest \/ FreeBlock

Next == \/ \E c \in Calls : CallStep(c)
        \/ \E w \in Workers : WorkerStep(w)
        \/ FreeStep

Spec == Init /\ [][Next]_vars

\* Every thread that can run gets to run, a mutex is not withheld for ever from
\* a thread that asks for it, and a job returns.
FairSpec == Spec /\ \A c \in Calls : WF_vars(CallStep(c))
                 /\ \A w \in Workers : WF_vars(WorkerStep(w))
                 /\ WF_vars(FreeStep)

-----------------------------------------------------------------------------
(* Properties *)

\* Every variable has its type.
TypeOK ==
  /\ threads_list \in [0 .. MaxThreads - 1 -> Workers \cup {NULL}]
  /\ index \in 0 .. MaxThreads
  /\ threads_num \in Nat
  /\ is_shutdown \in BOOLEAN
  /\ call \in [Calls -> CallState]
  /\ wpc \in [Workers -> WorkerState]
  /\ job \in [Workers -> Calls \cup {NoJob}]
  /\ loaded \in [Workers -> Nat]
  /\ ran \in [Calls -> Nat]
  /\ fpc \in FreerState
  /\ fi \in Nat
  /\ freed \subseteq Workers

Created(w) == wpc[w] # "none"

\* Threads that have yet to give their count in threads_num back.
Counted == {w \in Workers : wpc[w] \notin {"none", "empty", "unlock", "gone"}}

\* The count of threads is never below the number of threads that have yet to
\* leave, although decrements may overwrite each other (line 62), and exact
\* until the shutdown: thread_dispatch relies on it to bound the pool.
CountNeverTooLow ==
  /\ threads_num >= Cardinality(Counted)
  /\ ~ is_shutdown => threads_num = Cardinality(Counted)

\* free_thread_pool frees only threads past their decrement, and save_thread
\* never has to drop (and free) a thread because the list is full.
FreedOnlyAfterExit ==
  \A w \in freed : fpc = "done" /\ wpc[w] \in {"empty", "unlock", "gone"}

\* What the callers are promised: a job that was handed to a thread, new or
\* idle, is started once, before the shutdown, and one whose call failed is not
\* (thread_dispatch, lines 74-137).
Jobs == INSTANCE CallOnce WITH
  caller <- [c \in Calls |-> CASE call[c] \in {"signal", "done"} -> "asked"
                               [] call[c] = "failed" -> "refused"
                               [] OTHER -> "start"],
  open <- ~is_shutdown
IsCallOnce == Jobs!Spec

\* No call into the pool blocks for ever: thread_dispatch returns even when it
\* must wait for an idle thread, every job that was taken is run, and
\* free_thread_pool gets past its wait on mFullCond, after which every thread
\* leaves.
CallsReturn ==
  /\ \A c \in Calls : <>(call[c] \in {"done", "failed"})
  /\ Jobs!AllRun
  /\ <>is_shutdown
  /\ \A w \in Workers : Created(w) ~> wpc[w] = "gone"
=============================================================================
