------------------------------- MODULE MsgMgt -------------------------------
(***************************************************************************)
(* The synchronous calls into the SDK, dvr/isilsdk/src/eventcore:          *)
(* isil_msg.c, isil_msg_mgt.c, the loop of isil_sdk_main.c and the release *)
(* in isil_sdk_center_mgt.c.                                               *)
(*                                                                         *)
(* A client thread queues a message block that names a hook and blocks;    *)
(* the SDK's thread runs the hook between two turns of its event loop and  *)
(* wakes the client.  When the SDK is shut down, the main thread wakes the *)
(* clients still queued; client threads are not stopped before that.       *)
(*                                                                         *)
(* Each member of Calls is one isil_msg_set_param() of a client thread,    *)
(* and its block.  blk->ref is counted down without a lock by the client   *)
(* and by the thread that answers, so the decrement is a load and a store, *)
(* and what the second of them reads in a freed block may be anything.     *)
(***************************************************************************)
EXTENDS Integers, Sequences, FiniteSets

CONSTANT Calls

Server == "server"   \* the SDK's thread, then the main thread that releases

ASSUME CallsAssumption == Server \notin Calls

Users == Calls \cup {Server}

VARIABLES
  msg_list,    \* the queue of blocks
  run_flag,    \* sdk_is_run
  spc,         \* the server's place
  closing,     \* the server is in msg_mgt_release, not in notify_reg_msg
  cur,         \* the block taken from the queue, as a set of at most one
  pc,          \* per call: the client's place
  ref,         \* per block: ref
  is_ok,       \* per block: is_ok
  hooked,      \* per block: how often its hook ran and set result
  loaded,      \* per user: the ref it read for its decrement
  frees        \* per block: how often it was freed

srvVars == <<run_flag, spc, closing, cur>>
blkVars == <<ref, is_ok, hooked, frees>>
vars == <<msg_list, srvVars, pc, blkVars, loaded>>

ServerState == {"loop", "serve", "hook", "wake", "load", "store", "test",
                "exited", "released"}
ClientState == {"start", "wait", "read", "load", "store", "test", "returned"}

Init ==
  /\ msg_list = <<>>
  /\ run_flag = TRUE
  /\ spc = "loop" /\ closing = FALSE /\ cur = {}
  /\ pc = [c \in Calls |-> "start"]
  /\ ref = [c \in Calls |-> 0]
  /\ is_ok = [c \in Calls |-> FALSE]
  /\ hooked = [c \in Calls |-> 0]
  /\ loaded = [u \in Users |-> 0]
  /\ frees = [c \in Calls |-> 0]

\* The server holds list_lock from the first block to the last.
ListLocked == spc \in {"serve", "hook", "wake", "load", "store", "test"}

Client(c, s) == pc' = [pc EXCEPT ![c] = s]

-----------------------------------------------------------------------------
(* msg_blk_release, by a client or by the server: the decrement and the    *)
(* test of its outcome are steps of their own.                             *)

LoadRef(u, c) == loaded' = [loaded EXCEPT ![u] = ref[c]]

StoreRef(u, c) == ref' = [ref EXCEPT ![c] = loaded[u] - 1]

FreeIfLast(c) ==
  \/ (ref[c] = 0 \/ frees[c] > 0) /\ frees' = [frees EXCEPT ![c] = @ + 1]
  \/ (ref[c] # 0 \/ frees[c] > 0) /\ UNCHANGED frees

-----------------------------------------------------------------------------
(* isil_msg_set_param *)

\* Faulty variant: the queue takes no reference of its own.
OneRef == 1

\* msg_blk_minit gives one reference, put_blk_to_msg_lst the other.
InitialRef == 2

Put(c) ==
  /\ pc[c] = "start" /\ ~ ListLocked
  /\ msg_list' = Append(msg_list, c)
  /\ ref' = [ref EXCEPT ![c] = InitialRef]
  /\ Client(c, "wait")
  /\ UNCHANGED <<srvVars, is_ok, hooked, frees, loaded>>

\* Faulty variant: the wait ends before the answer, as after a timeout.
TimesOut(c) == TRUE

Answered(c) == is_ok[c]

\* msg_blk_wait returns
Wait(c) ==
  /\ pc[c] = "wait" /\ Answered(c)
  /\ Client(c, "read")
  /\ UNCHANGED <<msg_list, srvVars, blkVars, loaded>>

\* GET_MSG_BLK_RESULT; then msg_blk_release does nothing when ref is 0.
ReadResult(c) ==
  /\ pc[c] = "read"
  /\ Client(c, IF ref[c] = 0 THEN "returned" ELSE "load")
  /\ UNCHANGED <<msg_list, srvVars, blkVars, loaded>>

ClientLoad(c) ==
  /\ pc[c] = "load"
  /\ LoadRef(c, c) /\ Client(c, "store")
  /\ UNCHANGED <<msg_list, srvVars, blkVars>>

ClientStore(c) ==
  /\ pc[c] = "store"
  /\ StoreRef(c, c) /\ Client(c, "test")
  /\ UNCHANGED <<msg_list, srvVars, is_ok, hooked, frees, loaded>>

ClientTest(c) ==
  /\ pc[c] = "test"
  /\ FreeIfLast(c) /\ Client(c, "returned")
  /\ UNCHANGED <<msg_list, srvVars, ref, is_ok, hooked, loaded>>

ClientStep(c) ==
  \/ Put(c) \/ Wait(c) \/ ReadResult(c)
  \/ ClientLoad(c) \/ ClientStore(c) \/ ClientTest(c)

-----------------------------------------------------------------------------
(* isil_sdk_run_callback and notify_reg_msg *)

\* SIGINT, SIGTERM or sdk_thr_exit
Stop ==
  /\ run_flag /\ run_flag' = FALSE
  /\ UNCHANGED <<msg_list, spc, closing, cur, pc, blkVars, loaded>>

\* One turn of the event loop, then notify takes list_lock.
Turn ==
  /\ spc = "loop"
  /\ spc' = "serve"
  /\ UNCHANGED <<msg_list, run_flag, closing, cur, pc, blkVars, loaded>>

\* list_del_init of the first block; msg_mgt_release runs no hook.
TakeBlk ==
  /\ spc = "serve" /\ msg_list # <<>>
  /\ msg_list' = Tail(msg_list)
  /\ cur' = {Head(msg_list)}
  /\ spc' = IF closing THEN "wake" ELSE "hook"
  /\ UNCHANGED <<run_flag, closing, pc, blkVars, loaded>>

\* The end of the walk: unlock, and the loop tests sdk_is_run again.
EndOfWalk ==
  /\ spc = "serve" /\ msg_list = <<>>
  /\ spc' = IF closing THEN "released" ELSE IF run_flag THEN "loop" ELSE "exited"
  /\ cur' = {}
  /\ UNCHANGED <<msg_list, run_flag, closing, pc, blkVars, loaded>>

\* The hook runs on the client's own parameter and its value is the result.
RunHook(c) ==
  /\ spc = "hook" /\ c \in cur
  /\ hooked' = [hooked EXCEPT ![c] = @ + 1]
  /\ spc' = "wake"
  /\ UNCHANGED <<msg_list, run_flag, closing, cur, pc, ref, is_ok, frees, loaded>>

\* Faulty variant: the block's flag is not set.
WakeNobody(c) == UNCHANGED is_ok

SetOk(c) == is_ok' = [is_ok EXCEPT ![c] = TRUE]

\* msg_blk_weekup
Weekup(c) ==
  /\ spc = "wake" /\ c \in cur
  /\ SetOk(c)
  /\ spc' = IF ref[c] = 0 THEN "serve" ELSE "load"
  /\ UNCHANGED <<msg_list, run_flag, closing, cur, pc, ref, hooked, frees, loaded>>

ServerLoad(c) ==
  /\ spc = "load" /\ c \in cur
  /\ LoadRef(Server, c) /\ spc' = "store"
  /\ UNCHANGED <<msg_list, run_flag, closing, cur, pc, blkVars>>

ServerStore(c) ==
  /\ spc = "store" /\ c \in cur
  /\ StoreRef(Server, c) /\ spc' = "test"
  /\ UNCHANGED <<msg_list, run_flag, closing, cur, pc, is_ok, hooked, frees, loaded>>

ServerTest(c) ==
  /\ spc = "test" /\ c \in cur
  /\ FreeIfLast(c) /\ spc' = "serve"
  /\ UNCHANGED <<msg_list, run_flag, closing, cur, pc, ref, is_ok, hooked, loaded>>

-----------------------------------------------------------------------------
(* isil_sdk_release calls msg_mgt_release once the loop has ended *)

\* The list is tested before list_lock is taken; an empty one needs no walk.
StartRelease ==
  /\ spc = "exited"
  /\ closing' = TRUE
  /\ spc' = IF msg_list = <<>> THEN "released" ELSE "serve"
  /\ UNCHANGED <<msg_list, run_flag, cur, pc, blkVars, loaded>>

ServerStep ==
  \/ Turn \/ TakeBlk \/ EndOfWalk \/ StartRelease
  \/ \E c \in Calls : \/ RunHook(c) \/ Weekup(c)
                      \/ ServerLoad(c) \/ ServerStore(c) \/ ServerTest(c)

Next == ServerStep \/ Stop \/ \E c \in Calls : ClientStep(c)

Spec == Init /\ [][Next]_vars

\* Threads are scheduled; whether clients call or the SDK is stopped is open.
FairSpec ==
  /\ Spec
  /\ WF_vars(ServerStep)
  /\ \A c \in Calls : WF_vars(ClientStep(c) /\ pc[c] # "start")

-----------------------------------------------------------------------------
(* Properties *)

\* Every value has its type; no count goes below zero.
TypeOK ==
  /\ msg_list \in Seq(Calls)
  /\ run_flag \in BOOLEAN /\ closing \in BOOLEAN
  /\ spc \in ServerState
  /\ cur \in SUBSET Calls
  /\ pc \in [Calls -> ClientState]
  /\ ref \in [Calls -> 0..2]
  /\ is_ok \in [Calls -> BOOLEAN]
  /\ hooked \in [Calls -> Nat]
  /\ loaded \in [Users -> 0..2]
  /\ frees \in [Calls -> Nat]

\* A hook runs only while the client that asked for it is still waiting: its
\* parameter is on that client's stack (isil_msg.c:4-40).
HookWhileCallerWaits ==
  spc = "hook" => \A c \in cur : pc[c] = "wait"

\* A block is freed only after its client has read the result and the server
\* has woken the client: neither touches freed memory before its last test
\* of ref, although the decrements race (isil_msg_mgt.c:9-30).
FreedAfterUse ==
  \A c \in Calls : frees[c] > 0 =>
    /\ pc[c] \in {"test", "returned"}
    /\ c \in cur => spc \notin {"hook", "wake", "load", "store"}

\* No call returns unanswered: its hook has run once, unless the block was
\* woken by the release of the queue (isil_msg_mgt.c:121-197).
RunsOnce ==
  \A c \in Calls :
    /\ hooked[c] <= 1
    /\ pc[c] = "returned" => hooked[c] = 1 \/ closing

\* What the clients are promised: a hook runs once, while the client whose
\* stack holds its parameter waits, and none returns before its hook has run
\* unless the queue is being released (isil_msg.c:4-40).
SyncCall == INSTANCE CallOnce WITH
  caller <- [c \in Calls |-> CASE pc[c] = "start" -> "start"
                               [] pc[c] = "wait" -> "asked"
                               [] OTHER -> "returned"],
  ran <- hooked, open <- ~closing
IsCallOnce == SyncCall!Spec

\* A block that is queued when the release of the queue has not ended is
\* answered, by its hook or by that release (isil_msg_mgt.c:121-159).
QueuedIsAnswered ==
  \A c \in Calls :
    (pc[c] = "wait" /\ spc # "released") ~> (pc[c] = "returned")
=============================================================================
