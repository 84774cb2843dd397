---------------------------- MODULE MCThreadPool ----------------------------
(* An instance of ThreadPool: more calls than threads, so that calls wait on *)
(* mIdleCond and idle threads are reused.                                    *)
EXTENDS ThreadPool, TLC

CONSTANTS c1, c2, c3, w1, w2

MCCalls == {c1, c2, c3}
MCWorkers == {w1, w2}
=============================================================================
