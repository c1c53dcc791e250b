----------------------------- MODULE MCMpMutex -----------------------------
(* Two mutexes of the supervisor on two semaphores; a worker uses the       *)
(* first one.                                                               *)
EXTENDS MpMutex
CONSTANTS o1, o2, w1
MCBound == [w \in {w1} |-> o1]
=============================================================================
