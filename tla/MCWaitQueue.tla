----------------------------- MODULE MCWaitQueue -----------------------------
(* Two waiters and two wakers over a queue that is full when both wait. *)
EXTENDS WaitQueue
=============================================================================
