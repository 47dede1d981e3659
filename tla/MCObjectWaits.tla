---------------------------- MODULE MCObjectWaits ----------------------------
(* One thread waiting on the set, and one that signals the event. *)
EXTENDS ObjectWaits

MCScenes == {[waiters |-> PollWaiters, calls |-> {"event"}, until |-> 0]}
=============================================================================
