------------------------------- MODULE MCSync -------------------------------
(***************************************************************************)
(* Epoch-based reclamation, and waiting on objects.  They share no state:  *)
(* `machine`, chosen at first, is the one that moves.  Waiting is looked   *)
(* at in two scenes: one waiter on an event, one on a process and one on   *)
(* the set; and two on the completion queue with its timer.                *)
(***************************************************************************)
EXTENDS Epoch, ObjectWaits, TLC

VARIABLE machine

MCVars == <<machine, epochVars, waitsVars>>

MCInit ==
    /\ machine \in {"epoch", "waits"}
    /\ EpochInit
    /\ WaitsInit
    \* One scene stands for both while the collector moves.
    /\ machine = "epoch" => scene = CHOOSE s \in Scenes : TRUE

\* A bound: only CPU 0 nests its guards.
OneNests == \A c \in Cpus \ {0} : depth'[c] <= 1

MCNext ==
    \/ machine = "epoch" /\ EpochNext /\ OneNests /\ UNCHANGED <<machine, waitsVars>>
    \/ machine = "waits" /\ WaitsNext /\ UNCHANGED <<machine, epochVars>>

MCSpec == MCInit /\ [][MCNext]_MCVars

OnObjects == [waiters |-> EventWaiters \cup ProcessWaiters \cup PollWaiters,
              calls |-> {"event", "exit"}, until |-> 0]
OnQueue == [waiters |-> QueueWaiters, calls |-> {"exit", "timer"}, until |-> MaxNow]

MCScenes == {OnObjects, OnQueue}

MCSymmetry == Permutations(Nodes) \cup Permutations(QueueWaiters) \cup Permutations(Actors)
=============================================================================
