----------------------------- MODULE MCScheduler -----------------------------
(***************************************************************************)
(* Preemption on two CPUs, and a run queue by itself.  They share no state: *)
(* `machine`, chosen at first, is the one that moves.                      *)
(***************************************************************************)
EXTENDS Preempt, RunQueue

VARIABLE machine

MCVars == <<machine, vars, queueVars>>

MCInit ==
    /\ machine \in {"cpus", "queue"}
    /\ Init
    /\ QueueInit

MCNext ==
    \/ machine = "cpus" /\ Next /\ UNCHANGED <<machine, queueVars>>
    \/ machine = "queue" /\ QueueNext /\ UNCHANGED <<machine, vars>>

MCSpec == MCInit /\ [][MCNext]_MCVars

-----------------------------------------------------------------------------
\* The run queue (runqueue.rs) is a queue ordered by priority and then by
\* arrival: each operation does to the threads, in the order pick_next would
\* take them, what ReadyQueue says, removals from the middle included, and
\* pick_next returns the thread that was first.
QueueImplementsReadyQueue ==
    /\ Abstract!Init
    /\ [][machine = "queue" => \/ Abstract!Next \/ Contents' = Contents]_queueVars
    /\ [][machine = "queue" /\ len' < len /\ result' # NoSlot => result' = Contents[1][1]]_queueVars
=============================================================================
