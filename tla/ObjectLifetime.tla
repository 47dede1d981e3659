---------------------------- MODULE ObjectLifetime ----------------------------
(***************************************************************************)
(* What an object store promises about the objects in it, with no slots,   *)
(* counts, generations or locks: an object its owner publishes can be      *)
(* found until it is retired, whoever has it keeps it alive, and it is     *)
(* given back to its owner once, after the last holder has let go.         *)
(*                                                                         *)
(* ObjectStore implements this specification.                              *)
(***************************************************************************)
CONSTANTS Objects, Tasks

VARIABLES
    stage,      \* per object: "owned", "live", "retiring" or "dying"
    holders,    \* per object: the tasks that hold a reference to it
    given       \* the tasks whose reference came from another holder

vars == <<stage, holders, given>>

Init ==
    /\ stage = [o \in Objects |-> "owned"]
    /\ holders = [o \in Objects |-> {}]
    /\ given = {}

Free(t) == \A o \in Objects : t \notin holders[o]

Publish(o) ==
    /\ stage[o] = "owned"
    /\ stage' = [stage EXCEPT ![o] = "live"]
    /\ UNCHANGED <<holders, given>>

\* Only a live object is found.
Find(o, t) ==
    /\ stage[o] = "live"
    /\ Free(t)
    /\ holders' = [holders EXCEPT ![o] = @ \cup {t}]
    /\ UNCHANGED <<stage, given>>

\* A holder may share even what can no longer be found.
Share(o, t, u) ==
    /\ t \in holders[o]
    /\ Free(u)
    /\ holders' = [holders EXCEPT ![o] = @ \cup {u}]
    /\ given' = given \cup {u}
    /\ UNCHANGED stage

LetGo(o, t) ==
    /\ t \in holders[o]
    /\ holders' = [holders EXCEPT ![o] = @ \ {t}]
    /\ given' = given \ {t}
    /\ stage' = [stage EXCEPT ![o] = IF @ = "retiring" /\ holders[o] = {t}
                                     THEN "dying" ELSE @]

Retire(o) ==
    /\ stage[o] = "live"
    /\ stage' = [stage EXCEPT ![o] = IF holders[o] = {} THEN "dying"
                                                        ELSE "retiring"]
    /\ UNCHANGED <<holders, given>>

Destroy(o) ==
    /\ stage[o] = "dying"
    /\ stage' = [stage EXCEPT ![o] = "owned"]
    /\ UNCHANGED <<holders, given>>

Next ==
    \E o \in Objects :
        \/ Publish(o)
        \/ Retire(o)
        \/ Destroy(o)
        \/ \E t \in Tasks :
            \/ Find(o, t)
            \/ LetGo(o, t)
            \/ \E u \in Tasks : Share(o, t, u)

Spec == Init /\ [][Next]_vars
=============================================================================
