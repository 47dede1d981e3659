---------------------------- MODULE OrderedDisk ----------------------------
(***************************************************************************)
(* What kernel/bcache promises a filesystem about the order of its writes: *)
(* a disk whose writes wait in numbered generations.  A barrier opens the  *)
(* next generation.  A waiting block reaches the disk only once no block   *)
(* of an earlier generation is waiting, and a block that already waits in  *)
(* an earlier generation is not changed until it has gone.  The module     *)
(* says nothing of slots, lookups or replacement; BCache implements it.    *)
(***************************************************************************)
EXTENDS Naturals

CONSTANT Contents    \* what a block can hold

VARIABLES
    disk,       \* what the device holds
    pend,       \* for each generation, the blocks of it still waiting
    generation  \* the generation a write joins now

vars == <<disk, pend, generation>>

Generations == DOMAIN pend

Blocks == DOMAIN disk

None == [b \in {} |-> b]

Waiting(b) == {g \in Generations : b \in DOMAIN pend[g]}

\* No block of any generation is waiting.
Quiet == \A g \in Generations : pend[g] = None

Init ==
    /\ disk \in [Blocks -> Contents]
    /\ pend = [g \in Generations |-> None]
    /\ generation = 1

Write(b) ==
    /\ UNCHANGED <<disk, generation>>
    /\ Waiting(b) \subseteq {generation}
    /\ \E c \in Contents :
           pend' = [pend EXCEPT ![generation] = [x \in DOMAIN @ \union {b} |-> IF x = b THEN c ELSE @[x]]]

Barrier ==
    /\ generation + 1 \in Generations
    /\ generation' = generation + 1
    /\ UNCHANGED <<disk, pend>>

\* The oldest generation gives a block to the disk.  A device that reports
\* an error may have taken the block all the same: then the block is on the
\* disk and still waits.
Persist(g, b) ==
    /\ UNCHANGED generation
    /\ b \in DOMAIN pend[g]
    /\ \A h \in Generations : h < g => pend[h] = None
    /\ disk' = [disk EXCEPT ![b] = pend[g][b]]
    /\ \/ pend' = [pend EXCEPT ![g] = [x \in DOMAIN @ \ {b} |-> @[x]]]
       \/ UNCHANGED pend

\* A write that waits for nothing goes to the disk only when nothing waits.
WriteThrough(b) ==
    /\ UNCHANGED generation
    /\ \E c \in Contents : disk' = [disk EXCEPT ![b] = c]
    /\ Quiet
    /\ UNCHANGED pend

\* Power is lost: what waited is gone, what was on the disk is not.
Crash ==
    /\ pend' = [g \in Generations |-> None]
    /\ generation' = 1
    /\ UNCHANGED disk

Next ==
    \/ \E b \in Blocks : Write(b) \/ WriteThrough(b)
    \/ Barrier
    \/ \E g \in Generations, b \in Blocks : Persist(g, b)
    \/ Crash

Spec == Init /\ [][Next]_vars
=============================================================================
