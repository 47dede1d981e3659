------------------------------ MODULE RunQueue ------------------------------
(***************************************************************************)
(* The run queue (kernel/sched/src/runqueue.rs): slots linked into one     *)
(* FIFO list per priority level, with a bitmap of the levels that are not  *)
(* empty.  Implements ReadyQueue.                                          *)
(***************************************************************************)
EXTENDS Integers, Sequences, FiniteSets, FiniteSetsExt

CONSTANTS
    QueueN,     \* slots
    LEVELS,     \* priority levels, 0 .. LEVELS - 1
    Threads,    \* thread identities
    NoSlot

ASSUME QueueAssumption ==
    QueueN \in Nat \ {0} /\ LEVELS \in Nat \ {0} /\ NoSlot \notin 0 .. QueueN - 1

QueueSlots == 0 .. QueueN - 1
QueuePriorities == 0 .. LEVELS - 1
Link == QueueSlots \cup {NoSlot}

VARIABLES
    slots,      \* per slot: id, priority, next in its level, used
    levels,     \* per level: head, tail
    nonempty,   \* the bitmap, as the set of its levels
    len,
    result      \* what the last operation returned

queueVars == <<slots, levels, nonempty, len, result>>

\* A slot that was never used holds id ThreadId(0), here NoSlot.
QueueInit ==
    /\ slots = [i \in QueueSlots |-> [id |-> NoSlot, priority |-> 0, next |-> NoSlot, used |-> FALSE]]
    /\ levels = [p \in QueuePriorities |-> [head |-> NoSlot, tail |-> NoSlot]]
    /\ nonempty = {}
    /\ len = 0
    /\ result = NoSlot

\* find, contains
Holding(t) == {i \in QueueSlots : slots[i].used /\ slots[i].id = t}

Free == {i \in QueueSlots : ~ slots[i].used}

SetBit(p) == nonempty \cup {p}

\* Mutant: the slot is linked in at the head of its level.
EnqueueAtHead(t, p) ==
    LET i == Min(Free)
    IN  /\ Holding(t) = {}
        /\ Free # {}
        /\ slots' = [slots EXCEPT ![i] =
                        [id |-> t, priority |-> p, next |-> levels[p].head, used |-> TRUE]]
        /\ levels' = [levels EXCEPT ![p].head = i,
                                    ![p].tail = IF @ = NoSlot THEN i ELSE @]
        /\ nonempty' = SetBit(p)
        /\ len' = len + 1
        /\ result' = NoSlot

\* enqueue: the first free slot, linked in behind the tail of its level.
Enqueue(t, p) ==
    LET i == Min(Free)
        tail == levels[p].tail
        new == [id |-> t, priority |-> p, next |-> NoSlot, used |-> TRUE]
    IN  /\ Holding(t) = {}
        /\ Free # {}
        /\ slots' = IF tail = NoSlot THEN [slots EXCEPT ![i] = new]
                    ELSE [slots EXCEPT ![i] = new, ![tail].next = i]
        /\ levels' = [levels EXCEPT ![p].head = IF tail = NoSlot THEN i ELSE @,
                                    ![p].tail = i]
        /\ nonempty' = SetBit(p)
        /\ len' = len + 1
        /\ result' = NoSlot

\* enqueue refused: AlreadyQueued or Full.
EnqueueRefused(t) ==
    /\ Holding(t) # {} \/ Free = {}
    /\ result' = "refused"
    /\ UNCHANGED <<slots, levels, nonempty, len>>

Highest == Max(nonempty)

\* pick_next: the head of the highest level, unlinked (unlink_head).
PickNext ==
    LET p == Highest
        i == levels[p].head
        next == slots[i].next
    IN  /\ nonempty # {}
        /\ levels' = [levels EXCEPT ![p].head = next,
                                    ![p].tail = IF next = NoSlot THEN NoSlot ELSE @]
        /\ nonempty' = IF next = NoSlot THEN nonempty \ {p} ELSE nonempty
        /\ slots' = [slots EXCEPT ![i].next = NoSlot, ![i].used = FALSE]
        /\ len' = len - 1
        /\ result' = slots[i].id

\* The slot before i in its level's list, or NoSlot: the walk in remove.
Before(i) ==
    LET before == {j \in QueueSlots : slots[j].used /\ slots[j].next = i}
    IN  IF before = {} THEN NoSlot ELSE Min(before)

\* remove: the level's tail after slot i, behind prev, has left it.
NewTail(i, prev) ==
    LET tail == levels[slots[i].priority].tail IN IF tail = i THEN prev ELSE tail

\* remove: unlink a thread wherever it is.
RemoveThread(t) ==
    \E i \in Holding(t) :
        LET p == slots[i].priority
            prev == Before(i)
            next == slots[i].next
            head == IF prev = NoSlot THEN next ELSE levels[p].head
            linked == IF prev = NoSlot THEN slots ELSE [slots EXCEPT ![prev].next = next]
        IN  /\ levels' = [levels EXCEPT ![p] = [head |-> head, tail |-> NewTail(i, prev)]]
            /\ nonempty' = IF head = NoSlot THEN nonempty \ {p} ELSE nonempty
            /\ slots' = [linked EXCEPT ![i].used = FALSE, ![i].next = NoSlot]
            /\ len' = len - 1
            /\ result' = NoSlot

QueueNext ==
    \/ \E t \in Threads, p \in QueuePriorities : Enqueue(t, p)
    \/ \E t \in Threads : EnqueueRefused(t) \/ RemoveThread(t)
    \/ PickNext

QueueSpec == QueueInit /\ [][QueueNext]_queueVars
-----------------------------------------------------------------------------
QueueTypeOK ==
    /\ slots \in [QueueSlots -> [id : Threads \cup {NoSlot}, priority : QueuePriorities,
                            next : Link, used : BOOLEAN]]
    /\ levels \in [QueuePriorities -> [head : Link, tail : Link]]
    /\ nonempty \subseteq QueuePriorities
    /\ len \in 0 .. QueueN
    /\ result \in Threads \cup {NoSlot, "refused"}

\* The slots of a level in list order; iter walks the levels from the highest.
Walk(p) ==
    LET walk[i \in Link] == IF i = NoSlot THEN <<>> ELSE <<i>> \o walk[slots[i].next]
    IN  walk[levels[p].head]
Order ==
    LET from[p \in -1 .. LEVELS - 1] ==
            IF p = -1 THEN <<>> ELSE (IF p \in nonempty THEN Walk(p) ELSE <<>>) \o from[p - 1]
    IN  from[LEVELS - 1]

\* What pick_next would take, in order.
Contents ==
    LET order == Order
    IN  [k \in DOMAIN order |-> <<slots[order[k]].id, slots[order[k]].priority>>]
Abstract == INSTANCE ReadyQueue WITH
    N <- QueueN, Priorities <- QueuePriorities, queue <- Contents

=============================================================================
