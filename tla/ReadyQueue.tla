----------------------------- MODULE ReadyQueue -----------------------------
(***************************************************************************)
(* What a run queue promises: runnable threads ordered by priority and,    *)
(* within one, by arrival.  RunQueue is shown to implement this.           *)
(***************************************************************************)
EXTENDS Integers, Sequences

CONSTANTS
    Threads,    \* thread identities
    Priorities, \* a set of integers, higher first
    N           \* capacity

VARIABLE queue  \* <<thread, priority>> pairs, the next to run first

Queued(t) == \E k \in DOMAIN queue : queue[k][1] = t

\* The sequence with t behind everything that is at least as urgent.
Inserted(q, t, p) ==
    LET front == {k \in DOMAIN q : q[k][2] >= p}
        n == IF front = {} THEN 0 ELSE CHOOSE k \in front : \A j \in front : j <= k
    IN  SubSeq(q, 1, n) \o <<<<t, p>>>> \o SubSeq(q, n + 1, Len(q))

Without(q, t) == SelectSeq(q, LAMBDA entry : entry[1] # t)

Init == queue = <<>>

Enqueue(t, p) ==
    /\ ~ Queued(t)
    /\ Len(queue) < N
    /\ queue' = Inserted(queue, t, p)

PickNext ==
    /\ queue # <<>>
    /\ queue' = Tail(queue)

Remove(t) ==
    /\ Queued(t)
    /\ queue' = Without(queue, t)

Next ==
    \/ \E t \in Threads, p \in Priorities : Enqueue(t, p)
    \/ PickNext
    \/ \E t \in Threads : Remove(t)

Spec == Init /\ [][Next]_queue
=============================================================================
