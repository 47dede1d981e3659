------------------------------ MODULE WaitQueue ------------------------------
(***************************************************************************)
(* A wait queue (kernel/main/src/wait.rs): how a thread blocks until what  *)
(* it waits for happens or its deadline passes, and how whoever makes it   *)
(* happen wakes it.  The condition is a count of things to take, changed   *)
(* and looked at under a lock of its own, hence in single steps.  A step   *)
(* is otherwise one look at the condition, one critical section of the     *)
(* scheduler lock (block_until, wake_blocked, the timer interrupt), or one *)
(* taking or releasing of the queue's lock.  register and release are one  *)
(* critical section each; wake_all holds the lock over several.            *)
(***************************************************************************)
EXTENDS Integers, FiniteSets

CONSTANTS
    Waiters,    \* threads that wait, over and over
    Wakers,     \* threads and interrupt handlers that change the condition
    WAITERS,    \* slots of the queue
    MaxItems,   \* things to take at once (a bound)
    FREE        \* a slot's holder when it has none; also nobody holding the lock

ASSUME WaitQueueAssumption ==
    /\ WAITERS \in Nat \ {0} /\ MaxItems \in Nat \ {0}
    /\ Waiters \cap Wakers = {} /\ FREE \notin Waiters \cup Wakers

Slots == 1 .. WAITERS

VARIABLES
    items,      \* what the waiters' condition counts
    thread,     \* per slot: its Waiter, or FREE
    woken,      \* per slot: the flag block_until reads
    registered, \* slots in use, as has_waiters reads it
    lock,       \* the waker holding the queue's lock, or FREE
    pc,         \* per waiter: where it is in wait_until
    deadline,   \* per waiter: "none", "ahead" or "passed"
    at          \* per waker: where it is in the change and in wake_all

vars == <<items, thread, woken, registered, lock, pc, deadline, at>>

\* A waker is outside, has changed the condition, or is at a slot of wake_all,
\* about to raise its flag or to wake the thread, `raw`, it found there.
Outside(place) == [pc |-> place, slot |-> 0, raw |-> FREE]
AtSlot(s) == [pc |-> "flag", slot |-> s, raw |-> FREE]

Init ==
    /\ items = 0
    /\ thread = [s \in Slots |-> FREE]
    /\ woken = [s \in Slots |-> FALSE]
    /\ registered = 0
    /\ lock = FREE
    /\ pc = [w \in Waiters |-> "out"]
    /\ deadline = [w \in Waiters |-> "none"]
    /\ at = [k \in Wakers |-> Outside("out")]

Goto(w, place) == pc' = [pc EXCEPT ![w] = place]
queue == <<thread, woken, registered, lock>>

\* The slot a waiter holds; `self.waiters[slot]` between register and release.
SlotOf(w) == CHOOSE s \in Slots : thread[s] = w

-----------------------------------------------------------------------------
(* The waiter: wait_until, with wait_once inlined. *)

\* A call of wait_until, with the deadline the caller computed.
Begin(w, d) ==
    /\ pc[w] = "out"
    /\ Goto(w, "check")
    /\ deadline' = [deadline EXCEPT ![w] = d]
    /\ UNCHANGED <<items, at>> /\ UNCHANGED queue

\* A look at the condition that takes what it finds, or goes on at `next`.
Ready(w, found, next) ==
    /\ IF items > 0
       THEN items' = items - 1 /\ Goto(w, found)
       ELSE items' = items /\ Goto(w, next)
    /\ UNCHANGED <<deadline, at>> /\ UNCHANGED queue

Check(w) == pc[w] = "check" /\ Ready(w, "out", "register")

\* register: the first free slot under the lock, its flag lowered; or no room.
Register(w) ==
    /\ pc[w] = "register"
    /\ lock = FREE
    /\ LET free == {s \in Slots : thread[s] = FREE} IN
       IF free = {}
       THEN Goto(w, "full") /\ UNCHANGED queue
       ELSE LET slot == CHOOSE s \in free : \A t \in free : s <= t IN
            /\ woken' = [woken EXCEPT ![slot] = FALSE]
            /\ thread' = [thread EXCEPT ![slot] = w]
            /\ registered' = registered + 1
            /\ Goto(w, "again")
            /\ lock' = lock
    /\ UNCHANGED <<items, deadline, at>>

\* (mutants: the second look forgotten; a deadline nobody looks at)
CheckAgainSkipped(w) ==
    pc[w] = "again" /\ Goto(w, "block") /\ UNCHANGED <<items, deadline, at>> /\ UNCHANGED queue
DecideAgain(w) ==
    pc[w] = "decide" /\ Goto(w, "check") /\ UNCHANGED <<items, deadline, at>> /\ UNCHANGED queue

\* The second look, now that a waker would find the thread registered.
CheckAgain(w) == pc[w] = "again" /\ Ready(w, "found", "block")

\* block_until, up to its switch: the flag and the deadline are read, and the
\* thread blocked, under the scheduler lock.
BlockUntil(w) ==
    /\ pc[w] = "block"
    /\ Goto(w, IF woken[SlotOf(w)] \/ deadline[w] = "passed" THEN "release" ELSE "blocked")
    /\ UNCHANGED <<items, deadline, at>> /\ UNCHANGED queue

\* sleep_until when the queue was full, for OVERFLOW_POLL or to the deadline.
SleepUntil(w) ==
    /\ pc[w] = "full"
    /\ Goto(w, "asleep")
    /\ UNCHANGED <<items, deadline, at>> /\ UNCHANGED queue

\* The timer interrupt, finding a blocked thread's timer due.
TimerFires(w) ==
    /\ \/ pc[w] = "blocked" /\ deadline[w] = "passed" /\ Goto(w, "release")
       \/ pc[w] = "asleep" /\ Goto(w, "look")
    /\ UNCHANGED <<items, deadline, at>> /\ UNCHANGED queue

\* release: the slot given back, under the lock.
Release(w) ==
    /\ pc[w] \in {"found", "release"}
    /\ lock = FREE
    /\ thread' = [thread EXCEPT ![SlotOf(w)] = FREE]
    /\ registered' = registered - 1
    /\ Goto(w, IF pc[w] = "found" THEN "out" ELSE "look")
    /\ UNCHANGED <<items, woken, lock, deadline, at>>

\* The look that ends wait_once.
Look(w) == pc[w] = "look" /\ Ready(w, "out", "decide")

\* wait_until gives up at its deadline, and otherwise waits again.
Decide(w) ==
    /\ pc[w] = "decide"
    /\ Goto(w, IF deadline[w] = "passed" THEN "out" ELSE "check")
    /\ UNCHANGED <<items, deadline, at>> /\ UNCHANGED queue

\* Time reaches a waiter's deadline.
Passes(w) ==
    /\ pc[w] # "out" /\ deadline[w] = "ahead"
    /\ deadline' = [deadline EXCEPT ![w] = "passed"]
    /\ UNCHANGED <<items, pc, at>> /\ UNCHANGED queue

-----------------------------------------------------------------------------
(* The waker. *)

Move(k, place) == at' = [at EXCEPT ![k] = place]

\* The condition changes, before anyone is woken.
Change(k) ==
    /\ at[k].pc = "out" /\ items < MaxItems
    /\ items' = items + 1
    /\ Move(k, Outside("changed"))
    /\ UNCHANGED <<pc, deadline>> /\ UNCHANGED queue

\* readiness::wake returns at once when has_waiters, without the lock, says no.
SkipWake(k) ==
    /\ at[k].pc = "changed" /\ registered = 0
    /\ Move(k, Outside("out"))
    /\ UNCHANGED <<items, pc, deadline>> /\ UNCHANGED queue

\* wake_all takes the lock ...
WakeAll(k) ==
    /\ at[k].pc = "changed" /\ lock = FREE
    /\ lock' = k
    /\ Move(k, AtSlot(1))
    /\ UNCHANGED <<items, thread, woken, registered, pc, deadline>>

\* ... and, slot by slot, passes a free one by, or raises the flag of one in use
\* and then wakes its thread.  The lock is released after the last slot.
Advance(k, s) ==
    IF s = WAITERS THEN lock' = FREE /\ Move(k, Outside("out"))
                   ELSE lock' = lock /\ Move(k, AtSlot(s + 1))

Flag(k) ==
    /\ at[k].pc = "flag"
    /\ LET s == at[k].slot IN
       IF thread[s] = FREE
       THEN woken' = woken /\ Advance(k, s)
       ELSE /\ woken' = [woken EXCEPT ![s] = TRUE]
            /\ lock' = lock
            /\ Move(k, [pc |-> "wake", slot |-> s, raw |-> thread[s]])
    /\ UNCHANGED <<items, thread, registered, pc, deadline>>

\* wake_blocked, by the thread's identity: it wakes that thread from whatever it
\* is blocked in, and leaves one that is not blocked alone.
WakeBlocked(k) ==
    /\ at[k].pc = "wake"
    /\ pc' = [pc EXCEPT ![at[k].raw] =
                CASE @ = "blocked" -> "release" [] @ = "asleep" -> "look" [] OTHER -> @]
    /\ Advance(k, at[k].slot)
    /\ UNCHANGED <<items, thread, woken, registered, deadline>>

-----------------------------------------------------------------------------
WaiterStep(w) ==
    \/ Check(w) \/ Register(w) \/ CheckAgain(w) \/ BlockUntil(w) \/ SleepUntil(w)
    \/ TimerFires(w) \/ Release(w) \/ Look(w) \/ Decide(w)
WakerStep(k) == SkipWake(k) \/ WakeAll(k) \/ Flag(k) \/ WakeBlocked(k)

Next ==
    \/ \E w \in Waiters :
        \/ \E d \in {"none", "ahead"} : Begin(w, d)
        \/ WaiterStep(w) \/ Passes(w)
    \/ \E k \in Wakers : Change(k) \/ WakerStep(k)

\* A runnable thread is run and an interrupt handler finishes.  The queue's lock
\* is a ticket lock (SpinLock::lock), so a thread waiting for it gets it although
\* others take it in between: strong fairness where it is acquired.  Nothing
\* obliges anyone to call wait_until or to change the condition.
Fairness ==
    /\ \A w \in Waiters :
        /\ WF_vars(WaiterStep(w)) /\ SF_vars(Register(w)) /\ SF_vars(Release(w))
        /\ WF_vars(Passes(w))
    /\ \A k \in Wakers : WF_vars(WakerStep(k)) /\ SF_vars(WakeAll(k))

Spec == Init /\ [][Next]_vars
FairSpec == Spec /\ Fairness

-----------------------------------------------------------------------------
(* Properties. *)

\* A waker that has changed the condition and not yet come past slot s.
OnItsWay(k, s) ==
    \/ at[k].pc = "changed"
    \/ at[k].pc \in {"flag", "wake"} /\ at[k].slot <= s

\* No wake is lost: a thread blocked while its condition holds has a waker on its
\* way to its slot, whatever was checked, skipped and woken before.
NoLostWake ==
    \A w \in Waiters : pc[w] = "blocked" /\ items > 0 =>
        \E k \in Wakers : OnItsWay(k, SlotOf(w))

\* Every wait ends: a thread blocked with its condition true does not stay so,
\* and a wait whose deadline has passed returns, with or without what it waited
\* for, however contended the queue is and whether or not it had room.
EveryWaitEnds ==
    \A w \in Waiters :
        /\ (pc[w] = "blocked" /\ items > 0) ~> (pc[w] # "blocked" \/ items = 0)
        /\ (pc[w] # "out" /\ deadline[w] = "passed") ~> (pc[w] = "out")
=============================================================================
