--------------------------- MODULE WaitQueueProofs ---------------------------
(***************************************************************************)
(* NoLostWake of WaitQueue, for any number of waiters, wakers and slots.   *)
(*                                                                         *)
(* By itself it is not inductive: it says nothing of the thread that has   *)
(* looked twice and is about to block, whose waker may already have come   *)
(* past.  What saves that thread is the flag of its slot, and the flag is  *)
(* its own only because a slot in use has one holder, because has_waiters  *)
(* counts the slots in use, and because a waker inside wake_all holds the  *)
(* lock that register and release take.                                    *)
(***************************************************************************)
EXTENDS WaitQueue, FiniteSetTheorems, WellFoundedInduction, TLAPS

Places == {"out", "check", "register", "again", "block", "blocked", "full", "asleep",
           "found", "release", "look", "decide"}

\* Where wait_once has a slot: between register and release.
Holding == {"again", "block", "blocked", "found", "release"}

WakerPlaces ==
    [pc : {"out", "changed", "flag", "wake"}, slot : 0 .. WAITERS, raw : Waiters \cup {FREE}]

QueueType ==
    /\ items \in Nat
    /\ thread \in [Slots -> Waiters \cup {FREE}]
    /\ woken \in [Slots -> BOOLEAN]
    /\ lock \in Wakers \cup {FREE}
    /\ pc \in [Waiters -> Places]
    /\ deadline \in [Waiters -> {"none", "ahead", "passed"}]
    /\ at \in [Wakers -> WakerPlaces]

\* A thread holds one slot exactly while it is between register and release.
SlotsHeld ==
    /\ \A w \in Waiters : pc[w] \in Holding => \E s \in Slots : thread[s] = w
    /\ \A s \in Slots : thread[s] # FREE => pc[thread[s]] \in Holding
    /\ \A s, t \in Slots : thread[s] # FREE /\ thread[s] = thread[t] => s = t

InUse == {s \in Slots : thread[s] # FREE}

\* has_waiters says no only of a queue no slot of which is in use.
CountExact == registered = Cardinality(InUse)

\* The waker inside wake_all holds the lock; the thread it is about to wake is
\* still the one in the slot, and its flag is up.
LockHeld ==
    \A k \in Wakers :
        /\ at[k].pc \in {"flag", "wake"} => lock = k /\ at[k].slot \in Slots
        /\ at[k].pc = "wake" =>
               /\ at[k].raw = thread[at[k].slot] /\ at[k].raw # FREE
               /\ woken[at[k].slot]

\* A thread that blocks or is about to, while its condition holds: a waker is on
\* its way to its slot, or has been there before it blocked.
Wakeable ==
    \A w \in Waiters, s \in Slots :
        thread[s] = w /\ items > 0 /\ pc[w] \in {"block", "blocked"} =>
            \/ pc[w] = "block" /\ woken[s]
            \/ \E k \in Wakers : OnItsWay(k, s)

WaitInv == QueueType /\ SlotsHeld /\ CountExact /\ LockHeld /\ Wakeable

-----------------------------------------------------------------------------
(* The slots. *)

\* register finds the first free slot: a set of slots has a least one.
LEMMA LeastSlot ==
    ASSUME NEW free, free \subseteq Slots, free # {}
    PROVE  \E s \in free : \A t \in free : s <= t
<1>1. free \subseteq Nat
    BY WaitQueueAssumption DEF Slots
<1> DEFINE less == {p \in Nat \X Nat : p[1] < p[2]}
<1>2. less = OpToRel(<, Nat)
    BY Zenon DEF OpToRel
<1>3. PICK s \in free : \A t \in free : ~ (<<t, s>> \in less)
    <2>. HIDE DEF less
    <2>. QED BY <1>1, <1>2, NatLessThanWellFounded, WFMin, Zenon
<1>4. ASSUME NEW t \in free PROVE s <= t
    <2>1. <<t, s>> \in Nat \X Nat
        BY <1>1, Zenon
    <2>2. ~ (<<t, s>>[1] < <<t, s>>[2])
        BY <1>3, <2>1, Zenon
    <2>. QED BY <1>1, <2>2
<1>. QED BY <1>4, Zenon

\* The slot release gives back, and the one whose flag block_until reads, is the
\* one register gave the thread.
LEMMA SlotOfHolder ==
    ASSUME SlotsHeld, NEW s \in Slots, thread[s] # FREE
    PROVE  SlotOf(thread[s]) = s
BY Zenon DEF SlotsHeld, SlotOf

\* The slots in use are finitely many, so a count of them can be added to.
LEMMA InUseFinite == IsFiniteSet(InUse) /\ Cardinality(InUse) \in Nat
<1>1. IsFiniteSet(Slots)
    BY FS_Interval, WaitQueueAssumption DEF Slots
<1>. QED BY <1>1, FS_Subset, FS_CardinalityType, Zenon DEF InUse

LEMMA PlaceTypes ==
    /\ Outside("out") \in WakerPlaces /\ Outside("changed") \in WakerPlaces
    /\ \A s \in Slots : AtSlot(s) \in WakerPlaces
    /\ \A s \in Slots, w \in Waiters : [pc |-> "wake", slot |-> s, raw |-> w] \in WakerPlaces
BY WaitQueueAssumption DEF WakerPlaces, Outside, AtSlot, Slots

-----------------------------------------------------------------------------
(* The steps of a waiter. *)

\* A waiter that neither takes nor gives back a slot, and blocks only when its
\* flag is down or its condition does not hold, keeps the invariant.
LEMMA WaiterMoves ==
    ASSUME WaitInv, NEW w \in Waiters, NEW place \in Places, Goto(w, place),
           UNCHANGED queue, UNCHANGED at,
           deadline' \in [Waiters -> {"none", "ahead", "passed"}],
           items' \in Nat, items' > 0 => items > 0,
           place \in Holding <=> pc[w] \in Holding,
           place = "block" /\ items' > 0 => pc[w] = "block",
           place = "blocked" /\ items' > 0 =>
               \/ pc[w] = "blocked"
               \/ pc[w] = "block" /\ \A s \in Slots : thread[s] = w => ~ woken[s]
    PROVE  WaitInv'
<1>. USE DEF WaitInv, Goto, queue
<1>1. QueueType'
    BY Zenon DEF QueueType
<1>2. SlotsHeld'
    BY WaitQueueAssumption DEF SlotsHeld, QueueType
<1>3. CountExact'
    BY Zenon DEF CountExact, InUse
<1>4. LockHeld'
    BY Zenon DEF LockHeld
<1>5. Wakeable'
    BY Zenon DEF Wakeable, QueueType, OnItsWay
<1>. QED BY <1>1, <1>2, <1>3, <1>4, <1>5, Zenon

LEMMA RegisterKeeps ==
    ASSUME WaitInv, NEW w \in Waiters, Register(w)
    PROVE  WaitInv'
<1>. USE DEF WaitInv, Register, Goto, queue
<1> DEFINE free == {s \in Slots : thread[s] = FREE}
<1>1. CASE free = {}
    <2>1. /\ Goto(w, "full") /\ UNCHANGED queue /\ UNCHANGED <<items, deadline, at>>
          /\ pc[w] = "register"
          /\ items \in Nat /\ deadline \in [Waiters -> {"none", "ahead", "passed"}]
        BY <1>1, Zenon DEF QueueType
    <2>. HIDE DEF WaitInv, Register, Goto, queue
    <2>. QED BY <2>1, WaiterMoves, Zenon DEF Places, Holding
<1>2. CASE free # {}
    <2> DEFINE slot == CHOOSE s \in free : \A t \in free : s <= t
    <2>1. slot \in free
        BY <1>2, LeastSlot, Zenon
    <2>2. /\ woken' = [woken EXCEPT ![slot] = FALSE]
          /\ thread' = [thread EXCEPT ![slot] = w]
          /\ registered' = registered + 1
          /\ pc' = [pc EXCEPT ![w] = "again"]
          /\ lock = FREE /\ lock' = lock
          /\ UNCHANGED <<items, deadline, at>>
          /\ pc[w] = "register"
        BY <1>2, Zenon
    <2>. HIDE DEF slot, Register
    <2>3. QueueType'
        BY <2>1, <2>2, Zenon DEF QueueType, Places
    <2>4. SlotsHeld'
        BY <2>1, <2>2, WaitQueueAssumption DEF SlotsHeld, QueueType, Holding
    <2>5. InUse' = InUse \cup {slot} /\ slot \notin InUse
        BY <2>1, <2>2, WaitQueueAssumption DEF InUse, QueueType
    <2>6. CountExact'
        BY <2>2, <2>5, InUseFinite, FS_AddElement, Zenon DEF CountExact
    <2>7. LockHeld'
        BY <2>1, <2>2, WaitQueueAssumption, Zenon DEF LockHeld, QueueType
    <2>8. Wakeable'
        BY <2>1, <2>2, WaitQueueAssumption DEF Wakeable, QueueType, OnItsWay
    <2>. QED BY <2>3, <2>4, <2>6, <2>7, <2>8, Zenon
<1>. QED BY <1>1, <1>2, Zenon

LEMMA ReleaseKeeps ==
    ASSUME WaitInv, NEW w \in Waiters, Release(w)
    PROVE  WaitInv'
<1>. USE DEF WaitInv
<1>1. PICK s \in Slots : thread[s] = w
    BY Zenon DEF Release, SlotsHeld, Holding
<1>2. w # FREE /\ SlotOf(w) = s
    BY <1>1, SlotOfHolder, WaitQueueAssumption, Zenon
<1>3. PICK place \in {"out", "look"} : pc' = [pc EXCEPT ![w] = place]
    BY Zenon DEF Release, Goto
<1>4. /\ thread' = [thread EXCEPT ![s] = FREE]
      /\ registered' = registered - 1
      /\ lock = FREE
      /\ UNCHANGED <<items, woken, lock, deadline, at>>
    BY <1>2, Zenon DEF Release
<1>5. QueueType'
    BY <1>3, <1>4, Zenon DEF QueueType, Places
<1>6. SlotsHeld'
    BY <1>1, <1>2, <1>3, <1>4 DEF SlotsHeld, QueueType, Holding
<1>7. InUse' = InUse \ {s} /\ s \in InUse
    BY <1>1, <1>2, <1>4, Zenon DEF InUse, QueueType
<1>8. CountExact'
    BY <1>4, <1>7, InUseFinite, FS_RemoveElement, Zenon DEF CountExact
<1>9. LockHeld'
    BY <1>4, WaitQueueAssumption, Zenon DEF LockHeld, QueueType
<1>10. Wakeable'
    <2>. SUFFICES ASSUME NEW v \in Waiters, NEW t \in Slots, thread'[t] = v, items' > 0,
                         pc'[v] \in {"block", "blocked"}
                  PROVE  \/ pc'[v] = "block" /\ woken'[t]
                         \/ \E k \in Wakers : OnItsWay(k, t)'
        BY Zenon DEF Wakeable
    <2>1. v # w /\ thread[t] = v /\ pc'[v] = pc[v]
        BY <1>1, <1>2, <1>3, <1>4, WaitQueueAssumption, Zenon DEF QueueType
    <2>. QED BY <1>4, <2>1, Zenon DEF Wakeable, OnItsWay
<1>. QED BY <1>5, <1>6, <1>8, <1>9, <1>10, Zenon

LEMMA WaiterKeeps ==
    ASSUME WaitInv, NEW w \in Waiters,
           WaiterStep(w) \/ Passes(w) \/ \E d \in {"none", "ahead"} : Begin(w, d)
    PROVE  WaitInv'
<1>0. /\ items \in Nat /\ deadline \in [Waiters -> {"none", "ahead", "passed"}]
      /\ pc[w] \in Places /\ pc = [pc EXCEPT ![w] = pc[w]]
    BY Zenon DEF WaitInv, QueueType
<1>. USE <1>0 DEF Places, Holding
<1>1. CASE \E d \in {"none", "ahead"} : Begin(w, d)
    BY <1>1, WaiterMoves, Zenon DEF Begin
<1>2. CASE Passes(w)
    <2>1. Goto(w, pc[w])
        BY <1>2, Zenon DEF Passes, Goto
    <2>. QED BY <1>2, <2>1, WaiterMoves, Zenon DEF Passes
<1>3. CASE Check(w)
    BY <1>3, WaiterMoves DEF Check, Ready
<1>4. CASE CheckAgain(w)
    BY <1>4, WaiterMoves DEF CheckAgain, Ready
<1>5. CASE Look(w)
    BY <1>5, WaiterMoves DEF Look, Ready
<1>6. CASE Decide(w)
    BY <1>6, WaiterMoves, Zenon DEF Decide
<1>7. CASE SleepUntil(w)
    BY <1>7, WaiterMoves, Zenon DEF SleepUntil
<1>8. CASE TimerFires(w)
    BY <1>8, WaiterMoves, Zenon DEF TimerFires
<1>9. CASE BlockUntil(w)
    <2>1. \A s \in Slots : thread[s] = w => SlotOf(w) = s
        BY SlotOfHolder, WaitQueueAssumption, Zenon DEF WaitInv
    <2>2. CASE woken[SlotOf(w)] \/ deadline[w] = "passed"
        BY <1>9, <2>2, WaiterMoves, Zenon DEF BlockUntil
    <2>3. CASE ~ (woken[SlotOf(w)] \/ deadline[w] = "passed")
        <3>1. \A s \in Slots : thread[s] = w => ~ woken[s]
            BY <2>1, <2>3, Zenon
        <3>2. Goto(w, "blocked")
            BY <1>9, <2>3, Zenon DEF BlockUntil
        <3>. QED BY <1>9, <3>1, <3>2, WaiterMoves, Zenon DEF BlockUntil
    <2>. QED BY <2>2, <2>3, Zenon
<1>. QED
    BY <1>1, <1>2, <1>3, <1>4, <1>5, <1>6, <1>7, <1>8, <1>9, RegisterKeeps, ReleaseKeeps, Zenon
    DEF WaiterStep

-----------------------------------------------------------------------------
(* The steps of a waker. *)

\* A waker that makes the condition true owes the wake from then on, so every
\* thread that waits for it is about to be woken, or will look again.
LEMMA ChangeKeeps ==
    ASSUME WaitInv, NEW k \in Wakers, Change(k)
    PROVE  WaitInv'
<1>. USE DEF WaitInv, Change, Move, queue
<1>1. QueueType'
    BY PlaceTypes DEF QueueType
<1>. USE DEF Outside
<1>2. SlotsHeld' /\ CountExact'
    BY Zenon DEF SlotsHeld, CountExact, InUse
<1>3. LockHeld'
    BY Zenon DEF LockHeld, QueueType
<1>4. OnItsWay(k, 1)' /\ \A s \in Slots : OnItsWay(k, s)'
    BY Zenon DEF OnItsWay, QueueType
<1>5. Wakeable'
    BY <1>4, Zenon DEF Wakeable
<1>. QED BY <1>1, <1>2, <1>3, <1>5, Zenon

LEMMA SkipWakeKeeps ==
    ASSUME WaitInv, NEW k \in Wakers, SkipWake(k)
    PROVE  WaitInv'
<1>. USE DEF WaitInv, SkipWake, Move, queue
<1>1. QueueType'
    BY PlaceTypes, Zenon DEF QueueType
<1>. USE DEF Outside
<1>2. SlotsHeld' /\ CountExact'
    BY Zenon DEF SlotsHeld, CountExact, InUse
<1>3. LockHeld'
    BY Zenon DEF LockHeld, QueueType
<1>4. InUse = {}
    BY InUseFinite, FS_EmptySet, Zenon DEF CountExact
<1>5. Wakeable'
    BY <1>4, WaitQueueAssumption, Zenon DEF Wakeable, InUse
<1>. QED BY <1>1, <1>2, <1>3, <1>5, Zenon

LEMMA WakeAllKeeps ==
    ASSUME WaitInv, NEW k \in Wakers, WakeAll(k)
    PROVE  WaitInv'
<1>. USE DEF WaitInv, WakeAll, Move
<1>1. QueueType'
    <2>1. 1 \in Slots
        BY WaitQueueAssumption DEF Slots
    <2>. QED BY <2>1, PlaceTypes, Zenon DEF QueueType
<1>. USE DEF AtSlot
<1>2. SlotsHeld' /\ CountExact'
    BY Zenon DEF SlotsHeld, CountExact, InUse
<1>3. LockHeld'
    BY WaitQueueAssumption DEF LockHeld, QueueType, Slots
<1>4. \A s \in Slots : OnItsWay(k, s)'
    BY WaitQueueAssumption DEF OnItsWay, QueueType, Slots
<1>5. Wakeable'
    BY <1>4, Zenon DEF Wakeable
<1>. QED BY <1>1, <1>2, <1>3, <1>5, Zenon

\* Passing slot s by, to the next one or out of the lock, with nobody waiting
\* there who could still block, and the flags no lower than they were.
LEMMA AdvanceKeeps ==
    ASSUME WaitInv, NEW k \in Wakers, at[k].pc \in {"flag", "wake"},
           Advance(k, at[k].slot), UNCHANGED <<items, thread, registered, deadline>>,
           woken' = woken, pc' \in [Waiters -> Places],
           \A w \in Waiters : \/ pc'[w] = pc[w]
                              \/ pc[w] = "blocked" /\ pc'[w] = "release"
                              \/ pc[w] \notin Holding /\ pc'[w] \notin Holding,
           thread[at[k].slot] # FREE =>
               pc'[thread[at[k].slot]] # "blocked" /\ woken[at[k].slot]
    PROVE  WaitInv'
<1>. USE DEF WaitInv, Advance, Move
<1> DEFINE here == at[k].slot
<1>1. here \in Slots /\ lock = k
    BY Zenon DEF LockHeld
<1>2. QueueType'
    <2>1. here # WAITERS => here + 1 \in Slots
        BY <1>1, WaitQueueAssumption DEF Slots
    <2>. QED BY <2>1, PlaceTypes DEF QueueType
<1>. USE DEF AtSlot, Outside
<1>3. SlotsHeld'
    BY DEF SlotsHeld, QueueType, Holding
<1>4. CountExact'
    BY Zenon DEF CountExact, InUse
<1>5. \A j \in Wakers : j # k => at[j].pc \notin {"flag", "wake"} /\ at'[j] = at[j]
    BY <1>1 DEF LockHeld, QueueType
<1>6. LockHeld'
    BY <1>1, <1>5, WaitQueueAssumption DEF LockHeld, QueueType, Slots
<1>7. Wakeable'
    <2>. SUFFICES ASSUME NEW w \in Waiters, NEW t \in Slots, thread'[t] = w, items' > 0,
                         pc'[w] \in {"block", "blocked"}
                  PROVE  \/ pc'[w] = "block" /\ woken'[t]
                         \/ \E j \in Wakers : OnItsWay(j, t)'
        BY Zenon DEF Wakeable
    <2>1. pc'[w] = pc[w]
        BY WaitQueueAssumption, Zenon DEF SlotsHeld, QueueType, Holding
    <2>2. CASE t = here
        BY <2>1, <2>2, WaitQueueAssumption, Zenon
    <2>3. CASE t # here
        <3>1. CASE pc[w] = "block" /\ woken[t]
            BY <2>1, <3>1, Zenon
        <3>2. CASE \E j \in Wakers : OnItsWay(j, t)
            <4>1. PICK j \in Wakers : OnItsWay(j, t)
                BY <3>2, Zenon
            <4>2. CASE j # k
                BY <1>5, <4>1, <4>2, Zenon DEF OnItsWay
            <4>3. CASE j = k
                <5>1. here < t
                    BY <1>1, <2>3, <4>1, <4>3 DEF OnItsWay, Slots
                <5>2. at'[k] = AtSlot(here + 1) /\ here + 1 <= t
                    BY <1>1, <5>1, WaitQueueAssumption DEF QueueType, Slots
                <5>. QED BY <5>2 DEF OnItsWay
            <4>. QED BY <4>2, <4>3, Zenon
        <3>. QED BY <2>1, <3>1, <3>2, Zenon DEF Wakeable
    <2>. QED BY <2>2, <2>3, Zenon
<1>. QED BY <1>2, <1>3, <1>4, <1>6, <1>7, Zenon

LEMMA FlagKeeps ==
    ASSUME WaitInv, NEW k \in Wakers, Flag(k)
    PROVE  WaitInv'
<1> DEFINE here == at[k].slot
<1>1. here \in Slots /\ lock = k /\ at[k].pc = "flag"
    BY Zenon DEF WaitInv, LockHeld, Flag
<1>2. CASE thread[here] = FREE
    <2>1. /\ Advance(k, here) /\ woken' = woken
          /\ UNCHANGED <<items, thread, registered, pc, deadline>>
        BY <1>2, Zenon DEF Flag
    <2>2. pc' \in [Waiters -> Places] /\ \A w \in Waiters : pc'[w] = pc[w]
        BY <2>1, Zenon DEF WaitInv, QueueType
    <2>3. at[k].pc \in {"flag", "wake"} /\ UNCHANGED <<items, thread, registered, deadline>>
        BY <1>1, <2>1, Zenon
    <2>. QED BY <1>2, <2>1, <2>2, <2>3, AdvanceKeeps, Zenon
<1>3. CASE thread[here] # FREE
    <2> DEFINE found == [pc |-> "wake", slot |-> here, raw |-> thread[here]]
    <2>1. /\ woken' = [woken EXCEPT ![here] = TRUE]
          /\ at' = [at EXCEPT ![k] = found]
          /\ UNCHANGED <<lock, items, thread, registered, pc, deadline>>
        BY <1>3, Zenon DEF Flag, Move
    <2>2. thread[here] \in Waiters
        BY <1>1, <1>3, Zenon DEF WaitInv, QueueType
    <2>3. QueueType'
        <3>1. found \in WakerPlaces
            BY <1>1, <2>2, PlaceTypes, Zenon
        <3>. HIDE DEF found
        <3>. QED BY <2>1, <3>1, Zenon DEF WaitInv, QueueType
    <2>4. SlotsHeld' /\ CountExact'
        BY <2>1, Zenon DEF WaitInv, SlotsHeld, CountExact, InUse
    <2>5. \A j \in Wakers : j # k => at[j].pc \notin {"flag", "wake"} /\ at'[j] = at[j]
        BY <1>1, <2>1, Zenon DEF WaitInv, LockHeld, QueueType
    <2>6. at'[k] = found
        BY <2>1, Zenon DEF WaitInv, QueueType
    <2>7. LockHeld'
        BY <1>1, <1>3, <2>1, <2>5, <2>6 DEF WaitInv, LockHeld, QueueType
    <2>8. \A j \in Wakers, s \in Slots : OnItsWay(j, s) => OnItsWay(j, s)'
        BY <1>1, <2>5, <2>6 DEF OnItsWay
    <2>9. \A s \in Slots : woken[s] => woken'[s]
        BY <1>1, <2>1, Zenon DEF WaitInv, QueueType
    <2>10. Wakeable'
        BY <2>1, <2>8, <2>9, Zenon DEF WaitInv, Wakeable
    <2>. QED BY <2>3, <2>4, <2>7, <2>10, Zenon DEF WaitInv
<1>. QED BY <1>2, <1>3, Zenon

LEMMA WakeBlockedKeeps ==
    ASSUME WaitInv, NEW k \in Wakers, WakeBlocked(k)
    PROVE  WaitInv'
<1> DEFINE here == at[k].slot
           found == at[k].raw
<1>1. /\ here \in Slots /\ lock = k /\ at[k].pc = "wake"
      /\ found = thread[here] /\ found # FREE /\ woken[here]
    BY Zenon DEF WaitInv, LockHeld, WakeBlocked
<1>2. found \in Waiters
    BY <1>1, Zenon DEF WaitInv, QueueType
<1>3. PICK place : /\ pc' = [pc EXCEPT ![found] = place]
                   /\ place = CASE pc[found] = "blocked" -> "release"
                                [] pc[found] = "asleep" -> "look" [] OTHER -> pc[found]
    BY Zenon DEF WakeBlocked
<1>4. /\ pc[found] = "blocked" => place = "release"
      /\ pc[found] = "asleep" => place = "look"
      /\ pc[found] \notin {"blocked", "asleep"} => place = pc[found]
    BY <1>3, Zenon
<1>5. pc' \in [Waiters -> Places]
    BY <1>2, <1>3, <1>4, Zenon DEF WaitInv, QueueType, Places
<1>6. \A w \in Waiters : \/ pc'[w] = pc[w]
                         \/ pc[w] = "blocked" /\ pc'[w] = "release"
                         \/ pc[w] \notin Holding /\ pc'[w] \notin Holding
    BY <1>2, <1>3, <1>4, Zenon DEF WaitInv, QueueType, Holding
<1>7. pc'[found] # "blocked"
    BY <1>2, <1>3, <1>4, Zenon DEF WaitInv, QueueType
<1>8. Advance(k, here) /\ UNCHANGED <<items, thread, woken, registered, deadline>>
    BY Zenon DEF WakeBlocked
<1>. QED BY <1>1, <1>5, <1>6, <1>7, <1>8, AdvanceKeeps, Zenon

-----------------------------------------------------------------------------
(* The theorem. *)

LEMMA WaitInvInitial == Init => WaitInv
<1>. SUFFICES ASSUME Init PROVE WaitInv
    BY Zenon
<1>. USE DEF Init
<1>1. at \in [Wakers -> WakerPlaces]
    BY PlaceTypes, Zenon
<1>2. QueueType
    BY <1>1, Zenon DEF QueueType, Places
<1>3. SlotsHeld /\ Wakeable
    BY Zenon DEF SlotsHeld, Wakeable, Holding
<1>4. InUse = {}
    BY Zenon DEF InUse
<1>5. CountExact
    BY <1>4, FS_EmptySet, Zenon DEF CountExact
<1>6. LockHeld
    BY Zenon DEF LockHeld, Outside
<1>. QED BY <1>2, <1>3, <1>5, <1>6, Zenon DEF WaitInv

LEMMA WaitInvPreserved == WaitInv /\ [Next]_vars => WaitInv'
<1>. SUFFICES ASSUME WaitInv, [Next]_vars PROVE WaitInv'
    BY Zenon
<1>1. ASSUME NEW k \in Wakers, Change(k) \/ WakerStep(k) PROVE WaitInv'
    BY <1>1, ChangeKeeps, SkipWakeKeeps, WakeAllKeeps, FlagKeeps, WakeBlockedKeeps, Zenon DEF WakerStep
<1>2. CASE UNCHANGED vars
    BY <1>2 DEF vars, WaitInv, QueueType, SlotsHeld, CountExact, InUse, LockHeld, Wakeable, OnItsWay
<1>. QED BY <1>1, <1>2, WaiterKeeps, Zenon DEF Next

\* No wake is lost, however many threads wait and wake and however few slots
\* the queue has: wait_until's second look at the condition, after register and
\* before block_until, closes the window between the first look and the block.
THEOREM WakesNeverLost == Spec => []NoLostWake
<1>1. WaitInv => NoLostWake
    <2>. SUFFICES ASSUME WaitInv, NEW w \in Waiters, pc[w] = "blocked", items > 0
                  PROVE  \E k \in Wakers : OnItsWay(k, SlotOf(w))
        BY Zenon DEF NoLostWake
    <2>1. PICK s \in Slots : thread[s] = w
        BY Zenon DEF WaitInv, SlotsHeld, Holding
    <2>2. SlotOf(w) = s
        BY <2>1, SlotOfHolder, WaitQueueAssumption, Zenon DEF WaitInv
    <2>. QED BY <2>1, <2>2, Zenon DEF WaitInv, Wakeable
<1>. QED BY <1>1, WaitInvInitial, WaitInvPreserved, PTL DEF Spec
=============================================================================
