-------------------------- MODULE ObjectWaitsProofs --------------------------
(***************************************************************************)
(* No wait on a kernel object misses what happened to it, for any number   *)
(* of waiting threads and of threads that change the objects, any set of   *)
(* scenes and any depth of the completion queue.                           *)
(*                                                                         *)
(* A look at an object and the block that follows it are one step, so a    *)
(* thread blocks only on an object that has nothing for it; what remains   *)
(* is that a change leaves its actor at a step that wakes the object's     *)
(* queue.  The invariant says which: an actor that signalled wakes an      *)
(* event's queue only while the event is not retired, so a retired event   *)
(* needs its destroyer; and a posted exit still returns to the wake of the *)
(* process's queue.                                                        *)
(***************************************************************************)
EXTENDS ObjectWaits, TLAPS

Places == {"out", "attempt", "plan", "wait", "blocked"}

Steps == {"idle", "signal", "signal wake", "destroy", "destroy wake", "post", "post ring",
          "post wake", "exit", "exit wake", "timer wake"}

Timers == [deadline : Nat, period : Nat, fires : Nat]

WaitsTypeOK ==
    /\ event \in [signalled : BOOLEAN, retired : BOOLEAN]
    /\ process \in [exited : BOOLEAN, waiter : BOOLEAN]
    /\ ring \in Seq(Nat)
    /\ timer \in Timers
    /\ now \in Nat
    /\ pc \in [Waiters -> Places]
    /\ soonest \in [Waiters -> Nat]
    /\ op \in [Actors -> [step : Steps, then : {"idle", "exit wake"}]]

\* Only a post under way has somewhere else to return to.
PostsReturn ==
    \A a \in Actors : op[a].then = "exit wake" => op[a].step \in {"post", "post ring", "post wake"}

\* A retired event is woken for by whoever destroys it, a signal by whoever
\* signalled: the latter finds no queue once the event is retired.
RetiredIsWoken ==
    Blocked(EventWaiters) /\ event.retired => OnItsWay({"destroy", "destroy wake"})
SignalIsWoken ==
    Blocked(EventWaiters) /\ event.signalled /\ ~event.retired => OnItsWay({"signal wake"})

WaitsInv ==
    /\ WaitsTypeOK /\ PostsReturn
    /\ RetiredIsWoken /\ SignalIsWoken
    /\ ProcessWaitSeesExit /\ CompletionWaitSeesPost /\ PollSeesDestroyed

-----------------------------------------------------------------------------
(* Who is blocked after a wake, and what a delivery does. *)

\* wake_all leaves blocked the blocked threads of the other queues.
LEMMA WokenFacts ==
    ASSUME pc \in [Waiters -> Places], NEW queued
    PROVE  /\ Woken(queued) \in [Waiters -> Places]
           /\ \A v \in Waiters : Woken(queued)[v] = "blocked" <=> pc[v] = "blocked" /\ v \notin queued
  BY DEF Woken, Places

\* A step that wakes some queues and moves one thread blocks no other thread.
LEMMA GoToFacts ==
    ASSUME pc \in [Waiters -> Places], NEW queued, NEW w \in Waiters, NEW place \in Places,
           GoTo(w, place, queued)
    PROVE  /\ pc' \in [Waiters -> Places]
           /\ pc'[w] = place
           /\ \A v \in Waiters \ {w} : pc'[v] = "blocked" => pc[v] = "blocked" /\ v \notin queued
<1>1. Woken(queued) \in [Waiters -> Places]
  BY WokenFacts
<1>2. /\ pc' \in [Waiters -> Places]
      /\ pc'[w] = place
      /\ \A v \in Waiters \ {w} : pc'[v] = Woken(queued)[v]
  BY <1>1 DEF GoTo
<1> QED
  BY <1>2, WokenFacts

\* deliver_due_timers leaves the queue as it was, or wakes its waiters.
LEMMA DeliveredFacts ==
    ASSUME WaitsTypeOK
    PROVE  /\ Delivered.ring \in Seq(Nat)
           /\ Delivered.timer \in Timers
           /\ Delivered.next \in Nat
           /\ ring # << >> => Delivered.ring # << >>
           /\ Delivered.ring = ring \/ QueueWaiters \subseteq Delivered.woke
<1>1. DISARMED \in Nat /\ Never \in Nat
  BY ObjectWaitsAssumption DEF DISARMED, Never
<1>2. /\ ring \in Seq(Nat) /\ timer \in Timers /\ now \in Nat
      /\ timer.deadline \in Nat /\ timer.period \in Nat /\ timer.fires \in Nat
  BY ZenonT(40) DEF WaitsTypeOK, Timers
<1> DEFINE expirations == IF timer.period = 0 THEN 1
                          ELSE (now - timer.deadline) \div timer.period + 1
           deadline == IF timer.period = 0 THEN DISARMED
                       ELSE timer.deadline + expirations * timer.period
<1>3. CASE timer.deadline > now
  BY <1>2, <1>3 DEF Delivered
<1>4. CASE ~(timer.deadline > now) /\ Len(ring) >= QUEUE_DEPTH
  BY <1>1, <1>2, <1>4 DEF Delivered
<1>5. CASE ~(timer.deadline > now) /\ ~(Len(ring) >= QUEUE_DEPTH)
  <2>1. expirations \in Nat
    <3>1. CASE timer.period = 0
      BY <3>1
    <3>2. CASE timer.period # 0
      <4>1. now - timer.deadline \in Nat /\ timer.period \in Nat \ {0}
        BY <1>2, <1>5, <3>2
      <4> HIDE <1>5
      <4>2. \A x \in Nat, y \in Nat \ {0} : x \div y \in Nat
        OBVIOUS
      <4> QED
        BY <3>2, <4>1, <4>2
    <3> QED
      BY <3>1, <3>2
  <2>2. deadline \in Nat
    <3>1. \A x, y, z \in Nat : x + y * z \in Nat
      OBVIOUS
    <3> QED
      BY <1>1, <1>2, <2>1, <3>1, ZenonT(40)
  <2>3. Delivered = [ring |-> Append(ring, expirations),
                     timer |-> [timer EXCEPT !.deadline = deadline, !.fires = @ + expirations],
                     woke |-> PollWaiters \cup QueueWaiters, next |-> deadline]
    BY <1>5 DEF Delivered
  <2>4. [timer EXCEPT !.deadline = deadline, !.fires = @ + expirations] \in Timers
    <3>1. timer.fires + expirations \in Nat
      <4> HIDE DEF expirations
      <4> QED
        BY <1>2, <2>1
    <3> HIDE DEF expirations, deadline
    <3>2. PICK mid : mid = [timer EXCEPT !.deadline = deadline]
      BY Zenon
    <3>3. mid \in Timers /\ mid.fires = timer.fires
      BY <1>2, <2>2, <3>2 DEF Timers
    <3>4. [mid EXCEPT !.fires = timer.fires + expirations] \in Timers
      BY <3>1, <3>3 DEF Timers
    <3> QED
      BY <3>2, <3>4
  <2>5. Append(ring, expirations) \in Seq(Nat) /\ Append(ring, expirations) # << >>
    <3> HIDE DEF expirations
    <3> QED
      BY <1>2, <2>1
  <2> HIDE DEF expirations, deadline
  <2> QED
    BY <2>2, <2>3, <2>4, <2>5, Zenon
<1> QED
  BY <1>3, <1>4, <1>5

-----------------------------------------------------------------------------
(* The steps of the waiting threads. *)

\* A thread blocks only on an object that has nothing for it: if afterwards a
\* blocked thread has something to see, one did before.
Quiet ==
    /\ Blocked(EventWaiters)' /\ event'.retired => Blocked(EventWaiters) /\ event.retired
    /\ Blocked(EventWaiters)' /\ event'.signalled /\ ~event'.retired =>
           Blocked(EventWaiters) /\ event.signalled /\ ~event.retired
    /\ Blocked(ProcessWaiters)' /\ process'.exited => Blocked(ProcessWaiters) /\ process.exited
    /\ Blocked(QueueWaiters)' /\ ring' # << >> => Blocked(QueueWaiters) /\ ring # << >>
    /\ Blocked(PollWaiters)' /\ event'.retired => Blocked(PollWaiters) /\ event.retired

LEMMA QuietKeeps ==
    ASSUME WaitsInv, WaitsTypeOK', Quiet, op' = op
    PROVE  WaitsInv'
<1>1. \A steps : OnItsWay(steps)' <=> OnItsWay(steps)
  BY DEF OnItsWay
<1>2. PostsReturn'
  BY ZenonT(40) DEF WaitsInv, PostsReturn
<1>3. RetiredIsWoken' /\ SignalIsWoken'
  BY <1>1, Zenon DEF WaitsInv, Quiet, RetiredIsWoken, SignalIsWoken
<1>4. ProcessWaitSeesExit'
  BY <1>1, Zenon DEF WaitsInv, Quiet, ProcessWaitSeesExit
<1>5. CompletionWaitSeesPost' /\ PollSeesDestroyed'
  BY <1>1, Zenon DEF WaitsInv, Quiet, CompletionWaitSeesPost, PollSeesDestroyed
<1> QED
  BY <1>2, <1>3, <1>4, <1>5 DEF WaitsInv

\* No thread of a queue is newly blocked by a step of a thread of another.
LEMMA OthersStay ==
    ASSUME NEW w \in Waiters, NEW queue \in SUBSET Waiters, w \notin queue,
           \A v \in Waiters \ {w} : pc'[v] = "blocked" => pc[v] = "blocked"
    PROVE  Blocked(queue)' => Blocked(queue)
  BY DEF Blocked

LEMMA EventLook ==
    ASSUME WaitsInv, NEW w \in Waiters, NEW next \in Places, AttemptEvent(w, next),
           UNCHANGED <<now, soonest, op>>
    PROVE  WaitsTypeOK' /\ Quiet
<1>1. /\ w \in EventWaiters
      /\ w \notin QueueWaiters /\ w \notin ProcessWaiters /\ w \notin PollWaiters
  BY ObjectWaitsAssumption DEF AttemptEvent
<1>2. WaitsTypeOK
  BY DEF WaitsInv
<1> DEFINE place == IF event.retired \/ event.signalled THEN "out" ELSE next
<1>3. GoTo(w, place, {}) /\ place \in Places
  BY DEF AttemptEvent, Places
<1>4. /\ pc' \in [Waiters -> Places]
      /\ pc'[w] = place
      /\ \A v \in Waiters \ {w} : pc'[v] = "blocked" => pc[v] = "blocked"
  <2>1. PICK there \in Places : there = place /\ GoTo(w, there, {})
    BY <1>3, Zenon
  <2>2. pc \in [Waiters -> Places]
    BY <1>2, Zenon DEF WaitsTypeOK
  <2>3. /\ pc' \in [Waiters -> Places]
        /\ pc'[w] = there
        /\ \A v \in Waiters \ {w} : pc'[v] = "blocked" => pc[v] = "blocked"
    BY <2>1, <2>2, GoToFacts, Zenon
  <2> QED
    BY <2>1, <2>3, Zenon
<1>5. /\ event' \in [signalled : BOOLEAN, retired : BOOLEAN]
      /\ event'.retired = event.retired
      /\ ~event.retired => ~event'.signalled
  BY <1>2, ZenonT(40) DEF WaitsTypeOK, AttemptEvent
<1>6. WaitsTypeOK'
  BY <1>2, <1>4, <1>5, Zenon DEF WaitsTypeOK, AttemptEvent
<1>7. /\ Blocked(ProcessWaiters)' => Blocked(ProcessWaiters)
      /\ Blocked(QueueWaiters)' => Blocked(QueueWaiters)
      /\ Blocked(PollWaiters)' => Blocked(PollWaiters)
  BY <1>1, <1>4, OthersStay, Zenon DEF Waiters
<1>8. Blocked(EventWaiters)' /\ event.retired => Blocked(EventWaiters)
  BY <1>4 DEF Blocked, Waiters
<1> QED
  BY <1>5, <1>6, <1>7, <1>8, Zenon DEF Quiet, AttemptEvent

LEMMA ProcessLook ==
    ASSUME WaitsInv, NEW w \in Waiters, NEW next \in Places, AttemptProcess(w, next),
           UNCHANGED <<now, soonest, op>>
    PROVE  WaitsTypeOK' /\ Quiet
<1>1. /\ w \in ProcessWaiters
      /\ w \notin QueueWaiters /\ w \notin EventWaiters /\ w \notin PollWaiters
  BY ObjectWaitsAssumption DEF AttemptProcess
<1>2. WaitsTypeOK
  BY DEF WaitsInv
<1> DEFINE place == IF process.exited THEN "out" ELSE next
<1>3. GoTo(w, place, {}) /\ place \in Places
  BY DEF AttemptProcess, Places
<1>4. /\ pc' \in [Waiters -> Places]
      /\ pc'[w] = place
      /\ \A v \in Waiters \ {w} : pc'[v] = "blocked" => pc[v] = "blocked"
  <2>1. PICK there \in Places : there = place /\ GoTo(w, there, {})
    BY <1>3, Zenon
  <2>2. pc \in [Waiters -> Places]
    BY <1>2, Zenon DEF WaitsTypeOK
  <2>3. /\ pc' \in [Waiters -> Places]
        /\ pc'[w] = there
        /\ \A v \in Waiters \ {w} : pc'[v] = "blocked" => pc[v] = "blocked"
    BY <2>1, <2>2, GoToFacts, Zenon
  <2> QED
    BY <2>1, <2>3, Zenon
<1>5. UNCHANGED objects
  BY DEF AttemptProcess
<1>6. WaitsTypeOK'
  BY <1>2, <1>4, <1>5, Zenon DEF WaitsTypeOK, objects
<1>7. /\ Blocked(EventWaiters)' => Blocked(EventWaiters)
      /\ Blocked(QueueWaiters)' => Blocked(QueueWaiters)
      /\ Blocked(PollWaiters)' => Blocked(PollWaiters)
  BY <1>1, <1>4, OthersStay, Zenon DEF Waiters
<1>8. Blocked(ProcessWaiters)' /\ process.exited => Blocked(ProcessWaiters)
  BY <1>4 DEF Blocked, Waiters
<1> QED
  BY <1>5, <1>6, <1>7, <1>8, Zenon DEF Quiet, objects

LEMMA QueueLook ==
    ASSUME WaitsInv, NEW w \in Waiters, NEW next \in Places, AttemptQueue(w, next),
           UNCHANGED <<now, soonest, op>>
    PROVE  WaitsTypeOK' /\ Quiet
<1>1. /\ w \in QueueWaiters
      /\ w \notin ProcessWaiters /\ w \notin EventWaiters /\ w \notin PollWaiters
  BY ObjectWaitsAssumption DEF AttemptQueue
<1>2. WaitsTypeOK
  BY DEF WaitsInv
<1>3. PICK woke : woke = Delivered.woke
  OBVIOUS
<1>4. PICK found : found = Delivered.ring
  OBVIOUS
<1>5. /\ found \in Seq(Nat) /\ Delivered.timer \in Timers
      /\ ring # << >> => found # << >>
      /\ found = ring \/ QueueWaiters \subseteq woke
  BY <1>2, <1>3, <1>4, DeliveredFacts, Zenon
<1>6. /\ ring' \in Seq(Nat)
      /\ found # << >> => ring' = Tail(found) /\ GoTo(w, "out", woke)
      /\ found = << >> => ring' = ring /\ GoTo(w, next, woke)
  <2>1. IF found # << >> THEN ring' = Tail(found) /\ GoTo(w, "out", woke)
        ELSE ring' = ring /\ GoTo(w, next, woke)
    BY <1>3, <1>4, Zenon DEF AttemptQueue, Take
  <2>2. found # << >> => Tail(found) \in Seq(Nat)
    BY <1>5
  <2>3. ring \in Seq(Nat)
    BY <1>2, Zenon DEF WaitsTypeOK
  <2> QED
    BY <2>1, <2>2, <2>3, Zenon
<1>7. /\ pc' \in [Waiters -> Places]
      /\ found # << >> => pc'[w] = "out"
      /\ \A v \in Waiters \ {w} : pc'[v] = "blocked" => pc[v] = "blocked" /\ v \notin woke
  <2>1. CASE found # << >>
    BY <1>2, <1>6, <2>1, GoToFacts, ZenonT(40) DEF WaitsTypeOK, Places
  <2>2. CASE found = << >>
    BY <1>2, <1>6, <2>2, GoToFacts, ZenonT(40) DEF WaitsTypeOK
  <2> QED
    BY <2>1, <2>2
<1>8. WaitsTypeOK'
  BY <1>2, <1>5, <1>6, <1>7, Zenon DEF WaitsTypeOK, AttemptQueue
<1>9. /\ Blocked(EventWaiters)' => Blocked(EventWaiters)
      /\ Blocked(ProcessWaiters)' => Blocked(ProcessWaiters)
      /\ Blocked(PollWaiters)' => Blocked(PollWaiters)
  BY <1>1, <1>7, OthersStay, Zenon DEF Waiters
<1>10. ASSUME Blocked(QueueWaiters)', ring' # << >>
       PROVE  Blocked(QueueWaiters) /\ ring # << >>
  <2>1. PICK v \in QueueWaiters : pc'[v] = "blocked"
    BY <1>10 DEF Blocked
  <2>2. CASE found = << >>
    BY <1>5, <1>6, <1>10, <2>2
  <2>3. CASE found # << >>
    <3>1. v # w
      BY <1>7, <2>1, <2>3
    <3>2. pc[v] = "blocked" /\ v \notin woke
      BY <1>7, <2>1, <3>1 DEF Waiters
    <3>3. found = ring
      BY <1>5, <2>1, <3>2
    <3> QED
      BY <2>1, <2>3, <3>2, <3>3 DEF Blocked
  <2> QED
    BY <2>2, <2>3
<1> QED
  BY <1>8, <1>9, <1>10, Zenon DEF Quiet, AttemptQueue

LEMMA SetLook ==
    ASSUME WaitsInv, NEW w \in Waiters, NEW next \in Places, AttemptSet(w, next),
           UNCHANGED <<now, soonest, op>>
    PROVE  WaitsTypeOK' /\ Quiet
<1>1. /\ w \in PollWaiters
      /\ w \notin ProcessWaiters /\ w \notin EventWaiters /\ w \notin QueueWaiters
  BY ObjectWaitsAssumption DEF AttemptSet
<1>2. WaitsTypeOK
  BY DEF WaitsInv
<1>3. PICK woke : woke = Delivered.woke
  OBVIOUS
<1>4. /\ ring' \in Seq(Nat) /\ timer' \in Timers
      /\ ring' = ring \/ QueueWaiters \subseteq woke
  BY <1>2, <1>3, DeliveredFacts, Zenon DEF AttemptSet
<1>5. PICK place \in Places : GoTo(w, place, woke) /\ (event.retired => place = "out")
  <2> DEFINE ready == event.retired \/ event.signalled \/ process.exited \/ Delivered.ring # << >>
             there == IF ready THEN "out" ELSE next
  <2>1. GoTo(w, there, woke)
    BY <1>3, Zenon DEF AttemptSet
  <2>2. there \in Places /\ (event.retired => there = "out")
    BY DEF Places
  <2> QED
    BY <2>1, <2>2
<1>6. /\ pc' \in [Waiters -> Places]
      /\ pc'[w] = place
      /\ \A v \in Waiters \ {w} : pc'[v] = "blocked" => pc[v] = "blocked" /\ v \notin woke
  BY <1>2, <1>5, GoToFacts, ZenonT(40) DEF WaitsTypeOK
<1>7. WaitsTypeOK'
  BY <1>2, <1>4, <1>6, Zenon DEF WaitsTypeOK, AttemptSet
<1>8. /\ Blocked(EventWaiters)' => Blocked(EventWaiters)
      /\ Blocked(ProcessWaiters)' => Blocked(ProcessWaiters)
  BY <1>1, <1>6, OthersStay, Zenon DEF Waiters
<1>9. Blocked(QueueWaiters)' => Blocked(QueueWaiters) /\ ring' = ring
  BY <1>1, <1>4, <1>6 DEF Blocked, Waiters
<1>10. Blocked(PollWaiters)' /\ event.retired => Blocked(PollWaiters)
  BY <1>5, <1>6 DEF Blocked, Waiters
<1> QED
  BY <1>7, <1>8, <1>9, <1>10, Zenon DEF Quiet, AttemptSet

\* A step that changes no object and blocks nobody.
LEMMA NobodyBlocks ==
    ASSUME WaitsTypeOK', UNCHANGED objects,
           \A v \in Waiters : pc'[v] = "blocked" => pc[v] = "blocked"
    PROVE  Quiet
  BY DEF Quiet, Blocked, Waiters, objects

LEMMA WaiterKeeps ==
    ASSUME WaitsInv, NEW w \in Waiters,
           Begin(w) \/ TryNow(w) \/ Plan(w) \/ WaitOnce(w) \/ Expires(w)
    PROVE  WaitsInv'
<1>1. WaitsTypeOK
  BY DEF WaitsInv
<1>2. ASSUME NEW next \in Places, Attempt(w, next), UNCHANGED <<now, soonest, op>>
      PROVE  WaitsInv'
  BY <1>2, EventLook, ProcessLook, QueueLook, SetLook, QuietKeeps, Zenon DEF Attempt
<1>3. CASE TryNow(w)
  BY <1>2, <1>3 DEF TryNow, Places
<1>4. CASE WaitOnce(w)
  <2> DEFINE next == IF soonest[w] <= now THEN "attempt" ELSE "blocked"
  <2>1. next \in Places
    BY DEF Places
  <2>2. Attempt(w, next) /\ UNCHANGED <<now, soonest, op>>
    BY <1>4 DEF WaitOnce
  <2> HIDE DEF next
  <2> QED
    BY <1>2, <2>1, <2>2
<1>5. CASE Begin(w) \/ Expires(w)
  <2>1. GoTo(w, "attempt", {}) /\ UNCHANGED <<now, soonest, op>> /\ UNCHANGED objects
    BY <1>5 DEF Begin, Expires
  <2>2. /\ pc' \in [Waiters -> Places]
        /\ pc'[w] = "attempt"
        /\ \A v \in Waiters \ {w} : pc'[v] = "blocked" => pc[v] = "blocked"
    <3>1. "attempt" \in Places /\ pc \in [Waiters -> Places]
      BY <1>1, ZenonT(40) DEF WaitsTypeOK, Places
    <3> QED
      BY <2>1, <3>1, GoToFacts, Zenon
  <2>3. WaitsTypeOK'
    BY <1>1, <2>1, <2>2, Zenon DEF WaitsTypeOK, objects
  <2>4. \A v \in Waiters : pc'[v] = "blocked" => pc[v] = "blocked"
    BY <2>2
  <2> QED
    BY <2>1, <2>3, <2>4, NobodyBlocks, QuietKeeps
<1>6. CASE Plan(w)
  <2>1. PICK woke : /\ GoTo(w, "wait", woke)
                    /\ ring' \in Seq(Nat) /\ timer' \in Timers
                    /\ ring' = ring \/ QueueWaiters \subseteq woke
    <3>1. CASE w \in QueueWaiters
      BY <1>1, <1>6, <3>1, DeliveredFacts, Zenon DEF Plan
    <3>2. CASE w \notin QueueWaiters
      <4>1. GoTo(w, "wait", {}) /\ ring' = ring /\ timer' = timer
        BY <1>6, <3>2 DEF Plan
      <4> QED
        BY <1>1, <4>1, ZenonT(40) DEF WaitsTypeOK
    <3> QED
      BY <3>1, <3>2
  <2>2. /\ pc' \in [Waiters -> Places]
        /\ pc'[w] = "wait"
        /\ \A v \in Waiters \ {w} : pc'[v] = "blocked" => pc[v] = "blocked" /\ v \notin woke
    BY <1>1, <2>1, GoToFacts, ZenonT(40) DEF WaitsTypeOK, Places
  <2>3. soonest' \in [Waiters -> Nat]
    <3> DEFINE instant == IF w \in QueueWaiters THEN Delivered.next
                          ELSE IF w \in PollWaiters THEN timer.deadline ELSE Never
    <3>1. Never \in Nat /\ timer.deadline \in Nat /\ Delivered.next \in Nat
      <4>1. Never \in Nat
        BY ObjectWaitsAssumption DEF Never, DISARMED
      <4>2. timer.deadline \in Nat
        BY <1>1, Zenon DEF WaitsTypeOK, Timers
      <4> QED
        BY <1>1, <4>1, <4>2, DeliveredFacts, Zenon
    <3>2. instant \in Nat
      BY <3>1
    <3>3. soonest' = [soonest EXCEPT ![w] = instant]
      BY <1>6 DEF Plan
    <3> HIDE DEF instant
    <3> QED
      BY <1>1, <3>2, <3>3, ZenonT(40) DEF WaitsTypeOK
  <2>4. WaitsTypeOK'
    BY <1>1, <1>6, <2>1, <2>2, <2>3, Zenon DEF WaitsTypeOK, Plan
  <2>5. \A v \in Waiters : pc'[v] = "blocked" => pc[v] = "blocked" /\ v \notin woke
    BY <2>2
  <2>6. Quiet
    BY <1>6, <2>1, <2>5 DEF Quiet, Plan, Blocked, Waiters
  <2>7. op' = op
    BY <1>6 DEF Plan
  <2> QED
    BY <2>4, <2>6, <2>7, QuietKeeps
<1> QED
  BY <1>3, <1>4, <1>5, <1>6

-----------------------------------------------------------------------------
(* The steps of the threads that change the objects. *)

Posts == {"post", "post ring", "post wake"}

\* What actor `a`, going on at `step` and returning to `then`, owes: if a thread is
\* blocked with something to see, either `a` will wake it, or one was before the
\* step and it was not `a` who would wake it.
Relayed(a, step, then) ==
    /\ Blocked(EventWaiters)' /\ event'.retired =>
           \/ step \in {"destroy", "destroy wake"}
           \/ /\ Blocked(EventWaiters) /\ event.retired
              /\ op[a].step \notin {"destroy", "destroy wake"}
    /\ Blocked(EventWaiters)' /\ event'.signalled /\ ~event'.retired =>
           \/ step \in {"signal wake"}
           \/ /\ Blocked(EventWaiters) /\ event.signalled /\ ~event.retired
              /\ op[a].step \notin {"signal wake"}
    /\ Blocked(ProcessWaiters)' /\ process'.exited =>
           \/ step \in {"exit wake"} \/ then = "exit wake"
           \/ /\ Blocked(ProcessWaiters) /\ process.exited
              /\ op[a].step \notin {"exit wake"} /\ op[a].then # "exit wake"
    /\ Blocked(QueueWaiters)' /\ ring' # << >> =>
           \/ step \in {"post wake"}
           \/ Blocked(QueueWaiters) /\ ring # << >> /\ op[a].step \notin {"post wake"}
    /\ Blocked(PollWaiters)' /\ event'.retired =>
           \/ step \in {"destroy"}
           \/ Blocked(PollWaiters) /\ event.retired /\ op[a].step \notin {"destroy"}

\* The types of everything but op.
RestTypeOK ==
    /\ event \in [signalled : BOOLEAN, retired : BOOLEAN]
    /\ process \in [exited : BOOLEAN, waiter : BOOLEAN]
    /\ ring \in Seq(Nat)
    /\ timer \in Timers
    /\ now \in Nat
    /\ pc \in [Waiters -> Places]
    /\ soonest \in [Waiters -> Nat]

LEMMA ActorKeeps ==
    ASSUME WaitsInv, RestTypeOK', NEW a \in Actors, NEW step \in Steps,
           NEW then \in {"idle", "exit wake"}, Do(a, step, then),
           then = "exit wake" => step \in Posts, Relayed(a, step, then)
    PROVE  WaitsInv'
<1>1. op \in [Actors -> [step : Steps, then : {"idle", "exit wake"}]]
  BY ZenonT(40) DEF WaitsInv, WaitsTypeOK
<1>2. /\ op' \in [Actors -> [step : Steps, then : {"idle", "exit wake"}]]
      /\ op'[a].step = step /\ op'[a].then = then
      /\ \A b \in Actors \ {a} : op'[b] = op[b]
  BY <1>1, ZenonT(40) DEF Do
<1>3. WaitsTypeOK'
  BY <1>2, Zenon DEF WaitsTypeOK, RestTypeOK
<1>4. PostsReturn'
  <2> SUFFICES ASSUME NEW b \in Actors, op'[b].then = "exit wake"
               PROVE  op'[b].step \in {"post", "post ring", "post wake"}
    BY ZenonT(40) DEF PostsReturn
  <2>1. CASE b = a
    BY <1>2, <2>1, ZenonT(40) DEF Posts
  <2>2. CASE b # a
    BY <1>2, <2>2, ZenonT(40) DEF WaitsInv, PostsReturn
  <2> QED
    BY <2>1, <2>2, ZenonT(40)
<1>5. ASSUME NEW steps, step \in steps
      PROVE  OnItsWay(steps)'
  BY <1>2, <1>5, ZenonT(40) DEF OnItsWay
<1>6. ASSUME NEW steps, op[a].step \notin steps, OnItsWay(steps)
      PROVE  OnItsWay(steps)'
  BY <1>2, <1>6, ZenonT(40) DEF OnItsWay
<1>7. RetiredIsWoken'
  BY <1>5, <1>6, Zenon DEF WaitsInv, RetiredIsWoken, Relayed
<1>8. SignalIsWoken'
  BY <1>5, <1>6, Zenon DEF WaitsInv, SignalIsWoken, Relayed
<1>9. CompletionWaitSeesPost'
  BY <1>5, <1>6, Zenon DEF WaitsInv, CompletionWaitSeesPost, Relayed
<1>10. PollSeesDestroyed'
  BY <1>5, <1>6, Zenon DEF WaitsInv, PollSeesDestroyed, Relayed
<1>11. ProcessWaitSeesExit'
  <2> SUFFICES ASSUME Blocked(ProcessWaiters)', process'.exited
               PROVE  OnItsWay({"exit wake"})' \/ \E b \in Actors : op'[b].then = "exit wake"
    BY ZenonT(40) DEF ProcessWaitSeesExit
  <2>1. CASE step \in {"exit wake"}
    BY <1>5, <2>1, Zenon
  <2>2. CASE then = "exit wake"
    BY <1>2, <2>2, ZenonT(40)
  <2>3. CASE /\ Blocked(ProcessWaiters) /\ process.exited
             /\ op[a].step \notin {"exit wake"} /\ op[a].then # "exit wake"
    <3>1. OnItsWay({"exit wake"}) \/ \E b \in Actors : op[b].then = "exit wake"
      BY <2>3, ZenonT(40) DEF WaitsInv, ProcessWaitSeesExit
    <3>2. CASE OnItsWay({"exit wake"})
      BY <1>6, <2>3, <3>2, Zenon
    <3>3. CASE \E b \in Actors : op[b].then = "exit wake"
      BY <1>2, <2>3, <3>3, ZenonT(40)
    <3> QED
      BY <3>1, <3>2, <3>3, ZenonT(40)
  <2> QED
    BY <2>1, <2>2, <2>3, Zenon DEF Relayed
<1> QED
  BY <1>3, <1>4, <1>7, <1>8, <1>9, <1>10, <1>11, ZenonT(40) DEF WaitsInv

\* A step that only wakes: no thread of the queues it wakes is blocked, and what it
\* had to wake it has woken.
LEMMA WakeKeeps ==
    ASSUME WaitsInv, NEW a \in Actors, NEW step \in Steps, NEW then \in {"idle", "exit wake"},
           Do(a, step, then), then = "exit wake" => step \in Posts,
           NEW queued, Wake(queued),
           op[a].step = "destroy" => PollWaiters \subseteq queued /\ step = "destroy wake",
           op[a].step = "destroy wake" => EventWaiters \subseteq queued,
           op[a].step = "signal wake" => event.retired \/ EventWaiters \subseteq queued,
           op[a].step = "post wake" => QueueWaiters \subseteq queued,
           op[a].step = "exit wake" => ProcessWaiters \subseteq queued,
           op[a].then = "exit wake" => step = "exit wake" \/ then = "exit wake"
    PROVE  WaitsInv'
<1>1. WaitsTypeOK
  BY ZenonT(40) DEF WaitsInv
<1>2. /\ pc' = Woken(queued)
      /\ event' = event /\ process' = process /\ ring' = ring /\ timer' = timer
      /\ now' = now /\ soonest' = soonest
  BY ZenonT(40) DEF Wake, objects
<1>3. /\ pc' \in [Waiters -> Places]
      /\ \A v \in Waiters : pc'[v] = "blocked" => pc[v] = "blocked" /\ v \notin queued
  BY <1>1, <1>2, WokenFacts, ZenonT(40) DEF WaitsTypeOK
<1>4. RestTypeOK'
  BY <1>1, <1>2, <1>3, Zenon DEF WaitsTypeOK, RestTypeOK
<1>5. ASSUME NEW queue \in SUBSET Waiters
      PROVE  Blocked(queue)' => Blocked(queue) /\ ~(queue \subseteq queued)
  BY <1>3, <1>5, ZenonT(40) DEF Blocked
<1>6. /\ EventWaiters \in SUBSET Waiters /\ QueueWaiters \in SUBSET Waiters
      /\ ProcessWaiters \in SUBSET Waiters /\ PollWaiters \in SUBSET Waiters
  BY ZenonT(40) DEF Waiters
<1>7. Relayed(a, step, then)
  BY <1>2, <1>5, <1>6, ZenonT(40) DEF Relayed
<1> QED
  BY <1>4, <1>7, ActorKeeps, ZenonT(40)

\* A step that changes objects and wakes nobody.
LEMMA ChangeFacts ==
    ASSUME WaitsInv, Change
    PROVE  /\ pc' = pc /\ now' = now /\ soonest' = soonest
           /\ \A queue : Blocked(queue)' <=> Blocked(queue)
           /\ now \in Nat /\ pc \in [Waiters -> Places] /\ soonest \in [Waiters -> Nat]
           /\ event \in [signalled : BOOLEAN, retired : BOOLEAN]
           /\ process \in [exited : BOOLEAN, waiter : BOOLEAN]
           /\ ring \in Seq(Nat) /\ timer \in Timers
  BY ZenonT(40) DEF WaitsInv, WaitsTypeOK, Change, Blocked

LEMMA EventChangeKeeps ==
    ASSUME WaitsInv, NEW a \in Actors, SignalSet(a) \/ RetireEvent(a)
    PROVE  WaitsInv'
<1>1. CASE SignalSet(a)
  <2>1. Change /\ op[a].step = "signal" /\ UNCHANGED <<process, ring, timer>>
    BY <1>1, ZenonT(40) DEF SignalSet
  <2>2. op[a].then = "idle"
    BY <2>1, ZenonT(40) DEF WaitsInv, PostsReturn, WaitsTypeOK
  <2>3. /\ event' \in [signalled : BOOLEAN, retired : BOOLEAN]
        /\ event'.retired = event.retired
        /\ event.retired => event' = event
    BY <1>1, <2>1, ChangeFacts, ZenonT(40) DEF SignalSet
  <2>4. RestTypeOK'
    BY <2>1, <2>3, ChangeFacts, Zenon DEF RestTypeOK
  <2> DEFINE step == IF event.retired THEN "idle" ELSE "signal wake"
  <2>5. Do(a, step, "idle") /\ step \in Steps
    BY <1>1, ZenonT(40) DEF SignalSet, Steps
  <2>6. Relayed(a, step, "idle")
    <3>1. /\ op[a].step \notin {"destroy", "destroy wake"} /\ op[a].step \notin {"signal wake"}
          /\ op[a].step \notin {"exit wake"} /\ op[a].step \notin {"post wake"}
          /\ op[a].step \notin {"destroy"} /\ op[a].then # "exit wake"
          /\ ~event.retired => step \in {"signal wake"}
      BY <2>1, <2>2
    <3> HIDE DEF step
    <3> QED
      BY <2>1, <2>3, <3>1, ChangeFacts, Zenon DEF Relayed
  <2> HIDE DEF step
  <2> QED
    BY <2>4, <2>5, <2>6, ActorKeeps, ZenonT(40)
<1>2. CASE RetireEvent(a)
  <2>1. Change /\ op[a].step = "idle" /\ UNCHANGED <<process, ring, timer>>
    BY <1>2 DEF RetireEvent
  <2>2. op[a].then = "idle"
    BY <2>1, ZenonT(40) DEF WaitsInv, PostsReturn, WaitsTypeOK
  <2>3. event' \in [signalled : BOOLEAN, retired : BOOLEAN] /\ event'.retired
    BY <1>2, <2>1, ChangeFacts, ZenonT(40) DEF RetireEvent
  <2>4. RestTypeOK'
    BY <2>1, <2>3, ChangeFacts, Zenon DEF RestTypeOK
  <2>5. Do(a, "destroy", "idle")
    BY <1>2 DEF RetireEvent
  <2>6. Relayed(a, "destroy", "idle")
    <3>1. /\ op[a].step \notin {"exit wake"} /\ op[a].step \notin {"post wake"}
          /\ op[a].then # "exit wake"
      BY <2>1, <2>2
    <3> QED
      BY <2>1, <2>3, <3>1, ChangeFacts, Zenon DEF Relayed
  <2> QED
    BY <2>4, <2>5, <2>6, ActorKeeps, ZenonT(40) DEF Steps
<1> QED
  BY <1>1, <1>2

LEMMA ExitPosted ==
    ASSUME NEW queue \in Seq(Nat)
    PROVE  Append(queue, Exit) \in Seq(Nat)
<1>1. Exit \in Nat
  BY DEF Exit
<1> QED
  BY <1>1

LEMMA PostRingKeeps ==
    ASSUME WaitsInv, NEW a \in Actors, PostRing(a)
    PROVE  WaitsInv'
<1>1. Change /\ op[a].step = "post ring" /\ UNCHANGED <<event, process, timer>>
  BY ZenonT(40) DEF PostRing
<1>2. op[a].then \in {"idle", "exit wake"}
  BY ZenonT(40) DEF WaitsInv, WaitsTypeOK
<1>3. /\ op[a].step \notin {"destroy", "destroy wake"} /\ op[a].step \notin {"signal wake"}
      /\ op[a].step \notin {"exit wake"} /\ op[a].step \notin {"post wake"}
      /\ op[a].step \notin {"destroy"}
  BY <1>1, ZenonT(40)
<1>4. PICK then \in {"idle", "exit wake"} : then = op[a].then
  BY <1>2, ZenonT(40)
<1>5. CASE Len(ring) >= QUEUE_DEPTH
  <2>1. ring' = ring /\ Do(a, then, "idle")
    BY <1>4, <1>5, ZenonT(40) DEF PostRing
  <2>2. RestTypeOK'
    BY <1>1, <2>1, ChangeFacts, Zenon DEF RestTypeOK
  <2>3. Relayed(a, then, "idle")
    BY <1>1, <1>3, <1>4, <2>1, ChangeFacts, Zenon DEF Relayed
  <2> QED
    BY <2>1, <2>2, <2>3, ActorKeeps, ZenonT(40) DEF Steps
<1>6. CASE ~(Len(ring) >= QUEUE_DEPTH)
  <2>1. ring' = Append(ring, Exit) /\ Do(a, "post wake", then)
    BY <1>4, <1>6, ZenonT(40) DEF PostRing
  <2>2. ring' \in Seq(Nat)
    <3>1. ring \in Seq(Nat)
      BY Zenon DEF WaitsInv, WaitsTypeOK
    <3> QED
      BY <2>1, <3>1, ExitPosted, Zenon
  <2>3. RestTypeOK'
    BY <1>1, <2>2, ChangeFacts, Zenon DEF RestTypeOK
  <2>4. Relayed(a, "post wake", then)
    BY <1>1, <1>3, <1>4, ChangeFacts, Zenon DEF Relayed
  <2> QED
    BY <2>1, <2>3, <2>4, ActorKeeps, ZenonT(40) DEF Steps, Posts
<1> QED
  BY <1>5, <1>6, ZenonT(40)

LEMMA ProcessChangeKeeps ==
    ASSUME WaitsInv, NEW a \in Actors, ArmExit(a) \/ ExitRecorded(a)
    PROVE  WaitsInv'
<1>1. Change /\ op[a].step \in {"idle", "exit"} /\ UNCHANGED <<event, ring, timer>>
  BY ZenonT(40) DEF ArmExit, ExitRecorded
<1>2. op[a].then = "idle"
  BY <1>1, ZenonT(40) DEF WaitsInv, PostsReturn, WaitsTypeOK
<1>3. process' \in [exited : BOOLEAN, waiter : BOOLEAN]
  BY <1>1, ChangeFacts, ZenonT(40) DEF ArmExit, ExitRecorded
<1>4. RestTypeOK'
  BY <1>1, <1>3, ChangeFacts, Zenon DEF RestTypeOK
<1>5. /\ op[a].step \notin {"destroy", "destroy wake"} /\ op[a].step \notin {"signal wake"}
      /\ op[a].step \notin {"exit wake"} /\ op[a].step \notin {"post wake"}
      /\ op[a].step \notin {"destroy"} /\ op[a].then # "exit wake"
  BY <1>1, <1>2, ZenonT(40)
<1>6. CASE ArmExit(a) /\ process.exited
  <2>1. process' = process /\ Do(a, "post", "idle")
    BY <1>6 DEF ArmExit
  <2>2. Relayed(a, "post", "idle")
    BY <1>1, <1>5, <2>1, ChangeFacts, Zenon DEF Relayed
  <2> QED
    BY <1>4, <2>1, <2>2, ActorKeeps, ZenonT(40) DEF Steps
<1>7. CASE ArmExit(a) /\ ~process.exited
  <2>1. ~process'.exited /\ op' = op
    BY <1>1, <1>7, ChangeFacts, ZenonT(40) DEF ArmExit
  <2>2. WaitsTypeOK'
    BY <1>4, <2>1, Zenon DEF RestTypeOK, WaitsTypeOK, WaitsInv
  <2>3. Quiet
    BY <1>1, <2>1, ChangeFacts, Zenon DEF Quiet
  <2> QED
    BY <2>1, <2>2, <2>3, QuietKeeps
<1>8. CASE ExitRecorded(a) /\ process.waiter
  <2>1. Do(a, "post", "exit wake")
    BY <1>8, ZenonT(40) DEF ExitRecorded
  <2>2. Relayed(a, "post", "exit wake")
    BY <1>1, <1>5, ChangeFacts, Zenon DEF Relayed
  <2> QED
    BY <1>4, <2>1, <2>2, ActorKeeps, ZenonT(40) DEF Steps, Posts
<1>9. CASE ExitRecorded(a) /\ ~process.waiter
  <2>1. Do(a, "exit wake", "idle")
    BY <1>9, ZenonT(40) DEF ExitRecorded
  <2>2. Relayed(a, "exit wake", "idle")
    BY <1>1, <1>5, ChangeFacts, Zenon DEF Relayed
  <2> QED
    BY <1>4, <2>1, <2>2, ActorKeeps, ZenonT(40) DEF Steps
<1> QED
  BY <1>6, <1>7, <1>8, <1>9

LEMMA SetTimerKeeps ==
    ASSUME WaitsInv, NEW a \in Actors, NEW delay \in Nat, NEW period \in Nat,
           SetTimer(a, delay, period)
    PROVE  WaitsInv'
<1>1. Change /\ op[a].step = "idle" /\ UNCHANGED <<event, process, ring>>
  BY ZenonT(40) DEF SetTimer
<1>2. op[a].then = "idle"
  BY <1>1, ZenonT(40) DEF WaitsInv, PostsReturn, WaitsTypeOK
<1>3. timer' \in Timers
  <2> DEFINE deadline == IF delay = Never THEN DISARMED ELSE now + delay
  <2>1. DISARMED \in Nat /\ now \in Nat /\ timer \in Timers
    BY <1>1, ChangeFacts, ObjectWaitsAssumption DEF DISARMED
  <2>2. deadline \in Nat
    BY <2>1
  <2>3. timer' = [timer EXCEPT !.deadline = deadline, !.period = period]
    BY ZenonT(40) DEF SetTimer
  <2> HIDE DEF deadline
  <2> QED
    BY <2>1, <2>2, <2>3, ZenonT(40) DEF Timers
<1>4. RestTypeOK'
  BY <1>1, <1>3, ChangeFacts, Zenon DEF RestTypeOK
<1>5. Do(a, "timer wake", "idle")
  BY ZenonT(40) DEF SetTimer
<1>6. Relayed(a, "timer wake", "idle")
  <2>1. /\ op[a].step \notin {"destroy", "destroy wake"} /\ op[a].step \notin {"signal wake"}
        /\ op[a].step \notin {"exit wake"} /\ op[a].step \notin {"post wake"}
        /\ op[a].step \notin {"destroy"} /\ op[a].then # "exit wake"
    BY <1>1, <1>2
  <2> QED
    BY <1>1, <2>1, ChangeFacts, Zenon DEF Relayed
<1> QED
  BY <1>4, <1>5, <1>6, ActorKeeps, ZenonT(40) DEF Steps

\* The steps that only wake, each with the queues it wakes and where it goes on.
LEMMA WakingKeeps ==
    ASSUME WaitsInv, NEW a \in Actors,
           \/ Signal(a) \/ SignalWake(a) \/ Destroy(a) \/ DestroyWake(a) \/ Post(a)
           \/ PostWake(a) \/ ProcessExit(a) \/ ExitWake(a) \/ TimerWake(a)
    PROVE  WaitsInv'
<1>1. /\ op[a].then \in {"idle", "exit wake"}
      /\ op[a].then = "exit wake" => op[a].step \in Posts
  BY ZenonT(40) DEF WaitsInv, WaitsTypeOK, PostsReturn, Posts
<1>2. CASE Signal(a)
  BY <1>1, <1>2, WakeKeeps, ZenonT(40) DEF Signal, Steps, Posts
<1>3. CASE SignalWake(a)
  <2> DEFINE queued == IF event.retired THEN {} ELSE EventWaiters
  <2>1. op[a].step = "signal wake" /\ Wake(queued) /\ Do(a, "idle", "idle")
    BY <1>3, ZenonT(40) DEF SignalWake
  <2>2. event.retired \/ EventWaiters \subseteq queued
    OBVIOUS
  <2> HIDE DEF queued
  <2> QED
    BY <1>1, <2>1, <2>2, WakeKeeps, ZenonT(40) DEF Steps, Posts
<1>4. CASE Destroy(a)
  BY <1>1, <1>4, WakeKeeps, ZenonT(40) DEF Destroy, Steps, Posts
<1>5. CASE DestroyWake(a)
  BY <1>1, <1>5, WakeKeeps, ZenonT(40) DEF DestroyWake, Steps, Posts
<1>6. CASE Post(a)
  BY <1>1, <1>6, WakeKeeps, ZenonT(40) DEF Post, Steps, Posts
<1>7. CASE PostWake(a)
  BY <1>1, <1>7, WakeKeeps, ZenonT(40) DEF PostWake, Steps, Posts
<1>8. CASE ProcessExit(a)
  BY <1>1, <1>8, WakeKeeps, ZenonT(40) DEF ProcessExit, Steps, Posts
<1>9. CASE ExitWake(a)
  BY <1>1, <1>9, WakeKeeps, ZenonT(40) DEF ExitWake, Steps, Posts
<1>10. CASE TimerWake(a)
  BY <1>1, <1>10, WakeKeeps, ZenonT(40) DEF TimerWake, Steps, Posts
<1> QED
  BY <1>2, <1>3, <1>4, <1>5, <1>6, <1>7, <1>8, <1>9, <1>10

-----------------------------------------------------------------------------
LEMMA WaitsInvInitial == WaitsInit => WaitsInv
<1> SUFFICES ASSUME WaitsInit
             PROVE  WaitsInv
  OBVIOUS
<1>1. DISARMED \in Nat
  BY ObjectWaitsAssumption DEF DISARMED
<1>2. WaitsTypeOK
  BY <1>1 DEF WaitsInit, WaitsTypeOK, Timers, Places, Steps, Never
<1>3. \A queue \in SUBSET Waiters : ~Blocked(queue)
  BY DEF WaitsInit, Blocked
<1>4. ~Blocked(EventWaiters) /\ ~Blocked(QueueWaiters) /\ ~Blocked(ProcessWaiters) /\ ~Blocked(PollWaiters)
  BY <1>3 DEF Waiters
<1>5. PostsReturn
  BY ZenonT(40) DEF WaitsInit, PostsReturn
<1> QED
  BY <1>2, <1>4, <1>5, Zenon
     DEF WaitsInv, RetiredIsWoken, SignalIsWoken, ProcessWaitSeesExit, CompletionWaitSeesPost,
         PollSeesDestroyed

LEMMA WaitsInvPreserved == WaitsInv /\ [WaitsNext]_waitsVars => WaitsInv'
<1> SUFFICES ASSUME WaitsInv, [WaitsNext]_waitsVars
             PROVE  WaitsInv'
  OBVIOUS
<1>1. CASE UNCHANGED waitsVars
  <2>1. WaitsTypeOK'
    BY <1>1, Zenon DEF waitsVars, WaitsInv, WaitsTypeOK
  <2>2. Quiet
    BY <1>1 DEF waitsVars, Quiet, Blocked
  <2>3. op' = op
    BY <1>1 DEF waitsVars
  <2> QED
    BY <2>1, <2>2, <2>3, QuietKeeps
<1>2. CASE Tick
  <2>1. WaitsTypeOK'
    <3>1. now' \in Nat
      <4>1. now \in Nat /\ now' = now + 1
        BY <1>2, Zenon DEF Tick, WaitsInv, WaitsTypeOK
      <4> QED
        BY <4>1
    <3> QED
      BY <1>2, <3>1, Zenon DEF Tick, WaitsInv, WaitsTypeOK, objects
  <2>2. Quiet
    BY <1>2 DEF Tick, Quiet, Blocked, objects
  <2>3. op' = op
    BY <1>2 DEF Tick
  <2> QED
    BY <2>1, <2>2, <2>3, QuietKeeps
<1>3. ASSUME NEW a \in Actors, Call(a)
      PROVE  WaitsInv'
  <2>1. 0 \in Nat /\ 1 \in Nat /\ Never \in Nat
    BY ObjectWaitsAssumption DEF Never, DISARMED
  <2> QED
    BY <1>3, <2>1, WakingKeeps, EventChangeKeeps, ProcessChangeKeeps, SetTimerKeeps, Zenon DEF Call
<1>4. ASSUME NEW a \in Actors, Continue(a)
      PROVE  WaitsInv'
  BY <1>4, WakingKeeps, EventChangeKeeps, PostRingKeeps, ProcessChangeKeeps, Zenon DEF Continue
<1> QED
  BY <1>1, <1>2, <1>3, <1>4, WaiterKeeps, Zenon DEF WaitsNext

\* No thread stays blocked on an object that has something for it: whenever one is
\* blocked on an event signalled or destroyed, a process that exited, a queue with a
\* completion in it or a set with a destroyed member, some thread still has the wake
\* of its queue to do (objects.rs, readiness.rs: the order of change and wake in
\* signal_event, destroy, post, on_process_exit and deliver_due_timers).
THEOREM WaitsMissNothing == WaitsSpec => []NoWaitMissesItsObject
<1>1. WaitsInv => NoWaitMissesItsObject
  <2> SUFFICES ASSUME WaitsInv
               PROVE  EventWaitSeesSignal
    BY DEF WaitsInv, NoWaitMissesItsObject
  <2>1. OnItsWay({"destroy", "destroy wake"}) => OnItsWay({"signal wake", "destroy", "destroy wake"})
    BY ZenonT(40) DEF OnItsWay
  <2>2. OnItsWay({"signal wake"}) => OnItsWay({"signal wake", "destroy", "destroy wake"})
    BY ZenonT(40) DEF OnItsWay
  <2> QED
    BY <2>1, <2>2, Zenon DEF WaitsInv, RetiredIsWoken, SignalIsWoken, EventWaitSeesSignal
<1> QED
  BY <1>1, WaitsInvInitial, WaitsInvPreserved, PTL DEF WaitsSpec
=============================================================================
