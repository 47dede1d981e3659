----------------------------- MODULE ObjectWaits -----------------------------
(***************************************************************************)
(* Waiting on kernel objects: an event, a process, and a completion queue  *)
(* with a timer delivering to it (kernel/main/src/objects.rs), the calls   *)
(* that wait on one of them or on the set of all (userproc.rs: wait_for;   *)
(* readiness.rs), and the calls that change them.                          *)
(*                                                                         *)
(* Each object's cell has a wait queue, and every wait on a set shares one *)
(* more, POLL.  Here WaitQueue is used by what it promises: wait_once      *)
(* looks at its condition and blocks in one step, and wake_all makes all   *)
(* of a queue's blocked threads look again.  A change is a sequence of     *)
(* critical sections, one per step, in the source's order.  A timer's      *)
(* delivery is one step, every access to its schedule being serialised by  *)
(* DELIVERY.  Time is a counter; a wait has no deadline of its caller's.   *)
(***************************************************************************)
EXTENDS Integers, Sequences, FiniteSetsExt

CONSTANTS
    EventWaiters, QueueWaiters, ProcessWaiters,
                    \* threads in event_wait, completion_wait and process_wait
    PollWaiters,    \* threads in object_wait_any, over all three objects
    Actors,         \* threads that change the objects
    Scenes,         \* which waiters take part, which calls are made, and until when
    QUEUE_DEPTH,    \* completions the queue holds
    MaxNow          \* the last instant (a bound)

\* A thread is in one call at a time.
ASSUME ObjectWaitsAssumption ==
    /\ EventWaiters \cap (QueueWaiters \cup ProcessWaiters \cup PollWaiters) = {}
    /\ QueueWaiters \cap (ProcessWaiters \cup PollWaiters) = {}
    /\ ProcessWaiters \cap PollWaiters = {}
    /\ QUEUE_DEPTH \in Nat \ {0} /\ MaxNow \in Nat \ {0}
    /\ Scenes \subseteq [waiters : SUBSET (EventWaiters \cup QueueWaiters \cup ProcessWaiters \cup PollWaiters),
                         calls : SUBSET {"event", "exit", "timer"}, until : 0 .. MaxNow]

Waiters == EventWaiters \cup QueueWaiters \cup ProcessWaiters \cup PollWaiters

\* An instant no clock reaches: a timer's deadline while it is not armed.
DISARMED == 2 * MaxNow + 2
Never == DISARMED

\* What a completion reports: an exit, or so many expirations of the timer.
Exit == 0

VARIABLES
    scene,
    event,      \* the event: whether signalled, and whether retired
    process,    \* the process: whether exited, whether its exit is to be posted
    ring,       \* the completion queue, oldest first
    timer,      \* the timer: deadline, period and expirations delivered
    now,
    pc,         \* per waiter: where it is in wait_for
    soonest,    \* per waiter: the instant its wait looks again by itself
    op,         \* per actor: its next step, and where a post returns to
    taken       \* expirations taken from the queue (a history)

waitsVars == <<scene, event, process, ring, timer, now, pc, soonest, op, taken>>
objects == <<event, process, ring, timer, taken>>

WaitsInit ==
    /\ scene \in Scenes
    /\ event = [signalled |-> FALSE, retired |-> FALSE]
    /\ process = [exited |-> FALSE, waiter |-> FALSE]
    /\ ring = << >>
    /\ timer = [deadline |-> DISARMED, period |-> 0, fires |-> 0]
    /\ now = 0
    /\ pc = [w \in Waiters |-> "out"]
    /\ soonest = [w \in Waiters |-> Never]
    /\ op = [a \in Actors |-> [step |-> "idle", then |-> "idle"]]
    /\ taken = 0

-----------------------------------------------------------------------------
(* Wakes and deliveries. *)

\* wake_all of the queues these waiters are in; then `w`, if any, goes to `place`.
Woken(queued) ==
    [w \in Waiters |-> IF w \in queued /\ pc[w] = "blocked" THEN "attempt" ELSE pc[w]]
GoTo(w, place, queued) == pc' = [Woken(queued) EXCEPT ![w] = place]


\* deliver_due_timers: what the queue and the timer become, which queues' waiters
\* are woken, and the earliest deadline still armed.  The post to a full queue
\* fails, which leaves the timer due and reports no deadline.
Delivered ==
    LET expirations == IF timer.period = 0 THEN 1
                       ELSE (now - timer.deadline) \div timer.period + 1
        deadline == IF timer.period = 0 THEN DISARMED
                    ELSE timer.deadline + expirations * timer.period
    IN  IF timer.deadline > now
        THEN [ring |-> ring, timer |-> timer, woke |-> {}, next |-> timer.deadline]
        ELSE IF Len(ring) >= QUEUE_DEPTH
        THEN [ring |-> ring, timer |-> timer, woke |-> PollWaiters, next |-> Never]
        ELSE [ring |-> Append(ring, expirations),
              timer |-> [timer EXCEPT !.deadline = deadline, !.fires = @ + expirations],
              woke |-> PollWaiters \cup QueueWaiters, next |-> deadline]

\* take: the oldest completion leaves the queue.
Take(queue) ==
    /\ ring' = Tail(queue)
    /\ taken' = taken + Head(queue)

-----------------------------------------------------------------------------
(* The waiting calls: wait_for, with what each call attempts. *)

\* The attempt of a thread, which ends the call or goes on at `next`.
AttemptEvent(w, next) ==
    /\ w \in EventWaiters
    /\ GoTo(w, IF event.retired \/ event.signalled THEN "out" ELSE next, {})
    /\ event' = [event EXCEPT !.signalled = event.retired /\ @]
    /\ UNCHANGED <<process, ring, timer, taken>>

AttemptProcess(w, next) ==
    /\ w \in ProcessWaiters
    /\ GoTo(w, IF process.exited THEN "out" ELSE next, {})
    /\ UNCHANGED objects

AttemptQueue(w, next) ==
    /\ w \in QueueWaiters
    /\ timer' = Delivered.timer
    /\ IF Delivered.ring # << >>
       THEN Take(Delivered.ring) /\ GoTo(w, "out", Delivered.woke)
       ELSE UNCHANGED <<ring, taken>> /\ GoTo(w, next, Delivered.woke)
    /\ UNCHANGED <<event, process>>

\* readiness::of each member: nothing is consumed, but due timers are delivered.
AttemptSet(w, next) ==
    /\ w \in PollWaiters
    /\ timer' = Delivered.timer /\ ring' = Delivered.ring
    /\ LET ready == \/ event.retired \/ event.signalled
                    \/ process.exited
                    \/ Delivered.ring # << >>
       IN  GoTo(w, IF ready THEN "out" ELSE next, Delivered.woke)
    /\ UNCHANGED <<event, process, taken>>

Attempt(w, next) ==
    \/ AttemptEvent(w, next) \/ AttemptProcess(w, next)
    \/ AttemptQueue(w, next) \/ AttemptSet(w, next)

Begin(w) ==
    /\ pc[w] = "out"
    /\ w \in scene.waiters
    /\ GoTo(w, "attempt", {})
    /\ UNCHANGED <<now, soonest, op>> /\ UNCHANGED objects

\* The attempt before the loop, and the one that ends wait_once.
TryNow(w) == pc[w] = "attempt" /\ Attempt(w, "plan") /\ UNCHANGED <<now, soonest, op>>

\* next_deadline: when this wait must look again although nothing wakes it.
Plan(w) ==
    /\ pc[w] = "plan"
    /\ soonest' = [soonest EXCEPT ![w] =
                    IF w \in QueueWaiters THEN Delivered.next
                    ELSE IF w \in PollWaiters THEN timer.deadline ELSE Never]
    /\ IF w \in QueueWaiters
       THEN /\ ring' = Delivered.ring /\ timer' = Delivered.timer
            /\ GoTo(w, "wait", Delivered.woke)
       ELSE UNCHANGED <<ring, timer>> /\ GoTo(w, "wait", {})
    /\ UNCHANGED <<event, process, taken, now, op>>

\* wait_once: a last look, and the thread is blocked unless its instant has come.
WaitOnce(w) ==
    /\ pc[w] = "wait"
    /\ Attempt(w, IF soonest[w] <= now THEN "attempt" ELSE "blocked")
    /\ UNCHANGED <<now, soonest, op>>

\* The instant a blocked wait was to look again at.
Expires(w) ==
    /\ pc[w] = "blocked" /\ soonest[w] <= now
    /\ GoTo(w, "attempt", {})
    /\ UNCHANGED <<now, soonest, op>> /\ UNCHANGED objects

Tick ==
    /\ now < scene.until
    /\ now' = now + 1
    /\ UNCHANGED <<pc, soonest, op>> /\ UNCHANGED objects

-----------------------------------------------------------------------------
(* The calls that change objects.  A step is one critical section; `Wake` is *)
(* one that wakes these waiters' queues and changes nothing else.            *)

Do(a, step, then) == op' = [op EXCEPT ![a] = [step |-> step, then |-> then]]
Wake(queued) == pc' = Woken(queued) /\ UNCHANGED objects /\ UNCHANGED <<now, soonest>>
Change == UNCHANGED <<now, pc, soonest>>

\* (mutant: a signal that does not wake the event's own queue)
SignalSetSilent(a) ==
    /\ op[a].step = "signal"
    /\ event' = [event EXCEPT !.signalled = @ \/ ~event.retired]
    /\ Do(a, "idle", "idle")
    /\ UNCHANGED <<process, ring, timer, taken>> /\ Change
\* signal_event: readiness::wake, the signal, then the event's own queue.
Signal(a) == op[a].step = "idle" /\ Wake(PollWaiters) /\ Do(a, "signal", "idle")
SignalSet(a) ==
    /\ op[a].step = "signal"
    /\ event' = [event EXCEPT !.signalled = @ \/ ~event.retired]
    /\ Do(a, IF event.retired THEN "idle" ELSE "signal wake", "idle")
    /\ UNCHANGED <<process, ring, timer, taken>> /\ Change
\* The queue is looked up by the event's identity, which a retired event has lost.
SignalWake(a) ==
    /\ op[a].step = "signal wake"
    /\ Wake(IF event.retired THEN {} ELSE EventWaiters) /\ Do(a, "idle", "idle")

\* The event retired, and destroyed: from here its identity finds nothing.
RetireEvent(a) ==
    /\ op[a].step = "idle" /\ ~event.retired
    /\ event' = [event EXCEPT !.retired = TRUE]
    /\ Do(a, "destroy", "idle")
    /\ UNCHANGED <<process, ring, timer, taken>> /\ Change
Destroy(a) == op[a].step = "destroy" /\ Wake(PollWaiters) /\ Do(a, "destroy wake", "idle")
DestroyWake(a) == op[a].step = "destroy wake" /\ Wake(EventWaiters) /\ Do(a, "idle", "idle")

\* post: readiness::wake, the completion if there is room, then the queue's own.
Post(a) == op[a].step = "post" /\ Wake(PollWaiters) /\ Do(a, "post ring", op[a].then)
PostRing(a) ==
    /\ op[a].step = "post ring"
    /\ IF Len(ring) >= QUEUE_DEPTH
       THEN ring' = ring /\ Do(a, op[a].then, "idle")
       ELSE ring' = Append(ring, Exit) /\ Do(a, "post wake", op[a].then)
    /\ UNCHANGED <<event, process, timer, taken>> /\ Change
PostWake(a) == op[a].step = "post wake" /\ Wake(QueueWaiters) /\ Do(a, op[a].then, "idle")

\* process_wait with a completion queue: post the exit now, or leave it to the exit.
ArmExit(a) ==
    /\ op[a].step = "idle" /\ ~process.waiter
    /\ IF process.exited
       THEN process' = process /\ Do(a, "post", "idle")
       ELSE process' = [process EXCEPT !.waiter = TRUE] /\ op' = op
    /\ UNCHANGED <<event, ring, timer, taken>> /\ Change

\* on_process_exit, run once: readiness::wake, the exit recorded, a post to whoever
\* asked, then the process's own queue.
ProcessExit(a) ==
    /\ op[a].step = "idle" /\ ~process.exited /\ \A b \in Actors : op[b].step # "exit"
    /\ Wake(PollWaiters) /\ Do(a, "exit", "idle")
ExitRecorded(a) ==
    /\ op[a].step = "exit"
    /\ process' = [process EXCEPT !.exited = TRUE, !.waiter = FALSE]
    /\ IF process.waiter THEN Do(a, "post", "exit wake") ELSE Do(a, "exit wake", "idle")
    /\ UNCHANGED <<event, ring, timer, taken>> /\ Change
ExitWake(a) == op[a].step = "exit wake" /\ Wake(ProcessWaiters) /\ Do(a, "idle", "idle")

\* set_timer: the schedule replaced, then the queue's waiters woken.
SetTimer(a, delay, period) ==
    /\ op[a].step = "idle"
    /\ timer' = [timer EXCEPT !.deadline = IF delay = Never THEN DISARMED ELSE now + delay,
                              !.period = period]
    /\ Do(a, "timer wake", "idle")
    /\ UNCHANGED <<event, process, ring, taken>> /\ Change
TimerWake(a) == op[a].step = "timer wake" /\ Wake(QueueWaiters) /\ Do(a, "idle", "idle")

-----------------------------------------------------------------------------
Call(a) ==
    \/ "event" \in scene.calls /\ (Signal(a) \/ RetireEvent(a))
    \/ "exit" \in scene.calls /\ (ArmExit(a) \/ ProcessExit(a))
    \/ "timer" \in scene.calls /\ (SetTimer(a, 1, 0) \/ SetTimer(a, 1, 1) \/ SetTimer(a, Never, 0))

Continue(a) ==
    \/ SignalSet(a) \/ SignalWake(a) \/ Destroy(a) \/ DestroyWake(a)
    \/ Post(a) \/ PostRing(a) \/ PostWake(a) \/ ExitRecorded(a) \/ ExitWake(a)
    \/ TimerWake(a)

WaitsNext ==
    /\ UNCHANGED scene
    /\ \/ \E w \in Waiters : Begin(w) \/ TryNow(w) \/ Plan(w) \/ WaitOnce(w) \/ Expires(w)
       \/ \E a \in Actors : Call(a) \/ Continue(a)
       \/ Tick

WaitsSpec == WaitsInit /\ [][WaitsNext]_waitsVars

-----------------------------------------------------------------------------
(* Properties. *)

Blocked(queue) == \E w \in queue : pc[w] = "blocked"
OnItsWay(steps) == \E a \in Actors : op[a].step \in steps

\* A thread is not left blocked on an event that is signalled, nor on one that has
\* been destroyed: whoever did it has still to wake the event's queue.
EventWaitSeesSignal ==
    Blocked(EventWaiters) /\ (event.signalled \/ event.retired) =>
        OnItsWay({"signal wake", "destroy", "destroy wake"})

\* A thread is not left blocked on a process that has exited, though the exit is
\* posted to a completion queue first.
ProcessWaitSeesExit ==
    Blocked(ProcessWaiters) /\ process.exited =>
        \/ OnItsWay({"exit wake"})
        \/ \E a \in Actors : op[a].then = "exit wake"

\* A thread is not left blocked on a queue with a completion in it.
CompletionWaitSeesPost ==
    Blocked(QueueWaiters) /\ ring # << >> => OnItsWay({"post wake"})


\* A thread blocked on a set is woken when a member is destroyed.
PollSeesDestroyed ==
    Blocked(PollWaiters) /\ event.retired => OnItsWay({"destroy"})

\* No wait on an object misses what happened to it: an event signalled or
\* destroyed, a process exited, a completion posted, a set's member destroyed.
NoWaitMissesItsObject ==
    EventWaitSeesSignal /\ ProcessWaitSeesExit /\ CompletionWaitSeesPost /\ PollSeesDestroyed

\* readiness.rs: every waker changes state before it wakes, so no wake is lost: no
\* thread stays blocked on a set with a signalled event once the calls are over.
PollSeesSignal ==
    Blocked(PollWaiters) /\ event.signalled => \E a \in Actors : op[a].step # "idle"

=============================================================================
