------------------------------- MODULE Preempt -------------------------------
(***************************************************************************)
(* Preemption on every CPU (kernel/main/src/preempt.rs, timekeeping.rs):   *)
(* the thread table under the scheduler lock, the timer interrupt and      *)
(* reschedule IPI hook, the idle loops, and the calls threads make.        *)
(*                                                                         *)
(* A step is what one CPU does under one holding of the lock, with what it *)
(* does unlocked before the next.  IPIs are sent with the lock released,   *)
(* so a placement and its IPI are separate steps: owes[cpu] is what a      *)
(* masked CPU is about to send, asked[s] what a thread that may still be   *)
(* preempted is about to.  What the timer is armed for is left out: a CPU  *)
(* may be interrupted at any time, with any of the sleepers due.           *)
(***************************************************************************)
EXTENDS ThreadTable

CONSTANT Masks  \* affinity masks passed to set_affinity

VARIABLES
    table,      \* SCHED
    pc,         \* per CPU: what it does
    resume,     \* per CPU: where its idle thread was switched away
    pending,    \* CPUs with a reschedule IPI they have not taken
    owes,       \* per CPU: IPIs decided under the lock and not yet sent
    asked,      \* per thread: the CPU its set_affinity or spawn will interrupt
    sleepers    \* threads with a timer in the queue and in SLEEP_TIMERS

vars == <<table, pc, resume, pending, owes, asked, sleepers>>

Points == {"out", "run", "tick", "resched", "send", "loop", "halt"}

\* demonstrate: boot on CPU 0 with its idle thread queued.
Init ==
    /\ \E priority \in Priorities \ {0} :
          table = Spawn(NewTable(priority), 0, {0}, 0, TRUE)
    /\ pc = [cpu \in Cpus |-> IF cpu = 0 THEN "run" ELSE "out"]
    /\ resume = [cpu \in Cpus |-> "loop"]
    /\ pending = {}
    /\ owes = [cpu \in Cpus |-> {}]
    /\ asked = [s \in Slots |-> NoCpu]
    /\ sleepers = {}

\* Where a CPU goes once t is the table: its idle thread's place, or a thread.
Entered(t, cpu, place) == IF Running(t, cpu).idle THEN place ELSE "run"

\* A thread that runs its own code on this CPU and owes nobody an IPI.
Calling(cpu) ==
    pc[cpu] = "run" /\ asked[table.current[cpu]] = NoCpu

-----------------------------------------------------------------------------
\* What on_tick wakes, in the order the timers expired, and whom it must tell.
WakeDue(state, s, cpu) ==
    IF ~ CanWake(state.table, s) THEN state
    ELSE LET to == WakeTo(state.table, s)
             tell == to # cpu /\ NeedsReschedule(Loads(state.table)[to],
                                                 state.table.meta[s].priority)
         IN  [table |-> Wake(state.table, s),
              tell |-> IF tell THEN state.tell \cup {to} ELSE state.tell]

\* An idle CPU to wake when this one has a thread waiting.
IdleKick(t, cpu) ==
    LET loads == Loads(t)
        idle == {c \in Cpus \ {cpu} : loads[c].online /\ Idle(loads[c])}
    IN  IF loads[cpu].queued > 0 /\ idle # {} THEN {Min(idle)} ELSE {}

Orders(set) == {q \in [1 .. Cardinality(set) -> set] : {q[k] : k \in DOMAIN q} = set}

\* on_tick, first half, locked: wake the due sleepers, balance, look for an
\* idle CPU to wake.
TickPlan(cpu, due) ==
    LET woken == FoldLeft(LAMBDA state, s : WakeDue(state, s, cpu),
                          [table |-> table, tell |-> {}], due)
        balanced == BalanceOn(woken.table, cpu)
    IN  /\ pc[cpu] \in {"run", "halt"}
        /\ pending' = pending \ {cpu}
        /\ table' = balanced
        /\ owes' = [owes EXCEPT ![cpu] = woken.tell \cup IdleKick(balanced, cpu)]
        /\ sleepers' = sleepers \ {due[k] : k \in DOMAIN due}
        /\ pc' = [pc EXCEPT ![cpu] = "tick"]
        /\ UNCHANGED <<resume, asked>>

\* on_tick, unlocked: send the IPIs.
TickSend(cpu) ==
    /\ pc[cpu] = "tick"
    /\ pending' = pending \cup owes[cpu]
    /\ owes' = [owes EXCEPT ![cpu] = {}]
    /\ pc' = [pc EXCEPT ![cpu] = "resched"]
    /\ UNCHANGED <<table, resume, asked, sleepers>>

\* Mutant: nobody is told where a yielding thread's affinity sent it.
KickedNobody(t, cpu) == {}

\* The CPU yield_on_with reports to kick, if the thread went elsewhere.
Kicked(t, cpu) == IF YieldSwitches(t, cpu) THEN {YieldTo(t, cpu)} \ {cpu} ELSE {}

\* reschedule_here at the end of on_tick; an idle thread returns to its loop.
TickSwitch(cpu) ==
    LET t == Yield(table, cpu)
        place == Entered(t, cpu, IF YieldSwitches(table, cpu) THEN resume[cpu] ELSE "loop")
    IN  /\ pc[cpu] = "resched"
        /\ table' = t
        /\ pending' = pending \cup Kicked(table, cpu)
        /\ resume' = IF Running(table, cpu).idle THEN [resume EXCEPT ![cpu] = "loop"] ELSE resume
        /\ pc' = [pc EXCEPT ![cpu] = place]
        /\ UNCHANGED <<owes, asked, sleepers>>

\* idle_loop: balance and yield under one lock; then halt, now or when resumed.
IdleLoop(cpu) ==
    LET t == BalanceOn(table, cpu)
        place == Entered(Yield(t, cpu), cpu, "halt")
    IN  /\ pc[cpu] = "loop"
        /\ table' = Yield(t, cpu)
        /\ pending' = pending \cup Kicked(t, cpu)
        /\ resume' = [resume EXCEPT ![cpu] = "halt"]
        /\ pc' = [pc EXCEPT ![cpu] = place]
        /\ UNCHANGED <<owes, asked, sleepers>>

\* join: what runs on a released secondary becomes its idle thread.
Join(cpu) ==
    /\ pc[cpu] = "out"
    /\ CanAdopt(table, cpu, {cpu}, TRUE)
    /\ table' = Adopt(table, cpu, 0, {cpu}, TRUE)
    /\ pc' = [pc EXCEPT ![cpu] = "loop"]
    /\ UNCHANGED <<resume, pending, owes, asked, sleepers>>

-----------------------------------------------------------------------------
\* yield_now
YieldNow(cpu) ==
    LET t == Yield(table, cpu)
        place == Entered(t, cpu, resume[cpu])
    IN  /\ Calling(cpu)
        /\ YieldSwitches(table, cpu)
        /\ table' = t
        /\ pending' = pending \cup Kicked(table, cpu)
        /\ pc' = [pc EXCEPT ![cpu] = place]
        /\ UNCHANGED <<resume, owes, asked, sleepers>>

\* block_until, not already woken: with a deadline the timer is armed under the
\* scheduler lock, and the boot CPU kicked if it would wake too late.
BlockUntil(cpu, timed, kick) ==
    LET s == table.current[cpu]
        t == Leave(table, cpu, "Blocked")
        place == Entered(t, cpu, resume[cpu])
    IN  /\ Calling(cpu)
        /\ CanLeave(table, cpu)
        /\ kick => timed /\ cpu # 0
        /\ sleepers' = IF timed THEN sleepers \cup {s} ELSE sleepers
        /\ pending' = IF kick THEN pending \cup {0} ELSE pending
        /\ table' = t
        /\ pc' = [pc EXCEPT ![cpu] = place]
        /\ UNCHANGED <<resume, owes, asked>>

\* Mutant: the sleeper's timer stays armed.
DisarmedNot(s) == sleepers

Disarmed(s) == sleepers \ {s}

\* wake_blocked: disarm and wake under the lock; the IPI follows, still masked.
WakeBlocked(cpu, s) ==
    LET to == WakeTo(table, s)
        tell == to # cpu /\ NeedsReschedule(Loads(table)[to], table.meta[s].priority)
    IN  /\ Calling(cpu)
        /\ CanWake(table, s)
        /\ sleepers' = Disarmed(s)
        /\ table' = Wake(table, s)
        /\ owes' = [owes EXCEPT ![cpu] = IF tell THEN {to} ELSE {}]
        /\ pc' = [pc EXCEPT ![cpu] = IF tell THEN "send" ELSE "run"]
        /\ UNCHANGED <<resume, pending, asked>>

SendWake(cpu) ==
    /\ pc[cpu] = "send"
    /\ pending' = pending \cup owes[cpu]
    /\ owes' = [owes EXCEPT ![cpu] = {}]
    /\ pc' = [pc EXCEPT ![cpu] = "run"]
    /\ UNCHANGED <<table, resume, asked, sleepers>>

\* set_affinity: the table first, then an IPI to where the thread is.
ChangeAffinity(cpu, s, mask) ==
    /\ Calling(cpu)
    /\ CanSetAffinity(table, s, mask)
    /\ mask \cap Joined(table) # {}
    /\ table' = SetAffinity(table, s, mask)
    /\ asked' = [asked EXCEPT ![table.current[cpu]] = table'.meta[s].cpu]
    /\ UNCHANGED <<pc, resume, pending, owes, sleepers>>

\* spawn and spawn_prepared: on this CPU, allowed everywhere.
SpawnHere(cpu, priority) ==
    /\ Calling(cpu)
    /\ FreeSlots(table) # {}
    /\ table' = Spawn(table, priority, Cpus, cpu, FALSE)
    /\ UNCHANGED <<pc, resume, pending, owes, asked, sleepers>>

\* spawn_prepared_on: pinned to a CPU, which is interrupted afterwards.
SpawnOn(cpu, priority, target) ==
    /\ Calling(cpu)
    /\ FreeSlots(table) # {}
    /\ table' = Spawn(table, priority, {target}, target, FALSE)
    /\ asked' = [asked EXCEPT ![table.current[cpu]] = target]
    /\ UNCHANGED <<pc, resume, pending, owes, sleepers>>

\* The IPI after set_affinity and spawn_prepared_on, unless it is this CPU.
SendAsked(cpu) ==
    LET s == table.current[cpu]
    IN  /\ pc[cpu] = "run"
        /\ asked[s] # NoCpu
        /\ pending' = pending \cup ({asked[s]} \ {cpu})
        /\ asked' = [asked EXCEPT ![s] = NoCpu]
        /\ UNCHANGED <<table, pc, resume, owes, sleepers>>

ExitThread(cpu) ==
    LET t == Leave(table, cpu, "Exited")
        place == Entered(t, cpu, resume[cpu])
    IN  /\ Calling(cpu)
        /\ CanLeave(table, cpu)
        /\ table' = t
        /\ pc' = [pc EXCEPT ![cpu] = place]
        /\ UNCHANGED <<resume, pending, owes, asked, sleepers>>

ReapThread(cpu, s) ==
    /\ Calling(cpu)
    /\ CanReap(table, s)
    /\ table' = Reap(table, s)
    /\ UNCHANGED <<pc, resume, pending, owes, asked, sleepers>>

Next ==
    \E cpu \in Cpus :
        \/ \E set \in SUBSET sleepers : \E due \in Orders(set) : TickPlan(cpu, due)
        \/ TickSend(cpu)
        \/ TickSwitch(cpu)
        \/ IdleLoop(cpu)
        \/ Join(cpu)
        \/ YieldNow(cpu)
        \/ \E timed, kick \in BOOLEAN : BlockUntil(cpu, timed, kick)
        \/ \E s \in Slots : WakeBlocked(cpu, s) \/ ReapThread(cpu, s)
        \/ SendWake(cpu)
        \/ \E s \in Slots, mask \in Masks : ChangeAffinity(cpu, s, mask)
        \/ \E priority \in Priorities \ {0} :
              \/ SpawnHere(cpu, priority)
              \/ \E target \in Joined(table) : SpawnOn(cpu, priority, target)
        \/ SendAsked(cpu)
        \/ ExitThread(cpu)

Spec == Init /\ [][Next]_vars
-----------------------------------------------------------------------------
TypeOK ==
    /\ table \in Table
    /\ pc \in [Cpus -> Points]
    /\ resume \in [Cpus -> {"loop", "halt"}]
    /\ pending \subseteq Cpus
    /\ owes \in [Cpus -> SUBSET Cpus]
    /\ asked \in [Slots -> Cpus \cup {NoCpu}]
    /\ sleepers \subseteq Slots

QueuesOf(s) == {<<cpu, k>> \in Cpus \X (1 .. N) :
                    k <= Len(table.runq[cpu]) /\ table.runq[cpu][k] = s}


Waiting(cpu) == {k \in DOMAIN table.runq[cpu] : ~ table.meta[table.runq[cpu][k]].idle}

\* An interrupt for this CPU is pending or will be sent by a step under way.
Announced(cpu) ==
    \/ cpu \in pending
    \/ \E c \in Cpus : cpu \in owes[c]
    \/ \E s \in Live(table) : asked[s] = cpu

\* A halted CPU never sleeps on work: whenever a thread is queued on a CPU that
\* waits for an interrupt, an IPI to it is pending or about to be sent, whoever
\* queued the thread there: a wake, an affinity change, a spawn, or a yield
\* that sent the thread away.
NoWorkOnHaltedCpu ==
    \A cpu \in Cpus : (pc[cpu] = "halt" /\ Waiting(cpu) # {}) => Announced(cpu)

\* Every sleep timer belongs to a thread that is blocked, so no expiry finds a
\* thread that runs or that sleeps for another reason (block_until arms under
\* the scheduler lock, wake_blocked disarms).
TimersBelongToBlocked ==
    \A s \in sleepers : table.meta[s] # None /\ table.meta[s].state = "Blocked"

=============================================================================
