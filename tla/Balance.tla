------------------------------- MODULE Balance -------------------------------
(***************************************************************************)
(* Where threads run on a multiprocessor (kernel/sched/src/balance.rs):    *)
(* decisions only, over one snapshot of every CPU.                         *)
(***************************************************************************)
EXTENDS Integers, FiniteSets, FiniteSetsExt

CONSTANTS
    CPUS,       \* run queues in the table
    MaxLevel    \* the highest priority level; 0 is the idle level

ASSUME BalanceAssumption == CPUS \in Nat \ {0} /\ MaxLevel \in Nat

Cpus == 0 .. CPUS - 1
NoCpu == -1

\* CpuLoad: running is the running priority, or NoPriority in the idle thread.
Priorities == 0 .. MaxLevel
NoPriority == -1

Load(c) == c.queued + (IF c.running = NoPriority THEN 0 ELSE 1)
Idle(c) == c.running = NoPriority /\ c.queued = 0

Usable(loads, allowed) == {cpu \in allowed \cap Cpus : loads[cpu].online}

\* place_wake: last if idle, else the lowest idle one, else last if the thread
\* outranks what runs there, else the least loaded with last among equals.
PlaceWake(loads, allowed, last, priority) ==
    LET usable == Usable(loads, allowed)
        idle == {cpu \in usable : Idle(loads[cpu])}
        least == {cpu \in usable : \A c \in usable : Load(loads[cpu]) <= Load(loads[c])}
    IN  IF usable = {} THEN NoCpu
        ELSE IF last \in idle THEN last
        ELSE IF idle # {} THEN Min(idle)
        ELSE IF last \in usable /\ priority > loads[last].running THEN last
        ELSE IF last \in least THEN last ELSE Min(least)

NeedsReschedule(load, priority) == priority >= load.running

\* The busiest other CPU with a thread waiting, the lowest-numbered of equals.
Busiest(loads, this) ==
    LET waiting == {cpu \in Cpus \ {this} : loads[cpu].online /\ loads[cpu].queued > 0}
        most == {cpu \in waiting : \A c \in waiting : Load(loads[c]) <= Load(loads[cpu])}
    IN  IF waiting = {} THEN NoCpu ELSE Min(most)

\* pull_source: due when this CPU is idle or the source carries two more.
PullSource(loads, this) ==
    LET from == Busiest(loads, this)
    IN  IF /\ from # NoCpu
           /\ loads[this].online
           /\ Idle(loads[this]) \/ Load(loads[from]) >= Load(loads[this]) + 2
        THEN from ELSE NoCpu
=============================================================================
