----------------------------- MODULE ThreadTable -----------------------------
(***************************************************************************)
(* The thread table (kernel/thread/src/lib.rs) as operators on its state:  *)
(* a record of the metadata per slot, the current thread and the run queue *)
(* per CPU, and whose register context is saved.                           *)
(*                                                                         *)
(* A thread is named by its slot.  Identities are drawn from a counter     *)
(* and stay distinct among live threads for 2^32 spawns.  A run queue is   *)
(* the ordered queue of ReadyQueue; it has a place for every slot, so      *)
(* QueueFull does not arise.                                               *)
(***************************************************************************)
EXTENDS Balance, Sequences, SequencesExt

CONSTANTS N, None

ASSUME TableAssumption == N \in Nat \ {0} /\ None \notin 0 .. N - 1

Slots == 0 .. N - 1

States == {"Running", "Ready", "Blocked", "Exited"}

Meta == [priority : Priorities, state : States, cpu : Cpus,
         affinity : SUBSET Cpus, idle : BOOLEAN]

Table == [meta : [Slots -> Meta \cup {None}], current : [Cpus -> Slots \cup {None}],
          runq : [Cpus -> Seq(Slots)], saved : SUBSET Slots]

Created(priority, state, cpu, affinity, idle) ==
    [priority |-> priority, state |-> state, cpu |-> cpu, affinity |-> affinity, idle |-> idle]

\* new, init_in_place: the boot thread runs on CPU 0, no other CPU has joined.
NewTable(priority) ==
    [meta |-> [s \in Slots |-> IF s = 0 THEN Created(priority, "Running", 0, Cpus, FALSE)
                               ELSE None],
     current |-> [c \in Cpus |-> IF c = 0 THEN 0 ELSE None],
     runq |-> [c \in Cpus |-> <<>>],
     saved |-> {}]

Live(t) == {s \in Slots : t.meta[s] # None}
Joined(t) == {cpu \in Cpus : t.current[cpu] # None}
Running(t, cpu) == t.meta[t.current[cpu]]

\* RunQueue::enqueue: behind everything at least as urgent.
Enqueued(t, q, s, priority) ==
    SelectSeq(q, LAMBDA x : t.meta[x].priority >= priority) \o <<s>>
        \o SelectSeq(q, LAMBDA x : t.meta[x].priority < priority)

\* loads: every CPU as the balance decisions see it, idle threads not counted.
Loads(t) ==
    [cpu \in Cpus |->
        [online |-> t.current[cpu] # None,
         running |-> IF t.current[cpu] = None \/ Running(t, cpu).idle THEN NoPriority
                     ELSE Running(t, cpu).priority,
         queued |-> Cardinality({k \in DOMAIN t.runq[cpu] : ~ t.meta[t.runq[cpu][k]].idle})]]

Place(t, affinity, last, priority) == PlaceWake(Loads(t), affinity, last, priority)

-----------------------------------------------------------------------------
FreeSlots(t) == {s \in Slots : t.meta[s] = None}

MayUse(cpu, affinity, idle) == cpu \in affinity /\ (idle => affinity = {cpu})

\* adopt: what runs on a CPU becomes the table's thread there.
CanAdopt(t, cpu, affinity, idle) ==
    t.current[cpu] = None /\ MayUse(cpu, affinity, idle) /\ FreeSlots(t) # {}

Adopt(t, cpu, priority, affinity, idle) ==
    LET s == Min(FreeSlots(t))
    IN  [t EXCEPT !.meta[s] = Created(priority, "Running", cpu, affinity, idle),
                  !.current[cpu] = s,
                  !.saved = @ \ {s}]

\* spawn_on: a new thread with a prepared context, queued on a CPU.
CanSpawn(t, cpu, affinity, idle) == MayUse(cpu, affinity, idle) /\ FreeSlots(t) # {}

Spawn(t, priority, affinity, cpu, idle) ==
    LET s == Min(FreeSlots(t))
    IN  [t EXCEPT !.meta[s] = Created(priority, "Ready", cpu, affinity, idle),
                  !.runq[cpu] = Enqueued(t, @, s, priority),
                  !.saved = @ \cup {s}]

\* move_queued: from one run queue to another.
MoveQueued(t, s, from, to) ==
    [t EXCEPT !.runq[to] = Enqueued(t, @, s, t.meta[s].priority),
              !.runq[from] = Remove(@, s),
              !.meta[s].cpu = to]

KnownCpus(affinity) == affinity \cap Cpus

CanSetAffinity(t, s, affinity) ==
    t.meta[s] # None /\ ~ t.meta[s].idle /\ KnownCpus(affinity) # {}


\* set_affinity: a ready thread leaves a CPU it may no longer use.  The new
\* affinity is stored before the placement, which can fail.
SetAffinity(t, s, affinity) ==
    LET m == t.meta[s]
        usable == KnownCpus(affinity)
        stored == [t EXCEPT !.meta[s].affinity = usable]
        to == Place(stored, usable, m.cpu, m.priority)
    IN  IF m.state = "Ready" /\ m.cpu \notin usable /\ to # NoCpu
        THEN MoveQueued(stored, s, m.cpu, to)
        ELSE stored

-----------------------------------------------------------------------------
\* plan_next and perform: the head of the queue runs, the switch saves the
\* context it leaves and loads the other.
PlanNext(t, cpu) ==
    LET next == Head(t.runq[cpu])
    IN  [t EXCEPT !.runq[cpu] = Tail(@),
                  !.meta[next].state = "Running",
                  !.meta[next].cpu = cpu,
                  !.current[cpu] = next,
                  !.saved = (@ \cup {t.current[cpu]}) \ {next}]

\* Where plan_yield queues the thread that gives up a CPU.
YieldTo(t, cpu) ==
    LET cur == Running(t, cpu)
    IN  IF cpu \in cur.affinity THEN cpu ELSE Place(t, cur.affinity, cpu, cur.priority)

\* plan_yield switches: to a peer or a better thread, or away from a CPU the
\* thread may no longer use.
YieldSwitches(t, cpu) ==
    /\ t.current[cpu] # None
    /\ t.runq[cpu] # <<>>
    /\ \/ cpu \notin Running(t, cpu).affinity
       \/ t.meta[Head(t.runq[cpu])].priority >= Running(t, cpu).priority
    /\ YieldTo(t, cpu) # NoCpu

\* yield_on_with: the thread goes back to a queue and the next one runs.
Yield(t, cpu) ==
    LET s == t.current[cpu]
        to == YieldTo(t, cpu)
        queued == [t EXCEPT !.runq[to] = Enqueued(t, @, s, t.meta[s].priority),
                            !.meta[s].state = "Ready",
                            !.meta[s].cpu = to]
    IN  IF YieldSwitches(t, cpu) THEN PlanNext(queued, cpu) ELSE t

\* plan_leave: block_on and exit_on, refused when nothing else is runnable.
CanLeave(t, cpu) == t.current[cpu] # None /\ t.runq[cpu] # <<>>

Leave(t, cpu, state) == PlanNext([t EXCEPT !.meta[t.current[cpu]].state = state], cpu)

\* wake_on: where the thread is queued, NoCpu when it may run nowhere.
WakeTo(t, s) ==
    LET m == t.meta[s]
    IN  IF m.idle THEN m.cpu ELSE Place(t, m.affinity, m.cpu, m.priority)

CanWake(t, s) == t.meta[s] # None /\ t.meta[s].state = "Blocked" /\ WakeTo(t, s) # NoCpu

Wake(t, s) ==
    LET to == WakeTo(t, s)
    IN  [t EXCEPT !.runq[to] = Enqueued(t, @, s, t.meta[s].priority),
                  !.meta[s].state = "Ready",
                  !.meta[s].cpu = to]

\* balance: the first thread of the source's queue that may run here and is
\* not an idle thread.
Pullable(t, from, cpu) ==
    SelectSeq(t.runq[from], LAMBDA s : ~ t.meta[s].idle /\ cpu \in t.meta[s].affinity)

CanBalance(t, cpu) ==
    LET from == PullSource(Loads(t), cpu)
    IN  from # NoCpu /\ Pullable(t, from, cpu) # <<>>

BalanceOn(t, cpu) ==
    LET from == PullSource(Loads(t), cpu)
    IN  IF CanBalance(t, cpu) THEN MoveQueued(t, Head(Pullable(t, from, cpu)), from, cpu)
        ELSE t

\* reap: an exited thread's slot becomes free.
CanReap(t, s) == t.meta[s] # None /\ t.meta[s].state = "Exited"

Reap(t, s) == [t EXCEPT !.meta[s] = None, !.saved = @ \ {s}]
=============================================================================
