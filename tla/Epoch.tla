-------------------------------- MODULE Epoch --------------------------------
(***************************************************************************)
(* Epoch-based reclamation (kernel/sync/src/epoch.rs): the collector, its  *)
(* per-CPU participants and limbo bags, and EpochPtr, the pointer that     *)
(* readers follow under a guard and a serialised writer replaces.          *)
(*                                                                         *)
(* Each step is one access to shared memory or one critical section, so    *)
(* the epoch may move between any two of them.  Accesses are SeqCst, hence *)
(* interleaved.  A guard masks interrupts, so a CPU inside one is a single *)
(* thread of control; `flush` runs outside every guard, in a thread of its *)
(* own.  A node that is reclaimed is fresh again and may be published anew.*)
(***************************************************************************)
EXTENDS Integers, FiniteSets

CONSTANTS
    N,          \* CPUS: participants
    BAG,        \* capacity of a limbo bag
    M,          \* EPOCH_MASK + 1: epochs are counted modulo M, a power of two
    MaxDepth,   \* nesting of guards (a bound)
    FirstEpoch, \* the epoch the collector is found at, with nothing retired
    MaxEpoch,   \* the epoch no advance leaves (a bound)
    Nodes,
    Null,
    Flusher,    \* the thread that calls flush
    Quiescent   \* whether flush runs only while no CPU is at work

ASSUME EpochAssumption ==
    /\ N \in Nat \ {0} /\ BAG \in Nat \ {0} /\ MaxDepth \in Nat \ {0}
    /\ M \in Nat /\ M >= 4 /\ FirstEpoch \in 0 .. M - 1 /\ MaxEpoch \in 0 .. M - 1
    /\ Null \notin Nodes \cup 0 .. N - 1 \cup {Flusher} /\ Flusher \notin 0 .. N - 1
    /\ Quiescent \in BOOLEAN

Cpus == 0 .. N - 1
Processes == Cpus \cup {Flusher}
Epochs == 0 .. M - 1

VARIABLES
    global,     \* the global epoch
    state,      \* per CPU: the state word, an epoch and the ACTIVE bit
    depth,      \* per CPU: guards nested
    bags,       \* per CPU: the retired nodes with their epochs
    advancing,  \* who holds the advance lock, or Null
    ptr,        \* the EpochPtr
    writer,     \* which CPU holds the writers' lock, or Null
    owed,       \* per CPU: a node it has unlinked and not retired yet, or Null
    fresh,      \* nodes nothing knows of
    reading,    \* per CPU: the nodes loaded under its outermost guard
    loc         \* per process: where it is, and its local variables

epochVars == <<global, state, depth, bags, advancing, ptr, writer, owed, fresh, reading, loc>>

\* A process's place: at `pc`, in the `tries`-th round of a retry loop, to go on
\* at `ret` after advancing and reclaiming; `seen` is the epoch it loaded, `at`
\* the participant a loop over them has come to.
At(pc) == [pc |-> pc, ret |-> "in", tries |-> 0, seen |-> 0, at |-> 0]

EpochInit ==
    /\ global = FirstEpoch
    /\ state = [c \in Cpus |-> [epoch |-> 0, active |-> FALSE]]
    /\ depth = [c \in Cpus |-> 0]
    /\ bags = [c \in Cpus |-> {}]
    /\ advancing = Null
    /\ ptr = Null
    /\ writer = Null
    /\ owed = [c \in Cpus |-> Null]
    /\ fresh = Nodes
    /\ reading = [c \in Cpus |-> {}]
    /\ loc = [p \in Processes |-> At("out")]

Goto(p, place) == loc' = [loc EXCEPT ![p] = place]

-----------------------------------------------------------------------------
(* Guards. *)

\* pin, outermost: load the global epoch ...
PinLoad(c) ==
    /\ loc[c].pc = "out"
    /\ Quiescent => loc[Flusher].pc = "out"
    /\ Goto(c, [At("pin") EXCEPT !.seen = global])
    /\ UNCHANGED <<global, state, depth, bags, advancing, ptr, writer, owed, fresh, reading>>

\* ... then store it, with the ACTIVE bit.
PinStore(c) ==
    /\ loc[c].pc = "pin"
    /\ state' = [state EXCEPT ![c] = [epoch |-> loc[c].seen, active |-> TRUE]]
    /\ depth' = [depth EXCEPT ![c] = 1]
    /\ Goto(c, At("in"))
    /\ UNCHANGED <<global, bags, advancing, ptr, writer, owed, fresh, reading>>

\* pin, nested: only the depth changes.
PinNested(c) ==
    /\ loc[c].pc = "in"
    /\ depth[c] < MaxDepth
    /\ depth' = [depth EXCEPT ![c] = @ + 1]
    /\ UNCHANGED <<global, state, bags, advancing, ptr, writer, owed, fresh, reading, loc>>

Leaves(c) == depth[c] = 1

\* Guard::drop: the outermost one clears the ACTIVE bit.
Unpin(c) ==
    /\ loc[c].pc = "in"
    /\ depth' = [depth EXCEPT ![c] = @ - 1]
    /\ state' = [state EXCEPT ![c].active = @ /\ ~ Leaves(c)]
    /\ reading' = [reading EXCEPT ![c] = IF depth[c] = 1 THEN {} ELSE @]
    /\ loc' = IF depth[c] = 1 THEN [loc EXCEPT ![c] = At("out")] ELSE loc
    /\ UNCHANGED <<global, bags, advancing, ptr, writer, owed, fresh>>

\* EpochPtr::load.
Load(c) ==
    /\ loc[c].pc = "in"
    /\ ptr # Null
    /\ reading' = [reading EXCEPT ![c] = @ \cup {ptr}]
    /\ UNCHANGED <<global, state, depth, bags, advancing, ptr, writer, owed, fresh, loc>>

-----------------------------------------------------------------------------
(* try_advance and reclaim_from. *)

\* Take the advance lock and load the global epoch.
AdvanceBegin(p) ==
    /\ loc[p].pc = "advance"
    /\ advancing = Null
    /\ advancing' = p
    /\ Goto(p, [loc[p] EXCEPT !.pc = "scan", !.seen = global, !.at = 0])
    /\ UNCHANGED <<global, state, depth, bags, ptr, writer, owed, fresh, reading>>

\* Where a process goes when try_advance returns: a CPU reclaims from its own
\* bag; flush advances twice unless held back, then visits every bag.
Advanced(p, ok) ==
    IF p = Flusher
    THEN IF ok /\ loc[p].tries = 0 THEN [At("advance") EXCEPT !.tries = 1] ELSE At("load")
    ELSE [loc[p] EXCEPT !.pc = "load", !.seen = 0, !.at = p]

\* Mutant: a participant one epoch behind is let pass.
HoldsBackLate(s, g) == s.active /\ s.epoch # g /\ (s.epoch + 1) % M # g

\* Whether a participant's state word holds the epoch g back.
HoldsBack(s, g) == s.active /\ s.epoch # g

\* Load the state word of the next participant; stop at one that holds back.
AdvanceScan(p) ==
    /\ loc[p].pc = "scan"
    /\ loc[p].at < N
    /\ \/ /\ HoldsBack(state[loc[p].at], loc[p].seen)
          /\ advancing' = Null
          /\ Goto(p, Advanced(p, FALSE))
       \/ /\ ~ HoldsBack(state[loc[p].at], loc[p].seen)
          /\ Goto(p, [loc[p] EXCEPT !.at = @ + 1])
          /\ UNCHANGED advancing
    /\ UNCHANGED <<global, state, depth, bags, ptr, writer, owed, fresh, reading>>

\* A bound: the two accesses of a pin, made with interrupts masked, do not last
\* for a whole cycle of the epoch counter (2^31 or 2^63 advances in the kernel).
PinsAreShort ==
    \A c \in Cpus : loc[c].pc = "pin" => (global + 1 - loc[c].seen) % M < M - 1

\* Every participant has been seen: store the next epoch and unlock.
AdvanceStore(p) ==
    /\ loc[p].pc = "scan"
    /\ loc[p].at = N
    /\ PinsAreShort
    /\ global # MaxEpoch
    /\ global' = (loc[p].seen + 1) % M
    /\ advancing' = Null
    /\ Goto(p, Advanced(p, TRUE))
    /\ UNCHANGED <<state, depth, bags, ptr, writer, owed, fresh, reading>>

\* reclaim_from: load the global epoch, outside the bag's lock ...
ReclaimLoad(p) ==
    /\ loc[p].pc = "load"
    /\ Goto(p, [loc[p] EXCEPT !.pc = "take", !.seen = global])
    /\ UNCHANGED <<global, state, depth, bags, advancing, ptr, writer, owed, fresh, reading>>

\* Mutant: a reclamation waits one epoch longer than it needs.
ReclaimableAfterThree(retired, now) == (now - retired) % M >= 3

\* Whether a node retired at one epoch may be reclaimed at another.
Reclaimable(retired, now) == (now - retired) % M >= 2

\* Where a process goes when reclaim_from returns.
Reclaimed(p) ==
    IF p = Flusher
    THEN IF loc[p].at + 1 < N THEN [At("load") EXCEPT !.at = loc[p].at + 1] ELSE At("out")
    ELSE IF loc[p].ret = "in" THEN At("in")
    ELSE [At(loc[p].ret) EXCEPT !.tries = loc[p].tries + 1]

\* ... then, under it, take a node that epoch makes ready and reclaim it, and
\* begin again; or return if there is none.
ReclaimTake(p) ==
    LET bag == loc[p].at
        ready == {d \in bags[bag] : Reclaimable(d.epoch, loc[p].seen)}
    IN  /\ loc[p].pc = "take"
        /\ loc[bag].pc # "push"
        /\ \/ \E d \in ready :
                /\ bags' = [bags EXCEPT ![bag] = @ \ {d}]
                /\ fresh' = fresh \cup {d.node}
                /\ Goto(p, [loc[p] EXCEPT !.pc = "load", !.seen = 0])
           \/ /\ ready = {}
              /\ Goto(p, Reclaimed(p))
              /\ UNCHANGED <<bags, fresh>>
        /\ UNCHANGED <<global, state, depth, advancing, ptr, writer, owed, reading>>

-----------------------------------------------------------------------------
(* collect, retire, replace and flush. *)

Collect(c) ==
    /\ loc[c].pc = "in"
    /\ Goto(c, At("advance"))
    /\ UNCHANGED <<global, state, depth, bags, advancing, ptr, writer, owed, fresh, reading>>

\* A caller unlinks the node itself; it is then its own to retire.
Unlink(c) ==
    /\ loc[c].pc = "in"
    /\ writer = Null /\ owed[c] = Null /\ ptr # Null
    /\ owed' = [owed EXCEPT ![c] = ptr]
    /\ ptr' = Null
    /\ UNCHANGED <<global, state, depth, bags, advancing, writer, fresh, reading, loc>>

\* retire of a node unlinked before, or refused before.
Retire(c) ==
    /\ loc[c].pc = "in"
    /\ owed[c] # Null
    /\ Goto(c, At("stamp"))
    /\ UNCHANGED <<global, state, depth, bags, advancing, ptr, writer, owed, fresh, reading>>

\* retire, under the bag's lock: load the epoch the node is stamped with ...
Stamp(c) ==
    /\ loc[c].pc = "stamp"
    /\ Goto(c, [loc[c] EXCEPT !.pc = "push", !.seen = global])
    /\ UNCHANGED <<global, state, depth, bags, advancing, ptr, writer, owed, fresh, reading>>

HasRoom(c) == Cardinality(bags[c]) < BAG

\* ... and push it.  A full bag is retried after advancing and reclaiming, twice;
\* then the node is refused and stays the caller's.
Push(c) ==
    /\ loc[c].pc = "push"
    /\ \/ /\ HasRoom(c)
          /\ bags' = [bags EXCEPT ![c] = @ \cup {[node |-> owed[c], epoch |-> loc[c].seen]}]
          /\ owed' = [owed EXCEPT ![c] = Null]
          /\ Goto(c, At("in"))
          /\ writer' = IF writer = c THEN Null ELSE writer
       \/ /\ ~ HasRoom(c)
          /\ loc[c].tries < 2
          /\ Goto(c, [loc[c] EXCEPT !.pc = "advance", !.ret = "stamp", !.seen = 0])
          /\ UNCHANGED <<bags, owed, writer>>
       \/ /\ ~ HasRoom(c)
          /\ loc[c].tries = 2
          /\ Goto(c, At("in"))
          /\ writer' = IF writer = c THEN Null ELSE writer
          /\ UNCHANGED <<bags, owed>>
    /\ UNCHANGED <<global, state, depth, advancing, ptr, fresh, reading>>

\* replace, with the writers' lock held by the caller.
Replace(c) ==
    /\ loc[c].pc = "in"
    /\ writer = Null /\ owed[c] = Null
    /\ writer' = c
    /\ Goto(c, At("room"))
    /\ UNCHANGED <<global, state, depth, bags, advancing, ptr, owed, fresh, reading>>

\* replace makes room first, advancing and reclaiming up to twice; a refusal
\* comes before anything is stored.
MakeRoom(c) ==
    /\ loc[c].pc = "room"
    /\ \/ /\ HasRoom(c)
          /\ Goto(c, At("swap"))
          /\ UNCHANGED writer
       \/ /\ ~ HasRoom(c)
          /\ loc[c].tries < 2
          /\ Goto(c, [loc[c] EXCEPT !.pc = "advance", !.ret = "room"])
          /\ UNCHANGED writer
       \/ /\ ~ HasRoom(c)
          /\ loc[c].tries = 2
          /\ Goto(c, At("in"))
          /\ writer' = Null
    /\ UNCHANGED <<global, state, depth, bags, advancing, ptr, owed, fresh, reading>>

\* Point readers at new, a fresh node or null; retire what they were reading.
Swap(c, new) ==
    /\ loc[c].pc = "swap"
    /\ ptr' = new
    /\ fresh' = fresh \ {new}
    /\ owed' = [owed EXCEPT ![c] = ptr]
    /\ Goto(c, IF ptr = Null THEN At("in") ELSE At("stamp"))
    /\ writer' = IF ptr = Null THEN Null ELSE writer
    /\ UNCHANGED <<global, state, depth, bags, advancing, reading>>

\* flush: up to two advances, then every CPU's bag.
Flush ==
    /\ loc[Flusher].pc = "out"
    /\ Quiescent => \A c \in Cpus : loc[c].pc = "out"
    /\ Goto(Flusher, At("advance"))
    /\ UNCHANGED <<global, state, depth, bags, advancing, ptr, writer, owed, fresh, reading>>

EpochNext ==
    \/ \E c \in Cpus :
        \/ PinLoad(c) \/ PinStore(c) \/ PinNested(c) \/ Unpin(c) \/ Load(c)
        \/ Collect(c) \/ Unlink(c) \/ Retire(c) \/ Stamp(c) \/ Push(c)
        \/ Replace(c) \/ MakeRoom(c)
        \/ \E new \in fresh \cup {Null} : Swap(c, new)
    \/ \E p \in Processes :
        \/ AdvanceBegin(p) \/ AdvanceScan(p) \/ AdvanceStore(p)
        \/ ReclaimLoad(p) \/ ReclaimTake(p)
    \/ Flush

EpochSpec == EpochInit /\ [][EpochNext]_epochVars
-----------------------------------------------------------------------------
\* A flush at a quiescent point leaves nothing in any bag: nobody holds its two
\* advances back, and two are enough for what was retired last.
FlushLeavesNothing ==
    [][loc[Flusher].pc = "take" /\ loc'[Flusher].pc = "out" =>
        \A c \in Cpus : bags'[c] = {}]_epochVars

\* The places a node can be in.
PlacesOf(n) ==
    (IF n \in fresh THEN {<<"fresh">>} ELSE {})
    \cup (IF ptr = n THEN {<<"ptr">>} ELSE {})
    \cup {<<"owed", c>> : c \in {x \in Cpus : owed[x] = n}}
    \cup UNION {{<<"bag", c, d.epoch>> : d \in {x \in bags[c] : x.node = n}} : c \in Cpus}

\* A node is never reclaimed while a guard that could have reached it is alive:
\* what a reader has loaded stays valid until its outermost guard drops.  And
\* every node is in exactly one place, so none is retired or reclaimed twice
\* and none is lost, however retirements are refused and tried again.
NeverReclaimedWhileRead ==
    /\ \A c \in Cpus : reading[c] \cap fresh = {}
    /\ \A n \in Nodes : \E place \in PlacesOf(n) : PlacesOf(n) = {place}
=============================================================================
