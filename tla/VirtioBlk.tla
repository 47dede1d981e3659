----------------------------- MODULE VirtioBlk -----------------------------
(***************************************************************************)
(* A virtio block device and its driver: the split ring                    *)
(* (drivers/virtio/src/queue.rs), the engine with a slot of buffers per    *)
(* request (drivers/block/virtio-blk-core/src/engine.rs), the kernel's     *)
(* host for it (drivers/block/virtio-blk/src/lib.rs) and the block layer's *)
(* tickets (kernel/block/src/lib.rs).                                      *)
(*                                                                         *)
(* Callers submit, look and finish under the device's lock, one step each, *)
(* and wait with it released; the interrupt handler takes it to drain.     *)
(* The device follows the protocol: it takes chains in the order they were *)
(* published, serves them in any order and as late as it likes.  A request *)
(* is of one block, and a write's data is the name of its caller.          *)
(***************************************************************************)
EXTENDS Integers, Sequences, SequencesExt, FiniteSets, FiniteSetsExt

CONSTANT Rigs   \* the shapes of queue and load to check; see Rig's fields below

VARIABLES
    rig,         \* the chosen one of Rigs
    ring,        \* the descriptors, the available ring and the driver's indices
    engine,      \* the engine's slots, and the buffers of each
    requests,    \* the block layer's queue
    caller,      \* what each caller is doing, and how its last request ended
    interrupt,   \* interrupt_driven, the device's interrupt, the handler
    device       \* chains the device took, the used ring, its medium

virtioVars == <<rig, ring, engine, requests, caller, interrupt, device>>

QueueSize == rig.size                 \* QUEUE_SIZE
IndexMod == rig.indexMod              \* what the ring's 16-bit indices count modulo
EngineSlots == 1 .. rig.inFlight      \* IN_FLIGHT
TicketSlots == 1 .. rig.tickets       \* REQUESTS
Callers == 1 .. rig.callers
MaxRequests == rig.maxRequests        \* bound: requests made
Loads == rig.loads                    \* the operations and sectors asked for
Statuses == rig.statuses              \* how the device may end a request: "ok", "ioerr"
Sectors == {load.sector : load \in Loads}
Descriptors == 0 .. QueueSize - 1
NoHead == -1      \* None, for a head descriptor
NoSerial == 0     \* None, for a ticket slot
Nothing == "nothing"

-----------------------------------------------------------------------------
(* drivers/virtio/src/queue.rs *)

\* Ring::new: every descriptor links to the next, the last to itself.
NewRing ==
    [next      |-> [d \in Descriptors |-> IF d + 1 < QueueSize THEN d + 1 ELSE d],
     more      |-> [d \in Descriptors |-> FALSE],        \* VIRTQ_DESC_F_NEXT
     buf       |-> [d \in Descriptors |-> Nothing],      \* whose buffer it names
     avail     |-> [d \in Descriptors |-> 0],
     freeHead  |-> 0,
     freeCount |-> QueueSize,
     availIdx  |-> 0,
     lastUsed  |-> 0]

\* The n descriptors linked from d.
Linked(r, d, n) ==
    LET at[k \in 1 .. n] == IF k = 1 THEN d ELSE r.next[at[k - 1]]
    IN  [k \in 1 .. n |-> at[k]]

\* The chain published at head: linked until NEXT is clear, at most the queue long.
Chain(r, head) ==
    LET walk == Linked(r, head, QueueSize)
        ends == {k \in 1 .. QueueSize : k = QueueSize \/ ~ r.more[walk[k]]}
    IN  SubSeq(walk, 1, Min(ends))

\* Put one descriptor on the free list.
FreeOne(r, d) ==
    [r EXCEPT !.next[d] = r.freeHead, !.freeHead = d, !.freeCount = @ + 1]

\* Mutant: the chain's last descriptor, whose NEXT is clear, is not freed.
FreeChainShort(r, head) == FoldLeft(FreeOne, r, Front(Chain(r, head)))

FreeChain(r, head) == FoldLeft(FreeOne, r, Chain(r, head))

Fits(r, bufs) == Len(bufs) <= r.freeCount

\* Ring::add for a chain that fits: its head is r.freeHead.
Add(r, bufs) ==
    LET n == Len(bufs)
        chain == Linked(r, r.freeHead, n)
        Place(d) == CHOOSE k \in 1 .. n : chain[k] = d
    IN  [r EXCEPT
            !.buf = [d \in Descriptors |-> IF d \in ToSet(chain) THEN bufs[Place(d)] ELSE r.buf[d]],
            !.more = [d \in Descriptors |-> IF d \in ToSet(chain) THEN Place(d) < n ELSE r.more[d]],
            !.freeHead = r.next[chain[n]],
            !.freeCount = @ - n,
            !.avail[r.availIdx % QueueSize] = r.freeHead,
            !.availIdx = (@ + 1) % IndexMod]

-----------------------------------------------------------------------------
(* drivers/block/virtio-blk-core/src/engine.rs *)

FreshSlot ==
    [head |-> NoHead, done |-> FALSE,
     header |-> Nothing, status |-> "unwritten", bounce |-> 0]

\* The slots nothing is using: publish takes the first.
OpenSlots == {s \in EngineSlots : engine[s].head = NoHead /\ ~ engine[s].done}

\* The buffers of a request in slot s, as the chain names them.
ChainOf(op, s) ==
    LET Part(p) == [part |-> p, slot |-> s]
    IN  IF op = "flush" THEN <<Part("header"), Part("status")>>
                        ELSE <<Part("header"), Part("bounce"), Part("status")>>

\* A slot, and room in the ring for the chain: the same length whichever slot.
RoomFor(op) == \E s \in OpenSlots : Fits(ring, ChainOf(op, s))

\* Engine::publish in slot s of a request whose chain fits the ring.
Publish(s, op, sector, data) ==
    /\ ring' = Add(ring, ChainOf(op, s))
    /\ engine' = [engine EXCEPT ![s] =
           [@ EXCEPT !.head = ring.freeHead,
                     !.header = [op |-> op, sector |-> sector],
                     !.status = "unwritten",
                     !.bounce = IF op = "write" THEN data ELSE @]]

\* The heads in the used ring that the driver has not collected, oldest first.
Uncollected ==
    [k \in 1 .. (device.usedIdx - ring.lastUsed) % IndexMod |->
        device.used[(ring.lastUsed + k - 1) % QueueSize]]

\* poll_used, and the slot it is for, if any, marked done.
Collect(both, head) ==
    [ring   |-> [FreeChain(both.ring, head) EXCEPT !.lastUsed = (@ + 1) % IndexMod],
     engine |-> [s \in EngineSlots |->
                    IF both.engine[s].head = head
                    THEN [both.engine[s] EXCEPT !.head = NoHead, !.done = TRUE]
                    ELSE both.engine[s]]]

\* Mutant: one completion collected for each interrupt or look.
DrainedOne ==
    FoldLeft(Collect, [ring |-> ring, engine |-> engine],
             SubSeq(Uncollected, 1, Min({1, Len(Uncollected)})))

\* Engine::drain: the ring and the slots after every completion is collected.
Drained == FoldLeft(Collect, [ring |-> ring, engine |-> engine], Uncollected)

\* Mutant: a request that timed out gives its slot back.
ReleaseAlways(slot, timedOut) ==
    [slot EXCEPT !.done = FALSE, !.head = IF timedOut THEN NoHead ELSE @]

\* Engine::finish's release of a slot.
Release(slot, timedOut) == [slot EXCEPT !.done = IF timedOut THEN @ ELSE FALSE]

-----------------------------------------------------------------------------
(* kernel/block/src/lib.rs, Queue, and VirtioBlk::request over it *)

OpenTickets == {t \in TicketSlots : requests.tickets[t] = NoSerial}

\* Queue::submit in slot t.
Ticketed(t) ==
    [requests EXCEPT !.tickets[t] = requests.serial, !.serial = @ + 1, !.issued = @ + 1]

\* Queue::complete and Queue::take of a ticket that is not stale.
Settled(q, t, outcome) ==
    [q EXCEPT !.tickets[t] = NoSerial, !.completed = @ + 1,
              !.failed = IF outcome = "ok" THEN @ ELSE @ + 1]

Idle == [pc |-> "idle", op |-> Nothing, sector |-> 0, serial |-> 0, ticket |-> 0, slot |-> 0,
         head |-> NoHead, did |-> {}, outcome |-> Nothing, got |-> 0]

\* The first lock: a ticket, then a slot with its chain published.
SubmitNoTicket(c) ==
    /\ OpenTickets = {}
    /\ caller' = [caller EXCEPT ![c] = [Idle EXCEPT !.outcome = "noRoom"]]
    /\ UNCHANGED <<ring, engine, requests>>

\* Every slot is taken, or the ring is full: the ticket is completed and taken back.
SubmitNoRoom(c, op) ==
    /\ OpenTickets # {}
    /\ ~ RoomFor(op)
    /\ caller' = [caller EXCEPT ![c] = [Idle EXCEPT !.outcome = "noRoom"]]
    /\ LET t == Min(OpenTickets) IN requests' = Settled(Ticketed(t), t, "noRoom")
    /\ UNCHANGED <<ring, engine>>

SubmitPublished(c, op, sector) ==
    LET t == Min(OpenTickets)
        s == Min(OpenSlots)
    IN  /\ OpenTickets # {} /\ RoomFor(op)
        /\ Publish(s, op, sector, c)
        /\ requests' = Ticketed(t)
        /\ caller' = [caller EXCEPT ![c] =
               [Idle EXCEPT !.pc = "waiting", !.op = op, !.sector = sector, !.slot = s,
                            !.serial = requests.serial, !.ticket = t, !.head = ring.freeHead]]

Submit(c, op, sector) ==
    /\ caller[c].pc = "idle" /\ requests.issued < MaxRequests
    /\ \/ SubmitNoTicket(c)
       \/ SubmitNoRoom(c, op)
       \/ SubmitPublished(c, op, sector)
    /\ UNCHANGED <<rig, interrupt, device>>

\* One look under the lock.  With its request not done and nothing else
\* collecting, the caller drains; then it has its status, or looks again, or
\* has looked as often as poll_limit allows.
Look(c) ==
    LET me == caller[c]
        after == IF ~ engine[me.slot].done /\ ~ interrupt.driven
                 THEN Drained ELSE [ring |-> ring, engine |-> engine]
        mine == after.engine[me.slot]
        Decide(outcome) == caller' = [caller EXCEPT ![c].pc = "finishing", ![c].outcome = outcome]
    IN  /\ me.pc = "waiting"
        /\ ring' = after.ring /\ engine' = after.engine
        /\ \/ mine.done /\ Decide(mine.status)
           \/ ~ mine.done /\ UNCHANGED caller
           \/ ~ mine.done /\ Decide("timeout")
        /\ UNCHANGED <<rig, requests, interrupt, device>>

\* The last lock: the data out of the slot, the slot, and the ticket.
Finish(c) ==
    LET me == caller[c]
        stale == requests.tickets[me.ticket] # me.serial
    IN  /\ me.pc = "finishing"
        /\ engine' = [engine EXCEPT ![me.slot] = Release(@, me.outcome = "timeout")]
        /\ caller' = [caller EXCEPT ![c] =
               [Idle EXCEPT !.outcome = IF stale THEN "stale" ELSE me.outcome,
                            !.got = IF me.op = "read" /\ me.outcome = "ok" THEN engine[me.slot].bounce ELSE 0]]
        /\ requests' = IF stale THEN requests ELSE Settled(requests, me.ticket, me.outcome)
        /\ UNCHANGED <<rig, ring, interrupt, device>>

\* on_interrupt: the status register clears as it is read, before the lock.
OnInterrupt ==
    /\ interrupt.raised /\ interrupt.handler = "idle"
    /\ interrupt' = [interrupt EXCEPT !.raised = FALSE, !.handler = "acknowledged"]
    /\ UNCHANGED <<rig, ring, engine, requests, caller, device>>

OnInterruptDrains ==
    /\ interrupt.handler = "acknowledged"
    /\ interrupt' = [interrupt EXCEPT !.handler = "idle"]
    /\ ring' = Drained.ring /\ engine' = Drained.engine
    /\ UNCHANGED <<rig, requests, caller, device>>

-----------------------------------------------------------------------------
(* The device, outside the kernel: what it may do with a chain. *)

\* The chains published since the device last looked.  Taking them late and
\* taking them just before serving one come to the same: what they name stays.
Published ==
    {ring.avail[(device.seen + k) % QueueSize] : k \in 0 .. ((ring.availIdx - device.seen) % IndexMod) - 1}

\* The device serves the chain at head, well or with an error, writes the used
\* element and raises its interrupt.  The caller whose chain it is, if it is
\* still that caller's, remembers what the device did (did is history).
DeviceServes(head, status) ==
    LET chain == Chain(ring, head)
        last == Len(chain)
        header == engine[ring.buf[chain[1]].slot].header
        data == ring.buf[chain[2]].slot
        moves == status = "ok" /\ last = 3
        held == device.medium[header.sector]
        written == engine[data].bounce
        did == [op |-> header.op, sector |-> header.sector, status |-> status,
                data |-> IF header.op = "write" THEN written ELSE held]
        Answered(c) == caller[c].head = head /\ caller[c].did = {}
    IN  /\ head \in device.taken \cup Published
        /\ engine' = [s \in EngineSlots |->
               [engine[s] EXCEPT
                   !.status = IF s = ring.buf[chain[last]].slot THEN status ELSE @,
                   !.bounce = IF s = data /\ moves /\ header.op = "read" THEN held ELSE @]]
        /\ device' = [device EXCEPT
               !.taken = (@ \cup Published) \ {head},
               !.seen = ring.availIdx,
               !.used[device.usedIdx % QueueSize] = head,
               !.usedIdx = (@ + 1) % IndexMod,
               !.medium[header.sector] = IF moves /\ header.op = "write" THEN written ELSE @]
        /\ interrupt' = [interrupt EXCEPT !.raised = TRUE]
        /\ caller' = [c \in Callers |-> IF Answered(c) THEN [caller[c] EXCEPT !.did = {did}] ELSE caller[c]]
        /\ UNCHANGED <<rig, ring, requests>>

-----------------------------------------------------------------------------
VirtioInit ==
    /\ rig \in Rigs
    /\ ring = NewRing
    /\ engine = [s \in EngineSlots |-> FreshSlot]
    /\ requests = [tickets |-> [t \in TicketSlots |-> NoSerial], serial |-> 1,
                   issued |-> 0, completed |-> 0, failed |-> 0]
    /\ caller = [c \in Callers |-> Idle]
    /\ interrupt = [driven |-> rig.driven, raised |-> FALSE, handler |-> "idle"]
    /\ device = [seen |-> 0, taken |-> {}, used |-> [d \in Descriptors |-> 0], usedIdx |-> 0,
                 medium |-> [s \in Sectors |-> 0]]

VirtioNext ==
    \/ \E c \in Callers, load \in Loads : Submit(c, load.op, load.sector)
    \/ \E c \in Callers : Look(c) \/ Finish(c)
    \/ OnInterrupt
    \/ OnInterruptDrains
    \/ \E head \in Descriptors, status \in Statuses : DeviceServes(head, status)

VirtioSpec == VirtioInit /\ [][VirtioNext]_virtioVars

-----------------------------------------------------------------------------
(* Properties. *)

\* The free list and the chains the device may still name share out the
\* descriptors: no descriptor is in two of them and none is lost, whatever
\* order completions came in (queue.rs add and free_chain), and the tickets
\* account for every request ("issued == completed + in_flight always holds",
\* kernel/block/src/lib.rs).
RingSound ==
    LET free == ToSet(Linked(ring, ring.freeHead, ring.freeCount))
        out == device.taken \cup Published \cup ToSet(Uncollected)
        Of(head) == ToSet(Chain(ring, head))
    IN  /\ Cardinality(free) = ring.freeCount
        /\ UNION {Of(h) : h \in out} = Descriptors \ free
        /\ \A g, h \in out : g # h => Of(g) \cap Of(h) = {}
        /\ requests.issued = requests.completed
              + Cardinality({t \in TicketSlots : requests.tickets[t] # NoSerial})

\* A request that ends well is one the device did for that request and no
\* other: the operation and sector asked, the data it moved, and for a read
\* the bytes the caller got; one that ends with a device error is one the
\* device refused.  A completion that comes after its request timed out never
\* reaches a later request through a reused slot (engine.rs finish).
ResultsAreOwn ==
    [][\A c \in Callers :
           LET asked == caller[c]
               result == caller'[c]
           IN  asked.pc = "finishing" /\ result.pc = "idle" /\ result.outcome \in {"ok", "ioerr"} =>
                   \E did \in asked.did :
                       /\ did.op = asked.op /\ did.sector = asked.sector
                       /\ did.status = result.outcome
                       /\ result.outcome = "ok" /\ asked.op = "read" => result.got = did.data
                       /\ asked.op = "write" => did.data = c]_virtioVars

\* A completion nobody has collected is always announced: the interrupt is
\* raised, or the handler has acknowledged it and has yet to drain.  A waiter
\* that leaves collecting to the handler never waits for an interrupt that was
\* acknowledged away (virtio-blk lib.rs on_interrupt, "Acknowledging first").
CompletionAnnounced ==
    device.usedIdx # ring.lastUsed => interrupt.raised \/ interrupt.handler = "acknowledged"
=============================================================================
