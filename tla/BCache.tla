------------------------------- MODULE BCache -------------------------------
(***************************************************************************)
(* The block cache, kernel/bcache/src/lib.rs.                              *)
(*                                                                         *)
(* A call runs alone (a filesystem owns its cache), but it may move        *)
(* several blocks and power may be cut, or the device may fail, between    *)
(* any two of them.  So a call is entered, writes out one block per step   *)
(* while it has blocks to write out, and then finishes.  A loop over       *)
(* several blocks (read_at, write_at) is one call per block.  A block's    *)
(* bytes are one or two parts, so that a write that covers part of a block *)
(* is told from one that covers all of it.  The use times of the slots are *)
(* their ranks, the slot used last having the highest.                     *)
(* latest and doubt are history: what a reader is owed, and the blocks     *)
(* whose write-through failed, for which it is owed either contents.       *)
(***************************************************************************)
EXTENDS Naturals, FiniteSets, FiniteSetsExt

CONSTANT
    Setups      \* the devices and caches a behaviour may be about

\* A device of `blocks` blocks, each of `parts` parts a write can cover, that keeps
\* what it is given in a write cache of its own if it is volatile, and a cache
\* of `slots` slots.  The last two are bounds, on the generation counter and on
\* the blocks whose write-through failed at once.
ASSUME CacheAssumption ==
    Setups \subseteq [blocks : Nat \ {0}, parts : Nat \ {0}, volatile : BOOLEAN,
                      slots : Nat \ {0}, generations : Nat \ {0}, doubts : Nat]

VARIABLES
    setup,
    slots,       \* Slot and the bytes at its index
    used,        \* used_at, as a rank
    generation,  \* Cache::generation
    disk,        \* the device's blocks
    call,        \* the call in progress
    latest,      \* what the last write that succeeded left in each block
    doubt        \* blocks whose write-through failed

cacheVars == <<setup, slots, used, generation, disk, call, latest, doubt>>

NBlocks == setup.blocks
NSlots == setup.slots
MaxGeneration == setup.generations
MaxDoubt == setup.doubts
Bytes == {0, 1}  \* what one part of a block can hold
Blocks == 1..NBlocks
SlotIds == 1..NSlots
Halves == 1..setup.parts
Contents == [Halves -> Bytes]
Blank == [h \in Halves |-> 0]

Slot(b, c, dirty, g) == [lba |-> b, bytes |-> c, valid |-> TRUE, dirty |-> dirty, generation |-> g]
EmptySlot == [lba |-> 0, bytes |-> Blank, valid |-> FALSE, dirty |-> FALSE, generation |-> 0]

NoCall == [op |-> "none"]

DirtySlots(upto) == {i \in SlotIds : slots[i].dirty /\ slots[i].generation <= upto}

\* Cache::cached: the slots holding b.
Cached(b) == {i \in SlotIds : slots[i].valid /\ slots[i].lba = b}

\* Cache::tick and the use time it stamps.
Touch(i) ==
    [j \in SlotIds |-> IF j = i THEN NSlots ELSE IF used[j] > used[i] THEN used[j] - 1 ELSE used[j]]

Over(c, part, v) == [h \in Halves |-> IF h \in part THEN v ELSE c[h]]

-----------------------------------------------------------------------------
(* write_out: one block of the lowest generation per step. *)

\* The dirty slot write_out takes next: lowest generation, lowest block.
NextOut(upto) ==
    CHOOSE i \in DirtySlots(upto) : \A j \in DirtySlots(upto) :
        \/ slots[i].generation < slots[j].generation
        \/ slots[i].generation = slots[j].generation /\ slots[i].lba <= slots[j].lba

\* The device takes the block, and the slot is clean.
WriteOut ==
    /\ call.op # "none"
    /\ DirtySlots(call.upto) # {}
    /\ LET i == NextOut(call.upto) IN
           /\ disk' = [disk EXCEPT ![slots[i].lba] = slots[i].bytes]
           /\ slots' = [slots EXCEPT ![i].dirty = FALSE]
    /\ UNCHANGED <<used, generation, call, latest, doubt>>

\* Mutant of WriteOutFails: the slot is marked clean before the device answers.
WriteOutFailsClean ==
    /\ call.op # "none"
    /\ DirtySlots(call.upto) # {}
    /\ slots' = [slots EXCEPT ![NextOut(call.upto)].dirty = FALSE]
    /\ call' = NoCall
    /\ UNCHANGED <<disk, used, generation, latest, doubt>>

\* The device fails: the call ends with an error and the slot stays dirty.
\* A request that timed out may have been done all the same.
WriteOutFails ==
    /\ call.op # "none"
    /\ DirtySlots(call.upto) # {}
    /\ LET i == NextOut(call.upto) IN
           disk' \in {disk, [disk EXCEPT ![slots[i].lba] = slots[i].bytes]}
    /\ call' = NoCall
    /\ UNCHANGED <<slots, used, generation, latest, doubt>>

-----------------------------------------------------------------------------
(* Entering a call: what it must write out before it can go on. *)

\* victim's pressure: every slot is dirty, so the lowest generation goes.
PressureUpto ==
    IF \A i \in SlotIds : slots[i].valid /\ slots[i].dirty
    THEN Min({slots[i].generation : i \in SlotIds})
    ELSE 0

\* Mutant of RuleTwoUpto: write_at changes an older dirty slot in place.
RuleTwoDropped(i) == 0

\* Rule 2: bytes from an earlier generation go before they change.
RuleTwoUpto(i) ==
    IF slots[i].dirty /\ slots[i].generation < generation THEN slots[i].generation ELSE 0

ReadUpto(b) == IF Cached(b) # {} THEN 0 ELSE PressureUpto
WriteUpto(b) == IF Cached(b) # {} THEN RuleTwoUpto(Min(Cached(b))) ELSE PressureUpto

ReadAt(b) ==
    /\ call = NoCall
    /\ call' = [op |-> "read", lba |-> b, upto |-> ReadUpto(b)]
    /\ UNCHANGED <<slots, used, generation, disk, latest, doubt>>

WriteAt(b, part, v) ==
    /\ call = NoCall
    /\ call' = [op |-> "write", lba |-> b, part |-> part, byte |-> v, upto |-> WriteUpto(b)]
    /\ UNCHANGED <<slots, used, generation, disk, latest, doubt>>

WriteBlock(b, v) ==
    /\ call = NoCall
    /\ call' = [op |-> "through", lba |-> b, byte |-> v, upto |-> MaxGeneration]
    /\ UNCHANGED <<slots, used, generation, disk, latest, doubt>>

Sync ==
    /\ call = NoCall
    /\ call' = [op |-> "sync", upto |-> MaxGeneration]
    /\ UNCHANGED <<slots, used, generation, disk, latest, doubt>>

-----------------------------------------------------------------------------
(* Finishing a call, once it has written out what it must. *)

Ready(op) == call.op = op /\ DirtySlots(call.upto) = {}

\* victim: a free slot, else the least recently used clean one; after a
\* write-out under pressure, the first clean one.
Victim ==
    LET clean == {i \in SlotIds : ~slots[i].dirty}
        free == {i \in SlotIds : ~slots[i].valid} IN
    CASE free # {} -> Min(free)
      [] free = {} /\ call.upto # 0 /\ call.op # "through" -> Min(clean)
      [] OTHER -> CHOOSE i \in clean : \A j \in clean : used[i] <= used[j]

\* take, then a device read that fails: the slot holds nothing.
MissFails(i) ==
    /\ slots' = [slots EXCEPT ![i] = EmptySlot]
    /\ UNCHANGED <<used, disk, latest, doubt, generation>>

Read ==
    /\ Ready("read")
    /\ call' = NoCall
    /\ IF Cached(call.lba) # {}
       THEN /\ used' = Touch(Min(Cached(call.lba)))
            /\ UNCHANGED <<slots, disk, latest, doubt, generation>>
       ELSE \/ /\ slots' = [slots EXCEPT ![Victim] = Slot(call.lba, disk[call.lba], FALSE, 0)]
               /\ used' = Touch(Victim)
               /\ UNCHANGED <<disk, latest, doubt, generation>>
            \/ MissFails(Victim)

\* What write_at changes in a slot it had to take: slot_for's device read.
BeforeWrite(b) == disk[b]

\* The slot the write changes, and what it held: the cached block, a slot
\* claimed without reading for a block covered whole, or the block as read.
Write ==
    /\ Ready("write")
    /\ call' = NoCall
    /\ LET b == call.lba
           hit == Cached(b) # {}
           i == IF hit THEN Min(Cached(b)) ELSE Victim
           was == IF hit THEN slots[i].bytes ELSE BeforeWrite(b) IN
       \/ /\ slots' = [slots EXCEPT ![i] = Slot(b, Over(was, call.part, call.byte), TRUE, generation)]
          /\ used' = Touch(i)
          /\ latest' = [latest EXCEPT ![b] = Over(@, call.part, call.byte)]
          /\ doubt' = IF call.part = Halves THEN doubt \ {b} ELSE doubt
          /\ UNCHANGED <<disk, generation>>
       \/ ~hit /\ call.part # Halves /\ MissFails(i)

\* The slot write_block's copy goes to.
ThroughSlot(b) == IF Cached(b) # {} THEN Min(Cached(b)) ELSE Victim

\* write_block's own block: the device first, then the cached copy.
Through ==
    /\ Ready("through")
    /\ call' = NoCall
    /\ LET b == call.lba
           c == Over(Blank, Halves, call.byte)
           i == ThroughSlot(b) IN
       \/ /\ disk' = [disk EXCEPT ![b] = c]
          /\ slots' = [slots EXCEPT ![i] = Slot(b, c, FALSE, 0)]
          /\ used' = Touch(i)
          /\ latest' = [latest EXCEPT ![b] = c]
          /\ doubt' = doubt \ {b}
       \/ /\ disk' \in {disk, [disk EXCEPT ![b] = c]}
          /\ doubt' = doubt \union {b}
          /\ Cardinality(doubt') <= MaxDoubt
          /\ UNCHANGED <<slots, used, latest>>
    /\ UNCHANGED generation

\* sync's barrier finds nothing dirty; what its flush does is Durability's.
Flush ==
    /\ Ready("sync")
    /\ call' = NoCall
    /\ UNCHANGED <<slots, used, generation, disk, latest, doubt>>

-----------------------------------------------------------------------------
(* Calls that move no block. *)

\* barrier: the generation moves only if something is dirty in it.
Barrier ==
    /\ call = NoCall
    /\ \E i \in SlotIds : slots[i].dirty /\ slots[i].generation = generation
    /\ generation < MaxGeneration
    /\ generation' = generation + 1
    /\ UNCHANGED <<slots, used, disk, call, latest, doubt>>

\* invalidate and invalidate_all: the clean slots among the given ones.
Forget(ids) ==
    LET gone == {i \in ids : ~slots[i].dirty} IN
    /\ call = NoCall
    /\ slots' = [i \in SlotIds |-> IF i \in gone THEN EmptySlot ELSE slots[i]]
    /\ UNCHANGED <<used, generation, disk, call, latest, doubt>>

Invalidate(b) == Forget(Cached(b))
InvalidateAll == Forget(SlotIds)

\* Power is cut at any step of any call and the cache is made again, over what
\* the device kept.
Crash(kept) ==
    /\ slots' = [i \in SlotIds |-> EmptySlot]
    /\ used' = [i \in SlotIds |-> i]
    /\ generation' = 1
    /\ disk' = kept
    /\ call' = NoCall
    /\ latest' = kept
    /\ doubt' = {}

\* Cache::new over a blank device.
CacheInit ==
    /\ setup \in Setups
    /\ slots = [i \in SlotIds |-> EmptySlot]
    /\ used = [i \in SlotIds |-> i]
    /\ generation = 1
    /\ disk = [b \in Blocks |-> Blank]
    /\ call = NoCall
    /\ latest = disk
    /\ doubt = {}

-----------------------------------------------------------------------------
(* Properties. *)

\* Nothing written is lost and nothing stale is read: a cached block holds
\* what the last successful write left in it, and a block that is not dirty
\* in a slot holds it on the device.  Eviction, a failed write-out, a failed
\* read into a taken slot and invalidation keep this.
ReadsNewest ==
    \A b \in Blocks \ doubt :
        /\ \A i \in Cached(b) : slots[i].bytes = latest[b]
        /\ (\A i \in Cached(b) : ~slots[i].dirty) => disk[b] = latest[b]

AllContents == UNION {[1..s.parts -> Bytes] : s \in Setups}

DirtyIn(g) == {i \in SlotIds : slots[i].dirty /\ slots[i].generation = g}

\* What waits for the device: the dirty slots, by generation.
Pending ==
    [g \in 1..MaxGeneration |->
        [b \in {slots[i].lba : i \in DirtyIn(g)} |->
            slots[CHOOSE i \in DirtyIn(g) : slots[i].lba = b].bytes]]

Ordered == INSTANCE OrderedDisk WITH pend <- Pending, Contents <- AllContents
=============================================================================
