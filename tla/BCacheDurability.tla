-------------------------- MODULE BCacheDurability --------------------------
(***************************************************************************)
(* The block cache over a device, which may have a volatile write cache of *)
(* its own: that is what BlockDevice::flush ("make everything written      *)
(* before this call durable", kernel/block/src/lib.rs:125) is for.  Until  *)
(* it is flushed, such a device makes the blocks it was given durable in   *)
(* any order.  Any other device keeps a block as soon as it takes it.      *)
(***************************************************************************)
EXTENDS BCache

VARIABLES
    media,   \* per block: what survives power loss (kept), and whether the
             \* device still owes its copy to the media
    allowed  \* history, per block: what may be found after power loss

deviceVars == <<cacheVars, media, allowed>>

\* The device takes block b.
Takes(b) ==
    media' = IF setup.volatile THEN [media EXCEPT ![b].owed = TRUE]
                               ELSE [media EXCEPT ![b].kept = disk'[b]]

\* The device destages one block, of its own choice.
Destage(b) ==
    /\ media[b].owed
    /\ media' = [media EXCEPT ![b].kept = disk[b], ![b].owed = FALSE]
    /\ UNCHANGED <<cacheVars, allowed>>

\* A write-out that the device takes, or that fails with the block taken or not.
DeviceWriteOut ==
    LET i == NextOut(call.upto) IN
    /\ \/ WriteOut /\ Takes(slots[i].lba)
       \/ WriteOutFails /\ disk' = disk /\ UNCHANGED media
       \/ WriteOutFails /\ Takes(slots[i].lba)
    /\ UNCHANGED <<setup, allowed>>

\* write_at returns: the block may be found as it is now, or as before.
CacheWrite ==
    /\ Write
    /\ allowed' = IF setup.volatile
                  THEN [b \in Blocks |-> allowed[b] \union
                            {slots'[i].bytes : i \in {j \in SlotIds : slots'[j].dirty /\ slots'[j].lba = b}}]
                  ELSE allowed
    /\ UNCHANGED <<setup, media>>

\* write_block reaches the device, whatever it answers.
DeviceThrough ==
    /\ Through
    /\ Takes(call.lba)
    /\ allowed' = IF setup.volatile THEN [allowed EXCEPT ![call.lba] = @ \union {disk'[call.lba]}] ELSE allowed
    /\ UNCHANGED setup

Durable == [b \in Blocks |-> [kept |-> disk[b], owed |-> FALSE]]

\* What may be found after a sync: the block as it was last written.
AllowedNow == [b \in Blocks |-> IF b \in doubt \/ ~setup.volatile THEN allowed[b] ELSE {latest[b]}]

\* Mutant of FlushOk: sync returns without flushing the device.
FlushSkipped ==
    /\ Flush
    /\ allowed' = AllowedNow
    /\ UNCHANGED <<setup, media>>

\* sync returns: everything the device held is durable.
FlushOk ==
    /\ Flush
    /\ allowed' = AllowedNow
    /\ media' = Durable
    /\ UNCHANGED setup

FlushFails == Flush /\ UNCHANGED <<setup, media, allowed>>

\* Power is cut: what the device had not made durable is gone.
PowerCut ==
    /\ Crash([b \in Blocks |-> media[b].kept])
    /\ media' = [b \in Blocks |-> [kept |-> media[b].kept, owed |-> FALSE]]
    /\ allowed' = IF setup.volatile THEN [b \in Blocks |-> {media[b].kept}] ELSE allowed
    /\ UNCHANGED setup

\* Every other step of the cache leaves the device's blocks alone.
CacheOnly ==
    /\ \/ \E b \in Blocks : ReadAt(b) \/ Invalidate(b)
       \/ \E b \in Blocks, part \in (SUBSET Halves) \ {{}}, v \in Bytes : WriteAt(b, part, v)
       \/ \E b \in Blocks, v \in Bytes : WriteBlock(b, v)
       \/ Sync
       \/ Read
       \/ Barrier
       \/ InvalidateAll
    /\ UNCHANGED <<setup, media, allowed>>

DeviceInit ==
    /\ CacheInit
    /\ media = [b \in Blocks |-> [kept |-> Blank, owed |-> FALSE]]
    /\ allowed = [b \in Blocks |-> {Blank}]

DeviceNext ==
    \/ \E b \in Blocks : Destage(b)
    \/ DeviceWriteOut
    \/ CacheWrite
    \/ DeviceThrough
    \/ FlushOk
    \/ FlushFails
    \/ CacheOnly
    \/ PowerCut

DeviceSpec == DeviceInit /\ [][DeviceNext]_deviceVars

-----------------------------------------------------------------------------
(* Properties. *)

\* A block that sync made durable never reverts: after power loss it holds
\* what it held at the last sync that returned, or something written since.
SyncedSurvives == setup.volatile => \A b \in Blocks : media[b].kept \in allowed[b]

\* The cache's slots, evictions, rule 2 and write-through implement the
\* ordered disk a filesystem is promised: "the device sees a sequence of
\* writes whose generations never decrease" (lib.rs:33-37).
RefinesOrderedDisk ==
    Ordered!Init /\ [][~setup.volatile => Ordered!Next]_(Ordered!vars)
=============================================================================
