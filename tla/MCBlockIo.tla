------------------------------ MODULE MCBlockIo ------------------------------
(***************************************************************************)
(* Block I/O in three machines that share no state: the block cache over a *)
(* device, the virtio driver and its device, and a driver domain with its  *)
(* interrupt forwarded.  `machine`, chosen at first, is the one that moves.*)
(***************************************************************************)
EXTENDS BCacheDurability, VirtioBlk, DriverDomain

VARIABLE machine

MCVars == <<machine, deviceVars, virtioVars, domainVars>>

\* Three blocks through two slots.
Whole == [blocks |-> 3, parts |-> 1, volatile |-> FALSE, slots |-> 2, generations |-> 2, doubts |-> 0]
\* Two blocks, written in parts, through one slot.
InParts == [blocks |-> 2, parts |-> 2, volatile |-> FALSE, slots |-> 1, generations |-> 3, doubts |-> 0]
\* Write-throughs that fail, with the block taken or not.
Doubtful == [blocks |-> 2, parts |-> 1, volatile |-> FALSE, slots |-> 1, generations |-> 3, doubts |-> 1]
\* A device with a write cache of its own.
Volatile == [blocks |-> 2, parts |-> 1, volatile |-> TRUE, slots |-> 1, generations |-> 2, doubts |-> 0]

MCSetups == {Whole, InParts, Doubtful, Volatile}

Load(op, sector) == [op |-> op, sector |-> sector]

\* Two callers whose completions only the handler collects.
ByInterrupt ==
    [size |-> 8, indexMod |-> 16, inFlight |-> 2, tickets |-> 2, callers |-> 2, maxRequests |-> 3,
     loads |-> {Load("read", 1), Load("write", 1)}, statuses |-> {"ok"}, driven |-> TRUE]
\* Two callers that drain for each other, and a device that reports errors.
ByPolling ==
    [size |-> 8, indexMod |-> 16, inFlight |-> 2, tickets |-> 2, callers |-> 2, maxRequests |-> 3,
     loads |-> {Load("read", 1)}, statuses |-> {"ok", "ioerr"}, driven |-> FALSE]
\* Two callers with one ticket between them, for longer than it takes the
\* ring and its indices to go round.
RoundTheRing ==
    [size |-> 4, indexMod |-> 8, inFlight |-> 1, tickets |-> 1, callers |-> 2, maxRequests |-> 9,
     loads |-> {Load("write", 1), Load("flush", 1)}, statuses |-> {"ok"}, driven |-> TRUE]

MCRigs == {ByInterrupt, ByPolling, RoundTheRing}

MCInit ==
    /\ machine \in {"cache", "virtio", "domain"}
    /\ DeviceInit
    /\ VirtioInit
    /\ DomainInit
    \* One setup stands for all of a machine that does not move.
    /\ machine # "cache" => setup = Volatile
    /\ machine # "virtio" => rig = ByInterrupt

\* The bounds on requests are met: nothing more is asked.
AllAsked ==
    \/ machine = "virtio" /\ requests.issued = MaxRequests
    \/ machine = "domain" /\ served.begun = MaxServes

MCNext ==
    \/ machine = "cache" /\ DeviceNext /\ UNCHANGED <<machine, virtioVars, domainVars>>
    \/ machine = "virtio" /\ VirtioNext /\ UNCHANGED <<machine, deviceVars, domainVars>>
    \/ machine = "domain" /\ DomainNext /\ UNCHANGED <<machine, deviceVars, virtioVars>>
    \/ AllAsked /\ UNCHANGED MCVars

MCSpec == MCInit /\ [][MCNext]_MCVars
=============================================================================
