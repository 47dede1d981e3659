----------------------------- MODULE Shootdown -----------------------------
(***************************************************************************)
(* TLB shootdown (kernel/mm/src/tlb.rs, kernel/main/src/shootdown.rs) and  *)
(* the locks held across it (kernel/main/src/userproc.rs).                 *)
(*                                                                         *)
(* A CPU edits an address space under its process's lock and the frame     *)
(* lock, invalidates its own cache and asks every other CPU to do so,      *)
(* masked throughout.  The others answer from the interrupt, or, where     *)
(* they spin masked for a lock, from the spin.  One step is one access to  *)
(* memory that another CPU can see.                                        *)
(*                                                                         *)
(* The hardware (cached, Fetch, ipi) is external: a CPU may cache a page's *)
(* translation at any moment at which the tables map it, and takes a       *)
(* pending interrupt before its next instruction once it is unmasked.      *)
(***************************************************************************)
EXTENDS Naturals, FiniteSets

CONSTANTS
    CPUs,       \* the CPUs online
    Procs,      \* process slots: 0 .. MAX_PROCS - 1
    Pages,      \* pages whose frames come and go
    ALL,        \* the address that means every translation
    None,
    Workloads   \* what the CPUs have to do: each a set of operations

\* unmap: release; map: populate; spurious: a fault the tables already allow,
\* which flushes everything; share: with_other, which edits nothing; kernel: an
\* invalidation of a kernel mapping, under none of these locks.
Ops ==
    [kind : {"unmap", "map"}, page : Pages, proc : Procs, other : {None}]
        \cup [kind : {"spurious"}, page : {ALL}, proc : Procs, other : {None}]
        \cup {o \in [kind : {"share"}, page : {None}, proc : Procs, other : Procs] : o.proc # o.other}
        \cup [kind : {"kernel"}, page : {ALL}, proc : {None}, other : {None}]

ASSUME ShootdownConstants ==
    /\ Procs \subseteq Nat
    /\ ALL \notin Pages
    /\ None \notin CPUs \cup Pages \cup Procs
    /\ Workloads \subseteq [CPUs -> SUBSET Ops]

VARIABLES
    addr, pending, answered, asked,     \* the request: struct Shootdown
    mismatches,                         \* MISMATCHES
    serial,                             \* SERIAL's holder
    owner,                              \* OWNER: each process lock's holder
    frames,                             \* FRAME_LOCK's holder
    pc,                                 \* where each CPU is
    op,                                 \* the operation it performs
    svc,                                \* how far into `service` it is
    ipi,                                \* CPUs with a TlbFlush interrupt pending
    mapped,                             \* pages the tables map
    freed,                              \* pages whose frames were handed back
    cached,                             \* what each CPU's TLB may hold
    todo                                \* operations each CPU has yet to begin

request == <<addr, pending, answered, asked>>
locks == <<serial, owner, frames>>
memory == <<mapped, freed, cached>>
shootVars == <<request, mismatches, locks, pc, op, svc, ipi, memory, todo>>

NoOp == [kind |-> "none", page |-> None, proc |-> None, other |-> None]

\* shootdown.rs, others.
OthersOf(c) == CPUs \ {c}

Goto(c, l) == pc' = [pc EXCEPT ![c] = l]

\* A CPU that is not inside `service` and, when unmasked, has no interrupt to
\* take first.
Runs(c, l) == pc[c] = l /\ svc[c].at = "no" /\ (l = "user" => c \notin ipi)

ShootInit ==
    /\ addr = None /\ pending = {} /\ answered = {} /\ asked = {}
    /\ mismatches = 0
    /\ serial = None
    /\ owner = [p \in Procs |-> None]
    /\ frames = None
    /\ pc = [c \in CPUs |-> "user"]
    /\ op = [c \in CPUs |-> NoOp]
    /\ svc = [c \in CPUs |-> [at |-> "no", addr |-> None]]
    /\ ipi = {}
    /\ mapped = Pages /\ freed = {}
    /\ cached = [c \in CPUs |-> {}]
    /\ todo \in Workloads

-----------------------------------------------------------------------------
(* The hardware. *)

Fetch(c, p) ==
    /\ p \in mapped
    /\ p \notin cached[c]
    /\ cached' = [cached EXCEPT ![c] = @ \cup {p}]
    /\ UNCHANGED <<request, mismatches, locks, pc, op, svc, ipi, mapped, freed, todo>>

Flushed(c, a) == IF a = ALL THEN {} ELSE cached[c] \ {a}

\* Any other section with interrupts masked, which waits for no shootdown.
Mask(c) ==
    /\ Runs(c, "user")
    /\ Goto(c, "masked")
    /\ UNCHANGED <<request, mismatches, locks, op, svc, ipi, memory, todo>>

Unmask(c) ==
    /\ Runs(c, "masked")
    /\ Goto(c, "user")
    /\ UNCHANGED <<request, mismatches, locks, op, svc, ipi, memory, todo>>

-----------------------------------------------------------------------------
(* Shootdown::service, entered from the interrupt or from a spin. *)

\* Sees its bit, and reads the address.  Without the bit it returns.
ServiceBegin(c) ==
    svc' = [svc EXCEPT ![c] = IF c \in pending THEN [at |-> "flush", addr |-> addr] ELSE @]

\* on_ipi.
TakeIpi(c) ==
    /\ pc[c] = "user" /\ svc[c].at = "no" /\ c \in ipi
    /\ ipi' = ipi \ {c}
    /\ ServiceBegin(c)
    /\ UNCHANGED <<request, mismatches, locks, pc, op, memory, todo>>

\* with_other: whether the caller lets go of its own lock when it finds the
\* other taken.
YieldsTo(o) == o.proc > o.other

\* Mutant: the frame lock is waited for with a plain masked spin.
SpinsForLess(c) ==
    \/ pc[c] = "lock" /\ owner[op[c].proc] \notin {None, c}
    \/ pc[c] = "other" /\ owner[op[c].other] # None /\ ~YieldsTo(op[c])
    \/ pc[c] = "gaveway"
    \/ pc[c] = "serial" /\ serial # None

\* service_here: lock's, lock_irqsave_with's and shoot's own spin, once the
\* attempt at the lock has failed.
SpinsFor(c) ==
    \/ pc[c] = "lock" /\ owner[op[c].proc] \notin {None, c}
    \/ pc[c] = "other" /\ owner[op[c].other] # None /\ ~YieldsTo(op[c])
    \/ pc[c] = "gaveway"
    \/ pc[c] = "frames" /\ frames # None
    \/ pc[c] = "serial" /\ serial # None

AnswerFromSpin(c) ==
    /\ SpinsFor(c) /\ svc[c].at = "no" /\ c \in pending
    /\ ServiceBegin(c)
    /\ UNCHANGED <<request, mismatches, locks, pc, op, ipi, memory, todo>>

\* Mutant: what the tables no longer map is taken not to be cached.
ServiceFlushMapped(c) ==
    /\ svc[c].at = "flush"
    /\ cached' = IF svc[c].addr \in Pages \ mapped THEN cached
                 ELSE [cached EXCEPT ![c] = Flushed(c, svc[c].addr)]
    /\ svc' = [svc EXCEPT ![c].at = "answer"]
    /\ UNCHANGED <<request, mismatches, locks, pc, op, ipi, mapped, freed, todo>>

ServiceFlush(c) ==
    /\ svc[c].at = "flush"
    /\ cached' = [cached EXCEPT ![c] = Flushed(c, svc[c].addr)]
    /\ svc' = [svc EXCEPT ![c].at = "answer"]
    /\ UNCHANGED <<request, mismatches, locks, pc, op, ipi, mapped, freed, todo>>

ServiceAnswer(c) ==
    /\ svc[c].at = "answer"
    /\ answered' = answered \cup {c}
    /\ svc' = [svc EXCEPT ![c].at = "clear"]
    /\ UNCHANGED <<addr, pending, asked, mismatches, locks, pc, op, ipi, memory, todo>>

ServiceClear(c) ==
    /\ svc[c].at = "clear"
    /\ pending' = pending \ {c}
    /\ svc' = [svc EXCEPT ![c] = [at |-> "no", addr |-> None]]
    /\ UNCHANGED <<addr, answered, asked, mismatches, locks, pc, op, ipi, memory, todo>>

-----------------------------------------------------------------------------
(* Taking the locks: userproc.rs, lock, with_other and with_frames. *)

Begin(c, o) ==
    /\ Runs(c, "user")
    /\ todo' = [todo EXCEPT ![c] = @ \ {o}]
    /\ op' = [op EXCEPT ![c] = o]
    /\ Goto(c, IF o.kind = "kernel" THEN "edit" ELSE "lock")
    /\ UNCHANGED <<request, mismatches, locks, svc, ipi, memory>>

\* lock: try_lock's compare-and-swap.
LockProcess(c) ==
    /\ Runs(c, "lock")
    /\ owner[op[c].proc] = None
    /\ owner' = [owner EXCEPT ![op[c].proc] = c]
    /\ Goto(c, IF op[c].kind = "share" THEN "other" ELSE "frames")
    /\ UNCHANGED <<request, mismatches, serial, frames, op, svc, ipi, memory, todo>>

\* with_other: the second lock.
LockOther(c) ==
    /\ Runs(c, "other")
    /\ owner[op[c].other] = None
    /\ owner' = [owner EXCEPT ![op[c].other] = c]
    /\ Goto(c, "unlock")
    /\ UNCHANGED <<request, mismatches, serial, frames, op, svc, ipi, memory, todo>>

\* with_other, busy: the caller in the higher slot lets go of its own.
GiveWay(c) ==
    /\ Runs(c, "other")
    /\ owner[op[c].other] # None
    /\ YieldsTo(op[c])
    /\ owner' = [owner EXCEPT ![op[c].proc] = None]
    /\ Goto(c, "gaveway")
    /\ UNCHANGED <<request, mismatches, serial, frames, op, svc, ipi, memory, todo>>

\* It answers, and takes its own again.
TryAgain(c) ==
    /\ Runs(c, "gaveway")
    /\ c \notin pending
    /\ Goto(c, "lock")
    /\ UNCHANGED <<request, mismatches, locks, op, svc, ipi, memory, todo>>

\* with_frames.
LockFrames(c) ==
    /\ Runs(c, "frames")
    /\ frames = None
    /\ frames' = c
    /\ Goto(c, "edit")
    /\ UNCHANGED <<request, mismatches, serial, owner, op, svc, ipi, memory, todo>>

-----------------------------------------------------------------------------
(* The edit, and shoot. *)

\* The table is written and this CPU's own cache invalidated: flush_tlb up to
\* its call of shoot.  A new mapping needs no invalidation.
Edit(c) ==
    /\ Runs(c, "edit")
    /\ LET o == op[c] IN
       \/ /\ o.kind = "map"
          /\ mapped' = IF o.page \in freed THEN mapped \cup {o.page} ELSE mapped
          /\ freed' = freed \ {o.page}
          /\ cached' = cached
          /\ Goto(c, "unlock")
       \/ /\ o.kind = "unmap" /\ o.page \notin mapped
          /\ Goto(c, "unlock")
          /\ UNCHANGED memory
       \/ /\ o.kind = "unmap" => o.page \in mapped
          /\ o.kind \in {"unmap", "spurious", "kernel"}
          /\ mapped' = mapped \ {o.page}
          /\ freed' = freed
          /\ cached' = [cached EXCEPT ![c] = Flushed(c, o.page)]
          /\ Goto(c, "serial")
    /\ UNCHANGED <<request, mismatches, locks, op, svc, ipi, todo>>

\* Mutant: initiators do not wait for one another.
LockSerialShared(c) ==
    /\ Runs(c, "serial")
    /\ serial' = c
    /\ Goto(c, "publish")
    /\ UNCHANGED <<request, mismatches, owner, frames, op, svc, ipi, memory, todo>>

\* SERIAL.try_lock.
LockSerial(c) ==
    /\ Runs(c, "serial")
    /\ serial = None
    /\ serial' = c
    /\ Goto(c, "publish")
    /\ UNCHANGED <<request, mismatches, owner, frames, op, svc, ipi, memory, todo>>

\* publish: everything the pending set is about, before the pending set.  A
\* request still outstanding is left alone and counted.
Publish(c) ==
    /\ Runs(c, "publish")
    /\ IF pending = {}
       THEN /\ answered' = {}
            /\ asked' = OthersOf(c)
            /\ addr' = op[c].page
            /\ mismatches' = mismatches
            /\ Goto(c, "ask")
       ELSE /\ mismatches' = mismatches + 1
            /\ Goto(c, "send")
            /\ UNCHANGED <<answered, asked, addr>>
    /\ UNCHANGED <<pending, locks, op, svc, ipi, memory, todo>>

Ask(c) ==
    /\ Runs(c, "ask")
    /\ pending' = OthersOf(c)
    /\ Goto(c, "send")
    /\ UNCHANGED <<addr, answered, asked, mismatches, locks, op, svc, ipi, memory, todo>>

\* send_ipi to every target.
SendIpis(c) ==
    /\ Runs(c, "send")
    /\ ipi' = ipi \cup OthersOf(c)
    /\ Goto(c, "await")
    /\ UNCHANGED <<request, mismatches, locks, op, svc, memory, todo>>

\* outstanding() is zero.
Answered == pending = {}

\* The wait ends, the books are compared, and SERIAL is released.
Finish(c) ==
    /\ Runs(c, "await")
    /\ Answered
    /\ mismatches' = IF asked = answered THEN mismatches ELSE mismatches + 1
    /\ serial' = None
    /\ Goto(c, "unlock")
    /\ UNCHANGED <<request, owner, frames, op, svc, ipi, memory, todo>>

\* frames.free of what was unmapped, under the frame lock; then the locks go
\* and interrupts are restored.
Unlock(c) ==
    /\ Runs(c, "unlock")
    /\ freed' = IF op[c].kind = "unmap" /\ op[c].page \notin mapped THEN freed \cup {op[c].page} ELSE freed
    /\ frames' = IF frames = c THEN None ELSE frames
    /\ owner' = [p \in Procs |-> IF owner[p] = c THEN None ELSE owner[p]]
    /\ op' = [op EXCEPT ![c] = NoOp]
    /\ Goto(c, "user")
    /\ UNCHANGED <<request, mismatches, serial, svc, ipi, mapped, cached, todo>>

-----------------------------------------------------------------------------
Locking(c) == LockProcess(c) \/ LockOther(c) \/ GiveWay(c) \/ TryAgain(c) \/ LockFrames(c) \/ LockSerial(c)

Shooting(c) == Edit(c) \/ Publish(c) \/ Ask(c) \/ SendIpis(c) \/ Finish(c) \/ Unlock(c)

Serving(c) ==
    TakeIpi(c) \/ AnswerFromSpin(c) \/ ServiceFlush(c) \/ ServiceAnswer(c) \/ ServiceClear(c)

\* What a CPU does once it has begun something.
CpuStep(c) == Locking(c) \/ Shooting(c) \/ Serving(c) \/ Unmask(c)

ShootNext ==
    \E c \in CPUs :
        \/ CpuStep(c)
        \/ Mask(c)
        \/ \E o \in todo[c] : Begin(c, o)
        \/ \E p \in Pages : Fetch(c, p)

ShootSpec == ShootInit /\ [][ShootNext]_shootVars

\* A CPU executes its instructions; what it waits for masked it waits for by
\* executing them.  with_other's compare-and-swap, tried over and over, is not
\* refused for ever by a caller that lets go each time round its own loop.
ShootFair ==
    /\ ShootSpec
    /\ \A c \in CPUs : WF_shootVars(CpuStep(c)) /\ SF_shootVars(LockOther(c))

-----------------------------------------------------------------------------
\* "before a freed frame is reused": no CPU can reach a page through its cache
\* once the page's frame has been handed back, whoever asked, in whatever order
\* the others answered (shootdown.rs, shoot).
NoStaleTranslation == \A p \in freed : \A c \in CPUs : p \notin cached[c]

\* Requests never overlap, and each is answered by exactly the CPUs it asked:
\* publish is never refused and finish never fails (tlb.rs).
BooksBalance == mismatches = 0

\* Nobody waits for ever: each operation, with the shootdown in it, returns,
\* although initiators wait masked for CPUs that are themselves waiting masked
\* for their locks (shootdown.rs, "Waiting without deadlock").
EveryOperationReturns == \A c \in CPUs : pc[c] # "user" ~> pc[c] = "user"
=============================================================================
