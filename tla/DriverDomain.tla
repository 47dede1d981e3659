---------------------------- MODULE DriverDomain ----------------------------
(***************************************************************************)
(* A disk driven from a user-mode domain: the interrupt's way to it        *)
(* (kernel/main/src/blockdomain.rs) and the domain's own loop              *)
(* (user/blkdomain/src/main.rs).                                           *)
(*                                                                         *)
(* The handler counts an interrupt in RAISED and wakes the forwarder; the  *)
(* forwarder sends the count it saw, once for however many interrupts, and *)
(* records it in SENT; the domain drains the device's ring only when a     *)
(* message brings a count it has not acknowledged.  Handler, forwarder and *)
(* domain run on CPUs of their own.  Domains are killed and started again  *)
(* while an interrupt is anywhere on that way.                             *)
(***************************************************************************)
EXTENDS Integers, Sequences, FiniteSets

CONSTANTS
    InboxSize,   \* messages the interrupt channel holds
    DomainSlots, \* IN_FLIGHT, the engine's slots
    MaxAsked,    \* bound: requests asked of the domains
    MaxStarts,   \* bound: domains started
    MaxServes    \* bound: times serve() takes the disk from the kernel

\* A channel's inbox holds a message.
ASSUME InboxHolds == InboxSize \in Nat \ {0}

VARIABLES
    drive,      \* the device's chains: working on, in the used ring; its interrupt
    taking,     \* where the handler is: "idle", or past the test of OWNED
    raised,     \* RAISED
    sent,       \* SENT
    owned,      \* OWNED, and FORWARD holding an end: one lock sets both
    forwarder,  \* the forwarder's place, and the count it took
    inbox,      \* the domain's end of the interrupt channel
    domain,     \* the domain's place, its current request, its slots and counts
    served      \* how often serve() began, STOP, domains started, requests asked

domainVars == <<drive, taking, raised, sent, owned, forwarder, inbox, domain, served>>

NoRequest == 0
NoDomain == [pc |-> "absent", request |-> NoRequest, slots |-> {}, count |-> 0, acknowledged |-> 0]

-----------------------------------------------------------------------------
(* The kernel: serve(), start_domain, teardown, forward_end. *)

\* start_forwarder: nothing is owed.
ServeBegins ==
    /\ forwarder.pc = "absent" /\ served.begun < MaxServes
    /\ sent' = raised
    /\ forwarder' = [pc |-> "waiting", holds |-> 0]
    /\ served' = [served EXCEPT !.begun = @ + 1, !.stop = FALSE]
    /\ UNCHANGED <<drive, taking, raised, owned, inbox, domain>>

\* start_domain: fresh channels, forward_end(Some(..)), the thread spawned.
StartDomain ==
    /\ forwarder.pc # "absent" /\ ~ served.stop
    /\ domain.pc = "absent" /\ served.starts < MaxStarts
    /\ owned' = TRUE
    /\ inbox' = <<>>
    /\ domain' = [NoDomain EXCEPT !.pc = "bringUp"]
    /\ served' = [served EXCEPT !.starts = @ + 1]
    /\ UNCHANGED <<drive, taking, raised, sent, forwarder>>

\* The domain faults, or is told to stop, anywhere in its loop.
DomainDies ==
    /\ domain.pc \notin {"absent", "dead"}
    /\ domain' = [domain EXCEPT !.pc = "dead"]
    /\ UNCHANGED <<drive, taking, raised, sent, owned, forwarder, inbox, served>>

\* teardown: forward_end(None), then the process.
Teardown ==
    /\ domain.pc = "dead"
    /\ owned' = FALSE
    /\ inbox' = <<>>
    /\ domain' = NoDomain
    /\ UNCHANGED <<drive, taking, raised, sent, forwarder, served>>

\* stop_forwarder, after the last domain.
ServeEnds ==
    /\ forwarder.pc # "absent" /\ domain.pc = "absent" /\ ~ served.stop
    /\ served' = [served EXCEPT !.stop = TRUE]
    /\ UNCHANGED <<drive, taking, raised, sent, owned, forwarder, inbox, domain>>

-----------------------------------------------------------------------------
(* forward_interrupt and forwarder *)

\* The interrupt is delivered; one no domain owns is the kernel driver's.
HandlerEnters ==
    /\ drive.interrupt /\ taking = "idle"
    /\ drive' = [drive EXCEPT !.interrupt = FALSE]
    /\ taking' = IF owned THEN "owned" ELSE "idle"
    /\ UNCHANGED <<raised, sent, owned, forwarder, inbox, domain, served>>

\* RAISED is counted up and the forwarder woken.
HandlerRaises ==
    /\ taking = "owned"
    /\ taking' = "idle"
    /\ raised' = raised + 1
    /\ UNCHANGED <<drive, sent, owned, forwarder, inbox, domain, served>>

\* wait_until's condition, checked whenever the forwarder is woken.
ForwarderTakes ==
    /\ forwarder.pc = "waiting"
    /\ \/ served.stop /\ forwarder' = [pc |-> "absent", holds |-> 0]
       \/ ~ served.stop /\ raised # sent /\ forwarder' = [pc |-> "sending", holds |-> raised]
    /\ UNCHANGED <<drive, taking, raised, sent, owned, inbox, domain, served>>

\* Under FORWARD's lock: sent, dropped at a full inbox, or nobody to send to.
ForwarderSends ==
    /\ forwarder.pc = "sending"
    /\ inbox' = IF owned /\ Len(inbox) < InboxSize THEN Append(inbox, forwarder.holds) ELSE inbox
    /\ forwarder' = [forwarder EXCEPT !.pc = "marking"]
    /\ UNCHANGED <<drive, taking, raised, sent, owned, domain, served>>

\* Mutant: RAISED read again.
ForwarderMarksRaised ==
    /\ forwarder.pc = "marking"
    /\ sent' = raised
    /\ forwarder' = [pc |-> "waiting", holds |-> 0]
    /\ UNCHANGED <<drive, taking, raised, owned, inbox, domain, served>>

\* SENT becomes the count the message carried.
ForwarderMarks ==
    /\ forwarder.pc = "marking"
    /\ sent' = forwarder.holds
    /\ forwarder' = [pc |-> "waiting", holds |-> 0]
    /\ UNCHANGED <<drive, taking, raised, owned, inbox, domain, served>>

-----------------------------------------------------------------------------
(* The domain: serve, Host::request, Host::wait and Messages *)

\* Engine::bring_up resets the device: it forgets every chain.
DomainBringsUp ==
    /\ domain.pc = "bringUp"
    /\ drive' = [drive EXCEPT !.working = {}, !.used = {}]
    /\ domain' = [domain EXCEPT !.pc = "serving"]
    /\ UNCHANGED <<taking, raised, sent, owned, forwarder, inbox, served>>

\* A request arrives and is published in a free slot; without one it is refused.
DomainSubmits ==
    LET n == served.asked + 1
    IN  /\ domain.pc = "serving" /\ n <= MaxAsked
        /\ Cardinality(domain.slots) < DomainSlots
        /\ drive' = [drive EXCEPT !.working = @ \cup {n}]
        /\ domain' = [domain EXCEPT !.pc = "counting", !.request = n, !.slots = @ \cup {n}]
        /\ served' = [served EXCEPT !.asked = n]
        /\ UNCHANGED <<taking, raised, sent, owned, forwarder, inbox>>

\* Messages::receive: one message out of the inbox.
Receive(next) ==
    /\ inbox # <<>>
    /\ inbox' = Tail(inbox)
    /\ domain' = [domain EXCEPT !.count = IF Head(inbox) > @ THEN Head(inbox) ELSE @, !.pc = next]
    /\ UNCHANGED <<drive, taking, raised, sent, owned, forwarder, served>>

\* Messages::count: receive without waiting until there is nothing to receive.
DomainCounts ==
    /\ domain.pc = "counting"
    /\ \/ Receive("counting")
       \/ /\ inbox = <<>>
          /\ domain' = [domain EXCEPT !.pc = "draining"]
          /\ UNCHANGED <<drive, taking, raised, sent, owned, forwarder, inbox, served>>

\* A count above the one acknowledged: drain, acknowledge; then the request has
\* its status and its slot is given back, or the domain waits for a message.
DomainDrains ==
    LET news == domain.count > domain.acknowledged
        ended == news /\ domain.request \in drive.used
    IN  /\ domain.pc = "draining"
        /\ drive' = IF news THEN [drive EXCEPT !.used = {}] ELSE drive
        /\ domain' = [domain EXCEPT
               !.acknowledged = IF news THEN domain.count ELSE @,
               !.pc = IF ended THEN "serving" ELSE "asleep",
               !.slots = IF ended THEN @ \ {domain.request} ELSE @,
               !.request = IF ended THEN NoRequest ELSE @]
        /\ UNCHANGED <<taking, raised, sent, owned, forwarder, inbox, served>>

\* receive(wait_ns): a message, or the wait runs out and the slot is kept.
DomainSleeps ==
    /\ domain.pc = "asleep"
    /\ \/ Receive("counting")
       \/ /\ inbox = <<>>
          /\ domain' = [domain EXCEPT !.pc = "serving", !.request = NoRequest]
          /\ UNCHANGED <<drive, taking, raised, sent, owned, forwarder, inbox, served>>

\* The device, outside the kernel: a chain is done, and an interrupt says so.
DiskCompletes(n) ==
    /\ n \in drive.working
    /\ drive' = [working |-> drive.working \ {n}, used |-> drive.used \cup {n}, interrupt |-> TRUE]
    /\ UNCHANGED <<taking, raised, sent, owned, forwarder, inbox, domain, served>>

-----------------------------------------------------------------------------
DomainInit ==
    /\ drive = [working |-> {}, used |-> {}, interrupt |-> FALSE]
    /\ taking = "idle" /\ raised = 0 /\ sent = 0 /\ owned = FALSE
    /\ forwarder = [pc |-> "absent", holds |-> 0]
    /\ inbox = <<>>
    /\ domain = NoDomain
    /\ served = [begun |-> 0, stop |-> FALSE, starts |-> 0, asked |-> 0]

DomainNext ==
    \/ ServeBegins
    \/ StartDomain
    \/ DomainDies
    \/ Teardown
    \/ ServeEnds
    \/ HandlerEnters
    \/ HandlerRaises
    \/ ForwarderTakes
    \/ ForwarderSends
    \/ ForwarderMarks
    \/ DomainBringsUp
    \/ DomainSubmits
    \/ DomainCounts
    \/ DomainDrains
    \/ DomainSleeps
    \/ \E n \in 1 .. MaxAsked : DiskCompletes(n)

DomainSpec == DomainInit /\ [][DomainNext]_domainVars

-----------------------------------------------------------------------------
(* Properties. *)

\* The counts on their way to the domain: in its inbox, held by the forwarder,
\* owed by SENT, or about to be raised.
Coming ==
    {inbox[i] : i \in 1 .. Len(inbox)}
        \cup {count \in {forwarder.holds} : forwarder.pc = "sending"}
        \cup {count \in {raised} : raised # sent /\ (forwarder.pc = "marking" => raised # forwarder.holds)}
        \cup {count \in {raised + 1} : drive.interrupt \/ taking = "owned"}

\* A domain asleep on a request the device has finished is sure to be told: a
\* count it has not acknowledged is on its way.  Messages dropped at a full
\* inbox, interrupts taken while one is sent, and counts left over from a
\* domain that died cost it nothing (blockdomain.rs forwarder, "an interrupt
\* taken while the message was being sent is still owed one").
NoStrandedCompletion ==
    domain.pc = "asleep" /\ domain.request \in drive.used =>
        \E count \in Coming : count > domain.acknowledged
=============================================================================
