------------------------------- MODULE Channel -------------------------------
(***************************************************************************)
(* A channel between processes (kernel/ipc/src/channel.rs): two endpoints, *)
(* each with a reference count, an open flag and an inbox, behind one      *)
(* lock, and the movement of handles between handle tables through it.     *)
(*                                                                         *)
(* One action is one critical section of the channel's lock, together with *)
(* what the caller does to its own handle table, which it has borrowed     *)
(* exclusively.  release gives the lock up between lowering the count and  *)
(* taking each message apart, so it is one step for each.                  *)
(*                                                                         *)
(* The rest of the system is `loose`, the entries that are in a caller's   *)
(* hands or in flight on some other channel, and `sunk`, the entries a     *)
(* closing endpoint's sink was given.                                      *)
(***************************************************************************)
EXTENDS Inbox, BagsExt, SequencesExt

CONSTANTS
    Procs,
    MaxRefs,    \* u32::MAX: the largest reference count
    Masks,      \* the masks callers narrow with
    MaxSent,    \* bound: messages sent to one endpoint
    Loose       \* the entries in callers' hands at first, but for new's two

Sides == {"A", "B"}

Peer(s) == IF s = "A" THEN "B" ELSE "A"

ENDPOINT_RIGHTS == Rights \cap {"READ", "WRITE", "TRANSFER", "DUPLICATE"}

EndpointEntry(s) == [object |-> s, kind |-> "Channel", rights |-> ENDPOINT_RIGHTS]

ASSUME ChannelAssumption ==
    /\ MaxRefs \in Nat \ {0}
    /\ MaxSent \in Nat
    /\ Sides \subseteq Objects
    /\ {"READ", "WRITE"} \subseteq Rights
    /\ Masks \subseteq SUBSET Rights
    /\ \A s \in Sides : EndpointEntry(s) \in Entry
    /\ IsABag(Loose) /\ BagToSet(Loose) \subseteq Entry
    /\ \A e \in BagToSet(Loose) : e.object \notin Sides

VARIABLES
    tables,     \* per process: its handle table
    ends,       \* per side: refs, open, inbox
    pc,         \* per process: idle, or where it is in release
    loose,      \* entries outside this channel and outside every table
    sunk,       \* entries the sinks were given
    sent,       \* history, per side: messages sent to it
    received,   \* history, per side: messages received on it
    told        \* history, per side: whether a receive answered PeerClosed

channelVars == <<tables, ends, pc, loose, sunk, sent, received, told>>

Idle == [at |-> "idle"]

\* Channel::new, whose two entries are in the creator's hands.
ChannelInit ==
    /\ tables = [p \in Procs |-> NewTable]
    /\ ends = [s \in Sides |-> [refs |-> 1, open |-> TRUE, inbox |-> NewInbox]]
    /\ pc = [p \in Procs |-> Idle]
    /\ loose = Loose (+) SetToBag({EndpointEntry(s) : s \in Sides})
    /\ sunk = EmptyBag
    /\ sent = [s \in Sides |-> 0]
    /\ received = [s \in Sides |-> 0]
    /\ told = [s \in Sides |-> FALSE]

-----------------------------------------------------------------------------
(* What processes do with entries elsewhere in the system. *)

\* The handles a process holds.  Any other value is refused by every operation
\* before it changes anything.
Held(p) == {Handle(i, tables[p][i].generation) :
                i \in {j \in Slots : tables[p][j].entry # NoEntry}}

Install(p, e) ==
    /\ pc[p] = Idle
    /\ FreeSlots(tables[p]) # {}
    /\ tables' = [tables EXCEPT ![p] = Insert(@, e)]
    /\ loose' = BagRemove(loose, e)
    /\ UNCHANGED <<ends, pc, sunk, sent, received, told>>

-----------------------------------------------------------------------------
\* endpoint: the side that h names, with the rights the operation requires.
Endpoint(p, h, required) ==
    /\ GetChecked(tables[p], h, "Channel", required) = "Ok"
    /\ EntryOf(tables[p], h).object \in Sides

SideOf(p, h) == EntryOf(tables[p], h).object

\* send's own check: no endpoint of this channel in the list.
MayCarry(t, list) ==
    \A k \in DOMAIN list :
        ~ (EntryOf(t, list[k]).kind = "Channel" /\ EntryOf(t, list[k]).object \in Sides)

\* send: list is the transfer list's handles, masks the rights they may keep.
Send(p, h, list, masks) ==
    LET t == tables[p]
        s == SideOf(p, h)
        moved == [k \in DOMAIN list |->
                    [EntryOf(t, list[k]) EXCEPT !.rights = Narrow(@, masks[k])]]
    IN  /\ pc[p] = Idle
        /\ Endpoint(p, h, {"WRITE"})
        /\ Len(list) <= H
        /\ CheckTransferOutMany(t, list) = "Ok"
        /\ MayCarry(t, list)
        /\ ends[s].open
        /\ ends[Peer(s)].open
        /\ ~ IsFull(ends[Peer(s)].inbox)
        /\ sent[Peer(s)] < MaxSent
        /\ tables' = [tables EXCEPT ![p] = TransferOutMany(t, list)]
        /\ ends' = [ends EXCEPT ![Peer(s)].inbox =
                        Commit(@, sent[Peer(s)] + 1, moved)]
        /\ sent' = [sent EXCEPT ![Peer(s)] = @ + 1]
        /\ UNCHANGED <<pc, loose, sunk, received, told>>

\* The inserts of receive, one after the other.
InsertAll(t, entries) == FoldLeft(Insert, t, entries)

\* receive, when there is a message and the table has room for its handles.
Receive(p, h) ==
    LET t == tables[p]
        s == SideOf(p, h)
        m == FrontOf(ends[s].inbox)
    IN  /\ pc[p] = Idle
        /\ Endpoint(p, h, {"READ"})
        /\ ends[s].open
        /\ ends[s].inbox.len > 0
        /\ Cardinality(FreeSlots(t)) >= Len(EntriesOf(m))
        /\ tables' = [tables EXCEPT ![p] = InsertAll(t, EntriesOf(m))]
        /\ ends' = [ends EXCEPT ![s].inbox = TakeFront(@)]
        /\ received' = [received EXCEPT ![s] = m.bytes]
        /\ UNCHANGED <<pc, loose, sunk, sent, told>>

ReportsClosedEarly(s) == ~ ends[Peer(s)].open      \* mutant: before the drain

\* receive answers PeerClosed, not Empty, when there is nothing to receive and
\* the peer has closed.
ReportsClosed(s) == ends[s].inbox.len = 0 /\ ~ ends[Peer(s)].open

ReceiveClosed(p, h) ==
    /\ pc[p] = Idle
    /\ Endpoint(p, h, {"READ"})
    /\ ends[SideOf(p, h)].open
    /\ ReportsClosed(SideOf(p, h))
    /\ told' = [told EXCEPT ![SideOf(p, h)] = TRUE]
    /\ UNCHANGED <<tables, ends, pc, loose, sunk, sent, received>>

RefsMayRise(s) == ends[s].refs < MaxRefs

\* duplicate: the count and the handle change together, or neither does.
DuplicateEndpoint(p, h, mask) ==
    LET s == SideOf(p, h)
    IN  /\ pc[p] = Idle
        /\ Endpoint(p, h, {"DUPLICATE"})
        /\ ends[s].open
        /\ RefsMayRise(s)
        /\ DuplicateResult(tables[p], h) = "Ok"
        /\ tables' = [tables EXCEPT ![p] = Duplicate(@, h, mask)]
        /\ ends' = [ends EXCEPT ![s].refs = @ + 1]
        /\ UNCHANGED <<pc, loose, sunk, sent, received, told>>

-----------------------------------------------------------------------------
(* close and release. *)

\* close, up to the call of release.
CloseEndpoint(p, h) ==
    /\ pc[p] = Idle
    /\ Endpoint(p, h, {})
    /\ tables' = [tables EXCEPT ![p] = Close(@, h)]
    /\ pc' = [pc EXCEPT ![p] = [at |-> "release", entry |-> EntryOf(tables[p], h)]]
    /\ UNCHANGED <<ends, loose, sunk, sent, received, told>>

\* release, called for an entry that is in no table.
ReleaseLoose(p, e) ==
    /\ pc[p] = Idle
    /\ e.kind = "Channel" /\ e.object \in Sides
    /\ loose' = BagRemove(loose, e)
    /\ pc' = [pc EXCEPT ![p] = [at |-> "release", entry |-> e]]
    /\ UNCHANGED <<tables, ends, sunk, sent, received, told>>

Unreferenced(end) == [end EXCEPT !.refs = @ - 1,
                                 !.open = IF end.refs = 1 THEN FALSE ELSE @]

\* release_keeping_inbox: NotHeld if there is no reference to give back; the
\* last one closes the endpoint, whose inbox the caller goes on to take apart.
ReleaseKeepingInbox(p) ==
    /\ pc[p].at = "release"
    /\ LET s == pc[p].entry.object
       IN  /\ ends' = IF ends[s].refs = 0 THEN ends
                      ELSE [ends EXCEPT ![s] = Unreferenced(@)]
           /\ pc' = [pc EXCEPT ![p] = IF ends[s].refs = 1
                                      THEN [at |-> "drain", side |-> s]
                                      ELSE Idle]
    /\ UNCHANGED <<tables, loose, sunk, sent, received, told>>

\* take_message, and the sink's call for each entry, until the inbox is empty.
TakeMessage(p) ==
    /\ pc[p].at = "drain"
    /\ LET s == pc[p].side
           q == ends[s].inbox
       IN  \/ /\ q.len = 0
              /\ pc' = [pc EXCEPT ![p] = Idle]
              /\ UNCHANGED <<ends, sunk>>
           \/ /\ q.len > 0
              /\ ends' = [ends EXCEPT ![s].inbox = TakeFront(@)]
              /\ sunk' = sunk (+) ToBag(EntriesOf(FrontOf(q)))
              /\ UNCHANGED pc
    /\ UNCHANGED <<tables, loose, sent, received, told>>

Lists(p) == UNION {[1 .. k -> Held(p)] : k \in 0 .. H}

ChannelNext ==
    \E p \in Procs :
        \/ \E e \in BagToSet(loose) :
            \/ Install(p, e)
            \/ ReleaseLoose(p, e)
        \/ \E h \in Held(p) :
            \/ \E list \in Lists(p) : \E masks \in [DOMAIN list -> Masks] :
                Send(p, h, list, masks)
            \/ Receive(p, h)
            \/ ReceiveClosed(p, h)
            \/ \E mask \in Masks : DuplicateEndpoint(p, h, mask)
            \/ CloseEndpoint(p, h)
        \/ ReleaseKeepingInbox(p)
        \/ TakeMessage(p)

ChannelSpec == ChannelInit /\ [][ChannelNext]_channelVars
-----------------------------------------------------------------------------
ChannelTypeOK ==
    /\ tables \in [Procs -> Table]
    /\ \A s \in Sides : /\ ends[s].refs \in 0 .. MaxRefs
                        /\ ends[s].open \in BOOLEAN
                        /\ ends[s].inbox \in InboxType
    /\ \A p \in Procs : \/ pc[p] = Idle
                        \/ pc[p].at = "release" /\ pc[p].entry \in Entry
                        \/ pc[p].at = "drain" /\ pc[p].side \in Sides
    /\ IsABag(loose) /\ BagToSet(loose) \subseteq Entry
    /\ IsABag(sunk) /\ BagToSet(sunk) \subseteq Entry
    /\ sent \in [Sides -> 0 .. MaxSent]
    /\ received \in [Sides -> 0 .. MaxSent]
    /\ told \in [Sides -> BOOLEAN]

-----------------------------------------------------------------------------
(* Where the entries are. *)

Tally(o, bag) ==
    MapThenSumSet(LAMBDA e : bag[e], {e \in BagToSet(bag) : e.object = o})

InTables(o) ==
    Cardinality({x \in Procs \X Slots :
                    LET e == tables[x[1]][x[2]].entry
                    IN  e # NoEntry /\ e.object = o})

InQueue(s, o) ==
    LET q == Queued(ends[s].inbox)
    IN  Cardinality({x \in (DOMAIN q) \X (1 .. H) :
                        /\ x[2] \in DOMAIN EntriesOf(q[x[1]])
                        /\ EntriesOf(q[x[1]])[x[2]].object = o})

InRelease(o) ==
    Cardinality({p \in Procs : pc[p].at = "release" /\ pc[p].entry.object = o})

\* References that are not inside this channel.
Outside(o) == InTables(o) + Tally(o, loose) + InRelease(o)

\* At every instant each reference is in exactly one place.  An endpoint's
\* count is the number of entries that name it, wherever they are, so that it
\* closes with the last of them and no sooner; an open endpoint always has a
\* reference that is not inside its own channel, so somebody can close it (the
\* leak send's WouldCycle refuses); and every other entry that was ever let
\* into the system is in a table, in a message, in a caller's hands, or was
\* given to a sink, once.  (lib.rs: "in zero places leaks its object;
\* in two, a process holds authority nobody gave it".)
ReferencesConserved ==
    /\ \A s \in Sides :
        /\ ends[s].refs = Outside(s) + InQueue("A", s) + InQueue("B", s)
        /\ ends[s].open <=> ends[s].refs > 0
        /\ ends[s].open => Outside(s) > 0
    /\ \A o \in Objects \ Sides :
        Outside(o) + InQueue("A", o) + InQueue("B", o) + Tally(o, sunk)
            = Tally(o, Loose)

\* Messages arrive in the order they were sent, none lost and none twice,
\* through any number of turns of the ring, for as long as the endpoint they
\* were sent to is open.
DeliveredInOrder ==
    \A s \in Sides :
        LET q == Queued(ends[s].inbox)
        IN  ends[s].open =>
                /\ received[s] + Len(q) = sent[s]
                /\ \A k \in DOMAIN q : q[k].bytes = received[s] + k

\* Once a receive has answered PeerClosed, everything sent has been received
\* and nothing arrives later: the answer is final.
PeerClosedIsFinal ==
    \A s \in Sides :
        told[s] => /\ ~ ends[Peer(s)].open
                   /\ ends[s].open => received[s] = sent[s]

\* No entry, however it travelled, carries a right that its object's first
\* entry did not carry.
RightsWithinGrant ==
    LET initial == Loose (+) SetToBag({EndpointEntry(s) : s \in Sides})
        granted(o) == UNION {e.rights : e \in {x \in BagToSet(initial) : x.object = o}}
        narrow(e) == e.rights \subseteq granted(e.object)
    IN  /\ \A p \in Procs, i \in Slots :
            tables[p][i].entry # NoEntry => narrow(tables[p][i].entry)
        /\ \A e \in BagToSet(loose) \cup BagToSet(sunk) : narrow(e)
        /\ \A s \in Sides : \A k \in DOMAIN Queued(ends[s].inbox) :
            \A e \in Range(EntriesOf(Queued(ends[s].inbox)[k])) : narrow(e)
=============================================================================
