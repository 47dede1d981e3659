----------------------------- MODULE ChannelSet -----------------------------
(***************************************************************************)
(* A set of channels and the collector for the cycles they form between    *)
(* them (kernel/ipc/src/set.rs).                                           *)
(*                                                                         *)
(* Channel models one channel down to its handle tables and its ring; here *)
(* an entry is only the object it names, an inbox is a sequence of         *)
(* messages, and everything outside the queues (tables, callers' hands) is *)
(* one bag, `held`.  A close or a release, and the collection it starts,   *)
(* have the set to themselves (&mut self): while `collecting`, no other    *)
(* action is possible.  One step is one round of the collector's loop.     *)
(***************************************************************************)
EXTENDS Integers, Sequences, SequencesExt, FiniteSets, FiniteSetsExt

CONSTANTS
    CAP,         \* channels the set has room for
    MaxIds,      \* channels ever created (a bound)
    SetD,        \* messages an inbox holds
    SetH,        \* handles a message carries
    SetMaxRefs,  \* u32::MAX: the largest reference count
    Others,      \* objects that are not endpoints of the set
    NoChannel

ASSUME SetAssumption ==
    /\ CAP \in Nat \ {0} /\ SetD \in Nat \ {0} /\ SetH \in Nat /\ SetMaxRefs \in Nat \ {0}
    /\ MaxIds \in Nat /\ NoChannel \notin 1 .. MaxIds

ChannelIds == 1 .. MaxIds
EndSides == {"A", "B"}
PeerSide(s) == IF s = "A" THEN "B" ELSE "A"

\* An endpoint's identity: its channel and its side.
Endpoints == ChannelIds \X EndSides
SetObjects == Endpoints \cup Others

VARIABLES
    channels,    \* per slot of the set: the channel in it, or NoChannel
    queues,      \* per endpoint: refs, open, inbox
    held,        \* per object: references to it outside every queue of the set
    dropped,     \* per object: how often a sink was given it
    next,        \* the next channel identity
    collecting,  \* a close, a release or a collect is in progress
    clean        \* history: no send since the last collection ended

setVars == <<channels, queues, held, dropped, next, collecting, clean>>

SetSlots == 0 .. CAP - 1
NoEnd == [refs |-> 0, open |-> FALSE, inbox |-> <<>>]
NewEnd == [refs |-> 1, open |-> TRUE, inbox |-> <<>>]

SetInit ==
    /\ channels = [i \in SetSlots |-> NoChannel]
    /\ queues = [e \in Endpoints |-> NoEnd]
    /\ held = [o \in SetObjects |-> IF o \in Others THEN 1 ELSE 0]
    /\ dropped = [o \in SetObjects |-> 0]
    /\ next = 1
    /\ collecting = FALSE
    /\ clean = TRUE

\* find: whether an object is an endpoint of a channel of the set.
FindEndpoint(o) == o \in Endpoints /\ o[1] \in Range(channels)

-----------------------------------------------------------------------------
\* finished: both endpoints closed and both inboxes empty.
Finished(id) ==
    \A s \in EndSides : ~ queues[<<id, s>>].open /\ queues[<<id, s>>].inbox = <<>>

\* create: the first slot that is empty or finished; what was in it is gone.
Create ==
    LET usable == {i \in SetSlots : channels[i] = NoChannel \/ Finished(channels[i])}
        i == Min(usable)
    IN  /\ ~ collecting
        /\ next \in ChannelIds
        /\ usable # {}
        /\ channels' = [channels EXCEPT ![i] = next]
        /\ queues' = [e \in Endpoints |-> IF e[1] = next THEN NewEnd
                                        ELSE IF e[1] = channels[i] THEN NoEnd
                                        ELSE queues[e]]
        /\ held' = [o \in SetObjects |-> IF o \in {next} \X EndSides THEN 1 ELSE held[o]]
        /\ next' = next + 1
        /\ UNCHANGED <<dropped, collecting, clean>>

\* How often a list of objects names o.
Occurrences(list, o) == Cardinality({k \in DOMAIN list : list[k] = o})

HasRoom(e) == Len(queues[e].inbox) < SetD

\* Channel::send on endpoint e of a list of objects, which leave the sender.
\* No endpoint of e's own channel is among them (WouldCycle).
SetSend(e, list) ==
    LET peer == <<e[1], PeerSide(e[2])>>
    IN  /\ ~ collecting
        /\ \A k \in DOMAIN list : ~ (list[k] \in Endpoints /\ list[k][1] = e[1])
        /\ queues[e].open
        /\ queues[peer].open
        /\ HasRoom(peer)
        /\ \A o \in SetObjects : Occurrences(list, o) <= held[o]
        /\ held' = [o \in SetObjects |-> held[o] - Occurrences(list, o)]
        /\ queues' = [queues EXCEPT ![peer].inbox = Append(@, list)]
        /\ clean' = FALSE
        /\ UNCHANGED <<channels, dropped, next, collecting>>

\* Channel::receive on endpoint e.
SetReceive(e) ==
    /\ ~ collecting
    /\ queues[e].open
    /\ queues[e].inbox # <<>>
    /\ LET list == Head(queues[e].inbox)
       IN  held' = [o \in SetObjects |-> held[o] + Occurrences(list, o)]
    /\ queues' = [queues EXCEPT ![e].inbox = Tail(@)]
    /\ UNCHANGED <<channels, dropped, next, collecting, clean>>

\* Channel::duplicate of a handle to endpoint e.
SetDuplicate(e) ==
    /\ ~ collecting
    /\ queues[e].open
    /\ queues[e].refs < SetMaxRefs
    /\ queues' = [queues EXCEPT ![e].refs = @ + 1]
    /\ held' = [held EXCEPT ![e] = @ + 1]
    /\ UNCHANGED <<channels, dropped, next, collecting, clean>>

\* Mutant: several references given back count as one.
\* release_keeping_inbox, n times; a count that is already zero stays there.
Released(end, n) ==
    LET left == IF n > end.refs THEN 0 ELSE end.refs - n
    IN  [end EXCEPT !.refs = left, !.open = @ /\ left > 0]

\* close, and release for a reference in no table: give the reference back,
\* then collect.
SetClose(e) ==
    /\ ~ collecting
    /\ FindEndpoint(e)
    /\ held' = [held EXCEPT ![e] = @ - 1]
    /\ queues' = [queues EXCEPT ![e] = Released(@, 1)]
    /\ collecting' = TRUE
    /\ UNCHANGED <<channels, dropped, next, clean>>

Collect ==
    /\ ~ collecting
    /\ collecting' = TRUE
    /\ UNCHANGED <<channels, queues, held, dropped, next, clean>>

-----------------------------------------------------------------------------
(* The collector. *)

InSet == {e \in Endpoints : FindEndpoint(e)}

\* How often the queued messages of the inboxes in es name an object.
Copies(es, o) ==
    Cardinality({<<e, k, j>> \in es \X (1 .. SetD) \X (1 .. SetH) :
        /\ k \in DOMAIN queues[e].inbox
        /\ j \in DOMAIN queues[e].inbox[k]
        /\ queues[e].inbox[k][j] = o})

\* The objects named in the inboxes in es.
Named(es) ==
    UNION {Range(m) : m \in UNION {Range(queues[e].inbox) : e \in es}}

\* SetHeld from outside the set's queues.
Roots == {e \in InSet : queues[e].open /\ queues[e].refs # Copies(InSet, e)}

\* mark: reachability spreads through the inboxes of open reachable endpoints,
\* a pass for each endpoint at most.
Mark ==
    LET pass[k \in 0 .. 2 * CAP] ==
            IF k = 0 THEN Roots
            ELSE LET seen == pass[k - 1]
                 IN  seen \cup (Named({e \in seen : queues[e].open}) \cap InSet)
    IN  pass[2 * CAP]

\* Mutant: the inboxes of closed endpoints are forgotten.
DeadGarbageOnly ==
    LET marked == Mark IN {e \in InSet : queues[e].open /\ e \notin marked}

\* Mutant: an inbox with messages counts, whether its endpoint is closed or not.
DeadAnyQueued ==
    LET marked == Mark
    IN  {e \in InSet : (queues[e].open /\ e \notin marked) \/ queues[e].inbox # <<>>}

\* The inboxes a round takes apart: those of open endpoints nothing reaches,
\* and those of closed endpoints that still hold messages.
Dead ==
    LET marked == Mark
    IN  {e \in InSet : \/ queues[e].open /\ e \notin marked
                       \/ ~ queues[e].open /\ queues[e].inbox # <<>>}

\* take_apart for every inbox in dead: each entry that names an endpoint of
\* the set is released, anything else goes to the sink.
TakeApart(dead) ==
    /\ queues' = [e \in Endpoints |->
                  LET end == IF e \in InSet
                             THEN Released(queues[e], Copies(dead, e))
                             ELSE queues[e]
                  IN  IF e \in dead THEN [end EXCEPT !.inbox = <<>>] ELSE end]
    /\ dropped' = [o \in SetObjects |->
                  IF FindEndpoint(o) THEN dropped[o] ELSE dropped[o] + Copies(dead, o)]

\* One round of collect's loop.  It is the last one if it finds nothing, and
\* also if it made no progress, no message removed and no endpoint closed.
CollectRound ==
    LET dead == Dead
    IN  /\ collecting
        /\ TakeApart(dead)
        /\ collecting' = (dead # {} /\ queues' # queues)
        /\ clean' = (clean \/ ~ collecting')
        /\ UNCHANGED <<channels, held, next>>

SetHeld == {o \in SetObjects : held[o] > 0}
SetLists == BoundedSeq(SetHeld, SetH)

SetNext ==
    \/ Create
    \/ \E e \in SetHeld \cap Endpoints :
        \/ \E list \in SetLists : SetSend(e, list)
        \/ SetReceive(e)
        \/ SetDuplicate(e)
        \/ SetClose(e)
    \/ Collect
    \/ CollectRound

SetSpec == SetInit /\ [][SetNext]_setVars
-----------------------------------------------------------------------------
SetTypeOK ==
    /\ channels \in [SetSlots -> ChannelIds \cup {NoChannel}]
    /\ \A e \in Endpoints :
        /\ queues[e].refs \in 0 .. SetMaxRefs
        /\ queues[e].open \in BOOLEAN
        /\ Len(queues[e].inbox) <= SetD
    /\ held \in [SetObjects -> Nat]
    /\ dropped \in [SetObjects -> Nat]
    /\ next \in Nat
    /\ collecting \in BOOLEAN
    /\ clean \in BOOLEAN

\* Every reference is counted by the endpoint it names and every other object
\* is somewhere, once, through any number of collections: the counts that
\* `mark` compares are right, so the assertions in `mark` hold.  And an endpoint
\* that anything names is found in the set: a slot is reused only when nothing
\* names its old channel.
CountsExact ==
    /\ \A e \in Endpoints :
        /\ queues[e].refs = held[e] + Copies(Endpoints, e)
        /\ queues[e].open <=> queues[e].refs > 0
        /\ queues[e].refs > 0 => FindEndpoint(e)
    /\ \A o \in Others :
        held[o] + Copies(Endpoints, o) + dropped[o] = 1

\* What nobody can get at: a set of open endpoints, none of them held outside
\* the queues, named only in inboxes of the set itself or of closed endpoints.
IsUnreachable(U) ==
    \A e \in U : /\ held[e] = 0
                 /\ \A h \in Endpoints : queues[h].open /\ e \in Named({h}) => h \in U
Unreachable ==
    UNION {U \in SUBSET {e \in Endpoints : queues[e].open} : IsUnreachable(U)}

\* A collection leaves no garbage: when it has ended, and until the next send,
\* every open endpoint can be got at and no closed one holds a message.
NoGarbageLeft ==
    clean /\ ~ collecting =>
        /\ Unreachable = {}
        /\ \A e \in Endpoints : ~ queues[e].open => queues[e].inbox = <<>>

\* The collector takes nothing from anybody: a round leaves what can be got at
\* open, with the messages in its inbox untouched.
ReachableKept ==
    [][collecting => LET lost == Unreachable IN
        \A e \in Endpoints : queues[e].open /\ e \notin lost =>
            queues'[e].open /\ queues'[e].inbox = queues[e].inbox]_setVars
=============================================================================
