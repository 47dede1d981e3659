-------------------------------- MODULE MCIpc --------------------------------
(***************************************************************************)
(* The object store, a channel and the channel set on small instances.     *)
(* They share no state.  `machine`, chosen at first, is the one that moves  *)
(* and the others stay as they start, so a behaviour of this module is a   *)
(* behaviour of one of the three, and TLC checks the three in one run.     *)
(***************************************************************************)
EXTENDS ObjectStore, Channel, ChannelSet

VARIABLE machine

vars == <<machine, storeVars, channelVars, setVars>>

Init ==
    /\ machine \in {"store", "channel", "set"}
    /\ StoreInit
    /\ ChannelInit
    /\ SetInit

StoreMoves == machine = "store" /\ UNCHANGED <<machine, channelVars, setVars>>
ChannelMoves == machine = "channel" /\ UNCHANGED <<machine, storeVars, setVars>>
SetMoves == machine = "set" /\ UNCHANGED <<machine, storeVars, channelVars>>

Next ==
    \/ StoreNext /\ StoreMoves
    \/ ChannelNext /\ ChannelMoves
    \/ SetNext /\ SetMoves

Spec == Init /\ [][Next]_vars

-----------------------------------------------------------------------------
(* What the channel and the set promise, of the one that moves. *)

OneChannel(p) == machine = "channel" => p
Set(p) == machine = "set" => p

\* Sending, receiving and closing lose no entry and double none, and no entry
\* comes out of a channel with more rights than were granted (channel.rs).
ChannelConserves == OneChannel(ReferencesConserved /\ RightsWithinGrant)

\* Messages arrive once, in the order they were sent (inbox.rs), and after
\* PeerClosed nothing more arrives (receive).
ChannelOrdered == OneChannel(DeliveredInOrder /\ PeerClosedIsFinal)

\* The counts the collector compares are exact (set.rs: mark), and a collection
\* leaves no unreachable endpoint open (collect).
SetCollected == Set(CountsExact /\ NoGarbageLeft)

-----------------------------------------------------------------------------
MCRights == {"READ", "WRITE", "TRANSFER", "DUPLICATE"}

\* One mask that keeps everything and one that keeps only what moving needs.
MCMasks == {MCRights, {"READ", "TRANSFER"}}

\* One entry of a third object, which lacks WRITE and DUPLICATE.
MCLoose == [e \in {[object |-> "E", kind |-> "Event", rights |-> {"READ", "TRANSFER"}]} |-> 1]

\* The processes are interchangeable.
MCSymmetry == Permutations(Procs)
=============================================================================
