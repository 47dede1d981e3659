-------------------------------- MODULE Inbox --------------------------------
(***************************************************************************)
(* The bounded message queue behind one endpoint                           *)
(* (kernel/ipc/src/inbox.rs): a ring of D message slots.  A message is a   *)
(* number that stands for its bytes and an array of H handle entries,      *)
(* packed from the front; NoBytes and NoEntry fill what is unused.         *)
(***************************************************************************)
EXTENDS HandleTable

CONSTANTS
    D,      \* message slots in an inbox
    H,      \* handle positions in a message
    NoBytes

ASSUME InboxAssumption ==
    /\ D \in Nat \ {0}                  \* the assert! of Inbox::new
    /\ H \in Nat
    /\ NoBytes \notin Nat

Entries == [1 .. H -> Entry \cup {NoEntry}]

Message == [bytes : Nat \cup {NoBytes}, handles : Entries]

InboxType == [slots : [0 .. D - 1 -> Message], head : 0 .. D - 1, len : 0 .. D]

NoHandles == [k \in 1 .. H |-> NoEntry]

NewInbox ==
    [slots |-> [i \in 0 .. D - 1 |-> [bytes |-> NoBytes, handles |-> NoHandles]],
     head |-> 0, len |-> 0]

IsFull(q) == q.len >= D

IndexIn(q, offset) == (q.head + offset) % D

\* Message::entries: up to the first empty position.
EntriesOf(m) ==
    LET used == {k \in 1 .. H : \A j \in 1 .. k : m.handles[j] # NoEntry}
    IN  [k \in 1 .. Cardinality(used) |-> m.handles[k]]

FrontOf(q) == q.slots[q.head]

\* The queued messages, front first.
Queued(q) == [k \in 1 .. q.len |-> q.slots[IndexIn(q, k - 1)]]

\* vacant, handle_slots and commit: the entries are staged over the first
\* positions of the tail slot, whatever the other positions hold.
Commit(q, bytes, entries) ==
    LET i == IndexIn(q, q.len)
        staged == [k \in 1 .. H |-> IF k \in DOMAIN entries THEN entries[k]
                                    ELSE q.slots[i].handles[k]]
    IN  [q EXCEPT !.slots[i] = [bytes |-> bytes, handles |-> staged],
                  !.len = IF @ + 1 > D THEN D ELSE @ + 1]

TakeFrontKeepsHandles(q) ==     \* mutant: the slot keeps stale copies
    [q EXCEPT !.slots[q.head].bytes = NoBytes,
              !.head = IndexIn(q, 1),
              !.len = @ - 1]

\* take_front and discard_front: the slot is cleared as it leaves the queue.
TakeFront(q) ==
    [q EXCEPT !.slots[q.head] = [bytes |-> NoBytes, handles |-> NoHandles],
              !.head = IndexIn(q, 1),
              !.len = @ - 1]
=============================================================================
