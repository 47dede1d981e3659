--------------------------- MODULE HandleTableSpec ---------------------------
(***************************************************************************)
(* One handle table and the program that uses it: every public operation   *)
(* of HandleTable<N>, with any handle value the program cares to pass,     *)
(* stale and never-issued ones included.                                   *)
(*                                                                         *)
(* issued, closed, cycles and granted are history: which handle values     *)
(* insert and duplicate returned, which of them were closed or moved out,  *)
(* how often each slot was vacated, and the rights the creator of the      *)
(* object gave the handle that a slot's entry descends from.               *)
(***************************************************************************)
EXTENDS HandleTable

CONSTANT MaxList    \* the longest transfer list a caller passes

ASSUME MaxListAssumption == MaxList \in Nat

VARIABLES
    table,      \* the slots
    live,       \* HandleTable::live
    issued,     \* handle values ever returned
    closed,     \* handle values ever closed or moved out
    cycles,     \* per slot: how often it was vacated
    granted,    \* per slot: the rights its entry's line of descent began with
    out         \* the last transfer: handles listed, entries delivered

vars == <<table, live, issued, closed, cycles, granted, out>>

\* Every value a program could hold: any index, any generation, zero included.
Handles == 0 .. MaxGeneration * Stride + Stride - 1

NoTransfer == [res |-> "Ok", listed |-> 0, delivered |-> 0]

Results == {"Ok", "BadHandle", "AccessDenied", "Duplicate"}

Init ==
    /\ table = NewTable
    /\ live = 0
    /\ issued = {}
    /\ closed = {}
    /\ cycles = [i \in Slots |-> 0]
    /\ granted = [i \in Slots |-> {}]
    /\ out = NoTransfer

-----------------------------------------------------------------------------
InsertEntry(entry) ==
    /\ FreeSlots(table) # {}
    /\ table' = Insert(table, entry)
    /\ live' = live + 1
    /\ issued' = issued \cup {InsertHandle(table)}
    /\ granted' = [granted EXCEPT ![InsertIndex(table)] = entry.rights]
    /\ out' = NoTransfer
    /\ UNCHANGED <<closed, cycles>>

CloseHandle(h) ==
    /\ Resolves(table, h)
    /\ table' = Close(table, h)
    /\ live' = live - 1
    /\ closed' = closed \cup {h}
    /\ cycles' = [cycles EXCEPT ![Index(h)] = @ + 1]
    /\ granted' = [granted EXCEPT ![Index(h)] = {}]
    /\ out' = NoTransfer
    /\ UNCHANGED issued

DuplicateHandle(h, mask) ==
    /\ DuplicateResult(table, h) = "Ok"
    /\ table' = Duplicate(table, h, mask)
    /\ live' = live + 1
    /\ issued' = issued \cup {InsertHandle(table)}
    /\ granted' = [granted EXCEPT ![InsertIndex(table)] = granted[Index(h)]]
    /\ out' = NoTransfer
    /\ UNCHANGED <<closed, cycles>>

\* transfer_out: the checked close of a single handle that may be sent.
TransferOutHandle(h) ==
    /\ Resolves(table, h)
    /\ "TRANSFER" \in EntryOf(table, h).rights
    /\ CloseHandle(h)

\* transfer_out_many, whatever its answer: a refusal moves nothing.
TransferOutHandles(list) ==
    LET res == CheckTransferOutMany(table, list)
        moved == Moved(table, list)
        vacated == {Index(list[k]) : k \in moved}
    IN  IF res = "Ok"
        THEN /\ table' = TransferOutMany(table, list)
             /\ live' = live - Cardinality(moved)
             /\ closed' = closed \cup {list[k] : k \in moved}
             /\ cycles' = [i \in Slots |-> IF i \in vacated
                                           THEN cycles[i] + 1 ELSE cycles[i]]
             /\ granted' = [i \in Slots |-> IF i \in vacated
                                            THEN {} ELSE granted[i]]
             /\ out' = [res |-> res, listed |-> Len(list),
                        delivered |-> Cardinality(moved)]
             /\ UNCHANGED issued
        ELSE /\ out' = [res |-> res, listed |-> Len(list), delivered |-> 0]
             /\ UNCHANGED <<table, live, issued, closed, cycles, granted>>

Lists == UNION {[1 .. k -> Handles] : k \in 1 .. MaxList}

Next ==
    \/ \E entry \in Entry : InsertEntry(entry)
    \/ \E h \in Handles :
        \/ CloseHandle(h)
        \/ TransferOutHandle(h)
        \/ \E mask \in SUBSET Rights : DuplicateHandle(h, mask)
    \/ \E list \in Lists : TransferOutHandles(list)

Spec == Init /\ [][Next]_vars
-----------------------------------------------------------------------------
TypeOK ==
    /\ table \in Table
    /\ live \in 0 .. N
    /\ issued \subseteq Handles
    /\ closed \subseteq issued
    /\ cycles \in [Slots -> 0 .. CYCLES_PER_SLOT]
    /\ granted \in [Slots -> SUBSET Rights]
    /\ out \in [res : Results, listed : 0 .. MaxList, delivered : 0 .. MaxList]

\* A handle value names something exactly while it is issued and not yet
\* closed: a stale copy of a closed handle is refused for ever, even after its
\* slot has been reused, and no value that was never issued (zero among them)
\* is honoured.  (handle.rs: generations, `get`, `advance`.)
ResolvesExactlyWhileOpen ==
    \A h \in Handles : Resolves(table, h) <=> h \in issued \ closed

\* A slot is retired by its CYCLES_PER_SLOT-th close and by no other, and a
\* retired slot is empty: the figure that sizing a long-lived table relies on.
\* (handle.rs: CYCLES_PER_SLOT, `advance`.)
RetiredAfterItsCycles ==
    \A i \in Slots :
        /\ table[i].retired <=> cycles[i] = CYCLES_PER_SLOT
        /\ table[i].retired => table[i].entry = NoEntry

\* `live` is the number of occupied slots, so `len` and `is_empty` tell the
\* truth after any mixture of single and batched removals.
LiveCountsEntries ==
    live = Cardinality({i \in Slots : table[i].entry # NoEntry})

\* A batch that is accepted delivers an entry for every handle it lists, and a
\* batch that is refused delivers none.  (handle.rs: `transfer_out_many`.)
AllOrNothing ==
    out.delivered = IF out.res = "Ok" THEN out.listed ELSE 0

\* Rights only narrow: however long the chain of duplicates an entry comes
\* from, it carries at most the rights the object's creator put into the first
\* handle of the chain.  (rights.rs: `narrow`; handle.rs: `duplicate`.)
RightsNeverWiden ==
    \A i \in Slots :
        table[i].entry # NoEntry => table[i].entry.rights \subseteq granted[i]
=============================================================================
