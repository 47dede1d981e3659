----------------------------- MODULE HandleTable -----------------------------
(***************************************************************************)
(* The value of a process's handle table and the operations on it          *)
(* (kernel/kobject/src/handle.rs, kernel/kobject/src/rights.rs).           *)
(*                                                                         *)
(* A table is a function from slot numbers to slots.  Every operation is a *)
(* pure operator on that value, so that the state machines of this project *)
(* (HandleTableSpec, Channel, ChannelSet) share one definition of it.  The *)
(* code runs each operation under an exclusive borrow of the table, which  *)
(* is what makes an operator on the whole value the right grain.           *)
(***************************************************************************)
EXTENDS Integers, Sequences, FiniteSets, FiniteSetsExt

CONSTANTS
    N,              \* slots in a table (HandleTable<N>)
    Stride,         \* 2^INDEX_BITS: a handle is generation * Stride + index
    MaxGeneration,  \* MAX_GENERATION: the generation that is never reached
    Objects,        \* object identities
    Kinds,          \* object types
    Rights,         \* the rights a handle can carry
    NoEntry         \* the None of Option<Entry>

Entry == [object : Objects, kind : Kinds, rights : SUBSET Rights]

ASSUME TableAssumption ==
    /\ N \in Nat \ {0}
    /\ Stride \in Nat
    /\ N <= Stride                      \* the assert! of HandleTable::new
    /\ MaxGeneration \in Nat
    /\ MaxGeneration > 1
    /\ {"DUPLICATE", "TRANSFER"} \subseteq Rights
    /\ NoEntry \notin Entry

Slots == 0 .. N - 1

Slot == [generation : 1 .. MaxGeneration - 1,
         entry : Entry \cup {NoEntry},
         retired : BOOLEAN]

Table == [Slots -> Slot]

\* Open/close cycles one slot serves before it is retired.
CYCLES_PER_SLOT == MaxGeneration - 1

-----------------------------------------------------------------------------
(* Handles: one integer that packs a slot's index and its generation. *)

Handle(index, generation) == generation * Stride + index
Index(h) == h % Stride
Generation(h) == h \div Stride

(* Rights: a set; narrowing intersects. *)
NarrowReplaces(rights, mask) == mask    \* mutant: the mask, whatever was held, Mutants
Narrow(rights, mask) == rights \cap mask

-----------------------------------------------------------------------------
NewTable == [i \in Slots |->
                [generation |-> 1, entry |-> NoEntry, retired |-> FALSE]]

Vacant(slot) == slot.entry = NoEntry /\ ~ slot.retired

FreeSlots(t) == {i \in Slots : Vacant(t[i])}

\* `get`: the handle's slot exists, has its generation, and is occupied.
Resolves(t, h) ==
    /\ Index(h) \in Slots
    /\ t[Index(h)].generation = Generation(h)
    /\ t[Index(h)].entry # NoEntry

EntryOf(t, h) == t[Index(h)].entry

\* `get_checked`: liveness, then the type, then the rights.
GetChecked(t, h, kind, required) ==
    IF ~ Resolves(t, h) THEN "BadHandle"
    ELSE IF EntryOf(t, h).kind # kind THEN "WrongType"
    ELSE IF ~ required \subseteq EntryOf(t, h).rights THEN "AccessDenied"
    ELSE "Ok"

-----------------------------------------------------------------------------
(* insert: the first slot that is neither occupied nor retired. *)

InsertIndex(t) == Min(FreeSlots(t))

InsertHandle(t) == Handle(InsertIndex(t), t[InsertIndex(t)].generation)

Insert(t, entry) == [t EXCEPT ![InsertIndex(t)].entry = entry]

(* close: take the entry, then advance the generation or retire the slot. *)

AdvanceWraps(slot) ==       \* mutant: the generation wraps instead
    [slot EXCEPT !.generation = IF @ + 1 >= MaxGeneration THEN 1 ELSE @ + 1]

AdvanceEarly(slot) ==       \* mutant: retired one cycle too soon
    IF slot.generation + 2 >= MaxGeneration
    THEN [slot EXCEPT !.retired = TRUE]
    ELSE [slot EXCEPT !.generation = slot.generation + 1]

AdvanceLate(slot) ==        \* mutant: retired one cycle too late
    IF slot.generation + 1 > MaxGeneration
    THEN [slot EXCEPT !.retired = TRUE]
    ELSE [slot EXCEPT !.generation = slot.generation + 1]

Advance(slot) ==
    IF slot.generation + 1 >= MaxGeneration
    THEN [slot EXCEPT !.retired = TRUE]
    ELSE [slot EXCEPT !.generation = slot.generation + 1]

Vacate(slot) == Advance([slot EXCEPT !.entry = NoEntry])

Close(t, h) == [t EXCEPT ![Index(h)] = Vacate(t[Index(h)])]

(* duplicate: needs DUPLICATE, and a free slot for the narrowed copy. *)
DuplicateResult(t, h) ==
    IF ~ Resolves(t, h) THEN "BadHandle"
    ELSE IF "DUPLICATE" \notin EntryOf(t, h).rights THEN "AccessDenied"
    ELSE IF FreeSlots(t) = {} THEN "TableFull"
    ELSE "Ok"

Duplicate(t, h, mask) ==
    Insert(t, [EntryOf(t, h) EXCEPT !.rights = Narrow(@, mask)])

(* transfer_out_many: every check before anything moves. *)

TransferFaultRepeats(t, list, k) ==     \* mutant: a repeated handle passes
    IF ~ Resolves(t, list[k]) THEN "BadHandle"
    ELSE IF "TRANSFER" \notin EntryOf(t, list[k]).rights THEN "AccessDenied"
    ELSE "Ok"

\* check_transfer_out_many's complaint about position k of the list.
TransferFault(t, list, k) ==
    IF ~ Resolves(t, list[k]) THEN "BadHandle"
    ELSE IF "TRANSFER" \notin EntryOf(t, list[k]).rights THEN "AccessDenied"
    ELSE IF \E j \in 1 .. k - 1 : list[j] = list[k] THEN "Duplicate"
    ELSE "Ok"

\* The first position at fault decides the error.
CheckTransferOutMany(t, list) ==
    LET faults == {k \in DOMAIN list : TransferFault(t, list, k) # "Ok"}
    IN  IF faults = {} THEN "Ok" ELSE TransferFault(t, list, Min(faults))

\* The positions whose `entry.take()` yields something: the slot is occupied,
\* and no earlier position has vacated it.
Moved(t, list) ==
    {k \in DOMAIN list :
        /\ EntryOf(t, list[k]) # NoEntry
        /\ \A j \in 1 .. k - 1 : Index(list[j]) # Index(list[k])}

TransferOutMany(t, list) ==
    [i \in Slots |-> IF \E k \in Moved(t, list) : Index(list[k]) = i
                     THEN Vacate(t[i])
                     ELSE t[i]]
=============================================================================
