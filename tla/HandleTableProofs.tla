-------------------------- MODULE HandleTableProofs --------------------------
(***************************************************************************)
(* The handle table is safe for every table size, every split of the 32    *)
(* bits and every number of generations.                                   *)
(*                                                                         *)
(* The invariant that carries the proof is GenerationsCount: an unretired  *)
(* slot's generation is one more than the number of times it was vacated,  *)
(* and a closed handle names a generation its slot has left, or the last   *)
(* generation of a retired slot.                                           *)
(***************************************************************************)
EXTENDS HandleTableSpec, FiniteSetTheorems, TLAPS

(***************************************************************************)
(* Packing and unpacking handles.                                          *)
(***************************************************************************)

\* Multiplying by a natural number keeps order.
LEMMA TimesMonotone ==
    ASSUME NEW a \in Nat, NEW b \in Nat, NEW c \in Nat, a < b
    PROVE  a * c + c <= b * c
<1>1. PICK d \in Nat : b = a + 1 + d
    BY b - a - 1 \in Nat
<1>2. b * c = a * c + c + d * c
    BY <1>1
<1>3. d * c \in Nat
    OBVIOUS
<1> QED BY <1>2, <1>3

\* A packed handle unpacks to the index and the generation it was made from.
LEMMA PackUnpack ==
    ASSUME NEW i \in Slots, NEW g \in Nat
    PROVE  /\ Handle(i, g) \in Nat
           /\ Index(Handle(i, g)) = i
           /\ Generation(Handle(i, g)) = g
<1> DEFINE h == Handle(i, g)  q == Generation(h)  r == Index(h)
<1>1. Stride \in Nat /\ Stride > 0 /\ i \in Nat /\ i < Stride
    BY TableAssumption DEF Slots
<1>2. g * Stride \in Nat
    BY <1>1
<1>3. h \in Nat /\ h = g * Stride + i
    BY <1>1, <1>2 DEF Handle
<1>4. q \in Nat /\ r \in Nat /\ r < Stride /\ h = q * Stride + r
    BY <1>1, <1>3 DEF Generation, Index
<1> HIDE DEF h, q, r
<1>5. q * Stride \in Nat
    BY <1>1, <1>4
<1>6. q = g
  <2>1. ~ (q < g)
      <3>1. ASSUME q < g PROVE FALSE
          <4>1. q * Stride + Stride <= g * Stride
              BY <1>1, <1>4, <3>1, TimesMonotone, Zenon
          <4> QED BY <4>1, <1>1, <1>2, <1>3, <1>4, <1>5
      <3> QED BY <3>1, Zenon
  <2>2. ~ (g < q)
      <3>1. ASSUME g < q PROVE FALSE
          <4>1. g * Stride + Stride <= q * Stride
              BY <1>1, <1>4, <3>1, TimesMonotone, Zenon
          <4> QED BY <4>1, <1>1, <1>2, <1>3, <1>4, <1>5
      <3> QED BY <3>1, Zenon
  <2> QED BY <2>1, <2>2, <1>4
<1>7. g * Stride + i = g * Stride + r
    BY <1>3, <1>4, <1>6, Zenon
<1>8. r = i
    BY <1>1, <1>2, <1>4, <1>7
<1> QED BY <1>3, <1>6, <1>8, Zenon DEF h, q, r

\* Two handle values with the same index and generation are the same value.
LEMMA UnpackInjective ==
    ASSUME NEW h \in Nat, NEW k \in Nat,
           Index(h) = Index(k), Generation(h) = Generation(k)
    PROVE  h = k
<1>1. Stride \in Nat /\ Stride > 0
    BY TableAssumption
<1>2. h = Generation(h) * Stride + Index(h)
    BY <1>1 DEF Generation, Index
<1>3. k = Generation(k) * Stride + Index(k)
    BY <1>1 DEF Generation, Index
<1> QED BY <1>2, <1>3, Zenon

\* A handle of a slot and a generation below the maximum is one a program can pass.
LEMMA HandleInRange ==
    ASSUME NEW i \in Slots, NEW g \in 1 .. MaxGeneration - 1
    PROVE  Handle(i, g) \in Handles
<1>1. /\ Stride \in Nat /\ i \in Nat /\ i < Stride
      /\ MaxGeneration \in Nat /\ g \in Nat /\ g < MaxGeneration
    BY TableAssumption DEF Slots
<1>2. g * Stride + Stride <= MaxGeneration * Stride
    BY <1>1, TimesMonotone, Zenon
<1>3. g * Stride \in Nat /\ MaxGeneration * Stride \in Nat
    BY <1>1
<1> QED BY <1>1, <1>2, <1>3 DEF Handle, Handles

\* A nonempty set of naturals contains its minimum.
LEMMA MinIn ==
    ASSUME NEW S \in SUBSET Nat, S # {}
    PROVE  Min(S) \in S
<1>1. PICK x \in S : \A y \in S : ~ (<<y, x>> \in OpToRel(<, Nat))
    BY WFMin, NatLessThanWellFounded, Zenon
<1>2. ASSUME NEW y \in S PROVE x =< y
    <2>1. <<y, x>> \in Nat \X Nat /\ ~ (y < x)
        BY <1>1, Zenon DEF OpToRel
    <2> QED BY <2>1
<1> QED BY <1>2, Zenon DEF Min

\* The slot insert picks is one of the free ones.
LEMMA InsertIndexFree ==
    ASSUME NEW t, FreeSlots(t) # {}
    PROVE  InsertIndex(t) \in FreeSlots(t) /\ InsertIndex(t) \in Slots
<1>1. FreeSlots(t) \subseteq Nat /\ FreeSlots(t) \subseteq Slots
    BY TableAssumption DEF FreeSlots, Slots
<1> QED BY <1>1, MinIn, Zenon DEF InsertIndex

(***************************************************************************)
(* The inductive invariant.                                                *)
(***************************************************************************)

\* An unretired slot's generation counts its vacations; a retired slot is
\* empty and stays at its last generation; a closed handle names a generation
\* that its slot has left or can never leave.
GenerationsCount ==
    /\ \A i \in Slots :
          IF table[i].retired
          THEN /\ table[i].entry = NoEntry
               /\ table[i].generation = MaxGeneration - 1
               /\ cycles[i] = CYCLES_PER_SLOT
          ELSE table[i].generation = cycles[i] + 1
    /\ \A h \in closed :
          /\ Index(h) \in Slots
          /\ \/ Generation(h) < table[Index(h)].generation
             \/ table[Index(h)].retired

\* Everything but the outcome of the last transfer.
TableInv ==
    /\ table \in Table
    /\ issued \subseteq Handles
    /\ closed \subseteq issued
    /\ cycles \in [Slots -> 0 .. CYCLES_PER_SLOT]
    /\ granted \in [Slots -> SUBSET Rights]
    /\ GenerationsCount
    /\ ResolvesExactlyWhileOpen
    /\ LiveCountsEntries
    /\ RightsNeverWiden

OutInv ==
    /\ out \in [res : Results, listed : 0 .. MaxList, delivered : 0 .. MaxList]
    /\ AllOrNothing

IInv == TableInv /\ OutInv

Occupied(t) == {i \in Slots : t[i].entry # NoEntry}

\* The slots are finitely many, and so are the occupied ones.
LEMMA SlotsFinite ==
    /\ IsFiniteSet(Slots)
    /\ Cardinality(Slots) = N
    /\ \A S \in SUBSET Slots : /\ IsFiniteSet(S)
                               /\ Cardinality(S) \in Nat
                               /\ Cardinality(S) <= N
<1>1. N \in Nat /\ N > 0
    BY TableAssumption
<1>2. IsFiniteSet(0 .. N - 1) /\ Cardinality(0 .. N - 1) = N
    BY <1>1, FS_Interval
<1>3. ASSUME NEW S \in SUBSET Slots
      PROVE  IsFiniteSet(S) /\ Cardinality(S) \in Nat /\ Cardinality(S) <= N
    <2>1. IsFiniteSet(S) /\ Cardinality(S) <= Cardinality(Slots)
        BY <1>2, FS_Subset, Zenon DEF Slots
    <2> QED BY <2>1, <1>2, FS_CardinalityType, Zenon DEF Slots
<1> QED BY <1>2, <1>3, Zenon DEF Slots

\* Putting an entry into a free slot, as insert and duplicate both do,
\* preserves the invariant; r is what the new line of descent was granted.
LEMMA InsertPreserves ==
    ASSUME TableInv, FreeSlots(table) # {},
           NEW e \in Entry, NEW r \in SUBSET Rights, e.rights \subseteq r,
           table' = Insert(table, e),
           live' = live + 1,
           issued' = issued \cup {InsertHandle(table)},
           granted' = [granted EXCEPT ![InsertIndex(table)] = r],
           UNCHANGED <<closed, cycles>>
    PROVE  TableInv'
<1> DEFINE k == InsertIndex(table)
           g == table[k].generation
<1>1. k \in Slots /\ table[k].entry = NoEntry /\ ~ table[k].retired
    BY InsertIndexFree, Zenon DEF FreeSlots, Vacant
<1>2. g \in 1 .. MaxGeneration - 1 /\ g \in Nat
    BY <1>1, TableAssumption DEF TableInv, Table, Slot
<1>3. /\ InsertHandle(table) = Handle(k, g)
      /\ Handle(k, g) \in Handles
      /\ Handle(k, g) \in Nat
      /\ Index(Handle(k, g)) = k
      /\ Generation(Handle(k, g)) = g
    BY <1>1, <1>2, HandleInRange, PackUnpack, Zenon DEF InsertHandle
<1>4. e # NoEntry
    BY TableAssumption, Zenon
<1> HIDE DEF k, g
<1>5. table' = [table EXCEPT ![k].entry = e]
    BY Zenon DEF Insert, k
<1>6. table' \in Table
    BY <1>1, <1>5 DEF TableInv, Table, Slot
<1>7. \A i \in Slots : /\ table'[i].generation = table[i].generation
                       /\ table'[i].retired = table[i].retired
                       /\ i # k => table'[i] = table[i]
    BY <1>1, <1>5 DEF TableInv, Table, Slot
<1>8. table'[k].entry = e
    BY <1>1, <1>5 DEF TableInv, Table, Slot
<1>9. GenerationsCount'
  <2>1. \A i \in Slots :
          IF table'[i].retired
          THEN /\ table'[i].entry = NoEntry
               /\ table'[i].generation = MaxGeneration - 1
               /\ cycles'[i] = CYCLES_PER_SLOT
          ELSE table'[i].generation = cycles'[i] + 1
      BY <1>1, <1>7 DEF TableInv, GenerationsCount
  <2>2. \A h \in closed' :
          /\ Index(h) \in Slots
          /\ \/ Generation(h) < table'[Index(h)].generation
             \/ table'[Index(h)].retired
      BY <1>7, Zenon DEF TableInv, GenerationsCount
  <2> QED BY <2>1, <2>2, Zenon DEF GenerationsCount, CYCLES_PER_SLOT
<1>10. Handle(k, g) \notin closed
    BY <1>1, <1>2, <1>3 DEF TableInv, GenerationsCount, k, g
<1>11. ResolvesExactlyWhileOpen'
  <2> SUFFICES ASSUME NEW h \in Handles
               PROVE  Resolves(table', h) <=> h \in issued' \ closed'
      BY Zenon DEF ResolvesExactlyWhileOpen, Handles
  <2>1. CASE h = Handle(k, g)
      BY <2>1, <1>1, <1>3, <1>4, <1>7, <1>8, <1>10, Zenon DEF Resolves, g
  <2>2. CASE h # Handle(k, g) /\ Index(h) # k
      BY <2>2, <1>3, <1>7, Zenon DEF Resolves, TableInv, ResolvesExactlyWhileOpen
  <2>3. CASE h # Handle(k, g) /\ Index(h) = k
    <3>1. h \in Nat
        BY TableAssumption DEF Handles
    <3>2. Generation(h) # g
        BY <2>3, <3>1, <1>3, UnpackInjective, Zenon
    <3>3. ~ Resolves(table', h) /\ ~ Resolves(table, h)
        BY <2>3, <3>2, <1>1, <1>7, Zenon DEF Resolves, g
    <3> QED BY <3>3, <2>3, <1>3, Zenon DEF TableInv, ResolvesExactlyWhileOpen
  <2> QED BY <2>1, <2>2, <2>3, Zenon
<1>12. LiveCountsEntries'
  <2>1. Occupied(table') = Occupied(table) \cup {k} /\ k \notin Occupied(table)
      BY <1>1, <1>4, <1>7, <1>8 DEF Occupied
  <2>2. IsFiniteSet(Occupied(table))
      BY SlotsFinite, Zenon DEF Occupied
  <2>3. Cardinality(Occupied(table')) = Cardinality(Occupied(table)) + 1
      BY <2>1, <2>2, FS_AddElement, Zenon
  <2> QED BY <2>3, Zenon DEF TableInv, LiveCountsEntries, Occupied
<1>13. granted' \in [Slots -> SUBSET Rights]
    BY <1>1, Zenon DEF TableInv, k
<1>14. RightsNeverWiden'
    BY <1>1, <1>7, <1>8 DEF TableInv, RightsNeverWiden, k
<1> QED BY <1>3, <1>6, <1>9, <1>11, <1>12, <1>13, <1>14, Zenon DEF TableInv, CYCLES_PER_SLOT, Handles, Table, Slot, Entry

\* Vacating a slot empties it and either retires it, at its last generation, or
\* moves it to the next one.
LEMMA VacateSlot ==
    ASSUME NEW s \in Slot, ~ s.retired
    PROVE  /\ Vacate(s) \in Slot
           /\ Vacate(s).entry = NoEntry
           /\ s.generation \in Nat
           /\ \/ /\ Vacate(s).retired
                 /\ Vacate(s).generation = s.generation
                 /\ s.generation = MaxGeneration - 1
              \/ /\ ~ Vacate(s).retired
                 /\ Vacate(s).generation = s.generation + 1
<1> DEFINE e == [s EXCEPT !.entry = NoEntry]
<1>1. MaxGeneration \in Nat /\ MaxGeneration > 1
    BY TableAssumption, Zenon
<1>2. s.generation \in 1 .. MaxGeneration - 1 /\ s.generation \in Nat
    BY <1>1 DEF Slot
<1>3. e \in Slot /\ e.entry = NoEntry /\ e.generation = s.generation /\ ~ e.retired
    BY Zenon DEF Slot
<1>4. Vacate(s) = Advance(e)
    BY Zenon DEF Vacate
<1> HIDE DEF e
<1>5. CASE e.generation + 1 >= MaxGeneration
  <2>1. Vacate(s) = [e EXCEPT !.retired = TRUE]
      BY <1>4, <1>5, Zenon DEF Advance
  <2>2. s.generation = MaxGeneration - 1
      BY <1>1, <1>2, <1>3, <1>5
  <2>3. /\ Vacate(s) \in Slot /\ Vacate(s).entry = e.entry
        /\ Vacate(s).retired /\ Vacate(s).generation = e.generation
      BY <2>1, <1>3, Zenon DEF Slot
  <2> QED BY <2>2, <2>3, <1>2, <1>3, Zenon
<1>6. CASE ~ (e.generation + 1 >= MaxGeneration)
  <2>1. Vacate(s) = [e EXCEPT !.generation = e.generation + 1]
      BY <1>4, <1>6, Zenon DEF Advance
  <2>2. e.generation + 1 \in 1 .. MaxGeneration - 1
      BY <1>1, <1>2, <1>3, <1>6
  <2>3. /\ Vacate(s) \in Slot /\ Vacate(s).entry = e.entry
        /\ Vacate(s).retired = e.retired
        /\ Vacate(s).generation = e.generation + 1
      BY <2>1, <2>2, <1>3, Zenon DEF Slot
  <2> QED BY <2>3, <1>2, <1>3, Zenon
<1> QED BY <1>5, <1>6, Zenon

\* Vacating the slots in V, all of them occupied, as close and both transfers
\* do, preserves the invariant; C is the set of handles that named them.
LEMMA VacatePreserves ==
    ASSUME TableInv,
           NEW V \in SUBSET Slots, \A i \in V : table[i].entry # NoEntry,
           NEW C \in SUBSET Handles,
           \A h \in C : Resolves(table, h) /\ Index(h) \in V,
           \A i \in V : \E h \in C : Index(h) = i,
           table' = [i \in Slots |-> IF i \in V THEN Vacate(table[i])
                                                ELSE table[i]],
           live' = live - Cardinality(V),
           closed' = closed \cup C,
           cycles' = [i \in Slots |-> IF i \in V THEN cycles[i] + 1
                                                 ELSE cycles[i]],
           granted' = [i \in Slots |-> IF i \in V THEN {} ELSE granted[i]],
           UNCHANGED issued
    PROVE  TableInv'
<1>1. MaxGeneration \in Nat /\ MaxGeneration > 1
    BY TableAssumption, Zenon
<1>2. ASSUME NEW i \in V
      PROVE  /\ table'[i].entry = NoEntry
             /\ ~ table[i].retired
             /\ table[i].generation = cycles[i] + 1
             /\ table[i].generation \in Nat
             /\ \/ /\ table'[i].retired
                   /\ table'[i].generation = table[i].generation
                   /\ table[i].generation = MaxGeneration - 1
                \/ /\ ~ table'[i].retired
                   /\ table'[i].generation = table[i].generation + 1
             /\ table'[i] \in Slot
             /\ cycles'[i] = cycles[i] + 1
             /\ cycles'[i] \in 0 .. CYCLES_PER_SLOT
  <2>1. ~ table[i].retired /\ table[i].generation = cycles[i] + 1
      BY Zenon DEF TableInv, GenerationsCount
  <2>2. table[i] \in Slot /\ i \in Slots
      BY Zenon DEF TableInv, Table
  <2>3. table'[i] = Vacate(table[i]) /\ cycles'[i] = cycles[i] + 1
      BY <2>2, Zenon
  <2>4. table[i].generation \in 1 .. MaxGeneration - 1
      BY <2>2, Zenon DEF Slot
  <2>5. cycles'[i] \in 0 .. CYCLES_PER_SLOT
      BY <2>1, <2>2, <2>3, <2>4, <1>1 DEF CYCLES_PER_SLOT, TableInv
  <2> QED BY <2>1, <2>2, <2>3, <2>4, <2>5, VacateSlot, Zenon
<1>3. ASSUME NEW i \in Slots \ V
      PROVE  /\ table'[i] = table[i] /\ cycles'[i] = cycles[i]
             /\ granted'[i] = granted[i] /\ table'[i] \in Slot
             /\ cycles'[i] \in 0 .. CYCLES_PER_SLOT
    BY Zenon DEF TableInv, Table
<1>4. table' \in Table /\ cycles' \in [Slots -> 0 .. CYCLES_PER_SLOT]
    BY <1>2, <1>3, Zenon DEF Table
<1>5. \A i \in Slots :
        IF table'[i].retired
        THEN /\ table'[i].entry = NoEntry
             /\ table'[i].generation = MaxGeneration - 1
             /\ cycles'[i] = CYCLES_PER_SLOT
        ELSE table'[i].generation = cycles'[i] + 1
  <2> TAKE i \in Slots
  <2>1. CASE i \in V
    <3>1. cycles[i] \in Nat
        BY DEF TableInv
    <3> QED BY <2>1, <3>1, <1>1, <1>2, Zenon DEF CYCLES_PER_SLOT
  <2>2. CASE i \notin V
      BY <2>2, <1>3, Zenon DEF TableInv, GenerationsCount
  <2> QED BY <2>1, <2>2, Zenon
<1>6. ASSUME NEW h \in closed'
      PROVE  /\ Index(h) \in Slots
             /\ \/ Generation(h) < table'[Index(h)].generation
                \/ table'[Index(h)].retired
  <2>1. CASE h \in C
    <3>1. Index(h) \in V /\ Generation(h) = table[Index(h)].generation
        BY <2>1, Zenon DEF Resolves
    <3>2. PICK i \in V : i = Index(h)
        BY <3>1, Zenon
    <3> QED BY <3>1, <3>2, <1>2
  <2>2. CASE h \in closed /\ Index(h) \in V
    <3>1. Generation(h) < table[Index(h)].generation
        BY <2>2, <1>2, Zenon DEF TableInv, GenerationsCount
    <3>2. Generation(h) \in Int
        <4>1. h \in Nat /\ Stride \in Nat /\ Stride > 0
            BY TableAssumption DEF TableInv, Handles
        <4> QED BY <4>1 DEF Generation
    <3>3. PICK i \in V : i = Index(h)
        BY <2>2, Zenon
    <3>4. /\ table[i].generation \in Nat /\ i \in Slots
          /\ \/ table'[i].retired
             \/ table'[i].generation = table[i].generation + 1
        BY <1>2, Zenon
    <3>5. \/ table'[i].retired
          \/ Generation(h) < table'[i].generation
        BY <3>1, <3>2, <3>3, <3>4
    <3> QED BY <3>3, <3>4, <3>5, Zenon
  <2>3. CASE h \in closed /\ Index(h) \notin V
      BY <2>3, <1>3, Zenon DEF TableInv, GenerationsCount
  <2> QED BY <2>1, <2>2, <2>3, Zenon
<1>7. GenerationsCount'
    BY <1>5, <1>6, ZenonT(40) DEF GenerationsCount, CYCLES_PER_SLOT
<1>8. ResolvesExactlyWhileOpen'
  <2> SUFFICES ASSUME NEW h \in Handles
               PROVE  Resolves(table', h) <=> h \in issued' \ closed'
      BY Zenon DEF ResolvesExactlyWhileOpen, Handles
  <2>1. CASE Index(h) \in V
    <3>1. ~ Resolves(table', h)
        BY <2>1, <1>2, Zenon DEF Resolves
    <3>2. ASSUME h \in issued \ closed PROVE h \in C
      <4>1. Resolves(table, h)
          BY <3>2, Zenon DEF TableInv, ResolvesExactlyWhileOpen
      <4>2. PICK c \in C : Index(c) = Index(h)
          BY <2>1, Zenon
      <4>3. Generation(c) = Generation(h)
          BY <4>1, <4>2, Zenon DEF Resolves
      <4>4. c \in Nat /\ h \in Nat
          BY TableAssumption DEF Handles
      <4> QED BY <4>2, <4>3, <4>4, UnpackInjective, Zenon
    <3> QED BY <3>1, <3>2, Zenon
  <2>2. CASE Index(h) \notin V
    <3>1. h \notin C
        BY <2>2, Zenon
    <3>2. Resolves(table', h) <=> Resolves(table, h)
        BY <2>2, <1>3, Zenon DEF Resolves
    <3> QED BY <3>1, <3>2, Zenon DEF TableInv, ResolvesExactlyWhileOpen
  <2> QED BY <2>1, <2>2, Zenon
<1>9. LiveCountsEntries'
  <2>1. Occupied(table') = Occupied(table) \ V
      BY <1>2, <1>3, Zenon DEF Occupied
  <2>2. Occupied(table) \cap V = V
      BY Zenon DEF Occupied
  <2>3. IsFiniteSet(Occupied(table))
      BY SlotsFinite, Zenon DEF Occupied
  <2>4. Cardinality(Occupied(table')) = Cardinality(Occupied(table)) - Cardinality(V)
    <3>1. IsFiniteSet(V)
        BY SlotsFinite
    <3>2. Cardinality(Occupied(table) \ V)
            = Cardinality(Occupied(table)) - Cardinality(Occupied(table) \cap V)
        BY <2>3, <3>1, FS_Difference, Zenon
    <3> QED BY <2>1, <2>2, <3>2, Zenon
  <2> QED BY <2>4, Zenon DEF TableInv, LiveCountsEntries, Occupied
<1>10. granted' \in [Slots -> SUBSET Rights] /\ RightsNeverWiden'
    BY <1>2, <1>3, Zenon DEF TableInv, RightsNeverWiden
<1>11. closed' \subseteq issued'
    BY Zenon DEF TableInv, ResolvesExactlyWhileOpen
<1> QED BY <1>4, <1>7, <1>8, <1>9, <1>10, <1>11, Zenon
        DEF TableInv, CYCLES_PER_SLOT, Handles, Table, Slot, Entry

(***************************************************************************)
(* One lemma per operation.                                                *)
(***************************************************************************)

\* insert.
LEMMA InsertEntryPreserves ==
    ASSUME IInv, NEW entry \in Entry, InsertEntry(entry)
    PROVE  IInv'
<1>1. entry.rights \in SUBSET Rights
    BY Zenon DEF Entry
<1>2. TableInv'
    BY <1>1, InsertPreserves, Zenon DEF IInv, InsertEntry
<1>3. OutInv'
    BY MaxListAssumption DEF InsertEntry, OutInv, NoTransfer, Results, AllOrNothing
<1> QED BY <1>2, <1>3, Zenon DEF IInv

\* duplicate: the copy's rights are within the original's, and the original's
\* within what its own line of descent was granted.
LEMMA DuplicatePreserves ==
    ASSUME IInv, NEW h \in Handles, NEW mask \in SUBSET Rights,
           DuplicateHandle(h, mask)
    PROVE  IInv'
<1> DEFINE i == Index(h)
           e == [table[i].entry EXCEPT !.rights = Narrow(@, mask)]
<1>1. i \in Slots /\ table[i].entry # NoEntry /\ FreeSlots(table) # {}
    BY Zenon DEF DuplicateHandle, DuplicateResult, Resolves
<1>2. table[i].entry \in Entry
    BY <1>1, Zenon DEF IInv, TableInv, Table, Slot
<1>3. e \in Entry /\ e.rights \subseteq table[i].entry.rights
    BY <1>2, Zenon DEF Entry, Narrow
<1>4. e.rights \subseteq granted[i] /\ granted[i] \in SUBSET Rights
    BY <1>1, <1>3 DEF IInv, TableInv, RightsNeverWiden
<1>5. table' = Insert(table, e)
    BY Zenon DEF DuplicateHandle, Duplicate, EntryOf
<1> HIDE DEF e
<1>6. TableInv'
    BY <1>1, <1>3, <1>4, <1>5, InsertPreserves, Zenon DEF IInv, DuplicateHandle
<1>7. OutInv'
    BY MaxListAssumption DEF DuplicateHandle, OutInv, NoTransfer, Results, AllOrNothing
<1> QED BY <1>6, <1>7, Zenon DEF IInv

\* close.
LEMMA ClosePreserves ==
    ASSUME IInv, NEW h \in Handles, CloseHandle(h)
    PROVE  IInv'
<1> DEFINE V == {Index(h)}  C == {h}
<1>1. Resolves(table, h) /\ Index(h) \in Slots /\ table[Index(h)].entry # NoEntry
    BY Zenon DEF CloseHandle, Resolves
<1>2. Cardinality(V) = 1
    BY FS_Singleton, Zenon
<1>3. table' = [i \in Slots |-> IF i \in V THEN Vacate(table[i]) ELSE table[i]]
    BY <1>1, Zenon DEF CloseHandle, Close, IInv, TableInv, Table
<1>4. cycles' = [i \in Slots |-> IF i \in V THEN cycles[i] + 1 ELSE cycles[i]]
    BY <1>1, Zenon DEF CloseHandle, IInv, TableInv
<1>5. granted' = [i \in Slots |-> IF i \in V THEN {} ELSE granted[i]]
    BY <1>1, Zenon DEF CloseHandle, IInv, TableInv
<1>6. /\ V \in SUBSET Slots /\ C \in SUBSET Handles
      /\ \A i \in V : table[i].entry # NoEntry
      /\ \A k \in C : Resolves(table, k) /\ Index(k) \in V
      /\ \A i \in V : \E k \in C : Index(k) = i
    BY <1>1, Zenon
<1>7. live' = live - Cardinality(V) /\ closed' = closed \cup C /\ UNCHANGED issued
    BY <1>2 DEF CloseHandle
<1> HIDE DEF V, C
<1>8. TableInv'
    BY <1>3, <1>4, <1>5, <1>6, <1>7, VacatePreserves, Zenon DEF IInv
<1>9. OutInv'
    BY MaxListAssumption DEF CloseHandle, OutInv, NoTransfer, Results, AllOrNothing
<1> QED BY <1>8, <1>9, Zenon DEF IInv

\* A list that passes check_transfer_out_many has no fault at any position.
LEMMA AcceptedHasNoFault ==
    ASSUME NEW t, NEW n \in Nat, NEW list \in [1 .. n -> Handles],
           CheckTransferOutMany(t, list) = "Ok"
    PROVE  \A k \in 1 .. n : TransferFault(t, list, k) = "Ok"
<1> DEFINE faults == {k \in DOMAIN list : TransferFault(t, list, k) # "Ok"}
<1>1. DOMAIN list = 1 .. n /\ faults \in SUBSET Nat
    OBVIOUS
<1>2. CASE faults = {}
    BY <1>1, <1>2, Zenon
<1>3. CASE faults # {}
  <2>1. Min(faults) \in faults
      BY <1>1, <1>3, MinIn, Zenon
  <2> QED BY <2>1, <1>3, Zenon DEF CheckTransferOutMany
<1> QED BY <1>2, <1>3, Zenon

\* An accepted list moves every position, each out of a slot of its own.
LEMMA AcceptedMovesAll ==
    ASSUME NEW n \in Nat, NEW list \in [1 .. n -> Handles],
           CheckTransferOutMany(table, list) = "Ok"
    PROVE  /\ Moved(table, list) = 1 .. n
           /\ \A k \in 1 .. n : Resolves(table, list[k])
           /\ Cardinality(1 .. n) = n
           /\ Cardinality({Index(list[k]) : k \in 1 .. n}) = n
<1> DEFINE V == {Index(list[k]) : k \in 1 .. n}
           f == [k \in 1 .. n |-> Index(list[k])]
<1>1. DOMAIN list = 1 .. n
    BY Zenon
<1>2. ASSUME NEW k \in 1 .. n
      PROVE  Resolves(table, list[k]) /\ ~ \E j \in 1 .. k - 1 : list[j] = list[k]
    BY AcceptedHasNoFault DEF TransferFault
<1>3. ASSUME NEW k \in 1 .. n, NEW j \in 1 .. k - 1
      PROVE  Index(list[j]) # Index(list[k])
  <2>1. j \in 1 .. n /\ list[j] # list[k]
      BY <1>2
  <2>2. list[j] \in Nat /\ list[k] \in Nat
      BY <2>1, TableAssumption DEF Handles
  <2>3. Resolves(table, list[j]) /\ Resolves(table, list[k])
      BY <1>2, <2>1, Zenon
  <2>4. ASSUME Index(list[j]) = Index(list[k]) PROVE FALSE
    <3>1. Generation(list[j]) = Generation(list[k])
        BY <2>3, <2>4 DEF Resolves
    <3> QED BY <2>1, <2>2, <2>4, <3>1, UnpackInjective
  <2> QED BY <2>4, Zenon
<1>4. Moved(table, list) = 1 .. n
    BY <1>1, <1>2, <1>3, Zenon DEF Moved, EntryOf, Resolves
<1>5. ASSUME NEW j \in 1 .. n, NEW k \in 1 .. n, Index(list[j]) = Index(list[k])
      PROVE  j = k
  <2>1. ~ (j < k)
      BY <1>3, <1>5
  <2>2. ~ (k < j)
      BY <1>3, <1>5
  <2> QED BY <2>1, <2>2
<1>6. f \in Bijection(1 .. n, V)
  <2>1. f \in Injection(1 .. n, V)
      BY <1>5, Zenon DEF Injection, IsInjective
  <2>2. f \in Surjection(1 .. n, V)
      BY Zenon DEF Surjection
  <2> QED BY <2>1, <2>2, Zenon DEF Bijection
<1>7. IsFiniteSet(1 .. n) /\ Cardinality(1 .. n) = n
    BY FS_Interval
<1>8. Cardinality(V) = n
  <2> HIDE DEF V, f
  <2>1. ExistsBijection(1 .. n, V)
      BY <1>6, Zenon DEF ExistsBijection
  <2> QED BY <2>1, <1>7, FS_Bijection, Zenon
<1> QED BY <1>2, <1>4, <1>7, <1>8, Zenon

\* transfer_out_many, accepted or refused.
LEMMA TransferOutHandlesPreserves ==
    ASSUME IInv, NEW list \in Lists, TransferOutHandles(list)
    PROVE  IInv'
<1>1. PICK n \in 1 .. MaxList : list \in [1 .. n -> Handles]
    BY Zenon DEF Lists
<1>2. n \in Nat /\ n \in 0 .. MaxList /\ 0 \in 0 .. MaxList /\ Len(list) = n
    BY <1>1, MaxListAssumption
<1> DEFINE res == CheckTransferOutMany(table, list)
           V == {Index(list[k]) : k \in 1 .. n}
           C == {list[k] : k \in 1 .. n}
<1>3. CASE res = "Ok"
  <2>1. /\ Moved(table, list) = 1 .. n
        /\ \A k \in 1 .. n : Resolves(table, list[k])
        /\ Cardinality(1 .. n) = n
        /\ Cardinality(V) = n
      BY <1>1, <1>2, <1>3, AcceptedMovesAll, Zenon
  <2>2. /\ live' = live - n
        /\ table' = TransferOutMany(table, list)
        /\ closed' = closed \cup C
        /\ cycles' = [i \in Slots |-> IF i \in V THEN cycles[i] + 1 ELSE cycles[i]]
        /\ granted' = [i \in Slots |-> IF i \in V THEN {} ELSE granted[i]]
        /\ out' = [res |-> "Ok", listed |-> n, delivered |-> n]
        /\ UNCHANGED issued
      BY <1>2, <1>3, <2>1, Zenon DEF TransferOutHandles
  <2>3. table' = [i \in Slots |-> IF i \in V THEN Vacate(table[i]) ELSE table[i]]
      BY <2>1, <2>2, Zenon DEF TransferOutMany
  <2>4. /\ V \in SUBSET Slots /\ C \in SUBSET Handles
        /\ \A i \in V : table[i].entry # NoEntry
        /\ \A h \in C : Resolves(table, h) /\ Index(h) \in V
        /\ \A i \in V : \E h \in C : Index(h) = i
      BY <1>1, <2>1, Zenon DEF Resolves
  <2>5. live' = live - Cardinality(V)
      BY <2>1, <2>2, Zenon
  <2> HIDE DEF V, C
  <2>6. TableInv'
      BY <2>2, <2>3, <2>4, <2>5, VacatePreserves, Zenon DEF IInv
  <2>7. OutInv'
      BY <1>2, <2>2, Zenon DEF OutInv, Results, AllOrNothing
  <2> QED BY <2>6, <2>7, Zenon DEF IInv
<1>4. CASE res # "Ok"
  <2>1. /\ out' = [res |-> res, listed |-> n, delivered |-> 0]
        /\ UNCHANGED <<table, live, issued, closed, cycles, granted>>
      BY <1>2, <1>4, Zenon DEF TransferOutHandles
  <2>2. res \in Results
      BY Zenon DEF CheckTransferOutMany, TransferFault, Results
  <2> HIDE DEF res
  <2>3. OutInv'
      BY <1>2, <1>4, <2>1, <2>2, Zenon DEF OutInv, AllOrNothing, Results
  <2>4. TableInv'
      BY <2>1, Zenon DEF IInv, TableInv, GenerationsCount, ResolvesExactlyWhileOpen,
                  LiveCountsEntries, RightsNeverWiden
  <2> QED BY <2>3, <2>4, Zenon DEF IInv
<1> QED BY <1>3, <1>4, Zenon

(***************************************************************************)
(* The theorems.                                                           *)
(***************************************************************************)

\* The new table satisfies the invariant.
LEMMA InitEstablishes == Init => IInv
<1> SUFFICES ASSUME Init PROVE IInv
    BY Zenon
<1>1. MaxGeneration \in Nat /\ MaxGeneration > 1
    BY TableAssumption, Zenon
<1>2. table \in Table
    BY <1>1 DEF Init, NewTable, Table, Slot
<1>3. GenerationsCount
    BY DEF Init, NewTable, GenerationsCount
<1>4. ResolvesExactlyWhileOpen
    BY Zenon DEF Init, NewTable, ResolvesExactlyWhileOpen, Resolves
<1>5. LiveCountsEntries
  <2>1. {i \in Slots : table[i].entry # NoEntry} = {}
      BY Zenon DEF Init, NewTable
  <2> QED BY <2>1, FS_EmptySet, Zenon DEF Init, LiveCountsEntries
<1>6. OutInv
    BY MaxListAssumption DEF Init, OutInv, NoTransfer, Results, AllOrNothing
<1>7. RightsNeverWiden /\ granted \in [Slots -> SUBSET Rights]
    BY Zenon DEF Init, NewTable, RightsNeverWiden
<1>8. cycles \in [Slots -> 0 .. CYCLES_PER_SLOT]
    BY <1>1 DEF Init, CYCLES_PER_SLOT
<1> QED BY <1>2, <1>3, <1>4, <1>5, <1>6, <1>7, <1>8, Zenon DEF Init, IInv, TableInv

\* Every operation preserves it.
LEMMA NextPreserves == IInv /\ [Next]_vars => IInv'
<1> SUFFICES ASSUME IInv, [Next]_vars PROVE IInv'
    BY Zenon
<1>1. ASSUME NEW entry \in Entry, InsertEntry(entry) PROVE IInv'
    BY <1>1, InsertEntryPreserves, Zenon
<1>2. ASSUME NEW h \in Handles, CloseHandle(h) PROVE IInv'
    BY <1>2, ClosePreserves, Zenon
<1>3. ASSUME NEW h \in Handles, TransferOutHandle(h) PROVE IInv'
    BY <1>3, ClosePreserves, Zenon DEF TransferOutHandle
<1>4. ASSUME NEW h \in Handles, NEW mask \in SUBSET Rights, DuplicateHandle(h, mask)
      PROVE  IInv'
    BY <1>4, DuplicatePreserves, Zenon
<1>5. ASSUME NEW list \in Lists, TransferOutHandles(list) PROVE IInv'
    BY <1>5, TransferOutHandlesPreserves, Zenon
<1>6. CASE UNCHANGED vars
    BY <1>6, Zenon DEF vars, IInv, TableInv, OutInv, GenerationsCount,
                ResolvesExactlyWhileOpen, LiveCountsEntries, RightsNeverWiden,
                AllOrNothing
<1> QED BY <1>1, <1>2, <1>3, <1>4, <1>5, <1>6, Zenon DEF Next

\* The inductive invariant holds in every reachable state.
THEOREM Invariance == Spec => []IInv
BY InitEstablishes, NextPreserves, PTL DEF Spec

\* The table's fields stay in their ranges: in particular `live` never exceeds
\* the number of slots and never goes below zero, and no slot is vacated more
\* than CYCLES_PER_SLOT times.
THEOREM TypeCorrect == Spec => []TypeOK
<1>1. IInv => TypeOK
  <2> SUFFICES ASSUME IInv PROVE TypeOK
      BY Zenon
  <2>1. live \in 0 .. N
    <3>1. N \in Nat
        BY TableAssumption, Zenon
    <3> QED BY <3>1, SlotsFinite DEF IInv, TableInv, LiveCountsEntries
  <2> QED BY <2>1, Zenon DEF IInv, TableInv, OutInv, TypeOK
<1> QED BY <1>1, Invariance, PTL

\* A handle value resolves exactly while it is issued and not yet closed, for
\* every table size, index width and number of generations: a stale handle
\* never reaches its slot's next occupant.
THEOREM StaleHandlesRefused == Spec => []ResolvesExactlyWhileOpen
<1>1. IInv => ResolvesExactlyWhileOpen
    BY Zenon DEF IInv, TableInv
<1> QED BY <1>1, Invariance, PTL

\* A slot is retired by exactly its CYCLES_PER_SLOT-th close.
THEOREM RetirementExact == Spec => []RetiredAfterItsCycles
<1>1. IInv => RetiredAfterItsCycles
  <2> SUFFICES ASSUME IInv, NEW i \in Slots
               PROVE  /\ table[i].retired <=> cycles[i] = CYCLES_PER_SLOT
                      /\ table[i].retired => table[i].entry = NoEntry
      BY Zenon DEF RetiredAfterItsCycles
  <2>1. CASE table[i].retired
      BY <2>1, Zenon DEF IInv, TableInv, GenerationsCount
  <2>2. CASE ~ table[i].retired
    <3>1. table[i].generation = cycles[i] + 1
        BY <2>2, Zenon DEF IInv, TableInv, GenerationsCount
    <3>2. table[i].generation \in 1 .. MaxGeneration - 1 /\ MaxGeneration \in Nat
        BY TableAssumption, Zenon DEF IInv, TableInv, Table, Slot
    <3>3. cycles[i] \in 0 .. MaxGeneration - 1
        BY Zenon DEF IInv, TableInv, CYCLES_PER_SLOT
    <3>4. cycles[i] # MaxGeneration - 1
        BY <3>1, <3>2, <3>3
    <3> QED BY <2>2, <3>4, Zenon DEF CYCLES_PER_SLOT
  <2> QED BY <2>1, <2>2, Zenon
<1> QED BY <1>1, Invariance, PTL

\* `live` counts the occupied slots through every mixture of operations.
THEOREM LiveExact == Spec => []LiveCountsEntries
<1>1. IInv => LiveCountsEntries
    BY Zenon DEF IInv, TableInv
<1> QED BY <1>1, Invariance, PTL

\* transfer_out_many delivers an entry for every listed handle or for none.
THEOREM BatchAtomic == Spec => []AllOrNothing
<1>1. IInv => AllOrNothing
    BY Zenon DEF IInv, OutInv
<1> QED BY <1>1, Invariance, PTL

\* Along any chain of duplicates the rights stay within those first granted.
THEOREM RightsMonotone == Spec => []RightsNeverWiden
<1>1. IInv => RightsNeverWiden
    BY Zenon DEF IInv, TableInv
<1> QED BY <1>1, Invariance, PTL
=============================================================================
