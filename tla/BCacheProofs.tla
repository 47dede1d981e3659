---------------------------- MODULE BCacheProofs ----------------------------
(***************************************************************************)
(* ReadsNewest, SyncedSurvives and RefinesOrderedDisk of the block cache,  *)
(* for any number of blocks, parts, slots and generations.                 *)
(*                                                                         *)
(* The strengthening is what Cache::check asks of the slots (a dirty slot  *)
(* holds a block, of a generation that has begun, and no two slots hold    *)
(* the same block) and what a call in progress relies on: once it has      *)
(* written out what it set out to, a miss has a clean slot to take, and    *)
(* the slot a write is about to change is not of an earlier generation.    *)
(***************************************************************************)
EXTENDS BCacheDurability, WellFoundedInduction, TLAPS

SlotRecord == [lba : Nat, bytes : Contents, valid : BOOLEAN, dirty : BOOLEAN, generation : Nat]

TypesOK ==
    /\ setup \in Setups
    /\ slots \in [SlotIds -> SlotRecord]
    /\ used \in [SlotIds -> Nat]
    /\ generation \in 1..MaxGeneration
    /\ disk \in [Blocks -> Contents]
    /\ latest \in [Blocks -> Contents]
    /\ doubt \subseteq Blocks

\* What Cache::check asks.
SlotsOK ==
    \A i \in SlotIds :
        /\ slots[i].dirty => slots[i].valid /\ slots[i].generation \in 1..generation
        /\ slots[i].valid => slots[i].lba \in Blocks

OneSlotPerBlock ==
    \A i, j \in SlotIds :
        slots[i].valid /\ slots[j].valid /\ slots[i].lba = slots[j].lba => i = j

\* A miss will find a clean slot.
HasRoom == \E i \in SlotIds : slots[i].dirty => slots[i].generation <= call.upto

\* A write will find its slot clean, or dirty in the current generation.
InOrder ==
    \A i \in Cached(call.lba) :
        slots[i].dirty => slots[i].generation = generation \/ slots[i].generation <= call.upto

CallOK ==
    /\ call.op # "none" => call.upto \in Nat
    /\ call.op \in {"read", "write", "through"} => call.lba \in Blocks
    /\ call.op = "write" => call.part \in SUBSET Halves
    /\ call.op \in {"write", "through"} => call.byte \in Bytes
    /\ call.op \in {"through", "sync"} => call.upto = MaxGeneration
    /\ call.op \in {"read", "write"} /\ Cached(call.lba) = {} => HasRoom
    /\ call.op = "write" => InOrder

NewestAt(b) ==
    /\ \A i \in Cached(b) : slots[i].bytes = latest[b]
    /\ (\A i \in Cached(b) : ~slots[i].dirty) => disk[b] = latest[b]

\* What the device has is what may be found, and so is all that waits for it.
MediaOK ==
    /\ media \in [Blocks -> [kept : Contents, owed : BOOLEAN]]
    /\ allowed \in [Blocks -> SUBSET Contents]
    /\ ~setup.volatile => \A b \in Blocks : media[b].kept = disk[b]
    /\ setup.volatile =>
        /\ \A b \in Blocks : media[b].kept \in allowed[b] /\ disk[b] \in allowed[b]
        /\ \A i \in SlotIds : slots[i].dirty => slots[i].bytes \in allowed[slots[i].lba]

CacheInv == TypesOK /\ SlotsOK /\ OneSlotPerBlock /\ CallOK /\ ReadsNewest

DeviceInv == CacheInv /\ MediaOK

-----------------------------------------------------------------------------
(* Least elements, the setup, and what the cache chooses. *)

LEMMA Least ==
    ASSUME NEW S, S \subseteq Nat, S # {}
    PROVE  \E m \in S : \A n \in S : m <= n
<1> DEFINE less == {p \in Nat \X Nat : p[1] < p[2]}
<1>1. less = OpToRel(<, Nat)
    BY Zenon DEF OpToRel
<1>2. PICK m \in S : \A n \in S : ~ (<<n, m>> \in less)
    <2>. HIDE DEF less
    <2>. QED BY <1>1, NatLessThanWellFounded, WFMin, Zenon
<1>3. ASSUME NEW n \in S PROVE m <= n
    <2>1. <<n, m>> \in Nat \X Nat
        OBVIOUS
    <2>2. ~ (<<n, m>>[1] < <<n, m>>[2])
        BY <1>2, <2>1, Zenon
    <2>. QED BY <2>2
<1>. QED BY <1>3, Zenon

LEMMA MinIs ==
    ASSUME NEW S, S \subseteq Nat, S # {}
    PROVE  Min(S) \in S
BY Least, Zenon DEF Min

LEMMA SetupFacts ==
    ASSUME setup \in Setups
    PROVE  /\ NBlocks \in Nat \ {0} /\ NSlots \in Nat \ {0} /\ MaxGeneration \in Nat \ {0}
           /\ setup.parts \in Nat \ {0}
           /\ Blocks \subseteq Nat /\ SlotIds \subseteq Nat /\ SlotIds # {}
           /\ setup.volatile \in BOOLEAN
<1>1. setup \in [blocks : Nat \ {0}, parts : Nat \ {0}, volatile : BOOLEAN,
                 slots : Nat \ {0}, generations : Nat \ {0}, doubts : Nat]
    BY CacheAssumption, Zenon
<1>2. /\ NBlocks \in Nat \ {0} /\ NSlots \in Nat \ {0} /\ MaxGeneration \in Nat \ {0}
      /\ setup.parts \in Nat \ {0} /\ setup.volatile \in BOOLEAN
    BY <1>1, Zenon DEF NBlocks, NSlots, MaxGeneration
<1>3. Blocks \subseteq Nat /\ SlotIds \subseteq Nat /\ 1 \in SlotIds
    BY <1>2 DEF Blocks, SlotIds
<1>. QED BY <1>2, <1>3, Zenon

\* The setup of a behaviour does not change, nor do the sets it gives.
LEMMA Fixed ==
    ASSUME setup' = setup
    PROVE  /\ Blocks' = Blocks /\ SlotIds' = SlotIds /\ Halves' = Halves /\ Contents' = Contents
           /\ Blank' = Blank /\ NSlots' = NSlots /\ MaxGeneration' = MaxGeneration
           /\ MaxDoubt' = MaxDoubt /\ SlotRecord' = SlotRecord
BY Zenon DEF Blocks, SlotIds, Halves, Contents, Blank, NBlocks, NSlots, MaxGeneration, MaxDoubt, SlotRecord

LEMMA BlankIn == Blank \in Contents
BY DEF Blank, Contents, Bytes

LEMMA OverIn ==
    ASSUME NEW c \in Contents, NEW part, NEW v \in Bytes
    PROVE  Over(c, part, v) \in Contents
BY DEF Over, Contents

LEMMA OverWhole ==
    ASSUME NEW c, NEW d, NEW v
    PROVE  Over(c, Halves, v) = Over(d, Halves, v)
BY DEF Over

LEMMA SlotIs ==
    ASSUME NEW b \in Nat, NEW c \in Contents, NEW dirty \in BOOLEAN, NEW g \in Nat
    PROVE  /\ Slot(b, c, dirty, g) \in SlotRecord
           /\ Slot(b, c, dirty, g).lba = b /\ Slot(b, c, dirty, g).bytes = c
           /\ Slot(b, c, dirty, g).valid = TRUE /\ Slot(b, c, dirty, g).dirty = dirty
           /\ Slot(b, c, dirty, g).generation = g
BY Zenon DEF Slot, SlotRecord

LEMMA EmptyIs ==
    /\ EmptySlot \in SlotRecord
    /\ ~ EmptySlot.valid /\ ~ EmptySlot.dirty
<1>1. Blank \in Contents /\ 0 \in Nat /\ FALSE \in BOOLEAN
    BY BlankIn
<1>2. EmptySlot \in SlotRecord
    BY <1>1, Zenon DEF EmptySlot, SlotRecord
<1>. QED BY <1>2, Zenon DEF EmptySlot

LEMMA SlotFields ==
    ASSUME TypesOK, NEW i \in SlotIds
    PROVE  /\ slots[i] \in SlotRecord
           /\ slots[i].lba \in Nat /\ slots[i].bytes \in Contents /\ slots[i].generation \in Nat
           /\ slots[i].dirty \in BOOLEAN /\ slots[i].valid \in BOOLEAN
<1>1. slots[i] \in SlotRecord
    BY Zenon DEF TypesOK
<1>. QED BY <1>1, Zenon DEF SlotRecord

\* The slot write_out takes is dirty, and no dirty slot is of an earlier generation.
LEMMA NextOutIs ==
    ASSUME TypesOK, NEW upto, DirtySlots(upto) # {}
    PROVE  /\ NextOut(upto) \in DirtySlots(upto)
           /\ \A j \in DirtySlots(upto) : slots[NextOut(upto)].generation <= slots[j].generation
<1> DEFINE D == DirtySlots(upto)
           G == {slots[i].generation : i \in D}
<1>1. D \subseteq SlotIds
    BY Zenon DEF DirtySlots
<1>2. \A i \in D : slots[i].generation \in Nat /\ slots[i].lba \in Nat
    BY <1>1, SlotFields, Zenon
<1>3. PICK m \in G : \A n \in G : m <= n
    <2>1. G \subseteq Nat /\ G # {}
        BY <1>2, Zenon
    <2>. HIDE DEF G
    <2>. QED BY <2>1, Least, Zenon
<1> DEFINE L == {slots[i].lba : i \in {k \in D : slots[k].generation = m}}
<1>4. PICK l \in L : \A n \in L : l <= n
    <2>1. L \subseteq Nat /\ L # {}
        BY <1>2, <1>3, Zenon
    <2>. HIDE DEF L
    <2>. QED BY <2>1, Least, Zenon
<1>5. PICK i \in D : slots[i].generation = m /\ slots[i].lba = l
    BY <1>4, Zenon
<1>6. ASSUME NEW j \in D
      PROVE  \/ slots[i].generation < slots[j].generation
             \/ slots[i].generation = slots[j].generation /\ slots[i].lba <= slots[j].lba
    <2>1. slots[i].generation <= slots[j].generation
        BY <1>3, <1>5, Zenon
    <2>2. slots[j].generation = m => slots[i].lba <= slots[j].lba
        BY <1>4, <1>5, Zenon
    <2>. QED BY <1>2, <1>5, <2>1, <2>2
<1>7. /\ NextOut(upto) \in D
      /\ \A j \in D : \/ slots[NextOut(upto)].generation < slots[j].generation
                      \/ /\ slots[NextOut(upto)].generation = slots[j].generation
                         /\ slots[NextOut(upto)].lba <= slots[j].lba
    BY <1>5, <1>6, Zenon DEF NextOut
<1>8. ASSUME NEW j \in D PROVE slots[NextOut(upto)].generation <= slots[j].generation
    <2>1. PICK k \in D : k = NextOut(upto)
        BY <1>7, Zenon
    <2>2. \/ slots[k].generation < slots[j].generation
          \/ slots[k].generation = slots[j].generation
        BY <1>7, <2>1, Zenon
    <2>3. slots[k].generation <= slots[j].generation
        BY <1>2, <2>2
    <2>. QED BY <2>1, <2>3, Zenon
<1>. QED BY <1>7, <1>8, Zenon

\* The slot victim gives up is clean, if there is a clean one.
LEMMA VictimClean ==
    ASSUME TypesOK, SlotsOK, \E i \in SlotIds : ~slots[i].dirty
    PROVE  Victim \in SlotIds /\ ~slots[Victim].dirty
<1> DEFINE clean == {i \in SlotIds : ~slots[i].dirty}
           free == {i \in SlotIds : ~slots[i].valid}
<1>1. clean # {} /\ clean \subseteq SlotIds /\ free \subseteq SlotIds
    OBVIOUS
<1>2. clean \subseteq Nat /\ free \subseteq Nat
    BY <1>1, SetupFacts DEF TypesOK
<1>3. free \subseteq clean
    BY Zenon DEF SlotsOK
<1>4. CASE free # {}
    <2>1. Victim = Min(free)
        BY <1>4 DEF Victim
    <2>2. Min(free) \in free
        BY <1>2, <1>4, MinIs, Zenon
    <2>. QED BY <1>3, <2>1, <2>2, Zenon
<1>5. CASE free = {} /\ call.upto # 0 /\ call.op # "through"
    <2>1. Victim = Min(clean)
        BY <1>5 DEF Victim
    <2>2. Min(clean) \in clean
        BY <1>1, <1>2, MinIs, Zenon
    <2>. QED BY <2>1, <2>2, Zenon
<1>6. CASE free = {} /\ ~ (call.upto # 0 /\ call.op # "through")
    <2>1. Victim = CHOOSE i \in clean : \A j \in clean : used[i] <= used[j]
        BY <1>6 DEF Victim
    <2> DEFINE U == {used[i] : i \in clean}
    <2>2. PICK u \in U : \A v \in U : u <= v
        <3>1. U \subseteq Nat /\ U # {}
            BY <1>1, Zenon DEF TypesOK
        <3>. HIDE DEF U
        <3>. QED BY <3>1, Least, Zenon
    <2>3. \E i \in clean : \A j \in clean : used[i] <= used[j]
        BY <2>2, Zenon
    <2>4. Victim \in clean
        BY <2>1, <2>3, Zenon
    <2>. QED BY <2>4, Zenon
<1>. QED BY <1>4, <1>5, <1>6, Zenon

\* The one slot that holds b.
HoldsAlone(i, b) ==
    /\ i = Min(Cached(b)) /\ slots[i].valid /\ slots[i].lba = b
    /\ \A j \in SlotIds : slots[j].valid /\ slots[j].lba = b => j = i

LEMMA CachedIs ==
    ASSUME TypesOK, OneSlotPerBlock, NEW b, Cached(b) # {}
    PROVE  \E i \in SlotIds : HoldsAlone(i, b)
<1>1. Cached(b) \subseteq SlotIds
    BY Zenon DEF Cached
<1>2. Cached(b) \subseteq Nat
    BY <1>1, SetupFacts DEF TypesOK
<1>3. Min(Cached(b)) \in Cached(b)
    BY <1>2, MinIs, Zenon
<1>4. PICK i \in SlotIds : i = Min(Cached(b)) /\ slots[i].valid /\ slots[i].lba = b
    BY <1>3, Zenon DEF Cached
<1>5. HoldsAlone(i, b)
    BY <1>4, Zenon DEF HoldsAlone, OneSlotPerBlock
<1>. QED BY <1>5, Zenon

LEMMA TouchIn ==
    ASSUME TypesOK, NEW i \in SlotIds
    PROVE  Touch(i) \in [SlotIds -> Nat]
<1>1. NSlots \in Nat /\ used[i] \in Nat
    BY SetupFacts DEF TypesOK
<1>2. ASSUME NEW j \in SlotIds
      PROVE  (IF j = i THEN NSlots ELSE IF used[j] > used[i] THEN used[j] - 1 ELSE used[j]) \in Nat
    <2>1. used[j] \in Nat
        BY DEF TypesOK
    <2>. QED BY <1>1, <2>1
<1>. QED BY <1>2, Zenon DEF Touch

\* The slot a write-out moves: the oldest of all that is dirty.
LEMMA OldestOut ==
    ASSUME CacheInv, call.op # "none", DirtySlots(call.upto) # {}
    PROVE  \E i \in SlotIds :
               /\ i = NextOut(call.upto)
               /\ slots[i].dirty /\ slots[i].valid /\ slots[i].lba \in Blocks
               /\ slots[i].generation \in 1..generation
               /\ \A j \in SlotIds : slots[j].dirty => slots[i].generation <= slots[j].generation
<1>1. TypesOK /\ SlotsOK /\ CallOK
    BY Zenon DEF CacheInv
<1>2. PICK i \in DirtySlots(call.upto) :
        /\ i = NextOut(call.upto)
        /\ \A j \in DirtySlots(call.upto) : slots[i].generation <= slots[j].generation
    BY <1>1, NextOutIs, Zenon
<1>3. i \in SlotIds /\ slots[i].dirty /\ slots[i].generation <= call.upto
    BY <1>2, Zenon DEF DirtySlots
<1>4. ASSUME NEW j \in SlotIds, slots[j].dirty PROVE slots[i].generation <= slots[j].generation
    <2>1. call.upto \in Nat /\ slots[i].generation \in Nat /\ slots[j].generation \in Nat
        BY <1>1, <1>3, SlotFields, Zenon DEF CallOK
    <2>2. CASE slots[j].generation <= call.upto
        BY <1>2, <1>4, <2>2, Zenon DEF DirtySlots
    <2>3. CASE ~ (slots[j].generation <= call.upto)
        BY <1>3, <2>1, <2>3
    <2>. QED BY <2>2, <2>3, Zenon
<1>. QED BY <1>1, <1>2, <1>3, <1>4, Zenon DEF SlotsOK

\* A call that has written out what it must and does not find its block cached.
LEMMA ReadyMiss ==
    ASSUME CacheInv, call.op \in {"read", "write"}, DirtySlots(call.upto) = {}, Cached(call.lba) = {}
    PROVE  Victim \in SlotIds /\ ~slots[Victim].dirty
<1>1. HasRoom
    BY Zenon DEF CacheInv, CallOK
<1>2. \E i \in SlotIds : ~slots[i].dirty
    BY <1>1, Zenon DEF HasRoom, DirtySlots
<1>. QED BY <1>2, VictimClean, Zenon DEF CacheInv

\* A write-through or a sync that has written out what it must: all of it.
LEMMA ReadyClean ==
    ASSUME CacheInv, call.op \in {"through", "sync"}, DirtySlots(call.upto) = {}
    PROVE  \A i \in SlotIds : ~slots[i].dirty
<1>. SUFFICES ASSUME NEW i \in SlotIds, slots[i].dirty PROVE FALSE
    BY Zenon
<1>1. TypesOK /\ SlotsOK /\ call.upto = MaxGeneration
    BY Zenon DEF CacheInv, CallOK
<1>2. slots[i].generation \in 1..generation /\ generation \in 1..MaxGeneration /\ MaxGeneration \in Nat
    BY <1>1, SetupFacts, Zenon DEF SlotsOK, TypesOK
<1>3. slots[i].generation <= call.upto
    BY <1>1, <1>2
<1>. QED BY <1>3, Zenon DEF DirtySlots

-----------------------------------------------------------------------------
(* What the calls do to the slots. *)

\* A slot put in place of another.
LEMMA SlotSet ==
    ASSUME TypesOK, SlotsOK, OneSlotPerBlock, setup' = setup, generation' = generation,
           NEW i \in SlotIds, NEW s \in SlotRecord,
           s.dirty => s.valid /\ s.generation \in 1..generation,
           s.valid => s.lba \in Blocks,
           s.valid => \A j \in SlotIds : slots[j].valid /\ slots[j].lba = s.lba => j = i,
           slots' = [slots EXCEPT ![i] = s]
    PROVE  /\ slots' \in [SlotIds -> SlotRecord] /\ slots'[i] = s
           /\ \A j \in SlotIds : j # i => slots'[j] = slots[j]
           /\ SlotsOK' /\ OneSlotPerBlock'
<1>1. /\ slots' \in [SlotIds -> SlotRecord] /\ slots'[i] = s
      /\ \A j \in SlotIds : j # i => slots'[j] = slots[j]
    BY Zenon DEF TypesOK
<1>2. Blocks' = Blocks /\ SlotIds' = SlotIds
    BY Fixed, Zenon
<1>3. ASSUME NEW j \in SlotIds
      PROVE  /\ slots'[j].dirty => slots'[j].valid /\ slots'[j].generation \in 1..generation
             /\ slots'[j].valid => slots'[j].lba \in Blocks
    <2>1. CASE j = i
        BY <1>1, <2>1, Zenon
    <2>2. CASE j # i
        BY <1>1, <2>2, Zenon DEF SlotsOK
    <2>. QED BY <2>1, <2>2, Zenon
<1>4. SlotsOK'
    BY <1>2, <1>3, Zenon DEF SlotsOK
<1>5. ASSUME NEW j \in SlotIds, NEW k \in SlotIds,
             slots'[j].valid, slots'[k].valid, slots'[j].lba = slots'[k].lba
      PROVE  j = k
    <2>1. CASE j = i /\ k # i
        BY <1>1, <1>5, <2>1, Zenon
    <2>2. CASE j # i /\ k = i
        BY <1>1, <1>5, <2>2, Zenon
    <2>3. CASE j # i /\ k # i
        BY <1>1, <1>5, <2>3, Zenon DEF OneSlotPerBlock
    <2>. QED BY <2>1, <2>2, <2>3, Zenon
<1>6. OneSlotPerBlock'
    BY <1>2, <1>5, Zenon DEF OneSlotPerBlock
<1>. QED BY <1>1, <1>4, <1>6, Zenon

\* A block that the step is not about keeps its newest bytes where they are.
LEMMA OthersNewest ==
    ASSUME setup' = setup, NEW i \in SlotIds, NEW c, NewestAt(c),
           \A j \in SlotIds : j # i => slots'[j] = slots[j],
           ~slots[i].dirty \/ slots[i].lba # c, slots'[i].valid => slots'[i].lba # c,
           disk'[c] = disk[c], latest'[c] = latest[c]
    PROVE  NewestAt(c)'
<1>1. SlotIds' = SlotIds
    BY Fixed, Zenon
<1>2. ASSUME NEW j \in SlotIds, slots'[j].valid, slots'[j].lba = c
      PROVE  j # i /\ slots'[j] = slots[j]
    BY <1>2, Zenon
<1>3. ASSUME NEW j \in SlotIds, slots[j].valid, slots[j].lba = c, slots[j].dirty
      PROVE  slots'[j] = slots[j]
    BY <1>3, Zenon
<1>4. \A j \in Cached(c)' : j \in Cached(c) /\ slots'[j] = slots[j]
    BY <1>1, <1>2, Zenon DEF Cached
<1>5. \A j \in Cached(c) : slots[j].dirty => j \in Cached(c)' /\ slots'[j].dirty
    BY <1>1, <1>3, Zenon DEF Cached
<1>6. \A j \in Cached(c)' : slots'[j].bytes = latest'[c]
    BY <1>4, Zenon DEF NewestAt
<1>7. (\A j \in Cached(c)' : ~slots'[j].dirty) => disk'[c] = latest'[c]
    BY <1>5, Zenon DEF NewestAt
<1>. QED BY <1>6, <1>7, Zenon DEF NewestAt

\* No call is in progress.
LEMMA CallOver == call' = NoCall => CallOK'
BY DEF CallOK, NoCall

\* What Write does: it changes the slot of its block, or takes a clean one for
\* it and may fail to fill it.
Fills(i, b, c, dirty, g) ==
    /\ slots' = [slots EXCEPT ![i] = Slot(b, c, dirty, g)]
    /\ \A j \in SlotIds : slots[j].valid /\ slots[j].lba = b => j = i
    /\ slots[i].dirty => slots[i].lba = b
    /\ used' = Touch(i)

Empties(i) ==
    /\ ~slots[i].dirty
    /\ slots' = [slots EXCEPT ![i] = EmptySlot]
    /\ UNCHANGED <<used, disk, latest, doubt, generation>>

LEMMA WriteEffect ==
    ASSUME CacheInv, Write
    PROVE  \/ \E i \in SlotIds, c \in Contents :
                /\ Fills(i, call.lba, c, TRUE, generation)
                /\ slots[i].dirty => slots[i].generation = generation
                /\ latest' \in [Blocks -> Contents] /\ doubt' \subseteq doubt
                /\ \A b \in Blocks : b # call.lba => latest'[b] = latest[b] /\ (b \in doubt' <=> b \in doubt)
                /\ call.lba \notin doubt' => c = latest'[call.lba]
                /\ UNCHANGED <<disk, generation>>
           \/ \E i \in SlotIds : Empties(i)
<1>1. TypesOK /\ SlotsOK /\ OneSlotPerBlock /\ CallOK /\ ReadsNewest
    BY Zenon DEF CacheInv
<1>2. call.op = "write" /\ DirtySlots(call.upto) = {}
    BY Zenon DEF Write, Ready
<1>3. PICK b \in Blocks : b = call.lba
    BY <1>1, <1>2, Zenon DEF CallOK
<1>4. PICK part \in SUBSET Halves : part = call.part
    BY <1>1, <1>2, Zenon DEF CallOK
<1>5. PICK v \in Bytes : v = call.byte
    BY <1>1, <1>2, Zenon DEF CallOK
<1>6. PICK new \in Contents : new = Over(latest[b], part, v)
    BY <1>1, OverIn, Zenon DEF TypesOK
<1>7. ASSUME NEW i \in SlotIds, NEW was \in Contents,
             \A j \in SlotIds : slots[j].valid /\ slots[j].lba = b => j = i,
             slots[i].dirty => slots[i].lba = b /\ slots[i].generation = generation,
             b \notin doubt => was = latest[b],
             slots' = [slots EXCEPT ![i] = Slot(b, Over(was, part, v), TRUE, generation)],
             used' = Touch(i), latest' = [latest EXCEPT ![b] = Over(@, part, v)],
             doubt' = IF part = Halves THEN doubt \ {b} ELSE doubt,
             UNCHANGED <<disk, generation>>
      PROVE  \E c \in Contents :
                /\ Fills(i, b, c, TRUE, generation)
                /\ slots[i].dirty => slots[i].generation = generation
                /\ latest' \in [Blocks -> Contents] /\ doubt' \subseteq doubt
                /\ \A x \in Blocks : x # b => latest'[x] = latest[x] /\ (x \in doubt' <=> x \in doubt)
                /\ b \notin doubt' => c = latest'[b]
                /\ UNCHANGED <<disk, generation>>
    <2>1. PICK c \in Contents : c = Over(was, part, v)
        BY OverIn, Zenon
    <2>2. latest' = [latest EXCEPT ![b] = new]
        BY <1>6, <1>7, Zenon
    <2>3. latest' \in [Blocks -> Contents] /\ latest'[b] = new /\ \A x \in Blocks : x # b => latest'[x] = latest[x]
        BY <1>1, <2>2, Zenon DEF TypesOK
    <2>4. /\ doubt' \subseteq doubt
          /\ \A x \in Blocks : x # b => (x \in doubt' <=> x \in doubt)
          /\ b \notin doubt' => b \notin doubt \/ part = Halves
        BY <1>7
    <2>5. b \notin doubt' => c = new
        <3>1. CASE part = Halves
            BY <1>6, <2>1, <3>1, OverWhole, Zenon
        <3>2. CASE b \notin doubt
            BY <1>6, <1>7, <2>1, <3>2, Zenon
        <3>. QED BY <2>4, <3>1, <3>2, Zenon
    <2>6. Fills(i, b, c, TRUE, generation)
        BY <1>7, <2>1, Zenon DEF Fills
    <2>. QED BY <1>7, <2>3, <2>4, <2>5, <2>6, Zenon
<1>8. CASE Cached(b) # {}
    <2>7. PICK i \in SlotIds : HoldsAlone(i, b)
        BY <1>1, <1>8, CachedIs, Zenon
    <2>1. /\ i = Min(Cached(b)) /\ slots[i].valid /\ slots[i].lba = b
          /\ \A j \in SlotIds : slots[j].valid /\ slots[j].lba = b => j = i
        BY <2>7, Zenon DEF HoldsAlone
    <2>2. i \in Cached(b)
        BY <2>1, Zenon DEF Cached
    <2>3. slots[i].dirty => slots[i].generation = generation
        BY <1>1, <1>2, <1>3, <2>2, Zenon DEF CallOK, InOrder, DirtySlots
    <2>4. b \notin doubt => slots[i].bytes = latest[b]
        BY <1>1, <2>2, Zenon DEF ReadsNewest
    <2>5. /\ slots' = [slots EXCEPT ![i] = Slot(b, Over(slots[i].bytes, part, v), TRUE, generation)]
          /\ used' = Touch(i) /\ latest' = [latest EXCEPT ![b] = Over(@, part, v)]
          /\ doubt' = IF part = Halves THEN doubt \ {b} ELSE doubt
          /\ UNCHANGED <<disk, generation>>
        BY <1>3, <1>4, <1>5, <1>8, <2>1, Zenon DEF Write
    <2>6. slots[i].bytes \in Contents
        BY <1>1, SlotFields, Zenon
    <2>. QED BY <1>3, <1>7, <2>1, <2>3, <2>4, <2>5, <2>6, ZenonT(40)
<1>9. CASE Cached(b) = {}
    <2>1. PICK i \in SlotIds : i = Victim /\ ~slots[i].dirty
        BY <1>2, <1>3, <1>9, ReadyMiss, Zenon
    <2>2. \A j \in SlotIds : slots[j].valid /\ slots[j].lba = b => j = i
        BY <1>9, Zenon DEF Cached
    <2>3. b \notin doubt => disk[b] = latest[b]
        BY <1>1, <1>9, Zenon DEF ReadsNewest
    <2>4. \/ /\ slots' = [slots EXCEPT ![i] = Slot(b, Over(disk[b], part, v), TRUE, generation)]
             /\ used' = Touch(i) /\ latest' = [latest EXCEPT ![b] = Over(@, part, v)]
             /\ doubt' = IF part = Halves THEN doubt \ {b} ELSE doubt
             /\ UNCHANGED <<disk, generation>>
          \/ MissFails(i)
        BY <1>3, <1>4, <1>5, <1>9, <2>1, Zenon DEF Write, BeforeWrite
    <2>5. disk[b] \in Contents
        BY <1>1, Zenon DEF TypesOK
    <2>6. MissFails(i) => Empties(i)
        BY <2>1, Zenon DEF MissFails, Empties
    <2>. QED BY <1>3, <1>7, <2>1, <2>2, <2>3, <2>4, <2>5, <2>6, Zenon
<1>. QED BY <1>8, <1>9, Zenon

\* What Read does: nothing but a use time, or it takes a clean slot for its block.
LEMMA ReadEffect ==
    ASSUME CacheInv, Read
    PROVE  \/ slots' = slots /\ used' \in [SlotIds -> Nat] /\ UNCHANGED <<disk, latest, doubt, generation>>
           \/ \E i \in SlotIds :
                /\ Fills(i, call.lba, disk[call.lba], FALSE, 0)
                /\ Cached(call.lba) = {} /\ ~slots[i].dirty
                /\ call.lba \in Blocks
                /\ UNCHANGED <<disk, latest, doubt, generation>>
           \/ \E i \in SlotIds : Empties(i)
<1>1. TypesOK /\ SlotsOK /\ OneSlotPerBlock /\ CallOK
    BY Zenon DEF CacheInv
<1>2. call.op = "read" /\ DirtySlots(call.upto) = {} /\ call.lba \in Blocks
    BY <1>1, Zenon DEF Read, Ready, CallOK
<1>3. CASE Cached(call.lba) # {}
    <2>1. PICK i \in SlotIds : i = Min(Cached(call.lba))
        BY <1>1, <1>3, CachedIs, Zenon DEF HoldsAlone
    <2>2. Touch(i) \in [SlotIds -> Nat]
        BY <1>1, TouchIn, Zenon
    <2>. QED BY <1>3, <2>1, <2>2, Zenon DEF Read
<1>4. CASE Cached(call.lba) = {}
    <2>1. PICK i \in SlotIds : i = Victim /\ ~slots[i].dirty
        BY <1>2, <1>4, ReadyMiss, Zenon
    <2>2. \A j \in SlotIds : slots[j].valid /\ slots[j].lba = call.lba => j = i
        BY <1>4, Zenon DEF Cached
    <2>3. \/ /\ slots' = [slots EXCEPT ![i] = Slot(call.lba, disk[call.lba], FALSE, 0)]
             /\ used' = Touch(i) /\ UNCHANGED <<disk, latest, doubt, generation>>
          \/ MissFails(i)
        BY <1>4, <2>1, Zenon DEF Read
    <2>4. MissFails(i) => Empties(i)
        BY <2>1, Zenon DEF MissFails, Empties
    <2>. QED BY <1>2, <1>4, <2>1, <2>2, <2>3, <2>4, Zenon DEF Fills
<1>. QED BY <1>3, <1>4, Zenon

\* What Through does: nothing is dirty, and the device takes its block or fails.
LEMMA ThroughEffect ==
    ASSUME CacheInv, Through
    PROVE  /\ \A i \in SlotIds : ~slots[i].dirty
           /\ call.lba \in Blocks
           /\ generation' = generation
           /\ \E c \in Contents :
                \/ /\ \E i \in SlotIds : Fills(i, call.lba, c, FALSE, 0)
                   /\ disk' = [disk EXCEPT ![call.lba] = c] /\ latest' = [latest EXCEPT ![call.lba] = c]
                   /\ doubt' = doubt \ {call.lba}
                \/ /\ disk' \in {disk, [disk EXCEPT ![call.lba] = c]}
                   /\ doubt' = doubt \union {call.lba}
                   /\ UNCHANGED <<slots, used, latest>>
<1>1. TypesOK /\ SlotsOK /\ OneSlotPerBlock /\ CallOK
    BY Zenon DEF CacheInv
<1>2. call.op = "through" /\ DirtySlots(call.upto) = {}
    BY Zenon DEF Through, Ready
<1>3. \A i \in SlotIds : ~slots[i].dirty
    BY <1>2, ReadyClean, Zenon
<1>4. PICK b \in Blocks : b = call.lba
    BY <1>1, <1>2, Zenon DEF CallOK
<1>5. PICK c \in Contents : c = Over(Blank, Halves, call.byte)
    BY <1>1, <1>2, BlankIn, OverIn, Zenon DEF CallOK
<1>6. PICK i \in SlotIds : /\ i = ThroughSlot(b)
                           /\ \A j \in SlotIds : slots[j].valid /\ slots[j].lba = b => j = i
    <2>1. CASE Cached(b) # {}
        <3>1. PICK i \in SlotIds : HoldsAlone(i, b)
            BY <1>1, <2>1, CachedIs, Zenon
        <3>2. i = ThroughSlot(b) /\ \A j \in SlotIds : slots[j].valid /\ slots[j].lba = b => j = i
            BY <2>1, <3>1, Zenon DEF ThroughSlot, HoldsAlone
        <3>. QED BY <3>2, Zenon
    <2>2. CASE Cached(b) = {}
        <3>1. SlotIds # {}
            BY <1>1, SetupFacts, Zenon DEF TypesOK
        <3>2. Victim \in SlotIds
            BY <1>1, <1>3, <3>1, VictimClean, Zenon
        <3>. QED BY <2>2, <3>2, Zenon DEF ThroughSlot, Cached
    <2>. QED BY <2>1, <2>2, Zenon
<1>7. /\ generation' = generation
      /\ \/ /\ disk' = [disk EXCEPT ![b] = c]
            /\ slots' = [slots EXCEPT ![i] = Slot(b, c, FALSE, 0)]
            /\ used' = Touch(i)
            /\ latest' = [latest EXCEPT ![b] = c]
            /\ doubt' = doubt \ {b}
         \/ /\ disk' \in {disk, [disk EXCEPT ![b] = c]}
            /\ doubt' = doubt \union {b}
            /\ UNCHANGED <<slots, used, latest>>
    BY <1>4, <1>5, <1>6, Zenon DEF Through
<1>. QED BY <1>3, <1>4, <1>6, <1>7, Zenon DEF Fills

-----------------------------------------------------------------------------
(* The cache's invariant is kept. *)

LEMMA TypesKeep ==
    ASSUME TypesOK, setup' = setup, slots' \in [SlotIds -> SlotRecord], used' \in [SlotIds -> Nat],
           generation' \in 1..MaxGeneration, disk' \in [Blocks -> Contents],
           latest' \in [Blocks -> Contents], doubt' \subseteq Blocks
    PROVE  TypesOK'
BY Fixed, Zenon DEF TypesOK

LEMMA SameSlots ==
    ASSUME SlotsOK, OneSlotPerBlock, setup' = setup, slots' = slots, generation' = generation
    PROVE  SlotsOK' /\ OneSlotPerBlock'
<1>1. Blocks' = Blocks /\ SlotIds' = SlotIds
    BY Fixed, Zenon
<1>2. SlotsOK'
    BY <1>1, Zenon DEF SlotsOK
<1>3. OneSlotPerBlock'
    BY <1>1, Zenon DEF OneSlotPerBlock
<1>. QED BY <1>2, <1>3, Zenon

LEMMA SameCached ==
    ASSUME setup' = setup, slots' = slots, NEW b
    PROVE  Cached(b)' = Cached(b)
BY Fixed, Zenon DEF Cached

LEMMA SameNewest ==
    ASSUME ReadsNewest, setup' = setup, slots' = slots, disk' = disk, latest' = latest, doubt \subseteq doubt'
    PROVE  ReadsNewest'
<1>. SUFFICES ASSUME NEW b \in Blocks, b \notin doubt PROVE NewestAt(b)'
    BY Fixed, Zenon DEF ReadsNewest, NewestAt
<1>1. NewestAt(b)
    BY Zenon DEF ReadsNewest, NewestAt
<1>2. Cached(b)' = Cached(b)
    BY SameCached, Zenon
<1>. QED BY <1>1, <1>2, Zenon DEF NewestAt

LEMMA NewestAll ==
    ASSUME setup' = setup, \A b \in Blocks : b \notin doubt' => NewestAt(b)'
    PROVE  ReadsNewest'
BY Fixed, Zenon DEF ReadsNewest, NewestAt

LEMMA NewestOf ==
    ASSUME ReadsNewest, NEW b \in Blocks, b \notin doubt
    PROVE  NewestAt(b)
BY Zenon DEF ReadsNewest, NewestAt

\* A step that only enters or leaves a call, or stamps a use time.
LEMMA CallStep ==
    ASSUME CacheInv, CallOK', setup' = setup, slots' = slots, used' \in [SlotIds -> Nat],
           UNCHANGED <<generation, disk, latest, doubt>>
    PROVE  CacheInv'
<1>1. TypesOK /\ SlotsOK /\ OneSlotPerBlock /\ ReadsNewest
    BY Zenon DEF CacheInv
<1>2. TypesOK'
    BY <1>1, TypesKeep, Zenon DEF TypesOK
<1>3. SlotsOK' /\ OneSlotPerBlock'
    BY <1>1, SameSlots, Zenon
<1>4. ReadsNewest'
    BY <1>1, SameNewest, Zenon
<1>. QED BY <1>2, <1>3, <1>4, Zenon DEF CacheInv

LEMMA PressureIs ==
    ASSUME TypesOK, SlotsOK
    PROVE  /\ PressureUpto \in Nat
           /\ \E i \in SlotIds : slots[i].dirty => slots[i].generation <= PressureUpto
<1>1. CASE \A i \in SlotIds : slots[i].valid /\ slots[i].dirty
    <2> DEFINE G == {slots[i].generation : i \in SlotIds}
    <2>1. G \subseteq Nat /\ G # {}
        <3>1. \A i \in SlotIds : slots[i].generation \in Nat
            BY SlotFields, Zenon
        <3>2. SlotIds # {}
            BY SetupFacts, Zenon DEF TypesOK
        <3>. QED BY <3>1, <3>2, Zenon
    <2>2. PressureUpto = Min(G)
        BY <1>1, Zenon DEF PressureUpto
    <2>3. Min(G) \in G
        <3>. HIDE DEF G
        <3>. QED BY <2>1, MinIs, Zenon
    <2>4. PICK i \in SlotIds : slots[i].generation = PressureUpto
        BY <2>2, <2>3, Zenon
    <2>5. slots[i].generation \in Nat
        BY SlotFields, Zenon
    <2>. QED BY <2>4, <2>5
<1>2. CASE ~ \A i \in SlotIds : slots[i].valid /\ slots[i].dirty
    <2>1. PressureUpto = 0
        BY <1>2, Zenon DEF PressureUpto
    <2>2. \E i \in SlotIds : ~slots[i].dirty
        BY <1>2, Zenon DEF SlotsOK
    <2>. QED BY <2>1, <2>2
<1>. QED BY <1>1, <1>2, Zenon

LEMMA RuleTwoIs ==
    ASSUME TypesOK, SlotsOK, OneSlotPerBlock, NEW b, Cached(b) # {}
    PROVE  /\ RuleTwoUpto(Min(Cached(b))) \in Nat
           /\ \A j \in Cached(b) : slots[j].dirty =>
                \/ slots[j].generation = generation
                \/ slots[j].generation <= RuleTwoUpto(Min(Cached(b)))
<1>5. PICK i \in SlotIds : HoldsAlone(i, b)
    BY CachedIs, Zenon
<1>1. /\ i = Min(Cached(b)) /\ slots[i].valid /\ slots[i].lba = b
      /\ \A j \in SlotIds : slots[j].valid /\ slots[j].lba = b => j = i
    BY <1>5, Zenon DEF HoldsAlone
<1>2. \A j \in Cached(b) : j = i
    BY <1>1, Zenon DEF Cached
<1>3. slots[i].generation \in Nat /\ generation \in Nat /\ (slots[i].dirty => slots[i].generation \in 1..generation)
    <2>1. slots[i].generation \in Nat /\ (slots[i].dirty => slots[i].generation \in 1..generation)
        BY SlotFields, Zenon DEF SlotsOK
    <2>2. generation \in 1..MaxGeneration /\ MaxGeneration \in Nat
        BY SetupFacts, Zenon DEF TypesOK
    <2>. QED BY <2>1, <2>2
<1>4. /\ RuleTwoUpto(i) \in Nat
      /\ slots[i].dirty => slots[i].generation = generation \/ slots[i].generation <= RuleTwoUpto(i)
    BY <1>3 DEF RuleTwoUpto
<1>. QED BY <1>1, <1>2, <1>4, Zenon

LEMMA ReadAtKeeps ==
    ASSUME CacheInv, NEW b \in Blocks, ReadAt(b), setup' = setup
    PROVE  CacheInv'
<1>1. TypesOK /\ SlotsOK /\ OneSlotPerBlock
    BY Zenon DEF CacheInv
<1>2. PICK u : u = ReadUpto(b)
    BY Zenon
<1>3. /\ u \in Nat
      /\ Cached(b) = {} => \E i \in SlotIds : slots[i].dirty => slots[i].generation <= u
    <2>1. 0 \in Nat
        OBVIOUS
    <2>. QED BY <1>1, <1>2, <2>1, PressureIs, Zenon DEF ReadUpto
<1>4. /\ call' = [op |-> "read", lba |-> b, upto |-> u]
      /\ UNCHANGED <<slots, used, generation, disk, latest, doubt>>
    BY <1>2, Zenon DEF ReadAt
<1>5. call'.op = "read" /\ call'.lba = b /\ call'.upto = u
    BY <1>4, Zenon
<1>6. SlotIds' = SlotIds /\ Blocks' = Blocks
    BY Fixed, Zenon
<1>7. Cached(call.lba)' = {} => HasRoom'
    BY <1>3, <1>4, <1>5, <1>6, Zenon DEF HasRoom, Cached
<1>8. CallOK'
    BY <1>3, <1>5, <1>6, <1>7 DEF CallOK
<1>. QED BY <1>1, <1>4, <1>8, CallStep, Zenon DEF TypesOK

LEMMA WriteAtKeeps ==
    ASSUME CacheInv, NEW b \in Blocks, NEW part \in SUBSET Halves, NEW v \in Bytes,
           WriteAt(b, part, v), setup' = setup
    PROVE  CacheInv'
<1>1. TypesOK /\ SlotsOK /\ OneSlotPerBlock
    BY Zenon DEF CacheInv
<1>2. PICK u : u = WriteUpto(b)
    BY Zenon
<1>3. /\ u \in Nat
      /\ Cached(b) = {} => \E i \in SlotIds : slots[i].dirty => slots[i].generation <= u
      /\ \A j \in Cached(b) : slots[j].dirty => slots[j].generation = generation \/ slots[j].generation <= u
    <2>1. CASE Cached(b) = {}
        BY <1>1, <1>2, <2>1, PressureIs, Zenon DEF WriteUpto
    <2>2. CASE Cached(b) # {}
        BY <1>1, <1>2, <2>2, RuleTwoIs, Zenon DEF WriteUpto
    <2>. QED BY <2>1, <2>2, Zenon
<1>4. /\ call' = [op |-> "write", lba |-> b, part |-> part, byte |-> v, upto |-> u]
      /\ UNCHANGED <<slots, used, generation, disk, latest, doubt>>
    BY <1>2, Zenon DEF WriteAt
<1>5. call'.op = "write" /\ call'.lba = b /\ call'.upto = u /\ call'.part = part /\ call'.byte = v
    BY <1>4, Zenon
<1>6. SlotIds' = SlotIds /\ Blocks' = Blocks /\ Halves' = Halves
    BY Fixed, Zenon
<1>7. Cached(call.lba)' = {} => HasRoom'
    BY <1>3, <1>4, <1>5, <1>6, Zenon DEF HasRoom, Cached
<1>8. InOrder'
    BY <1>3, <1>4, <1>5, <1>6, Zenon DEF InOrder, Cached
<1>9. CallOK'
    BY <1>3, <1>5, <1>6, <1>7, <1>8 DEF CallOK
<1>. QED BY <1>1, <1>4, <1>9, CallStep, Zenon DEF TypesOK

LEMMA WriteBlockKeeps ==
    ASSUME CacheInv, NEW b \in Blocks, NEW v \in Bytes, WriteBlock(b, v), setup' = setup
    PROVE  CacheInv'
<1>1. TypesOK
    BY Zenon DEF CacheInv
<1>2. /\ call' = [op |-> "through", lba |-> b, byte |-> v, upto |-> MaxGeneration]
      /\ UNCHANGED <<slots, used, generation, disk, latest, doubt>>
    BY Zenon DEF WriteBlock
<1>3. call'.op = "through" /\ call'.lba = b /\ call'.byte = v /\ call'.upto = MaxGeneration
    BY <1>2, Zenon
<1>4. Blocks' = Blocks /\ MaxGeneration' = MaxGeneration /\ MaxGeneration \in Nat
    BY <1>1, Fixed, SetupFacts, Zenon DEF TypesOK
<1>5. CallOK'
    BY <1>3, <1>4 DEF CallOK
<1>. QED BY <1>1, <1>2, <1>5, CallStep, Zenon DEF TypesOK

LEMMA SyncKeeps ==
    ASSUME CacheInv, Sync, setup' = setup
    PROVE  CacheInv'
<1>1. TypesOK
    BY Zenon DEF CacheInv
<1>2. /\ call' = [op |-> "sync", upto |-> MaxGeneration]
      /\ UNCHANGED <<slots, used, generation, disk, latest, doubt>>
    BY Zenon DEF Sync
<1>3. call'.op = "sync" /\ call'.upto = MaxGeneration
    BY <1>2, Zenon
<1>4. MaxGeneration' = MaxGeneration /\ MaxGeneration \in Nat
    BY <1>1, Fixed, SetupFacts, Zenon DEF TypesOK
<1>5. CallOK'
    BY <1>3, <1>4 DEF CallOK
<1>. QED BY <1>1, <1>2, <1>5, CallStep, Zenon DEF TypesOK

LEMMA FlushKeeps ==
    ASSUME CacheInv, Flush, setup' = setup
    PROVE  CacheInv'
BY CallOver, CallStep, Zenon DEF CacheInv, TypesOK, Flush

\* A block reaches the device and its slot is clean.
LEMMA WriteOutEffect ==
    ASSUME CacheInv, WriteOut, NEW i \in SlotIds, i = NextOut(call.upto)
    PROVE  /\ slots' \in [SlotIds -> SlotRecord]
           /\ slots'[i].lba = slots[i].lba /\ slots'[i].bytes = slots[i].bytes
           /\ slots'[i].valid = slots[i].valid /\ slots'[i].generation = slots[i].generation
           /\ ~slots'[i].dirty
           /\ \A j \in SlotIds : j # i => slots'[j] = slots[j]
<1>1. TypesOK /\ slots[i] \in SlotRecord
    BY SlotFields, Zenon DEF CacheInv
<1>2. PICK s : s = [slots[i] EXCEPT !.dirty = FALSE]
    BY Zenon
<1>3. /\ s \in SlotRecord /\ s.lba = slots[i].lba /\ s.bytes = slots[i].bytes
      /\ s.valid = slots[i].valid /\ s.generation = slots[i].generation /\ s.dirty = FALSE
    BY <1>1, <1>2, ZenonT(40) DEF SlotRecord
<1>4. slots' = [slots EXCEPT ![i] = s]
    BY <1>2, Zenon DEF WriteOut
<1>. QED BY <1>1, <1>3, <1>4, Zenon DEF TypesOK

LEMMA WriteOutKeeps ==
    ASSUME CacheInv, WriteOut, setup' = setup
    PROVE  CacheInv'
<1>1. TypesOK /\ SlotsOK /\ OneSlotPerBlock /\ CallOK /\ ReadsNewest
    BY Zenon DEF CacheInv
<1>2. PICK i \in SlotIds : /\ i = NextOut(call.upto) /\ slots[i].dirty /\ slots[i].valid
                           /\ slots[i].lba \in Blocks
    BY OldestOut, Zenon DEF WriteOut
<1>3. /\ slots' \in [SlotIds -> SlotRecord]
      /\ slots'[i].lba = slots[i].lba /\ slots'[i].bytes = slots[i].bytes
      /\ slots'[i].valid = slots[i].valid /\ slots'[i].generation = slots[i].generation
      /\ ~slots'[i].dirty
      /\ \A j \in SlotIds : j # i => slots'[j] = slots[j]
    BY <1>2, WriteOutEffect, Zenon
<1>4. /\ disk' = [disk EXCEPT ![slots[i].lba] = slots[i].bytes]
      /\ UNCHANGED <<used, generation, call, latest, doubt>>
    BY <1>2, Zenon DEF WriteOut
<1>5. slots[i].bytes \in Contents
    BY <1>1, SlotFields, Zenon
<1>6. TypesOK'
    BY <1>1, <1>3, <1>4, <1>5, TypesKeep, Zenon DEF TypesOK
<1>7. SlotIds' = SlotIds /\ Blocks' = Blocks /\ Halves' = Halves /\ MaxGeneration' = MaxGeneration
    BY Fixed, Zenon
<1>8. \A j \in SlotIds : /\ slots'[j].lba = slots[j].lba /\ slots'[j].bytes = slots[j].bytes
                         /\ slots'[j].valid = slots[j].valid /\ slots'[j].generation = slots[j].generation
                         /\ slots'[j].dirty => slots[j].dirty
    BY <1>3, Zenon
<1>9. SlotsOK'
    BY <1>1, <1>4, <1>7, <1>8, Zenon DEF SlotsOK
<1>10. OneSlotPerBlock'
    <2>1. ASSUME NEW j \in SlotIds, NEW k \in SlotIds,
                 slots'[j].valid, slots'[k].valid, slots'[j].lba = slots'[k].lba
          PROVE  j = k
        <3>1. slots[j].valid /\ slots[k].valid /\ slots[j].lba = slots[k].lba
            BY <1>8, <2>1, Zenon
        <3>. QED BY <1>1, <3>1, Zenon DEF OneSlotPerBlock
    <2>. QED BY <1>7, <2>1, Zenon DEF OneSlotPerBlock
<1>11. \A b : Cached(b)' = Cached(b)
    BY <1>7, <1>8, Zenon DEF Cached
<1>12. HasRoom'
    BY <1>2, <1>3, <1>7, Zenon DEF HasRoom
<1>13. call.op = "write" => InOrder'
    <2>1. call.op = "write" => InOrder
        BY <1>1, Zenon DEF CallOK
    <2>. QED BY <1>4, <1>7, <1>8, <2>1, Zenon DEF InOrder, Cached
<1>14. CallOK'
    BY <1>1, <1>4, <1>7, <1>12, <1>13, Zenon DEF CallOK
<1>15. ASSUME NEW b \in Blocks, b \notin doubt PROVE NewestAt(b)'
    <2>1. NewestAt(b)
        BY <1>1, <1>15, NewestOf, Zenon
    <2>2. CASE b = slots[i].lba
        <3>1. i \in Cached(b)
            BY <1>2, <2>2, Zenon DEF Cached
        <3>2. disk'[b] = slots[i].bytes
            BY <1>1, <1>4, <2>2, Zenon DEF TypesOK
        <3>3. Cached(b) \subseteq SlotIds
            BY Zenon DEF Cached
        <3>. QED BY <1>4, <1>8, <1>11, <2>1, <3>1, <3>2, <3>3, Zenon DEF NewestAt
    <2>3. CASE b # slots[i].lba
        <3>1. disk'[b] = disk[b]
            BY <1>1, <1>4, <2>3, Zenon DEF TypesOK
        <3>2. \A j \in Cached(b) : slots'[j] = slots[j]
            BY <1>3, <2>3, Zenon DEF Cached
        <3>. QED BY <1>4, <1>11, <2>1, <3>1, <3>2, Zenon DEF NewestAt
    <2>. QED BY <2>2, <2>3, Zenon
<1>16. ReadsNewest'
    BY <1>4, <1>15, NewestAll, Zenon
<1>. QED BY <1>6, <1>9, <1>10, <1>14, <1>16, Zenon DEF CacheInv

LEMMA WriteOutFailsKeeps ==
    ASSUME CacheInv, WriteOutFails, setup' = setup
    PROVE  CacheInv'
<1>1. TypesOK /\ SlotsOK /\ OneSlotPerBlock /\ ReadsNewest
    BY Zenon DEF CacheInv
<1>2. PICK i \in SlotIds : /\ i = NextOut(call.upto) /\ slots[i].dirty /\ slots[i].valid
                           /\ slots[i].lba \in Blocks
    BY OldestOut, Zenon DEF WriteOutFails
<1>3. /\ disk' = disk \/ disk' = [disk EXCEPT ![slots[i].lba] = slots[i].bytes]
      /\ call' = NoCall
      /\ UNCHANGED <<slots, used, generation, latest, doubt>>
    BY <1>2, Zenon DEF WriteOutFails
<1>4. slots[i].bytes \in Contents
    BY <1>1, SlotFields, Zenon
<1>5. disk' \in [Blocks -> Contents] /\ \A b \in Blocks : b # slots[i].lba => disk'[b] = disk[b]
    BY <1>1, <1>3, <1>4, Zenon DEF TypesOK
<1>6. TypesOK'
    BY <1>1, <1>3, <1>5, TypesKeep, Zenon DEF TypesOK
<1>7. SlotsOK' /\ OneSlotPerBlock'
    BY <1>1, <1>3, SameSlots, Zenon
<1>8. ASSUME NEW b \in Blocks, b \notin doubt PROVE NewestAt(b)'
    <2>1. NewestAt(b) /\ Cached(b)' = Cached(b)
        BY <1>1, <1>3, <1>8, NewestOf, SameCached, Zenon
    <2>2. CASE b = slots[i].lba
        <3>1. i \in Cached(b)
            BY <1>2, <2>2, Zenon DEF Cached
        <3>. QED BY <1>2, <1>3, <2>1, <3>1, Zenon DEF NewestAt
    <2>3. CASE b # slots[i].lba
        BY <1>3, <1>5, <2>1, <2>3, Zenon DEF NewestAt
    <2>. QED BY <2>2, <2>3, Zenon
<1>9. ReadsNewest'
    BY <1>3, <1>8, NewestAll, Zenon
<1>. QED BY <1>3, <1>6, <1>7, <1>9, CallOver, Zenon DEF CacheInv

\* A slot filled for block b, which no other slot holds.
FilledWith(i, b, c, dirty, g) ==
    /\ slots' \in [SlotIds -> SlotRecord] /\ used' \in [SlotIds -> Nat]
    /\ slots'[i].lba = b /\ slots'[i].bytes = c /\ slots'[i].valid
    /\ slots'[i].dirty = dirty /\ slots'[i].generation = g
    /\ \A j \in SlotIds : j # i => slots'[j] = slots[j]
    /\ SlotsOK' /\ OneSlotPerBlock' /\ Cached(b)' = {i}

LEMMA FillsSlots ==
    ASSUME TypesOK, SlotsOK, OneSlotPerBlock, setup' = setup, generation' = generation,
           NEW i \in SlotIds, NEW b \in Blocks, NEW c \in Contents, NEW dirty \in BOOLEAN, NEW g \in Nat,
           dirty => g \in 1..generation, Fills(i, b, c, dirty, g)
    PROVE  FilledWith(i, b, c, dirty, g)
<1>1. b \in Nat
    BY SetupFacts DEF TypesOK
<1>2. PICK s \in SlotRecord : s = Slot(b, c, dirty, g)
    BY <1>1, SlotIs, Zenon
<1>3. s.lba = b /\ s.bytes = c /\ s.valid = TRUE /\ s.dirty = dirty /\ s.generation = g
    BY <1>2 DEF Slot
<1>4. /\ slots' = [slots EXCEPT ![i] = s]
      /\ \A j \in SlotIds : slots[j].valid /\ slots[j].lba = b => j = i
    BY <1>2, Zenon DEF Fills
<1>5. /\ slots' \in [SlotIds -> SlotRecord] /\ slots'[i] = s
      /\ \A j \in SlotIds : j # i => slots'[j] = slots[j]
      /\ SlotsOK' /\ OneSlotPerBlock'
    BY <1>3, <1>4, SlotSet, Zenon
<1>6. used' \in [SlotIds -> Nat]
    BY TouchIn, Zenon DEF Fills
<1>7. SlotIds' = SlotIds
    BY Fixed, Zenon
<1>8. Cached(b)' = {i}
    BY <1>3, <1>4, <1>5, <1>7, Zenon DEF Cached
<1>. QED BY <1>3, <1>5, <1>6, <1>8, Zenon DEF FilledWith

\* A slot filled with what the device holds.
LEMMA FillsClean ==
    ASSUME TypesOK, SlotsOK, OneSlotPerBlock, setup' = setup, generation' = generation,
           NEW i \in SlotIds, NEW b \in Blocks, NEW c \in Contents, Fills(i, b, c, FALSE, 0)
    PROVE  FilledWith(i, b, c, FALSE, 0)
<1>1. 0 \in Nat /\ FALSE \in BOOLEAN
    OBVIOUS
<1>. QED BY <1>1, FillsSlots, Zenon

\* A slot taken and not filled.
LEMMA EmptiesKeeps ==
    ASSUME CacheInv, NEW i \in SlotIds, Empties(i), setup' = setup, call' = NoCall
    PROVE  /\ CacheInv'
           /\ ~slots'[i].dirty /\ \A j \in SlotIds : j # i => slots'[j] = slots[j]
<1>1. TypesOK /\ SlotsOK /\ OneSlotPerBlock /\ ReadsNewest
    BY Zenon DEF CacheInv
<1>2. /\ ~slots[i].dirty /\ slots' = [slots EXCEPT ![i] = EmptySlot]
      /\ UNCHANGED <<used, disk, latest, doubt, generation>>
    BY Zenon DEF Empties
<1>3. /\ slots' \in [SlotIds -> SlotRecord] /\ slots'[i] = EmptySlot
      /\ \A j \in SlotIds : j # i => slots'[j] = slots[j]
      /\ SlotsOK' /\ OneSlotPerBlock'
    BY <1>1, <1>2, EmptyIs, SlotSet, Zenon
<1>4. TypesOK'
    BY <1>1, <1>2, <1>3, TypesKeep, Zenon DEF TypesOK
<1>5. ASSUME NEW b \in Blocks, b \notin doubt PROVE NewestAt(b)'
    BY <1>1, <1>2, <1>3, <1>5, EmptyIs, NewestOf, OthersNewest, Zenon
<1>6. ReadsNewest'
    BY <1>2, <1>5, NewestAll, Zenon
<1>. QED BY <1>3, <1>4, <1>6, CallOver, EmptyIs, Zenon DEF CacheInv

LEMMA ReadKeeps ==
    ASSUME CacheInv, Read, setup' = setup
    PROVE  CacheInv'
<1>1. TypesOK /\ SlotsOK /\ OneSlotPerBlock /\ ReadsNewest
    BY Zenon DEF CacheInv
<1>2. call' = NoCall
    BY Zenon DEF Read
<1>3. CASE slots' = slots /\ used' \in [SlotIds -> Nat] /\ UNCHANGED <<disk, latest, doubt, generation>>
    BY <1>2, <1>3, CallOver, CallStep, Zenon
<1>4. ASSUME NEW i \in SlotIds, Fills(i, call.lba, disk[call.lba], FALSE, 0),
             Cached(call.lba) = {}, ~slots[i].dirty, call.lba \in Blocks,
             UNCHANGED <<disk, latest, doubt, generation>>
      PROVE  CacheInv'
    <2>1. PICK b \in Blocks : b = call.lba
        BY <1>4, Zenon
    <2>2. PICK c \in Contents : c = disk[b]
        BY <1>1, Zenon DEF TypesOK
    <2>3. Fills(i, b, c, FALSE, 0) /\ Cached(b) = {} /\ 0 \in Nat
        BY <1>4, <2>1, <2>2, ZenonT(40)
    <2>8. FilledWith(i, b, c, FALSE, 0)
        BY <1>1, <1>4, <2>3, FillsClean, Zenon
    <2>4. /\ slots' \in [SlotIds -> SlotRecord] /\ used' \in [SlotIds -> Nat]
          /\ slots'[i].lba = b /\ slots'[i].bytes = c /\ slots'[i].valid
          /\ \A j \in SlotIds : j # i => slots'[j] = slots[j]
          /\ SlotsOK' /\ OneSlotPerBlock' /\ Cached(b)' = {i}
        BY <2>8, Zenon DEF FilledWith
    <2>5. TypesOK'
        BY <1>1, <1>4, <2>4, TypesKeep, Zenon DEF TypesOK
    <2>6. ASSUME NEW x \in Blocks, x \notin doubt PROVE NewestAt(x)'
        <3>1. NewestAt(x)
            BY <1>1, <2>6, NewestOf, Zenon
        <3>2. CASE x = b
            <4>1. disk[b] = latest[b]
                BY <2>3, <3>1, <3>2, Zenon DEF NewestAt
            <4>. QED BY <1>4, <2>2, <2>4, <3>2, <4>1, Zenon DEF NewestAt
        <3>3. CASE x # b
            BY <1>4, <2>4, <3>1, <3>3, OthersNewest, Zenon
        <3>. QED BY <3>2, <3>3, Zenon
    <2>7. ReadsNewest'
        BY <1>4, <2>6, NewestAll, Zenon
    <2>. QED BY <1>2, <2>4, <2>5, <2>7, CallOver, Zenon DEF CacheInv
<1>5. ASSUME NEW i \in SlotIds, Empties(i) PROVE CacheInv'
    BY <1>2, <1>5, EmptiesKeeps, Zenon
<1>. QED BY <1>3, <1>4, <1>5, ReadEffect, Zenon

LEMMA WriteKeeps ==
    ASSUME CacheInv, Write, setup' = setup
    PROVE  CacheInv'
<1>1. TypesOK /\ SlotsOK /\ OneSlotPerBlock /\ ReadsNewest
    BY Zenon DEF CacheInv
<1>2. call' = NoCall
    BY Zenon DEF Write
<1>3. PICK b \in Blocks : b = call.lba
    BY Zenon DEF CacheInv, CallOK, Write, Ready
<1>4. ASSUME NEW i \in SlotIds, NEW c \in Contents,
             Fills(i, call.lba, c, TRUE, generation),
             latest' \in [Blocks -> Contents], doubt' \subseteq doubt,
             \A x \in Blocks : x # call.lba => latest'[x] = latest[x] /\ (x \in doubt' <=> x \in doubt),
             call.lba \notin doubt' => c = latest'[call.lba],
             UNCHANGED <<disk, generation>>
      PROVE  CacheInv'
    <2>1. generation \in Nat /\ generation \in 1..generation
        <3>1. generation \in 1..MaxGeneration /\ MaxGeneration \in Nat
            BY <1>1, SetupFacts, Zenon DEF TypesOK
        <3>. QED BY <3>1
    <2>2. PICK g \in Nat : g = generation
        BY <2>1, Zenon
    <2>3. Fills(i, b, c, TRUE, g) /\ g \in 1..generation
        BY <1>3, <1>4, <2>1, <2>2, Zenon
    <2>8. g \in Nat /\ TRUE \in BOOLEAN
        BY <2>3
    <2>9. FilledWith(i, b, c, TRUE, g)
        BY <1>1, <1>4, <2>3, <2>8, FillsSlots, Zenon
    <2>4. /\ slots' \in [SlotIds -> SlotRecord] /\ used' \in [SlotIds -> Nat]
          /\ slots'[i].lba = b /\ slots'[i].bytes = c /\ slots'[i].valid /\ slots'[i].dirty
          /\ \A j \in SlotIds : j # i => slots'[j] = slots[j]
          /\ SlotsOK' /\ OneSlotPerBlock' /\ Cached(b)' = {i}
        BY <2>9, Zenon DEF FilledWith
    <2>5. TypesOK'
        BY <1>1, <1>4, <2>4, TypesKeep, Zenon DEF TypesOK
    <2>6. ASSUME NEW x \in Blocks, x \notin doubt' PROVE NewestAt(x)'
        <3>1. CASE x = b
            BY <1>3, <1>4, <2>4, <2>6, <3>1, Zenon DEF NewestAt
        <3>2. CASE x # b
            <4>1. x \notin doubt /\ latest'[x] = latest[x]
                BY <1>3, <1>4, <2>6, <3>2, Zenon
            <4>2. NewestAt(x)
                BY <1>1, <4>1, NewestOf, Zenon
            <4>3. ~slots[i].dirty \/ slots[i].lba # x
                BY <2>3, <3>2, Zenon DEF Fills
            <4>. QED BY <1>4, <2>4, <3>2, <4>1, <4>2, <4>3, OthersNewest, Zenon
        <3>. QED BY <3>1, <3>2, Zenon
    <2>7. ReadsNewest'
        BY <2>6, NewestAll, Zenon
    <2>. QED BY <1>2, <2>4, <2>5, <2>7, CallOver, Zenon DEF CacheInv
<1>5. ASSUME NEW i \in SlotIds, Empties(i) PROVE CacheInv'
    BY <1>2, <1>5, EmptiesKeeps, Zenon
<1>. QED BY <1>4, <1>5, WriteEffect, Zenon

LEMMA ThroughKeeps ==
    ASSUME CacheInv, Through, setup' = setup
    PROVE  CacheInv'
<1>1. TypesOK /\ SlotsOK /\ OneSlotPerBlock /\ ReadsNewest
    BY Zenon DEF CacheInv
<1>2. call' = NoCall /\ generation' = generation /\ \A i \in SlotIds : ~slots[i].dirty
    BY ThroughEffect, Zenon DEF Through
<1>3. PICK b \in Blocks : b = call.lba
    BY ThroughEffect, Zenon
<1>4. PICK c \in Contents :
        \/ /\ \E i \in SlotIds : Fills(i, b, c, FALSE, 0)
           /\ disk' = [disk EXCEPT ![b] = c] /\ latest' = [latest EXCEPT ![b] = c]
           /\ doubt' = doubt \ {b}
        \/ /\ disk' \in {disk, [disk EXCEPT ![b] = c]}
           /\ doubt' = doubt \union {b}
           /\ UNCHANGED <<slots, used, latest>>
    BY <1>3, ThroughEffect, Zenon
<1>5. ASSUME NEW i \in SlotIds, Fills(i, b, c, FALSE, 0), disk' = [disk EXCEPT ![b] = c],
             latest' = [latest EXCEPT ![b] = c], doubt' = doubt \ {b}
      PROVE  CacheInv'
    <2>2. /\ slots' \in [SlotIds -> SlotRecord] /\ used' \in [SlotIds -> Nat]
          /\ slots'[i].lba = b /\ slots'[i].bytes = c /\ slots'[i].valid
          /\ \A j \in SlotIds : j # i => slots'[j] = slots[j]
          /\ SlotsOK' /\ OneSlotPerBlock' /\ Cached(b)' = {i}
        <3>1. FilledWith(i, b, c, FALSE, 0)
            BY <1>1, <1>2, <1>5, FillsClean, Zenon
        <3>. QED BY <3>1, Zenon DEF FilledWith
    <2>3. /\ disk' \in [Blocks -> Contents] /\ latest' \in [Blocks -> Contents] /\ doubt' \subseteq Blocks
          /\ disk'[b] = c /\ latest'[b] = c
          /\ \A x \in Blocks : x # b => disk'[x] = disk[x] /\ latest'[x] = latest[x]
        BY <1>1, <1>5, Zenon DEF TypesOK
    <2>4. TypesOK'
        BY <1>1, <1>2, <2>2, <2>3, TypesKeep, Zenon DEF TypesOK
    <2>5. ASSUME NEW x \in Blocks, x \notin doubt' PROVE NewestAt(x)'
        <3>1. CASE x = b
            BY <2>2, <2>3, <3>1, Zenon DEF NewestAt
        <3>2. CASE x # b
            <4>1. NewestAt(x)
                BY <1>1, <1>5, <2>5, <3>2, NewestOf, Zenon
            <4>. QED BY <1>2, <2>2, <2>3, <3>2, <4>1, OthersNewest, Zenon
        <3>. QED BY <3>1, <3>2, Zenon
    <2>6. ReadsNewest'
        BY <2>5, NewestAll, Zenon
    <2>. QED BY <1>2, <2>2, <2>4, <2>6, CallOver, Zenon DEF CacheInv
<1>6. CASE /\ disk' \in {disk, [disk EXCEPT ![b] = c]}
           /\ doubt' = doubt \union {b}
           /\ UNCHANGED <<slots, used, latest>>
    <2>1. disk' \in [Blocks -> Contents] /\ \A x \in Blocks : x # b => disk'[x] = disk[x]
        BY <1>1, <1>6, Zenon DEF TypesOK
    <2>2. TypesOK'
        BY <1>1, <1>2, <1>6, <2>1, TypesKeep, Zenon DEF TypesOK
    <2>3. SlotsOK' /\ OneSlotPerBlock'
        BY <1>1, <1>2, <1>6, SameSlots, Zenon
    <2>4. ASSUME NEW x \in Blocks, x \notin doubt' PROVE NewestAt(x)'
        <3>1. x # b /\ NewestAt(x)
            BY <1>1, <1>6, <2>4, NewestOf, Zenon
        <3>2. Cached(x)' = Cached(x)
            BY <1>6, SameCached, Zenon
        <3>. QED BY <1>6, <2>1, <3>1, <3>2, Zenon DEF NewestAt
    <2>5. ReadsNewest'
        BY <2>4, NewestAll, Zenon
    <2>. QED BY <1>2, <2>2, <2>3, <2>5, CallOver, Zenon DEF CacheInv
<1>. QED BY <1>4, <1>5, <1>6, Zenon

LEMMA BarrierKeeps ==
    ASSUME CacheInv, Barrier, setup' = setup
    PROVE  CacheInv'
<1>1. TypesOK /\ SlotsOK /\ OneSlotPerBlock /\ ReadsNewest
    BY Zenon DEF CacheInv
<1>2. /\ call' = NoCall /\ generation < MaxGeneration /\ generation' = generation + 1
      /\ UNCHANGED <<slots, used, disk, latest, doubt>>
    BY Zenon DEF Barrier
<1>3. generation \in 1..MaxGeneration /\ MaxGeneration \in Nat
    BY <1>1, SetupFacts, Zenon DEF TypesOK
<1>4. generation' \in 1..MaxGeneration /\ \A g \in 1..generation : g \in 1..generation'
    BY <1>2, <1>3
<1>5. TypesOK'
    BY <1>1, <1>2, <1>4, TypesKeep, Zenon DEF TypesOK
<1>6. SlotIds' = SlotIds /\ Blocks' = Blocks
    BY Fixed, Zenon
<1>7. SlotsOK'
    BY <1>1, <1>2, <1>4, <1>6, Zenon DEF SlotsOK
<1>8. OneSlotPerBlock'
    BY <1>1, <1>2, <1>6, Zenon DEF OneSlotPerBlock
<1>9. ReadsNewest'
    BY <1>1, <1>2, SameNewest, Zenon
<1>. QED BY <1>2, <1>5, <1>7, <1>8, <1>9, CallOver, Zenon DEF CacheInv

LEMMA ForgetKeeps ==
    ASSUME CacheInv, NEW ids, Forget(ids), setup' = setup
    PROVE  CacheInv' /\ \A i \in SlotIds : slots[i].dirty \/ slots'[i].dirty => slots'[i] = slots[i]
<1>1. TypesOK /\ SlotsOK /\ OneSlotPerBlock /\ ReadsNewest
    BY Zenon DEF CacheInv
<1> DEFINE gone == {i \in ids : ~slots[i].dirty}
<1>2. /\ call' = NoCall /\ slots' = [i \in SlotIds |-> IF i \in gone THEN EmptySlot ELSE slots[i]]
      /\ UNCHANGED <<used, generation, disk, latest, doubt>>
    BY Zenon DEF Forget
<1>3. \A i \in SlotIds : (i \in gone => slots'[i] = EmptySlot) /\ (i \notin gone => slots'[i] = slots[i])
    BY <1>2, Zenon
<1>4. \A i \in SlotIds : slots'[i] = slots[i] \/ (~slots'[i].valid /\ ~slots'[i].dirty /\ ~slots[i].dirty)
    BY <1>3, EmptyIs, Zenon
<1>5. slots' \in [SlotIds -> SlotRecord]
    BY <1>1, <1>2, EmptyIs, Zenon DEF TypesOK
<1>6. TypesOK'
    BY <1>1, <1>2, <1>5, TypesKeep, Zenon DEF TypesOK
<1>7. SlotIds' = SlotIds /\ Blocks' = Blocks
    BY Fixed, Zenon
<1>. HIDE DEF gone
<1>8. SlotsOK'
    BY <1>1, <1>2, <1>4, <1>7, Zenon DEF SlotsOK
<1>9. OneSlotPerBlock'
    <2>1. ASSUME NEW i \in SlotIds, NEW j \in SlotIds,
                 slots'[i].valid, slots'[j].valid, slots'[i].lba = slots'[j].lba
          PROVE  i = j
        <3>1. slots'[i] = slots[i] /\ slots'[j] = slots[j]
            BY <1>4, <2>1, Zenon
        <3>. QED BY <1>1, <2>1, <3>1, Zenon DEF OneSlotPerBlock
    <2>. QED BY <1>7, <2>1, Zenon DEF OneSlotPerBlock
<1>10. ASSUME NEW b \in Blocks, b \notin doubt PROVE NewestAt(b)'
    <2>1. NewestAt(b)
        BY <1>1, <1>10, NewestOf, Zenon
    <2>2. \A j \in Cached(b)' : j \in Cached(b) /\ slots'[j] = slots[j]
        BY <1>4, <1>7, Zenon DEF Cached
    <2>3. \A j \in Cached(b) : slots[j].dirty => j \in Cached(b)' /\ slots'[j].dirty
        BY <1>4, <1>7, Zenon DEF Cached
    <2>. QED BY <1>2, <2>1, <2>2, <2>3, Zenon DEF NewestAt
<1>11. ReadsNewest'
    BY <1>2, <1>10, NewestAll, Zenon
<1>. QED BY <1>2, <1>4, <1>6, <1>8, <1>9, <1>11, CallOver, Zenon DEF CacheInv

LEMMA CrashKeeps ==
    ASSUME CacheInv, NEW kept \in [Blocks -> Contents], Crash(kept), setup' = setup
    PROVE  CacheInv'
<1>1. TypesOK
    BY Zenon DEF CacheInv
<1>2. /\ slots' = [i \in SlotIds |-> EmptySlot] /\ used' = [i \in SlotIds |-> i] /\ generation' = 1
      /\ disk' = kept /\ call' = NoCall /\ latest' = kept /\ doubt' = {}
    BY Zenon DEF Crash
<1>3. /\ slots' \in [SlotIds -> SlotRecord] /\ used' \in [SlotIds -> Nat] /\ generation' \in 1..MaxGeneration
      /\ \A i \in SlotIds : ~slots'[i].valid /\ ~slots'[i].dirty
    <2>1. slots' \in [SlotIds -> SlotRecord] /\ \A i \in SlotIds : ~slots'[i].valid /\ ~slots'[i].dirty
        BY <1>2, EmptyIs, Zenon
    <2>2. SlotIds \subseteq Nat /\ MaxGeneration \in Nat \ {0}
        BY <1>1, SetupFacts, Zenon DEF TypesOK
    <2>. QED BY <1>2, <2>1, <2>2
<1>4. TypesOK'
    BY <1>1, <1>2, <1>3, TypesKeep, Zenon
<1>5. SlotIds' = SlotIds
    BY Fixed, Zenon
<1>6. SlotsOK' /\ OneSlotPerBlock'
    BY <1>3, <1>5, Zenon DEF SlotsOK, OneSlotPerBlock
<1>7. ASSUME NEW b \in Blocks PROVE NewestAt(b)'
    <2>1. Cached(b)' = {}
        BY <1>3, <1>5, Zenon DEF Cached
    <2>. QED BY <1>2, <2>1, Zenon DEF NewestAt
<1>8. ReadsNewest'
    BY <1>7, NewestAll, Zenon
<1>. QED BY <1>2, <1>4, <1>6, <1>8, CallOver, Zenon DEF CacheInv

LEMMA StutterKeeps ==
    ASSUME CacheInv, UNCHANGED cacheVars
    PROVE  CacheInv'
<1>1. UNCHANGED <<setup, slots, used, generation, disk, call, latest, doubt>>
    BY Zenon DEF cacheVars
<1>2. /\ SlotIds' = SlotIds /\ Blocks' = Blocks /\ Halves' = Halves /\ MaxGeneration' = MaxGeneration
      /\ Cached(call.lba)' = Cached(call.lba)
    BY <1>1, Fixed, Zenon DEF Cached
<1>3. CallOK
    BY Zenon DEF CacheInv
<1>4. (HasRoom => HasRoom') /\ (InOrder => InOrder')
    BY <1>1, <1>2, Zenon DEF HasRoom, InOrder
<1>5. CallOK'
    BY <1>1, <1>2, <1>3, <1>4, Zenon DEF CallOK
<1>. QED BY <1>1, <1>5, CallStep, Zenon DEF CacheInv, TypesOK

-----------------------------------------------------------------------------
(* What the device has. *)

MediaRecord == [kept : Contents, owed : BOOLEAN]

\* Slots that are dirty after the step were, with the same bytes of the same block.
DirtyBefore ==
    \A i \in SlotIds : slots'[i].dirty =>
        slots[i].dirty /\ slots'[i].bytes = slots[i].bytes /\ slots'[i].lba = slots[i].lba

LEMMA MediaSame ==
    ASSUME MediaOK, setup' = setup, UNCHANGED <<media, allowed, disk>>, DirtyBefore
    PROVE  MediaOK'
<1>1. SlotIds' = SlotIds /\ Blocks' = Blocks /\ Contents' = Contents
    BY Fixed, Zenon
<1>. QED BY <1>1, Zenon DEF MediaOK, DirtyBefore

LEMMA TakesIs ==
    ASSUME MediaOK, NEW b \in Blocks, Takes(b), disk' \in [Blocks -> Contents],
           \A x \in Blocks : x # b => disk'[x] = disk[x]
    PROVE  /\ media' \in [Blocks -> [kept : Contents, owed : BOOLEAN]]
           /\ setup.volatile => \A x \in Blocks : media'[x].kept = media[x].kept
           /\ ~setup.volatile => \A x \in Blocks : media'[x].kept = disk'[x]
<1>1. media \in [Blocks -> MediaRecord] /\ media[b] \in MediaRecord
    BY Zenon DEF MediaOK, MediaRecord
<1>2. CASE setup.volatile
    <2>1. PICK r : r = [media[b] EXCEPT !.owed = TRUE]
        BY Zenon
    <2>2. r \in MediaRecord /\ r.kept = media[b].kept
        BY <1>1, <2>1, ZenonT(40) DEF MediaRecord
    <2>3. media' = [media EXCEPT ![b] = r]
        BY <1>2, <2>1, Zenon DEF Takes
    <2>. QED BY <1>1, <1>2, <2>2, <2>3, Zenon DEF MediaRecord
<1>3. CASE ~setup.volatile
    <2>1. PICK r : r = [media[b] EXCEPT !.kept = disk'[b]]
        BY Zenon
    <2>2. disk'[b] \in Contents
        BY Zenon
    <2>3. r \in MediaRecord /\ r.kept = disk'[b]
        BY <1>1, <2>1, <2>2 DEF MediaRecord
    <2>4. media' = [media EXCEPT ![b] = r]
        BY <1>3, <2>1, Zenon DEF Takes
    <2>5. \A x \in Blocks : media[x].kept = disk[x]
        BY <1>3, Zenon DEF MediaOK
    <2>. QED BY <1>1, <1>3, <2>3, <2>4, <2>5, Zenon DEF MediaRecord
<1>. QED BY <1>2, <1>3, Zenon

\* The device takes a block that may be found.
LEMMA MediaTakes ==
    ASSUME MediaOK, setup' = setup, NEW b \in Blocks, Takes(b),
           disk' \in [Blocks -> Contents], \A x \in Blocks : x # b => disk'[x] = disk[x],
           allowed' \in [Blocks -> SUBSET Contents], \A x \in Blocks : allowed[x] \subseteq allowed'[x],
           setup.volatile => disk'[b] \in allowed'[b],
           DirtyBefore, SlotsOK
    PROVE  MediaOK'
<1>1. SlotIds' = SlotIds /\ Blocks' = Blocks /\ Contents' = Contents
    BY Fixed, Zenon
<1>2. /\ media' \in [Blocks -> [kept : Contents, owed : BOOLEAN]]
      /\ setup.volatile => \A x \in Blocks : media'[x].kept = media[x].kept
      /\ ~setup.volatile => \A x \in Blocks : media'[x].kept = disk'[x]
    BY TakesIs, Zenon
<1>3. ASSUME setup.volatile, NEW x \in Blocks PROVE media'[x].kept \in allowed'[x] /\ disk'[x] \in allowed'[x]
    <2>1. media[x].kept \in allowed[x] /\ disk[x] \in allowed[x]
        BY <1>3, Zenon DEF MediaOK
    <2>. QED BY <1>2, <1>3, <2>1, Zenon
<1>4. ASSUME setup.volatile, NEW i \in SlotIds, slots'[i].dirty
      PROVE  slots'[i].bytes \in allowed'[slots'[i].lba]
    <2>1. /\ slots[i].bytes \in allowed[slots[i].lba] /\ slots[i].lba \in Blocks
          /\ slots'[i].bytes = slots[i].bytes /\ slots'[i].lba = slots[i].lba
        BY <1>4, Zenon DEF MediaOK, SlotsOK, DirtyBefore
    <2>. QED BY <2>1, Zenon
<1>. QED BY <1>1, <1>2, <1>3, <1>4, Zenon DEF MediaOK

LEMMA DestageKeeps ==
    ASSUME DeviceInv, NEW b \in Blocks, Destage(b)
    PROVE  DeviceInv'
<1>1. CacheInv /\ MediaOK /\ TypesOK
    BY Zenon DEF DeviceInv, CacheInv
<1>2. /\ media' = [media EXCEPT ![b].kept = disk[b], ![b].owed = FALSE]
      /\ UNCHANGED <<setup, slots, disk, allowed>> /\ UNCHANGED cacheVars
    BY Zenon DEF Destage, cacheVars
<1>3. media \in [Blocks -> MediaRecord] /\ media[b] \in MediaRecord /\ disk[b] \in Contents
    BY <1>1, Zenon DEF MediaOK, MediaRecord, TypesOK
<1>4. PICK r : r = [[media[b] EXCEPT !.kept = disk[b]] EXCEPT !.owed = FALSE]
    BY Zenon
<1>5. r \in MediaRecord /\ r.kept = disk[b]
    <2>1. PICK q : q = [media[b] EXCEPT !.kept = disk[b]]
        BY Zenon
    <2>2. q \in MediaRecord /\ q.kept = disk[b]
        BY <1>3, <2>1 DEF MediaRecord
    <2>3. r = [q EXCEPT !.owed = FALSE]
        BY <1>4, <2>1, Zenon
    <2>. QED BY <2>2, <2>3, ZenonT(40) DEF MediaRecord
<1>6. media' = [media EXCEPT ![b] = r]
    BY <1>2, <1>3, <1>4, ZenonT(40) DEF MediaRecord
<1>7. /\ media' \in [Blocks -> MediaRecord] /\ media'[b].kept = disk[b]
      /\ \A x \in Blocks : x # b => media'[x] = media[x]
    BY <1>3, <1>5, <1>6, Zenon
<1>8. SlotIds' = SlotIds /\ Blocks' = Blocks /\ Contents' = Contents
    BY <1>2, Fixed, Zenon
<1>9. /\ ~setup.volatile => \A x \in Blocks : media'[x].kept = disk[x]
      /\ setup.volatile => \A x \in Blocks : media'[x].kept \in allowed[x]
    BY <1>1, <1>7, Zenon DEF MediaOK
<1>10. MediaOK'
    BY <1>1, <1>2, <1>7, <1>8, <1>9, Zenon DEF MediaOK, MediaRecord
<1>11. CacheInv'
    BY <1>1, <1>2, StutterKeeps, Zenon
<1>. QED BY <1>10, <1>11, Zenon DEF DeviceInv

LEMMA DeviceWriteOutKeeps ==
    ASSUME DeviceInv, DeviceWriteOut
    PROVE  DeviceInv'
<1>1. CacheInv /\ MediaOK /\ TypesOK /\ SlotsOK
    BY Zenon DEF DeviceInv, CacheInv
<1>2. setup' = setup /\ allowed' = allowed
    BY Zenon DEF DeviceWriteOut
<1>3. PICK i \in SlotIds : /\ i = NextOut(call.upto) /\ slots[i].dirty /\ slots[i].valid
                           /\ slots[i].lba \in Blocks
    BY <1>1, OldestOut, Zenon DEF DeviceWriteOut, WriteOut, WriteOutFails
<1>4. PICK b \in Blocks : b = slots[i].lba
    BY <1>3, Zenon
<1>5. /\ slots[i].bytes \in Contents
      /\ setup.volatile => slots[i].bytes \in allowed[b] /\ disk[b] \in allowed[b]
    BY <1>1, <1>3, <1>4, SlotFields, Zenon DEF MediaOK
<1>6. allowed' \in [Blocks -> SUBSET Contents] /\ \A x \in Blocks : allowed[x] \subseteq allowed'[x]
    BY <1>1, <1>2, Zenon DEF MediaOK
<1>7. ASSUME disk' = disk \/ disk' = [disk EXCEPT ![b] = slots[i].bytes]
      PROVE  /\ disk' \in [Blocks -> Contents] /\ \A x \in Blocks : x # b => disk'[x] = disk[x]
             /\ setup.volatile => disk'[b] \in allowed'[b]
    BY <1>1, <1>2, <1>5, <1>7, Zenon DEF TypesOK
<1>8. CASE WriteOut /\ Takes(b)
    <2>1. disk' = [disk EXCEPT ![b] = slots[i].bytes]
        BY <1>3, <1>4, <1>8, Zenon DEF WriteOut
    <2>2. DirtyBefore
        BY <1>1, <1>3, <1>8, WriteOutEffect, Zenon DEF DirtyBefore
    <2>3. MediaOK'
        BY <1>1, <1>2, <1>6, <1>7, <1>8, <2>1, <2>2, MediaTakes, Zenon
    <2>. QED BY <1>1, <1>2, <1>8, <2>3, WriteOutKeeps, Zenon DEF DeviceInv
<1>9. CASE WriteOutFails
    <2>1. CacheInv'
        BY <1>1, <1>2, <1>9, WriteOutFailsKeeps, Zenon
    <2>2. DirtyBefore /\ (disk' = disk \/ disk' = [disk EXCEPT ![b] = slots[i].bytes])
        BY <1>3, <1>4, <1>9, Zenon DEF WriteOutFails, DirtyBefore
    <2>3. CASE disk' = disk /\ UNCHANGED media
        BY <1>1, <1>2, <2>1, <2>2, <2>3, MediaSame, Zenon DEF DeviceInv
    <2>4. CASE Takes(b)
        <3>1. MediaOK'
            BY <1>1, <1>2, <1>6, <1>7, <2>2, <2>4, MediaTakes, Zenon
        <3>. QED BY <2>1, <3>1, Zenon DEF DeviceInv
    <2>. QED BY <1>3, <1>4, <2>3, <2>4, Zenon DEF DeviceWriteOut
<1>10. \/ WriteOut /\ Takes(b)
       \/ WriteOutFails
    BY <1>3, <1>4, Zenon DEF DeviceWriteOut
<1>. QED BY <1>8, <1>9, <1>10, Zenon

LEMMA CacheWriteKeeps ==
    ASSUME DeviceInv, CacheWrite
    PROVE  DeviceInv'
<1>1. CacheInv /\ MediaOK /\ TypesOK /\ SlotsOK
    BY Zenon DEF DeviceInv, CacheInv
<1>2. Write /\ setup' = setup /\ media' = media
    BY Zenon DEF CacheWrite
<1>3. CacheInv'
    BY <1>1, <1>2, WriteKeeps, Zenon
<1>4. disk' = disk
    BY <1>1, <1>2, WriteEffect, Zenon DEF Empties
<1>5. SlotIds' = SlotIds /\ Blocks' = Blocks /\ Contents' = Contents /\ SlotRecord' = SlotRecord
    BY <1>2, Fixed, Zenon
<1>6. \A j \in SlotIds : /\ slots'[j].bytes \in Contents
                         /\ slots'[j].dirty => slots'[j].lba \in Blocks
    <2>1. slots' \in [SlotIds -> SlotRecord] /\ SlotsOK'
        BY <1>3, <1>5, Zenon DEF CacheInv, TypesOK
    <2>2. \A j \in SlotIds : slots'[j] \in SlotRecord
        BY <2>1, Zenon
    <2>. QED BY <1>5, <2>1, <2>2, Zenon DEF SlotsOK, SlotRecord
<1>7. CASE setup.volatile
    <2> DEFINE dirtied(b) == {slots'[i].bytes : i \in {j \in SlotIds : slots'[j].dirty /\ slots'[j].lba = b}}
    <2>1. allowed' = [b \in Blocks |-> allowed[b] \union dirtied(b)]
        BY <1>7, Zenon DEF CacheWrite
    <2>2. \A b \in Blocks : dirtied(b) \in SUBSET Contents
        BY <1>6, Zenon
    <2>3. \A j \in SlotIds : slots'[j].dirty => slots'[j].bytes \in dirtied(slots'[j].lba)
        BY Zenon
    <2>4. allowed \in [Blocks -> SUBSET Contents] /\ \A b \in Blocks : media[b].kept \in allowed[b] /\ disk[b] \in allowed[b]
        BY <1>1, <1>7, Zenon DEF MediaOK
    <2>. HIDE DEF dirtied
    <2>5. allowed' \in [Blocks -> SUBSET Contents] /\ \A b \in Blocks : allowed'[b] = allowed[b] \union dirtied(b)
        BY <2>1, <2>2, <2>4
    <2>6. \A b \in Blocks : media'[b].kept \in allowed'[b] /\ disk'[b] \in allowed'[b]
        BY <1>2, <1>4, <2>4, <2>5, Zenon
    <2>7. \A j \in SlotIds : slots'[j].dirty => slots'[j].bytes \in allowed'[slots'[j].lba]
        <3>1. ASSUME NEW j \in SlotIds, slots'[j].dirty PROVE slots'[j].bytes \in allowed'[slots'[j].lba]
            <4>1. PICK b \in Blocks : b = slots'[j].lba
                BY <1>6, <3>1, Zenon
            <4>2. slots'[j].bytes \in dirtied(b)
                BY <2>3, <3>1, <4>1, Zenon
            <4>3. slots'[j].bytes \in allowed'[b]
                BY <2>5, <4>2
            <4>. QED BY <4>1, <4>3, Zenon
        <3>. QED BY <3>1, Zenon
    <2>8. MediaOK'
        BY <1>1, <1>2, <1>5, <1>7, <2>5, <2>6, <2>7, Zenon DEF MediaOK
    <2>. QED BY <1>3, <2>8, Zenon DEF DeviceInv
<1>8. CASE ~setup.volatile
    <2>1. allowed' = allowed
        BY <1>8, Zenon DEF CacheWrite
    <2>2. MediaOK'
        BY <1>1, <1>2, <1>4, <1>5, <1>8, <2>1, Zenon DEF MediaOK
    <2>. QED BY <1>3, <2>2, Zenon DEF DeviceInv
<1>. QED BY <1>7, <1>8, Zenon

LEMMA DeviceThroughKeeps ==
    ASSUME DeviceInv, DeviceThrough
    PROVE  DeviceInv'
<1>1. CacheInv /\ MediaOK /\ TypesOK /\ SlotsOK /\ OneSlotPerBlock
    BY Zenon DEF DeviceInv, CacheInv
<1>2. Through /\ setup' = setup
    BY Zenon DEF DeviceThrough
<1>3. CacheInv'
    BY <1>1, <1>2, ThroughKeeps, Zenon
<1>4. PICK b \in Blocks : b = call.lba
    BY <1>1, <1>2, ThroughEffect, Zenon
<1>5. /\ Takes(b)
      /\ allowed' = IF setup.volatile THEN [allowed EXCEPT ![b] = @ \union {disk'[b]}] ELSE allowed
    BY <1>4, Zenon DEF DeviceThrough
<1>6. PICK c \in Contents :
        /\ disk' = disk \/ disk' = [disk EXCEPT ![b] = c]
        /\ (\E i \in SlotIds : Fills(i, b, c, FALSE, 0)) \/ slots' = slots
    BY <1>1, <1>2, <1>4, ThroughEffect, Zenon
<1>7. disk' \in [Blocks -> Contents] /\ \A x \in Blocks : x # b => disk'[x] = disk[x]
    BY <1>1, <1>6, Zenon DEF TypesOK
<1>8. /\ allowed' \in [Blocks -> SUBSET Contents] /\ \A x \in Blocks : allowed[x] \subseteq allowed'[x]
      /\ setup.volatile => disk'[b] \in allowed'[b]
    <2>1. allowed \in [Blocks -> SUBSET Contents] /\ disk'[b] \in Contents
        BY <1>1, <1>7, Zenon DEF MediaOK
    <2>2. CASE setup.volatile
        BY <1>5, <2>1, <2>2
    <2>3. CASE ~setup.volatile
        BY <1>5, <2>1, <2>3, Zenon
    <2>. QED BY <2>2, <2>3, Zenon
<1>9. \A j \in SlotIds : ~slots[j].dirty
    BY <1>1, <1>2, ThroughEffect, Zenon
<1>10. \A j \in SlotIds : ~slots'[j].dirty
    <2>1. ASSUME NEW i \in SlotIds, Fills(i, b, c, FALSE, 0) PROVE \A j \in SlotIds : ~slots'[j].dirty
        <3>1. generation' = generation /\ 0 \in Nat
            BY <1>1, <1>2, ThroughEffect
        <3>2. slots'[i].dirty = FALSE /\ \A j \in SlotIds : j # i => slots'[j] = slots[j]
            BY <1>1, <1>2, <2>1, <3>1, FillsClean, Zenon DEF FilledWith
        <3>. QED BY <1>9, <3>2, Zenon
    <2>. QED BY <1>6, <1>9, <2>1, Zenon
<1>11. DirtyBefore
    BY <1>10, Zenon DEF DirtyBefore
<1>12. MediaOK'
    BY <1>1, <1>2, <1>5, <1>7, <1>8, <1>11, MediaTakes, Zenon
<1>. QED BY <1>3, <1>12, Zenon DEF DeviceInv

LEMMA FlushOkKeeps ==
    ASSUME DeviceInv, FlushOk
    PROVE  DeviceInv'
<1>1. CacheInv /\ MediaOK /\ TypesOK /\ ReadsNewest
    BY Zenon DEF DeviceInv, CacheInv
<1>2. Flush /\ setup' = setup /\ allowed' = AllowedNow /\ media' = Durable
    BY Zenon DEF FlushOk
<1>3. CacheInv' /\ slots' = slots /\ disk' = disk
    BY <1>1, <1>2, FlushKeeps, Zenon DEF Flush
<1>4. \A i \in SlotIds : ~slots[i].dirty
    BY <1>1, <1>2, ReadyClean, Zenon DEF Flush, Ready
<1>5. ASSUME NEW b \in Blocks, b \notin doubt PROVE disk[b] = latest[b]
    BY <1>1, <1>4, <1>5, Zenon DEF ReadsNewest, Cached
<1>6. disk \in [Blocks -> Contents] /\ latest \in [Blocks -> Contents] /\ allowed \in [Blocks -> SUBSET Contents]
    BY <1>1, Zenon DEF TypesOK, MediaOK
<1>7. \A b \in Blocks : media'[b] = [kept |-> disk[b], owed |-> FALSE]
    BY <1>2, Zenon DEF Durable
<1>8. media' \in [Blocks -> MediaRecord]
    <2>1. \A b \in Blocks : [kept |-> disk[b], owed |-> FALSE] \in MediaRecord
        BY <1>6 DEF MediaRecord
    <2>. QED BY <1>2, <2>1, Zenon DEF Durable
<1>9. ASSUME NEW b \in Blocks PROVE media'[b].kept = disk[b]
    <2>1. PICK c : c = disk[b]
        BY Zenon
    <2>2. [kept |-> c, owed |-> FALSE].kept = c
        OBVIOUS
    <2>3. media'[b] = [kept |-> c, owed |-> FALSE]
        BY <1>7, <2>1, Zenon
    <2>. QED BY <2>1, <2>2, <2>3, Zenon
<1>10. \A b \in Blocks : allowed'[b] = IF b \in doubt \/ ~setup.volatile THEN allowed[b] ELSE {latest[b]}
    BY <1>2, Zenon DEF AllowedNow
<1>11. allowed' \in [Blocks -> SUBSET Contents]
    <2>1. ASSUME NEW b \in Blocks
          PROVE  (IF b \in doubt \/ ~setup.volatile THEN allowed[b] ELSE {latest[b]}) \in SUBSET Contents
        BY <1>6
    <2>. QED BY <1>2, <2>1, Zenon DEF AllowedNow
<1>12. ASSUME setup.volatile, NEW b \in Blocks PROVE disk[b] \in allowed'[b]
    <2>1. disk[b] \in allowed[b]
        BY <1>1, <1>12, Zenon DEF MediaOK
    <2>. QED BY <1>5, <1>10, <1>12, <2>1, ZenonT(40)
<1>13. SlotIds' = SlotIds /\ Blocks' = Blocks /\ Contents' = Contents
    BY <1>2, Fixed, Zenon
<1>14. MediaOK'
    BY <1>2, <1>3, <1>4, <1>8, <1>9, <1>11, <1>12, <1>13, Zenon DEF MediaOK, MediaRecord
<1>. QED BY <1>3, <1>14, Zenon DEF DeviceInv

LEMMA FlushFailsKeeps ==
    ASSUME DeviceInv, FlushFails
    PROVE  DeviceInv'
<1>1. CacheInv /\ MediaOK /\ Flush /\ UNCHANGED <<setup, media, allowed, slots, disk>>
    BY Zenon DEF DeviceInv, FlushFails, Flush
<1>2. DirtyBefore
    BY <1>1, Zenon DEF DirtyBefore
<1>. QED BY <1>1, <1>2, FlushKeeps, MediaSame, Zenon DEF DeviceInv

LEMMA PowerCutKeeps ==
    ASSUME DeviceInv, PowerCut
    PROVE  DeviceInv'
<1>1. CacheInv /\ MediaOK
    BY Zenon DEF DeviceInv
<1>2. PICK kept : kept = [b \in Blocks |-> media[b].kept]
    BY Zenon
<1>3. /\ Crash(kept) /\ setup' = setup
      /\ media' = [b \in Blocks |-> [kept |-> kept[b], owed |-> FALSE]]
      /\ allowed' = IF setup.volatile THEN [b \in Blocks |-> {kept[b]}] ELSE allowed
    BY <1>2, Zenon DEF PowerCut
<1>4. kept \in [Blocks -> Contents]
    <2>1. media \in [Blocks -> [kept : Contents, owed : BOOLEAN]]
        BY <1>1, Zenon DEF MediaOK
    <2>2. \A b \in Blocks : media[b].kept \in Contents
        BY <2>1
    <2>. QED BY <1>2, <2>2, Zenon
<1>5. CacheInv'
    BY <1>1, <1>3, <1>4, CrashKeeps, Zenon
<1>6. disk' = kept /\ \A i \in SlotIds : ~slots'[i].dirty
    BY <1>3, EmptyIs, Zenon DEF Crash
<1>7. media' \in [Blocks -> MediaRecord]
    <2>1. \A b \in Blocks : [kept |-> kept[b], owed |-> FALSE] \in MediaRecord
        BY <1>4 DEF MediaRecord
    <2>. QED BY <1>3, <2>1, Zenon
<1>8. \A b \in Blocks : media'[b].kept = kept[b]
    BY <1>3, Zenon
<1>9. allowed' \in [Blocks -> SUBSET Contents]
    BY <1>1, <1>3, <1>4 DEF MediaOK
<1>10. setup.volatile => \A b \in Blocks : kept[b] \in allowed'[b]
    BY <1>3, Zenon
<1>11. SlotIds' = SlotIds /\ Blocks' = Blocks /\ Contents' = Contents
    BY <1>3, Fixed, Zenon
<1>12. MediaOK'
    BY <1>3, <1>6, <1>7, <1>8, <1>9, <1>10, <1>11, Zenon DEF MediaOK, MediaRecord
<1>. QED BY <1>5, <1>12, Zenon DEF DeviceInv

LEMMA CacheOnlyKeeps ==
    ASSUME DeviceInv, CacheOnly
    PROVE  DeviceInv'
<1>1. CacheInv /\ MediaOK /\ TypesOK /\ SlotsOK /\ OneSlotPerBlock /\ UNCHANGED <<setup, media, allowed>>
    BY Zenon DEF DeviceInv, CacheInv, CacheOnly
<1>2. ASSUME CacheInv', disk' = disk, DirtyBefore PROVE DeviceInv'
    BY <1>1, <1>2, MediaSame, Zenon DEF DeviceInv
<1>3. slots' = slots => DirtyBefore
    BY Zenon DEF DirtyBefore
<1>4. ASSUME NEW b \in Blocks, ReadAt(b) PROVE DeviceInv'
    BY <1>1, <1>2, <1>3, <1>4, ReadAtKeeps, Zenon DEF ReadAt
<1>5. ASSUME NEW ids, Forget(ids) PROVE DeviceInv'
    <2>1. CacheInv' /\ DirtyBefore
        BY <1>1, <1>5, ForgetKeeps, Zenon DEF DirtyBefore
    <2>. QED BY <1>2, <1>5, <2>1, Zenon DEF Forget
<1>6. ASSUME NEW b \in Blocks, NEW part \in (SUBSET Halves) \ {{}}, NEW v \in Bytes, WriteAt(b, part, v)
      PROVE  DeviceInv'
    BY <1>1, <1>2, <1>3, <1>6, WriteAtKeeps, Zenon DEF WriteAt
<1>7. ASSUME NEW b \in Blocks, NEW v \in Bytes, WriteBlock(b, v) PROVE DeviceInv'
    BY <1>1, <1>2, <1>3, <1>7, WriteBlockKeeps, Zenon DEF WriteBlock
<1>8. CASE Sync
    BY <1>1, <1>2, <1>3, <1>8, SyncKeeps, Zenon DEF Sync
<1>9. CASE Read
    <2>1. CacheInv' /\ call' = NoCall
        BY <1>1, <1>9, ReadKeeps, Zenon DEF Read
    <2>2. CASE slots' = slots /\ UNCHANGED <<disk, latest, doubt, generation>>
        BY <1>2, <1>3, <2>1, <2>2, Zenon
    <2>3. ASSUME NEW i \in SlotIds, Fills(i, call.lba, disk[call.lba], FALSE, 0),
                 call.lba \in Blocks, UNCHANGED <<disk, latest, doubt, generation>>
          PROVE  DeviceInv'
        <3>1. PICK b \in Blocks : b = call.lba
            BY <2>3, Zenon
        <3>2. PICK c \in Contents : c = disk[b]
            BY <1>1, Zenon DEF TypesOK
        <3>3. Fills(i, b, c, FALSE, 0) /\ 0 \in Nat
            BY <2>3, <3>1, <3>2, ZenonT(40)
        <3>4. slots'[i].dirty = FALSE /\ \A j \in SlotIds : j # i => slots'[j] = slots[j]
            BY <1>1, <2>3, <3>3, FillsClean, Zenon DEF FilledWith
        <3>5. DirtyBefore
            BY <3>4, Zenon DEF DirtyBefore
        <3>. QED BY <1>2, <2>1, <2>3, <3>5, Zenon
    <2>4. ASSUME NEW i \in SlotIds, Empties(i) PROVE DeviceInv'
        <3>1. ~slots'[i].dirty /\ \A j \in SlotIds : j # i => slots'[j] = slots[j]
            BY <1>1, <2>1, <2>4, EmptiesKeeps, Zenon
        <3>2. DirtyBefore
            BY <3>1, Zenon DEF DirtyBefore
        <3>. QED BY <1>2, <2>1, <2>4, <3>2, Zenon DEF Empties
    <2>. QED BY <1>1, <1>9, <2>2, <2>3, <2>4, ReadEffect, Zenon
<1>10. CASE Barrier
    BY <1>1, <1>2, <1>3, <1>10, BarrierKeeps, Zenon DEF Barrier
<1>. QED BY <1>4, <1>5, <1>6, <1>7, <1>8, <1>9, <1>10, Zenon DEF CacheOnly, Invalidate, InvalidateAll

LEMMA DeviceInvInitial == DeviceInit => DeviceInv
<1>. SUFFICES ASSUME DeviceInit PROVE DeviceInv
    OBVIOUS
<1>1. /\ setup \in Setups /\ slots = [i \in SlotIds |-> EmptySlot] /\ used = [i \in SlotIds |-> i]
      /\ generation = 1 /\ disk = [b \in Blocks |-> Blank] /\ call = NoCall /\ latest = disk /\ doubt = {}
      /\ media = [b \in Blocks |-> [kept |-> Blank, owed |-> FALSE]]
      /\ allowed = [b \in Blocks |-> {Blank}]
    BY Zenon DEF DeviceInit, CacheInit
<1>2. \A i \in SlotIds : slots[i] = EmptySlot /\ ~slots[i].valid /\ ~slots[i].dirty
    BY <1>1, EmptyIs, Zenon
<1>3. TypesOK
    <2>1. slots \in [SlotIds -> SlotRecord] /\ disk \in [Blocks -> Contents] /\ latest \in [Blocks -> Contents]
        BY <1>1, BlankIn, EmptyIs, Zenon
    <2>2. used \in [SlotIds -> Nat] /\ generation \in 1..MaxGeneration
        BY <1>1, SetupFacts
    <2>. QED BY <1>1, <2>1, <2>2, Zenon DEF TypesOK
<1>4. SlotsOK /\ OneSlotPerBlock
    BY <1>2, Zenon DEF SlotsOK, OneSlotPerBlock
<1>5. CallOK
    BY <1>1 DEF CallOK, NoCall
<1>6. ReadsNewest
    BY <1>1, <1>2, Zenon DEF ReadsNewest, Cached
<1>7. MediaOK
    <2>1. media \in [Blocks -> MediaRecord] /\ allowed \in [Blocks -> SUBSET Contents]
        BY <1>1, BlankIn DEF MediaRecord
    <2>2. \A b \in Blocks : media[b].kept = Blank /\ disk[b] = Blank /\ allowed[b] = {Blank}
        BY <1>1, Zenon
    <2>. QED BY <1>2, <2>1, <2>2, Zenon DEF MediaOK, MediaRecord
<1>. QED BY <1>3, <1>4, <1>5, <1>6, <1>7, Zenon DEF DeviceInv, CacheInv

LEMMA DeviceInvPreserved == DeviceInv /\ [DeviceNext]_deviceVars => DeviceInv'
<1>. SUFFICES ASSUME DeviceInv, [DeviceNext]_deviceVars PROVE DeviceInv'
    OBVIOUS
<1>1. CASE UNCHANGED deviceVars
    <2>1. UNCHANGED cacheVars /\ UNCHANGED <<setup, slots, disk, media, allowed>>
        BY <1>1, Zenon DEF deviceVars, cacheVars
    <2>2. DirtyBefore
        BY <2>1, Zenon DEF DirtyBefore
    <2>. QED BY <2>1, <2>2, StutterKeeps, MediaSame, Zenon DEF DeviceInv
<1>. QED
    BY <1>1, DestageKeeps, DeviceWriteOutKeeps, CacheWriteKeeps, DeviceThroughKeeps, FlushOkKeeps,
        FlushFailsKeeps, PowerCutKeeps, CacheOnlyKeeps, Zenon DEF DeviceNext

LEMMA DeviceInvAlways == DeviceSpec => []DeviceInv
BY DeviceInvInitial, DeviceInvPreserved, PTL DEF DeviceSpec

\* Whatever the sizes, and wherever the device fails or power is cut, a cached
\* block holds what the last successful write left in it, and a block that is
\* dirty in no slot holds it on the device (slot_for, write_at, write_block,
\* write_out, invalidate).
THEOREM CacheReadsNewest == DeviceSpec => []ReadsNewest
<1>1. DeviceInv => ReadsNewest
    BY Zenon DEF DeviceInv, CacheInv
<1>. QED BY <1>1, DeviceInvAlways, PTL

\* Whatever order a device destages its own write cache in, a block is found after
\* power loss as a returned sync left it, or as something written since.
THEOREM SyncIsDurable == DeviceSpec => []SyncedSurvives
<1>1. DeviceInv => SyncedSurvives
    BY Zenon DEF DeviceInv, MediaOK, SyncedSurvives
<1>. QED BY <1>1, DeviceInvAlways, PTL

-----------------------------------------------------------------------------
(* The ordered disk: what waits in it is what is dirty. *)

Follows(P) ==
    /\ P = [g \in 1..MaxGeneration |-> P[g]]
    /\ \A g \in 1..MaxGeneration :
        /\ P[g] = [b \in {slots[i].lba : i \in DirtyIn(g)} |-> P[g][b]]
        /\ \A i \in DirtyIn(g) : P[g][slots[i].lba] = slots[i].bytes

LEMMA PendingIs == SlotsOK /\ OneSlotPerBlock => Follows(Pending) /\ \A P : Follows(P) => Pending = P
<1>. SUFFICES ASSUME SlotsOK, OneSlotPerBlock
              PROVE  Follows(Pending) /\ \A P : Follows(P) => Pending = P
    BY Zenon
<1> DEFINE waiting(g) == {slots[i].lba : i \in DirtyIn(g)}
           held(g, b) == slots[CHOOSE i \in DirtyIn(g) : slots[i].lba = b].bytes
<1>1. Pending = [g \in 1..MaxGeneration |-> [b \in waiting(g) |-> held(g, b)]]
    BY Zenon DEF Pending
<1>2. ASSUME NEW g, NEW i \in DirtyIn(g) PROVE held(g, slots[i].lba) = slots[i].bytes
    <2>1. PICK k : k = CHOOSE j \in DirtyIn(g) : slots[j].lba = slots[i].lba
        BY Zenon
    <2>2. k \in DirtyIn(g) /\ slots[k].lba = slots[i].lba
        BY <2>1, Zenon
    <2>3. k = i
        BY <2>2, Zenon DEF DirtyIn, SlotsOK, OneSlotPerBlock
    <2>. QED BY <2>1, <2>3, Zenon
<1>3. \A g \in 1..MaxGeneration : Pending[g] = [b \in waiting(g) |-> held(g, b)]
    BY <1>1, Zenon
<1>4. Follows(Pending)
    <2>1. Pending = [g \in 1..MaxGeneration |-> Pending[g]]
        BY <1>1, Zenon
    <2>2. ASSUME NEW g \in 1..MaxGeneration
          PROVE  /\ Pending[g] = [b \in waiting(g) |-> Pending[g][b]]
                 /\ \A i \in DirtyIn(g) : Pending[g][slots[i].lba] = slots[i].bytes
        <3>. HIDE DEF held
        <3>1. Pending[g] = [b \in waiting(g) |-> held(g, b)]
            BY <1>3, Zenon
        <3>2. \A i \in DirtyIn(g) : slots[i].lba \in waiting(g)
            BY Zenon
        <3>. HIDE DEF waiting
        <3>. QED BY <1>2, <3>1, <3>2, Zenon
    <2>. QED BY <2>1, <2>2, Zenon DEF Follows
<1>5. ASSUME NEW P, Follows(P) PROVE Pending = P
    <2>1. ASSUME NEW g \in 1..MaxGeneration PROVE Pending[g] = P[g]
        <3>. HIDE DEF held
        <3>1. /\ Pending[g] = [b \in waiting(g) |-> held(g, b)]
              /\ P[g] = [b \in waiting(g) |-> P[g][b]]
            BY <1>3, <1>5, Zenon DEF Follows
        <3>2. ASSUME NEW b \in waiting(g) PROVE held(g, b) = P[g][b]
            <4>1. PICK i \in DirtyIn(g) : slots[i].lba = b
                BY <3>2, Zenon
            <4>2. held(g, slots[i].lba) = slots[i].bytes
                BY <1>2, Zenon
            <4>3. P[g][slots[i].lba] = slots[i].bytes
                BY <1>5, Zenon DEF Follows
            <4>. QED BY <4>1, <4>2, <4>3, Zenon
        <3>. HIDE DEF waiting
        <3>. QED BY <3>1, <3>2, Zenon
    <2>2. P = [g \in 1..MaxGeneration |-> P[g]] /\ Pending = [g \in 1..MaxGeneration |-> Pending[g]]
        BY <1>4, <1>5, Zenon DEF Follows
    <2>. QED BY <2>1, <2>2, Zenon
<1>. QED BY <1>4, <1>5, Zenon

\* What waits after a step.
FollowsNext(Q) ==
    /\ Q = [g \in 1..MaxGeneration |-> Q[g]]
    /\ \A g \in 1..MaxGeneration :
        /\ Q[g] = [b \in {slots'[i].lba : i \in DirtyIn(g)'} |-> Q[g][b]]
        /\ \A i \in DirtyIn(g)' : Q[g][slots'[i].lba] = slots'[i].bytes

LEMMA PendingNext ==
    ASSUME SlotsOK', OneSlotPerBlock', setup' = setup, NEW Q, FollowsNext(Q)
    PROVE  Pending' = Q
<1>1. (SlotsOK /\ OneSlotPerBlock => Follows(Pending) /\ \A P : Follows(P) => Pending = P)'
    BY PendingIs, PTL
<1>2. MaxGeneration' = MaxGeneration
    BY Fixed, Zenon
<1>3. Follows(Q)'
    BY <1>2, Zenon DEF Follows, FollowsNext
<1>. QED BY <1>1, <1>3, Zenon

\* The dirty slots of a step that changes none of them.
DirtyKept ==
    \A i \in SlotIds : /\ slots'[i].dirty <=> slots[i].dirty
                       /\ slots[i].dirty => slots'[i] = slots[i]

LEMMA PendingSame ==
    ASSUME SlotsOK, OneSlotPerBlock, SlotsOK', OneSlotPerBlock', setup' = setup, DirtyKept
    PROVE  Pending' = Pending
<1>1. PICK P : P = Pending
    BY Zenon
<1>2. Follows(P)
    BY <1>1, PendingIs, Zenon
<1>3. ASSUME NEW g PROVE DirtyIn(g)' = DirtyIn(g)
    <2>1. SlotIds' = SlotIds
        BY Fixed, Zenon
    <2>. QED BY <2>1, Zenon DEF DirtyIn, DirtyKept
<1>4. ASSUME NEW g \in 1..MaxGeneration
      PROVE  /\ P[g] = [b \in {slots'[i].lba : i \in DirtyIn(g)'} |-> P[g][b]]
             /\ \A i \in DirtyIn(g)' : P[g][slots'[i].lba] = slots'[i].bytes
    <2>1. \A i \in DirtyIn(g) : slots'[i] = slots[i]
        BY Zenon DEF DirtyIn, DirtyKept
    <2>2. {slots'[i].lba : i \in DirtyIn(g)} = {slots[i].lba : i \in DirtyIn(g)}
        BY <2>1, Zenon
    <2>3. /\ P[g] = [b \in {slots[i].lba : i \in DirtyIn(g)} |-> P[g][b]]
          /\ \A i \in DirtyIn(g) : P[g][slots[i].lba] = slots[i].bytes
        BY <1>2, Zenon DEF Follows
    <2>. QED BY <1>3, <2>1, <2>2, <2>3, Zenon
<1>5. P = [g \in 1..MaxGeneration |-> P[g]]
    BY <1>2, Zenon DEF Follows
<1>7. FollowsNext(P)
    BY <1>4, <1>5, Zenon DEF FollowsNext
<1>6. Pending' = P
    BY <1>7, PendingNext, Zenon
<1>. QED BY <1>1, <1>6, Zenon

\* Where a block waits, and as what.
LEMMA WaitsIn ==
    ASSUME NEW P, Follows(P), NEW g \in 1..MaxGeneration
    PROVE  /\ DOMAIN P = 1..MaxGeneration
           /\ DOMAIN P[g] = {slots[i].lba : i \in DirtyIn(g)}
           /\ \A i \in DirtyIn(g) : P[g][slots[i].lba] = slots[i].bytes
           /\ DirtyIn(g) = {} => P[g] = Ordered!None
<1>1. /\ P = [h \in 1..MaxGeneration |-> P[h]]
      /\ P[g] = [b \in {slots[i].lba : i \in DirtyIn(g)} |-> P[g][b]]
      /\ \A i \in DirtyIn(g) : P[g][slots[i].lba] = slots[i].bytes
    BY Zenon DEF Follows
<1>2. DOMAIN P = 1..MaxGeneration
    BY <1>1, Zenon
<1>3. DOMAIN P[g] = {slots[i].lba : i \in DirtyIn(g)}
    BY <1>1, Zenon
<1>4. ASSUME DirtyIn(g) = {} PROVE P[g] = Ordered!None
    <2>1. {slots[i].lba : i \in DirtyIn(g)} = {}
        BY <1>4, Zenon
    <2>2. P[g] = [b \in {} |-> P[g][b]]
        BY <1>1, <2>1, Zenon
    <2>. QED BY <2>2, Zenon DEF Ordered!None
<1>. QED BY <1>1, <1>2, <1>3, <1>4, Zenon

\* With nothing dirty, nothing waits.
LEMMA NothingWaits ==
    ASSUME SlotsOK, OneSlotPerBlock, \A i \in SlotIds : ~slots[i].dirty
    PROVE  /\ DOMAIN Pending = 1..MaxGeneration
           /\ \A g \in 1..MaxGeneration : Pending[g] = Ordered!None
           /\ Pending = [g \in 1..MaxGeneration |-> Ordered!None]
<1>1. PICK P : P = Pending
    BY Zenon
<1>2. Follows(P)
    BY <1>1, PendingIs, Zenon
<1>3. \A g : DirtyIn(g) = {}
    BY Zenon DEF DirtyIn
<1>4. \A g \in 1..MaxGeneration : P[g] = Ordered!None
    BY <1>2, <1>3, WaitsIn, Zenon
<1>5. P = [g \in 1..MaxGeneration |-> P[g]]
    BY <1>2, Zenon DEF Follows
<1>6. DOMAIN P = 1..MaxGeneration /\ P = [g \in 1..MaxGeneration |-> Ordered!None]
    BY <1>4, <1>5, Zenon
<1>. QED BY <1>1, <1>4, <1>6, Zenon

LEMMA AllClean ==
    SlotsOK /\ OneSlotPerBlock /\ (\A i \in SlotIds : ~slots[i].dirty)
        => Pending = [g \in 1..MaxGeneration |-> Ordered!None]
BY NothingWaits, Zenon

LEMMA PendingDomain ==
    ASSUME SlotsOK, OneSlotPerBlock
    PROVE  DOMAIN Pending = 1..MaxGeneration
BY Zenon DEF Pending

LEMMA ContentsAll ==
    ASSUME setup \in Setups, NEW c \in Contents
    PROVE  c \in AllContents
BY Zenon DEF AllContents, Contents, Halves

\* A write joins the current generation, in the slot its block had or in a clean one.
LEMMA WriteOrdered ==
    ASSUME TypesOK, SlotsOK, OneSlotPerBlock, SlotsOK', OneSlotPerBlock', setup' = setup,
           NEW i \in SlotIds, NEW b \in Blocks, NEW c \in Contents,
           Fills(i, b, c, TRUE, generation), slots[i].dirty => slots[i].generation = generation,
           UNCHANGED <<disk, generation>>
    PROVE  Ordered!Write(b)
<1>1. PICK g \in 1..MaxGeneration : g = generation
    BY Zenon DEF TypesOK
<1>2. g \in Nat /\ g \in 1..g
    BY <1>1, SetupFacts DEF TypesOK
<1>3. FilledWith(i, b, c, TRUE, g)
    <2>1. TRUE \in BOOLEAN /\ Fills(i, b, c, TRUE, g) /\ g \in 1..generation
        BY <1>1, <1>2, Zenon
    <2>. QED BY <1>2, <2>1, FillsSlots, Zenon
<1>4. /\ slots'[i].lba = b /\ slots'[i].bytes = c /\ slots'[i].dirty /\ slots'[i].generation = g
      /\ \A j \in SlotIds : j # i => slots'[j] = slots[j]
    BY <1>3, Zenon DEF FilledWith
<1>5. /\ \A j \in SlotIds : slots[j].dirty /\ slots[j].lba = b => j = i
      /\ slots[i].dirty => slots[i].lba = b /\ slots[i].generation = g
    BY <1>1, Zenon DEF Fills, SlotsOK
<1>6. PICK P : P = Pending
    BY Zenon
<1>7. Follows(P)
    BY <1>6, PendingIs, Zenon
<1>8. SlotIds' = SlotIds
    BY Fixed, Zenon
<1>9. DirtyIn(g)' = DirtyIn(g) \cup {i}
    BY <1>4, <1>5, <1>8, Zenon DEF DirtyIn
<1>10. ASSUME NEW h, h # g PROVE DirtyIn(h)' = DirtyIn(h) /\ i \notin DirtyIn(h)
    BY <1>4, <1>5, <1>8, <1>10, Zenon DEF DirtyIn
<1> DEFINE new == [x \in DOMAIN P[g] \cup {b} |-> IF x = b THEN c ELSE P[g][x]]
<1>11. PICK Q : Q = [P EXCEPT ![g] = new]
    BY Zenon
<1>12. P = [h \in 1..MaxGeneration |-> P[h]]
    BY <1>7, Zenon DEF Follows
<1>13. /\ Q = [h \in 1..MaxGeneration |-> Q[h]] /\ Q[g] = new
       /\ \A h \in 1..MaxGeneration : h # g => Q[h] = P[h]
    <2>. HIDE DEF new
    <2>. QED BY <1>11, <1>12, Zenon
<1>14. ASSUME NEW h \in 1..MaxGeneration
       PROVE  /\ Q[h] = [x \in {slots'[j].lba : j \in DirtyIn(h)'} |-> Q[h][x]]
              /\ \A j \in DirtyIn(h)' : Q[h][slots'[j].lba] = slots'[j].bytes
    <2>1. /\ DOMAIN P[h] = {slots[j].lba : j \in DirtyIn(h)}
          /\ P[h] = [x \in {slots[j].lba : j \in DirtyIn(h)} |-> P[h][x]]
          /\ \A j \in DirtyIn(h) : P[h][slots[j].lba] = slots[j].bytes
        BY <1>7, WaitsIn, Zenon DEF Follows
    <2>2. \A j \in DirtyIn(h) : j # i => slots'[j] = slots[j] /\ slots[j].lba # b
        BY <1>4, <1>5, Zenon DEF DirtyIn
    <2>3. CASE h = g
        <3>1. DOMAIN P[g] \cup {b} = {slots'[j].lba : j \in DirtyIn(g)'}
            <4>1. i \in DirtyIn(g) => slots[i].lba = b
                BY <1>5, Zenon DEF DirtyIn
            <4>2. ASSUME NEW x \in DOMAIN P[g] \cup {b} PROVE x \in {slots'[j].lba : j \in DirtyIn(g)'}
                <5>1. CASE x = b
                    BY <1>4, <1>9, <5>1, Zenon
                <5>2. CASE x # b
                    <6>4. x \in {slots[j].lba : j \in DirtyIn(g)}
                        BY <2>1, <2>3, <4>2, <5>2, Zenon
                    <6>1. PICK j \in DirtyIn(g) : slots[j].lba = x
                        BY <6>4, Zenon
                    <6>2. j # i
                        BY <4>1, <5>2, <6>1, Zenon
                    <6>3. j \in DirtyIn(g)' /\ slots'[j].lba = x
                        BY <1>9, <2>2, <2>3, <6>1, <6>2, Zenon
                    <6>. QED BY <6>3, Zenon
                <5>. QED BY <5>1, <5>2, Zenon
            <4>3. ASSUME NEW j \in DirtyIn(g)' PROVE slots'[j].lba \in DOMAIN P[g] \cup {b}
                <5>1. CASE j = i
                    BY <1>4, <5>1, Zenon
                <5>2. CASE j # i
                    BY <1>9, <2>1, <2>2, <2>3, <4>3, <5>2, Zenon
                <5>. QED BY <5>1, <5>2, Zenon
            <4>. QED BY <4>2, <4>3, Zenon
        <3>2. Q[g] = [x \in {slots'[j].lba : j \in DirtyIn(g)'} |-> Q[g][x]]
            BY <1>13, <3>1, Zenon
        <3>3. ASSUME NEW j \in DirtyIn(g)' PROVE Q[g][slots'[j].lba] = slots'[j].bytes
            <4>1. CASE j = i
                BY <1>4, <1>13, <4>1, Zenon
            <4>2. CASE j # i
                <5>1. j \in DirtyIn(g)
                    BY <1>9, <3>3, <4>2, Zenon
                <5>2. PICK x : x = slots[j].lba
                    BY Zenon
                <5>3. x # b /\ slots'[j] = slots[j] /\ x \in DOMAIN P[g] /\ P[g][x] = slots[j].bytes
                    BY <2>1, <2>2, <2>3, <4>2, <5>1, <5>2, Zenon
                <5>4. new[x] = P[g][x]
                    BY <5>3, Zenon
                <5>. QED BY <1>13, <5>2, <5>3, <5>4, Zenon
            <4>. QED BY <4>1, <4>2, Zenon
        <3>. QED BY <2>3, <3>2, <3>3, Zenon
    <2>4. CASE h # g
        <3>1. DirtyIn(h)' = DirtyIn(h) /\ i \notin DirtyIn(h) /\ Q[h] = P[h]
            BY <1>10, <1>13, <2>4, Zenon
        <3>2. \A j \in DirtyIn(h) : slots'[j] = slots[j]
            BY <2>2, <3>1, Zenon
        <3>3. {slots'[j].lba : j \in DirtyIn(h)} = {slots[j].lba : j \in DirtyIn(h)}
            BY <3>2, Zenon
        <3>. QED BY <2>1, <3>1, <3>2, <3>3, Zenon
    <2>. QED BY <2>3, <2>4, Zenon
<1>20. FollowsNext(Q)
    BY <1>13, <1>14, Zenon DEF FollowsNext
<1>15. Pending' = Q
    BY <1>20, PendingNext, Zenon
<1>16. c \in AllContents
    BY ContentsAll, Zenon DEF TypesOK
<1>17. Pending' = [Pending EXCEPT ![generation] =
                      [x \in DOMAIN @ \cup {b} |-> IF x = b THEN c ELSE @[x]]]
    BY <1>1, <1>6, <1>11, <1>15, Zenon
<1>18. ASSUME NEW h \in Ordered!Generations, b \in DOMAIN Pending[h] PROVE h = generation
    <2>1. h \in 1..MaxGeneration
        BY <1>6, <1>12, <1>18, Zenon DEF Ordered!Generations
    <2>2. b \in {slots[j].lba : j \in DirtyIn(h)}
        BY <1>6, <1>7, <1>18, <2>1, WaitsIn, Zenon
    <2>3. PICK j \in DirtyIn(h) : slots[j].lba = b
        BY <2>2, Zenon
    <2>4. j = i /\ slots[i].dirty /\ slots[i].generation = h
        BY <1>5, <2>3, Zenon DEF DirtyIn
    <2>. QED BY <1>1, <1>5, <2>4, Zenon
<1>19. Ordered!Waiting(b) \subseteq {generation}
    BY <1>18, Zenon DEF Ordered!Waiting
<1>. QED BY <1>16, <1>17, <1>19, Zenon DEF Ordered!Write

\* Slot i is dirty, of generation g, and none is of an earlier one.
OldestWaits(g, i) ==
    /\ slots[i].dirty /\ slots[i].lba \in Blocks /\ slots[i].generation = g
    /\ \A j \in SlotIds : slots[j].dirty => g <= slots[j].generation

\* Its block is one the ordered disk may take next.
LEMMA PersistIs ==
    ASSUME TypesOK, SlotsOK, OneSlotPerBlock, NEW g \in 1..MaxGeneration, NEW i \in SlotIds, OldestWaits(g, i)
    PROVE  /\ g \in Ordered!Generations /\ slots[i].lba \in Ordered!Blocks
           /\ slots[i].lba \in DOMAIN Pending[g] /\ Pending[g][slots[i].lba] = slots[i].bytes
           /\ \A h \in Ordered!Generations : h < g => Pending[h] = Ordered!None
<1>1. PICK P : P = Pending
    BY Zenon
<1>2. Follows(P)
    BY <1>1, PendingIs, Zenon
<1>3. i \in DirtyIn(g)
    BY Zenon DEF DirtyIn, OldestWaits
<1>4. /\ DOMAIN P = 1..MaxGeneration
      /\ slots[i].lba \in DOMAIN P[g] /\ P[g][slots[i].lba] = slots[i].bytes
    BY <1>2, <1>3, WaitsIn, ZenonT(40)
<1>5. ASSUME NEW h \in 1..MaxGeneration, h < g PROVE P[h] = Ordered!None
    <2>1. ~ (g <= h)
        BY <1>5, SetupFacts DEF TypesOK
    <2>2. DirtyIn(h) = {}
        BY <2>1, Zenon DEF DirtyIn, OldestWaits
    <2>. QED BY <1>2, <2>2, WaitsIn, Zenon
<1>6. slots[i].lba \in DOMAIN disk
    BY Zenon DEF TypesOK, OldestWaits
<1>. QED BY <1>1, <1>4, <1>5, <1>6, Zenon DEF Ordered!Generations, Ordered!Blocks

\* The oldest waiting generation gives the device a block.
LEMMA WriteOutOrdered ==
    ASSUME CacheInv, WriteOut, SlotsOK', OneSlotPerBlock', setup' = setup
    PROVE  \E g \in Ordered!Generations, b \in Ordered!Blocks : Ordered!Persist(g, b)
<1>1. TypesOK /\ SlotsOK /\ OneSlotPerBlock
    BY Zenon DEF CacheInv
<1>2. PICK i \in SlotIds :
               /\ i = NextOut(call.upto)
               /\ slots[i].dirty /\ slots[i].valid /\ slots[i].lba \in Blocks
               /\ slots[i].generation \in 1..generation
               /\ \A j \in SlotIds : slots[j].dirty => slots[i].generation <= slots[j].generation
    BY OldestOut, Zenon DEF WriteOut
<1>3. PICK b \in Blocks : b = slots[i].lba
    BY <1>2, Zenon
<1>4. PICK g \in 1..MaxGeneration : g = slots[i].generation
    <2>1. generation \in 1..MaxGeneration /\ MaxGeneration \in Nat
        BY <1>1, SetupFacts, Zenon DEF TypesOK
    <2>2. slots[i].generation \in 1..MaxGeneration
        BY <1>2, <2>1
    <2>. QED BY <2>2, Zenon
<1>5. /\ ~slots'[i].dirty /\ \A j \in SlotIds : j # i => slots'[j] = slots[j]
    BY <1>2, WriteOutEffect, Zenon
<1>6. disk' = [disk EXCEPT ![b] = slots[i].bytes] /\ generation' = generation
    BY <1>2, <1>3, Zenon DEF WriteOut
<1>7. PICK P : P = Pending
    BY Zenon
<1>8. Follows(P) /\ P = [h \in 1..MaxGeneration |-> P[h]]
    BY <1>1, <1>7, PendingIs, Zenon DEF Follows
<1>9. i \in DirtyIn(g)
    BY <1>2, <1>4, Zenon DEF DirtyIn
<1>10. SlotIds' = SlotIds
    BY Fixed, Zenon
<1>11. DirtyIn(g)' = DirtyIn(g) \ {i}
    BY <1>5, <1>10, Zenon DEF DirtyIn
<1>12. ASSUME NEW h, h # g PROVE DirtyIn(h)' = DirtyIn(h) /\ i \notin DirtyIn(h)
    BY <1>4, <1>5, <1>10, <1>12, Zenon DEF DirtyIn
<1>13. ASSUME NEW h, NEW j \in DirtyIn(h), j # i PROVE slots'[j] = slots[j] /\ slots[j].lba # b
    BY <1>1, <1>2, <1>3, <1>5, <1>13, Zenon DEF DirtyIn, SlotsOK, OneSlotPerBlock
<1> DEFINE new == [x \in DOMAIN P[g] \ {b} |-> P[g][x]]
<1>14. PICK Q : Q = [P EXCEPT ![g] = new]
    BY Zenon
<1>15. /\ Q = [h \in 1..MaxGeneration |-> Q[h]] /\ Q[g] = new
       /\ \A h \in 1..MaxGeneration : h # g => Q[h] = P[h]
    <2>. HIDE DEF new
    <2>. QED BY <1>8, <1>14, Zenon
<1>16. ASSUME NEW h \in 1..MaxGeneration
       PROVE  /\ Q[h] = [x \in {slots'[j].lba : j \in DirtyIn(h)'} |-> Q[h][x]]
              /\ \A j \in DirtyIn(h)' : Q[h][slots'[j].lba] = slots'[j].bytes
    <2>1. /\ DOMAIN P[h] = {slots[j].lba : j \in DirtyIn(h)}
          /\ P[h] = [x \in {slots[j].lba : j \in DirtyIn(h)} |-> P[h][x]]
          /\ \A j \in DirtyIn(h) : P[h][slots[j].lba] = slots[j].bytes
        BY <1>8, WaitsIn, Zenon DEF Follows
    <2>2. CASE h = g
        <3>1. DOMAIN P[g] \ {b} = {slots'[j].lba : j \in DirtyIn(g)'}
            <4>1. ASSUME NEW x \in DOMAIN P[g] \ {b} PROVE x \in {slots'[j].lba : j \in DirtyIn(g)'}
                <5>4. x \in {slots[j].lba : j \in DirtyIn(g)}
                    BY <2>1, <2>2, <4>1, Zenon
                <5>1. PICK j \in DirtyIn(g) : slots[j].lba = x
                    BY <5>4, Zenon
                <5>2. j # i /\ slots'[j] = slots[j]
                    BY <1>3, <1>13, <4>1, <5>1, Zenon
                <5>3. j \in DirtyIn(g)' /\ slots'[j].lba = x
                    BY <1>11, <5>1, <5>2, Zenon
                <5>. QED BY <5>3, Zenon
            <4>2. ASSUME NEW j \in DirtyIn(g)' PROVE slots'[j].lba \in DOMAIN P[g] \ {b}
                <5>1. j \in DirtyIn(g) /\ j # i
                    BY <1>11, <4>2, Zenon
                <5>2. slots'[j] = slots[j] /\ slots[j].lba # b
                    BY <1>13, <5>1, Zenon
                <5>. QED BY <2>1, <2>2, <5>1, <5>2, Zenon
            <4>. QED BY <4>1, <4>2, Zenon
        <3>2. Q[g] = [x \in {slots'[j].lba : j \in DirtyIn(g)'} |-> Q[g][x]]
            BY <1>15, <3>1, Zenon
        <3>3. ASSUME NEW j \in DirtyIn(g)' PROVE Q[g][slots'[j].lba] = slots'[j].bytes
            <4>1. j \in DirtyIn(g) /\ j # i
                BY <1>11, <3>3, Zenon
            <4>2. PICK x : x = slots[j].lba
                BY Zenon
            <4>3. x # b /\ slots'[j] = slots[j] /\ x \in DOMAIN P[g] /\ P[g][x] = slots[j].bytes
                BY <1>13, <2>1, <2>2, <4>1, <4>2, Zenon
            <4>4. new[x] = P[g][x]
                BY <4>3, Zenon
            <4>. QED BY <1>15, <4>2, <4>3, <4>4, Zenon
        <3>. QED BY <2>2, <3>2, <3>3, Zenon
    <2>3. CASE h # g
        <3>1. DirtyIn(h)' = DirtyIn(h) /\ i \notin DirtyIn(h) /\ Q[h] = P[h]
            BY <1>12, <1>15, <2>3, Zenon
        <3>2. \A j \in DirtyIn(h) : slots'[j] = slots[j]
            BY <1>13, <3>1, Zenon
        <3>3. {slots'[j].lba : j \in DirtyIn(h)} = {slots[j].lba : j \in DirtyIn(h)}
            BY <3>2, Zenon
        <3>. QED BY <2>1, <3>1, <3>2, <3>3, Zenon
    <2>. QED BY <2>2, <2>3, Zenon
<1>20. FollowsNext(Q)
    BY <1>15, <1>16, Zenon DEF FollowsNext
<1>17. Pending' = Q
    BY <1>20, PendingNext, Zenon
<1>18. Pending' = [Pending EXCEPT ![g] = [x \in DOMAIN @ \ {b} |-> @[x]]]
    BY <1>7, <1>14, <1>17, Zenon
<1>19. OldestWaits(g, i)
    BY <1>1, <1>2, <1>4, Zenon DEF OldestWaits
<1>. QED BY <1>1, <1>3, <1>4, <1>6, <1>18, <1>19, PersistIs, Zenon DEF Ordered!Persist

\* A write-out that is reported to have failed: the block may be on the device.
LEMMA WriteOutFailsOrdered ==
    ASSUME CacheInv, WriteOutFails, SlotsOK', OneSlotPerBlock', setup' = setup
    PROVE  \/ \E g \in Ordered!Generations, b \in Ordered!Blocks : Ordered!Persist(g, b)
           \/ UNCHANGED Ordered!vars
<1>1. TypesOK /\ SlotsOK /\ OneSlotPerBlock
    BY Zenon DEF CacheInv
<1>2. PICK i \in SlotIds :
               /\ i = NextOut(call.upto)
               /\ slots[i].dirty /\ slots[i].valid /\ slots[i].lba \in Blocks
               /\ slots[i].generation \in 1..generation
               /\ \A j \in SlotIds : slots[j].dirty => slots[i].generation <= slots[j].generation
    BY OldestOut, Zenon DEF WriteOutFails
<1>3. PICK g \in 1..MaxGeneration : g = slots[i].generation
    <2>1. generation \in 1..MaxGeneration /\ MaxGeneration \in Nat
        BY <1>1, SetupFacts, Zenon DEF TypesOK
    <2>2. slots[i].generation \in 1..MaxGeneration
        BY <1>2, <2>1
    <2>. QED BY <2>2, Zenon
<1>4. /\ disk' = disk \/ disk' = [disk EXCEPT ![slots[i].lba] = slots[i].bytes]
      /\ slots' = slots /\ generation' = generation
    BY <1>2, Zenon DEF WriteOutFails
<1>5. Pending' = Pending
    <2>1. DirtyKept
        BY <1>4, Zenon DEF DirtyKept
    <2>. QED BY <1>1, <2>1, PendingSame, Zenon
<1>6. OldestWaits(g, i)
    BY <1>2, <1>3, Zenon DEF OldestWaits
<1>7. CASE disk' = disk
    BY <1>4, <1>5, <1>7, Zenon DEF Ordered!vars
<1>8. CASE disk' = [disk EXCEPT ![slots[i].lba] = slots[i].bytes]
    BY <1>1, <1>4, <1>5, <1>6, <1>8, PersistIs, Zenon DEF Ordered!Persist
<1>. QED BY <1>4, <1>7, <1>8, Zenon

\* A write-through goes to the device when nothing waits.
LEMMA ThroughOrdered ==
    ASSUME CacheInv, Through, SlotsOK', OneSlotPerBlock', setup' = setup
    PROVE  (\E b \in Ordered!Blocks : Ordered!WriteThrough(b)) \/ UNCHANGED Ordered!vars
<1>1. TypesOK /\ SlotsOK /\ OneSlotPerBlock
    BY Zenon DEF CacheInv
<1>2. (\A i \in SlotIds : ~slots[i].dirty) /\ generation' = generation
    BY ThroughEffect, Zenon
<1>3. PICK b \in Blocks : b = call.lba
    BY ThroughEffect, Zenon
<1>4. PICK c \in Contents :
        /\ disk' = disk \/ disk' = [disk EXCEPT ![b] = c]
        /\ (\E i \in SlotIds : Fills(i, b, c, FALSE, 0)) \/ slots' = slots
    BY <1>3, ThroughEffect, Zenon
<1>5. DirtyKept
    <2>1. ASSUME NEW i \in SlotIds, Fills(i, b, c, FALSE, 0) PROVE DirtyKept
        <3>1. slots'[i].dirty = FALSE /\ \A j \in SlotIds : j # i => slots'[j] = slots[j]
            BY <1>1, <1>2, <2>1, FillsClean, Zenon DEF FilledWith
        <3>. QED BY <1>2, <3>1, Zenon DEF DirtyKept
    <2>2. slots' = slots => DirtyKept
        BY Zenon DEF DirtyKept
    <2>. QED BY <1>4, <2>1, <2>2, Zenon
<1>6. Pending' = Pending
    BY <1>1, <1>5, PendingSame, Zenon
<1>7. Ordered!Quiet
    BY <1>1, <1>2, NothingWaits, Zenon DEF Ordered!Quiet, Ordered!Generations
<1>8. c \in AllContents /\ b \in Ordered!Blocks
    BY <1>1, ContentsAll, Zenon DEF TypesOK, Ordered!Blocks
<1>9. CASE disk' = disk
    BY <1>2, <1>6, <1>9, Zenon DEF Ordered!vars
<1>10. CASE disk' = [disk EXCEPT ![b] = c]
    BY <1>2, <1>6, <1>7, <1>8, <1>10, Zenon DEF Ordered!WriteThrough
<1>. QED BY <1>4, <1>9, <1>10, Zenon

LEMMA EmptiesDirty ==
    ASSUME TypesOK, NEW i \in SlotIds, Empties(i)
    PROVE  DirtyKept
<1>1. slots'[i] = EmptySlot /\ \A j \in SlotIds : j # i => slots'[j] = slots[j]
    BY Zenon DEF Empties, TypesOK
<1>2. ~slots[i].dirty /\ ~slots'[i].dirty
    BY <1>1, EmptyIs, Zenon DEF Empties
<1>. QED BY <1>1, <1>2, Zenon DEF DirtyKept

\* The calls that leave the device alone.
LEMMA CacheOnlyOrdered ==
    ASSUME CacheInv, CacheOnly, SlotsOK', OneSlotPerBlock'
    PROVE  Ordered!Barrier \/ UNCHANGED Ordered!vars
<1>1. TypesOK /\ SlotsOK /\ OneSlotPerBlock /\ setup' = setup
    BY Zenon DEF CacheInv, CacheOnly
<1>2. ASSUME DirtyKept PROVE Pending' = Pending
    BY <1>1, <1>2, PendingSame, Zenon
<1>3. slots' = slots => DirtyKept
    BY Zenon DEF DirtyKept
<1>4. ASSUME DirtyKept, disk' = disk, generation' = generation PROVE UNCHANGED Ordered!vars
    BY <1>2, <1>4, Zenon DEF Ordered!vars
<1>5. ASSUME NEW b \in Blocks, ReadAt(b) PROVE UNCHANGED Ordered!vars
    BY <1>3, <1>4, <1>5, Zenon DEF ReadAt
<1>6. ASSUME NEW ids, Forget(ids) PROVE UNCHANGED Ordered!vars
    <2>1. slots' = [i \in SlotIds |-> IF i \in {j \in ids : ~slots[j].dirty} THEN EmptySlot ELSE slots[i]]
        BY <1>6, Zenon DEF Forget
    <2>2. ASSUME NEW i \in SlotIds
          PROVE  (slots'[i].dirty <=> slots[i].dirty) /\ (slots[i].dirty => slots'[i] = slots[i])
        <3>1. CASE slots[i].dirty
            BY <2>1, <3>1, Zenon
        <3>2. CASE ~slots[i].dirty
            BY <2>1, <3>2, EmptyIs, Zenon
        <3>. QED BY <3>1, <3>2, Zenon
    <2>3. DirtyKept
        BY <2>2, Zenon DEF DirtyKept
    <2>. QED BY <1>4, <1>6, <2>3, Zenon DEF Forget
<1>7. ASSUME NEW b \in Blocks, NEW part \in (SUBSET Halves) \ {{}}, NEW v \in Bytes, WriteAt(b, part, v)
      PROVE  UNCHANGED Ordered!vars
    BY <1>3, <1>4, <1>7, Zenon DEF WriteAt
<1>8. ASSUME NEW b \in Blocks, NEW v \in Bytes, WriteBlock(b, v) PROVE UNCHANGED Ordered!vars
    BY <1>3, <1>4, <1>8, Zenon DEF WriteBlock
<1>9. CASE Sync
    BY <1>3, <1>4, <1>9, Zenon DEF Sync
<1>10. CASE Read
    <2>1. CASE slots' = slots /\ UNCHANGED <<disk, latest, doubt, generation>>
        BY <1>3, <1>4, <2>1, Zenon
    <2>2. ASSUME NEW i \in SlotIds, Fills(i, call.lba, disk[call.lba], FALSE, 0), ~slots[i].dirty,
                 call.lba \in Blocks, UNCHANGED <<disk, latest, doubt, generation>>
          PROVE  UNCHANGED Ordered!vars
        <3>1. PICK b \in Blocks : b = call.lba
            BY <2>2, Zenon
        <3>2. PICK c \in Contents : c = disk[b]
            BY <1>1, Zenon DEF TypesOK
        <3>3. Fills(i, b, c, FALSE, 0)
            BY <2>2, <3>1, <3>2, Zenon
        <3>4. slots'[i].dirty = FALSE /\ \A j \in SlotIds : j # i => slots'[j] = slots[j]
            BY <1>1, <2>2, <3>3, FillsClean, Zenon DEF FilledWith
        <3>5. DirtyKept
            BY <2>2, <3>4, Zenon DEF DirtyKept
        <3>. QED BY <1>4, <2>2, <3>5, Zenon
    <2>3. ASSUME NEW i \in SlotIds, Empties(i) PROVE UNCHANGED Ordered!vars
        BY <1>1, <1>4, <2>3, EmptiesDirty, Zenon DEF Empties
    <2>. QED BY <1>10, <2>1, <2>2, <2>3, ReadEffect, Zenon
<1>11. CASE Barrier
    <2>1. generation < MaxGeneration /\ generation' = generation + 1 /\ slots' = slots /\ disk' = disk
        BY <1>11, Zenon DEF Barrier
    <2>2. generation + 1 \in 1..MaxGeneration
        <3>1. generation \in 1..MaxGeneration /\ MaxGeneration \in Nat
            BY <1>1, SetupFacts, Zenon DEF TypesOK
        <3>. QED BY <2>1, <3>1
    <2>3. DOMAIN Pending = 1..MaxGeneration /\ Pending' = Pending
        BY <1>1, <1>2, <1>3, <2>1, PendingDomain, Zenon
    <2>. QED BY <2>1, <2>2, <2>3, Zenon DEF Ordered!Barrier, Ordered!Generations
<1>. QED BY <1>5, <1>6, <1>7, <1>8, <1>9, <1>10, <1>11, Zenon DEF CacheOnly, Invalidate, InvalidateAll

\* Power is cut over a device that keeps all it is given.
LEMMA PowerCutOrdered ==
    ASSUME DeviceInv, DeviceInv', PowerCut, ~setup.volatile
    PROVE  Ordered!Crash
<1>1. TypesOK /\ SlotsOK /\ OneSlotPerBlock /\ SlotsOK' /\ OneSlotPerBlock' /\ MediaOK
    BY Zenon DEF DeviceInv, CacheInv
<1>2. PICK kept : kept = [b \in Blocks |-> media[b].kept]
    BY Zenon
<1>3. Crash(kept) /\ setup' = setup
    BY <1>2, Zenon DEF PowerCut
<1>4. kept = disk
    <2>1. \A b \in Blocks : media[b].kept = disk[b]
        BY <1>1, Zenon DEF MediaOK
    <2>. QED BY <1>1, <1>2, <2>1, Zenon DEF TypesOK
<1>5. disk' = disk /\ generation' = 1
    BY <1>3, <1>4, Zenon DEF Crash
<1>6. SlotIds' = SlotIds /\ MaxGeneration' = MaxGeneration
    BY <1>3, Fixed, Zenon
<1>7. \A i \in SlotIds : ~slots'[i].dirty
    BY <1>3, EmptyIs, Zenon DEF Crash
<1>8. Pending' = [g \in 1..MaxGeneration |-> Ordered!None]
    <2>1. (SlotsOK /\ OneSlotPerBlock /\ (\A i \in SlotIds : ~slots[i].dirty)
              => Pending = [g \in 1..MaxGeneration |-> Ordered!None])'
        BY AllClean, PTL
    <2>. QED BY <1>1, <1>6, <1>7, <2>1, Zenon DEF Ordered!None
<1>9. DOMAIN Pending = 1..MaxGeneration
    BY <1>1, PendingDomain, Zenon
<1>. QED BY <1>5, <1>8, <1>9, Zenon DEF Ordered!Crash, Ordered!Generations

LEMMA StepOrdered ==
    ASSUME DeviceInv, DeviceInv', [DeviceNext]_deviceVars, ~setup.volatile
    PROVE  Ordered!Next \/ UNCHANGED Ordered!vars
<1>1. CacheInv /\ TypesOK /\ SlotsOK /\ OneSlotPerBlock /\ SlotsOK' /\ OneSlotPerBlock'
    BY Zenon DEF DeviceInv, CacheInv
<1>2. ASSUME setup' = setup, slots' = slots, disk' = disk, generation' = generation
      PROVE  UNCHANGED Ordered!vars
    <2>1. DirtyKept
        BY <1>2, Zenon DEF DirtyKept
    <2>2. Pending' = Pending
        BY <1>1, <1>2, <2>1, PendingSame, Zenon
    <2>. QED BY <1>2, <2>2, Zenon DEF Ordered!vars
<1>3. CASE UNCHANGED deviceVars
    BY <1>2, <1>3, Zenon DEF deviceVars, cacheVars
<1>4. ASSUME NEW b \in Blocks, Destage(b) PROVE UNCHANGED Ordered!vars
    BY <1>2, <1>4, Zenon DEF Destage, cacheVars
<1>5. CASE FlushOk \/ FlushFails
    BY <1>2, <1>5, Zenon DEF FlushOk, FlushFails, Flush
<1>6. CASE DeviceWriteOut
    BY <1>1, <1>6, WriteOutOrdered, WriteOutFailsOrdered, Zenon DEF DeviceWriteOut, Ordered!Next
<1>7. CASE CacheWrite
    <2>1. Write /\ setup' = setup
        BY <1>7, Zenon DEF CacheWrite
    <2>2. PICK b \in Blocks : b = call.lba
        BY <1>1, <2>1, Zenon DEF CacheInv, CallOK, Write, Ready
    <2>3. ASSUME NEW i \in SlotIds, NEW c \in Contents, Fills(i, call.lba, c, TRUE, generation),
                 slots[i].dirty => slots[i].generation = generation, UNCHANGED <<disk, generation>>
          PROVE  Ordered!Next
        <3>1. Fills(i, b, c, TRUE, generation)
            BY <2>2, <2>3, Zenon
        <3>2. Ordered!Write(b)
            BY <1>1, <2>1, <2>3, <3>1, WriteOrdered, Zenon
        <3>3. b \in Ordered!Blocks
            BY <1>1, Zenon DEF TypesOK, Ordered!Blocks
        <3>. QED BY <3>2, <3>3, Zenon DEF Ordered!Next
    <2>4. ASSUME NEW i \in SlotIds, Empties(i) PROVE UNCHANGED Ordered!vars
        <3>1. Pending' = Pending
            BY <1>1, <2>1, <2>4, EmptiesDirty, PendingSame, Zenon
        <3>. QED BY <2>4, <3>1, Zenon DEF Empties, Ordered!vars
    <2>. QED BY <1>1, <2>1, <2>3, <2>4, WriteEffect, Zenon
<1>8. CASE DeviceThrough
    BY <1>1, <1>8, ThroughOrdered, Zenon DEF DeviceThrough, Ordered!Next
<1>9. CASE CacheOnly
    BY <1>1, <1>9, CacheOnlyOrdered, Zenon DEF Ordered!Next
<1>10. CASE PowerCut
    BY <1>10, PowerCutOrdered, Zenon DEF Ordered!Next
<1>. QED BY <1>3, <1>4, <1>5, <1>6, <1>7, <1>8, <1>9, <1>10, Zenon DEF DeviceNext

LEMMA StartsOrdered == DeviceInit => Ordered!Init
<1>. SUFFICES ASSUME DeviceInit PROVE Ordered!Init
    OBVIOUS
<1>1. DeviceInv /\ setup \in Setups
    BY DeviceInvInitial, Zenon DEF DeviceInit, CacheInit
<1>2. /\ slots = [i \in SlotIds |-> EmptySlot] /\ generation = 1 /\ disk = [b \in Blocks |-> Blank]
    BY Zenon DEF DeviceInit, CacheInit
<1>3. \A i \in SlotIds : ~slots[i].dirty
    BY <1>2, EmptyIs, Zenon
<1>4. Pending = [g \in 1..MaxGeneration |-> Ordered!None] /\ DOMAIN Pending = 1..MaxGeneration
    BY <1>1, <1>3, NothingWaits, Zenon DEF DeviceInv, CacheInv
<1>5. disk \in [Ordered!Blocks -> AllContents]
    <2>1. Blank \in AllContents
        BY <1>1, BlankIn, ContentsAll, Zenon
    <2>2. DOMAIN disk = Blocks
        BY <1>2, Zenon
    <2>. QED BY <1>2, <2>1, <2>2, Zenon DEF Ordered!Blocks
<1>. QED BY <1>2, <1>4, <1>5, Zenon DEF Ordered!Init, Ordered!Generations

\* The cache over a device without a write cache of its own implements the ordered
\* disk, whatever the sizes and wherever the device fails or power is cut: a
\* block of one generation is never on the device before one of an earlier
\* generation that was dirty beside it (write_out, victim, rule 2 in write_at,
\* write_block).
THEOREM WritesKeepOrder == DeviceSpec => RefinesOrderedDisk
<1>1. DeviceInv /\ DeviceInv' /\ [DeviceNext]_deviceVars => [~setup.volatile => Ordered!Next]_(Ordered!vars)
    BY StepOrdered, Zenon
<1>. QED BY <1>1, StartsOrdered, DeviceInvAlways, PTL DEF DeviceSpec, RefinesOrderedDisk
=============================================================================
