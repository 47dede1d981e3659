-------------------------- MODULE ObjectStoreProofs --------------------------
(***************************************************************************)
(* StoreSound and StoreImplementsLifetime of ObjectStore, for any number   *)
(* of slots, tasks, identities and objects and any limits of the counts.   *)
(*                                                                         *)
(* What has to be added for the first to be inductive is who is busy with  *)
(* what (a task in "destroy" has the object in hand, one in "check" has a  *)
(* reference), that a slot that was given up is a generation further than  *)
(* every locator issued for it, and that every object has one home.  With  *)
(* one home each, the references to a slot are the holders of its object,  *)
(* so the count that release compares with one tells the last holder, as   *)
(* the refinement needs.                                                   *)
(***************************************************************************)
EXTENDS ObjectStore, FiniteSetTheorems, WellFoundedInduction, TLAPS

HoldersOf(i) == {t \in Tasks : ref[t] # NoObject /\ ref[t].index = i}

\* The first part of ReferencesCounted: an occupied slot counts its references,
\* and the store's own while it is live.
CountExact(i) ==
    slots[i].refs = Cardinality(HoldersOf(i)) + IF slots[i].state = "Live" THEN 1 ELSE 0

\* The second part: a reference is to what it was taken to.
RefHolds(t) ==
    ref[t] # NoObject => Occupied(slots[ref[t].index]) /\ RefTo(ref[t].index) = ref[t]

Busy(t) ==
    /\ at[t] = "destroy" <=> dying[t] # NoObject
    /\ at[t] = "check" => ref[t] # NoObject
    /\ t \in given => ref[t] # NoObject

\* A slot that is not worn has a generation left, and its placeholders are gone
\* while it is occupied.
Filled(i) ==
    /\ slots[i].state # "Worn" => slots[i].generation < StoreMaxGeneration
    /\ Occupied(slots[i]) =>
        /\ slots[i].id \in StoreIds
        /\ slots[i].kind \in StoreKinds
        /\ slots[i].object \in StoreObjects

\* The third part of ReferencesCounted, without the counting.
OneHome(o) ==
    /\ \/ o \in owned
       \/ \E t \in Tasks : dying[t] = o
       \/ \E i \in StoreSlots : Occupied(slots[i]) /\ slots[i].object = o
    /\ o \in owned => \A t \in Tasks : dying[t] # o
    /\ o \in owned => \A i \in StoreSlots : Occupied(slots[i]) => slots[i].object # o
    /\ \A t, u \in Tasks : dying[t] = o /\ dying[u] = o => t = u
    /\ \A t \in Tasks, i \in StoreSlots :
        dying[t] = o /\ Occupied(slots[i]) => slots[i].object # o
    /\ \A i, j \in StoreSlots :
        /\ Occupied(slots[i]) /\ slots[i].object = o
        /\ Occupied(slots[j]) /\ slots[j].object = o
        => i = j

\* The locators of a slot have been issued up to its generation, and the current
\* one exactly when the slot is not free.
Issues(i) ==
    /\ \A g \in 0 .. StoreMaxGeneration :
        /\ issued[i][g] <= 1
        /\ g > slots[i].generation => issued[i][g] = 0
    /\ slots[i].state = "Free" => issued[i][slots[i].generation] = 0
    /\ Occupied(slots[i]) => issued[i][slots[i].generation] = 1

StoreInv ==
    /\ StoreTypeOK
    /\ \A i \in StoreSlots : CountExact(i) /\ Filled(i) /\ Issues(i)
    /\ \A t \in Tasks : RefHolds(t) /\ Busy(t)
    /\ \A o \in StoreObjects : OneHome(o)
    /\ OneSlotPerIdentity

-----------------------------------------------------------------------------
(* Slots and references. *)

\* find and position take the first of some slots, and there is one.
LEMMA MinIn ==
    ASSUME NEW S, S \subseteq StoreSlots, S # {}
    PROVE  Min(S) \in S
<1>1. S \subseteq Nat
    BY StoreAssumption DEF StoreSlots
<1> DEFINE less == {p \in Nat \X Nat : p[1] < p[2]}
<1>2. less = OpToRel(<, Nat)
    BY Zenon DEF OpToRel
<1>3. PICK m \in S : \A n \in S : ~ (<<n, m>> \in less)
    <2>. HIDE DEF less
    <2>. QED BY <1>1, <1>2, NatLessThanWellFounded, WFMin, Zenon
<1>4. ASSUME NEW n \in S PROVE m =< n
    <2>1. <<n, m>> \in Nat \X Nat
        BY <1>1
    <2>2. ~ (<<n, m>>[1] < <<n, m>>[2])
        BY <1>3, <2>1, Zenon
    <2>. QED BY <1>1, <2>2
<1>. QED BY <1>4, Zenon DEF Min

LEMMA HoldersFinite ==
    ASSUME NEW i
    PROVE  IsFiniteSet(HoldersOf(i)) /\ Cardinality(HoldersOf(i)) \in Nat
BY FS_Subset, FS_CardinalityType, StoreAssumption DEF HoldersOf

\* A task that gets a reference to i, or lets its own go, and the counts.
LEMMA OneMoreHolder ==
    ASSUME ref \in [Tasks -> ObjRef \cup {NoObject}], NEW t \in Tasks, ref[t] = NoObject,
           NEW r \in ObjRef, ref' = [ref EXCEPT ![t] = r]
    PROVE  /\ Cardinality(HoldersOf(r.index))' = Cardinality(HoldersOf(r.index)) + 1
           /\ \A j \in StoreSlots : j # r.index => HoldersOf(j)' = HoldersOf(j)
<1>1. r # NoObject
    BY StoreAssumption
<1>2. HoldersOf(r.index)' = HoldersOf(r.index) \cup {t}
    BY <1>1 DEF HoldersOf
<1>3. t \notin HoldersOf(r.index)
    BY DEF HoldersOf
<1>4. ASSUME NEW j \in StoreSlots, j # r.index PROVE HoldersOf(j)' = HoldersOf(j)
    BY <1>1, <1>4 DEF HoldersOf
<1>. QED BY <1>2, <1>3, <1>4, HoldersFinite, FS_AddElement, SMTT(30)

LEMMA OneLessHolder ==
    ASSUME ref \in [Tasks -> ObjRef \cup {NoObject}], NEW t \in Tasks, ref[t] # NoObject,
           NEW i, i = ref[t].index, ref' = [ref EXCEPT ![t] = NoObject]
    PROVE  /\ HoldersOf(i)' = HoldersOf(i) \ {t}
           /\ t \in HoldersOf(i)
           /\ Cardinality(HoldersOf(i))' = Cardinality(HoldersOf(i)) - 1
           /\ \A j \in StoreSlots : j # i => HoldersOf(j)' = HoldersOf(j)
<1>1. HoldersOf(i)' = HoldersOf(i) \ {t}
    BY DEF HoldersOf
<1>2. t \in HoldersOf(i)
    BY DEF HoldersOf
<1>3. ASSUME NEW j \in StoreSlots, j # i PROVE HoldersOf(j)' = HoldersOf(j)
    BY <1>3 DEF HoldersOf
<1>4. Cardinality(HoldersOf(i) \ {t}) = Cardinality(HoldersOf(i)) - 1
    <2>1. IsFiniteSet(HoldersOf(i))
        BY HoldersFinite, Zenon
    <2>. QED BY <1>2, <2>1, FS_RemoveElement, Zenon
<1>. QED BY <1>1, <1>2, <1>3, <1>4, Zenon

-----------------------------------------------------------------------------
(* Steps that leave every slot with its occupant. *)

SameOccupant(j) ==
    /\ slots'[j].id = slots[j].id
    /\ slots'[j].kind = slots[j].kind
    /\ slots'[j].object = slots[j].object
    /\ slots'[j].generation = slots[j].generation
    /\ Occupied(slots'[j]) <=> Occupied(slots[j])
    /\ slots'[j].state = "Free" <=> slots[j].state = "Free"
    /\ slots'[j].state = "Worn" <=> slots[j].state = "Worn"

\* What is said of slots and identities does not see the counts.
LEMMA OccupantsKeep ==
    ASSUME StoreInv, \A j \in StoreSlots : SameOccupant(j), live' = live, issued' = issued
    PROVE  /\ live' = Cardinality({i \in StoreSlots : Occupied(slots'[i])})
           /\ \A j \in StoreSlots : Filled(j)' /\ Issues(j)' /\ RefTo(j)' = RefTo(j)
           /\ OneSlotPerIdentity'
<1>1. {i \in StoreSlots : Occupied(slots'[i])} = {i \in StoreSlots : Occupied(slots[i])}
    BY Zenon DEF SameOccupant
<1>2. live' = Cardinality({i \in StoreSlots : Occupied(slots'[i])})
    BY <1>1, Zenon DEF StoreInv, StoreTypeOK
<1>3. ASSUME NEW j \in StoreSlots PROVE Filled(j)' /\ Issues(j)' /\ RefTo(j)' = RefTo(j)
    <2>1. SameOccupant(j) /\ Filled(j) /\ Issues(j)
        BY Zenon DEF StoreInv
    <2>2. Filled(j)'
        BY <2>1, Zenon DEF SameOccupant, Filled
    <2>3. Issues(j)'
        BY <2>1, Zenon DEF SameOccupant, Issues
    <2>4. RefTo(j)' = RefTo(j)
        BY <2>1, Zenon DEF SameOccupant, RefTo
    <2>. QED BY <2>2, <2>3, <2>4
<1>4. OneSlotPerIdentity'
    BY Zenon DEF StoreInv, SameOccupant, OneSlotPerIdentity
<1>. QED BY <1>2, <1>3, <1>4, Zenon

\* Nor does what is said of the objects.
LEMMA HomesKeep ==
    ASSUME StoreInv, \A j \in StoreSlots : SameOccupant(j), dying' = dying, owned' = owned
    PROVE  \A o \in StoreObjects : OneHome(o)'
<1>. SUFFICES ASSUME NEW o \in StoreObjects PROVE OneHome(o)'
    BY Zenon
<1>1. OneHome(o)
    BY Zenon DEF StoreInv
<1>2. \A j \in StoreSlots : /\ Occupied(slots'[j]) <=> Occupied(slots[j])
                            /\ slots'[j].object = slots[j].object
    BY Zenon DEF SameOccupant
<1>. QED BY <1>1, <1>2, Zenon DEF OneHome

\* An object that a step leaves where it is.
LEMMA HomeSame ==
    ASSUME NEW o, OneHome(o), o \in owned' <=> o \in owned,
           \A u \in Tasks : dying'[u] = o <=> dying[u] = o,
           \A j \in StoreSlots : Occupied(slots'[j]) /\ slots'[j].object = o
                                 <=> Occupied(slots[j]) /\ slots[j].object = o
    PROVE  OneHome(o)'
BY Zenon DEF OneHome

\* The occupant of a slot is what its count and its being retired do not change.
SameObject(s, r) ==
    s.id = r.id /\ s.kind = r.kind /\ s.object = r.object /\ s.generation = r.generation

LEMMA WithRefs ==
    ASSUME NEW s \in StoreSlot, NEW n \in 0 .. StoreMaxRefs
    PROVE  LET r == [s EXCEPT !.refs = n]
           IN  r \in StoreSlot /\ r.refs = n /\ r.state = s.state /\ SameObject(r, s)
BY DEF StoreSlot, SameObject

LEMMA WithState ==
    ASSUME NEW s \in StoreSlot
    PROVE  LET r == [s EXCEPT !.state = "Retiring"]
           IN  r \in StoreSlot /\ r.refs = s.refs /\ r.state = "Retiring" /\ SameObject(r, s)
BY DEF StoreSlot, SameObject

LEMMA SlotChanged ==
    ASSUME slots \in [StoreSlots -> StoreSlot], NEW i \in StoreSlots, NEW s \in StoreSlot,
           Occupied(slots[i]), Occupied(s), SameObject(s, slots[i]),
           slots' = [slots EXCEPT ![i] = s]
    PROVE  /\ slots' \in [StoreSlots -> StoreSlot]
           /\ slots'[i] = s
           /\ \A j \in StoreSlots : j # i => slots'[j] = slots[j]
           /\ \A j \in StoreSlots : SameOccupant(j)
<1>1. slots'[i] = s
    BY Zenon
<1>2. \A j \in StoreSlots : j # i => slots'[j] = slots[j]
    BY Zenon
<1>3. slots' \in [StoreSlots -> StoreSlot]
    BY Zenon
<1>4. SameOccupant(i)
    BY <1>1 DEF SameObject, SameOccupant, Occupied
<1>5. \A j \in StoreSlots : j # i => SameOccupant(j)
    BY <1>2, Zenon DEF SameOccupant
<1>. QED BY <1>1, <1>2, <1>3, <1>4, <1>5, Zenon

\* What is known of the slot a reference is to.
LEMMA RefFacts ==
    ASSUME StoreInv, NEW t \in Tasks, ref[t] # NoObject
    PROVE  \E i \in StoreSlots : /\ ref[t].index = i
                                 /\ ref[t] = RefTo(i) /\ ref[t] \in ObjRef
                                 /\ Occupied(slots[i])
<1>1. ref[t] \in ObjRef /\ RefHolds(t)
    BY DEF StoreInv, StoreTypeOK
<1>2. ref[t].index \in StoreSlots
    BY <1>1 DEF ObjRef
<1>. QED BY <1>1, <1>2, Zenon DEF RefHolds

\* A step that only counts: references are taken to occupied slots or let go,
\* and nobody begins or ends a destroy.
LEMMA CountingStep ==
    ASSUME StoreInv,
           slots' \in [StoreSlots -> StoreSlot], \A j \in StoreSlots : SameOccupant(j),
           \A j \in StoreSlots : CountExact(j)',
           ref' \in [Tasks -> ObjRef \cup {NoObject}],
           \A u \in Tasks : \/ ref'[u] \in {ref[u], NoObject}
                            \/ \E i \in StoreSlots : Occupied(slots[i]) /\ ref'[u] = RefTo(i),
           at' \in [Tasks -> {"idle", "check", "destroy"}],
           \A u \in Tasks : at'[u] = "destroy" <=> at[u] = "destroy",
           \A u \in Tasks : at'[u] = "check" \/ u \in given' => ref'[u] # NoObject,
           want' \in [Tasks -> StoreKinds \cup {NoObject}], given' \subseteq Tasks,
           UNCHANGED <<live, dying, owned, issued>>
    PROVE  StoreInv'
<1>1. StoreTypeOK
    BY Zenon DEF StoreInv
<1>2. /\ live' = Cardinality({j \in StoreSlots : Occupied(slots'[j])})
      /\ \A j \in StoreSlots : Filled(j)' /\ Issues(j)' /\ RefTo(j)' = RefTo(j)
      /\ OneSlotPerIdentity'
    BY OccupantsKeep, Zenon
<1>3. \A o \in StoreObjects : OneHome(o)'
    BY HomesKeep, Zenon
<1>4. StoreTypeOK'
    BY <1>1, <1>2, Zenon DEF StoreTypeOK
<1>5. ASSUME NEW u \in Tasks PROVE RefHolds(u)' /\ Busy(u)'
    <2>1. RefHolds(u) /\ Busy(u)
        BY Zenon DEF StoreInv
    <2>2. Busy(u)'
        BY <2>1, Zenon DEF Busy
    <2>3. ASSUME NEW i \in StoreSlots, Occupied(slots[i]), ref'[u] = RefTo(i)
          PROVE  RefHolds(u)'
        <3>3. PICK r : r = RefTo(i)
            BY Zenon
        <3>4. r.index = i
            BY <3>3 DEF RefTo
        <3>1. ref'[u].index = i
            BY <2>3, <3>3, <3>4, Zenon
        <3>2. Occupied(slots'[i]) /\ RefTo(i)' = ref'[u]
            BY <1>2, <2>3, Zenon DEF SameOccupant
        <3>. QED BY <3>1, <3>2 DEF RefHolds, RefTo
    <2>4. CASE ref'[u] = ref[u] /\ ref[u] # NoObject
        <3>1. PICK i \in StoreSlots : ref[u] = RefTo(i) /\ Occupied(slots[i])
            BY <2>4, RefFacts, Zenon
        <3>. QED BY <2>2, <2>3, <2>4, <3>1, Zenon
    <2>5. CASE ref'[u] = NoObject
        BY <2>2, <2>5, Zenon DEF RefHolds
    <2>. QED BY <2>2, <2>3, <2>4, <2>5, Zenon
<1>. QED BY <1>2, <1>3, <1>4, <1>5, Zenon DEF StoreInv

LEMMA SlotFacts ==
    ASSUME StoreInv, NEW i \in StoreSlots
    PROVE  /\ slots[i] \in StoreSlot
           /\ slots[i].refs \in Nat /\ slots[i].refs <= StoreMaxRefs
           /\ CountExact(i) /\ Filled(i) /\ Issues(i)
           /\ Occupied(slots[i]) => RefTo(i) \in ObjRef /\ RefTo(i).index = i
<1>1. slots[i] \in StoreSlot /\ CountExact(i) /\ Filled(i) /\ Issues(i)
    BY Zenon DEF StoreInv, StoreTypeOK
<1>2. slots[i].refs \in 0 .. StoreMaxRefs
    BY <1>1 DEF StoreSlot
<1>3. Occupied(slots[i]) => RefTo(i) \in ObjRef /\ RefTo(i).index = i
    BY <1>1 DEF Filled, RefTo, ObjRef
<1>. QED BY <1>1, <1>2, <1>3, StoreAssumption

-----------------------------------------------------------------------------
(* acquire, try_clone and the comparison in resolve. *)

\* One more reference to an occupied slot, for a task that had none.
LEMMA GetsRef ==
    ASSUME StoreInv, NEW t \in Tasks, NEW i \in StoreSlots,
           ref[t] = NoObject, Occupied(slots[i]), slots[i].refs < StoreMaxRefs,
           slots' = [slots EXCEPT ![i].refs = @ + 1],
           ref' = [ref EXCEPT ![t] = RefTo(i)]
    PROVE  /\ slots' \in [StoreSlots -> StoreSlot]
           /\ \A j \in StoreSlots : SameOccupant(j) /\ CountExact(j)'
           /\ ref' \in [Tasks -> ObjRef \cup {NoObject}]
           /\ ref'[t] = RefTo(i) /\ ref'[t] # NoObject
           /\ \A u \in Tasks : u # t => ref'[u] = ref[u]
<1> DEFINE s == [slots[i] EXCEPT !.refs = slots[i].refs + 1]
<1>1. ref \in [Tasks -> ObjRef \cup {NoObject}] /\ slots \in [StoreSlots -> StoreSlot]
    BY Zenon DEF StoreInv, StoreTypeOK
<1>2. /\ slots[i] \in StoreSlot /\ slots[i].refs \in Nat /\ slots[i].refs + 1 \in 0 .. StoreMaxRefs
      /\ RefTo(i) \in ObjRef /\ RefTo(i).index = i
    BY SlotFacts, StoreAssumption
<1>3. s \in StoreSlot /\ s.refs = slots[i].refs + 1 /\ s.state = slots[i].state /\ SameObject(s, slots[i])
    BY <1>2, WithRefs, Zenon
<1>4. slots' = [slots EXCEPT ![i] = s]
    BY Zenon
<1>. HIDE DEF s
<1>5. /\ slots' \in [StoreSlots -> StoreSlot] /\ slots'[i] = s
      /\ \A j \in StoreSlots : j # i => slots'[j] = slots[j]
      /\ \A j \in StoreSlots : SameOccupant(j)
    <2>1. Occupied(s)
        BY <1>3, Zenon DEF Occupied
    <2>. QED BY <1>1, <1>3, <1>4, <2>1, SlotChanged, Zenon
<1>6. /\ Cardinality(HoldersOf(i))' = Cardinality(HoldersOf(i)) + 1
      /\ \A j \in StoreSlots : j # i => HoldersOf(j)' = HoldersOf(j)
    <2>1. PICK r \in ObjRef : r = RefTo(i)
        BY <1>2, Zenon
    <2>2. r.index = i /\ ref' = [ref EXCEPT ![t] = r]
        BY <1>2, <2>1, Zenon
    <2>. QED BY <1>1, <2>2, OneMoreHolder, Zenon
<1>7. ASSUME NEW j \in StoreSlots PROVE CountExact(j)'
    <2>1. CountExact(j)
        BY SlotFacts, Zenon
    <2>2. CASE j = i
        BY <1>2, <1>3, <1>5, <1>6, <2>1, <2>2, HoldersFinite DEF CountExact
    <2>3. CASE j # i
        BY <1>5, <1>6, <2>1, <2>3, Zenon DEF CountExact
    <2>. QED BY <2>2, <2>3, Zenon
<1>8. /\ ref' \in [Tasks -> ObjRef \cup {NoObject}]
      /\ ref'[t] = RefTo(i) /\ ref'[t] # NoObject
      /\ \A u \in Tasks : u # t => ref'[u] = ref[u]
    BY <1>1, <1>2, StoreAssumption
<1>. QED BY <1>5, <1>7, <1>8, Zenon

LEMMA AcquireKeeps ==
    ASSUME StoreInv, NEW t \in Tasks, NEW i \in StoreSlots, NEW kind \in StoreKinds \cup {NoObject},
           Acquire(t, i, kind)
    PROVE  StoreInv'
<1>1. /\ at \in [Tasks -> {"idle", "check", "destroy"}]
      /\ want \in [Tasks -> StoreKinds \cup {NoObject}] /\ given \subseteq Tasks
    BY Zenon DEF StoreInv, StoreTypeOK
<1>2. /\ at[t] = "idle" /\ ref[t] = NoObject /\ Occupied(slots[i]) /\ slots[i].refs < StoreMaxRefs
      /\ slots' = [slots EXCEPT ![i].refs = @ + 1]
      /\ ref' = [ref EXCEPT ![t] = RefTo(i)]
      /\ UNCHANGED <<live, dying, given, owned, issued>>
    BY Zenon DEF Acquire, Acquirable, Occupied
<1>3. /\ slots' \in [StoreSlots -> StoreSlot]
      /\ \A j \in StoreSlots : SameOccupant(j) /\ CountExact(j)'
      /\ ref' \in [Tasks -> ObjRef \cup {NoObject}]
      /\ ref'[t] = RefTo(i) /\ ref'[t] # NoObject
      /\ \A u \in Tasks : u # t => ref'[u] = ref[u]
    BY <1>2, GetsRef, Zenon
<1>4. /\ at' \in [Tasks -> {"idle", "check", "destroy"}] /\ at'[t] # "destroy"
      /\ \A u \in Tasks : u # t => at'[u] = at[u]
      /\ want' \in [Tasks -> StoreKinds \cup {NoObject}]
    BY <1>1 DEF Acquire
<1>5. \A u \in Tasks : Busy(u)
    BY Zenon DEF StoreInv
<1>6. /\ \A u \in Tasks : at'[u] = "destroy" <=> at[u] = "destroy"
      /\ \A u \in Tasks : at'[u] = "check" \/ u \in given' => ref'[u] # NoObject
    BY <1>2, <1>3, <1>4, <1>5 DEF Busy
<1>7. \A u \in Tasks : \/ ref'[u] \in {ref[u], NoObject}
                       \/ \E j \in StoreSlots : Occupied(slots[j]) /\ ref'[u] = RefTo(j)
    BY <1>2, <1>3, Zenon
<1>. QED BY <1>1, <1>2, <1>3, <1>4, <1>6, <1>7, CountingStep, Zenon

LEMMA CloneKeeps ==
    ASSUME StoreInv, NEW t \in Tasks, NEW u \in Tasks, TryClone(t, u)
    PROVE  StoreInv'
<1>1. /\ at \in [Tasks -> {"idle", "check", "destroy"}]
      /\ want \in [Tasks -> StoreKinds \cup {NoObject}] /\ given \subseteq Tasks
      /\ \A v \in Tasks : Busy(v)
    BY Zenon DEF StoreInv, StoreTypeOK
<1>2. PICK i \in StoreSlots : ref[t].index = i /\ ref[t] = RefTo(i) /\ Occupied(slots[i])
    BY RefFacts, Zenon DEF TryClone
<1>3. /\ ref[u] = NoObject /\ slots[i].refs < StoreMaxRefs
      /\ slots' = [slots EXCEPT ![i].refs = @ + 1]
      /\ ref' = [ref EXCEPT ![u] = RefTo(i)]
      /\ given' = given \cup {u}
      /\ UNCHANGED <<live, at, want, dying, owned, issued>>
    BY <1>2, Zenon DEF TryClone
<1>4. /\ slots' \in [StoreSlots -> StoreSlot]
      /\ \A j \in StoreSlots : SameOccupant(j) /\ CountExact(j)'
      /\ ref' \in [Tasks -> ObjRef \cup {NoObject}]
      /\ ref'[u] = RefTo(i) /\ ref'[u] # NoObject
      /\ \A v \in Tasks : v # u => ref'[v] = ref[v]
    BY <1>2, <1>3, GetsRef, Zenon
<1>5. /\ at' = at /\ want' = want /\ given' \subseteq Tasks
      /\ \A v \in Tasks : at'[v] = "check" \/ v \in given' => ref'[v] # NoObject
    BY <1>1, <1>3, <1>4, Zenon DEF Busy
<1>6. \A v \in Tasks : \/ ref'[v] \in {ref[v], NoObject}
                       \/ \E j \in StoreSlots : Occupied(slots[j]) /\ ref'[v] = RefTo(j)
    BY <1>2, <1>4, Zenon
<1>. QED BY <1>1, <1>3, <1>4, <1>5, <1>6, CountingStep, Zenon

\* resolve found the type it asked for: it keeps the reference.
LEMMA CheckKeeps ==
    ASSUME StoreInv, NEW t \in Tasks, at[t] = "check",
           at' = [at EXCEPT ![t] = "idle"], want' = [want EXCEPT ![t] = NoObject],
           UNCHANGED <<slots, live, ref, dying, given, owned, issued>>
    PROVE  StoreInv'
<1>1. StoreTypeOK /\ \A u \in Tasks : Busy(u)
    BY Zenon DEF StoreInv
<1>2. \A j \in StoreSlots : SameOccupant(j) /\ CountExact(j)'
    <2>1. \A j \in StoreSlots : CountExact(j)
        BY Zenon DEF StoreInv
    <2>. QED BY <2>1, Zenon DEF SameOccupant, CountExact, HoldersOf
<1>3. /\ at' \in [Tasks -> {"idle", "check", "destroy"}]
      /\ want' \in [Tasks -> StoreKinds \cup {NoObject}]
      /\ \A u \in Tasks : at'[u] = "destroy" <=> at[u] = "destroy"
      /\ \A u \in Tasks : at'[u] = "check" => at[u] = "check"
    BY <1>1 DEF StoreTypeOK
<1>4. \A u \in Tasks : at'[u] = "check" \/ u \in given' => ref'[u] # NoObject
    BY <1>1, <1>3, Zenon DEF Busy
<1>. QED BY <1>1, <1>2, <1>3, <1>4, CountingStep, Zenon DEF StoreTypeOK

-----------------------------------------------------------------------------
(* release: one reference less, or the end of the occupant. *)

LEMMA VacatedIs ==
    ASSUME NEW s \in StoreSlot, s.generation < StoreMaxGeneration
    PROVE  /\ Vacated(s) \in StoreSlot
           /\ Vacated(s).refs = 0 /\ Vacated(s).generation = s.generation + 1
           /\ Vacated(s).state \in {"Free", "Worn"}
           /\ Vacated(s).state # "Worn" => s.generation + 1 < StoreMaxGeneration
           /\ ~ Occupied(Vacated(s))
<1> DEFINE st == IF s.generation + 1 >= StoreMaxGeneration THEN "Worn" ELSE "Free"
<1>1. s.generation \in 0 .. StoreMaxGeneration /\ s.generation + 1 \in 0 .. StoreMaxGeneration
    BY StoreAssumption DEF StoreSlot
<1>2. Vacated(s) = [s EXCEPT !.refs = 0, !.generation = s.generation + 1, !.state = st]
    BY Zenon DEF Vacated
<1>3. st \in {"Free", "Worn"} /\ (st # "Worn" => s.generation + 1 < StoreMaxGeneration)
    BY <1>1, StoreAssumption
<1>. HIDE DEF st
<1>4. Vacated(s) \in StoreSlot
    <2>1. Vacated(s) = [generation |-> s.generation + 1, id |-> s.id, kind |-> s.kind,
                        object |-> s.object, refs |-> 0, state |-> st]
        BY <1>2, ZenonT(40) DEF StoreSlot
    <2>2. /\ s.id \in StoreIds \cup {NoObject} /\ s.kind \in StoreKinds \cup {NoObject}
          /\ s.object \in StoreObjects \cup {NoObject} /\ 0 \in 0 .. StoreMaxRefs
          /\ st \in {"Free", "Live", "Retiring", "Worn"}
        BY <1>3, StoreAssumption DEF StoreSlot
    <2>3. PICK g \in 0 .. StoreMaxGeneration : g = s.generation + 1
        BY <1>1, Zenon
    <2>. QED BY <2>1, <2>2, <2>3 DEF StoreSlot
<1>5. Vacated(s).refs = 0 /\ Vacated(s).generation = s.generation + 1 /\ Vacated(s).state = st
    BY <1>2 DEF StoreSlot
<1>. QED BY <1>3, <1>4, <1>5 DEF Occupied

\* The last reference to a retiring object: the slot is given up and t has the
\* object to destroy.
LEMMA LastRelease ==
    ASSUME StoreInv, NEW t \in Tasks, NEW i \in StoreSlots, NEW s \in StoreSlot,
           NEW r \in ObjRef \cup {NoObject},
           Occupied(slots[i]), SameObject(s, slots[i]), s.refs = 1, s.state = "Retiring",
           at[t] # "destroy", Release(t, i, s, r), r \in {ref[t], NoObject},
           HoldersOf(i)' = {}, \A j \in StoreSlots : j # i => HoldersOf(j)' = HoldersOf(j)
    PROVE  StoreInv'
<1>1. StoreTypeOK
    BY Zenon DEF StoreInv
<1>2. /\ slots' = [slots EXCEPT ![i] = Vacated(s)]
      /\ live' = live - 1
      /\ ref' = [ref EXCEPT ![t] = r]
      /\ at' = [at EXCEPT ![t] = "destroy"]
      /\ dying' = [dying EXCEPT ![t] = s.object]
      /\ want' = [want EXCEPT ![t] = NoObject]
      /\ given' = IF r = NoObject THEN given \ {t} ELSE given
      /\ owned' = owned /\ issued' = issued
    BY Zenon DEF Release
<1>3. /\ Filled(i) /\ Issues(i) /\ CountExact(i)
      /\ s.generation = slots[i].generation /\ s.object = slots[i].object
      /\ s.generation \in Nat /\ s.generation < StoreMaxGeneration /\ s.object \in StoreObjects
    BY SlotFacts DEF SameObject, Filled, Occupied, StoreSlot
<1>4. /\ slots' \in [StoreSlots -> StoreSlot] /\ slots'[i] = Vacated(s)
      /\ \A j \in StoreSlots : j # i => slots'[j] = slots[j]
    BY <1>1, <1>2, <1>3, VacatedIs, Zenon DEF StoreTypeOK
<1>5. /\ slots'[i].refs = 0 /\ slots'[i].generation = slots[i].generation + 1
      /\ slots'[i].state \in {"Free", "Worn"} /\ ~ Occupied(slots'[i])
      /\ slots'[i].state # "Worn" => slots[i].generation + 1 < StoreMaxGeneration
    BY <1>3, <1>4, VacatedIs, Zenon
<1>6. /\ ref' \in [Tasks -> ObjRef \cup {NoObject}]
      /\ ref'[t] = r /\ \A u \in Tasks : u # t => ref'[u] = ref[u]
    BY <1>1, <1>2, Zenon DEF StoreTypeOK
<1>7. /\ at' \in [Tasks -> {"idle", "check", "destroy"}] /\ at'[t] = "destroy"
      /\ \A u \in Tasks : u # t => at'[u] = at[u]
    BY <1>1, <1>2, Zenon DEF StoreTypeOK
<1>8. /\ dying' \in [Tasks -> StoreObjects \cup {NoObject}] /\ dying'[t] = slots[i].object
      /\ \A u \in Tasks : u # t => dying'[u] = dying[u]
    BY <1>1, <1>2, <1>3, Zenon DEF StoreTypeOK
<1>9. live' = Cardinality({j \in StoreSlots : Occupied(slots'[j])})
    <2> DEFINE occ == {j \in StoreSlots : Occupied(slots[j])}
    <2>1. {j \in StoreSlots : Occupied(slots'[j])} = occ \ {i}
        BY <1>4, <1>5, Zenon
    <2>2. IsFiniteSet(occ) /\ i \in occ
        <3>1. IsFiniteSet(StoreSlots)
            BY FS_Interval, StoreAssumption DEF StoreSlots
        <3>. QED BY <3>1, FS_Subset, Zenon
    <2>3. live = Cardinality(occ)
        BY <1>1, Zenon DEF StoreTypeOK
    <2>. HIDE DEF occ
    <2>. QED BY <1>2, <2>1, <2>2, <2>3, FS_RemoveElement, ZenonT(40)
<1>10. StoreTypeOK'
    <2>1. want' \in [Tasks -> StoreKinds \cup {NoObject}] /\ given' \subseteq Tasks
        BY <1>1, <1>2, Zenon DEF StoreTypeOK
    <2>. QED BY <1>1, <1>2, <1>4, <1>6, <1>7, <1>8, <1>9, <2>1, Zenon DEF StoreTypeOK
<1>11. ASSUME NEW j \in StoreSlots PROVE CountExact(j)' /\ Filled(j)' /\ Issues(j)'
    <2>1. CASE j # i
        <3>1. CountExact(j) /\ Filled(j) /\ Issues(j) /\ slots'[j] = slots[j] /\ HoldersOf(j)' = HoldersOf(j)
            BY <1>4, <2>1, SlotFacts, Zenon
        <3>. QED BY <1>2, <3>1, Zenon DEF CountExact, Filled, Issues
    <2>2. CASE j = i
        <3>1. CountExact(i)'
            BY <1>5, FS_EmptySet DEF CountExact
        <3>2. Filled(i)'
            BY <1>5, Zenon DEF Filled
        <3>3. Issues(i)'
            BY <1>2, <1>3, <1>5, StoreAssumption DEF Issues, Occupied
        <3>. QED BY <2>2, <3>1, <3>2, <3>3, Zenon
    <2>. QED BY <2>1, <2>2, Zenon
<1>12. ASSUME NEW u \in Tasks PROVE RefHolds(u)' /\ Busy(u)'
    <2>1. RefHolds(u) /\ Busy(u)
        BY Zenon DEF StoreInv
    <2>2. ref'[u] # NoObject => ref'[u] = ref[u] /\ ref[u].index \in StoreSlots /\ ref[u].index # i
        <3>1. ref'[u] # NoObject => ref'[u] = ref[u] /\ ref[u].index # i
            BY <1>6, Zenon DEF HoldersOf
        <3>. QED BY <1>1, <3>1 DEF StoreTypeOK, ObjRef
    <2>3. RefHolds(u)'
        BY <1>4, <2>1, <2>2, Zenon DEF RefHolds, RefTo
    <2>4. CASE u = t
        BY <1>2, <1>3, <1>6, <1>7, <1>8, <2>3, <2>4, StoreAssumption DEF Busy
    <2>5. CASE u # t
        BY <1>2, <1>6, <1>7, <1>8, <2>1, <2>3, <2>5, Zenon DEF Busy
    <2>. QED BY <2>4, <2>5, Zenon
<1>13. ASSUME NEW o \in StoreObjects PROVE OneHome(o)'
    <2>1. OneHome(o) /\ dying[t] # o
        BY StoreAssumption, Zenon DEF StoreInv, Busy
    <2>2. /\ \A j \in StoreSlots : Occupied(slots'[j]) => j # i /\ Occupied(slots[j]) /\ slots'[j].object = slots[j].object
          /\ \A j \in StoreSlots : j # i /\ Occupied(slots[j]) => Occupied(slots'[j]) /\ slots'[j].object = slots[j].object
        BY <1>4, <1>5, Zenon
    <2>3. CASE o = slots[i].object
        <3>1. /\ o \notin owned /\ \A u \in Tasks : dying[u] # o
              /\ \A j \in StoreSlots : Occupied(slots[j]) /\ slots[j].object = o => j = i
            BY <2>1, <2>3, Zenon DEF OneHome
        <3>2. /\ o \notin owned' /\ dying'[t] = o /\ \A u \in Tasks : u # t => dying'[u] # o
              /\ \A j \in StoreSlots : Occupied(slots'[j]) => slots'[j].object # o
            BY <1>2, <1>8, <2>2, <2>3, <3>1, Zenon
        <3>. QED BY <3>2, Zenon DEF OneHome
    <2>4. CASE o # slots[i].object
        <3>1. /\ \A u \in Tasks : dying'[u] = o <=> dying[u] = o
              /\ \A j \in StoreSlots : Occupied(slots'[j]) /\ slots'[j].object = o
                                        <=> Occupied(slots[j]) /\ slots[j].object = o
            BY <1>8, <2>1, <2>2, <2>4, Zenon
        <3>. QED BY <1>2, <2>1, <3>1, HomeSame, Zenon
    <2>. QED BY <2>3, <2>4, Zenon
<1>14. OneSlotPerIdentity'
    BY <1>4, <1>5, ZenonT(40) DEF StoreInv, OneSlotPerIdentity
<1>. QED BY <1>10, <1>11, <1>12, <1>13, <1>14, Zenon DEF StoreInv

\* A reference less, and not the last.
LEMMA OneRelease ==
    ASSUME StoreInv, NEW t \in Tasks, NEW i \in StoreSlots, NEW s \in StoreSlot,
           NEW r \in ObjRef \cup {NoObject},
           Occupied(slots[i]), Occupied(s), SameObject(s, slots[i]),
           s.refs # 0, ~ (s.refs = 1 /\ s.state = "Retiring"),
           at[t] # "destroy", Release(t, i, s, r), r \in {ref[t], NoObject},
           s.refs - 1 = Cardinality(HoldersOf(i)') + IF s.state = "Live" THEN 1 ELSE 0,
           \A j \in StoreSlots : j # i => HoldersOf(j)' = HoldersOf(j)
    PROVE  StoreInv'
<1>1. StoreTypeOK /\ \A u \in Tasks : Busy(u)
    BY Zenon DEF StoreInv
<1> DEFINE n == [s EXCEPT !.refs = s.refs - 1]
<1>2. /\ slots' = [slots EXCEPT ![i] = n]
      /\ live' = live
      /\ ref' = [ref EXCEPT ![t] = r]
      /\ at' = [at EXCEPT ![t] = "idle"]
      /\ dying' = [dying EXCEPT ![t] = NoObject]
      /\ want' = [want EXCEPT ![t] = NoObject]
      /\ given' = IF r = NoObject THEN given \ {t} ELSE given
      /\ owned' = owned /\ issued' = issued
    BY Zenon DEF Release
<1>3. s.refs \in 0 .. StoreMaxRefs /\ s.refs - 1 \in 0 .. StoreMaxRefs
    BY StoreAssumption DEF StoreSlot
<1>4. n \in StoreSlot /\ n.refs = s.refs - 1 /\ n.state = s.state /\ SameObject(n, s)
    BY <1>3, WithRefs, Zenon
<1>. HIDE DEF n
<1>5. /\ slots' \in [StoreSlots -> StoreSlot] /\ slots'[i] = n
      /\ \A j \in StoreSlots : j # i => slots'[j] = slots[j]
      /\ \A j \in StoreSlots : SameOccupant(j)
    <2>1. Occupied(n) /\ SameObject(n, slots[i])
        BY <1>4, Zenon DEF Occupied, SameObject
    <2>. QED BY <1>1, <1>2, <1>4, <2>1, SlotChanged, Zenon DEF StoreTypeOK
<1>6. ASSUME NEW j \in StoreSlots PROVE CountExact(j)'
    <2>1. CASE j = i
        <3>1. slots'[i].refs = Cardinality(HoldersOf(i)') + IF slots'[i].state = "Live" THEN 1 ELSE 0
            BY <1>4, <1>5, Zenon
        <3>. QED BY <2>1, <3>1, Zenon DEF CountExact
    <2>2. CASE j # i
        <3>1. CountExact(j)
            BY SlotFacts, Zenon
        <3>. QED BY <1>5, <2>2, <3>1, Zenon DEF CountExact
    <2>. QED BY <2>1, <2>2, Zenon
<1>7. dying' = dying
    <2>1. dying[t] = NoObject
        BY <1>1, Zenon DEF Busy
    <2>. QED BY <1>1, <1>2, <2>1 DEF StoreTypeOK
<1>8. /\ ref' \in [Tasks -> ObjRef \cup {NoObject}]
      /\ ref'[t] = r /\ \A u \in Tasks : u # t => ref'[u] = ref[u]
      /\ \A u \in Tasks : ref'[u] \in {ref[u], NoObject}
    BY <1>1, <1>2, Zenon DEF StoreTypeOK
<1>9. /\ at' \in [Tasks -> {"idle", "check", "destroy"}] /\ at'[t] = "idle"
      /\ \A u \in Tasks : u # t => at'[u] = at[u]
      /\ want' \in [Tasks -> StoreKinds \cup {NoObject}] /\ given' \subseteq Tasks
    BY <1>1, <1>2 DEF StoreTypeOK
<1>10. \A u \in Tasks : at'[u] = "check" \/ u \in given' => ref'[u] # NoObject
    BY <1>1, <1>2, <1>8, <1>9 DEF Busy
<1>11. \A u \in Tasks : at'[u] = "destroy" <=> at[u] = "destroy"
    BY <1>9
<1>. QED BY <1>2, <1>5, <1>6, <1>7, <1>8, <1>9, <1>10, <1>11, CountingStep, Zenon

LEMMA LetGoKeeps ==
    ASSUME StoreInv, NEW t \in Tasks, at[t] # "destroy", ref[t] # NoObject,
           Release(t, ref[t].index, slots[ref[t].index], NoObject)
    PROVE  StoreInv'
<1>1. PICK i \in StoreSlots : ref[t].index = i /\ Occupied(slots[i])
    BY RefFacts, Zenon
<1>2. /\ slots[i] \in StoreSlot /\ slots[i].refs \in Nat /\ CountExact(i)
    BY SlotFacts, Zenon
<1>3. Release(t, i, slots[i], NoObject) /\ ref' = [ref EXCEPT ![t] = NoObject]
    BY <1>1, Zenon DEF Release
<1>4. /\ HoldersOf(i)' = HoldersOf(i) \ {t} /\ t \in HoldersOf(i)
      /\ Cardinality(HoldersOf(i))' = Cardinality(HoldersOf(i)) - 1
      /\ \A j \in StoreSlots : j # i => HoldersOf(j)' = HoldersOf(j)
    BY <1>1, <1>3, OneLessHolder, Zenon DEF StoreInv, StoreTypeOK
<1>5. IsFiniteSet(HoldersOf(i)') /\ Cardinality(HoldersOf(i)') \in Nat /\ Cardinality(HoldersOf(i)) \in Nat
    BY <1>4, HoldersFinite, FS_RemoveElement, FS_CardinalityType
<1>6. SameObject(slots[i], slots[i])
    BY Zenon DEF SameObject
<1>7. CASE slots[i].refs = 1 /\ slots[i].state = "Retiring"
    <2>1. Cardinality(HoldersOf(i)') = 0
        BY <1>2, <1>4, <1>5, <1>7 DEF CountExact
    <2>2. HoldersOf(i)' = {}
        BY <1>5, <2>1, FS_EmptySet
    <2>. QED BY <1>1, <1>2, <1>3, <1>4, <1>6, <1>7, <2>2, LastRelease, Zenon
<1>8. CASE ~ (slots[i].refs = 1 /\ slots[i].state = "Retiring")
    <2>1. /\ slots[i].refs # 0
          /\ slots[i].refs - 1 = Cardinality(HoldersOf(i)') + IF slots[i].state = "Live" THEN 1 ELSE 0
        BY <1>2, <1>4, <1>5 DEF CountExact
    <2>. QED BY <1>1, <1>2, <1>3, <1>4, <1>6, <1>8, <2>1, OneRelease, Zenon
<1>. QED BY <1>7, <1>8, Zenon

LEMMA RetireKeeps ==
    ASSUME StoreInv, NEW t \in Tasks, NEW id \in StoreIds, Retire(t, id)
    PROVE  StoreInv'
<1> DEFINE s(i) == [slots[i] EXCEPT !.state = "Retiring"]
<1>1. PICK i \in StoreSlots : slots[i].state = "Live" /\ Release(t, i, s(i), ref[t])
    <2>1. FindSlot(id) # {} /\ FindSlot(id) \subseteq StoreSlots
        BY Zenon DEF Retire, FindSlot
    <2>. QED BY <2>1, MinIn, Zenon DEF Retire
<1>2. slots[i] \in StoreSlot /\ slots[i].refs \in Nat /\ CountExact(i) /\ Occupied(slots[i])
    BY <1>1, SlotFacts, Zenon DEF Occupied
<1>3. s(i) \in StoreSlot /\ s(i).refs = slots[i].refs /\ s(i).state = "Retiring" /\ SameObject(s(i), slots[i])
    BY <1>2, WithState, Zenon
<1>4. PICK n \in StoreSlot : n = s(i)
    BY <1>3, Zenon
<1>. HIDE DEF s
<1>5. ref[t] \in ObjRef \cup {NoObject} /\ at[t] # "destroy" /\ ref' = ref
    BY <1>1 DEF StoreInv, StoreTypeOK, Retire, Release
<1>6. \A j \in StoreSlots : HoldersOf(j)' = HoldersOf(j)
    BY <1>5, Zenon DEF HoldersOf
<1>7. PICK r \in ObjRef \cup {NoObject} : r = ref[t]
    BY <1>5, Zenon
<1>8. Release(t, i, n, r) /\ Occupied(n) /\ n.refs = slots[i].refs /\ n.state = "Retiring" /\ SameObject(n, slots[i])
    BY <1>1, <1>3, <1>4, <1>7, Zenon DEF Occupied
<1>9. IsFiniteSet(HoldersOf(i)) /\ Cardinality(HoldersOf(i)) \in Nat
    BY HoldersFinite, Zenon
<1>10. slots[i].refs = Cardinality(HoldersOf(i)) + 1
    BY <1>1, <1>2, Zenon DEF CountExact
<1>11. CASE n.refs = 1
    <2>1. HoldersOf(i)' = {}
        BY <1>6, <1>8, <1>9, <1>10, <1>11, FS_EmptySet
    <2>. QED BY <1>2, <1>5, <1>6, <1>7, <1>8, <1>11, <2>1, LastRelease, Zenon
<1>12. CASE n.refs # 1
    <2>1. n.refs # 0 /\ n.refs - 1 = Cardinality(HoldersOf(i)') + IF n.state = "Live" THEN 1 ELSE 0
        BY <1>6, <1>8, <1>9, <1>10
    <2>. QED BY <1>2, <1>5, <1>6, <1>7, <1>8, <1>12, <2>1, OneRelease, Zenon
<1>. QED BY <1>11, <1>12, Zenon

-----------------------------------------------------------------------------
(* insert and destroy: an object leaves its owner, and comes back. *)

LEMMA InsertKeeps ==
    ASSUME StoreInv, NEW t \in Tasks, NEW id \in StoreIds, NEW kind \in StoreKinds,
           NEW object \in StoreObjects, StoreInsert(t, id, kind, object)
    PROVE  StoreInv'
<1> DEFINE new(g) == [generation |-> g, id |-> id, kind |-> kind,
                      object |-> object, refs |-> 1, state |-> "Live"]
<1>1. PICK i \in StoreSlots :
        /\ slots[i].state = "Free"
        /\ slots' = [slots EXCEPT ![i] = new(slots[i].generation)]
        /\ issued' = [issued EXCEPT ![i][slots[i].generation] = @ + 1]
    <2>1. StoreFreeSlots # {} /\ StoreFreeSlots \subseteq StoreSlots
        BY Zenon DEF StoreInsert, StoreFreeSlots
    <2>2. Min(StoreFreeSlots) \in StoreFreeSlots
        BY <2>1, MinIn, Zenon
    <2>. QED BY <2>2, Zenon DEF StoreInsert, StoreFreeSlots
<1>2. PICK g : g = slots[i].generation
    BY Zenon
<1>3. /\ slots[i] \in StoreSlot /\ Filled(i) /\ Issues(i) /\ ~ Occupied(slots[i])
      /\ g \in 0 .. StoreMaxGeneration /\ g < StoreMaxGeneration
    <2>1. slots[i] \in StoreSlot /\ Filled(i) /\ Issues(i)
        BY SlotFacts, Zenon
    <2>. QED BY <1>1, <1>2, <2>1 DEF Filled, Occupied, StoreSlot
<1>4. /\ new(g) \in StoreSlot /\ Occupied(new(g))
      /\ new(g).generation = g /\ new(g).id = id /\ new(g).kind = kind
      /\ new(g).object = object /\ new(g).refs = 1 /\ new(g).state = "Live"
    BY <1>3, StoreAssumption DEF StoreSlot, Occupied
<1>5. PICK n \in StoreSlot : n = new(g)
    BY <1>4, Zenon
<1>6. /\ Occupied(n) /\ n.generation = g /\ n.id = id /\ n.kind = kind
      /\ n.object = object /\ n.refs = 1 /\ n.state = "Live"
    BY <1>4, <1>5, Zenon
<1>7. /\ slots' = [slots EXCEPT ![i] = n] /\ issued' = [issued EXCEPT ![i][g] = @ + 1]
      /\ live' = live + 1 /\ owned' = owned \ {object} /\ object \in owned
      /\ UNCHANGED <<ref, at, want, dying, given>> /\ FindSlot(id) = {}
    BY <1>1, <1>2, <1>5, Zenon DEF StoreInsert
<1>. HIDE DEF new
<1>8. StoreTypeOK
    BY Zenon DEF StoreInv
<1>9. /\ slots' \in [StoreSlots -> StoreSlot] /\ slots'[i] = n
      /\ \A j \in StoreSlots : j # i => slots'[j] = slots[j]
    BY <1>7, <1>8, Zenon DEF StoreTypeOK
<1>10. /\ issued' \in [StoreSlots -> [0 .. StoreMaxGeneration -> Nat]]
       /\ issued'[i][g] = issued[i][g] + 1
       /\ \A h \in 0 .. StoreMaxGeneration : h # g => issued'[i][h] = issued[i][h]
       /\ \A j \in StoreSlots : j # i => issued'[j] = issued[j]
    <2>1. PICK row : row = [issued[i] EXCEPT ![g] = issued[i][g] + 1]
        BY Zenon
    <2>2. PICK old \in [0 .. StoreMaxGeneration -> Nat] : old = issued[i]
        BY <1>8, Zenon DEF StoreTypeOK
    <2>5. old[g] + 1 \in Nat
        <3>1. old[g] \in Nat
            BY <1>3, Zenon
        <3>. QED BY <3>1
    <2>3. /\ row \in [0 .. StoreMaxGeneration -> Nat] /\ row[g] = issued[i][g] + 1
          /\ \A h \in 0 .. StoreMaxGeneration : h # g => row[h] = issued[i][h]
        BY <1>3, <2>1, <2>2, <2>5, Zenon
    <2>4. issued' = [issued EXCEPT ![i] = row]
        BY <1>7, <2>1, Zenon
    <2>. QED BY <1>8, <2>3, <2>4, Zenon DEF StoreTypeOK
<1>11. live' = Cardinality({j \in StoreSlots : Occupied(slots'[j])})
    <2> DEFINE occ == {j \in StoreSlots : Occupied(slots[j])}
    <2>1. {j \in StoreSlots : Occupied(slots'[j])} = occ \cup {i}
        BY <1>6, <1>9, Zenon
    <2>2. IsFiniteSet(occ) /\ i \notin occ
        <3>1. IsFiniteSet(StoreSlots)
            BY FS_Interval, StoreAssumption DEF StoreSlots
        <3>. QED BY <1>3, <3>1, FS_Subset, Zenon
    <2>3. live = Cardinality(occ)
        BY <1>8, Zenon DEF StoreTypeOK
    <2>. HIDE DEF occ
    <2>. QED BY <1>7, <2>1, <2>2, <2>3, FS_AddElement, ZenonT(40)
<1>12. StoreTypeOK'
    BY <1>7, <1>8, <1>9, <1>10, <1>11, Zenon DEF StoreTypeOK
<1>13. \A u \in Tasks : ref[u] # NoObject => ref[u].index # i
    <2>1. \A u \in Tasks : RefHolds(u)
        BY Zenon DEF StoreInv
    <2>. QED BY <1>3, <2>1, Zenon DEF RefHolds
<1>14. ASSUME NEW j \in StoreSlots PROVE CountExact(j)' /\ Filled(j)' /\ Issues(j)'
    <2>1. HoldersOf(j)' = HoldersOf(j)
        BY <1>7, Zenon DEF HoldersOf
    <2>2. CASE j # i
        <3>1. CountExact(j) /\ Filled(j) /\ Issues(j) /\ slots'[j] = slots[j] /\ issued'[j] = issued[j]
            BY <1>9, <1>10, <2>2, SlotFacts, Zenon
        <3>. QED BY <2>1, <3>1, Zenon DEF CountExact, Filled, Issues
    <2>3. CASE j = i
        <3>1. HoldersOf(i)' = {}
            BY <1>7, <1>13, Zenon DEF HoldersOf
        <3>2. CountExact(i)'
            BY <1>6, <1>9, <3>1, FS_EmptySet DEF CountExact
        <3>3. Filled(i)'
            BY <1>3, <1>6, <1>9, Zenon DEF Filled
        <3>4. Issues(i)'
            <4>1. /\ \A h \in 0 .. StoreMaxGeneration : issued[i][h] <= 1 /\ (h > g => issued[i][h] = 0)
                  /\ issued[i][g] = 0
                BY <1>1, <1>2, <1>3, Zenon DEF Issues
            <4>2. issued'[i][g] = 1
                BY <1>10, <4>1
            <4>3. ASSUME NEW h \in 0 .. StoreMaxGeneration
                  PROVE  issued'[i][h] <= 1 /\ (h > g => issued'[i][h] = 0)
                BY <1>3, <1>10, <4>1, <4>2
            <4>4. slots'[i].generation = g /\ slots'[i].state # "Free"
                BY <1>6, <1>9
            <4>. QED BY <4>2, <4>3, <4>4, Zenon DEF Issues
        <3>. QED BY <2>3, <3>2, <3>3, <3>4, Zenon
    <2>. QED BY <2>2, <2>3, Zenon
<1>15. ASSUME NEW u \in Tasks PROVE RefHolds(u)' /\ Busy(u)'
    <2>1. RefHolds(u) /\ Busy(u) /\ (ref[u] # NoObject => ref[u].index \in StoreSlots)
        BY DEF StoreInv, StoreTypeOK, ObjRef
    <2>2. RefHolds(u)'
        BY <1>7, <1>9, <1>13, <2>1, Zenon DEF RefHolds, RefTo
    <2>. QED BY <1>7, <2>1, <2>2, Zenon DEF Busy
<1>16. ASSUME NEW o \in StoreObjects PROVE OneHome(o)'
    <2>1. OneHome(o)
        BY Zenon DEF StoreInv
    <2>2. /\ Occupied(slots'[i]) /\ slots'[i].object = object
          /\ \A j \in StoreSlots : j # i => slots'[j] = slots[j]
        BY <1>6, <1>9, Zenon
    <2>3. CASE o = object
        <3>1. /\ \A u \in Tasks : dying[u] # o
              /\ \A j \in StoreSlots : Occupied(slots[j]) => slots[j].object # o
            BY <1>7, <2>1, <2>3, Zenon DEF OneHome
        <3>2. /\ o \notin owned' /\ \A u \in Tasks : dying'[u] # o
              /\ \A j \in StoreSlots : Occupied(slots'[j]) /\ slots'[j].object = o => j = i
            <4>1. o \notin owned' /\ dying' = dying
                BY <1>7, <2>3, Zenon
            <4>2. ASSUME NEW j \in StoreSlots, j # i PROVE ~ (Occupied(slots'[j]) /\ slots'[j].object = o)
                BY <2>2, <3>1, <4>2, Zenon
            <4>. QED BY <3>1, <4>1, <4>2, Zenon
        <3>. QED BY <2>2, <2>3, <3>2, Zenon DEF OneHome
    <2>4. CASE o # object
        <3>1. \A j \in StoreSlots : Occupied(slots'[j]) /\ slots'[j].object = o
                                    <=> Occupied(slots[j]) /\ slots[j].object = o
            BY <1>3, <2>2, <2>4, Zenon
        <3>. QED BY <1>7, <2>1, <2>4, <3>1, HomeSame, Zenon
    <2>. QED BY <2>3, <2>4, Zenon
<1>17. OneSlotPerIdentity'
    BY <1>6, <1>7, <1>9, Zenon DEF StoreInv, OneSlotPerIdentity, FindSlot
<1>. QED BY <1>12, <1>14, <1>15, <1>16, <1>17, Zenon DEF StoreInv

LEMMA DestroyKeeps ==
    ASSUME StoreInv, NEW t \in Tasks, Destroy(t)
    PROVE  StoreInv'
<1>1. StoreTypeOK /\ Busy(t)
    BY Zenon DEF StoreInv
<1>2. /\ at[t] = "destroy" /\ owned' = owned \cup {dying[t]}
      /\ dying' = [dying EXCEPT ![t] = NoObject] /\ at' = [at EXCEPT ![t] = "idle"]
      /\ UNCHANGED <<slots, live, ref, want, given, issued>>
    BY Zenon DEF Destroy
<1>3. dying[t] \in StoreObjects
    BY <1>1, <1>2 DEF Busy, StoreTypeOK
<1>4. /\ dying' \in [Tasks -> StoreObjects \cup {NoObject}] /\ dying'[t] = NoObject
      /\ \A u \in Tasks : u # t => dying'[u] = dying[u]
      /\ at' \in [Tasks -> {"idle", "check", "destroy"}] /\ at'[t] = "idle"
      /\ \A u \in Tasks : u # t => at'[u] = at[u]
    BY <1>1, <1>2 DEF StoreTypeOK
<1>5. StoreTypeOK'
    BY <1>1, <1>2, <1>3, <1>4, Zenon DEF StoreTypeOK
<1>6. ASSUME NEW j \in StoreSlots PROVE CountExact(j)' /\ Filled(j)' /\ Issues(j)'
    <2>1. CountExact(j) /\ Filled(j) /\ Issues(j)
        BY SlotFacts, Zenon
    <2>. QED BY <1>2, <2>1, Zenon DEF CountExact, Filled, Issues, HoldersOf
<1>7. ASSUME NEW u \in Tasks PROVE RefHolds(u)' /\ Busy(u)'
    <2>1. RefHolds(u) /\ Busy(u)
        BY Zenon DEF StoreInv
    <2>2. RefHolds(u)'
        BY <1>2, <2>1, Zenon DEF RefHolds, RefTo
    <2>3. Busy(u)'
        BY <1>2, <1>4, <2>1 DEF Busy
    <2>. QED BY <2>2, <2>3
<1>8. ASSUME NEW o \in StoreObjects PROVE OneHome(o)'
    <2>1. OneHome(o)
        BY Zenon DEF StoreInv
    <2>2. o # NoObject
        BY StoreAssumption
    <2>3. CASE o = dying[t]
        BY <1>2, <1>4, <2>1, <2>2, <2>3, ZenonT(40) DEF OneHome
    <2>4. CASE o # dying[t]
        <3>1. \A u \in Tasks : dying'[u] = o <=> dying[u] = o
            BY <1>4, <2>2, <2>4, Zenon
        <3>. QED BY <1>2, <2>1, <2>4, <3>1, HomeSame, Zenon
    <2>. QED BY <2>3, <2>4, Zenon
<1>9. OneSlotPerIdentity'
    BY <1>2, Zenon DEF StoreInv, OneSlotPerIdentity
<1>. QED BY <1>5, <1>6, <1>7, <1>8, <1>9, Zenon DEF StoreInv

-----------------------------------------------------------------------------
(* The invariant. *)

LEMMA StoreInvInitial == StoreInit => StoreInv
<1>. SUFFICES ASSUME StoreInit PROVE StoreInv
    OBVIOUS
<1>1. /\ \A i \in StoreSlots : /\ slots[i].state = "Free" /\ ~ Occupied(slots[i])
                               /\ slots[i].refs = 0 /\ slots[i].generation = 0
      /\ \A t \in Tasks : ref[t] = NoObject /\ at[t] = "idle" /\ dying[t] = NoObject
      /\ \A i \in StoreSlots, g \in 0 .. StoreMaxGeneration : issued[i][g] = 0
      /\ given = {} /\ owned = StoreObjects
    BY DEF StoreInit, Occupied
<1>2. StoreTypeOK
    <2>1. {i \in StoreSlots : Occupied(slots[i])} = {}
        BY <1>1, Zenon
    <2>2. live = Cardinality({i \in StoreSlots : Occupied(slots[i])})
        BY <2>1, FS_EmptySet, ZenonT(40) DEF StoreInit
    <2>3. slots \in [StoreSlots -> StoreSlot]
        BY StoreAssumption DEF StoreInit, StoreSlot
    <2>. QED BY <2>2, <2>3 DEF StoreInit, StoreTypeOK
<1>3. ASSUME NEW i \in StoreSlots PROVE CountExact(i) /\ Filled(i) /\ Issues(i)
    <2>1. HoldersOf(i) = {}
        BY <1>1, Zenon DEF HoldersOf
    <2>. QED BY <1>1, <2>1, FS_EmptySet, StoreAssumption DEF CountExact, Filled, Issues
<1>4. \A t \in Tasks : RefHolds(t) /\ Busy(t)
    BY <1>1 DEF RefHolds, Busy
<1>5. \A o \in StoreObjects : OneHome(o)
    BY <1>1, StoreAssumption DEF OneHome
<1>6. OneSlotPerIdentity
    BY <1>1, Zenon DEF OneSlotPerIdentity
<1>. QED BY <1>2, <1>3, <1>4, <1>5, <1>6, Zenon DEF StoreInv

LEMMA StoreInvPreserved == StoreInv /\ [StoreNext]_storeVars => StoreInv'
<1>. SUFFICES ASSUME StoreInv, [StoreNext]_storeVars PROVE StoreInv'
    OBVIOUS
<1>1. ASSUME NEW id, FindSlot(id) # {} PROVE Min(FindSlot(id)) \in StoreSlots
    <2>1. FindSlot(id) \subseteq StoreSlots
        BY Zenon DEF FindSlot
    <2>. QED BY <1>1, <2>1, MinIn, Zenon
<1>2. ASSUME NEW t \in Tasks, NEW id \in StoreIds, NEW kind \in StoreKinds, ResolveGet(t, id, kind)
      PROVE  StoreInv'
    BY <1>1, <1>2, AcquireKeeps, Zenon DEF ResolveGet
<1>3. ASSUME NEW t \in Tasks, NEW id \in StoreIds, Get(t, id)
      PROVE  StoreInv'
    BY <1>1, <1>3, AcquireKeeps, Zenon DEF Get
<1>4. ASSUME NEW t \in Tasks, NEW id \in StoreIds, NEW i \in StoreSlots,
             NEW g \in 0 .. StoreMaxGeneration, GetAt(t, i, g, id)
      PROVE  StoreInv'
    BY <1>4, AcquireKeeps, Zenon DEF GetAt
<1>5. ASSUME NEW t \in Tasks, Drop(t) PROVE StoreInv'
    BY <1>5, LetGoKeeps DEF Drop
<1>6. ASSUME NEW t \in Tasks, ResolveCheck(t) PROVE StoreInv'
    <2>1. Busy(t)
        BY Zenon DEF StoreInv
    <2>2. CASE ref[t].kind = want[t]
        BY <1>6, <2>2, CheckKeeps, Zenon DEF ResolveCheck
    <2>3. CASE ref[t].kind # want[t]
        BY <1>6, <2>1, <2>3, LetGoKeeps DEF ResolveCheck, Busy
    <2>. QED BY <2>2, <2>3, Zenon
<1>7. CASE UNCHANGED storeVars
    <2>1. UNCHANGED <<slots, live, ref, at, want, dying, given, owned, issued>>
        BY <1>7, Zenon DEF storeVars
    <2>2. StoreTypeOK'
        BY <2>1, Zenon DEF StoreInv, StoreTypeOK
    <2>3. ASSUME NEW i \in StoreSlots PROVE CountExact(i)' /\ Filled(i)' /\ Issues(i)'
        <3>1. CountExact(i) /\ Filled(i) /\ Issues(i)
            BY SlotFacts, Zenon
        <3>. QED BY <2>1, <3>1, Zenon DEF CountExact, HoldersOf, Filled, Issues
    <2>4. ASSUME NEW t \in Tasks PROVE RefHolds(t)' /\ Busy(t)'
        <3>1. RefHolds(t) /\ Busy(t)
            BY Zenon DEF StoreInv
        <3>. QED BY <2>1, <3>1, Zenon DEF RefHolds, RefTo, Busy
    <2>5. ASSUME NEW o \in StoreObjects PROVE OneHome(o)'
        <3>1. OneHome(o)
            BY Zenon DEF StoreInv
        <3>. QED BY <2>1, <3>1, HomeSame, Zenon
    <2>6. OneSlotPerIdentity'
        BY <2>1, Zenon DEF StoreInv, OneSlotPerIdentity
    <2>. QED BY <2>2, <2>3, <2>4, <2>5, <2>6, Zenon DEF StoreInv
<1>. QED
    BY <1>2, <1>3, <1>4, <1>5, <1>6, <1>7, InsertKeeps, RetireKeeps, CloneKeeps, DestroyKeeps,
        Zenon DEF StoreNext

\* One home is one place: the sum that ReferencesCounted takes.
LEMMA HomesCounted ==
    ASSUME NEW o \in StoreObjects, OneHome(o)
    PROVE  (IF o \in owned THEN 1 ELSE 0)
            + Cardinality({t \in Tasks : dying[t] = o})
            + Cardinality({i \in StoreSlots : Occupied(slots[i]) /\ slots[i].object = o})
           = 1
<1> DEFINE hands == {t \in Tasks : dying[t] = o}
           places == {i \in StoreSlots : Occupied(slots[i]) /\ slots[i].object = o}
<1>1. CASE o \in owned
    <2>1. hands = {} /\ places = {}
        BY <1>1, Zenon DEF OneHome
    <2>2. Cardinality(hands) = 0 /\ Cardinality(places) = 0
        BY <2>1, FS_EmptySet, Zenon
    <2>. HIDE DEF hands, places
    <2>3. (IF o \in owned THEN 1 ELSE 0) + Cardinality(hands) + Cardinality(places) = 1
        BY <1>1, <2>2
    <2>. QED BY <2>3 DEF hands, places
<1>2. ASSUME NEW t \in Tasks, dying[t] = o PROVE hands = {t} /\ places = {} /\ o \notin owned
    BY <1>2, Zenon DEF OneHome
<1>3. ASSUME NEW i \in StoreSlots, Occupied(slots[i]), slots[i].object = o
      PROVE  hands = {} /\ places = {i} /\ o \notin owned
    BY <1>3, Zenon DEF OneHome
<1>4. \A x : Cardinality({x}) = 1
    BY FS_Singleton, Zenon
<1>5. (\E t \in Tasks : dying[t] = o) =>
        Cardinality(hands) = 1 /\ Cardinality(places) = 0 /\ o \notin owned
    BY <1>2, <1>4, FS_EmptySet, Zenon
<1>6. (\E i \in StoreSlots : Occupied(slots[i]) /\ slots[i].object = o) =>
        Cardinality(hands) = 0 /\ Cardinality(places) = 1 /\ o \notin owned
    BY <1>3, <1>4, FS_EmptySet, Zenon
<1>7. \/ o \in owned
      \/ \E t \in Tasks : dying[t] = o
      \/ \E i \in StoreSlots : Occupied(slots[i]) /\ slots[i].object = o
    BY Zenon DEF OneHome
<1>. HIDE DEF hands, places
<1>8. CASE o \notin owned
    <2>1. (IF o \in owned THEN 1 ELSE 0) + Cardinality(hands) + Cardinality(places) = 1
        BY <1>5, <1>6, <1>7, <1>8
    <2>. QED BY <2>1 DEF hands, places
<1>. QED BY <1>1, <1>8, Zenon

\* Whatever interleaving of insert, get, get_at, resolve, try_clone, drop, retire
\* and destroy: an occupied slot's count is its references and the store's own, a
\* reference is to the object it was taken to, every object is in one place, an
\* identity in one slot, and a locator names one insertion.
THEOREM StoreAlwaysSound == StoreSpec => []StoreSound
<1>1. StoreInv => StoreSound
    <2>. SUFFICES ASSUME StoreInv PROVE StoreSound
        OBVIOUS
    <2>1. ReferencesCounted
        <3>1. \A i \in StoreSlots : CountExact(i)
            BY Zenon DEF StoreInv
        <3>2. \A t \in Tasks : RefHolds(t)
            BY Zenon DEF StoreInv
        <3>3. \A o \in StoreObjects : OneHome(o)
            BY Zenon DEF StoreInv
        <3>. QED BY <3>1, <3>2, <3>3, HomesCounted, Zenon
                 DEF ReferencesCounted, CountExact, HoldersOf, RefHolds
    <2>2. LocatorNamesOneInsertion
        BY Zenon DEF StoreInv, Issues, LocatorNamesOneInsertion
    <2>. QED BY <2>1, <2>2, Zenon DEF StoreInv, StoreSound
<1>. QED BY <1>1, StoreInvInitial, StoreInvPreserved, PTL DEF StoreSpec

-----------------------------------------------------------------------------
(* The store implements ObjectLifetime. *)

\* An object's stage, from where it is.
StageFollows(o) ==
    /\ \A i \in StoreSlots : slots[i].object = o /\ slots[i].state = "Live" => StageOf(o) = "live"
    /\ \A i \in StoreSlots :
        slots[i].object = o /\ slots[i].state = "Retiring" => StageOf(o) = "retiring"
    /\ \A t \in Tasks : dying[t] = o => StageOf(o) = "dying"
    /\ o \in owned => StageOf(o) = "owned"

LEMMA Stages == StoreInv => \A o \in StoreObjects : StageFollows(o)
<1>. SUFFICES ASSUME StoreInv, NEW o \in StoreObjects PROVE StageFollows(o)
    BY Zenon
<1>1. OneHome(o)
    BY Zenon DEF StoreInv
<1>2. ASSUME NEW i \in StoreSlots, slots[i].object = o, slots[i].state = "Retiring"
      PROVE  ~ \E j \in StoreSlots : slots[j].object = o /\ slots[j].state = "Live"
    <2>1. ASSUME NEW j \in StoreSlots, slots[j].object = o, slots[j].state = "Live" PROVE FALSE
        <3>1. j = i
            BY <1>1, <1>2, <2>1, Zenon DEF OneHome, Occupied
        <3>. QED BY <1>2, <2>1, <3>1
    <2>. QED BY <2>1, Zenon
<1>3. ASSUME \A j \in StoreSlots : ~ (Occupied(slots[j]) /\ slots[j].object = o)
      PROVE  /\ ~ \E j \in StoreSlots : slots[j].object = o /\ slots[j].state = "Live"
             /\ ~ \E j \in StoreSlots : slots[j].object = o /\ slots[j].state = "Retiring"
    BY <1>3, Zenon DEF Occupied
<1>4. \A t \in Tasks : dying[t] = o => StageOf(o) = "dying"
    BY <1>1, <1>3, Zenon DEF OneHome, StageOf
<1>5. o \in owned => StageOf(o) = "owned"
    BY <1>1, <1>3, Zenon DEF OneHome, StageOf
<1>6. \A i \in StoreSlots : slots[i].object = o /\ slots[i].state = "Live" => StageOf(o) = "live"
    BY Zenon DEF StageOf
<1>7. \A i \in StoreSlots : slots[i].object = o /\ slots[i].state = "Retiring" => StageOf(o) = "retiring"
    BY <1>2, Zenon DEF StageOf
<1>. QED BY <1>4, <1>5, <1>6, <1>7, Zenon DEF StageFollows

LEMMA StagesNext == StoreInv' => \A o \in StoreObjects : StageFollows(o)'
<1>1. (StoreInv => \A o \in StoreObjects : StageFollows(o))'
    BY Stages, PTL
<1>. QED BY <1>1, Zenon

\* An object whose place a step does not touch keeps its stage.
LEMMA SameStage ==
    ASSUME StoreInv, StoreInv', NEW o \in StoreObjects,
           o \in owned => o \in owned',
           \A t \in Tasks : dying[t] = o => dying'[t] = o,
           \A j \in StoreSlots : Occupied(slots[j]) /\ slots[j].object = o =>
               slots'[j].object = o /\ slots'[j].state = slots[j].state
    PROVE  StageOf(o)' = StageOf(o)
<1>1. OneHome(o) /\ StageFollows(o) /\ StageFollows(o)'
    BY Stages, StagesNext, Zenon DEF StoreInv
<1>2. CASE o \in owned
    BY <1>1, <1>2, Zenon DEF StageFollows
<1>3. ASSUME NEW t \in Tasks, dying[t] = o PROVE StageOf(o)' = StageOf(o)
    BY <1>1, <1>3, Zenon DEF StageFollows
<1>4. ASSUME NEW i \in StoreSlots, Occupied(slots[i]), slots[i].object = o
      PROVE  StageOf(o)' = StageOf(o)
    <2>1. slots[i].state = "Live" \/ slots[i].state = "Retiring"
        BY <1>4, Zenon DEF Occupied
    <2>2. slots'[i].object = o /\ slots'[i].state = slots[i].state
        BY <1>4, Zenon
    <2>3. CASE slots[i].state = "Live"
        BY <1>1, <1>4, <2>2, <2>3, Zenon DEF StageFollows
    <2>4. CASE slots[i].state = "Retiring"
        BY <1>1, <1>4, <2>2, <2>4, Zenon DEF StageFollows
    <2>. QED BY <2>1, <2>3, <2>4, Zenon
<1>. QED BY <1>1, <1>2, <1>3, <1>4, Zenon DEF OneHome

\* The stage of one object at most changes.
LEMMA StageChange ==
    ASSUME NEW o \in StoreObjects, NEW v, StageOf(o)' = v,
           \A x \in StoreObjects : x # o => StageOf(x)' = StageOf(x)
    PROVE  StoreStage' = [StoreStage EXCEPT ![o] = v]
BY ZenonT(40) DEF StoreStage

LEMMA StagesSame ==
    ASSUME \A x \in StoreObjects : StageOf(x)' = StageOf(x)
    PROVE  StoreStage' = StoreStage
BY Zenon DEF StoreStage

\* Whoever holds the object of a slot has a reference to the slot.
LEMMA HoldersAre ==
    ASSUME StoreInv, NEW i \in StoreSlots, Occupied(slots[i])
    PROVE  slots[i].object \in StoreObjects /\ StoreHolders[slots[i].object] = HoldersOf(i)
<1>1. slots[i].object \in StoreObjects /\ OneHome(slots[i].object)
    <2>1. slots[i].object \in StoreObjects
        BY SlotFacts, Zenon DEF Filled
    <2>. QED BY <2>1, Zenon DEF StoreInv
<1>2. ASSUME NEW t \in Tasks, ref[t] # NoObject
      PROVE  ref[t].object = slots[i].object <=> ref[t].index = i
    <2>1. PICK j \in StoreSlots : ref[t].index = j /\ ref[t] = RefTo(j) /\ Occupied(slots[j])
        BY <1>2, RefFacts, Zenon
    <2>2. ref[t].object = slots[j].object
        BY <2>1 DEF RefTo
    <2>. QED BY <1>1, <2>1, <2>2, Zenon DEF OneHome
<1>3. {t \in Tasks : ref[t] # NoObject /\ ref[t].object = slots[i].object} = HoldersOf(i)
    BY <1>2, Zenon DEF HoldersOf
<1>. QED BY <1>1, <1>3 DEF StoreHolders

LEMMA HoldersPut ==
    ASSUME ref \in [Tasks -> ObjRef \cup {NoObject}], NEW t \in Tasks, NEW r \in ObjRef,
           ref[t] = NoObject, ref' = [ref EXCEPT ![t] = r]
    PROVE  StoreHolders' = [StoreHolders EXCEPT ![r.object] = @ \cup {t}]
<1>1. r # NoObject /\ r.object \in StoreObjects
    BY StoreAssumption DEF ObjRef
<1>2. ASSUME NEW o \in StoreObjects
      PROVE  {u \in Tasks : ref'[u] # NoObject /\ ref'[u].object = o}
             = IF o = r.object
               THEN {u \in Tasks : ref[u] # NoObject /\ ref[u].object = o} \cup {t}
               ELSE {u \in Tasks : ref[u] # NoObject /\ ref[u].object = o}
    BY <1>1
<1>3. PICK F : F = StoreHolders
    BY Zenon
<1>4. PICK G : G = StoreHolders'
    BY Zenon
<1>5. /\ F = [o \in StoreObjects |-> F[o]] /\ G = [o \in StoreObjects |-> G[o]]
      /\ G[r.object] = F[r.object] \cup {t}
      /\ \A o \in StoreObjects : o # r.object => G[o] = F[o]
    BY <1>1, <1>2, <1>3, <1>4, Zenon DEF StoreHolders
<1>6. G = [F EXCEPT ![r.object] = F[r.object] \cup {t}]
    BY <1>1, <1>5, ZenonT(40)
<1>. QED BY <1>3, <1>4, <1>6, Zenon

LEMMA HoldersDrop ==
    ASSUME ref \in [Tasks -> ObjRef \cup {NoObject}], NEW t \in Tasks, NEW r \in ObjRef,
           ref[t] = r, ref' = [ref EXCEPT ![t] = NoObject]
    PROVE  StoreHolders' = [StoreHolders EXCEPT ![r.object] = @ \ {t}]
<1>1. r # NoObject /\ r.object \in StoreObjects
    BY StoreAssumption DEF ObjRef
<1>2. ASSUME NEW o \in StoreObjects
      PROVE  {u \in Tasks : ref'[u] # NoObject /\ ref'[u].object = o}
             = IF o = r.object
               THEN {u \in Tasks : ref[u] # NoObject /\ ref[u].object = o} \ {t}
               ELSE {u \in Tasks : ref[u] # NoObject /\ ref[u].object = o}
    BY <1>1
<1>3. PICK F : F = StoreHolders
    BY Zenon
<1>4. PICK G : G = StoreHolders'
    BY Zenon
<1>5. /\ F = [o \in StoreObjects |-> F[o]] /\ G = [o \in StoreObjects |-> G[o]]
      /\ G[r.object] = F[r.object] \ {t}
      /\ \A o \in StoreObjects : o # r.object => G[o] = F[o]
    BY <1>1, <1>2, <1>3, <1>4, Zenon DEF StoreHolders
<1>6. G = [F EXCEPT ![r.object] = F[r.object] \ {t}]
    BY <1>1, <1>5, ZenonT(40)
<1>. QED BY <1>3, <1>4, <1>6, Zenon

\* A task without a reference holds nothing.
LEMMA FreeTask ==
    ASSUME NEW t \in Tasks, ref[t] = NoObject
    PROVE  Lifetime!Free(t)
BY Zenon DEF Lifetime!Free, StoreHolders

LEMMA InsertPublishes ==
    ASSUME StoreInv, StoreInv', NEW t \in Tasks, NEW id \in StoreIds, NEW kind \in StoreKinds,
           NEW object \in StoreObjects, StoreInsert(t, id, kind, object)
    PROVE  Lifetime!Publish(object)
<1>1. PICK i \in StoreSlots :
        /\ slots[i].state = "Free"
        /\ slots' = [slots EXCEPT ![i] =
                        [generation |-> slots[i].generation, id |-> id, kind |-> kind,
                         object |-> object, refs |-> 1, state |-> "Live"]]
    <2>1. StoreFreeSlots # {} /\ StoreFreeSlots \subseteq StoreSlots
        BY Zenon DEF StoreInsert, StoreFreeSlots
    <2>2. Min(StoreFreeSlots) \in StoreFreeSlots
        BY <2>1, MinIn, Zenon
    <2>. QED BY <2>2, Zenon DEF StoreInsert, StoreFreeSlots
<1>2. /\ slots'[i].object = object /\ slots'[i].state = "Live"
      /\ \A j \in StoreSlots : j # i => slots'[j] = slots[j]
    BY <1>1 DEF StoreInv, StoreTypeOK
<1>3. /\ object \in owned /\ owned' = owned \ {object}
      /\ UNCHANGED <<ref, dying, given>>
    BY Zenon DEF StoreInsert
<1>4. StageOf(object) = "owned" /\ StageOf(object)' = "live"
    BY <1>2, <1>3, Stages, StagesNext, Zenon DEF StageFollows
<1>5. ASSUME NEW x \in StoreObjects, x # object PROVE StageOf(x)' = StageOf(x)
    <2>1. \A j \in StoreSlots : Occupied(slots[j]) => j # i
        BY <1>1 DEF Occupied
    <2>. QED BY <1>2, <1>3, <1>5, <2>1, SameStage, Zenon
<1>6. StoreStage' = [StoreStage EXCEPT ![object] = "live"] /\ StoreStage[object] = "owned"
    BY <1>4, <1>5, StageChange, Zenon DEF StoreStage
<1>7. StoreHolders' = StoreHolders
    BY <1>3, Zenon DEF StoreHolders
<1>. QED BY <1>3, <1>6, <1>7, Zenon DEF Lifetime!Publish

\* A count that goes up changes no stage.
LEMMA CountedStages ==
    ASSUME StoreInv, StoreInv', NEW i \in StoreSlots,
           slots' = [slots EXCEPT ![i].refs = @ + 1], dying' = dying, owned' = owned
    PROVE  StoreStage' = StoreStage
<1>1. \A j \in StoreSlots : slots'[j].object = slots[j].object /\ slots'[j].state = slots[j].state
    <2>1. slots[i] \in StoreSlot /\ slots \in [StoreSlots -> StoreSlot]
        BY Zenon DEF StoreInv, StoreTypeOK
    <2>2. PICK s : s = [slots[i] EXCEPT !.refs = slots[i].refs + 1]
        BY Zenon
    <2>3. s.object = slots[i].object /\ s.state = slots[i].state
        BY <2>1, <2>2 DEF StoreSlot
    <2>4. slots' = [slots EXCEPT ![i] = s]
        BY <2>2, Zenon
    <2>. QED BY <2>1, <2>3, <2>4, Zenon
<1>2. \A x \in StoreObjects : StageOf(x)' = StageOf(x)
    BY <1>1, SameStage, Zenon
<1>. QED BY <1>2, StagesSame, Zenon

LEMMA AcquireFinds ==
    ASSUME StoreInv, StoreInv', NEW t \in Tasks, NEW i \in StoreSlots, NEW kind,
           Acquire(t, i, kind)
    PROVE  \E o \in StoreObjects : Lifetime!Find(o, t)
<1>1. /\ ref[t] = NoObject /\ slots[i].state = "Live" /\ Occupied(slots[i])
      /\ slots' = [slots EXCEPT ![i].refs = @ + 1]
      /\ ref' = [ref EXCEPT ![t] = RefTo(i)]
      /\ UNCHANGED <<dying, given, owned>>
    BY Zenon DEF Acquire, Acquirable, Occupied
<1>2. RefTo(i) \in ObjRef /\ RefTo(i).object = slots[i].object /\ slots[i].object \in StoreObjects
    BY <1>1, SlotFacts, Zenon DEF RefTo, Filled
<1>3. PICK r \in ObjRef : r = RefTo(i)
    BY <1>2, Zenon
<1>4. StoreHolders' = [StoreHolders EXCEPT ![r.object] = @ \cup {t}]
    BY <1>1, <1>3, HoldersPut, Zenon DEF StoreInv, StoreTypeOK
<1>5. StoreStage' = StoreStage
    BY <1>1, CountedStages, Zenon
<1>6. StoreStage[r.object] = "live"
    BY <1>1, <1>2, <1>3, Stages, Zenon DEF StageFollows, StoreStage
<1>7. Lifetime!Find(r.object, t)
    BY <1>1, <1>4, <1>5, <1>6, FreeTask, Zenon DEF Lifetime!Find
<1>. QED BY <1>2, <1>3, <1>7, Zenon

LEMMA CloneShares ==
    ASSUME StoreInv, StoreInv', NEW t \in Tasks, NEW u \in Tasks, TryClone(t, u)
    PROVE  \E o \in StoreObjects : Lifetime!Share(o, t, u)
<1>1. PICK i \in StoreSlots : /\ ref[t].index = i /\ ref[t] = RefTo(i) /\ ref[t] \in ObjRef
                              /\ Occupied(slots[i])
    BY RefFacts, Zenon DEF TryClone
<1>2. /\ ref[u] = NoObject /\ ref[t] # NoObject
      /\ slots' = [slots EXCEPT ![i].refs = @ + 1]
      /\ ref' = [ref EXCEPT ![u] = ref[t]]
      /\ given' = given \cup {u} /\ UNCHANGED <<dying, owned>>
    BY <1>1, Zenon DEF TryClone
<1>3. PICK r \in ObjRef : r = ref[t]
    BY <1>1, Zenon
<1>4. r.object \in StoreObjects /\ StoreHolders' = [StoreHolders EXCEPT ![r.object] = @ \cup {u}]
    <2>1. r.object \in StoreObjects
        BY DEF ObjRef
    <2>. QED BY <1>2, <1>3, <2>1, HoldersPut, Zenon DEF StoreInv, StoreTypeOK
<1>5. StoreStage' = StoreStage
    BY <1>2, CountedStages, Zenon
<1>6. t \in StoreHolders[r.object]
    BY <1>2, <1>3, <1>4, Zenon DEF StoreHolders
<1>7. Lifetime!Share(r.object, t, u)
    BY <1>2, <1>4, <1>5, <1>6, FreeTask, Zenon DEF Lifetime!Share
<1>. QED BY <1>4, <1>7, Zenon

\* What a release does to the slot and the object in it.
LEMMA ReleaseEffect ==
    ASSUME StoreInv, NEW t \in Tasks, NEW i \in StoreSlots, NEW s \in StoreSlot,
           NEW r, Occupied(slots[i]), SameObject(s, slots[i]), at[t] # "destroy",
           Release(t, i, s, r)
    PROVE  /\ \A j \in StoreSlots : j # i => slots'[j] = slots[j]
           /\ \A u \in Tasks : u # t => dying'[u] = dying[u]
           /\ \A o \in StoreObjects : dying[t] # o
           /\ owned' = owned
           /\ s.refs = 1 /\ s.state = "Retiring" => dying'[t] = slots[i].object
           /\ ~ (s.refs = 1 /\ s.state = "Retiring") =>
                  slots'[i].object = slots[i].object /\ slots'[i].state = s.state
<1>1. slots \in [StoreSlots -> StoreSlot] /\ dying \in [Tasks -> StoreObjects \cup {NoObject}] /\ Busy(t)
    BY Zenon DEF StoreInv, StoreTypeOK
<1>2. \A o \in StoreObjects : dying[t] # o
    BY <1>1, StoreAssumption, Zenon DEF Busy
<1>3. CASE s.refs = 1 /\ s.state = "Retiring"
    BY <1>1, <1>2, <1>3, Zenon DEF Release, SameObject
<1>4. CASE ~ (s.refs = 1 /\ s.state = "Retiring")
    <2>1. \/ slots' = [slots EXCEPT ![i] = s]
          \/ slots' = [slots EXCEPT ![i] = [s EXCEPT !.refs = s.refs - 1]]
        BY <1>4, Zenon DEF Release
    <2>2. [s EXCEPT !.refs = s.refs - 1].object = s.object /\ [s EXCEPT !.refs = s.refs - 1].state = s.state
        BY DEF StoreSlot
    <2>3. slots'[i].object = s.object /\ slots'[i].state = s.state
        BY <1>1, <2>1, <2>2, Zenon
    <2>4. \A j \in StoreSlots : j # i => slots'[j] = slots[j]
        BY <1>1, <2>1, Zenon
    <2>. QED BY <1>1, <1>2, <1>4, <2>3, <2>4, Zenon DEF Release, SameObject
<1>. QED BY <1>3, <1>4, Zenon

LEMMA ReleaseLetsGo ==
    ASSUME StoreInv, StoreInv', NEW t \in Tasks, at[t] # "destroy", ref[t] # NoObject,
           Release(t, ref[t].index, slots[ref[t].index], NoObject)
    PROVE  \E o \in StoreObjects : Lifetime!LetGo(o, t)
<1>1. PICK i \in StoreSlots : /\ ref[t].index = i /\ ref[t] = RefTo(i) /\ ref[t] \in ObjRef
                              /\ Occupied(slots[i])
    BY RefFacts, Zenon
<1>2. PICK o \in StoreObjects : o = slots[i].object
    BY <1>1, HoldersAre, Zenon
<1>3. /\ Release(t, i, slots[i], NoObject) /\ ref' = [ref EXCEPT ![t] = NoObject]
      /\ given' = given \ {t}
    BY <1>1, Zenon DEF Release
<1>4. StoreHolders' = [StoreHolders EXCEPT ![o] = @ \ {t}]
    <2>1. PICK r \in ObjRef : r = ref[t]
        BY <1>1, Zenon
    <2>2. r.object = o
        BY <1>1, <1>2, <2>1 DEF RefTo
    <2>. QED BY <1>3, <2>1, <2>2, HoldersDrop, Zenon DEF StoreInv, StoreTypeOK
<1>5. StoreHolders[o] = HoldersOf(i) /\ t \in HoldersOf(i)
    BY <1>1, <1>2, HoldersAre, Zenon DEF HoldersOf
<1>6. slots[i] \in StoreSlot /\ slots[i].refs \in Nat /\ CountExact(i) /\ SameObject(slots[i], slots[i])
    BY SlotFacts, Zenon DEF SameObject
<1>7. /\ \A j \in StoreSlots : j # i => slots'[j] = slots[j]
      /\ \A u \in Tasks : u # t => dying'[u] = dying[u]
      /\ \A x \in StoreObjects : dying[t] # x
      /\ owned' = owned
      /\ slots[i].refs = 1 /\ slots[i].state = "Retiring" => dying'[t] = o
      /\ ~ (slots[i].refs = 1 /\ slots[i].state = "Retiring") =>
            slots'[i].object = o /\ slots'[i].state = slots[i].state
    <2>1. PICK s \in StoreSlot : s = slots[i]
        BY <1>6, Zenon
    <2>2. Release(t, i, s, NoObject) /\ SameObject(s, slots[i])
        BY <1>3, <1>6, <2>1, Zenon
    <2>3. /\ \A j \in StoreSlots : j # i => slots'[j] = slots[j]
          /\ \A u \in Tasks : u # t => dying'[u] = dying[u]
          /\ \A x \in StoreObjects : dying[t] # x
          /\ owned' = owned
          /\ s.refs = 1 /\ s.state = "Retiring" => dying'[t] = slots[i].object
          /\ ~ (s.refs = 1 /\ s.state = "Retiring") =>
                slots'[i].object = slots[i].object /\ slots'[i].state = s.state
        BY <1>1, <2>2, ReleaseEffect
    <2>. QED BY <1>2, <2>1, <2>3, Zenon
<1>8. ASSUME NEW x \in StoreObjects, x # o PROVE StageOf(x)' = StageOf(x)
    BY <1>2, <1>7, <1>8, SameStage, Zenon
<1>9. StageFollows(o) /\ StageFollows(o)'
    BY Stages, StagesNext, Zenon
<1>10. Cardinality(HoldersOf(i)) \in Nat /\ IsFiniteSet(HoldersOf(i))
    BY HoldersFinite, Zenon
<1>11. slots[i].state = "Retiring" => (slots[i].refs = 1 <=> HoldersOf(i) = {t})
    <2>1. Cardinality(HoldersOf(i)) = 1 <=> \E x : HoldersOf(i) = {x}
        BY <1>10, FS_Singleton, Zenon
    <2>2. Cardinality(HoldersOf(i)) = 1 <=> HoldersOf(i) = {t}
        BY <1>5, <2>1, Zenon
    <2>. QED BY <1>6, <1>10, <2>2 DEF CountExact
<1>12. slots[i].state = "Live" \/ slots[i].state = "Retiring"
    BY <1>1, Zenon DEF Occupied
<1>13. (slots[i].state = "Live" => StoreStage[o] = "live") /\ (slots[i].state = "Retiring" => StoreStage[o] = "retiring")
    BY <1>2, <1>9, Zenon DEF StageFollows, StoreStage
<1>14. StageOf(o)' = IF StoreStage[o] = "retiring" /\ StoreHolders[o] = {t} THEN "dying" ELSE StoreStage[o]
    <2>1. CASE slots[i].refs = 1 /\ slots[i].state = "Retiring"
        BY <1>5, <1>7, <1>9, <1>11, <1>13, <2>1, Zenon DEF StageFollows
    <2>2. CASE ~ (slots[i].refs = 1 /\ slots[i].state = "Retiring")
        <3>1. ~ (StoreStage[o] = "retiring" /\ StoreHolders[o] = {t})
            BY <1>5, <1>11, <1>12, <1>13, <2>2, SMTT(30)
        <3>2. StageOf(o)' = StoreStage[o]
            BY <1>7, <1>9, <1>12, <1>13, <2>2, Zenon DEF StageFollows
        <3>. QED BY <3>1, <3>2, Zenon
    <2>. QED BY <2>1, <2>2, Zenon
<1>15. PICK v : v = IF StoreStage[o] = "retiring" /\ StoreHolders[o] = {t} THEN "dying" ELSE StoreStage[o]
    BY Zenon
<1>16. StoreStage' = [StoreStage EXCEPT ![o] = v]
    BY <1>8, <1>14, <1>15, StageChange, Zenon
<1>17. Lifetime!LetGo(o, t)
    BY <1>3, <1>4, <1>5, <1>15, <1>16, Zenon DEF Lifetime!LetGo
<1>. QED BY <1>17, Zenon

LEMMA RetireRetires ==
    ASSUME StoreInv, StoreInv', NEW t \in Tasks, NEW id \in StoreIds, Retire(t, id)
    PROVE  \E o \in StoreObjects : Lifetime!Retire(o)
<1> DEFINE s(i) == [slots[i] EXCEPT !.state = "Retiring"]
<1>1. PICK i \in StoreSlots : slots[i].state = "Live" /\ Release(t, i, s(i), ref[t])
    <2>1. FindSlot(id) # {} /\ FindSlot(id) \subseteq StoreSlots
        BY Zenon DEF Retire, FindSlot
    <2>. QED BY <2>1, MinIn, Zenon DEF Retire
<1>2. slots[i] \in StoreSlot /\ slots[i].refs \in Nat /\ CountExact(i) /\ Occupied(slots[i])
    BY <1>1, SlotFacts, Zenon DEF Occupied
<1>3. PICK n \in StoreSlot : /\ n = s(i) /\ n.refs = slots[i].refs /\ n.state = "Retiring"
                             /\ SameObject(n, slots[i])
    BY <1>2, WithState, Zenon
<1>4. Release(t, i, n, ref[t])
    BY <1>1, <1>3, Zenon
<1>. HIDE DEF s
<1>5. PICK o \in StoreObjects : o = slots[i].object /\ StoreHolders[o] = HoldersOf(i)
    BY <1>2, HoldersAre, Zenon
<1>6. at[t] # "destroy" /\ ref' = ref /\ given' = given
    <2>1. at[t] = "idle" /\ Busy(t) /\ ref \in [Tasks -> ObjRef \cup {NoObject}]
        BY Zenon DEF Retire, StoreInv, StoreTypeOK
    <2>2. ref' = [ref EXCEPT ![t] = ref[t]] /\ given' = IF ref[t] = NoObject THEN given \ {t} ELSE given
        BY <1>4, Zenon DEF Release
    <2>. QED BY <2>1, <2>2 DEF Busy
<1>7. /\ \A j \in StoreSlots : j # i => slots'[j] = slots[j]
      /\ \A u \in Tasks : u # t => dying'[u] = dying[u]
      /\ \A x \in StoreObjects : dying[t] # x
      /\ owned' = owned
      /\ n.refs = 1 => dying'[t] = o
      /\ n.refs # 1 => slots'[i].object = o /\ slots'[i].state = "Retiring"
    <2>1. /\ \A j \in StoreSlots : j # i => slots'[j] = slots[j]
          /\ \A u \in Tasks : u # t => dying'[u] = dying[u]
          /\ \A x \in StoreObjects : dying[t] # x
          /\ owned' = owned
          /\ n.refs = 1 /\ n.state = "Retiring" => dying'[t] = slots[i].object
          /\ ~ (n.refs = 1 /\ n.state = "Retiring") =>
                slots'[i].object = slots[i].object /\ slots'[i].state = n.state
        BY <1>2, <1>3, <1>4, <1>6, ReleaseEffect, ZenonT(40)
    <2>. QED BY <1>3, <1>5, <2>1, Zenon
<1>8. ASSUME NEW x \in StoreObjects, x # o PROVE StageOf(x)' = StageOf(x)
    BY <1>5, <1>7, <1>8, SameStage, Zenon
<1>9. StageFollows(o) /\ StageFollows(o)'
    BY Stages, StagesNext, Zenon
<1>10. n.refs = 1 <=> StoreHolders[o] = {}
    <2>1. Cardinality(HoldersOf(i)) \in Nat /\ (Cardinality(HoldersOf(i)) = 0 <=> HoldersOf(i) = {})
        BY HoldersFinite, FS_EmptySet, Zenon
    <2>. QED BY <1>1, <1>2, <1>3, <1>5, <2>1 DEF CountExact
<1>11. StageOf(o)' = IF StoreHolders[o] = {} THEN "dying" ELSE "retiring"
    BY <1>7, <1>9, <1>10, Zenon DEF StageFollows
<1>12. StoreStage[o] = "live"
    BY <1>1, <1>5, <1>9, Zenon DEF StageFollows, StoreStage
<1>13. PICK v : v = IF StoreHolders[o] = {} THEN "dying" ELSE "retiring"
    BY Zenon
<1>14. StoreStage' = [StoreStage EXCEPT ![o] = v]
    BY <1>8, <1>11, <1>13, StageChange, Zenon
<1>15. StoreHolders' = StoreHolders
    BY <1>6, Zenon DEF StoreHolders
<1>. QED BY <1>6, <1>12, <1>13, <1>14, <1>15, Zenon DEF Lifetime!Retire

LEMMA DestroyDestroys ==
    ASSUME StoreInv, StoreInv', NEW t \in Tasks, Destroy(t)
    PROVE  \E o \in StoreObjects : Lifetime!Destroy(o)
<1>1. /\ at[t] = "destroy" /\ owned' = owned \cup {dying[t]}
      /\ dying' = [dying EXCEPT ![t] = NoObject] /\ UNCHANGED <<slots, ref, given>>
      /\ dying \in [Tasks -> StoreObjects \cup {NoObject}] /\ Busy(t)
    BY Zenon DEF Destroy, StoreInv, StoreTypeOK
<1>2. PICK o \in StoreObjects : o = dying[t]
    BY <1>1 DEF Busy
<1>3. StageFollows(o) /\ StageFollows(o)'
    BY Stages, StagesNext, Zenon
<1>4. StageOf(o) = "dying" /\ StageOf(o)' = "owned"
    BY <1>1, <1>2, <1>3, Zenon DEF StageFollows
<1>5. ASSUME NEW x \in StoreObjects, x # o PROVE StageOf(x)' = StageOf(x)
    <2>1. \A u \in Tasks : dying[u] = x => dying'[u] = x
        BY <1>1, <1>2, <1>5, Zenon
    <2>. QED BY <1>1, <2>1, SameStage, Zenon
<1>6. StoreStage' = [StoreStage EXCEPT ![o] = "owned"] /\ StoreStage[o] = "dying"
    BY <1>4, <1>5, StageChange, Zenon DEF StoreStage
<1>7. StoreHolders' = StoreHolders
    BY <1>1, Zenon DEF StoreHolders
<1>. QED BY <1>1, <1>6, <1>7, Zenon DEF Lifetime!Destroy

\* The store implements ObjectLifetime: insert publishes, get, get_at and resolve
\* find what is live, try_clone shares, a drop lets go, retire retires, and the
\* task that takes the last reference of a retired object destroys it, once.
THEOREM StoreIsALifetime == StoreSpec => StoreImplementsLifetime
<1>1. StoreInit => Lifetime!Init
    <2>. SUFFICES ASSUME StoreInit PROVE Lifetime!Init
        OBVIOUS
    <2>1. StoreInv
        BY StoreInvInitial, Zenon
    <2>2. \A o \in StoreObjects : StageOf(o) = "owned"
        BY <2>1, Stages, Zenon DEF StoreInit, StageFollows
    <2>3. \A t \in Tasks : ref[t] = NoObject
        BY Zenon DEF StoreInit
    <2>4. StoreStage = [o \in StoreObjects |-> "owned"]
        BY <2>2, Zenon DEF StoreStage
    <2>5. \A o \in StoreObjects : {t \in Tasks : ref[t] # NoObject /\ ref[t].object = o} = {}
        BY <2>3, Zenon
    <2>6. StoreHolders = [o \in StoreObjects |-> {}]
        BY <2>5, Zenon DEF StoreHolders
    <2>. QED BY <2>4, <2>6, Zenon DEF Lifetime!Init, StoreInit
<1>2. StoreInv /\ StoreInv' /\ [StoreNext]_storeVars => [Lifetime!Next]_(Lifetime!vars)
    <2>. SUFFICES ASSUME StoreInv, StoreInv', [StoreNext]_storeVars
                  PROVE  [Lifetime!Next]_(Lifetime!vars)
        OBVIOUS
    <2>1. ASSUME NEW id, FindSlot(id) # {} PROVE Min(FindSlot(id)) \in StoreSlots
        <3>1. FindSlot(id) \subseteq StoreSlots
            BY Zenon DEF FindSlot
        <3>. QED BY <2>1, <3>1, MinIn, Zenon
    <2>2. ASSUME NEW t \in Tasks, NEW i \in StoreSlots, NEW kind, Acquire(t, i, kind)
          PROVE  Lifetime!Next
        BY <2>2, AcquireFinds, Zenon DEF Lifetime!Next
    <2>3. ASSUME NEW t \in Tasks, NEW id, NEW kind,
                 \/ ResolveGet(t, id, kind) \/ Get(t, id)
                 \/ \E i \in StoreSlots, g \in 0 .. StoreMaxGeneration : GetAt(t, i, g, id)
          PROVE  Lifetime!Next
        BY <2>1, <2>2, <2>3, Zenon DEF ResolveGet, Get, GetAt
    <2>4. ASSUME NEW t \in Tasks, at[t] # "destroy", ref[t] # NoObject,
                 Release(t, ref[t].index, slots[ref[t].index], NoObject)
          PROVE  Lifetime!Next
        BY <2>4, ReleaseLetsGo, Zenon DEF Lifetime!Next
    <2>5. ASSUME UNCHANGED <<slots, ref, dying, given>> PROVE UNCHANGED Lifetime!vars
        BY <2>5, Zenon DEF Lifetime!vars, StoreStage, StoreHolders, StageOf
    <2>6. ASSUME NEW t \in Tasks, Drop(t) PROVE Lifetime!Next
        BY <2>4, <2>6 DEF Drop
    <2>7. ASSUME NEW t \in Tasks, ResolveCheck(t) PROVE [Lifetime!Next]_(Lifetime!vars)
        <3>1. Busy(t) /\ at[t] = "check"
            BY <2>7, Zenon DEF StoreInv, ResolveCheck
        <3>2. CASE ref[t].kind = want[t]
            BY <2>5, <2>7, <3>2, Zenon DEF ResolveCheck
        <3>3. CASE ref[t].kind # want[t]
            BY <2>4, <2>7, <3>1, <3>3 DEF ResolveCheck, Busy
        <3>. QED BY <3>2, <3>3, Zenon
    <2>8. ASSUME NEW t \in Tasks, NEW id \in StoreIds, NEW kind \in StoreKinds,
                 NEW object \in StoreObjects, StoreInsert(t, id, kind, object)
          PROVE  Lifetime!Next
        BY <2>8, InsertPublishes, Zenon DEF Lifetime!Next
    <2>9. ASSUME NEW t \in Tasks, NEW id \in StoreIds, Retire(t, id) PROVE Lifetime!Next
        BY <2>9, RetireRetires, Zenon DEF Lifetime!Next
    <2>10. ASSUME NEW t \in Tasks, NEW u \in Tasks, TryClone(t, u) PROVE Lifetime!Next
        BY <2>10, CloneShares, Zenon DEF Lifetime!Next
    <2>11. ASSUME NEW t \in Tasks, Destroy(t) PROVE Lifetime!Next
        BY <2>11, DestroyDestroys, Zenon DEF Lifetime!Next
    <2>12. CASE UNCHANGED storeVars
        BY <2>5, <2>12, Zenon DEF storeVars
    <2>. QED BY <2>3, <2>6, <2>7, <2>8, <2>9, <2>10, <2>11, <2>12, Zenon DEF StoreNext
<1>. QED BY <1>1, <1>2, StoreInvInitial, StoreInvPreserved, PTL
         DEF StoreSpec, StoreImplementsLifetime, Lifetime!Spec
=============================================================================
