----------------------------- MODULE ObjectStore -----------------------------
(***************************************************************************)
(* The object store (kernel/kobject/src/store.rs): a fixed array of slots  *)
(* behind one lock, counted references to the objects in it, and a destroy *)
(* callback that runs after the lock is dropped.                           *)
(*                                                                         *)
(* One action is one critical section of the store's lock.  A task holds   *)
(* at most one ObjRef; what a task still has to do after the lock (compare *)
(* the type it resolved, call destroy) is its `at`.                        *)
(***************************************************************************)
EXTENDS Integers, FiniteSets, FiniteSetsExt

CONSTANTS
    StoreN,              \* slots
    StoreMaxGeneration,  \* MAX_GENERATION: the generation at which a slot is worn
    StoreMaxRefs,        \* u32::MAX: the largest reference count
    StoreIds,            \* object identities
    StoreKinds,          \* object types
    StoreObjects,        \* the objects themselves, memory that belongs to an owner
    Tasks,
    NoObject             \* no object, no reference, no type

StoreSlots == 0 .. StoreN - 1

ObjRef == [index : StoreSlots, id : StoreIds, kind : StoreKinds, object : StoreObjects]

ASSUME StoreAssumption ==
    /\ StoreN \in Nat \ {0}
    /\ StoreMaxGeneration \in Nat \ {0}
    /\ StoreMaxRefs \in Nat \ {0}
    /\ IsFiniteSet(Tasks)
    /\ NoObject \notin StoreObjects \cup StoreIds \cup StoreKinds \cup ObjRef

VARIABLES
    slots,  \* Table::slots
    live,   \* Table::live
    ref,    \* per task: its ObjRef, or NoObject
    at,     \* per task: "idle", "check" (in resolve) or "destroy"
    want,   \* per task in "check": the type resolve was asked for
    dying,  \* per task in "destroy": the object its release returned
    given,  \* history: the tasks whose ObjRef is a clone
    owned,  \* history: the objects that are with their owner, not in the store
    issued  \* history, per slot and generation: how many insertions used it

storeVars == <<slots, live, ref, at, want, dying, given, owned, issued>>

StoreSlot ==
        [generation : 0 .. StoreMaxGeneration,
         id : StoreIds \cup {NoObject}, kind : StoreKinds \cup {NoObject},
         object : StoreObjects \cup {NoObject},
         refs : 0 .. StoreMaxRefs,
         state : {"Free", "Live", "Retiring", "Worn"}]

Occupied(s) == s.state \in {"Live", "Retiring"}

\* Where an identity is.  The code takes the first; OneSlotPerIdentity says
\* there is no other.
FindSlot(id) == {i \in StoreSlots : slots[i].id = id /\ Occupied(slots[i])}

StoreFreeSlots == {i \in StoreSlots : slots[i].state = "Free"}

RefTo(i) == [index |-> i, id |-> slots[i].id, kind |-> slots[i].kind,
             object |-> slots[i].object]

\* The identity, type and object of a slot that was never filled are
\* placeholders (identity zero is never issued).
StoreInit ==
    /\ slots = [i \in StoreSlots |-> [generation |-> 0, id |-> NoObject, kind |-> NoObject,
                                 object |-> NoObject, refs |-> 0, state |-> "Free"]]
    /\ live = 0
    /\ ref = [t \in Tasks |-> NoObject]
    /\ at = [t \in Tasks |-> "idle"]
    /\ want = [t \in Tasks |-> NoObject]
    /\ dying = [t \in Tasks |-> NoObject]
    /\ given = {}
    /\ owned = StoreObjects
    /\ issued = [i \in StoreSlots |-> [g \in 0 .. StoreMaxGeneration |-> 0]]

-----------------------------------------------------------------------------
\* insert: the first free slot, with the store's own reference.
StoreInsert(t, id, kind, object) ==
    /\ at[t] = "idle"
    /\ object \in owned
    /\ FindSlot(id) = {}
    /\ StoreFreeSlots # {}
    /\ LET i == Min(StoreFreeSlots)
           g == slots[i].generation
       IN  /\ slots' = [slots EXCEPT ![i] =
                          [generation |-> g, id |-> id, kind |-> kind,
                           object |-> object, refs |-> 1, state |-> "Live"]]
           /\ issued' = [issued EXCEPT ![i][g] = @ + 1]
    /\ live' = live + 1
    /\ owned' = owned \ {object}
    /\ UNCHANGED <<ref, at, want, dying, given>>

AcquirableRetiring(i) ==    \* mutant: finds what is being retired
    Occupied(slots[i]) /\ slots[i].refs < StoreMaxRefs

\* acquire: a live object whose count is not at its maximum.
Acquirable(i) == slots[i].state = "Live" /\ slots[i].refs < StoreMaxRefs

\* get and get_at end here, with nothing left to do; resolve, which wants a
\* kind, has the comparison to do.
Acquire(t, i, kind) ==
    /\ at[t] = "idle"
    /\ ref[t] = NoObject
    /\ Acquirable(i)
    /\ slots' = [slots EXCEPT ![i].refs = @ + 1]
    /\ ref' = [ref EXCEPT ![t] = RefTo(i)]
    /\ at' = [at EXCEPT ![t] = IF kind = NoObject THEN "idle" ELSE "check"]
    /\ want' = [want EXCEPT ![t] = kind]
    /\ UNCHANGED <<live, dying, given, owned, issued>>

Get(t, id) ==
    /\ FindSlot(id) # {}
    /\ Acquire(t, Min(FindSlot(id)), NoObject)

\* get_at: a locator is a slot and a generation.
GetAt(t, i, g, id) ==
    /\ slots[i].generation = g
    /\ slots[i].id = id
    /\ Acquire(t, i, NoObject)

\* resolve, up to the comparison of the types: the entry named id.
ResolveGet(t, id, kind) ==
    /\ FindSlot(id) # {}
    /\ Acquire(t, Min(FindSlot(id)), kind)

VacatedSameGeneration(s) == [s EXCEPT !.refs = 0, !.state = "Free"]    \* mutant

\* A slot given up for good: a new generation, or worn out.
Vacated(s) ==
    [s EXCEPT !.refs = 0,
              !.generation = s.generation + 1,
              !.state = IF s.generation + 1 >= StoreMaxGeneration THEN "Worn"
                                                             ELSE "Free"]

\* Table::release of slot i, already updated to s, on behalf of task t, whose
\* ObjRef becomes r: the last reference of a retiring object vacates the slot
\* and leaves t to call destroy.
Release(t, i, s, r) ==
    LET vacates == s.refs = 1 /\ s.state = "Retiring"
    IN  /\ slots' = [slots EXCEPT ![i] =
                        IF vacates THEN Vacated(s)
                        ELSE IF s.refs = 0 THEN s
                        ELSE [s EXCEPT !.refs = @ - 1]]
        /\ live' = IF vacates THEN live - 1 ELSE live
        /\ ref' = [ref EXCEPT ![t] = r]
        /\ at' = [at EXCEPT ![t] = IF vacates THEN "destroy" ELSE "idle"]
        /\ dying' = [dying EXCEPT ![t] = IF vacates THEN s.object ELSE NoObject]
        /\ want' = [want EXCEPT ![t] = NoObject]
        /\ given' = IF r = NoObject THEN given \ {t} ELSE given
        /\ UNCHANGED <<owned, issued>>

\* ObjRef::drop.
Drop(t) ==
    /\ at[t] = "idle"
    /\ ref[t] # NoObject
    /\ Release(t, ref[t].index, slots[ref[t].index], NoObject)

\* resolve's last step: the reference is kept if the type is right and dropped,
\* perhaps as the last one, if it is not.
ResolveCheck(t) ==
    /\ at[t] = "check"
    /\ \/ /\ ref[t].kind = want[t]
          /\ at' = [at EXCEPT ![t] = "idle"]
          /\ want' = [want EXCEPT ![t] = NoObject]
          /\ UNCHANGED <<slots, live, ref, dying, given, owned, issued>>
       \/ /\ ref[t].kind # want[t]
          /\ Release(t, ref[t].index, slots[ref[t].index], NoObject)

\* try_clone; the clone goes to task u.
TryClone(t, u) ==
    /\ at[t] = "idle" /\ at[u] = "idle"
    /\ ref[t] # NoObject /\ ref[u] = NoObject
    /\ slots[ref[t].index].refs < StoreMaxRefs
    /\ slots' = [slots EXCEPT ![ref[t].index].refs = @ + 1]
    /\ ref' = [ref EXCEPT ![u] = ref[t]]
    /\ given' = given \cup {u}
    /\ UNCHANGED <<live, at, want, dying, owned, issued>>

\* retire: the store gives up its own reference.
Retire(t, id) ==
    /\ at[t] = "idle"
    /\ FindSlot(id) # {}
    /\ LET i == Min(FindSlot(id))
       IN  /\ slots[i].state = "Live"
           /\ Release(t, i, [slots[i] EXCEPT !.state = "Retiring"], ref[t])

\* The destroy callback, with no lock held: the owner has its memory back.
Destroy(t) ==
    /\ at[t] = "destroy"
    /\ owned' = owned \cup {dying[t]}
    /\ dying' = [dying EXCEPT ![t] = NoObject]
    /\ at' = [at EXCEPT ![t] = "idle"]
    /\ UNCHANGED <<slots, live, ref, want, given, issued>>

StoreNext ==
    \E t \in Tasks :
        \/ \E id \in StoreIds, kind \in StoreKinds :
            \/ \E object \in StoreObjects : StoreInsert(t, id, kind, object)
            \/ ResolveGet(t, id, kind)
        \/ \E id \in StoreIds :
            \/ Get(t, id)
            \/ \E i \in StoreSlots, g \in 0 .. StoreMaxGeneration : GetAt(t, i, g, id)
            \/ Retire(t, id)
        \/ ResolveCheck(t)
        \/ Drop(t)
        \/ \E u \in Tasks : TryClone(t, u)
        \/ Destroy(t)

StoreSpec == StoreInit /\ [][StoreNext]_storeVars
-----------------------------------------------------------------------------
StoreTypeOK ==
    /\ slots \in [StoreSlots -> StoreSlot]
    /\ live = Cardinality({i \in StoreSlots : Occupied(slots[i])})
    /\ ref \in [Tasks -> ObjRef \cup {NoObject}]
    /\ at \in [Tasks -> {"idle", "check", "destroy"}]
    /\ want \in [Tasks -> StoreKinds \cup {NoObject}]
    /\ dying \in [Tasks -> StoreObjects \cup {NoObject}]
    /\ given \subseteq Tasks
    /\ owned \subseteq StoreObjects
    /\ issued \in [StoreSlots -> [0 .. StoreMaxGeneration -> Nat]]

\* References and objects are accounted for.  An occupied slot's count is its
\* ObjRefs, plus one for the store while the object is live, so a live object's
\* count never reaches zero, as Table::release asserts; whatever an ObjRef
\* points to is still the object, under the identity and the type it was found
\* with; and every object is in one place: with its owner, in one slot, or in
\* the hands of the one task that is about to destroy it.
ReferencesCounted ==
    /\ \A i \in StoreSlots :
        slots[i].refs =
            Cardinality({t \in Tasks : ref[t] # NoObject /\ ref[t].index = i})
                + IF slots[i].state = "Live" THEN 1 ELSE 0
    /\ \A t \in Tasks :
        ref[t] # NoObject => /\ Occupied(slots[ref[t].index])
                             /\ RefTo(ref[t].index) = ref[t]
    /\ \A o \in StoreObjects :
        (IF o \in owned THEN 1 ELSE 0)
            + Cardinality({t \in Tasks : dying[t] = o})
            + Cardinality({i \in StoreSlots : Occupied(slots[i]) /\ slots[i].object = o})
        = 1

\* A locator is issued by one insertion only, the one whose object its slot
\* holds while the generations agree: get_at never finds a slot's next
\* occupant, however often slots are reused.
LocatorNamesOneInsertion ==
    \A i \in StoreSlots :
        /\ \A g \in 0 .. StoreMaxGeneration : issued[i][g] <= 1
        /\ Occupied(slots[i]) => issued[i][slots[i].generation] = 1

\* find takes the first slot an identity is in, and there is no other: insert
\* refuses an identity that is still live or retiring.
OneSlotPerIdentity ==
    \A i, j \in StoreSlots :
        Occupied(slots[i]) /\ Occupied(slots[j]) /\ slots[i].id = slots[j].id => i = j

\* The store accounts for every reference and every object, has an identity
\* once, and finds by a locator the insertion it was issued for or nothing
\* (store.rs: release, insert, get_at).
StoreSound == ReferencesCounted /\ OneSlotPerIdentity /\ LocatorNamesOneInsertion

-----------------------------------------------------------------------------
(* The store implements the lifetime an object is promised. *)

StageOf(o) ==
    IF \E i \in StoreSlots : slots[i].object = o /\ slots[i].state = "Live"
    THEN "live"
    ELSE IF \E i \in StoreSlots : slots[i].object = o /\ slots[i].state = "Retiring"
    THEN "retiring"
    ELSE IF \E t \in Tasks : dying[t] = o THEN "dying" ELSE "owned"

StoreStage == [o \in StoreObjects |-> StageOf(o)]

StoreHolders ==
    [o \in StoreObjects |-> {t \in Tasks : ref[t] # NoObject /\ ref[t].object = o}]

Lifetime ==
    INSTANCE ObjectLifetime WITH
        Objects <- StoreObjects, stage <- StoreStage, holders <- StoreHolders

\* The store implements ObjectLifetime: an object is found only while live,
\* stays alive while held, and is destroyed once, after its last holder.
StoreImplementsLifetime == Lifetime!Spec
=============================================================================
