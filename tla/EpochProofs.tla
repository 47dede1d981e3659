----------------------------- MODULE EpochProofs -----------------------------
(***************************************************************************)
(* NeverReclaimedWhileRead and FlushLeavesNothing of Epoch, for any number *)
(* of CPUs and nodes and any size of the bags, when flush is called at     *)
(* quiescent points, as epoch.rs asks.                                     *)
(*                                                                         *)
(* The argument goes by the epoch b that was current when a reader stored  *)
(* its state word.  From then on the global epoch leaves b once at most:   *)
(* the scan that has passed the reader already ends at b + 1, and the next *)
(* one finds the reader behind.  What the reader loads is unlinked later,  *)
(* so its stamp is b or b + 1, and no process's epoch is two after that.   *)
(* Epochs are counted modulo M, so nothing is said of which is larger,     *)
(* except for flush: there they are counted from FirstEpoch, which the     *)
(* bound MaxEpoch keeps from coming round.                                 *)
(***************************************************************************)
EXTENDS Epoch, TLAPS

Inc(e) == (e + 1) % M

PlaceType == [pc : {"out", "pin", "in", "advance", "scan", "load", "take",
                    "room", "swap", "stamp", "push"},
              ret : {"in", "room", "stamp"}, tries : Nat, seen : Epochs, at : 0 .. N]

EpochType ==
    /\ global \in Epochs
    /\ state \in [Cpus -> [epoch : Epochs, active : BOOLEAN]]
    /\ depth \in [Cpus -> Nat]
    /\ bags \in [Cpus -> SUBSET [node : Nodes, epoch : Epochs]]
    /\ advancing \in Processes \cup {Null}
    /\ ptr \in Nodes \cup {Null}
    /\ owed \in [Cpus -> Nodes \cup {Null}]
    /\ fresh \in SUBSET Nodes
    /\ reading \in [Cpus -> SUBSET Nodes]
    /\ loc \in [Processes -> PlaceType]

\* Inside a loop that advances and reclaims, to go on at `place` or there already.
Towards(c, place) ==
    \/ loc[c].pc = place
    \/ loc[c].pc \in {"advance", "scan", "load", "take"} /\ loc[c].ret = place

\* A CPU is active, with its guards counted, exactly inside them, and reads only
\* there; what it is about to retire is its own, and it owes nothing while it
\* replaces; it reclaims from its own bag.
InOrder(c) ==
    /\ state[c].active <=> loc[c].pc \notin {"out", "pin"}
    /\ ~ state[c].active => reading[c] = {}
    /\ state[c].active => depth[c] > 0
    /\ loc[c].pc \in {"load", "take"} => loc[c].at = c
    /\ Towards(c, "stamp") \/ loc[c].pc = "push" => owed[c] # Null
    /\ Towards(c, "room") \/ loc[c].pc = "swap" => owed[c] = Null

CpusInOrder == \A c \in Cpus : InOrder(c)

\* flush runs while every CPU is outside.
FlushAlone ==
    loc[Flusher].pc # "out" =>
        /\ loc[Flusher].pc \in {"advance", "scan", "load", "take"}
        /\ loc[Flusher].pc \in {"load", "take"} => loc[Flusher].at \in Cpus
        /\ \A c \in Cpus : loc[c].pc = "out"

\* The advance lock: whoever scans holds it, and the epoch it loaded is current.
ScansCurrent ==
    \A p \in Processes : loc[p].pc = "scan" => advancing = p /\ loc[p].seen = global

\* A pin that has loaded the epoch and not stored it is less than a cycle old.
PinsYoung ==
    \A c \in Cpus : loc[c].pc = "pin" => loc[c].seen # Inc(global)

\* Every node is in one place.
OnePlace(n) ==
    /\ \/ n \in fresh
       \/ ptr = n
       \/ \E c \in Cpus : owed[c] = n
       \/ \E c \in Cpus : \E d \in bags[c] : d.node = n
    /\ n \in fresh => ptr # n
    /\ n \in fresh \/ ptr = n => \A c \in Cpus : owed[c] # n /\ \A d \in bags[c] : d.node # n
    /\ \A c, q \in Cpus : owed[c] = n =>
           /\ owed[q] = n => c = q
           /\ \A d \in bags[q] : d.node # n
    /\ \A c, q \in Cpus : \A d \in bags[c], e \in bags[q] :
           d.node = n /\ e.node = n => c = q /\ d = e

Placed == \A n \in Nodes : OnePlace(n)

\* An epoch something was stamped with since b was current, b or the one after.
Within(s, b) == s = b \/ (s = Inc(b) /\ global = Inc(b))

\* b was current when c stored its state word: the epoch has moved once at most,
\* and no scan that has passed c can move it again.
Base(c, b) ==
    /\ state[c].epoch # Inc(b)
    /\ \/ global = b
       \/ /\ global = Inc(b)
          /\ \A p \in Processes : loc[p].pc = "scan" => loc[p].at <= c
    /\ \A n \in reading[c], q \in Cpus :
        /\ \A d \in bags[q] : d.node = n => Within(d.epoch, b)
        /\ loc[q].pc = "push" /\ owed[q] = n => Within(loc[q].seen, b)

ReadersBased == \A c \in Cpus : state[c].active => \E b \in Epochs : Base(c, b)

\* What a CPU reads is not fresh, and no CPU about to take from its bag finds it
\* old enough.
ReadsKept ==
    \A c \in Cpus : \A n \in reading[c] :
        /\ n \notin fresh
        /\ \A p \in Cpus : loc[p].pc = "take" =>
               \A d \in bags[p] : d.node = n => ~ Reclaimable(d.epoch, loc[p].seen)

\* The advances an epoch is from the first one.
Age(e) == (e - FirstEpoch) % M

\* Whatever is retired was stamped k advances ago or earlier.
StampsOld(k) == \A c \in Cpus : \A d \in bags[c] : Age(d.epoch) + k <= Age(global)

\* No stamp, made or about to be, is newer than the epoch.
StampsPast ==
    /\ Age(global) <= Age(MaxEpoch)
    /\ StampsOld(0)
    /\ \A c \in Cpus : loc[c].pc = "push" => Age(loc[c].seen) <= Age(global)

\* A flush that has advanced once finds every stamp one advance old, and when it
\* visits the bags, two; the bags it has visited are empty.
FlushAges ==
    LET f == loc[Flusher]
    IN  /\ f.pc \in {"advance", "scan"} => f.tries \in {0, 1} /\ StampsOld(f.tries)
        /\ f.pc \in {"load", "take"} => StampsOld(2) /\ \A c \in Cpus : c < f.at => bags[c] = {}
        /\ f.pc = "take" => f.seen = global

EpochInv ==
    /\ EpochType /\ CpusInOrder /\ FlushAlone /\ ScansCurrent /\ PinsYoung
    /\ Placed /\ ReadersBased /\ ReadsKept /\ StampsPast /\ FlushAges

-----------------------------------------------------------------------------
(* Counting modulo M. *)

LEMMA IncIs ==
    ASSUME NEW e \in Epochs
    PROVE  /\ Inc(e) \in Epochs
           /\ Inc(e) = IF e = M - 1 THEN 0 ELSE e + 1
<1>1. M \in Nat /\ M >= 4
    BY EpochAssumption, Zenon
<1>2. CASE e = M - 1
    <2>1. e + 1 \in M .. 2 * M - 1
        BY <1>1, <1>2
    <2>. QED BY <1>1, <1>2, <2>1 DEF Inc, Epochs
<1>3. CASE e # M - 1
    <2>1. e + 1 \in 0 .. M - 1
        BY <1>1, <1>3 DEF Epochs
    <2>2. (e + 1) % M = e + 1
        BY <1>1, <2>1
    <2>. QED BY <1>1, <1>3, <2>1, <2>2, Zenon DEF Inc, Epochs
<1>. QED BY <1>2, <1>3, Zenon

\* A node stamped at the current epoch or at the one before it is not ready.
LEMMA NotReady ==
    ASSUME NEW b \in Epochs
    PROVE  /\ ~ Reclaimable(b, b)
           /\ ~ Reclaimable(b, Inc(b))
<1>1. M \in Nat /\ M >= 4
    BY EpochAssumption, Zenon
<1>2. (b - b) % M = 0
    BY <1>1 DEF Epochs
<1>3. (Inc(b) - b) % M = 1
    <2>1. CASE b = M - 1
        <3>1. 1 - M \in -M .. -1 /\ Inc(b) - b = 1 - M
            BY <1>1, <2>1, IncIs DEF Epochs
        <3>2. (1 - M) % M = 1
            BY <1>1, <3>1
        <3>. QED BY <3>1, <3>2, Zenon
    <2>2. CASE b # M - 1
        <3>1. Inc(b) - b = 1
            BY <1>1, <2>2, IncIs DEF Epochs
        <3>2. 1 % M = 1
            BY <1>1
        <3>. QED BY <3>1, <3>2, Zenon
    <2>. QED BY <2>1, <2>2, Zenon
<1>. QED BY <1>2, <1>3 DEF Reclaimable

\* An epoch less than a cycle before g is not the one two after g.
LEMMA YoungStays ==
    ASSUME NEW g \in Epochs, NEW e \in Epochs, (g + 1 - e) % M < M - 1
    PROVE  e # Inc(Inc(g))
<1>. SUFFICES ASSUME e = Inc(Inc(g)) PROVE FALSE
    BY Zenon
<1>1. M \in Nat /\ M >= 4 /\ g \in 0 .. M - 1 /\ Inc(g) \in Epochs
    BY EpochAssumption, IncIs, Zenon DEF Epochs
<1>2. g + 1 - e = M - 1 \/ g + 1 - e = -1
    <2>1. Inc(g) = IF g = M - 1 THEN 0 ELSE g + 1
        BY IncIs, Zenon
    <2>2. Inc(Inc(g)) = IF Inc(g) = M - 1 THEN 0 ELSE Inc(g) + 1
        BY <1>1, IncIs, Zenon
    <2>. HIDE DEF Inc
    <2>. QED BY <1>1, <2>1, <2>2
<1>3. (M - 1) % M = M - 1
    BY <1>1
<1>4. (-1) % M = M - 1
    BY <1>1
<1>. QED BY <1>1, <1>2, <1>3, <1>4

LEMMA AgeIs ==
    ASSUME NEW e \in Epochs
    PROVE  /\ Age(e) \in 0 .. M - 1
           /\ Age(e) = IF FirstEpoch <= e THEN e - FirstEpoch ELSE e - FirstEpoch + M
<1>1. M \in Nat /\ M >= 4 /\ FirstEpoch \in 0 .. M - 1 /\ e \in 0 .. M - 1
    BY EpochAssumption, Zenon DEF Epochs
<1>2. CASE FirstEpoch <= e
    <2>1. e - FirstEpoch \in 0 .. M - 1
        BY <1>1, <1>2
    <2>2. (e - FirstEpoch) % M = e - FirstEpoch
        BY <1>1, <2>1
    <2>. QED BY <1>2, <2>1, <2>2, Zenon DEF Age
<1>3. CASE ~ (FirstEpoch <= e)
    <2>1. e - FirstEpoch \in -M .. -1 /\ e - FirstEpoch + M \in 0 .. M - 1
        BY <1>1, <1>3
    <2>2. (e - FirstEpoch) % M = e - FirstEpoch + M
        BY <1>1, <2>1
    <2>. QED BY <1>3, <2>1, <2>2, Zenon DEF Age
<1>. QED BY <1>2, <1>3, Zenon

LEMMA AgeFacts ==
    ASSUME NEW e \in Epochs, NEW f \in Epochs
    PROVE  /\ Age(e) = Age(f) => e = f
           /\ Age(e) < M - 1 => Age(Inc(e)) = Age(e) + 1
           /\ Age(e) + 2 <= Age(f) => Reclaimable(e, f)
<1>1. M \in Nat /\ M >= 4 /\ FirstEpoch \in 0 .. M - 1 /\ e \in 0 .. M - 1 /\ f \in 0 .. M - 1
    BY EpochAssumption, Zenon DEF Epochs
<1>2. /\ Age(e) = IF FirstEpoch <= e THEN e - FirstEpoch ELSE e - FirstEpoch + M
      /\ Age(f) = IF FirstEpoch <= f THEN f - FirstEpoch ELSE f - FirstEpoch + M
    BY AgeIs, Zenon
<1>3. Age(e) < M - 1 => Age(Inc(e)) = Age(e) + 1
    <2>1. Inc(e) \in Epochs /\ Inc(e) = IF e = M - 1 THEN 0 ELSE e + 1
        BY IncIs, Zenon
    <2>2. Age(Inc(e)) = IF FirstEpoch <= Inc(e) THEN Inc(e) - FirstEpoch ELSE Inc(e) - FirstEpoch + M
        BY <2>1, AgeIs, Zenon
    <2>. HIDE DEF Age, Inc
    <2>. QED BY <1>1, <1>2, <2>1, <2>2
<1>4. Age(e) + 2 <= Age(f) => Reclaimable(e, f)
    <2>1. CASE f - e >= 0
        <3>1. f - e \in 0 .. M - 1
            BY <1>1, <2>1
        <3>2. (f - e) % M = f - e
            BY <1>1, <3>1
        <3>. QED BY <1>1, <1>2, <2>1, <3>2 DEF Reclaimable
    <2>2. CASE f - e < 0
        <3>1. f - e \in -M .. -1
            BY <1>1, <2>2
        <3>2. (f - e) % M = f - e + M
            BY <1>1, <3>1
        <3>. QED BY <1>1, <1>2, <2>2, <3>2 DEF Reclaimable
    <2>. QED BY <1>1, <2>1, <2>2
<1>. QED BY <1>1, <1>2, <1>3, <1>4

-----------------------------------------------------------------------------
(* Where a step leaves the process that takes it. *)

Spot(pc, ret, tries, seen, at) ==
    [pc |-> pc, ret |-> ret, tries |-> tries, seen |-> seen, at |-> at]

PCs == {"out", "pin", "in", "advance", "scan", "load", "take",
        "room", "swap", "stamp", "push"}

LEMMA SpotType ==
    ASSUME NEW pc \in PCs, NEW ret \in {"in", "room", "stamp"}, NEW tries \in Nat,
           NEW seen \in Epochs, NEW at \in 0 .. N
    PROVE  Spot(pc, ret, tries, seen, at) \in PlaceType
BY Zenon DEF Spot, PlaceType, PCs

\* The updates of a place the actions make, field by field.
LEMMA Updated ==
    ASSUME NEW l \in PlaceType, NEW pc, NEW ret, NEW tries, NEW seen, NEW at
    PROVE  /\ [l EXCEPT !.seen = seen] = Spot(l.pc, l.ret, l.tries, seen, l.at)
           /\ [l EXCEPT !.tries = tries] = Spot(l.pc, l.ret, tries, l.seen, l.at)
           /\ [l EXCEPT !.at = at] = Spot(l.pc, l.ret, l.tries, l.seen, at)
           /\ [l EXCEPT !.pc = pc, !.seen = seen] = Spot(pc, l.ret, l.tries, seen, l.at)
           /\ [l EXCEPT !.pc = pc, !.ret = ret] = Spot(pc, ret, l.tries, l.seen, l.at)
<1>1. /\ [l EXCEPT !.seen = seen] = Spot(l.pc, l.ret, l.tries, seen, l.at)
      /\ [l EXCEPT !.tries = tries] = Spot(l.pc, l.ret, tries, l.seen, l.at)
      /\ [l EXCEPT !.at = at] = Spot(l.pc, l.ret, l.tries, l.seen, at)
      /\ [l EXCEPT !.pc = pc] = Spot(pc, l.ret, l.tries, l.seen, l.at)
    BY DEF PlaceType, Spot
<1> DEFINE moved == [l EXCEPT !.pc = pc]
<1>2. /\ [l EXCEPT !.pc = pc, !.seen = seen] = [moved EXCEPT !.seen = seen]
      /\ [l EXCEPT !.pc = pc, !.ret = ret] = [moved EXCEPT !.ret = ret]
    BY Zenon
<1>3. moved = Spot(pc, l.ret, l.tries, l.seen, l.at)
    BY <1>1, Zenon
<1>4. /\ [moved EXCEPT !.seen = seen] = Spot(pc, l.ret, l.tries, seen, l.at)
      /\ [moved EXCEPT !.ret = ret] = Spot(pc, ret, l.tries, l.seen, l.at)
    <2>. HIDE DEF moved
    <2>. QED BY <1>3 DEF Spot
<1>. QED BY <1>1, <1>2, <1>4, Zenon

LEMMA UpdatedAgain ==
    ASSUME NEW l \in PlaceType, NEW pc, NEW ret, NEW seen
    PROVE  [l EXCEPT !.pc = pc, !.ret = ret, !.seen = seen]
             = Spot(pc, ret, l.tries, seen, l.at)
<1> DEFINE going == [l EXCEPT !.pc = pc, !.ret = ret]
<1>1. [l EXCEPT !.pc = pc, !.ret = ret, !.seen = seen] = [going EXCEPT !.seen = seen]
    BY Zenon
<1>2. going = Spot(pc, ret, l.tries, l.seen, l.at)
    BY Updated, Zenon
<1>3. [going EXCEPT !.seen = seen] = Spot(pc, ret, l.tries, seen, l.at)
    <2>. HIDE DEF going
    <2>. QED BY <1>2 DEF Spot
<1>. QED BY <1>1, <1>3, Zenon

LEMMA UpdatedToScan ==
    ASSUME NEW l \in PlaceType, NEW seen, NEW at
    PROVE  [l EXCEPT !.pc = "scan", !.seen = seen, !.at = at]
             = Spot("scan", l.ret, l.tries, seen, at)
<1> DEFINE seeing == [l EXCEPT !.pc = "scan", !.seen = seen]
<1>1. [l EXCEPT !.pc = "scan", !.seen = seen, !.at = at] = [seeing EXCEPT !.at = at]
    BY Zenon
<1>2. seeing = Spot("scan", l.ret, l.tries, seen, l.at)
    BY Updated, Zenon
<1>3. [seeing EXCEPT !.at = at] = Spot("scan", l.ret, l.tries, seen, at)
    <2>. HIDE DEF seeing
    <2>. QED BY <1>2 DEF Spot
<1>. QED BY <1>1, <1>3, Zenon

LEMMA UpdatedToLoad ==
    ASSUME NEW l \in PlaceType, NEW seen, NEW at
    PROVE  [l EXCEPT !.pc = "load", !.seen = seen, !.at = at]
             = Spot("load", l.ret, l.tries, seen, at)
<1> DEFINE seeing == [l EXCEPT !.pc = "load", !.seen = seen]
<1>1. [l EXCEPT !.pc = "load", !.seen = seen, !.at = at] = [seeing EXCEPT !.at = at]
    BY Zenon
<1>2. seeing = Spot("load", l.ret, l.tries, seen, l.at)
    BY Updated, Zenon
<1>3. [seeing EXCEPT !.at = at] = Spot("load", l.ret, l.tries, seen, at)
    <2>. HIDE DEF seeing
    <2>. QED BY <1>2 DEF Spot
<1>. QED BY <1>1, <1>3, Zenon

\* A step that leaves process p at the place the parameters name.
Moves(p, pc, ret, tries, seen, at) ==
    /\ loc' \in [Processes -> PlaceType]
    /\ loc'[p].pc = pc /\ loc'[p].ret = ret /\ loc'[p].tries = tries
    /\ loc'[p].seen = seen /\ loc'[p].at = at
    /\ \A q \in Processes : q # p => loc'[q] = loc[q]

LEMMA GotoMoves ==
    ASSUME loc \in [Processes -> PlaceType], NEW p \in Processes,
           NEW pc \in PCs, NEW ret \in {"in", "room", "stamp"}, NEW tries \in Nat,
           NEW seen \in Epochs, NEW at \in 0 .. N,
           Goto(p, Spot(pc, ret, tries, seen, at))
    PROVE  Moves(p, pc, ret, tries, seen, at)
<1>1. /\ Spot(pc, ret, tries, seen, at).pc = pc
      /\ Spot(pc, ret, tries, seen, at).ret = ret
      /\ Spot(pc, ret, tries, seen, at).tries = tries
      /\ Spot(pc, ret, tries, seen, at).seen = seen
      /\ Spot(pc, ret, tries, seen, at).at = at
    BY Zenon DEF Spot
<1>. QED BY <1>1, SpotType, Zenon DEF Goto, Moves

LEMMA AtIs == \A pc : At(pc) = Spot(pc, "in", 0, 0, 0)
BY Zenon DEF At, Spot

\* The constants of a place.
LEMMA Zero == 0 \in Epochs /\ 0 \in 0 .. N /\ Cpus \subseteq 0 .. N /\ 1 \in Epochs
BY EpochAssumption DEF Epochs, Cpus

LEMMA AtUpdated ==
    ASSUME NEW pc \in PCs, NEW x
    PROVE  /\ [At(pc) EXCEPT !.seen = x] = Spot(pc, "in", 0, x, 0)
           /\ [At(pc) EXCEPT !.tries = x] = Spot(pc, "in", x, 0, 0)
           /\ [At(pc) EXCEPT !.at = x] = Spot(pc, "in", 0, 0, x)
<1>1. At(pc) \in PlaceType
    BY SpotType, AtIs, Zero, Zenon
<1>2. At(pc).pc = pc /\ At(pc).ret = "in" /\ At(pc).tries = 0 /\ At(pc).seen = 0 /\ At(pc).at = 0
    BY Zenon DEF At
<1> DEFINE l == At(pc)
<1>3. /\ [l EXCEPT !.seen = x] = Spot(l.pc, l.ret, l.tries, x, l.at)
      /\ [l EXCEPT !.tries = x] = Spot(l.pc, l.ret, x, l.seen, l.at)
      /\ [l EXCEPT !.at = x] = Spot(l.pc, l.ret, l.tries, l.seen, x)
    <2>. HIDE DEF l
    <2>. QED BY <1>1, Updated, Zenon DEF l
<1>. QED BY <1>2, <1>3, Zenon

LEMMA GotoAt ==
    ASSUME loc \in [Processes -> PlaceType], NEW p \in Processes, NEW pc \in PCs,
           Goto(p, At(pc))
    PROVE  Moves(p, pc, "in", 0, 0, 0)
BY AtIs, Zero, GotoMoves, Zenon

LEMMA FieldTypes ==
    ASSUME loc \in [Processes -> PlaceType], NEW p \in Processes
    PROVE  /\ loc[p] \in PlaceType
           /\ loc[p].pc \in PCs /\ loc[p].ret \in {"in", "room", "stamp"}
           /\ loc[p].tries \in Nat /\ loc[p].seen \in Epochs /\ loc[p].at \in 0 .. N
BY Zenon DEF PlaceType, PCs

\* What the steps that end at a place computed from the present one come to.
LEMMA CpuMoves ==
    ASSUME loc \in [Processes -> PlaceType], global \in Epochs, NEW c \in Cpus
    PROVE  /\ PinLoad(c) => Moves(c, "pin", "in", 0, global, 0)
           /\ Stamp(c) => Moves(c, "push", loc[c].ret, loc[c].tries, global, loc[c].at)
           /\ Push(c) => \/ HasRoom(c) /\ Moves(c, "in", "in", 0, 0, 0)
                         \/ /\ ~ HasRoom(c)
                            /\ \/ Moves(c, "in", "in", 0, 0, 0)
                               \/ Moves(c, "advance", "stamp", loc[c].tries, 0, loc[c].at)
           /\ MakeRoom(c) => \/ Moves(c, "swap", "in", 0, 0, 0)
                             \/ Moves(c, "in", "in", 0, 0, 0)
                             \/ Moves(c, "advance", "room", loc[c].tries, loc[c].seen, loc[c].at)
<1>1. c \in Processes
    BY Zenon DEF Processes
<1>2. [At("pin") EXCEPT !.seen = global] = Spot("pin", "in", 0, global, 0)
    BY AtUpdated, Zenon DEF PCs
<1>3. PinLoad(c) => Moves(c, "pin", "in", 0, global, 0)
    <2>1. Goto(c, Spot("pin", "in", 0, global, 0)) => Moves(c, "pin", "in", 0, global, 0)
        BY <1>1, Zero, GotoMoves, Zenon DEF PCs
    <2>. QED BY <1>2, <2>1, Zenon DEF PinLoad
<1>4. Stamp(c) => Moves(c, "push", loc[c].ret, loc[c].tries, global, loc[c].at)
    <2>1. [loc[c] EXCEPT !.pc = "push", !.seen = global]
            = Spot("push", loc[c].ret, loc[c].tries, global, loc[c].at)
        BY <1>1, FieldTypes, Updated, Zenon
    <2>2. Goto(c, Spot("push", loc[c].ret, loc[c].tries, global, loc[c].at))
            => Moves(c, "push", loc[c].ret, loc[c].tries, global, loc[c].at)
        BY <1>1, FieldTypes, GotoMoves, Zenon DEF PCs
    <2>. QED BY <2>1, <2>2, Zenon DEF Stamp
<1>5. /\ Goto(c, [loc[c] EXCEPT !.pc = "advance", !.ret = "stamp", !.seen = 0])
           => Moves(c, "advance", "stamp", loc[c].tries, 0, loc[c].at)
      /\ Goto(c, [loc[c] EXCEPT !.pc = "advance", !.ret = "room"])
           => Moves(c, "advance", "room", loc[c].tries, loc[c].seen, loc[c].at)
    <2>. loc[c] \in PlaceType
        BY <1>1, FieldTypes, Zenon
    <2>1. [loc[c] EXCEPT !.pc = "advance", !.ret = "stamp", !.seen = 0]
            = Spot("advance", "stamp", loc[c].tries, 0, loc[c].at)
        BY UpdatedAgain, Zenon
    <2>3. [loc[c] EXCEPT !.pc = "advance", !.ret = "room"]
            = Spot("advance", "room", loc[c].tries, loc[c].seen, loc[c].at)
        BY Updated, Zenon
    <2>2. /\ Goto(c, Spot("advance", "stamp", loc[c].tries, 0, loc[c].at))
               => Moves(c, "advance", "stamp", loc[c].tries, 0, loc[c].at)
          /\ Goto(c, Spot("advance", "room", loc[c].tries, loc[c].seen, loc[c].at))
               => Moves(c, "advance", "room", loc[c].tries, loc[c].seen, loc[c].at)
        BY <1>1, Zero, FieldTypes, GotoMoves, Zenon DEF PCs
    <2>. QED BY <2>1, <2>2, <2>3, Zenon
<1>6. /\ Goto(c, At("in")) => Moves(c, "in", "in", 0, 0, 0)
      /\ Goto(c, At("swap")) => Moves(c, "swap", "in", 0, 0, 0)
    BY <1>1, GotoAt, Zenon DEF PCs
<1>7. Push(c) => \/ HasRoom(c) /\ Moves(c, "in", "in", 0, 0, 0)
                 \/ /\ ~ HasRoom(c)
                    /\ \/ Moves(c, "in", "in", 0, 0, 0)
                       \/ Moves(c, "advance", "stamp", loc[c].tries, 0, loc[c].at)
    BY <1>5, <1>6, Zenon DEF Push
<1>8. MakeRoom(c) => \/ Moves(c, "swap", "in", 0, 0, 0)
                     \/ Moves(c, "in", "in", 0, 0, 0)
                     \/ Moves(c, "advance", "room", loc[c].tries, loc[c].seen, loc[c].at)
    BY <1>5, <1>6, Zenon DEF MakeRoom
<1>. QED BY <1>3, <1>4, <1>7, <1>8, Zenon

LEMMA FlusherApart == Flusher \in Processes /\ Flusher \notin Cpus
                      /\ \A p \in Processes : p # Flusher => p \in Cpus
BY EpochAssumption, Zenon DEF Processes, Cpus

\* How a process comes out of try_advance, with or without a new epoch.
Returns(p, ok) ==
    \/ /\ p = Flusher
       /\ \/ ok /\ loc[p].tries = 0 /\ Moves(p, "advance", "in", 1, 0, 0)
          \/ ~ (ok /\ loc[p].tries = 0) /\ Moves(p, "load", "in", 0, 0, 0)
    \/ p \in Cpus /\ Moves(p, "load", loc[p].ret, loc[p].tries, 0, p)

LEMMA AdvancedMoves ==
    ASSUME loc \in [Processes -> PlaceType], NEW p \in Processes, NEW ok \in BOOLEAN,
           Goto(p, Advanced(p, ok))
    PROVE  Returns(p, ok)
<1>. loc[p] \in PlaceType
    BY FieldTypes, Zenon
<1>1. CASE p = Flusher /\ ok /\ loc[p].tries = 0
    <2>1. Advanced(p, ok) = Spot("advance", "in", 1, 0, 0)
        BY <1>1, AtUpdated, Zenon DEF Advanced, PCs
    <2>2. Moves(p, "advance", "in", 1, 0, 0)
        BY <2>1, Zero, GotoMoves, Zenon DEF PCs
    <2>. QED BY <1>1, <2>2, Zenon DEF Returns
<1>2. CASE p = Flusher /\ ~ (ok /\ loc[p].tries = 0)
    <2>1. Advanced(p, ok) = At("load")
        BY <1>2, Zenon DEF Advanced
    <2>2. Moves(p, "load", "in", 0, 0, 0)
        BY <2>1, GotoAt, Zenon DEF PCs
    <2>. QED BY <1>2, <2>2, Zenon DEF Returns
<1>3. CASE p # Flusher
    <2>1. Advanced(p, ok) = Spot("load", loc[p].ret, loc[p].tries, 0, p)
        BY <1>3, UpdatedToLoad, Zenon DEF Advanced
    <2>2. p \in Cpus
        BY <1>3, FlusherApart, Zenon
    <2>3. Moves(p, "load", loc[p].ret, loc[p].tries, 0, p)
        BY <2>1, <2>2, Zero, FieldTypes, GotoMoves, Zenon DEF PCs
    <2>. QED BY <2>2, <2>3, Zenon DEF Returns
<1>. QED BY <1>1, <1>2, <1>3, Zenon

LEMMA ScanMoves ==
    ASSUME loc \in [Processes -> PlaceType], global \in Epochs, NEW p \in Processes
    PROVE  /\ AdvanceBegin(p) => Moves(p, "scan", loc[p].ret, loc[p].tries, global, 0)
           /\ AdvanceScan(p) =>
                \/ HoldsBack(state[loc[p].at], loc[p].seen) /\ Returns(p, FALSE) /\ advancing' = Null
                \/ /\ ~ HoldsBack(state[loc[p].at], loc[p].seen)
                   /\ Moves(p, "scan", loc[p].ret, loc[p].tries, loc[p].seen, loc[p].at + 1)
                   /\ advancing' = advancing
           /\ AdvanceStore(p) => Returns(p, TRUE)
           /\ ReclaimLoad(p) => Moves(p, "take", loc[p].ret, loc[p].tries, global, loc[p].at)
<1>. loc[p] \in PlaceType
    BY FieldTypes, Zenon
<1>1. AdvanceBegin(p) => Moves(p, "scan", loc[p].ret, loc[p].tries, global, 0)
    <2>1. [loc[p] EXCEPT !.pc = "scan", !.seen = global, !.at = 0]
            = Spot("scan", loc[p].ret, loc[p].tries, global, 0)
        BY UpdatedToScan, Zenon
    <2>2. Goto(p, Spot("scan", loc[p].ret, loc[p].tries, global, 0))
            => Moves(p, "scan", loc[p].ret, loc[p].tries, global, 0)
        BY Zero, FieldTypes, GotoMoves, Zenon DEF PCs
    <2>. QED BY <2>1, <2>2, Zenon DEF AdvanceBegin
<1>2. ASSUME AdvanceScan(p), ~ HoldsBack(state[loc[p].at], loc[p].seen)
      PROVE  Moves(p, "scan", loc[p].ret, loc[p].tries, loc[p].seen, loc[p].at + 1)
    <2>1. [loc[p] EXCEPT !.at = loc[p].at + 1]
            = Spot(loc[p].pc, loc[p].ret, loc[p].tries, loc[p].seen, loc[p].at + 1)
        BY Updated, Zenon
    <2>2. loc[p].pc = "scan" /\ loc[p].at + 1 \in 0 .. N
        BY <1>2, FieldTypes, EpochAssumption DEF AdvanceScan
    <2>3. Goto(p, Spot("scan", loc[p].ret, loc[p].tries, loc[p].seen, loc[p].at + 1))
            => Moves(p, "scan", loc[p].ret, loc[p].tries, loc[p].seen, loc[p].at + 1)
        BY <2>2, FieldTypes, GotoMoves, Zenon DEF PCs
    <2>4. Goto(p, [loc[p] EXCEPT !.at = loc[p].at + 1])
        BY <1>2, Zenon DEF AdvanceScan
    <2>. QED BY <2>1, <2>2, <2>3, <2>4, Zenon
<1>3. AdvanceScan(p) /\ HoldsBack(state[loc[p].at], loc[p].seen) => Returns(p, FALSE)
    BY AdvancedMoves, Zenon DEF AdvanceScan
<1>4. AdvanceStore(p) => Returns(p, TRUE)
    BY AdvancedMoves, Zenon DEF AdvanceStore
<1>5. ReclaimLoad(p) => Moves(p, "take", loc[p].ret, loc[p].tries, global, loc[p].at)
    <2>1. [loc[p] EXCEPT !.pc = "take", !.seen = global]
            = Spot("take", loc[p].ret, loc[p].tries, global, loc[p].at)
        BY Updated, Zenon
    <2>2. Goto(p, Spot("take", loc[p].ret, loc[p].tries, global, loc[p].at))
            => Moves(p, "take", loc[p].ret, loc[p].tries, global, loc[p].at)
        BY FieldTypes, GotoMoves, Zenon DEF PCs
    <2>. QED BY <2>1, <2>2, Zenon DEF ReclaimLoad
<1>6. AdvanceScan(p) =>
        \/ HoldsBack(state[loc[p].at], loc[p].seen) /\ advancing' = Null
        \/ ~ HoldsBack(state[loc[p].at], loc[p].seen) /\ advancing' = advancing
    BY Zenon DEF AdvanceScan
<1>. QED BY <1>1, <1>2, <1>3, <1>4, <1>5, <1>6, Zenon

\* How a process leaves the reclamation of a bag.
TakeMoves(p) ==
    LET bag == loc[p].at
        ready == {d \in bags[bag] : Reclaimable(d.epoch, loc[p].seen)}
    IN  \/ /\ \E d \in ready :
                bags' = [bags EXCEPT ![bag] = @ \ {d}] /\ fresh' = fresh \cup {d.node}
           /\ Moves(p, "load", loc[p].ret, loc[p].tries, 0, loc[p].at)
        \/ /\ ready = {} /\ bags' = bags /\ fresh' = fresh
           /\ \/ p = Flusher /\ loc[p].at + 1 < N /\ Moves(p, "load", "in", 0, 0, loc[p].at + 1)
              \/ p = Flusher /\ loc[p].at + 1 >= N /\ Moves(p, "out", "in", 0, 0, 0)
              \/ p \in Cpus /\ loc[p].ret = "in" /\ Moves(p, "in", "in", 0, 0, 0)
              \/ /\ p \in Cpus /\ loc[p].ret # "in"
                 /\ Moves(p, loc[p].ret, "in", loc[p].tries + 1, 0, 0)

LEMMA TakeIs ==
    ASSUME loc \in [Processes -> PlaceType], NEW p \in Processes, ReclaimTake(p)
    PROVE  TakeMoves(p)
<1>. loc[p] \in PlaceType
    BY FieldTypes, Zenon
<1> DEFINE bag == loc[p].at
           ready == {d \in bags[bag] : Reclaimable(d.epoch, loc[p].seen)}
<1>1. CASE \E d \in ready :
                /\ bags' = [bags EXCEPT ![bag] = @ \ {d}]
                /\ fresh' = fresh \cup {d.node}
                /\ Goto(p, [loc[p] EXCEPT !.pc = "load", !.seen = 0])
    <2>1. [loc[p] EXCEPT !.pc = "load", !.seen = 0]
            = Spot("load", loc[p].ret, loc[p].tries, 0, loc[p].at)
        BY Updated, Zenon
    <2>2. Goto(p, Spot("load", loc[p].ret, loc[p].tries, 0, loc[p].at))
            => Moves(p, "load", loc[p].ret, loc[p].tries, 0, loc[p].at)
        BY Zero, FieldTypes, GotoMoves, Zenon DEF PCs
    <2>. QED BY <1>1, <2>1, <2>2, Zenon DEF TakeMoves
<1>2. CASE ready = {} /\ Goto(p, Reclaimed(p)) /\ bags' = bags /\ fresh' = fresh
    <2>. SUFFICES
            \/ p = Flusher /\ loc[p].at + 1 < N /\ Moves(p, "load", "in", 0, 0, loc[p].at + 1)
            \/ p = Flusher /\ loc[p].at + 1 >= N /\ Moves(p, "out", "in", 0, 0, 0)
            \/ p \in Cpus /\ loc[p].ret = "in" /\ Moves(p, "in", "in", 0, 0, 0)
            \/ /\ p \in Cpus /\ loc[p].ret # "in"
               /\ Moves(p, loc[p].ret, "in", loc[p].tries + 1, 0, 0)
        BY <1>2, Zenon DEF TakeMoves
    <2>1. CASE p = Flusher /\ loc[p].at + 1 < N
        <3>1. Reclaimed(p) = Spot("load", "in", 0, 0, loc[p].at + 1)
            BY <2>1, AtUpdated, Zenon DEF Reclaimed, PCs
        <3>2. loc[p].at + 1 \in 0 .. N
            BY <2>1, FieldTypes, EpochAssumption
        <3>3. Moves(p, "load", "in", 0, 0, loc[p].at + 1)
            BY <1>2, <3>1, <3>2, Zero, GotoMoves, Zenon DEF PCs
        <3>. QED BY <2>1, <3>3, Zenon
    <2>2. CASE p = Flusher /\ ~ (loc[p].at + 1 < N)
        <3>1. Reclaimed(p) = At("out")
            BY <2>2, Zenon DEF Reclaimed
        <3>. QED BY <1>2, <2>2, <3>1, GotoAt, FieldTypes, EpochAssumption DEF PCs
    <2>3. CASE p # Flusher /\ loc[p].ret = "in"
        <3>1. Reclaimed(p) = At("in")
            BY <2>3, Zenon DEF Reclaimed
        <3>. QED BY <1>2, <2>3, <3>1, GotoAt, FlusherApart, Zenon DEF PCs
    <2>4. CASE p # Flusher /\ loc[p].ret # "in"
        <3>1. loc[p].ret \in PCs /\ loc[p].tries + 1 \in Nat
            BY FieldTypes DEF PCs
        <3>2. Reclaimed(p) = Spot(loc[p].ret, "in", loc[p].tries + 1, 0, 0)
            BY <2>4, <3>1, AtUpdated, Zenon DEF Reclaimed
        <3>3. Moves(p, loc[p].ret, "in", loc[p].tries + 1, 0, 0)
            BY <1>2, <3>1, <3>2, Zero, GotoMoves, Zenon
        <3>. QED BY <2>4, <3>3, FlusherApart, Zenon
    <2>. QED BY <2>1, <2>2, <2>3, <2>4, Zenon
<1>. QED BY <1>1, <1>2, Zenon DEF ReclaimTake

LEMMA SimpleMoves ==
    ASSUME loc \in [Processes -> PlaceType], NEW c \in Cpus
    PROVE  /\ PinStore(c) => Moves(c, "in", "in", 0, 0, 0)
           /\ Collect(c) => Moves(c, "advance", "in", 0, 0, 0)
           /\ Retire(c) => Moves(c, "stamp", "in", 0, 0, 0)
           /\ Replace(c) => Moves(c, "room", "in", 0, 0, 0)
           /\ Unpin(c) => IF depth[c] = 1 THEN Moves(c, "out", "in", 0, 0, 0) ELSE loc' = loc
           /\ \A new : Swap(c, new) => IF ptr = Null THEN Moves(c, "in", "in", 0, 0, 0)
                                     ELSE Moves(c, "stamp", "in", 0, 0, 0)
           /\ Flush => Moves(Flusher, "advance", "in", 0, 0, 0)
<1>. c \in Processes
    BY Zenon DEF Processes
<1>1. \A pc \in PCs : Goto(c, At(pc)) => Moves(c, pc, "in", 0, 0, 0)
    BY GotoAt, Zenon
<1>2. \A pc \in PCs : Goto(Flusher, At(pc)) => Moves(Flusher, pc, "in", 0, 0, 0)
    BY GotoAt, FlusherApart, Zenon
<1>3. {"in", "advance", "stamp", "room", "out"} \subseteq PCs
    BY Zenon DEF PCs
<1>4. /\ PinStore(c) => Moves(c, "in", "in", 0, 0, 0)
      /\ Collect(c) => Moves(c, "advance", "in", 0, 0, 0)
      /\ Retire(c) => Moves(c, "stamp", "in", 0, 0, 0)
      /\ Replace(c) => Moves(c, "room", "in", 0, 0, 0)
    BY <1>1, <1>3, Zenon DEF PinStore, Collect, Retire, Replace
<1>5. Unpin(c) => IF depth[c] = 1 THEN Moves(c, "out", "in", 0, 0, 0) ELSE loc' = loc
    BY <1>1, <1>3, Zenon DEF Unpin, Goto
<1>6. \A new : Swap(c, new) => IF ptr = Null THEN Moves(c, "in", "in", 0, 0, 0)
                              ELSE Moves(c, "stamp", "in", 0, 0, 0)
    BY <1>1, <1>3, Zenon DEF Swap
<1>7. Flush => Moves(Flusher, "advance", "in", 0, 0, 0)
    BY <1>2, <1>3, Zenon DEF Flush
<1>. QED BY <1>4, <1>5, <1>6, <1>7, Zenon

-----------------------------------------------------------------------------
(* What a step has to leave alone for each part of the invariant to stand. *)

SameCpu(q) ==
    /\ state'[q] = state[q] /\ depth'[q] = depth[q] /\ reading'[q] = reading[q]
    /\ owed'[q] = owed[q] /\ loc'[q] = loc[q]

FlushStands == loc'[Flusher] = loc[Flusher] /\ loc[Flusher].pc = "out"

ScansStand ==
    /\ global' = global /\ advancing' = advancing
    /\ \A p \in Processes : loc'[p].pc = "scan" => loc[p].pc = "scan" /\ loc'[p].seen = loc[p].seen

PinsStand ==
    /\ global' = global
    /\ \A c \in Cpus : loc'[c].pc = "pin" => loc[c].pc = "pin" /\ loc'[c].seen = loc[c].seen

PlacesStand == fresh' = fresh /\ ptr' = ptr /\ owed' = owed /\ bags' = bags

StampsStand ==
    /\ global' = global
    /\ \A q \in Cpus : \A d \in bags'[q] :
           \/ d \in bags[q]
           \/ loc[q].pc = "push" /\ d.node = owed[q] /\ d.epoch = loc[q].seen
    /\ \A q \in Cpus : loc'[q].pc = "push" =>
           \/ loc[q].pc = "push" /\ loc'[q].seen = loc[q].seen /\ owed'[q] = owed[q]
           \/ loc'[q].seen = global

ReaderStands(c) ==
    /\ state[c].active /\ state'[c].epoch = state[c].epoch /\ reading'[c] \subseteq reading[c]
    /\ \A p \in Processes : loc'[p].pc = "scan" =>
           loc'[p].at = 0 \/ (loc[p].pc = "scan" /\ loc'[p].at = loc[p].at)

ReadsStand ==
    /\ fresh' \subseteq fresh
    /\ \A c \in Cpus : reading'[c] \subseteq reading[c]
    /\ \A p \in Cpus : loc'[p].pc = "take" =>
           loc[p].pc = "take" /\ loc'[p].seen = loc[p].seen /\ bags'[p] \subseteq bags[p]

\* A base stays one while the epoch stands and no scan passes its reader.
LEMMA BaseStands ==
    ASSUME NEW c \in Cpus, NEW b \in Epochs, Base(c, b), StampsStand,
           state'[c].epoch = state[c].epoch, reading'[c] \subseteq reading[c],
           global = Inc(b) => \A p \in Processes : loc'[p].pc = "scan" => loc'[p].at <= c
    PROVE  Base(c, b)'
<1>1. Within(global, b) /\ global' = global
    BY Zenon DEF Base, Within, StampsStand
<1>2. \A e : Within(e, b)' <=> Within(e, b)
    BY <1>1, Zenon DEF Within, Inc
<1>3. ASSUME NEW n \in reading'[c], NEW q \in Cpus, NEW d \in bags'[q], d.node = n
      PROVE  Within(d.epoch, b)
    BY <1>3, Zenon DEF Base, StampsStand
<1>4. ASSUME NEW n \in reading'[c], NEW q \in Cpus, loc'[q].pc = "push", owed'[q] = n
      PROVE  Within(loc'[q].seen, b)
    BY <1>1, <1>4, Zenon DEF Base, StampsStand
<1>5. /\ state'[c].epoch # Inc(b)
      /\ \/ global' = b
         \/ /\ global' = Inc(b)
            /\ \A p \in Processes : loc'[p].pc = "scan" => loc'[p].at <= c
    BY <1>1, Zenon DEF Base
<1>. QED BY <1>2, <1>3, <1>4, <1>5, Zenon DEF Base, Inc

LEMMA BasesKept ==
    ASSUME ReadersBased, StampsStand,
           \A c \in Cpus : state'[c].active => ReaderStands(c) \/ \E b \in Epochs : Base(c, b)'
    PROVE  ReadersBased'
<1>. SUFFICES ASSUME NEW c \in Cpus, ReaderStands(c)
              PROVE  \E b \in Epochs : Base(c, b)'
    BY Zenon DEF ReadersBased, Epochs
<1>1. PICK b \in Epochs : Base(c, b)
    BY Zenon DEF ReadersBased, ReaderStands
<1>2. global = Inc(b) => \A p \in Processes : loc'[p].pc = "scan" => loc'[p].at <= c
    BY <1>1, IncIs, EpochAssumption DEF Base, ReaderStands, Epochs, Cpus
<1>. QED BY <1>1, <1>2, BaseStands, Zenon DEF ReaderStands

LEMMA StampAges ==
    ASSUME EpochType
    PROVE  /\ \A c \in Cpus : \A d \in bags[c] : d.epoch \in Epochs /\ Age(d.epoch) \in Nat
           /\ \A c \in Cpus : loc[c].seen \in Epochs /\ Age(loc[c].seen) \in Nat
           /\ global \in Epochs /\ Age(global) \in Nat
<1>1. \A e \in Epochs : Age(e) \in Nat
    BY AgeIs, EpochAssumption
<1>2. \A c \in Cpus : loc[c].seen \in Epochs
    BY FieldTypes, Zenon DEF EpochType, Processes
<1>3. \A c \in Cpus : \A d \in bags[c] : d.epoch \in Epochs
    BY DEF EpochType
<1>. QED BY <1>1, <1>2, <1>3, Zenon DEF EpochType

LEMMA AgesStand ==
    ASSUME EpochType, StampsPast, StampsStand
    PROVE  StampsPast'
<1>1. StampsOld(0)'
    <2>. SUFFICES ASSUME NEW c \in Cpus, NEW d \in bags'[c]
                  PROVE  Age(d.epoch) + 0 <= Age(global)
        BY Zenon DEF StampsOld, Age, StampsStand
    <2>1. CASE d \in bags[c]
        BY <2>1, Zenon DEF StampsPast, StampsOld
    <2>2. CASE loc[c].pc = "push" /\ d.epoch = loc[c].seen
        BY <2>2, StampAges DEF StampsPast
    <2>. QED BY <2>1, <2>2, Zenon DEF StampsStand
<1>2. \A c \in Cpus : loc'[c].pc = "push" => Age(loc'[c].seen) <= Age(global)
    BY StampAges DEF StampsPast, StampsStand
<1>. QED BY <1>1, <1>2, Zenon DEF StampsPast, StampsStand, Age

LEMMA Stand ==
    ASSUME EpochInv, EpochType', \A q \in Cpus : SameCpu(q) \/ InOrder(q)',
           FlushStands \/ (FlushAlone' /\ FlushAges'),
           ScansStand \/ ScansCurrent', PinsStand \/ PinsYoung',
           PlacesStand \/ Placed', ReadsStand \/ ReadsKept',
           StampsStand \/ StampsPast',
           ReadersBased' \/ (StampsStand /\ \A c \in Cpus :
               state'[c].active => ReaderStands(c) \/ \E b \in Epochs : Base(c, b)')
    PROVE  EpochInv'
<1>. USE DEF EpochInv
<1>1. CpusInOrder'
    BY DEF CpusInOrder, SameCpu, InOrder, Towards
<1>2. FlushAlone' /\ FlushAges'
    BY Zenon DEF FlushAlone, FlushAges, FlushStands
<1>3. ScansCurrent'
    BY Zenon DEF ScansCurrent, ScansStand
<1>4. PinsYoung'
    BY Zenon DEF PinsYoung, PinsStand, Inc
<1>5. Placed'
    BY DEF Placed, OnePlace, PlacesStand
<1>6. ReadsKept'
    BY Zenon DEF ReadsKept, ReadsStand, Reclaimable
<1>7. ReadersBased' /\ StampsPast'
    BY BasesKept, AgesStand, Zenon
<1>. QED BY <1>1, <1>2, <1>3, <1>4, <1>5, <1>6, <1>7, Zenon

-----------------------------------------------------------------------------
(* The actions. *)

\* The parts of the type a step can rely on.
LEMMA Types ==
    ASSUME EpochInv, NEW c \in Cpus
    PROVE  /\ loc \in [Processes -> PlaceType] /\ global \in Epochs
           /\ c \in Processes /\ c # Flusher /\ Flusher \in Processes
           /\ InOrder(c) /\ (loc[c].pc # "out" => loc[Flusher].pc = "out")
BY FlusherApart, Zenon DEF EpochInv, EpochType, CpusInOrder, FlushAlone, Processes

\* A step of a CPU in its guard that moves it and touches no shared memory.
LEMMA QuietStep ==
    ASSUME EpochInv, NEW c \in Cpus, loc[c].pc # "out",
           NEW pc \in PCs \ {"out", "pin", "scan", "take"}, NEW ret, NEW tries, NEW seen, NEW at,
           Moves(c, pc, ret, tries, seen, at), pc = "push" => seen = global, InOrder(c)',
           UNCHANGED <<global, state, depth, bags, advancing, ptr, owed, fresh, reading>>
    PROVE  EpochInv'
<1>1. c \in Processes /\ c # Flusher /\ Flusher \in Processes /\ loc[Flusher].pc = "out"
    BY Types, Zenon
<1>2. EpochType'
    BY Zenon DEF EpochInv, EpochType, Epochs, Moves
<1>3. /\ \A q \in Cpus : SameCpu(q) \/ InOrder(q)'
      /\ FlushStands /\ ScansStand /\ PinsStand /\ PlacesStand /\ ReadsStand /\ StampsStand
      /\ \A q \in Cpus : state'[q].active => ReaderStands(q)
    BY <1>1, Zenon DEF Moves, Processes, SameCpu, FlushStands, ScansStand, PinsStand, PlacesStand,
                ReadsStand, StampsStand, ReaderStands
<1>. QED BY <1>2, <1>3, Stand, Zenon

LEMMA QuietActions ==
    ASSUME EpochInv, NEW c \in Cpus,
           Collect(c) \/ Retire(c) \/ Stamp(c) \/ Replace(c) \/ MakeRoom(c)
    PROVE  EpochInv'
<1>1. /\ loc \in [Processes -> PlaceType] /\ global \in Epochs /\ InOrder(c)
      /\ UNCHANGED <<global, state, depth, bags, advancing, ptr, owed, fresh, reading>>
      /\ loc[c].pc \in {"in", "stamp", "room"}
    BY Types, Zenon DEF Collect, Retire, Stamp, Replace, MakeRoom
<1>2. CASE Collect(c)
    <2>1. Moves(c, "advance", "in", 0, 0, 0) /\ loc[c].pc = "in"
        BY <1>1, <1>2, SimpleMoves, Zenon DEF Collect
    <2>2. InOrder(c)'
        BY <1>1, <2>1, Zenon DEF InOrder, Towards, Moves
    <2>. QED BY <1>1, <2>1, <2>2, QuietStep, Zenon DEF PCs
<1>3. CASE Retire(c)
    <2>1. Moves(c, "stamp", "in", 0, 0, 0) /\ loc[c].pc = "in" /\ owed[c] # Null
        BY <1>1, <1>3, SimpleMoves, Zenon DEF Retire
    <2>2. InOrder(c)'
        BY <1>1, <2>1, Zenon DEF InOrder, Towards, Moves
    <2>. QED BY <1>1, <2>1, <2>2, QuietStep, Zenon DEF PCs
<1>4. CASE Stamp(c)
    <2>1. Moves(c, "push", loc[c].ret, loc[c].tries, global, loc[c].at) /\ loc[c].pc = "stamp"
        BY <1>1, <1>4, CpuMoves, Zenon DEF Stamp
    <2>2. InOrder(c)'
        BY <1>1, <2>1, Zenon DEF InOrder, Towards, Moves
    <2>. QED BY <1>1, <2>1, <2>2, QuietStep, Zenon DEF PCs
<1>5. CASE Replace(c)
    <2>1. Moves(c, "room", "in", 0, 0, 0) /\ loc[c].pc = "in" /\ owed[c] = Null
        BY <1>1, <1>5, SimpleMoves, Zenon DEF Replace
    <2>2. InOrder(c)'
        BY <1>1, <2>1, Zenon DEF InOrder, Towards, Moves
    <2>. QED BY <1>1, <2>1, <2>2, QuietStep, Zenon DEF PCs
<1>6. CASE MakeRoom(c)
    <2>1. /\ loc[c].pc = "room"
          /\ \/ Moves(c, "swap", "in", 0, 0, 0)
             \/ Moves(c, "in", "in", 0, 0, 0)
             \/ Moves(c, "advance", "room", loc[c].tries, loc[c].seen, loc[c].at)
        BY <1>1, <1>6, CpuMoves, Zenon DEF MakeRoom
    <2>2. InOrder(c)'
        BY <1>1, <2>1, Zenon DEF InOrder, Towards, Moves
    <2>. QED BY <1>1, <2>1, <2>2, QuietStep DEF PCs
<1>. QED BY <1>2, <1>3, <1>4, <1>5, <1>6, Zenon

LEMMA PinLoadKeeps ==
    ASSUME EpochInv, Quiescent, NEW c \in Cpus, PinLoad(c)
    PROVE  EpochInv'
<1>1. /\ Moves(c, "pin", "in", 0, global, 0) /\ loc[c].pc = "out" /\ loc[Flusher].pc = "out"
      /\ UNCHANGED <<global, state, depth, bags, advancing, ptr, owed, fresh, reading>>
      /\ c # Flusher /\ Flusher \in Processes /\ c \in Processes
    BY Types, CpuMoves, Zenon DEF PinLoad
<1>2. EpochType'
    BY <1>1, Zenon DEF Moves, EpochInv, EpochType, Epochs
<1>3. InOrder(c)'
    BY <1>1, Types, Zenon DEF InOrder, Towards, Moves
<1>4. /\ \A q \in Cpus : SameCpu(q) \/ InOrder(q)'
      /\ FlushStands /\ ScansStand /\ PlacesStand /\ ReadsStand /\ StampsStand
      /\ \A q \in Cpus : state'[q].active => ReaderStands(q)
    BY <1>1, <1>3, Zenon DEF Moves, Processes, SameCpu, FlushStands, ScansStand, PlacesStand,
                      ReadsStand, StampsStand, ReaderStands
<1>5. PinsYoung'
    <2>1. global # Inc(global)
        BY Types, IncIs, EpochAssumption DEF Epochs
    <2>. QED BY <1>1, <2>1, Zenon DEF EpochInv, PinsYoung, Moves, Processes, Inc
<1>. QED BY <1>2, <1>4, <1>5, Stand, Zenon

\* The epoch that is current when the state word is stored is the reader's base.
LEMMA PinStoreKeeps ==
    ASSUME EpochInv, NEW c \in Cpus, PinStore(c)
    PROVE  EpochInv'
<1>1. /\ Moves(c, "in", "in", 0, 0, 0) /\ loc[c].pc = "pin" /\ loc[Flusher].pc = "out"
      /\ UNCHANGED <<global, bags, advancing, ptr, owed, fresh, reading>>
      /\ c # Flusher /\ Flusher \in Processes /\ c \in Processes
    BY Types, SimpleMoves, Zenon DEF PinStore
<1>2. /\ state' \in [Cpus -> [epoch : Epochs, active : BOOLEAN]]
      /\ state'[c].active /\ state'[c].epoch = loc[c].seen
      /\ \A q \in Cpus : q # c => state'[q] = state[q]
      /\ depth' \in [Cpus -> Nat] /\ depth'[c] > 0
      /\ \A q \in Cpus : q # c => depth'[q] = depth[q]
    BY Types, FieldTypes DEF PinStore, EpochInv, EpochType
<1>3. EpochType'
    BY <1>1, <1>2, Zenon DEF Moves, EpochInv, EpochType, Epochs
<1>4. InOrder(c)'
    BY <1>1, <1>2, Zenon DEF InOrder, Towards, Moves
<1>5. /\ \A q \in Cpus : SameCpu(q) \/ InOrder(q)'
      /\ FlushStands /\ ScansStand /\ PinsStand /\ PlacesStand /\ ReadsStand /\ StampsStand
      /\ \A q \in Cpus : state'[q].active => ReaderStands(q) \/ q = c
    BY <1>1, <1>2, <1>4, ZenonT(40) DEF Moves, Processes, SameCpu, FlushStands, ScansStand, PinsStand,
                            PlacesStand, ReadsStand, StampsStand, ReaderStands
<1>6. \E b \in Epochs : Base(c, b)'
    <2>1. reading'[c] = {} /\ state'[c].epoch # Inc(global) /\ global \in Epochs
        BY <1>1, <1>2, Types, Zenon DEF EpochInv, PinsYoung, InOrder
    <2>2. Base(c, global)'
        BY <1>1, <2>1, Zenon DEF Base, Inc
    <2>. QED BY <1>1, <2>1, <2>2, Zenon
<1>. QED BY <1>3, <1>5, <1>6, Stand, Zenon

LEMMA PinNestedKeeps ==
    ASSUME EpochInv, NEW c \in Cpus, PinNested(c)
    PROVE  EpochInv'
<1>1. /\ UNCHANGED <<global, state, bags, advancing, ptr, owed, fresh, reading, loc>>
      /\ loc[Flusher].pc = "out"
    BY Types, Zenon DEF PinNested
<1>2. /\ depth' \in [Cpus -> Nat] /\ depth'[c] > 0 /\ InOrder(c)
      /\ \A q \in Cpus : q # c => depth'[q] = depth[q]
    BY Types DEF PinNested, EpochInv, EpochType
<1>3. EpochType'
    BY <1>1, <1>2, Zenon DEF EpochInv, EpochType
<1>4. InOrder(c)'
    BY <1>1, <1>2, Zenon DEF InOrder, Towards
<1>5. /\ \A q \in Cpus : SameCpu(q) \/ InOrder(q)'
      /\ FlushStands /\ ScansStand /\ PinsStand /\ PlacesStand /\ ReadsStand /\ StampsStand
      /\ \A q \in Cpus : state'[q].active => ReaderStands(q)
    BY <1>1, <1>2, <1>4, Zenon DEF SameCpu, FlushStands, ScansStand, PinsStand, PlacesStand,
                            ReadsStand, StampsStand, ReaderStands
<1>. QED BY <1>3, <1>5, Stand, Zenon

LEMMA UnpinKeeps ==
    ASSUME EpochInv, NEW c \in Cpus, Unpin(c)
    PROVE  EpochInv'
<1>1. /\ loc[c].pc = "in" /\ UNCHANGED <<global, bags, advancing, ptr, owed, fresh>>
      /\ IF depth[c] = 1 THEN Moves(c, "out", "in", 0, 0, 0) ELSE loc' = loc
      /\ loc[Flusher].pc = "out" /\ c # Flusher /\ Flusher \in Processes /\ c \in Processes
    BY Types, SimpleMoves, Zenon DEF Unpin
<1>2. /\ state' \in [Cpus -> [epoch : Epochs, active : BOOLEAN]]
      /\ state'[c].epoch = state[c].epoch
      /\ state'[c].active = (state[c].active /\ depth[c] # 1)
      /\ \A q \in Cpus : q # c => state'[q] = state[q]
    <2> DEFINE word == [state[c] EXCEPT !.active = @ /\ ~ Leaves(c)]
    <2>1. state' = [state EXCEPT ![c] = word]
        BY Zenon DEF Unpin
    <2>2. /\ word \in [epoch : Epochs, active : BOOLEAN]
          /\ word.epoch = state[c].epoch
          /\ word.active = (state[c].active /\ depth[c] # 1)
        BY Zenon DEF EpochInv, EpochType, Leaves
    <2>. HIDE DEF word
    <2>. QED BY <2>1, <2>2, Zenon DEF EpochInv, EpochType
<1>3. /\ depth' \in [Cpus -> Nat] /\ depth'[c] = depth[c] - 1 /\ depth[c] > 0
      /\ \A q \in Cpus : q # c => depth'[q] = depth[q]
      /\ reading' \in [Cpus -> SUBSET Nodes]
      /\ reading'[c] = IF depth[c] = 1 THEN {} ELSE reading[c]
      /\ \A q \in Cpus : q # c => reading'[q] = reading[q]
    BY <1>1, Types, SMTT(30) DEF Unpin, EpochInv, EpochType, InOrder
<1>4. EpochType'
    BY <1>1, <1>2, <1>3, Zenon DEF Moves, EpochInv, EpochType, Epochs
<1>5. InOrder(c)'
    BY <1>1, <1>2, <1>3, Types DEF EpochInv, EpochType, InOrder, Towards, Moves
<1>6. /\ \A q \in Cpus : SameCpu(q) \/ InOrder(q)'
      /\ FlushStands /\ ScansStand /\ PinsStand /\ PlacesStand /\ ReadsStand /\ StampsStand
      /\ \A q \in Cpus : state'[q].active => ReaderStands(q)
    BY <1>1, <1>2, <1>3, <1>5, ZenonT(40) DEF Moves, Processes, SameCpu, FlushStands, ScansStand, PinsStand,
                                  PlacesStand, ReadsStand, StampsStand, ReaderStands
<1>. QED BY <1>4, <1>6, Stand, Zenon

\* The node loaded is at ptr, so in no bag and about to be pushed by nobody.
LEMMA LoadKeeps ==
    ASSUME EpochInv, NEW c \in Cpus, Load(c)
    PROVE  EpochInv'
<1>1. /\ loc[c].pc = "in" /\ ptr \in Nodes /\ InOrder(c) /\ loc[Flusher].pc = "out"
      /\ UNCHANGED <<global, state, depth, bags, advancing, ptr, owed, fresh, loc>>
    BY Types, Zenon DEF Load, EpochInv, EpochType
<1>2. /\ reading' \in [Cpus -> SUBSET Nodes] /\ reading'[c] = reading[c] \cup {ptr}
      /\ \A q \in Cpus : q # c => reading'[q] = reading[q]
    BY <1>1, Zenon DEF Load, EpochInv, EpochType
<1>3. ptr \notin fresh /\ \A q \in Cpus : owed[q] # ptr /\ \A d \in bags[q] : d.node # ptr
    BY <1>1, Zenon DEF EpochInv, Placed, OnePlace
<1>4. EpochType' /\ InOrder(c)'
    BY <1>1, <1>2, Zenon DEF EpochInv, EpochType, InOrder, Towards
<1>5. /\ \A q \in Cpus : SameCpu(q) \/ InOrder(q)'
      /\ FlushStands /\ ScansStand /\ PinsStand /\ PlacesStand /\ StampsStand
    BY <1>1, <1>2, <1>4, Zenon DEF SameCpu, FlushStands, ScansStand, PinsStand, PlacesStand, StampsStand
<1>6. ReadsKept'
    BY <1>1, <1>2, <1>3, ZenonT(40) DEF EpochInv, ReadsKept, Reclaimable
<1>7. ReadersBased'
    <2>1. \A q \in Cpus, b \in Epochs : Base(q, b) => Base(q, b)'
        BY <1>1, <1>2, <1>3 DEF Base, Within, Inc
    <2>. QED BY <1>1, <2>1, Zenon DEF EpochInv, ReadersBased, Epochs
<1>. QED BY <1>4, <1>5, <1>6, <1>7, Stand, Zenon

\* The node at ptr becomes a CPU's own, and new, fresh until now or Null, takes its place.
LEMMA UnlinkedPlaced ==
    ASSUME EpochInv, NEW c \in Cpus, owed[c] = Null, NEW new \in fresh \cup {Null},
           ptr' = new, fresh' = fresh \ {new}, owed' = [owed EXCEPT ![c] = ptr], bags' = bags
    PROVE  Placed'
<1>. SUFFICES ASSUME NEW n \in Nodes PROVE OnePlace(n)'
    BY Zenon DEF Placed
<1>1. OnePlace(n) /\ n # Null
    BY EpochAssumption, Zenon DEF EpochInv, Placed
<1>2. owed'[c] = ptr /\ \A q \in Cpus : q # c => owed'[q] = owed[q]
    BY Zenon DEF EpochInv, EpochType
<1>3. (new = n => n \in fresh) /\ (n \in fresh' <=> n \in fresh /\ n # new)
    BY <1>1, Zenon
<1>4. CASE ptr = n
    BY <1>1, <1>2, <1>3, <1>4, ZenonT(40) DEF OnePlace
<1>5. CASE ptr # n
    <2>1. \A q \in Cpus : owed'[q] = n <=> owed[q] = n
        BY <1>1, <1>2, <1>5, Zenon
    <2>. QED BY <1>1, <1>3, <1>5, <2>1 DEF OnePlace
<1>. QED BY <1>4, <1>5, Zenon

\* Unlink, where new is Null, and Swap.
LEMMA UnlinkKeeps ==
    ASSUME EpochInv, NEW c \in Cpus, NEW new \in fresh \cup {Null}, owed[c] = Null,
           loc[c].pc \in {"in", "swap"},
           ptr' = new, fresh' = fresh \ {new}, owed' = [owed EXCEPT ![c] = ptr],
           \/ Moves(c, "in", "in", 0, 0, 0)
           \/ Moves(c, "stamp", "in", 0, 0, 0) /\ ptr # Null
           \/ loc' = loc /\ loc[c].pc = "in",
           UNCHANGED <<global, state, depth, bags, advancing, reading>>
    PROVE  EpochInv'
<1>1. /\ loc' \in [Processes -> PlaceType] /\ loc'[c].pc \in {"in", "stamp"}
      /\ \A q \in Processes : q # c => loc'[q] = loc[q]
      /\ loc[Flusher].pc = "out" /\ c # Flusher /\ Flusher \in Processes
    BY Types DEF Moves
<1>2. /\ owed' \in [Cpus -> Nodes \cup {Null}] /\ owed'[c] = ptr
      /\ \A q \in Cpus : q # c => owed'[q] = owed[q]
    BY Zenon DEF EpochInv, EpochType
<1>3. EpochType'
    BY <1>1, <1>2, Zenon DEF EpochInv, EpochType, Epochs
<1>4. InOrder(c)'
    BY <1>1, <1>2, Types, Zenon DEF InOrder, Towards, Moves
<1>5. /\ \A q \in Cpus : SameCpu(q) \/ InOrder(q)'
      /\ FlushStands /\ ScansStand /\ PinsStand /\ ReadsStand /\ StampsStand
      /\ \A q \in Cpus : state'[q].active => ReaderStands(q)
    BY <1>1, <1>2, <1>4, Zenon DEF Processes, SameCpu, FlushStands, ScansStand, PinsStand,
                            ReadsStand, StampsStand, ReaderStands
<1>. QED BY <1>3, <1>5, UnlinkedPlaced, Stand, Zenon

LEMMA UnlinkActions ==
    ASSUME EpochInv, NEW c \in Cpus,
           Unlink(c) \/ \E new \in fresh \cup {Null} : Swap(c, new)
    PROVE  EpochInv'
<1>1. CASE Unlink(c)
    <2>1. fresh' = fresh \ {Null}
        BY <1>1, EpochAssumption, Zenon DEF Unlink, EpochInv, EpochType
    <2>. QED BY <1>1, <2>1, UnlinkKeeps, Zenon DEF Unlink
<1>2. ASSUME NEW new \in fresh \cup {Null}, Swap(c, new)
      PROVE  EpochInv'
    <2>1. /\ loc[c].pc = "swap" /\ owed[c] = Null
          /\ \/ Moves(c, "in", "in", 0, 0, 0)
             \/ Moves(c, "stamp", "in", 0, 0, 0) /\ ptr # Null
        BY <1>2, Types, SimpleMoves, Zenon DEF Swap, InOrder
    <2>. QED BY <1>2, <2>1, UnlinkKeeps, Zenon DEF Swap
<1>. QED BY <1>1, <1>2, Zenon

LEMMA PushedPlaced ==
    ASSUME EpochInv, NEW c \in Cpus, owed[c] # Null, NEW e,
           bags' = [bags EXCEPT ![c] = @ \cup {[node |-> owed[c], epoch |-> e]}],
           owed' = [owed EXCEPT ![c] = Null], fresh' = fresh, ptr' = ptr
    PROVE  Placed'
<1>. SUFFICES ASSUME NEW n \in Nodes PROVE OnePlace(n)'
    BY Zenon DEF Placed
<1>1. OnePlace(n) /\ n # Null
    BY EpochAssumption, Zenon DEF EpochInv, Placed
<1> DEFINE x == [node |-> owed[c], epoch |-> e]
<1>2. /\ owed'[c] = Null /\ \A q \in Cpus : q # c => owed'[q] = owed[q]
      /\ bags'[c] = bags[c] \cup {x} /\ \A q \in Cpus : q # c => bags'[q] = bags[q]
      /\ x.node = owed[c]
    BY Zenon DEF EpochInv, EpochType
<1>. HIDE DEF x
<1>3. CASE owed[c] = n
    <2>1. ptr # n /\ n \notin fresh
        BY <1>1, <1>3, Zenon DEF OnePlace
    <2>2. \A q \in Cpus : owed'[q] # n
        BY <1>1, <1>2, <1>3, ZenonT(40) DEF OnePlace
    <2>3. \A q \in Cpus : \A d \in bags[q] : d.node # n
        BY <1>1, <1>3, Zenon DEF OnePlace
    <2>4. \A q \in Cpus : \A d \in bags'[q] : d.node = n => q = c /\ d = x
        BY <1>2, <2>3, Zenon
    <2>. QED BY <1>2, <1>3, <2>1, <2>2, <2>4 DEF OnePlace
<1>4. CASE owed[c] # n
    <2>1. \A q \in Cpus : owed'[q] = n <=> owed[q] = n
        BY <1>1, <1>2, <1>4, Zenon
    <2>2. \A q \in Cpus : \A d : d.node = n => (d \in bags'[q] <=> d \in bags[q])
        BY <1>2, <1>4, Zenon
    <2>. QED BY <1>1, <2>1, <2>2 DEF OnePlace
<1>. QED BY <1>3, <1>4, Zenon

LEMMA PushKeeps ==
    ASSUME EpochInv, NEW c \in Cpus, Push(c)
    PROVE  EpochInv'
<1>1. /\ loc[c].pc = "push" /\ owed[c] \in Nodes /\ InOrder(c) /\ loc[Flusher].pc = "out"
      /\ UNCHANGED <<global, state, depth, advancing, ptr, fresh, reading>>
      /\ c # Flusher /\ Flusher \in Processes /\ c \in Processes
    BY Types, Zenon DEF Push, EpochInv, EpochType, InOrder
<1>2. CASE ~ HasRoom(c)
    <2>1. /\ bags' = bags /\ owed' = owed
          /\ \/ Moves(c, "in", "in", 0, 0, 0)
             \/ Moves(c, "advance", "stamp", loc[c].tries, 0, loc[c].at)
        BY <1>2, Types, CpuMoves, Zenon DEF Push
    <2>2. InOrder(c)'
        BY <1>1, <2>1, Zenon DEF InOrder, Towards, Moves
    <2>. QED BY <1>1, <2>1, <2>2, QuietStep DEF PCs
<1>3. CASE HasRoom(c)
    <2> DEFINE x == [node |-> owed[c], epoch |-> loc[c].seen]
    <2>1. /\ bags' = [bags EXCEPT ![c] = @ \cup {x}] /\ owed' = [owed EXCEPT ![c] = Null]
          /\ Moves(c, "in", "in", 0, 0, 0)
        BY <1>3, Types, CpuMoves, Zenon DEF Push
    <2>2. Placed'
        BY <1>1, <2>1, EpochAssumption, PushedPlaced, Zenon
    <2>3. /\ x \in [node : Nodes, epoch : Epochs]
          /\ x.node = owed[c] /\ x.epoch = loc[c].seen
        BY <1>1, Types, FieldTypes, Zenon
    <2>. HIDE DEF x
    <2>4. /\ bags' \in [Cpus -> SUBSET [node : Nodes, epoch : Epochs]]
          /\ bags'[c] = bags[c] \cup {x} /\ \A q \in Cpus : q # c => bags'[q] = bags[q]
          /\ owed' \in [Cpus -> Nodes \cup {Null}]
          /\ owed'[c] = Null /\ \A q \in Cpus : q # c => owed'[q] = owed[q]
        BY <2>1, <2>3, Zenon DEF EpochInv, EpochType
    <2>5. EpochType'
        BY <1>1, <2>1, <2>4, Zenon DEF Moves, EpochInv, EpochType, Epochs
    <2>6. InOrder(c)'
        BY <1>1, <2>1, Zenon DEF InOrder, Towards, Moves
    <2>7. /\ \A q \in Cpus : SameCpu(q) \/ InOrder(q)'
          /\ FlushStands /\ ScansStand /\ PinsStand /\ ReadsStand
          /\ \A q \in Cpus : state'[q].active => ReaderStands(q)
        BY <1>1, <2>1, <2>4, <2>6, ZenonT(40) DEF Moves, Processes, SameCpu, FlushStands, ScansStand,
                                      PinsStand, ReadsStand, ReaderStands
    <2>8. StampsStand
        BY <1>1, <2>1, <2>3, <2>4, ZenonT(40) DEF StampsStand, Processes, Moves
    <2>. QED BY <2>2, <2>5, <2>7, <2>8, Stand, Zenon
<1>. QED BY <1>2, <1>3, Zenon

-----------------------------------------------------------------------------
(* try_advance and reclaim_from, of a CPU or of flush. *)

\* What a step of a process in one of the two has: a CPU moves with the flush
\* outside, and flush moves with every CPU outside.
LEMMA LoopTypes ==
    ASSUME EpochInv, NEW p \in Processes, loc[p].pc \in {"advance", "scan", "load", "take"}
    PROVE  /\ loc \in [Processes -> PlaceType] /\ global \in Epochs /\ Flusher \notin Cpus
           /\ \/ p \in Cpus /\ InOrder(p) /\ loc[Flusher].pc = "out"
              \/ p = Flusher /\ \A c \in Cpus : loc[c].pc = "out"
           /\ loc[p].pc \in {"load", "take"} => loc[p].at \in Cpus /\ (p = Flusher \/ loc[p].at = p)
BY FlusherApart, Zenon DEF EpochInv, EpochType, CpusInOrder, InOrder, FlushAlone

SharedTypes ==
    /\ global \in Epochs /\ advancing \in Processes \cup {Null} /\ fresh \in SUBSET Nodes
    /\ bags \in [Cpus -> SUBSET [node : Nodes, epoch : Epochs]]

\* What a step inside the two leaves: every type, the order of the CPUs, the flush
\* alone, and every CPU that pins or pushes where it was.
InLoop(p) ==
    /\ EpochType' /\ \A q \in Cpus : SameCpu(q) \/ InOrder(q)'
    /\ FlushAlone' /\ (p # Flusher => FlushStands)
    /\ \A q \in Cpus : loc'[q].pc \in {"pin", "push"} => loc'[q] = loc[q]

LEMMA LoopStep ==
    ASSUME EpochInv, NEW p \in Processes,
           NEW pc \in {"advance", "scan", "load", "take"}, NEW tries, NEW seen, NEW at,
           loc[p].pc \in {"advance", "scan", "load", "take"},
           NEW ret, ret = loc[p].ret \/ p = Flusher,
           Moves(p, pc, ret, tries, seen, at),
           pc \in {"load", "take"} => at \in Cpus /\ (p = Flusher \/ at = p),
           state' = state, depth' = depth, ptr' = ptr, owed' = owed, reading' = reading,
           SharedTypes'
    PROVE  InLoop(p)
<1>1. EpochType'
    BY Zenon DEF Moves, EpochInv, EpochType, SharedTypes, Epochs
<1>2. Flusher \in Processes /\ \A q \in Cpus : q \in Processes
    BY FlusherApart, Zenon DEF Processes
<1>3. p # Flusher => p \in Cpus /\ InOrder(p)' /\ FlushStands
    BY <1>2, LoopTypes, Zenon DEF InOrder, Towards, Moves, FlushStands
<1>4. \A q \in Cpus : SameCpu(q) \/ InOrder(q)'
    BY <1>2, <1>3, LoopTypes, Zenon DEF SameCpu, Moves
<1>5. FlushAlone'
    BY <1>2, LoopTypes, Zenon DEF FlushAlone, Moves
<1>6. \A q \in Cpus : loc'[q].pc \in {"pin", "push"} => loc'[q] = loc[q]
    BY <1>2, Zenon DEF Moves
<1>. QED BY <1>1, <1>3, <1>4, <1>5, <1>6, Zenon DEF InLoop

LEMMA AdvanceBeginKeeps ==
    ASSUME EpochInv, NEW p \in Processes, AdvanceBegin(p)
    PROVE  EpochInv'
<1>1. /\ Moves(p, "scan", loc[p].ret, loc[p].tries, global, 0) /\ loc[p].pc = "advance"
      /\ advancing = Null /\ advancing' = p
      /\ UNCHANGED <<global, state, depth, bags, ptr, owed, fresh, reading>>
    BY ScanMoves, Zenon DEF AdvanceBegin, EpochInv, EpochType
<1>. SharedTypes'
    BY <1>1, Zenon DEF SharedTypes, EpochInv, EpochType, Epochs
<1>2. InLoop(p)
    BY <1>1, LoopStep
<1>3. p = Flusher => FlushAges'
    BY <1>1, Zenon DEF EpochInv, FlushAges, StampsOld, Age, Moves
<1>4. ScansCurrent'
    <2>1. \A q \in Processes : q # Null
        BY EpochAssumption, Zenon DEF Processes, Cpus
    <2>. QED BY <1>1, <2>1, Zenon DEF EpochInv, ScansCurrent, Moves
<1>5. /\ PinsStand /\ PlacesStand /\ ReadsStand /\ StampsStand
      /\ \A q \in Cpus : state'[q].active => ReaderStands(q)
    BY <1>1, <1>2, Zenon DEF InLoop, Moves, Processes, PinsStand, PlacesStand, ReadsStand, StampsStand, ReaderStands
<1>. QED BY <1>2, <1>3, <1>4, <1>5, Stand, Zenon DEF InLoop

\* A process that returns from try_advance was the only one in it.
LEMMA ReturnsPlace ==
    ASSUME EpochInv, NEW p \in Processes, NEW ok, Returns(p, ok), loc[p].pc = "scan",
           global' \in Epochs, advancing' = Null,
           UNCHANGED <<state, depth, bags, ptr, owed, fresh, reading>>
    PROVE  /\ InLoop(p)
           /\ \A q \in Processes : loc'[q].pc # "scan"
           /\ PlacesStand /\ ReadsStand
<1>1. \E pc \in {"load", "advance"} : \E ret, tries, at :
        /\ Moves(p, pc, ret, tries, 0, at)
        /\ ret = loc[p].ret \/ p = Flusher
        /\ at \in Cpus /\ (p = Flusher \/ at = p)
    BY EpochAssumption DEF Returns, Cpus
<1>2. PICK pc \in {"load", "advance"} : \E ret, tries, at :
        /\ Moves(p, pc, ret, tries, 0, at)
        /\ ret = loc[p].ret \/ p = Flusher
        /\ at \in Cpus /\ (p = Flusher \/ at = p)
    BY <1>1, Zenon
<1>3. PICK ret, tries, at :
        /\ Moves(p, pc, ret, tries, 0, at)
        /\ ret = loc[p].ret \/ p = Flusher
        /\ at \in Cpus /\ (p = Flusher \/ at = p)
    BY <1>2, Zenon
<1>. SharedTypes'
    BY Zenon DEF SharedTypes, EpochInv, EpochType, Epochs
<1>4. InLoop(p)
    BY <1>3, LoopStep
<1>5. \A q \in Processes : loc'[q].pc # "scan"
    BY <1>3, Zenon DEF EpochInv, ScansCurrent, Moves
<1>6. PlacesStand /\ ReadsStand
    BY <1>3, Zenon DEF PlacesStand, ReadsStand, Moves, Processes
<1>. QED BY <1>4, <1>5, <1>6, Zenon

\* A scan that passes a reader whose base is behind would have found it behind;
\* flush's is never held back, for nobody is active.
LEMMA AdvanceScanKeeps ==
    ASSUME EpochInv, NEW p \in Processes, AdvanceScan(p)
    PROVE  EpochInv'
<1>1. /\ loc[p].pc = "scan" /\ loc[p].at < N /\ loc[p].seen = global
      /\ UNCHANGED <<global, state, depth, bags, ptr, owed, fresh, reading>>
    BY Zenon DEF AdvanceScan, EpochInv, ScansCurrent
<1>2. global \in Epochs /\ loc \in [Processes -> PlaceType] /\ loc[p].at \in Cpus
    BY <1>1, LoopTypes, FieldTypes, EpochAssumption DEF Cpus
<1>3. CASE HoldsBack(state[loc[p].at], loc[p].seen)
    <2>1. Returns(p, FALSE) /\ advancing' = Null
        BY <1>2, <1>3, ScanMoves, Zenon
    <2>2. /\ InLoop(p)
          /\ \A q \in Processes : loc'[q].pc # "scan"
          /\ PlacesStand /\ ReadsStand
        BY <1>1, <1>2, <2>1, ReturnsPlace, Zenon
    <2>3. p # Flusher
        BY <1>1, <1>2, <1>3, LoopTypes, Zenon DEF HoldsBack, EpochInv, CpusInOrder, InOrder
    <2>4. ScansCurrent' /\ PinsStand /\ StampsStand
        BY <1>1, <2>2, Zenon DEF InLoop, ScansCurrent, PinsStand, StampsStand
    <2>5. \A q \in Cpus : state'[q].active => ReaderStands(q)
        BY <1>1, <2>2, Zenon DEF ReaderStands
    <2>. QED BY <2>2, <2>3, <2>4, <2>5, Stand, Zenon DEF InLoop
<1>4. CASE ~ HoldsBack(state[loc[p].at], loc[p].seen)
    <2>1. /\ Moves(p, "scan", loc[p].ret, loc[p].tries, loc[p].seen, loc[p].at + 1)
          /\ advancing' = advancing
        BY <1>2, <1>4, ScanMoves, Zenon
    <2>. SharedTypes'
        BY <1>1, <2>1, Zenon DEF SharedTypes, EpochInv, EpochType, Epochs
    <2>2. InLoop(p)
        BY <1>1, <2>1, LoopStep
    <2>3. p = Flusher => FlushAges'
        BY <1>1, <2>1, Zenon DEF EpochInv, FlushAges, StampsOld, Age, Moves
    <2>4. ScansStand /\ PinsStand /\ PlacesStand /\ ReadsStand /\ StampsStand
        BY <1>1, <2>1, <2>2, Zenon DEF InLoop, Moves, Processes, ScansStand, PinsStand, PlacesStand, ReadsStand, StampsStand
    <2>5. ASSUME NEW c \in Cpus, state'[c].active
          PROVE  \E b \in Epochs : Base(c, b)'
        <3>1. PICK b \in Epochs : Base(c, b)
            BY <1>1, <2>5, Zenon DEF EpochInv, ReadersBased
        <3>2. global = Inc(b) => loc[p].at <= c /\ loc[p].at # c
            BY <1>1, <1>4, <2>5, <3>1, IncIs, EpochAssumption, SMTT(30) DEF Base, HoldsBack, Epochs
        <3>3. global = Inc(b) => \A q \in Processes : loc'[q].pc = "scan" => loc'[q].at <= c
            BY <1>1, <1>2, <2>1, <3>1, <3>2, IncIs, EpochAssumption DEF Base, Moves, Epochs, Cpus
        <3>. QED BY <1>1, <2>4, <3>1, <3>3, BaseStands, Zenon
    <2>. QED BY <2>2, <2>3, <2>4, <2>5, Stand, Zenon DEF InLoop
<1>. QED BY <1>3, <1>4, Zenon

\* The epoch moves on: every stamp is one advance older.
LEMMA AgesAdvance ==
    ASSUME EpochInv, NEW p \in Processes, AdvanceStore(p)
    PROVE  /\ global' = Inc(global) /\ Inc(global) \in Epochs /\ bags' = bags
           /\ Age(Inc(global)) = Age(global) + 1
           /\ Age(Inc(global)) <= Age(MaxEpoch)
           /\ Age(global) \in Nat
<1>1. global' = Inc(global) /\ bags' = bags /\ global # MaxEpoch
    BY Zenon DEF AdvanceStore, EpochInv, ScansCurrent, Inc
<1>2. global \in Epochs /\ MaxEpoch \in Epochs
    BY EpochAssumption, Zenon DEF EpochInv, EpochType, Epochs
<1>3. Age(global) \in 0 .. M - 1 /\ Age(MaxEpoch) \in 0 .. M - 1 /\ M \in Nat
    BY <1>2, AgeIs, EpochAssumption, Zenon
<1>4. Age(global) # Age(MaxEpoch)
    BY <1>1, <1>2, AgeFacts, Zenon
<1>5. Age(global) < M - 1 /\ Age(global) + 1 <= Age(MaxEpoch)
    BY <1>3, <1>4 DEF EpochInv, StampsPast
<1>6. Age(Inc(global)) = Age(global) + 1 /\ Inc(global) \in Epochs
    BY <1>2, <1>5, AgeFacts, IncIs, Zenon
<1>. QED BY <1>1, <1>3, <1>5, <1>6

\* An advance that reaches its store has passed every reader at the current
\* epoch, so that is the base of each, and it becomes the one before.
LEMMA AdvanceStoreKeeps ==
    ASSUME EpochInv, NEW p \in Processes, AdvanceStore(p)
    PROVE  EpochInv'
<1>1. /\ loc[p].pc = "scan" /\ loc[p].at = N /\ advancing' = Null
      /\ UNCHANGED <<state, depth, bags, ptr, owed, fresh, reading>>
    BY Zenon DEF AdvanceStore
<1>2. /\ global' = Inc(global) /\ Inc(global) \in Epochs
      /\ Age(Inc(global)) = Age(global) + 1 /\ Age(Inc(global)) <= Age(MaxEpoch)
      /\ Age(global) \in Nat /\ global \in Epochs /\ loc \in [Processes -> PlaceType]
    BY <1>1, AgesAdvance, LoopTypes, Zenon
<1>3. Returns(p, TRUE)
    BY <1>2, ScanMoves, Zenon
<1>4. /\ InLoop(p)
      /\ \A q \in Processes : loc'[q].pc # "scan"
      /\ PlacesStand /\ ReadsStand
    BY <1>1, <1>2, <1>3, ReturnsPlace, Zenon
<1>5. PinsYoung'
    <2>. SUFFICES ASSUME NEW c \in Cpus, loc'[c].pc = "pin"
                  PROVE  loc'[c].seen # Inc(Inc(global))
        BY <1>2, Zenon DEF PinsYoung, Inc
    <2>1. loc'[c] = loc[c] /\ loc[c].pc = "pin" /\ loc[c].seen \in Epochs
        BY <1>2, <1>4, FieldTypes, Zenon DEF InLoop, Processes
    <2>2. (global + 1 - loc[c].seen) % M < M - 1
        BY <2>1, Zenon DEF AdvanceStore, PinsAreShort
    <2>. QED BY <1>2, <2>1, <2>2, YoungStays, Zenon
<1>6. ReadersBased'
    <2>. SUFFICES ASSUME NEW c \in Cpus, state'[c].active
                  PROVE  \E b \in Epochs : Base(c, b)'
        BY Zenon DEF ReadersBased, Epochs
    <2>1. PICK b \in Epochs : Base(c, b)
        BY <1>1, Zenon DEF EpochInv, ReadersBased
    <2>2. ~ (N <= c)
        BY EpochAssumption DEF Cpus
    <2>3. global = b
        BY <1>1, <2>1, <2>2, Zenon DEF Base
    <2>4. \A e : Within(e, b) => e = b
        BY <2>1, <2>3, IncIs, EpochAssumption, Zenon DEF Within, Epochs
    <2>. QED BY <1>1, <1>2, <1>4, <2>1, <2>3, <2>4 DEF InLoop, Base, Within, Inc
<1>7. StampsOld(0)' /\ (StampsOld(0) => StampsOld(1)') /\ (StampsOld(1) => StampsOld(2)')
    BY <1>1, <1>2, StampAges DEF EpochInv, StampsPast, StampsOld, Age
<1>8. StampsPast'
    <2>1. \A q \in Cpus : loc'[q].pc = "push" => Age(loc'[q].seen) <= Age(Inc(global))
        BY <1>2, <1>4, StampAges DEF InLoop, EpochInv, StampsPast
    <2>. QED BY <1>2, <1>7, <2>1, Zenon DEF StampsPast, Age
<1>9. CASE p = Flusher
    <2>1. loc[p].tries \in {0, 1} /\ StampsOld(loc[p].tries)
        BY <1>1, <1>9, Zenon DEF EpochInv, FlushAges
    <2>2. \/ StampsOld(1)' /\ Moves(Flusher, "advance", "in", 1, 0, 0)
          \/ StampsOld(2)' /\ Moves(Flusher, "load", "in", 0, 0, 0)
        BY <1>3, <1>7, <1>9, <2>1, FlusherApart, Zenon DEF Returns
    <2>3. \A c \in Cpus : ~ (c < 0)
        BY DEF Cpus
    <2>4. FlushAges'
        BY <2>2, <2>3, Zenon DEF FlushAges, Moves
    <2>5. ScansCurrent'
        BY <1>4, Zenon DEF ScansCurrent
    <2>. QED BY <1>4, <1>5, <1>6, <1>8, <2>4, <2>5, Stand, Zenon DEF InLoop
<1>10. CASE p # Flusher
    <2>1. ScansCurrent'
        BY <1>4, Zenon DEF ScansCurrent
    <2>. QED BY <1>4, <1>5, <1>6, <1>8, <1>10, <2>1, Stand, Zenon DEF InLoop
<1>. QED BY <1>9, <1>10, Zenon

\* The epoch loaded is a reader's base or the one after it, and so is every stamp
\* on what it reads: none of that is ready.
LEMMA ReclaimLoadKeeps ==
    ASSUME EpochInv, NEW p \in Processes, ReclaimLoad(p)
    PROVE  EpochInv'
<1>1. /\ Moves(p, "take", loc[p].ret, loc[p].tries, global, loc[p].at) /\ loc[p].pc = "load"
      /\ UNCHANGED <<global, state, depth, bags, advancing, ptr, owed, fresh, reading>>
    BY ScanMoves, Zenon DEF ReclaimLoad, EpochInv, EpochType
<1>. SharedTypes'
    BY <1>1, Zenon DEF SharedTypes, EpochInv, EpochType, Epochs
<1>2. InLoop(p)
    BY <1>1, LoopTypes, LoopStep
<1>3. p = Flusher => FlushAges'
    BY <1>1, Zenon DEF EpochInv, FlushAges, StampsOld, Age, Moves
<1>4. /\ ScansStand /\ PinsStand /\ PlacesStand /\ StampsStand
      /\ \A q \in Cpus : state'[q].active => ReaderStands(q)
    BY <1>1, <1>2, Zenon DEF InLoop, Moves, Processes, ScansStand, PinsStand, PlacesStand, StampsStand, ReaderStands
<1>5. ASSUME NEW c \in Cpus, NEW n \in reading[c], NEW q \in Cpus, NEW d \in bags[q], d.node = n
      PROVE  ~ Reclaimable(d.epoch, global)
    <2>1. PICK b \in Epochs : Base(c, b)
        BY Zenon DEF EpochInv, CpusInOrder, InOrder, ReadersBased
    <2>2. Within(d.epoch, b) /\ (global = b \/ global = Inc(b)) /\ Inc(b) \in Epochs
        BY <1>5, <2>1, IncIs, Zenon DEF Base
    <2>. QED BY <2>2, NotReady, Zenon DEF Within
<1>6. ReadsKept'
    BY <1>1, <1>5 DEF EpochInv, ReadsKept, Moves, Processes, Reclaimable
<1>. QED BY <1>2, <1>3, <1>4, <1>6, Stand, Zenon DEF InLoop

LEMMA TakenPlaced ==
    ASSUME EpochInv, NEW c \in Cpus, NEW x \in bags[c],
           bags' = [bags EXCEPT ![c] = @ \ {x}], fresh' = fresh \cup {x.node},
           ptr' = ptr, owed' = owed
    PROVE  Placed'
<1>. SUFFICES ASSUME NEW n \in Nodes PROVE OnePlace(n)'
    BY Zenon DEF Placed
<1>1. OnePlace(n)
    BY Zenon DEF EpochInv, Placed
<1>2. bags'[c] = bags[c] \ {x} /\ \A q \in Cpus : q # c => bags'[q] = bags[q]
    BY Zenon DEF EpochInv, EpochType
<1>3. CASE x.node = n
    <2>1. ptr # n /\ n \in fresh'
        BY <1>1, <1>3, Zenon DEF OnePlace
    <2>2. \A q \in Cpus : owed[q] # n
        BY <1>1, <1>3, Zenon DEF OnePlace
    <2>3. \A q \in Cpus : \A d \in bags[q] : d.node = n => q = c /\ d = x
        BY <1>1, <1>3, Zenon DEF OnePlace
    <2>4. \A q \in Cpus : \A d \in bags'[q] : d.node # n
        BY <1>2, <2>3, Zenon
    <2>. QED BY <2>1, <2>2, <2>4, Zenon DEF OnePlace
<1>4. CASE x.node # n
    <2>1. n \in fresh' <=> n \in fresh
        BY <1>4, Zenon
    <2>2. \A q \in Cpus : \A d : d.node = n => (d \in bags'[q] <=> d \in bags[q])
        BY <1>2, <1>4, Zenon
    <2>. QED BY <1>1, <2>1, <2>2 DEF OnePlace
<1>. QED BY <1>3, <1>4, Zenon

\* Nobody reads a node that is taken: not while its taker runs on a CPU, by what
\* it loaded, nor while flush does, which runs alone.
LEMMA TakenUnread ==
    ASSUME EpochInv, NEW p \in Processes, loc[p].pc = "take", NEW x \in bags[loc[p].at],
           Reclaimable(x.epoch, loc[p].seen)
    PROVE  \A c \in Cpus : x.node \notin reading[c]
<1>1. CASE p = Flusher
    BY <1>1, Zenon DEF EpochInv, FlushAlone, CpusInOrder, InOrder
<1>2. CASE p # Flusher
    <2>1. p \in Cpus /\ loc[p].at = p
        BY <1>2, FlusherApart, Zenon DEF EpochInv, CpusInOrder, InOrder
    <2>. QED BY <2>1, Zenon DEF EpochInv, ReadsKept
<1>. QED BY <1>1, <1>2, Zenon


\* When flush finds nothing ready in a bag, nothing is in it.
LEMMA NoneReadyNoneThere ==
    ASSUME EpochInv, loc[Flusher].pc = "take",
           {d \in bags[loc[Flusher].at] : Reclaimable(d.epoch, loc[Flusher].seen)} = {}
    PROVE  loc[Flusher].at \in Cpus /\ bags[loc[Flusher].at] = {}
<1>1. loc[Flusher].at \in Cpus /\ loc[Flusher].seen = global /\ StampsOld(2)
    BY Zenon DEF EpochInv, FlushAlone, FlushAges
<1>2. \A d \in bags[loc[Flusher].at] : Reclaimable(d.epoch, loc[Flusher].seen)
    BY <1>1, StampAges, AgeFacts, Zenon DEF EpochInv, StampsOld
<1>. QED BY <1>1, <1>2, Zenon

\* A step of flush that changes nothing but where it is.
LEMMA FlusherStep ==
    ASSUME EpochInv, NEW pc \in PCs \ {"scan"}, NEW ret, NEW tries, NEW seen, NEW at,
           Moves(Flusher, pc, ret, tries, seen, at), FlushAlone', FlushAges',
           UNCHANGED <<global, state, depth, bags, advancing, ptr, owed, fresh, reading>>
    PROVE  EpochInv'
<1>1. EpochType' /\ \A q \in Cpus : loc'[q] = loc[q]
    BY FlusherApart, Zenon DEF Moves, Processes, EpochInv, EpochType, Epochs
<1>2. /\ \A q \in Cpus : SameCpu(q)
      /\ ScansStand /\ PinsStand /\ PlacesStand /\ ReadsStand /\ StampsStand
      /\ \A q \in Cpus : state'[q].active => ReaderStands(q)
    BY <1>1, Zenon DEF Moves, SameCpu, ScansStand, PinsStand, PlacesStand, ReadsStand, StampsStand, ReaderStands
<1>. QED BY <1>1, <1>2, Stand, Zenon

LEMMA ReclaimTakeKeeps ==
    ASSUME EpochInv, NEW p \in Processes, ReclaimTake(p)
    PROVE  EpochInv'
<1>1. /\ loc[p].pc = "take"
      /\ UNCHANGED <<global, state, depth, advancing, ptr, owed, reading>>
    BY Zenon DEF ReclaimTake
<1>2. /\ loc \in [Processes -> PlaceType] /\ loc[p].at \in Cpus /\ (p = Flusher \/ loc[p].at = p)
      /\ TakeMoves(p)
    BY <1>1, LoopTypes, TakeIs, Zenon
<1> DEFINE bag == loc[p].at
           ready == {d \in bags[bag] : Reclaimable(d.epoch, loc[p].seen)}
<1>3. ASSUME NEW d \in ready, bags' = [bags EXCEPT ![bag] = @ \ {d}],
             fresh' = fresh \cup {d.node}, Moves(p, "load", loc[p].ret, loc[p].tries, 0, loc[p].at)
      PROVE  EpochInv'
    <2>1. d \in bags[bag] /\ Reclaimable(d.epoch, loc[p].seen)
        BY Zenon
    <2>2. \A c \in Cpus : d.node \notin reading[c]
        BY <1>1, <2>1, TakenUnread, Zenon
    <2>3. SharedTypes' /\ \A q \in Cpus : bags'[q] \subseteq bags[q]
        BY <1>1, <1>2, <1>3, <2>1 DEF SharedTypes, EpochInv, EpochType, Epochs
    <2>. HIDE DEF ready
    <2>4. InLoop(p)
        BY <1>1, <1>2, <1>3, <2>3, LoopStep
    <2>5. p = Flusher => FlushAges'
        <3>. SUFFICES ASSUME p = Flusher PROVE FlushAges'
            BY Zenon
        <3>1. StampsOld(2)' /\ \A c \in Cpus : c < loc[p].at => bags'[c] = {}
            BY <1>1, <2>3, Zenon DEF EpochInv, FlushAges, StampsOld, Age
        <3>. QED BY <1>3, <3>1, Zenon DEF FlushAges, Moves
    <2>6. ScansStand /\ PinsStand /\ StampsStand
        BY <1>1, <1>3, <2>3, <2>4, Zenon DEF InLoop, Moves, Processes, ScansStand, PinsStand, StampsStand
    <2>7. \A q \in Cpus : state'[q].active => ReaderStands(q)
        BY <1>1, <1>3, Zenon DEF Moves, ReaderStands
    <2>8. Placed'
        BY <1>1, <1>2, <1>3, <2>1, TakenPlaced, ZenonT(40)
    <2>9. ReadsKept'
        BY <1>1, <1>3, <2>2, <2>3 DEF EpochInv, ReadsKept, Moves, Processes, Reclaimable
    <2>. QED BY <2>4, <2>5, <2>6, <2>7, <2>8, <2>9, Stand, Zenon DEF InLoop
<1>4. ASSUME ready = {}, bags' = bags, fresh' = fresh, p = Flusher,
             \/ loc[p].at + 1 < N /\ Moves(p, "load", "in", 0, 0, loc[p].at + 1)
             \/ Moves(p, "out", "in", 0, 0, 0)
      PROVE  EpochInv'
    <2>1. bags[loc[p].at] = {}
        BY <1>1, <1>4, NoneReadyNoneThere, Zenon
    <2>2. /\ loc[p].at + 1 < N => loc[p].at + 1 \in Cpus
          /\ \A c \in Cpus : c < loc[p].at + 1 => c < loc[p].at \/ c = loc[p].at
        BY <1>2, EpochAssumption DEF Cpus
    <2>3. FlushAlone'
        BY <1>1, <1>4, <2>2, FlusherApart, Zenon DEF EpochInv, FlushAlone, Moves, Processes
    <2>4. StampsOld(2)' /\ \A c \in Cpus : c < loc[p].at + 1 => bags'[c] = {}
        BY <1>1, <1>4, <2>1, <2>2, Zenon DEF EpochInv, FlushAges, StampsOld, Age
    <2>5. FlushAges'
        BY <1>4, <2>4, Zenon DEF FlushAges, Moves
    <2>. QED BY <1>1, <1>4, <2>3, <2>5, FlusherStep, Zenon DEF PCs
<1>5. ASSUME bags' = bags, fresh' = fresh, p \in Cpus,
             \/ loc[p].ret = "in" /\ Moves(p, "in", "in", 0, 0, 0)
             \/ loc[p].ret # "in" /\ Moves(p, loc[p].ret, "in", loc[p].tries + 1, 0, 0)
      PROVE  EpochInv'
    <2>1. loc[p].ret \in {"in", "room", "stamp"} /\ loc[p].tries \in Nat /\ InOrder(p)
        BY <1>2, <1>5, FieldTypes, Types, Zenon
    <2>2. InOrder(p)'
        BY <1>1, <1>5, <2>1, Zenon DEF InOrder, Towards, Moves
    <2>3. \E pc \in {"in", "room", "stamp"}, tries \in Nat : Moves(p, pc, "in", tries, 0, 0)
        BY <1>5, <2>1
    <2>. QED BY <1>1, <1>5, <2>2, <2>3, QuietStep, Zenon DEF PCs
<1>. QED BY <1>2, <1>3, <1>4, <1>5, Zenon DEF TakeMoves

LEMMA FlushKeeps ==
    ASSUME EpochInv, Quiescent, Flush
    PROVE  EpochInv'
<1>1. 0 \in Cpus
    BY EpochAssumption DEF Cpus
<1>2. /\ Moves(Flusher, "advance", "in", 0, 0, 0) /\ \A c \in Cpus : loc[c].pc = "out"
      /\ UNCHANGED <<global, state, depth, bags, advancing, ptr, owed, fresh, reading>>
    BY <1>1, SimpleMoves, Zenon DEF Flush, EpochInv, EpochType
<1>3. FlushAlone'
    BY <1>2, FlusherApart, Zenon DEF FlushAlone, Moves, Processes
<1>4. FlushAges'
    BY <1>2, Zenon DEF EpochInv, StampsPast, FlushAges, StampsOld, Age, Moves
<1>. QED BY <1>2, <1>3, <1>4, FlusherStep, Zenon DEF PCs

-----------------------------------------------------------------------------

LEMMA EpochInvInitial == EpochInit => EpochInv
<1>. SUFFICES ASSUME EpochInit PROVE EpochInv
    BY Zenon
<1>1. EpochType
    <2>1. At("out") \in PlaceType
        BY AtIs, SpotType, Zero, Zenon DEF PCs
    <2>2. [epoch |-> 0, active |-> FALSE] \in [epoch : Epochs, active : BOOLEAN]
        BY Zero, Zenon
    <2>. QED BY <2>1, <2>2, EpochAssumption, Zenon DEF EpochInit, EpochType, Epochs
<1>2. \A p \in Processes : loc[p].pc = "out"
    BY Zenon DEF EpochInit, At
<1>3. \A c \in Cpus : ~ state[c].active /\ reading[c] = {} /\ bags[c] = {} /\ loc[c].pc = "out"
    BY <1>2, Zenon DEF EpochInit, Processes
<1>4. CpusInOrder /\ FlushAlone /\ ScansCurrent /\ PinsYoung /\ ReadersBased /\ ReadsKept /\ FlushAges
    BY <1>2, <1>3, FlusherApart, Zenon
       DEF CpusInOrder, InOrder, Towards, FlushAlone, ScansCurrent, PinsYoung, ReadersBased,
           ReadsKept, FlushAges
<1>5. Placed
    BY EpochAssumption, Zenon DEF EpochInit, Placed, OnePlace
<1>6. Age(global) <= Age(MaxEpoch)
    <2>1. global = FirstEpoch /\ FirstEpoch \in Epochs /\ MaxEpoch \in Epochs
        BY EpochAssumption, Zenon DEF EpochInit, Epochs
    <2>2. Age(FirstEpoch) = 0 /\ Age(MaxEpoch) \in 0 .. M - 1
        BY <2>1, AgeIs, EpochAssumption
    <2>. QED BY <2>1, <2>2, EpochAssumption
<1>7. StampsPast
    BY <1>3, <1>6, Zenon DEF StampsPast, StampsOld
<1>. QED BY <1>1, <1>4, <1>5, <1>7, Zenon DEF EpochInv

LEMMA EpochInvPreserved ==
    ASSUME EpochInv, Quiescent, [EpochNext]_epochVars
    PROVE  EpochInv'
<1>1. CASE UNCHANGED epochVars
    <2>1. UNCHANGED <<global, state, depth, bags, advancing, ptr, writer, owed, fresh, reading, loc>>
        BY <1>1, Zenon DEF epochVars
    <2>2. EpochType'
        BY <2>1, Zenon DEF EpochInv, EpochType
    <2>3. CpusInOrder' /\ FlushAlone'
        BY <2>1, Zenon DEF EpochInv, CpusInOrder, InOrder, Towards, FlushAlone
    <2>4. ScansCurrent' /\ PinsYoung'
        BY <2>1, Zenon DEF EpochInv, ScansCurrent, PinsYoung
    <2>5. Placed'
        <3>1. Placed
            BY Zenon DEF EpochInv
        <3>. QED BY <2>1, <3>1, SMT DEF Placed, OnePlace
    <2>6. ReadersBased' /\ ReadsKept'
        <3>1. ReadersBased /\ ReadsKept
            BY Zenon DEF EpochInv
        <3>2. ReadersBased'
            <4>1. \A c \in Cpus, b \in Epochs : Base(c, b) => Base(c, b)'
                BY <2>1, SMT DEF Base, Within
            <4>. QED BY <2>1, <3>1, <4>1, Zenon DEF ReadersBased
        <3>3. ReadsKept'
            BY <2>1, <3>1, ZenonT(40) DEF ReadsKept, Reclaimable
        <3>. QED BY <3>2, <3>3, Zenon
    <2>7. StampsPast' /\ FlushAges'
        BY <2>1, Zenon DEF EpochInv, StampsPast, StampsOld, FlushAges
    <2>. QED BY <2>2, <2>3, <2>4, <2>5, <2>6, <2>7, Zenon DEF EpochInv
<1>2. ASSUME NEW c \in Cpus,
             \/ PinLoad(c) \/ PinStore(c) \/ PinNested(c) \/ Unpin(c) \/ Load(c)
             \/ Collect(c) \/ Unlink(c) \/ Retire(c) \/ Stamp(c) \/ Push(c)
             \/ Replace(c) \/ MakeRoom(c)
             \/ \E new \in fresh \cup {Null} : Swap(c, new)
      PROVE  EpochInv'
    BY <1>2, PinLoadKeeps, PinStoreKeeps, PinNestedKeeps, UnpinKeeps, LoadKeeps,
       QuietActions, UnlinkActions, PushKeeps, Zenon
<1>3. ASSUME NEW p \in Processes,
             \/ AdvanceBegin(p) \/ AdvanceScan(p) \/ AdvanceStore(p)
             \/ ReclaimLoad(p) \/ ReclaimTake(p)
      PROVE  EpochInv'
    BY <1>3, AdvanceBeginKeeps, AdvanceScanKeeps, AdvanceStoreKeeps, ReclaimLoadKeeps,
       ReclaimTakeKeeps, Zenon
<1>. QED BY <1>1, <1>2, <1>3, FlushKeeps, Zenon DEF EpochNext

\* flush at a quiescent point returns with every bag empty: its two advances are
\* never held back and make every stamp old enough (Collector::flush).
THEOREM FlushEmptiesTheBags ==
    ASSUME Quiescent
    PROVE  EpochSpec => FlushLeavesNothing
<1>1. ASSUME EpochInv, [EpochNext]_epochVars,
             loc[Flusher].pc = "take", loc'[Flusher].pc = "out"
      PROVE  \A c \in Cpus : bags'[c] = {}
    <2> DEFINE f == loc[Flusher]
    <2>1. loc \in [Processes -> PlaceType] /\ \A c \in Cpus : loc[c].pc = "out"
        BY <1>1, Zenon DEF EpochInv, EpochType, FlushAlone
    <2>2. ReclaimTake(Flusher)
        <3>1. ASSUME NEW c \in Cpus,
                     \/ PinLoad(c) \/ PinStore(c) \/ PinNested(c) \/ Unpin(c) \/ Load(c)
                     \/ Collect(c) \/ Unlink(c) \/ Retire(c) \/ Stamp(c) \/ Push(c)
                     \/ Replace(c) \/ MakeRoom(c)
                     \/ \E new \in fresh \cup {Null} : Swap(c, new)
              PROVE  FALSE
            BY <1>1, <2>1, <3>1, Zenon DEF PinLoad, PinStore, PinNested, Unpin, Load, Collect, Unlink,
                                    Retire, Stamp, Push, Replace, MakeRoom, Swap
        <3>2. ASSUME NEW p \in Processes,
                     \/ AdvanceBegin(p) \/ AdvanceScan(p) \/ AdvanceStore(p)
                     \/ ReclaimLoad(p) \/ ReclaimTake(p)
              PROVE  p = Flusher /\ ReclaimTake(p)
            BY <1>1, <2>1, <3>2, FlusherApart, Zenon
               DEF AdvanceBegin, AdvanceScan, AdvanceStore, ReclaimLoad, ReclaimTake
        <3>. QED BY <1>1, <3>1, <3>2, Zenon DEF EpochNext, epochVars, Flush
    <2>3. TakeMoves(Flusher)
        BY <2>1, <2>2, FlusherApart, TakeIs, Zenon
    <2>4. /\ {d \in bags[f.at] : Reclaimable(d.epoch, f.seen)} = {} /\ bags' = bags
          /\ f.at + 1 >= N
        BY <1>1, <2>3, FlusherApart, Zenon DEF TakeMoves, Moves
    <2>5. f.at \in Cpus /\ bags[f.at] = {} /\ \A c \in Cpus : c < f.at => bags[c] = {}
        BY <1>1, <2>4, NoneReadyNoneThere, Zenon DEF EpochInv, FlushAges
    <2>6. \A c \in Cpus : c < f.at \/ c = f.at
        BY <2>4, <2>5, EpochAssumption DEF Cpus
    <2>. QED BY <2>4, <2>5, <2>6, Zenon
<1>2. EpochInv /\ [EpochNext]_epochVars =>
        [loc[Flusher].pc = "take" /\ loc'[Flusher].pc = "out" =>
            \A c \in Cpus : bags'[c] = {}]_epochVars
    BY <1>1, Zenon
<1>. QED BY <1>2, EpochInvInitial, EpochInvPreserved, PTL DEF EpochSpec, FlushLeavesNothing

-----------------------------------------------------------------------------
(* The place of a node. *)

\* What is in one place has one place in the list of them.
LEMMA PlacesListed ==
    ASSUME NEW n, OnePlace(n)
    PROVE  \E place \in PlacesOf(n) : PlacesOf(n) = {place}
<1> DEFINE inFresh == IF n \in fresh THEN {<<"fresh">>} ELSE {}
           inPtr == IF ptr = n THEN {<<"ptr">>} ELSE {}
           inOwed == {<<"owed", c>> : c \in {x \in Cpus : owed[x] = n}}
           inBags == UNION {{<<"bag", c, d.epoch>> : d \in {x \in bags[c] : x.node = n}} : c \in Cpus}
<1>1. PlacesOf(n) = inFresh \cup inPtr \cup inOwed \cup inBags
    BY Zenon DEF PlacesOf
<1>2. CASE n \in fresh
    <2>1. inFresh = {<<"fresh">>} /\ inPtr = {} /\ inOwed = {} /\ inBags = {}
        BY <1>2, Zenon DEF OnePlace
    <2>2. PlacesOf(n) = {<<"fresh">>}
        BY <1>1, <2>1, Zenon
    <2>. QED BY <2>2, Zenon
<1>3. CASE n \notin fresh /\ ptr = n
    <2>1. inFresh = {} /\ inPtr = {<<"ptr">>} /\ inOwed = {} /\ inBags = {}
        BY <1>3, Zenon DEF OnePlace
    <2>2. PlacesOf(n) = {<<"ptr">>}
        BY <1>1, <2>1, Zenon
    <2>. QED BY <2>2, Zenon
<1>4. ASSUME n \notin fresh, ptr # n, NEW c \in Cpus, owed[c] = n
      PROVE  \E place \in PlacesOf(n) : PlacesOf(n) = {place}
    <2>1. inFresh = {} /\ inPtr = {} /\ inBags = {}
        BY <1>4 DEF OnePlace
    <2>2. inOwed = {<<"owed", c>>}
        <3>1. {x \in Cpus : owed[x] = n} = {c}
            BY <1>4, Zenon DEF OnePlace
        <3>. QED BY <3>1, Zenon
    <2>3. PlacesOf(n) = {<<"owed", c>>}
        BY <1>1, <2>1, <2>2, Zenon
    <2>. QED BY <2>3, Zenon
<1>5. ASSUME n \notin fresh, ptr # n, NEW c \in Cpus, NEW d \in bags[c], d.node = n
      PROVE  \E place \in PlacesOf(n) : PlacesOf(n) = {place}
    <2>1. inFresh = {} /\ inPtr = {} /\ inOwed = {}
        BY <1>5 DEF OnePlace
    <2>2. inBags = {<<"bag", c, d.epoch>>}
        <3>1. {x \in bags[c] : x.node = n} = {d}
            BY <1>5 DEF OnePlace
        <3>2. \A q \in Cpus : q # c => {x \in bags[q] : x.node = n} = {}
            BY <1>5, Zenon DEF OnePlace
        <3>3. \A v : v \in inBags <=>
                \E q \in Cpus : \E x \in {y \in bags[q] : y.node = n} : v = <<"bag", q, x.epoch>>
            OBVIOUS
        <3>4. \A v : v \in inBags <=> v = <<"bag", c, d.epoch>>
            <4>. HIDE DEF inBags
            <4>. QED BY <3>1, <3>2, <3>3, Zenon
        <3>. HIDE DEF inBags
        <3>. QED BY <3>4, Zenon
    <2>3. PlacesOf(n) = {<<"bag", c, d.epoch>>}
        <3>. HIDE DEF inFresh, inPtr, inOwed, inBags
        <3>. QED BY <1>1, <2>1, <2>2, Zenon
    <2>. QED BY <2>3, Zenon
<1>. QED BY <1>2, <1>3, <1>4, <1>5, Zenon DEF OnePlace

\* What a reader has loaded under a guard stays valid until its outermost guard
\* drops, and no node is lost, retired twice or reclaimed twice: Collector::pin,
\* try_advance, retire, reclaim_from and EpochPtr::replace, in every interleaving
\* of any number of CPUs, while flush keeps to quiescent points.
THEOREM NothingReadIsReclaimed ==
    ASSUME Quiescent
    PROVE  EpochSpec => []NeverReclaimedWhileRead
<1>1. EpochInit => EpochInv
    BY EpochInvInitial, Zenon
<1>2. EpochInv /\ [EpochNext]_epochVars => EpochInv'
    BY EpochInvPreserved, Zenon
<1>3. EpochInv => NeverReclaimedWhileRead
    <2>1. Placed => \A n \in Nodes : \E place \in PlacesOf(n) : PlacesOf(n) = {place}
        BY PlacesListed, Zenon DEF Placed
    <2>2. ReadsKept => \A c \in Cpus : reading[c] \cap fresh = {}
        BY Zenon DEF ReadsKept
    <2>. QED BY <2>1, <2>2, Zenon DEF EpochInv, NeverReclaimedWhileRead
<1>. QED BY <1>1, <1>2, <1>3, PTL DEF EpochSpec
=============================================================================
