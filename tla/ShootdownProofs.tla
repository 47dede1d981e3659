--------------------------- MODULE ShootdownProofs ---------------------------
(***************************************************************************)
(* For any set of CPUs, processes and pages: no stale translation of a     *)
(* frame that was handed back, and books that balance.                     *)
(***************************************************************************)
EXTENDS Shootdown, TLAPS

Labels == {"user", "masked", "lock", "other", "gaveway", "frames", "edit", "serial",
           "publish", "ask", "send", "await", "unlock"}

Shape ==
    /\ pending \subseteq CPUs /\ answered \subseteq CPUs
    /\ mismatches \in Nat
    /\ pc \in [CPUs -> Labels]
    /\ DOMAIN op = CPUs /\ DOMAIN svc = CPUs
    /\ \A c \in CPUs : op[c] \in Ops \cup {NoOp}
    /\ \A c \in CPUs : svc[c] \in [at : {"no", "flush", "answer", "clear"}, addr : Pages \cup {ALL, None}]
    /\ mapped \subseteq Pages /\ freed \subseteq Pages
    /\ cached \in [CPUs -> SUBSET Pages]
    /\ addr \in Pages \cup {ALL, None}
    /\ todo \in [CPUs -> SUBSET Ops]

\* Who holds the serial lock, and who the frame lock.
Initiates(c) == pc[c] \in {"publish", "ask", "send", "await"}
Edits(c) ==
    /\ op[c].kind \in {"map", "unmap", "spurious"}
    /\ pc[c] \in {"edit", "serial", "publish", "ask", "send", "await", "unlock"}

LocksHeld ==
    /\ \A c \in CPUs : Initiates(c) <=> serial = c
    /\ \A c \in CPUs : Edits(c) => frames = c
    /\ \A c \in CPUs : pc[c] \in {"other", "gaveway"} => op[c].kind = "share"

\* The request belongs to the initiator that holds the serial lock.
RequestOwned ==
    /\ serial = None => pending = {}
    /\ \A c \in CPUs :
        /\ pc[c] \in {"publish", "ask"} => pending = {}
        /\ pc[c] \in {"ask", "send", "await"} =>
            /\ asked = OthersOf(c)
            /\ addr = op[c].page
        /\ pc[c] = "ask" => answered = {}
        /\ pc[c] \in {"send", "await"} =>
            /\ pending \subseteq asked
            /\ answered = {x \in asked : x \notin pending \/ svc[x].at = "clear"}
    /\ \A x \in CPUs : svc[x].at # "no" => x \in pending /\ svc[x].addr = addr

\* c has unmapped p and not yet handed its frame back.
Unmapping(c, p) ==
    /\ op[c].kind = "unmap" /\ op[c].page = p
    /\ pc[c] \in {"serial", "publish", "ask", "send", "await", "unlock"}

\* A CPU that has flushed for the unmapping of p does not cache p.
FlushedFor(c, x) ==
    \/ x = c
    \/ pc[c] = "unlock"
    \/ pc[c] \in {"send", "await"} /\ (x \notin pending \/ svc[x].at \in {"answer", "clear"})

FlushesKept ==
    /\ freed \cap mapped = {}
    /\ \A p \in Pages \ mapped : p \in freed \/ \E c \in CPUs : Unmapping(c, p)
    /\ \A c \in CPUs, p \in Pages : Unmapping(c, p) => p \notin mapped
    /\ \A c, x \in CPUs, p \in Pages : Unmapping(c, p) /\ FlushedFor(c, x) => p \notin cached[x]

ShootInv ==
    Shape /\ LocksHeld /\ RequestOwned /\ FlushesKept /\ NoStaleTranslation /\ BooksBalance

-----------------------------------------------------------------------------
\* The books are empty, everything is mapped and nobody caches anything.
LEMMA ShootInitially == ShootInit => ShootInv
  BY ShootdownConstants DEF ShootInit, ShootInv, Shape, LocksHeld, RequestOwned, FlushesKept,
     NoStaleTranslation, BooksBalance, Initiates, Edits, Unmapping, FlushedFor, Ops, NoOp, Labels

\* What the set of operations says of an operation's page.
LEMMA OpPages ==
  ASSUME NEW o \in Ops \cup {NoOp}
  PROVE  /\ o.page \in Pages \cup {ALL, None}
         /\ o.kind \in {"map", "unmap"} => o.page \in Pages
         /\ o.kind \in {"spurious", "kernel"} => o.page = ALL
  <1>1. CASE o \in [kind : {"unmap", "map"}, page : Pages, proc : Procs, other : {None}]
    BY <1>1, Zenon
  <1>2. CASE o \in [kind : {"spurious"}, page : {ALL}, proc : Procs, other : {None}]
    BY <1>2, Zenon
  <1>3. CASE o \in [kind : {"share"}, page : {None}, proc : Procs, other : Procs]
    BY <1>3, Zenon
  <1>4. CASE o \in [kind : {"kernel"}, page : {ALL}, proc : {None}, other : {None}]
    BY <1>4, Zenon
  <1>5. CASE o = NoOp
    BY <1>5, Zenon DEF NoOp
  <1> QED BY <1>1, <1>2, <1>3, <1>4, <1>5, Zenon DEF Ops

LEMMA LockProcessKeeps == ASSUME NEW c \in CPUs, ShootInv, LockProcess(c) PROVE ShootInv'
  <1> USE DEF ShootInv, LockProcess, Runs, Goto, request, locks, memory
  <1>1. Shape'
    BY Zenon DEF Shape, Labels
  <1>2. LocksHeld'
    BY ShootdownConstants DEF Shape, Labels, LocksHeld, Initiates, Edits
  <1>3. RequestOwned'
    BY ShootdownConstants DEF Shape, Labels, RequestOwned, OthersOf
  <1>4. FlushesKept'
    BY DEF Shape, Labels, FlushesKept, Unmapping, FlushedFor
  <1>5. NoStaleTranslation'
    BY Zenon DEF NoStaleTranslation
  <1>6. BooksBalance'
    BY Zenon DEF BooksBalance
  <1> QED BY <1>1, <1>2, <1>3, <1>4, <1>5, <1>6, Zenon

LEMMA LockOtherKeeps == ASSUME NEW c \in CPUs, ShootInv, LockOther(c) PROVE ShootInv'
  <1> USE DEF ShootInv, LockOther, Runs, Goto, request, locks, memory
  <1>1. Shape'
    BY Zenon DEF Shape, Labels
  <1>2. LocksHeld'
    BY ShootdownConstants DEF Shape, Labels, LocksHeld, Initiates, Edits
  <1>3. RequestOwned'
    BY ShootdownConstants DEF Shape, Labels, RequestOwned, OthersOf
  <1>4. FlushesKept'
    BY ShootdownConstants DEF Shape, Labels, FlushesKept, Unmapping, FlushedFor, LocksHeld, Initiates, Edits
  <1>5. NoStaleTranslation'
    BY Zenon DEF NoStaleTranslation
  <1>6. BooksBalance'
    BY Zenon DEF BooksBalance
  <1> QED BY <1>1, <1>2, <1>3, <1>4, <1>5, <1>6, Zenon

LEMMA GiveWayKeeps == ASSUME NEW c \in CPUs, ShootInv, GiveWay(c) PROVE ShootInv'
  <1> USE DEF ShootInv, GiveWay, Runs, Goto, request, locks, memory
  <1>1. Shape'
    BY Zenon DEF Shape, Labels
  <1>2. LocksHeld'
    BY ShootdownConstants DEF Shape, Labels, LocksHeld, Initiates, Edits
  <1>3. RequestOwned'
    BY ShootdownConstants DEF Shape, Labels, RequestOwned, OthersOf
  <1>4. FlushesKept'
    BY SMTT(30) DEF Shape, Labels, FlushesKept, Unmapping, FlushedFor
  <1>5. NoStaleTranslation'
    BY Zenon DEF NoStaleTranslation
  <1>6. BooksBalance'
    BY Zenon DEF BooksBalance
  <1> QED BY <1>1, <1>2, <1>3, <1>4, <1>5, <1>6, Zenon

LEMMA TryAgainKeeps == ASSUME NEW c \in CPUs, ShootInv, TryAgain(c) PROVE ShootInv'
  <1> USE DEF ShootInv, TryAgain, Runs, Goto, request, locks, memory
  <1>1. Shape'
    BY Zenon DEF Shape, Labels
  <1>2. LocksHeld'
    BY ShootdownConstants DEF Shape, Labels, LocksHeld, Initiates, Edits
  <1>3. RequestOwned'
    BY ShootdownConstants DEF Shape, Labels, RequestOwned, OthersOf
  <1>4. FlushesKept'
    BY DEF Shape, Labels, FlushesKept, Unmapping, FlushedFor
  <1>5. NoStaleTranslation'
    BY Zenon DEF NoStaleTranslation
  <1>6. BooksBalance'
    BY Zenon DEF BooksBalance
  <1> QED BY <1>1, <1>2, <1>3, <1>4, <1>5, <1>6, Zenon

LEMMA LockFramesKeeps == ASSUME NEW c \in CPUs, ShootInv, LockFrames(c) PROVE ShootInv'
  <1> USE DEF ShootInv, LockFrames, Runs, Goto, request, locks, memory
  <1>1. Shape'
    BY Zenon DEF Shape, Labels
  <1>2. LocksHeld'
    BY ShootdownConstants DEF Shape, Labels, LocksHeld, Initiates, Edits
  <1>3. RequestOwned'
    BY ShootdownConstants DEF Shape, Labels, RequestOwned, OthersOf
  <1>4. FlushesKept'
    BY DEF Shape, Labels, FlushesKept, Unmapping, FlushedFor
  <1>5. NoStaleTranslation'
    BY Zenon DEF NoStaleTranslation
  <1>6. BooksBalance'
    BY Zenon DEF BooksBalance
  <1> QED BY <1>1, <1>2, <1>3, <1>4, <1>5, <1>6, Zenon

LEMMA LockSerialKeeps == ASSUME NEW c \in CPUs, ShootInv, LockSerial(c) PROVE ShootInv'
  <1> USE DEF ShootInv, LockSerial, Runs, Goto, request, locks, memory
  <1>1. Shape'
    BY Zenon DEF Shape, Labels
  <1>2. LocksHeld'
    BY ShootdownConstants DEF Shape, Labels, LocksHeld, Initiates, Edits
  <1>3. RequestOwned'
    BY ShootdownConstants DEF Shape, Labels, RequestOwned, OthersOf
  <1>4. FlushesKept'
    BY DEF Shape, Labels, FlushesKept, Unmapping, FlushedFor
  <1>5. NoStaleTranslation'
    BY Zenon DEF NoStaleTranslation
  <1>6. BooksBalance'
    BY Zenon DEF BooksBalance
  <1> QED BY <1>1, <1>2, <1>3, <1>4, <1>5, <1>6, Zenon

LEMMA EditKeeps == ASSUME NEW c \in CPUs, ShootInv, Edit(c) PROVE ShootInv'
  <1> USE DEF ShootInv, Edit, Runs, Goto, request, locks, memory, Flushed
  <1>1. Shape'
    BY DEF Shape, Labels
  <1>2. LocksHeld'
    BY ShootdownConstants DEF Shape, Labels, LocksHeld, Initiates, Edits
  <1>3. RequestOwned'
    BY ShootdownConstants DEF Shape, Labels, RequestOwned, OthersOf
  <1>4. FlushesKept'
    <2>1. frames = c \/ op[c].kind = "kernel"
      BY Zenon DEF LocksHeld, Edits
    <2>2. \A x \in CPUs, p \in Pages : Unmapping(x, p) => frames = x /\ x # c
      BY Zenon DEF LocksHeld, Edits, Unmapping
    <2>3. CASE op[c].kind = "map"
      BY <2>1, <2>2, <2>3, OpPages DEF Shape, FlushesKept, Unmapping, FlushedFor
    <2>4. CASE op[c].kind = "unmap" /\ op[c].page \notin mapped
      <3>1. op[c].page \in Pages /\ UNCHANGED memory /\ pc' = [pc EXCEPT ![c] = "unlock"]
        BY <2>4, OpPages, Zenon DEF Shape
      <3>2. op[c].page \in freed
        BY <2>1, <2>2, <2>4, <3>1, Zenon DEF FlushesKept
      <3>3. \A x \in CPUs, p \in Pages :
              Unmapping(x, p)' <=> Unmapping(x, p) \/ (x = c /\ p = op[c].page)
        BY <2>4, <3>1, Zenon DEF Shape, Unmapping
      <3>4. \A x, y \in CPUs : x # c => (FlushedFor(x, y)' <=> FlushedFor(x, y))
        BY <3>1 DEF Shape, FlushedFor
      <3> QED BY <2>2, <2>4, <3>1, <3>2, <3>3, <3>4 DEF FlushesKept, NoStaleTranslation, memory
    <2>5. CASE op[c].kind = "unmap" /\ op[c].page \in mapped
      BY <2>1, <2>2, <2>5, OpPages, SMTT(30) DEF Shape, FlushesKept, Unmapping, FlushedFor
    <2>6. CASE op[c].kind \in {"spurious", "kernel"}
      <3>1. mapped' = mapped /\ freed' = freed /\ pc' = [pc EXCEPT ![c] = "serial"]
        <4>1. op[c].page = ALL
          BY <2>6, OpPages, Zenon DEF Shape
        <4>2. mapped \ {ALL} = mapped
          BY ShootdownConstants DEF Shape
        <4> QED BY <2>6, <4>1, <4>2, Zenon DEF Shape
      <3>2. \A x \in CPUs : cached'[x] \subseteq cached[x]
        BY <2>6 DEF Shape
      <3>3. \A x \in CPUs, p \in Pages : Unmapping(x, p)' <=> Unmapping(x, p)
        BY <2>6, <3>1 DEF Shape, Unmapping
      <3>4. \A x, y \in CPUs : x # c => (FlushedFor(x, y)' <=> FlushedFor(x, y))
        BY <3>1 DEF Shape, FlushedFor
      <3> QED BY <2>2, <3>1, <3>2, <3>3, <3>4, Zenon DEF FlushesKept
    <2> QED BY <2>3, <2>4, <2>5, <2>6, Zenon
  <1>5. NoStaleTranslation'
    BY ShootdownConstants DEF NoStaleTranslation, Shape, Labels
  <1>6. BooksBalance'
    BY Zenon DEF BooksBalance
  <1> QED BY <1>1, <1>2, <1>3, <1>4, <1>5, <1>6, Zenon

LEMMA PublishKeeps == ASSUME NEW c \in CPUs, ShootInv, Publish(c) PROVE ShootInv'
  <1> USE DEF ShootInv, Publish, Runs, Goto, request, locks, memory
  <1>1. Shape'
    <2>1. op[c].page \in Pages \cup {ALL, None}
      BY OpPages, Zenon DEF Shape
    <2> QED BY <2>1 DEF Shape, Labels
  <1>2. LocksHeld'
    BY ShootdownConstants DEF Shape, Labels, LocksHeld, Initiates, Edits
  <1>3. RequestOwned'
    BY ShootdownConstants DEF Shape, Labels, RequestOwned, OthersOf, LocksHeld, Initiates, Edits
  <1>4. FlushesKept'
    BY ShootdownConstants DEF Shape, Labels, FlushesKept, Unmapping, FlushedFor, LocksHeld, Initiates, Edits,
        RequestOwned, OthersOf
  <1>5. NoStaleTranslation'
    BY Zenon DEF NoStaleTranslation
  <1>6. BooksBalance'
    BY ShootdownConstants, Zenon DEF BooksBalance, Shape, Labels, RequestOwned, OthersOf
  <1> QED BY <1>1, <1>2, <1>3, <1>4, <1>5, <1>6, Zenon

LEMMA AskKeeps == ASSUME NEW c \in CPUs, ShootInv, Ask(c) PROVE ShootInv'
  <1> USE DEF ShootInv, Ask, Runs, Goto, request, locks, memory
  <1>1. Shape'
    BY Zenon DEF Shape, Labels, OthersOf
  <1>2. LocksHeld'
    BY ShootdownConstants DEF Shape, Labels, LocksHeld, Initiates, Edits
  <1>3. RequestOwned'
    BY ShootdownConstants DEF Shape, Labels, RequestOwned, OthersOf, LocksHeld, Initiates, Edits
  <1>4. FlushesKept'
    BY ShootdownConstants DEF Shape, Labels, FlushesKept, Unmapping, FlushedFor, LocksHeld, Initiates, Edits,
        RequestOwned, OthersOf
  <1>5. NoStaleTranslation'
    BY Zenon DEF NoStaleTranslation
  <1>6. BooksBalance'
    BY Zenon DEF BooksBalance
  <1> QED BY <1>1, <1>2, <1>3, <1>4, <1>5, <1>6, Zenon

LEMMA SendIpisKeeps == ASSUME NEW c \in CPUs, ShootInv, SendIpis(c) PROVE ShootInv'
  <1> USE DEF ShootInv, SendIpis, Runs, Goto, request, locks, memory
  <1>1. Shape'
    BY Zenon DEF Shape, Labels
  <1>2. LocksHeld'
    BY ShootdownConstants DEF Shape, Labels, LocksHeld, Initiates, Edits
  <1>3. RequestOwned'
    BY ShootdownConstants DEF Shape, Labels, RequestOwned, OthersOf
  <1>4. FlushesKept'
    BY DEF Shape, Labels, FlushesKept, Unmapping, FlushedFor
  <1>5. NoStaleTranslation'
    BY Zenon DEF NoStaleTranslation
  <1>6. BooksBalance'
    BY Zenon DEF BooksBalance
  <1> QED BY <1>1, <1>2, <1>3, <1>4, <1>5, <1>6, Zenon

LEMMA FinishKeeps == ASSUME NEW c \in CPUs, ShootInv, Finish(c) PROVE ShootInv'
  <1> USE DEF ShootInv, Finish, Runs, Goto, request, locks, memory, Answered
  <1>1. Shape'
    BY DEF Shape, Labels
  <1>2. LocksHeld'
    BY ShootdownConstants DEF Shape, Labels, LocksHeld, Initiates, Edits
  <1>3. RequestOwned'
    BY ShootdownConstants DEF Shape, Labels, RequestOwned, OthersOf
  <1>4. FlushesKept'
    BY DEF Shape, Labels, FlushesKept, Unmapping, FlushedFor
  <1>5. NoStaleTranslation'
    BY Zenon DEF NoStaleTranslation
  <1>6. BooksBalance'
    <2>1. answered = {x \in asked : x \notin pending \/ svc[x].at = "clear"}
      BY Zenon DEF RequestOwned
    <2>2. asked = answered
      BY <2>1, Zenon
    <2> QED BY <2>2, Zenon DEF BooksBalance
  <1> QED BY <1>1, <1>2, <1>3, <1>4, <1>5, <1>6, Zenon

LEMMA UnlockKeeps == ASSUME NEW c \in CPUs, ShootInv, Unlock(c) PROVE ShootInv'
  <1> USE DEF ShootInv, Unlock, Runs, Goto, request, locks, memory
  <1>1. Shape'
    <2>1. freed' \subseteq Pages
      BY OpPages DEF Shape
    <2>2. \A x \in CPUs : op'[x] \in Ops \cup {NoOp}
      BY Zenon DEF Shape
    <2> QED BY <2>1, <2>2, Zenon DEF Shape, Labels
  <1>2. LocksHeld'
    BY ShootdownConstants DEF Shape, Labels, LocksHeld, Initiates, Edits
  <1>3. RequestOwned'
    BY ShootdownConstants DEF Shape, Labels, RequestOwned, OthersOf
  <1>4. FlushesKept'
    BY DEF Shape, Labels, FlushesKept, Unmapping, FlushedFor
  <1>5. NoStaleTranslation'
    BY ShootdownConstants DEF NoStaleTranslation, Shape, Labels, FlushesKept, Unmapping, FlushedFor
  <1>6. BooksBalance'
    BY Zenon DEF BooksBalance
  <1> QED BY <1>1, <1>2, <1>3, <1>4, <1>5, <1>6, Zenon

LEMMA TakeIpiKeeps == ASSUME NEW c \in CPUs, ShootInv, TakeIpi(c) PROVE ShootInv'
  <1> USE DEF ShootInv, TakeIpi, Runs, Goto, request, locks, memory, ServiceBegin
  <1>1. Shape'
    BY Zenon DEF Shape, Labels
  <1>2. LocksHeld'
    BY ShootdownConstants, Zenon DEF Shape, Labels, LocksHeld, Initiates, Edits
  <1>3. RequestOwned'
    BY ShootdownConstants DEF Shape, Labels, RequestOwned, OthersOf
  <1>4. FlushesKept'
    BY DEF Shape, Labels, FlushesKept, Unmapping, FlushedFor
  <1>5. NoStaleTranslation'
    BY Zenon DEF NoStaleTranslation
  <1>6. BooksBalance'
    BY Zenon DEF BooksBalance
  <1> QED BY <1>1, <1>2, <1>3, <1>4, <1>5, <1>6, Zenon

LEMMA AnswerFromSpinKeeps == ASSUME NEW c \in CPUs, ShootInv, AnswerFromSpin(c) PROVE ShootInv'
  <1> USE DEF ShootInv, AnswerFromSpin, Runs, Goto, request, locks, memory, ServiceBegin
  <1>1. Shape'
    BY Zenon DEF Shape, Labels
  <1>2. LocksHeld'
    BY ShootdownConstants, Zenon DEF Shape, Labels, LocksHeld, Initiates, Edits
  <1>3. RequestOwned'
    BY ShootdownConstants DEF Shape, Labels, RequestOwned, OthersOf
  <1>4. FlushesKept'
    BY DEF Shape, Labels, FlushesKept, Unmapping, FlushedFor
  <1>5. NoStaleTranslation'
    BY Zenon DEF NoStaleTranslation
  <1>6. BooksBalance'
    BY Zenon DEF BooksBalance
  <1> QED BY <1>1, <1>2, <1>3, <1>4, <1>5, <1>6, Zenon

LEMMA ServiceFlushKeeps == ASSUME NEW c \in CPUs, ShootInv, ServiceFlush(c) PROVE ShootInv'
  <1> USE DEF ShootInv, ServiceFlush, Runs, Goto, request, locks, memory, Flushed
  <1>1. Shape'
    BY DEF Shape, Labels
  <1>2. LocksHeld'
    BY ShootdownConstants, Zenon DEF Shape, Labels, LocksHeld, Initiates, Edits
  <1>3. RequestOwned'
    BY ShootdownConstants DEF Shape, Labels, RequestOwned, OthersOf
  <1>4. FlushesKept'
    BY ShootdownConstants DEF Shape, Labels, FlushesKept, Unmapping, FlushedFor, LocksHeld, Initiates, Edits,
        RequestOwned, OthersOf
  <1>5. NoStaleTranslation'
    BY DEF NoStaleTranslation
  <1>6. BooksBalance'
    BY Zenon DEF BooksBalance
  <1> QED BY <1>1, <1>2, <1>3, <1>4, <1>5, <1>6, Zenon

LEMMA ServiceAnswerKeeps == ASSUME NEW c \in CPUs, ShootInv, ServiceAnswer(c) PROVE ShootInv'
  <1> USE DEF ShootInv, ServiceAnswer, Runs, Goto, request, locks, memory
  <1>1. Shape'
    BY DEF Shape, Labels
  <1>2. LocksHeld'
    BY ShootdownConstants, Zenon DEF Shape, Labels, LocksHeld, Initiates, Edits
  <1>3. RequestOwned'
    BY ShootdownConstants DEF Shape, Labels, RequestOwned, OthersOf
  <1>4. FlushesKept'
    BY DEF Shape, Labels, FlushesKept, Unmapping, FlushedFor
  <1>5. NoStaleTranslation'
    BY Zenon DEF NoStaleTranslation
  <1>6. BooksBalance'
    BY Zenon DEF BooksBalance
  <1> QED BY <1>1, <1>2, <1>3, <1>4, <1>5, <1>6, Zenon

LEMMA ServiceClearKeeps == ASSUME NEW c \in CPUs, ShootInv, ServiceClear(c) PROVE ShootInv'
  <1> USE DEF ShootInv, ServiceClear, Runs, Goto, request, locks, memory
  <1>1. Shape'
    BY Zenon DEF Shape, Labels
  <1>2. LocksHeld'
    BY ShootdownConstants, Zenon DEF Shape, Labels, LocksHeld, Initiates, Edits
  <1>3. RequestOwned'
    BY ShootdownConstants DEF Shape, Labels, RequestOwned, OthersOf
  <1>4. FlushesKept'
    BY DEF Shape, Labels, FlushesKept, Unmapping, FlushedFor
  <1>5. NoStaleTranslation'
    BY Zenon DEF NoStaleTranslation
  <1>6. BooksBalance'
    BY Zenon DEF BooksBalance
  <1> QED BY <1>1, <1>2, <1>3, <1>4, <1>5, <1>6, Zenon

LEMMA UnmaskKeeps == ASSUME NEW c \in CPUs, ShootInv, Unmask(c) PROVE ShootInv'
  <1> USE DEF ShootInv, Unmask, Runs, Goto, request, locks, memory
  <1>1. Shape'
    BY Zenon DEF Shape, Labels
  <1>2. LocksHeld'
    BY ShootdownConstants DEF Shape, Labels, LocksHeld, Initiates, Edits
  <1>3. RequestOwned'
    BY ShootdownConstants DEF Shape, Labels, RequestOwned, OthersOf
  <1>4. FlushesKept'
    BY DEF Shape, Labels, FlushesKept, Unmapping, FlushedFor
  <1>5. NoStaleTranslation'
    BY Zenon DEF NoStaleTranslation
  <1>6. BooksBalance'
    BY Zenon DEF BooksBalance
  <1> QED BY <1>1, <1>2, <1>3, <1>4, <1>5, <1>6, Zenon

LEMMA MaskKeeps == ASSUME NEW c \in CPUs, ShootInv, Mask(c) PROVE ShootInv'
  <1> USE DEF ShootInv, Mask, Runs, Goto, request, locks, memory
  <1>1. Shape'
    BY Zenon DEF Shape, Labels
  <1>2. LocksHeld'
    BY ShootdownConstants DEF Shape, Labels, LocksHeld, Initiates, Edits
  <1>3. RequestOwned'
    BY ShootdownConstants DEF Shape, Labels, RequestOwned, OthersOf
  <1>4. FlushesKept'
    BY SMTT(30) DEF Shape, Labels, FlushesKept, Unmapping, FlushedFor
  <1>5. NoStaleTranslation'
    BY Zenon DEF NoStaleTranslation
  <1>6. BooksBalance'
    BY Zenon DEF BooksBalance
  <1> QED BY <1>1, <1>2, <1>3, <1>4, <1>5, <1>6, Zenon

LEMMA BeginKeeps ==
  ASSUME NEW c \in CPUs, ShootInv, NEW o \in todo[c], Begin(c, o) PROVE ShootInv'
  <1> USE DEF ShootInv, Begin, Runs, Goto, request, locks, memory
  <1>0. o \in Ops
    BY Zenon DEF Shape
  <1>1. Shape'
    BY <1>0, Zenon DEF Shape, Labels
  <1>2. LocksHeld'
    BY <1>0, ShootdownConstants DEF Shape, Labels, LocksHeld, Initiates, Edits
  <1>3. RequestOwned'
    BY <1>0, ShootdownConstants DEF Shape, Labels, RequestOwned, OthersOf
  <1>4. FlushesKept'
    BY <1>0, SMTT(30) DEF Shape, Labels, FlushesKept, Unmapping, FlushedFor
  <1>5. NoStaleTranslation'
    BY Zenon DEF NoStaleTranslation
  <1>6. BooksBalance'
    BY Zenon DEF BooksBalance
  <1> QED BY <1>1, <1>2, <1>3, <1>4, <1>5, <1>6, Zenon

LEMMA FetchKeeps ==
  ASSUME NEW c \in CPUs, ShootInv, NEW p \in Pages, Fetch(c, p) PROVE ShootInv'
  <1> USE DEF ShootInv, Fetch, request, locks
  <1>1. Shape'
    BY DEF Shape
  <1>2. LocksHeld'
    BY Zenon DEF LocksHeld, Initiates, Edits
  <1>3. RequestOwned'
    BY DEF RequestOwned
  <1>4. FlushesKept'
    BY DEF Shape, FlushesKept, Unmapping, FlushedFor
  <1>5. NoStaleTranslation'
    BY DEF Shape, FlushesKept, NoStaleTranslation
  <1>6. BooksBalance'
    BY Zenon DEF BooksBalance
  <1> QED BY <1>1, <1>2, <1>3, <1>4, <1>5, <1>6, Zenon

\* Every step of every CPU keeps the invariant, and so does a step that changes
\* nothing.
LEMMA ShootKept == ShootInv /\ [ShootNext]_shootVars => ShootInv'
  <1> SUFFICES ASSUME ShootInv, [ShootNext]_shootVars PROVE ShootInv'
    BY Zenon
  <1>1. CASE UNCHANGED shootVars
    BY <1>1 DEF shootVars, request, locks, memory, ShootInv, Shape, LocksHeld, RequestOwned,
       FlushesKept, NoStaleTranslation, BooksBalance, Initiates, Edits, Unmapping, FlushedFor
  <1>2. ASSUME NEW c \in CPUs, CpuStep(c) PROVE ShootInv'
    <2>1. CASE Locking(c)
      BY <2>1, LockProcessKeeps, LockOtherKeeps, GiveWayKeeps, TryAgainKeeps, LockFramesKeeps,
         LockSerialKeeps, Zenon DEF Locking
    <2>2. CASE Shooting(c)
      BY <2>2, EditKeeps, PublishKeeps, AskKeeps, SendIpisKeeps, FinishKeeps, UnlockKeeps, Zenon DEF Shooting
    <2>3. CASE Serving(c)
      BY <2>3, TakeIpiKeeps, AnswerFromSpinKeeps, ServiceFlushKeeps, ServiceAnswerKeeps,
         ServiceClearKeeps, Zenon DEF Serving
    <2> QED BY <1>2, <2>1, <2>2, <2>3, UnmaskKeeps, Zenon DEF CpuStep
  <1> QED BY <1>1, <1>2, MaskKeeps, BeginKeeps, FetchKeeps, Zenon DEF ShootNext

\* However many CPUs initiate, answer, fetch and mask, in whatever order: no CPU
\* can reach a page whose frame was handed back (shootdown.rs, shoot; tlb.rs).
THEOREM NeverStale == ShootSpec => []NoStaleTranslation
  <1>1. ShootInv => NoStaleTranslation
    BY Zenon DEF ShootInv
  <1> QED BY <1>1, ShootInitially, ShootKept, PTL DEF ShootSpec

\* publish never meets a request still outstanding and finish never finds an
\* answer missing or one too many: MISMATCHES stays zero (shootdown.rs, shoot).
THEOREM BooksAlwaysBalance == ShootSpec => []BooksBalance
  <1>1. ShootInv => BooksBalance
    BY Zenon DEF ShootInv
  <1> QED BY <1>1, ShootInitially, ShootKept, PTL DEF ShootSpec
=============================================================================
