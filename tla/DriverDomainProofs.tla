------------------------- MODULE DriverDomainProofs -------------------------
(***************************************************************************)
(* NoStrandedCompletion of DriverDomain, for every inbox size and without  *)
(* a bound on requests, domains or interrupts that matters to the proof.   *)
(*                                                                         *)
(* By itself it is not inductive: it says nothing of a domain that is      *)
(* still counting or draining, and a message dropped at a full inbox is    *)
(* harmless only because what fills the inbox is news to the domain.       *)
(* TellInv adds the order of the counts: what the domain acknowledged, was *)
(* sent, finds in its inbox, is sent next, and was raised only grows.      *)
(***************************************************************************)
EXTENDS DriverDomain, SequenceTheorems, TLAPS

WayType ==
    /\ drive \in [working : SUBSET Nat, used : SUBSET Nat, interrupt : BOOLEAN]
    /\ taking \in {"idle", "owned"}
    /\ raised \in Nat /\ sent \in Nat /\ owned \in BOOLEAN
    /\ forwarder \in [pc : {"absent", "waiting", "sending", "marking"}, holds : Nat]
    /\ inbox \in Seq(Nat)
    /\ domain \in [pc : {"absent", "dead", "bringUp", "serving", "counting", "draining", "asleep"},
                   request : Nat, slots : SUBSET Nat, count : Nat, acknowledged : Nat]
    /\ served \in [begun : Nat, stop : BOOLEAN, starts : Nat, asked : Nat]

\* The latest count any inbox can hold.
Upto == IF forwarder.pc = "marking" THEN forwarder.holds ELSE sent

\* The forwarder's counts: what it holds is later than SENT and was raised.
CountsGrow ==
    /\ sent <= raised
    /\ forwarder.pc \in {"sending", "marking"} => sent < forwarder.holds /\ forwarder.holds <= raised

\* The counts of q are in order, above low and up to high.
Rising(q, low, high) ==
    /\ \A i \in 1 .. Len(q) : low < q[i] /\ q[i] <= high
    /\ \A i, j \in 1 .. Len(q) : i < j => q[i] < q[j]

\* The inbox's counts are in order, all later than what the domain has seen.
InboxIsNews ==
    /\ domain.acknowledged <= domain.count /\ domain.count <= Upto
    /\ Rising(inbox, domain.count, Upto)

\* Who is served: a domain owns the interrupt, the forwarder outlives it, and
\* the device has only been asked what was asked.
Served ==
    /\ domain.pc # "absent" => owned /\ ~ served.stop /\ forwarder.pc # "absent"
    /\ \A n \in drive.used \cup drive.working : n <= served.asked

\* Something is on its way: given InboxIsNews and CountsGrow, the same as a
\* count in Coming the domain has not acknowledged.
Pending ==
    inbox # <<>> \/ forwarder.pc = "sending" \/ raised # Upto \/ drive.interrupt \/ taking = "owned"

\* A domain in the middle of a request that is done has news, or news coming.
Told ==
    /\ domain.pc = "asleep" => domain.count = domain.acknowledged
    /\ domain.pc \in {"counting", "draining", "asleep"} /\ domain.request \in drive.used =>
           domain.count > domain.acknowledged \/ Pending

TellInv == WayType /\ CountsGrow /\ InboxIsNews /\ Served /\ Told

-----------------------------------------------------------------------------
\* An empty inbox is in order whatever the counts.
LEMMA RisingEmpty == \A low, high : Rising(<<>>, low, high)
BY DEF Rising

\* A later limit changes nothing.
LEMMA RisingUp ==
    ASSUME NEW q \in Seq(Nat), NEW low \in Nat, NEW high \in Nat, NEW later \in Nat,
           Rising(q, low, high), high <= later
    PROVE  Rising(q, low, later)
BY DEF Rising

\* A count later than the limit goes to the end.
LEMMA RisingAppend ==
    ASSUME NEW q \in Seq(Nat), NEW low \in Nat, NEW high \in Nat, NEW c \in Nat,
           Rising(q, low, high), low <= high, high < c
    PROVE  /\ Rising(Append(q, c), low, c)
           /\ Append(q, c) \in Seq(Nat) /\ Append(q, c) # <<>>
<1> DEFINE r == Append(q, c)
<1>1. /\ r \in Seq(Nat) /\ r # <<>> /\ Len(r) = Len(q) + 1
      /\ \A i \in 1 .. Len(q) : r[i] = q[i]
      /\ r[Len(q) + 1] = c
  BY AppendProperties
<1>2. Len(q) \in Nat /\ \A i \in 1 .. Len(q) : q[i] \in Nat
  OBVIOUS
<1> HIDE DEF r
<1>3. \A i \in 1 .. Len(r) : i \in 1 .. Len(q) \/ i = Len(q) + 1
  BY <1>1, <1>2
<1>a. \A i \in 1 .. Len(q) : r[i] \in Nat /\ low < r[i] /\ r[i] <= high
  BY <1>1, <1>2, Zenon DEF Rising
<1>4. ASSUME NEW i \in 1 .. Len(r) PROVE low < r[i] /\ r[i] <= c
  <2>1. CASE i \in 1 .. Len(q)
    BY <2>1, <1>a
  <2>2. CASE i = Len(q) + 1
    BY <2>2, <1>1
  <2> QED
    BY <1>3, <2>1, <2>2, Zenon
<1>5. ASSUME NEW i \in 1 .. Len(r), NEW j \in 1 .. Len(r), i < j PROVE r[i] < r[j]
  <2>1. i \in 1 .. Len(q)
    BY <1>1, <1>2, <1>5
  <2>2. CASE j \in 1 .. Len(q)
    <3>1. r[i] = q[i] /\ r[j] = q[j]
      BY <2>1, <2>2, <1>1, Zenon
    <3> QED
      BY <3>1, <2>1, <2>2, <1>5, Zenon DEF Rising
  <2>3. CASE j = Len(q) + 1
    BY <2>1, <2>3, <1>1, <1>a
  <2> QED
    BY <1>3, <2>2, <2>3, Zenon
<1> QED
  BY <1>1, <1>4, <1>5, Zenon DEF Rising, r

\* The first count is the least: those left are later than it.
LEMMA RisingTail ==
    ASSUME NEW q \in Seq(Nat), NEW low \in Nat, NEW high \in Nat,
           q # <<>>, Rising(q, low, high)
    PROVE  /\ Rising(Tail(q), Head(q), high)
           /\ Head(q) \in Nat /\ low < Head(q) /\ Head(q) <= high
           /\ Tail(q) \in Seq(Nat) /\ \E i \in 1 .. Len(q) : Head(q) = q[i]
<1> DEFINE r == Tail(q)
<1>1. /\ r \in Seq(Nat) /\ Len(r) = Len(q) - 1
      /\ \A i \in 1 .. Len(r) : r[i] = q[i + 1]
  BY HeadTailProperties, Zenon
<1>2. Len(q) \in Nat \ {0} /\ Head(q) = q[1]
  BY EmptySeq
<1>3. 1 \in 1 .. Len(q) /\ \A i \in 1 .. Len(q) : q[i] \in Nat
  BY <1>2
<1> HIDE DEF r
<1>4. \A i \in 1 .. Len(r) : i + 1 \in 1 .. Len(q) /\ 1 < i + 1
  BY <1>1, <1>2
<1>5. \A i \in 1 .. Len(r) : q[1] < r[i] /\ r[i] <= high
  BY <1>1, <1>3, <1>4, Zenon DEF Rising
<1>6. ASSUME NEW i \in 1 .. Len(r), NEW j \in 1 .. Len(r), i < j PROVE r[i] < r[j]
  <2>1. i + 1 < j + 1
    BY <1>6, <1>1, <1>2
  <2>2. q[i + 1] < q[j + 1]
    BY <2>1, <1>4, Zenon DEF Rising
  <2> QED
    BY <2>2, <1>1, Zenon
<1>7. low < q[1] /\ q[1] <= high
  BY <1>3, Zenon DEF Rising
<1> QED
  BY <1>1, <1>2, <1>3, <1>5, <1>6, <1>7, Zenon DEF Rising, r

\* What is pending is news: it reaches Coming, and the domain has not seen it.
LEMMA PendingIsComing ==
    WayType /\ CountsGrow /\ InboxIsNews /\ Pending => \E count \in Coming : count > domain.acknowledged
<1> SUFFICES ASSUME WayType, CountsGrow, InboxIsNews, Pending
             PROVE  \E count \in Coming : count > domain.acknowledged
  BY Zenon
<1> USE DEF WayType, CountsGrow, InboxIsNews, Upto
<1>1. CASE inbox # <<>>
  <2>1. Upto \in Nat
    BY Zenon
  <2>2. /\ Head(inbox) \in Nat /\ domain.count < Head(inbox)
        /\ \E i \in 1 .. Len(inbox) : Head(inbox) = inbox[i]
    BY <1>1, <2>1, RisingTail, Zenon
  <2>3. Head(inbox) \in Coming
    BY <2>2, Zenon DEF Coming
  <2>4. Head(inbox) > domain.acknowledged
    BY <2>2, SMTT(30)
  <2> QED
    BY <2>3, <2>4, Zenon
<1>2. CASE forwarder.pc = "sending"
  <2>1. forwarder.holds \in Coming
    BY <1>2, Zenon DEF Coming
  <2>2. forwarder.holds > domain.acknowledged
    BY <1>2
  <2> QED
    BY <2>1, <2>2, Zenon
<1>3. CASE raised # Upto /\ forwarder.pc # "sending"
  <2>1. raised \in Coming
    BY <1>3 DEF Coming
  <2>2. raised > domain.acknowledged
    BY <1>3
  <2> QED
    BY <2>1, <2>2, Zenon
<1>4. CASE drive.interrupt \/ taking = "owned"
  <2>1. raised + 1 \in Coming
    BY <1>4, Zenon DEF Coming
  <2>2. raised + 1 > domain.acknowledged
    OBVIOUS
  <2> QED
    BY <2>1, <2>2, Zenon
<1> QED
  BY <1>1, <1>2, <1>3, <1>4, Zenon DEF Pending

\* Nothing is on its way, and nobody waits, before the first step.
LEMMA TellInit == DomainInit => TellInv
<1> SUFFICES ASSUME DomainInit PROVE TellInv
  BY Zenon
<1>1. WayType
  <2>1. inbox \in Seq(Nat)
    BY DEF DomainInit
  <2>2. served \in [begun : Nat, stop : BOOLEAN, starts : Nat, asked : Nat]
    BY Zenon DEF DomainInit
  <2> QED
    BY <2>1, <2>2, Zenon DEF DomainInit, WayType, NoDomain, NoRequest
<1>2. CountsGrow /\ Served /\ Told
  BY DEF DomainInit, CountsGrow, Served, Told, NoDomain
<1>3. InboxIsNews
  BY RisingEmpty DEF DomainInit, InboxIsNews, Upto, NoDomain
<1> QED
  BY <1>1, <1>2, <1>3, Zenon DEF TellInv

\* Every step keeps the fields in their ranges.
LEMMA TypeStep == TellInv /\ [DomainNext]_domainVars => WayType'
<1> SUFFICES ASSUME TellInv, [DomainNext]_domainVars PROVE WayType'
  BY Zenon
<1> USE DEF TellInv, WayType
<1>a. /\ served.begun + 1 \in Nat /\ served.starts + 1 \in Nat
      /\ served.asked + 1 \in Nat
  OBVIOUS
<1>b. inbox # <<>> => Head(inbox) \in Nat /\ Tail(inbox) \in Seq(Nat)
  BY HeadTailProperties, Zenon
<1>1. CASE ServeBegins
  BY <1>1, <1>a, Zenon DEF ServeBegins
<1>2. CASE StartDomain
  <2>1. inbox' \in Seq(Nat)
    BY <1>2 DEF StartDomain
  <2> QED
    BY <1>2, <1>a, <2>1, Zenon DEF StartDomain, NoDomain, NoRequest
<1>3. CASE DomainDies
  BY <1>3, Zenon DEF DomainDies
<1>4. CASE Teardown
  <2>1. inbox' \in Seq(Nat)
    BY <1>4 DEF Teardown
  <2> QED
    BY <1>4, <2>1, Zenon DEF Teardown, NoDomain, NoRequest
<1>5. CASE ServeEnds
  BY <1>5, Zenon DEF ServeEnds
<1>6. CASE HandlerEnters
  BY <1>6, Zenon DEF HandlerEnters
<1>7. CASE HandlerRaises
  BY <1>7 DEF HandlerRaises
<1>8. CASE ForwarderTakes
  BY <1>8 DEF ForwarderTakes
<1>9. CASE ForwarderSends
  <2>1. inbox' \in Seq(Nat)
    BY <1>9, AppendProperties, Zenon DEF ForwarderSends
  <2> QED
    BY <1>9, <2>1, Zenon DEF ForwarderSends
<1>10. CASE ForwarderMarks
  BY <1>10, Zenon DEF ForwarderMarks
<1>11. CASE DomainBringsUp
  BY <1>11, Zenon DEF DomainBringsUp
<1>12. CASE DomainSubmits
  <2>1. drive' \in [working : SUBSET Nat, used : SUBSET Nat, interrupt : BOOLEAN]
    BY <1>12, <1>a, Zenon DEF DomainSubmits
  <2>2. served' \in [begun : Nat, stop : BOOLEAN, starts : Nat, asked : Nat]
    BY <1>12, <1>a, Zenon DEF DomainSubmits
  <2> QED
    BY <1>12, <1>a, <2>1, <2>2, Zenon DEF DomainSubmits
<1>13. CASE DomainCounts
  BY <1>13, <1>b, ZenonT(40) DEF DomainCounts, Receive
<1>14. CASE DomainDrains
  BY <1>14, ZenonT(40) DEF DomainDrains, NoRequest
<1>15. CASE DomainSleeps
  <2>1. CASE Receive("counting")
    BY <2>1, <1>b, ZenonT(40) DEF Receive
  <2>2. CASE ~ Receive("counting")
    <3>1. inbox' \in Seq(Nat)
      BY <1>15, <2>2, Zenon DEF DomainSleeps
    <3>2. domain' = [domain EXCEPT !.pc = "serving", !.request = 0]
      BY <1>15, <2>2, Zenon DEF DomainSleeps, NoRequest
    <3>3. UNCHANGED <<drive, taking, raised, sent, owned, forwarder, served>>
      BY <1>15, <2>2, Zenon DEF DomainSleeps
    <3> QED
      BY <3>1, <3>2, <3>3, Zenon
  <2> QED
    BY <2>1, <2>2, Zenon
<1>16. ASSUME NEW n \in 1 .. MaxAsked, DiskCompletes(n) PROVE WayType'
  BY <1>16 DEF DiskCompletes
<1>17. CASE UNCHANGED domainVars
  BY <1>17 DEF domainVars
<1> QED
  BY <1>1, <1>2, <1>3, <1>4, <1>5, <1>6, <1>7, <1>8, <1>9, <1>10, <1>11, <1>12, <1>13,
           <1>14, <1>15, <1>16, <1>17, Zenon DEF DomainNext

\* The forwarder's counts stay in order.
LEMMA CountsStep == TellInv /\ [DomainNext]_domainVars => CountsGrow'
<1> SUFFICES ASSUME TellInv, [DomainNext]_domainVars PROVE CountsGrow'
  BY Zenon
<1> USE DEF TellInv, WayType, CountsGrow
<1>1. CASE ServeBegins
  BY <1>1 DEF ServeBegins
<1>2. CASE StartDomain
  BY <1>2, Zenon DEF StartDomain
<1>3. CASE DomainDies
  BY <1>3, Zenon DEF DomainDies
<1>4. CASE Teardown
  BY <1>4, Zenon DEF Teardown
<1>5. CASE ServeEnds
  BY <1>5, Zenon DEF ServeEnds
<1>6. CASE HandlerEnters
  BY <1>6, Zenon DEF HandlerEnters
<1>7. CASE HandlerRaises
  BY <1>7 DEF HandlerRaises
<1>8. CASE ForwarderTakes
  BY <1>8 DEF ForwarderTakes
<1>9. CASE ForwarderSends
  BY <1>9, Zenon DEF ForwarderSends
<1>10. CASE ForwarderMarks
  BY <1>10, Zenon DEF ForwarderMarks
<1>11. CASE DomainBringsUp
  BY <1>11, Zenon DEF DomainBringsUp
<1>12. CASE DomainSubmits
  BY <1>12, Zenon DEF DomainSubmits
<1>13. CASE DomainCounts
  BY <1>13 DEF DomainCounts, Receive
<1>14. CASE DomainDrains
  BY <1>14, Zenon DEF DomainDrains
<1>15. CASE DomainSleeps
  BY <1>15 DEF DomainSleeps, Receive
<1>16. ASSUME NEW n \in 1 .. MaxAsked, DiskCompletes(n) PROVE CountsGrow'
  BY <1>16, Zenon DEF DiskCompletes
<1>17. CASE UNCHANGED domainVars
  BY <1>17, Zenon DEF domainVars
<1> QED
  BY <1>1, <1>2, <1>3, <1>4, <1>5, <1>6, <1>7, <1>8, <1>9, <1>10, <1>11, <1>12, <1>13,
           <1>14, <1>15, <1>16, <1>17, Zenon DEF DomainNext

\* A domain keeps its interrupt and its forwarder while it lives.
LEMMA ServedStep == TellInv /\ [DomainNext]_domainVars => Served'
<1> SUFFICES ASSUME TellInv, [DomainNext]_domainVars PROVE Served'
  BY Zenon
<1> USE DEF TellInv, WayType, Served
<1>1. CASE ServeBegins
  BY <1>1, Zenon DEF ServeBegins
<1>2. CASE StartDomain
  BY <1>2, Zenon DEF StartDomain, NoDomain
<1>3. CASE DomainDies
  BY <1>3, Zenon DEF DomainDies
<1>4. CASE Teardown
  BY <1>4, Zenon DEF Teardown, NoDomain
<1>5. CASE ServeEnds
  BY <1>5, Zenon DEF ServeEnds
<1>6. CASE HandlerEnters
  BY <1>6, Zenon DEF HandlerEnters
<1>7. CASE HandlerRaises
  BY <1>7, Zenon DEF HandlerRaises
<1>8. CASE ForwarderTakes
  BY <1>8 DEF ForwarderTakes
<1>9. CASE ForwarderSends
  BY <1>9, Zenon DEF ForwarderSends
<1>10. CASE ForwarderMarks
  BY <1>10, Zenon DEF ForwarderMarks
<1>11. CASE DomainBringsUp
  BY <1>11, Zenon DEF DomainBringsUp
<1>12. CASE DomainSubmits
  BY <1>12, SMTT(30) DEF DomainSubmits
<1>13. CASE DomainCounts
  BY <1>13, Zenon DEF DomainCounts, Receive
<1>14. CASE DomainDrains
  BY <1>14, Zenon DEF DomainDrains
<1>15. CASE DomainSleeps
  BY <1>15, Zenon DEF DomainSleeps, Receive
<1>16. ASSUME NEW n \in 1 .. MaxAsked, DiskCompletes(n) PROVE Served'
  BY <1>16 DEF DiskCompletes
<1>17. CASE UNCHANGED domainVars
  BY <1>17, Zenon DEF domainVars
<1> QED
  BY <1>1, <1>2, <1>3, <1>4, <1>5, <1>6, <1>7, <1>8, <1>9, <1>10, <1>11, <1>12, <1>13,
           <1>14, <1>15, <1>16, <1>17, Zenon DEF DomainNext

\* A message sent is later than every one in the inbox, and one received earlier
\* than every one left.
LEMMA InboxStep == TellInv /\ [DomainNext]_domainVars => InboxIsNews'
<1> SUFFICES ASSUME TellInv, [DomainNext]_domainVars PROVE InboxIsNews'
  BY Zenon
<1> USE DEF TellInv, WayType, CountsGrow, InboxIsNews, Upto
<1>u. Upto \in Nat
  BY Zenon
<1>e. Rising(<<>>, 0, Upto)
  BY RisingEmpty, Zenon
<1>r. ASSUME NEW next, Receive(next) PROVE InboxIsNews'
  <2>1. /\ Rising(Tail(inbox), Head(inbox), Upto)
        /\ Head(inbox) \in Nat /\ domain.count < Head(inbox) /\ Head(inbox) <= Upto
    BY <1>r, <1>u, RisingTail, Zenon DEF Receive
  <2>2. domain'.count = Head(inbox) /\ domain'.acknowledged = domain.acknowledged
    BY <1>r, <2>1, Zenon DEF Receive
  <2>3. Upto' = Upto /\ inbox' = Tail(inbox)
    BY <1>r, Zenon DEF Receive
  <2> QED
    BY <2>1, <2>2, <2>3, SMTT(30)
<1>g. ASSUME UNCHANGED <<domain, inbox>>, Upto' \in Nat, Upto <= Upto' PROVE InboxIsNews'
  BY <1>g, <1>u, RisingUp, SMTT(30)
<1>1. CASE ServeBegins
  BY <1>1, <1>g, Zenon DEF ServeBegins
<1>2. CASE StartDomain
  BY <1>2, <1>e DEF StartDomain, NoDomain
<1>3. CASE DomainDies
  BY <1>3, Zenon DEF DomainDies
<1>4. CASE Teardown
  BY <1>4, <1>e DEF Teardown, NoDomain
<1>5. CASE ServeEnds
  BY <1>5, Zenon DEF ServeEnds
<1>6. CASE HandlerEnters
  BY <1>6, Zenon DEF HandlerEnters
<1>7. CASE HandlerRaises
  BY <1>7, Zenon DEF HandlerRaises
<1>8. CASE ForwarderTakes
  BY <1>8 DEF ForwarderTakes
<1>9. CASE ForwarderSends
  <2>1. InboxIsNews /\ sent < forwarder.holds /\ Upto = sent /\ Upto' = forwarder.holds
    BY <1>9, Zenon DEF ForwarderSends
  <2>2. domain' = domain /\ forwarder.holds \in Nat
    BY <1>9, Zenon DEF ForwarderSends
  <2>3. CASE inbox' = inbox
    BY <1>g, <2>1, <2>2, <2>3
  <2>4. CASE inbox' = Append(inbox, forwarder.holds)
    <3>1. Rising(inbox', domain.count, forwarder.holds)
      BY <2>1, <2>2, <2>4, RisingAppend
    <3> QED
      BY <2>1, <2>2, <3>1
  <2> QED
    BY <1>9, <2>3, <2>4, Zenon DEF ForwarderSends
<1>10. CASE ForwarderMarks
  BY <1>10, Zenon DEF ForwarderMarks
<1>11. CASE DomainBringsUp
  BY <1>11, Zenon DEF DomainBringsUp
<1>12. CASE DomainSubmits
  BY <1>12, Zenon DEF DomainSubmits
<1>13. CASE DomainCounts
  BY <1>13, <1>r DEF DomainCounts
<1>14. CASE DomainDrains
  BY <1>14 DEF DomainDrains
<1>15. CASE DomainSleeps
  BY <1>15, <1>r, ZenonT(40) DEF DomainSleeps
<1>16. ASSUME NEW n \in 1 .. MaxAsked, DiskCompletes(n) PROVE InboxIsNews'
  BY <1>16, Zenon DEF DiskCompletes
<1>17. CASE UNCHANGED domainVars
  BY <1>17, Zenon DEF domainVars
<1> QED
  BY <1>1, <1>2, <1>3, <1>4, <1>5, <1>6, <1>7, <1>8, <1>9, <1>10, <1>11, <1>12, <1>13,
           <1>14, <1>15, <1>16, <1>17, Zenon DEF DomainNext

\* Whatever a step takes off the way to the domain it puts further along it.
LEMMA ToldStep == TellInv /\ [DomainNext]_domainVars => Told'
<1> SUFFICES ASSUME TellInv, [DomainNext]_domainVars PROVE Told'
  BY Zenon
<1> USE DEF TellInv, WayType, CountsGrow, InboxIsNews, Served, Told, Pending, Upto
<1>r. ASSUME NEW next \in {"counting"}, Receive(next) PROVE Told'
  <2>1. Upto \in Nat
    BY Zenon
  <2>2. Head(inbox) \in Nat /\ Head(inbox) > domain.count
    BY <1>r, <2>1, RisingTail, Zenon DEF Receive
  <2>3. domain'.count > domain'.acknowledged /\ domain'.pc = "counting"
    BY <1>r, <2>2, SMTT(30) DEF Receive
  <2> QED
    BY <2>3, Zenon
<1>1. CASE ServeBegins
  BY <1>1, Zenon DEF ServeBegins
<1>2. CASE StartDomain
  BY <1>2, Zenon DEF StartDomain, NoDomain
<1>3. CASE DomainDies
  BY <1>3, Zenon DEF DomainDies
<1>4. CASE Teardown
  BY <1>4, Zenon DEF Teardown, NoDomain
<1>5. CASE ServeEnds
  BY <1>5, Zenon DEF ServeEnds
<1>6. CASE HandlerEnters
  BY <1>6, Zenon DEF HandlerEnters
<1>7. CASE HandlerRaises
  BY <1>7 DEF HandlerRaises
<1>8. CASE ForwarderTakes
  BY <1>8 DEF ForwarderTakes
<1>9. CASE ForwarderSends
  <2>1. CASE domain.pc = "absent"
    BY <1>9, <2>1, Zenon DEF ForwarderSends
  <2>2. CASE domain.pc # "absent"
    <3>1. inbox' # <<>>
      <4>1. CASE Len(inbox) < InboxSize
        BY <1>9, <2>2, <4>1, AppendProperties, SMTT(30) DEF ForwarderSends
      <4>2. CASE ~ Len(inbox) < InboxSize
        BY <1>9, <4>2, InboxHolds DEF ForwarderSends
      <4> QED
        BY <4>1, <4>2, Zenon
    <3> QED
      BY <1>9, <3>1, Zenon DEF ForwarderSends
  <2> QED
    BY <2>1, <2>2, Zenon
<1>10. CASE ForwarderMarks
  BY <1>10, Zenon DEF ForwarderMarks
<1>11. CASE DomainBringsUp
  BY <1>11, Zenon DEF DomainBringsUp
<1>12. CASE DomainSubmits
  BY <1>12 DEF DomainSubmits
<1>13. CASE DomainCounts
  BY <1>13, <1>r, ZenonT(40) DEF DomainCounts
<1>14. CASE DomainDrains
  BY <1>14 DEF DomainDrains, NoRequest
<1>15. CASE DomainSleeps
  BY <1>15, <1>r, ZenonT(40) DEF DomainSleeps, NoRequest
<1>16. ASSUME NEW n \in 1 .. MaxAsked, DiskCompletes(n) PROVE Told'
  BY <1>16, Zenon DEF DiskCompletes
<1>17. CASE UNCHANGED domainVars
  BY <1>17, Zenon DEF domainVars
<1> QED
  BY <1>1, <1>2, <1>3, <1>4, <1>5, <1>6, <1>7, <1>8, <1>9, <1>10, <1>11, <1>12, <1>13,
           <1>14, <1>15, <1>16, <1>17, Zenon DEF DomainNext

-----------------------------------------------------------------------------
\* A domain asleep on a finished request is always told of it: the forwarder
\* (blockdomain.rs) never marks sent what it has not sent, and drops a message
\* only at an inbox that already holds news.
THEOREM DomainAlwaysTold == DomainSpec => []NoStrandedCompletion
<1>1. DomainInit => TellInv
  BY TellInit, Zenon
<1>2. TellInv /\ [DomainNext]_domainVars => TellInv'
  BY TypeStep, CountsStep, ServedStep, InboxStep, ToldStep, Zenon DEF TellInv
<1>3. TellInv => NoStrandedCompletion
  BY PendingIsComing DEF TellInv, WayType, Told, NoStrandedCompletion
<1> QED
  BY <1>1, <1>2, <1>3, PTL DEF DomainSpec
=============================================================================
