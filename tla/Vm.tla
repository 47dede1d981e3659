--------------------------------- MODULE Vm ---------------------------------
(***************************************************************************)
(* Virtual memory above the page tables: regions, demand paging and        *)
(* copy-on-write (kernel/mm/src/vm.rs, vm/region.rs, vm/shares.rs) over    *)
(* the table walker (kernel/mm/src/paged.rs), and the fork, build and      *)
(* teardown of address spaces (kernel/main/src/userproc.rs).               *)
(*                                                                         *)
(* Every operation runs under the frame lock, so each is one step; how it  *)
(* fails part way is inside the step.  An operator takes the memory and    *)
(* returns it with err set: "ok" or why not.                               *)
(*                                                                         *)
(* Tables have three levels: a root, one middle table, and one low table   *)
(* for every block of PerBlock pages; a huge leaf is an entry of the       *)
(* middle table.  A CPU caches every translation the tables offer at once  *)
(* and keeps it until it is told to drop it (tlb), which is the most that  *)
(* hardware may do; Shootdown.tla shows that all CPUs are told in time.    *)
(***************************************************************************)
EXTENDS Integers, Sequences, SequencesExt, FiniteSets, FiniteSetsExt

CONSTANTS
    Spaces,     \* slots for address spaces
    NBlocks,    \* blocks of an address space
    PerBlock,   \* pages of a block
    Plans       \* machines: frames, share slots, regions, and bounds on the calls

ASSUME VmConstants ==
    /\ 1 \in Spaces /\ Spaces \subseteq Nat \ {0}
    /\ NBlocks \in Nat \ {0} /\ PerBlock \in Nat \ {0}

VARIABLES
    plan,
    mem,     \* the tables, regions, counts, frames and caches: see VmInit
    expect,  \* history: what each page of each space should read
    calls,   \* calls made so far
    failed   \* whether the last of them failed

vmVars == <<plan, mem, expect, calls, failed>>

Pages == 0 .. NBlocks * PerBlock - 1
Blocks == 0 .. NBlocks - 1
Middle == NBlocks                       \* the middle table, among a space's tables
Frames == 1 .. plan.frames
Block(p) == p \div PerBlock
Base(p) == Block(p) * PerBlock
BlockOf(p) == {q \in Pages : Block(q) = Block(p)}

Hole == [frame |-> 0, w |-> FALSE, huge |-> FALSE]
NoTables == [n \in Blocks \cup {Middle} |-> 0]

Zero == 0
Junk == 9                               \* what a table, or a free frame, holds
Mark(s, p) == 2 * s + (Block(p) % 2)    \* what a thread of s stores in page p

Ok(m) == m.err = "ok"
Failed(m, e) == [m EXCEPT !.err = e]

-----------------------------------------------------------------------------
(* Frames: mm::paged::FrameSource. *)

NextFrame(m) == Min(m.free)

\* Whatever a frame held, its next owner may rely on none of it.
Freed(m, fs) ==
    [m EXCEPT !.free = @ \cup fs, !.bytes = [f \in Frames |-> IF f \in fs THEN Junk ELSE @[f]]]

\* alloc_block over-allocates by one alignment's worth and gives the slack back.
\* The first frame of the block, or 0.
AllocBlock(m) ==
    LET runs == {f \in m.free : f .. f + 2 * PerBlock - 2 \subseteq m.free}
    IN  IF runs = {} THEN 0
        ELSE CHOOSE g \in Min(runs) .. Min(runs) + PerBlock - 1 : g % PerBlock = 0

-----------------------------------------------------------------------------
(* Regions. *)

InRegion(r, p) == r.start <= p /\ p < r.start + r.len
End(r) == r.start + r.len
Anonymous(r) == r.base = 0
PhysAt(r, p) == r.base + (p - r.start)

RegionsAt(m, s, p) == {r \in m.regions[s] : InRegion(r, p)}
Find(m, s, p) == CHOOSE r \in RegionsAt(m, s, p) : TRUE
PagesOf(r) == [i \in 1 .. r.len |-> r.start + i - 1]

\* Regions::split_at, of the one region that contains p.
SplitAt(m, s, p) ==
    LET at == {r \in RegionsAt(m, s, p) : r.start # p}
    IN  [m EXCEPT !.regions[s] = (@ \ at) \cup UNION {
            {[r EXCEPT !.len = p - r.start],
             [r EXCEPT !.start = p, !.len = End(r) - p,
                       !.base = IF Anonymous(r) THEN 0 ELSE PhysAt(r, p)]} : r \in at}]

-----------------------------------------------------------------------------
(* Share counts: mappings of a frame beyond the first. *)

IsShared(m, f) == f \in Frames /\ m.extra[f] > 0
FreeSlots(m) == plan.slots - Cardinality({f \in Frames : m.extra[f] > 0})

Share(m, f) ==
    IF m.extra[f] = 0 /\ FreeSlots(m) = 0 THEN Failed(m, "SharesFull")
                                          ELSE [m EXCEPT !.extra[f] = @ + 1]

\* Whether a mapping that is dropped is the frame's last, and the count after it.
IsLast(m, f) == m.extra[f] = 0
Unshare(m, f) == [m EXCEPT !.extra[f] = IF @ = 0 THEN 0 ELSE @ - 1]

-----------------------------------------------------------------------------
(* The walker. *)

\* flush_tlb of one page; one inside a huge translation drops all of it.
FlushPage(m, s, p) ==
    [m EXCEPT !.tlb[s] = [q \in Pages |->
        IF q = p \/ (@[q].huge /\ Block(q) = Block(p)) THEN Hole ELSE @[q]]]
FlushAll(m) == [m EXCEPT !.tlb = [s \in Spaces |-> [p \in Pages |-> Hole]]]

\* What the CPUs cache by the time the operation has ended.
Cached(m) ==
    [m EXCEPT !.err = "ok",
              !.tlb = [s \in Spaces |-> [p \in Pages |->
                        IF @[s][p].frame = 0 THEN m.leaf[s][p] ELSE @[s][p]]]]

\* The pages the leaf at p maps.
LeafPages(m, s, p) == IF m.leaf[s][p].huge THEN BlockOf(p) ELSE {p}

\* The entry of a table on the way down, made if it is absent.
Table(m, s, n) ==
    IF ~Ok(m) \/ m.tabs[s][n] # 0 THEN m
    ELSE IF m.free = {} THEN Failed(m, "OutOfMemory")
    ELSE [m EXCEPT !.tabs[s][n] = NextFrame(m), !.free = @ \ {NextFrame(m)}]

SetLeaf(m, s, p, f, w, huge) ==
    [m EXCEPT !.leaf[s] = [q \in Pages |->
        CASE huge /\ Block(q) = Block(p) -> [frame |-> f + (q - Base(p)), w |-> w, huge |-> TRUE]
          [] ~huge /\ q = p -> [frame |-> f, w |-> w, huge |-> FALSE]
          [] OTHER -> @[q]]]

MapAtLevel(m, s, p, f, w, huge) ==
    LET mid == Table(m, s, Middle)
        low == IF huge THEN mid ELSE Table(mid, s, Block(p))
    IN  IF Ok(low) THEN SetLeaf(low, s, p, f, w, huge) ELSE low

\* is_table_empty.
IsEmpty(m, s, n) ==
    IF n = Middle THEN \A b \in Blocks : m.tabs[s][b] = 0 /\ ~m.leaf[s][b * PerBlock].huge
                  ELSE \A p \in Pages : Block(p) = n => m.leaf[s][p].frame = 0

FreeTable(m, s, n) ==
    IF m.tabs[s][n] = 0 \/ ~IsEmpty(m, s, n) THEN m
    ELSE [Freed(m, {m.tabs[s][n]}) EXCEPT !.tabs[s][n] = 0]

\* The tables on the path to p that hold nothing, deepest first.
Reclaim(m, s, p) == FreeTable(FreeTable(m, s, Block(p)), s, Middle)

Prune(m, s, p) ==
    LET r == Reclaim(m, s, p) IN IF r.tabs = m.tabs THEN r ELSE FlushAll(r)

MapOrPrune(m, s, p, f, w, huge) ==
    LET r == MapAtLevel(m, s, p, f, w, huge) IN IF Ok(r) THEN r ELSE Prune(r, s, p)

\* unmap, of the one leaf at p.
Unmap(m, s, p) ==
    Reclaim(FlushPage([m EXCEPT !.leaf[s] = [q \in Pages |->
                IF q \in LeafPages(m, s, p) THEN Hole ELSE @[q]]], s, p), s, p)

\* Mutant: a leaf that maps the same frame is not invalidated.
ReplaceLeafQuietly(m, s, p, f, w) ==
    LET r == SetLeaf(m, s, p, f, w, m.leaf[s][p].huge)
    IN  IF m.leaf[s][p].frame = f THEN r ELSE FlushPage(r, s, p)

ReplaceLeaf(m, s, p, f, w) == FlushPage(SetLeaf(m, s, p, f, w, m.leaf[s][p].huge), s, p)

\* The huge leaf at p becomes a table of leaves.
SplitLeaf(m, s, p) ==
    LET t == Table(m, s, Block(p))
    IN  IF ~Ok(t) \/ ~m.leaf[s][p].huge THEN [m EXCEPT !.err = t.err]
        ELSE FlushPage([t EXCEPT !.leaf[s] = [q \in Pages |->
                 IF Block(q) = Block(p) THEN [@[q] EXCEPT !.huge = FALSE] ELSE @[q]]], s, p)

-----------------------------------------------------------------------------
(* Vm::fault. *)

PopulateHuge(m, s, p, r) ==
    LET b == Base(p)
        base == IF Anonymous(r) THEN AllocBlock(m) ELSE PhysAt(r, b)
        block == base .. base + PerBlock - 1
        taken == [m EXCEPT !.free = @ \ block,
                           !.bytes = [f \in Frames |-> IF f \in block THEN Zero ELSE @[f]]]
        done == MapOrPrune(taken, s, b, base, r.w, TRUE)
    IN  IF ~Anonymous(r) THEN MapOrPrune(m, s, b, base, r.w, TRUE)
        ELSE IF Ok(done) THEN done ELSE Freed(done, block)

\* Whether a huge leaf is wanted, fits, and has memory.
TakesHuge(m, s, p, r) ==
    /\ r.huge
    /\ m.tabs[s][Block(p)] = 0
    /\ r.start <= Base(p) /\ Base(p) + PerBlock <= End(r)
    /\ IF Anonymous(r) THEN AllocBlock(m) # 0 ELSE PhysAt(r, Base(p)) % PerBlock = 0

Populate(m, s, p, r) ==
    IF TakesHuge(m, s, p, r) THEN PopulateHuge(m, s, p, r)
    ELSE IF ~Anonymous(r) THEN MapOrPrune(m, s, p, PhysAt(r, p), r.w, FALSE)
    ELSE IF m.free = {} THEN Failed(m, "OutOfMemory")
    ELSE LET f == NextFrame(m)
             done == MapOrPrune([m EXCEPT !.free = @ \ {f}, !.bytes[f] = Zero], s, p, f, r.w, FALSE)
         IN  IF Ok(done) THEN done ELSE Freed(done, {f})

WriteToReadOnly(m, s, p, r) ==
    LET old == m.leaf[s][p].frame
    IN  IF m.leaf[s][p].huge
        THEN IF \E q \in BlockOf(p) : IsShared(m, m.leaf[s][q].frame) THEN Failed(m, "Mismatch")
             ELSE ReplaceLeaf(m, s, p, m.leaf[s][Base(p)].frame, r.w)
        ELSE IF ~IsShared(m, old) THEN ReplaceLeaf(m, s, p, old, r.w)
        ELSE IF m.free = {} THEN Failed(m, "OutOfMemory")
        ELSE LET copy == NextFrame(m)
             IN  Unshare(ReplaceLeaf([m EXCEPT !.free = @ \ {copy}, !.bytes[copy] = m.bytes[old]],
                                     s, p, copy, r.w), old)

\* The fault may be stale: another thread may have resolved it first.
Fault(m, s, p, write) ==
    IF RegionsAt(m, s, p) = {} THEN Failed(m, "NoRegion")
    ELSE LET r == Find(m, s, p) IN
         IF write /\ ~r.w THEN Failed(m, "Protection")
         ELSE IF m.leaf[s][p].frame = 0 THEN Populate(m, s, p, r)
         ELSE IF ~write \/ m.leaf[s][p].w THEN FlushAll(m)
         ELSE IF ~Anonymous(r) THEN Failed(m, "Mismatch")
         ELSE WriteToReadOnly(m, s, p, r)

-----------------------------------------------------------------------------
(* Sharing. *)

\* What next_leaf stops at; holes are skipped.
HasLeaf(m, s, p) == m.leaf[s][p].frame # 0

\* A loop over the leaves of some pages, which an error ends.
OverLeaves(m, s, ps, Step(_, _)) ==
    FoldLeft(LAMBDA a, p : IF Ok(a) /\ HasLeaf(a, s, p) THEN Step(a, p) ELSE a, m, ps)

SplitAll(m, s, ps) == OverLeaves(m, s, ps, LAMBDA a, p : SplitLeaf(a, s, p))

\* Share slots that sharing these pages takes.
Needed(m, s, ps) ==
    Cardinality({i \in DOMAIN ps : HasLeaf(m, s, ps[i]) /\ ~IsShared(m, m.leaf[s][ps[i]].frame)})


\* One page of s, mapped read-only at q of t, counted, and made read-only in s.
ShareLeaf(m, s, p, t, q) ==
    LET l == m.leaf[s][p]
        mapped == MapOrPrune(m, t, q, l.frame, FALSE, FALSE)
        counted == Share(mapped, l.frame)
    IN  IF ~Ok(mapped) THEN mapped
        ELSE IF ~Ok(counted) THEN [Unmap(mapped, t, q) EXCEPT !.err = counted.err]
        ELSE IF l.w THEN ReplaceLeaf(counted, s, p, l.frame, FALSE) ELSE counted

\* unshare_prefix: what was shared of s is unmapped again at d, and what nothing
\* shares any more becomes writable again.
UnsharePrefix(m, s, r, d) ==
    FoldLeft(LAMBDA a, q :
        LET f == a.leaf[s][q].frame
            p == r.start + (q - d.start)
            undone == Unshare(Unmap(a, s, q), f)
        IN  IF f = 0 THEN a
            ELSE IF r.w /\ ~IsShared(undone, f) /\ undone.leaf[s][p].frame # 0
            THEN ReplaceLeaf(undone, s, p, undone.leaf[s][p].frame, TRUE)
            ELSE undone, m, PagesOf(d))

\* Mutant: a share that fails part way is left where it stopped.
CowShareHalfway(m, s, r, d) ==
    LET split == SplitAll(m, s, PagesOf(r))
    IN  IF ~Anonymous(r) \/ ~Anonymous(d) \/ r.len # d.len THEN Failed(m, "Mismatch")
        ELSE IF \E i \in 1 .. d.len : m.leaf[s][PagesOf(d)[i]].frame # 0 THEN Failed(m, "NotEmpty")
        ELSE IF ~Ok(split) THEN split
        ELSE IF Needed(split, s, PagesOf(r)) > FreeSlots(split) THEN Failed(split, "SharesFull")
        ELSE OverLeaves(split, s, PagesOf(r),
                        LAMBDA a, p : ShareLeaf(a, s, p, s, d.start + (p - r.start)))

CowShare(m, s, r, d) ==
    LET split == SplitAll(m, s, PagesOf(r))
        shared == OverLeaves(split, s, PagesOf(r),
                             LAMBDA a, p : ShareLeaf(a, s, p, s, d.start + (p - r.start)))
    IN  IF ~Anonymous(r) \/ ~Anonymous(d) \/ r.len # d.len THEN Failed(m, "Mismatch")
        ELSE IF \E i \in 1 .. d.len : m.leaf[s][PagesOf(d)[i]].frame # 0 THEN Failed(m, "NotEmpty")
        ELSE IF ~Ok(split) THEN split
        ELSE IF Needed(split, s, PagesOf(r)) > FreeSlots(split) THEN Failed(split, "SharesFull")
        ELSE IF Ok(shared) THEN shared
        ELSE UnsharePrefix(shared, s, r, d)

\* fork_into: every region of s reserved in t, and its pages shared.
ForkInto(m, s, t) ==
    LET order == SetToSortSeq(m.regions[s], LAMBDA a, b : a.start < b.start)
        pages == FlattenSeq([i \in DOMAIN order |-> PagesOf(order[i])])
        split == SplitAll(m, s, pages)
        Region(a, r) ==
            OverLeaves([a EXCEPT !.regions[t] = @ \cup {r}], s, PagesOf(r),
                       LAMBDA b, p : ShareLeaf(b, s, p, t, p))
    IN  IF \E r \in m.regions[s] : ~Anonymous(r) THEN Failed(m, "Mismatch")
        ELSE IF ~Ok(split) THEN split
        ELSE IF Needed(split, s, pages) > FreeSlots(split) THEN Failed(split, "SharesFull")
        ELSE FoldLeft(LAMBDA a, r : IF Ok(a) THEN Region(a, r) ELSE a, split, order)

-----------------------------------------------------------------------------
(* Protecting and releasing. *)

Granted(m, r, l, w) == w /\ ~(Anonymous(r) /\ ~l.huge /\ IsShared(m, l.frame))

Protect(m, s, start, len, w) ==
    LET end == start + len
        r == Find(m, s, start)
        edges == {start, end} \ {r.start, End(r)}
        split == FoldSet(LAMBDA e, a : IF Ok(a) /\ a.leaf[s][e].huge /\ Base(e) # e
                                       THEN SplitLeaf(a, s, e) ELSE a, m, edges)
        cut == SplitAt(SplitAt(split, s, start), s, end)
        Step(a, p) == LET l == a.leaf[s][p] IN
            IF l.huge /\ p # Base(p) THEN a ELSE ReplaceLeaf(a, s, p, l.frame, Granted(a, r, l, w))
        done == OverLeaves(cut, s, [i \in 1 .. len |-> start + i - 1], Step)
    IN  IF RegionsAt(m, s, start) = {} THEN Failed(m, "NoRegion")
        ELSE IF end > End(r) THEN Failed(m, "Mismatch")
        ELSE IF Cardinality(m.regions[s]) + Cardinality(edges) > plan.regions THEN Failed(m, "RegionsFull")
        ELSE IF ~Ok(split) THEN split
        ELSE [done EXCEPT !.regions[s] =
                 {IF x.start = start THEN [x EXCEPT !.w = w] ELSE x : x \in @}]

Release(m, s, r) ==
    LET Step(a, p) ==
            LET l == a.leaf[s][p]
                gone == Unmap(a, s, p)
            IN  IF ~Anonymous(r) THEN gone
                ELSE IF l.huge THEN Freed(gone, {a.leaf[s][q].frame : q \in BlockOf(p)})
                ELSE IF IsLast(gone, l.frame) THEN Freed(gone, {l.frame})
                ELSE Unshare(gone, l.frame)
    IN  [OverLeaves(m, s, PagesOf(r), Step) EXCEPT !.regions[s] = @ \ {r}]

Reserve(m, s, r) ==
    IF \E p \in Pages : InRegion(r, p) /\ m.leaf[s][p].frame # 0 THEN Failed(m, "NotEmpty")
    ELSE IF \E x \in m.regions[s] : x.start < End(r) /\ r.start < End(x) THEN Failed(m, "Overlap")
    ELSE IF Cardinality(m.regions[s]) = plan.regions THEN Failed(m, "RegionsFull")
    ELSE [m EXCEPT !.regions[s] = @ \cup {r}]

-----------------------------------------------------------------------------
(* Address spaces: userproc.rs. *)

\* AddressSpace::new.
NewSpace(m, s) ==
    IF m.free = {} THEN Failed(m, "OutOfMemory")
    ELSE [m EXCEPT !.root[s] = NextFrame(m), !.free = @ \ {NextFrame(m)}]

Teardown(m, s) ==
    LET empty == FoldSet(LAMBDA r, a : Release(a, s, r), m, m.regions[s])
    IN  [Freed(empty, {m.root[s]}) EXCEPT !.root[s] = 0]

\* fork_claimed: the child is put in place even if the share failed part way, so
\* that teardown releases what was shared.
ForkSpace(m, s, t) ==
    LET new == NewSpace(m, t)
        forked == ForkInto(new, s, t)
    IN  IF ~Ok(new) THEN new
        ELSE IF Ok(forked) THEN forked
        ELSE Failed(Teardown(Failed(forked, "ok"), t), forked.err)

-----------------------------------------------------------------------------
\* One space has been built, with some regions reserved.
VmInit ==
    /\ plan \in Plans
    /\ mem = [root |-> [s \in Spaces |-> IF s = 1 THEN 1 ELSE 0],
              regions |-> [s \in Spaces |-> IF s = 1 THEN plan.reserved ELSE {}],
              tabs |-> [s \in Spaces |-> NoTables],
              leaf |-> [s \in Spaces |-> [p \in Pages |-> Hole]],
              tlb |-> [s \in Spaces |-> [p \in Pages |-> Hole]],
              extra |-> [f \in Frames |-> 0],
              bytes |-> [f \in Frames |-> Junk],
              free |-> Frames \ {1},
              err |-> "ok"]
    /\ expect = [s \in Spaces |-> [p \in Pages |-> Zero]]
    /\ calls = 0
    /\ failed = FALSE

Live(s) == mem.root[s] # 0

\* A call has returned m.
Returns(m) ==
    /\ calls < plan.calls
    /\ calls' = calls + 1
    /\ mem' = Cached(m)
    /\ failed' = ~Ok(m)
    /\ UNCHANGED plan

\* build_claimed, its space.
CallBuild(s) ==
    /\ ~Live(s)
    /\ Returns(NewSpace(mem, s))
    /\ UNCHANGED expect

CallTeardown(s) ==
    /\ Live(s)
    /\ Returns(Teardown(mem, s))
    /\ expect' = [expect EXCEPT ![s] = [p \in Pages |-> Zero]]

CallReserve(s, r) ==
    /\ Live(s)
    /\ Returns(Reserve(mem, s, r))
    /\ UNCHANGED expect

CallRelease(s, r) ==
    /\ Live(s)
    /\ Returns(Release(mem, s, r))
    /\ expect' = [expect EXCEPT ![s] = [p \in Pages |-> IF InRegion(r, p) THEN Zero ELSE @[p]]]

CallFault(s, p, write) ==
    /\ Live(s)
    /\ Returns(Fault(mem, s, p, write))
    /\ UNCHANGED expect

CallProtect(s, start, len, w) ==
    /\ Live(s)
    /\ Returns(Protect(mem, s, start, len, w))
    /\ UNCHANGED expect

CallCowShare(s, r, d) ==
    /\ Live(s)
    /\ LET m == CowShare(mem, s, r, d) IN
       /\ Returns(m)
       /\ expect' = IF ~Ok(m) THEN expect
                    ELSE [expect EXCEPT ![s] = [p \in Pages |->
                             IF InRegion(d, p) THEN @[r.start + (p - d.start)] ELSE @[p]]]

CallFork(s, t) ==
    /\ Live(s) /\ ~Live(t)
    /\ LET m == ForkSpace(mem, s, t) IN
       /\ Returns(m)
       /\ expect' = IF Ok(m) THEN [expect EXCEPT ![t] = expect[s]] ELSE expect

\* A thread of s writes to page p through what its CPU has cached.
Store(s, p) ==
    /\ mem.tlb[s][p].w /\ mem.tlb[s][p].frame \in Frames
    /\ mem' = [mem EXCEPT !.bytes[mem.tlb[s][p].frame] = Mark(s, p)]
    /\ expect' = [expect EXCEPT ![s][p] = Mark(s, p)]
    /\ UNCHANGED <<plan, calls, failed>>

VmNext ==
    \E s \in Spaces :
        \/ CallBuild(s) \/ CallTeardown(s)
        \/ \E r \in plan.templates : CallReserve(s, r)
        \/ \E r \in mem.regions[s] : CallRelease(s, r)
        \/ \E p \in Pages, write \in BOOLEAN : CallFault(s, p, write)
        \/ \E p \in Pages, len \in plan.protects, w \in BOOLEAN :
              p + len <= NBlocks * PerBlock /\ CallProtect(s, p, len, w)
        \/ \E r, d \in mem.regions[s] : r # d /\ CallCowShare(s, r, d)
        \/ \E t \in Spaces \ {s} : CallFork(s, t)
        \/ \E p \in Pages : Store(s, p)

VmSpec == VmInit /\ [][VmNext]_vmVars

-----------------------------------------------------------------------------
\* The leaves that map frame f.
MappingsOf(m, f) == {<<s, p>> \in Spaces \X Pages : m.leaf[s][p].frame = f}


\* "promised a private copy": whatever is faulted, shared, forked, copied,
\* protected and released, each page reads what its own space last stored there,
\* or what it had when it was shared, or zeros, through the tables and through
\* anything a CPU still caches; and a page of no region reads nothing.
PrivateCopies ==
    \A s \in Spaces, p \in Pages : \A l \in {mem.leaf[s][p], mem.tlb[s][p]} :
        /\ l.frame \in Frames => mem.bytes[l.frame] = expect[s][p]
        /\ l.frame # 0 => RegionsAt(mem, s, p) # {}

\* What a call that failed must leave as it was: what is mapped where, counted
\* and reserved.
Footprint(m) ==
    <<[s \in Spaces |-> [p \in Pages |-> m.leaf[s][p].frame]], m.extra, m.regions, m.root>>

\* "Nothing was changed": a call that fails, for want of frames or of share slots
\* or for any other reason and however far it had come, leaves everything as it
\* was; only leaves may be finer, and pages that a fork had made read-only
\* become writable on their next write.
FailuresUndone ==
    [][calls' # calls /\ failed' => Footprint(mem') = Footprint(mem)]_vmVars
=============================================================================
