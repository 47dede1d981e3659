-------------------------------- MODULE Fat --------------------------------
(***************************************************************************)
(* The FAT driver's writing half, kernel/fat/src/lib.rs.                   *)
(*                                                                         *)
(* A volume is a function from cells to contents: a cell is one entry of   *)
(* one table copy, one entry of the root region, or one cluster.  A cell   *)
(* is written whole (a block, or less than one), so any set of cells of a  *)
(* step is a set of its blocks or a finer one.                             *)
(*                                                                         *)
(* Every call is a pure function of the volume: it gives the steps it      *)
(* takes, each a sequence of writes that ends in a barrier, and the error  *)
(* it ends with.  The machine below then takes the steps one at a time.    *)
(* done is the volume with every finished step; step holds the writes of   *)
(* the step in progress, of which a crash keeps any subset: this is what   *)
(* OrderedDisk, which the block cache implements, lets a crash leave.      *)
(*                                                                         *)
(* A cluster is one unit of length.  A file's bytes are the identity of    *)
(* the file they were written to.  A long name takes one entry more than   *)
(* a short one.                                                            *)
(***************************************************************************)
EXTENDS Integers, Sequences, SequencesExt, FiniteSets, FiniteSetsExt, TLC

CONSTANTS
    Volumes,     \* the volumes a behaviour may be about
    PerCluster,  \* entries in a directory's cluster
    Batch,       \* STEP: clusters one allocation or freeing step covers
    MaxFiles,    \* bound on the files and directories ever created
    MaxCrashes   \* bound on power cuts

VARIABLES
    volume,   \* the format, and the bounds on what is done to it
    done,     \* the volume after every finished step
    step,     \* the writes of the step in progress: cell to contents
    ended,    \* whether that step has had its barrier
    plan,     \* the steps the call in progress has yet to take
    leaves,   \* the free_hint it leaves when it is done
    calls,    \* calls that began
    free,     \* Fat::free_count
    hint,     \* Fat::free_hint
    stale,    \* Fat::fsinfo_stale
    made,     \* files and directories created
    crashes,  \* power cuts so far
    faults,   \* calls a device error ended
    refused   \* whether a call was refused after it had taken a step

fatVars == <<volume, done, step, ended, plan, leaves, calls, free, hint, stale, made, crashes, faults, refused>>

NClusters == volume.clusters   \* clusters of the volume
NCopies == volume.copies       \* table copies
NRoot == volume.root           \* entries of the root region; 0 if the root is a chain (FAT32)
Names == volume.names          \* names: records [id, long], equal ids match ignoring case
MaxLen == volume.len           \* bound on a file's length, in clusters
MaxDepth == volume.depth       \* bound on the nesting of directories
MaxCalls == volume.calls       \* bound on the calls that write
MaxFaults == volume.faults     \* bound on calls a device error ends

Clusters == 1..NClusters
Copies == 1..NCopies
Free == 0

\* end_of_chain: the value after every cluster's.
EndOfChain == NClusters + 1

\* FAT32's root chain starts at the first cluster; FAT16's is a region.
RootCluster == IF NRoot = 0 THEN 1 ELSE 0

TableCell(k, c) == <<"table", k, c>>
RootCell(i) == <<"root", i>>
ClusterCell(c) == <<"cluster", c>>
\* FSInfo's free count, which only FAT32 keeps.
InfoCell == <<"info">>

Entry(t, name, first, size, fid) == [t |-> t, name |-> name, first |-> first, size |-> size, fid |-> fid]
NoName == [id |-> "", long |-> FALSE]
FreeEntry == Entry("free", NoName, 0, 0, 0)
DeletedEntry == Entry("deleted", NoName, 0, 0, 0)
LongEntry(name) == Entry("long", name, 0, 0, 0)

NoEntries == [i \in 1..PerCluster |-> FreeEntry]
Data(fid) == [as |-> "data", fid |-> fid, up |-> 0, entries |-> NoEntries]
DirCluster(up) == [as |-> "dir", fid |-> 0, up |-> up, entries |-> NoEntries]

-----------------------------------------------------------------------------
(* Reading a volume v. *)

\* table_entry, of the first copy.
Next1(v, c) == v[TableCell(1, c)]

\* The clusters from c on: nth_cluster and chain_end.  A chain that runs
\* into itself comes out longer than the volume.
ChainFrom(v, c) ==
    LET walk[k \in 0..NClusters] ==
            IF k = 0 THEN <<c>>
            ELSE LET seen == walk[k - 1] IN
                 IF Next1(v, Last(seen)) \in Clusters THEN Append(seen, Next1(v, Last(seen))) ELSE seen
    IN  walk[NClusters]

Chain(v, first) == IF first = 0 THEN <<>> ELSE ChainFrom(v, first)

\* count_free.
CountFree(v) == Cardinality({c \in Clusters : Next1(v, c) = Free})

\* free_clusters: the first `want` free clusters from the hint, wrapping once.
FreeClusters(v, from, want) ==
    LET start == IF from \in Clusters THEN from ELSE 1
        order == [i \in 1..NClusters |-> 1 + ((start - 1 + i - 1) % NClusters)]
        found == SelectSeq(order, LAMBDA c : Next1(v, c) = Free)
    IN  SubSeq(found, 1, Min({want, Len(found)}))

\* entry_offset and resolve: a directory's entries, in order.  Directory 0 is
\* the root; any other is its first cluster.
Places(v, d) ==
    IF d = 0 /\ NRoot > 0
    THEN [i \in 1..NRoot |-> [at |-> RootCell(i), index |-> 0]]
    ELSE LET chain == Chain(v, IF d = 0 THEN RootCluster ELSE d) IN
         [n \in 1..(Len(chain) * PerCluster) |->
            [at |-> ClusterCell(chain[1 + ((n - 1) \div PerCluster)]), index |-> 1 + ((n - 1) % PerCluster)]]

EntryAt(v, p) == IF p.index = 0 THEN v[p.at] ELSE v[p.at].entries[p.index]

\* The names of a directory: named_at.  A walk stops at the first entry
\* never used.  A long entry belongs to the short one that follows it when
\* their checksums agree; a long name whose long entry is gone is no longer
\* found by it.
NamedIn(v, d) ==
    LET ps == Places(v, d)
        E(n) == EntryAt(v, ps[n])
        reached == {n \in 1..Len(ps) : \A k \in 1..n : E(k).t # "free"}
        whole(n) == n > 1 /\ E(n - 1) = LongEntry(E(n).name)
    IN  {[place |-> ps[n], entry |-> E(n),
          found |-> ~E(n).name.long \/ whole(n),
          set |-> IF whole(n) THEN <<ps[n - 1], ps[n]>> ELSE <<ps[n]>>] :
            n \in {k \in reached : E(k).t \in {"file", "dir"}}}

\* find_named.
Find(v, d, name) == {x \in NamedIn(v, d) : x.found /\ x.entry.name.id = name.id}

\* free_slots: where `count` unused entries in a row begin, if they do.
FreeSlots(v, d, count) ==
    LET ps == Places(v, d) IN
    {n \in 1..(Len(ps) - count + 1) :
        \A k \in n..(n + count - 1) : EntryAt(v, ps[k]).t \in {"free", "deleted"}}

\* The directories a walk from the root reaches, to the depth walked here.
Dirs(v) ==
    LET below(d) == {x.entry.first : x \in {y \in NamedIn(v, d) : y.entry.t = "dir"}}
        reach[k \in 0..MaxDepth] ==
            IF k = 0 THEN {0} ELSE LET up == reach[k - 1] IN up \union UNION {below(d) : d \in up}
    IN  reach[MaxDepth]

-----------------------------------------------------------------------------
(* A call being worked out: the volume as its writes leave it, the steps so *)
(* far, the in-memory counts, and the error that ends it.                   *)

Working(v) == [v |-> v, steps |-> <<>>, free |-> free, hint |-> hint, made |-> made, error |-> "ok"]

Fails(x, e) == IF x.error = "ok" THEN [x EXCEPT !.error = e] ELSE x

\* One write: the cell, what it holds then, and the change to free_count.
CellWrite(cell, val, df) == [cell |-> cell, val |-> val, df |-> df]

Apply(v, writes) == FoldLeft(LAMBDA w, e : [w EXCEPT ![e.cell] = e.val], v, writes)

\* free_count after some writes: it saturates at zero.
Counted(n, writes) == FoldLeft(LAMBDA k, e : Max({0, k + e.df}), n, writes)

\* A step: its writes, then Fat::step's barrier.
Step(x, writes) ==
    IF x.error # "ok" \/ writes = <<>> THEN x
    ELSE [x EXCEPT !.v = Apply(x.v, writes),
                   !.steps = Append(@, writes),
                   !.free = Counted(@, writes)]

\* table_step's free count, for an entry of the first copy.
FreeChange(was, val) ==
    CASE was # Free /\ val = Free -> 1
      [] was = Free /\ val # Free -> -1
      [] OTHER -> 0

\* table_step: every copy, the first copy's changes as one step and each
\* later copy's as the next.  changes is a sequence of <<cluster, value>>.
TableStep(x, changes) ==
    FoldLeft(LAMBDA y, k :
                Step(y, [i \in 1..Len(changes) |->
                    CellWrite(TableCell(k, changes[i][1]), changes[i][2],
                              IF k = 1 THEN FreeChange(Next1(y.v, changes[i][1]), changes[i][2]) ELSE 0)]),
             x, [k \in Copies |-> k])

\* Writes of entries of a directory, as one step's cells.
EntryWrites(v, puts) ==
    LET val(u, put) == IF put.p.index = 0 THEN put.e ELSE [u[put.p.at] EXCEPT !.entries[put.p.index] = put.e]
        add(acc, put) == LET w == CellWrite(put.p.at, val(acc.v, put), 0) IN
                         [v |-> Apply(acc.v, <<w>>), ws |-> Append(acc.ws, w)]
    IN  FoldLeft(add, [v |-> v, ws |-> <<>>], puts).ws

EntryStep(x, puts) == IF x.error # "ok" THEN x ELSE Step(x, EntryWrites(x.v, puts))

-----------------------------------------------------------------------------
(* The operations that allocate and free. *)

\* write_span's loop: clusters the file does not have yet, a batch at a time:
\* data into clusters the table calls free, their own entries, then the link.
\* g carries the call, the chain's last cluster and its first new one.
AddBatch(g, fid, offset, need) ==
    LET want == Min({need - g.placed, Batch})
        fresh == FreeClusters(g.x.v, g.x.hint, want)
        written == SelectSeq([i \in 1..Len(fresh) |-> i], LAMBDA i : g.placed + i > offset)
        data == Step(g.x, [k \in 1..Len(written) |-> CellWrite(ClusterCell(fresh[written[k]]), Data(fid), 0)])
        own == TableStep(data, [i \in 1..Len(fresh) |->
                   <<fresh[i], IF i < want THEN fresh[i + 1] ELSE EndOfChain>>])
        linked == IF g.tail = 0 THEN own ELSE TableStep(own, <<<<g.tail, fresh[1]>>>>)
    IN  IF Len(fresh) < want THEN [g EXCEPT !.x = Fails(g.x, "Full"), !.placed = need]
        ELSE [x |-> [linked EXCEPT !.hint = fresh[want] + 1],
              tail |-> fresh[want],
              first |-> IF g.tail = 0 THEN fresh[1] ELSE g.first,
              placed |-> g.placed + want]

AddClusters(g, fid, offset, need) ==
    FoldLeft(LAMBDA h, k : IF h.placed < need THEN AddBatch(h, fid, offset, need) ELSE h, g, [k \in 1..MaxLen |-> k])

\* write_span: `n` clusters at `offset` of the file at place p, which is at
\* least that long; the directory entry last.
WriteSpan(x, p, offset, n) ==
    LET e == EntryAt(x.v, p)
        chain == Chain(x.v, e.first)
        have == Len(chain)
        end == offset + n
        inside == Step(x, [i \in 1..(Min({end, have}) - offset) |->
                        CellWrite(ClusterCell(chain[offset + i]), Data(e.fid), 0)])
        grown == AddClusters([x |-> inside, tail |-> IF have = 0 THEN 0 ELSE Last(chain),
                              first |-> e.first, placed |-> have], e.fid, offset, end)
    IN  CASE x.error # "ok" -> x
          [] end > have /\ end - have > x.free -> Fails(x, "Full")
          [] end <= e.size -> grown.x
          [] OTHER -> EntryStep(grown.x, <<[p |-> p, e |-> [e EXCEPT !.first = grown.first, !.size = end]]>>)

\* zero_fill: a cluster at a time, each a write of its own.
ZeroFill(x, p, from, to) ==
    FoldLeft(LAMBDA y, i : WriteSpan(y, p, from + i - 1, 1), x, [i \in 1..(to - from) |-> i])

\* free_chain: the new end of the chain, then the freed clusters, a batch at
\* a time.
FreeChain(x, start, newEnd) ==
    LET chain == Chain(x.v, start)
        ended1 == IF newEnd = 0 THEN x ELSE TableStep(x, <<<<newEnd, EndOfChain>>>>)
        batch(b) == SubSeq(chain, (b - 1) * Batch + 1, Min({b * Batch, Len(chain)}))
    IN  FoldLeft(LAMBDA y, b : TableStep(y, [i \in 1..Len(batch(b)) |-> <<batch(b)[i], Free>>]),
                 [ended1 EXCEPT !.hint = Min(ToSet(chain) \union {@})],
                 [b \in 1..((Len(chain) + Batch - 1) \div Batch) |-> b])

\* grow_directory: FAT16's root has a fixed size.
GrowDirectory(x, d) ==
    LET chain == Chain(x.v, IF d = 0 THEN RootCluster ELSE d)
        fresh == FreeClusters(x.v, x.hint, 1)
        zeroed == Step(x, <<CellWrite(ClusterCell(fresh[1]), DirCluster(0), 0)>>)
        own == TableStep(zeroed, <<<<fresh[1], EndOfChain>>>>)
    IN  IF (d = 0 /\ NRoot > 0) \/ fresh = <<>> THEN Fails(x, "Full")
        ELSE [TableStep(own, <<<<Last(chain), fresh[1]>>>>) EXCEPT !.hint = fresh[1] + 1]

Count(name) == IF name.long THEN 2 ELSE 1

\* slots_for: room for a name, growing the directory when there is none.
SlotsFor(x, d, name) ==
    IF x.error # "ok" \/ FreeSlots(x.v, d, Count(name)) # {} THEN x ELSE GrowDirectory(x, d)

\* write_name_at, in the room slots_for found: every entry of the set, one step.
WriteNameAt(x, d, name, e, slot) ==
    LET ps == Places(x.v, d) IN
    IF x.error # "ok" THEN x
    ELSE EntryStep(x, IF name.long THEN <<[p |-> ps[slot], e |-> LongEntry(name)], [p |-> ps[slot + 1], e |-> e]>>
                                   ELSE <<[p |-> ps[slot], e |-> e]>>)

\* write_name_set.
WriteNameSet(x, d, name, e) ==
    LET room == SlotsFor(x, d, name) IN
    IF room.error # "ok" THEN room ELSE WriteNameAt(room, d, name, e, Min(FreeSlots(room.v, d, Count(name))))

\* delete_name_set: every entry of the set, one step.
DeleteNameSet(x, found) ==
    EntryStep(x, [i \in 1..Len(found.set) |-> [p |-> found.set[i], e |-> DeletedEntry]])

-----------------------------------------------------------------------------
(* The calls: what each one does to the volume, as steps. *)

NewEntry(x, t, name, first) == Entry(t, name, first, 0, x.made + 1)

\* create.  A directory's cluster is filled in while the table still calls it
\* free, then the table, then the entry naming it.
Create(x, d, name, kind) ==
    LET fresh == FreeClusters(x.v, x.hint, 1)
        filled == Step(x, <<CellWrite(ClusterCell(fresh[1]), DirCluster(d), 0)>>)
        own == [TableStep(filled, <<<<fresh[1], EndOfChain>>>>) EXCEPT !.hint = fresh[1] + 1]
        named(y, first) == LET z == WriteNameSet(y, d, name, NewEntry(y, kind, name, first)) IN
                           IF z.error = "ok" THEN [z EXCEPT !.made = @ + 1] ELSE z
    IN  CASE Find(x.v, d, name) # {} -> Fails(x, "Exists")
          [] kind = "file" -> named(x, 0)
          [] kind = "dir" /\ fresh = <<>> -> Fails(x, "Full")
          [] OTHER -> named(own, fresh[1])

\* Mutant of FileWrite: the gap before the offset is not filled.
FileWriteNoFill(x, p, offset, n) == WriteSpan(x, p, offset, n)

\* write_at: zeros up to the offset, then the span.
FileWrite(x, p, offset, n) ==
    WriteSpan(IF offset > EntryAt(x.v, p).size THEN ZeroFill(x, p, EntryAt(x.v, p).size, offset) ELSE x,
              p, offset, n)

\* Mutant of Truncate: the clusters go before the entry that names them.
TruncateEntryLast(x, p, len) ==
    LET e == EntryAt(x.v, p)
        chain == Chain(x.v, e.first)
        put(y) == EntryStep(y, <<[p |-> p, e |-> [e EXCEPT !.size = len, !.first = IF len = 0 THEN 0 ELSE @]]>>)
    IN  CASE len >= e.size -> ZeroFill(x, p, e.size, len)
          [] len < Len(chain) -> put(FreeChain(x, chain[len + 1], IF len = 0 THEN 0 ELSE chain[len]))
          [] OTHER -> put(x)

\* truncate: the entry first, so it never names a cluster about to be freed.
Truncate(x, p, len) ==
    LET e == EntryAt(x.v, p)
        chain == Chain(x.v, e.first)
        put == EntryStep(x, <<[p |-> p, e |-> [e EXCEPT !.size = len, !.first = IF len = 0 THEN 0 ELSE @]]>>)
    IN  CASE len >= e.size -> ZeroFill(x, p, e.size, len)
          [] len < Len(chain) -> FreeChain(put, chain[len + 1], IF len = 0 THEN 0 ELSE chain[len])
          [] OTHER -> put

\* is_empty_dir.
IsEmptyDir(v, e) == NamedIn(v, e.first) = {}

\* Mutant of Unlink: the chain is not freed.
UnlinkKeepsChain(x, d, found) ==
    IF found.entry.t = "dir" /\ ~IsEmptyDir(x.v, found.entry) THEN Fails(x, "NotEmpty") ELSE DeleteNameSet(x, found)

\* unlink: the entries first; the chain is lost clusters until it is freed.
Unlink(x, d, found) ==
    LET gone == DeleteNameSet(x, found) IN
    CASE found.entry.t = "dir" /\ ~IsEmptyDir(x.v, found.entry) -> Fails(x, "NotEmpty")
      [] found.entry.first = 0 -> gone
      [] OTHER -> FreeChain(gone, found.entry.first, 0)

\* below: whether d is the directory at cluster c or under it, by `..`.
Below(v, d, c) ==
    LET up[k \in 0..MaxDepth] ==
            IF k = 0 THEN d ELSE LET h == up[k - 1] IN IF h = 0 THEN 0 ELSE v[ClusterCell(h)].up
    IN  \E k \in 0..MaxDepth : up[k] = c

\* rename's refusals, given the entry moved and the one replaced, if any.
RenameRefusal(v, found, target, d1, d2) ==
    CASE target # {} /\ (CHOOSE t \in target : TRUE).entry.t # found.entry.t ->
            IF found.entry.t = "file" THEN "IsADirectory" ELSE "NotADirectory"
      [] \E t \in target : t.entry.t = "dir" /\ ~IsEmptyDir(v, t.entry) -> "NotEmpty"
      [] found.entry.t = "dir" /\ d1 # d2 /\ Below(v, d2, found.entry.first) -> "BadPath"
      [] OTHER -> "ok"

\* rename, once the target's entries are gone: room for the new name, the old
\* entries deleted, the new ones written, and a moved directory's `..`.
RenameMove(x, found, d1, d2, to) ==
    LET room == SlotsFor(x, d2, to)
        slot == Min(FreeSlots(room.v, d2, Count(to)))
        moved == WriteNameAt(DeleteNameSet(room, found), d2, to, [found.entry EXCEPT !.name = to], slot)
        at == ClusterCell(found.entry.first)
    IN  CASE room.error # "ok" -> room
          [] found.entry.t = "dir" /\ d1 # d2 -> Step(moved, <<CellWrite(at, [moved.v[at] EXCEPT !.up = d2], 0)>>)
          [] OTHER -> moved

\* rename of `found` in d1 to `to` in d2.
Rename(x, found, d1, d2, to) ==
    LET target == {t \in Find(x.v, d2, to) : t.place # found.place}
        refusal == RenameRefusal(x.v, found, target, d1, d2)
        t1 == CHOOSE t \in target : TRUE
        cleared == IF target = {} THEN x ELSE DeleteNameSet(x, t1)
        renamed == RenameMove(cleared, found, d1, d2, to)
    IN  CASE refusal # "ok" -> Fails(x, refusal)
          [] target = {} /\ Find(x.v, d2, to) # {} -> x
          [] renamed.error # "ok" \/ target = {} \/ t1.entry.first = 0 -> renamed
          [] OTHER -> FreeChain(renamed, t1.entry.first, 0)

-----------------------------------------------------------------------------
(* The machine. *)

With(v, writes) == [c \in DOMAIN v |-> IF c \in DOMAIN writes THEN writes[c] ELSE v[c]]

\* What the driver reads: every write so far.
View == With(done, step)

\* What a crash now can leave.
Images == {With(done, [c \in S |-> step[c]]) : S \in SUBSET DOMAIN step}

Idle == plan = <<>>

NoWrites == [c \in {} |-> 0]

\* A formatted, empty volume, mounted.
FatInit ==
    /\ volume \in Volumes
    /\ LET taken == IF NRoot = 0 THEN {RootCluster} ELSE {}
           table == [cell \in {TableCell(k, c) : k \in Copies, c \in Clusters} |->
                       IF cell[3] \in taken THEN EndOfChain ELSE Free]
           root == [cell \in {RootCell(i) : i \in 1..NRoot} |-> FreeEntry]
           clusters == [cell \in {ClusterCell(c) : c \in Clusters} |->
                       IF cell[2] \in taken THEN DirCluster(0) ELSE Data(0)]
           info == [cell \in {InfoCell} |-> NClusters - Cardinality(taken)]
       IN  /\ done = table @@ root @@ clusters @@ info
           /\ step = NoWrites /\ ended = TRUE
           /\ plan = <<>> /\ leaves = 1 /\ calls = 0
           /\ free = NClusters - Cardinality(taken)
           /\ hint = 1 /\ stale = FALSE /\ made = 0 /\ crashes = 0 /\ faults = 0 /\ refused = FALSE

\* A call begins: x is what it will do.
Begin(x) ==
    /\ Idle /\ calls < MaxCalls
    /\ calls' = calls + 1
    /\ plan' = x.steps
    /\ leaves' = x.hint
    /\ hint' = IF x.steps = <<>> THEN x.hint ELSE hint
    /\ made' = x.made
    /\ refused' = (refused \/ (x.error # "ok" /\ x.steps # <<>>))
    /\ UNCHANGED <<done, step, ended, free, stale, crashes, faults>>

CallCreate ==
    /\ made < MaxFiles
    /\ \E d \in Dirs(View), name \in Names, kind \in {"file", "dir"} :
          /\ kind = "dir" => d = 0 \/ MaxDepth > 1
          /\ Begin(Create(Working(View), d, name, kind))

\* The files of directory d.
Files(d) == {x \in NamedIn(View, d) : x.entry.t = "file"}

CallWrite ==
    /\ \E d \in Dirs(View) : \E f \in Files(d), offset \in 0..(MaxLen - 1) : \E n \in 1..(MaxLen - offset) :
          Begin(FileWrite(Working(View), f.place, offset, n))

CallTruncate ==
    /\ \E d \in Dirs(View) : \E f \in Files(d), len \in 0..MaxLen :
          Begin(Truncate(Working(View), f.place, len))

CallUnlink ==
    /\ \E d \in Dirs(View) : \E f \in {x \in NamedIn(View, d) : x.found} :
          Begin(Unlink(Working(View), d, f))

CallRename ==
    /\ \E d1, d2 \in Dirs(View), to \in Names : \E f \in {x \in NamedIn(View, d1) : x.found} :
          Begin(Rename(Working(View), f, d1, d2, to))

\* The writes of a step that begins: into the step in progress if that never
\* had its barrier, into a new one otherwise.
Install(writes) ==
    LET old == IF ended THEN NoWrites ELSE step
        cells == {w.cell : w \in ToSet(writes)}
        after == Apply(View, writes)
    IN  /\ done' = IF ended THEN View ELSE done
        /\ step' = [c \in DOMAIN old \union cells |-> IF c \in cells THEN after[c] ELSE old[c]]

\* The call in progress takes its next step.
TakeStep ==
    /\ ~Idle
    /\ Install(Head(plan))
    /\ ended' = TRUE
    /\ plan' = Tail(plan)
    /\ free' = Counted(free, Head(plan))
    /\ stale' = (stale \/ \E w \in ToSet(Head(plan)) : w.df # 0)
    /\ hint' = IF Len(plan) = 1 THEN leaves ELSE hint
    /\ UNCHANGED <<leaves, calls, made, crashes, faults, refused>>

\* A device error part way through a step ends the call there, with no
\* barrier.  table_step has already counted the entry it failed to write.
Fault ==
    /\ ~Idle /\ faults < MaxFaults
    /\ \E k \in 0..(Len(Head(plan)) - 1), counted \in BOOLEAN :
          LET writes == SubSeq(Head(plan), 1, k)
              seen == SubSeq(Head(plan), 1, IF counted THEN k + 1 ELSE k)
          IN  /\ IF k = 0 THEN UNCHANGED <<done, step, ended>> ELSE Install(writes) /\ ended' = FALSE
              /\ free' = Counted(free, seen)
              /\ stale' = (stale \/ \E w \in ToSet(seen) : w.df # 0)
    /\ plan' = <<>>
    /\ hint' \in {hint, leaves} /\ leaves' = hint'
    /\ faults' = faults + 1
    /\ UNCHANGED <<calls, made, crashes, refused>>

\* sync: FSInfo if it is stale, then every block written back.
FatSync ==
    /\ Idle
    /\ done' = [View EXCEPT ![InfoCell] = IF stale /\ NRoot = 0 THEN free ELSE @]
    /\ step' = NoWrites /\ ended' = TRUE
    /\ stale' = (stale /\ NRoot > 0)
    /\ UNCHANGED <<plan, leaves, calls, free, hint, made, crashes, faults, refused>>

\* The power goes, and the volume is mounted again: the counts are the
\* table's own.
FatCrash ==
    /\ crashes < MaxCrashes
    /\ \E image \in Images :
          /\ done' = image
          /\ free' = CountFree(image)
          /\ stale' = (image[InfoCell] # CountFree(image))
    /\ step' = NoWrites /\ ended' = TRUE /\ plan' = <<>>
    /\ leaves' = 1 /\ hint' = 1
    /\ crashes' = crashes + 1
    /\ UNCHANGED <<calls, made, faults, refused>>

FatNext ==
    /\ UNCHANGED volume
    /\ \/ CallCreate \/ CallWrite \/ CallTruncate \/ CallUnlink \/ CallRename
       \/ TakeStep \/ Fault \/ FatSync \/ FatCrash

FatSpec == FatInit /\ [][FatNext]_fatVars

-----------------------------------------------------------------------------
(* Properties. *)

\* Every entry a walk from the root reaches.
Reached(v) == UNION {NamedIn(v, d) : d \in Dirs(v)}

\* A chain ends where the table says it does and meets no cluster twice.
Sound(v, first) ==
    LET chain == Chain(v, first) IN
    /\ Cardinality(ToSet(chain)) = Len(chain)
    /\ Next1(v, Last(chain)) = EndOfChain

\* check_consistency: no chain through a free cluster, no cluster claimed
\* twice, no file longer than its chain, no directory without clusters.  A
\* directory's clusters moreover hold entries, and none but the root's is
\* its own ancestor.
Consistent(v) ==
    LET all == Reached(v)
        root == Chain(v, RootCluster)
        of(x) == Chain(v, x.entry.first)
    IN  /\ \A x \in all : x.entry.first # 0 => Sound(v, x.entry.first)
        /\ RootCluster # 0 => Sound(v, RootCluster)
        /\ \A x \in all : ToSet(of(x)) \cap ToSet(root) = {}
        /\ \A x, y \in all : x.place # y.place => ToSet(of(x)) \cap ToSet(of(y)) = {}
        /\ \A x \in all : x.entry.t = "file" => Len(of(x)) >= x.entry.size
        /\ \A x \in all : x.entry.t = "dir" =>
              /\ x.entry.first # 0
              /\ \A c \in ToSet(of(x)) : v[ClusterCell(c)].as = "dir"

\* "No cross-linked chain, no entry into a free cluster, after a crash at any
\* point": whatever subset of the step in progress reached the disk, at any
\* point of any call, after earlier crashes and device errors too.
CrashConsistent == \A v \in Images : Consistent(v)

\* A cluster within a file's recorded size holds what was written to that
\* file: no crash leaves a file showing another file's bytes, or a free
\* cluster's.  This is why data goes before the table and the entry last.
NoStaleBytes ==
    \A v \in Images : \A x \in Reached(v) :
        x.entry.t = "file" =>
            \A i \in 1..x.entry.size : v[ClusterCell(Chain(v, x.entry.first)[i])] = Data(x.entry.fid)

\* Clusters the table calls taken that no chain reaches.
Lost(v) == {c \in Clusters : Next1(v, c) # Free /\ c \notin ToSet(Chain(v, RootCluster))
                /\ \A x \in Reached(v) : c \notin ToSet(Chain(v, x.entry.first))}

\* "A volume written without a crash loses nothing": between calls every
\* cluster the table calls taken is in some chain, unless a crash, a device
\* error or a refusal part way through a call came first.  free_count, which
\* refuses a write before its first step and is what statfs reports, is the
\* number of clusters the table calls free, at every step; and the count a
\* FAT32 volume that synced has on the device agrees with its table.
ClustersAccounted ==
    /\ (Idle /\ crashes = 0 /\ faults = 0 /\ ~refused) => Lost(View) = {}
    /\ faults = 0 => free = CountFree(View)
    /\ (NRoot = 0 /\ ~stale /\ Idle) => View[InfoCell] = CountFree(View)
=============================================================================
