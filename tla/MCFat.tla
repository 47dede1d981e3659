------------------------------- MODULE MCFat -------------------------------
(***************************************************************************)
(* The FAT driver on volumes of a few clusters: FAT16 with two copies of   *)
(* the table and a root region, FAT32 with a root chain that grows and     *)
(* moves between directories, and FAT16 on a device that may fail.         *)
(***************************************************************************)
EXTENDS Fat

Short(i) == [id |-> i, long |-> FALSE]
Long(i) == [id |-> i, long |-> TRUE]
MixedNames == {Short("a"), Long("b")}

Fat16 == [clusters |-> 3, copies |-> 2, root |-> 3, names |-> MixedNames,
          len |-> 2, depth |-> 1, calls |-> 4, faults |-> 0]
Fat32 == [clusters |-> 4, copies |-> 1, root |-> 0, names |-> MixedNames,
          len |-> 1, depth |-> 2, calls |-> 4, faults |-> 0]
Failing == [Fat16 EXCEPT !.names = {Short("a")}, !.faults = 1]

MCVolumes == {Fat16, Fat32, Failing}
=============================================================================
