-------------------------------- MODULE MCVm --------------------------------
(***************************************************************************)
(* Two address spaces of three blocks of two pages, in three plans:        *)
(* processes that fork with few frames and few share slots, one space with *)
(* huge leaves, and one too short of frames for them, with a physical      *)
(* range beside.                                                           *)
(***************************************************************************)
EXTENDS Vm

Anon(start, len, huge) == [start |-> start, len |-> len, w |-> TRUE, base |-> 0, huge |-> huge]
Device(start, len, base) == [start |-> start, len |-> len, w |-> TRUE, base |-> base, huge |-> TRUE]

Forking == [frames |-> 8, slots |-> 2, regions |-> 2, calls |-> 7, protects |-> {},
            reserved |-> {Anon(0, 2, FALSE), Anon(2, 1, FALSE)}, templates |-> {}]
Huge == [frames |-> 7, slots |-> 2, regions |-> 3, calls |-> 5, protects |-> {1},
         reserved |-> {Anon(0, 2, TRUE), Anon(2, 2, FALSE)}, templates |-> {}]
Tight == [Huge EXCEPT !.frames = 6, !.protects = {2}, !.templates = {Device(4, 2, 100)},
                      !.reserved = {Anon(0, 2, TRUE), Anon(3, 2, FALSE)}]

MCPlans == {Forking, Huge, Tight}
=============================================================================
