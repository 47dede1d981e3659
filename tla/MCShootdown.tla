----------------------------- MODULE MCShootdown -----------------------------
(***************************************************************************)
(* Three CPUs: one page that is unmapped, faulted in and unmapped again    *)
(* beside a kernel invalidation, and two processes that act on each other  *)
(* beside a third CPU's unmapping.                                         *)
(***************************************************************************)
EXTENDS Shootdown

CONSTANTS c1, c2, c3, p1

Vm(k, p) == [kind |-> k, page |-> p1, proc |-> p, other |-> None]
Spurious(p) == [kind |-> "spurious", page |-> ALL, proc |-> p, other |-> None]
Share(p, q) == [kind |-> "share", page |-> None, proc |-> p, other |-> q]
Kernel == [kind |-> "kernel", page |-> ALL, proc |-> None, other |-> None]

Does(a, b, c) == [x \in CPUs |-> CASE x = c1 -> a [] x = c2 -> b [] x = c3 -> c]

MCWorkloads ==
    {Does({Vm("unmap", 0)}, {Vm("map", 0), Spurious(0)}, {Kernel}),
     Does({Vm("unmap", 0)}, {Vm("map", 1), Vm("unmap", 1)}, {}),
     Does({Share(0, 1)}, {Share(1, 0)}, {Vm("unmap", 0)})}
=============================================================================
