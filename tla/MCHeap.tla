------------------------------- MODULE MCHeap -------------------------------
(* 24 units of address space in three banks of 8, the first holding the    *)
(* bootloader's image: machines with adjacent banks, with a hole, and with *)
(* a bank too small for a header.  Blocks of 1 and 3 units, page aligned   *)
(* permanent blocks of 2 and 4 (a page is 4), and one request so large     *)
(* that the end of its block wraps around.                                 *)
EXTENDS Heap

Machine(a, b, c) == 0 :> a @@ 1 :> b @@ 2 :> c

MCMachines == {Machine(8, 8, 4), Machine(8, 4, 4), Machine(4, 0, 8)}

MCRequests ==
  [size : {1, 3}, align : {1}, permanent : {FALSE}]
    \union {[size |-> 2, align |-> 1, permanent |-> TRUE],
            [size |-> 4, align |-> 4, permanent |-> TRUE],
            [size |-> 21, align |-> 4, permanent |-> TRUE]}

MCGrowths == {1, 2}
=============================================================================
