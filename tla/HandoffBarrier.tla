-------------------------- MODULE HandoffBarrier --------------------------
(***************************************************************************)
(* What the SMP handoff promises (bootloader/PROTOCOL.md, "Machine State") *)
(* stated without any of its mechanism: the processors enter the kernel    *)
(* one by one, and the memory of the machine passes to the kernel in one   *)
(* step, taken by the first processor that entered, after the last one     *)
(* did.  Handoff implements this specification.                            *)
(***************************************************************************)

CONSTANTS
  Cpus,   \* the processors that execute the kernel image
  NoCpu   \* "no processor", not a member of Cpus

VARIABLES
  entered,  \* the processors that have entered the kernel
  first,    \* the first of them, NoCpu while there is none
  leader    \* the processor that took the machine over, NoCpu before

vars == <<entered, first, leader>>

Init ==
  /\ entered = {}
  /\ first   = NoCpu
  /\ leader  = NoCpu

Enter(c) ==
  /\ c \notin entered
  /\ entered' = entered \union {c}
  /\ first'   = IF entered = {} THEN c ELSE first
  /\ UNCHANGED leader

TakeOver ==
  /\ leader = NoCpu
  /\ entered = Cpus
  /\ leader' = first
  /\ UNCHANGED <<entered, first>>

Next ==
  \/ \E c \in Cpus : Enter(c)
  \/ TakeOver

Spec == Init /\ [][Next]_vars
===========================================================================
