------------------------------ MODULE MCTraps ------------------------------
(* Traps with the idle task and two more, and up to three frames on a stack:
   user code, a fault or an interrupt in its system call, one more inside. *)
EXTENDS Traps, TLC

CONSTANTS idle, init, child

MCTasks == {idle, init, child}

\* Nothing in Traps names a task but Idle.
MCSymmetry == Permutations({init, child})

=============================================================================
