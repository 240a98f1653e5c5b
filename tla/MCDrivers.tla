----------------------------- MODULE MCDrivers ------------------------------
(* Two disks and an empty slot between them, two requests, and two keyboards: the
   first sees up to two keys while the second is probed, which sees one, and all
   three have scancodes of their own. *)
EXTENDS Drivers, TLC

CONSTANTS r1, r2

MCSize == (0 :> 2) @@ (1 :> 0) @@ (2 :> 1)

\* What the requests ask for, up to their names; two for one disk are for the first.
MCWorkloads ==
  LET number(q) == q.disk * 2 + (IF q.kind = "read" THEN 0 ELSE 1)
  IN {q \in [{r1, r2} -> Submissions] :
        /\ number(q[r1]) <= number(q[r2])
        /\ q[r1].disk = q[r2].disk => q[r1].disk = 0}

MCKeys == (0 :> <<{"a"}, {"b"}>>) @@ (1 :> <<{"c"}>>)
MCKbdIrq == (0 :> "kbd0") @@ (1 :> "kbd1")

=============================================================================
