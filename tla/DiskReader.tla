----------------------------- MODULE DiskReader -----------------------------
(***************************************************************************)
(* What reading from the boot disk promises (bootloader/partition.h): a    *)
(* read that returns has every byte of the disk it asked for, in order.    *)
(* The content of the disk is taken to be the addresses of its bytes.      *)
(***************************************************************************)
EXTENDS Integers, Sequences

VARIABLES
  request,  \* where on the disk the read starts and how long it is
  state,    \* "idle", "busy" or "crashed"
  answer    \* the caller's buffer when the read has returned

Init ==
  /\ state = "idle"
  /\ request.count = 0
  /\ answer = <<>>

Ask ==
  /\ state = "idle"
  /\ state' = "busy"
  /\ answer' = <<>>

Return ==
  /\ state = "busy"
  /\ state' = "idle"
  /\ answer' = [i \in 1..request.count |-> request.start + i - 1]
  /\ UNCHANGED request

Crash ==
  /\ state # "crashed"
  /\ state' = "crashed"
  /\ answer' = <<>>

Next == Ask \/ Return \/ Crash

Spec == Init /\ [][Next]_<<request, state, answer>>
=============================================================================
