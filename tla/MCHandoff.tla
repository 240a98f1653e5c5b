----------------------------- MODULE MCHandoff -----------------------------
(* Five processor slots, four of them populated, the boot processor in the *)
(* middle: the kick loop skips an absent slot and itself, and three        *)
(* handlers and four kernel entries compete for the counters.              *)
EXTENDS Handoff

MCPresent == {0, 1, 3, 4}
============================================================================
