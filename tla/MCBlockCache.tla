---------------------------- MODULE MCBlockCache ----------------------------
(* Blocks of two sectors of two bytes, a cache of two of them, and a disk  *)
(* of three blocks and a half: reads of up to two blocks that start or end *)
(* anywhere meet every order of the cached blocks, and the last block is   *)
(* cut short.  One partition starts in the middle of a block.              *)
EXTENDS BlockCache

MCPartitions == {[start |-> 2, size |-> 12], [start |-> 8, size |-> 4]}
=============================================================================
