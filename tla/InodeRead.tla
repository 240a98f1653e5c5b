------------------------------ MODULE InodeRead ------------------------------
(***************************************************************************)
(* Reading from a file (bootloader/filesystem.c, BlFsFileRead to           *)
(* BiReadFromPointerBlock).  The blocks of a file are named by its inode:  *)
(* some directly, the others through trees of pointer blocks, one tree of  *)
(* each height; a pointer of 0 is a hole.  A read goes block by block and  *)
(* finds each block's place from its number in the file.                   *)
(*                                                                         *)
(* The content of the partition is taken to be the addresses of its bytes. *)
(***************************************************************************)
EXTENDS Integers, Sequences, FiniteSets, SequencesExt

CONSTANTS
  BlockSize,       \* BiBlockSize
  SectorSize,      \* 1 << BL_SECTOR_SHIFT
  PointerCount,    \* BiIndirectionCount, pointers per block
  Levels,          \* BI_INDIRECT_LEVELS
  WordSize,        \* number of values of a uint32_t
  PartitionSize,   \* BlRootPartition.Size
  PointersOf,      \* the content of the pointer blocks
  MaxCount         \* bound: length of a read

\* PointerCount to the power n, the number of blocks a tree of height n has.
Power[n \in Nat] == IF n = 0 THEN 1 ELSE Power[n - 1] * PointerCount

InodeReadAssumption ==
  /\ BlockSize \in Nat \ {0} /\ SectorSize \in Nat \ {0}
  /\ BlockSize % SectorSize = 0
  /\ PointerCount \in Nat \ {0} /\ Levels \in Nat
  /\ WordSize \in Nat /\ Power[Levels] < WordSize
  /\ PartitionSize \in Nat /\ PartitionSize <= WordSize
  /\ MaxCount \in Nat
  /\ DOMAIN PointersOf \subseteq Nat \ {0}
  /\ \A block \in DOMAIN PointersOf : PointersOf[block] \in [1..PointerCount -> Nat]

\* The blocks a tree of each height may begin with: any at all, or a pointer
\* block, or a hole.
Trees[height \in Nat] ==
  IF height = 0 THEN Nat
  ELSE {0} \union {block \in DOMAIN PointersOf :
                     \A i \in 1..PointerCount :
                       PointersOf[block][i] \in Trees[height - 1]}

VARIABLES
  inode,   \* the file: its size, its direct and its indirect pointers
  call,    \* the arguments of BlFsFileRead
  pc,      \* "idle", "call", "read", "done" or "crashed"
  buffer   \* the caller's buffer, as far as it is filled

vars == <<inode, call, pc, buffer>>

\* BlFillMemory for a hole.
Zero == -1

---------------------------------------------------------------------------
(* BiGetInodeBlockBase.                                                    *)

Pointer(block, index) == PointersOf[block][index + 1]

\* The first loop: the height of the block's tree, less one, and its number
\* among the blocks of that tree.  TreeSize is blocks before each turn.
TreeSize[level \in Nat] ==
  IF level = 0 THEN PointerCount
  ELSE (TreeSize[level - 1] * PointerCount) % WordSize

FindLevel(block) ==
  LET left[level \in Nat] ==
        IF level = 0 THEN block ELSE left[level - 1] - TreeSize[level - 1]
      level == CHOOSE l \in 0..Levels :
                 /\ l = Levels \/ left[l] < TreeSize[l]
                 /\ \A k \in 0..(l - 1) : left[k] >= TreeSize[k]
  IN [level |-> level, block |-> left[level]]

\* Mutant: the digits of the number are taken from the wrong end.
FollowUpwards(volumeBlock, block, height) ==
  LET at[turn \in 0..height] ==
        IF turn = 0 THEN volumeBlock
        ELSE IF at[turn - 1] = 0 THEN 0
        ELSE Pointer(at[turn - 1],
                     (block \div Power[turn - 1]) % PointerCount)
  IN at[height]

\* The second loop: down the tree, a digit of the number per turn.
Follow(volumeBlock, block, height) ==
  LET at[turn \in 0..height] ==
        IF turn = 0 THEN volumeBlock
        ELSE IF at[turn - 1] = 0 THEN 0
        ELSE Pointer(at[turn - 1],
                     (block \div Power[height - turn]) % PointerCount)
  IN at[height]

Beyond == -1

BlockBase(f, block) ==
  LET place == FindLevel(block - Len(f.direct))
  IN IF block < Len(f.direct) THEN f.direct[block + 1]
     ELSE IF place.level >= Levels THEN Beyond
     ELSE Follow(f.indirect[place.level + 1], place.block, place.level + 1)

---------------------------------------------------------------------------
(* BlFsFileRead and BiReadFromInode.                                       *)

Init ==
  /\ call = [position |-> 0, count |-> 0, bypass |-> FALSE]
  /\ pc = "idle"
  /\ buffer = <<>>

\* The caller asks for any part of the file, and beyond its end.
Call ==
  /\ pc = "idle"
  /\ call' \in [position : 0..(inode.size + BlockSize), count : 0..MaxCount,
                bypass : BOOLEAN]
  /\ pc' = "call"
  /\ UNCHANGED <<inode, buffer>>

\* avail is position - fileSize, so that its test stops only a read from the
\* very end of the file.
FileRead ==
  /\ pc = "call"
  /\ pc' = IF call.count = 0 \/ call.position >= inode.size
             THEN "done" ELSE "read"
  /\ UNCHANGED <<inode, call, buffer>>

position == call.position + Len(buffer)

offset == position % BlockSize

current == Min({call.count - Len(buffer), BlockSize - offset})

base == BlockBase(inode, position \div BlockSize)

Fill(bytes) ==
  /\ buffer' = buffer \o bytes
  /\ pc' = IF Len(buffer) + current = call.count THEN "done" ELSE "read"
  /\ UNCHANGED <<inode, call>>

ReadBlock ==
  /\ pc = "read"
  /\ base > 0
  /\ base * BlockSize + offset + current <= PartitionSize
  /\ call.bypass => offset % SectorSize = 0 /\ current % SectorSize = 0
  /\ Fill([i \in 1..current |-> base * BlockSize + offset + i - 1])

ReadHole ==
  /\ pc = "read"
  /\ base = 0
  /\ Fill([i \in 1..current |-> Zero])

\* BlCrash: beyond the inode's or the partition's end, or a read that
\* bypasses the cache and is not of whole sectors.
ReadFails ==
  /\ pc = "read"
  /\ \/ base = Beyond
     \/ /\ base > 0
        /\ \/ base * BlockSize + offset + current > PartitionSize
           \/ /\ call.bypass
              /\ offset % SectorSize # 0 \/ current % SectorSize # 0
  /\ pc' = "crashed"
  /\ UNCHANGED <<inode, call, buffer>>

Next == Call \/ FileRead \/ ReadBlock \/ ReadHole \/ ReadFails

---------------------------------------------------------------------------
(* Properties.                                                             *)

\* The file's blocks, in order: the leaves of its trees from left to right.  In
\* a file, what is not a pointer block where one could be is 0, a hole.
Leaves[height \in Nat] ==
  [block \in Nat |->
     IF height = 0 THEN <<block>>
     ELSE IF block \notin DOMAIN PointersOf THEN [i \in 1..Power[height] |-> 0]
     ELSE FlattenSeq([i \in 1..PointerCount |->
                        Leaves[height - 1][PointersOf[block][i]]])]

Blocks(f) ==
  f.direct \o FlattenSeq([l \in 1..Levels |-> Leaves[l][f.indirect[l]]])

\* What a file is; the composing module assumes it of those it opens.
IsFile(f) ==
  /\ f.direct \in Seq(Nat)
  /\ f.indirect \in [1..Levels -> Nat]
  /\ \A l \in 1..Levels : f.indirect[l] \in Trees[l]
  /\ f.size \in Nat /\ f.size <= Len(Blocks(f)) * BlockSize

ByteAt(f, at) ==
  LET block == Blocks(f)[at \div BlockSize + 1]
  IN IF block = 0 THEN Zero ELSE block * BlockSize + (at % BlockSize)

\* A read that returns has the bytes of the file, block by block, in the
\* order of its pointers, and zeros where it has a hole.
ReadsTheFile ==
  \A i \in DOMAIN buffer :
    call.position + i - 1 < inode.size =>
      buffer[i] = ByteAt(inode, call.position + i - 1)

\* A read of whole sectors within a file whose blocks are on the partition
\* does not crash, and every read that starts within the file is complete or
\* crashes; one that starts at or behind its end leaves the buffer alone.
ReadIsComplete ==
  /\ pc = "done" =>
       Len(buffer) = IF call.position < inode.size THEN call.count ELSE 0
  /\ pc = "crashed" =>
       \/ call.position + call.count > inode.size
       \/ call.bypass /\ ~(/\ call.position % SectorSize = 0
                           /\ call.count % SectorSize = 0)
       \/ \E b \in Range(Blocks(inode)) : (b + 1) * BlockSize > PartitionSize
==============================================================================
