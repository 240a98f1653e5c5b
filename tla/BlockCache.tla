----------------------------- MODULE BlockCache -----------------------------
(***************************************************************************)
(* Reading from the boot disk through the block cache                      *)
(* (bootloader/partition.c) and from the firmware (bootloader/a4x/a4x.c):  *)
(* a read copies from cached blocks, most recently used first in BiBCache, *)
(* or bypasses the cache.  The firmware reads whole sectors and only those *)
(* the disk has, so that the last block of a disk may be filled in part:   *)
(* what its buffer held before stays behind it.                            *)
(*                                                                         *)
(* The content of the disk is taken to be the addresses of its bytes.      *)
(***************************************************************************)
EXTENDS Integers, Sequences, FiniteSets, SequencesExt

CONSTANTS
  SectorSize,  \* 1 << BL_SECTOR_SHIFT
  BlockSize,   \* BI_BCACHE_SIZE
  NumSlots,    \* BL_BCACHE_COUNT
  DiskSize,    \* SectorCount of the boot disk, in bytes
  Partitions,  \* where BlRootPartition may lie
  MaxCount     \* bound: length of a read

ASSUME BlockCacheAssumption ==
  /\ SectorSize \in Nat \ {0} /\ BlockSize \in Nat \ {0}
  /\ BlockSize % SectorSize = 0
  /\ NumSlots \in Nat \ {0} /\ MaxCount \in Nat
  /\ DiskSize \in Nat /\ DiskSize % SectorSize = 0
  /\ \A p \in Partitions :
       /\ p.start \in Nat /\ p.size \in Nat /\ p.start + p.size <= DiskSize
       /\ p.start % SectorSize = 0 /\ p.size % SectorSize = 0

VARIABLES
  partition,  \* BlRootPartition
  cached,     \* BiBCache: the slots, most recently used first
  blockOf,    \* Block of each slot
  data,       \* Data of each slot
  used,       \* BiBCacheUsed
  pc,         \* what the bootloader is doing
  request,    \* the read it is doing, from the start of the disk
  buffer      \* the caller's buffer, as far as it is filled

vars == <<partition, cached, blockOf, data, used, pc, request, buffer>>

cache == <<cached, blockOf, data, used>>

\* The cache is in .bss.
Zero == -1

Bytes == 0..(DiskSize - 1) \union {Zero}

Init ==
  /\ partition \in Partitions
  /\ cached = <<>>
  /\ blockOf = [s \in 1..NumSlots |-> 0]
  /\ data = [s \in 1..NumSlots |-> [i \in 0..(BlockSize - 1) |-> Zero]]
  /\ used = 0
  /\ pc = "idle"
  /\ request = [start |-> 0, count |-> 0, bypass |-> FALSE]
  /\ buffer = <<>>

\* The bytes the firmware's ReadDisk writes for a read of the blocks at
\* start: the others keep what the buffer held.
FromDisk(start, old) ==
  [i \in DOMAIN old |-> IF start + i < DiskSize THEN start + i ELSE old[i]]

Aligned(x) == x % SectorSize = 0

---------------------------------------------------------------------------
(* BlReadFromPartition and the first lines of BiReadFromDisk.              *)

Call(position, count, bypass) ==
  LET start == partition.start + position IN
  /\ pc = "idle"
  /\ request' = [start |-> start, count |-> count, bypass |-> bypass]
  /\ buffer' = <<>>
  /\ pc' = IF \/ position + count > partition.size
              \/ bypass /\ ~(Aligned(start) /\ Aligned(count))
             THEN "crashed"
             ELSE IF bypass THEN "transfer" ELSE "copy"
  /\ UNCHANGED <<partition, cache>>

---------------------------------------------------------------------------
(* One turn of BiReadFromDisk's loop: BiGetBCacheEntry and the copy.       *)

position == request.start + Len(buffer)

block == position \div BlockSize

HitAt == {k \in DOMAIN cached : blockOf[cached[k]] = block}

\* Mutant: a turn copies from the start of the block.
CopyFromStart(bytes) ==
  LET current == Min({BlockSize, request.count - Len(buffer)})
      new == buffer \o [i \in 1..current |-> bytes[i - 1]]
  IN /\ buffer' = new
     /\ pc' = IF Len(new) = request.count THEN "idle" ELSE "copy"

\* Mutant: BI_BCACHE_MASK in place of BI_BCACHE_SIZE.
CopyByMask(bytes) ==
  LET offset  == position % BlockSize
      current == Min({BlockSize - 1 - offset, request.count - Len(buffer)})
      new     == buffer \o [i \in 1..current |-> bytes[offset + i - 1]]
  IN /\ buffer' = new
     /\ pc' = IF Len(new) = request.count THEN "idle" ELSE "copy"

\* Copy from the entry to the buffer up to the end of the block.
Copy(bytes) ==
  LET offset  == position % BlockSize
      current == Min({BlockSize - offset, request.count - Len(buffer)})
      new     == buffer \o [i \in 1..current |-> bytes[offset + i - 1]]
  IN /\ buffer' = new
     /\ pc' = IF Len(new) = request.count THEN "idle" ELSE "copy"

Hit ==
  /\ pc = "copy"
  /\ \E k \in HitAt :
       /\ cached' = <<cached[k]>> \o RemoveAt(cached, k)
       /\ Copy(data[cached[k]])
  /\ UNCHANGED <<partition, blockOf, data, used, request>>

\* Mutant: Block is not updated when a slot is used again.
LoadUnlabelled(slot, others) ==
  LET bytes == FromDisk(block * BlockSize, data[slot]) IN
  /\ data' = [data EXCEPT ![slot] = bytes]
  /\ blockOf' = [blockOf EXCEPT ![slot] = IF @ = 0 THEN block ELSE @]
  /\ cached' = <<slot>> \o others
  /\ Copy(bytes)

\* Put the block into a slot that is not in the list.
Load(slot, others) ==
  LET bytes == FromDisk(block * BlockSize, data[slot]) IN
  /\ data' = [data EXCEPT ![slot] = bytes]
  /\ blockOf' = [blockOf EXCEPT ![slot] = block]
  /\ cached' = <<slot>> \o others
  /\ Copy(bytes)

Fill ==
  /\ pc = "copy"
  /\ HitAt = {}
  /\ used < NumSlots
  /\ used' = used + 1
  /\ Load(used + 1, cached)
  /\ UNCHANGED <<partition, request>>

Evict ==
  /\ pc = "copy"
  /\ HitAt = {}
  /\ used = NumSlots
  /\ Load(Last(cached), Front(cached))
  /\ UNCHANGED <<partition, used, request>>

---------------------------------------------------------------------------

\* The other branch of BiReadFromDisk, into the caller's buffer; the read is
\* inside the partition and so inside the disk.
Transfer ==
  /\ pc = "transfer"
  /\ buffer' = [i \in 1..request.count |-> request.start + i - 1]
  /\ pc' = "idle"
  /\ UNCHANGED <<partition, cache, request>>

\* The firmware cannot read: "failed to read from disk".
ReadFails ==
  /\ pc = "transfer" \/ (pc = "copy" /\ HitAt = {})
  /\ pc' = "crashed"
  /\ buffer' = <<>>
  /\ UNCHANGED <<partition, cache, request>>

\* BlCrash returns to the firmware: the bootloader never runs again.
Crashed ==
  /\ pc = "crashed"
  /\ UNCHANGED vars

Read == Hit \/ Fill \/ Evict \/ Transfer \/ ReadFails

Next ==
  \/ \E offset \in 0..DiskSize, count \in 1..MaxCount, bypass \in BOOLEAN :
       Call(offset, count, bypass)
  \/ Read
  \/ Crashed

Spec == Init /\ [][Next]_vars

\* The bootloader is alone: a read it has begun goes on.
FairSpec == Spec /\ WF_vars(Read)

---------------------------------------------------------------------------
(* Properties.                                                             *)

\* The variables have their types.
TypeOK ==
  /\ partition \in Partitions
  /\ used \in 0..NumSlots
  /\ cached \in Seq(1..used)
  /\ blockOf \in [1..NumSlots -> 0..(DiskSize \div BlockSize)]
  /\ data \in [1..NumSlots -> [0..(BlockSize - 1) -> Bytes]]
  /\ pc \in {"idle", "copy", "transfer", "crashed"}
  /\ request \in [start : Nat, count : 0..MaxCount, bypass : BOOLEAN]
  /\ buffer \in Seq(Bytes) /\ Len(buffer) <= request.count

\* Every slot in use is in the list once, under one block, and holds that
\* block of the disk, whatever it held before.
CacheIsDisk ==
  /\ TypeOK
  /\ Range(cached) = 1..used /\ IsInjective(cached)
  /\ \A s, t \in Range(cached) : blockOf[s] = blockOf[t] => s = t
  /\ \A s \in Range(cached), i \in 0..(BlockSize - 1) :
       LET at == blockOf[s] * BlockSize + i
       IN at < DiskSize => data[s][i] = at

\* A read of more than a block comes to an end, for better or worse.
EveryReadEnds == pc \in {"copy", "transfer"} ~> pc \in {"idle", "crashed"}

\* Whatever is cached, a read returns the bytes of the disk.
Reader == INSTANCE DiskReader WITH
  state  <- IF pc \in {"idle", "crashed"} THEN pc ELSE "busy",
  answer <- IF pc = "idle" THEN buffer ELSE <<>>

ImplementsDiskReader == Reader!Spec
=============================================================================
