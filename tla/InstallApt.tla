------------------------------ MODULE InstallApt ------------------------------
(***************************************************************************)
(* install-apt: making a disk bootable by the firmware                     *)
(* (install-apt/install-apt.c).  The image goes into the free area before  *)
(* the first partition, then its header and logo, and at last the APT      *)
(* label into the boot sector.  A sector is a record that says what it     *)
(* holds.  The disk is a device: nothing is written behind its end.        *)
(*                                                                         *)
(* The program writes to the page cache and never syncs: the kernel writes *)
(* sectors back in any order, and a power failure keeps those only.        *)
(***************************************************************************)
EXTENDS Integers, Sequences, FiniteSets, FiniteSetsExt

CONSTANTS
  Disks,         \* initial contents of the disk
  ImageSizes,    \* sizes of the image, in sectors
  NameLengths,   \* lengths of NAME
  StartSector,   \* APT_START_SECTOR
  BufferSize,    \* BUFFER_SIZE, in sectors
  AvailEnd,      \* DEFAULT_AVAIL_SIZE, in sectors
  CountLimit,    \* 2^32: sizes in sectors are uint32_t
  MayLosePower

BootSectors == 3  \* APT_BOOT_SECTORS: boot block, header, logo

\* The boot sector: the partitions of its MBR and the size of its APT label
\* (0 for none).
MbrSector(valid, partitions, label) ==
  [valid |-> valid, partitions |-> partitions, label |-> label]

Partition(type, start, size) == [type |-> type, start |-> start, size |-> size]

ASSUME InstallAptAssumption ==
  /\ StartSector \in Nat \ {0} /\ BufferSize \in Nat \ {0} /\ AvailEnd \in Nat
  /\ CountLimit \in Nat \ {0}
  /\ ImageSizes \subseteq Nat /\ NameLengths \subseteq Nat
  /\ \A d \in Disks :
       /\ d[0] = MbrSector(d[0].valid, d[0].partitions, d[0].label)
       /\ \A p \in d[0].partitions : p.start \in Nat /\ p.size \in Nat
       /\ IsFiniteSet(DOMAIN d) /\ DOMAIN d = 0..(Cardinality(DOMAIN d) - 1)
       /\ AvailEnd <= Cardinality(DOMAIN d)

VARIABLES
  initial,     \* the disk before
  imageSize,   \* st.st_size
  nameLength,
  pc,          \* the next step, "done", "failed" or "power lost"
  copied,      \* sectors of the image copied
  mbr,         \* the boot sector in the program's memory
  seen,        \* the disk as the page cache shows it
  stored       \* the disk as the device has it

vars == <<initial, imageSize, nameLength, pc, copied, mbr, seen, stored>>

Init ==
  /\ initial \in Disks
  /\ imageSize \in ImageSizes
  /\ nameLength \in NameLengths
  /\ pc = "start"
  /\ copied = 0
  /\ mbr = initial[0]
  /\ seen = initial
  /\ stored = initial

Used == {p \in mbr.partitions : p.type # 0 /\ p.size # 0}

\* Mutant: the area ends where the first entry of the table starts.
aptPartitionEndFirst ==
  IF Used = {} THEN AvailEnd ELSE Max({p.start : p \in Used})

aptPartitionEnd == Min({AvailEnd} \union {p.start : p \in Used})

available == aptPartitionEnd - StartSector

Goto(step) ==
  /\ pc' = step
  /\ UNCHANGED <<initial, imageSize, nameLength, mbr, stored>>

\* The size of the image loses its upper bits, the copy takes all of it.
imageSectors == imageSize % CountLimit

neededSectors == (BootSectors + imageSectors) % CountLimit

\* Everything main checks before it writes.
Check ==
  /\ pc = "start"
  /\ Goto(IF \/ nameLength > 15
             \/ ~mbr.valid
             \/ aptPartitionEnd <= StartSector
             \/ neededSectors > available
            THEN "failed" ELSE "copy")
  /\ UNCHANGED <<copied, seen>>

ImageSector(i) == [image |-> i]
OsRecord == [osRecord |-> imageSectors]
OsLogo == [osLogo |-> TRUE]

Write(from, sectors) ==
  seen' = [s \in DOMAIN seen |->
             IF s \in from..(from + Len(sectors) - 1)
               THEN sectors[s - from + 1] ELSE seen[s]]

\* One turn of CopyData: pread may return less than was asked for. A buffer
\* that crosses the end of the disk is written up to it: this action with a
\* smaller count, and Die.
Copy(count) ==
  /\ pc = "copy"
  /\ count \in 1..Min({BufferSize, imageSize - copied})
  /\ StartSector + BootSectors + copied + count - 1 \in DOMAIN seen
  /\ Write(StartSector + BootSectors + copied,
           [i \in 1..count |-> ImageSector(copied + i - 1)])
  /\ copied' = copied + count
  /\ Goto("copy")

\* Mutant: a read that returns less than was asked for is taken for the end.
EndOfCopyShort ==
  /\ pc = "copy"
  /\ copied = imageSize \/ copied % BufferSize # 0
  /\ Goto("header")
  /\ UNCHANGED <<copied, seen>>

EndOfCopy ==
  /\ pc = "copy"
  /\ copied = imageSize
  /\ Goto("header")
  /\ UNCHANGED <<copied, seen>>

WriteHeader ==
  /\ pc = "header"
  /\ Write(StartSector + 1, <<OsRecord>>)
  /\ Goto("logo")
  /\ UNCHANGED copied

WriteLogo ==
  /\ pc = "logo"
  /\ Write(StartSector + 2, <<OsLogo>>)
  /\ Goto("label")
  /\ UNCHANGED copied

WriteLabel ==
  /\ pc = "label"
  /\ Write(0, <<[mbr EXCEPT !.label = available]>>)
  /\ Goto("done")
  /\ UNCHANGED copied

\* A read or a write fails, or the program is killed. CopyData goes on after a
\* read that failed, to a write of (size_t)-1 bytes; pwrite refuses that, so the
\* program ends there and has written nothing in between.
Die ==
  /\ pc \notin {"done", "failed", "power lost"}
  /\ Goto("failed")
  /\ UNCHANGED <<copied, seen>>

WriteBack(s) ==
  /\ MayLosePower
  /\ pc # "power lost"
  /\ stored[s] # seen[s]
  /\ stored' = [stored EXCEPT ![s] = seen[s]]
  /\ UNCHANGED <<initial, imageSize, nameLength, pc, copied, mbr, seen>>

LosePower ==
  /\ MayLosePower
  /\ pc # "power lost"
  /\ pc' = "power lost"
  /\ seen' = stored
  /\ UNCHANGED <<initial, imageSize, nameLength, copied, mbr, stored>>

Next ==
  \/ Check
  \/ \E count \in 1..BufferSize : Copy(count)
  \/ EndOfCopy
  \/ WriteHeader
  \/ WriteLogo
  \/ WriteLabel
  \/ Die
  \/ \E s \in DOMAIN seen : WriteBack(s)
  \/ LosePower

Spec == Init /\ [][Next]_vars

---------------------------------------------------------------------------
(* Properties.                                                             *)

Ended == pc \in {"done", "failed", "power lost"}

\* The image is one whose size in sectors fits the program's variables.
FitsInCount == BootSectors + imageSize < CountLimit

\* What WriteLabel announces: header, logo and all of the image.
Complete ==
  /\ seen[StartSector + 1] = [osRecord |-> imageSize]
  /\ seen[StartSector + 2] = OsLogo
  /\ \A i \in 0..(imageSize - 1) :
       seen[StartSector + BootSectors + i] = ImageSector(i)

\* Whenever it stops, the partitions of the disk are untouched, in the table
\* and on the disk, and so are the sectors in front of the free area: for every
\* image of less than 2^32 sectors with the boot sectors. A larger one can pass
\* the check and is written over the partitions.
PartitionsUntouched ==
  FitsInCount =>
    \A d \in {seen, stored} :
      /\ d[0].partitions = initial[0].partitions
      /\ d[0].valid = initial[0].valid
      /\ \A p \in initial[0].partitions : p.type # 0 =>
           \A s \in DOMAIN d \cap (p.start..(p.start + p.size - 1)) :
             d[s] = initial[s]
      /\ \A s \in DOMAIN d \cap (1..StartSector) : d[s] = initial[s]

\* As long as the machine keeps its power, a disk that had no label has one
\* only if all of the image is there, however the program ends, and success
\* is reported only for a complete disk with a label; for the same images.
LabelMeansComplete ==
  FitsInCount =>
    /\ pc # "power lost" /\ initial[0].label = 0 /\ seen[0].label # 0 => Complete
    /\ pc = "done" => Complete /\ seen[0].label # 0

\* install-apt.c, the comment above the last write: "the effects of the
\* previous steps are invisible unless everything is successful".  What the
\* firmware finds is a label with all of the image behind it, no label, or
\* the disk as it was.
InvisibleUnlessSuccessful ==
  Ended => \/ seen[0].label = 0
           \/ Complete
           \/ seen = initial

==============================================================================
