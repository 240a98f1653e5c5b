----------------------------- MODULE KernelLoad -----------------------------
(***************************************************************************)
(* Loading the kernel and the device tree and mapping both                 *)
(* (bootloader/main.c BiLoadKernel and the end of BlMain, paging.c, and    *)
(* the mapping part of BlDtBuildBlob in dt.c), up to the state             *)
(* bootloader/PROTOCOL.md promises the kernel.                             *)
(*                                                                         *)
(* Memory from the heap is a sequence of pages, each a function from       *)
(* offsets to bytes; a byte says where it comes from.  Addresses are       *)
(* modulo WordSize, as uintptr_t and the header's fields are.              *)
(***************************************************************************)
EXTENDS Integers, Sequences, FiniteSets, SequencesExt

CONSTANTS
  PageSize,    \* BL_PAGE_SIZE
  SectorSize,  \* reads that bypass the cache are of whole sectors
  TableSize,   \* BI_LEVEL_SIZE of the lower level
  WordSize     \* number of virtual addresses

\* Assumptions of the module that instantiates this one (Boot).
KernelLoadAssumption ==
  /\ {PageSize, SectorSize, TableSize, WordSize} \subseteq Nat \ {0}
  /\ PageSize % SectorSize = 0
  /\ WordSize % (PageSize * TableSize) = 0

IsHeader(h) ==
  /\ {h.VirtualAddr, h.MSize, h.Entry, h.DtbAddress, h.MaxDtbEnd}
       \subseteq 0..(WordSize - 1)
  /\ h.fileSize \in Nat \ {0} /\ h.dtbSize \in 1..(WordSize - 1)
  /\ h.mapDtb \in BOOLEAN

\* Headers as the kernel's linker script makes them: neither area ends at the
\* end of the address space or behind it, and if the device tree is to be
\* mapped, the image starts with a page and the room for the tree ends with one.
IsLoadable(h) ==
  /\ h.VirtualAddr + h.MSize <= WordSize - PageSize
  /\ h.mapDtb =>
       /\ h.VirtualAddr % PageSize = 0
       /\ h.MaxDtbEnd % PageSize = PageSize - 1
       /\ ((h.DtbAddress + PageSize - 1) \div PageSize) * PageSize + h.dtbSize
            <= WordSize

VARIABLES
  header,      \* the kernel file's header, with the sizes of that file and of
               \* the device tree
  pc,
  current,     \* the page BiLoadKernel is at
  pages,       \* the permanent pages allocated so far
  rootTable,   \* BlPageTable: number of a table, or 0
  tables,      \* the lower tables: numbers of pages, or 0
  entrypoint,  \* transitionData.entrypoint, a physical address
  deviceTree,  \* transitionData.deviceTree, a physical address
  reason       \* what BlCrash said

vars == <<header, pc, current, pages, rootTable, tables, entrypoint,
          deviceTree, reason>>

mapped == <<pages, rootTable, tables>>

Zero == [kind |-> "zero", at |-> 0]
Garbage == [kind |-> "garbage", at |-> 0]
FileByte(i) == [kind |-> "file", at |-> i]
DtbByte(i) == [kind |-> "dtb", at |-> i]

AlignDown(x) == (x \div PageSize) * PageSize
AlignUp(x) == AlignDown(x + PageSize - 1) % WordSize

Word(x) == x % WordSize

RootIndex(virt) == virt \div (PageSize * TableSize)
Index(virt) == (virt \div PageSize) % TableSize

NoTable == [i \in 0..(TableSize - 1) |-> 0]

\* The page a virtual address is mapped to, or 0.
PageAt(root, lower, virt) ==
  IF root[RootIndex(virt)] = 0 THEN 0
  ELSE lower[root[RootIndex(virt)]][Index(virt)]

Init ==
  /\ pc = "check"
  /\ current = 0
  /\ pages = <<>>
  /\ rootTable = [i \in 0..(WordSize \div (PageSize * TableSize) - 1) |-> 0]
  /\ tables = <<>>
  /\ entrypoint = -1
  /\ deviceTree = -1
  /\ reason = "none"

Crash(why) ==
  /\ pc' = "crashed"
  /\ reason' = why
  /\ UNCHANGED <<header, current, mapped, entrypoint, deviceTree>>

---------------------------------------------------------------------------
(* The checks of BiLoadKernel.                                             *)

Overlap(a0, a1, b0, b1) == a0 <= b1 /\ b0 <= a1

dtbStart == AlignUp(header.DtbAddress)

OverlapsKernel ==
  Overlap(header.VirtualAddr, Word(header.VirtualAddr + header.MSize - 1),
          dtbStart, header.MaxDtbEnd)

Refusal ==
  IF \/ header.Entry < header.VirtualAddr
     \/ header.Entry - header.VirtualAddr >= header.MSize
    THEN "entry point"
  ELSE IF header.mapDtb /\ header.MaxDtbEnd <= dtbStart THEN "negative size"
  ELSE IF header.mapDtb /\ OverlapsKernel THEN "overlap"
  ELSE IF header.fileSize > header.MSize THEN "file too large"
  ELSE "none"

CheckHeader ==
  /\ pc = "check"
  /\ IF Refusal # "none" THEN Crash(Refusal)
     ELSE /\ pc' = "head"
          /\ current' = AlignDown(header.VirtualAddr)
          /\ UNCHANGED <<header, mapped, entrypoint, deviceTree, reason>>

---------------------------------------------------------------------------
(* BlMapPage and the loops of BiLoadKernel.                                *)

\* BiGetTable makes a table when there is none; whatever was mapped at virt
\* is replaced without notice.
Map(virt, new) ==
  IF rootTable[RootIndex(virt)] = 0
    THEN /\ rootTable' = [rootTable EXCEPT ![RootIndex(virt)] = Len(tables) + 1]
         /\ tables' = Append(tables, [NoTable EXCEPT ![Index(virt)] = new])
    ELSE /\ tables' = [tables EXCEPT
                         ![rootTable[RootIndex(virt)]][Index(virt)] = new]
         /\ UNCHANGED rootTable

fileEnd == Word(header.VirtualAddr + header.fileSize)

end == AlignUp(Word(header.VirtualAddr + header.MSize))

Offsets == 0..(PageSize - 1)

\* A page of the image, with these bytes, at the current address.
MapImagePage(bytes, next) ==
  /\ pages' = Append(pages, bytes)
  /\ Map(current, Len(pages) + 1)
  /\ current' = Word(current + PageSize)
  /\ pc' = next
  /\ UNCHANGED <<header, entrypoint, deviceTree, reason>>

Skip(next) ==
  /\ pc' = next
  /\ UNCHANGED <<header, current, mapped, entrypoint, deviceTree, reason>>

\* The part of a page before an image that does not start with one.
HeadPage ==
  /\ pc = "head"
  /\ current < header.VirtualAddr
  /\ LET headCount == header.VirtualAddr - current
     IN MapImagePage([o \in Offsets |->
          IF o < headCount \/ o - headCount >= header.fileSize THEN Zero
          ELSE FileByte(o - headCount)], "file")

NoHeadPage ==
  /\ pc = "head"
  /\ current >= header.VirtualAddr
  /\ Skip("file")

\* Whole pages are read past the cache.
FilePage ==
  /\ pc = "file"
  /\ current < AlignDown(fileEnd)
  /\ LET from == Word(current - header.VirtualAddr)
     IN IF from % SectorSize # 0 THEN Crash("unaligned position")
        ELSE MapImagePage([o \in Offsets |-> FileByte(from + o)], "file")

\* Mutant: the last page of the file is mapped without its end cleared.
TailPageUncleared ==
  /\ pc = "file"
  /\ current >= AlignDown(fileEnd)
  /\ IF current < fileEnd
       THEN MapImagePage([o \in Offsets |->
              IF o < fileEnd - current
                THEN FileByte(Word(current - header.VirtualAddr) + o)
                ELSE Garbage], "bss")
       ELSE Skip("bss")

TailPage ==
  /\ pc = "file"
  /\ current >= AlignDown(fileEnd)
  /\ IF current < fileEnd
       THEN MapImagePage([o \in Offsets |->
              IF o < fileEnd - current
                THEN FileByte(Word(current - header.VirtualAddr) + o)
                ELSE Zero], "bss")
       ELSE Skip("bss")

ZeroPage ==
  /\ pc = "bss"
  /\ current < end
  /\ MapImagePage([o \in Offsets |-> Zero], "bss")

EndOfImage ==
  /\ pc = "bss"
  /\ current >= end
  /\ Skip("transition")

---------------------------------------------------------------------------
(* transitionData in BlMain: its two members are initialised in any order. *)

GetEntrypoint ==
  /\ pc = "transition"
  /\ entrypoint = -1
  /\ LET page == PageAt(rootTable, tables, header.Entry)
     IN IF page = 0 THEN Crash("not found")
        ELSE /\ entrypoint' = page * PageSize + (header.Entry % PageSize)
             /\ UNCHANGED <<header, pc, current, mapped, deviceTree, reason>>

\* The pages of the blob, in one piece; it does not fill the last one.
Blob ==
  LET count == (header.dtbSize + PageSize - 1) \div PageSize
  IN [p \in 1..count |->
        [o \in 0..(PageSize - 1) |->
           LET i == (p - 1) * PageSize + o
           IN IF i < header.dtbSize THEN DtbByte(i) ELSE Garbage]]

\* The blob is mapped page by page; the pages follow each other upwards,
\* modulo the address space.
MapBlob ==
  LET virt(p) == Word(dtbStart + (p - 1) * PageSize)
      roots   == {RootIndex(virt(p)) : p \in DOMAIN Blob}
      new     == SetToSeq({r \in roots : rootTable[r] = 0})
      root    == [r \in DOMAIN rootTable |->
                    IF \E k \in DOMAIN new : new[k] = r
                      THEN Len(tables) + (CHOOSE k \in DOMAIN new : new[k] = r)
                      ELSE rootTable[r]]
      lower   == tables \o [k \in DOMAIN new |-> NoTable]
  IN /\ rootTable' = root
     /\ tables' = [t \in DOMAIN lower |->
          [i \in 0..(TableSize - 1) |->
             LET here == {p \in DOMAIN Blob :
                            root[RootIndex(virt(p))] = t /\ Index(virt(p)) = i}
             IN IF here = {} THEN lower[t][i]
                ELSE Len(pages) + (CHOOSE p \in here : \A q \in here : q <= p)]]

\* Mutant: the blob's size is not compared with the room it has.
BuildBlobUnchecked ==
  /\ pc = "transition"
  /\ deviceTree = -1
  /\ pages' = pages \o Blob
  /\ deviceTree' = (Len(pages) + 1) * PageSize
  /\ IF header.mapDtb THEN MapBlob ELSE UNCHANGED <<rootTable, tables>>
  /\ UNCHANGED <<header, pc, current, entrypoint, reason>>

BuildBlob ==
  /\ pc = "transition"
  /\ deviceTree = -1
  /\ IF header.mapDtb /\ Word(dtbStart + header.dtbSize - 1) > header.MaxDtbEnd
       THEN Crash("device tree too large")
       ELSE /\ pages' = pages \o Blob
            /\ deviceTree' = (Len(pages) + 1) * PageSize
            /\ IF header.mapDtb THEN MapBlob
               ELSE UNCHANGED <<rootTable, tables>>
            /\ UNCHANGED <<header, pc, current, entrypoint, reason>>

StartKernel ==
  /\ pc = "transition"
  /\ entrypoint # -1
  /\ deviceTree # -1
  /\ Skip("started")

\* Every page and table comes from the heap.
OutOfMemory ==
  /\ pc \in {"head", "file", "bss", "transition"}
  /\ pc # "transition" \/ deviceTree = -1
  /\ Crash("out of memory")

Next ==
  \/ CheckHeader
  \/ HeadPage
  \/ NoHeadPage
  \/ FilePage
  \/ TailPage
  \/ ZeroPage
  \/ EndOfImage
  \/ GetEntrypoint
  \/ BuildBlob
  \/ StartKernel
  \/ OutOfMemory

---------------------------------------------------------------------------
(* Properties.                                                             *)

ByteAt(virt) == pages[PageAt(rootTable, tables, virt)][virt % PageSize]

\* PROTOCOL.md's areas, as mathematics: no address wraps.
ImageArea ==
  AlignDown(header.VirtualAddr)
    ..(AlignDown(header.VirtualAddr + header.MSize + PageSize - 1) - 1)

DtbArea ==
  LET start == AlignDown(header.DtbAddress + PageSize - 1)
  IN start..(AlignDown(start + header.dtbSize + PageSize - 1) - 1)

\* PROTOCOL.md, "Kernel Image": the area is mapped, the file is at
\* VirtualAddr, and everything else in the area is zero.
ImageAsPromised ==
  pc = "started" =>
    \A virt \in ImageArea \cap 0..(WordSize - 1) :
      /\ PageAt(rootTable, tables, virt) # 0
      /\ ByteAt(virt) =
           LET i == virt - header.VirtualAddr
           IN IF i \in 0..(header.fileSize - 1) THEN FileByte(i) ELSE Zero

\* PROTOCOL.md, "Device Tree": the area is mapped to the blob that A1 points
\* to, in one piece.
DeviceTreeAsPromised ==
  pc = "started" =>
    /\ \A i \in 0..(header.dtbSize - 1) :
         LET phys == deviceTree + i
         IN pages[phys \div PageSize][phys % PageSize] = DtbByte(i)
    /\ header.mapDtb =>
         \A virt \in DtbArea \cap 0..(WordSize - 1) :
           PageAt(rootTable, tables, virt) =
             (deviceTree \div PageSize)
               + (virt - AlignUp(header.DtbAddress)) \div PageSize

\* PROTOCOL.md, "Page Tables": nothing else is mapped, in no table.
NothingElseMapped ==
  pc = "started" =>
    \A virt \in 0..(WordSize - 1) :
      PageAt(rootTable, tables, virt) # 0 =>
        virt \in ImageArea \/ (header.mapDtb /\ virt \in DtbArea)

\* PROTOCOL.md, "Machine State": the kernel is entered at the physical
\* address of the byte at Entry, in whatever order the compiler evaluates.
EntryAsPromised ==
  pc = "started" =>
    /\ entrypoint \div PageSize = PageAt(rootTable, tables, header.Entry)
    /\ entrypoint % PageSize = header.Entry % PageSize
    /\ header.Entry \in
         header.VirtualAddr..(header.VirtualAddr + header.MSize - 1)

\* PROTOCOL.md, "Device Tree": the kernel is refused if the area contains
\* addresses beyond MaxDtbEnd.
DtbInsideItsArea ==
  pc = "started" /\ header.mapDtb =>
    \A virt \in DtbArea : virt <= header.MaxDtbEnd
=============================================================================
