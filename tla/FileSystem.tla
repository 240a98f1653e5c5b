----------------------------- MODULE FileSystem -----------------------------
(***************************************************************************)
(* The root file system as the bootloader uses it (bootloader/filesystem.c) *)
(* from BlFsInitialize on: a partition is mounted, a path is looked up on   *)
(* it (InodeLookup), the file that was found is read (InodeRead) and given  *)
(* back.  Inodes are found by number through block groups and their inode   *)
(* tables, directory entries by the sizes of those before them.             *)
(*                                                                          *)
(* A partition holds a superblock, block group descriptors and inodes at    *)
(* addresses; its contents are what was written there, number by number.    *)
(* The target of a link is read from its blocks, a token per byte.  Where   *)
(* it was written into the inode instead, in the place of the pointers,     *)
(* they name any blocks.                                                    *)
(* Sizes are below 2^32: BI_SIZE_64 changes nothing.                        *)
(***************************************************************************)
EXTENDS Integers, Sequences, FiniteSets, SequencesExt

CONSTANTS
  Partitions,       \* the partitions there may be
  Signature,        \* BI_SIGNATURE
  Supported,        \* the required features that are: BI_RO_FEATURES
  DirTypes,         \* BI_DIR_TYPES
  SuperblockOffset, \* BI_SUPERBLOCK_OFFSET
  DescriptorSize,   \* of a block group descriptor
  OldInodeSize,     \* of version 0
  EntryHeader,      \* sizeof(struct BiEntry)
  TextAt,           \* the bytes of the partition, read as a link's target
  ZeroByte,         \* a token: the byte 0
  ReadPaths,        \* bound: the paths whose file is read, not just found
  Tokens, Paths, Slash, RootNumber, MaxSymlinks,
  BlockSize, SectorSize, PointerCount, Levels, WordSize, PartitionSize,
  PointersOf, MaxCount

VARIABLES
  partition, \* the root partition
  statics,   \* what BlFsInitialize keeps: where descriptors are, an inode's size
  path, pc, stack, result, objects, nested,  \* InodeLookup
  call, readPc, buffer                       \* InodeRead

lookupVars == <<path, pc, stack, result, objects, nested>>
readVars == <<call, readPc, buffer>>
vars == <<partition, statics, lookupVars, readVars>>

Unmounted == [descriptors |-> 0, inodeSize |-> 0]

---------------------------------------------------------------------------
(* Finding an inode, and the entries of a directory.                       *)

\* Mutant: within their groups inodes are counted from 0.
InodeIndexFromZero(number) ==
  LET group == (number - 1) \div partition.superblock.groupInodes
      index == number % partition.superblock.groupInodes
      table == partition.descriptors[statics.descriptors + group * DescriptorSize]
  IN partition.inodes[table * BlockSize + index * statics.inodeSize]

\* BiReadInode and BiReadBlockGroupDescriptor.
ReadInode(number) ==
  LET group == (number - 1) \div partition.superblock.groupInodes
      index == (number - 1) % partition.superblock.groupInodes
      table == partition.descriptors[statics.descriptors + group * DescriptorSize]
  IN partition.inodes[table * BlockSize + index * statics.inodeSize]

\* The features BlFsInitialize keeps of a superblock.
RequiredFeatures(superblock) ==
  IF superblock.version < 1 THEN {} ELSE superblock.required

\* An entry with a type is passed over, as an unused one is, unless entries have
\* types here.
Considered(entry) ==
  IF DirTypes \in RequiredFeatures(partition.superblock) \/ entry.type = 0
    THEN entry ELSE [entry EXCEPT !.inode = 0]

\* The loop of BiFindEntryInDirectory: the entries it looks at, turn by turn.
Entries(inode) ==
  LET behind[at \in Nat]   == at + inode.data[at].size
      offset[turn \in Nat] == IF turn = 0 THEN 0 ELSE behind[offset[turn - 1]]
      Ends(turn) == inode.size - offset[turn] < EntryHeader
      turns == CHOOSE n \in 0..inode.size :
                 Ends(n) /\ \A turn \in 0..(n - 1) : ~Ends(turn)
  IN [turn \in 1..turns |-> Considered(inode.data[offset[turn - 1]])]

\* BiReadFromInode for a link, which is short: its blocks are direct ones.
BlockOf(inode, at) == inode.direct[(at \div BlockSize) + 1]

TextByte(inode, at) ==
  IF BlockOf(inode, at) = 0 THEN ZeroByte
  ELSE TextAt[BlockOf(inode, at) * BlockSize + (at % BlockSize)]

Readable(inode) ==
  \A at \in 0..(inode.size - 1) :
    BlockOf(inode, at) * BlockSize + (at % BlockSize) < PartitionSize

LinkText(inode) == [i \in 1..inode.size |-> TextByte(inode, i - 1)]

\* The volume that lookups see.
VolumeRead ==
  [number \in DOMAIN partition.contents |->
     LET inode    == ReadInode(number)
         readable == inode.type = "sym" /\ Readable(inode)
     IN [type     |-> inode.type,
         entries  |-> IF inode.type = "dir"
                        THEN Entries(inode) ELSE <<>>,
         readable |-> readable,
         target   |-> IF readable THEN LinkText(inode) ELSE <<>>]]

Lookup == INSTANCE InodeLookup WITH volume <- VolumeRead

\* The file that was found, as its inode describes it.
OpenFile == ReadInode(Lookup!Number(result))

Reader == INSTANCE InodeRead WITH inode <- OpenFile, pc <- readPc

\* What was written to the partition, to compare with.
Written == INSTANCE InodeLookup WITH volume <- partition.contents

WrittenFile == INSTANCE InodeRead WITH
  inode <- partition.contents[objects[result].number], pc <- readPc

PowerOfTwo(n) == \E k \in 0..n : n = 2 ^ k

IsUsable(superblock) ==
  /\ superblock.signature = Signature
  /\ RequiredFeatures(superblock) \subseteq Supported
  /\ \/ superblock.version < 1
     \/ superblock.inodeSize = 0 \/ PowerOfTwo(superblock.inodeSize)

\* 1 << BiInodeShift: BlCountTrailingZeroes(0) is 31.
InodeStride(superblock) ==
  IF superblock.version < 1 THEN OldInodeSize
  ELSE IF superblock.inodeSize = 0 THEN WordSize \div 2
  ELSE superblock.inodeSize

\* A partition as it is kept elsewhere: the inodes by number in the tables of
\* their groups, the entries of a directory one behind the other.
EntriesInOrder(inode) ==
  LET offset[k \in 0..Len(inode.entries)] ==
        IF k = 0 THEN 0 ELSE offset[k - 1] + inode.entries[k].size
  IN /\ inode.entries \in Seq([name : Tokens, inode : Nat, size : Nat, type : Nat])
     /\ inode.size = offset[Len(inode.entries)]
     /\ \A k \in 1..Len(inode.entries) :
          /\ inode.entries[k].size >= EntryHeader
          /\ inode.data[offset[k - 1]] = inode.entries[k]

IsFormatted(p) ==
  LET perGroup == p.superblock.groupInodes
      first    == ((SuperblockOffset \div BlockSize) + 1) * BlockSize
      size     == InodeStride(p.superblock)
  IN /\ perGroup \in Nat \ {0}
     /\ \A number \in DOMAIN p.contents :
          \A group \in 0..number, index \in 0..(perGroup - 1) :
            number = group * perGroup + index + 1 =>
              p.inodes[p.descriptors[first + group * DescriptorSize] * BlockSize
                         + index * size] = p.contents[number]
     /\ \A number \in DOMAIN p.contents :
          LET inode == p.contents[number]
          IN /\ inode.type = "dir" =>
                  /\ EntriesInOrder(inode)
                  /\ \A k \in DOMAIN inode.entries :
                       \/ DirTypes \in RequiredFeatures(p.superblock)
                       \/ inode.entries[k].type = 0
             /\ inode.type # "dir" => inode.entries = <<>>
             /\ inode.type = "sym" =>
                  /\ inode.direct \in Seq(Nat) /\ inode.size \in Nat
                  /\ inode.size <= Len(inode.direct) * BlockSize
             /\ inode.type = "reg" => Reader!IsFile(inode)

\* Every link's target is where it is read: in blocks of the partition.
LinksInBlocks(p) ==
  \A number \in DOMAIN p.contents :
    LET inode == p.contents[number]
    IN inode.type = "sym" => Readable(inode) /\ LinkText(inode) = inode.target

ASSUME FileSystemAssumption ==
  /\ Reader!InodeReadAssumption
  /\ Lookup!InodeLookupAssumption
  /\ EntryHeader \in Nat \ {0}
  /\ TextAt \in [0..(PartitionSize - 1) -> Tokens] /\ ZeroByte \in Tokens
  /\ \A p \in Partitions :
       /\ Written!IsVolume(p.contents)
       /\ IsUsable(p.superblock) => IsFormatted(p)

---------------------------------------------------------------------------
Init ==
  /\ partition \in Partitions
  /\ statics = Unmounted
  /\ Lookup!Init
  /\ Reader!Init

\* BlFsInitialize.
Initialize ==
  /\ statics = Unmounted
  /\ IsUsable(partition.superblock)
  /\ statics' = [descriptors |-> ((SuperblockOffset \div BlockSize) + 1) * BlockSize,
                 inodeSize   |-> InodeStride(partition.superblock)]
  /\ UNCHANGED <<partition, lookupVars, readVars>>

\* BlFsFind.
Find ==
  /\ statics # Unmounted
  /\ UNCHANGED <<partition, statics, readVars>>
  /\ \/ Lookup!Find \/ Lookup!EndOfPath \/ Lookup!Descend \/ Lookup!FollowLink
     \/ Lookup!LinkUnreadable \/ Lookup!NotFound \/ Lookup!LinkFollowed
     \/ Lookup!FreedTwice \/ Lookup!Found

\* BlFsFileRead, once for an open file.
Read ==
  /\ pc = "open" /\ path \in ReadPaths
  /\ UNCHANGED <<partition, statics, lookupVars>>
  /\ Reader!Next

\* BlFsFree.
Free ==
  /\ path \in ReadPaths => readPc = "done"
  /\ UNCHANGED <<partition, statics, readVars>>
  /\ Lookup!Close

Next == Initialize \/ Find \/ Read \/ Free

\* The bootloader is alone and goes on.
Spec == Init /\ [][Next]_vars /\ WF_vars(Next)

---------------------------------------------------------------------------
(* Properties.                                                             *)

\* On a partition that keeps its links' targets in blocks, a BlFsFind that
\* returns has found the regular file that the path means among the files written
\* there, through whatever links, block groups and deleted entries, and nothing
\* else.
LookupIsResolution == LinksInBlocks(partition) => Written!LookupIsResolution

\* Every inode allocated on the way is given back, and by its one owner, on any
\* partition, until a relative link is followed from a directory other than the
\* root: the call for it and its caller both own that directory.
InodesBalanced == Lookup!NoInodeLeaked /\ Lookup!FreedOnce

\* A read that returns has the bytes of the file that was written, in the order
\* of its blocks and with zeros in its holes, as far as the file goes: complete,
\* or the bootloader crashes, which it does for good reasons only.
ReadsTheFile ==
  readPc # "idle" /\ pc = "open" =>
    WrittenFile!ReadsTheFile /\ WrittenFile!ReadIsComplete

\* Every lookup ends and its file is closed, on a partition whose links lead in
\* a circle too, unless the partition is refused, the bootloader crashes on what
\* pointers name, or the heap is broken by a second free.
EveryLookupEnds ==
  <>(\/ pc \in {"closed", "crashed", "undefined"}
     \/ readPc = "crashed" \/ ~IsUsable(partition.superblock))
==============================================================================
