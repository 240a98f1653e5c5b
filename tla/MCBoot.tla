------------------------------- MODULE MCBoot -------------------------------
(* The four things the bootloader finds vary one at a time, each with the  *)
(* others fixed: every table of five banks and end of the image; every     *)
(* disk of four partitions; every configuration file of up to six          *)
(* characters; kernels.  The options are named K, KK, KKK and KKKK.        *)
(*                                                                         *)
(* The kernel has 32 addresses, pages of 4, sectors of 2, tables of 2      *)
(* entries.  It starts at a page, at a sector or at neither, the file ends *)
(* anywhere in it, and the device tree lies before or behind the kernel or *)
(* too near to it.                                                         *)
EXTENDS Boot

K(n) == [k \in 1..n |-> "K"]

MCRequired == {K(1)}
MCOptions == {K(n) : n \in 1..4}
MCStdoutPath == K(2)
MCInitrdPath == K(3)
MCCommandLine == K(4)
MCBootVolume == K(3)

ShortFiles == UNION {[1..n -> Characters] : n \in 0..6}

Set(n, value) == K(n) \o <<Colon>> \o value \o <<Newline>>

\* Everything set, the initrd from a file, its value behind a blank.
Full == Set(1, <<>>) \o Set(2, <<"K">>) \o Set(3, K(2)) \o Set(4, K(3))

\* The initrd is an empty file.
Empty == Set(1, <<>>) \o Set(3, K(4))

FromPartition == Set(1, <<>>) \o Set(3, MCBootVolume)

MCFiles == ShortFiles \union {Full, Empty, FromPartition}

Partition(content, type, size) ==
  [indicator |-> 0, type |-> type, size |-> size, content |-> content]

RootPartition == Partition("root", 131, 2)

Unused == Partition("root", 0, 1)

MCPartitions ==
  {Unused, RootPartition, [RootPartition EXCEPT !.indicator = 128],
   Partition("root", 131, 0), [Unused EXCEPT !.indicator = 1]}
  \union {Partition(c, 131, 1) : c \in {"short", "foreign", "bare"}}

Disk(valid, partitions) ==
  [valid |-> valid, partitions |-> partitions, kernel |-> TRUE,
   files |-> (K(2) :> [size |-> 1, sectors |-> TRUE])
             @@ (K(1) :> [size |-> 1, sectors |-> FALSE])
             @@ (K(4) :> [size |-> 0, sectors |-> TRUE])]

SomeDisk == Disk(TRUE, <<Unused, RootPartition, Unused, Unused>>)

SomeMap == (0 :> 4) @@ (1 :> 3) @@ (2 :> 0) @@ (3 :> 0) @@ (4 :> 0)

Header(starts, sizes, dtbs, ends, dtbSizes) ==
  [VirtualAddr : starts, MSize : sizes, Entry : starts \union {10, 15},
   mapDtb : BOOLEAN, DtbAddress : dtbs, MaxDtbEnd : ends,
   fileSize : sizes, dtbSize : dtbSizes]

\* Headers as the kernel's linker script makes them, with one room for the
\* device tree if it is not to be mapped.
MCHeaders ==
  {h \in Header({8, 10, 11}, {1, 3, 6, 8, 9}, {1, 4, 14, 17, 20},
                {4, 7, 11, 23, 27, 31}, {1, 4, 7}) :
     /\ Loader!IsLoadable(h)
     /\ ~h.mapDtb => h.DtbAddress = 17 /\ h.MaxDtbEnd = 27}

\* A device tree in front of an image that does not start with a page.
UnalignedHeaders == Header({10}, {4}, {4}, {7, 9}, {4, 6})

SomeKernel ==
  [VirtualAddr |-> 8, MSize |-> 6, Entry |-> 9, mapDtb |-> TRUE,
   DtbAddress |-> 17, MaxDtbEnd |-> 27, fileSize |-> 3, dtbSize |-> 7]

\* One whose entry point is not in its image.
Refused == [SomeKernel EXCEPT !.Entry = 4]

Machine(maps, images, disks, files, arguments, headers) ==
  [pages |-> maps, imageEnds |-> images, disks |-> disks, files |-> files,
   args |-> arguments, headers |-> headers]

Loading(headers) ==
  Machine({SomeMap}, {1}, {SomeDisk}, {Set(1, <<>>)}, {NoString}, headers)

\* Everything that goes well, together.
WholeBoot == Machine({SomeMap}, {1, 4}, {SomeDisk}, {Full, Empty}, {<<>>}, {SomeKernel})

MCMachines ==
  {Machine([0..(Banks - 1) -> BankSizes], ImageEnds, {SomeDisk}, {Full}, {<<>>},
           {Refused}),
   Machine({SomeMap}, {1},
           {Disk(valid, ps) : valid \in BOOLEAN, ps \in [1..4 -> MCPartitions]}
             \union {[SomeDisk EXCEPT !.kernel = FALSE]},
           {FromPartition}, {NoString}, {Refused}),
   Machine({SomeMap}, {1}, {SomeDisk}, ShortFiles, {NoString, <<>>}, {Refused}),
   Loading(MCHeaders), WholeBoot}

MCUnalignedMachines == {Loading(UnalignedHeaders)}
=============================================================================
