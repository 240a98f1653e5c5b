-------------------------------- MODULE Boot --------------------------------
(***************************************************************************)
(* The bootloader from its entry to the start of the kernel: BxMain        *)
(* (bootloader/a4x/main.c) looks at the RAM banks (MemoryMap), BlMain      *)
(* (bootloader/main.c) searches the boot disk for the root partition       *)
(* (bootloader/partition.c), reads the configuration file there (Config)   *)
(* hands what it says to the kernel in the node "chosen" (BiProcessConfig) *)
(* and loads the kernel (KernelLoad).  Handoff is what follows.            *)
(*                                                                         *)
(* Memory is in pages.  What the disk holds is not read byte by byte: a    *)
(* partition is a record that says what BlFsInitialize and BlFsFind make   *)
(* of it.                                                                  *)
(***************************************************************************)
EXTENDS Integers, Sequences, FiniteSets, SequencesExt

CONSTANTS
  Banks, Interval, BankSizes, ImageEnds,                            \* MemoryMap
  Characters, Whitespace, Newline, Colon, Hash, Options, Required,  \* Config
  SizeMax, Files,
  PageSize, SectorSize, TableSize, WordSize,                        \* KernelLoad
  StdoutPath, InitrdPath, CommandLine,  \* the optional ones of Options
  BootVolume,  \* "$BootVolume"
  NoString,    \* a null pointer
  Machines     \* what the bootloader may find: families of RAM banks, ends of
               \* the image, disks, configuration files, arguments and kernels

VARIABLES
  phase,        \* where in BxMain and BlMain the bootloader is
  pages, imageEnd, memoryPc, bank, heap, start, end, nodes,  \* MemoryMap
  disk,         \* the boot disk: its MBR and the files of its root partition
  record,       \* the entry of the MBR the search is at
  root,         \* BlRootPartition, as the index of its entry
  mounted,      \* the partition BiSuperblock and BiRoot come from, or 0
  file, buffer, line, values, configPc,                      \* Config
  commandLine,  \* BlCommandLine
  args,         \* what the firmware's BxMain was called with
  chosenNodes,  \* the number of nodes "chosen"
  chosen,       \* their properties, in order
  header, loadPc, current, loaded, rootTable, tables, entrypoint, deviceTree,
  reason                                                     \* KernelLoad

memoryVars == <<pages, imageEnd, memoryPc, bank, heap, start, end, nodes>>
searchVars == <<disk, record, root, mounted>>
configVars == <<file, buffer, line, values, configPc>>
chosenVars == <<commandLine, args, chosenNodes, chosen>>
loadVars == <<header, loadPc, current, loaded, rootTable, tables, entrypoint,
              deviceTree, reason>>

vars == <<phase, memoryVars, searchVars, configVars, chosenVars, loadVars>>

Memory == INSTANCE MemoryMap WITH pc <- memoryPc, i <- bank

Configuration == INSTANCE Config WITH pc <- configPc

Loader == INSTANCE KernelLoad WITH pc <- loadPc, pages <- loaded

IsDisk(d) ==
  /\ d.partitions \in Seq([indicator : 0..255, type : 0..255, size : Nat,
                           content : {"short", "foreign", "bare", "root"}])
  /\ \A f \in DOMAIN d.files : d.files[f] \in [size : Nat, sectors : BOOLEAN]

ASSUME BootAssumption ==
  /\ Memory!MemoryMapAssumption
  /\ Configuration!ConfigAssumption
  /\ Loader!KernelLoadAssumption
  /\ \A m \in Machines :
       /\ \A d \in m.disks : IsDisk(d)
       /\ \A h \in m.headers : Loader!IsHeader(h)
  /\ {StdoutPath, InitrdPath, CommandLine} \subseteq Options
  /\ NoString \notin Seq(Characters)

Init ==
  /\ phase = "memory"
  /\ \E m \in Machines :
       /\ pages \in m.pages /\ imageEnd \in m.imageEnds
       /\ disk \in m.disks /\ file \in m.files
       /\ args \in m.args /\ header \in m.headers
  /\ commandLine = args
  /\ Memory!Init
  /\ record = 1
  /\ root = 0
  /\ mounted = 0
  /\ Configuration!Init
  /\ chosenNodes = 0
  /\ chosen = <<>>
  /\ Loader!Init

GoTo(next) == phase' = next

\* BlCrash.
Crash == GoTo("crashed")

---------------------------------------------------------------------------
(* BxAddMemoryRanges and BxDtAddMemory.                                    *)

MemoryStep ==
  /\ phase = "memory"
  /\ Memory!Next
  /\ UNCHANGED <<phase, searchVars, configVars, chosenVars, loadVars>>

EndMemory ==
  /\ phase = "memory"
  /\ memoryPc = "done"
  /\ GoTo("mbr")
  /\ UNCHANGED <<memoryVars, searchVars, configVars, chosenVars, loadVars>>

---------------------------------------------------------------------------
(* BlFindRootPartition.                                                    *)

\* Mutant: only the size of an entry is looked at.
UsedBySize(partition) == partition.size # 0

Used(partition) == partition.type # 0 /\ partition.size # 0

ReadMbr ==
  /\ phase = "mbr"
  /\ IF disk.valid /\ \A k \in DOMAIN disk.partitions :
                         disk.partitions[k].indicator \in {0, 128}
       THEN GoTo("search") ELSE Crash
  /\ UNCHANGED <<memoryVars, searchVars, configVars, chosenVars, loadVars>>

SkipPartition ==
  /\ phase = "search"
  /\ record <= Len(disk.partitions)
  /\ ~Used(disk.partitions[record])
  /\ record' = record + 1
  /\ UNCHANGED <<phase, memoryVars, disk, root, mounted, configVars,
                 chosenVars, loadVars>>

\* One turn of the loop for a partition in use.  A superblock that lies
\* outside of the partition ends the boot; one that is not accepted has
\* overwritten BiSuperblock all the same.
TryPartition ==
  LET content == disk.partitions[record].content IN
  /\ phase = "search"
  /\ record <= Len(disk.partitions)
  /\ Used(disk.partitions[record])
  /\ root' = record
  /\ mounted' = IF content \in {"bare", "root"} THEN record ELSE 0
  /\ record' = IF content = "root" THEN record ELSE record + 1
  /\ IF content = "short" THEN Crash
     ELSE IF content = "root" THEN GoTo("config")
     ELSE UNCHANGED phase
  /\ UNCHANGED <<memoryVars, disk, configVars, chosenVars, loadVars>>

NoRootPartition ==
  /\ phase = "search"
  /\ record > Len(disk.partitions)
  /\ Crash
  /\ UNCHANGED <<memoryVars, searchVars, configVars, chosenVars, loadVars>>

---------------------------------------------------------------------------
(* The configuration file: opened, loaded, validated.                      *)

ConfigStep ==
  /\ phase = "config"
  /\ \/ Configuration!Skip \/ Configuration!HandleOption
     \/ Configuration!InvalidSyntax \/ Configuration!Validate
  /\ commandLine' = IF CommandLine \in DOMAIN values' THEN values'[CommandLine]
                    ELSE commandLine
  /\ UNCHANGED <<phase, memoryVars, searchVars, args, chosenNodes,
                 chosen, loadVars>>

EndConfig ==
  /\ phase = "config"
  /\ configPc # "line"
  /\ IF configPc = "done" THEN GoTo("stdout") ELSE Crash
  /\ UNCHANGED <<memoryVars, searchVars, configVars, chosenVars, loadVars>>

---------------------------------------------------------------------------
(* BiProcessConfig.                                                        *)

\* Mutant: BlDtCreateNode in place of BlDtFindOrCreateNode.
AddToNewNode(properties) ==
  /\ chosen' = chosen \o properties
  /\ chosenNodes' = chosenNodes + 1

\* BlDtFindOrCreateNode and the properties added to what it returns.
AddToChosen(properties) ==
  /\ chosen' = chosen \o properties
  /\ chosenNodes' = 1

Property(name, value) == [name |-> name, value |-> value]

ProcessStdout ==
  /\ phase = "stdout"
  /\ GoTo("initrd")
  /\ IF StdoutPath \in DOMAIN values
       THEN AddToChosen(<<Property("stdout-path", values[StdoutPath])>>)
       ELSE UNCHANGED <<chosen, chosenNodes>>
  /\ UNCHANGED <<memoryVars, searchVars, configVars, commandLine,
                 args, loadVars>>

\* Where the initrd comes from: the whole root partition, or a file.  Its
\* size is in pages; reads past the cache have to be of whole sectors.
NoFile == [size |-> -1, sectors |-> FALSE]

initrd ==
  LET path == values[InitrdPath] IN
  IF path = BootVolume
    THEN [size |-> disk.partitions[root].size, sectors |-> TRUE]
  ELSE IF path \in DOMAIN disk.files THEN disk.files[path] ELSE NoFile

\* Where a permanent block may lie: somewhere in the heap, but not at the
\* very end of a range; for a size of 0, a null pointer.  (Heap has the rest
\* of the allocator.)
NullPointer == 0

Places(size) ==
  IF size = 0 THEN {NullPointer}
  ELSE {p \in 0..(Banks * Interval) :
          \E r \in Range(heap) : r.start <= p /\ p + size < r.end}

NoInitrd ==
  /\ phase = "initrd"
  /\ InitrdPath \notin DOMAIN values
  /\ GoTo("bootargs")
  /\ UNCHANGED <<memoryVars, searchVars, configVars, chosenVars, loadVars>>

LoadInitrd ==
  /\ phase = "initrd"
  /\ InitrdPath \in DOMAIN values
  /\ initrd # NoFile /\ initrd.sectors
  /\ \E p \in Places(initrd.size) :
       AddToChosen(<<Property("linux,initrd-start", p),
                     Property("linux,initrd-end", p + initrd.size)>>)
  /\ GoTo("bootargs")
  /\ UNCHANGED <<memoryVars, searchVars, configVars, commandLine,
                 args, loadVars>>

\* "initrd does not exist", "out of memory" or "unaligned size".
InitrdFails ==
  /\ phase = "initrd"
  /\ InitrdPath \in DOMAIN values
  /\ Crash
  /\ UNCHANGED <<memoryVars, searchVars, configVars, chosenVars, loadVars>>

ProcessCommandLine ==
  /\ phase = "bootargs"
  /\ GoTo("kernel")
  /\ IF commandLine # NoString
       THEN AddToChosen(<<Property("bootargs", commandLine)>>)
       ELSE UNCHANGED <<chosen, chosenNodes>>
  /\ UNCHANGED <<memoryVars, searchVars, configVars, commandLine,
                 args, loadVars>>

---------------------------------------------------------------------------

(* BiLoadKernel and the end of BlMain.                                     *)

\* The file is there, with the magic number and the version it should have.
OpenKernel ==
  /\ phase = "kernel"
  /\ IF disk.kernel THEN GoTo("load") ELSE Crash
  /\ UNCHANGED <<memoryVars, searchVars, configVars, chosenVars, loadVars>>

LoadStep ==
  /\ phase = "load"
  /\ UNCHANGED <<phase, memoryVars, searchVars, configVars, chosenVars>>
  /\ Loader!Next

EndLoad ==
  /\ phase = "load"
  /\ loadPc \in {"started", "crashed"}
  /\ GoTo(loadPc)
  /\ UNCHANGED <<memoryVars, searchVars, configVars, chosenVars, loadVars>>

\* The kernel or the firmware has taken over.
Left ==
  /\ phase \in {"started", "crashed"}
  /\ UNCHANGED vars

Next ==
  \/ MemoryStep \/ EndMemory
  \/ ReadMbr \/ SkipPartition \/ TryPartition \/ NoRootPartition
  \/ ConfigStep \/ EndConfig
  \/ ProcessStdout \/ NoInitrd \/ LoadInitrd \/ InitrdFails
  \/ ProcessCommandLine
  \/ OpenKernel \/ LoadStep \/ EndLoad
  \/ Left

Spec == Init /\ [][Next]_vars

---------------------------------------------------------------------------
(* Properties.                                                             *)

\* MemoryMap: the heap is the RAM behind the bootloader's image, and the
\* kernel is told of all RAM, each page once.
RamAsBanksSay == Memory!HeapIsFreeRam /\ Memory!TreeIsRam

\* Config: an accepted file means what its lines say.
OptionsAsWritten == Configuration!OptionsAsWritten

\* The configuration is read from the first partition of the disk that is
\* in use, has a file system and has the file, and everything that is read
\* later, the kernel included, comes from the same partition: neither
\* BlRootPartition nor BiSuperblock is left over from one tried before.
RootIsFirstBootable ==
  phase \in {"config", "stdout", "initrd", "bootargs", "kernel", "load",
             "started"} =>
    /\ mounted = root
    /\ disk.partitions[root].content = "root"
    /\ LET used(p) == p.type # 0 /\ p.size # 0
       IN /\ used(disk.partitions[root])
          /\ \A k \in 1..(root - 1) :
               used(disk.partitions[k]) =>
                 disk.partitions[k].content \in {"foreign", "bare"}

\* The node "chosen" says what the file does: one node, each property once
\* and only those configured, the file's command line before the firmware's,
\* and an initrd that is as large as its source and, unless it is empty, lies
\* in one of the memory nodes, behind the bootloader's image.
Setting(option) ==
  LET lines == Configuration!Lines
      last  == Max({b \in DOMAIN lines : Configuration!Sets(lines[b], option)})
  IN Configuration!Setting(lines[last], option)

IsSet(option) ==
  \E b \in DOMAIN Configuration!Lines :
    Configuration!Sets(Configuration!Lines[b], option)

Expected(option, name, default) ==
  IF IsSet(option) THEN <<Property(name, Setting(option))>> ELSE default

ChosenAsConfigured ==
  phase \in {"kernel", "started"} =>
    LET stdout   == Expected(StdoutPath, "stdout-path", <<>>)
        bootargs == Expected(CommandLine, "bootargs",
                             IF args = NoString THEN <<>>
                             ELSE <<Property("bootargs", args)>>)
        range    == SubSeq(chosen, Len(stdout) + 1,
                           Len(chosen) - Len(bootargs))
    IN /\ chosen = stdout \o range \o bootargs
       /\ IF ~IsSet(InitrdPath) THEN range = <<>>
          ELSE /\ Len(range) = 2
               /\ range[1].name = "linux,initrd-start"
               /\ range[2].name = "linux,initrd-end"
               /\ range[2].value - range[1].value =
                    IF Setting(InitrdPath) = BootVolume
                      THEN disk.partitions[root].size
                      ELSE disk.files[Setting(InitrdPath)].size
               /\ IF range[1].value = range[2].value
                    THEN range[1].value = NullPointer
                    ELSE /\ range[1].value >= imageEnd
                         /\ \E n \in Range(nodes) :
                              range[1].value >= n.start /\ range[2].value <= n.end
       /\ chosenNodes = IF chosen = <<>> THEN 0 ELSE 1

\* KernelLoad: the kernel is entered with its image mapped where its header
\* says, zeros behind the file, nothing else mapped but the device tree, and at
\* the physical address of its entry point.
AddressSpaceAsPromised ==
  phase = "started" =>
    Loader!ImageAsPromised /\ Loader!NothingElseMapped /\ Loader!EntryAsPromised

\* KernelLoad: the device tree is mapped in one piece, in the room the header
\* leaves for it.
DeviceTreeAsPromised ==
  phase = "started" => Loader!DeviceTreeAsPromised /\ Loader!DtbInsideItsArea

\* KernelLoad: PROTOCOL.md, "Kernel Image", alone.
ImageAsPromised == Loader!ImageAsPromised
=============================================================================
