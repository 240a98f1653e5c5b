# xrlinux: models and proofs

xrlinux ports Linux to the XR/17032 computer. The repository holds the
bootloader (`bootloader/`), an installer for its boot image (`install-apt/`),
and the port itself as patches to Linux, binutils, gcc, glibc and autoconf
(`patches/`). This directory holds TLA+ models of its own logic, the TLC
configurations that check them on small instances, and TLAPS proofs.

Check a model with `tlc -config MCHeap.cfg MCHeap.tla`, the proofs with
`tlapm HandoffProofs.tla` and so on for `HeapProofs`, `BootloaderProofs`,
`FileSystemProofs`, `BootProofs`, `InstallAptProofs`, `TrapsProofs` and `DriversProofs`.
`PROJECT.json` says, for every definition, which lines it models, and lists the runs, the mutants and the
hazards. A definition whose comment starts with "Mutant:" is a plausible bug; no model uses it.

## 1. The system

A boot goes through these parts, in this order:

    firmware -> BxMain: RAM banks -> heap
                        device database -> device tree
             -> BlMain: MBR -> root partition -> file system
                        configuration file -> node "chosen"
                        kernel file -> pages, page tables
                        device tree -> blob, mapped
                        other processors kicked out of the firmware
             -> every processor: transition -> _start of the kernel
                        one goes on to start_kernel, the others park

Up to the kick the bootloader is sequential: it has one processor, no
interrupts and no timers, a crash ends it (`BlCrash`) and nothing it does
survives. What is hard there is arithmetic at boundaries and long sequences of
calls. From the kick on everything is concurrent: processors until all but one
are parked, and from then on, in the kernel, tasks, interrupts and devices on the
one CPU the port supports. The installer is a sequential program over a device
that may fail or lose power.

| Component | State | Operations | What is hard | What makes it correct |
|---|---|---|---|---|
| SMP handoff: `a4x/a4x.c`, `main.c`, `head.S`, `init.c` of the port | the caller's stack frame, two ll/sc counters, page table, who owns memory | kick, handler, wait; transition; draw a number, park or gather | every interleaving; a frame that dies; memory that is reused | the frame outlives its readers; the kernel starts once, alone, with the registers promised; it does start |
| Heap: `memory.c` | ranges in address order, free list | add, allocate, resize, free | splitting and merging, headers, alignment, wrap | the lists agree; blocks are disjoint and stay; refusal and loss only where unavoidable |
| Block cache: `partition.c`, `a4x.c` | slots in order of use, the root partition | read through the cache or past it | reuse of slots, the short last block, boundaries | a read returns the disk's bytes |
| File lookup: `filesystem.c` | blocks of the heap with inodes in them, one frame per link followed | find, free | ownership of inodes through recursion, loops of links | it is path resolution; nothing leaks |
| File reads: `filesystem.c` | none but the caller's buffer | read | trees of pointer blocks, holes, the end of the file | the bytes of the file |
| Kernel loading: `main.c`, `paging.c` | two-level page table, pages | check the header, four loops, map the device tree, look up the entry point | shared pages, sizes that wrap, order of evaluation | what `PROTOCOL.md` promises is what is mapped |
| Device tree: `dt.c` | nodes, properties, table of names, sizes | create, add, build | a size counted far from where it is used; rehashing | the blob is the tree; the assertions hold |
| Configuration: `config.c` | position in the file, options | one turn per line | lines without a newline, comments, blanks | an accepted file means what it says |
| RAM banks: `a4x/main.c` | heap ranges, memory nodes | one turn per bank | image across banks, adjacent and missing banks | heap and tree are the RAM |
| Boot sequence: `partition.c`, `main.c` | root partition, superblock, node "chosen" | search, configure | globals overwritten by every partition tried | everything comes from the partition chosen |
| install-apt | disk, page cache | copy, header, logo, label | failures between the writes, power loss, short writes | no partition is touched; a label means a complete image |
| Traps: `irqflags.h`, `head.S`, `entry.c`, `process.c`, `mmu_context.h`, `fault.c` of the port | mode and interrupt flag, three scratch registers, frames on the kernel stacks, saved threads, page directories | trap, handler, return; task switch in steps; fork, exec; vmalloc fault | an interrupt at any place, nested, also in the middle of a switch | the next trap finds its stack; a return restores exactly what was trapped |
| Disk driver: `xrarch.c` of the port | the disks known, the request of each; the controller's registers | probe, submit, collect completions, end requests | one interrupt for all disks, one pair of data registers for probe and handler, what the firmware left | every request is served once, by its disk, and ends |
| Interrupt controller: `irq-xrarch-lsic.c` of the port | pending, masked, claimed | claim, handle, complete, mask | one raised while it is handled | none is lost |
| AMTSU bus and keyboard: `amtsu.c`, `aisa-kbd.c` of the port | the device selected, the queues of scancodes | discover, probe, enable; the keyboard's interrupt | the handler selects another device in the middle of the probe | keys arrive in order, none lost |
| Rest of the port: linear mapping, page table entries, TLB, UART, atomics, timer, frame buffer, signals | | | | not modelled, see 7 |
| Toolchain ports, jinx, recipes | | | | not modelled: code generators, a vendored tool and shell recipes |

The components call each other in one direction. Heap, block cache and tree
are libraries with global state; what a caller relies on is stated apart, in
`Allocator` and `DiskReader`, where it is more than a sentence. In the port the
drivers meet the rest of the kernel in interrupts and locks (`Lsic`), and the disk
driver serves the block layer (`BlockDevice`).

## 2. The modules

| Module | Models | Composed with |
|---|---|---|
| `Handoff` | the SMP handoff, from `BxRunOnOtherCpus` to the C kernel | implements `HandoffBarrier` |
| `HandoffProofs` | | theorems about `Handoff` |
| `Heap` | `memory.c` and the loop that gives it its memory | implements `Allocator` |
| `HeapProofs` | | theorems about `Heap` |
| `BlockCache` | `BlReadFromPartition` and all below it | implements `DiskReader` |
| `BootloaderProofs` | | theorems about `BlockCache` and `DeviceTree` |
| `InodeLookup` | `BlFsFind`, `BiFindInode`, `BlFsFree` | instantiated by `FileSystem` |
| `InodeRead` | `BlFsFileRead` and all below it, down to the partition | instantiated by `FileSystem` |
| `FileSystem` | `BlFsInitialize`, `BiReadInode`, the walk over a directory's entries | instantiates `InodeLookup`, `InodeRead` |
| `FileSystemProofs` | | theorems about `FileSystem`, `InodeLookup` and `InodeRead` |
| `KernelLoad` | `BiLoadKernel`, `paging.c`, mapping of the blob, entry state | instantiated by `Boot` |
| `DeviceTree` | `dt.c` from the first node to the finished blob | |
| `MemoryMap` | `BxAddMemoryRanges`, `BxDtAddMemory` | instantiated by `Boot` |
| `Config` | `config.c` | instantiated by `Boot` |
| `Boot` | `BxMain` and `BlMain`: MBR, search, `BiProcessConfig`, and the parts it instantiates | instantiates `MemoryMap`, `Config`, `KernelLoad` |
| `BootProofs` | | theorems about `Boot` and the parts it instantiates |
| `InstallApt` | `install-apt.c` | |
| `InstallAptProofs` | | theorems about `InstallApt` |
| `Traps` | trap entry and return, task switch, interrupt flags, vmalloc faults | |
| `TrapsProofs` | | theorems about `Traps` |
| `Lsic` | interrupt controller, the CPU's interrupt flag, critical sections | extended by the drivers |
| `DiskDriver` | the disk driver, and its controller as it is used | extends `Lsic` |
| `Amtsu` | the bus driver, the keyboard driver, their devices | extends `Lsic` |
| `Drivers` | both drivers at once on one CPU | extends `DiskDriver`, `Amtsu`; implements `BlockDevice` |
| `DriversProofs` | | theorems about `Drivers` |

`MC` modules give the constants their values. State and actions carry the names
of the code; the comment at a variable says which variable of the code it is.

What is a step. In sequential code nothing can observe the middle of an
operation, so an operation or one turn of its loop is a step; what crashes in
the middle is a step of its own, as is each choice the code does not make
(a failing read, a short write, the order in which a compiler evaluates
initialisers). In the kernel port a step is what an interrupt, or a device, cannot
come into the middle of or could not tell apart. In `Handoff` every access to shared memory is a step: load
linked, store conditional, the reads of the frame, the write of the page
table, each test of a wait loop.

What is abstracted. Bytes are the names of the places they come from: a byte of
the disk is its address, a byte of a file its offset, so that a property can
say *which* byte is where. Names and values in the tree, options and path
elements are members of small sets, with the lengths and hash values the code
depends on. Magic numbers and formatting are left out. `uintptr_t` and
`size_t` wrap, at `WordSize` or `SizeMax`, wherever the code computes with
addresses it did not check before.

In detail:

- **Handoff.** `pc` is where each present processor is; the other variables are
  the frame (`frame`, `numFinished`), what a processor has read from it
  (`handlerCtx`: data or, from a dead frame, garbage), the kernel's
  `num_started_cpus` and `boot_cpu_hwid`, the root page table and the owner of
  memory. A store conditional fails if another processor stored to the counter
  since the load linked (`linked`). Memory is sequentially consistent: the
  code's `wmb`, acquire load and `mb` are taken to do their work. The boot
  processor walks the firmware's array with absent slots in it.
- **Heap.** A unit is `HEAP_ALIGNMENT` bytes. `heap.ranges` is the list in
  address order and `heap.free` the order of the free list, which decides what
  first fit finds. `ResizeByMoving` is the code's allocate, copy, free in one
  step, as its caller sees it. `live` and `pinned` are what callers hold; they
  are how the properties talk about blocks, and no action of the code reads
  them.
- **BlockCache.** `cached` is the list `BiBCache`; slots come from
  `BiBCacheUsed` and then from the end of the list. `FromDisk` leaves the rest
  of the slot as it was where the disk ends: that the stale bytes are never
  returned is a result, not an assumption.
- **FileSystem.** A partition holds a superblock, block group descriptors and
  inodes at addresses, and `contents`, what was written there number by number.
  The code goes by the addresses, the properties by the numbers. A directory's
  bytes are its entries at their offsets; names and paths are sequences over a
  small alphabet. A link's target is read through its inode's block pointers, a name
  or slash per byte (`TextAt`), whatever those pointers are: numbers of blocks, or a
  short target that was written in their place. In `InodeLookup`, `stack` is the C
  stack of `BiFindInode`, one frame per link being followed. `objects` are the blocks
  of the heap: which inode was read into each, and whether it is allocated. An
  allocation takes any block that is free or a new one, so that an inode may come to
  lie where another was freed. Two places end a lookup early: `pc` is "crashed" where a
  link's pointers name nothing on the partition, and "undefined" where a block is freed
  that is free or holds the result. What a heap does after that is left open. The root
  inode is static. The file a lookup found is the one `InodeRead` reads.
- **KernelLoad.** `pages` are what was allocated permanently, `rootTable` and
  `tables` the page table. `transitionData` in `BlMain` has two initialisers in
  an order C leaves open: `GetEntrypoint` and `BuildBlob` come in any order.
- **DeviceTree.** `strings` is the hash table by bucket; `Capacity` and `Grown`
  are its growth, `structureSize` and `stringsSize` the sizes counted ahead,
  `offset` the bytes written.
- **Boot.** A partition is a record that says what the MBR and the file system
  would make of it: too short for a superblock, foreign, without the
  configuration file, or with it. `phase` is where `BxMain` or `BlMain` is; in
  the phases of its parts `Boot` takes their steps. A machine fixes everything
  the bootloader will find.
- **Traps.** A context, what a frame keeps, is place, stack pointer, thread
  pointer, mode and interrupt flag; the other registers are saved beside them. A
  kernel stack pointer `<<t, n>>` points below the n-th frame on t's stack.
  `scratch1`, `scratch2` and `scratch3` are the kernel stack for the next trap
  from user mode (zero in kernel mode), `current` and the page directory. A page
  directory goes by the task it was allocated for, `swapper_pg_dir` by `Idle`.
  `switch_mm`, `set_mm`, `switch_to`, `switch_sp` and `finish` are the places of a
  switch an interrupt can tell apart. The generic kernel between the port's
  functions is as free as the port allows. It may schedule in task code and in the work
  before a return to user mode, fork and exec in task code, fault in task code and in
  that work, touch vmalloc memory in interrupt handlers too, and mark work in interrupt
  handlers. `running` and `contexts` are history variables: the
  task whose code the CPU runs and what was trapped, whatever the registers say.
- **Lsic, DiskDriver, Amtsu, Drivers.** There is one CPU, so that
  `spin_lock_irqsave` is interrupts off: `owner` is the task code in a critical
  section, `handling` that `lsic_handle_irq` runs, `claimed` the interrupt whose
  handler does. `qpc`, `ppc`, `ipc` and `kpc` are the places of `queue_rq`, the
  disk probe, the disk's handler and the keyboard probe. The devices run between
  any two steps, those of critical sections and handlers included. A write of
  `DATA0` and the command that takes it are one step, since no other code or
  device can come between; a transfer ends when its disk likes. The firmware may
  have left transfers running and completions unread (`FirmwareOp`, `complete`). What
  the requests ask for is one of `Workloads`; `Keys` says how many keys each keyboard
  will see, and which scancode each of them may have.
- **InstallApt.** `seen` is the disk through the page cache, `stored` what is
  on the medium: write-back may pick any sector at any time, and power loss
  leaves `stored`. `imageSectors` and `neededSectors` are counted modulo `CountLimit`,
  2^32, while the copy goes by the size of the file.

## 3. The runs

A passing run is exhaustive within its bounds. The states are distinct ones, for
`traps` up to symmetry.

| Run | States | Question | Properties |
|---|---|---|---|
| `handoff` | 19,687 | do the two counters hold the processors together under every interleaving? | `TypeOK`, `FrameOutlivesHandlers`, `KernelStartsAlone`, `EntryStateAsPromised`, `OneBootCpu`, `EventuallyBooted`, `ImplementsBarrier` |
| `heap` | 284,416 | does a long sequence of calls corrupt the lists, lose or refuse memory? | `ListsAgree`, `BlocksIntact`, `OutOfMemoryOnlyWhenFull`, `LossBounded`, `ImplementsAllocator` |
| `block_cache` | 17,440 | can what is cached be seen? | `CacheIsDisk`, `EveryReadEnds`, `ImplementsDiskReader` |
| `file_system` | 27,431 | is what a path finds and a read returns what was written, and is everything given back? | `LookupIsResolution`, `InodesBalanced`, `ReadsTheFile`, `EveryLookupEnds` |
| `install_apt` | 12,598 | what does a failure or a power loss leave? | `PartitionsUntouched`, `LabelMeansComplete` |
| `device_tree` | 509,024 | is the blob the tree? | `AssertionsHold`, `StringsFindable`, `BlobIsTree` |
| `boot` | 1,372,858 | memory map, choice of partition, configuration, and the kernel's address space | `RamAsBanksSay`, `OptionsAsWritten`, `RootIsFirstBootable`, `ChosenAsConfigured`, `AddressSpaceAsPromised`, `DeviceTreeAsPromised` |
| `traps` | 7,613,277 | does a trap at any place find its stack, and does its return lead back? | `KernelEntryPrepared`, `CurrentOwnsCpu`, `ResumesWhatWasTrapped`, `VmallocFaultRepairs` |
| `drivers` | 634,631 | can probes, requests and interrupts of two kinds of devices disturb each other? | `CompletionsExpected`, `CapacityAsReported`, `KeysArriveInOrder`, `EveryRequestEnds`, `ImplementsBlockDevice`, `InterruptDrainsQueue` |

Three runs show disagreements between code and documentation, or a bug (section
5): `kernel_load_unaligned`, `install_apt_again`, `irq_disable`.

Bounds, and why they are enough:

- `handoff`: five slots, four processors, the boot processor neither first nor
  last, a hole in the middle. Every way the array loop can skip is met, three
  handlers and four entries compete for a counter; the proofs cover any number.
- `heap`: addresses 0..23, a header of two units, three banks of eight, with
  adjacent, short and missing banks. Remainders on either side of a block are
  smaller than a header, equal and larger; one request is so large that the end
  of its block wraps. At most three temporary blocks live at a time
  (`MaxBlocks`), enough for a free block between two others to be freed, merged
  with either or both, and taken again. `MCGrowths` are at most a header: see
  section 6.
- `block_cache`: blocks of two sectors, two slots, three and a half blocks.
  A read spans up to three blocks, more than there are slots; `MaxCount` bounds
  its length. One partition starts inside a block.
- `file_system`: two kinds of volumes and all paths of up to four names and
  slashes, but not three slashes in a row, with some of three names; the limit on links
  is 3, with a chain of links one longer than that and loops of one and two links;
  entries of two sizes, deleted ones among them.
  Inodes are in groups of one to three, of the old size and a longer one; one
  partition has an inode size of 0, which the code accepts; one of each kind that
  `BlFsInitialize` refuses. The targets of links are in blocks, one of them in two;
  one partition has them in the inodes, where the pointers name another target, a
  hole, and blocks that are not there. Relative links are followed from a directory
  other than the root, whose block is then reused in every way the heap may. Blocks
  have 4 bytes, two pointers each, trees of heights 1 to 3: the first and last block of every
  height, holes at every height, and a block that ends beyond the partition.
  Positions run to a block behind the end of the file. Two of the paths are read
  (`ReadPaths`): which path found a file makes no difference to a read.
- `install_apt`: a disk of 12 sectors with room for an image of 3; images of 0,
  2, 3, 4, 9 and 14 sectors, a buffer of two. Counts of sectors wrap at 12: the image
  of 9 sectors then needs none and that of 14 needs 5 (with the boot sectors).
- `device_tree`: four nodes in every shape, three properties, a table that
  grows once, two names that share a bucket before and after.
- `boot`: four things vary one at a time (`MCMachines`), since the code couples
  them only through the root partition's files and the size of the initrd, of
  which there is a case. Five banks of size 0, 1, 3 or 4 of 4, three ends of the
  image; all disks of four partitions of eight kinds; all files of up to six of
  five characters, and three longer ones that set an initrd: a file, an empty file, a
  partition; kernels over 32 addresses, pages of 4, sectors of 2, tables of
  two entries, whose file end, image end, entry point and device tree fall on and
  beside every boundary of a page. One family lets everything go well together.
- `traps`: the idle task and two more, three frames on a stack: user code, a trap
  in its system call, one more inside. Two tasks are enough for every kind of
  switch (to the same mm, to another, to and from a kernel thread) with a third
  in between; the proofs cover any number of both.
- `drivers`: three slots with disks of sizes 2 and 1 and an empty one between
  them; two requests, for the first disk both or for one disk each, which of the two
  is which making no difference (`MCWorkloads`). Two keyboards: the first sees up to
  two keys, "a" and then "b", while the second is probed, which sees "c". So both a
  wrong order and a wrong keyboard would show. The proofs cover any number of each.

Each property has a mutant in `PROJECT.json`: a change of one mapped definition,
of the kind a programmer makes, that the run then reports as a violation of
that property.

Some runs say `CHECK_DEADLOCK FALSE`: the program they model ends. The others
stutter where the machine stays up (`StayParked`, `Crashed`, `Left`), and TLC
checks that they never stop anywhere else.

### Fairness

- `Handoff`: weak fairness of the boot processor's steps and of each other
  processor's. A processor that can execute an instruction does so, whatever the
  others do, and the firmware delivers a kick. The ll/sc loops need no more: a
  store conditional fails only because another one succeeded, and each
  processor succeeds once.
- `BlockCache`: weak fairness of a read that was begun, not of a caller's
  starting one. The bootloader runs alone.
- `FileSystem`: weak fairness of its next step, for the same reason.
- `Drivers`: the CPU goes on with what it runs (submission, probes, handlers,
  softirq), a disk finishes its transfer, and an unmasked pending interrupt is
  taken once interrupts are on. One conjunct for each, since the CPU, every disk
  and the interrupt controller run by themselves. Nobody has to submit a request
  or press a key. Strong fairness is nowhere needed: interrupts go off only for
  sections that end, and keys are bounded (`Keys`), as fingers are.

The other specifications state no fairness: their properties are safety
properties.

## 4. The proofs

### HandoffProofs

For every number of slots, every set of present processors and every boot
processor among them (`HandoffAssumption`):

| Theorem | Statement |
|---|---|
| `Invariance` | `Spec => []IInv` |
| `TypeCorrect` | `Spec => []TypeOK` |
| `FrameSafe` | `Spec => []FrameOutlivesHandlers` |
| `KernelAlone` | `Spec => []KernelStartsAlone` |
| `EntryState` | `Spec => []EntryStateAsPromised` |
| `SingleBootCpu` | `Spec => []OneBootCpu` |
| `Refinement` | `Spec => ImplementsBarrier` |

The argument. None of the safety properties is inductive: from an arbitrary state
with the frame alive, a counter that is off by one releases the boot processor
too early. `IInv` adds what the counters mean: `numFinished` is the cardinality
of the set of handlers that have announced themselves (`Finished`) and
`numStarted` that of the processors counted in (`Counted`), and a processor
whose reservation is intact has loaded the present value (`CountInv`). A
successful store conditional then adds one processor to the set and one to the
counter (`CountOneMore`); a counter that has reached the number of processors
counts all of them (`FullCount`), since a subset of a finite set with its
cardinality is the set. `NumberInv` adds that the logical numbers drawn are
distinct and that somebody drew 0. `BootInv` ties the boot processor's place
to the handlers', and `EntryInv` what a processor read from the frame to the
registers it enters the kernel with. The proof that a step preserves `IInv` is
split by who takes it: the boot processor, a handler, an entry, the kernel.

For the refinement, the barrier's `first` is the counted processor whose
logical number is 0 (`FirstIsNumberZero`): it exists and is unique by
`NumberInv`. `StartStoreConditional` is `Enter`, `StartKernel` is `TakeOver`,
every other step leaves the barrier's variables alone.

### HeapProofs

For any size of headers and of the address space, any machine, any bound on
temporary blocks, and any requests and growths (`HeapAssumption`; its two limits on
requests are in section 6):

| Theorem | Statement |
|---|---|
| `Invariance` | `Spec => []IInv` |
| `ListsAlwaysAgree` | `Spec => []ListsAgree` |
| `BlocksStayIntact` | `Spec => []BlocksIntact` |
| `LossIsBounded` | `Spec => LossBounded` |
| `RefusalIsTrue` | `Spec => []OutOfMemoryOnlyWhenFull` |
| `Implementation` | `Spec => ImplementsAllocator` |

The argument. Neither `ListsAgree` nor `BlocksIntact` is inductive: that a block is
intact says nothing of the range it must be found by when it is freed. `IInv` adds
what the code relies on. `ListInv`: any two ranges, not only neighbours, are in
order (`InOrder`), lie in memory the heap was given and have room for their header,
and the free list holds the bases of the free ones, each once. `BlockInv`: each
temporary block has a range of its own, whose header is right in front of it and
which leaves less than a header behind it; a permanent block is apart from every
range and every other permanent block. `BankInv`: until the last bank is added, all
memory is in front of the next one and nothing is allocated.

Every operation is then one step of one kind, *neighbouring ranges are replaced by
others in the same place*: `Replaces` says so of the two lists, and `ListReplaced`
that `ListInv` survives it. For the blocks there are two forms. `Cut` is what
`BlAllocateHeap` does to the range it takes: what it leaves is apart from the block,
and what is lost lies beside a permanent block and is less than a header. `Exchanged`
is what `BlFreeHeap` and growing in place do: ranges that are free or the block's own
become ranges that cover the same units. Addresses wrap in `AllocBase` and
`AllocEnd`; the three comparisons of `Fits` (`memory.c:80`) reject whatever did. For
the refusal, `RefusedInv` keeps the request nothing fitted; a run of free memory that
is long enough lies in one range, because two free ones never touch, and so would
have been taken.

### BootloaderProofs

For every disk, every set of partitions on it, any number of slots and any size of
sectors, of blocks that are made of them, and of reads (`BlockCacheAssumption`); for
any names and hashes, sizes of values, first capacity of the table and number of nodes
and properties (`DeviceTreeAssumption`):

| Theorem | Statement |
|---|---|
| `Invariance` | `Spec => []IInv` |
| `CacheCorrect` | `Spec => []CacheIsDisk` |
| `Implementation` | `Spec => ImplementsDiskReader` |
| `StringsAreFindable` | `TreeSpec => []StringsFindable` |
| `SizesAreRight` | `TreeSpec => []AssertionsHold` |
| `BlobIsTheTree` | `TreeSpec => []BlobIsTree` |

The argument. `CacheIsDisk` is inductive as it stands once a read is known to lie
on the disk, which is what `ReadInv` adds, with the bytes copied so far being those
the disk has there. It is inductive because a slot is in the list exactly once:
moving a slot to the front permutes the list (`MovedToFront`), the slot that is
loaded is either new or the last of the list, and no slot in the list had the
block before (`LoadInv`). The stale end of a short last block does no harm
because no turn copies from it: a turn ends at the end of the block or of the
read, whichever comes first, and the read ends on the disk (`CopyCorrect`). For
the refinement, the turn that fills the buffer is `Return`, all turns before it
stutter, and `ReadInv` says that what is returned is the answer.

For the table of names (`TreeInv`), `Hashed` says bucket by bucket what
`StringsFindable` says of the table: no bucket repeats a name and each name is in the
bucket its hash says, so that no two buckets share one (`HashedIs`). That makes
the search complete, a name that `BlDtGetString` does not find is not there
(`KnownIs`), so that inserting it repeats nothing (`Inserted`). Growing (`GrownIs`) inserts
the names one after the other into an empty table: after `k` of them the new table is
`Hashed` and holds the first `k`, and the next is not among these because the old table
repeats none. `Loaded` survives because the table is doubled exactly when a quarter of
its capacity, rounded down, is all that is free; a table of one bucket is the case
to look at. The lemmas about `FlattenSeq`, a recursive function of the library, are
proved by induction over its pieces (`FlattenIs`, `Covered`).

The counted sizes (`SizesInv`) are two sums: `structureSize` is four more than what
every node adds to it (`Own`), `stringsSize` is what the names in the table take
together. A new node or property changes one summand; that a table which grew takes
what it took before is `WeightPermuted`, since growing only permutes the names.
`Shaped` says that each node but the root is once among the children of one node,
before it in number. So `Flat`, which is recursive, exists (`FlatOfIs`, by `Ranked`:
a node depends on nodes behind it only), and its size is the counted one: a node
takes what is its own and what its children take (`NodeWeight`); added up over all
nodes, the children are every node but the root, each once, and cancel out, which
leaves the root (`TreeSize`).

For the loop, `AfterIs` gives to each node what is behind it in the flattened tree,
recursive too, over parents this time. `At` then says what is left to write by `node`
and `previous` alone: a node and what is behind it when the loop comes from the
parent, what is behind the child when it comes from there. A turn writes the first
part of that and is at the rest (`WalkGoes`), so that what is written and what is
left are always the whole (`Progress`), and a part is never larger than the whole
(`Splits`): no assertion fails before the end, and at the end the sizes are equal.
`Written` is a token with the identifier in the name's place, and `Leads` that the
identifier is where the name starts. `BlobInv` is inductive with all of this. Sizes are
natural numbers here; in the code they are machine words that count memory which
has been allocated.

### FileSystemProofs

For any set of partitions, alphabet, paths, limit on links, block size, number of
pointers per block and of heights of trees that satisfy
`FileSystemAssumption`: those `BlFsInitialize` accepts are formatted (`IsFormatted`:
every inode is at the place in its group's table, every directory's entries lie one
behind the other and fill it, every file's blocks are in trees of pointer blocks, a
link's target is no longer than its direct blocks), and what was written to them is a
volume (`IsVolume`: a root directory, entries that name inodes there are or are unused).
Where the target of a link was written is not assumed.

| Theorem | Statement |
|---|---|
| `TypeCorrect` | `Spec => []TypeInv` |
| `EveryInodeFreed` | `Spec => []InodesBalanced` |
| `LookupIsCorrect` | `Spec => []LookupIsResolution` |
| `ReadIsCorrect` | `Spec => []ReadsTheFile` |

The argument. First, what lookups read is what was written, number by number
(`VolumeIsWritten`): quotient and remainder find the group and the place in its table
(`InodesAre`), and adding up the sizes visits the entries in order and ends behind the
last (`EntriesAre`). Then each action has a lemma that says in plain terms what it does
to the calls, the inodes and the result (`NotFoundIs` to `CloseIs`).

Neither clause of `InodesBalanced` is inductive. `BalanceInv` (`Balanced`) says who owns
a block that is allocated: one of the calls in progress has it, or it is what the last one
returned; the innermost call's own is allocated. A block that is reused changes its
owner, so this speaks of blocks that are allocated now and never of which inode was in
them before. Two calls may have the same block, which is how a directory comes to be freed
twice. As long as no relative link was followed from a directory other than the root
(`nested`), the calls' blocks are apart, all allocated, and none is the result (`Owned`);
that is why the lookup cannot become "undefined".

`LookupIsResolution` is claimed for partitions that keep their links' targets in blocks
(`LinksInBlocks`); what the bytes of other links lead to has no promise to be compared with
(section 5). There a link read is the link written (`TargetIs`), and this stays so, as the
partition does not change (`LinksStay`). The property compares a walk that frees as it
goes with a definition that goes over the whole path at once. `ResolveInv` is about what
is left to do: what remains of the innermost call's path is walked from the call's inode;
where that ends the next call goes on with what remains of its own, and so on outwards
(`Chain`); the end is the resolution of the path, in every state the lookup can go on
from (`ResolveStopped` is about the two it cannot). That a link is read into a block and
the block freed again without harm to the inodes in use is `DirectoryKept`. What a walk
is worth after one name or some slashes is `WalkFirst` and `WalkSlashes`. A link leads
where the table of links for one level less says (`LinksAre`), and the number of the call picks the table, so the limit on
links inside each other is counted the same way on both sides.

`ReadsTheFile` compares two orders: the property lists a file's blocks from left to
right, tree after tree, and the code finds the block of a given number by arithmetic.
A tree of height `h` has `Power[h]` blocks (`LeavesCount`), and none of those numbers
reaches the size of a word, so the counting in `BiGetInodeBlockBase` never wraps up to the
highest tree a file may have (`TreeSizes`). The first loop then stops at the tree whose
blocks begin at or before the number and end behind it (`FindLevelIs`, over the running
sums of the trees' sizes, `Starts`); the second loop goes down that tree one digit of what
is left per turn, and what it ends at is that leaf of the tree (`DownIs`, `FollowIs`): a
hole anywhere on the way is a hole at each leaf below it (`HoleLeaves`). Together,
`BlockBaseIs`: the block of a number is the one in that place of the list, and there is
none exactly when the list is shorter. `BytesAre` says the same of bytes. The invariant
`ReadInv` adds what the crashes need: a read of whole sectors has come a whole number of
sectors far at the head of the loop, as blocks are whole sectors too, so that if an
uncached turn is not of whole sectors then the read was not (`Crashes`).

### BootProofs

For any banks, ends of the image, disks, files, kernel headers, alphabet, size of
pages, sectors, tables and words that satisfy `BootAssumption`:

| Theorem | Statement |
|---|---|
| `RamIsAsBanksSay` | `Spec => []RamAsBanksSay` |
| `RootIsTheFirstBootable` | `Spec => []RootIsFirstBootable` |
| `ConfigurationIsAsWritten` | `Spec => []OptionsAsWritten` |
| `ChosenIsAsConfigured` | `Spec => []ChosenAsConfigured` |
| `KernelIsEnteredAsPromised` | `Spec => [](Loader!IsLoadable(header) => AddressSpaceAsPromised)` |
| `DeviceTreeIsWhereItShouldBe` | `Spec => [](Loader!IsLoadable(header) => DeviceTreeAsPromised)` |

`IsLoadable` is what section 6 says of kernels; every header of the run satisfies it.

The argument goes part by part, since each has its phases to itself; the properties
speak of the end of a loop, and the invariants of its middle.

- `MemoryInv` says which units the heap (`HeapUpTo`) and the nodes (`TreeUpTo`) cover
  after n banks. The code merges a bank with the node it built last, so the nodes are
  apart and in order (`Separated`) and the last one, not stored yet, is behind them.
- `RootInv`: no partition tried so far is bootable (`NoneBefore`), and the superblock
  in the globals is that of the partition the search ended with.
- `ConfigInv` speaks of indices, as the code does, and the property of lines. Every
  turn starts at a line break; the options are what the lines behind it say, the last
  one that sets an option counting (`SetBy`, `LastFor`). What one turn reads between two
  breaks is the row there with its blanks and comment cut off, which is most of
  the proof: the code's loops skip as far as the definition's filters do, and no index
  reaches `SizeMax`, so none wraps.
- `ChosenInv` says how long `chosen` is in each phase and what is in it. That an
  initrd lies inside one node follows from `MemoryInv`: the heap took it from one
  stretch of RAM, and a stretch cannot leave a node because two nodes never touch
  (`PlacesInNodes`). One without bytes is the null pointer, in no node (`InitrdLies`).
- `LoadInv` goes by page numbers. `TableInv`: no two entries of the root share a table.
  `ImageUpTo` is what each turn of the four loops adds to the mapping; that the loops
  agree at their seams, inside a page or at its end, is what the invariant is for.
  `Finished` says the same of the whole image once the blob is mapped, which leaves the
  image alone because `Check` has compared the two areas.

### InstallAptProofs

For every disk, partition table, image, size of the buffer, place of the free
area and limit of a count of sectors (`InstallAptAssumption`):

| Theorem | Statement |
|---|---|
| `Invariance` | `Spec => []SizedInv` |
| `PartitionsSafe` | `Spec => []PartitionsUntouched` |
| `LabelComplete` | `Spec => []LabelMeansComplete` |

`SizedInv` is `FitsInCount => IInv`, and both properties have the same premise: the
image, with the boot sectors, has less than 2^32 sectors (`CountLimit`). Nothing of the
kind holds without it; section 5 says what happens.

The argument. What `main` checks before its first write is about the whole image, as
the counts are those of the image if they fit; the writes come one buffer at a time:
`AreaInv` carries the check to them, and
`FreeArea` says what it is worth, that no partition in use starts below the end of
the area. `WrittenInv` says how much of header, logo and image the disk holds at
which step, and that there is no new label before the last one. `Kept` says of the page
cache and of the medium that they differ from the disk there was in the label and
the free area at most; write-back and power loss copy one to the other, and keep it.

### TrapsProofs

For any set of tasks with `Idle` in it and any depth of nesting
(`TrapsAssumption`):

| Theorem | Statement |
|---|---|
| `Invariance` | `Spec => []IInv` |
| `TypeCorrect` | `Spec => []TypeOK` |
| `EntryPrepared` | `Spec => []KernelEntryPrepared` |
| `OwnsCpu` | `Spec => []CurrentOwnsCpu` |
| `TrapsInvisible` | `Spec => ResumesWhatWasTrapped` |
| `FaultRepairs` | `Spec => VmallocFaultRepairs` |

The argument. That the scratch registers are right now says nothing of what they
will be after a return: `rfe` takes mode and stack from a frame that was written
long ago, perhaps before other tasks ran, and a switch takes its stack pointer
from a thread structure. `IInv` therefore says of every frame and every saved
thread what it says of the CPU. `Frames`: the frames on a stack lead back one by
one, the lowest to user mode, those above it to the kernel code below them.
`Registers`: mode, stack and scratch registers fit the place. `Waiting`: a task
that is not running waits on a stack whose frames are as `Frames` says and at a
place it can go on from. `SwitchState`: how far a switch has come, which may be
the CPU's place or that of the frame an interrupt in the middle of it left
(`Active`), and what its locals then are. `Directory`: the page directory walked,
the one in `scratch3` and the one the task owns, in the same steps. `contexts =
stack` is the step from the invariant to `TrapsInvisible`: a frame is found where
it was put. An induction over actions then closes; the long cases are
`trap_entry`, `rfe` and the two halves of `__switch_to`.

### DriversProofs

For any number of slots, disks, sectors, requests and keyboards. The assumptions:
slots are numbered from 0, the requests ask for sectors of disks there are
(`DiskAssumption`), each keyboard has a sequence of keys to come (`AmtsuAssumption`), no two
devices share an interrupt and the values that stand for none are none
(`DriversAssumption`).

| Theorem | Statement |
|---|---|
| `Invariance` | `Spec => [](LockInv /\ KeyInv /\ DiskInv)` |
| `CompletionsAreExpected` | `Spec => []CompletionsExpected` |
| `Capacities` | `Spec => []CapacityAsReported` |
| `KeyOrder` | `Spec => []KeysArriveInOrder` |
| `Implementation` | `Spec => ImplementsBlockDevice` |

The argument has three parts. `LockInv`: of the three critical sections and the
handlers one runs at a time, and interrupts are on exactly when none does. Every
later step of a section therefore finds what an earlier one left. `KeyInv`: what
the driver believes is selected is selected in the hardware; nothing is reported
of a keyboard whose interrupt is masked; the scancodes reported and those queued
are together those pressed. `DiskInv`: a disk owes at most one answer, which is
on its way in, being transferred, completed or collected by the handler
(`Submitting`, `Transferring`, `Completed`, `Collected`, of which at most one
holds), and for as long as it owes one `xreq` and the disk are there for it
(`AnswerInv`). This is false while the firmware's transfers and completions are
still around, so `EarlyInv` says that nobody looks at them before the probe has
waited for the first and thrown the second away. `ProbeInv` adds that
`DATA1` holds the answer to `INFO` while the probe is about to read it.

The refinement: `queue_rq` is `Submit`, the end of a request's transfer is
`Serve`, `xrarch_disk_complete` is `End`; every other step leaves the abstract
state alone. That a started request is either in flight or served is exactly
that its disk owes one answer.

### What is only model-checked

Liveness (`EventuallyBooted`, `EveryReadEnds`, `EveryLookupEnds`,
`EveryRequestEnds`, `InterruptDrainsQueue`) is out of the prover's reach, as is
what recursive operators compute. Every invariant and every refinement a passing run
checks is a theorem.

## 5. Where code and documentation disagree

- `kernel_load_unaligned`: with a `VirtualAddr` inside a page, a device tree in
  front of it may share its first page. The overlap check compares addresses
  (`main.c:56`), the page mapped last wins (`paging.c:57-59`) and the kernel's
  first bytes are gone, although `PROTOCOL.md:86-89` promises the header there.
- `install_apt_again`: the label is written last so that "the effects of the
  previous steps are invisible unless everything is successful"
  (`install-apt.c:180-181`). On a disk that has a label already they are
  visible at once: a failed second installation leaves the old label on a
  broken image.

- `irq_disable`: `arch_local_irq_restore` writes the old flag *or* the present
  one (patch line 890), and `arch_local_irq_disable` is a restore of 0: it never
  turns interrupts off. Only `arch_local_irq_save` does. The handlers call
  `local_irq_disable()` before `irqentry_exit_to_user_mode` (2687-2688), whose last
  look at the work flags needs it: an interrupt behind that look marks work, and
  the task is in user mode with it undone. What keeps nested traps and switches
  correct all the same is that `trap_entry`, `return_from_trap` and `set_mm` do not
  rely on it; that is `ResumesWhatWasTrapped` and its proof.

Kernels built by the repository's own linker script start at a page, so the
first does not bite there.

Smaller ones without a run:

- `PROTOCOL.md:98-99` has the bootloader refuse a kernel whose device tree area,
  which ends at a page boundary (line 96), reaches beyond `MaxDtbEnd`; `dt.c:289`
  compares the last byte of the blob. With a `MaxDtbEnd` inside a page the area
  ends behind it and the kernel is started.
- `main.c:52` refuses a device tree that starts at `MaxDtbEnd` while
  `PROTOCOL.md:44-45` allows that byte.
- The message at `install-apt.c:133` says 7 characters where the code allows a
  name of 15. Nothing is synced before the label (`install-apt.c:187`), which
  `LabelMeansComplete` therefore claims only while the machine keeps its power.
- A relative link in a directory other than the root frees that directory twice,
  once by the callee and once by the caller (`filesystem.c:333-337`). The second time
  the block is free, and is put into the list of free ranges once more, or it has been
  handed out for the inode the callee returned, and the caller goes on with an inode
  that is free. `Dangling` says when, the model stops there ("undefined"), and
  `InodesBalanced` states that it happens by no other sequence of calls.
- A link's target is read through its inode's pointers (`filesystem.c:329-331`). ext2
  keeps a target of less than 60 bytes in their place, and those bytes are then taken
  for block numbers: the target is what happens to be in such a block, zeros, or the
  bootloader crashes (`LinkUnreadable`). `LookupIsResolution` is about the others;
  `InodesBalanced` and `EveryLookupEnds` hold for both.
- `imageSectors` and `neededSectors` are `uint32_t` (`install-apt.c:162-163`), the copy
  goes by `st.st_size` (167). The size of an image of 2 TiB or more loses its upper bits,
  the image passes the check if what is left is small enough, and is written over the
  partitions. `FitsInCount` keeps such images out of the two properties; the run has them.
- A read of the image that fails is reported by `perror` (`install-apt.c:115`) where
  all others end the program; it ends in the write that follows, whose size is -1.
- The disk driver transfers what the first segment of a request names (patch
  5910-5913, 5941-5942) and ends the whole request when the disk answers (5952).
- In the patch: `_start` computes the "value to write to scratch3", the page
  frame of `swapper_pg_dir`, in `s1` (2829-2830) and writes `t5`, the page table
  entry (2872). `Traps` has `Null` there and shows it to do no harm: until the
  first `set_mm` no vmalloc fault is possible. The comment on swap entries (1298-1309) gives other bits than the
  code (1311-1314, 1165). `dma_alignment` is set to `1U << 9` where the block layer
  takes a mask, 511, as the `BUG_ON` at 5923 assumes (section 6). A domain's last interrupt is
  refused by `hwirq + nr_irqs >= LSIC_IRQS`.

## 6. What the models exclude

Each is a constraint on a constant or on an MC definition, and each is a case
in which the code goes wrong or whose behaviour has no promise to compare with:

- an image that ends at the very end of the address space (`VirtualAddr +
  MSize` = 2^32: `end` is 0 and no BSS page is mapped), and a device tree whose
  area wraps;
- a temporary request that with its header is as large as the address space, or
  aligned to more than a unit (a unit is the alignment of a header; `BL_ALLOCATE` and
  `BL_RESIZE` pass the `_Alignof` of plain structures);
- a permanent block smaller than a header (`memory.c:82`), a block grown in
  place by more than the next range holds (`memory.c:150`; callers grow by one
  array element, less than a header), shrinking (`memory.c:131`: no caller);
- a partition on which a pointer block's address exceeds 32 bits
  (`filesystem.c:158`);
- a directory entry of size 0 (`filesystem.c:242`: the walk stays there); the limit
  on the length of a name (`filesystem.c:220`): a longer one equals no entry's 8-bit
  length and would not be found in any case; a directory's bytes are its
  entries, not read block by block;
- a partition that is not on the disk: `partition.c:130-131` takes start and size
  from the MBR as they are, and `BxReadFromDisk` reads what the disk has and reports
  success, or its difference wraps (`a4x.c:22-24`); buffers that are not aligned, on
  which it crashes (`a4x.c:18`);
- reads beyond the end of a file that start inside it: `avail` is computed as
  position minus size (`filesystem.c:371`), so they are not cut;
  `ReadsTheFile` says what the test does stop, and the bootloader's callers ask
  for no more than the file's size;
- in `boot`, kernels that start inside a page with a device tree to be mapped
  (section 5, `kernel_load_unaligned`) or whose `MaxDtbEnd` is inside a page
  (`IsLoadable`, with the first of this list);
- in `drivers`, requests refused with `BLK_STS_IOERR`, failing registrations of
  the bus and its keyboards, and removal of a device. A request is one transfer: size and
  `COUNT` (patch 5910-5916, 5941-5942) and the `BUG_ON`s at 5886, 5915, 5916 and 5923
  depend on the limits the driver gives the block layer and on that layer keeping them, and
  `CompletionsExpected` says nothing about those four;
- in `install_apt`, a file in the place of the disk: it would grow where a device ends;
- in `traps`, NMIs and the exceptions of kernel code that die: they do not return; and
  preemption, the task switch on the return of an interrupt to kernel code
  (`irqentry_exit` with `CONFIG_PREEMPT`): the port's `defconfig` (patch 134-154) does
  not ask for it, its Kconfig does not exclude it.

## 7. Not modelled, and what is left

Left out for good: formatting in `logging.c`, the assembly that only moves
registers (`main.S`, `transition.S`), the constants of `BxDtPopulate`, the
toolchain ports and the build tool; glue to generic kernel code that is not in
the repository (frame buffer, timer, signals).

Left out of the port, with the reason:

- the linear mapping (`create_linear_mapping_range`, 5000-5334): it runs once over
  an empty page directory; its `pte_phys` is uninitialised only where an entry is
  there already (5174), which no machine this bootloader starts has;
- page table and swap entries (1095-1409): encodings without behaviour of their
  own; TLB flushes: one CPU;
- the UART (6981-7423): its locking and buffers belong to the serial core;
- the atomics (243-355, 480-618): ll/sc loops of the form `Handoff` has for
  `num_started_cpus`; on one CPU an interrupt breaks the link and the loop starts
  over;
- the CPU's own interrupt controller, affinity, and interrupts without a mapping:
  the port asks for one CPU.

What would come next:

1. **Composition.** `Boot` with `DeviceTree`, so that the device tree's size is
   that of the tree and not a constant of the kernel's header; `FileSystem` over
   `DiskReader`.
2. **The kernel port.** The linear mapping and the page table entries with the
   width they have; the UART against what the serial core is known to expect.

`PROJECT.json` lists the hazards, those no property covers with the reason.
