----------------------------- MODULE MemoryMap ------------------------------
(***************************************************************************)
(* What the bootloader makes of the firmware's table of RAM banks          *)
(* (bootloader/a4x/main.c): its own heap, BxAddMemoryRanges, and the       *)
(* memory nodes of the device tree, BxDtAddMemory, which are what the      *)
(* kernel later takes for its own.  A memory node is its start and end.    *)
(***************************************************************************)
EXTENDS Integers, Sequences, FiniteSets, SequencesExt

CONSTANTS
  Banks,         \* how many banks the table has
  Interval,      \* BX_RAM_BANK_INTERVAL, in pages
  BankSizes,     \* values of PageFrameCount
  ImageEnds      \* values of BxImageEnd, in pages

\* An assumption of the module that instantiates this one (Boot).
MemoryMapAssumption ==
  /\ Banks \in Nat \ {0} /\ Interval \in Nat \ {0}
  /\ BankSizes \subseteq 0..Interval
  /\ ImageEnds \subseteq Nat

VARIABLES
  pages,       \* RamBanks[i].PageFrameCount
  imageEnd,    \* minHeapAddr
  pc,          \* "heap", "tree" or "done"
  i,           \* the bank of the loop
  heap,        \* the calls of BlAddHeapRange
  start, end,  \* BxDtAddMemory's
  nodes        \* the memory nodes

vars == <<pages, imageEnd, pc, i, heap, start, end, nodes>>

Bounds(from, to) == [start |-> from, end |-> to]

Base(bank) == bank * Interval

BankEnd(bank) == Base(bank) + pages[bank]

Init ==
  /\ pages \in [0..(Banks - 1) -> BankSizes]
  /\ imageEnd \in ImageEnds
  /\ pc = "heap"
  /\ i = 0
  /\ heap = <<>>
  /\ start = 0
  /\ end = 0
  /\ nodes = <<>>

\* One turn of BxAddMemoryRanges.
AddMemoryRange ==
  /\ pc = "heap"
  /\ i < Banks
  /\ LET base == Max({Base(i), imageEnd})
     IN heap' = IF pages[i] = 0 \/ base >= BankEnd(i) THEN heap
                ELSE Append(heap, Bounds(base, BankEnd(i)))
  /\ i' = i + 1
  /\ UNCHANGED <<pages, imageEnd, pc, start, end, nodes>>

BeginTree ==
  /\ pc = "heap"
  /\ i = Banks
  /\ pc' = "tree"
  /\ i' = 0
  /\ UNCHANGED <<pages, imageEnd, heap, start, end, nodes>>

\* The nodes with the one that was begun.
Flushed == IF start = end THEN nodes ELSE Append(nodes, Bounds(start, end))

\* A bank behind a gap begins a new node, and the one before is finished.
AddBank ==
  /\ pc = "tree"
  /\ i < Banks
  /\ pages[i] # 0
  /\ IF Base(i) # end
       THEN nodes' = Flushed /\ start' = Base(i)
       ELSE UNCHANGED <<nodes, start>>
  /\ end' = BankEnd(i)
  /\ i' = i + 1
  /\ UNCHANGED <<pages, imageEnd, pc, heap>>

\* Mutant: a bank that is not there ends the node before it.
SkipBankFlushing ==
  /\ pc = "tree"
  /\ i < Banks
  /\ pages[i] = 0
  /\ nodes' = Flushed
  /\ i' = i + 1
  /\ UNCHANGED <<pages, imageEnd, pc, heap, start, end>>

SkipBank ==
  /\ pc = "tree"
  /\ i < Banks
  /\ pages[i] = 0
  /\ i' = i + 1
  /\ UNCHANGED <<pages, imageEnd, pc, heap, start, end, nodes>>

EndTree ==
  /\ pc = "tree"
  /\ i = Banks
  /\ nodes' = Flushed
  /\ pc' = "done"
  /\ UNCHANGED <<pages, imageEnd, i, heap, start, end>>

Next == AddMemoryRange \/ BeginTree \/ AddBank \/ SkipBank \/ EndTree

Spec == Init /\ [][Next]_vars

---------------------------------------------------------------------------
(* Properties.                                                             *)

Pages(range) == range.start..(range.end - 1)

Ram == UNION {Base(b)..(BankEnd(b) - 1) : b \in DOMAIN pages}

Covered(ranges) == UNION {Pages(r) : r \in Range(ranges)}

\* The heap is all RAM behind the bootloader's image and nothing else, in
\* ascending ranges that do not overlap, as BlAddHeapRange relies on.
HeapIsFreeRam ==
  /\ pc # "heap" => Covered(heap) = {p \in Ram : p >= imageEnd}
  /\ \A a, b \in DOMAIN heap : a < b => heap[a].end <= heap[b].start

\* The kernel is told of all RAM and nothing else, each page once, and of
\* memory that is contiguous across banks as one range.
TreeIsRam ==
  pc = "done" =>
    /\ Covered(nodes) = Ram
    /\ \A a, b \in DOMAIN nodes : a < b => nodes[a].end < nodes[b].start
=============================================================================
