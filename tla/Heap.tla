-------------------------------- MODULE Heap --------------------------------
(***************************************************************************)
(* The bootloader's heap (bootloader/memory.c): a list of the ranges of    *)
(* memory in address order (BlHeapRanges), of which the free ones are also *)
(* in a list searched first fit (BlFreeRanges).  A range starts with its   *)
(* own header, struct HeapRange; a temporary block follows the header of   *)
(* its range, a permanent one has no header and leaves the heap forever.   *)
(*                                                                         *)
(* A unit of memory is HEAP_ALIGNMENT bytes; addresses are units, modulo   *)
(* the size of the address space.                                          *)
(***************************************************************************)
EXTENDS Integers, Sequences, FiniteSets, SequencesExt

CONSTANTS
  HdrSize,       \* sizeof(struct HeapRange)
  WordSize,      \* number of addresses
  ImageEnd,      \* BxImageEnd, the end of the bootloader
  BankInterval,  \* BX_RAM_BANK_INTERVAL
  Machines,      \* the possible contents of RamBanks: units per bank
  Requests,      \* what BlAllocateHeap is asked for
  Growths,       \* by how much BlResizeHeap's callers grow a block
  MaxBlocks      \* bound: temporary blocks alive at a time

\* No temporary block comes so close to the size of the address space that its
\* end would wrap around to its own header, or is aligned to more than a unit.
ASSUME HeapAssumption ==
  /\ HdrSize \in Nat \ {0} /\ WordSize \in Nat /\ MaxBlocks \in Nat
  /\ ImageEnd \in (HdrSize + 1)..WordSize /\ BankInterval \in Nat
  /\ \A m \in Machines :
       /\ IsFiniteSet(DOMAIN m) /\ DOMAIN m = 0..(Cardinality(DOMAIN m) - 1)
       /\ \A i \in DOMAIN m :
            m[i] \in 0..BankInterval /\ i * BankInterval + m[i] <= WordSize
  /\ \A q \in Requests :
       /\ q \in [size : 1..(WordSize - 1), align : 1..WordSize,
                 permanent : BOOLEAN]
       /\ IF q.permanent THEN q.size >= HdrSize
            ELSE q.size + HdrSize < WordSize /\ q.align = 1
  /\ Growths \subseteq 1..HdrSize

VARIABLES
  ramBanks,  \* BxDeviceDatabase->RamBanks
  bank,      \* i of the loop in BxAddMemoryRanges
  heap,      \* BlHeapRanges and the addresses in BlFreeRanges, in order
  memory,    \* the units the heap was given
  live,      \* the temporary blocks the callers hold
  pinned,    \* the permanent blocks
  refused    \* the request that stopped the machine: "out of memory"

vars == <<ramBanks, bank, heap, memory, live, pinned, refused>>

NoRequest == [size |-> 0, align |-> 1, permanent |-> FALSE]

Block(ptr, size) == [ptr |-> ptr, size |-> size]

HeapRange(base, end, free) == [base |-> base, end |-> end, free |-> free]

AlignUp(x, a) == ((x + a - 1) \div a) * a

\* s with its elements lo..hi replaced by those of new.
Splice(s, lo, hi, new) ==
  SubSeq(s, 1, lo - 1) \o new \o SubSeq(s, hi + 1, Len(s))

If(cond, x) == IF cond THEN <<x>> ELSE <<>>

\* BlListRemove from the free list.
Unlink(free, entry) ==
  RemoveAt(free, SelectInSeq(free, LAMBDA base : base = entry))

\* The position in the list of the range with its header at base.
IndexOf(h, base) == SelectInSeq(h.ranges, LAMBDA r : r.base = base)

FreeAt(h, i) == i \in DOMAIN h.ranges /\ h.ranges[i].free

---------------------------------------------------------------------------
(* BlAddHeapRange.                                                         *)

AddHeapRange(h, from, to) ==
  LET p    == Max({0} \union {i \in DOMAIN h.ranges : h.ranges[i].base < from})
      n    == IF p = 0 THEN 0 ELSE p + 1
      base == IF p > 0 /\ h.ranges[p].end > from THEN h.ranges[p].end ELSE from
      end  == IF n \in DOMAIN h.ranges /\ to > h.ranges[n].base
                THEN h.ranges[n].base ELSE to
      mergePrev == FreeAt(h, p) /\ h.ranges[p].end = base
      mergeNext == FreeAt(h, n) /\ h.ranges[n].base = end
      lo  == IF mergePrev THEN p ELSE p + 1
      hi  == IF mergeNext THEN n ELSE p
      new == HeapRange(IF mergePrev THEN h.ranges[p].base ELSE base,
                       IF mergeNext THEN h.ranges[n].end ELSE end, TRUE)
      rest == IF mergeNext THEN Unlink(h.free, end) ELSE h.free
  IN IF \/ base >= end
        \/ ~mergePrev /\ ~mergeNext /\ end - base < HdrSize
       THEN h
       ELSE [ranges |-> Splice(h.ranges, lo, hi, <<new>>),
             free   |-> If(~mergePrev, base) \o rest]

---------------------------------------------------------------------------
(* BlAllocateHeap.                                                         *)

HeadExtra(q) == IF q.permanent THEN 0 ELSE HdrSize

ValueBase(base, q) == AlignUp(base + HeadExtra(q), q.align) % WordSize
AllocBase(base, q) == (ValueBase(base, q) - HeadExtra(q)) % WordSize
AllocEnd(base, q)  == (ValueBase(base, q) + q.size) % WordSize

Fits(r, q) ==
  /\ AllocEnd(r.base, q) >= AllocBase(r.base, q)
  /\ AllocBase(r.base, q) >= r.base
  /\ AllocEnd(r.base, q) < r.end

FitsAt(h, q) ==
  {k \in DOMAIN h.free : Fits(h.ranges[IndexOf(h, h.free[k])], q)}

\* The first entry of the free list that fits.
FirstFit(h, q) == CHOOSE k \in FitsAt(h, q) : \A j \in FitsAt(h, q) : k <= j

\* Mutant: the rest of the range is put in the free list without a look at
\* its size.
CarveAlwaysSplit(h, q) ==
  LET k    == FirstFit(h, q)
      base == h.free[k]
      i    == IndexOf(h, base)
      end  == h.ranges[i].end
      from == AllocBase(base, q)
      to   == AllocEnd(base, q)
      head == from - base >= HdrSize
  IN [ranges |-> Splice(h.ranges, i, i,
                   If(head, HeapRange(base, from, TRUE))
                     \o If(~q.permanent, HeapRange(from, to, FALSE))
                     \o <<HeapRange(to, end, TRUE)>>),
      free   |-> Splice(h.free, k, k, If(head, base) \o <<to>>)]

\* What is left of the range before and after the block stays free if it has
\* room for a header.  A temporary block takes a smaller rest after it; a
\* permanent one leaves no range that could hold it.
Carve(h, q) ==
  LET k    == FirstFit(h, q)
      base == h.free[k]
      i    == IndexOf(h, base)
      end  == h.ranges[i].end
      from == AllocBase(base, q)
      to   == AllocEnd(base, q)
      head == from - base >= HdrSize
      tail == end - to >= HdrSize
  IN [ranges |-> Splice(h.ranges, i, i,
                   If(head, HeapRange(base, from, TRUE))
                     \o If(~q.permanent,
                           HeapRange(from, IF tail THEN to ELSE end, FALSE))
                     \o If(tail, HeapRange(to, end, TRUE))),
      free   |-> Splice(h.free, k, k, If(head, base) \o If(tail, to))]

Carved(h, q) == ValueBase(h.free[FirstFit(h, q)], q)

---------------------------------------------------------------------------
(* BlFreeHeap.                                                             *)

\* Mutant: a freed range is merged with its successor only.
ReleaseForward(h, ptr) ==
  LET i    == IndexOf(h, ptr - HdrSize)
      r    == h.ranges[i]
      next == FreeAt(h, i + 1) /\ h.ranges[i + 1].base = r.end
      hi   == IF next THEN i + 1 ELSE i
  IN [ranges |-> Splice(h.ranges, i, hi,
                   <<HeapRange(r.base, h.ranges[hi].end, TRUE)>>),
      free   |-> <<r.base>> \o
                   (IF next THEN Unlink(h.free, r.end) ELSE h.free)]

\* Mutant: the successor is merged but stays in the free list.
ReleaseStale(h, ptr) ==
  LET i    == IndexOf(h, ptr - HdrSize)
      r    == h.ranges[i]
      prev == FreeAt(h, i - 1) /\ h.ranges[i - 1].end = r.base
      next == FreeAt(h, i + 1) /\ h.ranges[i + 1].base = r.end
      lo   == IF prev THEN i - 1 ELSE i
      hi   == IF next THEN i + 1 ELSE i
  IN [ranges |-> Splice(h.ranges, lo, hi,
                   <<HeapRange(h.ranges[lo].base, h.ranges[hi].end, TRUE)>>),
      free   |-> If(~prev, r.base) \o h.free]

Release(h, ptr) ==
  LET i    == IndexOf(h, ptr - HdrSize)
      r    == h.ranges[i]
      prev == FreeAt(h, i - 1) /\ h.ranges[i - 1].end = r.base
      next == FreeAt(h, i + 1) /\ h.ranges[i + 1].base = r.end
      lo   == IF prev THEN i - 1 ELSE i
      hi   == IF next THEN i + 1 ELSE i
  IN [ranges |-> Splice(h.ranges, lo, hi,
                   <<HeapRange(h.ranges[lo].base, h.ranges[hi].end, TRUE)>>),
      free   |-> If(~prev, r.base) \o
                   (IF next THEN Unlink(h.free, r.end) ELSE h.free)]

---------------------------------------------------------------------------
(* BlResizeHeap.                                                           *)

\* The old size is that of the whole range, with what the block took of a
\* small rest.
OldSize(h, ptr) == h.ranges[IndexOf(h, ptr - HdrSize)].end - ptr

\* Mutant: whether the next free range is adjacent is not checked.
CanExtendAcross(h, ptr) ==
  FreeAt(h, IndexOf(h, ptr - HdrSize) + 1)

CanExtend(h, ptr) ==
  LET i == IndexOf(h, ptr - HdrSize)
  IN FreeAt(h, i + 1) /\ h.ranges[i + 1].base = h.ranges[i].end

\* Give back the end of a block.  No caller shrinks a block by as much as a
\* header, so the header written behind the block's end never is.
Shrink(h, ptr, newSize) ==
  LET i     == IndexOf(h, ptr - HdrSize)
      end   == h.ranges[i].end
      extra == OldSize(h, ptr) - newSize
  IN IF extra < HdrSize THEN h
     ELSE [ranges |-> Splice(h.ranges, i, i,
                        <<HeapRange(ptr - HdrSize, end - extra, FALSE),
                          HeapRange(end, end, TRUE)>>),
           free   |-> <<end>> \o h.free]

\* Mutant: the end of the grown block is the end that was asked for even if
\* the rest is too small for a header.
ExtendExactly(h, ptr, newSize) ==
  LET i    == IndexOf(h, ptr - HdrSize)
      next == h.ranges[i + 1]
      to   == ptr + newSize
      tail == (next.end - to) % WordSize >= HdrSize
  IN [ranges |-> Splice(h.ranges, i, i + 1,
                   <<HeapRange(ptr - HdrSize, to, FALSE)>>
                     \o If(tail, HeapRange(to, next.end, TRUE))),
      free   |-> If(tail, to) \o Unlink(h.free, next.base)]

\* Grow over the free range that follows; whether it is large enough is not
\* checked.
Extend(h, ptr, newSize) ==
  LET i    == IndexOf(h, ptr - HdrSize)
      next == h.ranges[i + 1]
      to   == ptr + newSize
      tail == (next.end - to) % WordSize >= HdrSize
  IN [ranges |-> Splice(h.ranges, i, i + 1,
                   <<HeapRange(ptr - HdrSize,
                               IF tail THEN to ELSE next.end, FALSE)>>
                     \o If(tail, HeapRange(to, next.end, TRUE))),
      free   |-> If(tail, to) \o Unlink(h.free, next.base)]

---------------------------------------------------------------------------
(* The firmware's memory, and the bootloader's use of the heap.            *)

Init ==
  /\ ramBanks \in Machines
  /\ bank = 0
  /\ heap = [ranges |-> <<>>, free |-> <<>>]
  /\ memory = {}
  /\ live = {}
  /\ pinned = {}
  /\ refused = NoRequest

\* One turn of the loop in BxAddMemoryRanges.
AddBank ==
  LET start == bank * BankInterval
      base  == IF start < ImageEnd THEN ImageEnd ELSE start
      end   == start + ramBanks[bank]
  IN /\ bank \in DOMAIN ramBanks
     /\ bank' = bank + 1
     /\ IF base < end
          THEN /\ heap' = AddHeapRange(heap, base, end)
               /\ memory' = memory \union base..(end - 1)
          ELSE UNCHANGED <<heap, memory>>
     /\ UNCHANGED <<ramBanks, live, pinned, refused>>

\* The heap is used when all banks are added and nothing has gone wrong.
Running ==
  /\ bank \notin DOMAIN ramBanks
  /\ refused = NoRequest

Allocate(q) ==
  /\ Running
  /\ q.permanent \/ Cardinality(live) < MaxBlocks
  /\ FitsAt(heap, q) # {}
  /\ heap' = Carve(heap, q)
  /\ LET new == {Block(Carved(heap, q), q.size)}
     IN IF q.permanent
          THEN pinned' = pinned \union new /\ live' = live
          ELSE live' = live \union new /\ pinned' = pinned
  /\ UNCHANGED <<ramBanks, bank, memory, refused>>

\* BlCrash("out of memory") does not return.
OutOfMemory(q) ==
  /\ Running
  /\ FitsAt(heap, q) = {}
  /\ refused' = q
  /\ UNCHANGED <<ramBanks, bank, heap, memory, live, pinned>>

Resized(b, ptr, newSize, h) ==
  /\ heap' = h
  /\ live' = (live \ {b}) \union {Block(ptr, newSize)}
  /\ UNCHANGED <<ramBanks, bank, memory, pinned, refused>>

ResizeInPlace(b, newSize) ==
  /\ Running
  /\ OldSize(heap, b.ptr) >= newSize \/ CanExtend(heap, b.ptr)
  /\ Resized(b, b.ptr, newSize,
       IF OldSize(heap, b.ptr) >= newSize
         THEN Shrink(heap, b.ptr, newSize)
         ELSE Extend(heap, b.ptr, newSize))

\* Allocate, copy, free.
ResizeByMoving(b, newSize) ==
  LET q == [size |-> newSize, align |-> 1, permanent |-> FALSE]
  IN /\ Running
     /\ OldSize(heap, b.ptr) < newSize
     /\ ~CanExtend(heap, b.ptr)
     /\ IF FitsAt(heap, q) # {}
          THEN Resized(b, Carved(heap, q), newSize,
                       Release(Carve(heap, q), b.ptr))
          ELSE OutOfMemory(q)

Free(b) ==
  /\ Running
  /\ heap' = Release(heap, b.ptr)
  /\ live' = live \ {b}
  /\ UNCHANGED <<ramBanks, bank, memory, pinned, refused>>

\* BlCrash returns to the firmware and the bootloader never runs again.
Crashed ==
  /\ refused # NoRequest
  /\ UNCHANGED vars

Next ==
  \/ AddBank
  \/ \E q \in Requests : Allocate(q) \/ OutOfMemory(q)
  \/ \E b \in live :
       \/ Free(b)
       \/ \E growth \in Growths :
            \/ ResizeInPlace(b, b.size + growth)
            \/ ResizeByMoving(b, b.size + growth)
  \/ Crashed

Spec == Init /\ [][Next]_vars

---------------------------------------------------------------------------
(* Properties.                                                             *)

Ranges == Range(heap.ranges)

Interval(r) == r.base..(r.end - 1)

Header(r) == r.base..(r.base + HdrSize - 1)

FreeUnits == UNION {Interval(r) : r \in {s \in Ranges : s.free}}

\* Memory no list and no block accounts for.
Lost ==
  memory \ ((UNION {Interval(r) : r \in Ranges})
              \union (UNION {b.ptr..(b.ptr + b.size - 1) : b \in pinned}))

\* The variables have their types: ranges of the given memory, blocks in it.
TypeOK ==
  /\ ramBanks \in Machines
  /\ bank \in 0..Cardinality(DOMAIN ramBanks)
  /\ memory \subseteq ImageEnd..(WordSize - 1)
  /\ \A r \in Ranges : r.free \in BOOLEAN /\ Interval(r) \subseteq memory
  /\ Range(heap.free) \subseteq memory
  /\ \A b \in live \union pinned : b.ptr \in memory /\ b.size \in 1..WordSize
  /\ IsFiniteSet(live) /\ Cardinality(live) <= MaxBlocks

\* The two lists of memory.c agree whatever the callers did: the ranges are
\* in address order, do not overlap, have room for their header, two free
\* ones never touch, and the free list holds each free one exactly once.
ListsAgree ==
  /\ TypeOK
  /\ \A r \in Ranges : r.end - r.base >= HdrSize
  /\ \A i \in 1..(Len(heap.ranges) - 1) :
       LET r == heap.ranges[i] next == heap.ranges[i + 1]
       IN /\ r.end <= next.base
          /\ r.free /\ next.free => r.end < next.base
  /\ Range(heap.free) = {r.base : r \in {s \in Ranges : s.free}}
  /\ IsInjective(heap.free)

\* No block shares a unit with another block, with a free range or with a
\* header: neither a caller's write nor the heap's own bookkeeping can
\* damage the other.
BlocksIntact ==
  \A b \in live \union pinned :
    LET units == b.ptr..(b.ptr + b.size - 1) IN
    /\ units \cap FreeUnits = {}
    /\ \A r \in Ranges : units \cap Header(r) = {}
    /\ \A c \in (live \union pinned) \ {b} :
         units \cap c.ptr..(c.ptr + c.size - 1) = {}
    /\ b \in live => \E r \in Ranges :
         ~r.free /\ r.base + HdrSize = b.ptr /\ b.ptr + b.size <= r.end

\* Temporary blocks never cost memory: whatever is allocated, grown, moved
\* and freed comes back.  A permanent one loses less than a header on each
\* side of it, and nothing else does.
LossBounded ==
  [][memory' = memory =>
       /\ Lost \subseteq Lost'
       /\ \A unit \in Lost' \ Lost : \E b \in pinned' \ pinned :
            unit \in (b.ptr - HdrSize + 1)..(b.ptr + b.size + HdrSize - 2)]_vars

\* "out of memory" is the truth, up to fragmentation and alignment: no run
\* of free memory is longer than the block with its header and alignment.
OutOfMemoryOnlyWhenFull ==
  refused # NoRequest =>
    \A base \in FreeUnits :
      ~(base..(base + HeadExtra(refused) + refused.size + refused.align - 1)
          \subseteq FreeUnits)

\* The heap keeps the promise of an allocator.
Alloc == INSTANCE Allocator

ImplementsAllocator == Alloc!Spec
=============================================================================
