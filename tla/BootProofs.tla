----------------------------- MODULE BootProofs -----------------------------
(* Proofs about Boot. *)
EXTENDS TLAPS, Boot, SequenceTheorems, FiniteSetTheorems, WellFoundedInduction

-----------------------------------------------------------------------------
(* Sets of numbers. *)

\* A set of numbers with an upper bound has a largest element.
LEMMA LargestOfSet ==
    ASSUME NEW H \in SUBSET Nat, H # {}, NEW bound \in Nat, \A o \in H : o <= bound
    PROVE  \E p \in H : \A o \in H : o <= p
<1> DEFINE Above == {k \in Nat : \A o \in H : o <= k}
           R == OpToRel(<, Nat)
<1>1. Above # {} /\ Above \subseteq Nat
  OBVIOUS
<1>0. IsWellFoundedOn(R, Nat)
  BY NatLessThanWellFounded, Zenon
<1> HIDE DEF Above, R
<1>2. PICK m \in Above : \A k \in Above : <<k, m>> \notin R
  BY <1>1, <1>0, WFMin
<1>3. \A k \in Above : m <= k
  <2> TAKE k \in Above
  <2>1. k < m => <<k, m>> \in R
    BY <1>1, <1>2 DEF R, OpToRel
  <2> QED
    BY <1>1, <1>2, <2>1
<1> USE DEF Above
<1>4. m \in H
  <2> SUFFICES ASSUME m \notin H PROVE FALSE
    OBVIOUS
  <2>1. \A o \in H : o < m
    BY <1>1
  <2>2. m # 0
    <3>1. PICK o \in H : o \in Nat
      OBVIOUS
    <3> QED
      BY <2>1, <3>1
  <2>3. m - 1 \in Above
    BY <1>1, <2>1, <2>2
  <2> QED
    BY <1>1, <1>3, <2>3
<1> QED
  BY <1>4

-----------------------------------------------------------------------------
(* Lists of ranges. *)

Bounds == [start : Nat, end : Nat]

LEMMA LargerOfTwo ==
    ASSUME NEW a \in Int, NEW b \in Int
    PROVE  Max({a, b}) = IF a <= b THEN b ELSE a
<1> DEFINE m == IF a <= b THEN b ELSE a
<1>1. m \in {a, b} /\ \A y \in {a, b} : m >= y
  OBVIOUS
<1>2. \A x \in {a, b} : (\A y \in {a, b} : x >= y) => x = m
  OBVIOUS
<1> HIDE DEF m
<1>3. Max({a, b}) = m
  BY <1>1, <1>2 DEF Max
<1> QED
  BY <1>3 DEF m

\* The operators the instances take from the community modules are those of Boot.
LEMMA SameOperators ==
    /\ \A s : Memory!Range(s) = Range(s)
    /\ \A S : Memory!Max(S) = Max(S)
BY DEF Memory!Range, Range, Memory!Max, Max

LEMMA Appended ==
    ASSUME NEW S, NEW s \in Seq(S), NEW e \in S
    PROVE  /\ Append(s, e) \in Seq(S) /\ Range(Append(s, e)) = Range(s) \cup {e}
           /\ DOMAIN Append(s, e) = 1 .. (Len(s) + 1) /\ DOMAIN s = 1 .. Len(s)
           /\ Len(s) \in Nat
           /\ \A i \in DOMAIN s : Append(s, e)[i] = s[i] /\ s[i] \in Range(s)
           /\ Append(s, e)[Len(s) + 1] = e
<1>1. /\ Append(s, e) \in Seq(S) /\ Len(Append(s, e)) = Len(s) + 1
      /\ \A i \in 1 .. Len(s) : Append(s, e)[i] = s[i]
      /\ Append(s, e)[Len(s) + 1] = e
  BY AppendProperties
<1>2. DOMAIN Append(s, e) = 1 .. (Len(s) + 1) /\ DOMAIN s = 1 .. Len(s) /\ Len(s) \in Nat
  BY <1>1, LenProperties
<1>3. Range(Append(s, e)) = {Append(s, e)[i] : i \in 1 .. (Len(s) + 1)}
  BY <1>2 DEF Range
<1>4. Range(s) = {s[i] : i \in 1 .. Len(s)}
  BY <1>2 DEF Range
<1>5. \A i \in 1 .. (Len(s) + 1) : i \in 1 .. Len(s) \/ i = Len(s) + 1
  BY <1>2
<1>6. Len(s) + 1 \in 1 .. (Len(s) + 1) /\ \A i \in 1 .. Len(s) : i \in 1 .. (Len(s) + 1)
  BY <1>2
<1>7. Range(Append(s, e)) = Range(s) \cup {e}
  BY <1>1, <1>3, <1>4, <1>5, <1>6
<1> QED
  BY <1>1, <1>2, <1>7 DEF Range

-----------------------------------------------------------------------------
(* BxAddMemoryRanges and BxDtAddMemory. *)

RamBelow(n) == UNION {Memory!Base(b) .. (Memory!BankEnd(b) - 1) : b \in 0 .. (n - 1)}

MemTypes ==
    /\ pages \in [0 .. (Banks - 1) -> 0 .. Interval] /\ imageEnd \in Nat
    /\ memoryPc \in {"heap", "tree", "done"} /\ bank \in 0 .. Banks

\* The heap after n banks.
HeapUpTo(n) ==
    /\ heap \in Seq(Bounds)
    /\ \A r \in Range(heap) :
         imageEnd <= r.start /\ r.start < r.end /\ r.end <= Memory!Base(n)
    /\ \A a, b \in DOMAIN heap : a < b => heap[a].end <= heap[b].start
    /\ Memory!Covered(heap) = {p \in RamBelow(n) : p >= imageEnd}

Separated(list) == \A a, b \in DOMAIN list : a < b => list[a].end < list[b].start

\* The memory nodes after n banks: the last one is not finished.
TreeUpTo(n) ==
    /\ nodes \in Seq(Bounds) /\ start \in Nat /\ end \in Nat
    /\ start <= end /\ end <= Memory!Base(n)
    /\ start = end => end = 0 /\ nodes = <<>>
    /\ \A r \in Range(nodes) : r.start < r.end /\ r.end < start
    /\ Separated(nodes)
    /\ Memory!Covered(nodes) \cup start .. (end - 1) = RamBelow(n)

MemInv ==
    /\ MemTypes
    /\ HeapUpTo(IF memoryPc = "heap" THEN bank ELSE Banks)
    /\ memoryPc = "heap" => nodes = <<>> /\ start = 0 /\ end = 0
    /\ memoryPc = "tree" => TreeUpTo(bank)
    /\ memoryPc = "done" =>
         /\ nodes \in Seq(Bounds) /\ Separated(nodes)
         /\ Memory!Covered(nodes) = RamBelow(Banks)

LEMMA MemAssumptions ==
    /\ Banks \in Nat \ {0} /\ Interval \in Nat \ {0}
    /\ BankSizes \subseteq 0 .. Interval /\ ImageEnds \subseteq Nat
BY BootAssumption DEF Memory!MemoryMapAssumption

LEMMA BaseFacts ==
    ASSUME NEW n \in Nat
    PROVE  /\ Memory!Base(n) \in Nat /\ Memory!Base(n + 1) = Memory!Base(n) + Interval
           /\ Memory!Base(0) = 0
<1>1. Interval \in Nat
  BY MemAssumptions
<1>2. n * Interval \in Nat /\ (n + 1) * Interval = n * Interval + Interval /\ 0 * Interval = 0
  BY <1>1
<1> QED
  BY <1>2 DEF Memory!Base

LEMMA BankFacts ==
    ASSUME MemTypes, NEW n \in 0 .. (Banks - 1)
    PROVE  /\ n \in Nat /\ n + 1 \in 0 .. Banks /\ pages[n] \in 0 .. Interval
           /\ Memory!Base(n) \in Nat /\ Memory!BankEnd(n) \in Nat
           /\ Memory!BankEnd(n) = Memory!Base(n) + pages[n]
           /\ Memory!BankEnd(n) <= Memory!Base(n + 1)
<1>1. n \in Nat /\ pages[n] \in 0 .. Interval /\ n + 1 \in 0 .. Banks
  BY MemAssumptions DEF MemTypes
<1>2. /\ Memory!Base(n) \in Nat /\ Memory!Base(n + 1) = Memory!Base(n) + Interval
      /\ Interval \in Nat
  BY <1>1, BaseFacts, MemAssumptions
<1>3. Memory!BankEnd(n) = Memory!Base(n) + pages[n]
  BY DEF Memory!BankEnd
<1> QED
  BY <1>1, <1>2, <1>3

LEMMA RamGrows ==
    ASSUME NEW n \in Nat
    PROVE  /\ RamBelow(n + 1) =
                RamBelow(n) \cup (Memory!Base(n) .. (Memory!BankEnd(n) - 1))
           /\ RamBelow(0) = {}
<1>1. /\ 0 .. (n + 1 - 1) = 0 .. (n - 1) \cup {n} /\ 0 .. (0 - 1) = {}
  OBVIOUS
<1> DEFINE F(b) == Memory!Base(b) .. (Memory!BankEnd(b) - 1)
<1>2. UNION {F(b) : b \in 0 .. (n - 1) \cup {n}} = (UNION {F(b) : b \in 0 .. (n - 1)}) \cup F(n)
  OBVIOUS
<1>3. UNION {F(b) : b \in {}} = {}
  OBVIOUS
<1> QED
  BY <1>1, <1>2, <1>3 DEF RamBelow

LEMMA CoveredAppended ==
    ASSUME NEW s \in Seq(Bounds), NEW a \in Nat, NEW b \in Nat
    PROVE  /\ Memory!Bounds(a, b) \in Bounds
           /\ Memory!Covered(Append(s, Memory!Bounds(a, b))) =
                Memory!Covered(s) \cup (a .. (b - 1))
<1> DEFINE e == Memory!Bounds(a, b)
<1>1. e \in Bounds /\ e.start = a /\ e.end = b
  BY DEF Memory!Bounds, Bounds
<1>2. Range(Append(s, e)) = Range(s) \cup {e}
  BY <1>1, Appended
<1>3. Memory!Pages(e) = a .. (b - 1)
  BY <1>1 DEF Memory!Pages
<1>4. UNION {Memory!Pages(r) : r \in Range(s) \cup {e}} =
        (UNION {Memory!Pages(r) : r \in Range(s)}) \cup Memory!Pages(e)
  OBVIOUS
<1> QED
  BY <1>1, <1>2, <1>3, <1>4, SameOperators DEF Memory!Covered

LEMMA NoRanges ==
    /\ <<>> \in Seq(Bounds) /\ Memory!Covered(<<>>) = {} /\ Range(<<>>) = {}
    /\ Separated(<<>>) /\ \A a, b \in DOMAIN <<>> : FALSE
<1>1. DOMAIN <<>> = {} /\ <<>> \in Seq(Bounds)
  OBVIOUS
<1>2. Range(<<>>) = {}
  BY <1>1 DEF Range
<1>3. Memory!Covered(<<>>) = UNION {Memory!Pages(r) : r \in {}}
  BY <1>2, SameOperators DEF Memory!Covered
<1> QED
  BY <1>1, <1>2, <1>3 DEF Separated

LEMMA MemInit == Init => MemInv
<1> SUFFICES ASSUME Init PROVE MemInv
  OBVIOUS
<1>1. /\ pages \in [0 .. (Banks - 1) -> BankSizes] /\ imageEnd \in ImageEnds
      /\ memoryPc = "heap" /\ bank = 0 /\ heap = <<>> /\ start = 0 /\ end = 0
      /\ nodes = <<>>
  BY DEF Init, Memory!Init
<1>2. MemTypes
  <2>1. pages \in [0 .. (Banks - 1) -> 0 .. Interval] /\ imageEnd \in Nat
    BY <1>1, MemAssumptions, Zenon
  <2>2. bank \in 0 .. Banks
    BY <1>1, MemAssumptions
  <2> QED
    BY <1>1, <2>1, <2>2 DEF MemTypes
<1>3. RamBelow(0) = {}
  BY RamGrows, 0 \in Nat
<1>4. HeapUpTo(0)
  BY <1>1, <1>3, NoRanges DEF HeapUpTo
<1> QED
  BY <1>1, <1>2, <1>4 DEF MemInv

LEMMA AddMemoryRangeStep ==
    ASSUME MemInv, Memory!AddMemoryRange
    PROVE  MemInv'
<1> DEFINE base == Max({Memory!Base(bank), imageEnd})
           to == Memory!BankEnd(bank)
<1>1. /\ memoryPc = "heap" /\ memoryPc' = "heap" /\ bank' = bank + 1
      /\ bank \in 0 .. (Banks - 1) /\ UNCHANGED <<pages, imageEnd, start, end, nodes>>
  BY MemAssumptions DEF MemInv, MemTypes, Memory!AddMemoryRange
<1>2. MemTypes /\ HeapUpTo(bank) /\ nodes = <<>> /\ start = 0 /\ end = 0
  BY <1>1 DEF MemInv
<1>3. /\ bank \in Nat /\ bank + 1 \in 0 .. Banks /\ Memory!Base(bank) \in Nat
      /\ to \in Nat /\ Memory!Base(bank) <= to /\ to <= Memory!Base(bank + 1)
      /\ to = Memory!Base(bank) + pages[bank] /\ pages[bank] \in Nat /\ imageEnd \in Nat
      /\ Memory!Base(bank + 1) \in Nat
  <2> HIDE DEF base
  <2>1. /\ bank \in Nat /\ bank + 1 \in 0 .. Banks /\ pages[bank] \in 0 .. Interval
        /\ Memory!Base(bank) \in Nat /\ to \in Nat /\ to = Memory!Base(bank) + pages[bank]
        /\ to <= Memory!Base(bank + 1)
    BY <1>1, <1>2, BankFacts, Zenon
  <2> HIDE DEF to
  <2>2. Memory!Base(bank + 1) \in Nat
    BY <2>1, BaseFacts
  <2> QED
    BY <1>2, <2>1, <2>2 DEF MemTypes
<1>4. base = (IF Memory!Base(bank) <= imageEnd THEN imageEnd ELSE Memory!Base(bank))
  BY <1>3, LargerOfTwo
<1>5. heap' = IF pages[bank] = 0 \/ base >= to THEN heap
              ELSE Append(heap, Memory!Bounds(base, to))
  BY SameOperators DEF Memory!AddMemoryRange
<1>6. RamBelow(bank + 1) = RamBelow(bank) \cup (Memory!Base(bank) .. (to - 1))
  BY <1>3, RamGrows
<1>7. RamBelow(bank)' = RamBelow(bank + 1)
  BY <1>1 DEF RamBelow, Memory!BankEnd
<1>8. \A r : Memory!Covered(r)' = Memory!Covered(r)
  BY DEF Memory!Covered, Memory!Pages, Memory!Range
<1> HIDE DEF base, to
<1>9. /\ heap \in Seq(Bounds) /\ Memory!Covered(heap) = {p \in RamBelow(bank) : p >= imageEnd}
      /\ \A r \in Range(heap) :
           imageEnd <= r.start /\ r.start < r.end /\ r.end <= Memory!Base(bank)
      /\ \A a, b \in DOMAIN heap : a < b => heap[a].end <= heap[b].start
  BY <1>2 DEF HeapUpTo
<1>10. \A r \in Range(heap) : r \in Bounds
  BY <1>9 DEF Range
<1>11. HeapUpTo(bank)'
  <2>1. CASE pages[bank] = 0 \/ base >= to
    <3>1. heap' = heap
      BY <1>5, <2>1
    <3>2. {p \in RamBelow(bank + 1) : p >= imageEnd} = {p \in RamBelow(bank) : p >= imageEnd}
      BY <1>3, <1>4, <1>6, <2>1
    <3>3. \A r \in Range(heap) : r.end <= Memory!Base(bank + 1)
      BY <1>3, <1>9, <1>10 DEF Bounds
    <3> QED
      BY <1>1, <1>7, <1>8, <1>9, <3>1, <3>2, <3>3 DEF HeapUpTo
  <2>2. CASE ~(pages[bank] = 0 \/ base >= to)
    <3> DEFINE e == Memory!Bounds(base, to)
    <3>1. /\ heap' = Append(heap, e) /\ base \in Nat /\ base < to
          /\ Memory!Base(bank) <= base /\ imageEnd <= base
      BY <1>3, <1>4, <1>5, <2>2
    <3>2. /\ e \in Bounds
          /\ Memory!Covered(heap') = Memory!Covered(heap) \cup (base .. (to - 1))
      BY <1>3, <1>9, <3>1, CoveredAppended
    <3>3. e.start = base /\ e.end = to
      BY DEF Memory!Bounds
    <3>4. {p \in RamBelow(bank + 1) : p >= imageEnd} =
            {p \in RamBelow(bank) : p >= imageEnd} \cup (base .. (to - 1))
      BY <1>3, <1>4, <1>6, <3>1
    <3> HIDE DEF e
    <3>5. /\ heap' \in Seq(Bounds) /\ Range(heap') = Range(heap) \cup {e}
          /\ DOMAIN heap' = 1 .. (Len(heap) + 1) /\ DOMAIN heap = 1 .. Len(heap)
          /\ Len(heap) \in Nat
          /\ \A i \in DOMAIN heap : heap'[i] = heap[i] /\ heap[i] \in Range(heap)
          /\ heap'[Len(heap) + 1] = e
      BY <1>9, <3>1, <3>2, Appended
    <3>6. \A r \in Range(heap') :
            imageEnd <= r.start /\ r.start < r.end /\ r.end <= Memory!Base(bank + 1)
      BY <1>3, <1>9, <1>10, <3>1, <3>3, <3>5 DEF Bounds
    <3>7. ASSUME NEW a \in DOMAIN heap', NEW b \in DOMAIN heap', a < b
          PROVE  heap'[a].end <= heap'[b].start
      <4>1. a \in DOMAIN heap /\ heap'[a] = heap[a] /\ heap[a] \in Range(heap)
        BY <3>5, <3>7
      <4>2. CASE b \in DOMAIN heap
        BY <1>9, <3>5, <3>7, <4>1, <4>2
      <4>3. CASE b \notin DOMAIN heap
        <5>1. heap'[b] = e
          BY <3>5, <4>3
        <5>2. heap[a].end <= Memory!Base(bank) /\ heap[a] \in Bounds
          BY <1>9, <1>10, <4>1
        <5> QED
          BY <1>3, <3>1, <3>3, <4>1, <5>1, <5>2 DEF Bounds
      <4> QED
        BY <4>2, <4>3
    <3>8. Memory!Covered(heap') = {p \in RamBelow(bank + 1) : p >= imageEnd}
      BY <1>9, <3>2, <3>4
    <3> QED
      BY <1>1, <1>7, <1>8, <3>5, <3>6, <3>7, <3>8 DEF HeapUpTo
  <2> QED
    BY <2>1, <2>2
<1>12. MemTypes'
  BY <1>1, <1>2, <1>3 DEF MemTypes
<1> QED
  BY <1>1, <1>2, <1>11, <1>12 DEF MemInv

LEMMA BeginTreeStep ==
    ASSUME MemInv, Memory!BeginTree
    PROVE  MemInv'
<1>1. /\ memoryPc = "heap" /\ bank = Banks /\ memoryPc' = "tree" /\ bank' = 0
      /\ UNCHANGED <<pages, imageEnd, heap, start, end, nodes>>
  BY DEF Memory!BeginTree
<1>2. MemTypes /\ HeapUpTo(Banks) /\ nodes = <<>> /\ start = 0 /\ end = 0
  BY <1>1 DEF MemInv
<1>3. MemTypes'
  BY <1>1, <1>2, MemAssumptions DEF MemTypes
<1>4. \A n : RamBelow(n)' = RamBelow(n)
  BY <1>1 DEF RamBelow, Memory!BankEnd
<1>5. HeapUpTo(Banks)'
  BY <1>1, <1>2, <1>4 DEF HeapUpTo, Memory!Covered, Memory!Pages, Memory!Range
<1>6. RamBelow(0) = {} /\ Memory!Base(0) = 0
  BY RamGrows, BaseFacts, 0 \in Nat
<1>7. TreeUpTo(bank)'
  <2>1. /\ nodes' = <<>> /\ start' = 0 /\ end' = 0 /\ bank' = 0
        /\ RamBelow(bank)' = {} /\ Memory!Base(bank') = 0
    BY <1>1, <1>2, <1>4, <1>6 DEF RamBelow, Memory!BankEnd
  <2>2. 0 .. (0 - 1) = {}
    OBVIOUS
  <2> QED
    BY <2>1, <2>2, NoRanges DEF TreeUpTo, Memory!Covered, Memory!Pages, Memory!Range, Separated
<1> QED
  BY <1>1, <1>3, <1>5, <1>7 DEF MemInv

\* What Flushed is made of, and what is true of it.
LEMMA FlushedFacts ==
    ASSUME NEW n \in Nat, TreeUpTo(n), NEW from \in Nat, end <= from,
           start = end \/ end < from
    PROVE  /\ Memory!Flushed \in Seq(Bounds) /\ Separated(Memory!Flushed)
           /\ Memory!Covered(Memory!Flushed) = RamBelow(n)
           /\ \A r \in Range(Memory!Flushed) : r.start < r.end /\ r.end < from
<1>1. /\ nodes \in Seq(Bounds) /\ start \in Nat /\ end \in Nat /\ start <= end
      /\ start = end => end = 0 /\ nodes = <<>>
      /\ \A r \in Range(nodes) : r.start < r.end /\ r.end < start
      /\ Separated(nodes)
      /\ Memory!Covered(nodes) \cup start .. (end - 1) = RamBelow(n)
  BY DEF TreeUpTo
<1>2. CASE start = end
  <2>1. Memory!Flushed = nodes /\ nodes = <<>>
    BY <1>1, <1>2 DEF Memory!Flushed
  <2>2. start .. (end - 1) = {}
    BY <1>1, <1>2
  <2>3. Memory!Covered(nodes) = RamBelow(n)
    BY <1>1, <2>2
  <2> QED
    BY <1>1, <2>1, <2>3, NoRanges
<1>3. CASE start # end
  <2> DEFINE e == Memory!Bounds(start, end)
  <2>1. Memory!Flushed = Append(nodes, e)
    BY <1>3 DEF Memory!Flushed
  <2>2. /\ e \in Bounds
        /\ Memory!Covered(Append(nodes, e)) = Memory!Covered(nodes) \cup (start .. (end - 1))
    BY <1>1, CoveredAppended
  <2>3. e.start = start /\ e.end = end
    BY DEF Memory!Bounds
  <2> HIDE DEF e
  <2> DEFINE f == Append(nodes, e)
  <2>4. /\ f \in Seq(Bounds) /\ Range(f) = Range(nodes) \cup {e}
        /\ DOMAIN f = 1 .. (Len(nodes) + 1) /\ DOMAIN nodes = 1 .. Len(nodes)
        /\ Len(nodes) \in Nat
        /\ \A i \in DOMAIN nodes : f[i] = nodes[i] /\ nodes[i] \in Range(nodes)
        /\ f[Len(nodes) + 1] = e
    BY <1>1, <2>2, Appended
  <2>5. \A r \in Range(nodes) : r \in Bounds
    BY <1>1 DEF Range
  <2> HIDE DEF f
  <2>6. \A r \in Range(f) : r.start < r.end /\ r.end < from
    BY <1>1, <1>3, <2>3, <2>4, <2>5 DEF Bounds
  <2>7. ASSUME NEW a \in DOMAIN f, NEW b \in DOMAIN f, a < b
        PROVE  f[a].end < f[b].start
    <3>1. a \in DOMAIN nodes /\ f[a] = nodes[a] /\ nodes[a] \in Range(nodes)
      BY <2>4, <2>7
    <3>2. CASE b \in DOMAIN nodes
      BY <1>1, <2>4, <2>7, <3>1, <3>2 DEF Separated
    <3>3. CASE b \notin DOMAIN nodes
      <4>1. f[b] = e
        BY <2>4, <3>3
      <4> QED
        BY <1>1, <2>3, <3>1, <4>1
    <3> QED
      BY <3>2, <3>3
  <2> QED
    BY <1>1, <2>1, <2>2, <2>4, <2>6, <2>7 DEF Separated, f
<1> QED
  BY <1>2, <1>3

LEMMA AddBankStep ==
    ASSUME MemInv, Memory!AddBank
    PROVE  MemInv'
<1> DEFINE from == Memory!Base(bank)
           to == Memory!BankEnd(bank)
<1>1. /\ memoryPc = "tree" /\ memoryPc' = "tree" /\ bank' = bank + 1 /\ pages[bank] # 0
      /\ bank \in 0 .. (Banks - 1) /\ UNCHANGED <<pages, imageEnd, heap>> /\ end' = to
      /\ IF from # end THEN nodes' = Memory!Flushed /\ start' = from
         ELSE UNCHANGED <<nodes, start>>
  BY MemAssumptions DEF MemInv, MemTypes, Memory!AddBank
<1>2. MemTypes /\ HeapUpTo(Banks) /\ TreeUpTo(bank)
  BY <1>1 DEF MemInv
<1>3. /\ bank \in Nat /\ bank + 1 \in 0 .. Banks /\ from \in Nat /\ to \in Nat
      /\ from < to /\ to <= Memory!Base(bank + 1)
  <2>1. /\ bank \in Nat /\ bank + 1 \in 0 .. Banks /\ pages[bank] \in 0 .. Interval
        /\ from \in Nat /\ to \in Nat /\ to = from + pages[bank]
        /\ to <= Memory!Base(bank + 1)
    BY <1>1, <1>2, BankFacts, Zenon
  <2> HIDE DEF from, to
  <2> QED
    BY <1>1, <2>1, MemAssumptions
<1>4. RamBelow(bank + 1) = RamBelow(bank) \cup (from .. (to - 1))
  BY <1>3, RamGrows
<1>5. \A n : RamBelow(n)' = RamBelow(n)
  BY <1>1 DEF RamBelow, Memory!BankEnd
<1>6. RamBelow(bank)' = RamBelow(bank + 1)
  BY <1>1 DEF RamBelow, Memory!BankEnd
<1>7. HeapUpTo(Banks)'
  BY <1>1, <1>2, <1>5 DEF HeapUpTo, Memory!Covered, Memory!Pages, Memory!Range
<1>8. MemTypes'
  BY <1>1, <1>2, <1>3 DEF MemTypes
<1>9. \A s : Memory!Covered(s)' = Memory!Covered(s)
  BY DEF Memory!Covered, Memory!Pages, Memory!Range
<1>10. /\ nodes \in Seq(Bounds) /\ start \in Nat /\ end \in Nat /\ start <= end /\ end <= from
       /\ start = end => end = 0 /\ nodes = <<>>
       /\ \A r \in Range(nodes) : r.start < r.end /\ r.end < start
       /\ Separated(nodes)
       /\ Memory!Covered(nodes) \cup start .. (end - 1) = RamBelow(bank)
  BY <1>2 DEF TreeUpTo
<1> HIDE DEF from, to
<1>11. TreeUpTo(bank)'
  <2>1. CASE from # end
    <3>1. /\ nodes' \in Seq(Bounds) /\ Separated(nodes')
          /\ Memory!Covered(nodes') = RamBelow(bank)
          /\ \A r \in Range(nodes') : r.start < r.end /\ r.end < from
      BY <1>1, <1>2, <1>3, <1>10, <2>1, FlushedFacts
    <3>2. start' = from /\ end' = to
      BY <1>1, <2>1
    <3> QED
      BY <1>1, <1>3, <1>4, <1>6, <1>9, <3>1, <3>2 DEF TreeUpTo, Separated
  <2>2. CASE from = end
    <3>1. nodes' = nodes /\ start' = start /\ end' = to
      BY <1>1, <2>2
    <3>2. start .. (to - 1) = start .. (end - 1) \cup from .. (to - 1)
      BY <1>3, <1>10, <2>2
    <3>3. Memory!Covered(nodes) \cup start .. (to - 1) = RamBelow(bank + 1)
      BY <1>4, <1>10, <3>2
    <3>4. start < to
      BY <1>3, <1>10, <2>2
    <3> QED
      BY <1>1, <1>3, <1>6, <1>9, <1>10, <3>1, <3>3, <3>4 DEF TreeUpTo, Separated
  <2> QED
    BY <2>1, <2>2
<1> QED
  BY <1>1, <1>7, <1>8, <1>11 DEF MemInv

LEMMA SkipBankStep ==
    ASSUME MemInv, Memory!SkipBank
    PROVE  MemInv'
<1> DEFINE from == Memory!Base(bank)
           to == Memory!BankEnd(bank)
<1>1. /\ memoryPc = "tree" /\ memoryPc' = "tree" /\ bank' = bank + 1 /\ pages[bank] = 0
      /\ bank \in 0 .. (Banks - 1)
      /\ UNCHANGED <<pages, imageEnd, heap, start, end, nodes>>
  BY MemAssumptions DEF MemInv, MemTypes, Memory!SkipBank
<1>2. MemTypes /\ HeapUpTo(Banks) /\ TreeUpTo(bank)
  BY <1>1 DEF MemInv
<1>3. /\ bank \in Nat /\ bank + 1 \in 0 .. Banks /\ from \in Nat /\ to = from + 0
      /\ to <= Memory!Base(bank + 1)
  BY <1>1, <1>2, BankFacts, Zenon
<1> HIDE DEF from, to
<1>4. from .. (to - 1) = {} /\ from <= Memory!Base(bank + 1)
  BY <1>3
<1>5. RamBelow(bank + 1) = RamBelow(bank)
  BY <1>3, <1>4, RamGrows DEF from, to
<1>6. RamBelow(bank)' = RamBelow(bank) /\ \A n : RamBelow(n)' = RamBelow(n)
  BY <1>1, <1>5 DEF RamBelow, Memory!BankEnd
<1>7. HeapUpTo(Banks)'
  BY <1>1, <1>2, <1>6 DEF HeapUpTo, Memory!Covered, Memory!Pages, Memory!Range
<1>8. MemTypes'
  BY <1>1, <1>2, <1>3 DEF MemTypes
<1>9. \A s : Memory!Covered(s)' = Memory!Covered(s)
  BY DEF Memory!Covered, Memory!Pages, Memory!Range
<1>10. end <= Memory!Base(bank + 1) /\ end \in Nat
  <2>1. end <= from /\ end \in Nat
    BY <1>2 DEF TreeUpTo, from
  <2>2. Memory!Base(bank + 1) \in Nat
    BY <1>3, BaseFacts
  <2> QED
    BY <1>3, <1>4, <2>1, <2>2
<1>11. TreeUpTo(bank)'
  BY <1>1, <1>2, <1>6, <1>9, <1>10 DEF TreeUpTo, Separated
<1> QED
  BY <1>1, <1>7, <1>8, <1>11 DEF MemInv

LEMMA EndTreeStep ==
    ASSUME MemInv, Memory!EndTree
    PROVE  MemInv'
<1>1. /\ memoryPc = "tree" /\ bank = Banks /\ memoryPc' = "done" /\ nodes' = Memory!Flushed
      /\ UNCHANGED <<pages, imageEnd, bank, heap, start, end>>
  BY DEF Memory!EndTree
<1>2. MemTypes /\ HeapUpTo(Banks) /\ TreeUpTo(Banks) /\ Banks \in Nat
  BY <1>1, MemAssumptions DEF MemInv
<1>3. end \in Nat /\ end <= end + 1 /\ end < end + 1 /\ end + 1 \in Nat
  BY <1>2 DEF TreeUpTo
<1>4. /\ nodes' \in Seq(Bounds) /\ Separated(nodes')
      /\ Memory!Covered(nodes') = RamBelow(Banks)
  BY <1>1, <1>2, <1>3, FlushedFacts
<1>5. /\ \A n : RamBelow(n)' = RamBelow(n)
      /\ \A s : Memory!Covered(s)' = Memory!Covered(s)
  BY <1>1 DEF RamBelow, Memory!BankEnd, Memory!Covered, Memory!Pages, Memory!Range
<1>6. HeapUpTo(Banks)'
  BY <1>1, <1>2, <1>5 DEF HeapUpTo
<1>7. MemTypes'
  BY <1>1, <1>2 DEF MemTypes
<1> QED
  BY <1>1, <1>4, <1>5, <1>6, <1>7 DEF MemInv, Separated

\* No other part of the bootloader touches the memory map.
MemoryInv == MemInv /\ (phase # "memory" => memoryPc = "done")

LEMMA MemKept ==
    ASSUME MemInv, UNCHANGED memoryVars
    PROVE  MemInv'
<1>1. UNCHANGED <<pages, imageEnd, memoryPc, bank, heap, start, end, nodes>>
  BY DEF memoryVars
<1>2. /\ \A n : RamBelow(n)' = RamBelow(n)
      /\ \A s : Memory!Covered(s)' = Memory!Covered(s)
  BY <1>1 DEF RamBelow, Memory!BankEnd, Memory!Covered, Memory!Pages, Memory!Range
<1>3. MemTypes' = MemTypes /\ (\A n : HeapUpTo(n)' = HeapUpTo(n))
  BY <1>1, <1>2 DEF MemTypes, HeapUpTo
<1>4. \A n : TreeUpTo(n)' = TreeUpTo(n)
  BY <1>1, <1>2 DEF TreeUpTo, Separated
<1> QED
  BY <1>1, <1>2, <1>3, <1>4 DEF MemInv, Separated

LEMMA MemoryInvariant == Spec => []MemoryInv
<1>1. Init => MemoryInv
  BY MemInit DEF MemoryInv, Init
<1>2. MemoryInv /\ [Next]_vars => MemoryInv'
  <2> SUFFICES ASSUME MemoryInv, [Next]_vars PROVE MemoryInv'
    OBVIOUS
  <2>1. MemInv
    BY DEF MemoryInv
  <2>2. CASE MemoryStep
    <3>1. phase = "memory" /\ phase' = "memory" /\ Memory!Next
      BY <2>2 DEF MemoryStep
    <3>2. MemInv'
      BY <2>1, <3>1, AddMemoryRangeStep, BeginTreeStep, AddBankStep, SkipBankStep,
         EndTreeStep DEF Memory!Next
    <3> QED
      BY <3>1, <3>2 DEF MemoryInv
  <2>3. CASE UNCHANGED memoryVars /\ (phase # "memory" \/ UNCHANGED phase \/ EndMemory)
    <3>1. MemInv' /\ memoryPc' = memoryPc
      BY <2>1, <2>3, MemKept DEF memoryVars
    <3>2. phase' # "memory" => memoryPc = "done"
      BY <2>3 DEF MemoryInv, EndMemory
    <3> QED
      BY <3>1, <3>2 DEF MemoryInv
  <2>4. CASE EndMemory
    BY <2>3, <2>4 DEF EndMemory
  <2>5. CASE ReadMbr \/ SkipPartition \/ TryPartition \/ NoRootPartition
    BY <2>3, <2>5 DEF ReadMbr, SkipPartition, TryPartition, NoRootPartition
  <2>6. CASE ConfigStep \/ EndConfig
    BY <2>3, <2>6 DEF ConfigStep, EndConfig
  <2>7. CASE ProcessStdout \/ NoInitrd \/ LoadInitrd \/ InitrdFails \/ ProcessCommandLine
    BY <2>3, <2>7 DEF ProcessStdout, NoInitrd, LoadInitrd, InitrdFails, ProcessCommandLine
  <2>8. CASE OpenKernel \/ LoadStep \/ EndLoad
    BY <2>3, <2>8 DEF OpenKernel, LoadStep, EndLoad
  <2>9. CASE Left \/ UNCHANGED vars
    BY <2>3, <2>9 DEF Left, vars
  <2> QED
    BY <2>2, <2>4, <2>5, <2>6, <2>7, <2>8, <2>9 DEF Next
<1> QED
  BY <1>1, <1>2, PTL DEF Spec

LEMMA MemoryMeaning == MemoryInv => RamAsBanksSay
<1> SUFFICES ASSUME MemoryInv PROVE RamAsBanksSay
  OBVIOUS
<1>1. MemTypes /\ HeapUpTo(IF memoryPc = "heap" THEN bank ELSE Banks)
  BY DEF MemoryInv, MemInv
<1>2. DOMAIN pages = 0 .. (Banks - 1)
  BY <1>1 DEF MemTypes
<1>3. Memory!Ram = RamBelow(Banks)
  BY <1>2 DEF Memory!Ram, RamBelow
<1>4. Memory!HeapIsFreeRam
  BY <1>1, <1>3 DEF Memory!HeapIsFreeRam, HeapUpTo
<1>5. Memory!TreeIsRam
  BY <1>3 DEF MemoryInv, MemInv, Memory!TreeIsRam, Separated
<1> QED
  BY <1>4, <1>5 DEF RamAsBanksSay

\* BxAddMemoryRanges and BxDtAddMemory agree with the firmware's table, however
\* many banks it has and whatever is in them: the heap is the RAM behind the
\* image, in ascending ranges, and the kernel is told of all RAM, each page once.
THEOREM RamIsAsBanksSay == Spec => []RamAsBanksSay
BY MemoryInvariant, MemoryMeaning, PTL

-----------------------------------------------------------------------------
(* BlFindRootPartition. *)

SearchedPhases == {"config", "stdout", "initrd", "bootargs", "kernel", "load", "started"}

\* None of the partitions before k could have been the root partition.
NoneBefore(k) ==
    \A j \in 1 .. (k - 1) :
      Used(disk.partitions[j]) => disk.partitions[j].content \in {"foreign", "bare"}

\* The search is at a partition that none before it made unnecessary, or at the
\* one it ended with.
RootInv ==
    /\ IsDisk(disk)
    /\ phase \in {"memory", "mbr", "search"} => record \in Nat \ {0} /\ NoneBefore(record)
    /\ phase \in SearchedPhases =>
         /\ root \in DOMAIN disk.partitions /\ root \in Nat \ {0} /\ NoneBefore(root)
         /\ Used(disk.partitions[root]) /\ disk.partitions[root].content = "root"
         /\ mounted = root

LEMMA RootKept ==
    ASSUME RootInv, UNCHANGED searchVars,
           \/ UNCHANGED phase \/ phase' = "crashed"
           \/ phase = "memory" /\ phase' = "mbr"
           \/ phase = "mbr" /\ phase' = "search"
           \/ phase \in SearchedPhases /\ phase' \in SearchedPhases
    PROVE  RootInv'
<1>1. UNCHANGED <<disk, record, root, mounted>>
  BY DEF searchVars
<1>2. \A k : NoneBefore(k)' = NoneBefore(k)
  BY <1>1 DEF NoneBefore, Used
<1> QED
  BY <1>1, <1>2 DEF RootInv, SearchedPhases, Used, IsDisk

LEMMA RootInvariant == Spec => []RootInv
<1>1. Init => RootInv
  <2> SUFFICES ASSUME Init PROVE RootInv
    OBVIOUS
  <2>1. phase = "memory" /\ record = 1 /\ IsDisk(disk)
    BY BootAssumption DEF Init
  <2>2. 1 .. (record - 1) = {}
    BY <2>1
  <2> QED
    BY <2>1, <2>2 DEF RootInv, NoneBefore, SearchedPhases
<1>2. RootInv /\ [Next]_vars => RootInv'
  <2> SUFFICES ASSUME RootInv, [Next]_vars PROVE RootInv'
    OBVIOUS
  <2>1. CASE SkipPartition \/ TryPartition
    <3> DEFINE content == disk.partitions[record].content
    <3>1. /\ phase = "search" /\ UNCHANGED disk /\ record <= Len(disk.partitions)
          /\ IsDisk(disk) /\ record \in Nat \ {0} /\ NoneBefore(record)
      BY <2>1 DEF SkipPartition, TryPartition, RootInv
    <3>2. record \in DOMAIN disk.partitions
      BY <3>1 DEF IsDisk
    <3>3. record + 1 \in Nat \ {0}
          /\ \A j \in 1 .. (record + 1 - 1) : j \in 1 .. (record - 1) \/ j = record
      BY <3>1
    <3>4. IsDisk(disk)' /\ \A k : NoneBefore(k)' <=> NoneBefore(k)
      BY <3>1 DEF IsDisk, NoneBefore, Used
    <3>5. CASE SkipPartition
      <4>1. phase' = "search" /\ record' = record + 1 /\ ~Used(disk.partitions[record])
        BY <3>1, <3>5 DEF SkipPartition
      <4>2. NoneBefore(record + 1)
        BY <3>1, <3>3, <4>1 DEF NoneBefore
      <4> QED
        BY <3>3, <3>4, <4>1, <4>2 DEF RootInv, SearchedPhases
    <3>6. CASE TryPartition
      <4>1. /\ root' = record /\ Used(disk.partitions[record])
            /\ mounted' = IF content \in {"bare", "root"} THEN record ELSE 0
            /\ record' = IF content = "root" THEN record ELSE record + 1
            /\ IF content = "short" THEN phase' = "crashed"
               ELSE IF content = "root" THEN phase' = "config"
               ELSE phase' = phase
        BY <3>6 DEF TryPartition, Crash, GoTo
      <4>2. content \in {"short", "foreign", "bare", "root"}
        <5> DEFINE Entries == [indicator : 0 .. 255, type : 0 .. 255, size : Nat,
                               content : {"short", "foreign", "bare", "root"}]
        <5> HIDE DEF Entries
        <5>1. disk.partitions \in Seq(Entries)
          BY <3>1 DEF IsDisk, Entries
        <5>2. disk.partitions[record] \in Entries
          BY <3>2, <5>1, ElementOfSeq, LenProperties
        <5> USE DEF Entries
        <5> QED
          BY <5>2
      <4>3. CASE content = "root"
        BY <3>1, <3>2, <3>4, <4>1, <4>3 DEF RootInv, SearchedPhases, Used
      <4>4. CASE content = "short"
        BY <3>4, <4>1, <4>4 DEF RootInv, SearchedPhases
      <4>5. CASE content \in {"foreign", "bare"}
        <5>1. NoneBefore(record + 1)
          BY <3>1, <3>3, <4>5 DEF NoneBefore
        <5> QED
          BY <3>1, <3>3, <3>4, <4>1, <4>5, <5>1 DEF RootInv, SearchedPhases
      <4> QED
        BY <4>2, <4>3, <4>4, <4>5
    <3> QED
      BY <2>1, <3>5, <3>6
  <2>2. CASE MemoryStep \/ EndMemory \/ ReadMbr \/ NoRootPartition
    BY <2>2, RootKept
    DEF MemoryStep, EndMemory, ReadMbr, NoRootPartition, Crash, GoTo
  <2>3. CASE ConfigStep \/ EndConfig
    BY <2>3, RootKept DEF ConfigStep, EndConfig, Crash, GoTo, SearchedPhases
  <2>4. CASE ProcessStdout \/ NoInitrd \/ LoadInitrd \/ InitrdFails \/ ProcessCommandLine
    BY <2>4, RootKept
    DEF ProcessStdout, NoInitrd, LoadInitrd, InitrdFails, ProcessCommandLine, Crash, GoTo,
        SearchedPhases
  <2>5. CASE OpenKernel \/ LoadStep \/ EndLoad
    BY <2>5, RootKept DEF OpenKernel, LoadStep, EndLoad, Crash, GoTo, SearchedPhases
  <2>6. CASE Left \/ UNCHANGED vars
    BY <2>6, RootKept DEF Left, vars
  <2> QED
    BY <2>1, <2>2, <2>3, <2>4, <2>5, <2>6 DEF Next
<1> QED
  BY <1>1, <1>2, PTL DEF Spec

\* BlFindRootPartition takes the first partition that is in use and has the file,
\* on a disk of any number of partitions, and what was learnt from one that was
\* tried before is not used afterwards.
THEOREM RootIsTheFirstBootable == Spec => []RootIsFirstBootable
<1>1. RootInv => RootIsFirstBootable
  BY DEF RootInv, RootIsFirstBootable, SearchedPhases, NoneBefore, Used
<1> QED
  BY <1>1, RootInvariant, PTL

-----------------------------------------------------------------------------
(* BlLoadConfigurationFromFile.  A line is looked at behind its whitespace, the    *)
(* code by indices into what is left of the file, Lines without them.              *)

LEMMA ConfigAssumptions ==
    /\ Whitespace \subseteq Characters
    /\ {Newline, Colon, Hash} \subseteq Characters \ Whitespace
    /\ Newline \notin {Colon, Hash} /\ Colon # Hash
    /\ Required \subseteq Options /\ Options \subseteq Seq(Characters)
    /\ SizeMax \in Nat
    /\ \A o \in Options : o # <<>> /\ {Newline, Colon, Hash} \cap Configuration!Range(o) = {}
    /\ \A o \in Options : Head(o) \notin Whitespace
    /\ \A f \in Files : f \in Seq(Characters) /\ Len(f) < SizeMax
BY BootAssumption DEF Configuration!ConfigAssumption

LEMMA SmallestIs ==
    ASSUME NEW S \in SUBSET Int, NEW m \in S, \A y \in S : m <= y
    PROVE  Configuration!Min(S) = m
<1>1. \A x \in S : (\A y \in S : x <= y) => x = m
  OBVIOUS
<1> QED
  BY <1>1 DEF Configuration!Min

LEMMA LargestIs ==
    ASSUME NEW S \in SUBSET Int, NEW m \in S, \A y \in S : m >= y
    PROVE  Configuration!Max(S) = m
<1>1. \A x \in S : (\A y \in S : x >= y) => x = m
  OBVIOUS
<1> QED
  BY <1>1 DEF Configuration!Max

\* A set of numbers that is not empty has a smallest element.
LEMMA SmallestOfSet ==
    ASSUME NEW H \in SUBSET Nat, H # {}
    PROVE  \E m \in H : (\A k \in H : m <= k) /\ Configuration!Min(H) = m
<1> DEFINE R == OpToRel(<, Nat)
<1>1. IsWellFoundedOn(R, Nat)
  BY NatLessThanWellFounded, Zenon
<1> HIDE DEF R
<1>2. PICK m \in H : \A k \in H : <<k, m>> \notin R
  BY <1>1, WFMin
<1>3. \A k \in H : m <= k
  <2> TAKE k \in H
  <2>1. k < m => <<k, m>> \in R
    BY DEF R, OpToRel
  <2> QED
    BY <1>2, <2>1
<1>4. Configuration!Min(H) = m
  <2>1. H \in SUBSET Int
    OBVIOUS
  <2> QED
    BY <1>3, <2>1, SmallestIs
<1> QED
  BY <1>3, <1>4

\* Find is the first index with the character, or SizeMax.
LEMMA Finds ==
    ASSUME NEW text \in Seq(Characters), NEW n \in 0 .. Len(text), NEW c
    PROVE  LET k == Configuration!Find(text, c, n)
           IN \/ k = SizeMax /\ \A i \in 1 .. n : text[i] # c
              \/ /\ k \in 0 .. (n - 1) /\ text[k + 1] = c
                 /\ \A i \in 1 .. k : text[i] # c
<1> DEFINE part == SubSeq(text, 1, n)
           I == {i \in 1 .. Len(part) : part[i] = c}
           k == Configuration!Find(text, c, n)
<1>1. n \in Nat /\ n <= Len(text) /\ \A i \in 1 .. n : text[i] \in Characters
  <2>1. Len(text) \in Nat /\ \A i \in 1 .. Len(text) : text[i] \in Characters
    BY LenProperties, ElementOfSeq
  <2> QED
    BY <2>1
<1>2. Len(part) = n /\ \A i \in 1 .. n : part[i] = text[i]
  <2>1. /\ Len(part) = IF 1 <= n THEN n - 1 + 1 ELSE 0
        /\ \A i \in 1 .. (n - 1 + 1) : part[i] = text[1 + i - 1]
    BY <1>1, SubSeqProperties
  <2> HIDE DEF part
  <2> QED
    BY <1>1, <2>1
<1>3. k = LET j == IF I # {} THEN Configuration!Min(I) ELSE 0
          IN IF j = 0 THEN SizeMax ELSE j - 1
  BY DEF Configuration!Find, Configuration!SelectInSeq
<1> HIDE DEF part, k
<1>4. ASSUME I = {} PROVE k = SizeMax /\ \A i \in 1 .. n : text[i] # c
  BY <1>2, <1>3, <1>4
<1>5. ASSUME I # {}
      PROVE  k \in 0 .. (n - 1) /\ text[k + 1] = c /\ \A i \in 1 .. k : text[i] # c
  <2>1. I \in SUBSET Nat
    BY <1>1, <1>2
  <2>2. PICK m \in I : (\A i \in I : m <= i) /\ Configuration!Min(I) = m
    BY <1>5, <2>1, SmallestOfSet
  <2>3. m \in 1 .. n /\ text[m] = c /\ k = m - 1 /\ m \in Nat
    BY <1>1, <1>2, <1>3, <1>5, <2>2
  <2>4. \A i \in 1 .. k : text[i] # c
    <3> TAKE i \in 1 .. k
    <3>1. i \in 1 .. n /\ i < m
      BY <1>1, <2>3
    <3>2. part[i] = c => i \in I
      BY <1>2, <3>1
    <3> QED
      BY <1>2, <2>2, <2>3, <3>1, <3>2
  <2>5. k \in 0 .. (n - 1) /\ text[k + 1] = c
    BY <1>1, <2>3
  <2> QED
    BY <2>4, <2>5
<1>6. \/ k = SizeMax /\ \A i \in 1 .. n : text[i] # c
      \/ k \in 0 .. (n - 1) /\ text[k + 1] = c /\ \A i \in 1 .. k : text[i] # c
  BY <1>4, <1>5
<1> QED
  BY <1>6 DEF k

\* The whitespace that begins a text is its first s characters.
Blank(text, s) ==
    /\ s \in 0 .. Len(text) /\ \A i \in 1 .. s : text[i] \in Whitespace
    /\ s < Len(text) => text[s + 1] \notin Whitespace

LEMMA Skipped ==
    ASSUME NEW text \in Seq(Characters)
    PROVE  /\ \E s \in 0 .. Len(text) : Blank(text, s)
           /\ \A s : Blank(text, s) =>
                Configuration!SkipWhitespace(text) = SubSeq(text, s + 1, Len(text))
<1> DEFINE I == {i \in 1 .. Len(text) : text[i] \notin Whitespace}
           n == Len(text)
<1>1. n \in Nat /\ DOMAIN text = 1 .. n
  BY LenProperties
<1>2. Configuration!SkipWhitespace(text)
        = IF I = {} THEN <<>>
          ELSE SubSeq(text, IF I # {} THEN Configuration!Min(I) ELSE 0, n)
  <2>1. I = {} <=> Configuration!Range(text) \subseteq Whitespace
    BY <1>1 DEF Configuration!Range
  <2>2. Configuration!SelectInSeq(text, LAMBDA c : c \notin Whitespace)
          = IF I # {} THEN Configuration!Min(I) ELSE 0
    BY DEF Configuration!SelectInSeq
  <2> HIDE DEF I
  <2> QED
    BY <2>1, <2>2 DEF Configuration!SkipWhitespace
<1>3. CASE I = {}
  <2>1. \A s : Blank(text, s) => s = n
    <3> SUFFICES ASSUME NEW s, Blank(text, s) PROVE s = n
      OBVIOUS
    <3>1. s \in 0 .. n /\ (s < n => text[s + 1] \notin Whitespace)
      BY DEF Blank
    <3>2. ~(s < n)
      <4> SUFFICES ASSUME s < n PROVE FALSE
        OBVIOUS
      <4>1. s + 1 \in 1 .. n
        BY <1>1, <3>1
      <4> QED
        BY <1>3, <3>1, <4>1
    <3> HIDE DEF n, I
    <3> QED
      BY <1>1, <3>1, <3>2
  <2>2. Blank(text, n)
    BY <1>1, <1>3 DEF Blank
  <2>3. SubSeq(text, n + 1, n) = <<>>
    BY <1>1, SubSeqEmpty
  <2> QED
    BY <1>1, <1>2, <1>3, <2>1, <2>2, <2>3
<1>4. CASE I # {}
  <2>1. I \in SUBSET Nat
    BY <1>1
  <2>2. PICK m \in I : (\A i \in I : m <= i) /\ Configuration!Min(I) = m
    BY <1>4, <2>1, SmallestOfSet
  <2>3. m \in 1 .. n /\ m - 1 \in 0 .. n /\ m - 1 + 1 = m /\ text[m] \notin Whitespace
    BY <1>1, <2>2
  <2>4. \A i \in 1 .. (m - 1) : text[i] \in Whitespace
    <3> TAKE i \in 1 .. (m - 1)
    <3>1. i \in 1 .. n /\ ~(m <= i)
      BY <1>1, <2>3
    <3> QED
      BY <2>2, <3>1
  <2>5. Blank(text, m - 1)
    BY <2>3, <2>4 DEF Blank
  <2>6. ASSUME NEW s, Blank(text, s) PROVE s = m - 1
    <3>1. s \in 0 .. n /\ ~(m \in 1 .. s)
      BY <2>3, <2>6 DEF Blank
    <3>2. s < n => s + 1 \in I
      BY <1>1, <2>6, <3>1 DEF Blank
    <3>3. s < m /\ s < n
      BY <1>1, <2>3, <3>1
    <3>4. m <= s + 1
      BY <2>2, <3>2, <3>3
    <3> QED
      BY <1>1, <2>3, <3>1, <3>3, <3>4
  <2> QED
    BY <1>2, <1>4, <2>2, <2>3, <2>5, <2>6
<1> QED
  BY <1>3, <1>4

FileIs == file \in Seq(Characters) /\ Len(file) < SizeMax

Breaks == {0} \cup {k \in DOMAIN file : file[k] = Newline}

\* The line behind break b ends in front of e.
Row(b) == Configuration!Lines[b]

RowEnds(b, e) ==
    /\ e \in (b + 1) .. (Len(file) + 1) /\ Row(b) = SubSeq(file, b + 1, e - 1)
    /\ \A k \in (b + 1) .. (e - 1) : file[k] # Newline
    /\ e <= Len(file) => e \in Breaks
    /\ \A k \in Breaks : k > b => k >= e

LEMMA FileFacts ==
    ASSUME FileIs
    PROVE  /\ Len(file) \in Nat /\ DOMAIN file = 1 .. Len(file)
           /\ \A k \in 1 .. Len(file) : file[k] \in Characters
           /\ Breaks \subseteq 0 .. Len(file) /\ DOMAIN Configuration!Lines = Breaks
           /\ \A k \in Breaks : k # 0 => file[k] = Newline
<1>1. /\ Len(file) \in Nat /\ DOMAIN file = 1 .. Len(file)
      /\ \A k \in 1 .. Len(file) : file[k] \in Characters
  BY LenProperties, ElementOfSeq DEF FileIs
<1>2. DOMAIN Configuration!Lines = Breaks
  BY DEF Configuration!Lines, Breaks
<1> QED
  BY <1>1, <1>2 DEF Breaks

LEMMA RowFacts ==
    ASSUME FileIs, NEW b \in Breaks
    PROVE  \E e : RowEnds(b, e)
<1> DEFINE later == {k \in Breaks : k > b} \cup {Len(file) + 1}
           n == Len(file)
<1>1. /\ n \in Nat /\ DOMAIN file = 1 .. n /\ Breaks \subseteq 0 .. n
      /\ \A k \in Breaks : k # 0 => file[k] = Newline
      /\ \A k \in 1 .. n : file[k] = Newline => k \in Breaks
  BY FileFacts DEF Breaks
<1>2. b \in 0 .. n /\ n + 1 \in Nat
  BY <1>1
<1>3. Row(b) = SubSeq(file, b + 1, Configuration!Min(later) - 1)
  BY DEF Row, Configuration!Lines, Breaks
<1> HIDE DEF n
<1>4. later \in SUBSET Nat /\ later # {} /\ n + 1 \in later
      /\ \A k \in later : k > b /\ (k \in Breaks \/ k = n + 1)
  <2>1. later = {k \in Breaks : k > b} \cup {n + 1}
    BY DEF n
  <2>2. n + 1 > b /\ \A k \in Breaks : k \in Nat
    BY <1>1, <1>2
  <2> HIDE DEF later
  <2>3. later \subseteq Nat /\ n + 1 \in later
    BY <1>2, <2>1, <2>2
  <2>4. \A k \in later : k > b /\ (k \in Breaks \/ k = n + 1)
    BY <2>1, <2>2
  <2> QED
    BY <2>3, <2>4
<1>5. PICK e \in later : (\A k \in later : e <= k) /\ Configuration!Min(later) = e
  BY <1>4, SmallestOfSet
<1>6. e \in (b + 1) .. (n + 1) /\ (e <= n => e \in Breaks)
  <2>1. e > b /\ (e \in Breaks \/ e = n + 1) /\ e <= n + 1 /\ e \in Nat
    BY <1>4, <1>5
  <2> HIDE DEF later
  <2> QED
    BY <1>1, <1>2, <2>1
<1>7. \A k \in Breaks : k > b => k >= e
  BY <1>1, <1>2, <1>5, <1>6
<1>8. \A k \in (b + 1) .. (e - 1) : file[k] # Newline
  <2> TAKE k \in (b + 1) .. (e - 1)
  <2>1. k \in 1 .. n /\ k > b /\ ~(k >= e)
    BY <1>1, <1>2, <1>6
  <2> QED
    BY <1>1, <1>7, <2>1
<1> QED
  BY <1>3, <1>5, <1>6, <1>7, <1>8 DEF RowEnds, n

\* What is left of the file begins with the line; behind its whitespace too.
LEMMA Turn ==
    ASSUME FileIs, buffer \in Breaks, buffer < Len(file),
           NEW text, text = Configuration!SkipWhitespace(Configuration!Text),
           NEW row, row = Configuration!SkipWhitespace(Row(buffer))
    PROVE  /\ text \in Seq(Characters) /\ row \in Seq(Characters)
           /\ Len(row) <= Len(text) /\ Len(text) <= Len(file)
           /\ \A i \in 1 .. Len(row) : text[i] = row[i] /\ row[i] # Newline
           /\ Len(row) < Len(text) => text[Len(row) + 1] = Newline
           /\ RowEnds(buffer, Len(file) - Len(text) + Len(row) + 1)
           /\ Len(row) > 0 => row[1] \notin Whitespace
<1> DEFINE n == Len(file)
           whole == Configuration!Text
<1>1. /\ n \in Nat /\ (\A k \in 1 .. n : file[k] \in Characters)
      /\ Breaks \subseteq 0 .. n /\ \A k \in Breaks : k # 0 => file[k] = Newline
  BY FileFacts
<1>2. PICK e : RowEnds(buffer, e)
  BY RowFacts
<1> HIDE DEF n
<1>3. buffer \in Nat /\ buffer < n
  BY <1>1 DEF n
<1>4. /\ e \in (buffer + 1) .. (n + 1) /\ Row(buffer) = SubSeq(file, buffer + 1, e - 1)
      /\ \A k \in (buffer + 1) .. (e - 1) : file[k] # Newline
      /\ e <= n => file[e] = Newline
  BY <1>1, <1>2, <1>3 DEF RowEnds, n
<1>5. e \in Nat /\ buffer + 1 <= e /\ e <= n + 1
  BY <1>1, <1>3, <1>4
<1>6. /\ whole \in Seq(Characters) /\ Len(whole) = n - buffer
      /\ \A k \in 1 .. (n - buffer) : whole[k] = file[buffer + k]
  <2>1. \A k \in (buffer + 1) .. n : file[k] \in Characters
    BY <1>1, <1>3
  <2>2. /\ SubSeq(file, buffer + 1, n) \in Seq(Characters)
        /\ Len(SubSeq(file, buffer + 1, n)) = IF buffer + 1 <= n THEN n - (buffer + 1) + 1 ELSE 0
        /\ \A k \in 1 .. (n - (buffer + 1) + 1) :
             SubSeq(file, buffer + 1, n)[k] = file[buffer + 1 + k - 1]
    BY <1>1, <1>3, <2>1, SubSeqProperties
  <2>3. whole = SubSeq(file, buffer + 1, n)
    BY DEF Configuration!Text, n
  <2> HIDE DEF whole
  <2>4. n - (buffer + 1) + 1 = n - buffer /\ buffer + 1 <= n
        /\ \A k \in 1 .. (n - buffer) : buffer + 1 + k - 1 = buffer + k
    BY <1>1, <1>3
  <2> QED
    BY <2>2, <2>3, <2>4
<1> DEFINE m == e - 1 - buffer
           line0 == Row(buffer)
<1>7. /\ line0 \in Seq(Characters) /\ Len(line0) = m /\ m \in 0 .. (n - buffer)
      /\ \A k \in 1 .. m : line0[k] = file[buffer + k]
  <2>1. \A k \in (buffer + 1) .. (e - 1) : file[k] \in Characters
    BY <1>1, <1>3, <1>5
  <2>2. /\ SubSeq(file, buffer + 1, e - 1) \in Seq(Characters)
        /\ Len(SubSeq(file, buffer + 1, e - 1))
             = IF buffer + 1 <= e - 1 THEN e - 1 - (buffer + 1) + 1 ELSE 0
        /\ \A k \in 1 .. (e - 1 - (buffer + 1) + 1) :
             SubSeq(file, buffer + 1, e - 1)[k] = file[buffer + 1 + k - 1]
    BY <1>3, <1>5, <2>1, SubSeqProperties
  <2>3. line0 = SubSeq(file, buffer + 1, e - 1)
    BY <1>4
  <2> HIDE DEF line0
  <2>4. /\ e - 1 - (buffer + 1) + 1 = m /\ m \in 0 .. (n - buffer)
        /\ (~(buffer + 1 <= e - 1) => m = 0)
        /\ \A k \in 1 .. m : buffer + 1 + k - 1 = buffer + k
    BY <1>1, <1>3, <1>5
  <2> HIDE DEF m
  <2> QED
    BY <2>2, <2>3, <2>4
<1>8. \A k \in 1 .. m : whole[k] = line0[k] /\ line0[k] # Newline
  <2> TAKE k \in 1 .. m
  <2>1. k \in 1 .. (n - buffer) /\ buffer + k \in (buffer + 1) .. (e - 1)
    BY <1>1, <1>3, <1>5
  <2> QED
    BY <1>4, <1>6, <1>7, <2>1
<1>9. m < n - buffer => whole[m + 1] = Newline /\ m + 1 \in 1 .. (n - buffer)
  <2> SUFFICES ASSUME m < n - buffer
               PROVE  whole[m + 1] = Newline /\ m + 1 \in 1 .. (n - buffer)
    OBVIOUS
  <2>1. m + 1 \in 1 .. (n - buffer) /\ buffer + (m + 1) = e /\ e <= n
    BY <1>1, <1>3, <1>5, <1>7
  <2> QED
    BY <1>4, <1>6, <2>1
<1> HIDE DEF whole, line0, m
<1>10. PICK s \in 0 .. m : Blank(line0, s)
  BY <1>7, Skipped
<1>11. Blank(whole, s)
  <2>1. s \in 0 .. (n - buffer) /\ \A k \in 1 .. s : k \in 1 .. m
    BY <1>1, <1>3, <1>7
  <2>2. \A k \in 1 .. s : whole[k] \in Whitespace
    BY <1>8, <1>10, <2>1 DEF Blank
  <2>3. s < n - buffer => whole[s + 1] \notin Whitespace
    <3>1. CASE s < m
      <4>1. s + 1 \in 1 .. m
        BY <1>7, <3>1
      <4> QED
        BY <1>7, <1>8, <1>10, <3>1, <4>1 DEF Blank
    <3>2. CASE s = m
      BY <1>9, <3>2, ConfigAssumptions
    <3> QED
      BY <1>7, <3>1, <3>2
  <2> QED
    BY <1>6, <2>1, <2>2, <2>3 DEF Blank
<1>12. text = SubSeq(whole, s + 1, n - buffer) /\ row = SubSeq(line0, s + 1, m)
  BY <1>6, <1>7, <1>10, <1>11, Skipped DEF whole, line0
<1>13. /\ text \in Seq(Characters) /\ Len(text) = n - buffer - s
       /\ \A k \in 1 .. (n - buffer - s) : text[k] = whole[s + k]
  <2> DEFINE to == n - buffer
  <2>1. to \in Nat /\ s \in 0 .. to /\ \A k \in (s + 1) .. to : k \in 1 .. Len(whole)
    BY <1>1, <1>3, <1>6, <1>7
  <2> HIDE DEF to
  <2>2. \A k \in (s + 1) .. to : whole[k] \in Characters
    BY <1>6, <2>1, ElementOfSeq
  <2>3. /\ SubSeq(whole, s + 1, to) \in Seq(Characters)
        /\ Len(SubSeq(whole, s + 1, to)) = IF s + 1 <= to THEN to - (s + 1) + 1 ELSE 0
        /\ \A k \in 1 .. (to - (s + 1) + 1) :
             SubSeq(whole, s + 1, to)[k] = whole[s + 1 + k - 1]
    BY <2>1, <2>2, SubSeqProperties
  <2>4. to - (s + 1) + 1 = to - s /\ (~(s + 1 <= to) => to - s = 0)
        /\ \A k \in 1 .. (to - s) : s + 1 + k - 1 = s + k
    BY <2>1
  <2>5. text = SubSeq(whole, s + 1, to)
    BY <1>12 DEF to
  <2>6. text \in Seq(Characters) /\ Len(text) = to - s
        /\ \A k \in 1 .. (to - s) : text[k] = whole[s + k]
    BY <2>3, <2>4, <2>5
  <2> QED
    BY <2>6 DEF to
<1>14. /\ row \in Seq(Characters) /\ Len(row) = m - s
       /\ \A k \in 1 .. (m - s) : row[k] = line0[s + k]
  <2>1. m \in Nat /\ \A k \in (s + 1) .. m : k \in 1 .. Len(line0)
    BY <1>1, <1>3, <1>7
  <2>2. \A k \in (s + 1) .. m : line0[k] \in Characters
    BY <1>7, <2>1, ElementOfSeq
  <2>3. /\ SubSeq(line0, s + 1, m) \in Seq(Characters)
        /\ Len(SubSeq(line0, s + 1, m)) = IF s + 1 <= m THEN m - (s + 1) + 1 ELSE 0
        /\ \A k \in 1 .. (m - (s + 1) + 1) :
             SubSeq(line0, s + 1, m)[k] = line0[s + 1 + k - 1]
    BY <2>1, <2>2, SubSeqProperties
  <2>4. m - (s + 1) + 1 = m - s /\ (~(s + 1 <= m) => m - s = 0)
        /\ \A k \in 1 .. (m - s) : s + 1 + k - 1 = s + k
    BY <2>1
  <2> QED
    BY <1>12, <2>3, <2>4
<1>15. /\ Len(row) <= Len(text) /\ Len(text) <= n
       /\ n - Len(text) + Len(row) + 1 = e
       /\ (Len(row) < Len(text) => m < n - buffer)
  BY <1>1, <1>3, <1>5, <1>7, <1>13, <1>14 DEF m
<1>16. \A i \in 1 .. Len(row) : text[i] = row[i] /\ row[i] # Newline
  <2> TAKE i \in 1 .. Len(row)
  <2>1. i \in 1 .. (m - s) /\ i \in 1 .. (n - buffer - s) /\ s + i \in 1 .. m
    BY <1>1, <1>3, <1>7, <1>14
  <2> QED
    BY <1>8, <1>13, <1>14, <2>1
<1>17. Len(row) < Len(text) => text[Len(row) + 1] = Newline
  <2> SUFFICES ASSUME Len(row) < Len(text) PROVE text[Len(row) + 1] = Newline
    OBVIOUS
  <2>1. m - s + 1 \in 1 .. (n - buffer - s) /\ s + (m - s + 1) = m + 1
    BY <1>1, <1>3, <1>7, <1>15
  <2>2. text[m - s + 1] = whole[m + 1]
    BY <1>13, <2>1
  <2> QED
    BY <1>9, <1>14, <1>15, <2>2
<1>18. Len(row) > 0 => row[1] \notin Whitespace
  <2> SUFFICES ASSUME Len(row) > 0 PROVE row[1] \notin Whitespace
    OBVIOUS
  <2>1. s < m /\ 1 \in 1 .. (m - s)
    BY <1>7, <1>14
  <2>2. row[1] = line0[s + 1]
    BY <1>14, <2>1
  <2> QED
    BY <1>7, <1>10, <2>1, <2>2 DEF Blank
<1> QED
  BY <1>2, <1>13, <1>14, <1>15, <1>16, <1>17, <1>18 DEF n

\* Sets, by positions: the option's name, then a colon.
LEMMA SetsByPosition ==
    ASSUME NEW text \in Seq(Characters), NEW o \in Options
    PROVE  Append(o, Colon) \in Configuration!Prefixes(text)
             <=> /\ Len(o) < Len(text) /\ text[Len(o) + 1] = Colon
                 /\ \A i \in 1 .. Len(o) : text[i] = o[i]
<1> DEFINE named == Append(o, Colon)
           n == Len(o)
           m == Len(text)
<1>1. /\ n \in Nat /\ m \in Nat /\ named \in Seq(Characters) /\ Len(named) = n + 1
      /\ \A i \in 1 .. n : named[i] = o[i]
      /\ named[n + 1] = Colon
  <2>1. o \in Seq(Characters) /\ Colon \in Characters
    BY ConfigAssumptions
  <2> QED
    BY <2>1, LenProperties, AppendProperties
<1>2. \A k \in 0 .. m : /\ SubSeq(text, 1, k) \in Seq(Characters) /\ Len(SubSeq(text, 1, k)) = k
                        /\ \A i \in 1 .. k : SubSeq(text, 1, k)[i] = text[i]
  <2> TAKE k \in 0 .. m
  <2>1. k \in Int /\ \A i \in 1 .. k : text[i] \in Characters
    BY <1>1, ElementOfSeq
  <2>2. /\ SubSeq(text, 1, k) \in Seq(Characters)
        /\ Len(SubSeq(text, 1, k)) = IF 1 <= k THEN k - 1 + 1 ELSE 0
        /\ \A i \in 1 .. (k - 1 + 1) : SubSeq(text, 1, k)[i] = text[1 + i - 1]
    BY <2>1, SubSeqProperties
  <2>3. k - 1 + 1 = k /\ (~(1 <= k) => k = 0) /\ \A i \in 1 .. k : 1 + i - 1 = i
    BY <1>1
  <2> QED
    BY <2>2, <2>3
<1>3. Configuration!Prefixes(text) = {SubSeq(text, 1, k) : k \in 0 .. m}
  BY DEF Configuration!Prefixes
<1> HIDE DEF named, n, m
<1>4. ASSUME named \in Configuration!Prefixes(text)
      PROVE  n < m /\ text[n + 1] = Colon /\ \A i \in 1 .. n : text[i] = o[i]
  <2>1. PICK k \in 0 .. m : named = SubSeq(text, 1, k)
    BY <1>3, <1>4
  <2>2. k = n + 1 /\ \A i \in 1 .. k : named[i] = text[i]
    BY <1>1, <1>2, <2>1
  <2>3. n + 1 \in 1 .. k /\ (\A i \in 1 .. n : i \in 1 .. k) /\ n < m
    BY <1>1, <2>1, <2>2
  <2> QED
    BY <1>1, <2>2, <2>3
<1>5. ASSUME n < m, text[n + 1] = Colon, \A i \in 1 .. n : text[i] = o[i]
      PROVE  named \in Configuration!Prefixes(text)
  <2>1. PICK k \in 0 .. m : k = n + 1
    BY <1>1, <1>5
  <2>2. \A i \in 1 .. k : i \in 1 .. n \/ i = n + 1
    BY <1>1, <2>1
  <2>3. \A i \in 1 .. k : named[i] = SubSeq(text, 1, k)[i]
    BY <1>1, <1>2, <1>5, <2>2
  <2>4. named = SubSeq(text, 1, k)
    BY <1>1, <1>2, <2>1, <2>3, SeqEqual
  <2> QED
    BY <1>3, <2>4
<1> QED
  BY <1>4, <1>5 DEF named, n, m

\* Until is everything in front of the first such character.
LEMMA UntilIs ==
    ASSUME NEW text \in Seq(Characters), NEW c \in Characters, NEW k \in 0 .. Len(text),
           \A i \in 1 .. k : text[i] # c, k < Len(text) => text[k + 1] = c
    PROVE  Configuration!Until(text, c) = SubSeq(text, 1, k)
<1> DEFINE m == Len(text)
           part(j) == SubSeq(text, 1, j)
           Good(p) == /\ c \notin Configuration!Range(p)
                      /\ p = text \/ Append(p, c) \in Configuration!Prefixes(text)
<1>1. m \in Nat /\ k \in 0 .. m
  BY LenProperties
<1>2. \A j \in 0 .. m : /\ part(j) \in Seq(Characters) /\ Len(part(j)) = j
                        /\ DOMAIN part(j) = 1 .. j
                        /\ \A i \in 1 .. j : part(j)[i] = text[i]
  <2> TAKE j \in 0 .. m
  <2>1. j \in Int /\ \A i \in 1 .. j : text[i] \in Characters
    BY <1>1, ElementOfSeq
  <2>2. /\ SubSeq(text, 1, j) \in Seq(Characters)
        /\ Len(SubSeq(text, 1, j)) = IF 1 <= j THEN j - 1 + 1 ELSE 0
        /\ \A i \in 1 .. (j - 1 + 1) : SubSeq(text, 1, j)[i] = text[1 + i - 1]
    BY <2>1, SubSeqProperties
  <2>3. j - 1 + 1 = j /\ (~(1 <= j) => j = 0) /\ \A i \in 1 .. j : 1 + i - 1 = i
    BY <1>1
  <2>4. part(j) \in Seq(Characters) /\ Len(part(j)) = j
        /\ \A i \in 1 .. j : part(j)[i] = text[i]
    BY <2>2, <2>3
  <2> HIDE DEF part
  <2> QED
    BY <2>4, LenProperties
<1>3. Configuration!Prefixes(text) = {part(j) : j \in 0 .. m}
  BY DEF Configuration!Prefixes
<1> HIDE DEF part, m
<1>4. \A j \in 0 .. m : /\ Append(part(j), c) \in Seq(Characters)
                        /\ Len(Append(part(j), c)) = j + 1
                        /\ \A i \in 1 .. j : Append(part(j), c)[i] = text[i]
                        /\ Append(part(j), c)[j + 1] = c
  BY <1>2, AppendProperties
<1>5. Good(part(k))
  <2>1. c \notin Configuration!Range(part(k))
    BY <1>1, <1>2 DEF Configuration!Range
  <2>2. k = m => part(k) = text
    BY <1>1, <1>2, SeqEqual DEF m
  <2>3. ASSUME k < m PROVE Append(part(k), c) \in Configuration!Prefixes(text)
    <3>1. PICK j \in 0 .. m : j = k + 1
      BY <1>1, <2>3
    <3>2. \A i \in 1 .. j : i \in 1 .. k \/ i = k + 1
      BY <1>1, <3>1
    <3>3. \A i \in 1 .. j : Append(part(k), c)[i] = part(j)[i]
      BY <1>1, <1>2, <1>4, <2>3, <3>1, <3>2 DEF m
    <3>4. Append(part(k), c) = part(j)
      BY <1>1, <1>2, <1>4, <3>1, <3>3, SeqEqual
    <3> QED
      BY <1>3, <3>4
  <2>4. k < m \/ k = m
    BY <1>1
  <2> QED
    BY <2>1, <2>2, <2>3, <2>4
<1>6. ASSUME NEW j \in 0 .. m, Good(part(j)) PROVE j = k
  <2>1. \A i \in 1 .. j : text[i] # c
    <3> TAKE i \in 1 .. j
    <3>1. part(j)[i] \in Configuration!Range(part(j)) /\ part(j)[i] = text[i]
      BY <1>2 DEF Configuration!Range
    <3> QED
      BY <1>6, <3>1
  <2>2. j = m \/ (j < m /\ text[j + 1] = c)
    <3>1. CASE part(j) = text
      BY <1>2, <3>1 DEF m
    <3>2. CASE Append(part(j), c) \in Configuration!Prefixes(text)
      <4>1. PICK l \in 0 .. m : Append(part(j), c) = part(l)
        BY <1>3, <3>2
      <4>2. l = j + 1 /\ j + 1 \in 1 .. l
        BY <1>1, <1>2, <1>4, <4>1
      <4>3. text[j + 1] = c
        BY <1>2, <1>4, <4>1, <4>2
      <4> QED
        BY <1>1, <4>1, <4>2, <4>3
    <3> QED
      BY <1>6, <3>1, <3>2
  <2>3. ~(k < j)
    <3> SUFFICES ASSUME k < j PROVE FALSE
      OBVIOUS
    <3>1. k + 1 \in 1 .. j /\ k < m
      BY <1>1
    <3> QED
      BY <2>1, <3>1 DEF m
  <2>4. ~(j < k)
    <3> SUFFICES ASSUME j < k PROVE FALSE
      OBVIOUS
    <3>1. j + 1 \in 1 .. k /\ j < m
      BY <1>1
    <3> QED
      BY <1>1, <2>2, <3>1
  <2> QED
    BY <1>1, <2>3, <2>4
<1>7. Configuration!Until(text, c) = CHOOSE p \in Configuration!Prefixes(text) : Good(p)
  BY DEF Configuration!Until
<1> HIDE DEF Good
<1>8. \A p \in Configuration!Prefixes(text) : Good(p) => p = part(k)
  BY <1>3, <1>6
<1>9. part(k) \in Configuration!Prefixes(text)
  BY <1>1, <1>3
<1> QED
  BY <1>5, <1>7, <1>8, <1>9 DEF part

LEMMA TrimmedIs ==
    ASSUME NEW text \in Seq(Characters),
           NEW i \in 1 .. (Len(text) + 1), NEW j \in 0 .. Len(text),
           \A k \in (1 .. Len(text)) \ (i .. j) : text[k] \in Whitespace,
           i <= j => text[i] \notin Whitespace /\ text[j] \notin Whitespace
    PROVE  Configuration!Trimmed(text) = SubSeq(text, i, j)
<1> DEFINE n == Len(text)
           All == (1 .. (n + 1)) \X (0 .. n)
           Good(b) == /\ \A k \in DOMAIN text \ (b[1] .. b[2]) : text[k] \in Whitespace
                      /\ b[1] <= b[2] => {text[b[1]], text[b[2]]} \cap Whitespace = {}
           bounds == CHOOSE b \in All : Good(b)
<1>1. n \in Nat /\ DOMAIN text = 1 .. n
  BY LenProperties
<1>2. <<i, j>> \in All /\ Good(<<i, j>>)
  BY <1>1
<1>3. bounds \in All /\ Good(bounds)
  <2> HIDE DEF All, Good
  <2> QED
    BY <1>2
<1>4. Configuration!Trimmed(text) = SubSeq(text, bounds[1], bounds[2])
  BY DEF Configuration!Trimmed
<1> HIDE DEF bounds
<1>5. PICK x \in 1 .. (n + 1), y \in 0 .. n : bounds = <<x, y>>
  BY <1>3
<1>6. /\ \A k \in (1 .. n) \ (x .. y) : text[k] \in Whitespace
      /\ x <= y => text[x] \notin Whitespace /\ text[y] \notin Whitespace
  BY <1>1, <1>3, <1>5
<1>7. Configuration!Trimmed(text) = SubSeq(text, x, y)
  BY <1>4, <1>5
<1> HIDE DEF n
<1>8. CASE i <= j
  <2>1. i \in 1 .. n /\ j \in 1 .. n
    BY <1>1, <1>8 DEF n
  <2>2. i \in x .. y /\ j \in x .. y
    BY <1>6, <1>8, <2>1
  <2>3. x \in 1 .. n /\ y \in 1 .. n /\ x <= y
    BY <1>1, <2>2
  <2>4. x \in i .. j /\ y \in i .. j
    BY <1>6, <2>3 DEF n
  <2>5. x = i /\ y = j
    BY <1>1, <2>1, <2>2, <2>3, <2>4
  <2> QED
    BY <1>7, <2>5
<1>9. CASE ~(i <= j)
  <2>1. \A k \in 1 .. n : text[k] \in Whitespace
    <3> TAKE k \in 1 .. n
    <3>1. k \notin i .. j
      BY <1>1, <1>9 DEF n
    <3> QED
      BY <3>1 DEF n
  <2>2. ~(x <= y)
    <3> SUFFICES ASSUME x <= y PROVE FALSE
      OBVIOUS
    <3>1. x \in 1 .. n
      BY <1>1
    <3> QED
      BY <1>6, <2>1, <3>1
  <2>3. SubSeq(text, x, y) = <<>> /\ SubSeq(text, i, j) = <<>>
    <3>1. x \in Int /\ y \in Int /\ y < x /\ i \in Int /\ j \in Int /\ j < i
      BY <1>1, <1>9, <2>2 DEF n
    <3> QED
      BY <3>1, SubSeqEmpty
  <2> QED
    BY <1>7, <2>3
<1> QED
  BY <1>8, <1>9

\* The text begins with the row, a line without the whitespace in front of it.
Begins(text, row) ==
    /\ text \in Seq(Characters) /\ row \in Seq(Characters)
    /\ Len(row) <= Len(text) /\ Len(text) < SizeMax
    /\ \A i \in 1 .. Len(row) : text[i] = row[i] /\ row[i] # Newline
    /\ Len(row) < Len(text) => text[Len(row) + 1] = Newline
    /\ Len(row) > 0 => row[1] \notin Whitespace

LEMMA LineEnds ==
    ASSUME NEW text, NEW row, Begins(text, row)
    PROVE  Configuration!lineEnd(text) = Len(row)
<1> DEFINE l == Len(row)
           n == Len(text)
           k == Configuration!Find(text, Newline, n)
<1>1. /\ l \in Nat /\ n \in Nat /\ l <= n /\ n < SizeMax /\ SizeMax \in Nat
      /\ text \in Seq(Characters)
      /\ \A i \in 1 .. l : text[i] # Newline
      /\ l < n => text[l + 1] = Newline
  BY LenProperties, ConfigAssumptions DEF Begins
<1>2. \/ k = SizeMax /\ \A i \in 1 .. n : text[i] # Newline
      \/ k \in 0 .. (n - 1) /\ text[k + 1] = Newline /\ \A i \in 1 .. k : text[i] # Newline
  <2>1. n \in 0 .. n
    BY <1>1
  <2> QED
    BY <1>1, <2>1, Finds
<1>3. Configuration!lineEnd(text) = Configuration!Min({k, n})
  BY DEF Configuration!lineEnd
<1> HIDE DEF k, n, l
<1>4. CASE k = SizeMax /\ \A i \in 1 .. n : text[i] # Newline
  <2>1. ~(l < n)
    <3> SUFFICES ASSUME l < n PROVE FALSE
      OBVIOUS
    <3>1. l + 1 \in 1 .. n
      BY <1>1
    <3> QED
      BY <1>1, <1>4, <3>1
  <2>2. {k, n} \in SUBSET Int /\ l \in {k, n} /\ \A y \in {k, n} : l <= y
    BY <1>1, <1>4, <2>1
  <2> QED
    BY <1>3, <2>2, SmallestIs DEF l
<1>5. CASE k \in 0 .. (n - 1) /\ text[k + 1] = Newline /\ \A i \in 1 .. k : text[i] # Newline
  <2>1. ~(k < l)
    <3> SUFFICES ASSUME k < l PROVE FALSE
      OBVIOUS
    <3>1. k + 1 \in 1 .. l
      BY <1>1, <1>5
    <3> QED
      BY <1>1, <1>5, <3>1
  <2>2. ~(l < k)
    <3> SUFFICES ASSUME l < k PROVE FALSE
      OBVIOUS
    <3>1. l + 1 \in 1 .. k /\ l < n
      BY <1>1, <1>5
    <3> QED
      BY <1>1, <1>5, <3>1
  <2>3. k = l /\ k < n
    BY <1>1, <1>5, <2>1, <2>2
  <2>4. {k, n} \in SUBSET Int /\ l \in {k, n} /\ \A y \in {k, n} : l <= y
    BY <1>1, <2>3
  <2> QED
    BY <1>3, <2>4, SmallestIs DEF l
<1> QED
  BY <1>2, <1>4, <1>5

\* The first colon and the first hash of the line, by their indices.
LEMMA IndicesOfLine ==
    ASSUME NEW text, NEW row, Begins(text, row), NEW c,
           NEW k, k = Configuration!Find(text, c, Configuration!lineEnd(text))
    PROVE  /\ Len(row) \in Nat /\ SizeMax \in Nat /\ Len(row) < SizeMax
           /\ \/ k = SizeMax /\ \A i \in 1 .. Len(row) : row[i] # c
              \/ k \in 0 .. (Len(row) - 1) /\ row[k + 1] = c /\ \A i \in 1 .. k : row[i] # c
<1> DEFINE l == Len(row)
<1>1. /\ l \in 0 .. Len(text) /\ l \in Nat /\ text \in Seq(Characters) /\ SizeMax \in Nat
      /\ l < SizeMax /\ \A i \in 1 .. l : text[i] = row[i]
  BY LenProperties, ConfigAssumptions DEF Begins
<1>2. k = Configuration!Find(text, c, l)
  BY LineEnds
<1>3. \/ k = SizeMax /\ \A i \in 1 .. l : text[i] # c
      \/ k \in 0 .. (l - 1) /\ text[k + 1] = c /\ \A i \in 1 .. k : text[i] # c
  BY <1>1, <1>2, Finds
<1> HIDE DEF l
<1>4. CASE k = SizeMax /\ \A i \in 1 .. l : text[i] # c
  BY <1>1, <1>4 DEF l
<1>5. CASE k \in 0 .. (l - 1) /\ text[k + 1] = c /\ \A i \in 1 .. k : text[i] # c
  <2>1. k + 1 \in 1 .. l /\ \A i \in 1 .. k : i \in 1 .. l
    BY <1>1, <1>5
  <2>2. row[k + 1] = c /\ \A i \in 1 .. k : row[i] # c
    BY <1>1, <1>5, <2>1
  <2> QED
    BY <1>1, <1>5, <2>2 DEF l
<1> QED
  BY <1>3, <1>4, <1>5

\* A line is an option's exactly if that option's name and a colon begin it.
LEMMA OptionOfLine ==
    ASSUME NEW text, NEW row, Begins(text, row), NEW o \in Options
    PROVE  /\ Append(o, Colon) \in Configuration!Prefixes(row)
             <=> Configuration!IsOption(text) /\ Configuration!Name(text) = o
           /\ Configuration!IsOption(text) /\ Configuration!Name(text) = o =>
                Configuration!nameEnd(text) = Len(o)
<1> DEFINE n == Configuration!nameEnd(text)
           h == Configuration!comment(text)
           l == Len(row)
           m == Len(o)
           Named == m < l /\ row[m + 1] = Colon /\ \A i \in 1 .. m : row[i] = o[i]
<1>1. /\ l \in Nat /\ SizeMax \in Nat /\ l < SizeMax
      /\ \/ n = SizeMax /\ \A i \in 1 .. l : row[i] # Colon
         \/ n \in 0 .. (l - 1) /\ row[n + 1] = Colon /\ \A i \in 1 .. n : row[i] # Colon
  BY IndicesOfLine DEF Configuration!nameEnd
<1>2. \/ h = SizeMax /\ \A i \in 1 .. l : row[i] # Hash
      \/ h \in 0 .. (l - 1) /\ row[h + 1] = Hash /\ \A i \in 1 .. h : row[i] # Hash
  BY IndicesOfLine DEF Configuration!comment
<1>3. Configuration!lineEnd(text) = l
  BY LineEnds
<1>4. /\ m \in Nat \ {0} /\ o \in Seq(Characters)
      /\ \A i \in 1 .. m : o[i] # Colon /\ o[i] # Hash
  <2>1. o \in Seq(Characters) /\ o # <<>> /\ {Colon, Hash} \cap Configuration!Range(o) = {}
    BY ConfigAssumptions
  <2>2. m \in Nat \ {0} /\ DOMAIN o = 1 .. m
    BY <2>1, EmptySeq, LenProperties
  <2> QED
    BY <2>1, <2>2 DEF Configuration!Range
<1>5. Append(o, Colon) \in Configuration!Prefixes(row) <=> Named
  BY SetsByPosition DEF Begins
<1>6. Configuration!Name(text) = SubSeq(text, 1, n)
  BY DEF Configuration!Name
<1>7. /\ l <= Len(text) /\ Len(text) \in Nat /\ \A i \in 1 .. l : text[i] = row[i]
      /\ \A i \in 1 .. Len(text) : text[i] \in Characters
  BY LenProperties, ElementOfSeq DEF Begins
<1>8. Configuration!IsOption(text)
        <=> h # 0 /\ l # 0 /\ n # SizeMax /\ SubSeq(text, 1, n) \in Options
  BY <1>3, <1>6 DEF Configuration!IsOption, Configuration!Ignored
<1> HIDE DEF n, h, l, m
<1>9. ASSUME n \in 0 .. (l - 1)
      PROVE  /\ SubSeq(text, 1, n) \in Seq(Characters) /\ Len(SubSeq(text, 1, n)) = n
             /\ \A i \in 1 .. n : SubSeq(text, 1, n)[i] = row[i]
  <2>1. n \in Int /\ \A i \in 1 .. n : text[i] \in Characters /\ text[i] = row[i]
    BY <1>1, <1>7, <1>9
  <2>2. /\ SubSeq(text, 1, n) \in Seq(Characters)
        /\ Len(SubSeq(text, 1, n)) = IF 1 <= n THEN n - 1 + 1 ELSE 0
        /\ \A i \in 1 .. (n - 1 + 1) : SubSeq(text, 1, n)[i] = text[1 + i - 1]
    BY <2>1, SubSeqProperties
  <2>3. n - 1 + 1 = n /\ (~(1 <= n) => n = 0) /\ \A i \in 1 .. n : 1 + i - 1 = i
    BY <1>9
  <2> QED
    BY <2>1, <2>2, <2>3
<1>10. ASSUME Named
       PROVE  h # 0 /\ l # 0 /\ n \in 0 .. (l - 1) /\ n # SizeMax /\ SubSeq(text, 1, n) = o
  <2>1. m < l /\ row[m + 1] = Colon /\ \A i \in 1 .. m : row[i] = o[i] /\ row[i] # Colon
    BY <1>4, <1>10
  <2>2. m + 1 \in 1 .. l /\ 1 \in 1 .. m /\ 1 \in 1 .. l
    BY <1>1, <1>4, <2>1
  <2>3. h # 0
    <3>1. row[1] # Hash
      BY <1>4, <2>1, <2>2
    <3> QED
      BY <1>1, <1>2, <1>4, <2>1, <3>1
  <2>4. n \in 0 .. (l - 1) /\ row[n + 1] = Colon /\ \A i \in 1 .. n : row[i] # Colon
    BY <1>1, <2>1, <2>2
  <2>5. ~(n < m)
    <3> SUFFICES ASSUME n < m PROVE FALSE
      OBVIOUS
    <3>1. n + 1 \in 1 .. m
      BY <1>4, <2>4
    <3> QED
      BY <2>1, <2>4, <3>1
  <2>6. ~(m < n)
    <3> SUFFICES ASSUME m < n PROVE FALSE
      OBVIOUS
    <3>1. m + 1 \in 1 .. n
      BY <1>4, <2>4
    <3> QED
      BY <2>1, <2>4, <3>1
  <2>7. n = m
    BY <1>4, <2>4, <2>5, <2>6
  <2>8. \A i \in 1 .. n : SubSeq(text, 1, n)[i] = o[i]
    BY <1>9, <2>1, <2>4, <2>7
  <2>9. SubSeq(text, 1, n) = o
    BY <1>4, <1>9, <2>4, <2>7, <2>8, SeqEqual DEF m
  <2> QED
    BY <1>1, <2>2, <2>3, <2>4, <2>9
<1>11. ASSUME n # SizeMax, SubSeq(text, 1, n) = o PROVE Named /\ n = m
  <2>1. n \in 0 .. (l - 1) /\ row[n + 1] = Colon
    BY <1>1, <1>11
  <2>2. m = n /\ \A i \in 1 .. n : row[i] = o[i]
    BY <1>9, <1>11, <2>1 DEF m
  <2>3. n < l
    BY <1>1, <2>1
  <2> QED
    BY <2>1, <2>2, <2>3
<1> QED
  BY <1>5, <1>6, <1>8, <1>10, <1>11 DEF n, m

\* Part of a text.
LEMMA Part ==
    ASSUME NEW text \in Seq(Characters), NEW from \in 0 .. Len(text),
           NEW to \in from .. Len(text)
    PROVE  /\ SubSeq(text, from + 1, to) \in Seq(Characters)
           /\ Len(SubSeq(text, from + 1, to)) = to - from
           /\ \A k \in 1 .. (to - from) : SubSeq(text, from + 1, to)[k] = text[from + k]
<1>1. from \in Nat /\ to \in Nat /\ from <= to
      /\ \A k \in (from + 1) .. to : text[k] \in Characters
  <2>1. Len(text) \in Nat /\ \A k \in 1 .. Len(text) : text[k] \in Characters
    BY LenProperties, ElementOfSeq
  <2> QED
    BY <2>1
<1>2. /\ SubSeq(text, from + 1, to) \in Seq(Characters)
      /\ Len(SubSeq(text, from + 1, to))
           = IF from + 1 <= to THEN to - (from + 1) + 1 ELSE 0
      /\ \A k \in 1 .. (to - (from + 1) + 1) :
           SubSeq(text, from + 1, to)[k] = text[from + 1 + k - 1]
  BY <1>1, SubSeqProperties
<1>3. to - (from + 1) + 1 = to - from /\ (~(from + 1 <= to) => to - from = 0)
      /\ \A k \in 1 .. (to - from) : from + 1 + k - 1 = from + k
  BY <1>1
<1> QED
  BY <1>2, <1>3

\* The value ends in front of a comment, and is trimmed by its two loops.
LEMMA ValueOfLine ==
    ASSUME NEW text, NEW row, Begins(text, row), Configuration!IsOption(text),
           NEW o, o = Configuration!Name(text)
    PROVE  /\ Configuration!valueStart(text) <= Configuration!valueEnd(text)
           /\ Configuration!valueEnd(text) <= Configuration!lineEnd(text)
           /\ Configuration!Value(text) \in Seq(Characters)
           /\ Configuration!Value(text)
                = Configuration!Trimmed(
                    Configuration!Until(SubSeq(row, Len(o) + 2, Len(row)), Hash))
<1> DEFINE l == Len(row)
           n == Configuration!nameEnd(text)
           h == Configuration!comment(text)
           v == Configuration!valueLimit(text)
           vs == Configuration!valueStart(text)
           ve == Configuration!valueEnd(text)
           after == SubSeq(row, n + 2, l)
           p == v - n - 1
           part == SubSeq(after, 1, p)
           inside == {k \in (n + 1) .. (v - 1) : text[k + 1] \notin Whitespace}
           rest == {k \in vs .. (v - 1) : text[k + 1] \notin Whitespace}
<1>1. /\ Len(o) = n /\ o \in Options /\ Len(o) < l /\ row[n + 1] = Colon
      /\ \A i \in 1 .. n : row[i] = o[i]
  <2>1. o \in Options
    BY DEF Configuration!IsOption
  <2>2. n = Len(o) /\ Append(o, Colon) \in Configuration!Prefixes(row)
    BY <2>1, OptionOfLine
  <2>3. row \in Seq(Characters)
    BY DEF Begins
  <2> QED
    BY <2>1, <2>2, <2>3, SetsByPosition
<1>2. /\ l \in Nat /\ SizeMax \in Nat /\ l < SizeMax
      /\ \/ h = SizeMax /\ \A i \in 1 .. l : row[i] # Hash
         \/ h \in 0 .. (l - 1) /\ row[h + 1] = Hash /\ \A i \in 1 .. h : row[i] # Hash
  BY IndicesOfLine DEF Configuration!comment
<1>3. n \in Nat /\ n < l /\ \A i \in 1 .. (n + 1) : row[i] # Hash
  <2>1. o \in Seq(Characters) /\ Hash \notin Configuration!Range(o) /\ Colon # Hash
    <3>1. o \in Options
      BY <1>1
    <3> QED
      BY <3>1, ConfigAssumptions
  <2>2. n \in Nat /\ DOMAIN o = 1 .. n
    BY <1>1, <2>1, LenProperties
  <2>3. \A i \in 1 .. n : row[i] # Hash
    BY <1>1, <2>1, <2>2 DEF Configuration!Range
  <2>4. \A i \in 1 .. (n + 1) : i \in 1 .. n \/ i = n + 1
    BY <2>2
  <2> QED
    BY <1>1, <2>1, <2>2, <2>3, <2>4
<1>4. /\ l <= Len(text) /\ Len(text) \in Nat /\ Len(text) < SizeMax
      /\ text \in Seq(Characters) /\ row \in Seq(Characters)
      /\ \A i \in 1 .. l : text[i] = row[i]
  BY LenProperties DEF Begins
<1>5. Configuration!lineEnd(text) = l /\ v = Configuration!Min({h, l})
  BY LineEnds DEF Configuration!valueLimit
<1>6. vs = IF inside = {} THEN Configuration!Max({n + 1, v}) ELSE Configuration!Min(inside)
  BY DEF Configuration!valueStart
<1>7. ve = IF rest = {} THEN v ELSE Configuration!Max(rest) + 1
  BY DEF Configuration!valueEnd
<1>8. Configuration!Value(text)
        = SubSeq(text, vs + 1, vs + ((ve - vs) % (SizeMax + 1)))
  BY DEF Configuration!Value, Configuration!valueLength
<1> HIDE DEF l, n, h, v, vs, ve
<1>9. /\ v \in (n + 1) .. l /\ v \in Nat /\ \A i \in 1 .. v : row[i] # Hash
      /\ v < l => row[v + 1] = Hash
  <2>1. CASE h = SizeMax /\ \A i \in 1 .. l : row[i] # Hash
    <3>1. {h, l} \in SUBSET Int /\ l \in {h, l} /\ \A y \in {h, l} : l <= y
      BY <1>2, <2>1
    <3>2. v = l
      BY <1>5, <3>1, SmallestIs
    <3> QED
      BY <1>2, <1>3, <2>1, <3>2
  <2>2. CASE h \in 0 .. (l - 1) /\ row[h + 1] = Hash /\ \A i \in 1 .. h : row[i] # Hash
    <3>1. {h, l} \in SUBSET Int /\ h \in {h, l} /\ \A y \in {h, l} : h <= y
      BY <1>2, <2>2
    <3>2. v = h
      BY <1>5, <3>1, SmallestIs
    <3>3. ~(h + 1 \in 1 .. (n + 1))
      BY <1>3, <2>2
    <3>4. h \in (n + 1) .. l /\ h \in Nat
      BY <1>2, <1>3, <2>2, <3>3
    <3> QED
      BY <2>2, <3>2, <3>4
  <2> QED
    BY <1>2, <2>1, <2>2
<1>10. p \in 0 .. (l - n - 1) /\ p \in Nat /\ l - n - 1 \in Nat
  BY <1>2, <1>3, <1>9
<1>11. /\ after \in Seq(Characters) /\ Len(after) = l - n - 1
       /\ \A k \in 1 .. (l - n - 1) : after[k] = row[n + 1 + k]
  <2> DEFINE f == n + 1
  <2>1. f \in 0 .. l /\ l \in f .. l /\ l - f = l - n - 1 /\ f + 1 = n + 2
    BY <1>2, <1>3
  <2> HIDE DEF f
  <2>2. /\ SubSeq(row, f + 1, l) \in Seq(Characters) /\ Len(SubSeq(row, f + 1, l)) = l - f
        /\ \A k \in 1 .. (l - f) : SubSeq(row, f + 1, l)[k] = row[f + k]
    BY <1>4, <2>1, Part DEF l
  <2> QED
    BY <2>1, <2>2 DEF f
<1> HIDE DEF after, p
<1>12. Configuration!Until(after, Hash) = part
  <2>1. \A i \in 1 .. p : after[i] # Hash
    <3> TAKE i \in 1 .. p
    <3>1. i \in 1 .. (l - n - 1) /\ n + 1 + i \in 1 .. v
      BY <1>3, <1>9, <1>10 DEF p
    <3> QED
      BY <1>9, <1>11, <3>1
  <2>2. p < l - n - 1 => after[p + 1] = Hash
    <3> SUFFICES ASSUME p < l - n - 1 PROVE after[p + 1] = Hash
      OBVIOUS
    <3>1. p + 1 \in 1 .. (l - n - 1) /\ n + 1 + (p + 1) = v + 1 /\ v < l
      BY <1>2, <1>3, <1>9, <1>10 DEF p
    <3> QED
      BY <1>9, <1>11, <3>1
  <2>3. Hash \in Characters
    BY ConfigAssumptions
  <2> QED
    BY <1>10, <1>11, <2>1, <2>2, <2>3, UntilIs
<1>13. /\ part \in Seq(Characters) /\ Len(part) = p
       /\ \A k \in 1 .. p : part[k] = text[n + 1 + k]
  <2>1. /\ SubSeq(after, 0 + 1, p) \in Seq(Characters) /\ Len(SubSeq(after, 0 + 1, p)) = p - 0
        /\ \A k \in 1 .. (p - 0) : SubSeq(after, 0 + 1, p)[k] = after[0 + k]
    <3>1. 0 \in 0 .. Len(after) /\ p \in 0 .. Len(after)
      BY <1>10, <1>11
    <3> QED
      BY <1>11, <3>1, Part
  <2>2. 0 + 1 = 1 /\ p - 0 = p
    BY <1>10
  <2>3. \A k \in 1 .. p : k \in 1 .. (l - n - 1) /\ n + 1 + k \in 1 .. l /\ 0 + k = k
    BY <1>2, <1>3, <1>10
  <2>4. \A k \in 1 .. p : part[k] = after[k]
    BY <2>1, <2>2, <2>3
  <2> QED
    BY <1>4, <1>11, <2>1, <2>2, <2>3, <2>4
<1> HIDE DEF part, inside, rest
<1>14. CASE inside = {}
  <2>1. vs = v /\ ve = v
    <3>1. {n + 1, v} \in SUBSET Int /\ v \in {n + 1, v} /\ \A y \in {n + 1, v} : v >= y
      BY <1>3, <1>9
    <3>2. vs = v
      BY <1>6, <1>14, <3>1, LargestIs
    <3>3. rest = {}
      BY <1>9, <3>2 DEF rest
    <3> QED
      BY <1>7, <3>2, <3>3
  <2>2. Configuration!Value(text) = <<>>
    <3>1. (v - v) % (SizeMax + 1) = 0 /\ v + 0 = v /\ v < v + 1
      BY <1>2, <1>9
    <3>2. SubSeq(text, v + 1, v) = <<>>
      BY <1>9, <3>1, SubSeqEmpty
    <3> QED
      BY <1>8, <2>1, <3>1, <3>2
  <2>3. Configuration!Trimmed(part) = <<>>
    <3>1. \A k \in 1 .. p : part[k] \in Whitespace
      <4> TAKE k \in 1 .. p
      <4>1. n + k \in (n + 1) .. (v - 1) /\ n + k + 1 = n + 1 + k
        BY <1>3, <1>9, <1>10 DEF p
      <4>2. text[n + k + 1] \in Whitespace
        BY <1>14, <4>1 DEF inside
      <4> QED
        BY <1>13, <4>1, <4>2
    <3>2. p + 1 \in 1 .. (Len(part) + 1) /\ p \in 0 .. Len(part) /\ ~(p + 1 <= p)
      BY <1>10, <1>13
    <3>3. Configuration!Trimmed(part) = SubSeq(part, p + 1, p)
      BY <1>13, <3>1, <3>2, TrimmedIs
    <3> QED
      BY <1>10, <3>2, <3>3, SubSeqEmpty
  <2>4. vs <= ve /\ ve <= l
    BY <1>2, <1>9, <2>1
  <2> QED
    BY <1>1, <1>5, <1>12, <2>2, <2>3, <2>4 DEF after, l, vs, ve
<1>15. CASE inside # {}
  <2>1. /\ vs \in (n + 1) .. (v - 1) /\ vs \in Nat /\ text[vs + 1] \notin Whitespace
        /\ \A k \in (n + 1) .. (vs - 1) : text[k + 1] \in Whitespace
    <3>1. inside \in SUBSET Nat
      BY <1>3, <1>9 DEF inside
    <3>2. PICK m \in inside : (\A k \in inside : m <= k) /\ Configuration!Min(inside) = m
      BY <1>15, <3>1, SmallestOfSet
    <3>3. vs = m /\ m \in Nat /\ m \in (n + 1) .. (v - 1) /\ text[m + 1] \notin Whitespace
      BY <1>6, <1>15, <3>1, <3>2 DEF inside
    <3>4. \A k \in (n + 1) .. (m - 1) : text[k + 1] \in Whitespace
      <4> TAKE k \in (n + 1) .. (m - 1)
      <4>1. k \in (n + 1) .. (v - 1) /\ ~(m <= k)
        BY <1>3, <1>9, <3>3
      <4> QED
        BY <3>2, <4>1 DEF inside
    <3> QED
      BY <3>3, <3>4
  <2>2. /\ ve \in (vs + 1) .. v /\ ve \in Nat /\ text[ve] \notin Whitespace
        /\ \A k \in ve .. (v - 1) : text[k + 1] \in Whitespace
    <3>1. rest \in SUBSET Nat /\ vs \in rest /\ \A k \in rest : k <= v
      BY <1>9, <2>1 DEF rest
    <3>2. PICK m \in rest : \A k \in rest : k <= m
      BY <1>9, <3>1, LargestOfSet
    <3>3. m \in vs .. (v - 1) /\ text[m + 1] \notin Whitespace /\ m \in Nat
      BY <3>1, <3>2 DEF rest
    <3>4. Configuration!Max(rest) = m
      <4>1. rest \in SUBSET Int /\ \A y \in rest : m >= y
        BY <3>1, <3>2
      <4> QED
        BY <3>2, <4>1, LargestIs
    <3>5. ve = m + 1
      BY <1>7, <3>1, <3>4
    <3>6. \A k \in ve .. (v - 1) : text[k + 1] \in Whitespace
      <4> TAKE k \in ve .. (v - 1)
      <4>1. k \in vs .. (v - 1) /\ ~(k <= m)
        BY <1>9, <2>1, <3>3, <3>5
      <4> QED
        BY <3>2, <4>1 DEF rest
    <3> QED
      BY <1>9, <2>1, <3>3, <3>5, <3>6
  <2>3. Configuration!Value(text) = SubSeq(text, vs + 1, ve)
    <3>1. ve - vs \in 0 .. SizeMax
      BY <1>2, <1>9, <2>1, <2>2
    <3>2. (ve - vs) % (SizeMax + 1) = ve - vs
      BY <1>2, <3>1
    <3>3. vs + (ve - vs) = ve
      BY <2>1, <2>2
    <3> QED
      BY <1>8, <3>2, <3>3
  <2> DEFINE i == vs - n
             j == ve - n - 1
  <2>4. /\ i \in 1 .. p /\ j \in i .. p /\ i \in Nat /\ j \in Nat
        /\ n + 1 + i = vs + 1 /\ n + 1 + j = ve
    BY <1>3, <1>9, <1>10, <2>1, <2>2 DEF p
  <2>5. Configuration!Trimmed(part) = SubSeq(part, i, j)
    <3>1. part[i] \notin Whitespace /\ part[j] \notin Whitespace
      <4>1. i \in 1 .. p /\ j \in 1 .. p
        BY <1>10, <2>4
      <4>2. part[i] = text[vs + 1] /\ part[j] = text[ve]
        BY <1>13, <2>4, <4>1
      <4> QED
        BY <2>1, <2>2, <4>2
    <3>2. \A k \in (1 .. p) \ (i .. j) : part[k] \in Whitespace
      <4> TAKE k \in (1 .. p) \ (i .. j)
      <4>1. part[k] = text[n + k + 1]
        <5>1. n + 1 + k = n + k + 1
          BY <1>3, <1>10
        <5> QED
          BY <1>13, <5>1
      <4>2. n + k \in (n + 1) .. (vs - 1) \/ n + k \in ve .. (v - 1)
        BY <1>3, <1>9, <1>10, <2>1, <2>2 DEF p
      <4> QED
        BY <2>1, <2>2, <4>1, <4>2
    <3>3. i \in 1 .. (Len(part) + 1) /\ j \in 0 .. Len(part)
      BY <1>10, <1>13, <2>4
    <3> HIDE DEF i, j
    <3> QED
      BY <1>13, <3>1, <3>2, <3>3, TrimmedIs
  <2>6. SubSeq(part, i, j) = SubSeq(text, vs + 1, ve)
    <3> DEFINE f == i - 1
    <3>1. f \in 0 .. Len(part) /\ j \in f .. Len(part) /\ f + 1 = i /\ j - f = ve - vs
          /\ n + 1 + f = vs
      BY <1>3, <1>10, <1>13, <2>1, <2>2, <2>4
    <3>2. vs \in 0 .. Len(text) /\ ve \in vs .. Len(text)
      <4>1. vs <= ve /\ ve <= l /\ l <= Len(text)
        BY <1>2, <1>4, <1>9, <2>1, <2>2 DEF l
      <4> QED
        BY <1>2, <1>4, <1>9, <2>1, <2>2, <4>1
    <3> HIDE DEF f, i, j
    <3>3. /\ SubSeq(part, f + 1, j) \in Seq(Characters)
          /\ Len(SubSeq(part, f + 1, j)) = j - f
          /\ \A k \in 1 .. (j - f) : SubSeq(part, f + 1, j)[k] = part[f + k]
      BY <1>13, <3>1, Part
    <3>4. /\ SubSeq(text, vs + 1, ve) \in Seq(Characters)
          /\ Len(SubSeq(text, vs + 1, ve)) = ve - vs
          /\ \A k \in 1 .. (ve - vs) : SubSeq(text, vs + 1, ve)[k] = text[vs + k]
      BY <1>4, <3>2, Part
    <3>5. \A k \in 1 .. (ve - vs) : part[f + k] = text[vs + k]
      <4> TAKE k \in 1 .. (ve - vs)
      <4>1. f + k \in 1 .. p /\ n + 1 + (f + k) = vs + k
        BY <1>3, <1>10, <1>13, <2>1, <2>2, <2>4, <3>1
      <4> QED
        BY <1>13, <4>1
    <3>6. SubSeq(part, f + 1, j) = SubSeq(text, vs + 1, ve)
      <4> DEFINE a == SubSeq(part, f + 1, j)
                 b == SubSeq(text, vs + 1, ve)
      <4>1. a \in Seq(Characters) /\ b \in Seq(Characters) /\ Len(a) = Len(b)
            /\ Len(a) = ve - vs
        BY <3>1, <3>3, <3>4
      <4>2. \A k \in 1 .. (ve - vs) : a[k] = b[k]
        BY <3>1, <3>3, <3>4, <3>5
      <4> HIDE DEF a, b
      <4>3. a = b
        BY <4>1, <4>2, SeqEqual
      <4> QED
        BY <4>3 DEF a, b
    <3> QED
      BY <3>1, <3>6
  <2>7. vs <= ve /\ ve <= l
    BY <1>2, <1>9, <2>1, <2>2
  <2>8. SubSeq(text, vs + 1, ve) \in Seq(Characters)
    <3>1. vs \in 0 .. Len(text) /\ ve \in vs .. Len(text)
      BY <1>2, <1>4, <2>1, <2>2, <2>7 DEF l
    <3> QED
      BY <1>4, <3>1, Part
  <2> QED
    BY <1>1, <1>5, <1>12, <2>3, <2>5, <2>6, <2>7, <2>8 DEF after, l, vs, ve
<1> QED
  BY <1>14, <1>15

LEMMA MalformedLine ==
    ASSUME NEW text, NEW row, Begins(text, row), ~Configuration!Ignored(text),
           Configuration!nameEnd(text) = SizeMax
    PROVE  row # <<>> /\ Head(row) # Hash /\ Colon \notin Configuration!Range(row)
<1> DEFINE l == Len(row)
           h == Configuration!comment(text)
<1>1. /\ l \in Nat /\ SizeMax \in Nat /\ l < SizeMax
      /\ \A i \in 1 .. l : row[i] # Colon
  <2>1. /\ l \in Nat /\ SizeMax \in Nat /\ l < SizeMax
        /\ \/ \A i \in 1 .. l : row[i] # Colon
           \/ SizeMax \in 0 .. (l - 1)
    BY IndicesOfLine DEF Configuration!nameEnd
  <2> QED
    BY <2>1
<1>2. \/ h = SizeMax /\ \A i \in 1 .. l : row[i] # Hash
      \/ h \in 0 .. (l - 1) /\ row[h + 1] = Hash /\ \A i \in 1 .. h : row[i] # Hash
  BY IndicesOfLine DEF Configuration!comment
<1>3. h # 0 /\ l # 0
  BY LineEnds DEF Configuration!Ignored
<1>4. row \in Seq(Characters) /\ DOMAIN row = 1 .. l
  BY LenProperties DEF Begins
<1> HIDE DEF h
<1>5. row[1] # Hash
  <2>1. 1 \in 1 .. l
    BY <1>1, <1>3
  <2>2. h \in 0 .. (l - 1) => 1 \in 1 .. h
    BY <1>1, <1>3
  <2> QED
    BY <1>2, <2>1, <2>2
<1>6. row # <<>> /\ Head(row) = row[1]
  BY <1>1, <1>3, <1>4
<1> QED
  BY <1>1, <1>4, <1>5, <1>6 DEF Configuration!Range

\* The lines that have been read and set the option.
SetBy(o) == {b \in Breaks : b < buffer /\ Configuration!Sets(Row(b), o)}

LastFor(b, o) == b \in SetBy(o) /\ \A d \in SetBy(o) : d <= b

RefusedLine ==
    \/ \E b \in DOMAIN Configuration!Lines : Configuration!Malformed(Configuration!Lines[b])
    \/ \E o \in Required : \A b \in DOMAIN Configuration!Lines :
         ~Configuration!Sets(Configuration!Lines[b], o)

\* The loop is in front of a line, and what it has kept is what the lines behind
\* it say.
ConfigInv ==
    /\ FileIs /\ (buffer \in Breaks \/ buffer = Len(file))
    /\ DOMAIN values = {o \in Options : SetBy(o) # {}}
    /\ \A o \in DOMAIN values :
         /\ values[o] \in Seq(Characters)
         /\ \E b : LastFor(b, o) /\ values[o] = Configuration!Setting(Row(b), o)
    /\ configPc \in {"line", "done", "crashed"}
    /\ configPc = "done" => buffer = Len(file)
    /\ configPc = "crashed" => RefusedLine

\* The line the loop is at, behind its whitespace.
Here == Configuration!SkipWhitespace(Configuration!Text)

LEMMA NothingLeft ==
    ASSUME FileIs, buffer \in Breaks \/ buffer = Len(file)
    PROVE  /\ Configuration!Text = <<>> <=> buffer = Len(file)
           /\ Configuration!Text = <<>> =>
                Here = <<>> /\ Begins(Here, <<>>) /\ ~Configuration!IsOption(Here)
           /\ buffer \in Nat /\ buffer <= Len(file)
<1> DEFINE n == Len(file)
<1>1. n \in Nat /\ buffer \in 0 .. n /\ n < SizeMax /\ n \in 0 .. n
  BY FileFacts DEF FileIs
<1>2. Configuration!Text = SubSeq(file, buffer + 1, n)
  BY DEF Configuration!Text
<1> HIDE DEF n
<1>3. Len(SubSeq(file, buffer + 1, n)) = n - buffer
  <2>1. file \in Seq(Characters) /\ buffer \in 0 .. Len(file) /\ n \in buffer .. Len(file)
    BY <1>1 DEF FileIs, n
  <2> QED
    BY <2>1, Part
<1>4. Configuration!Text = <<>> <=> buffer = n
  <2>1. Configuration!Text = <<>> => n - buffer = 0
    <3> SUFFICES ASSUME Configuration!Text = <<>> PROVE n - buffer = 0
      OBVIOUS
    <3>1. Len(<<>>) = n - buffer
      BY <1>2, <1>3
    <3> QED
      BY <3>1
  <2>2. buffer = n => SubSeq(file, buffer + 1, n) = <<>>
    <3>1. n + 1 > n /\ n \in Int /\ n + 1 \in Int
      BY <1>1
    <3> QED
      BY <3>1, SubSeqEmpty
  <2> QED
    BY <1>1, <1>2, <1>3, <2>1, <2>2
<1>5. ASSUME Configuration!Text = <<>>
      PROVE  Here = <<>> /\ Begins(Here, <<>>) /\ ~Configuration!IsOption(Here)
  <2>1. Configuration!Range(<<>>) = {}
    BY DEF Configuration!Range
  <2>2. Here = <<>>
    BY <1>5, <2>1 DEF Here, Configuration!SkipWhitespace
  <2>3. Begins(<<>>, <<>>)
    <3>1. /\ <<>> \in Seq(Characters) /\ Len(<<>>) = 0 /\ 1 .. 0 = {} /\ 0 < SizeMax
          /\ SizeMax \in Nat
      BY <1>1, ConfigAssumptions
    <3> QED
      BY <3>1 DEF Begins
  <2>4. Configuration!lineEnd(<<>>) = 0
    BY <2>3, LineEnds
  <2> QED
    BY <2>2, <2>3, <2>4 DEF Configuration!IsOption, Configuration!Ignored
<1> QED
  BY <1>1, <1>4, <1>5 DEF n

\* What a turn of the loop sees.
LEMMA AtALine ==
    ASSUME FileIs, buffer \in Breaks, buffer < Len(file),
           NEW row, row = Configuration!SkipWhitespace(Row(buffer))
    PROVE  /\ Begins(Here, row) /\ Len(Here) <= Len(file)
           /\ RowEnds(buffer, Len(file) - Len(Here) + Len(row) + 1)
<1>1. Len(file) \in Nat /\ SizeMax \in Nat /\ Len(file) < SizeMax
  BY FileFacts, ConfigAssumptions DEF FileIs
<1>2. /\ Here \in Seq(Characters) /\ row \in Seq(Characters)
      /\ Len(row) <= Len(Here) /\ Len(Here) <= Len(file)
      /\ \A i \in 1 .. Len(row) : Here[i] = row[i] /\ row[i] # Newline
      /\ Len(row) < Len(Here) => Here[Len(row) + 1] = Newline
      /\ RowEnds(buffer, Len(file) - Len(Here) + Len(row) + 1)
      /\ Len(row) > 0 => row[1] \notin Whitespace
  BY Turn DEF Here
<1>3. Len(Here) \in Nat
  BY <1>2, LenProperties
<1> QED
  BY <1>1, <1>2, <1>3 DEF Begins

\* The loop goes on behind the line, or at the end of the file.
LEMMA BehindTheLine ==
    ASSUME FileIs, buffer \in Breaks, buffer < Len(file), Configuration!NextLine(Here)
    PROVE  /\ buffer' \in Breaks \/ buffer' = Len(file)
           /\ \A b \in Breaks : b < buffer' <=> b < buffer \/ b = buffer
<1> DEFINE row == Configuration!SkipWhitespace(Row(buffer))
           n == Len(file)
           m == Len(Here)
           l == Len(row)
           e == n - m + l + 1
<1>1. Begins(Here, row) /\ m <= n /\ RowEnds(buffer, e)
  BY AtALine
<1>2. l \in Nat /\ m \in Nat /\ n \in Nat /\ l <= m
  BY <1>1, FileFacts, LenProperties DEF Begins
<1>3. buffer' = n - m + Configuration!Min({l + 1, m})
  BY <1>1, LineEnds DEF Configuration!NextLine
<1>4. /\ e \in (buffer + 1) .. (n + 1) /\ (e <= n => e \in Breaks)
      /\ \A k \in Breaks : k > buffer => k >= e
  BY <1>1 DEF RowEnds
<1>5. buffer \in Nat /\ buffer < n /\ \A k \in Breaks : k \in 0 .. n
  BY <1>2, FileFacts
<1> HIDE DEF row, n, m, l
<1>6. CASE l < m
  <2>1. {l + 1, m} \in SUBSET Int /\ l + 1 \in {l + 1, m} /\ \A y \in {l + 1, m} : l + 1 <= y
    BY <1>2, <1>6
  <2> DEFINE d == l + 1
  <2>2. Configuration!Min({d, m}) = d
    <3>1. {d, m} \in SUBSET Int /\ d \in {d, m} /\ \A y \in {d, m} : d <= y
      BY <2>1
    <3> HIDE DEF d
    <3> QED
      BY <3>1, SmallestIs
  <2>3. buffer' = n - m + d
    BY <1>3, <2>2
  <2>4. buffer' = e /\ e <= n
    BY <1>1, <1>2, <1>6, <2>3
  <2> HIDE DEF e
  <2> QED
    BY <1>2, <1>4, <1>5, <2>4
<1>7. CASE l = m
  <2> DEFINE d == l + 1
  <2>1. Configuration!Min({d, m}) = m
    <3>1. {d, m} \in SUBSET Int /\ m \in {d, m} /\ \A y \in {d, m} : m <= y
      BY <1>2, <1>7
    <3> HIDE DEF d
    <3> QED
      BY <3>1, SmallestIs
  <2>2. buffer' = n - m + m
    BY <1>3, <2>1
  <2>3. buffer' = n /\ e = n + 1
    BY <1>1, <1>2, <1>7, <2>2
  <2> HIDE DEF e
  <2>4. \A b \in Breaks : b < buffer' <=> b < buffer \/ b = buffer
    BY <1>2, <1>4, <1>5, <2>3
  <2> QED
    BY <2>3, <2>4 DEF n
<1> QED
  BY <1>2, <1>6, <1>7

\* BiHandleOption is called for exactly the options the line sets, with what the
\* line says.
LEMMA LineSets ==
    ASSUME FileIs, buffer \in Breaks, buffer < Len(file), NEW o \in Options
    PROVE  /\ Configuration!Sets(Row(buffer), o)
                <=> Configuration!IsOption(Here) /\ Configuration!Name(Here) = o
           /\ Configuration!Sets(Row(buffer), o) =>
                /\ Configuration!Value(Here) = Configuration!Setting(Row(buffer), o)
                /\ Configuration!Value(Here) \in Seq(Characters)
<1> DEFINE row == Configuration!SkipWhitespace(Row(buffer))
<1>1. Begins(Here, row)
  BY AtALine
<1>2. Configuration!Sets(Row(buffer), o) <=> Append(o, Colon) \in Configuration!Prefixes(row)
  BY DEF Configuration!Sets
<1>3. Configuration!Setting(Row(buffer), o)
        = Configuration!Trimmed(Configuration!Until(SubSeq(row, Len(o) + 2, Len(row)), Hash))
  BY DEF Configuration!Setting
<1> HIDE DEF row
<1> QED
  BY <1>1, <1>2, <1>3, OptionOfLine, ValueOfLine

\* The options a line sets are added to those the lines before it set.
LEMMA SetByGrows ==
    ASSUME FileIs, buffer \in Breaks, buffer < Len(file), Configuration!NextLine(Here),
           UNCHANGED file, NEW o
    PROVE  SetBy(o)' = SetBy(o) \cup (IF Configuration!Sets(Row(buffer), o)
                                     THEN {buffer} ELSE {})
<1>1. /\ Breaks' = Breaks
      /\ \A b : Row(b)' = Row(b)
      /\ \A b : Configuration!Sets(Row(b), o)' = Configuration!Sets(Row(b), o)
  BY DEF Breaks, Row, Configuration!Lines, Configuration!Sets
<1>2. \A b \in Breaks : b < buffer' <=> b < buffer \/ b = buffer
  BY BehindTheLine
<1>3. SetBy(o)' = {b \in Breaks : b < buffer' /\ Configuration!Sets(Row(b), o)}
  BY <1>1 DEF SetBy
<1> QED
  BY <1>2, <1>3 DEF SetBy

\* What the file says does not change.
LEMMA FileKept ==
    ASSUME UNCHANGED file
    PROVE  /\ FileIs' = FileIs /\ Breaks' = Breaks /\ RefusedLine' = RefusedLine
           /\ \A b : Row(b)' = Row(b)
           /\ \A b, o : Configuration!Setting(Row(b), o)' = Configuration!Setting(Row(b), o)
BY DEF FileIs, Breaks, RefusedLine, Row, Configuration!Lines, Configuration!Sets,
       Configuration!Malformed, Configuration!Setting

LEMMA SkipStep == ConfigInv /\ Configuration!Skip => ConfigInv'
<1> SUFFICES ASSUME ConfigInv, Configuration!Skip PROVE ConfigInv'
  OBVIOUS
<1>1. /\ FileIs /\ (buffer \in Breaks \/ buffer = Len(file)) /\ configPc = "line"
      /\ Configuration!Text # <<>> /\ Configuration!NextLine(Here)
      /\ UNCHANGED <<file, values, configPc>>
      /\ ~Configuration!IsOption(Here)
  BY DEF Configuration!Skip, ConfigInv, Here, Configuration!IsOption
<1>2. buffer \in Breaks /\ buffer < Len(file)
  BY <1>1, NothingLeft, FileFacts
<1>3. \A o \in Options : SetBy(o)' = SetBy(o)
  BY <1>1, <1>2, SetByGrows, LineSets
<1>4. FileIs' /\ (buffer' \in Breaks' \/ buffer' = Len(file'))
  BY <1>1, <1>2, FileKept, BehindTheLine
<1>5. (DOMAIN values)' = {o \in Options : SetBy(o)' # {}}
  BY <1>1, <1>3 DEF ConfigInv
<1>6. ASSUME NEW o \in DOMAIN values
      PROVE  /\ values[o] \in Seq(Characters)
             /\ \E b : LastFor(b, o)' /\ values[o] = Configuration!Setting(Row(b), o)'
  <2>1. values[o] \in Seq(Characters)
    BY <1>6 DEF ConfigInv
  <2>2. PICK b : LastFor(b, o) /\ values[o] = Configuration!Setting(Row(b), o)
    BY <1>6 DEF ConfigInv
  <2>3. o \in Options
    BY <1>6 DEF ConfigInv
  <2>4. LastFor(b, o)'
    BY <1>3, <2>2, <2>3 DEF LastFor
  <2>5. Configuration!Setting(Row(b), o)' = Configuration!Setting(Row(b), o)
    BY <1>1, FileKept
  <2> QED
    BY <2>1, <2>2, <2>4, <2>5
<1> QED
  BY <1>1, <1>4, <1>5, <1>6 DEF ConfigInv

LEMMA HandleOptionStep == ConfigInv /\ Configuration!HandleOption => ConfigInv'
<1> SUFFICES ASSUME ConfigInv, Configuration!HandleOption PROVE ConfigInv'
  OBVIOUS
<1> DEFINE name == Configuration!Name(Here)
           value == Configuration!Value(Here)
<1>1. /\ FileIs /\ (buffer \in Breaks \/ buffer = Len(file)) /\ configPc = "line"
      /\ Configuration!Text # <<>> /\ Configuration!NextLine(Here)
      /\ UNCHANGED <<file, configPc>>
      /\ Configuration!IsOption(Here)
      /\ values' = [o \in DOMAIN values \cup {name} |->
                      IF o = name THEN value ELSE values[o]]
  BY DEF Configuration!HandleOption, ConfigInv, Here
<1>2. /\ DOMAIN values' = {name} \cup DOMAIN values
      /\ values'[name] = value
      /\ \A o \in DOMAIN values : o # name => values'[o] = values[o]
  <2> HIDE DEF name, value
  <2> QED
    BY <1>1
<1>3. buffer \in Breaks /\ buffer < Len(file)
  BY <1>1, NothingLeft, FileFacts
<1> HIDE DEF value
<1>4. name \in Options
  BY <1>1 DEF Configuration!IsOption
<1>5. \A o \in Options : /\ Configuration!Sets(Row(buffer), o) <=> o = name
                        /\ SetBy(o)' = SetBy(o) \cup (IF o = name THEN {buffer} ELSE {})
  <2> TAKE o \in Options
  <2>1. Configuration!Sets(Row(buffer), o) <=> o = name
    BY <1>1, <1>3, LineSets
  <2> HIDE DEF name
  <2> QED
    BY <1>1, <1>3, <2>1, SetByGrows
<1>6. value = Configuration!Setting(Row(buffer), name) /\ value \in Seq(Characters)
  BY <1>1, <1>3, <1>4, <1>5, LineSets DEF value
<1> HIDE DEF name
<1>7. FileIs' /\ (buffer' \in Breaks' \/ buffer' = Len(file'))
  BY <1>1, <1>3, FileKept, BehindTheLine
<1>8. (DOMAIN values)' = {o \in Options : SetBy(o)' # {}}
  <2>1. DOMAIN values = {o \in Options : SetBy(o) # {}}
    BY DEF ConfigInv
  <2>2. \A o \in Options : SetBy(o)' # {} <=> o = name \/ SetBy(o) # {}
    BY <1>5
  <2> QED
    BY <1>2, <1>4, <2>1, <2>2
<1>9. ASSUME NEW o \in (DOMAIN values)'
      PROVE  /\ values'[o] \in Seq(Characters)
             /\ \E b : LastFor(b, o)' /\ values'[o] = Configuration!Setting(Row(b), o)'
  <2>1. o \in Options /\ \A b : Configuration!Setting(Row(b), o)' = Configuration!Setting(Row(b), o)
    BY <1>1, <1>8, FileKept
  <2>2. CASE o = name
    <3>1. SetBy(o)' = SetBy(o) \cup {buffer} /\ \A d \in SetBy(o) : d <= buffer
      <4>1. \A d \in SetBy(o) : d \in Nat /\ d < buffer
        BY <1>1, FileFacts DEF SetBy
      <4>2. buffer \in Nat
        BY <1>1, NothingLeft
      <4> QED
        BY <1>5, <2>1, <2>2, <4>1, <4>2
    <3>2. PICK b : b = buffer
      OBVIOUS
    <3>3. LastFor(b, o)'
      <4>1. b \in Nat
        BY <1>1, <3>2, NothingLeft
      <4> QED
        BY <3>1, <3>2, <4>1 DEF LastFor
    <3> QED
      BY <1>2, <1>6, <2>1, <2>2, <3>2, <3>3
  <2>3. CASE o # name
    <3>1. o \in DOMAIN values /\ values'[o] = values[o] /\ SetBy(o)' = SetBy(o)
      BY <1>2, <1>5, <2>1, <2>3
    <3>2. values[o] \in Seq(Characters)
      BY <3>1 DEF ConfigInv
    <3>3. PICK b : LastFor(b, o) /\ values[o] = Configuration!Setting(Row(b), o)
      BY <3>1 DEF ConfigInv
    <3>4. LastFor(b, o)'
      BY <3>1, <3>3 DEF LastFor
    <3> QED
      BY <2>1, <3>1, <3>2, <3>3, <3>4
  <2> QED
    BY <2>2, <2>3
<1> QED
  BY <1>1, <1>7, <1>8, <1>9 DEF ConfigInv

LEMMA InvalidSyntaxStep == ConfigInv /\ Configuration!InvalidSyntax => ConfigInv'
<1> SUFFICES ASSUME ConfigInv, Configuration!InvalidSyntax PROVE ConfigInv'
  OBVIOUS
<1> DEFINE row == Configuration!SkipWhitespace(Row(buffer))
<1>1. /\ FileIs /\ (buffer \in Breaks \/ buffer = Len(file))
      /\ Configuration!Text # <<>> /\ configPc' = "crashed"
      /\ UNCHANGED <<file, buffer, values>>
      /\ ~Configuration!Ignored(Here) /\ Configuration!nameEnd(Here) = SizeMax
  BY DEF Configuration!InvalidSyntax, ConfigInv, Here
<1>2. buffer \in Breaks /\ buffer < Len(file)
  BY <1>1, NothingLeft, FileFacts
<1>3. RefusedLine
  <2>1. Begins(Here, row)
    BY <1>1, <1>2, AtALine
  <2>2. row # <<>> /\ Head(row) # Hash /\ Colon \notin Configuration!Range(row)
    BY <1>1, <2>1, MalformedLine
  <2>3. Configuration!Malformed(Configuration!Lines[buffer])
    BY <2>2 DEF Configuration!Malformed, Row
  <2>4. buffer \in DOMAIN Configuration!Lines
    BY <1>1, <1>2, FileFacts
  <2> QED
    BY <2>3, <2>4 DEF RefusedLine
<1>4. \A o, b : SetBy(o)' = SetBy(o) /\ LastFor(b, o)' = LastFor(b, o)
  BY <1>1 DEF SetBy, LastFor, Breaks, Row, Configuration!Lines, Configuration!Sets
<1> QED
  BY <1>1, <1>3, <1>4, FileKept DEF ConfigInv

\* Nothing is set behind the last break of a file.
LEMMA AllRead ==
    ASSUME FileIs, buffer = Len(file), NEW o \in Options
    PROVE  SetBy(o) = {b \in DOMAIN Configuration!Lines :
                         Configuration!Sets(Configuration!Lines[b], o)}
<1>1. /\ Len(file) \in Nat /\ DOMAIN Configuration!Lines = Breaks
      /\ \A b \in Breaks : b \in Nat /\ b <= Len(file)
  BY FileFacts
<1>2. ASSUME buffer \in Breaks PROVE ~Configuration!Sets(Row(buffer), o)
  <2>1. PICK e : RowEnds(buffer, e)
    BY <1>2, RowFacts
  <2>2. Row(buffer) = SubSeq(file, buffer + 1, buffer)
    <3>1. e \in (buffer + 1) .. (buffer + 1) /\ Row(buffer) = SubSeq(file, buffer + 1, e - 1)
      BY <2>1 DEF RowEnds
    <3>2. e - 1 = buffer
      BY <1>1, <3>1
    <3> QED
      BY <3>1, <3>2
  <2>3. Row(buffer) = <<>>
    <3>1. buffer + 1 > buffer /\ buffer \in Int /\ buffer + 1 \in Int
      BY <1>1
    <3> QED
      BY <2>2, <3>1, SubSeqEmpty
  <2>4. Configuration!SkipWhitespace(<<>>) = <<>>
    BY DEF Configuration!SkipWhitespace, Configuration!Range
  <2>5. Append(o, Colon) \notin Configuration!Prefixes(<<>>)
    <3>1. PICK none : none = <<>>
      OBVIOUS
    <3>2. none \in Seq(Characters) /\ Len(none) = 0 /\ Len(o) \in Nat
      BY <3>1, ConfigAssumptions, LenProperties
    <3>3. ~(Len(o) < Len(none))
      BY <3>2
    <3> QED
      BY <3>1, <3>2, <3>3, SetsByPosition
  <2> QED
    BY <2>3, <2>4, <2>5 DEF Configuration!Sets
<1> QED
  BY <1>1, <1>2 DEF SetBy, Row

LEMMA ValidateStep == ConfigInv /\ Configuration!Validate => ConfigInv'
<1> SUFFICES ASSUME ConfigInv, Configuration!Validate PROVE ConfigInv'
  OBVIOUS
<1>1. /\ FileIs /\ (buffer \in Breaks \/ buffer = Len(file))
      /\ Configuration!Text = <<>>
      /\ configPc' = IF Required \subseteq DOMAIN values THEN "done" ELSE "crashed"
      /\ UNCHANGED <<file, buffer, values>>
  BY DEF Configuration!Validate, ConfigInv
<1>2. buffer = Len(file)
  BY <1>1, NothingLeft
<1>3. ASSUME ~(Required \subseteq DOMAIN values) PROVE RefusedLine
  <2>1. PICK o \in Required : o \notin DOMAIN values
    BY <1>3
  <2>2. o \in Options
    BY ConfigAssumptions
  <2>3. SetBy(o) = {}
    BY <2>1, <2>2 DEF ConfigInv
  <2>4. \A b \in DOMAIN Configuration!Lines :
          ~Configuration!Sets(Configuration!Lines[b], o)
    BY <1>1, <1>2, <2>2, <2>3, AllRead
  <2> QED
    BY <2>4 DEF RefusedLine
<1>4. \A o, b : SetBy(o)' = SetBy(o) /\ LastFor(b, o)' = LastFor(b, o)
  BY <1>1 DEF SetBy, LastFor, Breaks, Row, Configuration!Lines, Configuration!Sets
<1> QED
  BY <1>1, <1>2, <1>3, <1>4, FileKept DEF ConfigInv

LEMMA ConfigKept ==
    ASSUME ConfigInv, UNCHANGED configVars
    PROVE  ConfigInv'
<1>1. UNCHANGED <<file, buffer, values, configPc>>
  BY DEF configVars
<1>2. \A o, b : SetBy(o)' = SetBy(o) /\ LastFor(b, o)' = LastFor(b, o)
  BY <1>1 DEF SetBy, LastFor, Breaks, Row, Configuration!Lines, Configuration!Sets
<1> QED
  BY <1>1, <1>2, FileKept DEF ConfigInv

LEMMA ConfigInvariant == Spec => []ConfigInv
<1>1. Init => ConfigInv
  <2> SUFFICES ASSUME Init PROVE ConfigInv
    OBVIOUS
  <2>1. /\ file \in Files /\ buffer = 0 /\ values = [o \in {} |-> <<>>]
        /\ configPc = "line"
    BY DEF Init, Configuration!Init
  <2>2. FileIs
    BY <2>1, ConfigAssumptions DEF FileIs
  <2>3. 0 \in Breaks /\ \A b \in Breaks : ~(b < 0)
    BY <2>2, FileFacts DEF Breaks
  <2>4. \A o : SetBy(o) = {}
    BY <2>1, <2>3 DEF SetBy
  <2>5. DOMAIN values = {}
    BY <2>1
  <2> QED
    BY <2>1, <2>2, <2>3, <2>4, <2>5 DEF ConfigInv
<1>2. ConfigInv /\ [Next]_vars => ConfigInv'
  <2> SUFFICES ASSUME ConfigInv, [Next]_vars PROVE ConfigInv'
    OBVIOUS
  <2>1. CASE ConfigStep
    BY <2>1, SkipStep, HandleOptionStep, InvalidSyntaxStep, ValidateStep DEF ConfigStep
  <2>2. CASE MemoryStep \/ EndMemory \/ ReadMbr \/ SkipPartition \/ TryPartition
             \/ NoRootPartition
    BY <2>2, ConfigKept
    DEF MemoryStep, EndMemory, ReadMbr, SkipPartition, TryPartition, NoRootPartition
  <2>3. CASE EndConfig \/ ProcessStdout \/ NoInitrd \/ LoadInitrd \/ InitrdFails
             \/ ProcessCommandLine
    BY <2>3, ConfigKept
    DEF EndConfig, ProcessStdout, NoInitrd, LoadInitrd, InitrdFails, ProcessCommandLine,
        configVars
  <2>4. CASE OpenKernel \/ LoadStep \/ EndLoad \/ Left \/ UNCHANGED vars
    BY <2>4, ConfigKept DEF OpenKernel, LoadStep, EndLoad, Left, vars
  <2> QED
    BY <2>1, <2>2, <2>3, <2>4 DEF Next
<1> QED
  BY <1>1, <1>2, PTL DEF Spec

\* The options of an accepted file are those its lines set, each as the last line
\* that sets it says.
LEMMA ConfigMeaning ==
    ASSUME ConfigInv, configPc = "done"
    PROVE  /\ DOMAIN values = {o \in Options : \E b \in DOMAIN Configuration!Lines :
                                 Configuration!Sets(Configuration!Lines[b], o)}
           /\ \A o \in DOMAIN values :
                values[o] = Configuration!Setting(
                  Configuration!Lines[Configuration!Max(
                    {b \in DOMAIN Configuration!Lines :
                       Configuration!Sets(Configuration!Lines[b], o)})], o)
<1>1. FileIs /\ buffer = Len(file) /\ DOMAIN values = {o \in Options : SetBy(o) # {}}
  BY DEF ConfigInv
<1>2. \A o \in Options : SetBy(o) = {b \in DOMAIN Configuration!Lines :
                                    Configuration!Sets(Configuration!Lines[b], o)}
  BY <1>1, AllRead
<1>3. DOMAIN values = {o \in Options : \E b \in DOMAIN Configuration!Lines :
                         Configuration!Sets(Configuration!Lines[b], o)}
  BY <1>1, <1>2
<1>4. ASSUME NEW o \in DOMAIN values
      PROVE  values[o] = Configuration!Setting(
               Configuration!Lines[Configuration!Max(SetBy(o))], o)
  <2>1. PICK b : LastFor(b, o) /\ values[o] = Configuration!Setting(Row(b), o)
    BY <1>4 DEF ConfigInv
  <2>2. SetBy(o) \in SUBSET Int /\ b \in SetBy(o) /\ \A d \in SetBy(o) : b >= d
    <3>1. \A d \in SetBy(o) : d \in Int
      BY <1>1, FileFacts DEF SetBy
    <3> QED
      BY <2>1, <3>1 DEF LastFor
  <2>3. Configuration!Max(SetBy(o)) = b
    BY <2>2, LargestIs
  <2> QED
    BY <2>1, <2>3 DEF Row
<1> QED
  BY <1>1, <1>2, <1>3, <1>4

\* BlLoadConfigurationFromFile means what the file says, whatever the file: an
\* option has the value of the last line that sets it, trimmed and without the
\* comment, and the file is refused only for a malformed line or an option that
\* no line sets.  The length of a value never wraps.
THEOREM ConfigurationIsAsWritten == Spec => []OptionsAsWritten
<1>1. ConfigInv => OptionsAsWritten
  <2> SUFFICES ASSUME ConfigInv PROVE Configuration!OptionsAsWritten
    BY DEF OptionsAsWritten
  <2>1. Configuration!ValueInsideLine
    <3> SUFFICES ASSUME Configuration!IsOption(Here)
                 PROVE  /\ Configuration!valueStart(Here) <= Configuration!valueEnd(Here)
                        /\ Configuration!valueEnd(Here) <= Configuration!lineEnd(Here)
      BY DEF Configuration!ValueInsideLine, Here
    <3>1. FileIs /\ (buffer \in Breaks \/ buffer = Len(file))
      BY DEF ConfigInv
    <3>2. Configuration!Text # <<>>
      BY <3>1, NothingLeft
    <3>3. buffer \in Breaks /\ buffer < Len(file)
      BY <3>1, <3>2, NothingLeft, FileFacts
    <3>4. Begins(Here, Configuration!SkipWhitespace(Row(buffer)))
      BY <3>1, <3>3, AtALine
    <3> QED
      BY <3>4, ValueOfLine
  <2>2. configPc = "crashed" => RefusedLine
    BY DEF ConfigInv
  <2>3. Configuration!OptionsAsWritten
    BY <2>1, <2>2, ConfigMeaning DEF Configuration!OptionsAsWritten, RefusedLine
  <2> QED
    BY <2>3
<1> QED
  BY <1>1, ConfigInvariant, PTL

-----------------------------------------------------------------------------
(* BiProcessConfig. *)

\* b elements of a list, behind its first a.
LEMMA Stretch ==
    ASSUME NEW S, NEW w \in Seq(S), NEW a \in Nat, NEW b \in Nat, a + b <= Len(w)
    PROVE  /\ SubSeq(w, a + 1, a + b) \in Seq(S) /\ Len(SubSeq(w, a + 1, a + b)) = b
           /\ \A k \in 1 .. b : SubSeq(w, a + 1, a + b)[k] = w[a + k]
<1> DEFINE from == a + 1
           to == a + b
<1>1. from \in Int /\ to \in Int /\ \A i \in from .. to : w[i] \in S
  <2>1. Len(w) \in Nat /\ \A i \in 1 .. Len(w) : w[i] \in S
    BY LenProperties, ElementOfSeq
  <2> QED
    BY <2>1
<1>2. /\ to - from + 1 = b /\ (~(from <= to) => b = 0)
      /\ \A k \in 1 .. b : from + k - 1 = a + k
  OBVIOUS
<1> HIDE DEF from, to
<1>3. /\ SubSeq(w, from, to) \in Seq(S)
      /\ Len(SubSeq(w, from, to)) = IF from <= to THEN to - from + 1 ELSE 0
      /\ \A k \in 1 .. (to - from + 1) : SubSeq(w, from, to)[k] = w[from + k - 1]
  BY <1>1, SubSeqProperties
<1>4. /\ SubSeq(w, from, to) \in Seq(S) /\ Len(SubSeq(w, from, to)) = b
      /\ \A k \in 1 .. b : SubSeq(w, from, to)[k] = w[a + k]
  BY <1>2, <1>3
<1> QED
  BY <1>4 DEF from, to

LEMMA StretchIs ==
    ASSUME NEW S, NEW whole \in Seq(S), NEW t \in Seq(S), NEW a \in Nat, NEW c \in Nat,
           Len(whole) = a + Len(t) + c, \A k \in 1 .. Len(t) : whole[a + k] = t[k]
    PROVE  SubSeq(whole, a + 1, Len(whole) - c) = t
<1> DEFINE b == Len(t)
           part == SubSeq(whole, a + 1, a + b)
<1>1. b \in Nat
  BY LenProperties
<1> HIDE DEF b
<1>2. Len(whole) - c = a + b /\ a + b <= Len(whole)
  BY <1>1 DEF b
<1>3. /\ part \in Seq(S) /\ Len(part) = b
      /\ \A k \in 1 .. b : part[k] = whole[a + k]
  BY <1>1, <1>2, Stretch
<1> HIDE DEF part
<1>4. \A k \in 1 .. b : part[k] = t[k]
  BY <1>3 DEF b
<1>5. part = t
  BY <1>3, <1>4, SeqEqual DEF b
<1> QED
  BY <1>2, <1>5 DEF part

\* Three lists in a row: the one in the middle.
LEMMA InTheMiddle ==
    ASSUME NEW S, NEW s \in Seq(S), NEW t \in Seq(S), NEW u \in Seq(S),
           NEW whole, whole = s \o t \o u
    PROVE  SubSeq(whole, Len(s) + 1, Len(whole) - Len(u)) = t
<1> DEFINE a == Len(s)
           b == Len(t)
           c == Len(u)
           both == s \o t
<1>1. a \in Nat /\ b \in Nat /\ c \in Nat
  BY LenProperties
<1>2. /\ both \in Seq(S) /\ Len(both) = a + b
      /\ \A k \in 1 .. b : both[a + k] = t[k]
  <2>1. /\ both \in Seq(S) /\ Len(both) = a + b
        /\ \A i \in 1 .. (a + b) : both[i] = IF i <= a THEN s[i] ELSE t[i - a]
    BY ConcatProperties
  <2> HIDE DEF both, a, b
  <2>2. ASSUME NEW k \in 1 .. b PROVE both[a + k] = t[k]
    <3>1. PICK i \in 1 .. (a + b) : i = a + k
      BY <1>1
    <3>2. ~(i <= a) /\ i - a = k
      BY <1>1, <3>1
    <3> QED
      BY <2>1, <3>1, <3>2
  <2> QED
    BY <2>1, <2>2
<1> HIDE DEF both
<1>3. /\ whole \in Seq(S) /\ Len(whole) = a + b + c
      /\ \A k \in 1 .. b : whole[a + k] = t[k]
  <2>1. whole = both \o u
    BY DEF both
  <2>2. /\ whole \in Seq(S) /\ Len(whole) = Len(both) + Len(u)
        /\ \A i \in 1 .. (Len(both) + Len(u)) :
             whole[i] = IF i <= Len(both) THEN both[i] ELSE u[i - Len(both)]
    <3>1. both \in Seq(S)
      BY <1>2
    <3>2. /\ both \o u \in Seq(S) /\ Len(both \o u) = Len(both) + Len(u)
          /\ \A i \in 1 .. (Len(both) + Len(u)) :
               (both \o u)[i] = IF i <= Len(both) THEN both[i] ELSE u[i - Len(both)]
      BY <3>1, ConcatProperties
    <3> QED
      BY <2>1, <3>2
  <2>3. Len(both) + Len(u) = a + b + c
    BY <1>2
  <2> HIDE DEF a, b, c
  <2>4. ASSUME NEW k \in 1 .. b PROVE whole[a + k] = t[k]
    <3>1. PICK i \in 1 .. (a + b + c) : i = a + k
      BY <1>1
    <3>2. i <= a + b
      BY <1>1, <3>1
    <3> QED
      BY <1>2, <2>2, <2>3, <3>1, <3>2
  <2> QED
    BY <2>2, <2>3, <2>4
<1> QED
  BY <1>1, <1>3, StretchIs DEF a, b, c

\* A permanent block lies in a memory node, behind the image.
LEMMA PlacesInNodes ==
    ASSUME MemoryInv, memoryPc = "done", NEW size \in Nat, size # 0,
           NEW p \in Places(size)
    PROVE  /\ p \in Nat /\ imageEnd <= p
           /\ \E n \in Range(nodes) : n.start <= p /\ p + size <= n.end
<1>1. /\ p \in Nat
      /\ \E r \in Range(heap) : r.start <= p /\ p + size < r.end
  <2>1. Banks * Interval \in Nat
    BY MemAssumptions
  <2> QED
    BY <2>1 DEF Places
<1>2. PICK r \in Range(heap) : r.start <= p /\ p + size < r.end
  BY <1>1
<1>3. /\ MemTypes /\ HeapUpTo(Banks) /\ nodes \in Seq(Bounds) /\ Separated(nodes)
      /\ Memory!Covered(nodes) = RamBelow(Banks)
  BY DEF MemoryInv, MemInv
<1>4. r \in Bounds /\ r.start \in Nat /\ r.end \in Nat /\ imageEnd <= r.start /\ imageEnd \in Nat
  <2>1. heap \in Seq(Bounds) /\ imageEnd <= r.start /\ imageEnd \in Nat
    BY <1>3 DEF HeapUpTo, MemTypes
  <2>2. r \in Bounds
    BY <2>1, LenProperties, ElementOfSeq DEF Range
  <2> QED
    BY <2>1, <2>2 DEF Bounds
<1>5. \A q \in r.start .. (r.end - 1) : q \in Memory!Covered(nodes)
  <2>1. Memory!Pages(r) \subseteq Memory!Covered(heap)
    BY SameOperators DEF Memory!Covered
  <2> QED
    BY <1>3, <2>1 DEF HeapUpTo, Memory!Pages
<1>6. \A q \in Memory!Covered(nodes) :
        \E k \in DOMAIN nodes : q \in nodes[k].start .. (nodes[k].end - 1)
  BY SameOperators DEF Memory!Covered, Memory!Pages, Range
<1>7. \A k \in DOMAIN nodes : nodes[k].start \in Nat /\ nodes[k].end \in Nat /\ k \in Nat
  <2>1. \A k \in DOMAIN nodes : nodes[k] \in Bounds /\ k \in Nat
    BY <1>3, LenProperties, ElementOfSeq
  <2> QED
    BY <2>1 DEF Bounds
<1>8. PICK k \in DOMAIN nodes : p \in nodes[k].start .. (nodes[k].end - 1)
  <2>1. p \in r.start .. (r.end - 1)
    BY <1>1, <1>2, <1>4
  <2> QED
    BY <1>5, <1>6, <2>1
<1>9. p + size <= nodes[k].end
  <2> DEFINE e == nodes[k].end
  <2> SUFFICES ASSUME e < p + size PROVE FALSE
    BY <1>1, <1>7
  <2>1. e \in Nat /\ nodes[k].start < e /\ e \in r.start .. (r.end - 1)
    BY <1>1, <1>2, <1>4, <1>7, <1>8
  <2>2. PICK j \in DOMAIN nodes : e \in nodes[j].start .. (nodes[j].end - 1)
    BY <1>5, <1>6, <2>1
  <2>3. CASE k < j
    BY <1>3, <1>7, <2>1, <2>2, <2>3 DEF Separated
  <2>4. CASE j < k
    BY <1>3, <1>7, <2>1, <2>2, <2>4 DEF Separated
  <2>5. CASE j = k
    BY <1>7, <2>1, <2>2, <2>5
  <2> QED
    BY <1>7, <2>3, <2>4, <2>5
<1> QED
  BY <1>1, <1>2, <1>4, <1>7, <1>8, <1>9 DEF Range

\* What each step adds to the node "chosen".
StdoutProperty ==
    IF StdoutPath \in DOMAIN values THEN <<Property("stdout-path", values[StdoutPath])>>
    ELSE <<>>

BootargsProperty ==
    IF commandLine # NoString THEN <<Property("bootargs", commandLine)>> ELSE <<>>

\* Where an initrd that starts at p lies.
InitrdLies(p) ==
    IF initrd.size = 0 THEN p = NullPointer
    ELSE /\ imageEnd <= p
         /\ \E n \in Range(nodes) : n.start <= p /\ p + initrd.size <= n.end

InitrdProperties(range) ==
    IF InitrdPath \notin DOMAIN values THEN range = <<>>
    ELSE /\ initrd.size \in Nat
         /\ \E p \in Nat :
              /\ range = <<Property("linux,initrd-start", p),
                           Property("linux,initrd-end", p + initrd.size)>>
              /\ InitrdLies(p)

EarlyPhases == {"memory", "mbr", "search", "config", "stdout"}

LatePhases == {"kernel", "load", "started"}

\* The node "chosen" at each step of BiProcessConfig.
ChosenInv ==
    /\ commandLine = IF CommandLine \in DOMAIN values THEN values[CommandLine] ELSE args
    /\ chosenNodes = IF chosen = <<>> THEN 0 ELSE 1
    /\ phase \in EarlyPhases => chosen = <<>>
    /\ phase = "initrd" => chosen = StdoutProperty
    /\ phase = "bootargs" =>
         \E range : InitrdProperties(range) /\ chosen = StdoutProperty \o range
    /\ phase \in LatePhases =>
         \E range : /\ InitrdProperties(range)
                    /\ chosen = StdoutProperty \o range \o BootargsProperty
    /\ phase \in {"stdout", "initrd", "bootargs"} \cup LatePhases => configPc = "done"

\* All that is ever added are properties.
LEMMA ListsOfProperties ==
    \E S : /\ StdoutProperty \in Seq(S) /\ BootargsProperty \in Seq(S) /\ <<>> \in Seq(S)
           /\ \A range : InitrdProperties(range) => range \in Seq(S)
<1> DEFINE S == {Property("stdout-path", values[StdoutPath]),
                 Property("bootargs", commandLine)}
                \cup {Property("linux,initrd-start", p) : p \in Nat}
                \cup {Property("linux,initrd-end", p) : p \in Nat}
<1>1. StdoutProperty \in Seq(S)
  <2>1. Property("stdout-path", values[StdoutPath]) \in S
    OBVIOUS
  <2> HIDE DEF S
  <2> QED
    BY <2>1 DEF StdoutProperty
<1>2. BootargsProperty \in Seq(S)
  <2>1. Property("bootargs", commandLine) \in S
    OBVIOUS
  <2> HIDE DEF S
  <2> QED
    BY <2>1 DEF BootargsProperty
<1>3. ASSUME NEW range, InitrdProperties(range) PROVE range \in Seq(S)
  <2>1. CASE InitrdPath \notin DOMAIN values
    <3> HIDE DEF S
    <3> QED
      BY <1>3, <2>1 DEF InitrdProperties
  <2>2. CASE InitrdPath \in DOMAIN values
    <3>1. PICK p \in Nat : range = <<Property("linux,initrd-start", p),
                                     Property("linux,initrd-end", p + initrd.size)>>
      BY <1>3, <2>2 DEF InitrdProperties
    <3>2. p + initrd.size \in Nat
      <4>1. initrd.size \in Nat
        BY <1>3, <2>2 DEF InitrdProperties
      <4>2. \A s \in Nat : p + s \in Nat
        OBVIOUS
      <4> QED
        BY <4>1, <4>2
    <3> DEFINE a == Property("linux,initrd-start", p)
               b == Property("linux,initrd-end", p + initrd.size)
    <3>3. a \in S /\ b \in S
      BY <3>2
    <3> HIDE DEF S, a, b
    <3>4. <<a, b>> \in Seq(S)
      BY <3>3
    <3> QED
      BY <3>1, <3>4 DEF a, b
  <2> QED
    BY <2>1, <2>2
<1> HIDE DEF S
<1> QED
  BY <1>1, <1>2, <1>3

LEMMA SomethingAdded ==
    ASSUME NEW S, NEW s \in Seq(S), NEW t \in Seq(S), Len(t) > 0
    PROVE  s \o t # <<>>
<1>1. Len(s \o t) = Len(s) + Len(t) /\ Len(s) \in Nat /\ Len(t) \in Nat
  BY ConcatProperties, LenProperties
<1>2. Len(s \o t) # 0
  BY <1>1
<1> QED
  BY <1>2

\* Nothing but the phase changes.
LEMMA ChosenKept ==
    ASSUME ChosenInv,
           UNCHANGED <<imageEnd, nodes, disk, root, values, configPc, chosenVars>>,
           \/ phase' = phase \/ phase' = "crashed"
           \/ phase \in LatePhases /\ phase' \in LatePhases
    PROVE  ChosenInv'
<1>1. /\ UNCHANGED <<commandLine, args, chosenNodes, chosen>>
      /\ StdoutProperty' = StdoutProperty /\ BootargsProperty' = BootargsProperty
      /\ \A range : InitrdProperties(range)' <=> InitrdProperties(range)
  BY DEF chosenVars, StdoutProperty, BootargsProperty, InitrdProperties, InitrdLies, initrd
<1> QED
  BY <1>1 DEF ChosenInv, EarlyPhases, LatePhases

\* Until the configuration is read there are no properties.
LEMMA BeforeChosen ==
    ASSUME ChosenInv, phase \in EarlyPhases \ {"stdout"}, UNCHANGED <<chosen, chosenNodes>>,
           phase' \in EarlyPhases \cup {"crashed"}, phase' = "stdout" => configPc' = "done",
           commandLine' = IF CommandLine \in DOMAIN values' THEN values'[CommandLine] ELSE args'
    PROVE  ChosenInv'
BY DEF ChosenInv, EarlyPhases, LatePhases

LEMMA ConfigChosen == ChosenInv /\ ConfigStep => ChosenInv'
<1> SUFFICES ASSUME ChosenInv, ConfigStep PROVE ChosenInv'
  OBVIOUS
<1>1. /\ phase = "config" /\ UNCHANGED <<phase, args, chosen, chosenNodes>>
      /\ commandLine' = IF CommandLine \in DOMAIN values' THEN values'[CommandLine]
                        ELSE commandLine
  BY DEF ConfigStep
<1>2. DOMAIN values \subseteq DOMAIN values'
  BY DEF ConfigStep, Configuration!Skip, Configuration!HandleOption,
         Configuration!InvalidSyntax, Configuration!Validate
<1> QED
  BY <1>1, <1>2, BeforeChosen DEF ChosenInv, EarlyPhases

LEMMA StdoutChosen == ChosenInv /\ ProcessStdout => ChosenInv'
<1> SUFFICES ASSUME ChosenInv, ProcessStdout PROVE ChosenInv'
  OBVIOUS
<1>1. /\ phase = "stdout" /\ phase' = "initrd" /\ chosen = <<>> /\ chosenNodes = 0
      /\ UNCHANGED <<commandLine, args, values, configPc>> /\ configPc = "done"
      /\ IF StdoutPath \in DOMAIN values
           THEN AddToChosen(<<Property("stdout-path", values[StdoutPath])>>)
           ELSE UNCHANGED <<chosen, chosenNodes>>
  BY DEF ProcessStdout, GoTo, ChosenInv, EarlyPhases, configVars
<1>2. StdoutProperty' = StdoutProperty
  BY <1>1 DEF StdoutProperty
<1>3. chosen' = StdoutProperty /\ chosenNodes' = IF chosen' = <<>> THEN 0 ELSE 1
  <2> DEFINE e == Property("stdout-path", values[StdoutPath])
  <2> HIDE DEF e
  <2>1. <<>> \o <<e>> = <<e>> /\ <<e>> # <<>>
    <3>1. <<e>> \in Seq({e})
      OBVIOUS
    <3> QED
      BY <3>1, ConcatEmptySeq
  <2> QED
    BY <1>1, <2>1 DEF AddToChosen, StdoutProperty, e
<1> QED
  BY <1>1, <1>2, <1>3 DEF ChosenInv, EarlyPhases, LatePhases

LEMMA NoInitrdChosen == ChosenInv /\ NoInitrd => ChosenInv'
<1> SUFFICES ASSUME ChosenInv, NoInitrd PROVE ChosenInv'
  OBVIOUS
<1>1. /\ phase = "initrd" /\ phase' = "bootargs" /\ InitrdPath \notin DOMAIN values
      /\ UNCHANGED <<commandLine, args, chosen, chosenNodes, values, configPc>>
      /\ chosen = StdoutProperty
  BY DEF NoInitrd, GoTo, ChosenInv, configVars, chosenVars
<1>2. StdoutProperty' = StdoutProperty /\ InitrdProperties(<<>>)'
  BY <1>1 DEF StdoutProperty, InitrdProperties
<1>3. StdoutProperty = StdoutProperty \o <<>>
  BY ListsOfProperties, ConcatEmptySeq
<1> QED
  BY <1>1, <1>2, <1>3 DEF ChosenInv, EarlyPhases, LatePhases

\* Where the initrd is read from is on the disk.
LEMMA SizeOfInitrd ==
    ASSUME RootInv, phase \in SearchedPhases, initrd # NoFile
    PROVE  initrd.size \in Nat
<1> DEFINE path == values[InitrdPath]
<1>1. IsDisk(disk) /\ root \in DOMAIN disk.partitions
  BY DEF RootInv
<1>2. CASE path = BootVolume
  <2> DEFINE Entries == [indicator : 0 .. 255, type : 0 .. 255, size : Nat,
                         content : {"short", "foreign", "bare", "root"}]
  <2> HIDE DEF Entries
  <2>1. disk.partitions \in Seq(Entries)
    BY <1>1 DEF IsDisk, Entries
  <2>2. disk.partitions[root] \in Entries
    BY <1>1, <2>1, ElementOfSeq, LenProperties
  <2>3. disk.partitions[root].size \in Nat
    BY <2>2 DEF Entries
  <2> QED
    BY <1>2, <2>3 DEF initrd
<1>3. CASE path # BootVolume
  <2>1. path \in DOMAIN disk.files /\ initrd = disk.files[path]
    BY <1>3 DEF initrd
  <2>2. disk.files[path] \in [size : Nat, sectors : BOOLEAN]
    BY <1>1, <2>1 DEF IsDisk
  <2> QED
    BY <2>1, <2>2
<1> QED
  BY <1>2, <1>3

LEMMA InitrdChosen ==
    ASSUME ChosenInv, MemoryInv, RootInv, LoadInitrd
    PROVE  ChosenInv'
<1> DEFINE two(p) == <<Property("linux,initrd-start", p),
                       Property("linux,initrd-end", p + initrd.size)>>
<1>1. /\ phase = "initrd" /\ phase' = "bootargs" /\ InitrdPath \in DOMAIN values
      /\ UNCHANGED <<commandLine, args, values, configPc, imageEnd, nodes, disk, root>>
      /\ chosen = StdoutProperty /\ configPc = "done" /\ initrd # NoFile
      /\ \E p \in Places(initrd.size) : AddToChosen(two(p))
  BY DEF LoadInitrd, GoTo, ChosenInv, configVars, memoryVars, searchVars
<1>2. PICK p \in Places(initrd.size) : chosen' = chosen \o two(p) /\ chosenNodes' = 1
  BY <1>1 DEF AddToChosen
<1>3. initrd.size \in Nat
  BY <1>1, SizeOfInitrd DEF SearchedPhases
<1>4. memoryPc = "done"
  BY <1>1 DEF MemoryInv
<1>5. p \in Nat /\ InitrdLies(p)
  <2>1. CASE initrd.size = 0
    BY <2>1 DEF Places, NullPointer, InitrdLies
  <2>2. CASE initrd.size # 0
    BY <1>3, <1>4, <2>2, PlacesInNodes DEF InitrdLies
  <2> QED
    BY <2>1, <2>2
<1>6. InitrdProperties(two(p))
  BY <1>1, <1>3, <1>5 DEF InitrdProperties
<1>7. Len(two(p)) > 0
  OBVIOUS
<1> HIDE DEF two
<1>8. chosen' # <<>>
  BY <1>1, <1>2, <1>6, <1>7, ListsOfProperties, SomethingAdded
<1>9. /\ StdoutProperty' = StdoutProperty
      /\ \A range : InitrdProperties(range)' <=> InitrdProperties(range)
  BY <1>1 DEF StdoutProperty, InitrdProperties, InitrdLies, initrd
<1>10. \E range : InitrdProperties(range)' /\ chosen' = StdoutProperty' \o range
  BY <1>1, <1>2, <1>6, <1>9
<1>11. commandLine' = IF CommandLine \in DOMAIN values' THEN values'[CommandLine] ELSE args'
  BY <1>1 DEF ChosenInv
<1> QED
  BY <1>1, <1>2, <1>8, <1>10, <1>11 DEF ChosenInv, EarlyPhases, LatePhases

LEMMA CommandLineChosen == ChosenInv /\ ProcessCommandLine => ChosenInv'
<1> SUFFICES ASSUME ChosenInv, ProcessCommandLine PROVE ChosenInv'
  OBVIOUS
<1>1. /\ phase = "bootargs" /\ phase' = "kernel" /\ configPc = "done"
      /\ UNCHANGED <<commandLine, args, values, configPc, imageEnd, nodes, disk, root>>
      /\ IF commandLine # NoString
           THEN AddToChosen(<<Property("bootargs", commandLine)>>)
           ELSE UNCHANGED <<chosen, chosenNodes>>
  BY DEF ProcessCommandLine, GoTo, ChosenInv, configVars, memoryVars, searchVars
<1>2. PICK range : InitrdProperties(range) /\ chosen = StdoutProperty \o range
  BY <1>1 DEF ChosenInv
<1>3. PICK S : /\ StdoutProperty \in Seq(S) /\ BootargsProperty \in Seq(S) /\ <<>> \in Seq(S)
               /\ range \in Seq(S)
  BY <1>2, ListsOfProperties
<1>4. chosen \in Seq(S)
  BY <1>2, <1>3, ConcatProperties
<1>5. /\ chosen' = chosen \o BootargsProperty
      /\ chosenNodes' = IF chosen' = <<>> THEN 0 ELSE 1
  <2>1. CASE commandLine # NoString
    <3>1. BootargsProperty = <<Property("bootargs", commandLine)>>
      BY <2>1 DEF BootargsProperty
    <3>2. chosen' = chosen \o BootargsProperty /\ chosenNodes' = 1
      BY <1>1, <2>1, <3>1 DEF AddToChosen
    <3>3. Len(BootargsProperty) > 0
      BY <3>1
    <3> QED
      BY <1>3, <1>4, <3>2, <3>3, SomethingAdded
  <2>2. CASE commandLine = NoString
    <3>1. chosen \o <<>> = chosen
      BY <1>4, ConcatEmptySeq
    <3> QED
      BY <1>1, <2>2, <3>1 DEF BootargsProperty, ChosenInv
  <2> QED
    BY <2>1, <2>2
<1>6. /\ StdoutProperty' = StdoutProperty /\ BootargsProperty' = BootargsProperty
      /\ InitrdProperties(range)' <=> InitrdProperties(range)
  BY <1>1 DEF StdoutProperty, BootargsProperty, InitrdProperties, InitrdLies, initrd
<1>7. \E r : InitrdProperties(r)' /\ chosen' = StdoutProperty' \o r \o BootargsProperty'
  BY <1>2, <1>5, <1>6
<1>8. commandLine' = IF CommandLine \in DOMAIN values' THEN values'[CommandLine] ELSE args'
  BY <1>1 DEF ChosenInv
<1> QED
  BY <1>1, <1>5, <1>7, <1>8 DEF ChosenInv, EarlyPhases, LatePhases

LEMMA ChosenInvariant == Spec => []ChosenInv
<1>1. Init => ChosenInv
  BY DEF Init, ChosenInv, Configuration!Init, EarlyPhases, LatePhases
<1>2. ChosenInv /\ MemoryInv /\ RootInv /\ [Next]_vars => ChosenInv'
  <2> SUFFICES ASSUME ChosenInv, MemoryInv, RootInv, [Next]_vars PROVE ChosenInv'
    OBVIOUS
  <2>1. CASE MemoryStep \/ EndMemory \/ ReadMbr \/ SkipPartition \/ TryPartition
             \/ NoRootPartition
    <3>1. phase \in EarlyPhases \ {"config", "stdout"} /\ UNCHANGED <<configVars, chosenVars>>
          /\ phase' \in (EarlyPhases \ {"stdout"}) \cup {"crashed"}
      BY <2>1 DEF MemoryStep, EndMemory, ReadMbr, SkipPartition, TryPartition,
                  NoRootPartition, Crash, GoTo, EarlyPhases
    <3> QED
      BY <3>1, BeforeChosen DEF configVars, chosenVars, ChosenInv
  <2>2. CASE ConfigStep
    BY <2>2, ConfigChosen
  <2>3. CASE EndConfig
    <3>1. phase = "config" /\ UNCHANGED <<configVars, chosenVars>>
          /\ phase' = IF configPc = "done" THEN "stdout" ELSE "crashed"
      BY <2>3 DEF EndConfig, Crash, GoTo
    <3> QED
      BY <3>1, BeforeChosen DEF configVars, chosenVars, ChosenInv, EarlyPhases
  <2>4. CASE ProcessStdout \/ NoInitrd \/ LoadInitrd \/ ProcessCommandLine
    BY <2>4, StdoutChosen, NoInitrdChosen, InitrdChosen, CommandLineChosen
  <2>5. CASE InitrdFails \/ OpenKernel \/ LoadStep \/ EndLoad
    BY <2>5, ChosenKept
    DEF InitrdFails, OpenKernel, LoadStep, EndLoad, Crash, GoTo, memoryVars, searchVars,
        configVars, LatePhases
  <2>6. CASE Left \/ UNCHANGED vars
    BY <2>6, ChosenKept DEF Left, vars, memoryVars, searchVars, configVars
  <2> QED
    BY <2>1, <2>2, <2>3, <2>4, <2>5, <2>6 DEF Next
<1> QED
  BY <1>1, <1>2, MemoryInvariant, RootInvariant, PTL DEF Spec

\* The kernel's node "chosen" is what the configuration says, whatever the files,
\* disks and RAM: each property once and none that no line asks for, and an initrd
\* as large as its source, in a node of memory the kernel is told of unless it is
\* empty.
THEOREM ChosenIsAsConfigured == Spec => []ChosenAsConfigured
<1>1. ChosenInv /\ ConfigInv => ChosenAsConfigured
  <2> SUFFICES ASSUME ChosenInv, ConfigInv, phase \in {"kernel", "started"}
               PROVE  ChosenAsConfigured
    BY DEF ChosenAsConfigured
  <2>1. configPc = "done" /\ DOMAIN values \subseteq Options
        /\ \A o \in DOMAIN values : values[o] \in Seq(Characters)
    BY DEF ChosenInv, ConfigInv, LatePhases
  <2>2. \A o \in Options : IsSet(o) <=> o \in DOMAIN values
    BY <2>1, ConfigMeaning DEF IsSet
  <2>3. \A o \in DOMAIN values : Setting(o) = values[o]
    BY <2>1, ConfigMeaning DEF Setting, Max, Configuration!Max
  <2>4. {StdoutPath, InitrdPath, CommandLine} \subseteq Options
        /\ NoString \notin Seq(Characters)
    BY BootAssumption
  <2> DEFINE stdout == Expected(StdoutPath, "stdout-path", <<>>)
             bootargs == Expected(CommandLine, "bootargs",
                                  IF args = NoString THEN <<>>
                                  ELSE <<Property("bootargs", args)>>)
             middle == SubSeq(chosen, Len(stdout) + 1, Len(chosen) - Len(bootargs))
  <2>5. stdout = StdoutProperty
    BY <2>2, <2>3, <2>4 DEF Expected, StdoutProperty
  <2>6. bootargs = BootargsProperty
    <3>1. CASE CommandLine \in DOMAIN values
      <4>1. commandLine = values[CommandLine] /\ commandLine # NoString
        BY <2>1, <2>4, <3>1 DEF ChosenInv
      <4> QED
        BY <2>2, <2>3, <2>4, <3>1, <4>1 DEF Expected, BootargsProperty
    <3>2. CASE CommandLine \notin DOMAIN values
      <4>1. commandLine = args
        BY <3>2 DEF ChosenInv
      <4> QED
        BY <2>2, <2>4, <3>2, <4>1 DEF Expected, BootargsProperty
    <3> QED
      BY <3>1, <3>2
  <2>7. PICK range : /\ InitrdProperties(range)
                     /\ chosen = StdoutProperty \o range \o BootargsProperty
    BY DEF ChosenInv, LatePhases
  <2>8. SubSeq(chosen, Len(StdoutProperty) + 1, Len(chosen) - Len(BootargsProperty)) = range
    BY <2>7, ListsOfProperties, InTheMiddle
  <2>9. middle = range /\ chosen = stdout \o middle \o bootargs
    BY <2>5, <2>6, <2>7, <2>8
  <2> HIDE DEF stdout, bootargs, middle
  <2>10. IF ~IsSet(InitrdPath) THEN middle = <<>>
         ELSE /\ Len(middle) = 2
              /\ middle[1].name = "linux,initrd-start"
              /\ middle[2].name = "linux,initrd-end"
              /\ middle[2].value - middle[1].value =
                   IF Setting(InitrdPath) = BootVolume
                     THEN disk.partitions[root].size
                     ELSE disk.files[Setting(InitrdPath)].size
              /\ IF middle[1].value = middle[2].value
                   THEN middle[1].value = NullPointer
                   ELSE /\ middle[1].value >= imageEnd
                        /\ \E n \in Range(nodes) :
                             middle[1].value >= n.start /\ middle[2].value <= n.end
    <3>1. CASE InitrdPath \notin DOMAIN values
      BY <2>2, <2>4, <2>7, <2>9, <3>1 DEF InitrdProperties
    <3>2. CASE InitrdPath \in DOMAIN values
      <4>1. PICK p \in Nat :
              /\ range = <<Property("linux,initrd-start", p),
                           Property("linux,initrd-end", p + initrd.size)>>
              /\ InitrdLies(p)
        BY <2>7, <3>2 DEF InitrdProperties
      <4>2. initrd.size \in Nat
        BY <2>7, <3>2 DEF InitrdProperties
      <4>3. initrd.size = IF Setting(InitrdPath) = BootVolume
                            THEN disk.partitions[root].size
                            ELSE disk.files[Setting(InitrdPath)].size
        BY <2>3, <3>2, <4>2 DEF initrd, NoFile
      <4>4. /\ Len(range) = 2
            /\ range[1].name = "linux,initrd-start" /\ range[1].value = p
            /\ range[2].name = "linux,initrd-end" /\ range[2].value = p + initrd.size
        BY <4>1 DEF Property
      <4>5. IsSet(InitrdPath)
        BY <2>2, <2>4, <3>2
      <4>6. range[2].value - range[1].value = initrd.size
        <5> DEFINE from == range[1].value
                   to == range[2].value
                   s == initrd.size
        <5>1. from = p /\ to = p + s /\ s \in Nat
          BY <4>2, <4>4
        <5> HIDE DEF from, to, s
        <5>2. to - from = s
          BY <5>1
        <5> QED
          BY <5>2 DEF from, to, s
      <4>7. range[1].value = range[2].value <=> initrd.size = 0
        <5> DEFINE s == initrd.size
        <5>1. s \in Nat
          BY <4>2
        <5> HIDE DEF s
        <5>2. p = p + s <=> s = 0
          BY <5>1
        <5> QED
          BY <4>4, <5>2 DEF s
      <4>8. IF range[1].value = range[2].value
              THEN range[1].value = NullPointer
              ELSE /\ range[1].value >= imageEnd
                   /\ \E n \in Range(nodes) :
                        range[1].value >= n.start /\ range[2].value <= n.end
        BY <4>1, <4>4, <4>7 DEF InitrdLies
      <4> QED
        BY <2>9, <4>3, <4>4, <4>5, <4>6, <4>8
    <3> QED
      BY <3>1, <3>2
  <2>11. chosenNodes = IF chosen = <<>> THEN 0 ELSE 1
    BY DEF ChosenInv
  <2> QED
    BY <2>9, <2>10, <2>11 DEF ChosenAsConfigured, stdout, bootargs, middle
<1> QED
  BY <1>1, ChosenInvariant, ConfigInvariant, PTL

-----------------------------------------------------------------------------
(* BiLoadKernel, BlDtBuildBlob's mapping and the end of BlMain.  Addresses are     *)
(* counted in pages; At and PageOf are kept apart from the multiplication and      *)
(* division they stand for.                                                        *)

At(v) == v * PageSize

PageOf(x) == x \div PageSize

RootSize == WordSize \div (PageSize * TableSize)

AllPages == 0 .. (RootSize * TableSize - 1)

\* The page of memory that page v of the address space is mapped to, or 0.
MappedTo(v) ==
    IF rootTable[v \div TableSize] = 0 THEN 0
    ELSE tables[rootTable[v \div TableSize]][v % TableSize]

\* No two entries of the root table share a table.
TableInv ==
    /\ tables \in Seq([0 .. (TableSize - 1) -> Nat])
    /\ rootTable \in [0 .. (RootSize - 1) -> 0 .. Len(tables)]
    /\ \A r, s \in 0 .. (RootSize - 1) :
         rootTable[r] = rootTable[s] /\ rootTable[r] # 0 => r = s

FirstPage == PageOf(header.VirtualAddr)

PagesEnd == PageOf(header.VirtualAddr + header.MSize + PageSize - 1)

DtbFirst == PageOf(header.DtbAddress + PageSize - 1)

DtbCount == PageOf(header.dtbSize + PageSize - 1)

\* What page v of the image holds: the file from VirtualAddr on, zeros elsewhere.
ImageByte(v, o) ==
    LET i == At(v) + o - header.VirtualAddr
    IN IF i \in 0 .. (header.fileSize - 1) THEN Loader!FileByte(i) ELSE Loader!Zero

Bytes == [kind : {"zero", "garbage", "file", "dtb"}, at : Int]

Offsets == 0 .. (PageSize - 1)

\* BiLoadKernel's checks, without a word's width: the image lies below the last
\* page, the entry point is in it, and the device tree's room is next to it.
Accepted ==
    /\ header.VirtualAddr <= header.Entry
    /\ header.Entry < header.VirtualAddr + header.MSize
    /\ header.fileSize <= header.MSize
    /\ header.mapDtb =>
         \/ header.VirtualAddr > header.MaxDtbEnd
         \/ At(DtbFirst) >= header.VirtualAddr + header.MSize

\* The pages of the image that are loaded, with what they hold.
ImageLoaded(c) ==
    \A v \in FirstPage .. (c - 1) :
      /\ v - FirstPage + 1 \in DOMAIN loaded
      /\ \A o \in Offsets : loaded[v - FirstPage + 1][o] = ImageByte(v, o)

\* The image up to page c, and nothing else, is loaded and mapped.
ImageUpTo(c) ==
    /\ c \in FirstPage .. PagesEnd
    /\ Len(loaded) = c - FirstPage
    /\ ImageLoaded(c)
    /\ \A v \in AllPages :
         MappedTo(v) = IF v \in FirstPage .. (c - 1) THEN v - FirstPage + 1 ELSE 0

\* The whole image, and the device tree behind it once that was built.
BlobMapped == header.mapDtb /\ deviceTree # -1

Finished ==
    LET size == PagesEnd - FirstPage
    IN /\ FirstPage < PagesEnd
       /\ ImageLoaded(PagesEnd)
       /\ \A v \in AllPages :
            MappedTo(v) = IF v \in FirstPage .. (PagesEnd - 1) THEN v - FirstPage + 1
                          ELSE IF BlobMapped /\ v \in DtbFirst .. (DtbFirst + DtbCount - 1)
                                 THEN size + (v - DtbFirst) + 1
                          ELSE 0
       /\ deviceTree = -1 => Len(loaded) = size
       /\ deviceTree # -1 =>
            /\ deviceTree = At(size + 1)
            /\ \A p \in 1 .. DtbCount :
                 /\ size + p \in DOMAIN loaded
                 /\ \A o \in Offsets :
                      At(p - 1) + o < header.dtbSize =>
                        loaded[size + p][o] = Loader!DtbByte(At(p - 1) + o)
       /\ BlobMapped => At(DtbFirst + DtbCount) - 1 <= header.MaxDtbEnd
       /\ entrypoint # -1 =>
            entrypoint = At(PageOf(header.Entry) - FirstPage + 1) + (header.Entry % PageSize)

LoadPcs == {"check", "head", "file", "bss", "transition", "started", "crashed"}

LoadInv ==
    /\ Loader!IsHeader(header) /\ Loader!IsLoadable(header)
    /\ TableInv /\ loaded \in Seq([Offsets -> Bytes])
    /\ loadPc \in LoadPcs
    /\ loadPc = "check" => loaded = <<>> /\ \A v \in AllPages : MappedTo(v) = 0
    /\ loadPc \in {"check", "head", "file", "bss"} => entrypoint = -1 /\ deviceTree = -1
    /\ loadPc \in {"head", "file", "bss"} =>
         /\ Accepted /\ current = At(PageOf(current)) /\ ImageUpTo(PageOf(current))
         /\ loadPc = "head" => PageOf(current) = FirstPage
         /\ loadPc = "file" => current >= header.VirtualAddr
         /\ loadPc = "bss" => current >= header.VirtualAddr + header.fileSize
    /\ loadPc \in {"transition", "started"} => Accepted /\ Finished
    /\ loadPc = "started" => entrypoint # -1 /\ deviceTree # -1

LEMMA SizesOfLoader ==
    /\ PageSize \in Nat \ {0} /\ SectorSize \in Nat \ {0} /\ TableSize \in Nat \ {0}
    /\ WordSize \in Nat \ {0} /\ WordSize % (PageSize * TableSize) = 0
BY BootAssumption DEF Loader!KernelLoadAssumption

LEMMA Division ==
    ASSUME NEW x \in Nat, NEW d \in Nat \ {0}
    PROVE  /\ x \div d \in Nat /\ x % d \in 0 .. (d - 1)
           /\ x = (x \div d) * d + (x % d)
OBVIOUS

\* Quotient and remainder are the only pair that make up a number.
LEMMA DivisionUnique ==
    ASSUME NEW x \in Nat, NEW d \in Nat \ {0}, NEW q \in Nat, NEW r \in 0 .. (d - 1),
           x = q * d + r
    PROVE  x \div d = q /\ x % d = r
<1> DEFINE e == x \div d
           s == x % d
<1>1. e \in Nat /\ s \in 0 .. (d - 1) /\ x = e * d + s
  BY Division
<1> HIDE DEF e, s
<1>2. ~ e < q
  <2> SUFFICES ASSUME e < q PROVE FALSE
    OBVIOUS
  <2>1. q - e - 1 \in Nat /\ q = e + 1 + (q - e - 1)
    BY <1>1
  <2>2. \A k \in Nat : (e + 1 + k) * d = e * d + d + k * d /\ k * d \in Nat /\ e * d \in Nat
    BY <1>1
  <2>3. q * d = e * d + d + (q - e - 1) * d /\ (q - e - 1) * d \in Nat /\ e * d \in Nat
    BY <2>1, <2>2
  <2> HIDE DEF e, s
  <2> DEFINE ed == e * d
             qd == q * d
             kd == (q - e - 1) * d
  <2>4. qd = ed + d + kd /\ kd \in Nat /\ ed \in Nat /\ x = ed + s /\ x = qd + r
    BY <1>1, <2>3
  <2> HIDE DEF ed, qd, kd
  <2> QED
    BY <1>1, <2>4
<1>3. ~ q < e
  <2> SUFFICES ASSUME q < e PROVE FALSE
    OBVIOUS
  <2>1. e - q - 1 \in Nat /\ e = q + 1 + (e - q - 1)
    BY <1>1
  <2>2. \A k \in Nat : (q + 1 + k) * d = q * d + d + k * d /\ k * d \in Nat /\ q * d \in Nat
    OBVIOUS
  <2>3. e * d = q * d + d + (e - q - 1) * d /\ (e - q - 1) * d \in Nat /\ q * d \in Nat
    BY <2>1, <2>2
  <2> DEFINE ed == e * d
             qd == q * d
             kd == (e - q - 1) * d
  <2>4. ed = qd + d + kd /\ kd \in Nat /\ qd \in Nat /\ x = ed + s /\ x = qd + r
    BY <1>1, <2>3
  <2> HIDE DEF ed, qd, kd
  <2> QED
    BY <1>1, <2>4
<1>4. e = q
  BY <1>1, <1>2, <1>3
<1> DEFINE qd == q * d
<1>5. qd \in Nat /\ x = qd + s /\ x = qd + r
  BY <1>1, <1>4
<1> HIDE DEF qd
<1>6. s = r
  BY <1>1, <1>5
<1> QED
  BY <1>4, <1>6 DEF e, s

LEMMA AtFacts ==
    /\ \A v \in Nat : At(v) \in Nat /\ At(v + 1) = At(v) + PageSize /\ At(0) = 0
    /\ \A v, w \in Nat : v < w => At(v) + PageSize <= At(w)
    /\ \A v, w \in Nat : At(v + w) = At(v) + At(w)
<1>1. PageSize \in Nat \ {0}
  BY SizesOfLoader
<1>2. \A v \in Nat : At(v) \in Nat /\ At(v + 1) = At(v) + PageSize /\ At(0) = 0
  BY <1>1 DEF At
<1>3. \A v, w \in Nat : At(v + w) = At(v) + At(w)
  BY <1>1 DEF At
<1>4. ASSUME NEW v \in Nat, NEW w \in Nat, v < w
      PROVE  At(v) + PageSize <= At(w)
  <2>1. w - v - 1 \in Nat /\ v + 1 \in Nat /\ w = (v + 1) + (w - v - 1)
    BY <1>4
  <2>2. At(w) = At(v + 1) + At(w - v - 1)
    BY <1>3, <2>1
  <2>3. At(w - v - 1) \in Nat /\ At(v + 1) = At(v) + PageSize /\ At(v) \in Nat
    BY <1>2, <2>1
  <2> QED
    BY <1>1, <2>2, <2>3
<1> QED
  BY <1>2, <1>3, <1>4

LEMMA PageOfFacts ==
    /\ \A x \in Nat : /\ PageOf(x) \in Nat /\ At(PageOf(x)) <= x
                      /\ x < At(PageOf(x)) + PageSize
                      /\ x % PageSize = x - At(PageOf(x))
                      /\ x % PageSize \in Offsets
    /\ \A x, v \in Nat : At(v) <= x /\ x < At(v) + PageSize => PageOf(x) = v
<1>1. PageSize \in Nat \ {0} /\ \A v \in Nat : At(v) \in Nat
  BY SizesOfLoader, AtFacts
<1>2. ASSUME NEW x \in Nat
      PROVE  /\ PageOf(x) \in Nat /\ At(PageOf(x)) <= x
             /\ x < At(PageOf(x)) + PageSize
             /\ x % PageSize = x - At(PageOf(x))
             /\ x % PageSize \in Offsets
  <2>1. /\ PageOf(x) \in Nat /\ x % PageSize \in 0 .. (PageSize - 1)
        /\ x = At(PageOf(x)) + (x % PageSize)
    BY <1>1, Division DEF At, PageOf
  <2>2. At(PageOf(x)) \in Nat
    BY <1>1, <2>1
  <2> QED
    BY <1>1, <2>1, <2>2 DEF Offsets
<1>3. ASSUME NEW x \in Nat, NEW v \in Nat, At(v) <= x, x < At(v) + PageSize
      PROVE  PageOf(x) = v
  <2>1. x - At(v) \in 0 .. (PageSize - 1) /\ x = At(v) + (x - At(v))
    BY <1>1, <1>3
  <2> DEFINE r == x - At(v)
  <2>2. r \in 0 .. (PageSize - 1) /\ x = v * PageSize + r
    BY <2>1 DEF At
  <2> HIDE DEF r
  <2> QED
    BY <1>1, <2>2, DivisionUnique DEF PageOf
<1> QED
  BY <1>2, <1>3

\* A table's part of the address space, and the pages in it.
LEMMA Addresses ==
    /\ RootSize \in Nat \ {0} /\ RootSize * TableSize \in Nat \ {0}
    /\ At(RootSize * TableSize) = WordSize
    /\ PageSize * TableSize \in Nat \ {0}
<1>1. /\ PageSize \in Nat \ {0} /\ TableSize \in Nat \ {0} /\ WordSize \in Nat \ {0}
      /\ WordSize % (PageSize * TableSize) = 0
  BY SizesOfLoader
<1> DEFINE part == PageSize * TableSize
<1>2. part \in Nat \ {0} /\ At(TableSize) = part
  BY <1>1 DEF At
<1> HIDE DEF part
<1>3. /\ RootSize \in Nat /\ WordSize = RootSize * part + 0
      /\ RootSize * part \in Nat /\ RootSize * part = WordSize
  <2>1. WordSize = (WordSize \div part) * part + (WordSize % part) /\ WordSize \div part \in Nat
    BY <1>1, <1>2, Division
  <2>2. WordSize % part = 0 /\ RootSize = WordSize \div part
    BY <1>1 DEF part, RootSize
  <2> QED
    BY <1>1, <1>2, <2>1, <2>2
<1>4. RootSize # 0
  <2>1. RootSize = 0 => RootSize * part = 0
    BY <1>2
  <2> QED
    BY <1>1, <1>3, <2>1
<1>5. RootSize * TableSize \in Nat \ {0}
  BY <1>1, <1>3, <1>4
<1>6. (RootSize * TableSize) * PageSize = RootSize * (PageSize * TableSize)
  BY <1>1, <1>3
<1> QED
  BY <1>2, <1>3, <1>4, <1>5, <1>6 DEF At, part

LEMMA PageIndices ==
    ASSUME NEW v \in AllPages
    PROVE  /\ v \in Nat /\ v < RootSize * TableSize
           /\ v \div TableSize \in 0 .. (RootSize - 1)
           /\ v % TableSize \in 0 .. (TableSize - 1)
           /\ v = (v \div TableSize) * TableSize + (v % TableSize)
           /\ At(v) \in Nat /\ At(v) + PageSize <= WordSize
<1>1. /\ TableSize \in Nat \ {0} /\ RootSize \in Nat \ {0} /\ v \in Nat
      /\ v < RootSize * TableSize /\ RootSize * TableSize \in Nat
  BY Addresses, SizesOfLoader DEF AllPages
<1> DEFINE q == v \div TableSize
           m == v % TableSize
<1>2. q \in Nat /\ m \in 0 .. (TableSize - 1) /\ v = q * TableSize + m
  BY <1>1, Division
<1> HIDE DEF q, m
<1>3. q < RootSize
  <2> SUFFICES ASSUME RootSize <= q PROVE FALSE
    BY <1>1, <1>2
  <2>1. q = RootSize + (q - RootSize) /\ q - RootSize \in Nat
    BY <1>1, <1>2
  <2>2. \A k \in Nat : /\ (RootSize + k) * TableSize = RootSize * TableSize + k * TableSize
                       /\ k * TableSize \in Nat
    BY <1>1
  <2>3. q * TableSize = RootSize * TableSize + (q - RootSize) * TableSize
        /\ (q - RootSize) * TableSize \in Nat
    BY <2>1, <2>2
  <2> DEFINE all == RootSize * TableSize
             qt == q * TableSize
             kt == (q - RootSize) * TableSize
  <2>4. qt = all + kt /\ kt \in Nat /\ all \in Nat /\ v < all /\ v = qt + m
    BY <1>1, <1>2, <2>3
  <2> HIDE DEF all, qt, kt
  <2> QED
    BY <1>1, <1>2, <2>4
<1>4. At(v) \in Nat /\ At(v) + PageSize <= WordSize
  BY <1>1, AtFacts, Addresses
<1> QED
  BY <1>1, <1>2, <1>3, <1>4 DEF q, m

\* The indices of BiGetTable and BlMapPage are those of the page's number.
LEMMA Indices ==
    ASSUME NEW virt \in 0 .. (WordSize - 1)
    PROVE  /\ PageOf(virt) \in AllPages
           /\ Loader!RootIndex(virt) = PageOf(virt) \div TableSize
           /\ Loader!Index(virt) = PageOf(virt) % TableSize
           /\ virt % PageSize = virt - At(PageOf(virt))
<1> DEFINE v == PageOf(virt)
           o == virt % PageSize
           part == PageSize * TableSize
<1>1. /\ v \in Nat /\ At(v) <= virt /\ virt = At(v) + o /\ o \in Offsets
      /\ PageSize \in Nat \ {0} /\ TableSize \in Nat \ {0} /\ At(v) \in Nat
      /\ virt \in Nat /\ virt < WordSize /\ WordSize \in Nat
      /\ virt % PageSize = virt - At(v)
  <2>1. virt \in Nat /\ virt < WordSize
    BY SizesOfLoader
  <2>2. /\ PageOf(virt) \in Nat /\ At(PageOf(virt)) <= virt
        /\ virt % PageSize = virt - At(PageOf(virt)) /\ virt % PageSize \in Offsets
    BY <2>1, PageOfFacts
  <2>3. At(PageOf(virt)) \in Nat
    BY <2>2, AtFacts
  <2> QED
    BY <2>1, <2>2, <2>3, SizesOfLoader DEF Offsets
<1> HIDE DEF v, o
<1>2. v \in AllPages
  <2> SUFFICES ASSUME RootSize * TableSize <= v PROVE FALSE
    BY <1>1, Addresses DEF AllPages
  <2>1. At(RootSize * TableSize) <= At(v)
    BY <1>1, AtFacts, Addresses
  <2> QED
    BY <1>1, <2>1, Addresses
<1> DEFINE q == v \div TableSize
           m == v % TableSize
<1>3. q \in Nat /\ m \in 0 .. (TableSize - 1) /\ v = q * TableSize + m
  BY <1>1, Division
<1> HIDE DEF q, m
<1>4. part \in Nat \ {0} /\ At(TableSize) = part
  BY <1>1 DEF At
<1>5. At(v) = q * part + At(m) /\ At(m) \in Nat
  BY <1>1, <1>3 DEF At
<1>6. At(m) + PageSize <= part
  BY <1>1, <1>3, <1>4, AtFacts
<1>7. virt = q * part + (At(m) + o) /\ At(m) + o \in 0 .. (part - 1)
  <2> DEFINE qp == q * part
  <2>1. At(v) = qp + At(m) /\ qp \in Nat
    BY <1>3, <1>4, <1>5
  <2>2. o \in 0 .. (PageSize - 1)
    BY <1>1 DEF Offsets
  <2> HIDE DEF qp, part
  <2>3. virt = qp + (At(m) + o) /\ At(m) + o \in 0 .. (part - 1)
    BY <1>1, <1>4, <1>5, <1>6, <2>1, <2>2
  <2> QED
    BY <2>3 DEF qp
<1> DEFINE rest == At(m) + o
<1> HIDE DEF part, rest
<1>8. virt \div part = q
  BY <1>1, <1>3, <1>4, <1>7, DivisionUnique DEF rest
<1> QED
  BY <1>1, <1>2, <1>8 DEF Loader!RootIndex, Loader!Index, part, q, v, PageOf

LEMMA PagesOfAddresses ==
    /\ \A virt \in 0 .. (WordSize - 1) :
         /\ PageOf(virt) \in AllPages
         /\ Loader!PageAt(rootTable, tables, virt) = MappedTo(PageOf(virt))
         /\ virt % PageSize = virt - At(PageOf(virt)) /\ virt % PageSize \in Offsets
    /\ \A v \in AllPages : At(v) \in 0 .. (WordSize - 1) /\ PageOf(At(v)) = v
<1>1. ASSUME NEW virt \in 0 .. (WordSize - 1)
      PROVE  /\ PageOf(virt) \in AllPages
             /\ Loader!PageAt(rootTable, tables, virt) = MappedTo(PageOf(virt))
             /\ virt % PageSize = virt - At(PageOf(virt)) /\ virt % PageSize \in Offsets
  <2>1. virt \in Nat
    BY SizesOfLoader
  <2> QED
    BY <2>1, Indices, PageOfFacts DEF Loader!PageAt, MappedTo
<1>2. ASSUME NEW v \in AllPages
      PROVE  At(v) \in 0 .. (WordSize - 1) /\ PageOf(At(v)) = v
  <2>1. v \in Nat /\ At(v) \in Nat /\ At(v) + PageSize <= WordSize
    BY PageIndices
  <2>2. PageSize \in Nat \ {0} /\ WordSize \in Nat
    BY SizesOfLoader
  <2>3. At(v) \in 0 .. (WordSize - 1) /\ At(v) <= At(v) /\ At(v) < At(v) + PageSize
    BY <2>1, <2>2
  <2>4. PageOf(At(v)) = v
    BY <2>1, <2>3, PageOfFacts
  <2> QED
    BY <2>3, <2>4
<1> QED
  BY <1>1, <1>2

-----------------------------------------------------------------------------
(* BlMapPage changes where one page is mapped to, whatever tables there are. *)

LEMMA SameIndices ==
    ASSUME NEW v \in AllPages, NEW w \in AllPages,
           v \div TableSize = w \div TableSize, v % TableSize = w % TableSize
    PROVE  v = w
BY PageIndices

LEMMA MapOne ==
    ASSUME TableInv, NEW v \in AllPages, NEW new \in Nat, Loader!Map(At(v), new)
    PROVE  /\ TableInv'
           /\ \A w \in AllPages : MappedTo(w)' = IF w = v THEN new ELSE MappedTo(w)
<1> DEFINE r == v \div TableSize
           i == v % TableSize
           Lower == [0 .. (TableSize - 1) -> Nat]
           Root == 0 .. (RootSize - 1)
<1>1. Loader!RootIndex(At(v)) = r /\ Loader!Index(At(v)) = i
  BY PagesOfAddresses, Indices
<1>2. /\ r \in Root /\ i \in 0 .. (TableSize - 1)
      /\ \A w \in AllPages : w \div TableSize \in Root /\ w % TableSize \in 0 .. (TableSize - 1)
  BY PageIndices
<1>3. \A w \in AllPages : w # v => w \div TableSize # r \/ w % TableSize # i
  BY SameIndices
<1>4. /\ tables \in Seq(Lower) /\ Len(tables) \in Nat /\ DOMAIN tables = 1 .. Len(tables)
      /\ rootTable \in [Root -> 0 .. Len(tables)]
      /\ \A a, b \in Root : rootTable[a] = rootTable[b] /\ rootTable[a] # 0 => a = b
  BY LenProperties DEF TableInv
<1>5. \A t \in 1 .. Len(tables) : tables[t] \in Lower
  BY <1>4, ElementOfSeq
<1> HIDE DEF r, i, Root, Lower
<1>6. CASE rootTable[r] = 0
  <2> DEFINE table == [Loader!NoTable EXCEPT ![i] = new]
  <2>1. /\ rootTable' = [rootTable EXCEPT ![r] = Len(tables) + 1]
        /\ tables' = Append(tables, table)
    BY <1>1, <1>6 DEF Loader!Map
  <2>2. /\ table \in Lower /\ table[i] = new
        /\ \A j \in 0 .. (TableSize - 1) : j # i => table[j] = 0
    BY <1>2 DEF Loader!NoTable, Lower
  <2> HIDE DEF table
  <2>3. /\ tables' \in Seq(Lower) /\ Len(tables') = Len(tables) + 1
        /\ \A t \in 1 .. Len(tables) : tables'[t] = tables[t]
        /\ tables'[Len(tables) + 1] = table
    BY <1>4, <2>1, <2>2, AppendProperties
  <2>4. \A a \in Root : rootTable'[a] = IF a = r THEN Len(tables) + 1 ELSE rootTable[a]
    BY <1>2, <1>4, <2>1
  <2>5. rootTable' \in [Root -> 0 .. Len(tables')]
    <3>1. rootTable' \in [Root -> 0 .. (Len(tables) + 1)]
      <4> DEFINE Numbers == 0 .. (Len(tables) + 1)
      <4>1. rootTable \in [Root -> Numbers]
        <5>1. 0 .. Len(tables) \subseteq Numbers
          BY <1>4
        <5> HIDE DEF Numbers
        <5> QED
          BY <1>4, <5>1
      <4>2. Len(tables) + 1 \in Numbers
        BY <1>4
      <4> HIDE DEF Numbers
      <4>3. rootTable' \in [Root -> Numbers]
        BY <2>1, <4>1, <4>2
      <4> QED
        BY <4>3 DEF Numbers
    <3> QED
      BY <2>3, <3>1
  <2>6. ASSUME NEW a \in Root, NEW b \in Root, rootTable'[a] = rootTable'[b], rootTable'[a] # 0
        PROVE  a = b
    <3>1. rootTable[a] \in 0 .. Len(tables) /\ rootTable[b] \in 0 .. Len(tables)
      BY <1>4
    <3> QED
      BY <1>4, <2>4, <2>6, <3>1
  <2>7. ASSUME NEW w \in AllPages
        PROVE  MappedTo(w)' = IF w = v THEN new ELSE MappedTo(w)
    <3> DEFINE a == w \div TableSize
               j == w % TableSize
    <3>1. /\ a \in Root /\ j \in 0 .. (TableSize - 1)
          /\ MappedTo(w) = IF rootTable[a] = 0 THEN 0 ELSE tables[rootTable[a]][j]
          /\ MappedTo(w)' = IF rootTable'[a] = 0 THEN 0 ELSE tables'[rootTable'[a]][j]
          /\ w = v => a = r /\ j = i
          /\ w # v => a # r \/ j # i
      BY <1>2, <1>3 DEF MappedTo, r, i
    <3> HIDE DEF a, j
    <3>2. rootTable[a] \in 0 .. Len(tables)
      BY <1>4, <3>1
    <3>3. CASE a = r
      <4>1. rootTable'[a] = Len(tables) + 1 /\ Len(tables) + 1 # 0
        BY <1>4, <2>4, <3>1, <3>3
      <4>2. MappedTo(w)' = table[j] /\ MappedTo(w) = 0
        BY <1>6, <2>3, <3>1, <3>3, <4>1
      <4> QED
        BY <2>2, <3>1, <3>3, <4>2
    <3>4. CASE a # r
      <4>1. rootTable'[a] = rootTable[a] /\ w # v
        BY <2>4, <3>1, <3>4
      <4>2. rootTable[a] # 0 => tables'[rootTable[a]] = tables[rootTable[a]]
        BY <1>4, <2>3, <3>2
      <4> QED
        BY <3>1, <4>1, <4>2
    <3> QED
      BY <3>3, <3>4
  <2> QED
    BY <2>3, <2>5, <2>6, <2>7 DEF TableInv, Root, Lower
<1>7. CASE rootTable[r] # 0
  <2> DEFINE t == rootTable[r]
  <2>1. t \in 1 .. Len(tables) /\ t \in DOMAIN tables
    BY <1>2, <1>4, <1>7
  <2>2. rootTable' = rootTable /\ tables' = [tables EXCEPT ![t][i] = new]
    BY <1>1, <1>7 DEF Loader!Map
  <2>3. tables[t] \in Lower
    BY <1>5, <2>1
  <2> HIDE DEF t
  <2> DEFINE table == [tables[t] EXCEPT ![i] = new]
  <2>4. /\ table \in Lower /\ table[i] = new
        /\ \A j \in 0 .. (TableSize - 1) : j # i => table[j] = tables[t][j]
    BY <1>2, <2>3 DEF Lower
  <2>5. tables' = [tables EXCEPT ![t] = table]
    BY <2>2
  <2> HIDE DEF table
  <2>6. /\ tables' \in Seq(Lower) /\ Len(tables') = Len(tables)
        /\ tables'[t] = table
        /\ \A u \in 1 .. Len(tables) : u # t => tables'[u] = tables[u]
    BY <1>4, <2>1, <2>4, <2>5, ExceptSeq
  <2>7. ASSUME NEW w \in AllPages
        PROVE  MappedTo(w)' = IF w = v THEN new ELSE MappedTo(w)
    <3> DEFINE a == w \div TableSize
               j == w % TableSize
    <3>1. /\ a \in Root /\ j \in 0 .. (TableSize - 1)
          /\ MappedTo(w) = IF rootTable[a] = 0 THEN 0 ELSE tables[rootTable[a]][j]
          /\ MappedTo(w)' = IF rootTable'[a] = 0 THEN 0 ELSE tables'[rootTable'[a]][j]
          /\ w = v => a = r /\ j = i
          /\ w # v => a # r \/ j # i
      BY <1>2, <1>3 DEF MappedTo, r, i
    <3> HIDE DEF a, j
    <3>2. rootTable[a] \in 0 .. Len(tables) /\ rootTable'[a] = rootTable[a]
      BY <1>4, <2>2, <3>1
    <3>3. CASE a = r
      <4>1. rootTable[a] = t /\ t # 0 /\ t \in Nat
        BY <1>4, <2>1, <3>3 DEF t
      <4>2. MappedTo(w)' = table[j] /\ MappedTo(w) = tables[t][j]
        BY <2>6, <3>1, <3>2, <4>1
      <4> QED
        BY <2>4, <3>1, <3>3, <4>2
    <3>4. CASE a # r
      <4>1. rootTable[a] # 0 => rootTable[a] # t
        BY <1>2, <1>4, <3>1, <3>4 DEF t
      <4>2. rootTable[a] # 0 => tables'[rootTable[a]] = tables[rootTable[a]]
        BY <1>4, <2>6, <3>2, <4>1
      <4> QED
        BY <3>1, <3>2, <3>4, <4>2
    <3> QED
      BY <3>3, <3>4
  <2> QED
    BY <1>4, <2>2, <2>6, <2>7 DEF TableInv, Root, Lower
<1> QED
  BY <1>6, <1>7

-----------------------------------------------------------------------------
(* The loops of BiLoadKernel. *)

LEMMA SmallWord ==
    ASSUME NEW x \in 0 .. (WordSize - 1)
    PROVE  Loader!Word(x) = x
<1>1. WordSize \in Nat \ {0} /\ x \in Nat /\ x = 0 * WordSize + x
  BY SizesOfLoader
<1> QED
  BY <1>1, DivisionUnique DEF Loader!Word

\* The image's part of the address space.
ImageArea ==
    /\ FirstPage \in Nat /\ PagesEnd \in Nat /\ FirstPage < PagesEnd
    /\ At(FirstPage) \in Nat /\ At(PagesEnd) \in Nat
    /\ At(FirstPage) <= header.VirtualAddr
    /\ header.VirtualAddr < At(FirstPage) + PageSize
    /\ header.VirtualAddr + header.MSize <= At(PagesEnd)
    /\ At(PagesEnd) <= header.VirtualAddr + header.MSize + PageSize - 1
    /\ At(PagesEnd) < WordSize /\ PagesEnd \in AllPages
    /\ Loader!fileEnd = header.VirtualAddr + header.fileSize
    /\ Loader!end = At(PagesEnd)

HeaderNumbers ==
    /\ {header.VirtualAddr, header.MSize, header.Entry, header.DtbAddress,
        header.MaxDtbEnd, header.fileSize, header.dtbSize} \subseteq Nat
    /\ {header.VirtualAddr, header.MSize, header.Entry, header.DtbAddress,
        header.MaxDtbEnd, header.dtbSize} \subseteq 0 .. (WordSize - 1)
    /\ header.fileSize # 0 /\ header.dtbSize # 0

LEMMA NumbersOfHeader == Loader!IsHeader(header) => HeaderNumbers
BY SizesOfLoader DEF Loader!IsHeader, HeaderNumbers

LEMMA AlignedDown == \A x : Loader!AlignDown(x) = At(PageOf(x))
BY DEF Loader!AlignDown, At, PageOf

LEMMA PageBelow ==
    ASSUME NEW x \in 0 .. (WordSize - 1)
    PROVE  PageOf(x) \in AllPages /\ x \in Nat
BY PagesOfAddresses, SizesOfLoader

LEMMA AreaOfImage ==
    ASSUME Loader!IsHeader(header), Loader!IsLoadable(header), Accepted
    PROVE  ImageArea
<1> DEFINE va == header.VirtualAddr
           size == header.MSize
           last == va + size + PageSize - 1
<1>1. /\ va \in Nat /\ size \in Nat /\ header.fileSize \in Nat /\ size # 0
      /\ header.fileSize <= size /\ va + size <= WordSize - PageSize
      /\ PageSize \in Nat \ {0} /\ WordSize \in Nat \ {0}
  BY NumbersOfHeader, SizesOfLoader DEF Accepted, Loader!IsLoadable, HeaderNumbers
<1>2. /\ FirstPage \in Nat /\ At(FirstPage) <= va /\ va < At(FirstPage) + PageSize
      /\ At(FirstPage) \in Nat
  BY <1>1, PageOfFacts, AtFacts DEF FirstPage
<1>3. last \in 0 .. (WordSize - 1) /\ last \in Nat
  BY <1>1
<1>4. PagesEnd = PageOf(last)
  BY DEF PagesEnd
<1> HIDE DEF last
<1>5. /\ PagesEnd \in Nat /\ At(PagesEnd) <= last /\ last < At(PagesEnd) + PageSize
      /\ At(PagesEnd) \in Nat /\ PagesEnd \in AllPages
  BY <1>3, <1>4, PageOfFacts, AtFacts, PagesOfAddresses
<1>6. At(PagesEnd) >= va + size
  BY <1>1, <1>5 DEF last
<1>7. FirstPage < PagesEnd
  <2> SUFFICES ASSUME PagesEnd <= FirstPage PROVE FALSE
    BY <1>2, <1>5
  <2>1. At(PagesEnd) <= At(FirstPage)
    BY <1>1, <1>2, <1>5, AtFacts
  <2> QED
    BY <1>1, <1>2, <1>5, <1>6, <2>1
<1>8. At(PagesEnd) < WordSize
  BY <1>1, <1>3, <1>5
<1>9. Loader!fileEnd = va + header.fileSize
  <2>1. va + header.fileSize \in 0 .. (WordSize - 1)
    BY <1>1
  <2> QED
    BY <2>1, SmallWord DEF Loader!fileEnd
<1>10. Loader!end = At(PagesEnd)
  <2>1. va + size \in 0 .. (WordSize - 1)
    BY <1>1
  <2>2. Loader!Word(va + size) = va + size
    BY <2>1, SmallWord
  <2>3. Loader!end = Loader!AlignUp(va + size)
    BY <2>2 DEF Loader!end
  <2>4. Loader!AlignUp(va + size) = At(PagesEnd) % WordSize
    BY <1>4, AlignedDown DEF Loader!AlignUp, last
  <2>5. At(PagesEnd) \in 0 .. (WordSize - 1)
    BY <1>5, <1>8, <1>1
  <2> QED
    BY <2>3, <2>4, <2>5, SmallWord DEF Loader!Word
<1> QED
  BY <1>1, <1>2, <1>5, <1>6, <1>7, <1>8, <1>9, <1>10 DEF ImageArea, last

\* What is known of the image's pages depends on the header and the pages alone.
LEMMA ImageKept ==
    ASSUME header' = header
    PROVE  /\ FirstPage' = FirstPage /\ PagesEnd' = PagesEnd
           /\ DtbFirst' = DtbFirst /\ DtbCount' = DtbCount
           /\ \A v, o : ImageByte(v, o)' = ImageByte(v, o)
           /\ Accepted' <=> Accepted
           /\ Loader!IsHeader(header)' <=> Loader!IsHeader(header)
           /\ Loader!IsLoadable(header)' <=> Loader!IsLoadable(header)
<1>1. /\ FirstPage' = FirstPage /\ PagesEnd' = PagesEnd
      /\ DtbFirst' = DtbFirst /\ DtbCount' = DtbCount
  BY DEF FirstPage, PagesEnd, DtbFirst, DtbCount, PageOf
<1>2. \A v, o : ImageByte(v, o)' = ImageByte(v, o)
  BY DEF ImageByte, At, Loader!FileByte, Loader!Zero
<1>3. Accepted' <=> Accepted
  BY <1>1 DEF Accepted, At
<1>4. /\ Loader!IsHeader(header)' <=> Loader!IsHeader(header)
      /\ Loader!IsLoadable(header)' <=> Loader!IsLoadable(header)
  BY DEF Loader!IsHeader, Loader!IsLoadable
<1> QED
  BY <1>1, <1>2, <1>3, <1>4

\* One page of the image is loaded and mapped behind those before it.
LEMMA ImagePageStep ==
    ASSUME LoadInv, Accepted, NEW c \in Nat, NEW d \in Nat, d = c + 1,
           current = At(c), ImageUpTo(c), c < PagesEnd,
           NEW bytes \in [Offsets -> Bytes],
           \A o \in Offsets : bytes[o] = ImageByte(c, o),
           NEW next, Loader!MapImagePage(bytes, next)
    PROVE  /\ UNCHANGED <<header, entrypoint, deviceTree>> /\ loadPc' = next
           /\ TableInv' /\ loaded' \in Seq([Offsets -> Bytes])
           /\ current' = At(d) /\ PageOf(current') = d
           /\ current' = current + PageSize /\ ImageUpTo(d)'
<1>1. /\ UNCHANGED <<header, entrypoint, deviceTree>> /\ loadPc' = next
      /\ loaded' = Append(loaded, bytes) /\ Loader!Map(At(c), Len(loaded) + 1)
      /\ current' = Loader!Word(current + PageSize)
  BY DEF Loader!MapImagePage
<1>2. /\ ImageArea /\ TableInv /\ loaded \in Seq([Offsets -> Bytes]) /\ Len(loaded) \in Nat
      /\ DOMAIN loaded = 1 .. Len(loaded)
  BY AreaOfImage, LenProperties DEF LoadInv
<1>3. /\ FirstPage \in Nat /\ PagesEnd \in Nat /\ FirstPage <= c /\ PagesEnd \in AllPages
      /\ Len(loaded) = c - FirstPage /\ ImageLoaded(c)
      /\ \A v \in AllPages :
           MappedTo(v) = IF v \in FirstPage .. (c - 1) THEN v - FirstPage + 1 ELSE 0
  BY <1>2 DEF ImageArea, ImageUpTo
<1>4. c \in AllPages /\ d \in AllPages /\ d \in FirstPage .. PagesEnd
  <2>1. RootSize * TableSize \in Nat
    BY Addresses
  <2> QED
    BY <1>3, <2>1 DEF AllPages
<1>5. /\ TableInv'
      /\ \A w \in AllPages : MappedTo(w)' = IF w = c THEN Len(loaded) + 1 ELSE MappedTo(w)
  <2>1. Len(loaded) + 1 \in Nat
    BY <1>2
  <2> QED
    BY <1>1, <1>2, <1>4, <2>1, MapOne
<1>6. current' = At(d) /\ PageOf(current') = d /\ current' = current + PageSize
  <2>1. At(d) = At(c) + PageSize /\ At(d) \in 0 .. (WordSize - 1)
        /\ PageOf(At(d)) = d
    BY <1>4, AtFacts, PagesOfAddresses
  <2> QED
    BY <1>1, <2>1, SmallWord
<1>7. /\ loaded' \in Seq([Offsets -> Bytes]) /\ Len(loaded') = Len(loaded) + 1
      /\ \A k \in 1 .. Len(loaded) : loaded'[k] = loaded[k]
      /\ loaded'[Len(loaded) + 1] = bytes /\ DOMAIN loaded' = 1 .. (Len(loaded) + 1)
  BY <1>1, <1>2, AppendProperties, LenProperties
<1>8. FirstPage' = FirstPage /\ PagesEnd' = PagesEnd
      /\ \A v, o : ImageByte(v, o)' = ImageByte(v, o)
  BY <1>1, ImageKept
<1>9. ASSUME NEW v \in FirstPage .. c
      PROVE  /\ v - FirstPage + 1 \in DOMAIN loaded'
             /\ \A o \in Offsets : loaded'[v - FirstPage + 1][o] = ImageByte(v, o)
  <2>1. v - FirstPage + 1 \in DOMAIN loaded'
    BY <1>2, <1>3, <1>7
  <2>2. CASE v = c
    BY <1>3, <1>7, <2>1, <2>2
  <2>3. CASE v # c
    <3>1. v \in FirstPage .. (c - 1) /\ v - FirstPage + 1 \in 1 .. Len(loaded)
      BY <1>3, <2>3
    <3>2. \A o \in Offsets : loaded[v - FirstPage + 1][o] = ImageByte(v, o)
      BY <1>3, <3>1 DEF ImageLoaded
    <3> QED
      BY <1>7, <2>1, <3>1, <3>2
  <2> QED
    BY <2>2, <2>3
<1>10. ImageLoaded(d)'
  <2>1. d - 1 = c
    OBVIOUS
  <2> QED
    BY <1>8, <1>9, <2>1 DEF ImageLoaded
<1>11. ASSUME NEW v \in AllPages
       PROVE  MappedTo(v)' = IF v \in FirstPage .. (d - 1) THEN v - FirstPage + 1 ELSE 0
  <2>1. v \in Nat
    BY PageIndices
  <2> QED
    BY <1>3, <1>5, <2>1
<1>12. ImageUpTo(d)'
  <2>1. d \in FirstPage' .. PagesEnd' /\ Len(loaded') = d - FirstPage'
    BY <1>3, <1>4, <1>7, <1>8
  <2>2. \A v \in AllPages :
          MappedTo(v)' = IF v \in FirstPage' .. (d - 1) THEN v - FirstPage' + 1 ELSE 0
    BY <1>8, <1>11
  <2> QED
    BY <1>10, <2>1, <2>2 DEF ImageUpTo
<1> QED
  BY <1>1, <1>5, <1>6, <1>7, <1>12

LEMMA LoaderStops ==
    ASSUME LoadInv, UNCHANGED <<header, loaded, rootTable, tables>>, loadPc' = "crashed"
    PROVE  LoadInv'
<1>1. Loader!IsHeader(header)' /\ Loader!IsLoadable(header)'
  BY ImageKept DEF LoadInv
<1>2. TableInv' /\ loaded' \in Seq([Offsets -> Bytes])
  BY DEF LoadInv, TableInv
<1> QED
  BY <1>1, <1>2 DEF LoadInv, LoadPcs

\* The device tree's part of the address space, if it is to be mapped.
DtbArea ==
    /\ DtbFirst \in Nat /\ DtbCount \in Nat \ {0} /\ At(DtbFirst) \in Nat
    /\ Loader!dtbStart = At(DtbFirst) /\ At(DtbFirst) + header.dtbSize <= WordSize
    /\ At(DtbFirst + DtbCount) = At(DtbFirst) + At(DtbCount)
    /\ header.dtbSize <= At(DtbCount) /\ At(DtbCount) < header.dtbSize + PageSize

LEMMA CountOfDtb ==
    ASSUME Loader!IsHeader(header)
    PROVE  /\ DtbCount \in Nat \ {0} /\ header.dtbSize <= At(DtbCount)
           /\ At(DtbCount) < header.dtbSize + PageSize /\ At(DtbCount) \in Nat
<1> DEFINE last == header.dtbSize + PageSize - 1
<1>1. header.dtbSize \in Nat \ {0} /\ PageSize \in Nat \ {0} /\ last \in Nat
  BY NumbersOfHeader, SizesOfLoader DEF HeaderNumbers
<1>2. DtbCount = PageOf(last)
  BY DEF DtbCount
<1> HIDE DEF last
<1>3. DtbCount \in Nat /\ At(DtbCount) <= last /\ last < At(DtbCount) + PageSize
      /\ At(DtbCount) \in Nat /\ At(0) = 0
  BY <1>1, <1>2, PageOfFacts, AtFacts
<1> QED
  BY <1>1, <1>3 DEF last

LEMMA AreaOfDtb ==
    ASSUME Loader!IsHeader(header), Loader!IsLoadable(header), header.mapDtb
    PROVE  DtbArea
<1> DEFINE last == header.DtbAddress + PageSize - 1
<1>1. /\ header.dtbSize \in Nat \ {0} /\ header.DtbAddress \in Nat /\ last \in Nat
      /\ PageSize \in Nat \ {0} /\ WordSize \in Nat \ {0}
  BY NumbersOfHeader, SizesOfLoader DEF HeaderNumbers
<1>2. DtbFirst = PageOf(last)
  BY DEF DtbFirst
<1>3. DtbFirst \in Nat /\ At(DtbFirst) \in Nat
  BY <1>1, <1>2, PageOfFacts, AtFacts
<1>4. At(DtbFirst) + header.dtbSize <= WordSize
  BY <1>2 DEF Loader!IsLoadable, At, PageOf
<1>5. Loader!dtbStart = At(DtbFirst)
  <2>1. Loader!dtbStart = At(DtbFirst) % WordSize
    BY <1>2, AlignedDown DEF Loader!dtbStart, Loader!AlignUp
  <2>2. At(DtbFirst) \in 0 .. (WordSize - 1)
    BY <1>1, <1>3, <1>4
  <2> QED
    BY <2>1, <2>2, SmallWord DEF Loader!Word
<1>6. /\ DtbCount \in Nat \ {0} /\ header.dtbSize <= At(DtbCount)
      /\ At(DtbCount) < header.dtbSize + PageSize
  BY CountOfDtb
<1>7. At(DtbFirst + DtbCount) = At(DtbFirst) + At(DtbCount)
  BY <1>3, <1>6, AtFacts
<1> QED
  BY <1>3, <1>4, <1>5, <1>6, <1>7 DEF DtbArea

LEMMA RefusalMeans ==
    ASSUME Loader!IsHeader(header), Loader!IsLoadable(header), Loader!Refusal = "none"
    PROVE  Accepted
<1> DEFINE va == header.VirtualAddr
           size == header.MSize
           entry == header.Entry
<1>1. /\ va \in Nat /\ size \in Nat /\ entry \in Nat /\ header.fileSize \in Nat
      /\ header.MaxDtbEnd \in Nat /\ va + size <= WordSize - PageSize
      /\ PageSize \in Nat \ {0} /\ WordSize \in Nat \ {0}
  BY NumbersOfHeader, SizesOfLoader DEF HeaderNumbers, Loader!IsLoadable
<1>2. /\ ~(entry < va) /\ ~(entry - va >= size) /\ ~(header.fileSize > size)
      /\ header.mapDtb => ~Loader!OverlapsKernel
  BY DEF Loader!Refusal
<1>3. va <= entry /\ entry < va + size /\ header.fileSize <= size /\ size # 0
  BY <1>1, <1>2
<1>4. ASSUME header.mapDtb
      PROVE  va > header.MaxDtbEnd \/ At(DtbFirst) >= va + size
  <2>1. Loader!dtbStart = At(DtbFirst) /\ At(DtbFirst) \in Nat
    BY <1>4, AreaOfDtb DEF DtbArea
  <2>2. va + size - 1 \in 0 .. (WordSize - 1)
    BY <1>1, <1>3
  <2>3. Loader!Word(va + size - 1) = va + size - 1
    BY <2>2, SmallWord
  <2>4. ~(va <= header.MaxDtbEnd /\ At(DtbFirst) <= va + size - 1)
    BY <1>2, <1>4, <2>1, <2>3 DEF Loader!OverlapsKernel, Loader!Overlap
  <2> QED
    BY <1>1, <2>1, <2>4
<1> QED
  BY <1>3, <1>4 DEF Accepted

LEMMA CheckHeaderStep ==
    ASSUME LoadInv, Loader!CheckHeader
    PROVE  LoadInv'
<1>1. loadPc = "check"
  BY DEF Loader!CheckHeader
<1>2. CASE Loader!Refusal # "none"
  <2>1. UNCHANGED <<header, loaded, rootTable, tables>> /\ loadPc' = "crashed"
    BY <1>2 DEF Loader!CheckHeader, Loader!Crash, Loader!mapped
  <2> QED
    BY <2>1, LoaderStops
<1>3. CASE Loader!Refusal = "none"
  <2>1. /\ UNCHANGED <<header, loaded, rootTable, tables, entrypoint, deviceTree>>
        /\ loadPc' = "head" /\ current' = At(FirstPage)
    BY <1>3, AlignedDown DEF Loader!CheckHeader, Loader!mapped, FirstPage
  <2>2. /\ Accepted /\ Loader!IsHeader(header) /\ Loader!IsLoadable(header)
        /\ loaded = <<>> /\ (\A v \in AllPages : MappedTo(v) = 0)
        /\ entrypoint = -1 /\ deviceTree = -1 /\ TableInv
        /\ loaded \in Seq([Offsets -> Bytes])
    BY <1>1, <1>3, RefusalMeans DEF LoadInv
  <2>3. ImageArea
    BY <2>2, AreaOfImage
  <2>4. PageOf(current') = FirstPage
    <3>1. At(FirstPage) \in Nat /\ FirstPage \in Nat /\ At(FirstPage) < At(FirstPage) + PageSize
      BY <2>3, SizesOfLoader DEF ImageArea
    <3> QED
      BY <2>1, <3>1, PageOfFacts
  <2>5. TableInv' /\ \A v : MappedTo(v)' = MappedTo(v)
    BY <2>1, <2>2 DEF TableInv, MappedTo
  <2>6. /\ FirstPage' = FirstPage /\ PagesEnd' = PagesEnd /\ Accepted'
        /\ Loader!IsHeader(header)' /\ Loader!IsLoadable(header)'
    BY <2>1, <2>2, ImageKept
  <2>7. ASSUME NEW c, c = FirstPage
        PROVE  ImageUpTo(c)'
    <3>1. c \in FirstPage .. PagesEnd /\ FirstPage .. (c - 1) = {} /\ c - FirstPage = 0
      BY <2>3, <2>7 DEF ImageArea
    <3>2. c \in FirstPage' .. PagesEnd' /\ FirstPage' .. (c - 1) = {} /\ c - FirstPage' = 0
      BY <2>6, <3>1
    <3>3. Len(loaded') = 0
      BY <2>1, <2>2
    <3>4. \A v \in AllPages : MappedTo(v)' = 0
      BY <2>2, <2>5
    <3>5. ImageLoaded(c)'
      BY <3>2 DEF ImageLoaded
    <3> QED
      BY <3>2, <3>3, <3>4, <3>5 DEF ImageUpTo
  <2>8. ImageUpTo(PageOf(current))'
    BY <2>4, <2>7
  <2>9. (current = At(PageOf(current)) /\ PageOf(current) = FirstPage)'
    BY <2>1, <2>4, <2>6
  <2> QED
    BY <2>1, <2>2, <2>5, <2>6, <2>8, <2>9 DEF LoadInv, LoadPcs
<1> QED
  BY <1>2, <1>3

\* Where BiLoadKernel's loops are: at page c, with all pages before it done.
LoopAt(c) ==
    /\ loadPc \in {"head", "file", "bss"} /\ Accepted /\ entrypoint = -1 /\ deviceTree = -1
    /\ c \in Nat /\ c \in FirstPage .. PagesEnd /\ current = At(c) /\ current \in Nat
    /\ ImageUpTo(c) /\ ImageArea /\ HeaderNumbers /\ c = PageOf(current)
    /\ loadPc = "head" => c = FirstPage
    /\ loadPc = "file" => current >= header.VirtualAddr
    /\ loadPc = "bss" => current >= header.VirtualAddr + header.fileSize

LEMMA InALoop ==
    ASSUME LoadInv, loadPc \in {"head", "file", "bss"}
    PROVE  LoopAt(PageOf(current))
<1>1. /\ Loader!IsHeader(header) /\ Loader!IsLoadable(header)
      /\ Accepted /\ current = At(PageOf(current)) /\ ImageUpTo(PageOf(current))
      /\ loadPc = "head" => PageOf(current) = FirstPage
      /\ loadPc = "file" => current >= header.VirtualAddr
      /\ loadPc = "bss" => current >= header.VirtualAddr + header.fileSize
      /\ entrypoint = -1 /\ deviceTree = -1
  BY DEF LoadInv
<1>2. ImageArea /\ HeaderNumbers
  BY <1>1, AreaOfImage, NumbersOfHeader
<1>3. PageOf(current) \in FirstPage .. PagesEnd
  BY <1>1 DEF ImageUpTo
<1>4. PageOf(current) \in Nat /\ At(PageOf(current)) \in Nat
  <2>1. FirstPage \in Nat
    BY <1>2 DEF ImageArea
  <2>2. PageOf(current) \in Nat
    BY <1>3, <2>1
  <2> QED
    BY <2>2, AtFacts
<1> QED
  BY <1>1, <1>2, <1>3, <1>4 DEF LoopAt

\* A page of the image leaves the loops where they should be.
LEMMA NextPage ==
    ASSUME LoadInv, NEW c, LoopAt(c), c < PagesEnd,
           NEW bytes \in [Offsets -> Bytes], \A o \in Offsets : bytes[o] = ImageByte(c, o),
           NEW next \in {"file", "bss"}, Loader!MapImagePage(bytes, next),
           next = "file" => current + PageSize >= header.VirtualAddr,
           next = "bss" => current + PageSize >= header.VirtualAddr + header.fileSize
    PROVE  LoadInv'
<1>1. c \in Nat /\ current = At(c) /\ ImageUpTo(c) /\ Accepted
  BY DEF LoopAt
<1>2. PICK d \in Nat : d = c + 1
  BY <1>1
<1>3. /\ UNCHANGED <<header, entrypoint, deviceTree>> /\ loadPc' = next
      /\ TableInv' /\ loaded' \in Seq([Offsets -> Bytes])
      /\ current' = At(d) /\ PageOf(current') = d
      /\ current' = current + PageSize /\ ImageUpTo(d)'
  BY <1>1, <1>2, ImagePageStep
<1>4. /\ Accepted' /\ Loader!IsHeader(header)' /\ Loader!IsLoadable(header)'
  BY <1>1, <1>3, ImageKept DEF LoadInv
<1>5. ImageUpTo(PageOf(current))' /\ (current = At(PageOf(current)))'
  BY <1>3
<1>6. entrypoint' = -1 /\ deviceTree' = -1
  BY <1>3 DEF LoopAt
<1>7. /\ next = "file" => current' >= header'.VirtualAddr
      /\ next = "bss" => current' >= header'.VirtualAddr + header'.fileSize
  BY <1>3
<1> QED
  BY <1>3, <1>4, <1>5, <1>6, <1>7 DEF LoadInv, LoadPcs

LEMMA NextLoop ==
    ASSUME LoadInv, NEW c, LoopAt(c), NEW next \in {"file", "bss"}, Loader!Skip(next),
           next = "file" => current >= header.VirtualAddr,
           next = "bss" => current >= header.VirtualAddr + header.fileSize
    PROVE  LoadInv'
<1>1. /\ UNCHANGED <<header, current, loaded, rootTable, tables, entrypoint, deviceTree>>
      /\ loadPc' = next
  BY DEF Loader!Skip, Loader!mapped
<1>2. /\ Accepted' /\ Loader!IsHeader(header)' /\ Loader!IsLoadable(header)'
      /\ FirstPage' = FirstPage /\ PagesEnd' = PagesEnd
      /\ \A v, o : ImageByte(v, o)' = ImageByte(v, o)
  BY <1>1, ImageKept DEF LoadInv, LoopAt
<1>3. TableInv' /\ (\A v : MappedTo(v)' = MappedTo(v)) /\ PageOf(current)' = PageOf(current)
  BY <1>1 DEF LoadInv, TableInv, MappedTo
<1>4. \A k : ImageLoaded(k)' <=> ImageLoaded(k)
  BY <1>1, <1>2 DEF ImageLoaded
<1>5. \A k : ImageUpTo(k)' <=> ImageUpTo(k)
  BY <1>1, <1>2, <1>3, <1>4 DEF ImageUpTo
<1>6. ImageUpTo(PageOf(current))' /\ (current = At(PageOf(current)))'
  BY <1>1, <1>3, <1>5 DEF LoopAt
<1>7. /\ entrypoint' = -1 /\ deviceTree' = -1 /\ loaded' \in Seq([Offsets -> Bytes])
      /\ next = "file" => current' >= header'.VirtualAddr
      /\ next = "bss" => current' >= header'.VirtualAddr + header'.fileSize
  BY <1>1 DEF LoopAt, LoadInv
<1> QED
  BY <1>1, <1>2, <1>3, <1>6, <1>7 DEF LoadInv, LoadPcs

LEMMA ImageBytesAre ==
    /\ Loader!Zero \in Bytes /\ \A i \in Int : Loader!FileByte(i) \in Bytes
    /\ Loader!Offsets = Offsets
BY DEF Loader!Zero, Loader!FileByte, Bytes, Loader!Offsets, Offsets

\* Where page c and its bytes are, in numbers.
LEMMA LoopNumbers ==
    ASSUME NEW c, LoopAt(c)
    PROVE  /\ header.VirtualAddr \in Nat /\ header.fileSize \in Nat \ {0}
           /\ header.MSize \in Nat
           /\ current \in Nat /\ PageSize \in Nat \ {0} /\ WordSize \in Nat \ {0}
           /\ header.fileSize <= header.MSize
           /\ header.VirtualAddr < At(FirstPage) + PageSize /\ At(FirstPage) <= current
           /\ At(FirstPage) \in Nat
           /\ current <= At(PagesEnd) /\ At(PagesEnd) < WordSize
           /\ header.VirtualAddr + header.MSize <= At(PagesEnd) /\ At(PagesEnd) \in Nat
           /\ c < PagesEnd <=> current < At(PagesEnd)
           /\ Loader!fileEnd = header.VirtualAddr + header.fileSize
           /\ Loader!end = At(PagesEnd)
           /\ \A o \in Offsets :
                ImageByte(c, o) =
                  IF current + o - header.VirtualAddr \in 0 .. (header.fileSize - 1)
                  THEN Loader!FileByte(current + o - header.VirtualAddr) ELSE Loader!Zero
<1>1. /\ header.VirtualAddr \in Nat /\ header.fileSize \in Nat \ {0} /\ header.MSize \in Nat
      /\ PageSize \in Nat \ {0} /\ WordSize \in Nat \ {0} /\ header.fileSize <= header.MSize
  BY SizesOfLoader DEF LoopAt, HeaderNumbers, Accepted
<1>2. ImageArea /\ c \in Nat /\ c \in FirstPage .. PagesEnd /\ current = At(c) /\ current \in Nat
  BY DEF LoopAt
<1>3. FirstPage \in Nat /\ PagesEnd \in Nat /\ FirstPage <= c /\ c <= PagesEnd
  BY <1>2 DEF ImageArea
<1>4. At(FirstPage) <= current /\ (c < PagesEnd <=> current < At(PagesEnd))
      /\ current <= At(PagesEnd)
  <2>1. FirstPage < c => At(FirstPage) + PageSize <= At(c)
    BY <1>2, <1>3, AtFacts
  <2>2. c < PagesEnd => At(c) + PageSize <= At(PagesEnd)
    BY <1>2, <1>3, AtFacts
  <2>3. At(FirstPage) \in Nat /\ At(PagesEnd) \in Nat
    BY <1>2 DEF ImageArea
  <2>4. c = PagesEnd => current = At(PagesEnd)
    BY <1>2
  <2>5. FirstPage = c => current = At(FirstPage)
    BY <1>2
  <2>6. c < PagesEnd \/ c = PagesEnd
    BY <1>2, <1>3
  <2>7. FirstPage < c \/ FirstPage = c
    BY <1>2, <1>3
  <2> QED
    BY <1>1, <1>2, <1>3, <2>1, <2>2, <2>3, <2>4, <2>5, <2>6, <2>7
<1>5. \A o \in Offsets :
        ImageByte(c, o) =
          IF current + o - header.VirtualAddr \in 0 .. (header.fileSize - 1)
          THEN Loader!FileByte(current + o - header.VirtualAddr) ELSE Loader!Zero
  BY <1>2 DEF ImageByte
<1> QED
  BY <1>1, <1>2, <1>4, <1>5 DEF ImageArea

LEMMA HeadPageStep ==
    ASSUME LoadInv, Loader!HeadPage
    PROVE  LoadInv'
<1> DEFINE c == PageOf(current)
           va == header.VirtualAddr
           byte(o) == IF o < va - current \/ o - (va - current) >= header.fileSize
                      THEN Loader!Zero ELSE Loader!FileByte(o - (va - current))
           bytes == [o \in Offsets |-> byte(o)]
<1>1. loadPc = "head" /\ current < va /\ Loader!MapImagePage(bytes, "file")
  BY ImageBytesAre DEF Loader!HeadPage
<1>2. LoopAt(c) /\ c = FirstPage
  BY <1>1, InALoop DEF LoopAt
<1> HIDE DEF c
<1>3. /\ va \in Nat /\ header.fileSize \in Nat \ {0} /\ current \in Nat
      /\ PageSize \in Nat \ {0} /\ va < At(FirstPage) + PageSize /\ At(FirstPage) <= current
      /\ At(FirstPage) \in Nat
  BY <1>2, LoopNumbers
<1>4. c < PagesEnd
  BY <1>2 DEF LoopAt, ImageArea
<1>5. ASSUME NEW o \in Offsets
      PROVE  byte(o) = ImageByte(c, o) /\ byte(o) \in Bytes
  <2>1. o \in 0 .. (PageSize - 1)
    BY DEF Offsets
  <2>2. ImageByte(c, o) =
          IF current + o - va \in 0 .. (header.fileSize - 1)
          THEN Loader!FileByte(current + o - va) ELSE Loader!Zero
    BY <1>2, LoopNumbers
  <2>3. current + o - va = o - (va - current) /\ current + o - va \in Int
    BY <1>3, <2>1
  <2>4. current + o - va \in 0 .. (header.fileSize - 1)
          <=> ~(o < va - current \/ o - (va - current) >= header.fileSize)
    BY <1>3, <2>1
  <2>5. byte(o) = ImageByte(c, o)
    BY <2>2, <2>3, <2>4
  <2> QED
    BY <2>3, <2>5, ImageBytesAre
<1> HIDE DEF byte
<1>6. bytes \in [Offsets -> Bytes] /\ \A o \in Offsets : bytes[o] = ImageByte(c, o)
  BY <1>5
<1>7. current + PageSize >= va
  BY <1>3
<1> HIDE DEF bytes
<1> QED
  BY <1>1, <1>2, <1>4, <1>6, <1>7, NextPage

LEMMA NoHeadPageStep ==
    ASSUME LoadInv, Loader!NoHeadPage
    PROVE  LoadInv'
<1>1. loadPc = "head" /\ current >= header.VirtualAddr /\ Loader!Skip("file")
  BY DEF Loader!NoHeadPage
<1>2. LoopAt(PageOf(current))
  BY <1>1, InALoop
<1> QED
  BY <1>1, <1>2, NextLoop

LEMMA FilePageStep ==
    ASSUME LoadInv, Loader!FilePage
    PROVE  LoadInv'
<1> DEFINE c == PageOf(current)
           va == header.VirtualAddr
           from == Loader!Word(current - va)
           bytes == [o \in Offsets |-> Loader!FileByte(from + o)]
<1>1. /\ loadPc = "file" /\ current < Loader!AlignDown(Loader!fileEnd)
      /\ IF from % SectorSize # 0 THEN Loader!Crash("unaligned position")
         ELSE Loader!MapImagePage(bytes, "file")
  BY ImageBytesAre DEF Loader!FilePage
<1>2. LoopAt(c) /\ current >= va
  BY <1>1, InALoop DEF LoopAt
<1> HIDE DEF c
<1>3. /\ va \in Nat /\ header.fileSize \in Nat \ {0} /\ current \in Nat
      /\ PageSize \in Nat \ {0} /\ current <= At(PagesEnd) /\ At(PagesEnd) < WordSize
      /\ At(PagesEnd) \in Nat /\ header.fileSize <= header.MSize /\ header.MSize \in Nat
      /\ Loader!fileEnd = va + header.fileSize /\ WordSize \in Nat \ {0}
      /\ va + header.MSize <= At(PagesEnd) /\ (c < PagesEnd <=> current < At(PagesEnd))
  BY <1>2, LoopNumbers
<1> DEFINE fileEnd == va + header.fileSize
<1>4. /\ fileEnd \in Nat /\ At(PageOf(fileEnd)) <= fileEnd /\ PageOf(fileEnd) \in Nat
      /\ current < At(PageOf(fileEnd)) /\ At(PageOf(fileEnd)) \in Nat
  <2>1. fileEnd \in Nat
    BY <1>3
  <2>2. Loader!AlignDown(Loader!fileEnd) = At(PageOf(fileEnd))
    BY <1>3, AlignedDown
  <2> HIDE DEF fileEnd
  <2> QED
    BY <1>1, <2>1, <2>2, PageOfFacts, AtFacts
<1>5. c < PagesEnd
  BY <1>3, <1>4
\* The last byte of the page is one of the file's.
<1>6. current + PageSize <= fileEnd
  <2>1. c < PageOf(fileEnd)
    <3>1. c \in Nat /\ current = At(c)
      BY <1>2 DEF LoopAt
    <3>2. PageOf(fileEnd) < c => At(PageOf(fileEnd)) + PageSize <= At(c)
      BY <1>4, <3>1, AtFacts
    <3> HIDE DEF fileEnd
    <3>3. PageOf(fileEnd) # c
      BY <1>3, <1>4, <3>1
    <3> QED
      BY <1>3, <1>4, <3>1, <3>2, <3>3
  <2>2. At(c) + PageSize <= At(PageOf(fileEnd)) /\ current = At(c)
    BY <1>2, <1>4, <2>1, AtFacts DEF LoopAt
  <2> HIDE DEF fileEnd
  <2> QED
    BY <1>3, <1>4, <2>2
<1>7. CASE from % SectorSize # 0
  <2>1. UNCHANGED <<header, loaded, rootTable, tables>> /\ loadPc' = "crashed"
    BY <1>1, <1>7 DEF Loader!Crash, Loader!mapped
  <2> QED
    BY <2>1, LoaderStops
<1>8. CASE from % SectorSize = 0
  <2>1. Loader!MapImagePage(bytes, "file")
    BY <1>1, <1>8
  <2>2. from = current - va
    <3>1. current - va \in 0 .. (WordSize - 1)
      BY <1>2, <1>3
    <3> QED
      BY <3>1, SmallWord
  <2> HIDE DEF from
  <2>3. ASSUME NEW o \in Offsets
        PROVE  Loader!FileByte(from + o) = ImageByte(c, o) /\ Loader!FileByte(from + o) \in Bytes
    <3>1. o \in 0 .. (PageSize - 1)
      BY DEF Offsets
    <3>2. ImageByte(c, o) =
            IF current + o - va \in 0 .. (header.fileSize - 1)
            THEN Loader!FileByte(current + o - va) ELSE Loader!Zero
      BY <1>2, LoopNumbers
    <3>3. current + o - va = from + o /\ current + o - va \in 0 .. (header.fileSize - 1)
      BY <1>2, <1>3, <1>6, <2>2, <3>1
    <3>4. from + o \in Int
      BY <1>3, <2>2, <3>1
    <3> QED
      BY <3>2, <3>3, <3>4, ImageBytesAre
  <2>4. bytes \in [Offsets -> Bytes] /\ \A o \in Offsets : bytes[o] = ImageByte(c, o)
    BY <2>3
  <2>5. current + PageSize >= va
    BY <1>2, <1>3
  <2> HIDE DEF bytes
  <2> QED
    BY <1>2, <1>5, <2>1, <2>4, <2>5, NextPage
<1> QED
  BY <1>7, <1>8

LEMMA TailPageStep ==
    ASSUME LoadInv, Loader!TailPage
    PROVE  LoadInv'
<1> DEFINE c == PageOf(current)
           va == header.VirtualAddr
           from == Loader!Word(current - va)
           fileEnd == va + header.fileSize
           byte(o) == IF o < fileEnd - current THEN Loader!FileByte(from + o) ELSE Loader!Zero
           bytes == [o \in Offsets |-> byte(o)]
<1>1. loadPc = "file" /\ current >= Loader!AlignDown(Loader!fileEnd)
  BY DEF Loader!TailPage
<1>2. LoopAt(c) /\ current >= va
  BY <1>1, InALoop DEF LoopAt
<1> HIDE DEF c
<1>3. /\ va \in Nat /\ header.fileSize \in Nat \ {0} /\ current \in Nat
      /\ PageSize \in Nat \ {0} /\ current <= At(PagesEnd) /\ At(PagesEnd) < WordSize
      /\ At(PagesEnd) \in Nat /\ header.fileSize <= header.MSize /\ header.MSize \in Nat
      /\ Loader!fileEnd = fileEnd /\ WordSize \in Nat \ {0}
      /\ va + header.MSize <= At(PagesEnd) /\ (c < PagesEnd <=> current < At(PagesEnd))
  BY <1>2, LoopNumbers
<1>4. current + PageSize > fileEnd
  <2>1. fileEnd \in Nat
    BY <1>3
  <2>2. Loader!AlignDown(Loader!fileEnd) = At(PageOf(fileEnd))
    BY <1>3, AlignedDown
  <2> HIDE DEF fileEnd
  <2>3. PageOf(fileEnd) \in Nat /\ fileEnd < At(PageOf(fileEnd)) + PageSize
    BY <2>1, PageOfFacts
  <2>4. At(PageOf(fileEnd)) \in Nat /\ At(PageOf(fileEnd)) <= current
    BY <1>1, <2>2, <2>3, AtFacts
  <2> QED
    BY <1>3, <2>1, <2>3, <2>4
<1>5. IF current < fileEnd THEN Loader!MapImagePage(bytes, "bss") ELSE Loader!Skip("bss")
  BY <1>3, ImageBytesAre DEF Loader!TailPage
<1>6. CASE ~(current < fileEnd)
  <2>1. Loader!Skip("bss") /\ current >= fileEnd
    BY <1>3, <1>5, <1>6
  <2> QED
    BY <1>2, <2>1, NextLoop
<1>7. CASE current < fileEnd
  <2>1. Loader!MapImagePage(bytes, "bss") /\ c < PagesEnd
    BY <1>3, <1>5, <1>7
  <2>2. from = current - va
    <3>1. current - va \in 0 .. (WordSize - 1)
      BY <1>2, <1>3
    <3> QED
      BY <3>1, SmallWord
  <2> HIDE DEF from
  <2>3. ASSUME NEW o \in Offsets
        PROVE  byte(o) = ImageByte(c, o) /\ byte(o) \in Bytes
    <3>1. o \in 0 .. (PageSize - 1)
      BY DEF Offsets
    <3>2. ImageByte(c, o) =
            IF current + o - va \in 0 .. (header.fileSize - 1)
            THEN Loader!FileByte(current + o - va) ELSE Loader!Zero
      BY <1>2, LoopNumbers
    <3>3. current + o - va = from + o /\ from + o \in Int
      BY <1>3, <2>2, <3>1
    <3>4. current + o - va \in 0 .. (header.fileSize - 1) <=> o < fileEnd - current
      BY <1>2, <1>3, <3>1
    <3>5. byte(o) = ImageByte(c, o)
      BY <3>2, <3>3, <3>4
    <3> QED
      BY <3>3, <3>5, ImageBytesAre
  <2> HIDE DEF byte
  <2>4. bytes \in [Offsets -> Bytes] /\ \A o \in Offsets : bytes[o] = ImageByte(c, o)
    BY <2>3
  <2>5. current + PageSize >= fileEnd
    BY <1>3, <1>4
  <2> HIDE DEF bytes
  <2> QED
    BY <1>2, <2>1, <2>4, <2>5, NextPage
<1> QED
  BY <1>6, <1>7

LEMMA ZeroPageStep ==
    ASSUME LoadInv, Loader!ZeroPage
    PROVE  LoadInv'
<1> DEFINE c == PageOf(current)
           bytes == [o \in Offsets |-> Loader!Zero]
<1>1. loadPc = "bss" /\ current < Loader!end /\ Loader!MapImagePage(bytes, "bss")
  BY ImageBytesAre DEF Loader!ZeroPage
<1>2. LoopAt(c) /\ current >= header.VirtualAddr + header.fileSize
  BY <1>1, InALoop DEF LoopAt
<1> HIDE DEF c
<1>3. /\ header.VirtualAddr \in Nat /\ header.fileSize \in Nat \ {0} /\ current \in Nat
      /\ PageSize \in Nat \ {0} /\ Loader!end = At(PagesEnd)
      /\ (c < PagesEnd <=> current < At(PagesEnd))
  BY <1>2, LoopNumbers
<1>4. ASSUME NEW o \in Offsets
      PROVE  ImageByte(c, o) = Loader!Zero
  <2>1. o \in 0 .. (PageSize - 1)
    BY DEF Offsets
  <2>2. ~(current + o - header.VirtualAddr \in 0 .. (header.fileSize - 1))
    BY <1>2, <1>3, <2>1
  <2> QED
    BY <1>2, <2>2, LoopNumbers
<1>5. bytes \in [Offsets -> Bytes] /\ \A o \in Offsets : bytes[o] = ImageByte(c, o)
  BY <1>4, ImageBytesAre
<1>6. current + PageSize >= header.VirtualAddr + header.fileSize
  BY <1>2, <1>3
<1> HIDE DEF bytes
<1> QED
  BY <1>1, <1>2, <1>3, <1>5, <1>6, NextPage

-----------------------------------------------------------------------------
(* BlDtBuildBlob maps one page after the other; the tables it makes on the way     *)
(* are new ones, in some order.                                                    *)

LEMMA ListOfSet ==
    ASSUME NEW S, IsFiniteSet(S)
    PROVE  LET f == Loader!SetToSeq(S)
               n == Cardinality(S)
           IN /\ n \in Nat /\ f \in [1 .. n -> S]
              /\ \A a, b \in 1 .. n : f[a] = f[b] => a = b
              /\ \A s \in S : \E k \in 1 .. n : f[k] = s
<1> DEFINE n == Cardinality(S)
           f == Loader!SetToSeq(S)
           Good(g) == \A a, b \in DOMAIN g : g[a] = g[b] => a = b
<1>1. n \in Nat /\ ExistsBijection(1 .. n, S)
  BY FS_CardinalityType
<1>2. PICK g \in [1 .. n -> S] : Good(g)
  BY <1>1 DEF ExistsBijection, Bijection, Injection, IsInjective
<1>3. f = CHOOSE h \in [1 .. n -> S] : Good(h)
  BY DEF Loader!SetToSeq, Loader!IsInjective, Loader!Cardinality, Cardinality
<1> HIDE DEF f
<1>4. f \in [1 .. n -> S] /\ Good(f)
  <2> DEFINE Lists == [1 .. n -> S]
  <2>1. g \in Lists /\ Good(g) /\ f = CHOOSE h \in Lists : Good(h)
    BY <1>2, <1>3
  <2> HIDE DEF Lists, Good
  <2>2. f \in Lists /\ Good(f)
    BY <2>1
  <2> QED
    BY <2>2 DEF Lists
<1>5. f \in Injection(1 .. n, S)
  BY <1>4 DEF Injection, IsInjective
<1>6. Cardinality(1 .. n) = n /\ IsFiniteSet(1 .. n)
  BY <1>1, FS_Interval
<1>7. f \in Surjection(1 .. n, S)
  BY <1>5, <1>6, FS_Injection
<1>8. \A s \in S : \E k \in 1 .. n : f[k] = s
  BY <1>7 DEF Surjection
<1>9. DOMAIN f = 1 .. n
  BY <1>4
<1> QED
  BY <1>1, <1>4, <1>8, <1>9 DEF f

BlobPages == DtbFirst .. (DtbFirst + DtbCount - 1)

\* Page p of the blob is page DtbFirst + p - 1 of the address space.
LEMMA PagesOfBlob ==
    ASSUME HeaderNumbers, DtbArea
    PROVE  /\ DOMAIN Loader!Blob = 1 .. DtbCount
           /\ \A p \in 1 .. DtbCount :
                /\ DtbFirst + p - 1 \in AllPages /\ DtbFirst + p - 1 \in BlobPages
                /\ Loader!Word(Loader!dtbStart + (p - 1) * PageSize) = At(DtbFirst + p - 1)
           /\ \A w \in BlobPages : w - DtbFirst + 1 \in 1 .. DtbCount /\ w \in AllPages
<1>1. DOMAIN Loader!Blob = 1 .. DtbCount
  BY DEF Loader!Blob, DtbCount, PageOf
<1>2. /\ DtbFirst \in Nat /\ DtbCount \in Nat \ {0} /\ At(DtbFirst) \in Nat
      /\ Loader!dtbStart = At(DtbFirst) /\ At(DtbFirst) + header.dtbSize <= WordSize
      /\ header.dtbSize <= At(DtbCount) /\ At(DtbCount) < header.dtbSize + PageSize
      /\ header.dtbSize \in Nat \ {0} /\ PageSize \in Nat \ {0} /\ WordSize \in Nat \ {0}
  BY SizesOfLoader DEF DtbArea, HeaderNumbers
<1>3. ASSUME NEW p \in 1 .. DtbCount
      PROVE  /\ DtbFirst + p - 1 \in AllPages /\ DtbFirst + p - 1 \in BlobPages
             /\ Loader!Word(Loader!dtbStart + (p - 1) * PageSize) = At(DtbFirst + p - 1)
  <2> DEFINE q == p - 1
             v == DtbFirst + q
  <2>1. q \in Nat /\ q < DtbCount /\ v \in Nat /\ v = DtbFirst + p - 1
    BY <1>2
  <2>2. v \in BlobPages
    BY <1>2, <2>1 DEF BlobPages
  <2> HIDE DEF q
  <2>3. At(v) = At(DtbFirst) + At(q) /\ At(q) \in Nat /\ At(q) + PageSize <= At(DtbCount)
        /\ At(DtbCount) \in Nat
    BY <1>2, <2>1, AtFacts
  <2>4. At(v) \in 0 .. (WordSize - 1)
    BY <1>2, <2>3
  <2> HIDE DEF v
  <2>5. v \in AllPages
    <3>1. PageOf(At(v)) = v
      <4>1. At(v) \in Nat /\ At(v) <= At(v) /\ At(v) < At(v) + PageSize
        BY <1>2, <2>4
      <4> QED
        BY <2>1, <4>1, PageOfFacts
    <3> QED
      BY <2>4, <3>1, PagesOfAddresses
  <2>6. Loader!Word(Loader!dtbStart + (p - 1) * PageSize) = At(v)
    <3>1. Loader!dtbStart + (p - 1) * PageSize = At(v)
      BY <1>2, <2>3 DEF At, q
    <3> QED
      BY <2>4, <3>1, SmallWord
  <2> QED
    BY <2>1, <2>2, <2>5, <2>6
<1>4. ASSUME NEW w \in BlobPages
      PROVE  w - DtbFirst + 1 \in 1 .. DtbCount /\ w \in AllPages
  <2>1. w - DtbFirst + 1 \in 1 .. DtbCount /\ DtbFirst + (w - DtbFirst + 1) - 1 = w
    BY <1>2 DEF BlobPages
  <2> QED
    BY <1>3, <2>1
<1> QED
  BY <1>1, <1>3, <1>4

LEMMA MapBlobPages ==
    ASSUME TableInv, HeaderNumbers, DtbArea, Loader!MapBlob,
           NEW size \in Nat, size = Len(loaded)
    PROVE  /\ TableInv'
           /\ \A w \in AllPages :
                MappedTo(w)' = IF w \in BlobPages THEN size + (w - DtbFirst) + 1
                               ELSE MappedTo(w)
<1> DEFINE Root == 0 .. (RootSize - 1)
           Lower == [0 .. (TableSize - 1) -> Nat]
           Blob == 1 .. DtbCount
           q(p) == DtbFirst + p - 1
           virt(p) == Loader!Word(Loader!dtbStart + (p - 1) * PageSize)
           roots == {Loader!RootIndex(virt(p)) : p \in DOMAIN Loader!Blob}
           fresh == {r \in roots : rootTable[r] = 0}
           new == Loader!SetToSeq(fresh)
           number(r) == CHOOSE k \in DOMAIN new : new[k] = r
           newRoot == [r \in DOMAIN rootTable |->
                         IF \E k \in DOMAIN new : new[k] = r THEN Len(tables) + number(r)
                         ELSE rootTable[r]]
           empty == [k \in DOMAIN new |-> Loader!NoTable]
           lower == tables \o empty
           here(t, i) == {p \in DOMAIN Loader!Blob :
                            newRoot[Loader!RootIndex(virt(p))] = t /\ Loader!Index(virt(p)) = i}
           entry(t, i) == IF here(t, i) = {} THEN lower[t][i]
                          ELSE Len(loaded)
                                 + (CHOOSE p \in here(t, i) : \A o \in here(t, i) : o <= p)
           n == Cardinality(fresh)
           L == Len(tables)
<1>1. /\ rootTable' = newRoot
      /\ tables' = [t \in DOMAIN lower |-> [i \in 0 .. (TableSize - 1) |-> entry(t, i)]]
  BY DEF Loader!MapBlob
<1>2. /\ DOMAIN Loader!Blob = Blob
      /\ \A p \in Blob : q(p) \in AllPages /\ q(p) \in BlobPages /\ virt(p) = At(q(p))
      /\ \A w \in BlobPages : w - DtbFirst + 1 \in Blob /\ w \in AllPages
  BY PagesOfBlob
<1>3. \A p \in Blob : /\ Loader!RootIndex(virt(p)) = q(p) \div TableSize
                      /\ Loader!Index(virt(p)) = q(p) % TableSize
                      /\ q(p) \div TableSize \in Root
  <2> TAKE p \in Blob
  <2>1. q(p) \in AllPages /\ virt(p) = At(q(p))
    BY <1>2
  <2> HIDE DEF q, virt
  <2>2. At(q(p)) \in 0 .. (WordSize - 1) /\ PageOf(At(q(p))) = q(p)
    BY <2>1, PagesOfAddresses
  <2> QED
    BY <2>1, <2>2, Indices, PageIndices
<1>4. /\ tables \in Seq(Lower) /\ L \in Nat /\ DOMAIN tables = 1 .. L
      /\ rootTable \in [Root -> 0 .. L]
      /\ \A a, b \in Root : rootTable[a] = rootTable[b] /\ rootTable[a] # 0 => a = b
      /\ DtbCount \in Nat /\ DtbFirst \in Nat
  BY LenProperties DEF TableInv, DtbArea
<1> HIDE DEF virt
<1>5. IsFiniteSet(fresh) /\ fresh \subseteq Root
  <2>1. IsFiniteSet(Root)
    BY Addresses, FS_Interval
  <2>2. roots \subseteq Root
    BY <1>2, <1>3
  <2> QED
    BY <2>1, <2>2, FS_Subset
<1> HIDE DEF roots
<1>6. /\ n \in Nat /\ new \in [1 .. n -> fresh] /\ DOMAIN new = 1 .. n
      /\ \A a, b \in 1 .. n : new[a] = new[b] => a = b
      /\ \A s \in fresh : \E k \in 1 .. n : new[k] = s
  BY <1>5, ListOfSet
<1> HIDE DEF new, n
<1>7. \A r \in fresh : number(r) \in 1 .. n /\ new[number(r)] = r
  BY <1>6
<1> HIDE DEF number
<1>8. \A r \in Root : newRoot[r] = IF r \in fresh THEN L + number(r) ELSE rootTable[r]
  <2> TAKE r \in Root
  <2>1. r \in fresh <=> \E k \in DOMAIN new : new[k] = r
    BY <1>6
  <2> QED
    BY <1>4, <2>1
<1>9. \A r \in fresh : rootTable[r] = 0
  OBVIOUS
<1>10. newRoot \in [Root -> 0 .. (L + n)]
  <2>1. ASSUME NEW r \in Root PROVE newRoot[r] \in 0 .. (L + n)
    <3>1. rootTable[r] \in 0 .. L /\ L \in Nat /\ n \in Nat
      BY <1>4, <1>6
    <3>2. /\ r \in fresh => newRoot[r] = L + number(r) /\ number(r) \in 1 .. n
          /\ r \notin fresh => newRoot[r] = rootTable[r]
      BY <1>7, <1>8
    <3> HIDE DEF newRoot, fresh, L
    <3> QED
      BY <3>1, <3>2
  <2> QED
    BY <1>4, <2>1
<1>11. ASSUME NEW a \in Root, NEW b \in Root, newRoot[a] = newRoot[b], newRoot[a] # 0
       PROVE  a = b
  <2>1. rootTable[a] \in 0 .. L /\ rootTable[b] \in 0 .. L
    BY <1>4
  <2>2. /\ a \in fresh => number(a) \in 1 .. n
        /\ b \in fresh => number(b) \in 1 .. n
        /\ L \in Nat /\ n \in Nat
    BY <1>4, <1>6, <1>7
  <2>3. /\ newRoot[a] = IF a \in fresh THEN L + number(a) ELSE rootTable[a]
        /\ newRoot[b] = IF b \in fresh THEN L + number(b) ELSE rootTable[b]
    BY <1>8
  <2> DEFINE na == number(a)
             nb == number(b)
             ra == newRoot[a]
             rb == newRoot[b]
  <2>4. ra = rb /\ ra # 0
    BY <1>11
  <2> HIDE DEF newRoot, fresh, L, na, nb, ra, rb
  <2>5. CASE a \in fresh /\ b \in fresh
    <3>1. ra = L + na /\ rb = L + nb /\ na \in 1 .. n /\ nb \in 1 .. n
      BY <2>2, <2>3, <2>5 DEF na, nb, ra, rb
    <3>2. na \in Int /\ nb \in Int /\ L \in Int
      BY <2>2, <3>1
    <3>3. L + na = L + nb
      BY <2>4, <3>1
    <3>4. na = nb
      BY <3>2, <3>3
    <3> QED
      BY <1>7, <2>5, <3>4 DEF na, nb
  <2>6. CASE a \in fresh /\ b \notin fresh
    <3>1. ra = L + na /\ rb \in 0 .. L /\ na \in 1 .. n
      BY <2>1, <2>2, <2>3, <2>6 DEF na, ra, rb
    <3> QED
      BY <2>2, <2>4, <3>1
  <2>7. CASE a \notin fresh /\ b \in fresh
    <3>1. rb = L + nb /\ ra \in 0 .. L /\ nb \in 1 .. n
      BY <2>1, <2>2, <2>3, <2>7 DEF nb, ra, rb
    <3> QED
      BY <2>2, <2>4, <3>1
  <2>8. CASE a \notin fresh /\ b \notin fresh
    BY <1>4, <1>11, <2>3, <2>8
  <2> QED
    BY <2>5, <2>6, <2>7, <2>8
<1> HIDE DEF newRoot, fresh, L
<1>12. /\ empty \in Seq(Lower) /\ Len(empty) = n
       /\ \A k \in 1 .. n : empty[k] = Loader!NoTable
  <2>1. Loader!NoTable \in Lower
    BY DEF Loader!NoTable
  <2> HIDE DEF Lower
  <2>2. empty \in [1 .. n -> Lower]
    BY <1>6, <2>1
  <2>3. empty \in Seq(Lower)
    BY <1>6, <2>2, SeqDef
  <2> QED
    BY <1>6, <2>2, <2>3, LenProperties
<1> HIDE DEF empty
<1>13. /\ lower \in Seq(Lower) /\ DOMAIN lower = 1 .. (L + n)
       /\ \A t \in 1 .. L : lower[t] = tables[t]
       /\ \A t \in 1 .. (L + n) : t > L => lower[t] = Loader!NoTable
       /\ \A t \in 1 .. (L + n) : lower[t] \in Lower
  <2> HIDE DEF Lower
  <2>1. /\ lower \in Seq(Lower) /\ Len(lower) = L + n
        /\ \A t \in 1 .. (L + n) : lower[t] = IF t <= L THEN tables[t] ELSE empty[t - L]
    <3>1. /\ lower \in Seq(Lower) /\ Len(lower) = Len(tables) + Len(empty)
          /\ \A t \in 1 .. (Len(tables) + Len(empty)) :
               lower[t] = IF t <= Len(tables) THEN tables[t] ELSE empty[t - Len(tables)]
      BY <1>4, <1>12, ConcatProperties
    <3> HIDE DEF lower
    <3> QED
      BY <1>12, <3>1 DEF L
  <2>2. DOMAIN lower = 1 .. (L + n) /\ \A t \in 1 .. (L + n) : lower[t] \in Lower
    BY <2>1, LenProperties, ElementOfSeq
  <2>3. \A t \in 1 .. L : lower[t] = tables[t]
    BY <1>4, <1>6, <2>1
  <2>4. \A t \in 1 .. (L + n) : t > L => lower[t] = Loader!NoTable
    <3> TAKE t \in 1 .. (L + n)
    <3>1. t > L => t - L \in 1 .. n /\ ~(t <= L)
      BY <1>4, <1>6
    <3> QED
      BY <1>12, <2>1, <3>1
  <2> QED
    BY <2>1, <2>2, <2>3, <2>4
<1> HIDE DEF lower
<1>14. \A t, i : here(t, i) = {p \in Blob : /\ newRoot[q(p) \div TableSize] = t
                                            /\ q(p) % TableSize = i}
  BY <1>2, <1>3
<1> HIDE DEF here
<1>15. ASSUME NEW w \in AllPages, NEW u, u = newRoot[w \div TableSize], u # 0
       PROVE  here(u, w % TableSize) = IF w \in BlobPages THEN {w - DtbFirst + 1} ELSE {}
  <2>1. ASSUME NEW p \in Blob
        PROVE  newRoot[q(p) \div TableSize] = u /\ q(p) % TableSize = w % TableSize
                 <=> q(p) = w
    <3>1. q(p) \in AllPages /\ q(p) \div TableSize \in Root /\ w \div TableSize \in Root
      BY <1>2, <1>3, PageIndices
    <3> HIDE DEF q
    <3>2. newRoot[q(p) \div TableSize] = u => q(p) \div TableSize = w \div TableSize
      BY <1>11, <1>15, <3>1
    <3> QED
      BY <1>15, <3>1, <3>2, SameIndices
  <2>2. here(u, w % TableSize) = {p \in Blob : q(p) = w}
    BY <1>14, <2>1
  <2>3. w \in Nat
    BY PageIndices
  <2>4. CASE w \in BlobPages
    <3>1. w - DtbFirst + 1 \in Blob
      BY <1>2, <2>4
    <3>2. \A p \in Blob : q(p) = w <=> p = w - DtbFirst + 1
      BY <1>4, <2>3
    <3> QED
      BY <2>2, <2>4, <3>1, <3>2
  <2>5. CASE w \notin BlobPages
    BY <1>2, <2>2, <2>5
  <2> QED
    BY <2>4, <2>5
<1>16. \A t, i : here(t, i) \subseteq Blob /\ Blob \subseteq Nat
  BY <1>4, <1>14
<1>17. ASSUME NEW t \in DOMAIN lower, NEW i \in 0 .. (TableSize - 1)
       PROVE  entry(t, i) \in Nat
  <2>1. lower[t][i] \in Nat
    BY <1>13
  <2>2. ASSUME here(t, i) # {}
        PROVE  (CHOOSE p \in here(t, i) : \A o \in here(t, i) : o <= p) \in Nat
    <3> DEFINE H == here(t, i)
    <3>1. H \subseteq Blob /\ H # {} /\ H \subseteq Nat
      BY <1>16, <2>2
    <3>2. \E p \in H : \A o \in H : o <= p
      <4>1. IsFiniteSet(H)
        <5>1. IsFiniteSet(Blob)
          BY <1>4, FS_Interval
        <5> HIDE DEF H, Blob
        <5> QED
          BY <3>1, <5>1, FS_Subset
      <4> HIDE DEF H
      <4>2. \A o \in H : o <= DtbCount
        BY <1>4, <3>1
      <4>3. H \in SUBSET Nat
        BY <3>1
      <4> QED
        BY <1>4, <3>1, <4>2, LargestOfSet
    <3> QED
      BY <3>1, <3>2
  <2> QED
    BY <2>1, <2>2
<1>18. /\ tables' \in Seq(Lower) /\ Len(tables') = L + n
       /\ \A t \in 1 .. (L + n) : \A i \in 0 .. (TableSize - 1) : tables'[t][i] = entry(t, i)
  <2> HIDE DEF entry
  <2>1. tables' \in [1 .. (L + n) -> Lower]
    BY <1>1, <1>13, <1>17
  <2>2. L + n \in Nat
    BY <1>4, <1>6
  <2>3. tables' \in Seq(Lower)
    BY <2>1, <2>2, SeqDef
  <2>4. Len(tables') = L + n
    BY <2>1, <2>2, <2>3, LenProperties
  <2> QED
    BY <1>1, <1>13, <2>3, <2>4
<1>19. TableInv'
  BY <1>1, <1>10, <1>11, <1>18 DEF TableInv
<1>20. ASSUME NEW w \in AllPages
       PROVE  MappedTo(w)' = IF w \in BlobPages THEN size + (w - DtbFirst) + 1
                             ELSE MappedTo(w)
  <2> DEFINE a == w \div TableSize
             j == w % TableSize
             u == newRoot[a]
  <2>1. /\ a \in Root /\ j \in 0 .. (TableSize - 1) /\ w \in Nat
        /\ MappedTo(w) = IF rootTable[a] = 0 THEN 0 ELSE tables[rootTable[a]][j]
        /\ MappedTo(w)' = IF u = 0 THEN 0 ELSE tables'[u][j]
    BY <1>1, PageIndices DEF MappedTo
  <2>2. /\ u # 0 => here(u, j) = IF w \in BlobPages THEN {w - DtbFirst + 1} ELSE {}
        /\ u \in 0 .. (L + n)
        /\ u = IF a \in fresh THEN L + number(a) ELSE rootTable[a]
        /\ rootTable[a] \in 0 .. L
    BY <1>4, <1>8, <1>10, <1>15, <2>1
  <2>3. w \in BlobPages /\ rootTable[a] = 0 => a \in fresh
    <3> SUFFICES ASSUME w \in BlobPages, rootTable[a] = 0 PROVE a \in fresh
      OBVIOUS
    <3>1. w - DtbFirst + 1 \in Blob /\ q(w - DtbFirst + 1) = w
      BY <1>2, <1>4, <2>1
    <3>2. \E p \in Blob : Loader!RootIndex(virt(p)) = a
      BY <1>3, <3>1
    <3>3. a \in roots
      BY <1>2, <3>2 DEF roots
    <3> QED
      BY <3>3 DEF fresh
  <2> HIDE DEF a, j, u
  <2>4. u # 0 => u \in 1 .. (L + n) /\ MappedTo(w)' = entry(u, j)
    <3> SUFFICES ASSUME u # 0
                 PROVE  u \in 1 .. (L + n) /\ MappedTo(w)' = entry(u, j)
      OBVIOUS
    <3> HIDE DEF entry
    <3>1. u \in 1 .. (L + n)
      BY <1>4, <1>6, <2>2
    <3> QED
      BY <1>18, <2>1, <3>1
  <2>5. a \in fresh => L + number(a) # 0 /\ L + number(a) > L
    BY <1>4, <1>6, <1>7
  <2>6. CASE w \in BlobPages
    <3>1. u # 0
      BY <2>2, <2>3, <2>5, <2>6
    <3>2. here(u, j) = {w - DtbFirst + 1} /\ MappedTo(w)' = entry(u, j)
      BY <2>2, <2>4, <2>6, <3>1
    <3>3. w - DtbFirst + 1 \in Int /\ w - DtbFirst + 1 <= w - DtbFirst + 1
      BY <1>4, <2>1
    <3>4. (CHOOSE p \in {w - DtbFirst + 1} : \A o \in {w - DtbFirst + 1} : o <= p)
            = w - DtbFirst + 1
      BY <3>3
    <3>5. entry(u, j) = Len(loaded) + (w - DtbFirst + 1)
      BY <3>2, <3>4
    <3>6. Len(loaded) + (w - DtbFirst + 1) = size + (w - DtbFirst) + 1
      BY <1>4, <2>1
    <3> QED
      BY <2>6, <3>2, <3>5, <3>6
  <2>7. CASE w \notin BlobPages
    <3>1. CASE u = 0
      <4>1. rootTable[a] = 0
        BY <1>9, <2>2, <3>1
      <4> QED
        BY <2>1, <2>7, <3>1, <4>1
    <3>2. CASE u # 0
      <4>1. MappedTo(w)' = lower[u][j] /\ u \in 1 .. (L + n)
        BY <2>2, <2>4, <2>7, <3>2
      <4>2. CASE a \in fresh
        <5>1. lower[u] = Loader!NoTable /\ rootTable[a] = 0
          BY <1>9, <1>13, <2>2, <2>5, <4>1, <4>2
        <5>2. Loader!NoTable[j] = 0
          BY <2>1 DEF Loader!NoTable
        <5> QED
          BY <2>1, <2>7, <4>1, <5>1, <5>2
      <4>3. CASE a \notin fresh
        <5>1. u = rootTable[a] /\ u \in 1 .. L
          BY <1>4, <2>2, <3>2, <4>3
        <5> QED
          BY <1>13, <2>1, <2>7, <4>1, <5>1
      <4> QED
        BY <4>2, <4>3
    <3> QED
      BY <3>1, <3>2
  <2> QED
    BY <2>6, <2>7
<1> QED
  BY <1>19, <1>20

-----------------------------------------------------------------------------
(* The end of BlMain, from the image to the start of the kernel. *)

\* All of what Finished says but the entry point is about what stays as it is.
LEMMA FinishedKept ==
    ASSUME Finished, UNCHANGED <<header, loaded, rootTable, tables, deviceTree>>,
           entrypoint' # -1 =>
             entrypoint' = At(PageOf(header.Entry) - FirstPage + 1) + (header.Entry % PageSize)
    PROVE  Finished'
<1>1. /\ FirstPage' = FirstPage /\ PagesEnd' = PagesEnd
      /\ DtbFirst' = DtbFirst /\ DtbCount' = DtbCount
      /\ \A v, o : ImageByte(v, o)' = ImageByte(v, o)
  BY ImageKept
<1>2. (\A v : MappedTo(v)' = MappedTo(v)) /\ (BlobMapped' <=> BlobMapped)
  BY DEF MappedTo, BlobMapped
<1>3. \A k : ImageLoaded(k)' <=> ImageLoaded(k)
  BY <1>1 DEF ImageLoaded
<1>4. PageOf(header.Entry)' = PageOf(header.Entry) /\ \A v : At(v)' = At(v)
  BY DEF PageOf, At
<1>5. \A i : Loader!DtbByte(i)' = Loader!DtbByte(i)
  BY DEF Loader!DtbByte
<1> QED
  BY <1>1, <1>2, <1>3, <1>4, <1>5 DEF Finished

LEMMA EndOfImageStep ==
    ASSUME LoadInv, Loader!EndOfImage
    PROVE  LoadInv'
<1> DEFINE c == PageOf(current)
<1>1. /\ loadPc = "bss" /\ current >= Loader!end /\ loadPc' = "transition"
      /\ UNCHANGED <<header, current, loaded, rootTable, tables, entrypoint, deviceTree>>
  BY DEF Loader!EndOfImage, Loader!Skip, Loader!mapped
<1>2. LoopAt(c)
  BY <1>1, InALoop
<1> HIDE DEF c
<1>3. /\ Loader!end = At(PagesEnd) /\ (c < PagesEnd <=> current < At(PagesEnd))
      /\ current \in Nat /\ At(PagesEnd) \in Nat
  BY <1>2, LoopNumbers
<1>4. /\ c \in FirstPage .. PagesEnd /\ ImageUpTo(c) /\ ImageArea /\ Accepted
      /\ entrypoint = -1 /\ deviceTree = -1
  BY <1>2 DEF LoopAt
<1>5. c = PagesEnd
  BY <1>1, <1>3, <1>4 DEF ImageArea
<1>6. /\ FirstPage < PagesEnd /\ ImageLoaded(PagesEnd)
      /\ Len(loaded) = PagesEnd - FirstPage
      /\ \A v \in AllPages :
           MappedTo(v) = IF v \in FirstPage .. (PagesEnd - 1) THEN v - FirstPage + 1 ELSE 0
  BY <1>4, <1>5 DEF ImageUpTo, ImageArea
<1>7. Finished
  BY <1>4, <1>6 DEF Finished, BlobMapped
<1>8. Finished'
  BY <1>1, <1>4, <1>7, FinishedKept
<1>9. /\ Accepted' /\ Loader!IsHeader(header)' /\ Loader!IsLoadable(header)'
  BY <1>1, <1>4, ImageKept DEF LoadInv
<1>10. TableInv' /\ loaded' \in Seq([Offsets -> Bytes])
  BY <1>1 DEF LoadInv, TableInv
<1> QED
  BY <1>1, <1>8, <1>9, <1>10 DEF LoadInv, LoadPcs

\* The page of the entry point is one of the image's.
LEMMA EntryInImage ==
    ASSUME Loader!IsHeader(header), Loader!IsLoadable(header), Accepted
    PROVE  /\ PageOf(header.Entry) \in FirstPage .. (PagesEnd - 1)
           /\ PageOf(header.Entry) \in AllPages
           /\ header.Entry \in 0 .. (WordSize - 1)
<1> DEFINE entry == header.Entry
           v == PageOf(entry)
<1>1. /\ ImageArea /\ entry \in 0 .. (WordSize - 1) /\ entry \in Nat
      /\ header.VirtualAddr <= entry /\ entry < header.VirtualAddr + header.MSize
      /\ header.VirtualAddr \in Nat /\ header.MSize \in Nat /\ PageSize \in Nat \ {0}
  BY AreaOfImage, NumbersOfHeader, SizesOfLoader DEF HeaderNumbers, Accepted
<1>2. /\ v \in Nat /\ At(v) <= entry /\ entry < At(v) + PageSize /\ v \in AllPages
      /\ At(v) \in Nat
  BY <1>1, PageOfFacts, PagesOfAddresses, AtFacts
<1>3. /\ FirstPage \in Nat /\ PagesEnd \in Nat /\ At(FirstPage) \in Nat /\ At(PagesEnd) \in Nat
      /\ At(FirstPage) <= header.VirtualAddr
      /\ header.VirtualAddr + header.MSize <= At(PagesEnd)
  BY <1>1 DEF ImageArea
<1> HIDE DEF v
<1>4. ~(v < FirstPage)
  <2>1. v < FirstPage => At(v) + PageSize <= At(FirstPage)
    BY <1>2, <1>3, AtFacts
  <2> QED
    BY <1>1, <1>2, <1>3, <2>1
<1>5. v < PagesEnd
  <2>1. PagesEnd < v => At(PagesEnd) + PageSize <= At(v)
    BY <1>2, <1>3, AtFacts
  <2>2. PagesEnd # v
    BY <1>1, <1>2, <1>3
  <2> QED
    BY <1>1, <1>2, <1>3, <2>1, <2>2
<1>6. v \in FirstPage .. (PagesEnd - 1)
  BY <1>2, <1>3, <1>4, <1>5
<1> QED
  BY <1>1, <1>2, <1>6 DEF v

LEMMA GetEntrypointStep ==
    ASSUME LoadInv, Loader!GetEntrypoint
    PROVE  LoadInv'
<1> DEFINE v == PageOf(header.Entry)
           page == Loader!PageAt(rootTable, tables, header.Entry)
<1>1. loadPc = "transition" /\ entrypoint = -1
  BY DEF Loader!GetEntrypoint
<1>2. /\ Accepted /\ Finished /\ Loader!IsHeader(header) /\ Loader!IsLoadable(header)
      /\ TableInv /\ loaded \in Seq([Offsets -> Bytes])
  BY <1>1 DEF LoadInv
<1>3. v \in FirstPage .. (PagesEnd - 1) /\ v \in AllPages /\ page = MappedTo(v)
  BY <1>2, EntryInImage, PagesOfAddresses
<1>4. MappedTo(v) = v - FirstPage + 1
  BY <1>2, <1>3 DEF Finished
<1>5. FirstPage \in Nat /\ PagesEnd \in Nat
  BY <1>2, AreaOfImage DEF ImageArea
<1>6. page = v - FirstPage + 1 /\ page # 0
  <2> HIDE DEF v, page
  <2> QED
    BY <1>3, <1>4, <1>5
<1>7. /\ entrypoint' = At(page) + (header.Entry % PageSize) /\ loadPc' = loadPc
      /\ UNCHANGED <<header, loaded, rootTable, tables, deviceTree>>
  BY <1>6 DEF Loader!GetEntrypoint, At, Loader!mapped
<1>8. Finished'
  BY <1>2, <1>6, <1>7, FinishedKept
<1>9. /\ Accepted' /\ Loader!IsHeader(header)' /\ Loader!IsLoadable(header)'
  BY <1>2, <1>7, ImageKept
<1>10. TableInv' /\ loaded' \in Seq([Offsets -> Bytes])
  BY <1>2, <1>7 DEF TableInv
<1> QED
  BY <1>1, <1>7, <1>8, <1>9, <1>10 DEF LoadInv, LoadPcs

LEMMA StartKernelStep ==
    ASSUME LoadInv, Loader!StartKernel
    PROVE  LoadInv'
<1>1. /\ loadPc = "transition" /\ entrypoint # -1 /\ deviceTree # -1 /\ loadPc' = "started"
      /\ UNCHANGED <<header, loaded, rootTable, tables, deviceTree, entrypoint>>
  BY DEF Loader!StartKernel, Loader!Skip, Loader!mapped
<1>2. /\ Accepted /\ Finished /\ Loader!IsHeader(header) /\ Loader!IsLoadable(header)
      /\ TableInv /\ loaded \in Seq([Offsets -> Bytes])
  BY <1>1 DEF LoadInv
<1>3. Finished'
  BY <1>1, <1>2, FinishedKept DEF Finished
<1>4. /\ Accepted' /\ Loader!IsHeader(header)' /\ Loader!IsLoadable(header)'
  BY <1>1, <1>2, ImageKept
<1>5. TableInv' /\ loaded' \in Seq([Offsets -> Bytes])
  BY <1>1, <1>2 DEF TableInv
<1> QED
  BY <1>1, <1>3, <1>4, <1>5 DEF LoadInv, LoadPcs

LEMMA BytesOfBlob ==
    ASSUME Loader!IsHeader(header)
    PROVE  /\ Loader!Blob \in Seq([Offsets -> Bytes]) /\ Len(Loader!Blob) = DtbCount
           /\ DtbCount \in Nat
           /\ \A p \in 1 .. DtbCount : \A o \in Offsets :
                At(p - 1) + o < header.dtbSize =>
                  Loader!Blob[p][o] = Loader!DtbByte(At(p - 1) + o)
<1> DEFINE byte(p, o) == LET i == (p - 1) * PageSize + o
                         IN IF i < header.dtbSize THEN Loader!DtbByte(i) ELSE Loader!Garbage
           page(p) == [o \in Offsets |-> byte(p, o)]
<1>1. Loader!Blob = [p \in 1 .. DtbCount |-> page(p)] /\ DtbCount \in Nat
  BY CountOfDtb DEF Loader!Blob, DtbCount, PageOf, Offsets
<1>2. ASSUME NEW p \in 1 .. DtbCount, NEW o \in Offsets
      PROVE  /\ byte(p, o) \in Bytes
             /\ At(p - 1) + o < header.dtbSize => byte(p, o) = Loader!DtbByte(At(p - 1) + o)
  <2>1. At(p - 1) = (p - 1) * PageSize /\ At(p - 1) \in Nat /\ o \in Int
    BY <1>1, AtFacts, SizesOfLoader DEF At, Offsets
  <2>2. Loader!DtbByte(At(p - 1) + o) \in Bytes /\ Loader!Garbage \in Bytes
    <3>1. At(p - 1) + o \in Int
      BY <2>1
    <3> QED
      BY <3>1 DEF Loader!DtbByte, Loader!Garbage, Bytes
  <2>3. byte(p, o) = IF At(p - 1) + o < header.dtbSize THEN Loader!DtbByte(At(p - 1) + o)
                     ELSE Loader!Garbage
    BY <2>1
  <2> HIDE DEF byte
  <2> QED
    BY <2>2, <2>3
<1> HIDE DEF byte
<1>3. Loader!Blob \in [1 .. DtbCount -> [Offsets -> Bytes]]
  BY <1>1, <1>2
<1>4. Loader!Blob \in Seq([Offsets -> Bytes])
  BY <1>1, <1>3, SeqDef
<1>5. Len(Loader!Blob) = DtbCount
  BY <1>1, <1>3, <1>4, LenProperties
<1>6. \A p \in 1 .. DtbCount : \A o \in Offsets : Loader!Blob[p][o] = byte(p, o)
  BY <1>1
<1> QED
  BY <1>1, <1>2, <1>4, <1>5, <1>6

\* BlDtBuildBlob's check keeps the last page of the tree in its room.
LEMMA BlobInRoom ==
    ASSUME Loader!IsHeader(header), Loader!IsLoadable(header), header.mapDtb,
           ~(Loader!Word(Loader!dtbStart + header.dtbSize - 1) > header.MaxDtbEnd)
    PROVE  At(DtbFirst + DtbCount) - 1 <= header.MaxDtbEnd
<1> DEFINE max == header.MaxDtbEnd
           m == PageOf(max)
           size == header.dtbSize
<1>1. /\ DtbFirst \in Nat /\ DtbCount \in Nat \ {0} /\ At(DtbFirst) \in Nat
      /\ Loader!dtbStart = At(DtbFirst) /\ At(DtbFirst) + size <= WordSize
      /\ At(DtbFirst + DtbCount) = At(DtbFirst) + At(DtbCount)
      /\ size <= At(DtbCount) /\ At(DtbCount) < size + PageSize
      /\ max \in Nat /\ size \in Nat \ {0} /\ PageSize \in Nat \ {0} /\ WordSize \in Nat
      /\ max % PageSize = PageSize - 1
  BY AreaOfDtb, NumbersOfHeader, SizesOfLoader
  DEF DtbArea, HeaderNumbers, Loader!IsLoadable
<1>2. /\ m \in Nat /\ At(m) \in Nat /\ max = At(m) + PageSize - 1
      /\ m + 1 \in Nat /\ At(m + 1) = At(m) + PageSize
  <2>1. m \in Nat /\ max % PageSize = max - At(m)
    BY <1>1, PageOfFacts
  <2>2. At(m) \in Nat /\ At(m + 1) = At(m) + PageSize
    BY <2>1, AtFacts
  <2> HIDE DEF m
  <2> QED
    BY <1>1, <2>1, <2>2
<1>3. At(DtbFirst) + size - 1 <= max
  <2>1. At(DtbFirst) + size - 1 \in 0 .. (WordSize - 1)
    BY <1>1
  <2>2. Loader!Word(At(DtbFirst) + size - 1) = At(DtbFirst) + size - 1
    BY <2>1, SmallWord
  <2> QED
    BY <1>1, <2>1, <2>2
<1> DEFINE n == DtbFirst + DtbCount
<1>4. n \in Nat /\ At(n) \in Nat /\ At(DtbCount) \in Nat
  BY <1>1, AtFacts
<1> HIDE DEF m, n, size, max
<1>5. ~(m + 1 < n)
  <2> SUFFICES ASSUME m + 1 < n PROVE FALSE
    OBVIOUS
  <2>1. At(m + 1) + PageSize <= At(n)
    BY <1>2, <1>4, AtFacts
  <2> QED
    BY <1>1, <1>2, <1>3, <1>4, <2>1 DEF n
<1>6. At(n) <= At(m + 1)
  <2>1. n < m + 1 => At(n) + PageSize <= At(m + 1)
    BY <1>2, <1>4, AtFacts
  <2>2. n = m + 1 => At(n) = At(m + 1)
    OBVIOUS
  <2>3. n < m + 1 \/ n = m + 1
    BY <1>2, <1>4, <1>5
  <2>4. At(n) + PageSize <= At(m + 1) => At(n) <= At(m + 1)
    BY <1>1, <1>2, <1>4
  <2> QED
    BY <1>2, <1>4, <2>1, <2>2, <2>3, <2>4
<1>7. At(n) - 1 <= max
  BY <1>1, <1>2, <1>4, <1>6
<1> QED
  BY <1>7 DEF n, max

\* BiLoadKernel's check keeps the image and the device tree apart.
LEMMA BlobBesideImage ==
    ASSUME Loader!IsHeader(header), Loader!IsLoadable(header), header.mapDtb, Accepted,
           At(DtbFirst + DtbCount) - 1 <= header.MaxDtbEnd
    PROVE  \A v \in BlobPages : v \notin FirstPage .. (PagesEnd - 1)
<1> DEFINE va == header.VirtualAddr
           n == DtbFirst + DtbCount
<1>1. /\ DtbFirst \in Nat /\ DtbCount \in Nat \ {0} /\ At(DtbFirst) \in Nat
      /\ va \in Nat /\ header.MSize \in Nat /\ header.MaxDtbEnd \in Nat
      /\ PageSize \in Nat \ {0} /\ va % PageSize = 0
      /\ va > header.MaxDtbEnd \/ At(DtbFirst) >= va + header.MSize
  BY AreaOfDtb, NumbersOfHeader, SizesOfLoader
  DEF DtbArea, HeaderNumbers, Loader!IsLoadable, Accepted
<1>2. /\ FirstPage \in Nat /\ PagesEnd \in Nat /\ At(FirstPage) \in Nat /\ At(PagesEnd) \in Nat
      /\ At(PagesEnd) <= va + header.MSize + PageSize - 1
  BY AreaOfImage DEF ImageArea
<1>3. n \in Nat /\ At(n) \in Nat
  BY <1>1, AtFacts
<1>4. va = At(FirstPage)
  <2>1. va % PageSize = va - At(FirstPage)
    BY <1>1, PageOfFacts DEF FirstPage
  <2> QED
    BY <1>1, <1>2, <2>1
<1> HIDE DEF n
<1>5. CASE va > header.MaxDtbEnd
  <2>1. ~(FirstPage < n)
    <3>1. FirstPage < n => At(FirstPage) + PageSize <= At(n)
      BY <1>2, <1>3, AtFacts
    <3>2. At(n) - 1 <= header.MaxDtbEnd
      BY DEF n
    <3> QED
      BY <1>1, <1>2, <1>3, <1>4, <1>5, <3>1, <3>2
  <2> QED
    BY <1>1, <1>2, <1>3, <2>1 DEF BlobPages, n
<1>6. CASE At(DtbFirst) >= va + header.MSize
  <2>1. ~(DtbFirst < PagesEnd)
    <3>1. DtbFirst < PagesEnd => At(DtbFirst) + PageSize <= At(PagesEnd)
      BY <1>1, <1>2, AtFacts
    <3> QED
      BY <1>1, <1>2, <1>6, <3>1
  <2> QED
    BY <1>1, <1>2, <2>1 DEF BlobPages
<1> QED
  BY <1>1, <1>5, <1>6

LEMMA BuildBlobStep ==
    ASSUME LoadInv, Loader!BuildBlob
    PROVE  LoadInv'
<1> DEFINE tooLarge == header.mapDtb
                       /\ Loader!Word(Loader!dtbStart + header.dtbSize - 1) > header.MaxDtbEnd
           size == PagesEnd - FirstPage
<1>1. loadPc = "transition" /\ deviceTree = -1
  BY DEF Loader!BuildBlob
<1>2. /\ Accepted /\ Finished /\ Loader!IsHeader(header) /\ Loader!IsLoadable(header)
      /\ TableInv /\ loaded \in Seq([Offsets -> Bytes])
  BY <1>1 DEF LoadInv
<1>3. CASE tooLarge
  <2>1. UNCHANGED <<header, loaded, rootTable, tables>> /\ loadPc' = "crashed"
    BY <1>3 DEF Loader!BuildBlob, Loader!Crash, Loader!mapped
  <2> QED
    BY <2>1, LoaderStops
<1>4. CASE ~tooLarge
  <2>1. /\ loaded' = loaded \o Loader!Blob /\ deviceTree' = At(Len(loaded) + 1)
        /\ IF header.mapDtb THEN Loader!MapBlob ELSE UNCHANGED <<rootTable, tables>>
        /\ UNCHANGED <<header, entrypoint>> /\ loadPc' = loadPc
    BY <1>4 DEF Loader!BuildBlob, At
  <2>2. /\ FirstPage \in Nat /\ PagesEnd \in Nat /\ FirstPage < PagesEnd /\ size \in Nat
        /\ Len(loaded) = size /\ DOMAIN loaded = 1 .. size /\ ImageLoaded(PagesEnd)
        /\ \A v \in AllPages :
             MappedTo(v) = IF v \in FirstPage .. (PagesEnd - 1) THEN v - FirstPage + 1 ELSE 0
        /\ entrypoint # -1 =>
             entrypoint = At(PageOf(header.Entry) - FirstPage + 1)
                            + (header.Entry % PageSize)
    <3>1. FirstPage \in Nat /\ PagesEnd \in Nat /\ FirstPage < PagesEnd /\ size \in Nat
      BY <1>2, AreaOfImage DEF ImageArea
    <3>2. /\ Len(loaded) = size /\ ImageLoaded(PagesEnd)
          /\ \A v \in AllPages :
               MappedTo(v) = IF v \in FirstPage .. (PagesEnd - 1) THEN v - FirstPage + 1 ELSE 0
          /\ entrypoint # -1 =>
               entrypoint = At(PageOf(header.Entry) - FirstPage + 1)
                              + (header.Entry % PageSize)
      BY <1>1, <1>2 DEF Finished, BlobMapped
    <3>3. DOMAIN loaded = 1 .. size
      BY <1>2, <3>2, LenProperties
    <3> QED
      BY <3>1, <3>2, <3>3
  <2>3. /\ Loader!Blob \in Seq([Offsets -> Bytes]) /\ Len(Loader!Blob) = DtbCount
        /\ DtbCount \in Nat
        /\ \A p \in 1 .. DtbCount : \A o \in Offsets :
             At(p - 1) + o < header.dtbSize =>
               Loader!Blob[p][o] = Loader!DtbByte(At(p - 1) + o)
    BY <1>2, BytesOfBlob
  <2> HIDE DEF size
  <2>4. /\ loaded' \in Seq([Offsets -> Bytes]) /\ DOMAIN loaded' = 1 .. (size + DtbCount)
        /\ \A k \in 1 .. (size + DtbCount) :
             loaded'[k] = IF k <= size THEN loaded[k] ELSE Loader!Blob[k - size]
    <3> DEFINE Pages == [Offsets -> Bytes]
               blob == Loader!Blob
    <3>1. blob \in Seq(Pages) /\ loaded \in Seq(Pages) /\ loaded' = loaded \o blob
      BY <1>2, <2>1, <2>3
    <3>2. Len(loaded) = size /\ Len(blob) = DtbCount
      BY <2>2, <2>3
    <3> HIDE DEF Pages, blob
    <3>3. /\ loaded' \in Seq(Pages) /\ Len(loaded') = Len(loaded) + Len(blob)
          /\ \A k \in 1 .. (Len(loaded) + Len(blob)) :
               loaded'[k] = IF k <= Len(loaded) THEN loaded[k] ELSE blob[k - Len(loaded)]
      BY <3>1, ConcatProperties
    <3>4. DOMAIN loaded' = 1 .. Len(loaded')
      BY <3>3, LenProperties
    <3> QED
      BY <3>2, <3>3, <3>4 DEF Pages, blob
  <2>5. /\ FirstPage' = FirstPage /\ PagesEnd' = PagesEnd
        /\ DtbFirst' = DtbFirst /\ DtbCount' = DtbCount /\ Accepted'
        /\ \A v, o : ImageByte(v, o)' = ImageByte(v, o)
        /\ Loader!IsHeader(header)' /\ Loader!IsLoadable(header)'
    BY <1>2, <2>1, ImageKept
  <2>6. header.mapDtb =>
          /\ DtbArea /\ HeaderNumbers /\ At(DtbFirst + DtbCount) - 1 <= header.MaxDtbEnd
          /\ \A v \in BlobPages : v \notin FirstPage .. (PagesEnd - 1)
    <3> SUFFICES ASSUME header.mapDtb
                 PROVE  /\ DtbArea /\ HeaderNumbers
                        /\ At(DtbFirst + DtbCount) - 1 <= header.MaxDtbEnd
                        /\ \A v \in BlobPages : v \notin FirstPage .. (PagesEnd - 1)
      OBVIOUS
    <3>1. At(DtbFirst + DtbCount) - 1 <= header.MaxDtbEnd
      BY <1>2, <1>4, BlobInRoom
    <3> QED
      BY <1>2, <3>1, AreaOfDtb, NumbersOfHeader, BlobBesideImage
  <2>7. /\ TableInv'
        /\ \A v \in AllPages :
             MappedTo(v)' = IF header.mapDtb /\ v \in BlobPages
                            THEN size + (v - DtbFirst) + 1 ELSE MappedTo(v)
    <3>1. CASE header.mapDtb
      BY <1>2, <2>1, <2>2, <2>6, <3>1, MapBlobPages
    <3>2. CASE ~header.mapDtb
      <4>1. rootTable' = rootTable /\ tables' = tables
        BY <2>1, <3>2
      <4> QED
        BY <1>2, <3>2, <4>1 DEF TableInv, MappedTo
    <3> QED
      BY <3>1, <3>2
  <2>8. deviceTree' = At(size + 1) /\ deviceTree' # -1
    <3>1. At(size + 1) \in Nat
      BY <2>2, AtFacts
    <3> QED
      BY <2>1, <2>2, <3>1
  <2>9. ImageLoaded(PagesEnd)'
    <3>1. ASSUME NEW v \in FirstPage .. (PagesEnd - 1)
          PROVE  /\ v - FirstPage + 1 \in DOMAIN loaded'
                 /\ \A o \in Offsets : loaded'[v - FirstPage + 1][o] = ImageByte(v, o)
      <4> DEFINE k == v - FirstPage + 1
      <4>1. k \in 1 .. (size + DtbCount) /\ k <= size
        BY <2>2, <2>3 DEF size
      <4>2. \A o \in Offsets : loaded[k][o] = ImageByte(v, o)
        BY <2>2 DEF ImageLoaded
      <4> HIDE DEF k
      <4>3. loaded'[k] = loaded[k] /\ k \in DOMAIN loaded'
        BY <2>4, <4>1
      <4> QED
        BY <4>2, <4>3 DEF k
    <3> QED
      BY <2>5, <3>1 DEF ImageLoaded
  <2>10. ASSUME NEW p \in 1 .. DtbCount
         PROVE  /\ size + p \in DOMAIN loaded'
                /\ \A o \in Offsets :
                     At(p - 1) + o < header.dtbSize =>
                       loaded'[size + p][o] = Loader!DtbByte(At(p - 1) + o)
    <3> DEFINE k == size + p
    <3>1. k \in 1 .. (size + DtbCount) /\ ~(k <= size) /\ k - size = p
      BY <2>2, <2>3
    <3> HIDE DEF k
    <3>2. loaded'[k] = Loader!Blob[p] /\ k \in DOMAIN loaded'
      BY <2>4, <3>1
    <3> QED
      BY <2>3, <3>2 DEF k
  <2>11. ASSUME NEW v \in AllPages
         PROVE  MappedTo(v)' =
                  IF v \in FirstPage .. (PagesEnd - 1) THEN v - FirstPage + 1
                  ELSE IF header.mapDtb /\ v \in BlobPages THEN size + (v - DtbFirst) + 1
                  ELSE 0
    BY <2>2, <2>6, <2>7
  <2>12. BlobMapped' <=> header.mapDtb
    BY <2>1, <2>8 DEF BlobMapped
  <2>13. /\ size' = size /\ header' = header /\ entrypoint' = entrypoint
         /\ \A v : At(v)' = At(v)
    BY <2>1, <2>5 DEF size, At
  <2>14. PageOf(header.Entry)' = PageOf(header.Entry)
         /\ \A i : Loader!DtbByte(i)' = Loader!DtbByte(i)
    BY <2>1 DEF PageOf, Loader!DtbByte
  <2>15. (\A v \in AllPages :
            MappedTo(v) =
              IF v \in FirstPage .. (PagesEnd - 1) THEN v - FirstPage + 1
              ELSE IF BlobMapped /\ v \in DtbFirst .. (DtbFirst + DtbCount - 1)
                     THEN size + (v - DtbFirst) + 1
              ELSE 0)'
    BY <2>5, <2>11, <2>12, <2>13 DEF BlobPages
  <2>16. (\A p \in 1 .. DtbCount :
            /\ size + p \in DOMAIN loaded
            /\ \A o \in Offsets :
                 At(p - 1) + o < header.dtbSize =>
                   loaded[size + p][o] = Loader!DtbByte(At(p - 1) + o))'
    BY <2>5, <2>10, <2>13, <2>14
  <2>17. (BlobMapped => At(DtbFirst + DtbCount) - 1 <= header.MaxDtbEnd)'
    BY <2>5, <2>6, <2>12, <2>13
  <2>18. (entrypoint # -1 =>
            entrypoint = At(PageOf(header.Entry) - FirstPage + 1)
                           + (header.Entry % PageSize))'
    BY <2>2, <2>5, <2>13, <2>14
  <2>19. (FirstPage < PagesEnd /\ deviceTree # -1 /\ deviceTree = At(size + 1))'
    BY <2>2, <2>5, <2>8, <2>13
  <2>20. Finished'
    BY <2>9, <2>15, <2>16, <2>17, <2>18, <2>19 DEF Finished, size
  <2> QED
    BY <1>1, <2>1, <2>4, <2>5, <2>7, <2>20 DEF LoadInv, LoadPcs
<1> QED
  BY <1>3, <1>4

\* Every page and table may be the one the heap has no room for.
LEMMA OutOfMemoryStep ==
    ASSUME LoadInv, Loader!OutOfMemory
    PROVE  LoadInv'
<1>1. UNCHANGED <<header, loaded, rootTable, tables>> /\ loadPc' = "crashed"
  BY DEF Loader!OutOfMemory, Loader!Crash, Loader!mapped
<1> QED
  BY <1>1, LoaderStops

LEMMA LoadKept ==
    ASSUME LoadInv, UNCHANGED loadVars
    PROVE  LoadInv'
<1>1. /\ UNCHANGED <<header, loadPc, current, loaded, rootTable, tables>>
      /\ UNCHANGED <<entrypoint, deviceTree>>
  BY DEF loadVars
<1>2. /\ Accepted' <=> Accepted
      /\ Loader!IsHeader(header)' /\ Loader!IsLoadable(header)'
      /\ FirstPage' = FirstPage /\ PagesEnd' = PagesEnd
      /\ \A v, o : ImageByte(v, o)' = ImageByte(v, o)
  BY <1>1, ImageKept DEF LoadInv
<1>3. TableInv' /\ (\A v : MappedTo(v)' = MappedTo(v)) /\ PageOf(current)' = PageOf(current)
  BY <1>1 DEF LoadInv, TableInv, MappedTo
<1>4. \A k : ImageLoaded(k)' <=> ImageLoaded(k)
  BY <1>1, <1>2 DEF ImageLoaded
<1>5. \A k : ImageUpTo(k)' <=> ImageUpTo(k)
  BY <1>1, <1>2, <1>3, <1>4 DEF ImageUpTo
<1>6. ImageUpTo(PageOf(current)) => ImageUpTo(PageOf(current))'
  BY <1>1, <1>3, <1>5
<1>7. current = At(PageOf(current)) => (current = At(PageOf(current)))'
  BY <1>1, <1>3
<1>8. loadPc \in {"transition", "started"} => Finished'
  <2> SUFFICES ASSUME loadPc \in {"transition", "started"} PROVE Finished'
    OBVIOUS
  <2>1. Finished
    BY DEF LoadInv
  <2>2. entrypoint' # -1 =>
          entrypoint' = At(PageOf(header.Entry) - FirstPage + 1) + (header.Entry % PageSize)
    BY <1>1, <2>1 DEF Finished
  <2> QED
    BY <1>1, <2>1, <2>2, FinishedKept
<1>9. loadPc = "check" => (loaded = <<>> /\ \A v \in AllPages : MappedTo(v) = 0)'
  BY <1>1, <1>3 DEF LoadInv
<1>10. /\ loadPc' = loadPc /\ header' = header /\ current' = current
       /\ loaded' = loaded /\ entrypoint' = entrypoint /\ deviceTree' = deviceTree
  BY <1>1
<1> QED
  BY <1>2, <1>3, <1>6, <1>7, <1>8, <1>9, <1>10 DEF LoadInv

LEMMA LoadInit == Init => (Loader!IsLoadable(header) => LoadInv)
<1> SUFFICES ASSUME Init, Loader!IsLoadable(header) PROVE LoadInv
  OBVIOUS
<1>1. Loader!IsHeader(header)
  BY BootAssumption DEF Init
<1>2. /\ loadPc = "check" /\ loaded = <<>> /\ tables = <<>>
      /\ rootTable = [r \in 0 .. (RootSize - 1) |-> 0]
      /\ entrypoint = -1 /\ deviceTree = -1
  BY DEF Init, Loader!Init, RootSize
<1>3. \A r \in 0 .. (RootSize - 1) : rootTable[r] = 0
  BY <1>2
<1>4. rootTable \in [0 .. (RootSize - 1) -> 0 .. Len(tables)]
  <2>1. Len(tables) = 0 /\ 0 \in 0 .. 0
    BY <1>2
  <2> QED
    BY <1>2, <2>1
<1>5. tables \in Seq([0 .. (TableSize - 1) -> Nat]) /\ loaded \in Seq([Offsets -> Bytes])
  BY <1>2
<1>6. TableInv
  BY <1>3, <1>4, <1>5 DEF TableInv
<1>7. \A v \in AllPages : MappedTo(v) = 0
  BY <1>3, PageIndices DEF MappedTo
<1> QED
  BY <1>1, <1>2, <1>5, <1>6, <1>7 DEF LoadInv, LoadPcs

\* The loader has started the kernel whenever the bootloader has.
LoaderInv ==
    /\ Loader!IsLoadable(header) => LoadInv
    /\ phase = "started" => loadPc = "started"

LEMMA LoadInvariant == Spec => []LoaderInv
<1>1. Init => LoaderInv
  BY LoadInit DEF Init, LoaderInv
<1>2. LoaderInv /\ [Next]_vars => LoaderInv'
  <2> SUFFICES ASSUME LoaderInv, [Next]_vars PROVE LoaderInv'
    OBVIOUS
  <2>1. CASE LoadStep
    <3>1. phase = "load" /\ phase' = "load" /\ Loader!Next
      BY <2>1 DEF LoadStep
    <3>2. header' = header
      BY <3>1 DEF Loader!Next, Loader!CheckHeader, Loader!HeadPage, Loader!NoHeadPage,
           Loader!FilePage, Loader!TailPage, Loader!ZeroPage, Loader!EndOfImage,
           Loader!GetEntrypoint, Loader!BuildBlob, Loader!StartKernel, Loader!OutOfMemory,
           Loader!MapImagePage, Loader!Skip, Loader!Crash
    <3>3. Loader!IsLoadable(header)' <=> Loader!IsLoadable(header)
      BY <3>2, ImageKept
    <3>4. ASSUME LoadInv PROVE LoadInv'
      BY <3>1, <3>4, CheckHeaderStep, HeadPageStep, NoHeadPageStep, FilePageStep,
         TailPageStep, ZeroPageStep, EndOfImageStep, GetEntrypointStep, BuildBlobStep,
         StartKernelStep, OutOfMemoryStep DEF Loader!Next
    <3> QED
      BY <3>1, <3>3, <3>4 DEF LoaderInv
  <2>2. ASSUME UNCHANGED loadVars, phase' = "started" => loadPc = "started"
        PROVE  LoaderInv'
    <3>1. loadPc' = loadPc /\ header' = header
      BY <2>2 DEF loadVars
    <3>2. Loader!IsLoadable(header)' <=> Loader!IsLoadable(header)
      BY <3>1, ImageKept
    <3> QED
      BY <2>2, <3>1, <3>2, LoadKept DEF LoaderInv
  <2>3. CASE MemoryStep \/ EndMemory \/ ReadMbr \/ SkipPartition \/ TryPartition
    BY <2>2, <2>3
    DEF MemoryStep, EndMemory, ReadMbr, SkipPartition, TryPartition, Crash, GoTo
  <2>4. CASE NoRootPartition \/ ConfigStep \/ EndConfig \/ ProcessStdout \/ NoInitrd
    BY <2>2, <2>4
    DEF NoRootPartition, ConfigStep, EndConfig, ProcessStdout, NoInitrd, Crash, GoTo
  <2>5. CASE LoadInitrd \/ InitrdFails \/ ProcessCommandLine \/ OpenKernel \/ EndLoad
    BY <2>2, <2>5
    DEF LoadInitrd, InitrdFails, ProcessCommandLine, OpenKernel, EndLoad, Crash, GoTo
  <2>6. CASE Left \/ UNCHANGED vars
    BY <2>2, <2>6 DEF Left, vars, LoaderInv
  <2> QED
    BY <2>1, <2>3, <2>4, <2>5, <2>6 DEF Next
<1> QED
  BY <1>1, <1>2, PTL DEF Spec

-----------------------------------------------------------------------------
(* What PROTOCOL.md promises, from the pages' numbers.                           *)

LEMMA PagesBetween ==
    ASSUME NEW x \in Nat, NEW a \in Nat, NEW b \in Nat
    PROVE  x \in At(a) .. (At(b) - 1) <=> PageOf(x) \in a .. (b - 1)
<1> DEFINE v == PageOf(x)
<1>1. /\ v \in Nat /\ At(v) <= x /\ x < At(v) + PageSize
      /\ At(v) \in Nat /\ At(a) \in Nat /\ At(b) \in Nat /\ PageSize \in Nat \ {0}
  BY PageOfFacts, AtFacts, SizesOfLoader
<1> HIDE DEF v
<1>2. At(a) <= x <=> a <= v
  <2>1. v < a => At(v) + PageSize <= At(a)
    BY <1>1, AtFacts
  <2>2. a < v => At(a) + PageSize <= At(v)
    BY <1>1, AtFacts
  <2>3. a = v => At(a) = At(v)
    OBVIOUS
  <2>4. v < a \/ a < v \/ a = v
    BY <1>1
  <2> QED
    BY <1>1, <2>1, <2>2, <2>3, <2>4
<1>3. x < At(b) <=> v < b
  <2>1. v < b => At(v) + PageSize <= At(b)
    BY <1>1, AtFacts
  <2>2. b < v => At(b) + PageSize <= At(v)
    BY <1>1, AtFacts
  <2>3. b = v => At(b) = At(v)
    OBVIOUS
  <2>4. v < b \/ b < v \/ b = v
    BY <1>1
  <2> QED
    BY <1>1, <2>1, <2>2, <2>3, <2>4
<1> QED
  BY <1>1, <1>2, <1>3 DEF v

\* The areas of PROTOCOL.md are whole pages.
LEMMA AreasArePages ==
    /\ ImageArea => Loader!ImageArea = At(FirstPage) .. (At(PagesEnd) - 1)
    /\ DtbArea /\ HeaderNumbers =>
         Loader!DtbArea = At(DtbFirst) .. (At(DtbFirst + DtbCount) - 1)
<1>1. ImageArea => Loader!ImageArea = At(FirstPage) .. (At(PagesEnd) - 1)
  BY AlignedDown DEF Loader!ImageArea, FirstPage, PagesEnd
<1>2. ASSUME DtbArea, HeaderNumbers
      PROVE  Loader!DtbArea = At(DtbFirst) .. (At(DtbFirst + DtbCount) - 1)
  <2> DEFINE n == DtbFirst + DtbCount
             last == At(DtbFirst) + header.dtbSize + PageSize - 1
  <2>1. /\ DtbFirst \in Nat /\ DtbCount \in Nat /\ At(DtbFirst) \in Nat
        /\ At(n) = At(DtbFirst) + At(DtbCount)
        /\ header.dtbSize <= At(DtbCount) /\ At(DtbCount) < header.dtbSize + PageSize
        /\ header.dtbSize \in Nat \ {0} /\ PageSize \in Nat \ {0}
    BY <1>2, SizesOfLoader DEF DtbArea, HeaderNumbers
  <2>2. n \in Nat /\ At(DtbCount) \in Nat
    BY <2>1, AtFacts
  <2>3. Loader!DtbArea = At(DtbFirst) .. (At(PageOf(last)) - 1)
    BY AlignedDown DEF Loader!DtbArea, DtbFirst
  <2> HIDE DEF n
  <2>4. last \in Nat /\ At(n) <= last /\ last < At(n) + PageSize
    BY <2>1, <2>2
  <2> HIDE DEF last
  <2>5. PageOf(last) = n
    BY <2>2, <2>4, PageOfFacts
  <2> QED
    BY <2>3, <2>5 DEF n
<1> QED
  BY <1>1, <1>2

\* The kernel's state, when it is started.
Started ==
    /\ ImageArea /\ HeaderNumbers /\ Accepted /\ Finished
    /\ Loader!IsHeader(header) /\ Loader!IsLoadable(header)
    /\ entrypoint # -1 /\ deviceTree # -1
    /\ header.mapDtb => DtbArea /\ \A v \in BlobPages : v \notin FirstPage .. (PagesEnd - 1)

LEMMA StartedIs == LoadInv /\ loadPc = "started" => Started
<1> SUFFICES ASSUME LoadInv, loadPc = "started" PROVE Started
  OBVIOUS
<1>1. /\ Accepted /\ Finished /\ Loader!IsHeader(header) /\ Loader!IsLoadable(header)
      /\ entrypoint # -1 /\ deviceTree # -1
  BY DEF LoadInv
<1>2. ImageArea /\ HeaderNumbers
  BY <1>1, AreaOfImage, NumbersOfHeader
<1>3. ASSUME header.mapDtb
      PROVE  DtbArea /\ \A v \in BlobPages : v \notin FirstPage .. (PagesEnd - 1)
  <2>1. At(DtbFirst + DtbCount) - 1 <= header.MaxDtbEnd
    BY <1>1, <1>3 DEF Finished, BlobMapped
  <2> QED
    BY <1>1, <1>3, <2>1, AreaOfDtb, BlobBesideImage
<1> QED
  BY <1>1, <1>2, <1>3 DEF Started

LEMMA ImageIsAsPromised == LoadInv => Loader!ImageAsPromised
<1> SUFFICES ASSUME LoadInv, loadPc = "started",
                    NEW virt \in Loader!ImageArea \cap 0 .. (WordSize - 1)
             PROVE  /\ Loader!PageAt(rootTable, tables, virt) # 0
                    /\ Loader!ByteAt(virt) =
                         LET i == virt - header.VirtualAddr
                         IN IF i \in 0 .. (header.fileSize - 1) THEN Loader!FileByte(i)
                            ELSE Loader!Zero
  BY DEF Loader!ImageAsPromised
<1> DEFINE v == PageOf(virt)
           o == virt % PageSize
<1>1. /\ Started /\ FirstPage \in Nat /\ PagesEnd \in Nat
      /\ virt \in 0 .. (WordSize - 1) /\ virt \in Nat
      /\ virt \in At(FirstPage) .. (At(PagesEnd) - 1)
  BY StartedIs, AreasArePages DEF Started, ImageArea
<1>2. /\ v \in FirstPage .. (PagesEnd - 1) /\ v \in AllPages
      /\ Loader!PageAt(rootTable, tables, virt) = MappedTo(v)
      /\ o = virt - At(v) /\ o \in Offsets /\ v \in Nat /\ At(v) \in Nat
  BY <1>1, PagesBetween, PagesOfAddresses, PageOfFacts, AtFacts
<1>3. Loader!ByteAt(virt) = loaded[MappedTo(v)][o]
  BY <1>2 DEF Loader!ByteAt
<1> HIDE DEF v, o
<1>4. MappedTo(v) = v - FirstPage + 1 /\ v - FirstPage + 1 # 0
  BY <1>1, <1>2 DEF Started, Finished
<1>5. loaded[v - FirstPage + 1][o] = ImageByte(v, o)
  BY <1>1, <1>2 DEF Started, Finished, ImageLoaded
<1>6. At(v) + o - header.VirtualAddr = virt - header.VirtualAddr
  BY <1>1, <1>2 DEF Started, HeaderNumbers
<1>7. ImageByte(v, o) = LET i == virt - header.VirtualAddr
                        IN IF i \in 0 .. (header.fileSize - 1) THEN Loader!FileByte(i)
                           ELSE Loader!Zero
  BY <1>6 DEF ImageByte
<1> QED
  BY <1>2, <1>3, <1>4, <1>5, <1>7

LEMMA NothingElseIsMapped == LoadInv => Loader!NothingElseMapped
<1> SUFFICES ASSUME LoadInv, loadPc = "started", NEW virt \in 0 .. (WordSize - 1),
                    Loader!PageAt(rootTable, tables, virt) # 0
             PROVE  virt \in Loader!ImageArea \/ (header.mapDtb /\ virt \in Loader!DtbArea)
  BY DEF Loader!NothingElseMapped
<1> DEFINE v == PageOf(virt)
<1>1. Started /\ FirstPage \in Nat /\ PagesEnd \in Nat /\ virt \in Nat
  BY StartedIs, SizesOfLoader DEF Started, ImageArea
<1>2. v \in AllPages /\ MappedTo(v) # 0
  BY PagesOfAddresses
<1>3. v \in FirstPage .. (PagesEnd - 1) \/ (header.mapDtb /\ v \in BlobPages)
  <2> HIDE DEF v
  <2> QED
    BY <1>1, <1>2 DEF Started, Finished, BlobMapped, BlobPages
<1>4. CASE v \in FirstPage .. (PagesEnd - 1)
  BY <1>1, <1>4, PagesBetween, AreasArePages DEF Started
<1>5. CASE header.mapDtb /\ v \in BlobPages
  <2> DEFINE n == DtbFirst + DtbCount
  <2>1. DtbArea /\ HeaderNumbers
    BY <1>1, <1>5 DEF Started
  <2>2. DtbFirst \in Nat /\ n \in Nat /\ v \in DtbFirst .. (n - 1)
    BY <1>5, <2>1 DEF DtbArea, BlobPages
  <2>3. Loader!DtbArea = At(DtbFirst) .. (At(n) - 1)
    BY <2>1, AreasArePages
  <2> HIDE DEF n
  <2> QED
    BY <1>1, <1>5, <2>2, <2>3, PagesBetween
<1> QED
  BY <1>3, <1>4, <1>5

LEMMA EntryIsAsPromised == LoadInv => Loader!EntryAsPromised
<1> SUFFICES ASSUME LoadInv, loadPc = "started"
             PROVE  /\ entrypoint \div PageSize
                         = Loader!PageAt(rootTable, tables, header.Entry)
                    /\ entrypoint % PageSize = header.Entry % PageSize
                    /\ header.Entry \in
                         header.VirtualAddr .. (header.VirtualAddr + header.MSize - 1)
  BY DEF Loader!EntryAsPromised
<1> DEFINE v == PageOf(header.Entry)
           k == v - FirstPage + 1
           o == header.Entry % PageSize
<1>1. Started /\ FirstPage \in Nat /\ PagesEnd \in Nat
  BY StartedIs DEF Started, ImageArea
<1>2. /\ v \in FirstPage .. (PagesEnd - 1) /\ v \in AllPages
      /\ header.Entry \in 0 .. (WordSize - 1) /\ header.Entry \in Nat
  BY <1>1, EntryInImage DEF Started, HeaderNumbers
<1>3. Loader!PageAt(rootTable, tables, header.Entry) = MappedTo(v) /\ o \in Offsets
  BY <1>2, PagesOfAddresses
<1>4. entrypoint = At(k) + o
  BY <1>1 DEF Started, Finished
<1> HIDE DEF v, o
<1>5. MappedTo(v) = k /\ k \in Nat
  BY <1>1, <1>2 DEF Started, Finished
<1> HIDE DEF k
<1>6. entrypoint \div PageSize = k /\ entrypoint % PageSize = o
  <2>1. /\ At(k) + o \in Nat /\ PageSize \in Nat \ {0} /\ o \in 0 .. (PageSize - 1)
        /\ At(k) + o = k * PageSize + o
    BY <1>3, <1>5, AtFacts, SizesOfLoader DEF Offsets, At
  <2> DEFINE e == At(k) + o
  <2>2. e \in Nat /\ e = k * PageSize + o
    BY <2>1
  <2> HIDE DEF e
  <2>3. e \div PageSize = k /\ e % PageSize = o
    BY <1>5, <2>1, <2>2, DivisionUnique
  <2> QED
    BY <1>4, <2>3 DEF e
<1>7. header.Entry \in header.VirtualAddr .. (header.VirtualAddr + header.MSize - 1)
  BY <1>1 DEF Started, Accepted, HeaderNumbers
<1> QED
  BY <1>3, <1>5, <1>6, <1>7 DEF o

LEMMA DeviceTreeIsAsPromised == LoadInv => Loader!DeviceTreeAsPromised
<1> SUFFICES ASSUME LoadInv, loadPc = "started" PROVE Loader!DeviceTreeAsPromised
  BY DEF Loader!DeviceTreeAsPromised
<1> DEFINE size == PagesEnd - FirstPage
<1>1. /\ Started /\ FirstPage \in Nat /\ PagesEnd \in Nat /\ size \in Nat
      /\ deviceTree = At(size + 1) /\ PageSize \in Nat \ {0}
  BY StartedIs, SizesOfLoader DEF Started, ImageArea, Finished
<1>2. /\ header.dtbSize \in Nat \ {0} /\ DtbCount \in Nat /\ header.dtbSize <= At(DtbCount)
      /\ At(DtbCount) \in Nat
  BY <1>1, CountOfDtb DEF Started, HeaderNumbers
<1>3. \A p \in 1 .. DtbCount : \A o \in Offsets :
        At(p - 1) + o < header.dtbSize =>
          loaded[size + p][o] = Loader!DtbByte(At(p - 1) + o)
  BY <1>1 DEF Started, Finished
<1> HIDE DEF size
<1>4. ASSUME NEW i \in 0 .. (header.dtbSize - 1)
      PROVE  loaded[(deviceTree + i) \div PageSize][(deviceTree + i) % PageSize]
               = Loader!DtbByte(i)
  <2> DEFINE q == PageOf(i)
             o == i % PageSize
             p == q + 1
             k == size + p
             phys == deviceTree + i
  <2>1. /\ i \in Nat /\ q \in Nat /\ At(q) <= i /\ o = i - At(q) /\ o \in Offsets
        /\ At(q) \in Nat /\ At(0) = 0
    <3>1. i \in Nat
      BY <1>2
    <3>2. q \in Nat /\ At(q) <= i /\ o = i - At(q) /\ o \in Offsets
      BY <3>1, PageOfFacts
    <3> HIDE DEF q, o
    <3> QED
      BY <3>1, <3>2, AtFacts
  <2>2. q \in 0 .. (DtbCount - 1)
    <3>1. i \in At(0) .. (At(DtbCount) - 1)
      BY <1>2, <2>1
    <3> QED
      BY <1>2, <2>1, <3>1, PagesBetween
  <2> HIDE DEF q, o
  <2>3. p \in 1 .. DtbCount /\ p - 1 = q /\ k \in Nat /\ k = (size + 1) + q
        /\ size + 1 \in Nat
    BY <1>1, <1>2, <2>1, <2>2
  <2>4. loaded[size + p][o] = Loader!DtbByte(At(p - 1) + o)
    <3>1. At(p - 1) + o < header.dtbSize
      BY <1>2, <2>1, <2>3
    <3> HIDE DEF p
    <3> QED
      BY <1>3, <2>1, <2>3, <3>1
  <2>5. At(p - 1) + o = i
    BY <2>1, <2>3
  <2>6. At(k) = At(size + 1) + At(q)
    BY <2>1, <2>3, AtFacts
  <2>7. phys = At(k) + o /\ phys \in Nat /\ At(k) \in Nat
    <3>1. At(size + 1) \in Nat /\ At(k) \in Nat
      BY <2>3, AtFacts
    <3>2. o \in Nat /\ i = At(q) + o
      BY <1>1, <2>1 DEF Offsets
    <3> HIDE DEF k
    <3> QED
      BY <1>1, <2>1, <2>6, <3>1, <3>2
  <2> HIDE DEF k, phys
  <2>8. phys = k * PageSize + o /\ o \in 0 .. (PageSize - 1)
    <3>1. At(k) = k * PageSize
      BY DEF At
    <3>2. o \in 0 .. (PageSize - 1)
      BY <2>1 DEF Offsets
    <3> QED
      BY <2>7, <3>1, <3>2
  <2>9. phys \div PageSize = k /\ phys % PageSize = o
    <3>1. PageSize \in Nat \ {0}
      BY SizesOfLoader
    <3>2. phys \in Nat /\ k \in Nat
      BY <2>3, <2>7
    <3> HIDE DEF p
    <3> QED
      BY <2>8, <3>1, <3>2, DivisionUnique
  <2> QED
    BY <2>4, <2>5, <2>9 DEF k, phys
<1>5. ASSUME header.mapDtb, NEW virt \in Loader!DtbArea \cap 0 .. (WordSize - 1)
      PROVE  Loader!PageAt(rootTable, tables, virt) =
               (deviceTree \div PageSize)
                 + (virt - Loader!AlignUp(header.DtbAddress)) \div PageSize
  <2> DEFINE v == PageOf(virt)
             o == virt % PageSize
             d == v - DtbFirst
             n == DtbFirst + DtbCount
             rest == virt - At(DtbFirst)
  <2>1. /\ DtbFirst \in Nat /\ DtbCount \in Nat /\ At(DtbFirst) \in Nat /\ n \in Nat
        /\ Loader!AlignUp(header.DtbAddress) = At(DtbFirst)
        /\ virt \in Nat /\ virt \in 0 .. (WordSize - 1)
        /\ virt \in At(DtbFirst) .. (At(n) - 1)
    <3>1. DtbArea /\ HeaderNumbers
      BY <1>1, <1>5 DEF Started
    <3>2. /\ DtbFirst \in Nat /\ DtbCount \in Nat /\ At(DtbFirst) \in Nat
          /\ Loader!AlignUp(header.DtbAddress) = At(DtbFirst)
      BY <3>1 DEF DtbArea, Loader!dtbStart
    <3>3. virt \in At(DtbFirst) .. (At(n) - 1)
      BY <1>5, <3>1, AreasArePages
    <3>4. virt \in Nat
      BY <1>5, SizesOfLoader
    <3> QED
      BY <1>5, <3>2, <3>3, <3>4
  <2>2. /\ v \in DtbFirst .. (n - 1) /\ v \in AllPages /\ v \in Nat
        /\ Loader!PageAt(rootTable, tables, virt) = MappedTo(v)
        /\ o \in 0 .. (PageSize - 1) /\ virt = At(v) + o /\ At(v) \in Nat
    <3> HIDE DEF n
    <3>1. v \in DtbFirst .. (n - 1)
      BY <2>1, PagesBetween
    <3>2. v \in Nat /\ v \in AllPages /\ Loader!PageAt(rootTable, tables, virt) = MappedTo(v)
          /\ o = virt - At(v) /\ o \in 0 .. (PageSize - 1)
      BY <2>1, PagesOfAddresses, PageOfFacts DEF Offsets
    <3>3. At(v) \in Nat
      BY <3>2, AtFacts
    <3> HIDE DEF v, o
    <3> QED
      BY <1>1, <2>1, <3>1, <3>2, <3>3
  <2> HIDE DEF v, o
  <2>3. v \in BlobPages /\ v \notin FirstPage .. (PagesEnd - 1)
    <3>1. v \in BlobPages
      BY <2>1, <2>2 DEF BlobPages, n
    <3>2. \A w \in BlobPages : w \notin FirstPage .. (PagesEnd - 1)
      BY <1>1, <1>5 DEF Started
    <3> QED
      BY <3>1, <3>2
  <2>4. MappedTo(v) = size + d + 1
    BY <1>1, <1>5, <2>2, <2>3 DEF Started, Finished, BlobMapped, BlobPages, size
  <2>5. d \in Nat /\ v = DtbFirst + d
    BY <2>1, <2>2
  <2> HIDE DEF d
  <2>6. rest = d * PageSize + o /\ rest \in Nat
    <3>1. At(v) = At(DtbFirst) + At(d) /\ At(d) \in Nat
      <4>1. At(DtbFirst + d) = At(DtbFirst) + At(d) /\ At(d) \in Nat
        BY <2>1, <2>5, AtFacts
      <4> QED
        BY <2>5, <4>1
    <3>2. rest = At(d) + o /\ rest \in Nat
      BY <1>1, <2>1, <2>2, <3>1
    <3> QED
      BY <3>2 DEF At
  <2> HIDE DEF rest
  <2>7. rest \div PageSize = d
    BY <1>1, <2>2, <2>5, <2>6, DivisionUnique
  <2>8. deviceTree \div PageSize = size + 1
    <3> DEFINE k == size + 1
    <3>1. k \in Nat
      BY <1>1
    <3>2. deviceTree = At(k)
      BY <1>1
    <3> HIDE DEF k
    <3>3. deviceTree = k * PageSize + 0 /\ deviceTree \in Nat /\ 0 \in 0 .. (PageSize - 1)
      BY <1>1, <3>1, <3>2 DEF At
    <3> QED
      BY <1>1, <3>1, <3>3, DivisionUnique DEF k
  <2>9. size + d + 1 = (size + 1) + d
    BY <1>1, <2>5
  <2>10. virt - Loader!AlignUp(header.DtbAddress) = rest
    BY <2>1 DEF rest
  <2> QED
    BY <2>2, <2>4, <2>7, <2>8, <2>9, <2>10
<1> QED
  BY <1>4, <1>5 DEF Loader!DeviceTreeAsPromised

LEMMA DtbIsInsideItsArea == LoadInv => Loader!DtbInsideItsArea
<1> SUFFICES ASSUME LoadInv, loadPc = "started", header.mapDtb, NEW virt \in Loader!DtbArea
             PROVE  virt <= header.MaxDtbEnd
  BY DEF Loader!DtbInsideItsArea
<1> DEFINE n == DtbFirst + DtbCount
<1>1. /\ Started /\ virt \in At(DtbFirst) .. (At(n) - 1) /\ At(n) - 1 <= header.MaxDtbEnd
      /\ DtbFirst \in Nat /\ n \in Nat /\ header.MaxDtbEnd \in Nat
  <2>1. Started /\ DtbArea /\ HeaderNumbers /\ Finished /\ BlobMapped
    BY StartedIs DEF Started, BlobMapped
  <2>2. DtbFirst \in Nat /\ n \in Nat /\ header.MaxDtbEnd \in Nat
    BY <2>1 DEF DtbArea, HeaderNumbers
  <2>3. virt \in At(DtbFirst) .. (At(n) - 1)
    BY <2>1, AreasArePages
  <2>4. At(n) - 1 <= header.MaxDtbEnd
    BY <2>1 DEF Finished
  <2> QED
    BY <2>1, <2>2, <2>3, <2>4
<1>2. At(DtbFirst) \in Nat /\ At(n) \in Nat
  BY <1>1, AtFacts
<1> HIDE DEF n
<1> QED
  BY <1>1, <1>2

\* A kernel whose areas end inside the address space is entered with its image
\* where the header says, zeros behind the file, nothing else mapped but the
\* device tree, and at its entry point, whatever the sizes of pages, tables and
\* addresses are.
THEOREM KernelIsEnteredAsPromised ==
    Spec => [](Loader!IsLoadable(header) => AddressSpaceAsPromised)
<1>1. LoaderInv => (Loader!IsLoadable(header) => AddressSpaceAsPromised)
  BY ImageIsAsPromised, NothingElseIsMapped, EntryIsAsPromised
  DEF LoaderInv, AddressSpaceAsPromised
<1> QED
  BY <1>1, LoadInvariant, PTL

\* The blob A1 points to is the device tree's, in one piece; if the kernel asked
\* for it, the tree's area is mapped to it and ends in the room the header left.
THEOREM DeviceTreeIsWhereItShouldBe ==
    Spec => [](Loader!IsLoadable(header) => DeviceTreeAsPromised)
<1>1. LoaderInv => (Loader!IsLoadable(header) => DeviceTreeAsPromised)
  BY DeviceTreeIsAsPromised, DtbIsInsideItsArea DEF LoaderInv, DeviceTreeAsPromised
<1> QED
  BY <1>1, LoadInvariant, PTL
=============================================================================
