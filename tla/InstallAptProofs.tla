-------------------------- MODULE InstallAptProofs --------------------------
(* Proofs about InstallApt, for every disk, partition table and size of the
   buffer, and every image whose size in sectors fits the program's variables.
   What main checks before the first write bounds every write that follows; how
   far the copy has come says what the disk holds by then. *)
EXTENDS TLAPS, InstallApt, WellFoundedInduction, SequenceTheorems,
        FiniteSetTheorems

-----------------------------------------------------------------------------
(* The end of the free area. *)

\* A set of numbers has a least one, which is what Min returns.
LEMMA LeastNumber ==
    ASSUME NEW T \in SUBSET Nat, T # {}
    PROVE  Min(T) \in T /\ \A y \in T : Min(T) <= y
<1> DEFINE R == OpToRel(<, Nat)
<1>1. IsWellFoundedOn(R, Nat)
  BY NatLessThanWellFounded, Zenon
<1> HIDE DEF R
<1>2. PICK x \in T : \A y \in T : <<y, x>> \notin R
  BY <1>1, WFMin
<1>3. ASSUME NEW y \in T PROVE x <= y
  <2>1. y < x => <<y, x>> \in R
    BY DEF R, OpToRel
  <2>2. x \in Nat /\ y \in Nat
    OBVIOUS
  <2> QED
    BY <1>2, <2>1, <2>2
<1> QED
  BY <1>3 DEF Min

LEMMA FreeArea ==
    ASSUME NEW d \in Disks, mbr = d[0]
    PROVE  /\ aptPartitionEnd \in Nat /\ aptPartitionEnd <= AvailEnd
           /\ \A p \in d[0].partitions :
                p.type # 0 /\ p.size # 0 => aptPartitionEnd <= p.start
<1> DEFINE T == {AvailEnd} \union {p.start : p \in Used}
<1>1. T \in SUBSET Nat /\ T # {}
  BY InstallAptAssumption DEF Used
<1>2. Min(T) \in T /\ \A y \in T : Min(T) <= y
  BY <1>1, LeastNumber
<1>3. aptPartitionEnd = Min(T)
  BY DEF aptPartitionEnd
<1> HIDE DEF T
<1>4. \A p \in d[0].partitions : p.type # 0 /\ p.size # 0 => p.start \in T
  BY DEF Used, T
<1>5. AvailEnd \in T
  BY DEF T
<1> QED
  BY <1>1, <1>2, <1>3, <1>4, <1>5

-----------------------------------------------------------------------------
(* The inductive invariant. *)

Places == {"start", "copy", "header", "logo", "label", "done", "failed",
           "power lost"}

Writing == {"copy", "header", "logo", "label"}

TypeInv ==
    /\ initial \in Disks /\ imageSize \in Nat /\ pc \in Places
    /\ copied \in 0 .. imageSize /\ (pc = "start" => copied = 0)
    /\ mbr = initial[0]
    /\ DOMAIN seen = DOMAIN initial /\ DOMAIN stored = DOMAIN initial

\* What was checked holds for as long as something is written.
AreaInv ==
    pc \in Writing => StartSector + BootSectors + imageSize <= aptPartitionEnd

\* What was written is there: the image as far as it was copied, header and
\* logo once they were written; and no label before the last write.
WrittenInv ==
    /\ pc \in Writing \cup {"done"} =>
         \A i \in 0 .. (copied - 1) :
           seen[StartSector + BootSectors + i] = ImageSector(i)
    /\ pc \in {"header", "logo", "label", "done"} => copied = imageSize
    /\ pc \in {"logo", "label", "done"} => seen[StartSector + 1] = OsRecord
    /\ pc \in {"label", "done"} => seen[StartSector + 2] = OsLogo
    /\ pc \notin {"done", "power lost"} => seen[0] = initial[0]
    /\ pc = "done" => seen[0].label # 0

\* A sector is as it was unless it is in the free area, but for the label.
Kept(d) ==
    /\ d[0].partitions = initial[0].partitions
    /\ d[0].valid = initial[0].valid
    /\ d[0] = initial[0] \/ aptPartitionEnd > 0
    /\ \A s \in DOMAIN d \ {0} :
         s <= StartSector \/ s >= aptPartitionEnd => d[s] = initial[s]

IInv == TypeInv /\ AreaInv /\ WrittenInv /\ Kept(seen) /\ Kept(stored)

\* Of images that fit the program's variables.
SizedInv == FitsInCount => IInv

\* No step changes what the command line and the boot sector say.
LEMMA Given ==
    ASSUME [Next]_vars
    PROVE  /\ UNCHANGED <<initial, imageSize, mbr>>
           /\ aptPartitionEnd' = aptPartitionEnd
           /\ available' = available
<1>1. UNCHANGED <<initial, imageSize, mbr>>
  BY DEF Next, vars, Check, Copy, EndOfCopy, WriteHeader, WriteLogo, WriteLabel,
         Die, WriteBack, LosePower, Goto
<1>2. aptPartitionEnd' = aptPartitionEnd
  BY <1>1 DEF aptPartitionEnd, Used
<1> QED
  BY <1>1, <1>2 DEF available

\* The sectors of a disk, and where the free area ends.
LEMMA Layout ==
    ASSUME TypeInv
    PROVE  \E n \in Nat :
             /\ DOMAIN initial = 0 .. (n - 1)
             /\ aptPartitionEnd \in 0 .. n
             /\ \A p \in initial[0].partitions :
                  p.type # 0 /\ p.size # 0 => aptPartitionEnd <= p.start
             /\ StartSector \in Nat /\ StartSector > 0
<1> DEFINE n == Cardinality(DOMAIN initial)
<1>1. n \in Nat /\ DOMAIN initial = 0 .. (n - 1) /\ AvailEnd <= n
  BY InstallAptAssumption, FS_CardinalityType DEF TypeInv
<1>2. /\ aptPartitionEnd \in Nat /\ aptPartitionEnd <= AvailEnd
      /\ \A p \in initial[0].partitions :
           p.type # 0 /\ p.size # 0 => aptPartitionEnd <= p.start
  BY FreeArea DEF TypeInv
<1> HIDE DEF n
<1>3. AvailEnd \in Nat /\ StartSector \in Nat /\ StartSector > 0
  BY InstallAptAssumption
<1> QED
  BY <1>1, <1>2, <1>3

\* One write.
LEMMA Written ==
    ASSUME NEW from \in Nat, NEW n \in Nat, NEW sectors,
           Len(sectors) = n, Write(from, sectors)
    PROVE  /\ DOMAIN seen' = DOMAIN seen
           /\ \A s \in DOMAIN seen :
                seen'[s] = IF s \in from .. (from + n - 1)
                             THEN sectors[s - from + 1] ELSE seen[s]
BY DEF Write

\* One sector.
LEMMA WrittenOne ==
    ASSUME NEW from \in Nat, NEW sector, Write(from, <<sector>>),
           DOMAIN seen \subseteq Int
    PROVE  /\ DOMAIN seen' = DOMAIN seen
           /\ \A s \in DOMAIN seen :
                seen'[s] = IF s = from THEN sector ELSE seen[s]
<1>1. Len(<<sector>>) = 1 /\ <<sector>>[1] = sector
  OBVIOUS
<1>2. /\ DOMAIN seen' = DOMAIN seen
      /\ \A s \in DOMAIN seen :
           seen'[s] = IF s \in from .. (from + 1 - 1)
                        THEN <<sector>>[s - from + 1] ELSE seen[s]
  BY <1>1, Written
<1>3. \A s \in DOMAIN seen : s \in from .. (from + 1 - 1) <=> s = from
  OBVIOUS
<1> QED
  BY <1>1, <1>2, <1>3

\* Before the first step the disk is what it is.
LEMMA InvInit == Init => IInv
<1> SUFFICES ASSUME Init PROVE IInv
  OBVIOUS
<1>1. imageSize \in Nat
  BY InstallAptAssumption DEF Init
<1> QED
  BY <1>1 DEF Init, IInv, TypeInv, AreaInv, WrittenInv, Kept, Places, Writing

\* A write of n sectors into the free area, behind its first.
LEMMA KeptByWrite ==
    ASSUME IInv, [Next]_vars, NEW from \in Nat, NEW n \in Nat,
           from > StartSector, from + n <= aptPartitionEnd,
           DOMAIN seen' = DOMAIN seen,
           \A s \in DOMAIN seen : s \notin from .. (from + n - 1) => seen'[s] = seen[s],
           stored' = stored
    PROVE  Kept(seen)' /\ Kept(stored)'
<1>1. PICK m \in Nat : /\ DOMAIN initial = 0 .. (m - 1)
                       /\ aptPartitionEnd \in 0 .. m
                       /\ StartSector \in Nat /\ StartSector > 0
  BY Layout DEF IInv
<1>2. UNCHANGED <<initial, imageSize, mbr>> /\ aptPartitionEnd' = aptPartitionEnd
  BY Given
<1>3. Kept(stored)'
  BY <1>2 DEF IInv, Kept
<1>4. DOMAIN seen = 0 .. (m - 1)
  BY <1>1 DEF IInv, TypeInv
<1>5. CASE n = 0
  BY <1>2, <1>3, <1>4, <1>5, <1>1 DEF IInv, Kept
<1>6. CASE n > 0
  <2>1. 0 \in DOMAIN seen /\ seen'[0] = seen[0]
    BY <1>1, <1>4, <1>6
  <2>2. \A s \in DOMAIN seen \ {0} :
          s <= StartSector \/ s >= aptPartitionEnd => seen'[s] = seen[s]
    BY <1>1, <1>4, <1>6
  <2> QED
    BY <1>2, <1>3, <2>1, <2>2 DEF IInv, Kept
<1> QED
  BY <1>5, <1>6

LEMMA CheckInv == ASSUME FitsInCount, IInv, Check PROVE IInv'
<1>1. UNCHANGED <<initial, imageSize, mbr, copied, seen, stored>> /\ pc = "start"
  BY DEF Check, Goto
<1>2. pc' \in {"failed", "copy"}
  BY DEF Check, Goto
<1>3. pc' = "copy" => BootSectors + imageSize <= available
  <2>1. neededSectors = BootSectors + imageSize
    <3>1. /\ CountLimit \in Nat /\ imageSize \in Nat
          /\ BootSectors + imageSize < CountLimit
      BY InstallAptAssumption DEF IInv, TypeInv, FitsInCount
    <3>2. imageSize % CountLimit = imageSize
      BY <3>1 DEF BootSectors
    <3>3. (BootSectors + imageSize) % CountLimit = BootSectors + imageSize
      BY <3>1 DEF BootSectors
    <3> QED
      BY <3>2, <3>3 DEF neededSectors, imageSectors
  <2>2. BootSectors + imageSize \in Int /\ available \in Int
    BY Layout, InstallAptAssumption DEF IInv, TypeInv, BootSectors, available
  <2> QED
    BY <2>1, <2>2 DEF Check, Goto
<1>4. aptPartitionEnd' = aptPartitionEnd
  BY Given DEF Next
<1>5. aptPartitionEnd \in Nat /\ StartSector \in Nat /\ imageSize \in Nat
  BY Layout DEF IInv, TypeInv
<1>6. AreaInv'
  BY <1>1, <1>2, <1>3, <1>4, <1>5 DEF AreaInv, available, BootSectors, Writing
<1>7. TypeInv'
  BY <1>1, <1>2 DEF IInv, TypeInv, Places
<1>8. WrittenInv'
  <2>1. copied' = 0
    BY <1>1 DEF IInv, TypeInv
  <2>2. \A i \in 0 .. (copied' - 1) : FALSE
    BY <2>1
  <2> QED
    BY <1>1, <1>2, <2>2 DEF IInv, WrittenInv, Writing
<1>9. Kept(seen)' /\ Kept(stored)'
  BY <1>1, <1>4 DEF IInv, Kept
<1> QED
  BY <1>6, <1>7, <1>8, <1>9 DEF IInv

\* One turn of the copy writes behind what was written before.
LEMMA CopyInv == ASSUME IInv, NEW count \in 1 .. BufferSize, Copy(count) PROVE IInv'
<1> DEFINE from == StartSector + BootSectors + copied
           sectors == [i \in 1 .. count |-> ImageSector(copied + i - 1)]
<1>1. PICK m \in Nat : /\ DOMAIN initial = 0 .. (m - 1)
                       /\ aptPartitionEnd \in 0 .. m
                       /\ StartSector \in Nat /\ StartSector > 0
  BY Layout DEF IInv
<1>2. UNCHANGED <<initial, imageSize, mbr>> /\ aptPartitionEnd' = aptPartitionEnd
  BY Given DEF Next
<1>3. /\ pc = "copy" /\ pc' = "copy" /\ stored' = stored
      /\ copied' = copied + count /\ Write(from, sectors)
  BY DEF Copy, Goto
<1>4. /\ imageSize \in Nat /\ copied \in 0 .. imageSize /\ count \in Nat /\ count > 0
      /\ BootSectors = 3 /\ BufferSize \in Nat
  BY InstallAptAssumption DEF IInv, TypeInv, BootSectors
<1>5. count <= imageSize - copied
  <2>1. LET T == {BufferSize, imageSize - copied}
        IN  Min(T) \in T /\ \A y \in T : Min(T) <= y
    BY <1>4, LeastNumber
  <2>2. count \in 1 .. Min({BufferSize, imageSize - copied})
    BY DEF Copy
  <2> QED
    BY <1>4, <2>1, <2>2
<1>6. Len(sectors) = count
  <2>1. sectors \in [1 .. count -> {ImageSector(i) : i \in Int}]
    BY <1>4
  <2>2. sectors \in Seq({ImageSector(i) : i \in Int})
    BY <2>1, <1>4, SeqDef
  <2> QED
    BY <1>4, <2>2, LenProperties
<1>7. from \in Nat /\ from > StartSector + 2 /\ from + count <= aptPartitionEnd
  BY <1>1, <1>3, <1>4, <1>5 DEF IInv, AreaInv, Writing
<1>8. /\ DOMAIN seen' = DOMAIN seen
      /\ \A s \in DOMAIN seen :
           seen'[s] = IF s \in from .. (from + count - 1)
                        THEN sectors[s - from + 1] ELSE seen[s]
  <2> HIDE DEF from, sectors
  <2> QED
    BY <1>3, <1>4, <1>6, <1>7, Written
<1>9. Kept(seen)' /\ Kept(stored)'
  <2> HIDE DEF from, sectors
  <2>1. [Next]_vars
    BY DEF Next
  <2> QED
    BY <2>1, <1>1, <1>3, <1>4, <1>7, <1>8, KeptByWrite
<1>10. TypeInv' /\ AreaInv'
  BY <1>1, <1>2, <1>3, <1>4, <1>5, <1>8 DEF IInv, TypeInv, AreaInv, Places, BootSectors
<1>11. DOMAIN seen = 0 .. (m - 1)
  BY <1>1 DEF IInv, TypeInv
<1>12. ASSUME NEW i \in 0 .. (copied' - 1)
       PROVE  seen'[StartSector + BootSectors + i] = ImageSector(i)
  <2> DEFINE at == StartSector + BootSectors + i
  <2>1. i \in Nat /\ i < copied + count
    BY <1>3, <1>4
  <2>2. at \in DOMAIN seen
    BY <1>1, <1>4, <1>7, <1>11, <2>1
  <2>3. CASE i < copied
    <3>1. at \notin from .. (from + count - 1)
      BY <1>1, <1>4, <2>1, <2>3
    <3>2. seen[at] = ImageSector(i)
      BY <1>3, <1>4, <2>1, <2>3 DEF IInv, WrittenInv, Writing
    <3> HIDE DEF at, from, sectors
    <3>3. seen'[at] = ImageSector(i)
      BY <1>8, <2>2, <3>1, <3>2
    <3> QED
      BY <3>3 DEF at
  <2>4. CASE i >= copied
    <3>1. /\ at \in from .. (from + count - 1)
          /\ at - from + 1 = i - copied + 1 /\ i - copied + 1 \in 1 .. count
      BY <1>1, <1>4, <2>1, <2>4
    <3>2. sectors[i - copied + 1] = ImageSector(copied + (i - copied + 1) - 1)
      BY <3>1
    <3>3. copied + (i - copied + 1) - 1 = i
      BY <1>4, <2>1
    <3> HIDE DEF at, from, sectors
    <3>4. seen'[at] = ImageSector(i)
      BY <1>8, <2>2, <3>1, <3>2, <3>3
    <3> QED
      BY <3>4 DEF at
  <2> QED
    BY <1>4, <2>1, <2>3, <2>4
<1>13. 0 \in DOMAIN seen /\ seen'[0] = seen[0]
  <2> HIDE DEF sectors
  <2> QED
    BY <1>1, <1>4, <1>7, <1>8, <1>11
<1>14. WrittenInv'
  BY <1>2, <1>3, <1>12, <1>13 DEF IInv, WrittenInv
<1> QED
  BY <1>9, <1>10, <1>14 DEF IInv

\* The label, the one write outside of the free area, keeps the table.
LEMMA WriteLabelInv == ASSUME IInv, WriteLabel PROVE IInv'
<1> DEFINE label == [mbr EXCEPT !.label = available]
<1>1. PICK m \in Nat : /\ DOMAIN initial = 0 .. (m - 1)
                       /\ aptPartitionEnd \in 0 .. m
                       /\ StartSector \in Nat /\ StartSector > 0
  BY Layout DEF IInv
<1>2. UNCHANGED <<initial, imageSize, mbr>> /\ aptPartitionEnd' = aptPartitionEnd
  BY Given DEF Next
<1>3. /\ pc = "label" /\ pc' = "done" /\ stored' = stored
      /\ copied' = copied /\ Write(0, <<label>>)
  BY DEF WriteLabel, Goto
<1>4. imageSize \in Nat /\ copied \in 0 .. imageSize /\ BootSectors = 3
  BY DEF IInv, TypeInv, BootSectors
<1>5. DOMAIN seen = 0 .. (m - 1) /\ 0 \in DOMAIN seen /\ available # 0
  BY <1>1, <1>3, <1>4 DEF IInv, TypeInv, AreaInv, Writing, available
<1>6. /\ DOMAIN seen' = DOMAIN seen
      /\ \A s \in DOMAIN seen : seen'[s] = IF s = 0 THEN label ELSE seen[s]
  <2> HIDE DEF label
  <2> QED
    BY <1>3, <1>5, WrittenOne
<1>7. /\ label.partitions = initial[0].partitions
      /\ label.valid = initial[0].valid
      /\ label.label = available
  <2>1. mbr = [valid |-> mbr.valid, partitions |-> mbr.partitions, label |-> mbr.label]
    BY InstallAptAssumption DEF IInv, TypeInv, MbrSector
  <2>2. label = [valid |-> mbr.valid, partitions |-> mbr.partitions, label |-> available]
    BY <2>1
  <2> QED
    BY <2>2 DEF IInv, TypeInv
<1> HIDE DEF label
<1>8. Kept(seen)' /\ Kept(stored)'
  <2>1. aptPartitionEnd > 0
    BY <1>1, <1>3, <1>4 DEF IInv, AreaInv, Writing
  <2> QED
    BY <2>1, <1>2, <1>3, <1>5, <1>6, <1>7 DEF IInv, Kept
<1>9. TypeInv' /\ AreaInv'
  BY <1>2, <1>3, <1>6 DEF IInv, TypeInv, AreaInv, Places, Writing
<1>10. \A s \in 1 .. (aptPartitionEnd - 1) : seen'[s] = seen[s]
  BY <1>1, <1>5, <1>6
<1>11. /\ \A i \in 0 .. (copied - 1) :
            seen'[StartSector + BootSectors + i] = seen[StartSector + BootSectors + i]
       /\ seen'[StartSector + 1] = seen[StartSector + 1]
       /\ seen'[StartSector + 2] = seen[StartSector + 2]
  BY <1>1, <1>3, <1>4, <1>10 DEF IInv, AreaInv, Writing
<1>12. WrittenInv'
  BY <1>2, <1>3, <1>5, <1>6, <1>7, <1>11 DEF IInv, WrittenInv, Writing, OsRecord, imageSectors, OsLogo
<1> QED
  BY <1>8, <1>9, <1>12 DEF IInv

\* Header and logo go in front of the image.
LEMMA WriteFrontInv ==
    ASSUME IInv, WriteHeader \/ WriteLogo PROVE IInv'
<1> DEFINE from == IF pc = "header" THEN StartSector + 1 ELSE StartSector + 2
           sector == IF pc = "header" THEN OsRecord ELSE OsLogo
<1>1. PICK m \in Nat : /\ DOMAIN initial = 0 .. (m - 1)
                       /\ aptPartitionEnd \in 0 .. m
                       /\ StartSector \in Nat /\ StartSector > 0
  BY Layout DEF IInv
<1>2. UNCHANGED <<initial, imageSize, mbr>> /\ aptPartitionEnd' = aptPartitionEnd
  BY Given DEF Next
<1>3. /\ \/ pc = "header" /\ pc' = "logo"
         \/ pc = "logo" /\ pc' = "label"
      /\ stored' = stored /\ copied' = copied /\ Write(from, <<sector>>)
  <2>1. CASE WriteHeader
    BY <2>1 DEF WriteHeader, Goto
  <2>2. CASE WriteLogo
    <3>1. from = StartSector + 2 /\ sector = OsLogo
      BY <2>2 DEF WriteLogo
    <3> QED
      BY <2>2, <3>1 DEF WriteLogo, Goto
  <2> QED
    BY <2>1, <2>2
<1>4. imageSize \in Nat /\ copied \in 0 .. imageSize /\ BootSectors = 3
  BY DEF IInv, TypeInv, BootSectors
<1>5. /\ from \in Nat /\ from > StartSector /\ from < StartSector + 3
      /\ from + 1 <= aptPartitionEnd
  BY <1>1, <1>3, <1>4 DEF IInv, AreaInv, Writing
<1>6. DOMAIN seen = 0 .. (m - 1)
  BY <1>1 DEF IInv, TypeInv
<1>7. /\ DOMAIN seen' = DOMAIN seen
      /\ \A s \in DOMAIN seen : seen'[s] = IF s = from THEN sector ELSE seen[s]
  <2> HIDE DEF from, sector
  <2> QED
    BY <1>3, <1>5, <1>6, WrittenOne
<1>8. Kept(seen)' /\ Kept(stored)'
  <2> HIDE DEF from, sector
  <2>1. [Next]_vars
    BY DEF Next
  <2>2. \A s \in DOMAIN seen : s \notin from .. (from + 1 - 1) => seen'[s] = seen[s]
    BY <1>5, <1>6, <1>7
  <2> QED
    BY <2>1, <2>2, <1>1, <1>3, <1>5, <1>7, KeptByWrite
<1>9. TypeInv' /\ AreaInv'
  BY <1>2, <1>3, <1>7 DEF IInv, TypeInv, AreaInv, Places, Writing
<1>10. /\ 0 \in DOMAIN seen /\ seen'[0] = seen[0] /\ seen'[from] = sector
       /\ \A i \in 0 .. (copied - 1) :
            seen'[StartSector + BootSectors + i] = seen[StartSector + BootSectors + i]
       /\ pc = "logo" => seen'[StartSector + 1] = seen[StartSector + 1]
  <2>1. \A s \in 0 .. (aptPartitionEnd - 1) : s # from => seen'[s] = seen[s]
    BY <1>1, <1>6, <1>7
  <2>2. from \in DOMAIN seen /\ 0 \in DOMAIN seen
    BY <1>1, <1>5, <1>6
  <2>3. \A i \in 0 .. (copied - 1) :
          StartSector + BootSectors + i \in 0 .. (aptPartitionEnd - 1) \ {from}
    BY <1>1, <1>3, <1>4, <1>5 DEF IInv, AreaInv, Writing
  <2> QED
    BY <1>1, <1>5, <1>7, <2>1, <2>2, <2>3
<1>11. WrittenInv'
  BY <1>2, <1>3, <1>10 DEF IInv, WrittenInv, Writing, OsRecord, imageSectors, OsLogo
<1> QED
  BY <1>8, <1>9, <1>11 DEF IInv

\* The steps that write nothing, and those of the machine.
LEMMA OthersInv ==
    ASSUME IInv,
           EndOfCopy \/ Die \/ (\E s \in DOMAIN seen : WriteBack(s)) \/ LosePower
    PROVE  IInv'
<1>1. UNCHANGED <<initial, imageSize, mbr, copied>> /\ aptPartitionEnd' = aptPartitionEnd
  <2>1. copied' = copied
    BY DEF EndOfCopy, Die, WriteBack, LosePower
  <2> QED
    BY <2>1, Given DEF Next
<1>2. CASE EndOfCopy
  <2>1. /\ pc = "copy" /\ pc' = "header" /\ copied = imageSize
        /\ UNCHANGED <<seen, stored>>
    BY <1>2 DEF EndOfCopy, Goto
  <2> QED
    BY <1>1, <2>1 DEF IInv, TypeInv, AreaInv, WrittenInv, Kept, Writing, Places
<1>3. CASE Die
  <2>1. pc \notin {"done", "power lost"} /\ pc' = "failed" /\ UNCHANGED <<seen, stored>>
    BY <1>3 DEF Die, Goto
  <2> QED
    BY <1>1, <2>1 DEF IInv, TypeInv, AreaInv, WrittenInv, Kept, Writing, Places
<1>4. ASSUME NEW s \in DOMAIN seen, WriteBack(s) PROVE IInv'
  <2>1. UNCHANGED <<pc, seen>> /\ stored' = [stored EXCEPT ![s] = seen[s]]
    BY <1>4 DEF WriteBack
  <2>2. TypeInv' /\ AreaInv'
    BY <1>1, <2>1 DEF IInv, TypeInv, AreaInv
  <2>7. WrittenInv'
    BY <1>1, <2>1 DEF IInv, WrittenInv, OsRecord, imageSectors, OsLogo
  <2>8. Kept(seen)'
    BY <1>1, <2>1 DEF IInv, Kept
  <2>3. DOMAIN stored' = DOMAIN stored /\ DOMAIN seen = DOMAIN stored
    BY <2>1 DEF IInv, TypeInv
  <2>4. \A t \in DOMAIN stored : stored'[t] = IF t = s THEN seen[t] ELSE stored[t]
    BY <2>1
  <2>5. 0 \in DOMAIN stored \/ stored'[0] = stored[0]
    BY <2>1
  <2>6. Kept(stored)'
    BY <1>1, <2>3, <2>4, <2>5 DEF IInv, Kept
  <2> QED
    BY <2>2, <2>6, <2>7, <2>8 DEF IInv
<1>5. CASE LosePower
  <2>1. pc' = "power lost" /\ seen' = stored /\ stored' = stored
    BY <1>5 DEF LosePower
  <2> QED
    BY <1>1, <2>1 DEF IInv, TypeInv, AreaInv, WrittenInv, Kept, Writing, Places
<1> QED
  BY <1>2, <1>3, <1>4, <1>5

-----------------------------------------------------------------------------
(* The theorems. *)

LEMMA InvNext == SizedInv /\ [Next]_vars => SizedInv'
<1> SUFFICES ASSUME SizedInv, [Next]_vars, FitsInCount' PROVE IInv'
  BY DEF SizedInv
<1>1. FitsInCount /\ IInv
  BY Given DEF SizedInv, FitsInCount
<1>2. CASE UNCHANGED vars
  <2>1. aptPartitionEnd' = aptPartitionEnd
    BY Given
  <2> QED
    BY <1>1, <1>2, <2>1
    DEF vars, IInv, TypeInv, AreaInv, WrittenInv, Kept, OsRecord, imageSectors, OsLogo
<1> QED
  BY <1>1, <1>2, CheckInv, CopyInv, WriteFrontInv, WriteLabelInv, OthersInv DEF Next

\* The inductive invariant holds in every reachable state, for every image whose
\* size in sectors fits the program's variables: every write stays in the area
\* that was checked, and what was written by then is on the disk.
THEOREM Invariance == Spec => []SizedInv
<1>1. Init => SizedInv
  BY InvInit DEF SizedInv
<1> QED
  BY <1>1, InvNext, PTL DEF Spec

\* No write of main reaches a partition, its table entry or the sectors in front
\* of the free area, whatever fails, and whatever the page cache wrote back, for
\* an image that fits the program's variables.
THEOREM PartitionsSafe == Spec => []PartitionsUntouched
<1>1. ASSUME SizedInv PROVE PartitionsUntouched
  <2> SUFFICES ASSUME FitsInCount
               PROVE  \A d \in {seen, stored} :
                        /\ d[0].partitions = initial[0].partitions
                        /\ d[0].valid = initial[0].valid
                        /\ \A p \in initial[0].partitions : p.type # 0 =>
                             \A s \in DOMAIN d \cap (p.start..(p.start + p.size - 1)) :
                               d[s] = initial[s]
                        /\ \A s \in DOMAIN d \cap (1..StartSector) : d[s] = initial[s]
    BY DEF PartitionsUntouched
  <2>0. IInv
    BY <1>1 DEF SizedInv
  <2>1. PICK m \in Nat :
          /\ DOMAIN initial = 0 .. (m - 1)
          /\ aptPartitionEnd \in 0 .. m
          /\ \A p \in initial[0].partitions :
               p.type # 0 /\ p.size # 0 => aptPartitionEnd <= p.start
          /\ StartSector \in Nat /\ StartSector > 0
    BY <2>0, Layout DEF IInv
  <2>2. \A p \in initial[0].partitions : p.start \in Nat /\ p.size \in Nat
    BY <2>0, InstallAptAssumption DEF IInv, TypeInv
  <2>3. ASSUME NEW d, d \in {seen, stored} PROVE Kept(d) /\ DOMAIN d = 0 .. (m - 1)
    BY <2>0, <2>1, <2>3 DEF IInv, TypeInv
  <2>4. ASSUME NEW d, d \in {seen, stored},
               NEW p \in initial[0].partitions, p.type # 0,
               NEW s \in DOMAIN d \cap (p.start .. (p.start + p.size - 1))
        PROVE  d[s] = initial[s]
    <3>1. p.size > 0 /\ s >= p.start /\ p.size # 0
      BY <2>2
    <3>2. aptPartitionEnd <= p.start
      BY <2>1, <2>4, <3>1
    <3>3. s >= aptPartitionEnd /\ s \in Nat
      BY <2>1, <2>2, <2>3, <2>4, <3>1, <3>2
    <3>4. CASE s = 0
      <4>1. aptPartitionEnd = 0
        BY <2>1, <3>3, <3>4
      <4>2. d[0] = initial[0]
        BY <2>3, <2>4, <4>1 DEF Kept
      <4> QED
        BY <3>4, <4>2
    <3>5. CASE s # 0
      BY <2>3, <2>4, <3>3, <3>5 DEF Kept
    <3> QED
      BY <3>4, <3>5
  <2> QED
    BY <2>1, <2>3, <2>4 DEF Kept
<1> QED
  BY <1>1, Invariance, PTL

\* While the machine keeps its power, a label means a complete image, and so does
\* success, for an image that fits the program's variables.
THEOREM LabelComplete == Spec => []LabelMeansComplete
<1>1. SizedInv => LabelMeansComplete
  <2> SUFFICES ASSUME FitsInCount, IInv PROVE LabelMeansComplete
    BY DEF SizedInv, LabelMeansComplete
  <2>1. OsRecord = [osRecord |-> imageSize]
    <3>1. /\ CountLimit \in Nat /\ imageSize \in Nat
          /\ BootSectors + imageSize < CountLimit
      BY InstallAptAssumption DEF IInv, TypeInv, FitsInCount
    <3>2. imageSize % CountLimit = imageSize
      BY <3>1 DEF BootSectors
    <3> QED
      BY <3>2 DEF OsRecord, imageSectors
  <2> QED
    BY <2>1 DEF IInv, TypeInv, WrittenInv, LabelMeansComplete, Complete
<1> QED
  BY <1>1, Invariance, PTL

=============================================================================
