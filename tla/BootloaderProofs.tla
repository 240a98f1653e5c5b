-------------------------- MODULE BootloaderProofs --------------------------
(* Proofs about BlockCache, for every disk, partition, size of blocks and number
   of slots. What the cache holds is the disk because a slot is in the list
   exactly once; what a read has copied is the disk because of where it is.
   Behind them, proofs about DeviceTree, for any names, hashes and trees: what the
   table of names holds, what the sizes come to that are counted while the tree is
   made, and what the loop of BlDtBuildBlob writes. *)
EXTENDS TLAPS, BlockCache, DeviceTree, SequenceTheorems, WellFoundedInduction

-----------------------------------------------------------------------------
(* Numbers. *)

\* Where a byte lies: its block and its place there.
LEMMA BlockAndOffset ==
    ASSUME NEW x \in Nat, NEW b \in Nat \ {0}
    PROVE  /\ x \div b \in Nat /\ x % b \in 0 .. (b - 1)
           /\ x = (x \div b) * b + (x % b)
OBVIOUS

\* Blocks are in the order of their bytes.
LEMMA BlocksInOrder ==
    ASSUME NEW x \in Nat, NEW y \in Nat, x <= y, NEW b \in Nat \ {0}
    PROVE  x \div b <= y \div b
<1> DEFINE p == x \div b
           q == y \div b
<1>1. /\ p \in Nat /\ x = p * b + (x % b) /\ x % b \in 0 .. (b - 1)
      /\ q \in Nat /\ y = q * b + (y % b) /\ y % b \in 0 .. (b - 1)
  BY BlockAndOffset
<1> HIDE DEF p, q
<1>2. ASSUME q < p PROVE FALSE
  <2>1. q + 1 <= p
    BY <1>1, <1>2
  <2>2. (q + 1) * b <= p * b
    BY <1>1, <2>1
  <2>3. (q + 1) * b = q * b + b
    BY <1>1
  <2>4. p * b \in Nat /\ q * b \in Nat /\ y < q * b + b
    BY <1>1
  <2> QED
    BY <1>1, <2>2, <2>3, <2>4
<1> QED
  BY <1>1, <1>2 DEF p, q

LEMMA LesserOfTwo ==
    ASSUME NEW a \in Int, NEW b \in Int
    PROVE  Min({a, b}) = IF a <= b THEN a ELSE b
BY DEF Min

-----------------------------------------------------------------------------
(* The list of slots. *)

\* A slot in the list is moved to the front.
LEMMA MovedToFront ==
    ASSUME NEW S, NEW list \in Seq(S), IsInjective(list), NEW k \in DOMAIN list
    PROVE  LET new == <<list[k]>> \o RemoveAt(list, k)
           IN  new \in Seq(S) /\ IsInjective(new) /\ Range(new) = Range(list)
<1> DEFINE new == <<list[k]>> \o RemoveAt(list, k)
           before == SubSeq(list, 1, k - 1)
           behind == SubSeq(list, k + 1, Len(list))
           rest == before \o behind
<1>1. Len(list) \in Nat /\ DOMAIN list = 1 .. Len(list) /\ k \in 1 .. Len(list)
  BY LenProperties
<1>2. \A i \in 1 .. Len(list) : list[i] \in S
  BY <1>1, ElementOfSeq
<1>3. /\ before \in Seq(S) /\ Len(before) = k - 1
      /\ \A i \in 1 .. (k - 1) : before[i] = list[i]
  BY <1>1, <1>2, SubSeqProperties
<1>4. /\ behind \in Seq(S) /\ Len(behind) = Len(list) - k
      /\ \A i \in 1 .. (Len(list) - k) : behind[i] = list[k + i]
  BY <1>1, <1>2, SubSeqProperties
<1> HIDE DEF before, behind
<1>5. /\ rest \in Seq(S) /\ Len(rest) = Len(before) + Len(behind)
      /\ \A i \in 1 .. Len(before) + Len(behind) :
           rest[i] = IF i <= Len(before) THEN before[i] ELSE behind[i - Len(before)]
  BY <1>3, <1>4, ConcatProperties
<1> DEFINE head == <<list[k]>>
<1>6. new = head \o rest
  BY DEF RemoveAt, before, behind
<1> HIDE DEF rest, new
<1>7. ASSUME NEW i \in 1 .. (Len(list) - 1)
      PROVE  rest[i] = IF i < k THEN list[i] ELSE list[i + 1]
  <2>1. CASE i < k
    BY <1>1, <1>3, <1>4, <1>5, <2>1
  <2>2. CASE i >= k
    <3>3. /\ i \in 1 .. Len(before) + Len(behind) /\ ~(i <= Len(before))
          /\ i - Len(before) = i - (k - 1) /\ i - (k - 1) \in 1 .. (Len(list) - k)
      BY <1>1, <1>3, <1>4, <2>2
    <3>1. rest[i] = behind[i - (k - 1)] /\ i - (k - 1) \in 1 .. (Len(list) - k)
      BY <1>5, <3>3
    <3>2. behind[i - (k - 1)] = list[k + (i - (k - 1))] /\ k + (i - (k - 1)) = i + 1
      BY <1>1, <1>4, <3>1
    <3> QED
      BY <1>1, <2>2, <3>1, <3>2
  <2> QED
    BY <1>1, <2>1, <2>2
<1>8. /\ head \in Seq(S) /\ Len(head) = 1 /\ head[1] = list[k]
  BY <1>1, <1>2
<1> HIDE DEF head
<1>9. /\ head \o rest \in Seq(S) /\ Len(head \o rest) = Len(head) + Len(rest)
      /\ \A i \in 1 .. Len(head) + Len(rest) :
           (head \o rest)[i] = IF i <= Len(head) THEN head[i] ELSE rest[i - Len(head)]
  <2>1. rest \in Seq(S) /\ head \in Seq(S)
    BY <1>5, <1>8
  <2> QED
    BY <2>1, ConcatProperties
<1>10. new \in Seq(S) /\ DOMAIN new = 1 .. Len(list) /\ Len(rest) = Len(list) - 1
  <2>1. Len(rest) = Len(list) - 1
    BY <1>1, <1>3, <1>4, <1>5
  <2>2. Len(new) = Len(list) /\ new \in Seq(S)
    BY <1>1, <1>6, <1>8, <1>9, <2>1
  <2> QED
    BY <2>1, <2>2, LenProperties
\* The list is permuted by p.
<1> DEFINE p == [i \in 1 .. Len(list) |-> IF i = 1 THEN k ELSE IF i <= k THEN i - 1 ELSE i]
<1>11. \A i \in 1 .. Len(list) : p[i] \in 1 .. Len(list)
  BY <1>1
<1>12. \A i, j \in 1 .. Len(list) : p[i] = p[j] => i = j
  BY <1>1
<1>13. \A i \in 1 .. Len(list) : \E j \in 1 .. Len(list) : p[j] = i
  <2> TAKE i \in 1 .. Len(list)
  <2>1. CASE i = k
    <3>1. p[1] = i /\ 1 \in 1 .. Len(list)
      BY <1>1, <2>1
    <3> QED
      BY <3>1
  <2>2. CASE i < k
    <3>1. p[i + 1] = i /\ i + 1 \in 1 .. Len(list)
      BY <1>1, <2>2
    <3> QED
      BY <3>1
  <2>3. CASE i > k
    <3>1. p[i] = i
      BY <1>1, <2>3
    <3> QED
      BY <3>1
  <2> QED
    BY <1>1, <2>1, <2>2, <2>3
<1>14. ASSUME NEW i \in 1 .. Len(list) PROVE new[i] = list[p[i]]
  <2>3. /\ i \in 1 .. Len(head) + Len(rest)
        /\ i <= Len(head) <=> i = 1 /\ i - Len(head) = i - 1
    BY <1>1, <1>8, <1>10
  <2>4. new[i] = IF i = 1 THEN list[k] ELSE rest[i - 1]
    BY <1>6, <1>8, <1>9, <2>3
  <2>1. CASE i = 1
    BY <1>1, <2>1, <2>4
  <2>2. CASE i > 1
    <3>1. new[i] = rest[i - 1] /\ i - 1 \in 1 .. (Len(list) - 1)
      BY <1>1, <2>2, <2>4
    <3>2. rest[i - 1] = IF i - 1 < k THEN list[i - 1] ELSE list[i]
      BY <1>7, <3>1
    <3> QED
      BY <1>1, <2>2, <3>1, <3>2
  <2> QED
    BY <1>1, <2>1, <2>2
<1> HIDE DEF p
<1>15. IsInjective(new)
  BY <1>1, <1>10, <1>11, <1>12, <1>14 DEF IsInjective
<1>16. Range(new) = Range(list)
  <2>1. Range(new) \subseteq Range(list)
    BY <1>1, <1>10, <1>11, <1>14 DEF Range
  <2>2. ASSUME NEW i \in 1 .. Len(list) PROVE list[i] \in Range(new)
    <3>1. PICK j \in 1 .. Len(list) : p[j] = i
      BY <1>13
    <3>2. new[j] = list[i]
      BY <1>14, <3>1
    <3> QED
      BY <1>10, <3>2 DEF Range
  <2>3. Range(list) \subseteq Range(new)
    BY <1>1, <2>2 DEF Range
  <2> QED
    BY <2>1, <2>3
<1> QED
  BY <1>10, <1>15, <1>16 DEF new

\* A new slot is put in front.
LEMMA PutInFront ==
    ASSUME NEW S, NEW list \in Seq(S), IsInjective(list), NEW e, e \notin Range(list),
           NEW T, S \cup {e} \subseteq T
    PROVE  LET new == <<e>> \o list
           IN  /\ new \in Seq(T) /\ IsInjective(new)
               /\ Range(new) = Range(list) \cup {e}
<1> DEFINE head == <<e>>
           new == head \o list
<1>1. Len(list) \in Nat /\ DOMAIN list = 1 .. Len(list) /\ list \in Seq(T)
  BY LenProperties, SeqMonotonic
<1>2. /\ head \in Seq(T) /\ Len(head) = 1 /\ head[1] = e
  OBVIOUS
<1> HIDE DEF head
<1>3. /\ new \in Seq(T) /\ Len(new) = Len(list) + 1
      /\ \A i \in 1 .. (Len(list) + 1) : new[i] = IF i = 1 THEN e ELSE list[i - 1]
  <2>1. list \in Seq(T) /\ head \in Seq(T)
    BY <1>1, <1>2
  <2>2. /\ head \o list \in Seq(T) /\ Len(head \o list) = Len(head) + Len(list)
        /\ \A i \in 1 .. Len(head) + Len(list) :
             (head \o list)[i] = IF i <= Len(head) THEN head[i] ELSE list[i - Len(head)]
    BY <2>1, ConcatProperties
  <2> HIDE DEF new
  <2>3. new = head \o list
    BY DEF new
  <2>4. Len(new) = Len(list) + 1
    BY <1>1, <1>2, <2>2, <2>3
  <2>5. ASSUME NEW i \in 1 .. (Len(list) + 1)
        PROVE  new[i] = IF i = 1 THEN e ELSE list[i - 1]
    <3>1. i \in 1 .. Len(head) + Len(list) /\ (i <= Len(head) <=> i = 1)
      BY <1>1, <1>2
    <3>2. i - Len(head) = i - 1
      BY <1>2
    <3> QED
      BY <1>2, <2>2, <2>3, <3>1, <3>2
  <2> QED
    BY <2>2, <2>3, <2>4, <2>5
<1> HIDE DEF new
<1>4. DOMAIN new = 1 .. (Len(list) + 1)
  BY <1>1, <1>3, LenProperties
<1>5. \A i \in 1 .. Len(list) : list[i] # e
  BY <1>1 DEF Range
<1>6. IsInjective(new)
  <2>1. \A i \in DOMAIN new : i = 1 \/ i - 1 \in 1 .. Len(list)
    BY <1>1, <1>4
  <2>2. ASSUME NEW i \in DOMAIN new, NEW j \in DOMAIN new, new[i] = new[j]
        PROVE  i = j
    <3>1. CASE i = 1 \/ j = 1
      BY <1>3, <1>4, <1>5, <2>1, <2>2, <3>1
    <3>2. CASE i # 1 /\ j # 1
      <4>1. list[i - 1] = list[j - 1] /\ i - 1 \in 1 .. Len(list) /\ j - 1 \in 1 .. Len(list)
        BY <1>3, <1>4, <2>1, <2>2, <3>2
      <4> QED
        BY <1>1, <1>4, <4>1 DEF IsInjective
    <3> QED
      BY <3>1, <3>2
  <2> QED
    BY <2>2 DEF IsInjective
<1>7. \A i \in 1 .. Len(list) : i + 1 \in DOMAIN new /\ new[i + 1] = list[i]
  BY <1>1, <1>3, <1>4
<1>8. \A j \in DOMAIN new : new[j] = e \/ \E i \in 1 .. Len(list) : new[j] = list[i]
  <2> TAKE j \in DOMAIN new
  <2>1. j = 1 \/ j - 1 \in 1 .. Len(list)
    BY <1>1, <1>4
  <2> QED
    BY <1>3, <1>4, <2>1
<1>9. 1 \in DOMAIN new /\ new[1] = e
  BY <1>1, <1>3, <1>4
<1>10. Range(new) = Range(list) \cup {e}
  <2>1. \A x \in Range(new) : x = e \/ x \in Range(list)
    BY <1>1, <1>8 DEF Range
  <2>2. e \in Range(new)
    BY <1>9 DEF Range
  <2>3. \A x \in Range(list) : x \in Range(new)
    BY <1>1, <1>7 DEF Range
  <2> QED
    BY <2>1, <2>2, <2>3
<1> QED
  BY <1>3, <1>6, <1>10 DEF new, head

-----------------------------------------------------------------------------
(* The inductive invariant. *)

\* A read that goes on lies on the disk, and what it has copied is what the disk
\* has there.
ReadInv ==
    /\ pc \in {"copy", "transfer"} =>
         request.count > 0 /\ request.start + request.count <= DiskSize
    /\ pc = "copy" =>
         /\ Len(buffer) < request.count
         /\ \A i \in 1 .. Len(buffer) : buffer[i] = request.start + i - 1

IInv == CacheIsDisk /\ ReadInv

\* The sizes are numbers.
LEMMA Sizes ==
    /\ BlockSize \in Nat \ {0} /\ NumSlots \in Nat \ {0}
    /\ DiskSize \in Nat /\ MaxCount \in Nat /\ SectorSize \in Nat \ {0}
BY BlockCacheAssumption

\* Nothing is cached, nothing is read.
LEMMA InvInit == Init => IInv
<1> SUFFICES ASSUME Init PROVE IInv
  OBVIOUS
<1>1. cached = <<>> /\ used = 0 /\ buffer = <<>> /\ pc = "idle"
  BY DEF Init
<1>2. cached \in Seq(1 .. used) /\ buffer \in Seq(Bytes) /\ Len(buffer) = 0
  BY <1>1
<1>3. DOMAIN cached = {}
  BY <1>1
<1>4. Range(cached) = 1 .. used /\ IsInjective(cached) /\ Range(cached) = {}
  BY <1>1, <1>3 DEF Range, IsInjective
<1>5. 0 \in 0 .. (DiskSize \div BlockSize)
  BY Sizes, BlockAndOffset
<1>6. /\ blockOf \in [1 .. NumSlots -> 0 .. (DiskSize \div BlockSize)]
      /\ data \in [1 .. NumSlots -> [0 .. (BlockSize - 1) -> Bytes]]
  BY <1>5 DEF Init, Bytes
<1>7. /\ used \in 0 .. NumSlots
      /\ request \in [start : Nat, count : 0 .. MaxCount, bypass : BOOLEAN]
      /\ Len(buffer) <= request.count
  BY <1>1, <1>2, Sizes DEF Init
<1>8. TypeOK
  BY <1>1, <1>2, <1>6, <1>7 DEF Init, TypeOK
<1> QED
  BY <1>1, <1>4, <1>8 DEF IInv, CacheIsDisk, ReadInv

-----------------------------------------------------------------------------
(* One turn of the loop. *)

\* Where the read is: on the disk, at a place in a block.
LEMMA PlaceInBlock ==
    ASSUME IInv, pc = "copy"
    PROVE  /\ position \in Nat /\ position < DiskSize
           /\ Len(buffer) \in Nat
           /\ block \in 0 .. (DiskSize \div BlockSize)
           /\ position % BlockSize \in 0 .. (BlockSize - 1)
           /\ block * BlockSize \in Nat
           /\ position = block * BlockSize + (position % BlockSize)
<1>1. /\ request.start \in Nat /\ request.count \in Nat
      /\ Len(buffer) \in Nat /\ Len(buffer) < request.count
      /\ request.start + request.count <= DiskSize
  BY LenProperties, Sizes DEF IInv, CacheIsDisk, TypeOK, ReadInv
<1>2. position \in Nat /\ position < DiskSize
  BY <1>1, Sizes DEF position
<1>3. /\ block \in Nat /\ position % BlockSize \in 0 .. (BlockSize - 1)
      /\ position = block * BlockSize + (position % BlockSize)
  BY <1>2, Sizes, BlockAndOffset DEF block
<1>4. block <= DiskSize \div BlockSize /\ DiskSize \div BlockSize \in Nat
  BY <1>2, Sizes, BlocksInOrder, BlockAndOffset DEF block
<1>5. block * BlockSize \in Nat
  BY <1>3, Sizes
<1> QED
  BY <1>1, <1>2, <1>3, <1>4, <1>5

\* What is copied out of a block that holds the disk's bytes are the next bytes
\* of the read, and at least one.
LEMMA CopyCorrect ==
    ASSUME IInv, pc = "copy", UNCHANGED request,
           NEW bytes \in [0 .. (BlockSize - 1) -> Bytes],
           \A i \in 0 .. (BlockSize - 1) :
             block * BlockSize + i < DiskSize => bytes[i] = block * BlockSize + i,
           Copy(bytes)
    PROVE  /\ buffer' \in Seq(Bytes) /\ Len(buffer') <= request.count
           /\ Len(buffer') > Len(buffer)
           /\ \A i \in 1 .. Len(buffer') : buffer'[i] = request.start + i - 1
           /\ pc' = IF Len(buffer') = request.count THEN "idle" ELSE "copy"
<1> DEFINE at == block * BlockSize
           within == position % BlockSize
           current == Min({BlockSize - within, request.count - Len(buffer)})
           chunk == [i \in 1 .. current |-> bytes[within + i - 1]]
<1>1. /\ request.start \in Nat /\ request.count \in Nat /\ Len(buffer) \in Nat
      /\ Len(buffer) < request.count
      /\ request.start + request.count <= DiskSize
      /\ buffer \in Seq(Bytes)
      /\ \A i \in 1 .. Len(buffer) : buffer[i] = request.start + i - 1
  BY LenProperties, Sizes DEF IInv, CacheIsDisk, TypeOK, ReadInv
<1>2. /\ at \in Nat /\ within \in 0 .. (BlockSize - 1)
      /\ request.start + Len(buffer) = at + within
  BY PlaceInBlock DEF position
<1>3. buffer' = buffer \o chunk /\ pc' = IF Len(buffer') = request.count THEN "idle" ELSE "copy"
  BY DEF Copy
<1> HIDE DEF at, within
<1>4. /\ current \in Nat \ {0} /\ current <= request.count - Len(buffer)
      /\ within + current <= BlockSize
  <2>1. current = IF BlockSize - within <= request.count - Len(buffer)
                    THEN BlockSize - within ELSE request.count - Len(buffer)
    <3>1. BlockSize - within \in Int /\ request.count - Len(buffer) \in Int
      BY <1>1, <1>2, Sizes
    <3> QED
      BY <3>1, LesserOfTwo
  <2> HIDE DEF current
  <2> QED
    BY <1>1, <1>2, <2>1, Sizes
<1> HIDE DEF current
<1>5. ASSUME NEW i \in 1 .. current
      PROVE  /\ bytes[within + i - 1] = request.start + Len(buffer) + i - 1
             /\ bytes[within + i - 1] \in Bytes
  <2>1. within + i - 1 \in 0 .. (BlockSize - 1)
    BY <1>2, <1>4, Sizes
  <2>2. at + (within + i - 1) < DiskSize
    BY <1>1, <1>2, <1>4, Sizes
  <2>3. bytes[within + i - 1] = at + (within + i - 1)
    BY <2>1, <2>2 DEF at
  <2>4. bytes[within + i - 1] \in Bytes
    BY <2>1
  <2> QED
    BY <1>1, <1>2, <1>4, <2>3, <2>4
<1>6. /\ chunk \in Seq(Bytes) /\ Len(chunk) = current
      /\ \A i \in 1 .. current : chunk[i] = request.start + Len(buffer) + i - 1
  <2>1. chunk \in [1 .. current -> Bytes]
    BY <1>5
  <2>2. chunk \in Seq(Bytes)
    BY <2>1, <1>4, SeqDef
  <2>3. DOMAIN chunk = 1 .. Len(chunk) /\ Len(chunk) \in Nat
    BY <2>2, LenProperties
  <2>4. Len(chunk) = current
    BY <1>4, <2>1, <2>3
  <2> QED
    BY <1>5, <2>2, <2>4
<1> HIDE DEF chunk
<1>7. /\ buffer \o chunk \in Seq(Bytes)
      /\ Len(buffer \o chunk) = Len(buffer) + Len(chunk)
      /\ \A i \in 1 .. Len(buffer) + Len(chunk) :
           (buffer \o chunk)[i] = IF i <= Len(buffer) THEN buffer[i]
                                  ELSE chunk[i - Len(buffer)]
  BY <1>1, <1>6, ConcatProperties
<1>8. Len(buffer') = Len(buffer) + current
  BY <1>3, <1>6, <1>7
<1>9. ASSUME NEW i \in 1 .. Len(buffer') PROVE buffer'[i] = request.start + i - 1
  <2>1. i \in 1 .. Len(buffer) + Len(chunk) /\ i \in Int
    BY <1>1, <1>4, <1>6, <1>8
  <2>2. CASE i <= Len(buffer)
    <3>1. i \in 1 .. Len(buffer)
      BY <1>1, <2>1, <2>2
    <3> QED
      BY <1>1, <1>3, <1>7, <2>1, <2>2, <3>1
  <2>3. CASE ~(i <= Len(buffer))
    <3>1. i - Len(buffer) \in 1 .. current
      BY <1>1, <1>4, <1>8, <2>1, <2>3
    <3>2. buffer'[i] = chunk[i - Len(buffer)]
      BY <1>3, <1>7, <2>1, <2>3
    <3>3. buffer'[i] = request.start + Len(buffer) + (i - Len(buffer)) - 1
      BY <1>6, <3>1, <3>2
    <3> QED
      BY <1>1, <2>1, <3>3
  <2> QED
    BY <2>2, <2>3
<1> QED
  BY <1>1, <1>3, <1>4, <1>7, <1>8, <1>9

\* A turn that copies leaves the read as ReadInv says.
LEMMA ReadGoesOn ==
    ASSUME IInv, pc = "copy", UNCHANGED request,
           buffer' \in Seq(Bytes), Len(buffer') <= request.count,
           \A i \in 1 .. Len(buffer') : buffer'[i] = request.start + i - 1,
           pc' = IF Len(buffer') = request.count THEN "idle" ELSE "copy"
    PROVE  /\ ReadInv'
           /\ pc' \in {"idle", "copy"}
           /\ request' \in [start : Nat, count : 0 .. MaxCount, bypass : BOOLEAN]
           /\ Len(buffer') <= request'.count
<1>1. Len(buffer') \in Nat /\ request.count \in Nat
  BY LenProperties, Sizes DEF IInv, CacheIsDisk, TypeOK
<1> QED
  BY <1>1 DEF IInv, CacheIsDisk, TypeOK, ReadInv

\* A slot that was found holds the block, and goes to the front.
LEMMA HitInv == ASSUME IInv, Hit PROVE IInv'
<1>1. PICK k \in HitAt : /\ cached' = <<cached[k]>> \o RemoveAt(cached, k)
                         /\ Copy(data[cached[k]])
  BY DEF Hit
<1>2. pc = "copy" /\ UNCHANGED <<partition, blockOf, data, used, request>>
  BY DEF Hit
<1>3. /\ cached \in Seq(1 .. used) /\ IsInjective(cached) /\ Range(cached) = 1 .. used
      /\ used \in 0 .. NumSlots
  BY DEF IInv, CacheIsDisk, TypeOK
<1>4. k \in DOMAIN cached /\ blockOf[cached[k]] = block
  BY DEF HitAt
<1>5. /\ cached' \in Seq(1 .. used) /\ IsInjective(cached')
      /\ Range(cached') = Range(cached)
  BY <1>1, <1>3, <1>4, MovedToFront
<1>6. cached[k] \in Range(cached) /\ cached[k] \in 1 .. NumSlots
  <2>1. cached[k] \in Range(cached)
    BY <1>4 DEF Range
  <2> QED
    BY <2>1, <1>3, Sizes
<1>7. /\ data[cached[k]] \in [0 .. (BlockSize - 1) -> Bytes]
      /\ \A i \in 0 .. (BlockSize - 1) :
           block * BlockSize + i < DiskSize =>
             data[cached[k]][i] = block * BlockSize + i
  BY <1>4, <1>6 DEF IInv, CacheIsDisk, TypeOK
<1>8. /\ buffer' \in Seq(Bytes) /\ Len(buffer') <= request.count
      /\ \A i \in 1 .. Len(buffer') : buffer'[i] = request.start + i - 1
      /\ pc' = IF Len(buffer') = request.count THEN "idle" ELSE "copy"
  BY <1>1, <1>2, <1>7, CopyCorrect
<1>9. /\ ReadInv' /\ pc' \in {"idle", "copy"}
      /\ request' \in [start : Nat, count : 0 .. MaxCount, bypass : BOOLEAN]
      /\ Len(buffer') <= request'.count
  BY <1>2, <1>8, ReadGoesOn
<1>10. TypeOK'
  BY <1>2, <1>5, <1>8, <1>9 DEF IInv, CacheIsDisk, TypeOK, Bytes
<1> QED
  BY <1>2, <1>3, <1>5, <1>9, <1>10 DEF IInv, CacheIsDisk

\* A buffer the firmware has read the block into holds what the disk has of it.
LEMMA BlockRead ==
    ASSUME IInv, pc = "copy", NEW slot \in 1 .. NumSlots
    PROVE  LET bytes == FromDisk(block * BlockSize, data[slot])
           IN  /\ bytes \in [0 .. (BlockSize - 1) -> Bytes]
               /\ \A i \in 0 .. (BlockSize - 1) :
                    block * BlockSize + i < DiskSize => bytes[i] = block * BlockSize + i
<1> DEFINE at == block * BlockSize
           bytes == FromDisk(at, data[slot])
<1>1. data \in [1 .. NumSlots -> [0 .. (BlockSize - 1) -> Bytes]]
  BY DEF IInv, CacheIsDisk, TypeOK
<1>2. at \in Nat
  BY PlaceInBlock
<1> HIDE DEF at
<1>3. DOMAIN data[slot] = 0 .. (BlockSize - 1)
  BY <1>1
<1>4. bytes = [i \in 0 .. (BlockSize - 1) |->
                 IF at + i < DiskSize THEN at + i ELSE data[slot][i]]
  BY <1>3 DEF FromDisk
<1> HIDE DEF bytes
<1>5. ASSUME NEW i \in 0 .. (BlockSize - 1) PROVE bytes[i] \in Bytes
  <2>1. CASE at + i < DiskSize
    <3>1. at + i \in 0 .. (DiskSize - 1)
      BY <1>2, <2>1, Sizes
    <3> QED
      BY <1>4, <2>1, <3>1 DEF Bytes
  <2>2. CASE ~(at + i < DiskSize)
    BY <1>1, <1>4, <2>2
  <2> QED
    BY <2>1, <2>2
<1>6. /\ bytes \in [0 .. (BlockSize - 1) -> Bytes]
      /\ \A i \in 0 .. (BlockSize - 1) : at + i < DiskSize => bytes[i] = at + i
  BY <1>4, <1>5
<1> QED
  BY <1>6 DEF at, bytes

\* A slot that was filled holds the block, and no other slot does.
LEMMA LoadInv ==
    ASSUME IInv, pc = "copy", HitAt = {}, UNCHANGED <<partition, request>>,
           NEW slot \in 1 .. NumSlots, NEW others, Load(slot, others),
           used' \in 0 .. NumSlots,
           cached' \in Seq(1 .. used'), IsInjective(cached'), Range(cached') = 1 .. used',
           1 .. used' = Range(cached) \cup {slot}
    PROVE  IInv'
<1> DEFINE bytes == FromDisk(block * BlockSize, data[slot])
           at == block * BlockSize
<1>1. /\ data' = [data EXCEPT ![slot] = bytes]
      /\ blockOf' = [blockOf EXCEPT ![slot] = block]
      /\ Copy(bytes)
  BY DEF Load
<1>2. /\ data \in [1 .. NumSlots -> [0 .. (BlockSize - 1) -> Bytes]]
      /\ blockOf \in [1 .. NumSlots -> 0 .. (DiskSize \div BlockSize)]
  BY DEF IInv, CacheIsDisk, TypeOK
<1>3. at \in Nat /\ block \in 0 .. (DiskSize \div BlockSize)
  BY PlaceInBlock
<1>4. /\ bytes \in [0 .. (BlockSize - 1) -> Bytes]
      /\ \A i \in 0 .. (BlockSize - 1) : at + i < DiskSize => bytes[i] = at + i
  BY BlockRead
<1> HIDE DEF bytes
<1>5. /\ buffer' \in Seq(Bytes) /\ Len(buffer') <= request.count
      /\ \A i \in 1 .. Len(buffer') : buffer'[i] = request.start + i - 1
      /\ pc' = IF Len(buffer') = request.count THEN "idle" ELSE "copy"
  BY <1>1, <1>4, CopyCorrect
<1>6. /\ ReadInv' /\ pc' \in {"idle", "copy"}
      /\ request' \in [start : Nat, count : 0 .. MaxCount, bypass : BOOLEAN]
      /\ Len(buffer') <= request'.count
  BY <1>5, ReadGoesOn
<1>7. /\ data' \in [1 .. NumSlots -> [0 .. (BlockSize - 1) -> Bytes]]
      /\ blockOf' \in [1 .. NumSlots -> 0 .. (DiskSize \div BlockSize)]
  BY <1>1, <1>2, <1>3, <1>4
<1>8. TypeOK'
  BY <1>5, <1>6, <1>7 DEF IInv, CacheIsDisk, TypeOK, Bytes
<1>9. \A s \in Range(cached) : blockOf[s] # block
  <2>1. \A k \in DOMAIN cached : blockOf[cached[k]] # block
    BY DEF HitAt
  <2> QED
    BY <2>1 DEF Range
<1>10. \A s \in 1 .. used' :
         \/ s = slot /\ blockOf'[s] = block /\ data'[s] = bytes
         \/ /\ s # slot /\ s \in Range(cached)
            /\ blockOf'[s] = blockOf[s] /\ data'[s] = data[s]
  <2>1. 1 .. used' \subseteq 1 .. NumSlots
    BY Sizes
  <2> QED
    BY <1>1, <1>2, <2>1
<1>11. \A s, t \in Range(cached)' : blockOf'[s] = blockOf'[t] => s = t
  BY <1>9, <1>10 DEF IInv, CacheIsDisk
<1>12. ASSUME NEW s \in Range(cached)', NEW i \in 0 .. (BlockSize - 1),
              blockOf'[s] * BlockSize + i < DiskSize
       PROVE  data'[s][i] = blockOf'[s] * BlockSize + i
  <2>1. s \in 1 .. used'
    OBVIOUS
  <2>2. CASE s = slot /\ blockOf'[s] = block /\ data'[s] = bytes
    <3>1. at + i < DiskSize
      BY <1>12, <2>2
    <3> HIDE DEF at
    <3>2. bytes[i] = at + i
      BY <1>4, <3>1
    <3> QED
      BY <2>2, <3>2 DEF at
  <2>3. CASE s \in Range(cached) /\ blockOf'[s] = blockOf[s] /\ data'[s] = data[s]
    <3>1. \A r \in Range(cached), j \in 0 .. (BlockSize - 1) :
            blockOf[r] * BlockSize + j < DiskSize =>
              data[r][j] = blockOf[r] * BlockSize + j
      BY DEF IInv, CacheIsDisk
    <3>2. blockOf[s] * BlockSize + i < DiskSize
      BY <1>12, <2>3
    <3>3. data[s][i] = blockOf[s] * BlockSize + i
      BY <2>3, <3>1, <3>2
    <3> QED
      BY <2>3, <3>3
  <2> QED
    BY <1>10, <2>1, <2>2, <2>3
<1> QED
  BY <1>6, <1>8, <1>11, <1>12 DEF IInv, CacheIsDisk

\* A slot that was never used is put in front.
LEMMA FillInv == ASSUME IInv, Fill PROVE IInv'
<1>1. /\ pc = "copy" /\ HitAt = {} /\ used < NumSlots /\ used' = used + 1
      /\ Load(used + 1, cached) /\ UNCHANGED <<partition, request>>
  BY DEF Fill
<1>2. /\ cached \in Seq(1 .. used) /\ IsInjective(cached) /\ Range(cached) = 1 .. used
      /\ used \in 0 .. NumSlots
  BY DEF IInv, CacheIsDisk, TypeOK
<1>3. /\ used' \in 0 .. NumSlots /\ used + 1 \in 1 .. NumSlots
      /\ used + 1 \notin 1 .. used /\ 1 .. used' = (1 .. used) \cup {used + 1}
  BY <1>1, <1>2, Sizes
<1>4. cached' = <<used + 1>> \o cached
  BY <1>1 DEF Load
<1> DEFINE new == <<used + 1>> \o cached
<1>5. new \in Seq(1 .. used') /\ IsInjective(new) /\ Range(new) = (1 .. used) \cup {used + 1}
  BY <1>2, <1>3, PutInFront
<1>6. /\ cached' \in Seq(1 .. used') /\ IsInjective(cached')
      /\ Range(cached') = 1 .. used' /\ 1 .. used' = Range(cached) \cup {used + 1}
  <2> HIDE DEF new
  <2>1. cached' = new
    BY <1>4 DEF new
  <2> QED
    BY <1>2, <1>3, <1>5, <2>1
<1> QED
  BY <1>1, <1>3, <1>6, LoadInv

\* When all slots are in use, the last one of the list is one of them.
LEMMA LastInUse ==
    ASSUME IInv, used = NumSlots
    PROVE  /\ Len(cached) \in DOMAIN cached
           /\ Last(cached) \in Range(cached) /\ Last(cached) \in 1 .. NumSlots
<1>1. cached \in Seq(1 .. used) /\ Range(cached) = 1 .. used
  BY DEF IInv, CacheIsDisk, TypeOK
<1>2. Len(cached) \in Nat /\ DOMAIN cached = 1 .. Len(cached)
  BY <1>1, LenProperties
<1>3. DOMAIN cached # {}
  <2>1. 1 \in Range(cached)
    BY <1>1, Sizes
  <2> QED
    BY <2>1 DEF Range
<1>4. Len(cached) \in DOMAIN cached
  BY <1>2, <1>3
<1>5. Last(cached) \in Range(cached)
  BY <1>4 DEF Last, Range
<1> QED
  BY <1>1, <1>4, <1>5

\* The slot that was used longest ago is moved to the front.
LEMMA EvictInv == ASSUME IInv, Evict PROVE IInv'
<1>1. /\ pc = "copy" /\ HitAt = {} /\ used = NumSlots
      /\ Load(Last(cached), Front(cached)) /\ UNCHANGED <<partition, used, request>>
  BY DEF Evict
<1>2. /\ cached \in Seq(1 .. used) /\ IsInjective(cached) /\ Range(cached) = 1 .. used
      /\ used \in 0 .. NumSlots
  BY DEF IInv, CacheIsDisk, TypeOK
<1> DEFINE k == Len(cached)
<1>3. k \in Nat /\ DOMAIN cached = 1 .. k
  BY <1>2, LenProperties
<1> HIDE DEF k
<1>4. k \in DOMAIN cached
  BY <1>1, LastInUse DEF k
<1> DEFINE front == SubSeq(cached, 1, k - 1)
           new == <<cached[k]>> \o RemoveAt(cached, k)
<1>6. Last(cached) = cached[k] /\ Front(cached) = front
  BY DEF Last, Front, k
<1>7. RemoveAt(cached, k) = front
  <2>1. SubSeq(cached, k + 1, k) = << >>
    BY <1>2, <1>3, SubSeqEmpty
  <2>2. front \in Seq(1 .. used)
    <3>1. \A i \in 1 .. (k - 1) : cached[i] \in 1 .. used
      BY <1>2, <1>3, ElementOfSeq
    <3> QED
      BY <1>2, <1>3, <1>4, <3>1, SubSeqProperties
  <2> HIDE DEF front
  <2>3. front \o << >> = front
    BY <2>2, ConcatEmptySeq
  <2>4. RemoveAt(cached, k) = front \o SubSeq(cached, k + 1, k)
    BY DEF RemoveAt, front, k
  <2> QED
    BY <2>1, <2>3, <2>4
<1>8. new \in Seq(1 .. used) /\ IsInjective(new) /\ Range(new) = Range(cached)
  BY <1>2, <1>4, MovedToFront
<1>9. cached' = <<Last(cached)>> \o Front(cached)
  BY <1>1 DEF Load
<1>10. cached' = new
  <2> HIDE DEF front
  <2> QED
    BY <1>6, <1>7, <1>9
<1> HIDE DEF new, front
<1>11. /\ cached' \in Seq(1 .. used') /\ IsInjective(cached')
       /\ Range(cached') = 1 .. used' /\ used' \in 0 .. NumSlots
       /\ 1 .. used' = Range(cached) \cup {Last(cached)}
  BY <1>1, <1>2, <1>8, <1>10, LastInUse
<1>12. Last(cached) \in 1 .. NumSlots
  BY <1>1, LastInUse
<1> QED
  BY <1>1, <1>11, <1>12, LoadInv

-----------------------------------------------------------------------------
(* The other steps. *)

\* The cache stays as it is.
LEMMA CacheKept ==
    ASSUME IInv, UNCHANGED <<partition, cache>>,
           pc' \in {"idle", "copy", "transfer", "crashed"},
           request' \in [start : Nat, count : 0 .. MaxCount, bypass : BOOLEAN],
           buffer' \in Seq(Bytes), Len(buffer') <= request'.count, ReadInv'
    PROVE  IInv'
<1>1. UNCHANGED <<partition, cached, blockOf, data, used>>
  BY DEF cache
<1>2. TypeOK'
  BY <1>1 DEF IInv, CacheIsDisk, TypeOK, Bytes
<1> QED
  BY <1>1, <1>2 DEF IInv, CacheIsDisk

\* A read that is begun lies inside the partition, and so on the disk.
LEMMA CallInv ==
    ASSUME IInv, NEW from \in 0 .. DiskSize, NEW count \in 1 .. MaxCount,
           NEW bypass \in BOOLEAN, Call(from, count, bypass)
    PROVE  IInv'
<1> DEFINE start == partition.start + from
<1>1. /\ partition.start \in Nat /\ partition.size \in Nat
      /\ partition.start + partition.size <= DiskSize
  BY BlockCacheAssumption DEF IInv, CacheIsDisk, TypeOK
<1>2. /\ request' = [start |-> start, count |-> count, bypass |-> bypass]
      /\ buffer' = << >> /\ UNCHANGED <<partition, cache>>
      /\ pc' \in {"crashed", "transfer", "copy"}
      /\ pc' \in {"copy", "transfer"} => ~(from + count > partition.size)
  BY DEF Call
<1>3. start \in Nat /\ count \in Nat /\ count > 0
      /\ (~(from + count > partition.size) => start + count <= DiskSize)
  BY <1>1, Sizes
<1> HIDE DEF start
<1>4. request' \in [start : Nat, count : 0 .. MaxCount, bypass : BOOLEAN]
      /\ request'.start = start /\ request'.count = count
  BY <1>2, <1>3, Sizes
<1>5. buffer' \in Seq(Bytes) /\ Len(buffer') = 0
  BY <1>2
<1>6. ReadInv'
  BY <1>2, <1>3, <1>4, <1>5 DEF ReadInv
<1> QED
  BY <1>2, <1>3, <1>4, <1>5, <1>6, CacheKept

\* What is read past the cache is what was asked for.
LEMMA TransferInv == ASSUME IInv, Transfer PROVE IInv'
<1> DEFINE new == [i \in 1 .. request.count |-> request.start + i - 1]
<1>1. /\ pc = "transfer" /\ buffer' = new /\ pc' = "idle"
      /\ UNCHANGED <<partition, cache, request>>
  BY DEF Transfer
<1>2. /\ request.start \in Nat /\ request.count \in Nat
      /\ request.start + request.count <= DiskSize
      /\ request \in [start : Nat, count : 0 .. MaxCount, bypass : BOOLEAN]
  BY <1>1, Sizes DEF IInv, CacheIsDisk, TypeOK, ReadInv
<1>3. new \in [1 .. request.count -> Bytes]
  <2>1. \A i \in 1 .. request.count : request.start + i - 1 \in 0 .. (DiskSize - 1)
    BY <1>2, Sizes
  <2> QED
    BY <2>1 DEF Bytes
<1>4. new \in Seq(Bytes) /\ Len(new) = request.count
  <2> HIDE DEF new
  <2>1. new \in Seq(Bytes)
    BY <1>2, <1>3, SeqDef
  <2>2. Len(new) \in Nat /\ DOMAIN new = 1 .. Len(new) /\ DOMAIN new = 1 .. request.count
    BY <1>3, <2>1, LenProperties
  <2> QED
    BY <1>2, <2>1, <2>2
<1> HIDE DEF new
<1>5. ReadInv'
  BY <1>1 DEF ReadInv
<1>6. Len(buffer') <= request'.count
  BY <1>1, <1>2, <1>4
<1> QED
  BY <1>1, <1>2, <1>4, <1>5, <1>6, CacheKept

\* A read that fails leaves no trace.
LEMMA ReadFailsInv == ASSUME IInv, ReadFails PROVE IInv'
<1>1. /\ pc' = "crashed" /\ buffer' = << >> /\ UNCHANGED <<partition, cache, request>>
  BY DEF ReadFails
<1>2. /\ request.count \in Nat
      /\ request \in [start : Nat, count : 0 .. MaxCount, bypass : BOOLEAN]
  BY Sizes DEF IInv, CacheIsDisk, TypeOK
<1>3. buffer' \in Seq(Bytes) /\ Len(buffer') = 0
  BY <1>1
<1>4. ReadInv'
  BY <1>1 DEF ReadInv
<1> QED
  BY <1>1, <1>2, <1>3, <1>4, CacheKept

LEMMA Stutter == ASSUME IInv, UNCHANGED vars PROVE IInv'
BY DEF vars, IInv, CacheIsDisk, TypeOK, ReadInv, Bytes

\* Every step of the bootloader keeps the invariant.
LEMMA InvNext == IInv /\ [Next]_vars => IInv'
<1> SUFFICES ASSUME IInv, [Next]_vars PROVE IInv'
  OBVIOUS
<1>1. CASE \E from \in 0 .. DiskSize, count \in 1 .. MaxCount, bypass \in BOOLEAN :
             Call(from, count, bypass)
  BY <1>1, CallInv
<1>2. CASE Hit
  BY <1>2, HitInv
<1>3. CASE Fill
  BY <1>3, FillInv
<1>4. CASE Evict
  BY <1>4, EvictInv
<1>5. CASE Transfer
  BY <1>5, TransferInv
<1>6. CASE ReadFails
  BY <1>6, ReadFailsInv
<1>7. CASE Crashed
  <2>1. UNCHANGED vars
    BY <1>7 DEF Crashed
  <2> QED
    BY <2>1, Stutter
<1>8. CASE UNCHANGED vars
  BY <1>8, Stutter
<1> QED
  BY <1>1, <1>2, <1>3, <1>4, <1>5, <1>6, <1>7, <1>8 DEF Next, Read

\* The invariant holds of BiReadFromDisk and BiGetBCacheEntry, whatever is read.
THEOREM Invariance == Spec => []IInv
<1> QED
  BY InvInit, InvNext, PTL DEF Spec

\* BiBCache has every slot once and under one block, and what a slot holds is that
\* block of the disk, whatever it held before.
THEOREM CacheCorrect == Spec => []CacheIsDisk
<1>1. IInv => CacheIsDisk
  BY DEF IInv
<1> QED
  BY Invariance, <1>1, PTL

-----------------------------------------------------------------------------
(* A read through the cache is a read of the disk. *)

\* How BlockCache stands for DiskReader's variables.
readerState == IF pc \in {"idle", "crashed"} THEN pc ELSE "busy"

answered == IF pc = "idle" THEN buffer ELSE <<>>

\* Nothing has been asked.
LEMMA RefineInit == Init => Reader!Init
BY DEF Init, Reader!Init

\* A turn of the loop answers the read if it is the last, and nothing otherwise.
LEMMA RefineTurn ==
    ASSUME IInv, pc = "copy", UNCHANGED request,
           buffer' \in Seq(Bytes),
           \A i \in 1 .. Len(buffer') : buffer'[i] = request.start + i - 1,
           pc' = IF Len(buffer') = request.count THEN "idle" ELSE "copy"
    PROVE  [Reader!Next]_<<request, readerState, answered>>
<1>1. CASE Len(buffer') = request.count
  <2>1. buffer' \in [1 .. Len(buffer') -> Bytes]
    BY LenProperties
  <2>2. buffer' = [i \in 1 .. request.count |-> request.start + i - 1]
    BY <1>1, <2>1
  <2> QED
    BY <1>1, <2>2 DEF Reader!Next, Reader!Return, readerState, answered
<1>2. CASE Len(buffer') # request.count
  BY <1>2 DEF readerState, answered
<1> QED
  BY <1>1, <1>2

\* So is a turn that copies out of a block that holds the disk's bytes.
LEMMA Turn ==
    ASSUME IInv, pc = "copy", UNCHANGED request,
           NEW bytes \in [0 .. (BlockSize - 1) -> Bytes],
           \A i \in 0 .. (BlockSize - 1) :
             block * BlockSize + i < DiskSize => bytes[i] = block * BlockSize + i,
           Copy(bytes)
    PROVE  [Reader!Next]_<<request, readerState, answered>>
BY CopyCorrect, RefineTurn

\* The block a slot was loaded with is the disk's.
LEMMA LoadTurn ==
    ASSUME IInv, pc = "copy", UNCHANGED request,
           NEW slot \in 1 .. NumSlots, NEW others, Load(slot, others)
    PROVE  [Reader!Next]_<<request, readerState, answered>>
<1> DEFINE bytes == FromDisk(block * BlockSize, data[slot])
<1>1. Copy(bytes)
  BY DEF Load
<1>2. /\ bytes \in [0 .. (BlockSize - 1) -> Bytes]
      /\ \A i \in 0 .. (BlockSize - 1) :
           block * BlockSize + i < DiskSize => bytes[i] = block * BlockSize + i
  BY BlockRead
<1> HIDE DEF bytes
<1> QED
  BY <1>1, <1>2, Turn

\* Every step of the bootloader is a step of a reader of the disk, or none.
LEMMA RefineNext ==
    IInv /\ [Next]_vars => [Reader!Next]_<<request, readerState, answered>>
<1> SUFFICES ASSUME IInv, [Next]_vars
             PROVE  [Reader!Next]_<<request, readerState, answered>>
  OBVIOUS
<1>1. CASE \E from \in 0 .. DiskSize, count \in 1 .. MaxCount, bypass \in BOOLEAN :
             Call(from, count, bypass)
  <2>1. PICK from \in 0 .. DiskSize, count \in 1 .. MaxCount, bypass \in BOOLEAN :
          Call(from, count, bypass)
    BY <1>1
  <2>2. pc = "idle" /\ pc' \in {"crashed", "transfer", "copy"}
    BY <2>1 DEF Call
  <2>3. CASE pc' = "crashed"
    BY <2>2, <2>3 DEF Reader!Next, Reader!Crash, readerState, answered
  <2>4. CASE pc' \in {"transfer", "copy"}
    BY <2>2, <2>4 DEF Reader!Next, Reader!Ask, readerState, answered
  <2> QED
    BY <2>2, <2>3, <2>4
<1>2. CASE Hit
  <2>1. PICK k \in HitAt : Copy(data[cached[k]])
    BY <1>2 DEF Hit
  <2>2. k \in DOMAIN cached /\ blockOf[cached[k]] = block
    BY DEF HitAt
  <2>3. cached[k] \in Range(cached)
    BY <2>2 DEF Range
  <2>4. cached[k] \in 1 .. NumSlots
    BY <2>3, Sizes DEF IInv, CacheIsDisk, TypeOK
  <2>5. /\ data[cached[k]] \in [0 .. (BlockSize - 1) -> Bytes]
        /\ \A i \in 0 .. (BlockSize - 1) :
             block * BlockSize + i < DiskSize =>
               data[cached[k]][i] = block * BlockSize + i
    BY <2>2, <2>3, <2>4 DEF IInv, CacheIsDisk, TypeOK
  <2>6. pc = "copy" /\ UNCHANGED request
    BY <1>2 DEF Hit
  <2> QED
    BY <2>1, <2>5, <2>6, Turn
<1>3. CASE Fill
  <2>1. /\ pc = "copy" /\ UNCHANGED request /\ Load(used + 1, cached) /\ used < NumSlots
    BY <1>3 DEF Fill
  <2>2. used + 1 \in 1 .. NumSlots
    BY <2>1, Sizes DEF IInv, CacheIsDisk, TypeOK
  <2> QED
    BY <2>1, <2>2, LoadTurn
<1>4. CASE Evict
  <2>1. /\ pc = "copy" /\ UNCHANGED request /\ used = NumSlots
        /\ Load(Last(cached), Front(cached))
    BY <1>4 DEF Evict
  <2>2. Last(cached) \in 1 .. NumSlots
    BY <2>1, LastInUse
  <2> QED
    BY <2>1, <2>2, LoadTurn
<1>5. CASE Transfer
  BY <1>5 DEF Transfer, Reader!Next, Reader!Return, readerState, answered
<1>6. CASE ReadFails
  BY <1>6 DEF ReadFails, Reader!Next, Reader!Crash, readerState, answered
<1>7. CASE UNCHANGED <<request, pc, buffer>>
  BY <1>7 DEF readerState, answered
<1> QED
  BY <1>1, <1>2, <1>3, <1>4, <1>5, <1>6, <1>7 DEF Next, Read, Crashed, vars

\* Whatever is cached, a read that returns from BiReadFromDisk has the bytes of the
\* disk it asked for: BlockCache implements DiskReader.
THEOREM Implementation == Spec => ImplementsDiskReader
<1>1. Init => Reader!Init
  BY RefineInit
<1>2. IInv /\ [Next]_vars => [Reader!Next]_<<request, readerState, answered>>
  BY RefineNext
<1> QED
  BY <1>1, <1>2, Invariance, PTL
    DEF Spec, ImplementsDiskReader, Reader!Spec, readerState, answered

-----------------------------------------------------------------------------
(* Numbers, sequences and recursive functions. *)

LEMMA Least ==
    ASSUME NEW T \in SUBSET Nat, T # {}
    PROVE  \E m \in T : \A k \in T : m <= k
<1> DEFINE R == OpToRel(<, Nat)
<1>1. IsWellFoundedOn(R, Nat)
  BY NatLessThanWellFounded, Zenon
<1> HIDE DEF R
<1>2. PICK m \in T : \A k \in T : <<k, m>> \notin R
  BY <1>1, WFMin
<1>3. \A k \in T : m <= k
  <2> TAKE k \in T
  <2>1. k < m => <<k, m>> \in R
    BY DEF R, OpToRel
  <2> QED
    BY <1>2, <2>1
<1> QED
  BY <1>3

LEMMA Induction ==
    ASSUME NEW T \in SUBSET Nat, 0 \in T, \A k \in T : k + 1 \in T
    PROVE  \A n \in Nat : n \in T
<1> DEFINE Others == Nat \ T
<1> SUFFICES ASSUME Others # {} PROVE FALSE
  OBVIOUS
<1>1. PICK m \in Others : \A k \in Others : m <= k
  <2>1. Others \in SUBSET Nat
    OBVIOUS
  <2> HIDE DEF Others
  <2> QED
    BY <2>1, Least
<1>2. m \in Nat /\ m # 0
  OBVIOUS
<1>3. m - 1 \in Nat /\ m - 1 \notin Others /\ (m - 1) + 1 = m
  BY <1>1, <1>2
<1> QED
  BY <1>1, <1>3

\* The first values of a function that is defined by recursion, and all of them.
Initial(p, n, base, step) ==
    p = [k \in 0 .. n |-> IF k = 0 THEN base ELSE step[k][p[k - 1]]]

Follows(f, base, step) ==
    f = [k \in Nat |-> IF k = 0 THEN base ELSE step[k][f[k - 1]]]

Cut(p, n) == [k \in 0 .. n |-> p[k]]

LEMMA InitialCut ==
    ASSUME NEW base, NEW step, NEW n \in Nat, NEW p, Initial(p, n + 1, base, step)
    PROVE  /\ Initial(Cut(p, n), n, base, step)
           /\ p[n + 1] = step[n + 1][p[n]]
<1> DEFINE q == Cut(p, n)
<1>1. \A k \in 0 .. (n + 1) : p[k] = IF k = 0 THEN base ELSE step[k][p[k - 1]]
  BY DEF Initial
<1>3. \A k \in 0 .. n : k \in 0 .. (n + 1) /\ (k # 0 => k - 1 \in 0 .. n)
  OBVIOUS
<1>4. n + 1 \in 0 .. (n + 1) /\ n + 1 # 0 /\ (n + 1) - 1 = n
  OBVIOUS
<1>5. \A k \in 0 .. n : q[k] = IF k = 0 THEN base ELSE step[k][q[k - 1]]
  BY <1>1, <1>3 DEF Cut
<1>6. q = [k \in 0 .. n |-> IF k = 0 THEN base ELSE step[k][q[k - 1]]]
  BY <1>5 DEF Cut
<1> HIDE DEF q
<1> QED
  BY <1>1, <1>4, <1>6 DEF Initial, q

LEMMA InitialIs ==
    ASSUME NEW base, NEW step
    PROVE  \A n \in Nat : /\ \E p : Initial(p, n, base, step)
                          /\ \A p, q : Initial(p, n, base, step) /\ Initial(q, n, base, step)
                                         => p = q
<1> DEFINE I(p, n) == Initial(p, n, base, step)
           T == {n \in Nat : (\E p : I(p, n)) /\ \A p, q : I(p, n) /\ I(q, n) => p = q}
<1>1. 0 \in T
  <2>1. 0 .. 0 = {0}
    OBVIOUS
  <2> DEFINE p0 == [k \in 0 .. 0 |-> base]
  <2>2. p0 = [k \in 0 .. 0 |-> IF k = 0 THEN base ELSE step[k][p0[k - 1]]]
    BY <2>1
  <2>3. I(p0, 0)
    BY <2>2, Zenon DEF Initial
  <2>4. \A p : I(p, 0) => p = p0
    BY <2>1 DEF Initial
  <2> HIDE DEF p0
  <2> QED
    BY <2>3, <2>4
<1>2. \A n \in T : n + 1 \in T
  <2> SUFFICES ASSUME NEW n \in T PROVE n + 1 \in T
    OBVIOUS
  <2>1. n \in Nat /\ n + 1 \in Nat /\ (\E p : I(p, n)) /\ \A p, q : I(p, n) /\ I(q, n) => p = q
    OBVIOUS
  <2>2. PICK p : I(p, n)
    BY <2>1
  <2> DEFINE r == [k \in 0 .. (n + 1) |-> IF k = n + 1 THEN step[k][p[n]] ELSE p[k]]
  <2>3. I(r, n + 1)
    <3>1. \A k \in 0 .. n : p[k] = IF k = 0 THEN base ELSE step[k][p[k - 1]]
      BY <2>2 DEF Initial
    <3>2. \A k \in 0 .. (n + 1) : r[k] = IF k = 0 THEN base ELSE step[k][r[k - 1]]
      <4> TAKE k \in 0 .. (n + 1)
      <4>1. CASE k = n + 1
        <5>1. r[k] = step[k][p[n]] /\ k - 1 = n /\ n \in 0 .. (n + 1) /\ n # n + 1 /\ k # 0
          BY <2>1, <4>1
        <5>2. r[k - 1] = p[n]
          BY <5>1
        <5> QED
          BY <5>1, <5>2
      <4>2. CASE k # n + 1
        <5>1. /\ k \in 0 .. n /\ r[k] = p[k]
              /\ k # 0 => k - 1 \in 0 .. (n + 1) /\ k - 1 # n + 1
          BY <2>1, <4>2
        <5>2. k # 0 => r[k - 1] = p[k - 1]
          BY <5>1
        <5> QED
          BY <3>1, <5>1, <5>2
      <4> QED
        BY <4>1, <4>2
    <3>3. r = [k \in 0 .. (n + 1) |-> IF k = 0 THEN base ELSE step[k][r[k - 1]]]
      BY <3>2
    <3> QED
      BY <3>3, Zenon DEF Initial
  <2>4. ASSUME NEW a, NEW b, I(a, n + 1), I(b, n + 1) PROVE a = b
    <3> DEFINE a0 == Cut(a, n)
               b0 == Cut(b, n)
    <3>0. n \in Nat /\ Initial(a, n + 1, base, step) /\ Initial(b, n + 1, base, step)
      BY <2>1, <2>4
    <3>1. /\ I(a0, n) /\ a[n + 1] = step[n + 1][a[n]]
      BY <3>0, InitialCut
    <3>2. /\ I(b0, n) /\ b[n + 1] = step[n + 1][b[n]]
      BY <3>0, InitialCut
    <3>3. a0 = b0
      BY <2>1, <3>1, <3>2
    <3>4. \A k \in 0 .. n : a[k] = b[k]
      BY <3>3 DEF Cut
    <3>5. a[n + 1] = b[n + 1]
      <4>1. n \in 0 .. n
        BY <2>1
      <4> QED
        BY <3>1, <3>2, <3>4, <4>1
    <3>6. \A k \in 0 .. (n + 1) : k = n + 1 \/ k \in 0 .. n
      BY <2>1
    <3>7. [k \in 0 .. (n + 1) |-> a[k]] = [k \in 0 .. (n + 1) |-> b[k]]
      BY <3>4, <3>5, <3>6
    <3>8. a = [k \in 0 .. (n + 1) |-> a[k]] /\ b = [k \in 0 .. (n + 1) |-> b[k]]
      BY <3>0 DEF Initial
    <3> QED
      BY <3>7, <3>8, Zenon
  <2> HIDE DEF I, r
  <2> QED
    BY <2>1, <2>3, <2>4
<1>3. T \in SUBSET Nat
  OBVIOUS
<1>4. \A n \in Nat : n \in T
  <2> HIDE DEF T
  <2> QED
    BY <1>1, <1>2, <1>3, Induction
<1> QED
  BY <1>4

LEMMA Recursion ==
    ASSUME NEW base, NEW step
    PROVE  \E f : Follows(f, base, step)
<1> DEFINE I(p, n) == Initial(p, n, base, step)
           P(n) == CHOOSE p : I(p, n)
           f == [n \in Nat |-> P(n)[n]]
<1>1. \A n \in Nat : I(P(n), n)
  BY InitialIs
<1>2. \A n \in Nat : \A p, q : I(p, n) /\ I(q, n) => p = q
  BY InitialIs
<1> HIDE DEF P
<1>3. f[0] = base
  BY <1>1 DEF Initial
<1>4. ASSUME NEW n \in Nat PROVE f[n + 1] = step[n + 1][f[n]]
  <2> DEFINE p == P(n + 1)
             q == Cut(p, n)
  <2>1. I(p, n + 1)
    BY <1>1
  <2>2. I(q, n) /\ p[n + 1] = step[n + 1][p[n]]
    BY <2>1, InitialCut
  <2>3. q = P(n)
    BY <1>1, <1>2, <2>2
  <2>4. q[n] = p[n]
    BY DEF Cut
  <2> QED
    BY <2>2, <2>3, <2>4
<1>5. \A n \in Nat : f[n] = IF n = 0 THEN base ELSE step[n][f[n - 1]]
  <2> TAKE n \in Nat
  <2>1. CASE n = 0
    BY <1>3, <2>1
  <2>2. CASE n # 0
    <3>1. n - 1 \in Nat /\ (n - 1) + 1 = n
      BY <2>2
    <3> HIDE DEF f
    <3> QED
      BY <1>4, <2>2, <3>1
  <2> QED
    BY <2>1, <2>2
<1>6. f = [n \in Nat |-> IF n = 0 THEN base ELSE step[n][f[n - 1]]]
  BY <1>5
<1> HIDE DEF f
<1> QED
  BY <1>6 DEF Follows

LEMMA FollowsSteps ==
    ASSUME NEW base, NEW step, NEW f, Follows(f, base, step)
    PROVE  f[0] = base /\ \A n \in Nat : f[n + 1] = step[n + 1][f[n]]
<1>1. \A n \in Nat : f[n] = IF n = 0 THEN base ELSE step[n][f[n - 1]]
  BY DEF Follows
<1>2. \A n \in Nat : n + 1 \in Nat /\ n + 1 # 0 /\ (n + 1) - 1 = n
  OBVIOUS
<1> QED
  BY <1>1, <1>2

LEMMA Typed ==
    ASSUME NEW S, NEW base \in S, NEW step \in [Nat -> [S -> S]], NEW f,
           Follows(f, base, step)
    PROVE  f \in [Nat -> S]
<1> DEFINE T == {n \in Nat : f[n] \in S}
<1>1. 0 \in T
  BY FollowsSteps
<1>2. \A n \in T : n + 1 \in T
  BY FollowsSteps
<1>3. T \in SUBSET Nat
  OBVIOUS
<1>4. \A n \in Nat : n \in T
  <2> HIDE DEF T
  <2> QED
    BY <1>1, <1>2, <1>3, Induction
<1>5. DOMAIN f = Nat /\ f = [n \in Nat |-> f[n]]
  BY DEF Follows
<1> QED
  BY <1>4, <1>5

\* A sequence of values each of which comes from the one before.
Runs(f, S, base, step) ==
    f \in [Nat -> S] /\ f[0] = base /\ \A n \in Nat : f[n + 1] = step[n + 1][f[n]]

LEMMA TypedRecursion ==
    ASSUME NEW S, NEW base \in S, NEW step \in [Nat -> [S -> S]]
    PROVE  \E f : Runs(f, S, base, step)
<1>1. PICK f : Follows(f, base, step)
  BY Recursion
<1>2. f \in [Nat -> S]
  BY <1>1, Typed
<1>3. f[0] = base /\ \A n \in Nat : f[n + 1] = step[n + 1][f[n]]
  BY <1>1, FollowsSteps
<1> QED
  BY <1>2, <1>3 DEF Runs


-----------------------------------------------------------------------------
(* Sequences put together (DeviceTree).                                      *)

LEMMA Joined ==
    ASSUME NEW X, NEW a \in Seq(X), NEW b \in Seq(X)
    PROVE  /\ a \o b \in Seq(X) /\ Len(a) \in Nat /\ Len(b) \in Nat
           /\ Len(a \o b) = Len(a) + Len(b)
           /\ \A m \in 1 .. Len(a) : (a \o b)[m] = a[m]
           /\ \A m \in 1 .. Len(b) : (a \o b)[Len(a) + m] = b[m]
OBVIOUS

LEMMA LengthIs ==
    ASSUME NEW X, NEW n \in Nat, NEW s \in [1 .. n -> X]
    PROVE  s \in Seq(X) /\ Len(s) = n
<1>1. s \in Seq(X)
  BY SeqDef
<1>2. s \in [1 .. Len(s) -> X] /\ Len(s) \in Nat
  BY <1>1, LenProperties
<1>3. 1 .. Len(s) = 1 .. n
  BY <1>2
<1> DEFINE l == Len(s)
<1>4. l \in Nat /\ 1 .. l = 1 .. n
  BY <1>2, <1>3
<1> HIDE DEF l
<1>5. (l >= 1 => l \in 1 .. n) /\ (n >= 1 => n \in 1 .. l)
  BY <1>4
<1>6. l = n
  BY <1>4, <1>5
<1> QED
  BY <1>1, <1>6 DEF l

\* Sequences put together: where the elements of each are in the whole.
Pieces(X, s, n, S) ==
    /\ s \in [1 .. n -> Seq(X)]
    /\ S \in [Nat -> Nat] /\ S[0] = 0
    /\ \A i \in 1 .. n : S[i] = S[i - 1] + Len(s[i])

Whole(X, s, n, S) ==
    /\ FlattenSeq(s) \in Seq(X) /\ Len(FlattenSeq(s)) = S[n]
    /\ \A i \in 1 .. n : \A j \in 1 .. Len(s[i]) :
         FlattenSeq(s)[S[i - 1] + j] = s[i][j]

LEMMA FlattenIs ==
    ASSUME NEW X, NEW n \in Nat, NEW s, NEW S, Pieces(X, s, n, S)
    PROVE  Whole(X, s, n, S)
<1> SUFFICES /\ FlattenSeq(s) \in Seq(X) /\ Len(FlattenSeq(s)) = S[n]
             /\ \A i \in 1 .. n : \A j \in 1 .. Len(s[i]) :
                  FlattenSeq(s)[S[i - 1] + j] = s[i][j]
  BY Zenon DEF Whole
<1> DEFINE Def(h) == [i \in 1 .. n |-> IF i = 1 THEN s[i] ELSE h[i - 1] \o s[i]]
           whole == CHOOSE h : h = Def(h)
<1>1. Len(s) = n
  BY LengthIs DEF Pieces
<1>2. CASE n = 0
  <2>1. Len(s) = 0
    BY <1>1, <1>2
  <2>2. FlattenSeq(s) = s
    BY <2>1, Zenon DEF FlattenSeq
  <2>3. s \in [1 .. 0 -> Seq(X)] /\ S[0] = 0
    BY <1>2 DEF Pieces
  <2>4. s \in Seq(X) /\ 1 .. n = {}
    BY <1>2, <2>3
  <2> QED
    BY <1>2, <2>1, <2>2, <2>3, <2>4
<1>3. CASE n # 0
  <2>1. FlattenSeq(s) = whole[n]
    BY <1>1, <1>3, Zenon DEF FlattenSeq
  <2> DEFINE V == Seq(X)
             none == <<>>
             step == [k \in Nat |-> [x \in V |-> IF k \in 1 .. n
                                       THEN (IF k = 1 THEN s[k] ELSE x \o s[k]) ELSE x]]
  <2>2. step \in [Nat -> [V -> V]] /\ none \in V
    <3>1. \A k \in 1 .. n : s[k] \in V
      BY DEF Pieces
    <3>2. \A x, y \in V : x \o y \in V
      OBVIOUS
    <3>3. none \in V
      OBVIOUS
    <3> HIDE DEF V, none
    <3> QED
      BY <3>1, <3>2, <3>3
  <2>3. PICK f : f \in [Nat -> V] /\ f[0] = none /\ \A k \in Nat : f[k + 1] = step[k + 1][f[k]]
    <3> HIDE DEF step, none, V
    <3>1. \E f : Runs(f, V, none, step)
      BY <2>2, TypedRecursion
    <3> QED
      BY <3>1 DEF Runs
  <2>4. \A k \in 1 .. n : f[k] = IF k = 1 THEN s[k] ELSE f[k - 1] \o s[k]
    <3> TAKE k \in 1 .. n
    <3>1. k - 1 \in Nat /\ (k - 1) + 1 = k /\ k \in Nat
      OBVIOUS
    <3> HIDE DEF V
    <3>2. f[k - 1] \in V /\ f[k] = step[k][f[k - 1]]
      BY <2>3, <3>1
    <3>3. step[k] = [x \in V |-> IF k = 1 THEN s[k] ELSE x \o s[k]]
      BY <3>1
    <3> HIDE DEF step
    <3> QED
      BY <3>2, <3>3
  <2> DEFINE g == [k \in 1 .. n |-> f[k]]
  <2>5. g = Def(g)
    <3>1. \A k \in 1 .. n : k # 1 => k - 1 \in 1 .. n
      OBVIOUS
    <3>2. \A k \in 1 .. n : g[k] = IF k = 1 THEN s[k] ELSE g[k - 1] \o s[k]
      BY <2>4, <3>1
    <3>3. \A k \in 1 .. n : g[k] = Def(g)[k]
      BY <3>2
    <3> QED
      BY <3>3
  <2>6. whole = Def(whole)
    <3> HIDE DEF g
    <3>1. \E h : h = Def(h)
      BY <2>5
    <3> HIDE DEF Def
    <3> QED
      BY <3>1
  <2> HIDE DEF whole, g, step
  <2>7. \A k \in 1 .. n : whole[k] = IF k = 1 THEN s[k] ELSE whole[k - 1] \o s[k]
    BY <2>6
  <2> DEFINE Good(k) == /\ whole[k] \in Seq(X) /\ Len(whole[k]) = S[k]
                        /\ \A i \in 1 .. k : /\ S[i] <= S[k]
                                             /\ \A j \in 1 .. Len(s[i]) :
                                                  whole[k][S[i - 1] + j] = s[i][j]
             T == {k \in Nat : k + 1 <= n => Good(k + 1)}
  <2>8. 0 \in T
    <3>1. 1 \in 1 .. n /\ \A i \in 1 .. 1 : i = 1
      BY <1>3
    <3>2. whole[1] = s[1] /\ s[1] \in Seq(X) /\ S[1] = S[0] + Len(s[1]) /\ S[0] = 0
      <4>1. whole[1] = s[1]
        BY <2>7, <3>1
      <4> QED
        BY <3>1, <4>1 DEF Pieces
    <3>3. S[1] = Len(s[1]) /\ Len(s[1]) \in Nat /\ S[1] \in Nat
      BY <3>2
    <3> HIDE DEF Def
    <3>4. \A j \in 1 .. Len(s[1]) : S[1 - 1] + j = j
      BY <3>2, <3>3
    <3>5. S[1] <= S[1]
      BY <3>3
    <3>6. Good(1)
      BY <3>1, <3>2, <3>3, <3>4, <3>5
    <3> HIDE DEF Good
    <3> QED
      BY <3>6
  <2>9. \A k \in T : k + 1 \in T
    <3> SUFFICES ASSUME NEW k \in Nat, k + 2 <= n, Good(k + 1) PROVE Good(k + 2)
      <4> HIDE DEF Good
      <4>1. ASSUME NEW k \in T PROVE k + 1 \in T
        <5>1. k \in Nat /\ (k + 1 <= n => Good(k + 1))
          OBVIOUS
        <5>2. (k + 1) + 1 = k + 2 /\ k + 1 \in Nat /\ (k + 2 <= n => k + 1 <= n)
          BY <5>1
        <5>3. k + 2 <= n => Good((k + 1) + 1)
          BY <5>1, <5>2
        <5> QED
          BY <5>2, <5>3
      <4> QED
        BY <4>1
    <3> DEFINE a == whole[k + 1]
               b == s[k + 2]
               c == whole[k + 2]
    <3>1. /\ k + 2 \in 1 .. n /\ k + 2 # 1 /\ (k + 2) - 1 = k + 1 /\ k + 1 \in 1 .. n
      OBVIOUS
    <3>2. c = a \o b /\ b \in Seq(X) /\ S[k + 2] = S[k + 1] + Len(b)
      <4>1. c = a \o b
        BY <2>7, <3>1
      <4>2. s[k + 2] \in Seq(X) /\ S[k + 2] = S[(k + 2) - 1] + Len(s[k + 2])
        BY <3>1 DEF Pieces
      <4> QED
        BY <3>1, <4>1, <4>2
    <3>3. a \in Seq(X) /\ Len(a) = S[k + 1]
      OBVIOUS
    <3>4. S[k + 1] \in Nat /\ S[k + 2] \in Nat
      <4>1. k + 1 \in Nat /\ k + 2 \in Nat
        OBVIOUS
      <4> QED
        BY <4>1 DEF Pieces
    <3>5. /\ \A i \in 1 .. (k + 1) : S[i] <= S[k + 1]
          /\ \A i \in 1 .. (k + 1) : \A j \in 1 .. Len(s[i]) : a[S[i - 1] + j] = s[i][j]
      OBVIOUS
    <3> HIDE DEF a, b, c, Def, Good
    <3>6. /\ c \in Seq(X) /\ Len(b) \in Nat /\ Len(c) = Len(a) + Len(b)
          /\ \A m \in 1 .. Len(a) : c[m] = a[m]
          /\ \A m \in 1 .. Len(b) : c[Len(a) + m] = b[m]
      <4>1. a \in Seq(X) /\ b \in Seq(X) /\ c = a \o b
        BY <3>2, <3>3
      <4>2. /\ a \o b \in Seq(X) /\ Len(a) \in Nat /\ Len(b) \in Nat
            /\ Len(a \o b) = Len(a) + Len(b)
            /\ \A m \in 1 .. Len(a) : (a \o b)[m] = a[m]
            /\ \A m \in 1 .. Len(b) : (a \o b)[Len(a) + m] = b[m]
        BY <4>1, Joined
      <4> QED
        BY <4>1, <4>2
    <3> DEFINE now == S[k + 1]
               next == S[k + 2]
    <3>8. /\ Len(c) = next /\ Len(a) = now /\ next = now + Len(b)
          /\ now \in Nat /\ next \in Nat /\ Len(b) \in Nat
      BY <3>2, <3>3, <3>4, <3>6
    <3>9. \A i \in 1 .. (k + 1) : S[i] <= now
      BY <3>5
    <3> HIDE DEF now, next
    <3>7. ASSUME NEW i \in 1 .. (k + 2)
          PROVE  S[i] <= next /\ \A j \in 1 .. Len(s[i]) : c[S[i - 1] + j] = s[i][j]
      <4>1. CASE i = k + 2
        <5>1. s[i] = b /\ i - 1 = k + 1
          BY <3>1, <4>1 DEF b
        <5>2. S[i - 1] = Len(a)
          BY <3>3, <5>1
        <5>3. S[i] = next
          BY <4>1 DEF next
        <5> QED
          BY <3>6, <3>8, <5>1, <5>2, <5>3
      <4>2. CASE i # k + 2
        <5> DEFINE x == S[i]
                   y == S[i - 1]
                   t == s[i]
        <5>1. i \in 1 .. (k + 1) /\ i \in 1 .. n /\ i - 1 \in Nat /\ i \in Nat
          BY <3>1, <4>2
        <5>2. x = y + Len(t) /\ x \in Nat /\ y \in Nat /\ t \in Seq(X)
          BY <5>1 DEF Pieces
        <5>3. x <= now
          BY <3>9, <5>1
        <5>4. \A j \in 1 .. Len(t) : a[y + j] = t[j]
          BY <3>5, <5>1
        <5> HIDE DEF x, y, t
        <5>5. Len(t) \in Nat
          BY <5>2, LenProperties
        <5>6. x <= next
          BY <3>8, <5>2, <5>3
        <5>7. ASSUME NEW j \in 1 .. Len(t) PROVE c[y + j] = t[j]
          <6>1. y + j \in 1 .. Len(a)
            BY <3>8, <5>2, <5>3, <5>5
          <6> QED
            BY <3>6, <5>4, <6>1
        <5> QED
          BY <5>6, <5>7 DEF x, y, t
      <4> QED
        BY <4>1, <4>2
    <3> QED
      BY <3>6, <3>7, <3>8 DEF Good, c, next
  <2>10. \A k \in Nat : k \in T
    <3>1. T \in SUBSET Nat
      OBVIOUS
    <3> HIDE DEF T
    <3> QED
      BY <2>8, <2>9, <3>1, Induction
  <2>11. n - 1 \in Nat /\ (n - 1) + 1 = n
    BY <1>3
  <2>12. Good(n)
    <3> HIDE DEF Good
    <3>1. n - 1 \in T
      BY <2>10, <2>11
    <3>2. (n - 1) + 1 <= n => Good((n - 1) + 1)
      BY <3>1
    <3> QED
      BY <2>11, <3>2
  <2> QED
    BY <2>1, <2>12
<1> QED
  BY <1>2, <1>3

LEMMA PiecesAre ==
    ASSUME NEW X, NEW n \in Nat, NEW s \in [1 .. n -> Seq(X)]
    PROVE  \E S : Pieces(X, s, n, S)
<1> DEFINE step == [k \in Nat |-> [x \in Nat |-> IF k \in 1 .. n THEN x + Len(s[k]) ELSE x]]
           zero == 0
<1>1. \A k \in 1 .. n : Len(s[k]) \in Nat
  BY LenProperties
<1>2. step \in [Nat -> [Nat -> Nat]] /\ zero \in Nat
  <2> DEFINE l == [k \in 1 .. n |-> Len(s[k])]
  <2>1. \A k \in 1 .. n : l[k] \in Nat /\ l[k] = Len(s[k])
    BY <1>1
  <2> HIDE DEF l
  <2>2. \A k \in Nat, x \in Nat : (IF k \in 1 .. n THEN x + Len(s[k]) ELSE x) \in Nat
    BY <2>1
  <2> QED
    BY <2>2
<1>3. PICK f : f \in [Nat -> Nat] /\ f[0] = zero /\ \A k \in Nat : f[k + 1] = step[k + 1][f[k]]
  <2> HIDE DEF step, zero
  <2>1. \E f : Runs(f, Nat, zero, step)
    BY <1>2, TypedRecursion
  <2> QED
    BY <2>1 DEF Runs
<1>4. \A i \in 1 .. n : f[i] = f[i - 1] + Len(s[i])
  <2> TAKE i \in 1 .. n
  <2>1. i - 1 \in Nat /\ (i - 1) + 1 = i /\ i \in Nat
    OBVIOUS
  <2>2. f[i - 1] \in Nat /\ f[i] = step[i][f[i - 1]]
    BY <1>3, <2>1
  <2>3. step[i] = [x \in Nat |-> x + Len(s[i])]
    BY <2>1
  <2> HIDE DEF step
  <2> QED
    BY <2>2, <2>3
<1>5. Pieces(X, s, n, f)
  BY <1>3, <1>4 DEF Pieces
<1> QED
  BY <1>5

\* Pieces end in their order.
LEMMA EndsAscend ==
    ASSUME NEW X, NEW n \in Nat, NEW s, NEW S, Pieces(X, s, n, S), NEW i \in 1 .. n
    PROVE  S[i] <= S[n]
<1> DEFINE T == {k \in Nat : i + k <= n => S[i] <= S[i + k]}
<1>1. S \in [Nat -> Nat] /\ i \in Nat /\ i - 1 \in Nat
  BY DEF Pieces
<1>2. 0 \in T
  BY <1>1
<1>3. \A k \in T : k + 1 \in T
  <2> SUFFICES ASSUME NEW k \in T, i + (k + 1) <= n PROVE S[i] <= S[i + (k + 1)]
    OBVIOUS
  <2>1. k \in Nat /\ i + k <= n /\ i + (k + 1) \in 1 .. n /\ (i + (k + 1)) - 1 = i + k
    OBVIOUS
  <2>2. S[i + (k + 1)] = S[i + k] + Len(s[i + (k + 1)]) /\ s[i + (k + 1)] \in Seq(X)
    BY <2>1 DEF Pieces
  <2>3. S[i] <= S[i + k]
    BY <2>1
  <2>4. Len(s[i + (k + 1)]) \in Nat
    BY <2>2
  <2>5. S[i] \in Nat /\ S[i + k] \in Nat
    BY <1>1, <2>1
  <2> QED
    BY <2>2, <2>3, <2>4, <2>5
<1>4. \A k \in Nat : k \in T
  <2>1. T \in SUBSET Nat
    OBVIOUS
  <2> HIDE DEF T
  <2> QED
    BY <1>2, <1>3, <2>1, Induction
<1> QED
  <2>1. n - i \in Nat /\ i + (n - i) = n
    OBVIOUS
  <2>2. n - i \in T
    BY <1>4, <2>1
  <2> QED
    BY <2>1, <2>2

\* Every place of the whole lies in one of the pieces.
LEMMA Covered ==
    ASSUME NEW X, NEW n \in Nat, NEW s, NEW S, Pieces(X, s, n, S), NEW k \in 1 .. S[n]
    PROVE  \E i \in 1 .. n : \E j \in 1 .. Len(s[i]) : k = S[i - 1] + j
<1> DEFINE T == {i \in 1 .. n : k <= S[i]}
<1>1. S \in [Nat -> Nat] /\ S[0] = 0 /\ S[n] \in Nat /\ k \in Nat /\ k >= 1 /\ k <= S[n]
  BY DEF Pieces
<1>2. n \in T /\ T \in SUBSET Nat
  BY <1>1
<1>3. PICK i \in T : \A m \in T : i <= m
  <2> HIDE DEF T
  <2> QED
    BY <1>2, Least
<1>4. i \in 1 .. n /\ i - 1 \in Nat /\ i \in Nat /\ k <= S[i]
  OBVIOUS
<1> DEFINE x == S[i]
           y == S[i - 1]
           l == Len(s[i])
<1>5. x = y + l /\ x \in Nat /\ y \in Nat
  BY <1>1, <1>4 DEF Pieces
<1>6. l \in Nat
  <2>1. s[i] \in Seq(X)
    BY <1>4 DEF Pieces
  <2> QED
    BY <2>1
<1>7. y < k
  <2>1. CASE i = 1
    BY <1>1, <2>1
  <2>2. CASE i # 1
    <3>1. i - 1 \in 1 .. n /\ ~(i <= i - 1)
      BY <1>4, <2>2
    <3>2. i - 1 \notin T
      <4> HIDE DEF T
      <4> QED
        BY <1>3, <3>1
    <3>3. ~(k <= y)
      BY <3>1, <3>2
    <3> QED
      BY <1>1, <1>5, <3>3
  <2> QED
    BY <2>1, <2>2
<1> HIDE DEF x, y, l, T
<1>8. k <= x
  BY <1>4 DEF x
<1>9. k - y \in 1 .. l /\ k = y + (k - y)
  BY <1>1, <1>5, <1>6, <1>7, <1>8
<1> QED
  BY <1>4, <1>9 DEF y, l

\* A sequence of sequences and the places of their elements in the whole.
Located(X, s, n, S) ==
    /\ Pieces(X, s, n, S)
    /\ FlattenSeq(s) \in Seq(X) /\ DOMAIN FlattenSeq(s) = 1 .. S[n]
    /\ Len(FlattenSeq(s)) = S[n]
    /\ \A i \in 1 .. n : /\ s[i] \in Seq(X) /\ DOMAIN s[i] = 1 .. Len(s[i])
                         /\ \A j \in 1 .. Len(s[i]) :
                              /\ S[i - 1] + j \in 1 .. S[n]
                              /\ FlattenSeq(s)[S[i - 1] + j] = s[i][j]
    /\ \A k \in 1 .. S[n] : \E i \in 1 .. n : \E j \in 1 .. Len(s[i]) : k = S[i - 1] + j

LEMMA LocatedIf ==
    ASSUME NEW X, NEW n \in Nat, NEW s, NEW S, Pieces(X, s, n, S)
    PROVE  Located(X, s, n, S)
<1> DEFINE F == FlattenSeq(s)
<1>1. /\ F \in Seq(X) /\ Len(F) = S[n]
      /\ \A i \in 1 .. n : \A j \in 1 .. Len(s[i]) : F[S[i - 1] + j] = s[i][j]
  <2>1. Whole(X, s, n, S)
    BY FlattenIs
  <2> QED
    BY <2>1, Zenon DEF Whole
<1>3. \A k \in 1 .. S[n] : \E i \in 1 .. n : \E j \in 1 .. Len(s[i]) : k = S[i - 1] + j
  BY Covered
<1> HIDE DEF F
<1>4. DOMAIN F = 1 .. S[n]
  BY <1>1
<1>5. ASSUME NEW i \in 1 .. n
      PROVE  /\ s[i] \in Seq(X) /\ DOMAIN s[i] = 1 .. Len(s[i])
             /\ \A j \in 1 .. Len(s[i]) : S[i - 1] + j \in 1 .. S[n]
  <2> DEFINE x == S[i]
             y == S[i - 1]
             z == S[n]
             t == s[i]
  <2>1. x <= z
    BY EndsAscend
  <2>2. x = y + Len(t) /\ t \in Seq(X)
    BY DEF Pieces
  <2>3. x \in Nat /\ y \in Nat /\ z \in Nat
    BY DEF Pieces
  <2> HIDE DEF x, y, z, t
  <2>4. DOMAIN t = 1 .. Len(t) /\ Len(t) \in Nat
    BY <2>2
  <2>5. \A j \in 1 .. Len(t) : y + j \in 1 .. z
    BY <2>1, <2>2, <2>3, <2>4
  <2> QED
    BY <2>2, <2>4, <2>5 DEF y, z, t
<1> QED
  BY <1>1, <1>3, <1>4, <1>5 DEF Located, F

\* The whole holds what the pieces hold.
LEMMA FlattenRange ==
    ASSUME NEW X, NEW n \in Nat, NEW s \in [1 .. n -> Seq(X)]
    PROVE  /\ FlattenSeq(s) \in Seq(X)
           /\ \A x : x \in Range(FlattenSeq(s))
                       <=> \E i \in 1 .. n : x \in Range(s[i])
<1> DEFINE F == FlattenSeq(s)
<1>1. PICK S : Pieces(X, s, n, S)
  BY PiecesAre
<1>2. Located(X, s, n, S)
  BY <1>1, LocatedIf, Zenon
<1>3. /\ F \in Seq(X) /\ DOMAIN F = 1 .. S[n]
      /\ \A i \in 1 .. n : /\ s[i] \in Seq(X) /\ DOMAIN s[i] = 1 .. Len(s[i])
                           /\ \A j \in 1 .. Len(s[i]) :
                                S[i - 1] + j \in 1 .. S[n] /\ F[S[i - 1] + j] = s[i][j]
      /\ \A k \in 1 .. S[n] : \E i \in 1 .. n : \E j \in 1 .. Len(s[i]) : k = S[i - 1] + j
  BY <1>2 DEF Located
<1> HIDE DEF F
<1>7. ASSUME NEW x, x \in Range(F) PROVE \E i \in 1 .. n : x \in Range(s[i])
  <2>1. PICK k \in 1 .. S[n] : x = F[k]
    BY <1>3, <1>7 DEF Range
  <2>2. PICK i \in 1 .. n : \E j \in 1 .. Len(s[i]) : k = S[i - 1] + j
    BY <1>3
  <2>3. PICK j \in 1 .. Len(s[i]) : k = S[i - 1] + j
    BY <2>2
  <2>4. x = s[i][j] /\ j \in DOMAIN s[i]
    BY <1>3, <2>1, <2>3
  <2> QED
    BY <2>4 DEF Range
<1>8. ASSUME NEW x, NEW i \in 1 .. n, x \in Range(s[i]) PROVE x \in Range(F)
  <2>1. PICK j \in 1 .. Len(s[i]) : x = s[i][j]
    BY <1>3, <1>8 DEF Range
  <2>2. S[i - 1] + j \in DOMAIN F /\ F[S[i - 1] + j] = x
    BY <1>3, <2>1
  <2> QED
    BY <2>2 DEF Range
<1> QED
  BY <1>3, <1>7, <1>8 DEF F

\* The whole repeats nothing if no piece does and no two of them share anything.
LEMMA FlattenInjective ==
    ASSUME NEW X, NEW n \in Nat, NEW s \in [1 .. n -> Seq(X)],
           \A i \in 1 .. n : IsInjective(s[i]),
           \A i, l \in 1 .. n : \A x : x \in Range(s[i]) /\ x \in Range(s[l]) => i = l
    PROVE  IsInjective(FlattenSeq(s))
<1> DEFINE F == FlattenSeq(s)
<1>1. PICK S : Pieces(X, s, n, S)
  BY PiecesAre
<1>2. Located(X, s, n, S)
  BY <1>1, LocatedIf, Zenon
<1>3. /\ F \in Seq(X) /\ DOMAIN F = 1 .. S[n]
      /\ \A i \in 1 .. n : /\ s[i] \in Seq(X) /\ DOMAIN s[i] = 1 .. Len(s[i])
                           /\ \A j \in 1 .. Len(s[i]) :
                                S[i - 1] + j \in 1 .. S[n] /\ F[S[i - 1] + j] = s[i][j]
      /\ \A k \in 1 .. S[n] : \E i \in 1 .. n : \E j \in 1 .. Len(s[i]) : k = S[i - 1] + j
  BY <1>2 DEF Located
<1> HIDE DEF F
<1>6. ASSUME NEW a \in DOMAIN F, NEW b \in DOMAIN F, F[a] = F[b] PROVE a = b
  <2>1. PICK i \in 1 .. n : \E j \in 1 .. Len(s[i]) : a = S[i - 1] + j
    BY <1>3
  <2>2. PICK j \in 1 .. Len(s[i]) : a = S[i - 1] + j
    BY <2>1
  <2>3. PICK l \in 1 .. n : \E m \in 1 .. Len(s[l]) : b = S[l - 1] + m
    BY <1>3
  <2>4. PICK m \in 1 .. Len(s[l]) : b = S[l - 1] + m
    BY <2>3
  <2>5. F[a] = s[i][j] /\ j \in DOMAIN s[i] /\ F[b] = s[l][m] /\ m \in DOMAIN s[l]
    BY <1>3, <2>2, <2>4
  <2>6. F[a] \in Range(s[i]) /\ F[a] \in Range(s[l])
    BY <1>6, <2>5 DEF Range
  <2>7. i = l
    BY <2>6
  <2>8. IsInjective(s[i]) /\ s[i][j] = s[i][m] /\ j \in DOMAIN s[i] /\ m \in DOMAIN s[i]
    BY <1>6, <2>5, <2>7
  <2>9. j = m
    BY <2>8 DEF IsInjective
  <2> QED
    BY <2>2, <2>4, <2>7, <2>9
<1> QED
  BY <1>6 DEF IsInjective, F

-----------------------------------------------------------------------------
(* Sums of sizes.                                                            *)

Sums(f, s, n) == f \in [Nat -> Nat] /\ f[0] = 0 /\ \A k \in 1 .. n : f[k] = f[k - 1] + s[k]

LEMMA SumsAre ==
    ASSUME NEW n \in Nat, NEW s \in [1 .. n -> Nat]
    PROVE  \E f : Sums(f, s, n)
<1> DEFINE step == [k \in Nat |-> [x \in Nat |-> IF k \in 1 .. n THEN x + s[k] ELSE x]]
           zero == 0
<1>1. step \in [Nat -> [Nat -> Nat]] /\ zero \in Nat
  OBVIOUS
<1>2. PICK f : f \in [Nat -> Nat] /\ f[0] = zero /\ \A k \in Nat : f[k + 1] = step[k + 1][f[k]]
  <2> HIDE DEF step, zero
  <2>1. \E f : Runs(f, Nat, zero, step)
    BY <1>1, TypedRecursion
  <2> QED
    BY <2>1 DEF Runs
<1>3. \A i \in 1 .. n : f[i] = f[i - 1] + s[i]
  <2> TAKE i \in 1 .. n
  <2>1. i - 1 \in Nat /\ (i - 1) + 1 = i /\ i \in Nat
    OBVIOUS
  <2>2. f[i - 1] \in Nat /\ f[i] = step[i][f[i - 1]]
    BY <1>2, <2>1
  <2>3. step[i] = [x \in Nat |-> x + s[i]]
    BY <2>1
  <2> HIDE DEF step
  <2> QED
    BY <2>2, <2>3
<1> QED
  BY <1>2, <1>3 DEF Sums

LEMMA TotalIs ==
    ASSUME NEW n \in Nat, NEW s \in [1 .. n -> Nat], NEW f, Sums(f, s, n)
    PROVE  Total(s) = f[n] /\ f[n] \in Nat
<1> DEFINE whole == CHOOSE h : h = [k \in 0 .. Len(s) |-> IF k = 0 THEN 0 ELSE h[k - 1] + s[k]]
           g == [k \in 0 .. n |-> f[k]]
<1>1. Len(s) = n
  BY LengthIs
<1>2. Total(s) = whole[n]
  BY <1>1, Zenon DEF Total
<1>3. f \in [Nat -> Nat] /\ f[0] = 0 /\ \A k \in 1 .. n : f[k] = f[k - 1] + s[k]
  BY DEF Sums
<1>4. \A k \in 0 .. n : g[k] = IF k = 0 THEN 0 ELSE g[k - 1] + s[k]
  <2> TAKE k \in 0 .. n
  <2>1. CASE k = 0
    BY <1>3, <2>1
  <2>2. CASE k # 0
    <3>1. k \in 1 .. n /\ k - 1 \in 0 .. n
      BY <2>2
    <3>2. g[k] = f[k] /\ g[k - 1] = f[k - 1]
      BY <3>1
    <3> HIDE DEF g
    <3> QED
      BY <1>3, <2>2, <3>1, <3>2
  <2> QED
    BY <2>1, <2>2
<1>5. g = [k \in 0 .. n |-> IF k = 0 THEN 0 ELSE g[k - 1] + s[k]]
  <2>1. g = [k \in 0 .. n |-> g[k]]
    OBVIOUS
  <2> HIDE DEF g
  <2> QED
    BY <1>4, <2>1
<1>6. whole = [k \in 0 .. n |-> IF k = 0 THEN 0 ELSE whole[k - 1] + s[k]]
  <2> HIDE DEF g
  <2>1. \E h : h = [k \in 0 .. Len(s) |-> IF k = 0 THEN 0 ELSE h[k - 1] + s[k]]
    BY <1>1, <1>5
  <2>2. whole = [k \in 0 .. Len(s) |-> IF k = 0 THEN 0 ELSE whole[k - 1] + s[k]]
    BY <2>1, Zenon
  <2> QED
    BY <1>1, <2>2, Zenon
<1> HIDE DEF whole, g
<1>7. \A k \in 0 .. n : whole[k] = IF k = 0 THEN 0 ELSE whole[k - 1] + s[k]
  BY <1>6
<1> DEFINE T == {k \in Nat : k <= n => whole[k] = f[k]}
<1>8. 0 \in T
  <2>1. 0 \in 0 .. n
    OBVIOUS
  <2> QED
    BY <1>3, <1>7, <2>1
<1>9. \A k \in T : k + 1 \in T
  <2> SUFFICES ASSUME NEW k \in T, k + 1 <= n PROVE whole[k + 1] = f[k + 1]
    OBVIOUS
  <2>1. k \in Nat /\ k <= n /\ whole[k] = f[k]
    OBVIOUS
  <2>2. k + 1 \in 0 .. n /\ k + 1 \in 1 .. n /\ k + 1 # 0 /\ (k + 1) - 1 = k
    BY <2>1
  <2>3. whole[k + 1] = whole[k] + s[k + 1]
    BY <1>7, <2>2
  <2>4. f[k + 1] = f[k] + s[k + 1]
    BY <1>3, <2>2
  <2> QED
    BY <2>1, <2>3, <2>4
<1>10. \A k \in Nat : k \in T
  <2>1. T \in SUBSET Nat
    OBVIOUS
  <2> HIDE DEF T
  <2> QED
    BY <1>8, <1>9, <2>1, Induction
<1> QED
  BY <1>2, <1>3, <1>10

LEMMA TotalType ==
    ASSUME NEW n \in Nat, NEW s \in [1 .. n -> Nat]
    PROVE  Total(s) \in Nat /\ (n = 0 => Total(s) = 0)
<1>1. PICK f : Sums(f, s, n)
  BY SumsAre
<1>2. Total(s) = f[n] /\ f[n] \in Nat
  BY <1>1, TotalIs
<1> QED
  BY <1>1, <1>2 DEF Sums

LEMMA TotalOne ==
    ASSUME NEW x \in Nat, NEW s \in [1 .. 1 -> Nat], s[1] = x
    PROVE  Total(s) = x
<1>1. PICK f : Sums(f, s, 1)
  BY SumsAre
<1>2. Total(s) = f[1]
  BY <1>1, TotalIs
<1>3. f[1] = f[1 - 1] + s[1] /\ f[0] = 0 /\ 1 - 1 = 0
  BY <1>1 DEF Sums
<1> QED
  BY <1>2, <1>3

\* One summand more.
LEMMA TotalMore ==
    ASSUME NEW n \in Nat, NEW s \in [1 .. (n + 1) -> Nat], NEW r \in [1 .. n -> Nat],
           \A k \in 1 .. n : r[k] = s[k]
    PROVE  Total(s) = Total(r) + s[n + 1]
<1>1. PICK f : Sums(f, s, n + 1)
  BY SumsAre
<1>2. f \in [Nat -> Nat] /\ f[0] = 0 /\ \A k \in 1 .. (n + 1) : f[k] = f[k - 1] + s[k]
  BY <1>1 DEF Sums
<1>3. \A k \in 1 .. n : k \in 1 .. (n + 1)
  OBVIOUS
<1>4. Sums(f, r, n)
  BY <1>2, <1>3 DEF Sums
<1>5. Total(r) = f[n]
  BY <1>4, TotalIs
<1>6. Total(s) = f[n + 1]
  <2>1. n + 1 \in Nat
    OBVIOUS
  <2> QED
    BY <1>1, <2>1, TotalIs
<1>7. n + 1 \in 1 .. (n + 1) /\ (n + 1) - 1 = n
  OBVIOUS
<1> QED
  BY <1>2, <1>5, <1>6, <1>7

RaisedFrom(f, c, a) == [i \in Nat |-> IF i >= c THEN f[i] + a ELSE f[i]]

LEMMA RaisedType ==
    ASSUME NEW f \in [Nat -> Nat], NEW c \in Nat, NEW a \in Nat
    PROVE  /\ RaisedFrom(f, c, a) \in [Nat -> Nat]
           /\ \A i \in Nat : RaisedFrom(f, c, a)[i] = IF i >= c THEN f[i] + a ELSE f[i]
BY DEF RaisedFrom

\* One summand that grows.
LEMMA TotalChanged ==
    ASSUME NEW n \in Nat, NEW s \in [1 .. n -> Nat], NEW t \in [1 .. n -> Nat], NEW a \in Nat,
           NEW c \in 1 .. n, t[c] = s[c] + a, \A k \in 1 .. n : k # c => t[k] = s[k]
    PROVE  Total(t) = Total(s) + a
<1>1. PICK f : Sums(f, s, n)
  BY SumsAre
<1>2. f \in [Nat -> Nat] /\ f[0] = 0 /\ \A k \in 1 .. n : f[k] = f[k - 1] + s[k]
  BY <1>1 DEF Sums
<1>5. c \in Nat /\ c >= 1 /\ c <= n
  OBVIOUS
<1> DEFINE g == RaisedFrom(f, c, a)
<1>3. g \in [Nat -> Nat] /\ \A i \in Nat : g[i] = IF i >= c THEN f[i] + a ELSE f[i]
  <2>1. f \in [Nat -> Nat]
    BY <1>2, Zenon
  <2> QED
    BY <1>5, <2>1, RaisedType, Zenon
<1> HIDE DEF g
<1>6. g[0] = 0 /\ g[n] = f[n] + a
  <2>1. 0 \in Nat /\ ~(0 >= c) /\ n >= c
    BY <1>5
  <2>2. g[0] = f[0] /\ g[n] = f[n] + a
    BY <1>3, <2>1
  <2> QED
    BY <1>2, <2>2
<1>7. ASSUME NEW i \in 1 .. n PROVE g[i] = g[i - 1] + t[i]
  <2>1. i \in Nat /\ i - 1 \in Nat
    OBVIOUS
  <2> DEFINE x == f[i]
             y == f[i - 1]
             z == s[i]
  <2>2. x = y + z /\ x \in Nat /\ y \in Nat /\ z \in Nat
    BY <1>2, <2>1
  <2>3. g[i] = (IF i >= c THEN x + a ELSE x) /\ g[i - 1] = (IF i - 1 >= c THEN y + a ELSE y)
    BY <1>3, <2>1
  <2>4. t[i] = IF i = c THEN z + a ELSE z
    OBVIOUS
  <2> HIDE DEF x, y, z
  <2> QED
    BY <1>5, <2>1, <2>2, <2>3, <2>4
<1>8. Sums(g, t, n)
  BY <1>3, <1>6, <1>7 DEF Sums
<1>9. Total(s) = f[n] /\ Total(t) = g[n]
  BY <1>1, <1>8, TotalIs
<1> QED
  BY <1>6, <1>9

\* A table whose names are each in the bucket their hash says, once.
Names(t) == {x \in PropertyNames : \E b \in DOMAIN t : x \in Range(t[b])}

Hashed(t) ==
    /\ t \in [1 .. Len(t) -> Seq(PropertyNames)] /\ Len(t) \in Nat
    /\ \A b \in DOMAIN t : IsInjective(t[b])
    /\ \A b \in DOMAIN t, x \in PropertyNames :
         x \in Range(t[b]) => b = Bucket(t, x)

LEMMA Remainder ==
    ASSUME NEW h \in Nat, NEW c \in Nat \ {0}
    PROVE  (h % c) + 1 \in 1 .. c
OBVIOUS

LEMMA BucketIs ==
    ASSUME NEW t, Len(t) \in Nat \ {0}, NEW x \in PropertyNames
    PROVE  Bucket(t, x) \in 1 .. Len(t)
<1>1. Hash[x] \in Nat
  BY DeviceTreeAssumption
<1>2. (Hash[x] % Len(t)) + 1 \in 1 .. Len(t)
  BY <1>1, Remainder
<1> QED
  BY <1>2 DEF Bucket, Capacity

\* What such a table holds.
LEMMA HashedIs ==
    ASSUME NEW t, Hashed(t)
    PROVE  /\ FlattenSeq(t) \in Seq(PropertyNames)
           /\ Range(FlattenSeq(t)) = Names(t)
           /\ IsInjective(FlattenSeq(t))
<1> DEFINE n == Len(t)
           P == PropertyNames
<1>1. n \in Nat /\ t \in [1 .. n -> Seq(P)] /\ DOMAIN t = 1 .. n
  BY DEF Hashed
<1>2. /\ \A b \in 1 .. n : IsInjective(t[b])
      /\ \A b \in 1 .. n, x \in P : x \in Range(t[b]) => b = Bucket(t, x)
  BY <1>1 DEF Hashed
<1> HIDE DEF n, P
<1>3. \A b \in 1 .. n : \A x : x \in Range(t[b]) => x \in P
  <2> TAKE b \in 1 .. n
  <2>1. t[b] \in Seq(P)
    BY <1>1
  <2>2. \A k \in DOMAIN t[b] : t[b][k] \in P
    BY <2>1
  <2> QED
    BY <2>2 DEF Range
<1>4. \A i, l \in 1 .. n : \A x : x \in Range(t[i]) /\ x \in Range(t[l]) => i = l
  BY <1>2, <1>3
<1>5. /\ FlattenSeq(t) \in Seq(P)
      /\ \A x : x \in Range(FlattenSeq(t)) <=> \E i \in 1 .. n : x \in Range(t[i])
  BY <1>1, FlattenRange
<1>6. IsInjective(FlattenSeq(t))
  BY <1>1, <1>2, <1>4, FlattenInjective
<1>7. Names(t) = {x \in P : \E b \in 1 .. n : x \in Range(t[b])}
  BY <1>1 DEF Names, P
<1>8. \A x : x \in Range(FlattenSeq(t)) <=> x \in Names(t)
  BY <1>3, <1>5, <1>7
<1> QED
  BY <1>5, <1>6, <1>8 DEF P

\* How many names the table holds, bucket by bucket.
LEMMA CountIs ==
    ASSUME NEW n \in Nat, NEW t, NEW S, Pieces(PropertyNames, t, n, S)
    PROVE  Count(t) = S[n] /\ S[n] \in Nat
<1>1. Located(PropertyNames, t, n, S)
  BY LocatedIf
<1> QED
  BY <1>1 DEF Located, Count, Pieces

LEMMA EmptyTable ==
    ASSUME NEW c \in Nat, NEW t, t = [b \in 1 .. c |-> <<>>]
    PROVE  /\ Hashed(t) /\ Len(t) = c /\ Names(t) = {} /\ Count(t) = 0
           /\ t \in [1 .. c -> Seq(PropertyNames)]
<1> DEFINE S == [i \in Nat |-> 0]
<1>1. t \in [1 .. c -> Seq(PropertyNames)] /\ DOMAIN t = 1 .. c
  OBVIOUS
<1>2. Len(t) = c
  BY <1>1, LengthIs
<1>3. \A b \in 1 .. c : t[b] = <<>> /\ Len(t[b]) = 0 /\ DOMAIN t[b] = {}
  OBVIOUS
<1>4. Pieces(PropertyNames, t, c, S)
  BY <1>1, <1>3 DEF Pieces
<1>5. S[c] = 0
  OBVIOUS
<1>6. Count(t) = 0
  <2> HIDE DEF S
  <2> QED
    BY <1>4, <1>5, CountIs
<1>7. \A b \in DOMAIN t : \A x : x \notin Range(t[b])
  BY <1>1, <1>3 DEF Range
<1>8. \A b \in DOMAIN t : IsInjective(t[b])
  BY <1>1, <1>3 DEF IsInjective
<1>9. Names(t) = {}
  BY <1>7 DEF Names
<1> QED
  BY <1>1, <1>2, <1>6, <1>7, <1>8, <1>9 DEF Hashed

\* A name put before a bucket's names.
PutFirst(P, q, x, p) == q \in Seq(P) /\ x \in P /\ p = <<x>> \o q

LEMMA Prepended ==
    ASSUME NEW P, NEW q, NEW x, NEW p, PutFirst(P, q, x, p)
    PROVE  /\ p \in Seq(P) /\ Len(p) = Len(q) + 1
           /\ \A y : y \in Range(p) <=> y \in Range(q) \/ y = x
           /\ IsInjective(q) /\ x \notin Range(q) => IsInjective(p)
<1> DEFINE l == Len(q)
<1>1. /\ l \in Nat /\ DOMAIN q = 1 .. l
      /\ p \in Seq(P) /\ Len(p) = l + 1 /\ DOMAIN p = 1 .. (l + 1)
      /\ p[1] = x /\ \A k \in 1 .. l : p[k + 1] = q[k]
  BY DEF PutFirst
<1> HIDE DEF l
<1>2. \A k \in 1 .. (l + 1) : k = 1 \/ (k - 1 \in 1 .. l /\ (k - 1) + 1 = k /\ k \in Nat)
  BY <1>1
<1>3. \A k \in 1 .. l : k + 1 \in 1 .. (l + 1)
  BY <1>1
<1>4. 1 \in 1 .. (l + 1)
  BY <1>1
<1>5. \A k \in 1 .. (l + 1) : k # 1 => p[k] = q[k - 1]
  <2> TAKE k \in 1 .. (l + 1)
  <2>1. CASE k # 1
    <3>1. k - 1 \in 1 .. l /\ (k - 1) + 1 = k
      BY <1>2, <2>1
    <3> QED
      BY <1>1, <3>1
  <2> QED
    BY <2>1
<1>6. ASSUME NEW y PROVE y \in Range(p) <=> y \in Range(q) \/ y = x
  <2>1. ASSUME y \in Range(p) PROVE y \in Range(q) \/ y = x
    <3>1. PICK k \in 1 .. (l + 1) : y = p[k]
      BY <1>1, <2>1 DEF Range
    <3>2. CASE k = 1
      BY <1>1, <3>1, <3>2
    <3>3. CASE k # 1
      BY <1>1, <1>2, <1>5, <3>1, <3>3 DEF Range
    <3> QED
      BY <3>2, <3>3
  <2>2. ASSUME y \in Range(q) PROVE y \in Range(p)
    <3>1. PICK k \in 1 .. l : y = q[k]
      BY <1>1, <2>2 DEF Range
    <3>2. k + 1 \in DOMAIN p /\ p[k + 1] = y
      BY <1>1, <1>3, <3>1
    <3> QED
      BY <3>2 DEF Range
  <2>3. x \in Range(p)
    BY <1>1, <1>4 DEF Range
  <2> QED
    BY <2>1, <2>2, <2>3
<1>7. ASSUME IsInjective(q), x \notin Range(q) PROVE IsInjective(p)
  <2>1. \A k \in 1 .. l : q[k] # x
    BY <1>1, <1>7 DEF Range
  <2>2. \A a, b \in 1 .. l : q[a] = q[b] => a = b
    BY <1>1, <1>7 DEF IsInjective
  <2>3. ASSUME NEW a \in 1 .. (l + 1), NEW b \in 1 .. (l + 1), p[a] = p[b] PROVE a = b
    <3>1. CASE a = 1 /\ b # 1
      BY <1>1, <1>2, <1>5, <2>1, <2>3, <3>1
    <3>2. CASE a # 1 /\ b = 1
      BY <1>1, <1>2, <1>5, <2>1, <2>3, <3>2
    <3>3. CASE a # 1 /\ b # 1
      <4>1. q[a - 1] = q[b - 1] /\ a - 1 \in 1 .. l /\ b - 1 \in 1 .. l
        BY <1>2, <1>5, <2>3, <3>3
      <4>2. a - 1 = b - 1
        BY <2>2, <4>1
      <4> QED
        BY <4>2
    <3> QED
      BY <3>1, <3>2, <3>3
  <2> QED
    BY <1>1, <2>3 DEF IsInjective
<1> QED
  BY <1>1, <1>6, <1>7 DEF l

\* BlDtGetString puts a name it has not met in the bucket its hash says.
LEMMA Inserted ==
    ASSUME NEW t, Hashed(t), Len(t) # 0, NEW x \in PropertyNames,
           x \notin Names(t), NEW u, u = Insert(t, x)
    PROVE  /\ Hashed(u) /\ Len(u) = Len(t) /\ Names(u) = Names(t) \union {x}
           /\ Count(u) = Count(t) + 1
<1> DEFINE n == Len(t)
           P == PropertyNames
           c == Bucket(t, x)
<1>1. n \in Nat /\ t \in [1 .. n -> Seq(P)] /\ DOMAIN t = 1 .. n
  BY DEF Hashed
<1>2. c \in 1 .. n
  BY <1>1, BucketIs
<1>3. /\ \A b \in 1 .. n : IsInjective(t[b])
      /\ \A b \in 1 .. n, y \in P : y \in Range(t[b]) => b = Bucket(t, y)
  BY <1>1 DEF Hashed
<1>4. u = [t EXCEPT ![c] = <<x>> \o t[c]]
  BY DEF Insert
<1> DEFINE p == <<x>> \o t[c]
<1>5. x \notin Range(t[c])
  BY <1>1, <1>2 DEF Names
<1>6. t[c] \in Seq(P)
  BY <1>1, <1>2
<1>7. /\ p \in Seq(P) /\ Len(p) = Len(t[c]) + 1
      /\ \A y : y \in Range(p) <=> y \in Range(t[c]) \/ y = x
      /\ IsInjective(p)
  <2>1. IsInjective(t[c]) /\ x \notin Range(t[c]) /\ t[c] \in Seq(P) /\ x \in P
    BY <1>2, <1>3, <1>5, <1>6
  <2> DEFINE q == t[c]
  <2>2. PutFirst(P, q, x, p)
    BY <1>6 DEF PutFirst
  <2> HIDE DEF q, p, P
  <2>3. /\ p \in Seq(P) /\ Len(p) = Len(q) + 1
        /\ \A y : y \in Range(p) <=> y \in Range(q) \/ y = x
        /\ IsInjective(q) /\ x \notin Range(q) => IsInjective(p)
    BY <2>2, Prepended
  <2> QED
    BY <2>1, <2>3 DEF q
<1> HIDE DEF p, c, n
<1>8. /\ u \in [1 .. n -> Seq(P)] /\ DOMAIN u = 1 .. n /\ u[c] = p
      /\ \A b \in 1 .. n : b # c => u[b] = t[b]
  BY <1>1, <1>2, <1>4, <1>7 DEF p
<1>9. Len(u) = n
  BY <1>1, <1>8, LengthIs
<1>10. \A y \in P : Bucket(u, y) = Bucket(t, y)
  BY <1>9 DEF Bucket, Capacity, n
<1>11. \A b \in 1 .. n : IsInjective(u[b])
  BY <1>3, <1>7, <1>8
<1>12. \A b \in 1 .. n : \A y : y \in Range(u[b]) <=> y \in Range(t[b]) \/ (b = c /\ y = x)
  BY <1>7, <1>8
<1>13. \A b \in 1 .. n, y \in P : y \in Range(u[b]) => b = Bucket(u, y)
  BY <1>3, <1>10, <1>12 DEF c
<1>14. Hashed(u)
  BY <1>1, <1>8, <1>9, <1>11, <1>13 DEF Hashed
<1>15. Names(u) = Names(t) \union {x}
  <2>1. \A y \in P : (\E b \in 1 .. n : y \in Range(u[b]))
                       <=> (\E b \in 1 .. n : y \in Range(t[b])) \/ y = x
    BY <1>2, <1>12
  <2>2. /\ Names(u) = {y \in P : \E b \in 1 .. n : y \in Range(u[b])}
        /\ Names(t) = {y \in P : \E b \in 1 .. n : y \in Range(t[b])}
    BY <1>1, <1>8 DEF Names
  <2> QED
    BY <2>1, <2>2
<1>16. Count(u) = Count(t) + 1
  <2>1. PICK S : Pieces(P, t, n, S)
    BY <1>1, PiecesAre
  <2> DEFINE V == [i \in Nat |-> IF i >= c THEN S[i] + 1 ELSE S[i]]
  <2>2. /\ S \in [Nat -> Nat] /\ S[0] = 0
        /\ \A i \in 1 .. n : S[i] = S[i - 1] + Len(t[i])
    BY <2>1 DEF Pieces
  <2>3. \A i \in Nat : V[i] = (IF i >= c THEN S[i] + 1 ELSE S[i]) /\ V[i] \in Nat
    BY <2>2
  <2>4. V \in [Nat -> Nat]
    BY <2>3
  <2>5. c \in Nat /\ c >= 1 /\ c <= n
    BY <1>1, <1>2
  <2> HIDE DEF V
  <2>6. V[0] = 0 /\ V[n] = S[n] + 1
    <3>1. 0 \in Nat /\ ~(0 >= c) /\ n \in Nat /\ n >= c
      BY <1>1, <2>5
    <3>2. V[0] = S[0] /\ V[n] = S[n] + 1
      BY <2>3, <3>1
    <3> QED
      BY <2>2, <3>2
  <2>7. ASSUME NEW i \in 1 .. n PROVE V[i] = V[i - 1] + Len(u[i])
    <3>1. i \in Nat /\ i - 1 \in Nat
      BY <1>1
    <3> DEFINE a == S[i]
               b == S[i - 1]
               l == Len(t[i])
    <3>2. a = b + l /\ a \in Nat /\ b \in Nat
      BY <2>2, <3>1
    <3>3. l \in Nat
      <4>1. t[i] \in Seq(P)
        BY <1>1
      <4> QED
        BY <4>1
    <3>4. V[i] = (IF i >= c THEN a + 1 ELSE a) /\ V[i - 1] = (IF i - 1 >= c THEN b + 1 ELSE b)
      BY <2>3, <3>1
    <3>5. Len(u[i]) = IF i = c THEN l + 1 ELSE l
      BY <1>7, <1>8
    <3> HIDE DEF a, b, l
    <3> QED
      BY <2>5, <3>1, <3>2, <3>3, <3>4, <3>5
  <2>8. Pieces(P, u, n, V)
    BY <1>8, <2>4, <2>6, <2>7 DEF Pieces
  <2>9. Count(t) = S[n] /\ S[n] \in Nat
    BY <1>1, <2>1, CountIs
  <2>10. Count(u) = V[n]
    BY <1>1, <2>8, CountIs
  <2> QED
    BY <2>6, <2>9, <2>10
<1> QED
  BY <1>9, <1>14, <1>15, <1>16 DEF n

\* Growing the table: the names are inserted one after the other.
LEMMA InsertType ==
    ASSUME NEW c \in Nat \ {0},
           NEW t \in [1 .. c -> Seq(PropertyNames)], NEW x \in PropertyNames
    PROVE  Insert(t, x) \in [1 .. c -> Seq(PropertyNames)]
<1>1. Len(t) = c
  BY LengthIs
<1>2. Bucket(t, x) \in 1 .. c
  BY <1>1, BucketIs
<1> DEFINE b == Bucket(t, x)
           p == <<x>> \o t[b]
<1>3. p \in Seq(PropertyNames)
  <2>1. t[b] \in Seq(PropertyNames)
    BY <1>2
  <2>2. <<x>> \in Seq(PropertyNames)
    OBVIOUS
  <2> HIDE DEF b
  <2> QED
    BY <2>1, <2>2
<1>4. Insert(t, x) = [t EXCEPT ![b] = p]
  BY DEF Insert
<1> HIDE DEF b, p
<1> QED
  BY <1>3, <1>4

\* One name after the other, up to the last.
Moved(h, base, all) ==
    h = [k \in 0 .. Len(all) |-> IF k = 0 THEN base ELSE Insert(h[k - 1], all[k])]

LEMMA MovedIs ==
    ASSUME NEW c \in Nat \ {0},
           NEW base \in [1 .. c -> Seq(PropertyNames)], NEW all \in Seq(PropertyNames)
    PROVE  \E h : Moved(h, base, all)
<1> DEFINE P == PropertyNames
           L == Len(all)
           V == [1 .. c -> Seq(P)]
           step == [k \in Nat |-> [t \in V |-> IF k \in 1 .. L THEN Insert(t, all[k]) ELSE t]]
<1>1. L \in Nat /\ \A k \in 1 .. L : all[k] \in P
  OBVIOUS
<1>2. \A t \in V, x \in P : Insert(t, x) \in V
  BY InsertType
<1>3. base \in V
  OBVIOUS
<1> HIDE DEF V, L, P
<1>4. step \in [Nat -> [V -> V]]
  BY <1>1, <1>2
<1>5. PICK f : Runs(f, V, base, step)
  <2> HIDE DEF step
  <2> QED
    BY <1>3, <1>4, TypedRecursion
<1>6. f \in [Nat -> V] /\ f[0] = base /\ \A n \in Nat : f[n + 1] = step[n + 1][f[n]]
  BY <1>5 DEF Runs
<1>7. ASSUME NEW k \in 1 .. L PROVE f[k] = Insert(f[k - 1], all[k])
  <2>1. k - 1 \in Nat /\ (k - 1) + 1 = k /\ k \in Nat
    BY <1>1
  <2>2. f[k - 1] \in V /\ f[k] = step[k][f[k - 1]]
    BY <1>6, <2>1
  <2>3. step[k] = [t \in V |-> Insert(t, all[k])]
    BY <2>1
  <2> HIDE DEF step
  <2> QED
    BY <2>2, <2>3
<1> HIDE DEF step
<1> DEFINE g == [k \in 0 .. L |-> f[k]]
<1>8. \A k \in 0 .. L : g[k] = IF k = 0 THEN base ELSE Insert(g[k - 1], all[k])
  <2> TAKE k \in 0 .. L
  <2>1. CASE k = 0
    BY <1>6, <2>1
  <2>2. CASE k # 0
    <3>1. k \in 1 .. L /\ k - 1 \in 0 .. L
      BY <1>1, <2>2
    <3>2. g[k] = f[k] /\ g[k - 1] = f[k - 1]
      BY <3>1
    <3> HIDE DEF g
    <3> QED
      BY <1>7, <2>2, <3>1, <3>2
  <2> QED
    BY <2>1, <2>2
<1>9. g = [k \in 0 .. L |-> IF k = 0 THEN base ELSE Insert(g[k - 1], all[k])]
  <2>1. g = [k \in 0 .. L |-> g[k]]
    OBVIOUS
  <2> HIDE DEF g
  <2> QED
    BY <1>8, <2>1
<1> HIDE DEF g
<1> QED
  BY <1>9, Zenon DEF Moved, L

\* BlDtGetString's new table has the names of the old one.
LEMMA GrownIs ==
    ASSUME NEW t, Hashed(t), NEW u, u = Grown(t)
    PROVE  /\ Hashed(u) /\ Names(u) = Names(t) /\ Count(u) = Count(t)
           /\ Len(u) = IF Len(t) = 0 THEN InitialCapacity ELSE 2 * Len(t)
<1> DEFINE c == IF Capacity(t) = 0 THEN InitialCapacity ELSE 2 * Capacity(t)
           P == PropertyNames
           all == FlattenSeq(t)
           base == [b \in 1 .. c |-> <<>>]
           L == Len(all)
           whole == CHOOSE h : h = [k \in 0 .. Len(all) |->
                      IF k = 0 THEN base ELSE Insert(h[k - 1], all[k])]
<1>1. u = whole[L]
  BY Zenon DEF Grown
<1>2. c \in Nat \ {0} /\ c = IF Len(t) = 0 THEN InitialCapacity ELSE 2 * Len(t)
  BY DeviceTreeAssumption DEF Hashed, Capacity
<1>3. all \in Seq(P) /\ Range(all) = Names(t) /\ IsInjective(all)
  BY HashedIs
<1>4. Count(t) = L
  BY DEF Count
<1> HIDE DEF c, P, all
<1>5. L \in Nat /\ DOMAIN all = 1 .. L /\ \A k \in 1 .. L : all[k] \in P
  BY <1>3
<1>6. /\ Hashed(base) /\ Len(base) = c /\ Names(base) = {} /\ Count(base) = 0
      /\ base \in [1 .. c -> Seq(P)]
  BY <1>2, EmptyTable DEF P
<1>7. Moved(whole, base, all)
  <2> HIDE DEF base
  <2>1. \E h : Moved(h, base, all)
    BY <1>2, <1>3, <1>6, MovedIs DEF P
  <2>2. \E h : h = [k \in 0 .. Len(all) |-> IF k = 0 THEN base ELSE Insert(h[k - 1], all[k])]
    BY <2>1, Zenon DEF Moved
  <2>3. whole = [k \in 0 .. Len(all) |->
                   IF k = 0 THEN base ELSE Insert(whole[k - 1], all[k])]
    BY <2>2, Zenon
  <2> HIDE DEF whole
  <2> QED
    BY <2>3, Zenon DEF Moved
<1> HIDE DEF base, whole, L
<1>8. /\ whole[0] = base
      /\ \A k \in 1 .. L : whole[k] = Insert(whole[k - 1], all[k])
  <2>1. whole = [k \in 0 .. L |-> IF k = 0 THEN base ELSE Insert(whole[k - 1], all[k])]
    BY <1>7, Zenon DEF Moved, L
  <2>2. \A k \in 0 .. L : whole[k] = IF k = 0 THEN base ELSE Insert(whole[k - 1], all[k])
    BY <2>1
  <2>3. 0 \in 0 .. L /\ \A k \in 1 .. L : k \in 0 .. L /\ k # 0
    BY <1>5
  <2> QED
    BY <2>2, <2>3
<1> DEFINE First(k) == {x \in P : \E i \in 1 .. k : x = all[i]}
           Good(k) == /\ Hashed(whole[k]) /\ Len(whole[k]) = c
                      /\ Names(whole[k]) = First(k) /\ Count(whole[k]) = k
           T == {k \in Nat : k <= L => Good(k)}
<1>9. 0 \in T
  <2>1. First(0) = {}
    OBVIOUS
  <2>2. Good(0)
    BY <1>6, <1>8, <2>1
  <2> HIDE DEF Good
  <2> QED
    BY <2>2
<1>10. \A k \in T : k + 1 \in T
  <2> SUFFICES ASSUME NEW k \in Nat, k + 1 <= L, Good(k) PROVE Good(k + 1)
    <3> HIDE DEF Good
    <3>1. \A k \in T : k \in Nat /\ k + 1 \in Nat /\ (k <= L => Good(k))
      OBVIOUS
    <3>2. ASSUME NEW k \in T PROVE k + 1 \in T
      <4>1. k + 1 <= L => k <= L
        BY <1>5, <3>1
      <4>2. k + 1 <= L => Good(k + 1)
        BY <3>1, <4>1
      <4> QED
        BY <3>1, <4>2
    <3> QED
      BY <3>2
  <2> DEFINE a == whole[k]
             b == whole[k + 1]
             x == all[k + 1]
  <2>1. k + 1 \in 1 .. L /\ (k + 1) - 1 = k
    BY <1>5
  <2>2. b = Insert(a, x) /\ x \in P
    BY <1>5, <1>8, <2>1
  <2>3. x \notin First(k)
    <3>1. ASSUME NEW i \in 1 .. k, x = all[i] PROVE FALSE
      <4>1. i \in 1 .. L /\ i # k + 1
        BY <1>5
      <4>2. i \in DOMAIN all /\ k + 1 \in DOMAIN all /\ all[i] = all[k + 1]
        BY <1>5, <2>1, <3>1, <4>1
      <4> QED
        BY <1>3, <4>1, <4>2 DEF IsInjective
    <3> QED
      BY <3>1
  <2>4. Hashed(a) /\ Len(a) = c /\ Names(a) = First(k) /\ Count(a) = k
    OBVIOUS
  <2>5. First(k + 1) = First(k) \union {x}
    <3>1. \A i \in 1 .. (k + 1) : i \in 1 .. k \/ i = k + 1
      OBVIOUS
    <3>2. \A i \in 1 .. k : i \in 1 .. (k + 1)
      OBVIOUS
    <3>3. k + 1 \in 1 .. (k + 1)
      OBVIOUS
    <3> QED
      BY <2>2, <3>1, <3>2, <3>3
  <2> HIDE DEF a, b, x, First
  <2>6. Len(a) # 0 /\ x \in PropertyNames /\ x \notin Names(a)
    BY <1>2, <2>2, <2>3, <2>4 DEF P
  <2>7. /\ Hashed(b) /\ Len(b) = Len(a) /\ Names(b) = Names(a) \union {x}
        /\ Count(b) = Count(a) + 1
    BY <2>2, <2>4, <2>6, Inserted
  <2> QED
    BY <2>4, <2>5, <2>7 DEF b
<1>11. \A k \in Nat : k \in T
  <2>1. T \in SUBSET Nat
    OBVIOUS
  <2> HIDE DEF T
  <2> QED
    BY <1>9, <1>10, <2>1, Induction
<1>12. Good(L)
  <2> HIDE DEF Good
  <2>1. L \in T
    BY <1>5, <1>11
  <2> QED
    BY <1>5, <2>1
<1>13. First(L) = Names(t)
  <2>1. Range(all) = {all[i] : i \in 1 .. L}
    BY <1>5 DEF Range
  <2> QED
    BY <1>3, <1>5, <2>1
<1> QED
  BY <1>1, <1>2, <1>4, <1>12, <1>13

\* A quarter of the table is free, but for what rounding takes.
Loaded(t) == Len(t) > 0 => 4 * Count(t) <= 3 * Len(t) + 3

LEMMA Room ==
    ASSUME NEW c \in Nat, NEW k \in Nat, k < c - (c \div 4)
    PROVE  c > 0 /\ 4 * (k + 1) <= 3 * c + 3
OBVIOUS

LEMMA CountType ==
    ASSUME NEW t, Hashed(t)
    PROVE  /\ Count(t) \in Nat /\ Len(t) \in Nat
           /\ Count(t) = 0 => Names(t) = {}
           /\ Len(t) = 0 => Count(t) = 0
<1> DEFINE F == FlattenSeq(t)
<1>1. F \in Seq(PropertyNames) /\ Range(F) = Names(t)
  BY HashedIs
<1>2. Len(F) \in Nat /\ (Len(F) = 0 => Range(F) = {})
  <2> HIDE DEF F
  <2> QED
    BY <1>1 DEF Range
<1>3. Len(t) \in Nat
  BY DEF Hashed
<1>4. Len(t) = 0 => Len(F) = 0
  BY Zenon DEF FlattenSeq
<1> QED
  BY <1>1, <1>2, <1>3, <1>4 DEF Count

\* BlDtGetString finds a name that is in the table.
LEMMA KnownIs ==
    ASSUME NEW t, Hashed(t), NEW x \in PropertyNames
    PROVE  Known(t, x) <=> x \in Names(t)
<1>1. ASSUME Known(t, x) PROVE x \in Names(t)
  <2>1. Count(t) > 0 /\ x \in Range(t[Bucket(t, x)])
    BY <1>1 DEF Known
  <2>2. Len(t) \in Nat \ {0}
    BY <2>1, CountType
  <2>3. Bucket(t, x) \in 1 .. Len(t)
    BY <2>2, BucketIs
  <2>4. DOMAIN t = 1 .. Len(t)
    BY DEF Hashed
  <2> QED
    BY <2>1, <2>3, <2>4 DEF Names
<1>2. ASSUME x \in Names(t) PROVE Known(t, x)
  <2>1. PICK b \in DOMAIN t : x \in Range(t[b])
    BY <1>2 DEF Names
  <2>2. b = Bucket(t, x)
    BY <2>1 DEF Hashed
  <2>3. Count(t) \in Nat /\ Count(t) # 0
    BY <1>2, CountType
  <2>4. Count(t) > 0
    BY <2>3
  <2> QED
    BY <2>1, <2>2, <2>4 DEF Known
<1> QED
  BY <1>1, <1>2

LEMMA GetStringIs ==
    ASSUME NEW t, Hashed(t), Loaded(t), NEW x \in PropertyNames,
           NEW u, u = GetString(t, x)
    PROVE  Hashed(u) /\ Loaded(u) /\ Names(u) = Names(t) \union {x}
<1> DEFINE n == Len(t)
           k == Count(t)
<1>1. n \in Nat /\ k \in Nat /\ (n = 0 => k = 0)
  BY CountType
<1>2. CASE Known(t, x)
  <2>1. u = t /\ x \in Names(t)
    BY <1>2, KnownIs DEF GetString
  <2> QED
    BY <2>1
<1>3. CASE ~Known(t, x) /\ k >= n - (n \div 4)
  <2> DEFINE w == Grown(t)
             m == Len(w)
  <2>1. x \notin Names(t)
    BY <1>3, KnownIs
  <2>2. u = Insert(w, x)
    BY <1>3 DEF GetString, Capacity
  <2>3. /\ Hashed(w) /\ Names(w) = Names(t) /\ Count(w) = k
        /\ m = IF n = 0 THEN InitialCapacity ELSE 2 * n
    BY GrownIs
  <2>4. InitialCapacity \in Nat /\ InitialCapacity >= 1
    BY DeviceTreeAssumption
  <2>5. n > 0 => 4 * k <= 3 * n + 3
    BY DEF Loaded
  <2> HIDE DEF n, k, w, m
  <2>6. m \in Nat /\ m # 0 /\ 4 * (k + 1) <= 3 * m + 3
    <3>1. CASE n = 0
      BY <1>1, <2>3, <2>4, <3>1
    <3>2. CASE n = 1
      BY <1>1, <2>3, <2>5, <3>2
    <3>3. CASE n >= 2
      <4>1. m = 2 * n
        BY <2>3, <3>3
      <4> QED
        BY <1>1, <2>5, <3>3, <4>1
    <3> QED
      BY <1>1, <3>1, <3>2, <3>3
  <2>7. Len(w) # 0 /\ x \notin Names(w)
    BY <2>1, <2>3, <2>6 DEF m
  <2>8. /\ Hashed(u) /\ Len(u) = Len(w) /\ Names(u) = Names(w) \union {x}
        /\ Count(u) = Count(w) + 1
    BY <2>2, <2>3, <2>7, Inserted
  <2>9. Len(u) = m /\ Count(u) = k + 1 /\ Names(u) = Names(t) \union {x}
    BY <2>3, <2>8 DEF m
  <2> QED
    BY <2>6, <2>8, <2>9 DEF Loaded
<1>4. CASE ~Known(t, x) /\ ~(k >= n - (n \div 4))
  <2>1. x \notin Names(t)
    BY <1>4, KnownIs
  <2>2. u = Insert(t, x)
    BY <1>4 DEF GetString, Capacity
  <2>3. n > 0 /\ 4 * (k + 1) <= 3 * n + 3
    <3> HIDE DEF n, k
    <3>1. n \div 4 \in Nat
      BY <1>1
    <3>2. k < n - (n \div 4)
      BY <1>1, <1>4, <3>1
    <3> QED
      BY <1>1, <3>2, Room
  <2>4. Len(t) # 0
    BY <1>1, <2>3
  <2>5. /\ Hashed(u) /\ Len(u) = Len(t) /\ Names(u) = Names(t) \union {x}
        /\ Count(u) = Count(t) + 1
    BY <2>1, <2>2, <2>4, Inserted
  <2> QED
    BY <2>3, <2>5 DEF Loaded
<1> QED
  BY <1>2, <1>3, <1>4

-----------------------------------------------------------------------------
(* The nodes and their properties' names.                                    *)

NodeType == [parent : Nat, name : NodeNames \union {RootName}, children : Seq(Nat),
             properties : Seq([name : PropertyNames, size : Nat])]

\* The names of all the properties.
Used(t) == UNION {{p.name : p \in Range(t[n].properties)} : n \in DOMAIN t}

TreeInv ==
    /\ nodes \in Seq(NodeType)
    /\ Hashed(strings) /\ Loaded(strings)
    /\ Names(strings) = Used(nodes)

LEMMA StartOfTree == ASSUME TreeInit PROVE TreeInv
<1>1. nodes = <<Node(0, RootName)>> /\ strings = <<>>
  BY DEF TreeInit
<1>2. Node(0, RootName) \in NodeType /\ Node(0, RootName).properties = <<>>
  BY DEF Node, NodeType
<1>3. nodes \in Seq(NodeType) /\ DOMAIN nodes = {1} /\ nodes[1].properties = <<>>
  BY <1>1, <1>2
<1>4. Used(nodes) = {}
  <2>1. \A n \in DOMAIN nodes : Range(nodes[n].properties) = {}
    BY <1>3 DEF Range
  <2> QED
    BY <2>1 DEF Used
<1>5. strings = [b \in 1 .. 0 |-> <<>>]
  BY <1>1
<1>6. Hashed(strings) /\ Len(strings) = 0 /\ Names(strings) = {}
  BY <1>5, EmptyTable
<1> QED
  BY <1>3, <1>4, <1>6 DEF TreeInv, Loaded

\* A new node has no properties, and its parent keeps its own.
LEMMA TreeCreateNode ==
    ASSUME TreeInv, NEW parent \in DOMAIN nodes, NEW name \in NodeNames,
           CreateNode(parent, name)
    PROVE  TreeInv'
<1> DEFINE l == Len(nodes)
           old == nodes[parent]
           kept == [old EXCEPT !.children = Append(@, l + 1)]
           new == Node(parent, name)
           some == [nodes EXCEPT ![parent] = kept]
<1>1. nodes \in Seq(NodeType) /\ l \in Nat /\ DOMAIN nodes = 1 .. l
  BY DEF TreeInv
<1>2. nodes' = Append(some, new) /\ strings' = strings
  BY DEF CreateNode
<1>3. parent \in 1 .. l /\ parent \in Nat /\ old \in NodeType
  BY <1>1
<1>4. new \in NodeType /\ new.properties = <<>>
  BY <1>3 DEF Node, NodeType
<1>5. kept \in NodeType /\ kept.properties = old.properties
  <2> HIDE DEF old
  <2>1. old.children \in Seq(Nat) /\ l + 1 \in Nat
    BY <1>1, <1>3 DEF NodeType
  <2>2. Append(old.children, l + 1) \in Seq(Nat)
    BY <2>1
  <2> QED
    BY <1>3, <2>2 DEF NodeType
<1> HIDE DEF kept, new
<1>6. some \in Seq(NodeType) /\ Len(some) = l
  BY <1>1, <1>3, <1>5
<1>7. \A n \in 1 .. l : some[n].properties = nodes[n].properties
  BY <1>1, <1>5
<1> HIDE DEF some, l, old
<1>8. /\ nodes' \in Seq(NodeType) /\ DOMAIN nodes' = 1 .. (l + 1)
      /\ nodes'[l + 1] = new /\ \A n \in 1 .. l : nodes'[n] = some[n]
  BY <1>1, <1>2, <1>4, <1>6
<1>9. Used(nodes') = Used(nodes)
  <2>1. \A n \in 1 .. l : /\ n \in 1 .. (l + 1)
                          /\ nodes'[n].properties = nodes[n].properties
    BY <1>1, <1>7, <1>8
  <2>2. Range(nodes'[l + 1].properties) = {}
    BY <1>4, <1>8 DEF Range
  <2>3. \A n \in 1 .. (l + 1) : n \in 1 .. l \/ n = l + 1
    BY <1>1
  <2> QED
    BY <1>1, <1>8, <2>1, <2>2, <2>3 DEF Used
<1> QED
  BY <1>2, <1>8, <1>9 DEF TreeInv

\* A property's name is in the table when the property is in its node.
LEMMA TreeAddProperty ==
    ASSUME TreeInv, NEW parent \in DOMAIN nodes,
           NEW name \in PropertyNames, NEW size \in DataSizes,
           AddProperty(parent, name, size)
    PROVE  TreeInv'
<1> DEFINE l == Len(nodes)
           old == nodes[parent]
           property == [name |-> name, size |-> size]
           properties == Append(old.properties, property)
           new == [old EXCEPT !.properties = properties]
<1>1. nodes \in Seq(NodeType) /\ l \in Nat /\ DOMAIN nodes = 1 .. l
  BY DEF TreeInv
<1>2. nodes' = [nodes EXCEPT ![parent] = new] /\ strings' = GetString(strings, name)
  BY DEF AddProperty
<1>3. old \in NodeType /\ old.properties \in Seq([name : PropertyNames, size : Nat])
  <2>1. old \in NodeType
    BY <1>1
  <2> HIDE DEF old
  <2> QED
    BY <2>1 DEF NodeType
<1>4. property \in [name : PropertyNames, size : Nat] /\ property.name = name
  BY DeviceTreeAssumption
<1> HIDE DEF property, old
<1>5. /\ properties \in Seq([name : PropertyNames, size : Nat])
      /\ Range(properties) = Range(old.properties) \union {property}
  <2> DEFINE q == old.properties
             m == Len(q)
  <2>1. /\ m \in Nat /\ DOMAIN q = 1 .. m /\ DOMAIN properties = 1 .. (m + 1)
        /\ properties[m + 1] = property /\ \A i \in 1 .. m : properties[i] = q[i]
    BY <1>3, <1>4
  <2>2. properties \in Seq([name : PropertyNames, size : Nat])
    BY <1>3, <1>4
  <2> HIDE DEF m, q, properties
  <2>3. \A i \in 1 .. (m + 1) : i \in 1 .. m \/ i = m + 1
    BY <2>1
  <2>4. m + 1 \in 1 .. (m + 1) /\ \A i \in 1 .. m : i \in 1 .. (m + 1)
    BY <2>1
  <2>5. Range(properties) = Range(q) \union {property}
    BY <2>1, <2>3, <2>4 DEF Range
  <2> QED
    BY <2>2, <2>5 DEF q
<1> HIDE DEF properties
<1>6. new \in NodeType /\ new.properties = properties
  BY <1>3, <1>5 DEF NodeType
<1> HIDE DEF new
<1>7. /\ nodes' \in Seq(NodeType) /\ DOMAIN nodes' = DOMAIN nodes /\ nodes'[parent] = new
      /\ \A n \in DOMAIN nodes : n # parent => nodes'[n] = nodes[n]
  BY <1>1, <1>2, <1>6
<1>8. Used(nodes') = Used(nodes) \union {name}
  <2> DEFINE N(t, n) == {p.name : p \in Range(t[n].properties)}
  <2>1. N(nodes', parent) = N(nodes, parent) \union {name}
    BY <1>4, <1>5, <1>6, <1>7 DEF old
  <2>2. \A n \in DOMAIN nodes : n # parent => N(nodes', n) = N(nodes, n)
    BY <1>7
  <2>3. /\ Used(nodes') = UNION {N(nodes', n) : n \in DOMAIN nodes}
        /\ Used(nodes) = UNION {N(nodes, n) : n \in DOMAIN nodes}
    BY <1>7 DEF Used
  <2> HIDE DEF N
  <2> QED
    BY <2>1, <2>2, <2>3
<1>9. Hashed(strings') /\ Loaded(strings') /\ Names(strings') = Names(strings) \union {name}
  BY <1>2, GetStringIs DEF TreeInv
<1> QED
  BY <1>7, <1>8, <1>9 DEF TreeInv

LEMMA StepOfTree == ASSUME TreeInv, [TreeNext]_treeVars PROVE TreeInv'
<1>1. CASE \E parent \in DOMAIN nodes, name \in NodeNames : CreateNode(parent, name)
  BY <1>1, TreeCreateNode
<1>2. CASE \E parent \in DOMAIN nodes, name \in PropertyNames, size \in DataSizes :
             AddProperty(parent, name, size)
  BY <1>2, TreeAddProperty
<1>3. CASE UNCHANGED <<nodes, strings>>
  BY <1>3 DEF TreeInv, Used, Names, Hashed, Loaded, Count, Bucket, Capacity
<1>4. BuildStrings \/ Walk \/ EndBlob \/ UNCHANGED treeVars
        => UNCHANGED <<nodes, strings>>
  BY DEF BuildStrings, Walk, EndBlob, treeVars, tree
<1> QED
  BY <1>1, <1>2, <1>3, <1>4 DEF TreeNext

LEMMA TreeSafe == ASSUME TreeInv PROVE StringsFindable
<1>1. /\ Hashed(strings) /\ Loaded(strings) /\ Names(strings) = Used(nodes)
  BY DEF TreeInv
<1>2. /\ IsInjective(FlattenSeq(strings))
      /\ Range(FlattenSeq(strings)) = Names(strings)
  BY <1>1, HashedIs
<1>3. \A b \in DOMAIN strings, name \in PropertyNames :
        name \in Range(strings[b]) => b = Bucket(strings, name)
  BY <1>1 DEF Hashed
<1>4. Capacity(strings) > 0 =>
        4 * Count(strings) <= 3 * Capacity(strings) + 3
  BY <1>1 DEF Loaded, Capacity
<1> QED
  BY <1>1, <1>2, <1>3, <1>4 DEF StringsFindable, Used

\* Whatever names and hashes the properties have and however often the table grew,
\* BlDtGetString's table has the name of every property once, in the bucket
\* where the next search looks for it, and has room for another.
THEOREM StringsAreFindable == TreeSpec => []StringsFindable
<1>1. TreeInit => TreeInv
  BY StartOfTree
<1>2. TreeInv /\ [TreeNext]_treeVars => TreeInv'
  BY StepOfTree
<1>3. TreeInv => StringsFindable
  BY TreeSafe
<1> QED
  BY <1>1, <1>2, <1>3, PTL DEF TreeSpec

-----------------------------------------------------------------------------
(* What the elements of a sequence weigh together (DeviceTree).              *)

LEMMA Associative ==
    ASSUME NEW X
    PROVE  \A x, y, z \in Seq(X) : (x \o y) \o z = x \o (y \o z)
OBVIOUS

Weight(w, q) == Total([k \in DOMAIN q |-> w[q[k]]])

LEMMA WeightType ==
    ASSUME NEW X, NEW w \in [X -> Nat], NEW q \in Seq(X)
    PROVE  Weight(w, q) \in Nat
<1> DEFINE n == Len(q)
           s == [k \in 1 .. n |-> w[q[k]]]
<1>1. n \in Nat /\ DOMAIN q = 1 .. n /\ s \in [1 .. n -> Nat]
  OBVIOUS
<1>2. Weight(w, q) = Total(s)
  BY <1>1 DEF Weight
<1> HIDE DEF s, n
<1> QED
  BY <1>1, <1>2, TotalType

LEMMA WeightEmpty ==
    ASSUME NEW X, NEW w \in [X -> Nat]
    PROVE  Weight(w, <<>>) = 0
<1> DEFINE s == [k \in 1 .. 0 |-> w[<<>>[k]]]
<1>1. s \in [1 .. 0 -> Nat] /\ DOMAIN <<>> = 1 .. 0
  OBVIOUS
<1>2. Weight(w, <<>>) = Total(s)
  BY <1>1 DEF Weight
<1> HIDE DEF s
<1> QED
  BY <1>1, <1>2, TotalType

\* One element more.
LEMMA WeightMore ==
    ASSUME NEW X, NEW w \in [X -> Nat], NEW n \in Nat, NEW q \in [1 .. (n + 1) -> X],
           NEW p \in [1 .. n -> X], \A k \in 1 .. n : p[k] = q[k]
    PROVE  Weight(w, q) = Weight(w, p) + w[q[n + 1]]
<1> DEFINE s == [k \in 1 .. (n + 1) |-> w[q[k]]]
           r == [k \in 1 .. n |-> w[p[k]]]
<1>1. /\ s \in [1 .. (n + 1) -> Nat] /\ r \in [1 .. n -> Nat]
      /\ n + 1 \in 1 .. (n + 1) /\ s[n + 1] = w[q[n + 1]]
  OBVIOUS
<1>2. \A k \in 1 .. n : r[k] = s[k]
  <2> TAKE k \in 1 .. n
  <2>1. k \in 1 .. (n + 1)
    OBVIOUS
  <2> QED
    BY <2>1
<1>3. Weight(w, q) = Total(s) /\ Weight(w, p) = Total(r)
  BY DEF Weight
<1> HIDE DEF s, r
<1>4. Total(s) = Total(r) + s[n + 1]
  BY <1>1, <1>2, TotalMore
<1> QED
  BY <1>1, <1>3, <1>4

LEMMA WeightAppend ==
    ASSUME NEW X, NEW w \in [X -> Nat], NEW q \in Seq(X), NEW x \in X
    PROVE  Weight(w, Append(q, x)) = Weight(w, q) + w[x]
<1> DEFINE n == Len(q)
           r == Append(q, x)
<1>0. /\ r \in Seq(X) /\ Len(r) = Len(q) + 1 /\ r[Len(q) + 1] = x
      /\ \A k \in 1 .. Len(q) : r[k] = q[k]
  BY AppendProperties
<1> HIDE DEF r
<1>1. /\ n \in Nat /\ r \in [1 .. (n + 1) -> X] /\ q \in [1 .. n -> X]
      /\ r[n + 1] = x /\ \A k \in 1 .. n : q[k] = r[k]
  BY <1>0, LenProperties
<1> HIDE DEF n
<1>2. Weight(w, r) = Weight(w, q) + w[r[n + 1]]
  BY <1>1, WeightMore
<1> QED
  BY <1>1, <1>2 DEF r

\* The first elements of a sequence.
Firsts(q, n) == [k \in 1 .. n |-> q[k]]

LEMMA FirstsType ==
    ASSUME NEW X, NEW q \in Seq(X), NEW n \in 0 .. Len(q)
    PROVE  /\ Firsts(q, n) \in [1 .. n -> X]
           /\ \A k \in 1 .. n : Firsts(q, n)[k] = q[k]
<1>1. \A k \in 1 .. n : k \in 1 .. Len(q)
  OBVIOUS
<1> QED
  BY <1>1 DEF Firsts

LEMMA WeightFirsts ==
    ASSUME NEW X, NEW w \in [X -> Nat], NEW q \in Seq(X), NEW n \in Nat, n + 1 <= Len(q)
    PROVE  Weight(w, Firsts(q, n + 1)) = Weight(w, Firsts(q, n)) + w[q[n + 1]]
<1> DEFINE a == Firsts(q, n)
           b == Firsts(q, n + 1)
<1>1. n \in 0 .. Len(q) /\ n + 1 \in 0 .. Len(q)
  OBVIOUS
<1>2. /\ \A k \in 1 .. n : a[k] = q[k]
      /\ \A k \in 1 .. (n + 1) : b[k] = q[k]
  BY <1>1, FirstsType
<1>7. a \in [1 .. n -> X] /\ b \in [1 .. (n + 1) -> X]
  BY <1>1, FirstsType
<1> HIDE DEF a, b
<1>3. \A k \in 1 .. n : k \in 1 .. (n + 1)
  OBVIOUS
<1>4. \A k \in 1 .. n : a[k] = b[k]
  BY <1>2, <1>3
<1>5. Weight(w, b) = Weight(w, a) + w[b[n + 1]]
  BY <1>4, <1>7, WeightMore
<1>6. n + 1 \in 1 .. (n + 1)
  OBVIOUS
<1> QED
  BY <1>2, <1>5, <1>6 DEF a, b

LEMMA WeightConcat ==
    ASSUME NEW X, NEW w \in [X -> Nat], NEW a \in Seq(X), NEW b \in Seq(X)
    PROVE  Weight(w, a \o b) = Weight(w, a) + Weight(w, b)
<1> DEFINE n == Len(a)
           m == Len(b)
           c == a \o b
           F(q, k) == Weight(w, Firsts(q, k))
           T == {k \in Nat : k <= m => F(c, n + k) = F(a, n) + F(b, k)}
<1>1. /\ c \in Seq(X) /\ n \in Nat /\ m \in Nat /\ Len(c) = n + m
      /\ \A k \in 1 .. n : c[k] = a[k]
      /\ \A k \in 1 .. m : c[n + k] = b[k]
  BY Joined
<1>2. Firsts(a, n) = a /\ Firsts(b, m) = b /\ Firsts(c, n) = Firsts(a, n)
  <2>1. Firsts(a, n) = a /\ Firsts(b, m) = b
    BY DEF Firsts
  <2> HIDE DEF c, n
  <2>2. Firsts(c, n) = Firsts(a, n)
    BY <1>1 DEF Firsts
  <2> QED
    BY <2>1, <2>2
<1>3. Firsts(c, n + m) = c
  <2> HIDE DEF c, n, m
  <2>1. c = [k \in 1 .. Len(c) |-> c[k]]
    BY <1>1
  <2> QED
    BY <1>1, <2>1 DEF Firsts
<1> HIDE DEF c, n, m
<1>4. ASSUME NEW j \in Nat, j + 1 <= Len(c)
      PROVE  Weight(w, Firsts(c, j + 1)) = Weight(w, Firsts(c, j)) + w[c[j + 1]]
  <2>1. c \in Seq(X)
    BY <1>1
  <2> QED
    BY <1>4, <2>1, WeightFirsts
<1>5. 0 \in T
  <2>1. Firsts(b, 0) = <<>>
    BY DEF Firsts
  <2>2. F(b, 0) = 0
    BY <2>1, WeightEmpty
  <2>3. F(a, n) \in Nat
    BY <1>2, WeightType
  <2>4. n + 0 = n
    BY <1>1
  <2> QED
    BY <1>2, <2>2, <2>3, <2>4
<1>6. ASSUME NEW k \in T PROVE k + 1 \in T
  <2> SUFFICES ASSUME k + 1 <= m PROVE F(c, n + (k + 1)) = F(a, n) + F(b, k + 1)
    OBVIOUS
  <2>1. k \in Nat /\ k <= m /\ F(c, n + k) = F(a, n) + F(b, k)
    BY <1>1
  <2>2. n + k \in Nat /\ (n + k) + 1 <= Len(c) /\ n + (k + 1) = (n + k) + 1 /\ k + 1 \in 1 .. m
    BY <1>1, <2>1
  <2>3. F(c, (n + k) + 1) = F(c, n + k) + w[c[(n + k) + 1]]
    BY <1>4, <2>2
  <2>4. F(b, k + 1) = F(b, k) + w[b[k + 1]]
    <3>1. k + 1 <= Len(b)
      BY DEF m
    <3> QED
      BY <2>1, <3>1, WeightFirsts
  <2>5. c[(n + k) + 1] = b[k + 1] /\ b[k + 1] \in X
    <3>1. b[k + 1] \in X
      BY <2>2 DEF m
    <3>2. c[n + (k + 1)] = b[k + 1]
      BY <1>1, <2>2
    <3> QED
      BY <2>2, <3>1, <3>2
  <2>6. F(a, n) \in Nat /\ F(b, k) \in Nat /\ w[b[k + 1]] \in Nat
    <3>1. F(a, n) \in Nat
      BY <1>2, WeightType
    <3>2. F(b, k) \in Nat
      <4>1. k \in 0 .. Len(b)
        BY <1>1, <2>1 DEF m
      <4>2. Firsts(b, k) \in [1 .. k -> X]
        BY <4>1, FirstsType
      <4>3. Firsts(b, k) \in Seq(X)
        BY <2>1, <4>2, LengthIs
      <4> QED
        BY <4>3, WeightType
    <3> QED
      BY <2>5, <3>1, <3>2
  <2> DEFINE u == F(a, n)
             v == F(b, k)
             x == w[b[k + 1]]
  <2>7. F(c, n + (k + 1)) = (u + v) + x /\ F(b, k + 1) = v + x /\ u \in Nat /\ v \in Nat /\ x \in Nat
    BY <2>1, <2>2, <2>3, <2>4, <2>5, <2>6
  <2> HIDE DEF u, v, x
  <2>8. F(c, n + (k + 1)) = u + F(b, k + 1)
    BY <2>7
  <2> QED
    BY <2>8 DEF u
<1>7. \A k \in Nat : k \in T
  <2>1. T \in SUBSET Nat
    OBVIOUS
  <2> HIDE DEF T
  <2> QED
    BY <1>5, <1>6, <2>1, Induction
<1>8. F(c, n + m) = F(a, n) + F(b, m)
  BY <1>1, <1>7
<1> QED
  BY <1>2, <1>3, <1>8 DEF c

-----------------------------------------------------------------------------
(* Sequences put together, with one more behind or in front (DeviceTree).    *)

LEMMA FlattenEmpty ==
    ASSUME NEW X, NEW s \in [1 .. 0 -> Seq(X)]
    PROVE  FlattenSeq(s) = <<>>
<1>1. PICK S : Pieces(X, s, 0, S)
  <2>1. 0 \in Nat
    OBVIOUS
  <2> QED
    BY <2>1, PiecesAre
<1>2. Located(X, s, 0, S)
  BY <1>1, LocatedIf
<1>3. S[0] = 0
  BY <1>1 DEF Pieces
<1>4. FlattenSeq(s) \in Seq(X) /\ Len(FlattenSeq(s)) = 0
  BY <1>2, <1>3 DEF Located
<1> QED
  BY <1>4, EmptySeq

LEMMA FlattenMore ==
    ASSUME NEW X, NEW n \in Nat, NEW s \in [1 .. (n + 1) -> Seq(X)],
           NEW r \in [1 .. n -> Seq(X)], \A k \in 1 .. n : r[k] = s[k]
    PROVE  FlattenSeq(s) = FlattenSeq(r) \o s[n + 1]
<1> DEFINE F == FlattenSeq(s)
           G == FlattenSeq(r)
           t == s[n + 1]
           H == G \o t
<1>0. n + 1 \in Nat /\ n + 1 \in 1 .. (n + 1) /\ (n + 1) - 1 = n
      /\ \A k \in 1 .. n : k \in 1 .. (n + 1)
  OBVIOUS
<1>1. PICK S : Pieces(X, s, n + 1, S)
  BY <1>0, PiecesAre
<1>2. Pieces(X, r, n, S)
  <2>1. \A k \in 1 .. n : S[k] = S[k - 1] + Len(r[k])
    BY <1>0, <1>1 DEF Pieces
  <2> QED
    BY <1>1, <2>1 DEF Pieces
<1>3. Located(X, s, n + 1, S) /\ Located(X, r, n, S)
  BY <1>0, <1>1, <1>2, LocatedIf
<1>4. S[n] \in Nat /\ S[n + 1] = S[n] + Len(t)
  BY <1>0, <1>1 DEF Pieces
<1>5. t \in Seq(X) /\ Len(t) \in Nat
  <2>1. t \in Seq(X)
    BY <1>0
  <2> HIDE DEF t
  <2> QED
    BY <2>1
<1>6. /\ F \in Seq(X) /\ Len(F) = S[n + 1]
      /\ \A i \in 1 .. (n + 1) : \A j \in 1 .. Len(s[i]) : F[S[i - 1] + j] = s[i][j]
  BY <1>3 DEF Located
<1>7. /\ G \in Seq(X) /\ Len(G) = S[n]
      /\ \A i \in 1 .. n : \A j \in 1 .. Len(r[i]) : G[S[i - 1] + j] = r[i][j]
      /\ \A k \in 1 .. S[n] : \E i \in 1 .. n : \E j \in 1 .. Len(r[i]) : k = S[i - 1] + j
  BY <1>3 DEF Located
<1>8. \A j \in 1 .. Len(t) : F[S[n] + j] = t[j]
  BY <1>0, <1>6
<1> HIDE DEF F, G, t
<1>9. /\ H \in Seq(X) /\ Len(H) = S[n] + Len(t)
      /\ \A k \in 1 .. S[n] : H[k] = G[k]
      /\ \A j \in 1 .. Len(t) : H[S[n] + j] = t[j]
  <2>0. G \in Seq(X) /\ t \in Seq(X)
    BY <1>5, <1>7
  <2>1. G \in Seq(X) /\ t \in Seq(X) /\ Len(G) = S[n]
    BY <1>5, <1>7
  <2>2. /\ H \in Seq(X) /\ Len(H) = Len(G) + Len(t)
        /\ \A k \in 1 .. Len(G) : H[k] = G[k]
        /\ \A j \in 1 .. Len(t) : H[Len(G) + j] = t[j]
    BY <2>0, Joined
  <2> QED
    BY <2>1, <2>2
<1> HIDE DEF H
<1>10. ASSUME NEW k \in 1 .. Len(F) PROVE F[k] = H[k]
  <2>1. CASE k <= S[n]
    <3>1. k \in 1 .. S[n]
      BY <1>4, <2>1
    <3>2. PICK i \in 1 .. n : \E j \in 1 .. Len(r[i]) : k = S[i - 1] + j
      BY <1>7, <3>1
    <3>3. PICK j \in 1 .. Len(r[i]) : k = S[i - 1] + j
      BY <3>2
    <3>4. i \in 1 .. (n + 1) /\ r[i] = s[i]
      BY <1>0
    <3>5. G[k] = r[i][j] /\ F[k] = s[i][j]
      BY <1>6, <1>7, <3>3, <3>4
    <3> QED
      BY <1>9, <3>1, <3>4, <3>5
  <2>2. CASE ~(k <= S[n])
    <3> DEFINE j == k - S[n]
    <3>1. k \in Nat /\ k <= S[n] + Len(t)
      BY <1>4, <1>5, <1>6
    <3>2. j \in 1 .. Len(t) /\ k = S[n] + j
      BY <1>4, <1>5, <2>2, <3>1
    <3> HIDE DEF j
    <3> QED
      BY <1>8, <1>9, <3>2
  <2> QED
    BY <2>1, <2>2
<1>11. Len(F) = Len(H)
  BY <1>4, <1>6, <1>9
<1>12. F = H
  BY <1>6, <1>9, <1>10, <1>11, SeqEqual
<1> QED
  BY <1>12 DEF F, G, t, H

LEMMA FlattenFirst ==
    ASSUME NEW X, NEW n \in Nat, NEW s \in [1 .. (n + 1) -> Seq(X)],
           NEW r \in [1 .. n -> Seq(X)], \A k \in 1 .. n : r[k] = s[k + 1]
    PROVE  FlattenSeq(s) = s[1] \o FlattenSeq(r)
<1> DEFINE F == FlattenSeq(s)
           G == FlattenSeq(r)
           t == s[1]
           l == Len(t)
           H == t \o G
<1>0. n + 1 \in Nat /\ 1 \in 1 .. (n + 1)
  OBVIOUS
<1>1. t \in Seq(X) /\ l \in Nat
  <2>1. t \in Seq(X)
    BY <1>0
  <2> HIDE DEF t
  <2> QED
    BY <2>1
<1>2. PICK R : Pieces(X, r, n, R)
  BY PiecesAre
<1>3. R \in [Nat -> Nat] /\ R[0] = 0 /\ \A i \in 1 .. n : R[i] = R[i - 1] + Len(r[i])
  BY <1>2 DEF Pieces
<1> DEFINE S == [k \in Nat |-> IF k = 0 THEN 0 ELSE l + R[k - 1]]
<1>4. S \in [Nat -> Nat] /\ S[0] = 0 /\ \A k \in Nat : S[k + 1] = l + R[k]
  <2> HIDE DEF l
  <2>1. \A k \in Nat : k # 0 => k - 1 \in Nat
    OBVIOUS
  <2>2. ASSUME NEW k \in Nat, k # 0 PROVE l + R[k - 1] \in Nat
    <3>1. R[k - 1] \in Nat
      BY <1>3, <2>1, <2>2
    <3> QED
      BY <1>1, <3>1
  <2>3. \A k \in Nat : k + 1 \in Nat /\ k + 1 # 0 /\ (k + 1) - 1 = k
    OBVIOUS
  <2> QED
    BY <2>2, <2>3
<1> HIDE DEF S
<1>5. ASSUME NEW i \in 1 .. (n + 1) PROVE S[i] = S[i - 1] + Len(s[i])
  <2>1. CASE i = 1
    <3>1. S[0 + 1] = l + R[0] /\ 0 + 1 = 1 /\ 1 - 1 = 0
      BY <1>4
    <3>2. S[1] = l
      BY <1>1, <1>3, <3>1
    <3>3. S[i - 1] = 0 /\ Len(s[i]) = l
      BY <1>4, <2>1, <3>1
    <3> HIDE DEF l
    <3> QED
      BY <1>1, <2>1, <3>2, <3>3
  <2>2. CASE i # 1
    <3> DEFINE j == i - 1
               k == i - 2
    <3>1. j \in 1 .. n /\ k \in Nat /\ j \in Nat /\ i = j + 1 /\ j = k + 1 /\ j - 1 = k
      BY <2>2
    <3> HIDE DEF j, k
    <3>2. S[i] = l + R[j] /\ S[j] = l + R[k] /\ R[j] = R[k] + Len(r[j]) /\ r[j] = s[i]
      BY <1>3, <1>4, <3>1
    <3>3. R[k] \in Nat /\ Len(r[j]) \in Nat
      <4>1. r[j] \in Seq(X)
        BY <3>1
      <4> QED
        BY <1>3, <3>1, <4>1
    <3>4. S[i] = S[j] + Len(s[i])
      BY <1>1, <3>2, <3>3
    <3>5. i - 1 = j
      BY <3>1
    <3> QED
      BY <3>4, <3>5
  <2> QED
    BY <2>1, <2>2
<1>6. Pieces(X, s, n + 1, S)
  BY <1>4, <1>5 DEF Pieces
<1>7. Located(X, s, n + 1, S) /\ Located(X, r, n, R)
  BY <1>0, <1>2, <1>6, LocatedIf
<1>8. /\ F \in Seq(X) /\ Len(F) = S[n + 1]
      /\ \A i \in 1 .. (n + 1) : \A j \in 1 .. Len(s[i]) : F[S[i - 1] + j] = s[i][j]
  BY <1>7 DEF Located
<1>9. /\ G \in Seq(X) /\ Len(G) = R[n]
      /\ \A i \in 1 .. n : \A j \in 1 .. Len(r[i]) : G[R[i - 1] + j] = r[i][j]
      /\ \A k \in 1 .. R[n] : \E i \in 1 .. n : \E j \in 1 .. Len(r[i]) : k = R[i - 1] + j
  BY <1>7 DEF Located
<1>10. \A j \in 1 .. l : F[j] = t[j]
  <2> TAKE j \in 1 .. l
  <2>1. F[S[1 - 1] + j] = s[1][j]
    BY <1>0, <1>8
  <2>2. S[1 - 1] + j = j
    BY <1>1, <1>4
  <2> QED
    BY <2>1, <2>2
<1>11. R[n] \in Nat /\ S[n + 1] = l + R[n]
  BY <1>3, <1>4
<1> HIDE DEF F, G, t, l
<1>12. /\ H \in Seq(X) /\ Len(H) = l + R[n]
       /\ \A k \in 1 .. l : H[k] = t[k]
       /\ \A k \in 1 .. R[n] : H[l + k] = G[k]
  <2>0. G \in Seq(X) /\ t \in Seq(X)
    BY <1>1, <1>9 DEF l
  <2>1. G \in Seq(X) /\ t \in Seq(X) /\ Len(G) = R[n] /\ Len(t) = l
    BY <1>1, <1>9 DEF l
  <2>2. /\ H \in Seq(X) /\ Len(H) = Len(t) + Len(G)
        /\ \A k \in 1 .. Len(t) : H[k] = t[k]
        /\ \A k \in 1 .. Len(G) : H[Len(t) + k] = G[k]
    BY <2>0, Joined
  <2> QED
    BY <2>1, <2>2
<1> HIDE DEF H
<1>13. ASSUME NEW k \in 1 .. Len(F) PROVE F[k] = H[k]
  <2>1. CASE k <= l
    <3>1. k \in 1 .. l
      BY <1>1, <2>1
    <3> QED
      BY <1>10, <1>12, <3>1
  <2>2. CASE ~(k <= l)
    <3> DEFINE m == k - l
    <3>1. k \in Nat /\ k <= l + R[n]
      BY <1>1, <1>8, <1>11
    <3>2. m \in 1 .. R[n] /\ k = l + m
      BY <1>1, <1>11, <2>2, <3>1
    <3> HIDE DEF m
    <3>3. PICK i \in 1 .. n : \E j \in 1 .. Len(r[i]) : m = R[i - 1] + j
      BY <1>9, <3>2
    <3>4. PICK j \in 1 .. Len(r[i]) : m = R[i - 1] + j
      BY <3>3
    <3>5. i \in Nat /\ i - 1 \in Nat /\ (i - 1) + 1 = i /\ (i + 1) - 1 = i /\ i + 1 \in 1 .. (n + 1)
      OBVIOUS
    <3>6. r[i] = s[i + 1] /\ S[i] = l + R[i - 1] /\ G[m] = r[i][j]
      BY <1>4, <1>9, <3>4, <3>5
    <3>7. F[S[i] + j] = s[i + 1][j]
      BY <1>8, <3>5, <3>6
    <3>8. R[i - 1] \in Nat /\ j \in Nat
      <4>1. r[i] \in Seq(X)
        OBVIOUS
      <4> QED
        BY <1>3, <3>5, <4>1
    <3>9. S[i] + j = k
      <4> DEFINE x == R[i - 1]
                 y == S[i]
      <4>1. y = l + x /\ x \in Nat /\ m = x + j /\ k = l + m
        BY <3>2, <3>4, <3>6, <3>8
      <4> HIDE DEF x, y
      <4>2. y + j = k
        BY <1>1, <3>8, <4>1
      <4> QED
        BY <4>2 DEF y
    <3> QED
      BY <1>12, <3>2, <3>6, <3>7, <3>9
  <2> QED
    BY <2>1, <2>2
<1>14. Len(F) = Len(H)
  BY <1>8, <1>11, <1>12
<1>15. F = H
  BY <1>8, <1>12, <1>13, <1>14, SeqEqual
<1> QED
  BY <1>15 DEF F, G, t, H

-----------------------------------------------------------------------------
(* What the same elements weigh in another order (DeviceTree).               *)

LEMMA TotalZero ==
    ASSUME NEW n \in Nat, NEW s \in [1 .. n -> Nat], \A k \in 1 .. n : s[k] = 0
    PROVE  Total(s) = 0
<1> DEFINE f == [k \in Nat |-> 0]
<1>1. /\ f \in [Nat -> Nat] /\ f[0] = 0 /\ f[n] = 0
      /\ \A k \in 1 .. n : f[k] = 0 /\ f[k - 1] = 0
  OBVIOUS
<1> HIDE DEF f
<1>2. \A k \in 1 .. n : f[k] = f[k - 1] + s[k]
  BY <1>1
<1>3. Sums(f, s, n)
  BY <1>1, <1>2 DEF Sums
<1>4. Total(s) = f[n]
  BY <1>3, TotalIs
<1> QED
  BY <1>1, <1>4

LEMMA TotalAdds ==
    ASSUME NEW n \in Nat, NEW a \in [1 .. n -> Nat], NEW b \in [1 .. n -> Nat],
           NEW c \in [1 .. n -> Nat], \A k \in 1 .. n : c[k] = a[k] + b[k]
    PROVE  Total(c) = Total(a) + Total(b)
<1>1. PICK f : Sums(f, a, n)
  BY SumsAre
<1>2. PICK g : Sums(g, b, n)
  BY SumsAre
<1> DEFINE h == [k \in Nat |-> f[k] + g[k]]
<1>3. /\ f \in [Nat -> Nat] /\ f[0] = 0 /\ \A k \in 1 .. n : f[k] = f[k - 1] + a[k]
      /\ g \in [Nat -> Nat] /\ g[0] = 0 /\ \A k \in 1 .. n : g[k] = g[k - 1] + b[k]
  BY <1>1, <1>2 DEF Sums
<1>4. h \in [Nat -> Nat] /\ h[0] = 0 /\ \A k \in Nat : h[k] = f[k] + g[k]
  <2>1. \A k \in Nat : f[k] \in Nat /\ g[k] \in Nat
    BY <1>3
  <2>2. \A k \in Nat : f[k] + g[k] \in Nat
    BY <2>1
  <2>3. f[0] + g[0] = 0
    BY <1>3
  <2> QED
    BY <2>2, <2>3
<1> HIDE DEF h
<1>5. ASSUME NEW k \in 1 .. n PROVE h[k] = h[k - 1] + c[k]
  <2> DEFINE x == f[k - 1]
             y == g[k - 1]
             u == a[k]
             v == b[k]
  <2>1. k \in Nat /\ k - 1 \in Nat
    OBVIOUS
  <2>2. /\ h[k] = (x + u) + (y + v) /\ h[k - 1] = x + y /\ c[k] = u + v
        /\ x \in Nat /\ y \in Nat /\ u \in Nat /\ v \in Nat
    BY <1>3, <1>4, <2>1
  <2> HIDE DEF x, y, u, v
  <2> QED
    BY <2>2
<1>6. Sums(h, c, n)
  BY <1>4, <1>5 DEF Sums
<1>7. Total(a) = f[n] /\ Total(b) = g[n] /\ Total(c) = h[n]
  BY <1>1, <1>2, <1>6, TotalIs
<1> QED
  BY <1>4, <1>7

\* One element that weighs nothing now, where it is once.
Without(X, w, x) == [y \in X |-> IF y = x THEN 0 ELSE w[y]]

LEMMA WeightChanged ==
    ASSUME NEW X, NEW w \in [X -> Nat], NEW q \in Seq(X),
           IsInjective(q), NEW x, x \in Range(q)
    PROVE  Weight(w, q) = Weight(Without(X, w, x), q) + w[x]
<1> DEFINE v == Without(X, w, x)
           n == Len(q)
           s == [k \in 1 .. n |-> v[q[k]]]
           t == [k \in 1 .. n |-> w[q[k]]]
<1>1. n \in Nat /\ DOMAIN q = 1 .. n /\ \A k \in 1 .. n : q[k] \in X
  OBVIOUS
<1>2. Weight(w, q) = Total(t) /\ Weight(v, q) = Total(s)
  BY <1>1 DEF Weight
<1>3. PICK c \in 1 .. n : q[c] = x
  BY <1>1 DEF Range
<1>4. \A k \in 1 .. n : q[k] = x => k = c
  BY <1>1, <1>3 DEF IsInjective
<1>5. v \in [X -> Nat] /\ v[x] = 0 /\ \A y \in X : y # x => v[y] = w[y]
  BY <1>1, <1>3 DEF Without
<1> HIDE DEF v, n
<1>6. t \in [1 .. n -> Nat] /\ s \in [1 .. n -> Nat] /\ w[x] \in Nat
  BY <1>1, <1>3, <1>5
<1>7. t[c] = s[c] + w[x]
  BY <1>1, <1>3, <1>5
<1>8. \A k \in 1 .. n : k # c => t[k] = s[k]
  BY <1>1, <1>4, <1>5
<1> HIDE DEF s, t
<1>9. Total(t) = Total(s) + w[x]
  BY <1>1, <1>6, <1>7, <1>8, TotalChanged
<1> QED
  BY <1>2, <1>9 DEF v

LEMMA WeightZero ==
    ASSUME NEW X, NEW w \in [X -> Nat], NEW q \in Seq(X), \A x \in Range(q) : w[x] = 0
    PROVE  Weight(w, q) = 0
<1> DEFINE n == Len(q)
           s == [k \in 1 .. n |-> w[q[k]]]
<1>1. n \in Nat /\ DOMAIN q = 1 .. n /\ \A k \in 1 .. n : q[k] \in Range(q) /\ q[k] \in X
  BY DEF Range
<1>2. Weight(w, q) = Total(s)
  BY <1>1 DEF Weight
<1> HIDE DEF n
<1>3. s \in [1 .. n -> Nat] /\ \A k \in 1 .. n : s[k] = 0
  BY <1>1
<1> HIDE DEF s
<1> QED
  BY <1>1, <1>2, <1>3, TotalZero

SameElements(X, p, q) ==
    /\ p \in Seq(X) /\ q \in Seq(X) /\ IsInjective(p) /\ IsInjective(q)
    /\ Range(p) = Range(q)

\* The weight of elements that are there once does not depend on their order: take
\* them out one after the other, as they come in the one and wherever they are in the
\* other.
LEMMA WeightPermuted ==
    ASSUME NEW X, NEW p, NEW q, SameElements(X, p, q)
    PROVE  \A w \in [X -> Nat] : Weight(w, p) = Weight(w, q)
<1>0. /\ p \in Seq(X) /\ q \in Seq(X) /\ IsInjective(p) /\ IsInjective(q)
      /\ Range(p) = Range(q)
  BY DEF SameElements
<1> DEFINE n == Len(p)
           Only(w, k) == \A j \in 1 .. n : j > k => w[p[j]] = 0
           Good(k) == \A w \in [X -> Nat] : Only(w, k) => Weight(w, p) = Weight(w, q)
           T == {k \in Nat : k <= n => Good(k)}
<1>1. n \in Nat /\ p \in [1 .. n -> X] /\ DOMAIN p = 1 .. n
  BY <1>0, LenProperties
<1> HIDE DEF n
<1>2. Range(p) = {p[j] : j \in 1 .. n}
  BY <1>1 DEF Range
<1>3. 0 \in T
  <2> SUFFICES ASSUME NEW w \in [X -> Nat], Only(w, 0) PROVE Weight(w, p) = Weight(w, q)
    OBVIOUS
  <2>1. \A x \in Range(p) : w[x] = 0
    BY <1>1, <1>2
  <2>2. Weight(w, p) = 0
    BY <1>0, <2>1, WeightZero
  <2>3. Weight(w, q) = 0
    BY <1>0, <2>1, WeightZero
  <2> QED
    BY <2>2, <2>3
<1>4. \A k \in T : k + 1 \in T
  <2> SUFFICES ASSUME NEW k \in Nat, k + 1 <= n, Good(k) PROVE Good(k + 1)
    <3> HIDE DEF Good
    <3>1. \A k \in T : k \in Nat /\ k + 1 \in Nat /\ (k <= n => Good(k))
      OBVIOUS
    <3>2. ASSUME NEW k \in T PROVE k + 1 \in T
      <4>1. k + 1 <= n => k <= n
        BY <1>1, <3>1
      <4>2. k + 1 <= n => Good(k + 1)
        BY <3>1, <4>1
      <4> QED
        BY <3>1, <4>2
    <3> QED
      BY <3>2
  <2> SUFFICES ASSUME NEW w \in [X -> Nat], Only(w, k + 1)
               PROVE  Weight(w, p) = Weight(w, q)
    OBVIOUS
  <2>0. \A z \in [X -> Nat] : Only(z, k) => Weight(z, p) = Weight(z, q)
    OBVIOUS
  <2> DEFINE x == p[k + 1]
             v == Without(X, w, x)
  <2>1. k + 1 \in 1 .. n /\ x \in Range(p) /\ x \in Range(q) /\ x \in X
    BY <1>0, <1>1, <1>2
  <2>2. v \in [X -> Nat] /\ v[x] = 0 /\ \A y \in X : y # x => v[y] = w[y]
    BY <2>1 DEF Without
  <2>3. ASSUME NEW j \in 1 .. n, j > k PROVE v[p[j]] = 0
    <3>1. CASE j = k + 1
      BY <2>2, <3>1
    <3>2. CASE j # k + 1
      <4>1. j > k + 1
        BY <2>3, <3>2
      <4>2. w[p[j]] = 0 /\ p[j] \in X
        BY <1>1, <4>1
      <4> QED
        BY <2>2, <4>2
    <3> QED
      BY <3>1, <3>2
  <2> HIDE DEF v, x
  <2>4. Weight(v, p) = Weight(v, q)
    <3>1. Only(v, k) /\ v \in [X -> Nat]
      BY <2>2, <2>3
    <3> HIDE DEF Only
    <3> QED
      BY <2>0, <3>1
  <2>5. Weight(w, p) = Weight(v, p) + w[x] /\ Weight(w, q) = Weight(v, q) + w[x]
    BY <1>0, <2>1, WeightChanged DEF v
  <2> QED
    BY <2>4, <2>5
<1>5. \A k \in Nat : k \in T
  <2>1. T \in SUBSET Nat
    OBVIOUS
  <2> HIDE DEF T
  <2> QED
    BY <1>3, <1>4, <2>1, Induction
<1>6. Good(n)
  <2> HIDE DEF Good
  <2> QED
    BY <1>1, <1>5
<1>7. \A w \in [X -> Nat] : Only(w, n)
  BY <1>1
<1> QED
  BY <1>6, <1>7

\* Sequences put together weigh what they weigh one by one.
Weighed(X, w, n, s, u) ==
    /\ w \in [X -> Nat] /\ n \in Nat /\ s \in [1 .. n -> Seq(X)]
    /\ u \in [1 .. n -> Nat] /\ \A i \in 1 .. n : u[i] = Weight(w, s[i])

LEMMA WeightFlatten ==
    ASSUME NEW X, NEW w, NEW n, NEW s, NEW u, Weighed(X, w, n, s, u)
    PROVE  Weight(w, FlattenSeq(s)) = Total(u)
<1>0. /\ w \in [X -> Nat] /\ n \in Nat /\ s \in [1 .. n -> Seq(X)]
      /\ u \in [1 .. n -> Nat] /\ \A i \in 1 .. n : u[i] = Weight(w, s[i])
  BY DEF Weighed
<1> DEFINE S(k) == [i \in 1 .. k |-> s[i]]
           U(k) == [i \in 1 .. k |-> u[i]]
           T == {k \in Nat : k <= n => Weight(w, FlattenSeq(S(k))) = Total(U(k))}
<1>1. ASSUME NEW k \in Nat, k <= n
      PROVE  /\ S(k) \in [1 .. k -> Seq(X)] /\ U(k) \in [1 .. k -> Nat]
             /\ \A i \in 1 .. k : S(k)[i] = s[i] /\ U(k)[i] = u[i]
  <2>1. \A i \in 1 .. k : i \in 1 .. n
    BY <1>0, <1>1
  <2> QED
    BY <1>0, <2>1
<1>2. S(n) = s /\ U(n) = u
  BY <1>0
<1> HIDE DEF S, U
<1>3. 0 \in T
  <2>1. 0 \in Nat /\ 0 <= n
    BY <1>0
  <2>2. FlattenSeq(S(0)) = <<>>
    <3>1. S(0) \in [1 .. 0 -> Seq(X)]
      BY <1>1, <2>1
    <3> QED
      BY <3>1, FlattenEmpty
  <2>3. Total(U(0)) = 0
    <3>1. U(0) \in [1 .. 0 -> Nat]
      BY <1>1, <2>1
    <3> QED
      BY <2>1, <3>1, TotalType
  <2>4. Weight(w, <<>>) = 0
    BY <1>0, WeightEmpty
  <2> QED
    BY <2>2, <2>3, <2>4
<1>4. ASSUME NEW k \in Nat, k + 1 <= n, Weight(w, FlattenSeq(S(k))) = Total(U(k))
      PROVE  Weight(w, FlattenSeq(S(k + 1))) = Total(U(k + 1))
  <2> DEFINE a == S(k)
             b == S(k + 1)
             c == U(k)
             d == U(k + 1)
  <2>1. k + 1 \in Nat /\ k <= n /\ k + 1 \in 1 .. n /\ k + 1 \in 1 .. (k + 1)
        /\ \A i \in 1 .. k : i \in 1 .. (k + 1)
    BY <1>0, <1>4
  <2>2. /\ a \in [1 .. k -> Seq(X)] /\ c \in [1 .. k -> Nat]
        /\ \A i \in 1 .. k : a[i] = s[i] /\ c[i] = u[i]
    BY <1>1, <2>1
  <2>3. /\ b \in [1 .. (k + 1) -> Seq(X)] /\ d \in [1 .. (k + 1) -> Nat]
        /\ \A i \in 1 .. (k + 1) : b[i] = s[i] /\ d[i] = u[i]
    BY <1>1, <1>4, <2>1
  <2>4. Weight(w, FlattenSeq(a)) = Total(c)
    BY <1>4
  <2> HIDE DEF a, b, c, d, T
  <2>5. \A i \in 1 .. k : a[i] = b[i] /\ c[i] = d[i]
    BY <2>1, <2>2, <2>3
  <2>6. FlattenSeq(b) = FlattenSeq(a) \o b[k + 1]
    BY <2>2, <2>3, <2>5, FlattenMore
  <2>7. Total(d) = Total(c) + d[k + 1]
    BY <2>2, <2>3, <2>5, TotalMore
  <2>8. FlattenSeq(a) \in Seq(X) /\ b[k + 1] \in Seq(X)
    BY <2>1, <2>2, <2>3, FlattenRange
  <2>9. Weight(w, FlattenSeq(a) \o b[k + 1])
          = Weight(w, FlattenSeq(a)) + Weight(w, b[k + 1])
    BY <1>0, <2>8, WeightConcat
  <2>10. d[k + 1] = Weight(w, b[k + 1])
    BY <1>0, <2>1, <2>3
  <2> QED
    BY <2>4, <2>6, <2>7, <2>9, <2>10 DEF b, d
<1>5. \A k \in T : k + 1 \in T
  <2> TAKE k \in T
  <2>1. k \in Nat /\ (k + 1 <= n => k <= n)
    BY <1>0
  <2> QED
    BY <1>4, <2>1
<1>6. \A k \in Nat : k \in T
  <2>1. T \in SUBSET Nat
    OBVIOUS
  <2> HIDE DEF T
  <2> QED
    BY <1>3, <1>5, <2>1, Induction
<1>7. Weight(w, FlattenSeq(S(n))) = Total(U(n))
  BY <1>0, <1>6
<1> QED
  BY <1>2, <1>7

-----------------------------------------------------------------------------
(* Functions defined by recursion on a rank: what the step makes of a place  *)
(* depends on the places of smaller rank only.                               *)

Local(D, S, rank, step) ==
    /\ step \in [[D -> S] -> [D -> S]]
    /\ \A g, h \in [D -> S], c \in D :
         (\A d \in D : rank[d] < rank[c] => g[d] = h[d]) => step[g][c] = step[h][c]

LEMMA Ranked ==
    ASSUME NEW D, NEW S, NEW N \in Nat, NEW rank \in [D -> Nat], \A c \in D : rank[c] < N,
           NEW step, Local(D, S, rank, step), NEW z \in [D -> S]
    PROVE  \E f \in [D -> S] : step[f] = f
<1> DEFINE V == [D -> S]
           all == [n \in Nat |-> step]
<1>1. /\ step \in [V -> V]
      /\ \A g, h \in V, c \in D :
           (\A d \in D : rank[d] < rank[c] => g[d] = h[d]) => step[g][c] = step[h][c]
  BY DEF Local
<1> HIDE DEF V
<1>2. all \in [Nat -> [V -> V]] /\ z \in V
  BY <1>1 DEF V
<1> HIDE DEF all
<1>3. PICK r : Runs(r, V, z, all)
  BY <1>2, TypedRecursion
<1>4. r \in [Nat -> V] /\ \A n \in Nat : n + 1 \in Nat /\ r[n + 1] = step[r[n]]
  <2>1. r \in [Nat -> V] /\ \A n \in Nat : r[n + 1] = all[n + 1][r[n]]
    BY <1>3 DEF Runs
  <2>2. \A n \in Nat : n + 1 \in Nat /\ all[n + 1] = step
    BY DEF all
  <2> QED
    BY <2>1, <2>2
<1> DEFINE T == {n \in Nat : \A c \in D : rank[c] < n => r[n][c] = r[n + 1][c]}
<1>5. 0 \in T
  OBVIOUS
<1>6. ASSUME NEW n \in Nat, \A c \in D : rank[c] < n => r[n][c] = r[n + 1][c],
             NEW c \in D, rank[c] < n + 1
      PROVE  r[n + 1][c] = r[(n + 1) + 1][c]
  <2> HIDE DEF T
  <2>1. r[n] \in V /\ r[n + 1] \in V /\ r[n + 1] = step[r[n]] /\ r[(n + 1) + 1] = step[r[n + 1]]
    BY <1>4
  <2>2. ASSUME NEW d \in D, rank[d] < rank[c] PROVE r[n][d] = r[n + 1][d]
    <3>1. rank[d] \in Nat /\ rank[c] \in Nat
      OBVIOUS
    <3>2. rank[d] < n
      BY <1>6, <2>2, <3>1
    <3> QED
      BY <1>6, <3>2
  <2>3. step[r[n]][c] = step[r[n + 1]][c]
    BY <1>1, <2>1, <2>2
  <2> QED
    BY <2>1, <2>3
<1>7. \A n \in T : n + 1 \in T
  <2> TAKE n \in T
  <2>1. n \in Nat /\ n + 1 \in Nat /\ \A c \in D : rank[c] < n => r[n][c] = r[n + 1][c]
    OBVIOUS
  <2>2. \A c \in D : rank[c] < n + 1 => r[n + 1][c] = r[(n + 1) + 1][c]
    BY <1>6, <2>1
  <2> QED
    BY <2>1, <2>2
<1>8. \A n \in Nat : n \in T
  <2>1. T \in SUBSET Nat
    OBVIOUS
  <2> HIDE DEF T
  <2> QED
    BY <1>5, <1>7, <2>1, Induction
<1>9. \A c \in D : r[N][c] = r[N + 1][c]
  BY <1>8
<1>10. r[N] \in V /\ r[N + 1] \in V /\ r[N + 1] = step[r[N]]
  BY <1>4
<1>11. r[N] = r[N + 1]
  BY <1>9, <1>10 DEF V
<1> QED
  BY <1>10, <1>11 DEF V

-----------------------------------------------------------------------------
(* The shape of the tree, and what each node adds to the structure's size.   *)

\* A node is behind its parent, and among its children once.
Shaped(t) ==
    /\ t \in Seq(NodeType)
    /\ 1 \in DOMAIN t /\ t[1].parent = 0
    /\ \A n \in DOMAIN t : IsInjective(t[n].children)
    /\ \A n \in DOMAIN t : \A d \in Range(t[n].children) :
         d \in DOMAIN t /\ d > n /\ t[d].parent = n
    /\ \A d \in DOMAIN t : d # 1 =>
         t[d].parent \in DOMAIN t /\ d \in Range(t[t[d].parent].children)

\* One node more, the last child of its parent.
Grows(t, u, parent) ==
    /\ t \in Seq(NodeType) /\ u \in Seq(NodeType)
    /\ parent \in 1 .. Len(t)
    /\ Len(t) \in Nat /\ DOMAIN t = 1 .. Len(t) /\ DOMAIN u = 1 .. (Len(t) + 1)
    /\ u[Len(t) + 1].parent = parent /\ u[Len(t) + 1].children = <<>>
    /\ \A n \in 1 .. Len(t) : /\ u[n].parent = t[n].parent
                              /\ n # parent => u[n].children = t[n].children
    /\ u[parent].children = Append(t[parent].children, Len(t) + 1)

\* No node more.
Stays(t, u) ==
    /\ u \in Seq(NodeType) /\ DOMAIN u = DOMAIN t
    /\ \A n \in DOMAIN t : u[n].parent = t[n].parent /\ u[n].children = t[n].children

LEMMA AppendRange ==
    ASSUME NEW X, NEW q \in Seq(X), NEW x \in X
    PROVE  /\ Append(q, x) \in Seq(X) /\ Range(Append(q, x)) = Range(q) \union {x}
           /\ IsInjective(q) /\ x \notin Range(q) => IsInjective(Append(q, x))
<1> DEFINE n == Len(q)
           r == Append(q, x)
<1>1. /\ r \in Seq(X) /\ Len(r) = n + 1 /\ r[n + 1] = x /\ \A k \in 1 .. n : r[k] = q[k]
  BY AppendProperties
<1> HIDE DEF r
<1>2. n \in Nat /\ DOMAIN q = 1 .. n /\ DOMAIN r = 1 .. (n + 1)
  BY <1>1
<1> HIDE DEF n
<1>3. /\ n + 1 \in 1 .. (n + 1) /\ \A k \in 1 .. n : k \in 1 .. (n + 1) /\ k # n + 1
      /\ \A k \in 1 .. (n + 1) : k = n + 1 \/ k \in 1 .. n
  BY <1>2
<1>4. Range(r) = Range(q) \union {x}
  <2>1. ASSUME NEW y \in Range(r) PROVE y \in Range(q) \union {x}
    BY <1>1, <1>2, <1>3 DEF Range
  <2>2. ASSUME NEW y \in Range(q) \union {x} PROVE y \in Range(r)
    BY <1>1, <1>2, <1>3 DEF Range
  <2> QED
    BY <2>1, <2>2
<1>5. ASSUME IsInjective(q), x \notin Range(q) PROVE IsInjective(r)
  <2> SUFFICES ASSUME NEW i \in 1 .. (n + 1), NEW j \in 1 .. (n + 1), r[i] = r[j]
               PROVE  i = j
    BY <1>2 DEF IsInjective
  <2>1. \A k \in 1 .. n : q[k] # x
    BY <1>2, <1>5 DEF Range
  <2>2. \A k, m \in 1 .. n : q[k] = q[m] => k = m
    BY <1>2, <1>5 DEF IsInjective
  <2> QED
    BY <1>1, <1>3, <2>1, <2>2
<1> QED
  BY <1>1, <1>4, <1>5 DEF r

LEMMA ShapedGrows ==
    ASSUME NEW t, NEW u, NEW parent, Shaped(t), Grows(t, u, parent)
    PROVE  Shaped(u)
<1> DEFINE l == Len(t)
           q == t[parent].children
<1>1. /\ u \in Seq(NodeType) /\ parent \in 1 .. l /\ l \in Nat
      /\ DOMAIN t = 1 .. l /\ DOMAIN u = 1 .. (l + 1)
      /\ u[l + 1].parent = parent /\ u[l + 1].children = <<>>
      /\ \A n \in 1 .. l : /\ u[n].parent = t[n].parent
                           /\ n # parent => u[n].children = t[n].children
      /\ u[parent].children = Append(q, l + 1)
  BY DEF Grows
<1>2. /\ 1 \in 1 .. l /\ t[1].parent = 0
      /\ \A n \in 1 .. l : IsInjective(t[n].children)
      /\ \A n \in 1 .. l : \A d \in Range(t[n].children) :
           d \in 1 .. l /\ d > n /\ t[d].parent = n
      /\ \A d \in 1 .. l : d # 1 =>
           t[d].parent \in 1 .. l /\ d \in Range(t[t[d].parent].children)
  BY <1>1 DEF Shaped
<1>3. q \in Seq(Nat)
  <2>1. t[parent] \in NodeType
    BY <1>1 DEF Grows
  <2> QED
    BY <2>1 DEF NodeType
<1> HIDE DEF l, q
<1>4. /\ l + 1 \in Nat /\ l + 1 \in 1 .. (l + 1) /\ l + 1 # 1 /\ l + 1 > parent
      /\ \A n \in 1 .. l : n \in 1 .. (l + 1) /\ n # l + 1
      /\ \A n \in 1 .. (l + 1) : n = l + 1 \/ n \in 1 .. l
  BY <1>1, <1>2
<1>5. l + 1 \notin Range(q) /\ IsInjective(q)
  BY <1>1, <1>2, <1>4 DEF q
<1>6. Range(u[parent].children) = Range(q) \union {l + 1} /\ IsInjective(u[parent].children)
  BY <1>1, <1>3, <1>4, <1>5, AppendRange
<1>7. IsInjective(u[l + 1].children) /\ Range(u[l + 1].children) = {}
  BY <1>1 DEF IsInjective, Range
<1>8. \A n \in 1 .. (l + 1) : IsInjective(u[n].children)
  BY <1>1, <1>2, <1>4, <1>6, <1>7
<1>9. ASSUME NEW n \in 1 .. (l + 1), NEW d \in Range(u[n].children)
      PROVE  d \in 1 .. (l + 1) /\ d > n /\ u[d].parent = n
  <2>1. CASE n = parent
    <3>1. CASE d = l + 1
      BY <1>1, <1>4, <2>1, <3>1
    <3>2. CASE d # l + 1
      <4>1. d \in Range(t[n].children)
        BY <1>6, <1>9, <2>1, <3>2 DEF q
      <4> QED
        BY <1>1, <1>2, <1>4, <2>1, <4>1
    <3> QED
      BY <3>1, <3>2
  <2>2. CASE n # parent
    <3>1. n \in 1 .. l
      BY <1>4, <1>7, <1>9
    <3>2. d \in Range(t[n].children)
      BY <1>1, <1>9, <2>2, <3>1
    <3> QED
      BY <1>1, <1>2, <1>4, <3>1, <3>2
  <2> QED
    BY <2>1, <2>2
<1>10. ASSUME NEW d \in 1 .. (l + 1), d # 1
       PROVE  u[d].parent \in 1 .. (l + 1) /\ d \in Range(u[u[d].parent].children)
  <2>1. CASE d = l + 1
    BY <1>1, <1>4, <1>6, <2>1
  <2>2. CASE d # l + 1
    <3> DEFINE p == t[d].parent
    <3>1. d \in 1 .. l /\ u[d].parent = p /\ p \in 1 .. l /\ d \in Range(t[p].children)
      BY <1>1, <1>2, <1>4, <1>10, <2>2
    <3> HIDE DEF p
    <3>2. d \in Range(u[p].children)
      BY <1>1, <1>6, <3>1 DEF q
    <3> QED
      BY <1>4, <3>1, <3>2
  <2> QED
    BY <2>1, <2>2
<1>11. u[1].parent = 0
  BY <1>1, <1>2
<1>12. 1 \in 1 .. (l + 1)
  BY <1>2, <1>4
<1> QED
  BY <1>1, <1>8, <1>9, <1>10, <1>11, <1>12 DEF Shaped

LEMMA ShapedStays ==
    ASSUME NEW t, NEW u, Shaped(t), Stays(t, u)
    PROVE  Shaped(u)
<1>1. /\ u \in Seq(NodeType) /\ DOMAIN u = DOMAIN t
      /\ \A n \in DOMAIN t : u[n].parent = t[n].parent /\ u[n].children = t[n].children
  BY DEF Stays
<1>2. /\ 1 \in DOMAIN t /\ t[1].parent = 0
      /\ \A n \in DOMAIN t : IsInjective(t[n].children)
      /\ \A n \in DOMAIN t : \A d \in Range(t[n].children) :
           d \in DOMAIN t /\ d > n /\ t[d].parent = n
      /\ \A d \in DOMAIN t : d # 1 =>
           t[d].parent \in DOMAIN t /\ d \in Range(t[t[d].parent].children)
  BY DEF Shaped
<1>3. \A n \in DOMAIN u : IsInjective(u[n].children)
  BY <1>1, <1>2
<1>4. \A n \in DOMAIN u : \A d \in Range(u[n].children) :
        d \in DOMAIN u /\ d > n /\ u[d].parent = n
  BY <1>1, <1>2
<1>5. \A d \in DOMAIN u : d # 1 =>
        u[d].parent \in DOMAIN u /\ d \in Range(u[u[d].parent].children)
  BY <1>1, <1>2
<1>6. 1 \in DOMAIN u /\ u[1].parent = 0
  BY <1>1, <1>2
<1> QED
  BY <1>1, <1>3, <1>4, <1>5, <1>6 DEF Shaped

PropertyType == [name : PropertyNames, size : Nat]

LEMMA AlignType == ASSUME NEW x \in Nat PROVE Align(x) \in Nat
BY DEF Align

LEMMA NameLengthType ==
    ASSUME NEW name \in NodeNames \union {RootName}
    PROVE  NameLength(name) \in Nat
BY DeviceTreeAssumption DEF NameLength

\* What a property adds to the size of the structure block, and what a node does.
PropertySize == [p \in PropertyType |-> 12 + Align(p.size)]

Own(t, n) ==
    8 + Align(NameLength(t[n].name) + 1) + Weight(PropertySize, t[n].properties)

Owns(t) == [n \in DOMAIN t |-> Own(t, n)]

LEMMA PropertySizeType == PropertySize \in [PropertyType -> Nat]
<1>1. ASSUME NEW p \in PropertyType PROVE 12 + Align(p.size) \in Nat
  <2>1. p.size \in Nat
    BY DEF PropertyType
  <2>2. Align(p.size) \in Nat
    BY <2>1, AlignType
  <2> QED
    BY <2>2
<1> QED
  BY <1>1 DEF PropertySize

LEMMA ElementIs ==
    ASSUME NEW X, NEW q \in Seq(X), NEW k \in DOMAIN q
    PROVE  q[k] \in X
OBVIOUS

LEMMA OwnsType ==
    ASSUME NEW t \in Seq(NodeType), NEW n, DOMAIN t = 1 .. n
    PROVE  Owns(t) \in [1 .. n -> Nat]
<1>1. ASSUME NEW k \in 1 .. n PROVE Own(t, k) \in Nat
  <2>1. t[k] \in NodeType
    <3>1. k \in DOMAIN t
      OBVIOUS
    <3> QED
      BY <3>1, ElementIs
  <2>2. t[k].name \in NodeNames \union {RootName} /\ t[k].properties \in Seq(PropertyType)
    BY <2>1 DEF NodeType, PropertyType
  <2>3. NameLength(t[k].name) \in Nat
    BY <2>2, NameLengthType
  <2>4. NameLength(t[k].name) + 1 \in Nat
    BY <2>3
  <2>5. Align(NameLength(t[k].name) + 1) \in Nat
    BY <2>4, AlignType
  <2>6. Weight(PropertySize, t[k].properties) \in Nat
    BY <2>2, PropertySizeType, WeightType
  <2> QED
    BY <2>5, <2>6 DEF Own
<1> QED
  BY <1>1 DEF Owns

\* What a name takes in the strings block: its final zero is counted.
Stored == [x \in PropertyNames |-> Length[x] + 1]

LEMMA StoredType == Stored \in [PropertyNames -> Nat]
BY DeviceTreeAssumption DEF Stored

LEMMA BytesAre ==
    ASSUME NEW q \in Seq(PropertyNames)
    PROVE  BytesOf(q) = Weight(Stored, q)
<1>1. \A k \in DOMAIN q : q[k] \in PropertyNames
  OBVIOUS
<1>2. [k \in DOMAIN q |-> Length[q[k]] + 1] = [k \in DOMAIN q |-> Stored[q[k]]]
  BY <1>1 DEF Stored
<1> QED
  BY <1>2 DEF BytesOf, Weight

\* BlDtStringsSize grows when a name is new, whatever bucket it is put in.
LEMMA StringsSizeIs ==
    ASSUME NEW t, Hashed(t), Loaded(t), NEW x \in PropertyNames
    PROVE  Weight(Stored, FlattenSeq(GetString(t, x)))
             = IF Known(t, x) THEN Weight(Stored, FlattenSeq(t))
               ELSE Weight(Stored, FlattenSeq(t)) + Length[x] + 1
<1> DEFINE u == GetString(t, x)
           p == FlattenSeq(t)
           q == FlattenSeq(u)
           r == Append(p, x)
<1>1. CASE Known(t, x)
  BY <1>1 DEF GetString
<1>2. CASE ~Known(t, x)
  <2>1. Hashed(u) /\ Names(u) = Names(t) \union {x}
    BY GetStringIs
  <2>2. x \notin Names(t)
    BY <1>2, KnownIs
  <2> HIDE DEF u
  <2>3. p \in Seq(PropertyNames) /\ Range(p) = Names(t) /\ IsInjective(p)
    BY HashedIs
  <2>4. q \in Seq(PropertyNames) /\ Range(q) = Names(u) /\ IsInjective(q)
    BY <2>1, HashedIs
  <2> HIDE DEF p, q
  <2>5. r \in Seq(PropertyNames) /\ Range(r) = Range(p) \union {x} /\ IsInjective(r)
    BY <2>2, <2>3, AppendRange
  <2>6. Weight(Stored, r) = Weight(Stored, p) + Stored[x]
    BY <2>3, StoredType, WeightAppend
  <2> HIDE DEF r
  <2>7. Range(q) = Range(r)
    BY <2>1, <2>3, <2>4, <2>5
  <2>8. Weight(Stored, q) = Weight(Stored, r)
    <3>1. SameElements(PropertyNames, q, r)
      BY <2>4, <2>5, <2>7 DEF SameElements
    <3> QED
      BY <3>1, StoredType, WeightPermuted
  <2>9. Stored[x] = Length[x] + 1 /\ Length[x] \in Nat
    BY DeviceTreeAssumption DEF Stored
  <2>10. Weight(Stored, p) \in Nat
    BY <2>3, StoredType, WeightType
  <2> DEFINE a == Weight(Stored, p)
             b == Weight(Stored, q)
             c == Length[x]
  <2>11. b = a + (c + 1) /\ a \in Nat /\ c \in Nat
    BY <2>6, <2>8, <2>9, <2>10
  <2> HIDE DEF a, b, c
  <2>12. b = a + c + 1
    BY <2>11
  <2> QED
    BY <1>2, <2>12 DEF a, b, c, p, q, u
<1> QED
  BY <1>1, <1>2

SizesInv ==
    /\ TreeInv
    /\ Shaped(nodes)
    /\ structureSize = 4 + Total(Owns(nodes))
    /\ stringsSize = Weight(Stored, FlattenSeq(strings))

LEMMA StartOfSizes == ASSUME TreeInit PROVE SizesInv
<1>1. nodes = <<Node(0, RootName)>> /\ strings = <<>> /\ structureSize = 16 /\ stringsSize = 0
  BY DEF TreeInit
<1>2. TreeInv
  BY StartOfTree
<1>3. nodes \in Seq(NodeType)
  BY <1>2 DEF TreeInv
<1>4. /\ Len(nodes) = 1 /\ DOMAIN nodes = 1 .. 1 /\ nodes[1] = Node(0, RootName)
      /\ 1 \in 1 .. 1 /\ \A n \in 1 .. 1 : n = 1
  BY <1>1
<1>5. /\ nodes[1].parent = 0 /\ nodes[1].name = RootName
      /\ nodes[1].children = <<>> /\ nodes[1].properties = <<>>
  BY <1>4 DEF Node
<1>6. Range(nodes[1].children) = {} /\ IsInjective(nodes[1].children)
  BY <1>5 DEF Range, IsInjective
<1>7. Shaped(nodes)
  BY <1>3, <1>4, <1>5, <1>6 DEF Shaped
<1>8. Own(nodes, 1) = 12
  <2>1. NameLength(RootName) = 0
    BY DEF NameLength
  <2>2. Align(0 + 1) = 4
    BY DEF Align
  <2>3. Weight(PropertySize, <<>>) = 0
    BY PropertySizeType, WeightEmpty
  <2> QED
    BY <1>5, <2>1, <2>2, <2>3 DEF Own
<1>9. Owns(nodes) \in [1 .. 1 -> Nat] /\ Owns(nodes)[1] = 12
  <2>1. Owns(nodes) \in [1 .. 1 -> Nat]
    BY <1>3, <1>4, OwnsType
  <2>2. Owns(nodes)[1] = Own(nodes, 1)
    BY <1>4 DEF Owns
  <2> QED
    BY <1>8, <2>1, <2>2
<1>10. Total(Owns(nodes)) = 12
  <2>1. 12 \in Nat
    OBVIOUS
  <2> QED
    BY <1>9, <2>1, TotalOne
<1>11. FlattenSeq(strings) = <<>>
  <2>1. strings \in [1 .. 0 -> Seq(PropertyNames)]
    BY <1>1
  <2> QED
    BY <2>1, FlattenEmpty
<1>12. Weight(Stored, FlattenSeq(strings)) = 0
  BY <1>11, StoredType, WeightEmpty
<1> QED
  BY <1>1, <1>2, <1>7, <1>10, <1>12 DEF SizesInv

LEMMA SizesCreateNode ==
    ASSUME SizesInv, NEW parent \in DOMAIN nodes, NEW name \in NodeNames,
           CreateNode(parent, name)
    PROVE  SizesInv'
<1> DEFINE l == Len(nodes)
           old == nodes[parent]
           kept == [old EXCEPT !.children = Append(@, l + 1)]
           new == Node(parent, name)
           some == [nodes EXCEPT ![parent] = kept]
<1>0. TreeInv /\ TreeInv'
  BY TreeCreateNode DEF SizesInv
<1>1. /\ nodes \in Seq(NodeType) /\ l \in Nat /\ DOMAIN nodes = 1 .. l
      /\ nodes' \in Seq(NodeType)
  BY <1>0 DEF TreeInv
<1>2. /\ nodes' = Append(some, new)
      /\ strings' = strings /\ stringsSize' = stringsSize
      /\ structureSize' = structureSize + 8 + Align(NameLength(name) + 1)
  BY DEF CreateNode
<1>3. parent \in 1 .. l /\ parent \in Nat /\ old \in NodeType
  BY <1>1
<1>4. new.properties = <<>> /\ new.children = <<>> /\ new.parent = parent /\ new.name = name
  BY DEF Node
<1>5. /\ kept.properties = old.properties /\ kept.parent = old.parent /\ kept.name = old.name
      /\ kept.children = Append(old.children, l + 1)
  BY <1>3 DEF NodeType
<1> HIDE DEF kept, new
<1>6. /\ DOMAIN nodes' = 1 .. (l + 1) /\ Len(nodes') = l + 1
      /\ nodes'[l + 1] = new /\ \A n \in 1 .. l : nodes'[n] = some[n]
      /\ some[parent] = kept /\ \A n \in 1 .. l : n # parent => some[n] = nodes[n]
  <2>1. some \in Seq(Range(nodes) \union {kept}) /\ Len(some) = l
    BY <1>1, <1>3 DEF Range
  <2>2. some[parent] = kept /\ \A n \in 1 .. l : n # parent => some[n] = nodes[n]
    BY <1>1, <1>3
  <2> HIDE DEF some
  <2> QED
    BY <1>1, <1>2, <2>1, <2>2
<1>7. \A n \in 1 .. l : /\ nodes'[n].properties = nodes[n].properties
                        /\ nodes'[n].name = nodes[n].name
                        /\ nodes'[n].parent = nodes[n].parent
                        /\ n # parent => nodes'[n].children = nodes[n].children
  BY <1>3, <1>5, <1>6
<1> HIDE DEF some, old
<1>8. Grows(nodes, nodes', parent)
  BY <1>1, <1>3, <1>4, <1>5, <1>6, <1>7 DEF Grows, old
<1>9. Shaped(nodes')
  BY <1>8, ShapedGrows DEF SizesInv
<1> DEFINE s == Owns(nodes')
           r == Owns(nodes)
           a == Align(NameLength(name) + 1)
<1>10. s \in [1 .. (l + 1) -> Nat] /\ r \in [1 .. l -> Nat]
  BY <1>1, <1>6, OwnsType
<1>11. \A k \in 1 .. l : r[k] = s[k]
  <2> TAKE k \in 1 .. l
  <2>1. k \in 1 .. (l + 1)
    BY <1>1
  <2>2. r[k] = Own(nodes, k) /\ s[k] = Own(nodes', k)
    BY <1>1, <1>6, <2>1 DEF Owns
  <2> QED
    BY <1>7, <2>2 DEF Own
<1>12. a \in Nat
  <2>1. NameLength(name) \in Nat
    BY NameLengthType
  <2>2. NameLength(name) + 1 \in Nat
    BY <2>1
  <2> QED
    BY <2>2, AlignType
<1>13. s[l + 1] = 8 + a
  <2>1. l + 1 \in 1 .. (l + 1)
    BY <1>1
  <2>2. s[l + 1] = Own(nodes', l + 1)
    BY <1>6, <2>1 DEF Owns
  <2>3. Own(nodes', l + 1) = 8 + a + Weight(PropertySize, <<>>)
    BY <1>4, <1>6 DEF Own
  <2>4. Weight(PropertySize, <<>>) = 0
    BY PropertySizeType, WeightEmpty
  <2> HIDE DEF a
  <2> QED
    BY <1>12, <2>2, <2>3, <2>4
<1> HIDE DEF s, r, l
<1>14. Total(s) = Total(r) + s[l + 1]
  BY <1>1, <1>10, <1>11, TotalMore
<1>15. Total(r) \in Nat
  BY <1>1, <1>10, TotalType
<1>16. structureSize' = 4 + Total(s)
  <2>1. structureSize = 4 + Total(r)
    BY DEF SizesInv, r
  <2>2. structureSize' = structureSize + 8 + a
    BY <1>2
  <2> HIDE DEF a
  <2> QED
    BY <1>12, <1>13, <1>14, <1>15, <2>1, <2>2
<1> QED
  BY <1>0, <1>2, <1>9, <1>16 DEF SizesInv, s

LEMMA SizesAddProperty ==
    ASSUME SizesInv, NEW parent \in DOMAIN nodes,
           NEW name \in PropertyNames, NEW size \in DataSizes,
           AddProperty(parent, name, size)
    PROVE  SizesInv'
<1> DEFINE l == Len(nodes)
           old == nodes[parent]
           property == [name |-> name, size |-> size]
           properties == Append(old.properties, property)
           new == [old EXCEPT !.properties = properties]
<1>0. TreeInv /\ TreeInv'
  BY TreeAddProperty DEF SizesInv
<1>1. /\ nodes \in Seq(NodeType) /\ l \in Nat /\ DOMAIN nodes = 1 .. l
      /\ nodes' \in Seq(NodeType)
  BY <1>0 DEF TreeInv
<1>2. /\ nodes' = [nodes EXCEPT ![parent] = new] /\ strings' = GetString(strings, name)
      /\ stringsSize' = IF Known(strings, name) THEN stringsSize
                        ELSE stringsSize + Length[name] + 1
      /\ structureSize' = structureSize + 12 + Align(size)
  BY DEF AddProperty
<1>3. parent \in 1 .. l /\ parent \in Nat /\ old \in NodeType
  BY <1>1
<1>4. old.properties \in Seq(PropertyType)
  <2> HIDE DEF old
  <2> QED
    BY <1>3 DEF NodeType, PropertyType
<1>5. property \in PropertyType /\ property.size = size /\ size \in Nat
  BY DeviceTreeAssumption DEF PropertyType
<1>6. /\ new.properties = properties /\ new.name = old.name
      /\ new.parent = old.parent /\ new.children = old.children
  <2> HIDE DEF old, properties
  <2> QED
    BY <1>3 DEF NodeType
<1> HIDE DEF property, new
<1>7. /\ DOMAIN nodes' = 1 .. l /\ Len(nodes') = l /\ nodes'[parent] = new
      /\ \A n \in 1 .. l : n # parent => nodes'[n] = nodes[n]
  BY <1>1, <1>2, <1>3
<1> HIDE DEF old, properties
<1>8. Stays(nodes, nodes')
  BY <1>1, <1>6, <1>7 DEF Stays, old
<1>9. Shaped(nodes')
  BY <1>8, ShapedStays DEF SizesInv
<1> DEFINE s == Owns(nodes)
           t == Owns(nodes')
           a == 12 + Align(size)
<1>10. t \in [1 .. l -> Nat] /\ s \in [1 .. l -> Nat]
  BY <1>1, <1>7, OwnsType
<1>11. \A k \in 1 .. l : k # parent => t[k] = s[k]
  <2> TAKE k \in 1 .. l
  <2>2. s[k] = Own(nodes, k) /\ t[k] = Own(nodes', k)
    BY <1>1, <1>7 DEF Owns
  <2> QED
    BY <1>7, <2>2 DEF Own
<1>12. a \in Nat /\ t[parent] = s[parent] + a
  <2> DEFINE b == Align(NameLength(old.name) + 1)
             c == Weight(PropertySize, old.properties)
  <2>1. t[parent] = 8 + b + Weight(PropertySize, properties)
    <3>1. t[parent] = Own(nodes', parent)
      BY <1>3, <1>7 DEF Owns
    <3> QED
      BY <1>6, <1>7, <3>1 DEF Own
  <2>2. s[parent] = 8 + b + c
    <3>1. s[parent] = Own(nodes, parent)
      BY <1>1, <1>3 DEF Owns
    <3> QED
      BY <3>1 DEF Own, old
  <2>3. Weight(PropertySize, properties) = c + PropertySize[property]
    BY <1>4, <1>5, PropertySizeType, WeightAppend DEF properties
  <2>4. PropertySize[property] = a
    BY <1>5 DEF PropertySize
  <2>5. c \in Nat
    BY <1>4, PropertySizeType, WeightType
  <2>6. b \in Nat
    <3>1. old.name \in NodeNames \union {RootName}
      BY <1>3 DEF NodeType
    <3>2. NameLength(old.name) \in Nat
      BY <3>1, NameLengthType
    <3>3. NameLength(old.name) + 1 \in Nat
      BY <3>2
    <3> QED
      BY <3>3, AlignType
  <2>7. a \in Nat
    <3>1. Align(size) \in Nat
      BY <1>5, AlignType
    <3> QED
      BY <3>1
  <2> HIDE DEF a, b, c
  <2> QED
    BY <2>1, <2>2, <2>3, <2>4, <2>5, <2>6, <2>7
<1> HIDE DEF s, t, l
<1>13. Total(t) = Total(s) + a
  <2> HIDE DEF a
  <2> QED
    BY <1>1, <1>3, <1>10, <1>11, <1>12, TotalChanged
<1>14. Total(s) \in Nat
  BY <1>1, <1>10, TotalType
<1>15. structureSize' = 4 + Total(t)
  <2>1. structureSize = 4 + Total(s)
    BY DEF SizesInv, s
  <2>2. structureSize' = structureSize + 12 + Align(size)
    BY <1>2
  <2>3. Align(size) \in Nat
    BY <1>5, AlignType
  <2>4. Total(t) = Total(s) + (12 + Align(size))
    BY <1>13
  <2> QED
    BY <1>14, <2>1, <2>2, <2>3, <2>4
<1>16. stringsSize' = Weight(Stored, FlattenSeq(strings'))
  <2>1. Hashed(strings) /\ Loaded(strings)
    BY <1>0 DEF TreeInv
  <2>2. stringsSize = Weight(Stored, FlattenSeq(strings))
    BY DEF SizesInv
  <2> QED
    BY <1>2, <2>1, <2>2, StringsSizeIs
<1> QED
  BY <1>0, <1>9, <1>15, <1>16 DEF SizesInv, t

LEMMA SizesStay ==
    ASSUME SizesInv, UNCHANGED <<nodes, structureSize, strings, stringsSize>>
    PROVE  SizesInv'
<1>1. TreeInv'
  BY DEF SizesInv, TreeInv, Used, Names, Hashed, Loaded, Count, Bucket, Capacity
<1>2. /\ nodes' = nodes /\ structureSize' = structureSize
      /\ strings' = strings /\ stringsSize' = stringsSize
  OBVIOUS
<1>3. Shaped(nodes')
  BY <1>2 DEF SizesInv
<1>4. structureSize' = 4 + Total(Owns(nodes'))
  BY <1>2 DEF SizesInv
<1>5. stringsSize' = Weight(Stored, FlattenSeq(strings'))
  BY <1>2 DEF SizesInv
<1> QED
  BY <1>1, <1>3, <1>4, <1>5 DEF SizesInv

-----------------------------------------------------------------------------
(* The tokens of the tree: what Flat says of it.                             *)

\* Tokens whose properties have the names A.
Tok(A) ==
    [token : {"begin"}, name : NodeNames \union {RootName}, bytes : Nat]
      \union [token : {"prop"}, size : Nat, name : A, bytes : Nat]
      \union [token : {"end", "END"}, bytes : Nat]

\* A tree whose properties have the names A.
TreeOf(A, t) == A \subseteq PropertyNames /\ Shaped(t) /\ Used(t) \subseteq A

BeginOf(t, n) ==
    <<[token |-> "begin", name |-> t[n].name,
       bytes |-> 4 + Align(NameLength(t[n].name) + 1)]>>

PropsOf(t, n) ==
    [k \in DOMAIN t[n].properties |->
       Prop(t[n].properties[k], t[n].properties[k].name)]

OpeningOf(t, n) == BeginOf(t, n) \o PropsOf(t, n)

KidsOf(f, t, n) == [k \in DOMAIN t[n].children |-> f[t[n].children[k]]]

FlatBody(f, t, n) == OpeningOf(t, n) \o FlattenSeq(KidsOf(f, t, n)) \o End("end")

FlatIs(f, t) == f = [n \in DOMAIN t |-> FlatBody(f, t, n)]

FlatOf(t) == CHOOSE f : FlatIs(f, t)

LEMMA EndType ==
    ASSUME NEW A, NEW token \in {"end", "END"}
    PROVE  End(token) \in Seq(Tok(A)) /\ Len(End(token)) = 1
<1>1. [token |-> token, bytes |-> 4] \in Tok(A)
  BY DEF Tok
<1> QED
  BY <1>1 DEF End

LEMMA NodeIs ==
    ASSUME NEW A, NEW t, TreeOf(A, t), NEW n \in DOMAIN t
    PROVE  /\ t[n].name \in NodeNames \union {RootName}
           /\ t[n].properties \in Seq(PropertyType)
           /\ t[n].children \in Seq(Nat)
           /\ \A k \in DOMAIN t[n].properties : t[n].properties[k].name \in A
           /\ \A k \in DOMAIN t[n].children :
                t[n].children[k] \in DOMAIN t /\ t[n].children[k] > n
<1>1. t[n] \in NodeType
  BY DEF TreeOf, Shaped
<1>2. /\ t[n].name \in NodeNames \union {RootName}
      /\ t[n].properties \in Seq(PropertyType)
      /\ t[n].children \in Seq(Nat)
  BY <1>1 DEF NodeType, PropertyType
<1>3. ASSUME NEW k \in DOMAIN t[n].properties PROVE t[n].properties[k].name \in A
  <2>1. t[n].properties[k] \in Range(t[n].properties)
    BY DEF Range
  <2>2. t[n].properties[k].name \in Used(t)
    BY <2>1 DEF Used
  <2> QED
    BY <2>2 DEF TreeOf
<1>4. \A k \in DOMAIN t[n].children :
        t[n].children[k] \in DOMAIN t /\ t[n].children[k] > n
  BY DEF TreeOf, Shaped, Range
<1> QED
  BY <1>2, <1>3, <1>4

LEMMA OpeningType ==
    ASSUME NEW A, NEW t, TreeOf(A, t), NEW n \in DOMAIN t
    PROVE  /\ BeginOf(t, n) \in Seq(Tok(A)) /\ PropsOf(t, n) \in Seq(Tok(A))
           /\ OpeningOf(t, n) \in Seq(Tok(A))
           /\ PropsOf(t, n) \in [1 .. Len(t[n].properties) -> Tok(A)]
<1>1. /\ t[n].name \in NodeNames \union {RootName}
      /\ t[n].properties \in Seq(PropertyType)
      /\ \A k \in DOMAIN t[n].properties : t[n].properties[k].name \in A
  BY NodeIs
<1>2. BeginOf(t, n) \in Seq(Tok(A))
  <2>1. NameLength(t[n].name) \in Nat
    BY <1>1, NameLengthType
  <2>2. NameLength(t[n].name) + 1 \in Nat
    BY <2>1
  <2>3. Align(NameLength(t[n].name) + 1) \in Nat
    BY <2>2, AlignType
  <2>4. 4 + Align(NameLength(t[n].name) + 1) \in Nat
    BY <2>3
  <2>5. [token |-> "begin", name |-> t[n].name,
         bytes |-> 4 + Align(NameLength(t[n].name) + 1)] \in Tok(A)
    BY <1>1, <2>4 DEF Tok
  <2> QED
    BY <2>5 DEF BeginOf
<1> DEFINE l == Len(t[n].properties)
<1>3. l \in Nat /\ DOMAIN t[n].properties = 1 .. l
  BY <1>1
<1>4. ASSUME NEW k \in 1 .. l
      PROVE  Prop(t[n].properties[k], t[n].properties[k].name) \in Tok(A)
  <2> DEFINE p == t[n].properties[k]
  <2>1. p \in PropertyType /\ p.name \in A
    BY <1>1, <1>3
  <2> HIDE DEF p
  <2>2. p.size \in Nat
    BY <2>1 DEF PropertyType
  <2>3. Align(p.size) \in Nat
    BY <2>2, AlignType
  <2>4. 12 + Align(p.size) \in Nat
    BY <2>3
  <2>5. Prop(p, p.name) \in Tok(A)
    BY <2>1, <2>2, <2>4 DEF Prop, Tok
  <2> QED
    BY <2>5 DEF p
<1>5. PropsOf(t, n) \in [1 .. l -> Tok(A)]
  BY <1>3, <1>4 DEF PropsOf
<1>6. PropsOf(t, n) \in Seq(Tok(A))
  <2> HIDE DEF l
  <2> QED
    BY <1>3, <1>5, LengthIs
<1>7. OpeningOf(t, n) \in Seq(Tok(A))
  BY <1>2, <1>6 DEF OpeningOf
<1> QED
  BY <1>2, <1>5, <1>6, <1>7

\* What a node becomes is made of what its children become, which are behind it.
LEMMA KidsType ==
    ASSUME NEW A, NEW t, TreeOf(A, t), NEW n \in DOMAIN t, NEW f,
           \A c \in DOMAIN t : c > n => f[c] \in Seq(Tok(A))
    PROVE  /\ Len(t[n].children) \in Nat
           /\ KidsOf(f, t, n) \in [1 .. Len(t[n].children) -> Seq(Tok(A))]
           /\ FlattenSeq(KidsOf(f, t, n)) \in Seq(Tok(A))
           /\ FlatBody(f, t, n) \in Seq(Tok(A))
<1> DEFINE q == t[n].children
           l == Len(q)
           K == KidsOf(f, t, n)
           X == Tok(A)
<1>1. q \in Seq(Nat) /\ \A k \in DOMAIN q : q[k] \in DOMAIN t /\ q[k] > n
  BY NodeIs
<1>2. l \in Nat /\ DOMAIN q = 1 .. l
  <2> HIDE DEF q
  <2> QED
    BY <1>1
<1>3. \A k \in 1 .. l : f[q[k]] \in Seq(X)
  <2> HIDE DEF q, l
  <2> QED
    BY <1>1, <1>2
<1>4. K \in [1 .. l -> Seq(X)]
  <2>1. K = [k \in 1 .. l |-> f[q[k]]]
    BY <1>2 DEF KidsOf
  <2> HIDE DEF q, l, K
  <2> QED
    BY <1>3, <2>1
<1>5. FlattenSeq(K) \in Seq(X)
  <2> HIDE DEF l, K, X
  <2> QED
    BY <1>2, <1>4, FlattenRange
<1>6. OpeningOf(t, n) \in Seq(X) /\ End("end") \in Seq(X)
  BY OpeningType, EndType
<1> DEFINE o == OpeningOf(t, n)
           e == End("end")
           F == FlattenSeq(K)
<1>7. o \o F \o e \in Seq(X)
  <2>1. o \in Seq(X) /\ F \in Seq(X) /\ e \in Seq(X)
    BY <1>5, <1>6
  <2> HIDE DEF o, F, e, X
  <2> QED
    BY <2>1
<1> QED
  BY <1>2, <1>4, <1>5, <1>7 DEF FlatBody

LEMMA FlatTyped ==
    ASSUME NEW A, NEW t, TreeOf(A, t), NEW f, FlatIs(f, t)
    PROVE  f \in [DOMAIN t -> Seq(Tok(A))]
<1> DEFINE D == DOMAIN t
           N == Len(t)
           S == Seq(Tok(A))
           T == {k \in Nat : \A n \in D : N - n < k => f[n] \in S}
<1>1. N \in Nat /\ D = 1 .. N
  BY DEF TreeOf, Shaped
<1>2. DOMAIN f = D /\ \A n \in D : f[n] = FlatBody(f, t, n)
  BY DEF FlatIs
<1>3. f = [n \in D |-> f[n]]
  BY DEF FlatIs
<1>4. ASSUME NEW n \in D, \A c \in D : c > n => f[c] \in S PROVE f[n] \in S
  <2>1. FlatBody(f, t, n) \in S
    BY <1>4, KidsType
  <2> QED
    BY <1>2, <2>1
<1> HIDE DEF S, N, D
<1>5. 0 \in T
  BY <1>1
<1>6. ASSUME NEW k \in Nat, \A n \in D : N - n < k => f[n] \in S
      PROVE  \A n \in D : N - n < k + 1 => f[n] \in S
  <2> SUFFICES ASSUME NEW n \in D, N - n < k + 1 PROVE f[n] \in S
    OBVIOUS
  <2> HIDE DEF T
  <2>1. ASSUME NEW c \in D, c > n PROVE f[c] \in S
    <3>1. N - c < k
      BY <1>1, <2>1
    <3> QED
      BY <1>6, <3>1
  <2> QED
    BY <1>4, <2>1
<1>7. \A k \in T : k + 1 \in T
  <2> TAKE k \in T
  <2>1. k \in Nat /\ k + 1 \in Nat /\ \A n \in D : N - n < k => f[n] \in S
    OBVIOUS
  <2>2. \A n \in D : N - n < k + 1 => f[n] \in S
    BY <1>6, <2>1
  <2> QED
    BY <2>1, <2>2
<1>8. \A k \in Nat : k \in T
  <2>1. T \in SUBSET Nat
    OBVIOUS
  <2> HIDE DEF T
  <2> QED
    BY <1>5, <1>7, <2>1, Induction
<1>9. \A n \in D : f[n] \in S
  <2> TAKE n \in D
  <2>1. N - n < N /\ N \in T
    BY <1>1, <1>8
  <2> QED
    BY <2>1
<1>10. f \in [D -> S]
  BY <1>3, <1>9
<1> QED
  BY <1>10 DEF D, S

LEMMA FlatOfIs ==
    ASSUME NEW A, NEW t, TreeOf(A, t)
    PROVE  FlatIs(FlatOf(t), t) /\ FlatOf(t) \in [DOMAIN t -> Seq(Tok(A))]
<1> DEFINE D == DOMAIN t
           N == Len(t)
           S == Seq(Tok(A))
           V == [D -> S]
           step == [g \in V |-> [n \in D |-> FlatBody(g, t, n)]]
           rank == [n \in D |-> N - n]
           none == <<>>
           z == [n \in D |-> none]
<1>1. N \in Nat /\ D = 1 .. N
  BY DEF TreeOf, Shaped
<1>2. ASSUME NEW g \in V, NEW n \in D PROVE FlatBody(g, t, n) \in S
  <2>1. \A c \in DOMAIN t : c > n => g[c] \in Seq(Tok(A))
    OBVIOUS
  <2> QED
    BY <2>1, KidsType
<1>3. rank \in [D -> Nat] /\ \A c \in D : rank[c] < N
  BY <1>1
<1>4. ASSUME NEW g \in V, NEW h \in V, NEW n \in D, \A d \in D : d > n => g[d] = h[d]
      PROVE  FlatBody(g, t, n) = FlatBody(h, t, n)
  <2>1. \A k \in DOMAIN t[n].children :
          t[n].children[k] \in D /\ t[n].children[k] > n
    BY NodeIs
  <2>2. KidsOf(g, t, n) = KidsOf(h, t, n)
    BY <1>4, <2>1 DEF KidsOf
  <2> QED
    BY <2>2 DEF FlatBody
<1>5. z \in V
  BY EmptySeq
<1>6. \A c, d \in D : rank[d] < rank[c] <=> d > c
  BY <1>1
<1> HIDE DEF D, S, N, rank, z, none
<1>7. /\ step \in [V -> V]
      /\ \A g \in V : step[g] = [n \in D |-> FlatBody(g, t, n)]
      /\ \A g \in V, n \in D : step[g][n] = FlatBody(g, t, n)
  BY <1>2
<1>8. ASSUME NEW g \in V, NEW h \in V, NEW c \in D, \A d \in D : rank[d] < rank[c] => g[d] = h[d]
      PROVE  step[g][c] = step[h][c]
  <2>1. \A d \in D : d > c => g[d] = h[d]
    BY <1>6, <1>8
  <2>2. FlatBody(g, t, c) = FlatBody(h, t, c)
    BY <1>4, <2>1
  <2> QED
    BY <1>7, <2>2
<1> HIDE DEF step
<1>9. Local(D, S, rank, step)
  BY <1>7, <1>8 DEF Local
<1>10. \E f \in [D -> S] : step[f] = f
  <2>1. N \in Nat
    BY <1>1
  <2>2. rank \in [D -> Nat]
    BY <1>3
  <2>3. \A c \in D : rank[c] < N
    BY <1>3
  <2>4. z \in [D -> S]
    BY <1>5
  <2> QED
    BY <1>9, <2>1, <2>2, <2>3, <2>4, Ranked
<1>11. PICK f \in V : step[f] = f
  BY <1>10
<1>12. FlatIs(f, t)
  BY <1>7, <1>11 DEF FlatIs, D
<1>13. FlatIs(FlatOf(t), t)
  BY <1>12, Zenon DEF FlatOf
<1> QED
  BY <1>13, FlatTyped

-----------------------------------------------------------------------------
(* The tree's tokens have the size that was counted.                         *)

TokenBytes(A) == [x \in Tok(A) |-> x.bytes]

LEMMA TokenBytesType ==
    ASSUME NEW A
    PROVE  TokenBytes(A) \in [Tok(A) -> Nat]
BY DEF TokenBytes, Tok

LEMMA WeightOne ==
    ASSUME NEW X, NEW w \in [X -> Nat], NEW x \in X
    PROVE  Weight(w, <<x>>) = w[x] /\ <<x>> \in Seq(X)
<1>1. Weight(w, Append(<<>>, x)) = Weight(w, <<>>) + w[x]
  <2>1. <<>> \in Seq(X)
    OBVIOUS
  <2> QED
    BY <2>1, WeightAppend
<1>2. Append(<<>>, x) = <<x>>
  OBVIOUS
<1>3. Weight(w, <<>>) = 0 /\ w[x] \in Nat
  BY WeightEmpty
<1>4. <<x>> \in Seq(X)
  OBVIOUS
<1> QED
  BY <1>1, <1>2, <1>3, <1>4

LEMMA EndSize ==
    ASSUME NEW A, NEW token \in {"end", "END"}
    PROVE  Weight(TokenBytes(A), End(token)) = 4
<1> DEFINE W == TokenBytes(A)
           x == [token |-> token, bytes |-> 4]
<1>1. x \in Tok(A) /\ End(token) = <<x>>
  BY DEF Tok, End
<1>2. W \in [Tok(A) -> Nat] /\ W[x] = 4
  BY <1>1, TokenBytesType DEF TokenBytes
<1> HIDE DEF W, x
<1>3. Weight(W, <<x>>) = W[x]
  BY <1>1, <1>2, WeightOne
<1> QED
  BY <1>1, <1>2, <1>3 DEF W

LEMMA OpeningSize ==
    ASSUME NEW A, NEW t, TreeOf(A, t), NEW n \in DOMAIN t
    PROVE  Weight(TokenBytes(A), OpeningOf(t, n)) + 4 = Own(t, n)
<1> DEFINE W == TokenBytes(A)
           b == 4 + Align(NameLength(t[n].name) + 1)
           x == [token |-> "begin", name |-> t[n].name, bytes |-> b]
           props == t[n].properties
<1>1. /\ t[n].name \in NodeNames \union {RootName} /\ props \in Seq(PropertyType)
      /\ \A k \in DOMAIN props : props[k].name \in A
  BY NodeIs
<1>2. /\ BeginOf(t, n) \in Seq(Tok(A)) /\ PropsOf(t, n) \in Seq(Tok(A))
      /\ \A k \in DOMAIN props : PropsOf(t, n)[k] \in Tok(A)
  <2>1. PropsOf(t, n) \in [1 .. Len(props) -> Tok(A)] /\ DOMAIN props = 1 .. Len(props)
    BY <1>1, OpeningType
  <2> QED
    BY <2>1, OpeningType
<1>3. W \in [Tok(A) -> Nat]
  BY TokenBytesType
<1>4. Align(NameLength(t[n].name) + 1) \in Nat
  <2>1. NameLength(t[n].name) \in Nat
    BY <1>1, NameLengthType
  <2>2. NameLength(t[n].name) + 1 \in Nat
    BY <2>1
  <2> QED
    BY <2>2, AlignType
<1>5. Weight(W, BeginOf(t, n)) = b
  <2>1. b \in Nat
    BY <1>4
  <2> HIDE DEF b
  <2>2. x \in Tok(A)
    BY <1>1, <2>1 DEF Tok
  <2>3. W[x] = b
    BY <2>2 DEF TokenBytes
  <2>4. BeginOf(t, n) = <<x>>
    BY DEF BeginOf, b
  <2> HIDE DEF x, W
  <2> QED
    BY <1>3, <2>2, <2>3, <2>4, WeightOne
<1>6. Weight(W, PropsOf(t, n)) = Weight(PropertySize, props)
  <2>1. DOMAIN PropsOf(t, n) = DOMAIN props
    BY DEF PropsOf
  <2>2. ASSUME NEW k \in DOMAIN props PROVE W[PropsOf(t, n)[k]] = PropertySize[props[k]]
    <3> DEFINE p == props[k]
    <3>1. PropsOf(t, n)[k] = Prop(p, p.name) /\ PropsOf(t, n)[k] \in Tok(A)
      BY <1>2 DEF PropsOf
    <3>2. p \in PropertyType
      BY <1>1
    <3> HIDE DEF p
    <3>3. W[Prop(p, p.name)] = Prop(p, p.name).bytes
      BY <3>1 DEF TokenBytes
    <3>4. Prop(p, p.name).bytes = 12 + Align(p.size)
      BY DEF Prop
    <3>5. PropertySize[p] = 12 + Align(p.size)
      BY <3>2 DEF PropertySize
    <3> QED
      BY <3>1, <3>3, <3>4, <3>5 DEF p
  <2>3. [k \in DOMAIN PropsOf(t, n) |-> W[PropsOf(t, n)[k]]]
          = [k \in DOMAIN props |-> PropertySize[props[k]]]
    <3> HIDE DEF W, props
    <3> QED
      BY <2>1, <2>2
  <2> QED
    BY <2>3 DEF Weight
<1> DEFINE c == Weight(PropertySize, props)
           a == Align(NameLength(t[n].name) + 1)
<1>7. Weight(W, OpeningOf(t, n)) = b + c
  <2> HIDE DEF W, b, c
  <2>1. Weight(W, BeginOf(t, n) \o PropsOf(t, n))
          = Weight(W, BeginOf(t, n)) + Weight(W, PropsOf(t, n))
    BY <1>2, <1>3, WeightConcat
  <2> QED
    BY <1>5, <1>6, <2>1 DEF OpeningOf, c
<1>8. c \in Nat
  BY <1>1, PropertySizeType, WeightType
<1>9. Own(t, n) = 8 + a + c /\ b = 4 + a
  BY DEF Own
<1> HIDE DEF W, a, b, c
<1>10. a \in Nat
  BY <1>4 DEF a
<1> QED
  BY <1>7, <1>8, <1>9, <1>10 DEF W

\* The size of each node with all that is below it.
NodeWeights(A, t) == [n \in DOMAIN t |-> Weight(TokenBytes(A), FlatOf(t)[n])]

LEMMA NodeWeight ==
    ASSUME NEW A, NEW t, TreeOf(A, t), NEW n \in DOMAIN t
    PROVE  /\ NodeWeights(A, t) \in [DOMAIN t -> Nat]
           /\ NodeWeights(A, t)[n] = Own(t, n) + Weight(NodeWeights(A, t), t[n].children)
           /\ t[n].children \in Seq(DOMAIN t)
<1> DEFINE W == TokenBytes(A)
           f == FlatOf(t)
           Z == NodeWeights(A, t)
           q == t[n].children
           l == Len(q)
           kids == KidsOf(f, t, n)
           o == OpeningOf(t, n)
           F == FlattenSeq(kids)
           e == End("end")
           X == Tok(A)
           u == [k \in 1 .. l |-> Z[q[k]]]
<1>1. W \in [X -> Nat]
  BY TokenBytesType
<1>2. FlatIs(f, t) /\ f \in [DOMAIN t -> Seq(X)]
  BY FlatOfIs
<1>3. q \in Seq(Nat) /\ \A k \in DOMAIN q : q[k] \in DOMAIN t
  BY NodeIs
<1>4. l \in Nat /\ kids \in [1 .. l -> Seq(X)] /\ F \in Seq(X)
  <2>1. \A c \in DOMAIN t : c > n => f[c] \in Seq(X)
    BY <1>2
  <2> HIDE DEF f
  <2> QED
    BY <2>1, KidsType
<1>5. o \in Seq(X) /\ e \in Seq(X) /\ Weight(W, e) = 4 /\ Weight(W, o) + 4 = Own(t, n)
  BY OpeningType, EndType, EndSize, OpeningSize
<1>6. f[n] = o \o F \o e
  BY <1>2 DEF FlatIs, FlatBody
<1>7. Z \in [DOMAIN t -> Nat] /\ \A m \in DOMAIN t : Z[m] = Weight(W, f[m])
  <2>1. \A m \in DOMAIN t : Z[m] = Weight(W, f[m])
    BY DEF NodeWeights
  <2>2. Z = [m \in DOMAIN t |-> Z[m]]
    BY DEF NodeWeights
  <2> HIDE DEF W, f, Z, X
  <2>3. \A m \in DOMAIN t : f[m] \in Seq(X)
    BY <1>2
  <2>4. \A m \in DOMAIN t : Weight(W, f[m]) \in Nat
    BY <1>1, <2>3, WeightType
  <2> QED
    BY <2>1, <2>2, <2>4
<1>8. DOMAIN q = 1 .. l
  <2> HIDE DEF q
  <2> QED
    BY <1>3
<1>9. \A k \in 1 .. l : kids[k] = f[q[k]]
  BY <1>8 DEF KidsOf
<1> HIDE DEF W, f, Z, q, kids, o, e, X
<1>10. u \in [1 .. l -> Nat] /\ \A k \in 1 .. l : u[k] = Weight(W, kids[k])
  BY <1>3, <1>7, <1>8, <1>9
<1>11. Weight(Z, q) = Total(u)
  BY <1>8 DEF Weight
<1> HIDE DEF u, l
<1>12. Weight(W, F) = Total(u)
  <2>1. kids \in [1 .. l -> Seq(X)] /\ l \in Nat
    BY <1>4
  <2>2. u \in [1 .. l -> Nat] /\ \A k \in 1 .. l : u[k] = Weight(W, kids[k])
    BY <1>10
  <2>3. Weight(W, FlattenSeq(kids)) = Total(u)
    <3> HIDE DEF F
    <3>1. Weighed(X, W, l, kids, u)
      BY <1>1, <2>1, <2>2 DEF Weighed
    <3> QED
      BY <3>1, WeightFlatten
  <2> QED
    BY <2>3
<1> HIDE DEF F
<1>13. Weight(W, (o \o F) \o e) = (Weight(W, o) + Weight(W, F)) + Weight(W, e)
  <2>1. o \o F \in Seq(X)
    BY <1>4, <1>5
  <2>2. Weight(W, (o \o F) \o e) = Weight(W, o \o F) + Weight(W, e)
    BY <1>1, <1>5, <2>1, WeightConcat
  <2>3. Weight(W, o \o F) = Weight(W, o) + Weight(W, F)
    BY <1>1, <1>4, <1>5, WeightConcat
  <2> QED
    BY <2>2, <2>3
<1>14. Weight(W, o) \in Nat /\ Weight(W, F) \in Nat
  BY <1>1, <1>4, <1>5, WeightType
<1> DEFINE x == Weight(W, o)
           y == Weight(W, F)
<1>15. Z[n] = (x + y) + 4 /\ x + 4 = Own(t, n) /\ y = Weight(Z, q) /\ x \in Nat /\ y \in Nat
  BY <1>5, <1>6, <1>7, <1>11, <1>12, <1>13, <1>14
<1> HIDE DEF x, y
<1>16. Z[n] = Own(t, n) + Weight(Z, q)
  BY <1>15
<1>17. q \in Seq(DOMAIN t)
  <2>1. q \in [1 .. l -> DOMAIN t] /\ l \in Nat
    <3>1. q = [k \in 1 .. l |-> q[k]]
      BY <1>3, <1>8
    <3> QED
      BY <1>3, <1>4, <1>8, <3>1
  <2> QED
    BY <2>1, LengthIs
<1> QED
  BY <1>7, <1>16, <1>17 DEF Z, q

\* Every node but the root is the child of one node: the sizes of all of them
\* are what the root's children, and their children, take.
LEMMA TreeSize ==
    ASSUME NEW A, NEW t, TreeOf(A, t)
    PROVE  Weight(TokenBytes(A), FlatOf(t)[1]) = Total(Owns(t))
<1> DEFINE N == Len(t)
           X == 1 .. N
           Z == NodeWeights(A, t)
           c == [n \in X |-> t[n].children]
           all == FlattenSeq(c)
           q == <<1>> \o all
           id == [n \in X |-> n]
           K == [n \in X |-> Weight(Z, c[n])]
<1>1. t \in Seq(NodeType) /\ N \in Nat /\ DOMAIN t = X /\ 1 \in X
  BY DEF TreeOf, Shaped
<1>2. /\ \A n \in X : IsInjective(t[n].children)
      /\ \A n \in X : \A d \in Range(t[n].children) :
           d \in X /\ d > n /\ t[d].parent = n
      /\ \A d \in X : d # 1 =>
           t[d].parent \in X /\ d \in Range(t[t[d].parent].children)
  BY <1>1 DEF TreeOf, Shaped
<1>3. /\ Z \in [X -> Nat]
      /\ \A n \in X : /\ Z[n] = Own(t, n) + Weight(Z, t[n].children)
                      /\ t[n].children \in Seq(X)
  BY <1>1, NodeWeight
<1>4. Owns(t) \in [X -> Nat] /\ \A n \in X : Owns(t)[n] = Own(t, n)
  BY <1>1, OwnsType DEF Owns
<1>5. Z[1] = Weight(TokenBytes(A), FlatOf(t)[1])
  BY <1>1 DEF NodeWeights
<1> HIDE DEF Z
<1>6. c \in [1 .. N -> Seq(X)] /\ \A n \in X : c[n] = t[n].children
  BY <1>3
<1> HIDE DEF c
<1>7. /\ all \in Seq(X)
      /\ \A x : x \in Range(all) <=> \E i \in 1 .. N : x \in Range(c[i])
  BY <1>1, <1>6, FlattenRange
<1>8. IsInjective(all)
  <2>1. \A i \in 1 .. N : IsInjective(c[i])
    BY <1>2, <1>6
  <2>2. \A i, l \in 1 .. N : \A x : x \in Range(c[i]) /\ x \in Range(c[l]) => i = l
    BY <1>2, <1>6
  <2> QED
    BY <1>1, <1>6, <2>1, <2>2, FlattenInjective
<1> HIDE DEF all
<1>9. Range(all) = X \ {1}
  <2>1. \A x : x \in Range(all) => x \in X /\ x # 1
    BY <1>2, <1>6, <1>7
  <2>2. \A x \in X : x # 1 => x \in Range(all)
    BY <1>2, <1>6, <1>7
  <2> QED
    BY <2>1, <2>2
<1>10. q \in Seq(X) /\ Range(q) = X /\ IsInjective(q)
  <2>1. PutFirst(X, all, 1, q)
    BY <1>1, <1>7 DEF PutFirst
  <2> HIDE DEF q, X
  <2>2. /\ q \in Seq(X)
        /\ \A y : y \in Range(q) <=> y \in Range(all) \/ y = 1
        /\ IsInjective(all) /\ 1 \notin Range(all) => IsInjective(q)
    BY <2>1, Prepended
  <2>3. Range(q) = X
    BY <1>1, <1>9, <2>2
  <2> QED
    BY <1>8, <1>9, <2>2, <2>3
<1>11. id \in Seq(X) /\ Range(id) = X /\ IsInjective(id) /\ Weight(Z, id) = Total(Z)
  <2>1. id \in [1 .. N -> X] /\ DOMAIN id = X /\ \A n \in X : id[n] = n
    BY <1>1
  <2>2. Range(id) = X
    BY <2>1 DEF Range
  <2>3. IsInjective(id)
    BY <2>1 DEF IsInjective
  <2> HIDE DEF id
  <2>4. id \in Seq(X)
    BY <1>1, <2>1, LengthIs
  <2>5. [n \in DOMAIN id |-> Z[id[n]]] = Z
    BY <1>3, <2>1
  <2> QED
    BY <2>2, <2>3, <2>4, <2>5 DEF Weight
<1>12. Weight(Z, q) = Weight(Z, id)
  <2> HIDE DEF q, id, X
  <2>1. SameElements(X, q, id)
    BY <1>8, <1>10, <1>11 DEF SameElements
  <2> QED
    BY <1>3, <2>1, WeightPermuted
<1>13. Weight(Z, q) = Z[1] + Weight(Z, all)
  <2>1. Z \in [X -> Nat] /\ all \in Seq(X) /\ 1 \in X
    BY <1>1, <1>3, <1>7
  <2> HIDE DEF X
  <2>2. Weight(Z, <<1>>) = Z[1] /\ <<1>> \in Seq(X)
    BY <2>1, WeightOne
  <2>3. Weight(Z, <<1>> \o all) = Weight(Z, <<1>>) + Weight(Z, all)
    BY <2>1, <2>2, WeightConcat
  <2> QED
    BY <2>2, <2>3
<1>14. K \in [1 .. N -> Nat] /\ \A n \in 1 .. N : K[n] = Weight(Z, c[n])
  <2>1. ASSUME NEW n \in X PROVE Weight(Z, c[n]) \in Nat
    <3> HIDE DEF X
    <3>1. c[n] \in Seq(X)
      BY <1>3, <1>6
    <3> QED
      BY <1>3, <3>1, WeightType
  <2> QED
    BY <2>1
<1> HIDE DEF K
<1>15. Weight(Z, all) = Total(K)
  <2> HIDE DEF X
  <2>1. Weighed(X, Z, N, c, K)
    BY <1>1, <1>3, <1>6, <1>14 DEF Weighed
  <2> QED
    BY <2>1, WeightFlatten DEF all
<1>16. Total(Z) = Total(Owns(t)) + Total(K)
  <2> DEFINE B == Owns(t)
  <2>1. \A n \in 1 .. N : Z[n] = B[n] + K[n]
    BY <1>3, <1>4, <1>6, <1>14
  <2>2. B \in [1 .. N -> Nat] /\ Z \in [1 .. N -> Nat] /\ K \in [1 .. N -> Nat] /\ N \in Nat
    BY <1>1, <1>3, <1>4, <1>14
  <2> HIDE DEF B, N
  <2>3. Total(Z) = Total(B) + Total(K)
    BY <2>1, <2>2, TotalAdds
  <2> QED
    BY <2>3 DEF B
<1>17. Total(K) \in Nat /\ Total(Owns(t)) \in Nat /\ Z[1] \in Nat
  <2>1. Total(K) \in Nat
    BY <1>1, <1>14, TotalType
  <2>2. Total(Owns(t)) \in Nat
    BY <1>1, <1>4, TotalType
  <2> QED
    BY <1>1, <1>3, <2>1, <2>2
<1> DEFINE a == Total(K)
           b == Total(Owns(t))
           d == Z[1]
<1>18. d + a = b + a /\ a \in Nat /\ b \in Nat /\ d \in Nat
  BY <1>11, <1>12, <1>13, <1>15, <1>16, <1>17
<1> HIDE DEF a, b, d
<1>19. d = b
  BY <1>18
<1> QED
  BY <1>5, <1>19 DEF b, d

LEMMA WholeSize ==
    ASSUME NEW A, NEW t, TreeOf(A, t)
    PROVE  /\ FlatOf(t)[1] \o End("END") \in Seq(Tok(A))
           /\ FlatOf(t)[1] \in Seq(Tok(A))
           /\ Weight(TokenBytes(A), FlatOf(t)[1] \o End("END")) = 4 + Total(Owns(t))
<1> DEFINE f == FlatOf(t)[1]
           e == End("END")
           W == TokenBytes(A)
<1>1. f \in Seq(Tok(A))
  <2>1. FlatOf(t) \in [DOMAIN t -> Seq(Tok(A))] /\ 1 \in DOMAIN t
    BY FlatOfIs DEF TreeOf, Shaped
  <2> QED
    BY <2>1
<1>2. e \in Seq(Tok(A)) /\ Weight(W, e) = 4
  BY EndType, EndSize
<1>3. Weight(W, f) = Total(Owns(t))
  BY TreeSize
<1>4. W \in [Tok(A) -> Nat]
  BY TokenBytesType
<1> HIDE DEF f, e, W
<1>5. Weight(W, f \o e) = Weight(W, f) + Weight(W, e)
  BY <1>1, <1>2, <1>4, WeightConcat
<1>6. Weight(W, f) \in Nat
  BY <1>1, <1>4, WeightType
<1>7. f \o e \in Seq(Tok(A))
  BY <1>1, <1>2
<1>8. Weight(W, f \o e) = 4 + Total(Owns(t))
  BY <1>2, <1>3, <1>5, <1>6
<1> QED
  BY <1>1, <1>7, <1>8 DEF f, e, W

\* Part of the whole is no larger than the whole.
LEMMA PartSize ==
    ASSUME NEW A, NEW p \in Seq(Tok(A)), NEW q \in Seq(Tok(A))
    PROVE  /\ Weight(TokenBytes(A), p) \in Nat /\ Weight(TokenBytes(A), q) \in Nat
           /\ Weight(TokenBytes(A), p \o q) = Weight(TokenBytes(A), p) + Weight(TokenBytes(A), q)
<1> DEFINE W == TokenBytes(A)
<1>1. W \in [Tok(A) -> Nat]
  BY TokenBytesType
<1> HIDE DEF W
<1>2. Weight(W, p) \in Nat /\ Weight(W, q) \in Nat
  BY <1>1, WeightType
<1>3. Weight(W, p \o q) = Weight(W, p) + Weight(W, q)
  BY <1>1, WeightConcat
<1> QED
  BY <1>2, <1>3 DEF W

-----------------------------------------------------------------------------
(* What is behind each node in the flattened tree.                           *)

\* The children of n from the one after the k-th.
Later(f, t, n, k) ==
    [j \in 1 .. (Len(t[n].children) - k) |-> f[t[n].children[k + j]]]

\* What is behind the k-th child of n, when a[n] is behind n.
Closing(a, t, n, k) ==
    FlattenSeq(Later(FlatOf(t), t, n, k)) \o (End("end") \o a[n])

Siblings(t, c) == t[t[c].parent].children

Index(t, c) == CHOOSE i \in DOMAIN Siblings(t, c) : Siblings(t, c)[i] = c

AfterBody(a, t, c) ==
    IF c = 1 THEN End("END") ELSE Closing(a, t, t[c].parent, Index(t, c))

AfterIs(A, a, t) ==
    /\ a \in [DOMAIN t -> Seq(Tok(A))]
    /\ \A c \in DOMAIN t : a[c] = AfterBody(a, t, c)

LEMMA ChildrenAre ==
    ASSUME NEW A, NEW t, TreeOf(A, t), NEW n \in DOMAIN t
    PROVE  /\ Len(t[n].children) \in Nat
           /\ DOMAIN t[n].children = 1 .. Len(t[n].children)
           /\ \A k \in 1 .. Len(t[n].children) :
                t[n].children[k] \in DOMAIN t /\ t[n].children[k] > n
<1> DEFINE q == t[n].children
           l == Len(q)
<1>1. q \in Seq(Nat) /\ \A k \in DOMAIN q : q[k] \in DOMAIN t /\ q[k] > n
  BY NodeIs
<1> HIDE DEF q
<1>2. l \in Nat /\ DOMAIN q = 1 .. l
  BY <1>1
<1> QED
  BY <1>1, <1>2 DEF q

LEMMA LaterIs ==
    ASSUME NEW A, NEW t, TreeOf(A, t), NEW n \in DOMAIN t,
           NEW k \in 0 .. Len(t[n].children)
    PROVE  /\ Len(t[n].children) - k \in Nat
           /\ Later(FlatOf(t), t, n, k)
                \in [1 .. (Len(t[n].children) - k) -> Seq(Tok(A))]
           /\ FlattenSeq(Later(FlatOf(t), t, n, k)) \in Seq(Tok(A))
<1> DEFINE q == t[n].children
           l == Len(q)
           X == Tok(A)
           f == FlatOf(t)
           L == Later(f, t, n, k)
           D == DOMAIN t
<1>1. l \in Nat /\ \A i \in 1 .. l : q[i] \in D
  BY ChildrenAre
<1>2. f \in [D -> Seq(X)]
  BY FlatOfIs
<1>3. L = [j \in 1 .. (l - k) |-> f[q[k + j]]]
  BY DEF Later
<1>4. k \in 0 .. l
  OBVIOUS
<1> HIDE DEF q, l, X, f, L, D
<1>5. l - k \in Nat /\ \A j \in 1 .. (l - k) : k + j \in 1 .. l
  BY <1>1, <1>4
<1>6. L \in [1 .. (l - k) -> Seq(X)]
  BY <1>1, <1>2, <1>3, <1>5
<1> DEFINE m == l - k
<1>7. m \in Nat /\ L \in [1 .. m -> Seq(X)]
  BY <1>5, <1>6
<1> HIDE DEF m
<1>8. FlattenSeq(L) \in Seq(X)
  BY <1>7, FlattenRange
<1> QED
  BY <1>5, <1>6, <1>8 DEF q, l, X, f, L

LEMMA AllLater ==
    ASSUME NEW A, NEW t, TreeOf(A, t), NEW n \in DOMAIN t
    PROVE  KidsOf(FlatOf(t), t, n) = Later(FlatOf(t), t, n, 0)
<1> DEFINE q == t[n].children
           l == Len(q)
           f == FlatOf(t)
<1>1. l \in Nat /\ DOMAIN q = 1 .. l
  BY ChildrenAre
<1>2. KidsOf(f, t, n) = [j \in DOMAIN q |-> f[q[j]]]
  BY DEF KidsOf
<1>3. Later(f, t, n, 0) = [j \in 1 .. (l - 0) |-> f[q[0 + j]]]
  BY DEF Later
<1> HIDE DEF q, l, f
<1>4. l - 0 = l /\ \A j \in 1 .. l : 0 + j = j
  BY <1>1
<1> QED
  BY <1>1, <1>2, <1>3, <1>4 DEF f

LEMMA IndexIs ==
    ASSUME NEW A, NEW t, TreeOf(A, t), NEW c \in DOMAIN t, c # 1
    PROVE  /\ t[c].parent \in DOMAIN t
           /\ c > t[c].parent
           /\ Index(t, c) \in 1 .. Len(Siblings(t, c))
           /\ Siblings(t, c)[Index(t, c)] = c
<1>1. t[c].parent \in DOMAIN t /\ c \in Range(Siblings(t, c))
  BY DEF TreeOf, Shaped, Siblings
<1>2. DOMAIN Siblings(t, c) = 1 .. Len(Siblings(t, c))
  BY <1>1, ChildrenAre DEF Siblings
<1>3. \E i \in DOMAIN Siblings(t, c) : Siblings(t, c)[i] = c
  BY <1>1 DEF Range
<1>4. Index(t, c) \in DOMAIN Siblings(t, c) /\ Siblings(t, c)[Index(t, c)] = c
  BY <1>3, Zenon DEF Index
<1>5. c > t[c].parent
  BY <1>1, <1>2, <1>4, ChildrenAre DEF Siblings
<1> QED
  BY <1>1, <1>2, <1>4, <1>5

LEMMA ChildIs ==
    ASSUME NEW A, NEW t, TreeOf(A, t), NEW n \in DOMAIN t,
           NEW k \in 1 .. Len(t[n].children)
    PROVE  LET c == t[n].children[k]
           IN /\ c \in DOMAIN t /\ c # 1 /\ c # 0 /\ c > n
              /\ t[c].parent = n /\ Siblings(t, c) = t[n].children
              /\ Index(t, c) = k
<1> DEFINE q == t[n].children
           c == q[k]
<1>1. DOMAIN q = 1 .. Len(q) /\ c \in DOMAIN t /\ c > n
  BY ChildrenAre
<1>2. n \in Nat /\ n >= 1
  BY DEF TreeOf, Shaped
<1>3. DOMAIN t \subseteq Nat
  BY DEF TreeOf, Shaped
<1>4. c \in Range(q)
  BY <1>1 DEF Range
<1>5. t[c].parent = n
  BY <1>4 DEF TreeOf, Shaped
<1>6. IsInjective(q)
  BY DEF TreeOf, Shaped
<1>7. Siblings(t, c) = q
  BY <1>5 DEF Siblings
<1> HIDE DEF c
<1>8. c # 1 /\ c # 0
  BY <1>1, <1>2, <1>3
<1>9. Index(t, c) \in 1 .. Len(q) /\ q[Index(t, c)] = c
  BY <1>1, <1>7, <1>8, IndexIs
<1> DEFINE i == Index(t, c)
<1>10. i \in DOMAIN q /\ k \in DOMAIN q /\ q[i] = c /\ q[k] = c
  BY <1>1, <1>9 DEF c
<1> HIDE DEF i, q
<1>11. i = k
  BY <1>6, <1>10 DEF IsInjective
<1> QED
  BY <1>1, <1>5, <1>7, <1>8, <1>11 DEF c, i, q

LEMMA ClosingType ==
    ASSUME NEW A, NEW t, TreeOf(A, t), NEW n \in DOMAIN t,
           NEW k \in 0 .. Len(t[n].children), NEW a, a[n] \in Seq(Tok(A))
    PROVE  Closing(a, t, n, k) \in Seq(Tok(A))
<1> DEFINE X == Tok(A)
           F == FlattenSeq(Later(FlatOf(t), t, n, k))
           e == End("end")
           r == a[n]
<1>1. F \in Seq(X) /\ e \in Seq(X) /\ r \in Seq(X)
  BY LaterIs, EndType
<1>2. Closing(a, t, n, k) = F \o (e \o r)
  BY DEF Closing
<1> HIDE DEF X, F, e, r
<1>3. F \o (e \o r) \in Seq(X)
  BY <1>1
<1> QED
  BY <1>2, <1>3 DEF X

LEMMA AfterExists ==
    ASSUME NEW A, NEW t, TreeOf(A, t)
    PROVE  \E a : AfterIs(A, a, t)
<1> DEFINE D == DOMAIN t
           N == Len(t) + 1
           S == Seq(Tok(A))
           V == [D -> S]
           step == [g \in V |-> [n \in D |-> AfterBody(g, t, n)]]
           rank == [n \in D |-> n]
           none == <<>>
           z == [n \in D |-> none]
<1>1. N \in Nat /\ D = 1 .. (N - 1)
  BY DEF TreeOf, Shaped
<1>2. ASSUME NEW g \in V, NEW c \in D PROVE AfterBody(g, t, c) \in S
  <2>1. CASE c = 1
    BY <2>1, EndType DEF AfterBody
  <2>2. CASE c # 1
    <3>1. t[c].parent \in D /\ Index(t, c) \in 1 .. Len(t[t[c].parent].children)
      BY <2>2, IndexIs DEF Siblings
    <3>2. Index(t, c) \in 0 .. Len(t[t[c].parent].children)
      <4>1. Len(t[t[c].parent].children) \in Nat
        BY <3>1, ChildrenAre
      <4> QED
        BY <3>1, <4>1
    <3>3. g[t[c].parent] \in Seq(Tok(A))
      BY <3>1
    <3>4. Closing(g, t, t[c].parent, Index(t, c)) \in Seq(Tok(A))
      BY <3>1, <3>2, <3>3, ClosingType
    <3> QED
      BY <2>2, <3>4 DEF AfterBody
  <2> QED
    BY <2>1, <2>2
<1>3. rank \in [D -> Nat] /\ \A c \in D : rank[c] < N
  BY <1>1
<1>4. ASSUME NEW g \in V, NEW h \in V, NEW c \in D, \A d \in D : c > d => g[d] = h[d]
      PROVE  AfterBody(g, t, c) = AfterBody(h, t, c)
  <2>1. CASE c = 1
    BY <2>1 DEF AfterBody
  <2>2. CASE c # 1
    <3>1. t[c].parent \in D /\ c > t[c].parent
      BY <2>2, IndexIs
    <3>2. g[t[c].parent] = h[t[c].parent]
      BY <1>4, <3>1
    <3> QED
      BY <2>2, <3>2 DEF AfterBody, Closing
  <2> QED
    BY <2>1, <2>2
<1>5. z \in V
  BY EmptySeq
<1>6. \A c, d \in D : rank[d] < rank[c] <=> c > d
  BY <1>1
<1> HIDE DEF D, S, N, rank, z, none
<1>7. /\ step \in [V -> V]
      /\ \A g \in V : step[g] = [n \in D |-> AfterBody(g, t, n)]
      /\ \A g \in V, n \in D : step[g][n] = AfterBody(g, t, n)
  BY <1>2
<1>8. ASSUME NEW g \in V, NEW h \in V, NEW c \in D, \A d \in D : rank[d] < rank[c] => g[d] = h[d]
      PROVE  step[g][c] = step[h][c]
  <2>1. \A d \in D : c > d => g[d] = h[d]
    BY <1>6, <1>8
  <2>2. AfterBody(g, t, c) = AfterBody(h, t, c)
    BY <1>4, <2>1
  <2> QED
    BY <1>7, <2>2
<1> HIDE DEF step
<1>9. Local(D, S, rank, step)
  BY <1>7, <1>8 DEF Local
<1>10. \E f \in [D -> S] : step[f] = f
  <2>1. N \in Nat
    BY <1>1
  <2>2. rank \in [D -> Nat]
    BY <1>3
  <2>3. \A c \in D : rank[c] < N
    BY <1>3
  <2>4. z \in [D -> S]
    BY <1>5
  <2> QED
    BY <1>9, <2>1, <2>2, <2>3, <2>4, Ranked
<1>11. PICK f \in V : step[f] = f
  BY <1>10
<1>12. AfterIs(A, f, t)
  BY <1>7, <1>11 DEF AfterIs, D, S
<1> QED
  BY <1>12

\* A node and what is behind it.
FromNode(a, t, n) == FlatOf(t)[n] \o a[n]

\* That is its opening, its children and its end.
LEMMA Enter ==
    ASSUME NEW A, NEW t, TreeOf(A, t), NEW n \in DOMAIN t, NEW a, a[n] \in Seq(Tok(A))
    PROVE  FromNode(a, t, n) = OpeningOf(t, n) \o Closing(a, t, n, 0)
<1> DEFINE X == Tok(A)
           f == FlatOf(t)
           o == OpeningOf(t, n)
           F == FlattenSeq(KidsOf(f, t, n))
           e == End("end")
           r == a[n]
<1>1. Len(t[n].children) \in Nat
  BY ChildrenAre
<1>2. F = FlattenSeq(Later(f, t, n, 0))
  BY AllLater
<1>3. F \in Seq(X)
  <2>1. 0 \in 0 .. Len(t[n].children)
    BY <1>1
  <2> QED
    BY <1>2, <2>1, LaterIs
<1>4. o \in Seq(X) /\ e \in Seq(X) /\ r \in Seq(X)
  BY OpeningType, EndType
<1>5. f[n] = (o \o F) \o e
  BY FlatOfIs DEF FlatIs, FlatBody
<1>6. Closing(a, t, n, 0) = F \o (e \o r)
  BY <1>2 DEF Closing
<1> HIDE DEF X, o, F, e, r
<1>7. ((o \o F) \o e) \o r = o \o (F \o (e \o r))
  <2>1. o \o F \in Seq(X) /\ e \o r \in Seq(X)
    BY <1>3, <1>4
  <2>2. ((o \o F) \o e) \o r = (o \o F) \o (e \o r)
    BY <1>4, <2>1, Associative
  <2>3. (o \o F) \o (e \o r) = o \o (F \o (e \o r))
    <3> DEFINE y == e \o r
    <3>1. y \in Seq(X)
      BY <2>1
    <3> HIDE DEF y
    <3>2. (o \o F) \o y = o \o (F \o y)
      BY <1>3, <1>4, <3>1, Associative
    <3> QED
      BY <3>2 DEF y
  <2> QED
    BY <2>2, <2>3
<1> QED
  BY <1>5, <1>6, <1>7 DEF o, r, FromNode

NotLast(t, n, k) == k \in 0 .. Len(t[n].children) /\ k # Len(t[n].children)

\* Behind the k-th child is the next one.
LEMMA NextChild ==
    ASSUME NEW A, NEW t, TreeOf(A, t), NEW n \in DOMAIN t, NEW a, AfterIs(A, a, t),
           NEW k, NotLast(t, n, k)
    PROVE  /\ k + 1 \in 1 .. Len(t[n].children)
           /\ Closing(a, t, n, k) = FromNode(a, t, t[n].children[k + 1])
<1> DEFINE X == Tok(A)
           f == FlatOf(t)
           q == t[n].children
           l == Len(q)
           c == q[k + 1]
           m == l - (k + 1)
           s == Later(f, t, n, k)
           r == Later(f, t, n, k + 1)
           w == End("end") \o a[n]
<1>1. l \in Nat
  BY ChildrenAre
<1>2. k + 1 \in 1 .. l /\ k + 1 \in 0 .. l /\ k \in Nat
  <2>1. k \in 0 .. l /\ k # l
    BY DEF NotLast
  <2> HIDE DEF l
  <2> QED
    BY <1>1, <2>1
<1>3. c \in DOMAIN t /\ c # 1 /\ t[c].parent = n /\ Index(t, c) = k + 1
  BY <1>2, ChildIs
<1>4. s \in [1 .. (l - k) -> Seq(X)]
  BY LaterIs DEF NotLast
<1>5. r \in [1 .. (l - (k + 1)) -> Seq(X)] /\ FlattenSeq(r) \in Seq(X)
  BY <1>2, LaterIs
<1>6. /\ s = [j \in 1 .. (l - k) |-> f[q[k + j]]]
      /\ r = [j \in 1 .. (l - (k + 1)) |-> f[q[(k + 1) + j]]]
  BY DEF Later
<1>7. a[c] = Closing(a, t, n, k + 1)
  BY <1>3 DEF AfterIs, AfterBody
<1>8. Closing(a, t, n, k) = FlattenSeq(s) \o w /\ a[c] = FlattenSeq(r) \o w
  BY <1>7 DEF Closing
<1>9. w \in Seq(X)
  <2>1. End("end") \in Seq(X) /\ a[n] \in Seq(X)
    BY EndType DEF AfterIs
  <2> QED
    BY <2>1
<1> HIDE DEF X, f, q, l, s, r, w, m, c
<1>10. m \in Nat /\ l - k = m + 1 /\ l - (k + 1) = m
  BY <1>1, <1>2 DEF m
<1>11. s \in [1 .. (m + 1) -> Seq(X)] /\ r \in [1 .. m -> Seq(X)]
  BY <1>4, <1>5, <1>10
<1>12. \A j \in 1 .. m : r[j] = s[j + 1]
  <2> TAKE j \in 1 .. m
  <2>1. j + 1 \in 1 .. (m + 1) /\ k + (j + 1) = (k + 1) + j
    BY <1>2, <1>10
  <2> QED
    BY <1>6, <1>10, <2>1
<1>13. s[1] = f[c]
  <2>1. 1 \in 1 .. (m + 1)
    BY <1>10
  <2> QED
    BY <1>6, <1>10, <2>1 DEF c
<1>14. FlattenSeq(s) = s[1] \o FlattenSeq(r)
  BY <1>10, <1>11, <1>12, FlattenFirst
<1>15. s[1] \in Seq(X)
  <2>1. 1 \in 1 .. (m + 1)
    BY <1>10
  <2> QED
    BY <1>11, <2>1
<1> DEFINE R == FlattenSeq(r)
           h == s[1]
<1>16. R \in Seq(X) /\ h \in Seq(X)
  BY <1>5, <1>15
<1> HIDE DEF R, h
<1>17. (h \o R) \o w = h \o (R \o w)
  BY <1>9, <1>16, Associative
<1>18. Closing(a, t, n, k) = f[c] \o a[c]
  BY <1>8, <1>13, <1>14, <1>17 DEF R, h
<1> QED
  BY <1>2, <1>18 DEF q, l, c, f, FromNode

\* Behind the last child is the end of the node.
LEMMA Leave ==
    ASSUME NEW A, NEW t, TreeOf(A, t), NEW n \in DOMAIN t, NEW a, AfterIs(A, a, t)
    PROVE  Closing(a, t, n, Len(t[n].children)) = End("end") \o a[n]
<1> DEFINE X == Tok(A)
           l == Len(t[n].children)
           s == Later(FlatOf(t), t, n, l)
           w == End("end") \o a[n]
<1>1. l \in Nat
  BY ChildrenAre
<1>2. s \in [1 .. (l - l) -> Seq(X)]
  <2>1. l \in 0 .. l
    BY <1>1
  <2> QED
    BY <2>1, LaterIs
<1>3. w \in Seq(X)
  <2>1. End("end") \in Seq(X) /\ a[n] \in Seq(X)
    BY EndType DEF AfterIs
  <2> QED
    BY <2>1
<1>4. Closing(a, t, n, l) = FlattenSeq(s) \o w
  BY DEF Closing
<1> HIDE DEF X, l, s, w
<1>5. s \in [1 .. 0 -> Seq(X)]
  BY <1>1, <1>2
<1>6. FlattenSeq(s) = <<>>
  BY <1>5, FlattenEmpty
<1>7. <<>> \o w = w
  BY <1>3
<1> QED
  BY <1>4, <1>6, <1>7 DEF l, w

-----------------------------------------------------------------------------
(* One turn of BlDtBuildBlob's loop.                                         *)

\* Where the loop is when rest is still to be written: before node n when it
\* comes from the parent, behind its child p when it comes from there.
At(a, t, n, p, rest) ==
    \/ n = 0 /\ rest = End("END")
    \/ n \in DOMAIN t /\ p = t[n].parent /\ rest = FromNode(a, t, n)
    \/ /\ n \in DOMAIN t /\ p \in DOMAIN t
       /\ p # 1 /\ t[p].parent = n /\ rest = a[p]

\* The child of n after the k-th, or none.
Following(t, n, k) ==
    IF k = Len(t[n].children) THEN 0 ELSE t[n].children[k + 1]

NextOf(t, c) ==
    IF Index(t, c) = Len(Siblings(t, c)) THEN 0 ELSE Siblings(t, c)[Index(t, c) + 1]

Target(t, n, p) ==
    IF ~(p = t[n].parent) THEN NextOf(t, p)
    ELSE IF t[n].children = <<>> THEN 0 ELSE Head(t[n].children)

Ends(next) == IF next = 0 THEN End("end") ELSE <<>>

Piece(t, n, p) ==
    (IF p = t[n].parent THEN OpeningOf(t, n) ELSE <<>>) \o Ends(Target(t, n, p))

Onto(t, n, next) == IF next # 0 THEN next ELSE t[n].parent

\* What the turn writes is next to be written, and the loop is behind it.
Goes(A, a, t, n, p, rest) ==
    \E later \in Seq(Tok(A)) :
      /\ Piece(t, n, p) \in Seq(Tok(A))
      /\ rest = Piece(t, n, p) \o later
      /\ At(a, t, Onto(t, n, Target(t, n, p)), n, later)

LEMMA Forward ==
    ASSUME NEW A, NEW t, TreeOf(A, t), NEW n \in DOMAIN t, NEW a, AfterIs(A, a, t),
           NEW k \in 0 .. Len(t[n].children)
    PROVE  \E later \in Seq(Tok(A)) :
             /\ Closing(a, t, n, k) = Ends(Following(t, n, k)) \o later
             /\ At(a, t, Onto(t, n, Following(t, n, k)), n, later)
<1> DEFINE next == Following(t, n, k)
<1>1. n \in Nat /\ n # 0
  BY DEF TreeOf, Shaped
<1>2. a[n] \in Seq(Tok(A))
  BY DEF AfterIs
<1>3. CASE k = Len(t[n].children)
  <2>1. next = 0
    BY <1>3 DEF Following
  <2>2. Closing(a, t, n, k) = Ends(next) \o a[n]
    BY <1>3, <2>1, Leave DEF Ends
  <2>3. Onto(t, n, next) = t[n].parent
    BY <2>1 DEF Onto
  <2>4. At(a, t, t[n].parent, n, a[n])
    <3>1. CASE n = 1
      <4>1. t[n].parent = 0 /\ a[n] = End("END")
        BY <3>1 DEF AfterIs, AfterBody, TreeOf, Shaped
      <4> QED
        BY <4>1 DEF At
    <3>2. CASE n # 1
      <4>1. t[n].parent \in DOMAIN t
        BY <3>2, IndexIs
      <4> QED
        BY <3>2, <4>1 DEF At
    <3> QED
      BY <3>1, <3>2
  <2> QED
    BY <1>2, <2>2, <2>3, <2>4
<1>4. CASE k # Len(t[n].children)
  <2> DEFINE c == t[n].children[k + 1]
             later == FromNode(a, t, c)
  <2>1. k + 1 \in 1 .. Len(t[n].children) /\ Closing(a, t, n, k) = later
    <3>1. NotLast(t, n, k)
      BY <1>4 DEF NotLast
    <3> QED
      BY <3>1, NextChild
  <2>2. c \in DOMAIN t /\ c # 0 /\ t[c].parent = n
    BY <2>1, ChildIs
  <2>3. next = c
    BY <1>4 DEF Following
  <2> HIDE DEF c, next
  <2>4. later \in Seq(Tok(A))
    <3>1. FlatOf(t)[c] \in Seq(Tok(A)) /\ a[c] \in Seq(Tok(A))
      BY <2>2, FlatOfIs DEF AfterIs
    <3> QED
      BY <3>1 DEF FromNode
  <2>5. At(a, t, c, n, later)
    BY <2>2 DEF At
  <2>6. Ends(c) = <<>> /\ Onto(t, n, c) = c
    BY <2>2 DEF Ends, Onto
  <2> HIDE DEF later
  <2>7. <<>> \o later = later
    BY <2>4
  <2>8. Closing(a, t, n, k) = Ends(next) \o later /\ At(a, t, Onto(t, n, next), n, later)
    BY <2>1, <2>3, <2>5, <2>6, <2>7
  <2> QED
    BY <2>4, <2>8 DEF next
<1> QED
  BY <1>3, <1>4

LEMMA EndsType ==
    ASSUME NEW A, NEW next
    PROVE  Ends(next) \in Seq(Tok(A))
<1>1. End("end") \in Seq(Tok(A)) /\ <<>> \in Seq(Tok(A))
  BY EndType
<1> QED
  BY <1>1 DEF Ends

LEMMA WalkIn ==
    ASSUME NEW A, NEW t, TreeOf(A, t), NEW n \in DOMAIN t, NEW a, AfterIs(A, a, t)
    PROVE  Goes(A, a, t, n, t[n].parent, FromNode(a, t, n))
<1> DEFINE p == t[n].parent
           o == OpeningOf(t, n)
           next == Following(t, n, 0)
           e == Ends(next)
           q == t[n].children
<1>1. Len(q) \in Nat /\ q \in Seq(Nat)
  BY ChildrenAre, NodeIs
<1>2. Target(t, n, p) = next
  <2>1. CASE q = <<>>
    <3>1. Len(q) = 0
      BY <2>1
    <3> QED
      BY <2>1, <3>1 DEF Target, Following
  <2>2. CASE q # <<>>
    <3> HIDE DEF q
    <3>1. Len(q) # 0 /\ Head(q) = q[0 + 1]
      BY <1>1, <2>2
    <3> QED
      BY <2>2, <3>1 DEF Target, Following, q
  <2> QED
    BY <2>1, <2>2
<1>3. PICK later \in Seq(Tok(A)) :
        Closing(a, t, n, 0) = e \o later /\ At(a, t, Onto(t, n, next), n, later)
  <2>1. 0 \in 0 .. Len(q)
    BY <1>1
  <2> QED
    BY <2>1, Forward
<1>4. a[n] \in Seq(Tok(A))
  BY DEF AfterIs
<1>5. FromNode(a, t, n) = o \o Closing(a, t, n, 0)
  BY <1>4, Enter
<1>6. o \in Seq(Tok(A)) /\ e \in Seq(Tok(A))
  BY OpeningType, EndsType
<1>7. Piece(t, n, p) = o \o e
  BY <1>2 DEF Piece
<1> HIDE DEF o, e, next, p
<1>8. (o \o e) \o later = o \o (e \o later)
  BY <1>6, Associative
<1>9. o \o e \in Seq(Tok(A))
  BY <1>6
<1>10. Goes(A, a, t, n, p, FromNode(a, t, n))
  BY <1>2, <1>3, <1>5, <1>7, <1>8, <1>9 DEF Goes
<1> QED
  BY <1>10 DEF p

LEMMA WalkOut ==
    ASSUME NEW A, NEW t, TreeOf(A, t), NEW n \in DOMAIN t, NEW a, AfterIs(A, a, t),
           NEW p \in DOMAIN t, p # 1, t[p].parent = n
    PROVE  Goes(A, a, t, n, p, a[p])
<1> DEFINE k == Index(t, p)
           next == Following(t, n, k)
           e == Ends(next)
<1>1. p > n /\ k \in 1 .. Len(t[n].children) /\ Siblings(t, p) = t[n].children
  BY IndexIs DEF Siblings
<1>2. ~(p = t[n].parent)
  <2>1. n \in Nat /\ p \in Nat
    BY DEF TreeOf, Shaped
  <2>2. n = 1 => t[n].parent = 0
    BY DEF TreeOf, Shaped
  <2>3. n # 1 => n > t[n].parent /\ t[n].parent \in Nat
    <3>1. ASSUME n # 1 PROVE t[n].parent \in DOMAIN t /\ n > t[n].parent
      BY <3>1, IndexIs
    <3>2. DOMAIN t \subseteq Nat
      BY DEF TreeOf, Shaped
    <3> QED
      BY <3>1, <3>2
  <2> DEFINE m == t[n].parent
  <2>4. n = 1 => m = 0
    BY <2>2
  <2>5. n # 1 => n > m /\ m \in Nat
    BY <2>3
  <2> HIDE DEF m
  <2>6. p # m
    BY <1>1, <2>1, <2>4, <2>5
  <2> QED
    BY <2>6 DEF m
<1>3. Target(t, n, p) = next
  BY <1>1, <1>2 DEF Target, NextOf, Following
<1>4. a[p] = Closing(a, t, n, k)
  BY DEF AfterIs, AfterBody
<1>5. PICK later \in Seq(Tok(A)) :
        Closing(a, t, n, k) = e \o later /\ At(a, t, Onto(t, n, next), n, later)
  <2>1. Len(t[n].children) \in Nat
    BY ChildrenAre
  <2>2. k \in 0 .. Len(t[n].children)
    BY <1>1, <2>1
  <2> QED
    BY <2>2, Forward
<1>6. e \in Seq(Tok(A))
  BY EndsType
<1>7. Piece(t, n, p) = e
  <2>1. <<>> \o e = e
    <3> HIDE DEF e
    <3> QED
      BY <1>6
  <2> QED
    BY <1>2, <1>3, <2>1 DEF Piece
<1> HIDE DEF e, next, k
<1> QED
  BY <1>3, <1>4, <1>5, <1>6, <1>7 DEF Goes

LEMMA WalkGoes ==
    ASSUME NEW A, NEW t, TreeOf(A, t), NEW a, AfterIs(A, a, t),
           NEW n, NEW p, NEW rest, At(a, t, n, p, rest), n # 0
    PROVE  n \in DOMAIN t /\ Goes(A, a, t, n, p, rest)
<1>1. CASE n \in DOMAIN t /\ p = t[n].parent /\ rest = FromNode(a, t, n)
  BY <1>1, WalkIn
<1>2. CASE /\ n \in DOMAIN t /\ p \in DOMAIN t
           /\ p # 1 /\ t[p].parent = n /\ rest = a[p]
  BY <1>2, WalkOut
<1> QED
  BY <1>1, <1>2 DEF At

-----------------------------------------------------------------------------
(* What is written of the tokens: the properties have identifiers.           *)

Id(ids, name) == ids[CHOOSE k \in DOMAIN ids : ids[k].name = name].at

Named(ids, x) == IF x.token = "prop" THEN [x EXCEPT !.name = Id(ids, x.name)] ELSE x

NamedAll(ids, X) == {Named(ids, x) : x \in X}

Written(ids, q) == [k \in DOMAIN q |-> Named(ids, q[k])]

LEMMA WrittenType ==
    ASSUME NEW ids, NEW X, NEW q \in Seq(X)
    PROVE  /\ Written(ids, q) \in Seq(NamedAll(ids, X))
           /\ Len(Written(ids, q)) = Len(q)
           /\ DOMAIN Written(ids, q) = 1 .. Len(q) /\ DOMAIN q = 1 .. Len(q)
           /\ \A k \in 1 .. Len(q) : Written(ids, q)[k] = Named(ids, q[k])
<1> DEFINE n == Len(q)
           Y == NamedAll(ids, X)
           w == Written(ids, q)
<1>1. n \in Nat /\ DOMAIN q = 1 .. n /\ \A k \in 1 .. n : q[k] \in X
  OBVIOUS
<1>2. \A x \in X : Named(ids, x) \in Y
  BY DEF NamedAll
<1>3. w = [k \in DOMAIN q |-> Named(ids, q[k])]
  BY DEF Written
<1> HIDE DEF n, Y, w
<1>4. /\ DOMAIN w = 1 .. n /\ w \in [1 .. n -> Y]
      /\ \A k \in 1 .. n : w[k] = Named(ids, q[k])
  BY <1>1, <1>2, <1>3
<1>5. w \in Seq(Y) /\ Len(w) = n
  BY <1>1, <1>4, LengthIs
<1> QED
  BY <1>1, <1>4, <1>5 DEF n, Y, w

LEMMA WrittenConcat ==
    ASSUME NEW ids, NEW X, NEW q \in Seq(X), NEW r \in Seq(X)
    PROVE  /\ Written(ids, q \o r) = Written(ids, q) \o Written(ids, r)
           /\ q \o r \in Seq(X)
<1>0. ASSUME NEW z \in Seq(X)
      PROVE  /\ Written(ids, z) \in Seq(NamedAll(ids, X))
             /\ Len(Written(ids, z)) = Len(z)
             /\ \A k \in 1 .. Len(z) : Written(ids, z)[k] = Named(ids, z[k])
  BY WrittenType
<1> DEFINE Y == NamedAll(ids, X)
           w(z) == Written(ids, z)
           s == q \o r
<1>1. /\ s \in Seq(X) /\ Len(s) = Len(q) + Len(r)
      /\ \A k \in 1 .. Len(s) : s[k] = IF k <= Len(q) THEN q[k] ELSE r[k - Len(q)]
  BY ConcatProperties
<1>2. w(s) \in Seq(Y) /\ Len(w(s)) = Len(s) /\ \A k \in 1 .. Len(s) : w(s)[k] = Named(ids, s[k])
  BY <1>0, <1>1
<1>3. /\ w(q) \in Seq(Y) /\ Len(w(q)) = Len(q) /\ \A k \in 1 .. Len(q) : w(q)[k] = Named(ids, q[k])
      /\ w(r) \in Seq(Y) /\ Len(w(r)) = Len(r) /\ \A k \in 1 .. Len(r) : w(r)[k] = Named(ids, r[k])
  BY <1>0
<1>4. Len(q) \in Nat /\ Len(r) \in Nat
  OBVIOUS
<1> HIDE DEF w, s, Y
<1> DEFINE a == w(q)
           b == w(r)
           c == a \o b
           m == Len(q)
           l == Len(r)
<1>5. a \in Seq(Y) /\ b \in Seq(Y) /\ Len(a) = m /\ Len(b) = l
  BY <1>3
<1> HIDE DEF a, b, m, l
<1>6. /\ c \in Seq(Y) /\ Len(c) = m + l
      /\ \A k \in 1 .. Len(c) : c[k] = IF k <= m THEN a[k] ELSE b[k - m]
  <2>1. /\ a \o b \in Seq(Y) /\ Len(a \o b) = Len(a) + Len(b)
        /\ \A k \in 1 .. Len(a \o b) :
             (a \o b)[k] = IF k <= Len(a) THEN a[k] ELSE b[k - Len(a)]
    BY <1>5, ConcatProperties
  <2> HIDE DEF c
  <2>2. c = a \o b
    BY DEF c
  <2> HIDE DEF c
  <2> QED
    BY <1>5, <2>1, <2>2
<1> HIDE DEF c
<1>7. m \in Nat /\ l \in Nat
  BY <1>4 DEF m, l
<1>8. ASSUME NEW k \in 1 .. (m + l) PROVE w(s)[k] = c[k]
  <2>1. w(s)[k] = Named(ids, s[k]) /\ k \in Nat
    BY <1>1, <1>2, <1>7 DEF m, l
  <2>2. CASE k <= m
    <3>1. k \in 1 .. m
      BY <1>7, <2>2
    <3>2. s[k] = q[k]
      BY <1>1, <2>2 DEF m, l
    <3>3. c[k] = a[k]
      BY <1>6, <2>2
    <3>4. a[k] = Named(ids, q[k])
      BY <1>3, <3>1 DEF a, m
    <3> QED
      BY <2>1, <3>2, <3>3, <3>4
  <2>3. CASE ~(k <= m)
    <3>1. k - m \in 1 .. l
      BY <1>7, <2>3
    <3>2. s[k] = r[k - m]
      BY <1>1, <2>3 DEF m, l
    <3>3. c[k] = b[k - m]
      BY <1>6, <2>3
    <3>4. b[k - m] = Named(ids, r[k - m])
      BY <1>3, <3>1 DEF b, l
    <3> QED
      BY <2>1, <3>2, <3>3, <3>4
  <2> QED
    BY <2>2, <2>3
<1>9. Len(w(s)) = m + l
  BY <1>1, <1>2 DEF m, l
<1>10. w(s) = c
  <2> DEFINE v == w(s)
  <2>1. v \in Seq(Y) /\ Len(v) = Len(c) /\ \A k \in 1 .. Len(v) : v[k] = c[k]
    BY <1>2, <1>6, <1>8, <1>9
  <2> HIDE DEF v
  <2>2. v = c
    BY <1>6, <2>1, SeqEqual
  <2> QED
    BY <2>2 DEF v
<1> QED
  BY <1>1, <1>10 DEF w, s, c, a, b

\* Identifiers change no size.
LEMMA WrittenBytes ==
    ASSUME NEW ids, NEW A, NEW q \in Seq(Tok(A))
    PROVE  Total([k \in DOMAIN Written(ids, q) |-> Written(ids, q)[k].bytes])
             = Weight(TokenBytes(A), q)
<1> DEFINE X == Tok(A)
           w == Written(ids, q)
           W == TokenBytes(A)
<1>1. DOMAIN w = DOMAIN q /\ \A k \in DOMAIN q : w[k] = Named(ids, q[k]) /\ q[k] \in X
  BY DEF Written
<1>2. ASSUME NEW x \in X PROVE Named(ids, x).bytes = W[x]
  <2>1. W[x] = x.bytes
    BY DEF TokenBytes
  <2>2. Named(ids, x).bytes = x.bytes
    BY DEF Named, Tok
  <2> QED
    BY <2>1, <2>2
<1> HIDE DEF X, w, W
<1>3. [k \in DOMAIN w |-> w[k].bytes] = [k \in DOMAIN q |-> W[q[k]]]
  BY <1>1, <1>2
<1> QED
  BY <1>3 DEF w, W, Weight

LEMMA WrittenEnd ==
    ASSUME NEW ids, NEW token \in {"end", "END"}
    PROVE  Written(ids, End(token)) = End(token)
BY DEF Written, End, Named

LEMMA WrittenEmpty ==
    ASSUME NEW ids
    PROVE  Written(ids, <<>>) = <<>>
BY DEF Written

LEMMA WrittenOpening ==
    ASSUME NEW ids, NEW A, NEW t, TreeOf(A, t), NEW n \in DOMAIN t
    PROVE  Written(ids, OpeningOf(t, n))
             = BeginOf(t, n) \o [k \in DOMAIN t[n].properties |->
                                   Prop(t[n].properties[k], Id(ids, t[n].properties[k].name))]
<1> DEFINE props == t[n].properties
           b == BeginOf(t, n)
           o == PropsOf(t, n)
<1>1. b \in Seq(Tok(A)) /\ o \in Seq(Tok(A))
  BY OpeningType
<1>2. Written(ids, b) = b
  BY DEF BeginOf, Written, Named
<1>3. Written(ids, o) = [k \in DOMAIN props |-> Prop(props[k], Id(ids, props[k].name))]
  <2>1. ASSUME NEW p, NEW id PROVE Prop(p, id) = [Prop(p, p.name) EXCEPT !.name = id]
    BY DEF Prop
  <2>2. ASSUME NEW p PROVE Prop(p, p.name).token = "prop" /\ Prop(p, p.name).name = p.name
    BY DEF Prop
  <2>3. ASSUME NEW p PROVE Named(ids, Prop(p, p.name)) = Prop(p, Id(ids, p.name))
    BY <2>1, <2>2 DEF Named
  <2>4. DOMAIN o = DOMAIN props /\ \A k \in DOMAIN props : o[k] = Prop(props[k], props[k].name)
    BY DEF PropsOf
  <2> HIDE DEF o, props
  <2> QED
    BY <2>3, <2>4 DEF Written
<1> HIDE DEF b, o
<1>4. Written(ids, b \o o) = Written(ids, b) \o Written(ids, o)
  BY <1>1, WrittenConcat
<1> QED
  BY <1>2, <1>3, <1>4 DEF OpeningOf, b, o

-----------------------------------------------------------------------------
(* How far the blob is: what is written of the tree's tokens, and the rest.  *)

All(t) == FlatOf(t)[1] \o End("END")

Split(A, t, done, rest) ==
    done \in Seq(Tok(A)) /\ rest \in Seq(Tok(A)) /\ All(t) = done \o rest

Progress(A, t, ids, n, p, b, o, ph) ==
    \E a, done, rest :
      /\ AfterIs(A, a, t)
      /\ Split(A, t, done, rest)
      /\ b = Written(ids, done)
      /\ o = Weight(TokenBytes(A), done)
      /\ ph = "walk" => At(a, t, n, p, rest)
      /\ ph = "done" => rest = <<>>

\* Writing a piece, the next of what is to be written, leaves the rest.
LEMMA Splits ==
    ASSUME NEW A, NEW t, TreeOf(A, t), NEW done, NEW piece \in Seq(Tok(A)),
           NEW later \in Seq(Tok(A)), Split(A, t, done, piece \o later)
    PROVE  /\ Split(A, t, done \o piece, later)
           /\ Weight(TokenBytes(A), done \o piece) <= 4 + Total(Owns(t))
           /\ later = <<>> => Weight(TokenBytes(A), done \o piece) = 4 + Total(Owns(t))
<1> DEFINE X == Tok(A)
           W == TokenBytes(A)
           T == 4 + Total(Owns(t))
           whole == All(t)
           q == done \o piece
<1>1. done \in Seq(X) /\ whole = done \o (piece \o later)
  BY DEF Split
<1>2. Weight(W, whole) = T
  BY WholeSize DEF All
<1>3. ASSUME NEW u \in Seq(X), NEW v \in Seq(X)
      PROVE  /\ Weight(W, u) \in Nat /\ Weight(W, v) \in Nat
             /\ Weight(W, u \o v) = Weight(W, u) + Weight(W, v)
  BY PartSize
<1> HIDE DEF W, T, whole, X
<1>4. piece \in Seq(X) /\ later \in Seq(X)
  BY DEF X
<1>5. q \in Seq(X)
  BY <1>1, <1>4
<1>6. whole = q \o later
  <2>1. (done \o piece) \o later = done \o (piece \o later)
    BY <1>1, <1>4, Associative
  <2> QED
    BY <1>1, <2>1
<1> HIDE DEF q
<1>7. Split(A, t, q, later)
  BY <1>4, <1>5, <1>6 DEF Split, X, whole
<1>8. Weight(W, q) \in Nat /\ Weight(W, later) \in Nat /\ Weight(W, q) + Weight(W, later) = T
  BY <1>2, <1>3, <1>4, <1>5, <1>6
<1>9. Weight(W, q) <= T
  BY <1>8
<1>10. ASSUME later = <<>> PROVE Weight(W, q) = T
  <2>1. Weight(W, later) = 0
    <3>1. W \in [X -> Nat]
      BY TokenBytesType DEF W, X
    <3>2. Weight(W, <<>>) = 0
      BY <3>1, WeightEmpty
    <3> QED
      BY <1>10, <3>2
  <2> QED
    BY <1>8, <2>1
<1> QED
  BY <1>7, <1>9, <1>10 DEF q, W, T

\* Emit writes it, and its size is never more than was counted.
LEMMA Emits ==
    ASSUME NEW A, NEW t, TreeOf(A, t), NEW ids, NEW done, NEW piece \in Seq(Tok(A)),
           NEW later \in Seq(Tok(A)), Split(A, t, done, piece \o later),
           blob = Written(ids, done), offset = Weight(TokenBytes(A), done),
           structureSize = 4 + Total(Owns(t)),
           NEW next, Emit(Written(ids, piece), next)
    PROVE  /\ Split(A, t, done \o piece, later)
           /\ blob' = Written(ids, done \o piece)
           /\ offset' = Weight(TokenBytes(A), done \o piece)
           /\ phase' = next
<1> DEFINE W == TokenBytes(A)
           X == Tok(A)
           tokens == Written(ids, piece)
           bytes == [k \in DOMAIN tokens |-> tokens[k].bytes]
<1>1. done \in Seq(X)
  BY DEF Split
<1>2. /\ Split(A, t, done \o piece, later)
      /\ Weight(W, done \o piece) <= structureSize
  BY Splits
<1>3. Written(ids, done \o piece) = Written(ids, done) \o tokens
  BY <1>1, WrittenConcat
<1>4. Total(bytes) = Weight(W, piece)
  BY WrittenBytes
<1>5. Weight(W, done \o piece) = Weight(W, done) + Weight(W, piece)
  BY <1>1, PartSize
<1>6. /\ blob' = blob \o tokens
      /\ offset' = offset + Total(bytes)
      /\ phase' = IF offset + Total(bytes) <= structureSize THEN next ELSE "assert"
  BY DEF Emit
<1> HIDE DEF W, X, tokens, bytes
<1>7. offset = Weight(W, done)
  BY DEF W
<1>8. offset + Total(bytes) = Weight(W, done \o piece)
  BY <1>4, <1>5, <1>7
<1> DEFINE s == offset + Total(bytes)
<1>9. s <= structureSize /\ offset' = Weight(W, done \o piece)
  BY <1>2, <1>6, <1>8
<1>10. phase' = IF s <= structureSize THEN next ELSE "assert"
  BY <1>6
<1> HIDE DEF s
<1>11. phase' = next
  BY <1>9, <1>10
<1>12. blob' = Written(ids, done \o piece)
  BY <1>3, <1>6
<1> QED
  BY <1>2, <1>9, <1>11, <1>12 DEF W

\* The piece with identifiers.
PieceOut(ids, t, n, p) ==
    (IF p = t[n].parent
       THEN BeginOf(t, n) \o [k \in DOMAIN t[n].properties |->
              Prop(t[n].properties[k], Id(ids, t[n].properties[k].name))]
       ELSE <<>>)
    \o Ends(Target(t, n, p))

LEMMA WrittenPiece ==
    ASSUME NEW ids, NEW A, NEW t, TreeOf(A, t), NEW n \in DOMAIN t, NEW p
    PROVE  Written(ids, Piece(t, n, p)) = PieceOut(ids, t, n, p)
<1> DEFINE u == IF p = t[n].parent THEN OpeningOf(t, n) ELSE <<>>
           e == Ends(Target(t, n, p))
<1>1. u \in Seq(Tok(A)) /\ e \in Seq(Tok(A))
  <2>1. OpeningOf(t, n) \in Seq(Tok(A))
    BY OpeningType
  <2>2. e \in Seq(Tok(A))
    BY EndsType
  <2> QED
    BY <2>1, <2>2
<1>2. Written(ids, e) = e
  BY WrittenEnd, WrittenEmpty DEF Ends
<1>3. Written(ids, u) = IF p = t[n].parent
                          THEN Written(ids, OpeningOf(t, n)) ELSE <<>>
  BY WrittenEmpty
<1>4. Piece(t, n, p) = u \o e
  BY DEF Piece
<1> HIDE DEF u, e
<1>5. Written(ids, u \o e) = Written(ids, u) \o Written(ids, e)
  BY <1>1, WrittenConcat
<1> QED
  BY <1>2, <1>3, <1>4, <1>5, WrittenOpening DEF e, PieceOut

\* A turn of the loop writes that piece.
LEMMA WalkIs ==
    ASSUME NEW A, TreeOf(A, nodes), node \in DOMAIN nodes, Walk
    PROVE  /\ Emit(Written(identifier, Piece(nodes, node, previous)), "walk")
           /\ node' = Onto(nodes, node, Target(nodes, node, previous))
           /\ previous' = node
           /\ UNCHANGED <<tree, identifier>>
<1> DEFINE entering == previous = nodes[node].parent
           next == IF ~entering THEN NextSibling(previous)
                   ELSE IF nodes[node].children = <<>> THEN 0
                   ELSE Head(nodes[node].children)
           opening == Begin(node) \o
             [k \in DOMAIN nodes[node].properties |->
                LET property == nodes[node].properties[k]
                IN Prop(property, Identifier(property.name))]
           tokens == (IF entering THEN opening ELSE <<>>)
                       \o (IF next = 0 THEN End("end") ELSE <<>>)
<1>1. /\ Emit(tokens, "walk")
      /\ node' = IF next # 0 THEN next ELSE nodes[node].parent
      /\ previous' = node
      /\ UNCHANGED <<tree, identifier>>
  BY Zenon DEF Walk
<1>2. next = Target(nodes, node, previous)
  <2>1. NextSibling(previous) = NextOf(nodes, previous)
    BY Zenon DEF NextSibling, NextOf, Index, Siblings
  <2> QED
    BY <2>1 DEF Target
<1>3. opening = BeginOf(nodes, node) \o
        [k \in DOMAIN nodes[node].properties |->
           Prop(nodes[node].properties[k], Id(identifier, nodes[node].properties[k].name))]
  <2>1. Begin(node) = BeginOf(nodes, node)
    BY Zenon DEF Begin, BeginOf
  <2>2. \A name : Identifier(name) = Id(identifier, name)
    BY Zenon DEF Identifier, Id
  <2>3. [k \in DOMAIN nodes[node].properties |->
           LET property == nodes[node].properties[k]
           IN Prop(property, Identifier(property.name))]
        = [k \in DOMAIN nodes[node].properties |->
             Prop(nodes[node].properties[k],
                  Id(identifier, nodes[node].properties[k].name))]
    BY <2>2
  <2> QED
    BY <2>1, <2>3
<1> HIDE DEF next, opening
<1>4. tokens = Written(identifier, Piece(nodes, node, previous))
  <2>1. Written(identifier, Piece(nodes, node, previous))
          = PieceOut(identifier, nodes, node, previous)
    BY WrittenPiece
  <2> QED
    BY <1>2, <1>3, <2>1, Zenon DEF Ends, PieceOut
<1> HIDE DEF tokens
<1>5. Emit(Written(identifier, Piece(nodes, node, previous)), "walk")
  BY <1>1, <1>4, Zenon
<1> QED
  BY <1>1, <1>2, <1>5 DEF Onto

\* Before the blob is made, and while it is.
Blob(ss, t, ids, n, p, b, o, ph) ==
    /\ ph \in {"make", "walk", "done"}
    /\ ph = "make" => n = 1 /\ p = 0 /\ b = <<>> /\ o = 0
    /\ ph # "make" => /\ ids = Place(FlattenSeq(ss))
                      /\ Progress(Names(ss), t, ids, n, p, b, o, ph)

BlobInv ==
    SizesInv /\ Blob(strings, nodes, identifier, node, previous, blob, offset, phase)

LEMMA TreeIs ==
    ASSUME SizesInv
    PROVE  /\ TreeOf(Names(strings), nodes)
           /\ FlattenSeq(strings) \in Seq(PropertyNames)
           /\ Range(FlattenSeq(strings)) = Names(strings)
           /\ IsInjective(FlattenSeq(strings))
<1>1. Hashed(strings) /\ Names(strings) = Used(nodes) /\ Shaped(nodes)
  BY DEF SizesInv, TreeInv
<1>2. /\ FlattenSeq(strings) \in Seq(PropertyNames)
      /\ Range(FlattenSeq(strings)) = Names(strings)
      /\ IsInjective(FlattenSeq(strings))
  BY <1>1, HashedIs
<1>3. Names(strings) \subseteq PropertyNames
  BY DEF Names
<1> QED
  BY <1>1, <1>2, <1>3 DEF TreeOf

\* Where the walk begins.
LEMMA Begins ==
    ASSUME NEW A, NEW t, TreeOf(A, t), NEW ids
    PROVE  Progress(A, t, ids, 1, 0, <<>>, 0, "walk")
<1>1. PICK a : AfterIs(A, a, t)
  BY AfterExists
<1>2. All(t) \in Seq(Tok(A))
  BY WholeSize DEF All
<1>3. Split(A, t, <<>>, All(t))
  <2> DEFINE w == All(t)
             X == Tok(A)
  <2>1. w \in Seq(X)
    BY <1>2
  <2> HIDE DEF w, X
  <2>2. w = <<>> \o w /\ <<>> \in Seq(X)
    BY <2>1
  <2> QED
    BY <2>1, <2>2 DEF Split, w, X
<1>4. Written(ids, <<>>) = <<>>
  BY WrittenEmpty
<1>5. Weight(TokenBytes(A), <<>>) = 0
  BY TokenBytesType, WeightEmpty
<1>6. 1 \in DOMAIN t /\ t[1].parent = 0
  BY DEF TreeOf, Shaped
<1>7. a[1] = End("END")
  BY <1>1, <1>6 DEF AfterIs, AfterBody
<1>8. At(a, t, 1, 0, All(t))
  <2>1. All(t) = FromNode(a, t, 1)
    BY <1>7, Zenon DEF All, FromNode
  <2> QED
    BY <1>6, <2>1 DEF At
<1>9. "walk" # "done"
  OBVIOUS
<1> QED
  BY <1>1, <1>3, <1>4, <1>5, <1>8, <1>9, Zenon DEF Progress

LEMMA StartOfBlob == ASSUME TreeInit PROVE BlobInv
<1>1. SizesInv
  BY StartOfSizes
<1>2. phase = "make" /\ node = 1 /\ previous = 0 /\ blob = <<>> /\ offset = 0
  BY DEF TreeInit
<1> QED
  BY <1>1, <1>2 DEF BlobInv, Blob

LEMMA BlobMake ==
    ASSUME BlobInv, phase = "make", SizesInv',
           UNCHANGED <<phase, node, previous, blob, offset>>
    PROVE  BlobInv'
<1>1. node = 1 /\ previous = 0 /\ blob = <<>> /\ offset = 0
  BY DEF BlobInv, Blob
<1> QED
  BY <1>1 DEF BlobInv, Blob

LEMMA BlobBuildStrings ==
    ASSUME BlobInv, BuildStrings
    PROVE  BlobInv'
<1>1. /\ phase = "make"
      /\ identifier' = Place(FlattenSeq(strings))
      /\ phase' = IF BytesOf(FlattenSeq(strings)) = stringsSize
                    THEN "walk" ELSE "assert"
      /\ UNCHANGED <<nodes, structureSize, strings, stringsSize>>
      /\ UNCHANGED <<node, previous, blob, offset>>
  BY DEF BuildStrings, tree
<1>2. SizesInv /\ node = 1 /\ previous = 0 /\ blob = <<>> /\ offset = 0
  BY <1>1 DEF BlobInv, Blob
<1>3. SizesInv'
  BY <1>1, <1>2, SizesStay
<1>4. phase' = "walk"
  <2>1. FlattenSeq(strings) \in Seq(PropertyNames)
    BY <1>2, TreeIs
  <2>2. BytesOf(FlattenSeq(strings)) = Weight(Stored, FlattenSeq(strings))
    BY <2>1, BytesAre
  <2>3. stringsSize = Weight(Stored, FlattenSeq(strings))
    BY <1>2 DEF SizesInv
  <2> QED
    BY <1>1, <2>2, <2>3
<1>5. Progress(Names(strings), nodes, identifier', 1, 0, <<>>, 0, "walk")
  <2>1. TreeOf(Names(strings), nodes)
    BY <1>2, TreeIs
  <2> QED
    BY <2>1, Begins
<1>6. /\ strings' = strings /\ nodes' = nodes /\ node' = 1 /\ previous' = 0
      /\ blob' = <<>> /\ offset' = 0
  BY <1>1, <1>2
<1>7. Blob(strings, nodes, identifier', 1, 0, <<>>, 0, "walk")
  BY <1>1, <1>5 DEF Blob
<1>8. Blob(strings, nodes, identifier, node, previous, blob, offset, phase)'
  BY <1>4, <1>6, <1>7
<1> QED
  BY <1>3, <1>8 DEF BlobInv

\* Where the loop is when it is not done.
LEMMA Writing ==
    ASSUME BlobInv, phase = "walk"
    PROVE  /\ SizesInv /\ identifier = Place(FlattenSeq(strings))
           /\ structureSize = 4 + Total(Owns(nodes))
           /\ TreeOf(Names(strings), nodes)
           /\ \E a, done, rest :
                /\ AfterIs(Names(strings), a, nodes)
                /\ Split(Names(strings), nodes, done, rest)
                /\ blob = Written(identifier, done)
                /\ offset = Weight(TokenBytes(Names(strings)), done)
                /\ At(a, nodes, node, previous, rest)
<1>1. SizesInv /\ identifier = Place(FlattenSeq(strings))
  BY DEF BlobInv, Blob
<1>2. Progress(Names(strings), nodes, identifier, node, previous, blob, offset, "walk")
  BY DEF BlobInv, Blob
<1>3. structureSize = 4 + Total(Owns(nodes)) /\ TreeOf(Names(strings), nodes)
  BY <1>1, TreeIs DEF SizesInv
<1>4. \E a, done, rest :
        /\ AfterIs(Names(strings), a, nodes)
        /\ Split(Names(strings), nodes, done, rest)
        /\ blob = Written(identifier, done)
        /\ offset = Weight(TokenBytes(Names(strings)), done)
        /\ At(a, nodes, node, previous, rest)
  BY <1>2, Zenon DEF Progress
<1> QED
  BY <1>1, <1>3, <1>4

LEMMA BlobWalk ==
    ASSUME BlobInv, Walk
    PROVE  BlobInv'
<1> DEFINE A == Names(strings)
           t == nodes
<1>1. phase = "walk" /\ node # 0
  BY DEF Walk
<1>2. /\ SizesInv /\ identifier = Place(FlattenSeq(strings))
      /\ structureSize = 4 + Total(Owns(t)) /\ TreeOf(A, t)
  BY <1>1, Writing
<1>3. PICK a, done, rest :
        /\ AfterIs(A, a, t) /\ Split(A, t, done, rest)
        /\ blob = Written(identifier, done)
        /\ offset = Weight(TokenBytes(A), done)
        /\ At(a, t, node, previous, rest)
  BY <1>1, Writing
<1> DEFINE piece == Piece(t, node, previous)
           onto == Onto(t, node, Target(t, node, previous))
<1> HIDE DEF A, t
<1>4. node \in DOMAIN t /\ Goes(A, a, t, node, previous, rest)
  BY <1>1, <1>2, <1>3, WalkGoes
<1>5. PICK later \in Seq(Tok(A)) :
        /\ piece \in Seq(Tok(A)) /\ rest = piece \o later
        /\ At(a, t, onto, node, later)
  BY <1>4 DEF Goes
<1>6. /\ Emit(Written(identifier, piece), "walk")
      /\ node' = onto /\ previous' = node /\ UNCHANGED <<tree, identifier>>
  BY <1>2, <1>4, WalkIs DEF t
<1> HIDE DEF piece, onto
<1>7. Split(A, t, done, piece \o later)
  BY <1>3, <1>5
<1>8. /\ Split(A, t, done \o piece, later)
      /\ blob' = Written(identifier, done \o piece)
      /\ offset' = Weight(TokenBytes(A), done \o piece)
      /\ phase' = "walk"
  BY <1>2, <1>3, <1>5, <1>6, <1>7, Emits
<1> DEFINE d == done \o piece
<1> HIDE DEF d
<1>9. Progress(A, t, identifier, onto, node, blob', offset', "walk")
  <2>1. /\ Split(A, t, d, later) /\ blob' = Written(identifier, d)
        /\ offset' = Weight(TokenBytes(A), d)
    BY <1>8 DEF d
  <2>2. "walk" # "done"
    OBVIOUS
  <2> QED
    BY <1>3, <1>5, <2>1, <2>2, Zenon DEF Progress
<1>10. /\ nodes' = nodes /\ strings' = strings /\ identifier' = identifier
       /\ UNCHANGED <<nodes, structureSize, strings, stringsSize>>
  BY <1>6 DEF tree
<1>11. SizesInv'
  BY <1>2, <1>10, SizesStay
<1>12. Blob(strings, nodes, identifier, onto, node, blob', offset', "walk")
  BY <1>2, <1>9 DEF Blob, A, t
<1>13. Blob(strings, nodes, identifier, node, previous, blob, offset, phase)'
  BY <1>6, <1>8, <1>10, <1>12
<1> QED
  BY <1>11, <1>13 DEF BlobInv

LEMMA BlobEnd ==
    ASSUME BlobInv, EndBlob
    PROVE  BlobInv'
<1> DEFINE A == Names(strings)
           t == nodes
           next == IF offset + 4 = structureSize THEN "done" ELSE "assert"
           end == End("END")
<1>1. /\ phase = "walk" /\ node = 0 /\ Emit(end, next)
      /\ UNCHANGED <<tree, identifier, node, previous>>
  BY DEF EndBlob
<1>2. /\ SizesInv /\ identifier = Place(FlattenSeq(strings))
      /\ structureSize = 4 + Total(Owns(t)) /\ TreeOf(A, t)
  BY <1>1, Writing
<1>3. PICK a, done, rest :
        /\ AfterIs(A, a, t) /\ Split(A, t, done, rest)
        /\ blob = Written(identifier, done)
        /\ offset = Weight(TokenBytes(A), done)
        /\ At(a, t, node, previous, rest)
  BY <1>1, Writing
<1> HIDE DEF A, t
<1>4. rest = end
  <2>1. 0 \notin DOMAIN t
    BY <1>2 DEF TreeOf, Shaped
  <2> QED
    BY <1>1, <1>3, <2>1 DEF At
<1>5. end \in Seq(Tok(A)) /\ <<>> \in Seq(Tok(A)) /\ end \o <<>> = end
  <2>1. end \in Seq(Tok(A))
    BY EndType
  <2> HIDE DEF end
  <2> QED
    BY <2>1
<1>6. Written(identifier, end) = end /\ Weight(TokenBytes(A), end) = 4
  BY WrittenEnd, EndSize
<1> HIDE DEF end
<1>7. Split(A, t, done, end \o <<>>)
  BY <1>3, <1>4, <1>5
<1>8. Weight(TokenBytes(A), done \o end) = structureSize
  BY <1>2, <1>5, <1>7, Splits
<1>9. next = "done"
  <2>1. done \in Seq(Tok(A))
    BY <1>7 DEF Split
  <2>2. Weight(TokenBytes(A), done \o end)
          = Weight(TokenBytes(A), done) + Weight(TokenBytes(A), end)
    BY <1>5, <2>1, PartSize
  <2>3. offset + 4 = structureSize
    BY <1>3, <1>6, <1>8, <2>2
  <2> QED
    BY <2>3
<1> HIDE DEF next
<1>10. Emit(Written(identifier, end), "done")
  BY <1>1, <1>6, <1>9
<1>11. /\ Split(A, t, done \o end, <<>>)
       /\ blob' = Written(identifier, done \o end)
       /\ offset' = Weight(TokenBytes(A), done \o end)
       /\ phase' = "done"
  BY <1>2, <1>3, <1>5, <1>7, <1>10, Emits
<1> DEFINE d == done \o end
<1> HIDE DEF d
<1>12. Progress(A, t, identifier, node, previous, blob', offset', "done")
  <2>1. /\ Split(A, t, d, <<>>) /\ blob' = Written(identifier, d)
        /\ offset' = Weight(TokenBytes(A), d)
    BY <1>11 DEF d
  <2>2. "walk" # "done"
    OBVIOUS
  <2> QED
    BY <1>3, <2>1, <2>2, Zenon DEF Progress
<1>13. /\ nodes' = nodes /\ strings' = strings /\ identifier' = identifier
       /\ node' = node /\ previous' = previous
       /\ UNCHANGED <<nodes, structureSize, strings, stringsSize>>
  BY <1>1 DEF tree
<1>14. SizesInv'
  BY <1>2, <1>13, SizesStay
<1>15. Blob(strings, nodes, identifier, node, previous, blob', offset', "done")
  BY <1>2, <1>12 DEF Blob, A, t
<1>16. Blob(strings, nodes, identifier, node, previous, blob, offset, phase)'
  BY <1>11, <1>13, <1>15
<1> QED
  BY <1>14, <1>16 DEF BlobInv

LEMMA StepOfBlob == ASSUME BlobInv, [TreeNext]_treeVars PROVE BlobInv'
<1>0. SizesInv
  BY DEF BlobInv
<1>1. ASSUME NEW parent \in DOMAIN nodes, NEW name \in NodeNames, CreateNode(parent, name)
      PROVE  BlobInv'
  <2>1. SizesInv'
    BY <1>0, <1>1, SizesCreateNode
  <2>2. phase = "make" /\ UNCHANGED <<phase, node, previous, blob, offset>>
    BY <1>1 DEF CreateNode
  <2> QED
    BY <2>1, <2>2, BlobMake
<1>2. ASSUME NEW parent \in DOMAIN nodes, NEW name \in PropertyNames,
             NEW size \in DataSizes, AddProperty(parent, name, size)
      PROVE  BlobInv'
  <2>1. SizesInv'
    BY <1>0, <1>2, SizesAddProperty
  <2>2. phase = "make" /\ UNCHANGED <<phase, node, previous, blob, offset>>
    BY <1>2 DEF AddProperty
  <2> QED
    BY <2>1, <2>2, BlobMake
<1>3. CASE BuildStrings
  BY <1>3, BlobBuildStrings
<1>4. CASE Walk
  BY <1>4, BlobWalk
<1>5. CASE EndBlob
  BY <1>5, BlobEnd
<1>6. CASE UNCHANGED treeVars
  <2>1. UNCHANGED <<nodes, structureSize, strings, stringsSize>>
    BY <1>6 DEF treeVars, tree
  <2>2. SizesInv'
    BY <1>0, <2>1, SizesStay
  <2>3. /\ strings' = strings /\ nodes' = nodes /\ identifier' = identifier
        /\ node' = node /\ previous' = previous /\ blob' = blob
        /\ offset' = offset /\ phase' = phase
    BY <1>6 DEF treeVars, tree
  <2>4. Blob(strings, nodes, identifier, node, previous, blob, offset, phase)'
    BY <2>3 DEF BlobInv
  <2> QED
    BY <2>2, <2>4 DEF BlobInv
<1> QED
  BY <1>1, <1>2, <1>3, <1>4, <1>5, <1>6 DEF TreeNext

LEMMA FlatIsFlatOf == Flat = FlatOf(nodes)
BY Zenon DEF Flat, FlatOf, FlatIs, FlatBody, OpeningOf, BeginOf, PropsOf, KidsOf, Begin

\* An identifier leads to the name it stands for.
LEMMA Leads ==
    ASSUME SizesInv, NEW name \in Names(strings)
    PROVE  StartsAt(name, Id(Place(FlattenSeq(strings)), name))
<1> DEFINE all == FlattenSeq(strings)
           ids == Place(all)
<1>1. name \in Range(all)
  BY TreeIs
<1>2. /\ DOMAIN ids = DOMAIN all
      /\ \A k \in DOMAIN all : /\ ids[k].name = all[k]
                               /\ ids[k].at = BytesOf(SubSeq(all, 1, k - 1))
  BY DEF Place
<1> HIDE DEF all, ids
<1>3. \E k \in DOMAIN ids : ids[k].name = name
  BY <1>1, <1>2 DEF Range
<1> DEFINE j == CHOOSE k \in DOMAIN ids : ids[k].name = name
<1>4. j \in DOMAIN ids /\ ids[j].name = name
  BY <1>3, Zenon
<1>5. Id(ids, name) = ids[j].at
  BY Zenon DEF Id
<1> HIDE DEF j
<1>6. j \in DOMAIN all /\ all[j] = name /\ Id(ids, name) = BytesOf(SubSeq(all, 1, j - 1))
  BY <1>2, <1>4, <1>5
<1>7. \E k \in DOMAIN all : all[k] = name /\ Id(ids, name) = BytesOf(SubSeq(all, 1, k - 1))
  BY <1>6
<1> QED
  BY <1>7, Zenon DEF StartsAt, all, ids

\* Only a property's name is changed when it is written.
LEMMA NamedIs ==
    ASSUME NEW ids, NEW A, NEW x \in Tok(A)
    PROVE  IF x.token = "prop"
             THEN /\ x.name \in A
                  /\ Named(ids, x).name = Id(ids, x.name)
                  /\ Named(ids, x) = [x EXCEPT !.name = Named(ids, x).name]
             ELSE Named(ids, x) = x
<1>1. CASE x.token = "prop"
  <2>1. x \in [token : {"prop"}, size : Nat, name : A, bytes : Nat]
    BY <1>1 DEF Tok
  <2> DEFINE y == Id(ids, x.name)
  <2>2. Named(ids, x) = [x EXCEPT !.name = y]
    BY <1>1 DEF Named
  <2> HIDE DEF y
  <2>3. [x EXCEPT !.name = y].name = y /\ x.name \in A
    BY <2>1
  <2> QED
    BY <1>1, <2>2, <2>3 DEF y
<1>2. CASE x.token # "prop"
  BY <1>2 DEF Named
<1> QED
  BY <1>1, <1>2

LEMMA BlobSafe == ASSUME BlobInv PROVE AssertionsHold /\ BlobIsTree
<1>1. AssertionsHold
  BY DEF BlobInv, Blob, AssertionsHold
<1>2. ASSUME phase = "done"
      PROVE  LET flat == Flat[1] \o End("END")
             IN /\ Len(blob) = Len(flat)
                /\ \A k \in DOMAIN flat :
                     IF flat[k].token = "prop"
                       THEN /\ StartsAt(flat[k].name, blob[k].name)
                            /\ blob[k] = [flat[k] EXCEPT !.name = blob[k].name]
                       ELSE blob[k] = flat[k]
  <2> DEFINE A == Names(strings)
             flat == Flat[1] \o End("END")
             X == Tok(A)
             ids == identifier
  <2>1. SizesInv /\ ids = Place(FlattenSeq(strings))
    BY <1>2 DEF BlobInv, Blob
  <2>2. Progress(A, nodes, ids, node, previous, blob, offset, "done")
    BY <1>2 DEF BlobInv, Blob
  <2>3. PICK done, rest :
          Split(A, nodes, done, rest) /\ blob = Written(ids, done) /\ rest = <<>>
    BY <2>2, Zenon DEF Progress
  <2>4. flat = All(nodes)
    BY FlatIsFlatOf, Zenon DEF All
  <2> HIDE DEF flat, X, A
  <2>5. flat \in Seq(X) /\ blob = Written(ids, flat)
    <3>1. done \in Seq(X) /\ flat = done \o <<>>
      BY <2>3, <2>4 DEF Split, X
    <3>2. done \o <<>> = done
      BY <3>1
    <3> QED
      BY <2>3, <3>1, <3>2
  <2>6. /\ Len(blob) = Len(flat) /\ DOMAIN flat = 1 .. Len(flat)
        /\ \A k \in 1 .. Len(flat) : blob[k] = Named(ids, flat[k])
    BY <2>5, WrittenType
  <2>7. ASSUME NEW k \in DOMAIN flat
        PROVE  IF flat[k].token = "prop"
                 THEN /\ StartsAt(flat[k].name, blob[k].name)
                      /\ blob[k] = [flat[k] EXCEPT !.name = blob[k].name]
                 ELSE blob[k] = flat[k]
    <3> DEFINE x == flat[k]
    <3>1. x \in X
      BY <2>5, ElementIs
    <3>2. blob[k] = Named(ids, x)
      BY <2>6
    <3> HIDE DEF x
    <3>3. IF x.token = "prop"
            THEN /\ x.name \in A
                 /\ Named(ids, x).name = Id(ids, x.name)
                 /\ Named(ids, x) = [x EXCEPT !.name = Named(ids, x).name]
            ELSE Named(ids, x) = x
      BY <3>1, NamedIs DEF X
    <3>4. CASE x.token = "prop"
      <4>1. StartsAt(x.name, Id(ids, x.name))
        BY <2>1, <3>3, <3>4, Leads DEF A
      <4> QED
        BY <3>2, <3>3, <3>4, <4>1 DEF x
    <3>5. CASE x.token # "prop"
      BY <3>2, <3>3, <3>5 DEF x
    <3> QED
      BY <3>4, <3>5 DEF x
  <2> QED
    BY <2>6, <2>7 DEF flat
<1> QED
  BY <1>1, <1>2 DEF BlobIsTree

LEMMA BlobInvariant == TreeSpec => []BlobInv
<1>1. TreeInit => BlobInv
  BY StartOfBlob
<1>2. BlobInv /\ [TreeNext]_treeVars => BlobInv'
  BY StepOfBlob
<1> QED
  BY <1>1, <1>2, PTL DEF TreeSpec

\* Whatever tree the bootloader makes, the sizes BlDtCreateNode, BlDtAddProperty
\* and BlDtGetString count while they make it are those BlDtBuildBlob comes to
\* when it writes the strings and the structure: none of its assertions fails,
\* and no write goes behind the room that was counted.
THEOREM SizesAreRight == TreeSpec => []AssertionsHold
<1>1. BlobInv => AssertionsHold
  BY BlobSafe
<1> QED
  BY <1>1, BlobInvariant, PTL

\* Whatever tree the bootloader makes, the loop of BlDtBuildBlob, which has no
\* stack and finds its way by the node it comes from, writes every node once
\* and in order and closes it once, and the identifier of every property leads
\* to its name.
THEOREM BlobIsTheTree == TreeSpec => []BlobIsTree
<1>1. BlobInv => BlobIsTree
  BY BlobSafe
<1> QED
  BY <1>1, BlobInvariant, PTL
=============================================================================
