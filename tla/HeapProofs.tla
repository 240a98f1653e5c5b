----------------------------- MODULE HeapProofs -----------------------------
(* Proofs about Heap, for every size of headers, address space, banks, requests
   and growths. What BlAllocateHeap, BlFreeHeap and BlResizeHeap do to the two
   lists is a replacement of neighbouring ranges by others within them. *)
EXTENDS TLAPS, Heap, SequenceTheorems, FiniteSetTheorems, WellFoundedInduction

-----------------------------------------------------------------------------
(* Lists. *)

\* x lies before y, and if both are free they do not touch.
Before(x, y) == x.end <= y.base /\ (x.free /\ y.free => x.end < y.base)

InOrder(s) == \A i, j \in DOMAIN s : i < j => Before(s[i], s[j])

\* Two lists one behind the other.
LEMMA Joined ==
    ASSUME NEW S, NEW s \in Seq(S), NEW t \in Seq(S)
    PROVE  LET u == s \o t
           IN  /\ u \in Seq(S) /\ Len(u) = Len(s) + Len(t)
               /\ Len(s) \in Nat /\ Len(t) \in Nat
               /\ DOMAIN u = 1 .. (Len(s) + Len(t))
               /\ DOMAIN s = 1 .. Len(s) /\ DOMAIN t = 1 .. Len(t)
               /\ \A i \in DOMAIN s : i \in DOMAIN u /\ u[i] = s[i]
               /\ \A j \in DOMAIN t : Len(s) + j \in DOMAIN u /\ u[Len(s) + j] = t[j]
               /\ \A k \in DOMAIN u :
                    \/ k \in DOMAIN s /\ u[k] = s[k]
                    \/ /\ k > Len(s) /\ k - Len(s) \in DOMAIN t
                       /\ u[k] = t[k - Len(s)]
               /\ Range(u) = Range(s) \cup Range(t)
<1> DEFINE u == s \o t
<1>1. /\ Len(s) \in Nat /\ DOMAIN s = 1 .. Len(s)
      /\ Len(t) \in Nat /\ DOMAIN t = 1 .. Len(t)
  BY LenProperties
<1>2. /\ u \in Seq(S) /\ Len(u) = Len(s) + Len(t)
      /\ \A i \in 1 .. Len(s) + Len(t) :
           u[i] = IF i <= Len(s) THEN s[i] ELSE t[i - Len(s)]
  BY ConcatProperties
<1> HIDE DEF u
<1>3. DOMAIN u = 1 .. (Len(s) + Len(t))
  BY <1>2, LenProperties
<1>4. \A i \in DOMAIN s : i \in DOMAIN u /\ u[i] = s[i]
  BY <1>1, <1>2, <1>3
<1>5. ASSUME NEW j \in DOMAIN t
      PROVE  Len(s) + j \in DOMAIN u /\ u[Len(s) + j] = t[j]
  <2>1. /\ Len(s) + j \in 1 .. Len(s) + Len(t) /\ ~(Len(s) + j <= Len(s))
        /\ Len(s) + j - Len(s) = j
    BY <1>1
  <2> QED
    BY <1>2, <1>3, <2>1
<1>6. ASSUME NEW k \in DOMAIN u
      PROVE  \/ k \in DOMAIN s /\ u[k] = s[k]
             \/ k > Len(s) /\ k - Len(s) \in DOMAIN t /\ u[k] = t[k - Len(s)]
  <2>1. CASE k <= Len(s)
    BY <1>1, <1>2, <1>3, <2>1
  <2>2. CASE ~(k <= Len(s))
    <3>1. k > Len(s) /\ k - Len(s) \in 1 .. Len(t) /\ k \in 1 .. Len(s) + Len(t)
      BY <1>1, <1>3, <2>2
    <3> QED
      BY <1>1, <1>2, <2>2, <3>1
  <2> QED
    BY <2>1, <2>2
<1>7. Range(u) = Range(s) \cup Range(t)
  <2>1. \A x \in Range(u) : x \in Range(s) \/ x \in Range(t)
    <3> TAKE x \in Range(u)
    <3>1. PICK k \in DOMAIN u : u[k] = x
      BY DEF Range
    <3> QED
      BY <1>6, <3>1 DEF Range
  <2>2. \A x \in Range(s) : x \in Range(u)
    BY <1>4 DEF Range
  <2>3. \A x \in Range(t) : x \in Range(u)
    <3> TAKE x \in Range(t)
    <3>1. PICK j \in DOMAIN t : t[j] = x
      BY DEF Range
    <3> QED
      BY <1>5, <3>1 DEF Range
  <2> QED
    BY <2>1, <2>2, <2>3
<1> QED
  BY <1>1, <1>2, <1>3, <1>4, <1>5, <1>6, <1>7 DEF u

\* They are in order if each is and the one lies before the other.
LEMMA JoinedInOrder ==
    ASSUME NEW S, NEW s \in Seq(S), NEW t \in Seq(S), InOrder(s), InOrder(t),
           \A x \in Range(s), y \in Range(t) : Before(x, y)
    PROVE  s \o t \in Seq(S) /\ InOrder(s \o t) /\ Range(s \o t) = Range(s) \cup Range(t)
<1> DEFINE u == s \o t
<1>1. /\ u \in Seq(S) /\ Len(s) \in Nat /\ Len(t) \in Nat
      /\ DOMAIN u = 1 .. (Len(s) + Len(t)) /\ DOMAIN s = 1 .. Len(s)
      /\ DOMAIN t = 1 .. Len(t)
      /\ \A k \in DOMAIN u :
           \/ k \in DOMAIN s /\ u[k] = s[k]
           \/ k > Len(s) /\ k - Len(s) \in DOMAIN t /\ u[k] = t[k - Len(s)]
      /\ Range(u) = Range(s) \cup Range(t)
  BY Joined
<1> HIDE DEF u
<1>2. ASSUME NEW i \in DOMAIN u, NEW j \in DOMAIN u, i < j
      PROVE  Before(u[i], u[j])
  <2>1. CASE i \in DOMAIN s /\ u[i] = s[i] /\ j \in DOMAIN s /\ u[j] = s[j]
    BY <1>2, <2>1 DEF InOrder
  <2>2. CASE /\ i \in DOMAIN s /\ u[i] = s[i]
             /\ j - Len(s) \in DOMAIN t /\ u[j] = t[j - Len(s)]
    <3>1. s[i] \in Range(s) /\ t[j - Len(s)] \in Range(t)
      BY <2>2 DEF Range
    <3> QED
      BY <2>2, <3>1
  <2>3. CASE /\ i - Len(s) \in DOMAIN t /\ u[i] = t[i - Len(s)]
             /\ j - Len(s) \in DOMAIN t /\ u[j] = t[j - Len(s)]
    <3>1. i - Len(s) < j - Len(s)
      BY <1>1, <1>2
    <3> QED
      BY <2>3, <3>1 DEF InOrder
  <2>4. CASE i > Len(s) /\ j \in DOMAIN s
    BY <1>1, <1>2, <2>4
  <2> QED
    BY <1>1, <2>1, <2>2, <2>3, <2>4
<1> QED
  BY <1>1, <1>2 DEF InOrder, u

\* None is in both and none is in one twice: none is in it twice.
LEMMA JoinedInjective ==
    ASSUME NEW S, NEW s \in Seq(S), NEW t \in Seq(S), IsInjective(s), IsInjective(t),
           Range(s) \cap Range(t) = {}
    PROVE  s \o t \in Seq(S) /\ IsInjective(s \o t) /\ Range(s \o t) = Range(s) \cup Range(t)
<1> DEFINE u == s \o t
<1>1. /\ u \in Seq(S) /\ Len(s) \in Nat /\ Len(t) \in Nat
      /\ DOMAIN u = 1 .. (Len(s) + Len(t)) /\ DOMAIN s = 1 .. Len(s)
      /\ DOMAIN t = 1 .. Len(t)
      /\ \A k \in DOMAIN u :
           \/ k \in DOMAIN s /\ u[k] = s[k]
           \/ k > Len(s) /\ k - Len(s) \in DOMAIN t /\ u[k] = t[k - Len(s)]
      /\ Range(u) = Range(s) \cup Range(t)
  BY Joined
<1> HIDE DEF u
<1>2. ASSUME NEW i \in DOMAIN u, NEW j \in DOMAIN u, u[i] = u[j]
      PROVE  i = j
  <2>1. CASE i \in DOMAIN s /\ u[i] = s[i] /\ j \in DOMAIN s /\ u[j] = s[j]
    BY <1>2, <2>1 DEF IsInjective
  <2>2. CASE /\ i \in DOMAIN s /\ u[i] = s[i]
             /\ j - Len(s) \in DOMAIN t /\ u[j] = t[j - Len(s)]
    <3>1. s[i] \in Range(s) /\ t[j - Len(s)] \in Range(t)
      BY <2>2 DEF Range
    <3> QED
      BY <1>2, <2>2, <3>1
  <2>3. CASE /\ i - Len(s) \in DOMAIN t /\ u[i] = t[i - Len(s)]
             /\ j - Len(s) \in DOMAIN t /\ u[j] = t[j - Len(s)]
    <3>1. i - Len(s) = j - Len(s)
      BY <1>2, <2>3 DEF IsInjective
    <3> QED
      BY <1>1, <3>1
  <2>4. CASE /\ i - Len(s) \in DOMAIN t /\ u[i] = t[i - Len(s)]
             /\ j \in DOMAIN s /\ u[j] = s[j]
    <3>1. s[j] \in Range(s) /\ t[i - Len(s)] \in Range(t)
      BY <2>4 DEF Range
    <3> QED
      BY <1>2, <2>4, <3>1
  <2> QED
    BY <1>1, <2>1, <2>2, <2>3, <2>4
<1> QED
  BY <1>1, <1>2 DEF IsInjective, u

\* A part of a list.
LEMMA Part ==
    ASSUME NEW S, NEW s \in Seq(S), NEW a \in 1 .. (Len(s) + 1), NEW b \in 0 .. Len(s)
    PROVE  LET p == SubSeq(s, a, b)
           IN  /\ p \in Seq(S) /\ Range(p) = {s[i] : i \in a .. b}
               /\ InOrder(s) => InOrder(p)
               /\ IsInjective(s) => IsInjective(p)
<1> DEFINE p == SubSeq(s, a, b)
<1>1. Len(s) \in Nat /\ DOMAIN s = 1 .. Len(s) /\ \A i \in 1 .. Len(s) : s[i] \in S
  BY LenProperties, ElementOfSeq
<1>2. /\ p \in Seq(S) /\ Len(p) = IF a <= b THEN b - a + 1 ELSE 0
      /\ \A i \in 1 .. (b - a + 1) : p[i] = s[a + i - 1]
  <2>1. a \in Int /\ b \in Int /\ \A i \in a .. b : s[i] \in S
    BY <1>1
  <2> QED
    BY <2>1, SubSeqProperties
<1> HIDE DEF p
<1>3. DOMAIN p = 1 .. (b - a + 1)
  BY <1>1, <1>2, LenProperties
<1>4. ASSUME NEW i \in DOMAIN p
      PROVE  a + i - 1 \in a .. b /\ a + i - 1 \in DOMAIN s /\ p[i] = s[a + i - 1]
  BY <1>1, <1>2, <1>3
<1>5. ASSUME NEW i \in a .. b PROVE i - a + 1 \in DOMAIN p /\ p[i - a + 1] = s[i]
  <2>1. i - a + 1 \in 1 .. (b - a + 1) /\ a + (i - a + 1) - 1 = i
    BY <1>1
  <2> QED
    BY <1>2, <1>3, <2>1
<1>6. Range(p) = {s[i] : i \in a .. b}
  BY <1>4, <1>5 DEF Range
<1>7. InOrder(s) => InOrder(p)
  <2> SUFFICES ASSUME InOrder(s), NEW i \in DOMAIN p, NEW j \in DOMAIN p, i < j
               PROVE  Before(p[i], p[j])
    BY DEF InOrder
  <2>1. a + i - 1 < a + j - 1
    BY <1>1, <1>3
  <2> QED
    BY <1>4, <2>1 DEF InOrder
<1>8. IsInjective(s) => IsInjective(p)
  <2> SUFFICES ASSUME IsInjective(s), NEW i \in DOMAIN p, NEW j \in DOMAIN p, p[i] = p[j]
               PROVE  i = j
    BY DEF IsInjective
  <2>1. a + i - 1 = a + j - 1
    BY <1>4 DEF IsInjective
  <2> QED
    BY <1>1, <1>3, <2>1
<1> QED
  BY <1>2, <1>6, <1>7, <1>8 DEF p

LEMMA IfPart ==
    ASSUME NEW S, NEW c \in BOOLEAN, NEW x, c => x \in S
    PROVE  /\ If(c, x) \in Seq(S) /\ Range(If(c, x)) = IF c THEN {x} ELSE {}
           /\ InOrder(If(c, x)) /\ IsInjective(If(c, x))
<1>1. CASE c
  <2> DEFINE one == <<x>>
  <2>1. If(c, x) = one
    BY <1>1 DEF If
  <2>2. one \in Seq(S) /\ DOMAIN one = {1} /\ one[1] = x
    BY <1>1
  <2> HIDE DEF one
  <2>3. Range(one) = {x} /\ InOrder(one) /\ IsInjective(one)
    BY <2>2 DEF Range, InOrder, IsInjective
  <2> QED
    BY <1>1, <2>1, <2>2, <2>3
<1>2. CASE ~c
  <2> DEFINE none == << >>
  <2>1. If(c, x) = none
    BY <1>2 DEF If
  <2>2. none \in Seq(S) /\ DOMAIN none = {}
    OBVIOUS
  <2> HIDE DEF none
  <2>3. Range(none) = {} /\ InOrder(none) /\ IsInjective(none)
    BY <2>2 DEF Range, InOrder, IsInjective
  <2> QED
    BY <1>2, <2>1, <2>2, <2>3
<1> QED
  BY <1>1, <1>2

\* What is not at lo..hi.
Outside(s, lo, hi) == {s[i] : i \in 1 .. (lo - 1)} \cup {s[i] : i \in (hi + 1) .. Len(s)}

\* A list in which lo..hi were replaced.
LEMMA SplicedInOrder ==
    ASSUME NEW S, NEW s \in Seq(S), InOrder(s),
           NEW lo \in 1 .. (Len(s) + 1), NEW hi \in (lo - 1) .. Len(s),
           NEW new \in Seq(S), InOrder(new),
           \A i \in 1 .. (lo - 1), y \in Range(new) : Before(s[i], y),
           \A i \in (hi + 1) .. Len(s), y \in Range(new) : Before(y, s[i])
    PROVE  LET u == Splice(s, lo, hi, new)
           IN  /\ u \in Seq(S) /\ InOrder(u)
               /\ Range(u) = Outside(s, lo, hi) \cup Range(new)
<1> DEFINE left == SubSeq(s, 1, lo - 1)
           right == SubSeq(s, hi + 1, Len(s))
           front == left \o new
<1>1. Len(s) \in Nat /\ DOMAIN s = 1 .. Len(s)
  BY LenProperties
<1>2. left \in Seq(S) /\ InOrder(left) /\ Range(left) = {s[i] : i \in 1 .. (lo - 1)}
  <2>1. 1 \in 1 .. (Len(s) + 1) /\ lo - 1 \in 0 .. Len(s)
    BY <1>1
  <2> QED
    BY <2>1, Part
<1>3. /\ right \in Seq(S) /\ InOrder(right)
      /\ Range(right) = {s[i] : i \in (hi + 1) .. Len(s)}
  <2>1. hi + 1 \in 1 .. (Len(s) + 1) /\ Len(s) \in 0 .. Len(s)
    BY <1>1
  <2> QED
    BY <2>1, Part
<1> HIDE DEF left, right
<1>4. \A x \in Range(left), y \in Range(new) : Before(x, y)
  BY <1>2
<1>5. front \in Seq(S) /\ InOrder(front) /\ Range(front) = Range(left) \cup Range(new)
  BY <1>2, <1>4, JoinedInOrder
<1> HIDE DEF front
<1>6. \A i \in 1 .. (lo - 1), j \in (hi + 1) .. Len(s) : Before(s[i], s[j])
  BY <1>1 DEF InOrder
<1>7. \A x \in Range(front), y \in Range(right) : Before(x, y)
  <2>1. \A x \in Range(left), y \in Range(right) : Before(x, y)
    BY <1>2, <1>3, <1>6
  <2>2. \A x \in Range(new), y \in Range(right) : Before(x, y)
    BY <1>3
  <2> QED
    BY <1>5, <2>1, <2>2
<1>8. /\ front \o right \in Seq(S) /\ InOrder(front \o right)
      /\ Range(front \o right) = Range(front) \cup Range(right)
  <2>1. right \in Seq(S) /\ InOrder(right) /\ front \in Seq(S) /\ InOrder(front)
    BY <1>3, <1>5
  <2> QED
    BY <1>7, <2>1, JoinedInOrder
<1>9. Splice(s, lo, hi, new) = front \o right
  BY DEF Splice, front, left, right
<1>10. Range(left) \cup Range(right) = Outside(s, lo, hi)
  BY <1>2, <1>3 DEF Outside
<1>11. Range(front \o right) = Outside(s, lo, hi) \cup Range(new)
  BY <1>5, <1>8, <1>10
<1> QED
  BY <1>8, <1>9, <1>11

\* What surrounds an entry of a list that holds none twice.
LEMMA Around ==
    ASSUME NEW S, NEW s \in Seq(S), IsInjective(s), NEW k \in DOMAIN s
    PROVE  /\ SubSeq(s, 1, k - 1) \in Seq(S) /\ SubSeq(s, k + 1, Len(s)) \in Seq(S)
           /\ IsInjective(SubSeq(s, 1, k - 1)) /\ IsInjective(SubSeq(s, k + 1, Len(s)))
           /\ Range(SubSeq(s, 1, k - 1)) \cup Range(SubSeq(s, k + 1, Len(s)))
                = Range(s) \ {s[k]}
           /\ Range(SubSeq(s, 1, k - 1)) \cap Range(SubSeq(s, k + 1, Len(s))) = {}
<1> DEFINE left == SubSeq(s, 1, k - 1)
           right == SubSeq(s, k + 1, Len(s))
<1>1. Len(s) \in Nat /\ DOMAIN s = 1 .. Len(s) /\ k \in 1 .. Len(s)
  BY LenProperties
<1>2. left \in Seq(S) /\ IsInjective(left) /\ Range(left) = {s[i] : i \in 1 .. (k - 1)}
  <2>1. 1 \in 1 .. (Len(s) + 1) /\ k - 1 \in 0 .. Len(s)
    BY <1>1
  <2> QED
    BY <2>1, Part
<1>3. /\ right \in Seq(S) /\ IsInjective(right)
      /\ Range(right) = {s[i] : i \in (k + 1) .. Len(s)}
  <2>1. k + 1 \in 1 .. (Len(s) + 1) /\ Len(s) \in 0 .. Len(s)
    BY <1>1
  <2> QED
    BY <2>1, Part
<1> HIDE DEF left, right
<1>4. \A i \in DOMAIN s : i = k \/ i \in 1 .. (k - 1) \/ i \in (k + 1) .. Len(s)
  BY <1>1
<1>5. /\ \A i \in 1 .. (k - 1) : i \in DOMAIN s /\ s[i] # s[k]
      /\ \A i \in (k + 1) .. Len(s) : i \in DOMAIN s /\ s[i] # s[k]
  BY <1>1 DEF IsInjective
<1>6. Range(left) \cup Range(right) = Range(s) \ {s[k]}
  BY <1>2, <1>3, <1>4, <1>5 DEF Range
<1>7. \A i \in 1 .. (k - 1), j \in (k + 1) .. Len(s) : s[i] # s[j]
  BY <1>1 DEF IsInjective
<1>8. Range(left) \cap Range(right) = {}
  BY <1>2, <1>3, <1>7
<1> QED
  BY <1>2, <1>3, <1>6, <1>8 DEF left, right

\* An entry is replaced.
LEMMA SplicedInjective ==
    ASSUME NEW S, NEW s \in Seq(S), IsInjective(s), NEW k \in DOMAIN s,
           NEW new \in Seq(S), IsInjective(new),
           Range(new) \cap (Range(s) \ {s[k]}) = {}
    PROVE  LET u == Splice(s, k, k, new)
           IN  /\ u \in Seq(S) /\ IsInjective(u)
               /\ Range(u) = (Range(s) \ {s[k]}) \cup Range(new)
<1> DEFINE left == SubSeq(s, 1, k - 1)
           right == SubSeq(s, k + 1, Len(s))
           front == left \o new
<1>1. /\ left \in Seq(S) /\ right \in Seq(S) /\ IsInjective(left) /\ IsInjective(right)
      /\ Range(left) \cup Range(right) = Range(s) \ {s[k]}
      /\ Range(left) \cap Range(right) = {}
  BY Around
<1> HIDE DEF left, right
<1>2. Range(left) \cap Range(new) = {}
  BY <1>1
<1>3. front \in Seq(S) /\ IsInjective(front) /\ Range(front) = Range(left) \cup Range(new)
  BY <1>1, <1>2, JoinedInjective
<1> HIDE DEF front
<1>4. Range(front) \cap Range(right) = {}
  BY <1>1, <1>3
<1>5. /\ front \o right \in Seq(S) /\ IsInjective(front \o right)
      /\ Range(front \o right) = Range(front) \cup Range(right)
  BY <1>1, <1>3, <1>4, JoinedInjective
<1>6. Splice(s, k, k, new) = front \o right
  BY DEF Splice, front, left, right
<1>7. Range(front) \cup Range(right) = (Range(s) \ {s[k]}) \cup Range(new)
  BY <1>1, <1>3
<1> HIDE DEF front
<1> QED
  BY <1>5, <1>6, <1>7

LEMMA LeastOfOne == ASSUME NEW k \in Int PROVE Min({k}) = k
BY DEF Min

\* An entry is removed.
LEMMA Removed ==
    ASSUME NEW S, NEW s \in Seq(S), IsInjective(s), NEW x \in Range(s)
    PROVE  /\ Unlink(s, x) \in Seq(S) /\ IsInjective(Unlink(s, x))
           /\ Range(Unlink(s, x)) = Range(s) \ {x}
<1>1. Len(s) \in Nat /\ DOMAIN s = 1 .. Len(s)
  BY LenProperties
<1>2. PICK k \in 1 .. Len(s) : s[k] = x
  BY <1>1 DEF Range
<1> DEFINE I == {i \in 1 .. Len(s) : s[i] = x}
           left == SubSeq(s, 1, k - 1)
           right == SubSeq(s, k + 1, Len(s))
<1>3. I = {k}
  BY <1>1, <1>2 DEF IsInjective
<1>4. Unlink(s, x) = RemoveAt(s, IF I # {} THEN Min(I) ELSE 0)
  BY DEF Unlink, SelectInSeq
<1> HIDE DEF I
<1>5. Unlink(s, x) = left \o right
  <2>1. (IF I # {} THEN Min(I) ELSE 0) = k
    BY <1>1, <1>3, LeastOfOne
  <2>2. RemoveAt(s, k) = left \o right
    BY Zenon DEF RemoveAt
  <2> QED
    BY <1>4, <2>1, <2>2, Zenon
<1>6. /\ left \in Seq(S) /\ right \in Seq(S) /\ IsInjective(left) /\ IsInjective(right)
      /\ Range(left) \cup Range(right) = Range(s) \ {s[k]}
      /\ Range(left) \cap Range(right) = {}
  BY <1>1, Around
<1> HIDE DEF left, right
<1>7. /\ left \o right \in Seq(S) /\ IsInjective(left \o right)
      /\ Range(left \o right) = Range(left) \cup Range(right)
  BY <1>6, JoinedInjective
<1> QED
  BY <1>2, <1>5, <1>6, <1>7

-----------------------------------------------------------------------------
(* Numbers. *)

LEMMA Sizes ==
    /\ HdrSize \in Nat \ {0} /\ WordSize \in Nat \ {0} /\ MaxBlocks \in Nat
    /\ ImageEnd \in Nat /\ HdrSize < ImageEnd /\ ImageEnd <= WordSize
    /\ BankInterval \in Nat
BY HeapAssumption

LEMMA Division ==
    ASSUME NEW x \in Nat, NEW b \in Nat \ {0}
    PROVE  /\ x \div b \in Nat /\ x % b \in 0 .. (b - 1)
           /\ x = (x \div b) * b + (x % b)
OBVIOUS

\* The multiples of b are those numbers that leave no rest.
LEMMA Multiple ==
    ASSUME NEW k \in Nat, NEW b \in Nat \ {0}
    PROVE  k * b \in Nat /\ (k * b) % b = 0
<1> DEFINE x == k * b
           q == x \div b
           m == x % b
<1>1. x \in Nat
  OBVIOUS
<1>2. q \in Nat /\ m \in 0 .. (b - 1) /\ x = q * b + m
  BY <1>1, Division
<1> HIDE DEF q, m
<1>3. CASE k <= q
  <2>1. k * b <= q * b
    BY <1>2, <1>3
  <2> QED
    BY <1>1, <1>2, <2>1 DEF m
<1>4. CASE k > q
  <2>1. (q + 1) * b <= k * b
    BY <1>2, <1>4
  <2>2. (q + 1) * b = q * b + b
    BY <1>2
  <2> QED
    BY <1>1, <1>2, <2>1, <2>2
<1> QED
  BY <1>2, <1>3, <1>4

\* Addresses modulo the size of the address space.
LEMMA NotWrapped == \A x \in 0 .. (WordSize - 1) : x % WordSize = x
BY Sizes

LEMMA WrappedUp == \A x \in WordSize .. (2 * WordSize - 1) : x % WordSize = x - WordSize
BY Sizes

LEMMA WrappedDown == \A x \in (-WordSize) .. (-1) : x % WordSize = x + WordSize
BY Sizes

LEMMA AlignUpProperties ==
    ASSUME NEW x \in Nat, NEW a \in Nat \ {0}
    PROVE  /\ AlignUp(x, a) \in Nat /\ AlignUp(x, a) >= x /\ AlignUp(x, a) <= x + a - 1
           /\ AlignUp(x, a) % a = 0
<1> DEFINE y == x + a - 1
           q == y \div a
<1>1. y \in Nat
  OBVIOUS
<1>2. q \in Nat /\ y % a \in 0 .. (a - 1) /\ y = q * a + (y % a)
  BY <1>1, Division
<1>3. AlignUp(x, a) = q * a
  BY DEF AlignUp
<1> HIDE DEF q
<1>4. q * a \in Nat /\ (q * a) % a = 0
  BY <1>2, Multiple
<1> QED
  BY <1>2, <1>3, <1>4

\* What BlAllocateHeap may be asked for, a grown block included.
IsRequest(q) ==
    /\ q \in [size : Nat \ {0}, align : 1 .. WordSize, permanent : BOOLEAN]
    /\ q.size + HeadExtra(q) < WordSize
    /\ ~q.permanent => q.align = 1

LEMMA RequestsAre == \A q \in Requests : IsRequest(q)
BY HeapAssumption DEF IsRequest, HeadExtra

\* Ranges of the machine's memory, with room for their header.
InMemory(r) ==
    /\ r \in [base : Nat, end : Nat, free : BOOLEAN]
    /\ r.base >= ImageEnd /\ r.base + HdrSize <= r.end /\ r.end <= WordSize

\* A block that fits into a range lies in it: neither its start nor its end
\* wrapped around.
LEMMA FitMeans ==
    ASSUME NEW r, InMemory(r), NEW q, IsRequest(q), Fits(r, q)
    PROVE  /\ ValueBase(r.base, q) \in Nat /\ ValueBase(r.base, q) % q.align = 0
           /\ ValueBase(r.base, q) < r.base + HeadExtra(q) + q.align
           /\ AllocBase(r.base, q) = ValueBase(r.base, q) - HeadExtra(q)
           /\ AllocBase(r.base, q) \in Nat /\ r.base <= AllocBase(r.base, q)
           /\ AllocEnd(r.base, q) = ValueBase(r.base, q) + q.size
           /\ AllocEnd(r.base, q) \in Nat /\ AllocEnd(r.base, q) < r.end
<1> DEFINE base == r.base
           x == HeadExtra(q)
           a == AlignUp(base + x, q.align)
           v == ValueBase(base, q)
           from == AllocBase(base, q)
           to == AllocEnd(base, q)
<1>1. /\ base \in Nat /\ r.end \in Nat /\ base + HdrSize <= r.end /\ r.end <= WordSize
      /\ q.size \in Nat \ {0} /\ q.align \in 1 .. WordSize /\ q.permanent \in BOOLEAN
  BY DEF InMemory, IsRequest
<1>2. x \in Nat /\ x <= HdrSize /\ q.size + x < WordSize
  BY <1>1, Sizes DEF HeadExtra, IsRequest
<1>3. v = a % WordSize /\ from = (v - x) % WordSize /\ to = (v + q.size) % WordSize
  BY DEF ValueBase, AllocBase, AllocEnd
<1>4. to >= from /\ from >= base /\ to < r.end
  BY DEF Fits
<1> HIDE DEF x
<1>5. a \in Nat /\ a >= base + x /\ a <= base + x + q.align - 1 /\ a % q.align = 0
  <2>1. base + x \in Nat /\ q.align \in Nat \ {0}
    BY <1>1, <1>2
  <2> QED
    BY <2>1, AlignUpProperties
<1> HIDE DEF base, a, v, from, to
<1>6. a < 2 * WordSize
  BY <1>1, <1>2, <1>5, Sizes
<1>7. CASE a >= WordSize
  <2>1. v = a - WordSize
    <3>1. a \in WordSize .. (2 * WordSize - 1)
      BY <1>5, <1>6, <1>7, Sizes
    <3> QED
      BY <1>3, <3>1, NotWrapped, WrappedUp, WrappedDown
  <2>2. v \in Nat /\ v < base + x /\ v < WordSize
    BY <1>1, <1>2, <1>5, <1>6, <1>7, <2>1, Sizes
  <2>3. CASE v >= x
    <3>1. v - x \in 0 .. (WordSize - 1)
      BY <1>2, <2>2, <2>3, Sizes
    <3>2. from = v - x
      BY <1>3, <3>1, NotWrapped, WrappedUp, WrappedDown
    <3> QED
      BY <1>1, <1>2, <1>4, <2>2, <3>2
  <2>4. CASE v < x
    <3>1. v - x \in (-WordSize) .. (-1) /\ v + q.size \in 0 .. (WordSize - 1)
      BY <1>1, <1>2, <2>2, <2>4, Sizes
    <3>2. from = v - x + WordSize /\ to = v + q.size
      BY <1>3, <3>1, NotWrapped, WrappedUp, WrappedDown
    <3> QED
      BY <1>1, <1>2, <1>4, <2>2, <3>2, Sizes
  <2> QED
    BY <1>2, <2>2, <2>3, <2>4
<1>8. CASE a < WordSize
  <2>1. v = a
    <3>1. a \in 0 .. (WordSize - 1)
      BY <1>5, <1>8, Sizes
    <3> QED
      BY <1>3, <3>1, NotWrapped, WrappedUp, WrappedDown
  <2>2. from = v - x
    <3>1. v - x \in 0 .. (WordSize - 1)
      BY <1>1, <1>2, <1>5, <1>8, <2>1, Sizes
    <3> QED
      BY <1>3, <3>1, NotWrapped, WrappedUp, WrappedDown
  <2>3. to = v + q.size
    <3>1. CASE v + q.size < WordSize
      <4>1. v + q.size \in 0 .. (WordSize - 1)
        BY <1>1, <1>5, <2>1, <3>1, Sizes
      <4> QED
        BY <1>3, <4>1, NotWrapped, WrappedUp, WrappedDown
    <3>2. CASE ~(v + q.size < WordSize)
      <4>1. v + q.size \in WordSize .. (2 * WordSize - 1)
        BY <1>1, <1>2, <1>5, <1>8, <2>1, <3>2, Sizes
      <4>2. to = (v + q.size) - WordSize
        BY <1>3, <4>1, WrappedUp
      <4> QED
        BY <1>1, <1>2, <1>4, <1>5, <2>1, <2>2, <4>2, Sizes
    <3> QED
      BY <3>1, <3>2
  <2> QED
    BY <1>1, <1>2, <1>4, <1>5, <2>1, <2>2, <2>3 DEF base, v, from, to, x
<1> QED
  BY <1>5, <1>7, <1>8, Sizes

-----------------------------------------------------------------------------
(* The inductive invariant. *)

HRanges == [base : Nat, end : Nat, free : BOOLEAN]

Units(b) == b.ptr .. (b.ptr + b.size - 1)

FreeBases(R) == {r.base : r \in {s \in R : s.free}}

\* The ranges at lo..hi of a list.
Slice(s, lo, hi) == {s[i] : i \in lo .. hi}

BasesOf(R) == {r.base : r \in R}

UniqueBases(R) == \A x, y \in R : x.base = y.base => x = y

\* The two lists of a heap that was given the memory M.
ListInv(h, M) ==
    /\ h.ranges \in Seq(HRanges) /\ InOrder(h.ranges)
    /\ \A r \in Range(h.ranges) : InMemory(r) /\ Interval(r) \subseteq M
    /\ h.free \in Seq(Nat) /\ IsInjective(h.free)
    /\ Range(h.free) = FreeBases(Range(h.ranges))

\* A temporary block has a range of its own, and leaves less than a header of it.
Holds(r, b) ==
    /\ ~r.free /\ r.base + HdrSize = b.ptr
    /\ b.ptr + b.size <= r.end /\ r.end < b.ptr + b.size + HdrSize

Apart(b, c) == b.ptr + b.size <= c.ptr \/ c.ptr + c.size <= b.ptr

ApartFrom(b, r) == b.ptr + b.size <= r.base \/ r.end <= b.ptr

\* The blocks of a heap with the ranges R: L are the temporary ones, P the
\* permanent ones.
BlockInv(R, L, P, M) ==
    /\ L \subseteq [ptr : Nat, size : Nat \ {0}]
    /\ P \subseteq [ptr : Nat, size : Nat \ {0}]
    /\ \A b \in L : \E r \in R : Holds(r, b)
    /\ \A b, c \in L : b.ptr = c.ptr => b = c
    /\ \A b \in P : Units(b) \subseteq M /\ \A r \in R : ApartFrom(b, r)
    /\ \A b, c \in P : b = c \/ Apart(b, c)

HeapInv(h, L, P, M) == ListInv(h, M) /\ BlockInv(Range(h.ranges), L, P, M)

\* While banks are added, all memory is in front of the next one and nothing is
\* allocated.
BankInv ==
    /\ ramBanks \in Machines
    /\ bank \in 0 .. Cardinality(DOMAIN ramBanks)
    /\ bank \in DOMAIN ramBanks =>
         /\ live = {} /\ pinned = {}
         /\ \A r \in Range(heap.ranges) : r.end <= bank * BankInterval
         /\ \A unit \in memory : unit < bank * BankInterval
    /\ memory \subseteq ImageEnd .. (WordSize - 1)
    /\ IsFiniteSet(live) /\ Cardinality(live) <= MaxBlocks

IInv == BankInv /\ HeapInv(heap, live, pinned, memory)

-----------------------------------------------------------------------------
(* Ranges of a list. *)

\* The ranges of a list are different, and no two overlap.
LEMMA Different ==
    ASSUME NEW h, NEW M, ListInv(h, M)
    PROVE  /\ Len(h.ranges) \in Nat /\ DOMAIN h.ranges = 1 .. Len(h.ranges)
           /\ \A i \in DOMAIN h.ranges :
                h.ranges[i] \in Range(h.ranges) /\ InMemory(h.ranges[i])
           /\ \A i, j \in DOMAIN h.ranges : h.ranges[i].base = h.ranges[j].base => i = j
           /\ \A x, y \in Range(h.ranges) :
                /\ x.base = y.base => x = y
                /\ x = y \/ Before(x, y) \/ Before(y, x)
<1> DEFINE s == h.ranges
<1>1. s \in Seq(HRanges) /\ InOrder(s) /\ \A r \in Range(s) : InMemory(r)
  BY DEF ListInv
<1> HIDE DEF s
<1>2. Len(s) \in Nat /\ DOMAIN s = 1 .. Len(s)
  BY <1>1, LenProperties
<1>3. \A i \in DOMAIN s : s[i] \in Range(s) /\ InMemory(s[i])
  BY <1>1 DEF Range
<1>4. ASSUME NEW i \in DOMAIN s, NEW j \in DOMAIN s, i < j
      PROVE  s[i].base < s[j].base /\ Before(s[i], s[j])
  <2>1. Before(s[i], s[j]) /\ InMemory(s[i]) /\ InMemory(s[j])
    BY <1>1, <1>3, <1>4 DEF InOrder
  <2> QED
    BY <2>1, Sizes DEF Before, InMemory
<1>5. ASSUME NEW i \in DOMAIN s, NEW j \in DOMAIN s, s[i].base = s[j].base
      PROVE  i = j
  <2>1. InMemory(s[i]) /\ InMemory(s[j])
    BY <1>3
  <2>2. ~(i < j) /\ ~(j < i)
    BY <1>4, <1>5, <2>1 DEF InMemory
  <2> QED
    BY <1>2, <2>2
<1>6. ASSUME NEW x \in Range(s), NEW y \in Range(s)
      PROVE  /\ x.base = y.base => x = y
             /\ x = y \/ Before(x, y) \/ Before(y, x)
  <2>1. PICK i \in DOMAIN s : s[i] = x
    BY DEF Range
  <2>2. PICK j \in DOMAIN s : s[j] = y
    BY DEF Range
  <2>3. i < j \/ i = j \/ j < i
    BY <1>2
  <2>4. x = y \/ Before(x, y) \/ Before(y, x)
    BY <1>4, <2>1, <2>2, <2>3
  <2>5. x.base = y.base => x = y
    BY <1>5, <2>1, <2>2
  <2> QED
    BY <2>4, <2>5
<1> QED
  BY <1>2, <1>3, <1>5, <1>6 DEF s

\* The range with its header at a base is found by it.
LEMMA Found ==
    ASSUME NEW h, NEW M, ListInv(h, M), NEW r \in Range(h.ranges)
    PROVE  /\ IndexOf(h, r.base) \in DOMAIN h.ranges
           /\ h.ranges[IndexOf(h, r.base)] = r
<1> DEFINE s == h.ranges
           I == {i \in 1 .. Len(s) : s[i].base = r.base}
<1>1. /\ Len(s) \in Nat /\ DOMAIN s = 1 .. Len(s)
      /\ \A i, j \in DOMAIN s : s[i].base = s[j].base => i = j
  BY Different
<1>2. PICK k \in DOMAIN s : s[k] = r
  BY DEF Range
<1>3. IndexOf(h, r.base) = IF I # {} THEN Min(I) ELSE 0
  BY DEF IndexOf, SelectInSeq
<1> HIDE DEF s
<1>4. I = {k}
  BY <1>1, <1>2
<1> HIDE DEF I
<1>5. (IF I # {} THEN Min(I) ELSE 0) = k
  BY <1>1, <1>4, LeastOfOne
<1>6. IndexOf(h, r.base) = k
  BY <1>3, <1>5, Zenon
<1> QED
  BY <1>2, <1>6 DEF s

\* The list new may take the place of the ranges lo..hi: its ranges lie within
\* them, and a free one reaches an end of the gap only if no free one is there.
Fills(h, lo, hi, new) ==
    /\ lo \in DOMAIN h.ranges /\ hi \in DOMAIN h.ranges /\ lo <= hi
    /\ new \in Seq(HRanges) /\ InOrder(new)
    /\ \A y \in Range(new) :
         /\ InMemory(y)
         /\ h.ranges[lo].base <= y.base /\ y.end <= h.ranges[hi].end
         /\ y.free /\ y.base = h.ranges[lo].base =>
              \A i \in 1 .. (lo - 1) : h.ranges[i].free => h.ranges[i].end < y.base
         /\ y.free /\ y.end = h.ranges[hi].end =>
              \A i \in (hi + 1) .. Len(h.ranges) :
                h.ranges[i].free => y.end < h.ranges[i].base

LEMMA Replaced ==
    ASSUME NEW h, NEW M, ListInv(h, M), NEW lo, NEW hi, NEW new, Fills(h, lo, hi, new)
    PROVE  LET u == Splice(h.ranges, lo, hi, new)
           IN  /\ u \in Seq(HRanges) /\ InOrder(u)
               /\ Range(u) = (Range(h.ranges) \ Slice(h.ranges, lo, hi))
                               \cup Range(new)
<1> DEFINE s == h.ranges
           u == Splice(s, lo, hi, new)
<1>1. /\ s \in Seq(HRanges) /\ InOrder(s) /\ Len(s) \in Nat /\ DOMAIN s = 1 .. Len(s)
      /\ \A i \in DOMAIN s : InMemory(s[i])
      /\ \A i, j \in DOMAIN s : s[i].base = s[j].base => i = j
  BY Different DEF ListInv
<1>0. /\ lo \in DOMAIN s /\ hi \in DOMAIN s /\ lo <= hi /\ new \in Seq(HRanges)
      /\ InOrder(new)
      /\ \A y \in Range(new) :
           /\ InMemory(y) /\ s[lo].base <= y.base /\ y.end <= s[hi].end
           /\ y.free /\ y.base = s[lo].base =>
                \A i \in 1 .. (lo - 1) : s[i].free => s[i].end < y.base
           /\ y.free /\ y.end = s[hi].end =>
                \A i \in (hi + 1) .. Len(s) : s[i].free => y.end < s[i].base
  BY DEF Fills
<1> HIDE DEF s, u
<1>2. ASSUME NEW i \in 1 .. (lo - 1), NEW y \in Range(new)
      PROVE  Before(s[i], y)
  <2>1. i \in DOMAIN s /\ i < lo
    BY <1>1, <1>0
  <2>2. Before(s[i], s[lo]) /\ InMemory(s[i]) /\ InMemory(s[lo]) /\ InMemory(y)
    BY <1>1, <1>0, <2>1 DEF InOrder
  <2>3. /\ s[lo].base <= y.base
        /\ y.free /\ y.base = s[lo].base => (s[i].free => s[i].end < y.base)
    BY <1>0
  <2> QED
    BY <2>2, <2>3 DEF Before, InMemory
<1>3. ASSUME NEW i \in (hi + 1) .. Len(s), NEW y \in Range(new)
      PROVE  Before(y, s[i])
  <2>1. i \in DOMAIN s /\ hi < i
    BY <1>1, <1>0
  <2>2. Before(s[hi], s[i]) /\ InMemory(s[i]) /\ InMemory(s[hi]) /\ InMemory(y)
    BY <1>1, <1>0, <2>1 DEF InOrder
  <2>3. /\ y.end <= s[hi].end
        /\ y.free /\ y.end = s[hi].end => (s[i].free => y.end < s[i].base)
    BY <1>0
  <2> QED
    BY <2>2, <2>3 DEF Before, InMemory
<1>4. lo \in 1 .. (Len(s) + 1) /\ hi \in (lo - 1) .. Len(s)
  BY <1>1, <1>0
<1>5. /\ u \in Seq(HRanges) /\ InOrder(u)
      /\ Range(u) = Outside(s, lo, hi) \cup Range(new)
  <2>1. /\ s \in Seq(HRanges) /\ InOrder(s)
        /\ new \in Seq(HRanges) /\ InOrder(new)
    BY <1>1, <1>0
  <2>2. \A i \in 1 .. (lo - 1), y \in Range(new) : Before(s[i], y)
    BY <1>2
  <2>3. \A i \in (hi + 1) .. Len(s), y \in Range(new) : Before(y, s[i])
    BY <1>3
  <2> QED
    BY <1>4, <2>1, <2>2, <2>3, SplicedInOrder DEF u
<1>6. Outside(s, lo, hi) = Range(s) \ Slice(s, lo, hi)
  <2>1. ASSUME NEW i \in DOMAIN s, NEW j \in DOMAIN s, s[i] = s[j] PROVE i = j
    BY <1>1, <2>1
  <2>2. \A i \in DOMAIN s : \/ i \in 1 .. (lo - 1) \/ i \in lo .. hi
                            \/ i \in (hi + 1) .. Len(s)
    BY <1>1, <1>4
  <2>3. /\ \A i \in 1 .. (lo - 1) : i \in DOMAIN s /\ i \notin lo .. hi
        /\ \A i \in (hi + 1) .. Len(s) : i \in DOMAIN s /\ i \notin lo .. hi
        /\ \A i \in lo .. hi : i \in DOMAIN s
    BY <1>1, <1>4
  <2>4. Range(s) = {s[i] : i \in DOMAIN s}
    BY DEF Range
  <2> QED
    BY <2>1, <2>2, <2>3, <2>4 DEF Outside, Slice
<1>7. Range(u) = (Range(s) \ Slice(s, lo, hi)) \cup Range(new)
  BY <1>5, <1>6
<1> QED
  BY <1>5, <1>7 DEF s, u

\* What that does to the bases of the free ranges.
LEMMA FreeBasesReplaced ==
    ASSUME NEW R, NEW Old, NEW New, Old \subseteq R, UniqueBases(R)
    PROVE  FreeBases((R \ Old) \cup New)
             = (FreeBases(R) \ BasesOf(Old)) \cup FreeBases(New)
<1> DEFINE Left == FreeBases((R \ Old) \cup New)
           Right == (FreeBases(R) \ BasesOf(Old)) \cup FreeBases(New)
<1>1. ASSUME NEW x \in Left PROVE x \in Right
  <2>1. PICK r \in (R \ Old) \cup New : r.free /\ x = r.base
    BY DEF FreeBases
  <2>2. CASE r \in New
    <3>1. x \in FreeBases(New)
      BY <2>1, <2>2 DEF FreeBases
    <3> QED
      BY <3>1
  <2>3. CASE r \in R /\ r \notin Old
    <3>1. x \in FreeBases(R)
      BY <2>1, <2>3 DEF FreeBases
    <3>2. x \notin BasesOf(Old)
      BY <2>1, <2>3 DEF BasesOf, UniqueBases
    <3> QED
      BY <3>1, <3>2
  <2> QED
    BY <2>1, <2>2, <2>3
<1>2. ASSUME NEW x \in Right PROVE x \in Left
  <2>1. CASE x \in FreeBases(New)
    <3>1. PICK r \in New : r.free /\ x = r.base
      BY <2>1 DEF FreeBases
    <3>2. r \in (R \ Old) \cup New
      OBVIOUS
    <3> QED
      BY <3>1, <3>2 DEF FreeBases
  <2>2. CASE x \in FreeBases(R) /\ x \notin BasesOf(Old)
    <3>1. PICK r \in R : r.free /\ x = r.base
      BY <2>2 DEF FreeBases
    <3>2. r \in (R \ Old) \cup New
      BY <2>2, <3>1 DEF BasesOf, UniqueBases
    <3> QED
      BY <3>1, <3>2 DEF FreeBases
  <2>3. x \in FreeBases(New) \/ (x \in FreeBases(R) /\ x \notin BasesOf(Old))
    OBVIOUS
  <2> HIDE DEF Left
  <2> QED
    BY <2>1, <2>2, <2>3
<1> HIDE DEF Left, Right
<1>3. Left = Right
  BY <1>1, <1>2
<1> QED
  BY <1>3 DEF Left, Right

\* Both at once: the lists of a heap in which neighbouring ranges were replaced.
Replaces(h, h2, M, lo, hi, new) ==
    /\ Fills(h, lo, hi, new)
    /\ \A y \in Range(new) : Interval(y) \subseteq M
    /\ h2.ranges = Splice(h.ranges, lo, hi, new)
    /\ h2.free \in Seq(Nat) /\ IsInjective(h2.free)
    /\ Range(h2.free) = (Range(h.free) \ BasesOf(Slice(h.ranges, lo, hi)))
                          \cup FreeBases(Range(new))

LEMMA ListReplaced ==
    ASSUME NEW h, NEW M, ListInv(h, M), NEW lo, NEW hi, NEW new, NEW h2,
           Replaces(h, h2, M, lo, hi, new)
    PROVE  /\ ListInv(h2, M)
           /\ Range(h2.ranges) = (Range(h.ranges) \ Slice(h.ranges, lo, hi))
                                   \cup Range(new)
<1> DEFINE R == Range(h.ranges)
           Old == Slice(h.ranges, lo, hi)
           New == Range(new)
           u == Splice(h.ranges, lo, hi, new)
<1>0. Fills(h, lo, hi, new)
  BY DEF Replaces
<1>1. u \in Seq(HRanges) /\ InOrder(u) /\ Range(u) = (R \ Old) \cup New
  BY <1>0, Replaced
<1>2. /\ h2.ranges = u /\ h2.free \in Seq(Nat) /\ IsInjective(h2.free)
      /\ Range(h2.free) = (Range(h.free) \ BasesOf(Old)) \cup FreeBases(New)
      /\ \A y \in New : Interval(y) \subseteq M
  BY DEF Replaces
<1>3. \A r \in R : InMemory(r) /\ Interval(r) \subseteq M
  BY DEF ListInv
<1>4. \A y \in New : InMemory(y)
  BY <1>0 DEF Fills
<1>5. Old \subseteq R
  <2>1. \A i \in lo .. hi : i \in DOMAIN h.ranges
    BY <1>0, Different DEF Fills
  <2> QED
    BY <2>1 DEF Range, Slice
<1>6. UniqueBases(R)
  BY Different DEF UniqueBases
<1>8. Range(h.free) = FreeBases(R)
  BY DEF ListInv
<1> HIDE DEF R, Old, New, u
<1>9. FreeBases((R \ Old) \cup New)
        = (FreeBases(R) \ BasesOf(Old)) \cup FreeBases(New)
  BY <1>5, <1>6, FreeBasesReplaced
<1>10. Range(h2.free) = FreeBases(Range(u))
  BY <1>1, <1>2, <1>8, <1>9
<1>11. \A r \in Range(u) : InMemory(r) /\ Interval(r) \subseteq M
  BY <1>1, <1>2, <1>3, <1>4
<1>12. ListInv(h2, M)
  BY <1>1, <1>2, <1>10, <1>11 DEF ListInv
<1> QED
  BY <1>1, <1>2, <1>12 DEF R, Old, New

-----------------------------------------------------------------------------
(* BlAllocateHeap. *)

\* The first entry of the free list that fits is the header of a free range.
LEMMA Chosen ==
    ASSUME NEW h, NEW M, ListInv(h, M), NEW q, FitsAt(h, q) # {}
    PROVE  LET k == FirstFit(h, q)
               i == IndexOf(h, h.free[k])
           IN  /\ k \in DOMAIN h.free /\ i \in DOMAIN h.ranges
               /\ h.ranges[i] \in Range(h.ranges)
               /\ h.ranges[i].free /\ h.ranges[i].base = h.free[k]
               /\ Fits(h.ranges[i], q)
<1> DEFINE k == FirstFit(h, q)
           T == FitsAt(h, q)
           R == OpToRel(<, Nat)
<1>1. DOMAIN h.free = 1 .. Len(h.free) /\ Len(h.free) \in Nat
  BY LenProperties DEF ListInv
<1>2. T \in SUBSET Nat /\ T \subseteq DOMAIN h.free
  BY <1>1 DEF FitsAt
<1>3. IsWellFoundedOn(R, Nat)
  BY NatLessThanWellFounded, Zenon
<1> HIDE DEF R, T
<1>4. PICK x \in T : \A y \in T : <<y, x>> \notin R
  BY <1>2, <1>3, WFMin DEF T
<1>5. \A y \in T : x <= y
  <2> TAKE y \in T
  <2>1. y < x => <<y, x>> \in R
    BY <1>2 DEF R, OpToRel
  <2> QED
    BY <1>2, <1>4, <2>1
<1>6. k \in T
  BY <1>5 DEF FirstFit, T
<1> HIDE DEF k
<1>7. k \in DOMAIN h.free /\ Fits(h.ranges[IndexOf(h, h.free[k])], q)
  BY <1>6 DEF T, FitsAt
<1>8. h.free[k] \in FreeBases(Range(h.ranges))
  BY <1>7 DEF ListInv, Range
<1>9. PICK r \in Range(h.ranges) : r.free /\ r.base = h.free[k]
  BY <1>8 DEF FreeBases
<1>10. IndexOf(h, r.base) \in DOMAIN h.ranges /\ h.ranges[IndexOf(h, r.base)] = r
  BY Found
<1> QED
  BY <1>7, <1>9, <1>10 DEF k


\* A free range is carved into the parts that are left of it.
LEMMA CarveParts ==
    ASSUME NEW r, InMemory(r), r.free, NEW q, IsRequest(q), Fits(r, q)
    PROVE  LET from == AllocBase(r.base, q)
               to   == AllocEnd(r.base, q)
               head == from - r.base >= HdrSize
               tail == r.end - to >= HdrSize
               parts == If(head, HeapRange(r.base, from, TRUE))
                          \o If(~q.permanent,
                                HeapRange(from, IF tail THEN to ELSE r.end, FALSE))
                          \o If(tail, HeapRange(to, r.end, TRUE))
           IN  /\ parts \in Seq(HRanges) /\ InOrder(parts)
               /\ Range(parts) =
                    (IF head THEN {HeapRange(r.base, from, TRUE)} ELSE {})
                      \cup (IF ~q.permanent
                              THEN {HeapRange(from, IF tail THEN to ELSE r.end, FALSE)}
                              ELSE {})
                      \cup (IF tail THEN {HeapRange(to, r.end, TRUE)} ELSE {})
               /\ \A y \in Range(parts) :
                    /\ InMemory(y) /\ r.base <= y.base /\ y.end <= r.end
                    /\ y.free => y.end <= from \/ to <= y.base
<1> DEFINE from == AllocBase(r.base, q)
           to == AllocEnd(r.base, q)
           head == from - r.base >= HdrSize
           tail == r.end - to >= HdrSize
           x == HeapRange(r.base, from, TRUE)
           y == HeapRange(from, IF tail THEN to ELSE r.end, FALSE)
           z == HeapRange(to, r.end, TRUE)
           px == If(head, x)
           py == If(~q.permanent, y)
           pz == If(tail, z)
           parts == px \o py \o pz
<1>1. /\ r.base \in Nat /\ r.end \in Nat /\ from \in Nat /\ to \in Nat
      /\ r.base <= from /\ from + HeadExtra(q) + q.size = to /\ to < r.end
      /\ q.size \in Nat \ {0} /\ q.permanent \in BOOLEAN
      /\ HeadExtra(q) \in Nat /\ (~q.permanent => HeadExtra(q) = HdrSize)
      /\ r.base >= ImageEnd /\ r.end <= WordSize
      /\ head \in BOOLEAN /\ tail \in BOOLEAN
      /\ head <=> from - r.base >= HdrSize
      /\ tail <=> r.end - to >= HdrSize
  BY FitMeans, Sizes DEF InMemory, IsRequest, HeadExtra
<1> HIDE DEF from, to, head, tail
<1>2. x.base = r.base /\ x.end = from /\ x.free /\ x \in HRanges
  BY <1>1 DEF HeapRange, HRanges
<1>3. /\ y.base = from /\ y.end = IF tail THEN to ELSE r.end
      /\ ~y.free /\ y \in HRanges
  BY <1>1 DEF HeapRange, HRanges
<1>4. z.base = to /\ z.end = r.end /\ z.free /\ z \in HRanges
  BY <1>1 DEF HeapRange, HRanges
<1> HIDE DEF x, y, z
<1>5. head => InMemory(x)
  BY <1>1, <1>2, Sizes DEF InMemory, HRanges
<1>6. ~q.permanent => InMemory(y)
  BY <1>1, <1>3, Sizes DEF InMemory, HRanges
<1>7. tail => InMemory(z)
  BY <1>1, <1>4, Sizes DEF InMemory, HRanges
<1>8. Before(x, y) /\ Before(x, z) /\ (tail => Before(y, z))
  BY <1>1, <1>2, <1>3, <1>4 DEF Before
<1>9. /\ px \in Seq(HRanges) /\ InOrder(px) /\ Range(px) = IF head THEN {x} ELSE {}
      /\ py \in Seq(HRanges) /\ InOrder(py)
      /\ Range(py) = IF ~q.permanent THEN {y} ELSE {}
      /\ pz \in Seq(HRanges) /\ InOrder(pz) /\ Range(pz) = IF tail THEN {z} ELSE {}
  BY <1>1, <1>2, <1>3, <1>4, IfPart
<1> HIDE DEF px, py, pz, parts
<1>10. \A a \in Range(px), b \in Range(py) : Before(a, b)
  BY <1>8, <1>9
<1>11. /\ px \o py \in Seq(HRanges) /\ InOrder(px \o py)
       /\ Range(px \o py) = Range(px) \cup Range(py)
  BY <1>9, <1>10, JoinedInOrder
<1> DEFINE pxy == px \o py
<1>12. pxy \in Seq(HRanges) /\ InOrder(pxy) /\ Range(pxy) = Range(px) \cup Range(py)
  BY <1>11
<1>13. parts = pxy \o pz
  BY DEF parts
<1> HIDE DEF pxy
<1>14. \A a \in Range(pxy), b \in Range(pz) : Before(a, b)
  BY <1>8, <1>9, <1>12
<1>15. /\ parts \in Seq(HRanges) /\ InOrder(parts)
       /\ Range(parts) = Range(pxy) \cup Range(pz)
  <2>1. /\ pxy \in Seq(HRanges) /\ InOrder(pxy)
        /\ pz \in Seq(HRanges) /\ InOrder(pz)
    BY <1>9, <1>12
  <2>2. /\ pxy \o pz \in Seq(HRanges) /\ InOrder(pxy \o pz)
        /\ Range(pxy \o pz) = Range(pxy) \cup Range(pz)
    BY <1>14, <2>1, JoinedInOrder
  <2> QED
    BY <1>13, <2>2
<1>16. Range(parts) = (IF head THEN {x} ELSE {})
                        \cup (IF ~q.permanent THEN {y} ELSE {})
                        \cup (IF tail THEN {z} ELSE {})
  BY <1>9, <1>12, <1>15
<1>17. ASSUME NEW a \in Range(parts)
       PROVE  /\ InMemory(a) /\ r.base <= a.base /\ a.end <= r.end
              /\ a.free => a.end <= from \/ to <= a.base
  <2>1. \/ head /\ a = x
        \/ ~q.permanent /\ a = y
        \/ tail /\ a = z
    BY <1>16
  <2>2. CASE head /\ a = x
    BY <1>1, <1>2, <1>5, <2>2
  <2>3. CASE ~q.permanent /\ a = y
    BY <1>1, <1>3, <1>6, <2>3
  <2>4. CASE tail /\ a = z
    BY <1>1, <1>4, <1>7, <2>4
  <2> QED
    BY <2>1, <2>2, <2>3, <2>4
<1> QED
  BY <1>15, <1>16, <1>17 DEF x, y, z, px, py, pz, parts, from, to, head, tail

\* The range r was replaced by those in N and a block at v, and nothing but a
\* rest too small for a header is lost, and that only beside a permanent block.
Cut(r, N, v, q) ==
    /\ r.free /\ InMemory(r)
    /\ v \in Nat /\ v % q.align = 0
    /\ r.base + HeadExtra(q) <= v /\ v + q.size < r.end
    /\ \A y \in N :
         /\ InMemory(y) /\ r.base <= y.base /\ y.end <= r.end
         /\ y.free => y.end + HeadExtra(q) <= v \/ v + q.size <= y.base
         /\ ~y.free => ~q.permanent /\ Holds(y, Block(v, q.size))
    /\ ~q.permanent => \E y \in N : Holds(y, Block(v, q.size))
    /\ \A u \in Interval(r) :
         \/ \E y \in N : u \in Interval(y)
         \/ q.permanent /\ u \in (v - HdrSize + 1) .. (v + q.size + HdrSize - 2)

LEMMA CarveCuts ==
    ASSUME NEW r, InMemory(r), r.free, NEW q, IsRequest(q), Fits(r, q)
    PROVE  LET v    == ValueBase(r.base, q)
               from == AllocBase(r.base, q)
               to   == AllocEnd(r.base, q)
               head == from - r.base >= HdrSize
               tail == r.end - to >= HdrSize
               parts == If(head, HeapRange(r.base, from, TRUE))
                          \o If(~q.permanent,
                                HeapRange(from, IF tail THEN to ELSE r.end, FALSE))
                          \o If(tail, HeapRange(to, r.end, TRUE))
           IN  /\ Cut(r, Range(parts), v, q)
               /\ FreeBases(Range(parts)) = (IF head THEN {r.base} ELSE {})
                                              \cup (IF tail THEN {to} ELSE {})
<1> DEFINE v == ValueBase(r.base, q)
           from == AllocBase(r.base, q)
           to == AllocEnd(r.base, q)
           head == from - r.base >= HdrSize
           tail == r.end - to >= HdrSize
           x == HeapRange(r.base, from, TRUE)
           y == HeapRange(from, IF tail THEN to ELSE r.end, FALSE)
           z == HeapRange(to, r.end, TRUE)
           parts == If(head, x) \o If(~q.permanent, y) \o If(tail, z)
           N == Range(parts)
<1>1. /\ N = (IF head THEN {x} ELSE {}) \cup (IF ~q.permanent THEN {y} ELSE {})
               \cup (IF tail THEN {z} ELSE {})
      /\ \A a \in N :
           /\ InMemory(a) /\ r.base <= a.base /\ a.end <= r.end
           /\ a.free => a.end <= from \/ to <= a.base
  BY CarveParts
<1>2. /\ r.base \in Nat /\ r.end \in Nat /\ from \in Nat /\ to \in Nat /\ v \in Nat
      /\ r.base <= from /\ from = v - HeadExtra(q) /\ to = v + q.size /\ to < r.end
      /\ v < r.base + HeadExtra(q) + q.align /\ v % q.align = 0
      /\ q.size \in Nat \ {0} /\ q.permanent \in BOOLEAN
      /\ (~q.permanent => q.align = 1)
      /\ HeadExtra(q) = IF q.permanent THEN 0 ELSE HdrSize
      /\ head <=> from - r.base >= HdrSize
      /\ tail <=> r.end - to >= HdrSize
      /\ head \in BOOLEAN /\ tail \in BOOLEAN
  BY FitMeans, Sizes DEF InMemory, IsRequest, HeadExtra
<1> HIDE DEF v, from, to, head, tail
<1>3. x.base = r.base /\ x.end = from /\ x.free
  BY <1>2 DEF HeapRange
<1>4. y.base = from /\ y.end = (IF tail THEN to ELSE r.end) /\ ~y.free
  BY <1>2 DEF HeapRange
<1>5. z.base = to /\ z.end = r.end /\ z.free
  BY <1>2 DEF HeapRange
<1> HIDE DEF x, y, z, parts, N
<1>6. \A a \in N : (head /\ a = x) \/ (~q.permanent /\ a = y) \/ (tail /\ a = z)
  BY <1>1
<1>7. (head => x \in N) /\ (~q.permanent => y \in N) /\ (tail => z \in N)
  BY <1>1
<1>8. ~q.permanent => Holds(y, Block(v, q.size))
  BY <1>2, <1>4, Sizes DEF Holds, Block
<1>9. ASSUME NEW a \in N
      PROVE  /\ InMemory(a) /\ r.base <= a.base /\ a.end <= r.end
             /\ a.free => a.end + HeadExtra(q) <= v \/ v + q.size <= a.base
             /\ ~a.free => ~q.permanent /\ Holds(a, Block(v, q.size))
  <2>1. InMemory(a) /\ r.base <= a.base /\ a.end <= r.end
    BY <1>1
  <2>2. a.free => a.end <= from \/ to <= a.base
    BY <1>1
  <2>3. a.free => a.end + HeadExtra(q) <= v \/ v + q.size <= a.base
    BY <1>2, <2>1, <2>2, Sizes DEF InMemory
  <2>4. ~a.free => ~q.permanent /\ Holds(a, Block(v, q.size))
    BY <1>3, <1>5, <1>6, <1>8
  <2> QED
    BY <2>1, <2>3, <2>4
<1>10. ASSUME NEW u \in Interval(r)
       PROVE  \/ \E a \in N : u \in Interval(a)
              \/ q.permanent /\ u \in (v - HdrSize + 1) .. (v + q.size + HdrSize - 2)
  <2>1. u \in Nat /\ r.base <= u /\ u < r.end
    BY <1>2 DEF Interval
  <2>2. CASE head /\ u < from
    <3>1. u \in Interval(x)
      BY <1>2, <1>3, <2>1, <2>2 DEF Interval
    <3> QED
      BY <1>7, <2>2, <3>1
  <2>3. CASE tail /\ u >= to
    <3>1. u \in Interval(z)
      BY <1>2, <1>5, <2>1, <2>3 DEF Interval
    <3> QED
      BY <1>7, <2>3, <3>1
  <2>4. CASE ~q.permanent /\ u >= from /\ (tail => u < to)
    <3>1. u \in Interval(y)
      BY <1>2, <1>4, <2>1, <2>4 DEF Interval
    <3> QED
      BY <1>7, <2>4, <3>1
  <2>5. CASE ~q.permanent /\ u < from
    <3>1. from = r.base
      BY <1>2, <2>5, Sizes
    <3> QED
      BY <1>2, <2>1, <2>5, <3>1
  <2>6. CASE q.permanent /\ (u < from => ~head) /\ (u >= to => ~tail)
    <3>1. from = v
      BY <1>2, <2>6
    <3>2. u > v - HdrSize
      BY <1>2, <2>1, <2>6, <3>1, Sizes
    <3>3. u < v + q.size + HdrSize - 1
      BY <1>2, <2>1, <2>6, <3>1, Sizes
    <3>4. u \in (v - HdrSize + 1) .. (v + q.size + HdrSize - 2)
      BY <1>2, <2>1, <3>2, <3>3, Sizes
    <3> QED
      BY <2>6, <3>4
  <2> QED
    BY <1>2, <2>1, <2>2, <2>3, <2>4, <2>5, <2>6
<1>11. Cut(r, N, v, q)
  <2>1. r.base + HeadExtra(q) <= v /\ v + q.size < r.end
    BY <1>2, Sizes
  <2>2. ~q.permanent => \E a \in N : Holds(a, Block(v, q.size))
    BY <1>7, <1>8
  <2> QED
    BY <1>2, <1>9, <1>10, <2>1, <2>2 DEF Cut
<1>12. FreeBases(N) = (IF head THEN {r.base} ELSE {}) \cup (IF tail THEN {to} ELSE {})
  <2>1. \A a \in N : a.free => (head /\ a = x) \/ (tail /\ a = z)
    BY <1>4, <1>6
  <2>2. \A b \in FreeBases(N) : (head /\ b = r.base) \/ (tail /\ b = to)
    BY <1>3, <1>5, <2>1 DEF FreeBases
  <2>3. head => r.base \in FreeBases(N)
    BY <1>3, <1>7 DEF FreeBases
  <2>4. tail => to \in FreeBases(N)
    BY <1>5, <1>7 DEF FreeBases
  <2> HIDE DEF N
  <2> QED
    BY <2>2, <2>3, <2>4
<1> QED
  BY <1>11, <1>12 DEF N, parts, x, y, z, v, from, to, head, tail

\* Carve, of the range of the free list that was chosen.
CarveOf(h, q, base, end) ==
    LET k    == FirstFit(h, q)
        i    == IndexOf(h, base)
        from == AllocBase(base, q)
        to   == AllocEnd(base, q)
        head == from - base >= HdrSize
        tail == end - to >= HdrSize
    IN [ranges |-> Splice(h.ranges, i, i,
                     If(head, HeapRange(base, from, TRUE))
                       \o If(~q.permanent,
                             HeapRange(from, IF tail THEN to ELSE end, FALSE))
                       \o If(tail, HeapRange(to, end, TRUE))),
        free   |-> Splice(h.free, k, k, If(head, base) \o If(tail, to))]

\* The lists stay lists, and one range is cut.
LEMMA CarveLists ==
    ASSUME NEW h, NEW M, ListInv(h, M), NEW q, IsRequest(q), FitsAt(h, q) # {}
    PROVE  /\ ListInv(Carve(h, q), M)
           /\ \E r \in Range(h.ranges) : \E N :
                /\ Range(Carve(h, q).ranges) = (Range(h.ranges) \ {r}) \cup N
                /\ Cut(r, N, Carved(h, q), q)
<1> DEFINE k == FirstFit(h, q)
<1>1. PICK r \in Range(h.ranges) :
        r.free /\ r.base = h.free[k] /\ Fits(r, q) /\ k \in DOMAIN h.free
  BY Chosen
<1> DEFINE i == IndexOf(h, r.base)
           v == ValueBase(r.base, q)
           from == AllocBase(r.base, q)
           to == AllocEnd(r.base, q)
           head == from - r.base >= HdrSize
           tail == r.end - to >= HdrSize
           parts == If(head, HeapRange(r.base, from, TRUE))
                      \o If(~q.permanent,
                            HeapRange(from, IF tail THEN to ELSE r.end, FALSE))
                      \o If(tail, HeapRange(to, r.end, TRUE))
           bases == If(head, r.base) \o If(tail, to)
           u == Splice(h.ranges, i, i, parts)
           free == Splice(h.free, k, k, bases)
<1>2. i \in DOMAIN h.ranges /\ h.ranges[i] = r
  BY Found
<1>3. Carve(h, q) = [ranges |-> u, free |-> free]
  <2>1. IndexOf(h, h.free[k]) = i
    BY <1>1
  <2>2. Carve(h, q) = CarveOf(h, q, h.free[k], h.ranges[IndexOf(h, h.free[k])].end)
    BY DEF Carve, CarveOf
  <2>3. Carve(h, q) = CarveOf(h, q, r.base, r.end)
    BY <1>1, <1>2, <2>1, <2>2
  <2> QED
    BY <2>3 DEF CarveOf
<1>4. Carved(h, q) = v
  BY <1>1 DEF Carved
<1>5. InMemory(r) /\ Interval(r) \subseteq M
  BY DEF ListInv
<1>6. /\ parts \in Seq(HRanges) /\ InOrder(parts)
      /\ \A y \in Range(parts) :
           /\ InMemory(y) /\ r.base <= y.base /\ y.end <= r.end
           /\ y.free => y.end <= from \/ to <= y.base
  BY <1>1, <1>5, CarveParts
<1>7. /\ Cut(r, Range(parts), v, q)
      /\ FreeBases(Range(parts)) = (IF head THEN {r.base} ELSE {})
                                     \cup (IF tail THEN {to} ELSE {})
  BY <1>1, <1>5, CarveCuts
<1>8. /\ r.base \in Nat /\ r.end \in Nat /\ from \in Nat /\ to \in Nat
      /\ r.base <= from /\ r.base < to /\ to < r.end
      /\ head \in BOOLEAN /\ tail \in BOOLEAN
  <2>1. /\ from = v - HeadExtra(q) /\ from \in Nat /\ r.base <= from
        /\ to = v + q.size /\ to \in Nat /\ to < r.end /\ v \in Nat
    BY <1>1, <1>5, FitMeans
  <2>2. /\ r.base \in Nat /\ r.end \in Nat /\ q.size \in Nat \ {0}
        /\ HeadExtra(q) \in Nat
    BY <1>5, Sizes DEF InMemory, IsRequest, HeadExtra
  <2>3. head \in BOOLEAN /\ tail \in BOOLEAN
    OBVIOUS
  <2> HIDE DEF v, from, to, head, tail
  <2> QED
    BY <2>1, <2>2, <2>3
<1> HIDE DEF k, i, v, from, to, head, tail, parts, u, free
<1>9. /\ bases \in Seq(Nat) /\ IsInjective(bases)
      /\ Range(bases) = (IF head THEN {r.base} ELSE {}) \cup (IF tail THEN {to} ELSE {})
  <2> DEFINE a == If(head, r.base)
             b == If(tail, to)
  <2>1. a \in Seq(Nat) /\ IsInjective(a) /\ Range(a) = IF head THEN {r.base} ELSE {}
    BY <1>8, IfPart
  <2>2. b \in Seq(Nat) /\ IsInjective(b) /\ Range(b) = IF tail THEN {to} ELSE {}
    BY <1>8, IfPart
  <2> HIDE DEF a, b
  <2>3. Range(a) \cap Range(b) = {}
    BY <1>8, <2>1, <2>2
  <2>4. /\ a \o b \in Seq(Nat) /\ IsInjective(a \o b)
        /\ Range(a \o b) = Range(a) \cup Range(b)
    BY <2>1, <2>2, <2>3, JoinedInjective
  <2>5. bases = a \o b
    BY DEF a, b
  <2> QED
    BY <2>1, <2>2, <2>4, <2>5
<1> HIDE DEF bases
<1>10. /\ h.free \in Seq(Nat) /\ IsInjective(h.free)
       /\ Range(h.free) = FreeBases(Range(h.ranges))
  BY DEF ListInv
<1>11. Range(bases) \cap (Range(h.free) \ {h.free[k]}) = {}
  <2> SUFFICES ASSUME NEW b \in Range(bases), b \in Range(h.free), b # r.base
               PROVE  FALSE
    BY <1>1
  <2>1. b = to
    BY <1>9
  <2>2. PICK x \in Range(h.ranges) : x.base = to /\ x.free
    BY <1>10, <2>1 DEF FreeBases
  <2>3. x = r \/ Before(x, r) \/ Before(r, x)
    BY Different
  <2>4. InMemory(x)
    BY DEF ListInv
  <2> QED
    BY <1>5, <1>8, <2>1, <2>2, <2>3, <2>4, Sizes DEF Before, InMemory
<1>12. /\ free \in Seq(Nat) /\ IsInjective(free)
       /\ Range(free) = (Range(h.free) \ {h.free[k]}) \cup Range(bases)
  <2>1. k \in DOMAIN h.free
    BY <1>1
  <2> QED
    BY <1>9, <1>10, <1>11, <2>1, SplicedInjective DEF free
<1>13. Fills(h, i, i, parts)
  <2>1. /\ \A x \in Range(h.ranges) : x # r => Before(x, r) \/ Before(r, x)
        /\ \A j \in DOMAIN h.ranges : j # i => h.ranges[j] # r
        /\ InOrder(h.ranges) /\ \A j \in DOMAIN h.ranges : InMemory(h.ranges[j])
        /\ DOMAIN h.ranges = 1 .. Len(h.ranges) /\ Len(h.ranges) \in Nat
    BY <1>2, Different DEF ListInv
  <2>2. \A j \in 1 .. (i - 1) : h.ranges[j].free => h.ranges[j].end < r.base
    BY <1>1, <1>2, <2>1 DEF InOrder, Before
  <2>3. \A j \in (i + 1) .. Len(h.ranges) : h.ranges[j].free => r.end < h.ranges[j].base
    BY <1>1, <1>2, <2>1 DEF InOrder, Before
  <2>4. i \in Int
    BY <1>2, <2>1
  <2> QED
    BY <1>2, <1>6, <2>2, <2>3, <2>4 DEF Fills
<1>14. \A y \in Range(parts) : Interval(y) \subseteq M
  <2> TAKE y \in Range(parts)
  <2>1. InMemory(y) /\ r.base <= y.base /\ y.end <= r.end
    BY <1>6
  <2>2. Interval(y) \subseteq Interval(r)
    BY <1>5, <2>1 DEF Interval, InMemory
  <2> QED
    BY <1>5, <2>2
<1>15. Slice(h.ranges, i, i) = {r} /\ BasesOf(Slice(h.ranges, i, i)) = {h.free[k]}
  <2>1. i \in Int
    BY <1>2, Different
  <2>2. i .. i = {i}
    BY <2>1
  <2> QED
    BY <1>1, <1>2, <2>2 DEF Slice, BasesOf
<1>16. Range(free) = (Range(h.free) \ BasesOf(Slice(h.ranges, i, i)))
                       \cup FreeBases(Range(parts))
  BY <1>7, <1>9, <1>12, <1>15
<1> DEFINE h2 == Carve(h, q)
<1>17. Replaces(h, h2, M, i, i, parts)
  <2>1. h2.ranges = Splice(h.ranges, i, i, parts) /\ h2.free = free
    BY <1>3 DEF u
  <2> HIDE DEF h2
  <2> QED
    BY <1>12, <1>13, <1>14, <1>16, <2>1 DEF Replaces
<1> HIDE DEF h2
<1>19. /\ ListInv(h2, M)
       /\ Range(h2.ranges) = (Range(h.ranges) \ Slice(h.ranges, i, i)) \cup Range(parts)
  BY <1>17, ListReplaced
<1>18. Range(h2.ranges) = (Range(h.ranges) \ {r}) \cup Range(parts)
  BY <1>15, <1>19
<1> QED
  BY <1>4, <1>7, <1>18, <1>19 DEF h2

IsBlock(b) == b \in [ptr : Nat, size : Nat \ {0}]

LEMMA BlockIs == \A v \in Nat, n \in Nat \ {0} :
    IsBlock(Block(v, n)) /\ Block(v, n).ptr = v /\ Block(v, n).size = n
BY DEF IsBlock, Block

\* A range and a block in it.
Encloses(r, b) == r.base <= b.ptr /\ b.ptr + b.size <= r.end

\* Where the blocks are: each in its range or apart from all, and no two share a unit.
LEMMA BlocksApart ==
    ASSUME NEW h, NEW L, NEW P, NEW M, HeapInv(h, L, P, M)
    PROVE  /\ \A b \in L \cup P : IsBlock(b) /\ Units(b) \subseteq M
           /\ \A b \in L, r \in Range(h.ranges) : Holds(r, b) \/ ApartFrom(b, r)
           /\ \A b, c \in L \cup P : b = c \/ Apart(b, c)
           /\ \A b \in L, c \in P : Apart(b, c) /\ Apart(c, b)
           /\ \A b \in L, r \in Range(h.ranges) : Holds(r, b) => Encloses(r, b)
<1> DEFINE R == Range(h.ranges)
<1>1. \A r \in R : InMemory(r) /\ Interval(r) \subseteq M
  BY DEF HeapInv, ListInv
<1>2. \A x, y \in R : x = y \/ Before(x, y) \/ Before(y, x)
  BY Different DEF HeapInv
<1>3. /\ \A b \in L \cup P : IsBlock(b)
      /\ \A b \in L : \E r \in R : Holds(r, b)
      /\ \A b, c \in L : b.ptr = c.ptr => b = c
      /\ \A b \in P : Units(b) \subseteq M /\ \A r \in R : ApartFrom(b, r)
      /\ \A b, c \in P : b = c \/ Apart(b, c)
  BY DEF HeapInv, BlockInv, IsBlock
<1> HIDE DEF R
<1>4. ASSUME NEW b \in L, NEW r \in R, Holds(r, b)
      PROVE  Units(b) \subseteq M /\ Encloses(r, b)
  <2>1. InMemory(r) /\ Interval(r) \subseteq M /\ IsBlock(b)
    BY <1>1, <1>3
  <2>2. r.base <= b.ptr /\ b.ptr + b.size <= r.end
    BY <1>4, <2>1, Sizes DEF InMemory, IsBlock, Holds
  <2>3. Units(b) \subseteq Interval(r)
    BY <2>1, <2>2 DEF InMemory, IsBlock, Units, Interval
  <2> QED
    BY <2>1, <2>2, <2>3 DEF Encloses
<1>5. ASSUME NEW b \in L, NEW r \in R
      PROVE  Holds(r, b) \/ ApartFrom(b, r)
  <2>1. PICK x \in R : Holds(x, b)
    BY <1>3
  <2>2. x = r \/ Before(x, r) \/ Before(r, x)
    BY <1>2
  <2>3. InMemory(x) /\ InMemory(r) /\ IsBlock(b) /\ Encloses(x, b)
    BY <1>1, <1>3, <1>4, <2>1
  <2>4. CASE x = r
    BY <2>1, <2>4
  <2>5. CASE Before(x, r) \/ Before(r, x)
    BY <2>3, <2>5 DEF Before, ApartFrom, Encloses, InMemory, IsBlock
  <2> QED
    BY <2>2, <2>4, <2>5
<1>6. ASSUME NEW b \in L, NEW c \in P
      PROVE  Apart(b, c) /\ Apart(c, b)
  <2>1. PICK x \in R : Holds(x, b)
    BY <1>3
  <2>2. InMemory(x) /\ IsBlock(b) /\ IsBlock(c) /\ Encloses(x, b) /\ ApartFrom(c, x)
    BY <1>1, <1>3, <1>4, <2>1
  <2> QED
    BY <2>2 DEF Apart, ApartFrom, Encloses, InMemory, IsBlock
<1>7. ASSUME NEW b \in L, NEW c \in L
      PROVE  b = c \/ Apart(b, c)
  <2>1. PICK x \in R : Holds(x, b)
    BY <1>3
  <2>2. PICK y \in R : Holds(y, c)
    BY <1>3
  <2>3. /\ InMemory(x) /\ InMemory(y) /\ IsBlock(b) /\ IsBlock(c)
        /\ Encloses(x, b) /\ Encloses(y, c)
    BY <1>1, <1>3, <1>4, <2>1, <2>2
  <2>4. CASE x = y
    <3>1. b.ptr = c.ptr
      BY <2>1, <2>2, <2>4 DEF Holds
    <3> QED
      BY <1>3, <3>1
  <2>5. CASE Before(x, y) \/ Before(y, x)
    BY <2>3, <2>5 DEF Before, Apart, Encloses, InMemory, IsBlock
  <2> QED
    BY <1>2, <2>4, <2>5
<1>8. \A b \in L : Units(b) \subseteq M
  BY <1>3, <1>4
<1>9. \A b, c \in L \cup P : b = c \/ Apart(b, c)
  BY <1>3, <1>6, <1>7
<1> QED
  BY <1>3, <1>4, <1>5, <1>6, <1>8, <1>9 DEF R

\* What a heap with the ranges R and a new block has.
Placed(R, L, P, M, q, b) ==
    /\ ~q.permanent => BlockInv(R, L \cup {b}, P, M)
    /\ q.permanent => BlockInv(R, L, P \cup {b}, M)
    /\ IsBlock(b) /\ b.size = q.size /\ Units(b) \subseteq M
    /\ \A c \in L \cup P : Apart(b, c) /\ Apart(c, b)

Instead(R, r, N) == (R \ {r}) \cup N

\* With a new block in the range that was cut.
LEMMA CarveBlocks ==
    ASSUME NEW h, NEW L, NEW P, NEW M, HeapInv(h, L, P, M),
           NEW r \in Range(h.ranges), NEW N, NEW q, IsRequest(q), NEW v,
           Cut(r, N, v, q)
    PROVE  /\ Placed(Instead(Range(h.ranges), r, N), L, P, M, q, Block(v, q.size))
           /\ Block(v, q.size).ptr = v
<1> DEFINE b == Block(v, q.size)
           R2 == Instead(Range(h.ranges), r, N)
<1> DEFINE R == Range(h.ranges)
<1>1. \A x \in R : InMemory(x) /\ Interval(x) \subseteq M
  BY DEF HeapInv, ListInv
<1>2. \A x \in R : x = r \/ Before(x, r) \/ Before(r, x)
  BY Different DEF HeapInv
<1>3. /\ \A c \in L \cup P : IsBlock(c)
      /\ L \subseteq [ptr : Nat, size : Nat \ {0}]
      /\ P \subseteq [ptr : Nat, size : Nat \ {0}]
      /\ \A c \in L : \E x \in R : Holds(x, c)
      /\ \A c, d \in L : c.ptr = d.ptr => c = d
      /\ \A c \in P : Units(c) \subseteq M /\ \A x \in R : ApartFrom(c, x)
      /\ \A c, d \in P : c = d \/ Apart(c, d)
  BY DEF HeapInv, BlockInv, IsBlock
<1>4. \A c \in L : ApartFrom(c, r)
  <2>1. \A c \in L : Holds(r, c) \/ ApartFrom(c, r)
    BY BlocksApart
  <2>2. r.free
    BY DEF Cut
  <2> QED
    BY <2>1, <2>2 DEF Holds
<1>5. /\ r.free /\ InMemory(r) /\ v \in Nat
      /\ r.base + HeadExtra(q) <= v /\ v + q.size < r.end
      /\ \A y \in N :
           /\ InMemory(y) /\ r.base <= y.base /\ y.end <= r.end
           /\ y.free => y.end + HeadExtra(q) <= v \/ v + q.size <= y.base
           /\ ~y.free => ~q.permanent /\ Holds(y, Block(v, q.size))
      /\ ~q.permanent => \E y \in N : Holds(y, Block(v, q.size))
  BY DEF Cut
<1>6. q.size \in Nat \ {0} /\ q.permanent \in BOOLEAN /\ HeadExtra(q) \in Nat
  BY Sizes DEF IsRequest, HeadExtra
<1>7. IsBlock(b) /\ b.ptr = v /\ b.size = q.size
  BY <1>5, <1>6, BlockIs
<1>8. r.base <= v
  BY <1>5, <1>6 DEF InMemory
<1> HIDE DEF b
<1> HIDE DEF R
<1>9. Units(b) \subseteq M
  <2>1. Units(b) \subseteq Interval(r)
    BY <1>5, <1>6, <1>7, <1>8 DEF Units, Interval, InMemory
  <2> QED
    BY <1>1, <2>1 DEF R
<1>10. ASSUME NEW c \in L \cup P
       PROVE  Apart(b, c) /\ Apart(c, b)
  <2>1. ApartFrom(c, r) /\ IsBlock(c)
    BY <1>3, <1>4 DEF R
  <2> QED
    BY <1>5, <1>6, <1>7, <1>8, <2>1 DEF Apart, ApartFrom, IsBlock, InMemory
<1>11. R2 = (R \ {r}) \cup N
  BY DEF R, Instead
<1> HIDE DEF R2
<1>12. \A c \in L : \E x \in R2 : Holds(x, c)
  <2> TAKE c \in L
  <2>1. PICK x \in R : Holds(x, c)
    BY <1>3
  <2>2. x # r
    BY <1>5, <2>1 DEF Holds
  <2> QED
    BY <1>11, <2>1, <2>2
<1>13. \A c \in P : \A x \in R2 : ApartFrom(c, x)
  <2> TAKE c \in P
  <2> TAKE x \in R2
  <2>1. CASE x \in R
    BY <1>3, <2>1
  <2>2. CASE x \in N
    <3>1. ApartFrom(c, r) /\ IsBlock(c) /\ InMemory(x) /\ r.base <= x.base /\ x.end <= r.end
      BY <1>3, <1>5, <2>2 DEF R
    <3> QED
      BY <1>5, <3>1 DEF ApartFrom, IsBlock, InMemory
  <2> QED
    BY <1>11, <2>1, <2>2
<1>14. CASE ~q.permanent
  <2>1. \E x \in R2 : Holds(x, b)
    BY <1>5, <1>11, <1>14 DEF b
  <2>2. \A c \in L : c.ptr # b.ptr
    <3> TAKE c \in L
    <3>1. Apart(b, c) /\ IsBlock(c)
      BY <1>3, <1>10
    <3> QED
      BY <1>7, <3>1 DEF Apart, IsBlock
  <2>3. L \cup {b} \subseteq [ptr : Nat, size : Nat \ {0}]
    BY <1>3, <1>7 DEF IsBlock
  <2>4. \A c \in L \cup {b} : \E x \in R2 : Holds(x, c)
    BY <1>12, <2>1
  <2>5. \A c, d \in L \cup {b} : c.ptr = d.ptr => c = d
    BY <1>3, <2>2
  <2>6. BlockInv(R2, L \cup {b}, P, M)
    BY <1>3, <1>13, <2>3, <2>4, <2>5 DEF BlockInv
  <2> QED
    BY <1>7, <1>9, <1>10, <1>14, <2>6 DEF Placed, b, R2
<1>15. CASE q.permanent
  <2>1. \A x \in R2 : ApartFrom(b, x)
    <3> TAKE x \in R2
    <3>1. CASE x \in R /\ x # r
      <4>1. InMemory(x) /\ (Before(x, r) \/ Before(r, x))
        BY <1>1, <1>2, <3>1
      <4> QED
        BY <1>5, <1>6, <1>7, <1>8, <4>1 DEF Before, ApartFrom, InMemory
    <3>2. CASE x \in N
      <4>1. InMemory(x) /\ x.free /\ HeadExtra(q) = 0
        BY <1>5, <1>15, <3>2 DEF HeadExtra
      <4>2. x.end + HeadExtra(q) <= v \/ v + q.size <= x.base
        BY <1>5, <3>2, <4>1
      <4> QED
        BY <1>5, <1>6, <1>7, <4>1, <4>2 DEF ApartFrom, InMemory
    <3> QED
      BY <1>11, <3>1, <3>2
  <2>2. \A c \in P \cup {b} : Units(c) \subseteq M /\ \A x \in R2 : ApartFrom(c, x)
    BY <1>3, <1>9, <1>13, <2>1
  <2>3. \A c, d \in P \cup {b} : c = d \/ Apart(c, d)
    BY <1>3, <1>10
  <2>4. P \cup {b} \subseteq [ptr : Nat, size : Nat \ {0}]
    BY <1>3, <1>7 DEF IsBlock
  <2>5. BlockInv(R2, L, P \cup {b}, M)
    BY <1>3, <1>12, <2>2, <2>3, <2>4 DEF BlockInv
  <2> QED
    BY <1>7, <1>9, <1>10, <1>15, <2>5 DEF Placed, b, R2
<1> QED
  BY <1>6, <1>7, <1>14, <1>15 DEF b, R2

-----------------------------------------------------------------------------
(* BlFreeHeap. *)

Covered(R) == UNION {Interval(r) : r \in R}

\* The range r and free ones next to it were replaced by N.
Exchanged(R, R2, r, N) ==
    \E Old \in SUBSET R :
        /\ r \in Old /\ \A x \in Old : x = r \/ x.free
        /\ R2 = (R \ Old) \cup N
        /\ \A y \in N : \A b :
             IsBlock(b) /\ (\A x \in Old : ApartFrom(b, x)) => ApartFrom(b, y)
        /\ Covered(N) = Covered(Old)

LEMMA Single ==
    ASSUME NEW S, NEW x \in S
    PROVE  /\ <<x>> \in Seq(S) /\ Range(<<x>>) = {x} /\ InOrder(<<x>>)
           /\ IsInjective(<<x>>)
<1>1. If(TRUE, x) = <<x>>
  BY DEF If
<1>2. TRUE \in BOOLEAN /\ (TRUE => x \in S)
  OBVIOUS
<1>3. If(TRUE, x) \in Seq(S) /\ Range(If(TRUE, x)) = {x} /\ InOrder(If(TRUE, x))
      /\ IsInjective(If(TRUE, x))
  BY <1>2, IfPart
<1> QED
  BY <1>1, <1>3

\* Only a neighbour touches a range.
LEMMA Neighbours ==
    ASSUME NEW h, NEW M, ListInv(h, M), NEW i \in DOMAIN h.ranges
    PROVE  /\ i \in 1 .. Len(h.ranges) /\ Len(h.ranges) \in Nat
           /\ DOMAIN h.ranges = 1 .. Len(h.ranges)
           /\ \A j \in 1 .. (i - 1) :
                /\ j \in DOMAIN h.ranges
                /\ h.ranges[j].free /\ ~(j = i - 1 /\ h.ranges[j].end = h.ranges[i].base)
                     => h.ranges[j].end < h.ranges[i].base
           /\ \A j \in (i + 1) .. Len(h.ranges) :
                /\ j \in DOMAIN h.ranges
                /\ h.ranges[j].free /\ ~(j = i + 1 /\ h.ranges[j].base = h.ranges[i].end)
                     => h.ranges[i].end < h.ranges[j].base
<1> DEFINE s == h.ranges
<1>1. /\ InOrder(s) /\ Len(s) \in Nat /\ DOMAIN s = 1 .. Len(s)
      /\ \A j \in DOMAIN s : InMemory(s[j])
  BY Different DEF ListInv
<1> HIDE DEF s
<1>2. i \in DOMAIN s /\ i \in 1 .. Len(s)
  BY <1>1 DEF s
<1>3. ASSUME NEW j \in 1 .. (i - 1)
      PROVE  /\ j \in DOMAIN s
             /\ s[j].free /\ ~(j = i - 1 /\ s[j].end = s[i].base) => s[j].end < s[i].base
  <2>1. j \in DOMAIN s /\ Before(s[j], s[i]) /\ InMemory(s[i]) /\ InMemory(s[j])
    BY <1>1, <1>2 DEF InOrder
  <2>2. CASE j = i - 1
    BY <2>1, <2>2 DEF Before, InMemory
  <2>3. CASE j < i - 1
    <3>1. /\ i - 1 \in DOMAIN s /\ Before(s[j], s[i - 1]) /\ Before(s[i - 1], s[i])
          /\ InMemory(s[i - 1])
      BY <1>1, <1>2, <2>1, <2>3 DEF InOrder
    <3> QED
      BY <2>1, <3>1, Sizes DEF Before, InMemory
  <2> QED
    BY <1>1, <1>2, <2>1, <2>2, <2>3
<1>4. ASSUME NEW j \in (i + 1) .. Len(s)
      PROVE  /\ j \in DOMAIN s
             /\ s[j].free /\ ~(j = i + 1 /\ s[j].base = s[i].end) => s[i].end < s[j].base
  <2>1. j \in DOMAIN s /\ Before(s[i], s[j]) /\ InMemory(s[i]) /\ InMemory(s[j])
    BY <1>1, <1>2 DEF InOrder
  <2>2. CASE j = i + 1
    BY <2>1, <2>2 DEF Before, InMemory
  <2>3. CASE j > i + 1
    <3>1. /\ i + 1 \in DOMAIN s /\ Before(s[i], s[i + 1]) /\ Before(s[i + 1], s[j])
          /\ InMemory(s[i + 1])
      BY <1>1, <1>2, <2>1, <2>3 DEF InOrder
    <3> QED
      BY <2>1, <3>1, Sizes DEF Before, InMemory
  <2> QED
    BY <1>1, <1>2, <2>1, <2>2, <2>3
<1> QED
  BY <1>1, <1>2, <1>3, <1>4 DEF s

\* A free range next to one that is in use.
LEMMA FreeNeighbour ==
    ASSUME NEW h, NEW M, ListInv(h, M), NEW j, FreeAt(h, j)
    PROVE  /\ j \in DOMAIN h.ranges /\ h.ranges[j] \in Range(h.ranges)
           /\ h.ranges[j].free /\ InMemory(h.ranges[j])
           /\ h.ranges[j].base \in Range(h.free)
<1>1. j \in DOMAIN h.ranges /\ h.ranges[j].free
  BY DEF FreeAt
<1>2. h.ranges[j] \in Range(h.ranges) /\ InMemory(h.ranges[j])
  BY <1>1, Different
<1>3. h.ranges[j].base \in FreeBases(Range(h.ranges))
  BY <1>1, <1>2 DEF FreeBases
<1> QED
  BY <1>1, <1>2, <1>3 DEF ListInv

\* Only the headers of free ranges are in the free list.
LEMMA NotInFreeList ==
    ASSUME NEW h, NEW M, ListInv(h, M), NEW r \in Range(h.ranges), ~r.free
    PROVE  r.base \notin Range(h.free)
<1>1. SUFFICES ASSUME r.base \in FreeBases(Range(h.ranges)) PROVE FALSE
  BY DEF ListInv
<1>2. PICK x \in Range(h.ranges) : x.free /\ r.base = x.base
  BY <1>1 DEF FreeBases
<1> QED
  BY <1>2, Different

\* Two ranges that touch, and one of both.
LEMMA Touching ==
    ASSUME NEW x, NEW y, NEW z, InMemory(x), InMemory(y), x.end = y.base,
           z \in HRanges, z.base = x.base, z.end = y.end
    PROVE  /\ InMemory(z) /\ Interval(z) = Interval(x) \cup Interval(y)
           /\ \A b : IsBlock(b) /\ ApartFrom(b, x) /\ ApartFrom(b, y) => ApartFrom(b, z)
<1>1. InMemory(z)
  BY Sizes DEF InMemory, HRanges
<1>2. Interval(z) = Interval(x) \cup Interval(y)
  <2>1. /\ x.base \in Nat /\ y.base \in Nat /\ y.end \in Nat
        /\ x.base < y.base /\ y.base < y.end
    BY Sizes DEF InMemory
  <2> DEFINE A == x.base .. (y.base - 1)
             B == y.base .. (y.end - 1)
             C == x.base .. (y.end - 1)
  <2>2. \A u : u \in C <=> u \in A \/ u \in B
    BY <2>1
  <2>3. C = A \cup B
    BY <2>2, Zenon
  <2> QED
    BY <2>3 DEF Interval
<1>3. ASSUME NEW b, IsBlock(b), ApartFrom(b, x), ApartFrom(b, y)
      PROVE  ApartFrom(b, z)
  BY <1>1, <1>3 DEF IsBlock, ApartFrom, InMemory
<1> QED
  BY <1>1, <1>2, <1>3

\* What is freed becomes one with the free ranges that touch it.
LEMMA ReleaseLists ==
    ASSUME NEW h, NEW M, ListInv(h, M), NEW r \in Range(h.ranges), ~r.free,
           NEW ptr, ptr = r.base + HdrSize
    PROVE  /\ ListInv(Release(h, ptr), M)
           /\ \E N : Exchanged(Range(h.ranges), Range(Release(h, ptr).ranges), r, N)
<1> DEFINE s == h.ranges
           i == IndexOf(h, r.base)
           prev == FreeAt(h, i - 1) /\ s[i - 1].end = r.base
           next == FreeAt(h, i + 1) /\ s[i + 1].base = r.end
           lo == IF prev THEN i - 1 ELSE i
           hi == IF next THEN i + 1 ELSE i
           y == HeapRange(s[lo].base, s[hi].end, TRUE)
           new == <<y>>
           rest == IF next THEN Unlink(h.free, r.end) ELSE h.free
           a == If(~prev, r.base)
           free == a \o rest
           h2 == Release(h, ptr)
           Old == Slice(s, lo, hi)
<1>1. InMemory(r) /\ Interval(r) \subseteq M /\ r.base \in Nat /\ r.end \in Nat
  BY DEF ListInv, InMemory
<1>2. ptr - HdrSize = r.base
  BY <1>1, Sizes
<1>3. i \in DOMAIN s /\ s[i] = r
  BY Found
<1>4. h2 = [ranges |-> Splice(s, lo, hi, new), free |-> free]
  <2>1. IndexOf(h, ptr - HdrSize) = i
    BY <1>2
  <2> QED
    BY <1>3, <2>1 DEF Release
<1>5. /\ prev <=> (FreeAt(h, i - 1) /\ s[i - 1].end = r.base)
      /\ next <=> (FreeAt(h, i + 1) /\ s[i + 1].base = r.end)
      /\ lo = (IF prev THEN i - 1 ELSE i) /\ hi = (IF next THEN i + 1 ELSE i)
  OBVIOUS
<1>6. /\ h.free \in Seq(Nat) /\ IsInjective(h.free)
      /\ InOrder(s) /\ \A j \in DOMAIN s : s[j] \in Range(s) /\ InMemory(s[j])
  BY Different DEF ListInv
<1>7. /\ i \in 1 .. Len(s) /\ Len(s) \in Nat /\ DOMAIN s = 1 .. Len(s)
      /\ \A j \in 1 .. (i - 1) :
           s[j].free /\ ~(j = i - 1 /\ s[j].end = r.base) => s[j].end < r.base
      /\ \A j \in (i + 1) .. Len(s) :
           s[j].free /\ ~(j = i + 1 /\ s[j].base = r.end) => r.end < s[j].base
  BY <1>3, Neighbours
<1>8. /\ prev => /\ i - 1 \in DOMAIN s /\ s[i - 1].free
                 /\ s[i - 1].end = r.base /\ s[i - 1].base \in Range(h.free)
      /\ next => /\ i + 1 \in DOMAIN s /\ s[i + 1].free
                 /\ s[i + 1].base = r.end /\ s[i + 1].base \in Range(h.free)
  BY FreeNeighbour
<1>9. \A j \in DOMAIN s : s[j].free => FreeAt(h, j)
  BY DEF FreeAt
<1>10. y.base = s[lo].base /\ y.end = s[hi].end /\ y.free
  BY DEF HeapRange
<1>11. r.base \notin Range(h.free)
  BY NotInFreeList
<1> HIDE DEF i, prev, next, lo, hi, y
<1>12. lo \in DOMAIN s /\ hi \in DOMAIN s /\ lo <= i /\ i <= hi /\ lo .. hi = {lo, i, hi}
  BY <1>3, <1>5, <1>7, <1>8
<1>13. Old = {s[lo], r, s[hi]}
  BY <1>3, <1>12 DEF Slice
<1>14. /\ InMemory(s[lo]) /\ InMemory(s[hi]) /\ s[lo] \in Range(s) /\ s[hi] \in Range(s)
       /\ Interval(s[lo]) \subseteq M /\ Interval(s[hi]) \subseteq M
  BY <1>6, <1>12 DEF ListInv
<1>15. y \in HRanges
  BY <1>10, <1>14 DEF y, HeapRange, HRanges, InMemory
<1> DEFINE z == HeapRange(s[lo].base, r.end, TRUE)
<1>16. z \in HRanges /\ z.base = s[lo].base /\ z.end = r.end
  BY <1>1, <1>14 DEF HeapRange, HRanges, InMemory
<1> HIDE DEF z, Old
<1>17. /\ InMemory(z) /\ Interval(z) = Interval(s[lo]) \cup Interval(r)
       /\ \A b : IsBlock(b) /\ ApartFrom(b, s[lo]) /\ ApartFrom(b, r) => ApartFrom(b, z)
  <2>1. CASE prev
    <3>1. s[lo].end = r.base
      BY <1>5, <1>8, <2>1
    <3> QED
      BY <1>1, <1>14, <1>16, <3>1, Touching
  <2>2. CASE ~prev
    <3>1. s[lo] = r
      BY <1>3, <1>5, <2>2
    <3>2. Interval(z) = Interval(r)
      BY <1>16, <3>1 DEF Interval
    <3>3. InMemory(z)
      BY <1>1, <1>16, <3>1 DEF InMemory, HRanges
    <3>4. \A b : ApartFrom(b, r) => ApartFrom(b, z)
      BY <1>16, <3>1 DEF ApartFrom
    <3> QED
      BY <3>1, <3>2, <3>3, <3>4
  <2> QED
    BY <2>1, <2>2
<1>18. /\ InMemory(y) /\ Interval(y) = Interval(z) \cup Interval(s[hi])
       /\ \A b : IsBlock(b) /\ ApartFrom(b, z) /\ ApartFrom(b, s[hi]) => ApartFrom(b, y)
  <2>1. CASE next
    <3>1. z.end = s[hi].base
      BY <1>5, <1>8, <1>16, <2>1
    <3>2. y.base = z.base
      BY <1>10, <1>16
    <3> QED
      BY <1>10, <1>14, <1>15, <1>17, <3>1, <3>2, Touching
  <2>2. CASE ~next
    <3>1. s[hi] = r
      BY <1>3, <1>5, <2>2
    <3>2. y.base = z.base /\ y.end = z.end
      BY <1>10, <1>16, <3>1
    <3>3. Interval(y) = Interval(z)
      BY <3>2 DEF Interval
    <3>4. InMemory(y)
      BY <1>15, <1>17, <3>2 DEF InMemory, HRanges
    <3>5. \A b : ApartFrom(b, z) => ApartFrom(b, y)
      BY <3>2 DEF ApartFrom
    <3> QED
      BY <1>17, <3>1, <3>3, <3>4, <3>5
  <2> QED
    BY <2>1, <2>2
<1>19. new \in Seq(HRanges) /\ InOrder(new) /\ Range(new) = {y}
  BY <1>15, Single
<1> HIDE DEF new
<1>20. Fills(h, lo, hi, new)
  <2>1. \A j \in 1 .. (lo - 1) : s[j].free => s[j].end < s[lo].base
    <3>1. CASE prev
      <4>1. \A j \in 1 .. (lo - 1) : j \in DOMAIN s /\ j < lo
        BY <1>7, <1>12
      <4> QED
        BY <1>5, <1>6, <1>8, <1>12, <3>1, <4>1 DEF InOrder, Before
    <3>2. CASE ~prev
      <4>1. lo = i /\ s[lo] = r
        BY <1>3, <1>5, <3>2
      <4>2. \A j \in 1 .. (i - 1) : j \in DOMAIN s
        BY <1>7
      <4> QED
        BY <1>5, <1>7, <1>9, <3>2, <4>1, <4>2
    <3> QED
      BY <3>1, <3>2
  <2>2. \A j \in (hi + 1) .. Len(s) : s[j].free => s[hi].end < s[j].base
    <3>1. CASE next
      <4>1. \A j \in (hi + 1) .. Len(s) : j \in DOMAIN s /\ hi < j
        BY <1>7, <1>12
      <4> QED
        BY <1>5, <1>6, <1>8, <1>12, <3>1, <4>1 DEF InOrder, Before
    <3>2. CASE ~next
      <4>1. hi = i /\ s[hi] = r
        BY <1>3, <1>5, <3>2
      <4>2. \A j \in (i + 1) .. Len(s) : j \in DOMAIN s
        BY <1>7
      <4> QED
        BY <1>5, <1>7, <1>9, <3>2, <4>1, <4>2
    <3> QED
      BY <3>1, <3>2
  <2>3. lo <= hi
    BY <1>7, <1>12
  <2>4. s[lo].base <= y.base /\ y.end <= s[hi].end
    BY <1>10, <1>14 DEF InMemory
  <2> QED
    BY <1>10, <1>12, <1>18, <1>19, <2>1, <2>2, <2>3, <2>4 DEF Fills
<1>21. Interval(y) \subseteq M
  BY <1>1, <1>14, <1>17, <1>18
<1>22. /\ a \in Seq(Nat) /\ IsInjective(a)
       /\ Range(a) = IF ~prev THEN {r.base} ELSE {}
  BY <1>1, IfPart
<1>23. /\ rest \in Seq(Nat) /\ IsInjective(rest)
       /\ Range(rest) = IF next THEN Range(h.free) \ {r.end} ELSE Range(h.free)
  <2>1. CASE next
    <3>1. r.end \in Range(h.free)
      BY <1>8, <2>1
    <3> QED
      BY <1>6, <2>1, <3>1, Removed
  <2>2. CASE ~next
    BY <1>6, <2>2
  <2> QED
    BY <2>1, <2>2
<1> HIDE DEF a, rest
<1>24. free \in Seq(Nat) /\ IsInjective(free) /\ Range(free) = Range(a) \cup Range(rest)
  <2>1. Range(a) \cap Range(rest) = {}
    BY <1>11, <1>22, <1>23
  <2> QED
    BY <1>22, <1>23, <2>1, JoinedInjective
<1> HIDE DEF free
<1>25. BasesOf(Old) = {s[lo].base, r.base, s[hi].base} /\ FreeBases({y}) = {s[lo].base}
  BY <1>10, <1>13 DEF BasesOf, FreeBases
<1>26. Range(free) = (Range(h.free) \ BasesOf(Old)) \cup FreeBases({y})
  <2>1. s[lo].base = (IF prev THEN s[i - 1].base ELSE r.base)
    BY <1>3, <1>5
  <2>2. s[hi].base = (IF next THEN r.end ELSE r.base)
    BY <1>3, <1>5, <1>8
  <2>3. s[lo].base # r.end
    BY <1>1, <1>14, <1>17, <1>16, Sizes DEF InMemory
  <2>4. prev => s[lo].base \in Range(h.free)
    BY <1>8, <2>1
  <2>5. CASE prev /\ next
    BY <1>11, <1>22, <1>23, <1>24, <1>25, <2>2, <2>3, <2>4, <2>5
  <2>6. CASE prev /\ ~next
    BY <1>11, <1>22, <1>23, <1>24, <1>25, <2>2, <2>3, <2>4, <2>6
  <2>7. CASE ~prev /\ next
    BY <1>11, <1>22, <1>23, <1>24, <1>25, <2>1, <2>2, <2>3, <2>7
  <2>8. CASE ~prev /\ ~next
    BY <1>11, <1>22, <1>23, <1>24, <1>25, <2>1, <2>2, <2>3, <2>8
  <2> QED
    BY <2>5, <2>6, <2>7, <2>8
<1>27. Replaces(h, h2, M, lo, hi, new)
  <2>1. h2.ranges = Splice(h.ranges, lo, hi, new) /\ h2.free = free
    BY <1>4
  <2> HIDE DEF h2
  <2>2. \A x \in Range(new) : Interval(x) \subseteq M
    BY <1>19, <1>21
  <2>3. Range(free) = (Range(h.free) \ BasesOf(Slice(h.ranges, lo, hi)))
                         \cup FreeBases(Range(new))
    BY <1>19, <1>26 DEF Old
  <2> QED
    BY <1>20, <1>24, <2>1, <2>2, <2>3 DEF Replaces
<1> HIDE DEF h2
<1>28. ListInv(h2, M) /\ Range(h2.ranges) = (Range(h.ranges) \ Old) \cup {y}
  BY <1>19, <1>27, ListReplaced DEF Old
<1>29. Exchanged(Range(h.ranges), Range(h2.ranges), r, {y})
  <2>1. Old \in SUBSET Range(h.ranges) /\ r \in Old
    BY <1>13, <1>14
  <2>2. \A x \in Old : x = r \/ x.free
    <3>1. s[lo] = r \/ s[lo].free
      BY <1>3, <1>5, <1>8
    <3>2. s[hi] = r \/ s[hi].free
      BY <1>3, <1>5, <1>8
    <3> QED
      BY <1>13, <3>1, <3>2
  <2>3. Covered({y}) = Covered(Old)
    BY <1>13, <1>17, <1>18 DEF Covered
  <2>4. \A b : IsBlock(b) /\ (\A x \in Old : ApartFrom(b, x)) => ApartFrom(b, y)
    BY <1>13, <1>17, <1>18
  <2> QED
    BY <1>28, <2>1, <2>2, <2>3, <2>4 DEF Exchanged
<1> QED
  BY <1>28, <1>29 DEF h2

-----------------------------------------------------------------------------
(* BlResizeHeap. *)

\* The range after a block is large enough for what callers want in addition.
LEMMA ExtendLists ==
    ASSUME NEW h, NEW M, ListInv(h, M), NEW r \in Range(h.ranges), ~r.free,
           NEW ptr, ptr = r.base + HdrSize, NEW newSize \in Nat,
           r.end < ptr + newSize, ptr + newSize <= r.end + HdrSize, CanExtend(h, ptr)
    PROVE  /\ ListInv(Extend(h, ptr, newSize), M)
           /\ \E N : /\ Exchanged(Range(h.ranges), Range(Extend(h, ptr, newSize).ranges),
                                  r, N)
                     /\ \E y \in N : Holds(y, Block(ptr, newSize))
<1> DEFINE s == h.ranges
           i == IndexOf(h, r.base)
           n == s[i + 1]
           to == ptr + newSize
           tail == (n.end - to) % WordSize >= HdrSize
           y == HeapRange(r.base, IF tail THEN to ELSE n.end, FALSE)
           z == HeapRange(to, n.end, TRUE)
           w == HeapRange(r.base, n.end, TRUE)
           last == If(tail, z)
           new == <<y>> \o last
           a == If(tail, to)
           rest == Unlink(h.free, n.base)
           free == a \o rest
           h2 == Extend(h, ptr, newSize)
           Old == Slice(s, i, i + 1)
<1>1. InMemory(r) /\ Interval(r) \subseteq M /\ r.base \in Nat /\ r.end \in Nat
  BY DEF ListInv, InMemory
<1>2. ptr - HdrSize = r.base
  BY <1>1, Sizes
<1>3. i \in DOMAIN s /\ s[i] = r
  BY Found
<1>4. h2 = [ranges |-> Splice(s, i, i + 1, new), free |-> free]
  <2>1. IndexOf(h, ptr - HdrSize) = i
    BY <1>2
  <2> QED
    BY <1>2, <2>1 DEF Extend
<1>5. FreeAt(h, i + 1) /\ n.base = r.end
  <2>1. IndexOf(h, ptr - HdrSize) = i
    BY <1>2
  <2> QED
    BY <1>3, <2>1 DEF CanExtend
<1>6. /\ h.free \in Seq(Nat) /\ IsInjective(h.free)
      /\ Range(h.free) = FreeBases(Range(s))
      /\ InOrder(s) /\ \A j \in DOMAIN s : s[j] \in Range(s) /\ InMemory(s[j])
  BY Different DEF ListInv
<1>7. i \in 1 .. Len(s) /\ Len(s) \in Nat /\ DOMAIN s = 1 .. Len(s)
  BY <1>3, Neighbours
<1>8. /\ i + 1 \in DOMAIN s /\ n \in Range(s) /\ n.free /\ InMemory(n)
      /\ n.base \in Range(h.free)
  BY <1>5, FreeNeighbour
<1>9. Interval(n) \subseteq M
  BY <1>8 DEF ListInv
<1> HIDE DEF i, n, Old
<1>10. /\ n.base \in Nat /\ n.end \in Nat /\ to \in Nat /\ n.base < to /\ to <= n.end
       /\ r.end <= WordSize /\ n.end <= WordSize /\ to >= r.base + HdrSize
  BY <1>1, <1>5, <1>8, Sizes DEF InMemory
<1>11. tail \in BOOLEAN /\ (tail <=> n.end - to >= HdrSize)
  <2>1. n.end - to \in 0 .. (WordSize - 1)
    BY <1>1, <1>10, Sizes
  <2>2. (n.end - to) % WordSize = n.end - to
    BY <2>1, NotWrapped
  <2> QED
    BY <2>2
<1> HIDE DEF tail, to
<1>12. /\ y.base = r.base /\ y.end = (IF tail THEN to ELSE n.end) /\ ~y.free
       /\ y \in HRanges
  BY <1>1, <1>10 DEF HeapRange, HRanges
<1>13. z.base = to /\ z.end = n.end /\ z.free /\ z \in HRanges
  BY <1>1, <1>10 DEF HeapRange, HRanges
<1>14. w.base = r.base /\ w.end = n.end /\ w \in HRanges
  BY <1>1, <1>10 DEF HeapRange, HRanges
<1> HIDE DEF y, z, w
<1>15. /\ InMemory(w) /\ Interval(w) = Interval(r) \cup Interval(n)
       /\ \A b : IsBlock(b) /\ ApartFrom(b, r) /\ ApartFrom(b, n) => ApartFrom(b, w)
  BY <1>1, <1>5, <1>8, <1>14, Touching
<1>16. InMemory(y)
  BY <1>1, <1>10, <1>12, Sizes DEF InMemory, HRanges
<1>17. tail => InMemory(z)
  BY <1>1, <1>10, <1>11, <1>13, Sizes DEF InMemory, HRanges
<1> DEFINE N == IF tail THEN {y, z} ELSE {y}
<1>18. new \in Seq(HRanges) /\ InOrder(new) /\ Range(new) = N
  <2>1. <<y>> \in Seq(HRanges) /\ InOrder(<<y>>) /\ Range(<<y>>) = {y}
    BY <1>12, Single
  <2>2. /\ last \in Seq(HRanges) /\ InOrder(last)
        /\ Range(last) = IF tail THEN {z} ELSE {}
    BY <1>11, <1>13, IfPart
  <2> DEFINE first == <<y>>
  <2> HIDE DEF last, first
  <2>3. \A x \in Range(first), x2 \in Range(last) : Before(x, x2)
    BY <1>10, <1>12, <1>13, <2>1, <2>2 DEF Before, first
  <2>4. /\ first \o last \in Seq(HRanges) /\ InOrder(first \o last)
        /\ Range(first \o last) = Range(first) \cup Range(last)
    <3>1. first \in Seq(HRanges) /\ InOrder(first)
      BY <2>1 DEF first
    <3> QED
      BY <2>2, <2>3, <3>1, JoinedInOrder
  <2>5. Range(first) \cup Range(last) = N
    BY <2>1, <2>2 DEF first
  <2> QED
    BY <2>4, <2>5 DEF first, last
<1> HIDE DEF new
<1>19. /\ \A x \in N : /\ InMemory(x) /\ r.base <= x.base /\ x.end <= n.end
                       /\ x.free => x = z
       /\ y \in N
  <2>1. InMemory(y) /\ r.base <= y.base /\ y.end <= n.end /\ ~y.free
    BY <1>1, <1>10, <1>12, <1>16
  <2>2. tail => InMemory(z) /\ r.base <= z.base /\ z.end <= n.end
    BY <1>1, <1>10, <1>13, <1>17, Sizes
  <2>3. \A x \in N : x = y \/ (tail /\ x = z)
    OBVIOUS
  <2>4. y \in N
    OBVIOUS
  <2> HIDE DEF N
  <2> QED
    BY <2>1, <2>2, <2>3, <2>4
<1>20. Covered(N) = Interval(w)
  <2>1. CASE tail
    <3>1. y.end = z.base
      BY <1>12, <1>13, <2>1
    <3>2. Interval(w) = Interval(y) \cup Interval(z)
      BY <1>12, <1>13, <1>14, <1>16, <1>17, <2>1, <3>1, Touching
    <3> QED
      BY <2>1, <3>2 DEF Covered
  <2>2. CASE ~tail
    <3>1. Interval(w) = Interval(y)
      BY <1>12, <1>14, <2>2 DEF Interval
    <3> QED
      BY <2>2, <3>1 DEF Covered
  <2> QED
    BY <2>1, <2>2
<1>21. FreeBases(N) = IF tail THEN {to} ELSE {}
  BY <1>12, <1>13 DEF FreeBases
<1> HIDE DEF N
<1>22. Fills(h, i, i + 1, new)
  <2>1. \A j \in (i + 2) .. Len(s) : s[j].free => n.end < s[j].base
    <3>1. \A j \in (i + 2) .. Len(s) : j \in DOMAIN s /\ i + 1 < j
      BY <1>7
    <3> QED
      BY <1>6, <1>8, <3>1 DEF n, InOrder, Before
  <2>2. z.base # r.base
    BY <1>1, <1>10, <1>13, Sizes
  <2>3. i + 1 + 1 = i + 2
    BY <1>7
  <2> QED
    BY <1>3, <1>7, <1>8, <1>18, <1>19, <2>1, <2>2, <2>3 DEF Fills, n
<1>23. /\ a \in Seq(Nat) /\ IsInjective(a) /\ Range(a) = IF tail THEN {to} ELSE {}
  BY <1>10, <1>11, IfPart
<1>24. /\ rest \in Seq(Nat) /\ IsInjective(rest)
       /\ Range(rest) = Range(h.free) \ {n.base}
  BY <1>6, <1>8, Removed
<1> HIDE DEF a, rest
<1>25. tail => to \notin Range(h.free)
  <2> SUFFICES ASSUME tail, to \in Range(h.free) PROVE FALSE
    OBVIOUS
  <2>1. PICK x \in Range(s) : x.base = to /\ x.free
    BY <1>6 DEF FreeBases
  <2>2. x = n \/ Before(x, n) \/ Before(n, x)
    BY <1>8, Different
  <2>3. InMemory(x)
    BY DEF ListInv
  <2> QED
    BY <1>8, <1>10, <1>11, <2>1, <2>2, <2>3, Sizes DEF Before, InMemory
<1>26. free \in Seq(Nat) /\ IsInjective(free) /\ Range(free) = Range(a) \cup Range(rest)
  <2>1. Range(a) \cap Range(rest) = {}
    BY <1>23, <1>24, <1>25
  <2> QED
    BY <1>23, <1>24, <2>1, JoinedInjective
<1> HIDE DEF free
<1>27. Old = {r, n}
  <2>1. i .. (i + 1) = {i, i + 1}
    BY <1>7
  <2> QED
    BY <1>3, <2>1 DEF Old, Slice, n
<1>28. Range(free) = (Range(h.free) \ BasesOf(Old)) \cup FreeBases(N)
  <2>1. BasesOf(Old) = {r.base, n.base}
    BY <1>27 DEF BasesOf
  <2>2. r.base \notin Range(h.free)
    BY NotInFreeList
  <2> QED
    BY <1>21, <1>23, <1>24, <1>26, <2>1, <2>2
<1>29. Replaces(h, h2, M, i, i + 1, new)
  <2>1. h2.ranges = Splice(h.ranges, i, i + 1, new) /\ h2.free = free
    BY <1>4
  <2> HIDE DEF h2
  <2>2. \A x \in Range(new) : Interval(x) \subseteq M
    <3>1. Interval(w) \subseteq M
      BY <1>1, <1>9, <1>15
    <3>2. \A x \in N : Interval(x) \subseteq Covered(N)
      BY DEF Covered
    <3> QED
      BY <1>18, <1>20, <3>1, <3>2
  <2>3. Range(free) = (Range(h.free) \ BasesOf(Slice(h.ranges, i, i + 1)))
                         \cup FreeBases(Range(new))
    BY <1>18, <1>28 DEF Old
  <2> QED
    BY <1>22, <1>26, <2>1, <2>2, <2>3 DEF Replaces
<1> HIDE DEF h2
<1>30. ListInv(h2, M) /\ Range(h2.ranges) = (Range(h.ranges) \ Old) \cup N
  BY <1>18, <1>29, ListReplaced DEF Old
<1>31. Exchanged(Range(h.ranges), Range(h2.ranges), r, N)
  <2>1. Old \in SUBSET Range(h.ranges) /\ r \in Old /\ \A x \in Old : x = r \/ x.free
    BY <1>8, <1>27
  <2>2. Covered(N) = Covered(Old)
    BY <1>15, <1>20, <1>27 DEF Covered
  <2>3. ASSUME NEW x \in N, NEW b, IsBlock(b), \A o \in Old : ApartFrom(b, o)
        PROVE  ApartFrom(b, x)
    <3>1. ApartFrom(b, w)
      BY <1>15, <1>27, <2>3
    <3>2. InMemory(x) /\ w.base <= x.base /\ x.end <= w.end /\ InMemory(w)
      BY <1>14, <1>15, <1>19
    <3> QED
      BY <2>3, <3>1, <3>2 DEF ApartFrom, InMemory, IsBlock
  <2> QED
    BY <1>30, <2>1, <2>2, <2>3 DEF Exchanged
<1>32. Holds(y, Block(ptr, newSize))
  <2>1. Block(ptr, newSize).ptr = ptr /\ Block(ptr, newSize).size = newSize
    BY DEF Block
  <2>2. y.end < to + HdrSize /\ to <= y.end
    BY <1>10, <1>11, <1>12, Sizes
  <2> QED
    BY <1>12, <2>1, <2>2 DEF Holds, to
<1> QED
  BY <1>19, <1>30, <1>31, <1>32 DEF h2

-----------------------------------------------------------------------------
(* BlAddHeapRange. *)

LEMMA GreatestUpTo == ASSUME NEW n \in Nat PROVE Max(0 .. n) = n
<1>1. \A x \in 0 .. n : (\A y \in 0 .. n : x >= y) => x = n
  OBVIOUS
<1>2. n \in 0 .. n /\ \A y \in 0 .. n : n >= y
  OBVIOUS
<1> QED
  BY <1>1, <1>2 DEF Max

\* Memory behind all ranges is appended, or joins the last one.
LEMMA AddLists ==
    ASSUME NEW h, NEW M, ListInv(h, M), NEW from \in Nat, NEW to \in Nat,
           ImageEnd <= from, from < to, to <= WordSize,
           \A r \in Range(h.ranges) : r.end <= from
    PROVE  /\ ListInv(AddHeapRange(h, from, to), M \cup from .. (to - 1))
           /\ \A r \in Range(AddHeapRange(h, from, to).ranges) : r.end <= to
<1> DEFINE s == h.ranges
           M2 == M \cup from .. (to - 1)
           p == Len(s)
           merge == FreeAt(h, p) /\ s[p].end = from
           lo == IF merge THEN p ELSE p + 1
           y == HeapRange(IF merge THEN s[p].base ELSE from, to, TRUE)
           new == <<y>>
           a == If(~merge, from)
           free == a \o h.free
           u == Splice(s, lo, p, new)
           h2 == AddHeapRange(h, from, to)
<1>1. /\ h.free \in Seq(Nat) /\ IsInjective(h.free) /\ Range(h.free) = FreeBases(Range(s))
      /\ s \in Seq(HRanges) /\ InOrder(s) /\ p \in Nat /\ DOMAIN s = 1 .. p
      /\ \A j \in DOMAIN s : s[j] \in Range(s) /\ InMemory(s[j])
      /\ \A r \in Range(s) : InMemory(r) /\ Interval(r) \subseteq M
  BY Different DEF ListInv
<1>2. \A j \in DOMAIN s : s[j].end <= from /\ s[j].base < from
  <2> TAKE j \in DOMAIN s
  <2>1. s[j].end <= from /\ InMemory(s[j])
    BY <1>1
  <2> QED
    BY <2>1, Sizes DEF InMemory
<1>3. Max({0} \cup {j \in DOMAIN s : s[j].base < from}) = p
  <2>1. {0} \cup {j \in DOMAIN s : s[j].base < from} = 0 .. p
    BY <1>1, <1>2
  <2> QED
    BY <1>1, <2>1, GreatestUpTo
<1>4. h2 = IF ~merge /\ to - from < HdrSize THEN h ELSE [ranges |-> u, free |-> free]
  <2> DEFINE Q(x, n, base, end) ==
        LET mergePrev == FreeAt(h, x) /\ s[x].end = base
            mergeNext == FreeAt(h, n) /\ s[n].base = end
            lo2 == IF mergePrev THEN x ELSE x + 1
            hi2 == IF mergeNext THEN n ELSE x
            new2 == HeapRange(IF mergePrev THEN s[x].base ELSE base,
                              IF mergeNext THEN s[n].end ELSE end, TRUE)
            rest == IF mergeNext THEN Unlink(h.free, end) ELSE h.free
        IN IF \/ base >= end
              \/ ~mergePrev /\ ~mergeNext /\ end - base < HdrSize
             THEN h
             ELSE [ranges |-> Splice(s, lo2, hi2, <<new2>>),
                   free   |-> If(~mergePrev, base) \o rest]
             NextOf(x) == IF x = 0 THEN 0 ELSE x + 1
             BaseOf(x) == IF x > 0 /\ s[x].end > from THEN s[x].end ELSE from
             EndOf(n) == IF n \in DOMAIN s /\ to > s[n].base THEN s[n].base ELSE to
             P(x) == Q(x, NextOf(x), BaseOf(x), EndOf(NextOf(x)))
  <2>1. h2 = P(Max({0} \cup {j \in DOMAIN s : s[j].base < from}))
    BY DEF AddHeapRange
  <2>2. h2 = P(p)
    <3> HIDE DEF P
    <3> QED
      BY <1>3, <2>1
  <2>3. NextOf(p) \notin DOMAIN s
    BY <1>1
  <2>4. BaseOf(p) = from
    <3>1. p > 0 => s[p].end <= from /\ InMemory(s[p])
      BY <1>1, <1>2
    <3> QED
      BY <3>1 DEF InMemory
  <2>5. EndOf(NextOf(p)) = to
    BY <2>3
  <2> HIDE DEF Q, NextOf, BaseOf, EndOf
  <2>6. h2 = Q(p, NextOf(p), from, to)
    BY <2>2, <2>4, <2>5
  <2> DEFINE n == NextOf(p)
  <2>7. ~FreeAt(h, n)
    BY <2>3 DEF FreeAt
  <2>8. h2 = Q(p, n, from, to)
    BY <2>6
  <2> HIDE DEF n, h2
  <2>9. ~(from >= to)
    OBVIOUS
  <2> QED
    BY <2>7, <2>8, <2>9 DEF Q
<1>5. /\ merge <=> (FreeAt(h, p) /\ s[p].end = from)
      /\ lo = (IF merge THEN p ELSE p + 1)
  OBVIOUS
<1>6. merge => /\ p \in DOMAIN s /\ s[p] \in Range(s) /\ s[p].free /\ InMemory(s[p])
               /\ s[p].base \in Range(h.free)
  BY FreeNeighbour
<1>7. \A j \in DOMAIN s : s[j].free => FreeAt(h, j)
  BY DEF FreeAt
<1>8. y.base = (IF merge THEN s[p].base ELSE from) /\ y.end = to /\ y.free
  BY DEF HeapRange
<1>9. y \in HRanges
  BY <1>6 DEF HeapRange, HRanges, InMemory
<1> HIDE DEF merge, lo, y
<1>10. CASE ~merge /\ to - from < HdrSize
  <2>1. h2 = h
    BY <1>4, <1>10
  <2> HIDE DEF h2
  <2>2. \A r \in Range(s) : InMemory(r) /\ Interval(r) \subseteq M2
    BY <1>1
  <2>3. ListInv(h, M2)
    BY <1>1, <2>2 DEF ListInv
  <2>4. \A r \in Range(s) : r.end <= to
    <3> TAKE r \in Range(s)
    <3>1. r.end <= from /\ InMemory(r)
      BY <1>1
    <3> QED
      BY <3>1 DEF InMemory
  <2> QED
    BY <2>1, <2>3, <2>4 DEF h2
<1>11. CASE merge \/ ~(to - from < HdrSize)
  <2>1. h2.ranges = u /\ h2.free = free
    <3> HIDE DEF h2, u, free
    <3>1. ~(~merge /\ to - from < HdrSize)
      BY <1>11
    <3>2. h2 = [ranges |-> u, free |-> free]
      BY <1>4, <3>1
    <3> QED
      BY <3>2
  <2>2. InMemory(y)
    <3>1. CASE merge
      BY <1>2, <1>6, <1>8, <1>9, <3>1, Sizes DEF InMemory, HRanges
    <3>2. CASE ~merge
      BY <1>8, <1>9, <1>11, <3>2, Sizes DEF InMemory, HRanges
    <3> QED
      BY <3>1, <3>2
  <2>3. new \in Seq(HRanges) /\ InOrder(new) /\ Range(new) = {y}
    BY <1>9, Single
  <2> HIDE DEF new, h2
  <2>4. lo \in 1 .. (p + 1) /\ p \in (lo - 1) .. p
    BY <1>1, <1>5, <1>6
  <2>5. \A j \in 1 .. (lo - 1) : Before(s[j], y)
    <3> TAKE j \in 1 .. (lo - 1)
    <3>1. j \in DOMAIN s /\ InMemory(s[j]) /\ s[j].end <= from
      BY <1>1, <1>2, <2>4
    <3>2. CASE merge
      <4>1. Before(s[j], s[p]) /\ InMemory(s[p])
        BY <1>1, <1>5, <1>6, <3>1, <3>2 DEF InOrder
      <4> QED
        BY <1>6, <1>8, <3>1, <3>2, <4>1 DEF Before
    <3>3. CASE ~merge
      <4>1. CASE j = p
        BY <1>5, <1>7, <1>8, <3>1, <3>3, <4>1 DEF Before, InMemory
      <4>2. CASE j < p
        <5>1. /\ p \in DOMAIN s /\ Before(s[j], s[p]) /\ InMemory(s[p])
              /\ s[p].base < from
          BY <1>1, <1>2, <3>1, <4>2 DEF InOrder
        <5> QED
          BY <1>8, <3>1, <3>3, <5>1 DEF Before, InMemory
      <4> QED
        BY <1>1, <3>1, <4>1, <4>2
    <3> QED
      BY <3>2, <3>3
  <2>6. /\ u \in Seq(HRanges) /\ InOrder(u)
        /\ Range(u) = Outside(s, lo, p) \cup {y}
    <3>1. s \in Seq(HRanges) /\ InOrder(s) /\ p = Len(s)
      BY <1>1
    <3>2. \A j \in (p + 1) .. Len(s) : FALSE
      BY <1>1
    <3>3. \A j \in 1 .. (lo - 1), x \in Range(new) : Before(s[j], x)
      BY <2>3, <2>5
    <3> HIDE DEF s
    <3> QED
      BY <2>3, <2>4, <3>1, <3>2, <3>3, SplicedInOrder
  <2> DEFINE R == Range(s)
             Old == IF merge THEN {s[p]} ELSE {}
  <2>7. Outside(s, lo, p) = R \ Old
    <3>1. Outside(s, lo, p) = {s[j] : j \in 1 .. (lo - 1)}
      <4>1. \A j \in (p + 1) .. Len(s) : FALSE
        BY <1>1
      <4> QED
        BY <4>1 DEF Outside
    <3>2. CASE ~merge
      <4>1. 1 .. (lo - 1) = DOMAIN s
        BY <1>1, <1>5, <3>2
      <4> QED
        BY <3>1, <3>2, <4>1 DEF Range
    <3>3. CASE merge
      <4>1. \A j \in DOMAIN s : j \in 1 .. (lo - 1) \/ j = p
        BY <1>1, <1>5, <3>3
      <4>2. \A j \in 1 .. (lo - 1) : j \in DOMAIN s /\ s[j] # s[p]
        <5> TAKE j \in 1 .. (lo - 1)
        <5>1. j \in DOMAIN s /\ j # p /\ p \in DOMAIN s
          BY <1>1, <1>5, <1>6, <3>3
        <5> QED
          BY <5>1, Different
      <4> QED
        BY <3>1, <3>3, <4>1, <4>2 DEF Range
    <3> QED
      BY <3>2, <3>3
  <2>8. Old \subseteq R /\ UniqueBases(R) /\ Range(h.free) = FreeBases(R)
    BY <1>1, <1>6, Different DEF UniqueBases
  <2> DEFINE New == {y}
  <2> HIDE DEF R, Old, New, s, u
  <2>9. FreeBases((R \ Old) \cup New) = (FreeBases(R) \ BasesOf(Old)) \cup FreeBases(New)
    BY <2>8, FreeBasesReplaced
  <2>10. a \in Seq(Nat) /\ IsInjective(a) /\ Range(a) = IF ~merge THEN {from} ELSE {}
    BY IfPart
  <2> HIDE DEF a
  <2>11. from \notin Range(h.free)
    <3> SUFFICES ASSUME from \in FreeBases(R) PROVE FALSE
      BY <2>8
    <3>1. PICK x \in R : x.base = from
      BY DEF FreeBases
    <3>2. x.end <= from /\ InMemory(x)
      BY <1>1 DEF R, s
    <3> QED
      BY <3>1, <3>2, Sizes DEF InMemory
  <2>12. free \in Seq(Nat) /\ IsInjective(free) /\ Range(free) = Range(a) \cup Range(h.free)
    <3>1. Range(a) \cap Range(h.free) = {}
      BY <2>10, <2>11
    <3> QED
      BY <1>1, <2>10, <3>1, JoinedInjective
  <2> HIDE DEF free
  <2>13. Range(free) = FreeBases(Range(u))
    <3>1. FreeBases(New) = {y.base}
      BY <1>8 DEF FreeBases, New
    <3>2. BasesOf(Old) = IF merge THEN {s[p].base} ELSE {}
      BY DEF BasesOf, Old
    <3>3. Range(free) = (FreeBases(R) \ BasesOf(Old)) \cup FreeBases(New)
      <4>1. CASE merge
        BY <1>6, <1>8, <2>8, <2>10, <2>12, <3>1, <3>2, <4>1
      <4>2. CASE ~merge
        BY <1>8, <2>8, <2>10, <2>12, <3>1, <3>2, <4>2
      <4> QED
        BY <4>1, <4>2
    <3> QED
      BY <2>6, <2>7, <2>9, <3>3 DEF New
  <2>14. Interval(y) \subseteq M2
    <3>1. CASE merge
      <4>1. Interval(s[p]) \subseteq M /\ s[p].end = from /\ InMemory(s[p])
        BY <1>1, <1>5, <1>6, <3>1 DEF s
      <4>2. y.base = s[p].base /\ y.end = to
        BY <1>8, <3>1
      <4>3. \A x \in y.base .. (y.end - 1) :
              x \in s[p].base .. (s[p].end - 1) \/ x \in from .. (to - 1)
        BY <4>1, <4>2 DEF InMemory
      <4> QED
        BY <4>1, <4>3 DEF Interval
    <3>2. CASE ~merge
      BY <1>8, <3>2 DEF Interval
    <3> QED
      BY <3>1, <3>2
  <2>15. \A r \in Range(u) : InMemory(r) /\ Interval(r) \subseteq M2 /\ r.end <= to
    <3> TAKE r \in Range(u)
    <3>1. CASE r = y
      BY <1>8, <2>2, <2>14, <3>1
    <3>2. CASE r \in R
      <4>1. InMemory(r) /\ Interval(r) \subseteq M /\ r.end <= from
        BY <1>1, <3>2 DEF R, s
      <4> QED
        BY <4>1 DEF InMemory
    <3> QED
      BY <2>6, <2>7, <3>1, <3>2
  <2>16. ListInv(h2, M2)
    BY <2>1, <2>6, <2>12, <2>13, <2>15 DEF ListInv
  <2> QED
    BY <2>1, <2>15, <2>16 DEF h2
<1> QED
  BY <1>10, <1>11

-----------------------------------------------------------------------------
(* The heap with its blocks. *)

\* The block whose range it was is freed, or has another in its place.
LEMMA ExchangeBlocks ==
    ASSUME NEW h, NEW L, NEW P, NEW M, HeapInv(h, L, P, M), NEW b \in L,
           NEW r \in Range(h.ranges), Holds(r, b), NEW N, NEW R2,
           Exchanged(Range(h.ranges), R2, r, N)
    PROVE  /\ BlockInv(R2, L \ {b}, P, M)
           /\ \A c : IsBlock(c) /\ c.ptr = b.ptr /\ (\E y \in N : Holds(y, c))
                => BlockInv(R2, (L \ {b}) \cup {c}, P, M)
           /\ Covered(R2) = Covered(Range(h.ranges))
<1> DEFINE R == Range(h.ranges)
<1>1. PICK Old \in SUBSET R :
        /\ r \in Old /\ \A x \in Old : x = r \/ x.free
        /\ R2 = (R \ Old) \cup N
        /\ \A y \in N : \A c :
             IsBlock(c) /\ (\A x \in Old : ApartFrom(c, x)) => ApartFrom(c, y)
        /\ Covered(N) = Covered(Old)
  BY DEF Exchanged
<1>2. /\ \A c \in L \cup P : IsBlock(c)
      /\ L \subseteq [ptr : Nat, size : Nat \ {0}]
      /\ P \subseteq [ptr : Nat, size : Nat \ {0}]
      /\ \A c \in L : \E x \in R : Holds(x, c)
      /\ \A c, d \in L : c.ptr = d.ptr => c = d
      /\ \A c \in P : Units(c) \subseteq M /\ \A x \in R : ApartFrom(c, x)
      /\ \A c, d \in P : c = d \/ Apart(c, d)
  BY DEF HeapInv, BlockInv, IsBlock
<1>3. \A x \in R : InMemory(x)
  BY DEF HeapInv, ListInv
<1> HIDE DEF R
<1>4. \A c \in L \ {b} : \E x \in R2 : Holds(x, c)
  <2> TAKE c \in L \ {b}
  <2>1. PICK x \in R : Holds(x, c)
    BY <1>2
  <2>2. x # r
    <3>1. c.ptr # b.ptr
      BY <1>2
    <3> QED
      BY <2>1, <3>1 DEF Holds
  <2>3. x \notin Old
    BY <1>1, <2>1, <2>2 DEF Holds
  <2> QED
    BY <1>1, <2>1, <2>3
<1>5. \A c \in P : \A x \in R2 : ApartFrom(c, x)
  <2> TAKE c \in P
  <2> TAKE x \in R2
  <2>1. CASE x \in R
    BY <1>2, <2>1
  <2>2. CASE x \in N
    <3>1. \A o \in Old : ApartFrom(c, o)
      BY <1>1, <1>2
    <3> QED
      BY <1>1, <1>2, <2>2, <3>1
  <2> QED
    BY <1>1, <2>1, <2>2
<1>6. BlockInv(R2, L \ {b}, P, M)
  <2>1. L \ {b} \subseteq [ptr : Nat, size : Nat \ {0}]
    BY <1>2
  <2>2. \A c, d \in L \ {b} : c.ptr = d.ptr => c = d
    BY <1>2
  <2> QED
    BY <1>2, <1>4, <1>5, <2>1, <2>2 DEF BlockInv
<1>7. ASSUME NEW c, IsBlock(c), c.ptr = b.ptr, \E y \in N : Holds(y, c)
      PROVE  BlockInv(R2, (L \ {b}) \cup {c}, P, M)
  <2> DEFINE L2 == (L \ {b}) \cup {c}
  <2>1. L2 \subseteq [ptr : Nat, size : Nat \ {0}]
    BY <1>2, <1>7 DEF IsBlock
  <2>2. \A d, e \in L2 : d.ptr = e.ptr => d = e
    BY <1>2, <1>7
  <2>3. \A d \in L2 : \E x \in R2 : Holds(x, d)
    BY <1>1, <1>4, <1>7
  <2> HIDE DEF L2
  <2>4. BlockInv(R2, L2, P, M)
    BY <1>2, <1>5, <2>1, <2>2, <2>3 DEF BlockInv
  <2> QED
    BY <2>4 DEF L2
<1>8. Covered(R2) = Covered(R)
  <2>1. Covered(R2) = Covered(R \ Old) \cup Covered(N)
    BY <1>1 DEF Covered
  <2>2. Covered(R) = Covered(R \ Old) \cup Covered(Old)
    BY DEF Covered
  <2> QED
    BY <1>1, <2>1, <2>2
<1> QED
  BY <1>6, <1>7, <1>8 DEF R

\* What BlAllocateHeap promises of the block b, of its heap and of the rest.
Allocates(h, h2, L, P, M, q, b) ==
    /\ ~q.permanent => HeapInv(h2, L \cup {b}, P, M)
    /\ q.permanent => HeapInv(h2, L, P \cup {b}, M)
    /\ IsBlock(b) /\ b.size = q.size /\ Units(b) \subseteq M /\ b.ptr % q.align = 0
    /\ \A c \in L \cup P : Apart(b, c) /\ Apart(c, b)
    /\ Covered(Range(h2.ranges)) \subseteq Covered(Range(h.ranges))
    /\ Units(b) \subseteq Covered(Range(h.ranges))
    /\ \A u \in Covered(Range(h.ranges)) \ Covered(Range(h2.ranges)) :
         /\ q.permanent
         /\ u \in (b.ptr - HdrSize + 1) .. (b.ptr + b.size + HdrSize - 2)

LEMMA CarveKeeps ==
    ASSUME NEW h, NEW L, NEW P, NEW M, HeapInv(h, L, P, M), NEW q, IsRequest(q),
           FitsAt(h, q) # {}
    PROVE  /\ Allocates(h, Carve(h, q), L, P, M, q, Block(Carved(h, q), q.size))
           /\ Block(Carved(h, q), q.size).ptr = Carved(h, q)
<1> DEFINE h2 == Carve(h, q)
           R == Range(h.ranges)
           R2 == Range(h2.ranges)
           v == Carved(h, q)
           b == Block(v, q.size)
<1>1. ListInv(h2, M)
  BY CarveLists DEF HeapInv
<1>2. PICK r \in R : \E N : R2 = (R \ {r}) \cup N /\ Cut(r, N, v, q)
  BY CarveLists DEF HeapInv
<1>3. PICK N : R2 = (R \ {r}) \cup N /\ Cut(r, N, v, q)
  BY <1>2
<1> HIDE DEF h2, v, b
<1>4. /\ ~q.permanent => BlockInv(R2, L \cup {b}, P, M)
      /\ q.permanent => BlockInv(R2, L, P \cup {b}, M)
      /\ IsBlock(b) /\ b.ptr = v /\ b.size = q.size /\ Units(b) \subseteq M
      /\ \A c \in L \cup P : Apart(b, c) /\ Apart(c, b)
  <2>1. b = Block(v, q.size)
    BY DEF b
  <2>2. Placed(R2, L, P, M, q, Block(v, q.size)) /\ Block(v, q.size).ptr = v
    <3>1. r \in Range(h.ranges) /\ Cut(r, N, v, q)
      BY <1>3
    <3>2. R2 = Instead(Range(h.ranges), r, N)
      BY <1>3 DEF Instead
    <3> HIDE DEF R, R2
    <3>3. /\ Placed(Instead(Range(h.ranges), r, N), L, P, M, q, Block(v, q.size))
          /\ Block(v, q.size).ptr = v
      BY <3>1, CarveBlocks
    <3> QED
      BY <3>2, <3>3
  <2> QED
    BY <2>1, <2>2 DEF Placed
<1>5. /\ v \in Nat /\ v % q.align = 0 /\ InMemory(r)
      /\ r.base + HeadExtra(q) <= v /\ v + q.size < r.end
      /\ \A y \in N : InMemory(y) /\ r.base <= y.base /\ y.end <= r.end
      /\ \A u \in Interval(r) :
           \/ \E y \in N : u \in Interval(y)
           \/ q.permanent /\ u \in (v - HdrSize + 1) .. (v + q.size + HdrSize - 2)
  BY <1>3 DEF Cut
<1> HIDE DEF R
<1>6. Units(b) \subseteq Interval(r)
  <2>1. HeadExtra(q) \in Nat
    BY Sizes DEF HeadExtra
  <2> QED
    BY <1>4, <1>5, <2>1 DEF Units, Interval, InMemory, IsBlock
<1>7. \A y \in N : Interval(y) \subseteq Interval(r)
  BY <1>5 DEF Interval, InMemory
<1> HIDE DEF R2
<1>8. Covered(R2) \subseteq Covered(R) /\ Units(b) \subseteq Covered(R)
  BY <1>3, <1>6, <1>7 DEF Covered
<1>9. ASSUME NEW u \in Covered(R), u \notin Covered(R2)
      PROVE  q.permanent /\ u \in (v - HdrSize + 1) .. (v + q.size + HdrSize - 2)
  <2>1. PICK x \in R : u \in Interval(x)
    BY DEF Covered
  <2>2. x = r
    BY <1>3, <1>9, <2>1 DEF Covered
  <2>3. ~\E y \in N : u \in Interval(y)
    BY <1>3, <1>9 DEF Covered
  <2> QED
    BY <1>5, <2>1, <2>2, <2>3
<1>10. /\ ~q.permanent => HeapInv(h2, L \cup {b}, P, M)
       /\ q.permanent => HeapInv(h2, L, P \cup {b}, M)
  BY <1>1, <1>4 DEF HeapInv, R2
<1> QED
  <2>1. Allocates(h, h2, L, P, M, q, b)
    BY <1>4, <1>5, <1>8, <1>9, <1>10 DEF Allocates, R, R2
  <2> QED
    BY <1>4, <2>1 DEF h2, v, b

\* BlFreeHeap.
LEMMA ReleaseKeeps ==
    ASSUME NEW h, NEW L, NEW P, NEW M, HeapInv(h, L, P, M), NEW b \in L
    PROVE  /\ HeapInv(Release(h, b.ptr), L \ {b}, P, M)
           /\ Covered(Range(Release(h, b.ptr).ranges)) = Covered(Range(h.ranges))
<1> DEFINE h2 == Release(h, b.ptr)
<1>1. PICK r \in Range(h.ranges) : Holds(r, b)
  BY DEF HeapInv, BlockInv
<1>2. ListInv(h, M) /\ ~r.free /\ b.ptr = r.base + HdrSize
  BY <1>1 DEF HeapInv, Holds
<1>3. /\ ListInv(h2, M)
      /\ \E N : Exchanged(Range(h.ranges), Range(h2.ranges), r, N)
  BY <1>2, ReleaseLists
<1> HIDE DEF h2
<1>4. PICK N : Exchanged(Range(h.ranges), Range(h2.ranges), r, N)
  BY <1>3
<1>5. /\ BlockInv(Range(h2.ranges), L \ {b}, P, M)
      /\ Covered(Range(h2.ranges)) = Covered(Range(h.ranges))
  BY <1>1, <1>4, ExchangeBlocks
<1> QED
  BY <1>3, <1>5 DEF HeapInv, h2

\* BlResizeHeap in place.
LEMMA ResizeKeeps ==
    ASSUME NEW h, NEW L, NEW P, NEW M, HeapInv(h, L, P, M), NEW b \in L,
           NEW growth \in 1 .. HdrSize, NEW newSize, newSize = b.size + growth,
           OldSize(h, b.ptr) >= newSize \/ CanExtend(h, b.ptr), NEW h2,
           h2 = IF OldSize(h, b.ptr) >= newSize THEN Shrink(h, b.ptr, newSize)
                                                ELSE Extend(h, b.ptr, newSize)
    PROVE  /\ HeapInv(h2, (L \ {b}) \cup {Block(b.ptr, newSize)}, P, M)
           /\ Covered(Range(h2.ranges)) = Covered(Range(h.ranges))
           /\ IsBlock(Block(b.ptr, newSize))
<1> DEFINE c == Block(b.ptr, newSize)
           R == Range(h.ranges)
<1>1. PICK r \in R : Holds(r, b)
  BY DEF HeapInv, BlockInv
<1>2. /\ ListInv(h, M) /\ ~r.free /\ b.ptr = r.base + HdrSize
      /\ b.ptr + b.size <= r.end /\ r.end < b.ptr + b.size + HdrSize
      /\ InMemory(r) /\ IsBlock(b)
  BY <1>1 DEF HeapInv, BlockInv, ListInv, Holds, IsBlock
<1>3. IsBlock(c) /\ c.ptr = b.ptr /\ c.size = newSize /\ newSize \in Nat
  BY <1>2, Sizes DEF IsBlock, Block
<1>4. OldSize(h, b.ptr) = r.end - b.ptr
  <2>1. b.ptr - HdrSize = r.base
    BY <1>2, Sizes DEF InMemory
  <2>2. h.ranges[IndexOf(h, r.base)] = r
    BY <1>2, Found
  <2> QED
    BY <2>1, <2>2 DEF OldSize
<1> HIDE DEF c
<1>5. CASE OldSize(h, b.ptr) >= newSize
  <2>1. OldSize(h, b.ptr) - newSize < HdrSize
    BY <1>2, <1>3, <1>4, <1>5, Sizes DEF InMemory, IsBlock
  <2>2. h2 = h
    BY <1>5, <2>1 DEF Shrink
  <2>3. Exchanged(R, R, r, {r})
    <3>1. {r} \in SUBSET R /\ R = (R \ {r}) \cup {r}
      OBVIOUS
    <3> QED
      BY <3>1 DEF Exchanged
  <2>4. Holds(r, c)
    BY <1>2, <1>3, <1>4, <1>5, Sizes DEF Holds, InMemory, IsBlock
  <2>5. BlockInv(R, (L \ {b}) \cup {c}, P, M)
    <3>1. \E y \in {r} : Holds(y, c)
      BY <2>4
    <3> QED
      BY <1>1, <1>3, <2>3, <3>1, ExchangeBlocks
  <2> QED
    BY <1>2, <1>3, <2>2, <2>5 DEF HeapInv, c
<1>6. CASE ~(OldSize(h, b.ptr) >= newSize)
  <2>1. CanExtend(h, b.ptr) /\ h2 = Extend(h, b.ptr, newSize)
    BY <1>6
  <2>2. r.end < b.ptr + newSize /\ b.ptr + newSize <= r.end + HdrSize
    BY <1>2, <1>3, <1>4, <1>6, Sizes DEF InMemory, IsBlock
  <2>3. /\ ListInv(h2, M)
        /\ \E N : Exchanged(R, Range(h2.ranges), r, N) /\ \E y \in N : Holds(y, c)
    BY <1>2, <1>3, <2>1, <2>2, ExtendLists DEF c
  <2>4. PICK N : Exchanged(R, Range(h2.ranges), r, N) /\ \E y \in N : Holds(y, c)
    BY <2>3
  <2>5. /\ BlockInv(Range(h2.ranges), (L \ {b}) \cup {c}, P, M)
        /\ Covered(Range(h2.ranges)) = Covered(R)
    <3>1. /\ \A d : IsBlock(d) /\ d.ptr = b.ptr /\ (\E y \in N : Holds(y, d))
               => BlockInv(Range(h2.ranges), (L \ {b}) \cup {d}, P, M)
          /\ Covered(Range(h2.ranges)) = Covered(R)
      BY <1>1, <2>4, ExchangeBlocks, ZenonT(60)
    <3> QED
      BY <1>3, <2>4, <3>1
  <2>6. HeapInv(h2, (L \ {b}) \cup {c}, P, M)
    BY <2>3, <2>5 DEF HeapInv
  <2> QED
    BY <1>3, <2>5, <2>6 DEF c
<1> QED
  BY <1>5, <1>6

\* A grown block is still less than the address space.
LEMMA GrownIsRequest ==
    ASSUME NEW h, NEW L, NEW P, NEW M, HeapInv(h, L, P, M), NEW b \in L,
           NEW growth \in 1 .. HdrSize
    PROVE  IsRequest([size |-> b.size + growth, align |-> 1, permanent |-> FALSE])
<1> DEFINE q == [size |-> b.size + growth, align |-> 1, permanent |-> FALSE]
<1>1. PICK r \in Range(h.ranges) : Holds(r, b)
  BY DEF HeapInv, BlockInv
<1>2. InMemory(r) /\ IsBlock(b)
  BY DEF HeapInv, ListInv, BlockInv, IsBlock
<1>3. b.size + growth \in Nat \ {0} /\ b.size + growth + HdrSize < WordSize
  BY <1>1, <1>2, Sizes DEF Holds, InMemory, IsBlock
<1>4. q.size = b.size + growth /\ q.align = 1 /\ q.permanent = FALSE
  OBVIOUS
<1>5. q \in [size : Nat \ {0}, align : 1 .. WordSize, permanent : BOOLEAN]
  BY <1>3, Sizes
<1> HIDE DEF q
<1>6. HeadExtra(q) = HdrSize
  BY <1>4 DEF HeadExtra
<1>7. IsRequest(q)
  BY <1>3, <1>4, <1>5, <1>6 DEF IsRequest
<1> QED
  BY <1>7 DEF q

-----------------------------------------------------------------------------
(* The invariant, the promise of the allocator and the loss, step by step. *)

AllocStep == [Alloc!Next]_<<memory, live, pinned>>

LossStep ==
    memory' = memory =>
      /\ Lost \subseteq Lost'
      /\ \A unit \in Lost' \ Lost : \E b \in pinned' \ pinned :
           unit \in (b.ptr - HdrSize + 1) .. (b.ptr + b.size + HdrSize - 2)

LEMMA Initially == Init => IInv /\ Alloc!Init
<1> SUFFICES ASSUME Init PROVE IInv /\ Alloc!Init
  OBVIOUS
<1>1. /\ heap.ranges = << >> /\ heap.free = << >> /\ memory = {} /\ live = {} /\ pinned = {}
      /\ ramBanks \in Machines /\ bank = 0
  BY DEF Init
<1> DEFINE none == << >>
<1>2. /\ none \in Seq(HRanges) /\ none \in Seq(Nat) /\ DOMAIN none = {}
  OBVIOUS
<1> HIDE DEF none
<1>3. Range(none) = {} /\ InOrder(none) /\ IsInjective(none)
  BY <1>2 DEF Range, InOrder, IsInjective
<1>4. heap.ranges = none /\ heap.free = none
  BY <1>1 DEF none
<1>5. ListInv(heap, memory)
  BY <1>2, <1>3, <1>4 DEF ListInv, FreeBases
<1>6. BlockInv(Range(heap.ranges), live, pinned, memory)
  BY <1>1 DEF BlockInv
<1>7. 0 \in 0 .. Cardinality(DOMAIN ramBanks) /\ Cardinality({}) = 0 /\ IsFiniteSet({})
  <2>1. IsFiniteSet(DOMAIN ramBanks)
    BY <1>1, HeapAssumption
  <2>2. Cardinality(DOMAIN ramBanks) \in Nat
    BY <2>1, FS_CardinalityType
  <2> QED
    BY <2>2, FS_EmptySet
<1>8. BankInv
  BY <1>1, <1>3, <1>4, <1>7, Sizes DEF BankInv
<1> QED
  BY <1>1, <1>5, <1>6, <1>8 DEF IInv, HeapInv, Alloc!Init

\* One turn of BxAddMemoryRanges.
LEMMA AddBankStep ==
    ASSUME IInv, AddBank
    PROVE  IInv' /\ AllocStep /\ LossStep
<1> DEFINE start == bank * BankInterval
           base == IF start < ImageEnd THEN ImageEnd ELSE start
           end == start + ramBanks[bank]
<1>1. /\ ramBanks \in Machines /\ bank \in DOMAIN ramBanks
      /\ bank \in 0 .. Cardinality(DOMAIN ramBanks)
      /\ live = {} /\ pinned = {}
      /\ \A r \in Range(heap.ranges) : r.end <= start
      /\ \A unit \in memory : unit < start
      /\ memory \subseteq ImageEnd .. (WordSize - 1)
      /\ IsFiniteSet(live) /\ Cardinality(live) <= MaxBlocks
  BY DEF IInv, BankInv, AddBank
<1>2. /\ bank' = bank + 1 /\ ramBanks' = ramBanks /\ live' = live /\ pinned' = pinned
      /\ refused' = refused
      /\ IF base < end
           THEN heap' = AddHeapRange(heap, base, end) /\ memory' = memory \cup base .. (end - 1)
           ELSE heap' = heap /\ memory' = memory
  BY DEF AddBank
<1>3. /\ IsFiniteSet(DOMAIN ramBanks)
      /\ DOMAIN ramBanks = 0 .. (Cardinality(DOMAIN ramBanks) - 1)
      /\ ramBanks[bank] \in 0 .. BankInterval /\ start + ramBanks[bank] <= WordSize
  BY <1>1, HeapAssumption
<1>4. /\ bank \in Nat /\ start \in Nat /\ end \in Nat /\ base \in Nat
      /\ (bank + 1) * BankInterval = start + BankInterval
      /\ start <= base /\ ImageEnd <= base
  BY <1>1, <1>3, Sizes
<1>5. Cardinality(DOMAIN ramBanks) \in Nat
  BY <1>3, FS_CardinalityType
<1>6. bank + 1 \in 0 .. Cardinality(DOMAIN ramBanks)
  BY <1>1, <1>3, <1>4, <1>5
<1>7. ListInv(heap, memory)
  BY DEF IInv, HeapInv
<1> HIDE DEF start, base, end
<1>8. \A r \in Range(heap.ranges) : InMemory(r) /\ r.end <= start
  BY <1>1, <1>7 DEF ListInv
<1>9. CASE base < end
  <2>1. \A r \in Range(heap.ranges) : r.end <= base
    BY <1>4, <1>8 DEF InMemory
  <2>2. /\ ListInv(heap', memory')
        /\ \A r \in Range(heap'.ranges) : r.end <= end
    <3>1. end <= WordSize
      BY <1>3 DEF end
    <3>2. /\ ListInv(AddHeapRange(heap, base, end), memory \cup base .. (end - 1))
          /\ \A r \in Range(AddHeapRange(heap, base, end).ranges) : r.end <= end
      BY <1>4, <1>7, <1>9, <2>1, <3>1, AddLists
    <3> QED
      BY <1>2, <1>9, <3>2
  <2>3. end <= start + BankInterval
    BY <1>3, <1>4, Sizes DEF end
  <2>4. \A r \in Range(heap'.ranges) : r.end <= (bank + 1) * BankInterval
    <3> TAKE r \in Range(heap'.ranges)
    <3>1. InMemory(r) /\ r.end <= end
      BY <2>2 DEF ListInv
    <3> QED
      BY <1>4, <2>3, <3>1, Sizes DEF InMemory
  <2>5. \A unit \in memory' :
          unit \in ImageEnd .. (WordSize - 1) /\ unit < (bank + 1) * BankInterval
    <3> TAKE unit \in memory'
    <3>1. end <= WordSize
      BY <1>3 DEF end
    <3>2. CASE unit \in memory
      <4>1. unit \in ImageEnd .. (WordSize - 1) /\ unit < start
        BY <1>1, <3>2
      <4> QED
        BY <1>4, <4>1, Sizes
    <3>3. CASE unit \in base .. (end - 1)
      BY <1>4, <2>3, <3>1, <3>3, Sizes
    <3> QED
      BY <1>2, <1>9, <3>2, <3>3
  <2>6. memory' \subseteq ImageEnd .. (WordSize - 1)
    BY <2>5
  <2>7. BankInv'
    BY <1>1, <1>2, <1>6, <2>4, <2>5, <2>6 DEF BankInv
  <2>8. BlockInv(Range(heap'.ranges), {}, {}, memory')
    BY DEF BlockInv
  <2>9. IInv'
    BY <1>1, <1>2, <2>2, <2>7, <2>8 DEF IInv, HeapInv
  <2>10. AllocStep
    BY <1>2, <1>9 DEF AllocStep, Alloc!Next, Alloc!Give
  <2>11. base \in memory' /\ base \notin memory
    BY <1>1, <1>2, <1>4, <1>9, Sizes
  <2>12. LossStep
    BY <2>11 DEF LossStep
  <2> QED
    BY <2>9, <2>10, <2>12
<1>10. CASE ~(base < end)
  <2>1. heap' = heap /\ memory' = memory
    BY <1>2, <1>10
  <2>2. \A r \in Range(heap.ranges) : r.end <= (bank + 1) * BankInterval
    BY <1>4, <1>8, Sizes DEF InMemory
  <2>3. \A unit \in memory : unit < (bank + 1) * BankInterval
    BY <1>1, <1>4, Sizes
  <2>4. BankInv'
    BY <1>1, <1>2, <1>6, <2>1, <2>2, <2>3 DEF BankInv
  <2>5. HeapInv(heap, live, pinned, memory)'
    BY <1>2, <2>1 DEF IInv
  <2>6. Lost' = Lost
    BY <1>2, <2>1 DEF Lost, Ranges
  <2> QED
    BY <1>2, <2>1, <2>4, <2>5, <2>6 DEF IInv, AllocStep, LossStep
<1> QED
  BY <1>9, <1>10

\* A block apart from others is in a place the allocator allows.
LEMMA Placeable ==
    ASSUME NEW b, IsBlock(b), Units(b) \subseteq memory, NEW align, b.ptr % align = 0,
           NEW O, \A c \in O : IsBlock(c) /\ Apart(b, c)
    PROVE  b.ptr \in memory /\ Alloc!Place(b.ptr, b.size, align, O)
<1>1. b.ptr \in Units(b)
  BY DEF IsBlock, Units
<1>2. \A c \in O : Units(b) \cap Units(c) = {}
  BY DEF IsBlock, Units, Apart
<1>3. Alloc!Taken(O) = UNION {Units(c) : c \in O}
  BY DEF Alloc!Taken, Alloc!Units, Units
<1>4. b.ptr .. (b.ptr + b.size - 1) \subseteq memory \ Alloc!Taken(O)
  BY <1>2, <1>3 DEF Units
<1> QED
  BY <1>1, <1>4 DEF Alloc!Place

Pins(B) == UNION {Units(b) : b \in B}

LEMMA LossIs ==
    /\ Lost = memory \ (Covered(Range(heap.ranges)) \cup Pins(pinned))
    /\ Lost' = memory' \ (Covered(Range(heap'.ranges)) \cup Pins(pinned'))
BY DEF Lost, Ranges, Covered, Pins, Units

\* Nothing is lost as long as the ranges cover the same memory.
LEMMA SameLoss ==
    ASSUME memory' = memory, pinned' = pinned,
           Covered(Range(heap'.ranges)) = Covered(Range(heap.ranges))
    PROVE  LossStep
<1>1. Lost' = Lost
  BY DEF Lost, Ranges, Covered
<1> QED
  BY <1>1 DEF LossStep

LEMMA RunningBank ==
    ASSUME IInv, Running, UNCHANGED <<ramBanks, bank, memory>>,
           IsFiniteSet(live'), Cardinality(live') <= MaxBlocks
    PROVE  BankInv'
BY DEF IInv, BankInv, Running

\* BlAllocateHeap.
LEMMA AllocateStep ==
    ASSUME IInv, NEW q \in Requests, Allocate(q)
    PROVE  IInv' /\ AllocStep /\ LossStep
<1> DEFINE b == Block(Carved(heap, q), q.size)
           h2 == Carve(heap, q)
           R == Range(heap.ranges)
           R2 == Range(h2.ranges)
<1>1. /\ Running /\ FitsAt(heap, q) # {} /\ heap' = h2
      /\ q.permanent \/ Cardinality(live) < MaxBlocks
      /\ IF q.permanent THEN pinned' = pinned \cup {b} /\ live' = live
                        ELSE live' = live \cup {b} /\ pinned' = pinned
      /\ UNCHANGED <<ramBanks, bank, memory, refused>>
  BY DEF Allocate
<1>2. IsRequest(q) /\ q.permanent \in BOOLEAN
  BY RequestsAre DEF IsRequest
<1>3. HeapInv(heap, live, pinned, memory)
  BY DEF IInv
<1>4. /\ ~q.permanent => HeapInv(h2, live \cup {b}, pinned, memory)
      /\ q.permanent => HeapInv(h2, live, pinned \cup {b}, memory)
      /\ IsBlock(b) /\ b.size = q.size
      /\ Units(b) \subseteq memory /\ b.ptr % q.align = 0
      /\ \A c \in live \cup pinned : Apart(b, c) /\ Apart(c, b)
      /\ Covered(R2) \subseteq Covered(R) /\ Units(b) \subseteq Covered(R)
      /\ \A u \in Covered(R) \ Covered(R2) :
           /\ q.permanent
           /\ u \in (b.ptr - HdrSize + 1) .. (b.ptr + b.size + HdrSize - 2)
  <2>1. Allocates(heap, h2, live, pinned, memory, q, b)
    BY <1>1, <1>2, <1>3, CarveKeeps
  <2> HIDE DEF b, h2
  <2> QED
    BY <2>1 DEF Allocates
<1>5. b = [ptr |-> b.ptr, size |-> q.size]
  BY DEF Block
<1> HIDE DEF b, h2
<1>6. HeapInv(heap', live', pinned', memory')
  BY <1>1, <1>2, <1>4
<1>7. IsFiniteSet(live') /\ Cardinality(live') <= MaxBlocks
  <2>1. IsFiniteSet(live) /\ Cardinality(live) <= MaxBlocks
    BY DEF IInv, BankInv
  <2>2. CASE q.permanent
    BY <1>1, <2>1, <2>2
  <2>3. CASE ~q.permanent
    <3>1. live' = live \cup {b} /\ Cardinality(live) < MaxBlocks
      BY <1>1, <2>3
    <3>2. IsFiniteSet(live \cup {b}) /\ Cardinality(live \cup {b}) <= Cardinality(live) + 1
      <4>1. /\ IsFiniteSet(live \cup {b})
            /\ Cardinality(live \cup {b})
                 = IF b \in live THEN Cardinality(live) ELSE Cardinality(live) + 1
        BY <2>1, FS_AddElement
      <4>2. Cardinality(live) \in Nat
        BY <2>1, FS_CardinalityType
      <4> QED
        BY <4>1, <4>2
    <3>3. Cardinality(live) \in Nat /\ Cardinality(live \cup {b}) \in Nat
      BY <2>1, <3>2, FS_CardinalityType
    <3> QED
      BY <3>1, <3>2, <3>3, Sizes
  <2> QED
    BY <2>2, <2>3
<1>8. BankInv'
  BY <1>1, <1>7, RunningBank
<1>9. AllocStep
  <2>1. \A c \in live \cup pinned : IsBlock(c)
    BY <1>3, BlocksApart
  <2>2. b.ptr \in memory /\ Alloc!Place(b.ptr, q.size, q.align, live \cup pinned)
    BY <1>4, <2>1, Placeable
  <2>3. Alloc!Allocate(q)
    BY <1>1, <1>5, <2>2 DEF Alloc!Allocate
  <2> QED
    BY <2>3 DEF AllocStep, Alloc!Next
<1>10. LossStep
  <2>1. Lost = memory \ (Covered(R) \cup Pins(pinned))
    BY LossIs
  <2>2. Lost' = memory' \ (Covered(Range(heap'.ranges)) \cup Pins(pinned'))
    BY LossIs
  <2>3. heap' = h2 /\ memory' = memory
    BY <1>1
  <2>4. Lost' = memory \ (Covered(R2) \cup Pins(pinned'))
    BY <2>2, <2>3
  <2>5. Pins(pinned') = Pins(pinned) \cup (IF q.permanent THEN Units(b) ELSE {})
    <3>1. CASE q.permanent
      BY <1>1, <3>1 DEF Pins
    <3>2. CASE ~q.permanent
      BY <1>1, <3>2
    <3> QED
      BY <3>1, <3>2
  <2> HIDE DEF R, R2
  <2>6. Lost \subseteq Lost'
    BY <1>4, <2>1, <2>4, <2>5
  <2>7. ASSUME NEW unit \in Lost' \ Lost
        PROVE  \E c \in pinned' \ pinned :
                 unit \in (c.ptr - HdrSize + 1) .. (c.ptr + c.size + HdrSize - 2)
    <3>1. unit \in Covered(R) \ Covered(R2)
      BY <2>1, <2>4, <2>5
    <3>2. /\ q.permanent
          /\ unit \in (b.ptr - HdrSize + 1) .. (b.ptr + b.size + HdrSize - 2)
      BY <1>4, <3>1
    <3>3. b \notin pinned
      BY <1>4 DEF Apart, IsBlock
    <3>4. b \in pinned' \ pinned
      BY <1>1, <3>2, <3>3
    <3> QED
      BY <3>2, <3>4
  <2> QED
    BY <2>6, <2>7 DEF LossStep
<1> QED
  BY <1>6, <1>8, <1>9, <1>10 DEF IInv

\* BlFreeHeap.
LEMMA FreeStep ==
    ASSUME IInv, NEW b \in live, Free(b)
    PROVE  IInv' /\ AllocStep /\ LossStep
<1>1. /\ Running /\ heap' = Release(heap, b.ptr) /\ live' = live \ {b}
      /\ UNCHANGED <<ramBanks, bank, memory, pinned, refused>>
  BY DEF Free
<1>2. /\ HeapInv(heap', live', pinned', memory')
      /\ Covered(Range(heap'.ranges)) = Covered(Range(heap.ranges))
  BY <1>1, ReleaseKeeps DEF IInv
<1>3. IsFiniteSet(live') /\ Cardinality(live') <= MaxBlocks
  <2>1. IsFiniteSet(live) /\ Cardinality(live) <= MaxBlocks
    BY DEF IInv, BankInv
  <2>2. /\ IsFiniteSet(live \ {b}) /\ Cardinality(live \ {b}) = Cardinality(live) - 1
        /\ Cardinality(live) \in Nat
    BY <2>1, FS_RemoveElement, FS_CardinalityType
  <2> QED
    BY <1>1, <2>1, <2>2, Sizes
<1>4. BankInv'
  BY <1>1, <1>3, RunningBank
<1>5. AllocStep
  <2>1. Alloc!Free(b)
    BY <1>1 DEF Alloc!Free
  <2> QED
    BY <2>1 DEF AllocStep, Alloc!Next
<1>6. LossStep
  BY <1>1, <1>2, SameLoss
<1> QED
  BY <1>2, <1>4, <1>5, <1>6 DEF IInv

\* One block in the place of another.
LEMMA AsManyBlocks ==
    ASSUME IInv, NEW b \in live, NEW c
    PROVE  /\ IsFiniteSet((live \ {b}) \cup {c})
           /\ Cardinality((live \ {b}) \cup {c}) <= MaxBlocks
<1>1. IsFiniteSet(live) /\ Cardinality(live) <= MaxBlocks
  BY DEF IInv, BankInv
<1>2. /\ IsFiniteSet(live \ {b}) /\ Cardinality(live \ {b}) = Cardinality(live) - 1
      /\ Cardinality(live) \in Nat
  BY <1>1, FS_RemoveElement, FS_CardinalityType
<1> DEFINE rest == live \ {b}
<1> HIDE DEF rest
<1>3. /\ IsFiniteSet(rest) /\ Cardinality(rest) = Cardinality(live) - 1
      /\ Cardinality(rest) \in Nat
  BY <1>2, FS_CardinalityType DEF rest
<1>4. /\ IsFiniteSet(rest \cup {c})
      /\ Cardinality(rest \cup {c})
           = IF c \in rest THEN Cardinality(rest) ELSE Cardinality(rest) + 1
  BY <1>3, FS_AddElement
<1> QED
  BY <1>1, <1>2, <1>3, <1>4, Sizes DEF rest

\* A grown block at a place of its own is what the allocator calls resizing.
LEMMA ResizedAlloc ==
    ASSUME NEW b \in live, NEW growth \in Growths, NEW c, IsBlock(c),
           c = Block(c.ptr, b.size + growth), Units(c) \subseteq memory,
           \A d \in (live \ {b}) \cup pinned : IsBlock(d) /\ Apart(c, d),
           live' = (live \ {b}) \cup {c}, memory' = memory, pinned' = pinned
    PROVE  AllocStep
<1>1. c.ptr % 1 = 0 /\ c.size = b.size + growth
  <2>1. Block(c.ptr, b.size + growth).size = b.size + growth
    BY DEF Block
  <2> QED
    BY <2>1 DEF IsBlock
<1>2. c.ptr \in memory /\ Alloc!Place(c.ptr, c.size, 1, (live \ {b}) \cup pinned)
  BY <1>1, Placeable
<1>3. c = [ptr |-> c.ptr, size |-> b.size + growth]
  BY DEF Block
<1>4. Alloc!Resize(b, growth)
  BY <1>1, <1>2, <1>3 DEF Alloc!Resize
<1> QED
  BY <1>4 DEF AllocStep, Alloc!Next

\* BlResizeHeap of a block that can keep its place.
LEMMA ResizeInPlaceStep ==
    ASSUME IInv, NEW b \in live, NEW growth \in Growths, ResizeInPlace(b, b.size + growth)
    PROVE  IInv' /\ AllocStep /\ LossStep
<1> DEFINE c == Block(b.ptr, b.size + growth)
<1>1. /\ Running
      /\ OldSize(heap, b.ptr) >= b.size + growth \/ CanExtend(heap, b.ptr)
      /\ heap' = IF OldSize(heap, b.ptr) >= b.size + growth
                   THEN Shrink(heap, b.ptr, b.size + growth)
                   ELSE Extend(heap, b.ptr, b.size + growth)
      /\ live' = (live \ {b}) \cup {c}
      /\ UNCHANGED <<ramBanks, bank, memory, pinned, refused>>
  BY DEF ResizeInPlace, Resized
<1>2. growth \in 1 .. HdrSize /\ HeapInv(heap, live, pinned, memory)
  BY HeapAssumption DEF IInv
<1>3. /\ HeapInv(heap', (live \ {b}) \cup {c}, pinned, memory)
      /\ Covered(Range(heap'.ranges)) = Covered(Range(heap.ranges)) /\ IsBlock(c)
  BY <1>1, <1>2, ResizeKeeps
<1>4. c = Block(c.ptr, b.size + growth) /\ c.ptr = b.ptr
  BY DEF Block
<1> HIDE DEF c
<1>5. IsFiniteSet(live') /\ Cardinality(live') <= MaxBlocks
  BY <1>1, AsManyBlocks
<1>6. BankInv'
  BY <1>1, <1>5, RunningBank
<1>7. /\ \A d \in live \cup pinned : IsBlock(d)
      /\ \A d \in live : d.ptr = b.ptr => d = b
  <2>1. \A d \in live \cup pinned : IsBlock(d)
    BY <1>2, BlocksApart
  <2>2. \A d \in live : d.ptr = b.ptr => d = b
    BY <1>2 DEF HeapInv, BlockInv
  <2> QED
    BY <2>1, <2>2
<1> DEFINE L2 == (live \ {b}) \cup {c}
<1>8. c \in L2 /\ live \ {b} \subseteq L2
  OBVIOUS
<1> HIDE DEF L2
<1>9. /\ Units(c) \subseteq memory
      /\ \A d \in L2 : c = d \/ Apart(c, d)
      /\ \A d \in pinned : Apart(c, d)
  <2>1. HeapInv(heap', L2, pinned, memory)
    BY <1>3 DEF L2
  <2>2. /\ \A e \in L2 \cup pinned : Units(e) \subseteq memory
        /\ \A e, d \in L2 \cup pinned : e = d \/ Apart(e, d)
        /\ \A e \in L2, d \in pinned : Apart(e, d)
    BY <2>1, BlocksApart
  <2> QED
    BY <1>8, <2>2
<1>10. \A d \in (live \ {b}) \cup pinned : IsBlock(d) /\ Apart(c, d)
  <2> TAKE d \in (live \ {b}) \cup pinned
  <2>1. CASE d \in live \ {b}
    <3>1. d # c
      BY <1>4, <1>7, <2>1
    <3> QED
      BY <1>7, <1>8, <1>9, <2>1, <3>1
  <2>2. CASE d \in pinned
    BY <1>7, <1>9, <2>2
  <2> QED
    BY <2>1, <2>2
<1>11. AllocStep
  BY <1>1, <1>3, <1>4, <1>9, <1>10, ResizedAlloc
<1>12. LossStep
  BY <1>1, <1>3, SameLoss
<1> QED
  BY <1>1, <1>3, <1>6, <1>11, <1>12 DEF IInv

\* A request that cannot be met changes nothing but stops the machine.
LEMMA NothingStep ==
    ASSUME IInv, UNCHANGED <<ramBanks, bank, heap, memory, live, pinned>>
    PROVE  IInv' /\ AllocStep /\ LossStep
<1>1. BankInv'
  BY DEF IInv, BankInv
<1>2. HeapInv(heap', live', pinned', memory')
  BY DEF IInv
<1>3. LossStep
  BY SameLoss
<1> QED
  BY <1>1, <1>2, <1>3 DEF IInv, AllocStep

\* BlResizeHeap of a block that moves.
LEMMA ResizeByMovingStep ==
    ASSUME IInv, NEW b \in live, NEW growth \in Growths, ResizeByMoving(b, b.size + growth)
    PROVE  IInv' /\ AllocStep /\ LossStep
<1> DEFINE q == [size |-> b.size + growth, align |-> 1, permanent |-> FALSE]
           c == Block(Carved(heap, q), b.size + growth)
           h1 == Carve(heap, q)
           h2 == Release(h1, b.ptr)
<1>1. growth \in 1 .. HdrSize /\ HeapInv(heap, live, pinned, memory)
  BY HeapAssumption DEF IInv
<1>2. IsRequest(q)
  BY <1>1, GrownIsRequest
<1>3. q.size = b.size + growth /\ q.align = 1 /\ ~q.permanent
  OBVIOUS
<1>4. CASE FitsAt(heap, q) = {}
  <2>1. OutOfMemory(q)
    BY <1>4 DEF ResizeByMoving
  <2> QED
    BY <2>1, NothingStep DEF OutOfMemory
<1>5. CASE FitsAt(heap, q) # {}
  <2>1. /\ Running /\ heap' = h2 /\ live' = (live \ {b}) \cup {c}
        /\ UNCHANGED <<ramBanks, bank, memory, pinned, refused>>
    <3>1. Running /\ Resized(b, Carved(heap, q), b.size + growth, h2)
      BY <1>5 DEF ResizeByMoving
    <3> QED
      BY <3>1 DEF Resized
  <2>2. Allocates(heap, h1, live, pinned, memory, q, c)
    <3> HIDE DEF q
    <3> QED
      BY <1>1, <1>2, <1>3, <1>5, CarveKeeps
  <2> HIDE DEF q, h1, c
  <2>3. /\ HeapInv(h1, live \cup {c}, pinned, memory)
        /\ IsBlock(c) /\ Units(c) \subseteq memory
        /\ \A d \in live \cup pinned : Apart(c, d)
        /\ Covered(Range(h1.ranges)) = Covered(Range(heap.ranges))
    BY <1>3, <2>2 DEF Allocates
  <2>4. /\ HeapInv(h2, (live \cup {c}) \ {b}, pinned, memory)
        /\ Covered(Range(h2.ranges)) = Covered(Range(h1.ranges))
    BY <2>3, ReleaseKeeps
  <2>5. \A d \in live \cup pinned : IsBlock(d)
    BY <1>1, BlocksApart
  <2>6. c # b
    BY <2>3, <2>5 DEF Apart, IsBlock
  <2>7. (live \cup {c}) \ {b} = (live \ {b}) \cup {c}
    BY <2>6
  <2> HIDE DEF h2
  <2>8. HeapInv(heap', live', pinned', memory')
    BY <2>1, <2>4, <2>7
  <2>9. IsFiniteSet(live') /\ Cardinality(live') <= MaxBlocks
    BY <2>1, AsManyBlocks
  <2>10. BankInv'
    BY <2>1, <2>9, RunningBank
  <2>11. c = Block(c.ptr, b.size + growth)
    BY DEF c, Block
  <2>12. AllocStep
    BY <2>1, <2>3, <2>5, <2>11, ResizedAlloc
  <2>13. LossStep
    BY <2>1, <2>3, <2>4, SameLoss
  <2> QED
    BY <2>8, <2>10, <2>12, <2>13 DEF IInv
<1> QED
  BY <1>4, <1>5

-----------------------------------------------------------------------------
(* Theorems. *)

LEMMA StepKeeps ==
    ASSUME IInv, [Next]_vars
    PROVE  IInv' /\ AllocStep /\ LossStep
<1>1. CASE AddBank
  BY <1>1, AddBankStep
<1>2. ASSUME NEW q \in Requests, Allocate(q)
      PROVE  IInv' /\ AllocStep /\ LossStep
  BY <1>2, AllocateStep
<1>3. ASSUME NEW q \in Requests, OutOfMemory(q)
      PROVE  IInv' /\ AllocStep /\ LossStep
  BY <1>3, NothingStep DEF OutOfMemory
<1>4. ASSUME NEW b \in live, Free(b)
      PROVE  IInv' /\ AllocStep /\ LossStep
  BY <1>4, FreeStep
<1>5. ASSUME NEW b \in live, NEW growth \in Growths, ResizeInPlace(b, b.size + growth)
      PROVE  IInv' /\ AllocStep /\ LossStep
  BY <1>5, ResizeInPlaceStep
<1>6. ASSUME NEW b \in live, NEW growth \in Growths, ResizeByMoving(b, b.size + growth)
      PROVE  IInv' /\ AllocStep /\ LossStep
  BY <1>6, ResizeByMovingStep
<1>7. CASE Crashed \/ UNCHANGED vars
  BY <1>7, NothingStep DEF Crashed, vars
<1> QED
  BY <1>1, <1>2, <1>3, <1>4, <1>5, <1>6, <1>7 DEF Next

\* The invariant of the heap's lists and blocks holds whatever BlAllocateHeap,
\* BlFreeHeap and BlResizeHeap are asked for, in whatever order.
THEOREM Invariance == Spec => []IInv
<1>1. Init => IInv
  BY Initially
<1>2. IInv /\ [Next]_vars => IInv'
  BY StepKeeps
<1> QED
  BY <1>1, <1>2, PTL DEF Spec

LEMMA InvImpliesTypeOK == IInv => TypeOK
<1> SUFFICES ASSUME IInv PROVE TypeOK
  OBVIOUS
<1>1. ListInv(heap, memory) /\ HeapInv(heap, live, pinned, memory) /\ BankInv
  BY DEF IInv, HeapInv
<1>2. ASSUME NEW r \in Ranges
      PROVE  r.free \in BOOLEAN /\ Interval(r) \subseteq memory /\ r.base \in memory
  <2>1. InMemory(r) /\ Interval(r) \subseteq memory
    BY <1>1 DEF ListInv, Ranges
  <2>2. r.base \in Interval(r)
    BY <2>1, Sizes DEF InMemory, Interval
  <2> QED
    BY <2>1, <2>2 DEF InMemory
<1>3. Range(heap.free) \subseteq memory
  <2>1. Range(heap.free) = FreeBases(Ranges)
    BY <1>1 DEF ListInv, Ranges
  <2> QED
    BY <1>2, <2>1 DEF FreeBases
<1>4. ASSUME NEW b \in live \cup pinned
      PROVE  b.ptr \in memory /\ b.size \in 1 .. WordSize
  <2>1. IsBlock(b) /\ Units(b) \subseteq memory
    BY <1>1, BlocksApart
  <2>2. memory \subseteq ImageEnd .. (WordSize - 1)
    BY <1>1 DEF BankInv
  <2>3. b.ptr \in Units(b) /\ b.ptr + b.size - 1 \in Units(b)
    BY <2>1 DEF IsBlock, Units
  <2>4. b.ptr + b.size - 1 \in ImageEnd .. (WordSize - 1)
    BY <2>1, <2>2, <2>3
  <2> QED
    BY <2>1, <2>3, <2>4, Sizes DEF IsBlock
<1> QED
  BY <1>1, <1>2, <1>3, <1>4 DEF TypeOK, BankInv

LEMMA InvImpliesListsAgree == IInv => ListsAgree
<1> SUFFICES ASSUME IInv PROVE ListsAgree
  OBVIOUS
<1>1. ListInv(heap, memory)
  BY DEF IInv, HeapInv
<1>2. \A r \in Ranges : r.end - r.base >= HdrSize
  <2> TAKE r \in Ranges
  <2>1. InMemory(r)
    BY <1>1 DEF ListInv, Ranges
  <2> QED
    BY <2>1, Sizes DEF InMemory
<1>3. ASSUME NEW i \in 1 .. (Len(heap.ranges) - 1)
      PROVE  /\ heap.ranges[i].end <= heap.ranges[i + 1].base
             /\ heap.ranges[i].free /\ heap.ranges[i + 1].free =>
                  heap.ranges[i].end < heap.ranges[i + 1].base
  <2>1. i \in DOMAIN heap.ranges /\ i + 1 \in DOMAIN heap.ranges /\ i < i + 1
    BY <1>1, Different
  <2>2. Before(heap.ranges[i], heap.ranges[i + 1])
    BY <1>1, <2>1 DEF ListInv, InOrder
  <2> QED
    BY <2>2 DEF Before
<1>4. Range(heap.free) = {r.base : r \in {s \in Ranges : s.free}} /\ IsInjective(heap.free)
  BY <1>1 DEF ListInv, FreeBases, Ranges
<1> QED
  BY <1>2, <1>3, <1>4, InvImpliesTypeOK DEF ListsAgree

LEMMA InvImpliesBlocksIntact == IInv => BlocksIntact
<1> SUFFICES ASSUME IInv, NEW b \in live \cup pinned
             PROVE  /\ Units(b) \cap FreeUnits = {}
                    /\ \A r \in Ranges : Units(b) \cap Header(r) = {}
                    /\ \A c \in (live \cup pinned) \ {b} : Units(b) \cap Units(c) = {}
                    /\ b \in live => \E r \in Ranges :
                         ~r.free /\ r.base + HdrSize = b.ptr /\ b.ptr + b.size <= r.end
  BY DEF BlocksIntact, Units
<1>1. HeapInv(heap, live, pinned, memory)
  BY DEF IInv
<1>2. \A r \in Ranges : InMemory(r)
  BY <1>1 DEF HeapInv, ListInv, Ranges
<1>3. /\ \A c \in live \cup pinned : IsBlock(c)
      /\ \A c \in live, r \in Ranges : Holds(r, c) \/ ApartFrom(c, r)
      /\ \A c, d \in live \cup pinned : c = d \/ Apart(c, d)
  BY <1>1, BlocksApart DEF Ranges
<1>4. \A c \in pinned, r \in Ranges : ApartFrom(c, r)
  BY <1>1 DEF HeapInv, BlockInv, Ranges
<1>5. ASSUME NEW r \in Ranges
      PROVE  Holds(r, b) \/ ApartFrom(b, r)
  BY <1>3, <1>4
<1>6. Units(b) \cap FreeUnits = {}
  <2> SUFFICES ASSUME NEW r \in Ranges, r.free
               PROVE  Units(b) \cap Interval(r) = {}
    BY DEF FreeUnits
  <2>1. ApartFrom(b, r)
    BY <1>5 DEF Holds
  <2> QED
    BY <1>2, <1>3, <2>1 DEF ApartFrom, Units, Interval, InMemory, IsBlock
<1>7. ASSUME NEW r \in Ranges
      PROVE  Units(b) \cap Header(r) = {}
  <2>1. InMemory(r) /\ IsBlock(b)
    BY <1>2, <1>3
  <2>2. CASE Holds(r, b)
    BY <2>1, <2>2, Sizes DEF Holds, Units, Header, InMemory, IsBlock
  <2>3. CASE ApartFrom(b, r)
    BY <2>1, <2>3, Sizes DEF ApartFrom, Units, Header, InMemory, IsBlock
  <2> QED
    BY <1>5, <2>2, <2>3
<1>8. ASSUME NEW c \in (live \cup pinned) \ {b}
      PROVE  Units(b) \cap Units(c) = {}
  <2>1. IsBlock(b) /\ IsBlock(c) /\ Apart(b, c)
    BY <1>3
  <2> QED
    BY <2>1 DEF Apart, Units, IsBlock
<1>9. b \in live => \E r \in Ranges : Holds(r, b)
  BY <1>1 DEF HeapInv, BlockInv, Ranges
<1> QED
  BY <1>6, <1>7, <1>8, <1>9 DEF Holds

\* BlHeapRanges and BlFreeRanges always agree: no order of calls leaves a range
\* in one and not in the other, two that overlap, or two free ones that touch.
THEOREM ListsAlwaysAgree == Spec => []ListsAgree
<1>1. IInv => ListsAgree
  BY InvImpliesListsAgree
<1> QED
  BY <1>1, Invariance, PTL

\* No block ever shares a unit with another, with free memory or with a header.
THEOREM BlocksStayIntact == Spec => []BlocksIntact
<1>1. IInv => BlocksIntact
  BY InvImpliesBlocksIntact
<1> QED
  BY <1>1, Invariance, PTL

\* Temporary blocks cost no memory; a permanent one less than two headers around it.
THEOREM LossIsBounded == Spec => LossBounded
<1>1. IInv /\ [Next]_vars => LossStep
  BY StepKeeps
<1>2. IInv /\ [Next]_vars =>
        [memory' = memory =>
           /\ Lost \subseteq Lost'
           /\ \A unit \in Lost' \ Lost : \E b \in pinned' \ pinned :
                unit \in (b.ptr - HdrSize + 1) .. (b.ptr + b.size + HdrSize - 2)]_vars
  BY <1>1 DEF LossStep
<1> QED
  BY <1>2, Invariance, PTL DEF Spec, LossBounded

\* The two lists of memory.c do what the callers of an allocator are promised.
THEOREM Implementation == Spec => ImplementsAllocator
<1>1. Init => Alloc!Init
  BY Initially
<1>2. IInv /\ [Next]_vars => [Alloc!Next]_<<memory, live, pinned>>
  BY StepKeeps DEF AllocStep
<1> QED
  BY <1>1, <1>2, Invariance, PTL DEF Spec, ImplementsAllocator, Alloc!Spec

-----------------------------------------------------------------------------
(* "out of memory". *)

\* The machine stops for a request that fits nowhere, when all banks are added.
RefusedInv ==
    refused # NoRequest =>
      /\ bank \notin DOMAIN ramBanks
      /\ IsRequest(refused) /\ FitsAt(heap, refused) = {}

LEMMA RefusedStep ==
    ASSUME IInv, RefusedInv, [Next]_vars
    PROVE  RefusedInv'
<1>1. ASSUME NEW q, IsRequest(q), OutOfMemory(q)
      PROVE  RefusedInv'
  <2>1. /\ bank \notin DOMAIN ramBanks /\ FitsAt(heap, q) = {} /\ refused' = q
        /\ ramBanks' = ramBanks /\ bank' = bank /\ heap' = heap
    BY <1>1 DEF OutOfMemory, Running
  <2>2. FitsAt(heap', refused') = FitsAt(heap, q)
    BY <2>1
  <2> QED
    BY <1>1, <2>1, <2>2 DEF RefusedInv
<1>2. ASSUME Running, refused' = refused
      PROVE  RefusedInv'
  BY <1>2 DEF Running, RefusedInv
<1>3. CASE AddBank
  <2>1. refused = NoRequest /\ refused' = refused
    BY <1>3 DEF AddBank, RefusedInv
  <2> QED
    BY <2>1 DEF RefusedInv
<1>4. ASSUME NEW q \in Requests, Allocate(q) \/ OutOfMemory(q)
      PROVE  RefusedInv'
  <2>1. CASE Allocate(q)
    BY <1>2, <2>1 DEF Allocate
  <2>2. CASE OutOfMemory(q)
    BY <1>1, <2>2, RequestsAre
  <2> QED
    BY <1>4, <2>1, <2>2
<1>5. ASSUME NEW b \in live, Free(b)
      PROVE  RefusedInv'
  BY <1>2, <1>5 DEF Free
<1>6. ASSUME NEW b \in live, NEW growth \in Growths, ResizeInPlace(b, b.size + growth)
      PROVE  RefusedInv'
  BY <1>2, <1>6 DEF ResizeInPlace, Resized
<1>7. ASSUME NEW b \in live, NEW growth \in Growths, ResizeByMoving(b, b.size + growth)
      PROVE  RefusedInv'
  <2> DEFINE q == [size |-> b.size + growth, align |-> 1, permanent |-> FALSE]
  <2>1. IsRequest(q)
    BY HeapAssumption, GrownIsRequest DEF IInv
  <2>2. Running /\ (OutOfMemory(q) \/ refused' = refused)
    BY <1>7 DEF ResizeByMoving, Resized
  <2> HIDE DEF q
  <2> QED
    BY <1>1, <1>2, <2>1, <2>2
<1>8. CASE Crashed \/ UNCHANGED vars
  BY <1>8 DEF Crashed, vars, RefusedInv
<1> QED
  BY <1>3, <1>4, <1>5, <1>6, <1>7, <1>8 DEF Next

\* A range with room for the block, its header and its alignment fits.
LEMMA RoomFits ==
    ASSUME NEW r, InMemory(r), NEW q, IsRequest(q),
           r.base + HeadExtra(q) + q.size + q.align - 1 < r.end
    PROVE  Fits(r, q)
<1> DEFINE x == HeadExtra(q)
           a == AlignUp(r.base + x, q.align)
           v == ValueBase(r.base, q)
<1>1. /\ r.base \in Nat /\ r.end \in Nat /\ r.end <= WordSize
      /\ q.size \in Nat \ {0} /\ q.align \in Nat \ {0} /\ x \in Nat
  BY Sizes DEF InMemory, IsRequest, HeadExtra
<1>2. a \in Nat /\ a >= r.base + x /\ a <= r.base + x + q.align - 1
  <2>1. r.base + x \in Nat
    BY <1>1
  <2> QED
    BY <1>1, <2>1, AlignUpProperties
<1>3. /\ v = a % WordSize /\ AllocBase(r.base, q) = (v - x) % WordSize
      /\ AllocEnd(r.base, q) = (v + q.size) % WordSize
  BY DEF ValueBase, AllocBase, AllocEnd
<1>4. r.base + x + q.size + q.align - 1 < r.end
  OBVIOUS
<1> HIDE DEF x, a, v
<1>5. a + q.size < r.end /\ a - x \in Nat /\ a - x >= r.base
  BY <1>1, <1>2, <1>4
<1>6. v = a
  <2>1. a \in 0 .. (WordSize - 1)
    BY <1>1, <1>2, <1>5, Sizes
  <2> QED
    BY <1>3, <2>1, NotWrapped
<1>7. AllocBase(r.base, q) = a - x /\ AllocEnd(r.base, q) = a + q.size
  <2>1. a - x \in 0 .. (WordSize - 1) /\ a + q.size \in 0 .. (WordSize - 1)
    BY <1>1, <1>2, <1>5, Sizes
  <2> QED
    BY <1>3, <1>6, <2>1, NotWrapped
<1> QED
  BY <1>1, <1>2, <1>5, <1>7 DEF Fits

LEMMA RefusedFor == IInv /\ RefusedInv => OutOfMemoryOnlyWhenFull
<1> DEFINE q == refused
           n == HeadExtra(q) + q.size + q.align - 1
<1> SUFFICES ASSUME IInv, RefusedInv, refused # NoRequest, NEW base \in FreeUnits,
                    base .. (base + HeadExtra(q) + q.size + q.align - 1) \subseteq FreeUnits
             PROVE  FALSE
  BY DEF OutOfMemoryOnlyWhenFull
<1>1. ListInv(heap, memory) /\ IsRequest(q) /\ FitsAt(heap, q) = {}
  BY DEF IInv, HeapInv, RefusedInv
<1>2. q.size \in Nat \ {0} /\ q.align \in Nat \ {0} /\ HeadExtra(q) \in Nat /\ n \in Nat
  BY <1>1, Sizes DEF IsRequest, HeadExtra
<1>3. PICK r \in Ranges : r.free /\ base \in Interval(r)
  BY DEF FreeUnits
<1>4. /\ InMemory(r) /\ base \in Nat /\ r.base <= base /\ base < r.end
      /\ r.base \in Nat /\ r.end \in Nat
  BY <1>1, <1>3 DEF ListInv, Ranges, Interval, InMemory
<1>5. base .. (base + n) \subseteq FreeUnits
  <2>1. base + n = base + HeadExtra(q) + q.size + q.align - 1
    BY <1>2, <1>4
  <2> QED
    BY <2>1
<1> HIDE DEF n
<1>6. base + n < r.end
  <2> SUFFICES ASSUME ~(base + n < r.end) PROVE FALSE
    OBVIOUS
  <2>1. r.end \in base .. (base + n)
    BY <1>2, <1>4
  <2>2. PICK y \in Ranges : y.free /\ r.end \in Interval(y)
    BY <1>5, <2>1 DEF FreeUnits
  <2>3. InMemory(y) /\ y.base <= r.end /\ r.end < y.end
    BY <1>1, <1>4, <2>2 DEF ListInv, Ranges, Interval, InMemory
  <2>4. y = r \/ Before(y, r) \/ Before(r, y)
    BY <1>1, Different DEF Ranges
  <2> QED
    BY <1>3, <1>4, <2>2, <2>3, <2>4 DEF Before, InMemory
<1>7. Fits(r, q)
  <2>1. r.base + HeadExtra(q) + q.size + q.align - 1 < r.end
    BY <1>2, <1>4, <1>6 DEF n
  <2> QED
    BY <1>1, <1>4, <2>1, RoomFits
<1>8. r.base \in Range(heap.free)
  BY <1>1, <1>3 DEF ListInv, FreeBases, Ranges
<1>9. PICK k \in DOMAIN heap.free : heap.free[k] = r.base
  BY <1>8 DEF Range
<1>10. heap.ranges[IndexOf(heap, r.base)] = r
  BY <1>1, <1>3, Found DEF Ranges
<1>11. k \in FitsAt(heap, q)
  BY <1>7, <1>9, <1>10 DEF FitsAt
<1> QED
  BY <1>1, <1>11

\* BlCrash("out of memory") is called only when no run of free memory is longer
\* than the block with its header and alignment.
THEOREM RefusalIsTrue == Spec => []OutOfMemoryOnlyWhenFull
<1>1. Init => RefusedInv
  BY DEF Init, RefusedInv
<1>2. IInv /\ RefusedInv /\ [Next]_vars => RefusedInv'
  BY RefusedStep
<1>3. IInv /\ RefusedInv => OutOfMemoryOnlyWhenFull
  BY RefusedFor
<1> QED
  BY <1>1, <1>2, <1>3, Invariance, PTL DEF Spec

=============================================================================
