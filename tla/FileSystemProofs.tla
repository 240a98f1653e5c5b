-------------------------- MODULE FileSystemProofs --------------------------
(* Proofs about FileSystem. *)
EXTENDS TLAPS, FileSystem, SequenceTheorems, WellFoundedInduction

-----------------------------------------------------------------------------
(* Numbers, sequences and recursive functions. *)

LEMMA Least ==
    ASSUME NEW T \in SUBSET Nat, T # {}
    PROVE  \E m \in T : \A k \in T : m <= k
<1> DEFINE R == OpToRel(<, Nat)
<1>1. IsWellFoundedOn(R, Nat)
  BY NatLessThanWellFounded, Zenon
<1> HIDE DEF R
<1>2. PICK m \in T : \A k \in T : <<k, m>> \notin R
  BY <1>1, WFMin
<1>3. \A k \in T : m <= k
  <2> TAKE k \in T
  <2>1. k < m => <<k, m>> \in R
    BY DEF R, OpToRel
  <2> QED
    BY <1>2, <2>1
<1> QED
  BY <1>3

LEMMA Induction ==
    ASSUME NEW T \in SUBSET Nat, 0 \in T, \A k \in T : k + 1 \in T
    PROVE  \A n \in Nat : n \in T
<1> DEFINE Others == Nat \ T
<1> SUFFICES ASSUME Others # {} PROVE FALSE
  OBVIOUS
<1>1. PICK m \in Others : \A k \in Others : m <= k
  <2>1. Others \in SUBSET Nat
    OBVIOUS
  <2> HIDE DEF Others
  <2> QED
    BY <2>1, Least
<1>2. m \in Nat /\ m # 0
  OBVIOUS
<1>3. m - 1 \in Nat /\ m - 1 \notin Others /\ (m - 1) + 1 = m
  BY <1>1, <1>2
<1> QED
  BY <1>1, <1>3

\* The first values of a function that is defined by recursion, and all of them.
Initial(p, n, base, step) ==
    p = [k \in 0 .. n |-> IF k = 0 THEN base ELSE step[k][p[k - 1]]]

Follows(f, base, step) ==
    f = [k \in Nat |-> IF k = 0 THEN base ELSE step[k][f[k - 1]]]

Cut(p, n) == [k \in 0 .. n |-> p[k]]

LEMMA InitialCut ==
    ASSUME NEW base, NEW step, NEW n \in Nat, NEW p, Initial(p, n + 1, base, step)
    PROVE  /\ Initial(Cut(p, n), n, base, step)
           /\ p[n + 1] = step[n + 1][p[n]]
<1> DEFINE q == Cut(p, n)
<1>1. \A k \in 0 .. (n + 1) : p[k] = IF k = 0 THEN base ELSE step[k][p[k - 1]]
  BY DEF Initial
<1>3. \A k \in 0 .. n : k \in 0 .. (n + 1) /\ (k # 0 => k - 1 \in 0 .. n)
  OBVIOUS
<1>4. n + 1 \in 0 .. (n + 1) /\ n + 1 # 0 /\ (n + 1) - 1 = n
  OBVIOUS
<1>5. \A k \in 0 .. n : q[k] = IF k = 0 THEN base ELSE step[k][q[k - 1]]
  BY <1>1, <1>3 DEF Cut
<1>6. q = [k \in 0 .. n |-> IF k = 0 THEN base ELSE step[k][q[k - 1]]]
  BY <1>5 DEF Cut
<1> HIDE DEF q
<1> QED
  BY <1>1, <1>4, <1>6 DEF Initial, q

LEMMA InitialIs ==
    ASSUME NEW base, NEW step
    PROVE  \A n \in Nat : /\ \E p : Initial(p, n, base, step)
                          /\ \A p, q : Initial(p, n, base, step) /\ Initial(q, n, base, step)
                                         => p = q
<1> DEFINE I(p, n) == Initial(p, n, base, step)
           T == {n \in Nat : (\E p : I(p, n)) /\ \A p, q : I(p, n) /\ I(q, n) => p = q}
<1>1. 0 \in T
  <2>1. 0 .. 0 = {0}
    OBVIOUS
  <2> DEFINE p0 == [k \in 0 .. 0 |-> base]
  <2>2. p0 = [k \in 0 .. 0 |-> IF k = 0 THEN base ELSE step[k][p0[k - 1]]]
    BY <2>1
  <2>3. I(p0, 0)
    BY <2>2, Zenon DEF Initial
  <2>4. \A p : I(p, 0) => p = p0
    BY <2>1 DEF Initial
  <2> HIDE DEF p0
  <2> QED
    BY <2>3, <2>4
<1>2. \A n \in T : n + 1 \in T
  <2> SUFFICES ASSUME NEW n \in T PROVE n + 1 \in T
    OBVIOUS
  <2>1. n \in Nat /\ n + 1 \in Nat /\ (\E p : I(p, n)) /\ \A p, q : I(p, n) /\ I(q, n) => p = q
    OBVIOUS
  <2>2. PICK p : I(p, n)
    BY <2>1
  <2> DEFINE r == [k \in 0 .. (n + 1) |-> IF k = n + 1 THEN step[k][p[n]] ELSE p[k]]
  <2>3. I(r, n + 1)
    <3>1. \A k \in 0 .. n : p[k] = IF k = 0 THEN base ELSE step[k][p[k - 1]]
      BY <2>2 DEF Initial
    <3>2. \A k \in 0 .. (n + 1) : r[k] = IF k = 0 THEN base ELSE step[k][r[k - 1]]
      <4> TAKE k \in 0 .. (n + 1)
      <4>1. CASE k = n + 1
        <5>1. r[k] = step[k][p[n]] /\ k - 1 = n /\ n \in 0 .. (n + 1) /\ n # n + 1 /\ k # 0
          BY <2>1, <4>1
        <5>2. r[k - 1] = p[n]
          BY <5>1
        <5> QED
          BY <5>1, <5>2
      <4>2. CASE k # n + 1
        <5>1. /\ k \in 0 .. n /\ r[k] = p[k]
              /\ k # 0 => k - 1 \in 0 .. (n + 1) /\ k - 1 # n + 1
          BY <2>1, <4>2
        <5>2. k # 0 => r[k - 1] = p[k - 1]
          BY <5>1
        <5> QED
          BY <3>1, <5>1, <5>2
      <4> QED
        BY <4>1, <4>2
    <3>3. r = [k \in 0 .. (n + 1) |-> IF k = 0 THEN base ELSE step[k][r[k - 1]]]
      BY <3>2
    <3> QED
      BY <3>3, Zenon DEF Initial
  <2>4. ASSUME NEW a, NEW b, I(a, n + 1), I(b, n + 1) PROVE a = b
    <3> DEFINE a0 == Cut(a, n)
               b0 == Cut(b, n)
    <3>0. n \in Nat /\ Initial(a, n + 1, base, step) /\ Initial(b, n + 1, base, step)
      BY <2>1, <2>4
    <3>1. /\ I(a0, n) /\ a[n + 1] = step[n + 1][a[n]]
      BY <3>0, InitialCut
    <3>2. /\ I(b0, n) /\ b[n + 1] = step[n + 1][b[n]]
      BY <3>0, InitialCut
    <3>3. a0 = b0
      BY <2>1, <3>1, <3>2
    <3>4. \A k \in 0 .. n : a[k] = b[k]
      BY <3>3 DEF Cut
    <3>5. a[n + 1] = b[n + 1]
      <4>1. n \in 0 .. n
        BY <2>1
      <4> QED
        BY <3>1, <3>2, <3>4, <4>1
    <3>6. \A k \in 0 .. (n + 1) : k = n + 1 \/ k \in 0 .. n
      BY <2>1
    <3>7. [k \in 0 .. (n + 1) |-> a[k]] = [k \in 0 .. (n + 1) |-> b[k]]
      BY <3>4, <3>5, <3>6
    <3>8. a = [k \in 0 .. (n + 1) |-> a[k]] /\ b = [k \in 0 .. (n + 1) |-> b[k]]
      BY <3>0 DEF Initial
    <3> QED
      BY <3>7, <3>8, Zenon
  <2> HIDE DEF I, r
  <2> QED
    BY <2>1, <2>3, <2>4
<1>3. T \in SUBSET Nat
  OBVIOUS
<1>4. \A n \in Nat : n \in T
  <2> HIDE DEF T
  <2> QED
    BY <1>1, <1>2, <1>3, Induction
<1> QED
  BY <1>4

LEMMA Recursion ==
    ASSUME NEW base, NEW step
    PROVE  \E f : Follows(f, base, step)
<1> DEFINE I(p, n) == Initial(p, n, base, step)
           P(n) == CHOOSE p : I(p, n)
           f == [n \in Nat |-> P(n)[n]]
<1>1. \A n \in Nat : I(P(n), n)
  BY InitialIs
<1>2. \A n \in Nat : \A p, q : I(p, n) /\ I(q, n) => p = q
  BY InitialIs
<1> HIDE DEF P
<1>3. f[0] = base
  BY <1>1 DEF Initial
<1>4. ASSUME NEW n \in Nat PROVE f[n + 1] = step[n + 1][f[n]]
  <2> DEFINE p == P(n + 1)
             q == Cut(p, n)
  <2>1. I(p, n + 1)
    BY <1>1
  <2>2. I(q, n) /\ p[n + 1] = step[n + 1][p[n]]
    BY <2>1, InitialCut
  <2>3. q = P(n)
    BY <1>1, <1>2, <2>2
  <2>4. q[n] = p[n]
    BY DEF Cut
  <2> QED
    BY <2>2, <2>3, <2>4
<1>5. \A n \in Nat : f[n] = IF n = 0 THEN base ELSE step[n][f[n - 1]]
  <2> TAKE n \in Nat
  <2>1. CASE n = 0
    BY <1>3, <2>1
  <2>2. CASE n # 0
    <3>1. n - 1 \in Nat /\ (n - 1) + 1 = n
      BY <2>2
    <3> HIDE DEF f
    <3> QED
      BY <1>4, <2>2, <3>1
  <2> QED
    BY <2>1, <2>2
<1>6. f = [n \in Nat |-> IF n = 0 THEN base ELSE step[n][f[n - 1]]]
  BY <1>5
<1> HIDE DEF f
<1> QED
  BY <1>6 DEF Follows

LEMMA FollowsSteps ==
    ASSUME NEW base, NEW step, NEW f, Follows(f, base, step)
    PROVE  f[0] = base /\ \A n \in Nat : f[n + 1] = step[n + 1][f[n]]
<1>1. \A n \in Nat : f[n] = IF n = 0 THEN base ELSE step[n][f[n - 1]]
  BY DEF Follows
<1>2. \A n \in Nat : n + 1 \in Nat /\ n + 1 # 0 /\ (n + 1) - 1 = n
  OBVIOUS
<1> QED
  BY <1>1, <1>2

LEMMA Typed ==
    ASSUME NEW S, NEW base \in S, NEW step \in [Nat -> [S -> S]], NEW f,
           Follows(f, base, step)
    PROVE  f \in [Nat -> S]
<1> DEFINE T == {n \in Nat : f[n] \in S}
<1>1. 0 \in T
  BY FollowsSteps
<1>2. \A n \in T : n + 1 \in T
  BY FollowsSteps
<1>3. T \in SUBSET Nat
  OBVIOUS
<1>4. \A n \in Nat : n \in T
  <2> HIDE DEF T
  <2> QED
    BY <1>1, <1>2, <1>3, Induction
<1>5. DOMAIN f = Nat /\ f = [n \in Nat |-> f[n]]
  BY DEF Follows
<1> QED
  BY <1>4, <1>5

\* A sequence of values each of which comes from the one before.
Runs(f, S, base, step) ==
    f \in [Nat -> S] /\ f[0] = base /\ \A n \in Nat : f[n + 1] = step[n + 1][f[n]]

LEMMA TypedRecursion ==
    ASSUME NEW S, NEW base \in S, NEW step \in [Nat -> [S -> S]]
    PROVE  \E f : Runs(f, S, base, step)
<1>1. PICK f : Follows(f, base, step)
  BY Recursion
<1>2. f \in [Nat -> S]
  BY <1>1, Typed
<1>3. f[0] = base /\ \A n \in Nat : f[n + 1] = step[n + 1][f[n]]
  BY <1>1, FollowsSteps
<1> QED
  BY <1>2, <1>3 DEF Runs

-----------------------------------------------------------------------------
(* Inodes and directories, as they are read and as they were written. *)

\* The loop over a directory's bytes meets its entries in order.
LEMMA EntriesAre ==
    ASSUME NEW inode, EntriesInOrder(inode),
           \A k \in DOMAIN inode.entries :
             \/ DirTypes \in RequiredFeatures(partition.superblock)
             \/ inode.entries[k].type = 0
    PROVE  Entries(inode) = inode.entries
<1> DEFINE e == inode.entries
           L == Len(e)
           O == CHOOSE f : f = [k \in 0 .. L |-> IF k = 0 THEN 0 ELSE f[k - 1] + e[k].size]
           behind == [at \in Nat |-> at + inode.data[at].size]
           G == CHOOSE f : f = [turn \in Nat |-> IF turn = 0 THEN 0 ELSE behind[f[turn - 1]]]
           Ends(turn) == inode.size - G[turn] < EntryHeader
           Stops(n) == Ends(n) /\ \A turn \in 0 .. (n - 1) : ~Ends(turn)
           turns == CHOOSE n \in 0 .. inode.size : Stops(n)
<1>1. /\ e \in Seq([name : Tokens, inode : Nat, size : Nat, type : Nat])
      /\ inode.size = O[L]
      /\ \A k \in 1 .. L : e[k].size >= EntryHeader /\ inode.data[O[k - 1]] = e[k]
  BY Zenon DEF EntriesInOrder
<1>2. Entries(inode) = [turn \in 1 .. turns |-> Considered(inode.data[G[turn - 1]])]
  BY Zenon DEF Entries
<1>3. EntryHeader \in Nat \ {0}
  BY FileSystemAssumption
<1> HIDE DEF e, L
<1>4. L \in Nat /\ e = [k \in 1 .. L |-> e[k]] /\ \A k \in 1 .. L : e[k].size \in Nat
  <2>1. e \in [1 .. L -> [name : Tokens, inode : Nat, size : Nat, type : Nat]] /\ L \in Nat
    BY <1>1, LenProperties DEF L
  <2> QED
    BY <2>1
<1>5. /\ O[0] = 0 /\ \A k \in 1 .. L : O[k] = O[k - 1] + e[k].size
      /\ \A k \in 0 .. L : O[k] \in Nat
  <2> DEFINE step == [n \in Nat |-> [x \in Nat |-> IF n \in 1 .. L THEN x + e[n].size ELSE x]]
             zero == 0
  <2>1. step \in [Nat -> [Nat -> Nat]] /\ zero \in Nat
    BY <1>4
  <2>2. PICK f : Follows(f, zero, step)
    <3> HIDE DEF step, zero
    <3> QED
      BY Recursion
  <2>3. f \in [Nat -> Nat] /\ f[0] = zero /\ \A n \in Nat : f[n + 1] = step[n + 1][f[n]]
    <3> HIDE DEF step, zero
    <3>1. f \in [Nat -> Nat]
      BY <2>1, <2>2, Typed
    <3>2. f[0] = zero /\ \A n \in Nat : f[n + 1] = step[n + 1][f[n]]
      BY <2>2, FollowsSteps
    <3> QED
      BY <3>1, <3>2
  <2>4. \A k \in 1 .. L : f[k] = f[k - 1] + e[k].size
    <3> TAKE k \in 1 .. L
    <3>1. k - 1 \in Nat /\ (k - 1) + 1 = k /\ k \in Nat
      BY <1>4
    <3>2. f[k] = step[k][f[k - 1]] /\ f[k - 1] \in Nat
      BY <2>3, <3>1
    <3> QED
      BY <3>1, <3>2
  <2> DEFINE g == [k \in 0 .. L |-> f[k]]
             Def(h) == [k \in 0 .. L |-> IF k = 0 THEN 0 ELSE h[k - 1] + e[k].size]
  <2>5. g = Def(g)
    <3>1. \A k \in 0 .. L : k = 0 \/ (k \in 1 .. L /\ k - 1 \in 0 .. L)
      BY <1>4
    <3> QED
      BY <2>3, <2>4, <3>1
  <2>6. O = Def(O)
    <3> HIDE DEF g
    <3>1. \E h : h = Def(h)
      BY <2>5
    <3> HIDE DEF Def
    <3>2. (CHOOSE h : h = Def(h)) = Def(CHOOSE h : h = Def(h))
      BY <3>1
    <3> QED
      BY <3>2, Zenon DEF Def
  <2> HIDE DEF O, g, step
  <2>7. \A k \in 0 .. L : O[k] = IF k = 0 THEN 0 ELSE O[k - 1] + e[k].size
    BY <2>6
  <2>8. O[0] = 0 /\ \A k \in 1 .. L : O[k] = O[k - 1] + e[k].size
    <3>1. 0 \in 0 .. L /\ \A k \in 1 .. L : k \in 0 .. L /\ k # 0
      BY <1>4
    <3> QED
      BY <2>7, <3>1
  <2> DEFINE T == {n \in Nat : n <= L => O[n] \in Nat}
  <2>9. 0 \in T
    BY <2>8
  <2>10. \A n \in T : n + 1 \in T
    <3> TAKE n \in T
    <3>1. n + 1 <= L => n + 1 \in 1 .. L /\ (n + 1) - 1 = n /\ n <= L
      BY <1>4
    <3> QED
      BY <1>4, <2>8, <3>1
  <2>11. \A n \in Nat : n \in T
    <3>1. T \in SUBSET Nat
      OBVIOUS
    <3> HIDE DEF T
    <3> QED
      BY <2>9, <2>10, <3>1, Induction
  <2> QED
    BY <2>8, <2>11, <1>4
<1> HIDE DEF O
<1>6. \A k \in 0 .. L : k <= O[k] /\ O[k] <= O[L]
  <2> DEFINE T == {n \in Nat : n <= L => n <= O[n] /\ O[L - n] <= O[L]}
  <2>1. 0 \in T
    BY <1>4, <1>5
  <2>2. \A n \in T : n + 1 \in T
    <3> SUFFICES ASSUME NEW n \in T, n + 1 <= L
                 PROVE  n + 1 <= O[n + 1] /\ O[L - (n + 1)] <= O[L]
      OBVIOUS
    <3>1. /\ n + 1 \in 1 .. L /\ (n + 1) - 1 = n /\ n \in 0 .. L
          /\ L - n \in 1 .. L /\ (L - n) - 1 = L - (n + 1) /\ L - n \in 0 .. L
          /\ L - (n + 1) \in 0 .. L /\ n + 1 \in 0 .. L
      BY <1>4
    <3>2. /\ O[n + 1] = O[n] + e[n + 1].size /\ e[n + 1].size >= 1
          /\ O[L - n] = O[L - (n + 1)] + e[L - n].size
      <4>1. O[n + 1] = O[n] + e[n + 1].size
        BY <1>5, <3>1
      <4>2. e[n + 1].size >= 1
        <5> DEFINE j == n + 1
        <5>1. j \in 1 .. L
          BY <3>1
        <5> HIDE DEF j
        <5>2. e[j].size >= EntryHeader /\ e[j].size \in Nat
          BY <1>1, <1>4, <5>1
        <5>3. e[j].size >= 1
          BY <1>3, <5>2
        <5> QED
          BY <5>3 DEF j
      <4>3. O[L - n] = O[(L - n) - 1] + e[L - n].size
        BY <1>5, <3>1
      <4>4. O[(L - n) - 1] = O[L - (n + 1)]
        BY <3>1, Zenon
      <4> QED
        BY <4>1, <4>2, <4>3, <4>4, Zenon
    <3>3. n <= O[n] /\ O[L - n] <= O[L]
      BY <3>1
    <3>4. /\ O[n] \in Nat /\ O[n + 1] \in Nat /\ e[n + 1].size \in Nat /\ e[L - n].size \in Nat
          /\ O[L - n] \in Nat /\ O[L - (n + 1)] \in Nat /\ O[L] \in Nat
      BY <1>4, <1>5, <3>1
    <3> QED
      BY <3>2, <3>3, <3>4
  <2>3. \A n \in Nat : n \in T
    <3>1. T \in SUBSET Nat
      OBVIOUS
    <3> HIDE DEF T
    <3> QED
      BY <2>1, <2>2, <3>1, Induction
  <2>4. \A k \in 0 .. L : k \in T /\ k <= L /\ L - k \in T /\ L - k <= L /\ L - (L - k) = k
    BY <1>4, <2>3
  <2> QED
    BY <2>4
<1>7. /\ G[0] = 0
      /\ \A turn \in Nat : G[turn + 1] = behind[G[turn]]
  <2> DEFINE step == [n \in Nat |-> behind]
             zero == 0
             Def(h) == [turn \in Nat |-> IF turn = 0 THEN 0 ELSE behind[h[turn - 1]]]
  <2> HIDE DEF behind
  <2>1. PICK f : Follows(f, zero, step)
    <3> HIDE DEF step, zero
    <3> QED
      BY Recursion
  <2>2. f = Def(f)
    <3>1. \A n \in Nat : step[n] = behind
      OBVIOUS
    <3> HIDE DEF step
    <3> QED
      BY <2>1, <3>1 DEF Follows
  <2>3. G = Def(G)
    <3>1. \E h : h = Def(h)
      BY <2>2
    <3> HIDE DEF Def
    <3>2. (CHOOSE h : h = Def(h)) = Def(CHOOSE h : h = Def(h))
      BY <3>1
    <3> QED
      BY <3>2, Zenon DEF Def
  <2> HIDE DEF G
  <2>4. \A k \in Nat : k + 1 \in Nat /\ k + 1 # 0 /\ (k + 1) - 1 = k
    OBVIOUS
  <2> QED
    BY <2>3, <2>4
<1> HIDE DEF G
<1>8. \A k \in 0 .. (L - 1) : inode.size - O[k] >= EntryHeader /\ behind[O[k]] = O[k + 1]
  <2> TAKE k \in 0 .. (L - 1)
  <2>1. k + 1 \in 1 .. L /\ (k + 1) - 1 = k /\ k \in 0 .. L /\ k + 1 \in 0 .. L
    BY <1>4
  <2>2. /\ O[k + 1] = O[k] + e[k + 1].size /\ e[k + 1].size >= EntryHeader
        /\ inode.data[O[k]] = e[k + 1] /\ O[k + 1] <= inode.size
        /\ O[k] \in Nat /\ e[k + 1].size \in Nat /\ inode.size \in Nat
    <3>1. L \in 0 .. L
      BY <1>4
    <3> QED
      BY <1>1, <1>4, <1>5, <1>6, <2>1, <3>1
  <2>3. inode.size - O[k] >= EntryHeader
    BY <1>3, <2>2
  <2> QED
    BY <2>2, <2>3
<1>9. inode.size - O[L] < EntryHeader
  <2>1. inode.size = O[L] /\ inode.size \in Nat
    BY <1>1, <1>4, <1>5
  <2> QED
    BY <1>3, <2>1
<1>10. \A k \in 0 .. L : G[k] = O[k]
  <2> DEFINE T == {n \in Nat : n <= L => G[n] = O[n]}
  <2> HIDE DEF behind
  <2>1. 0 \in T
    BY <1>5, <1>7
  <2>2. \A n \in T : n + 1 \in T
    <3> SUFFICES ASSUME NEW n \in T, n + 1 <= L PROVE G[n + 1] = O[n + 1]
      OBVIOUS
    <3>1. n \in Nat /\ n \in 0 .. (L - 1) /\ G[n] = O[n]
      BY <1>4
    <3>2. behind[O[n]] = O[n + 1] /\ G[n + 1] = behind[G[n]]
      BY <1>7, <1>8, <3>1, Zenon
    <3> QED
      BY <3>1, <3>2, Zenon
  <2>3. \A n \in Nat : n \in T
    <3>1. T \in SUBSET Nat
      OBVIOUS
    <3> HIDE DEF T
    <3> QED
      BY <2>1, <2>2, <3>1, Induction
  <2> QED
    BY <1>4, <2>3
<1> HIDE DEF behind
<1>10a. /\ \A k \in 0 .. (L - 1) : ~Ends(k)
       /\ Ends(L)
  <2>1. inode.size \in Nat /\ \A k \in 0 .. L : O[k] \in Nat
    BY <1>1, <1>4, <1>5
  <2>2. ASSUME NEW k \in 0 .. (L - 1) PROVE ~Ends(k)
    <3>1. k \in 0 .. L
      BY <1>4
    <3>2. inode.size - O[k] >= EntryHeader /\ G[k] = O[k] /\ O[k] \in Nat
      BY <1>8, <1>10, <2>1, <3>1
    <3> QED
      BY <1>3, <2>1, <3>2
  <2>3. Ends(L)
    <3>1. L \in 0 .. L
      BY <1>4
    <3> QED
      BY <1>9, <1>10, <3>1
  <2> QED
    BY <2>2, <2>3
<1> HIDE DEF Ends
<1>11. turns = L
  <2>1. L \in 0 .. L /\ L \in 0 .. inode.size
    <3>1. L \in 0 .. L
      BY <1>4
    <3>2. L <= O[L] /\ O[L] \in Nat
      BY <1>5, <1>6, <3>1
    <3> QED
      BY <1>1, <1>4, <3>1, <3>2
  <2>2. Stops(L)
    BY <1>10a
  <2>3. \A n \in 0 .. inode.size : Stops(n) => n = L
    <3> SUFFICES ASSUME NEW n \in 0 .. inode.size, Stops(n), n # L PROVE FALSE
      OBVIOUS
    <3>1. n \in Nat
      BY <1>1, <1>4, <1>5
    <3>2. CASE n < L
      <4>1. n \in 0 .. (L - 1) /\ n \in 0 .. L
        BY <1>4, <3>1, <3>2
      <4> QED
        BY <1>10a, <4>1
    <3>3. CASE ~(n < L)
      <4>1. L \in 0 .. (n - 1)
        BY <1>4, <3>1, <3>3
      <4> QED
        BY <1>10a, <4>1
    <3> QED
      BY <3>2, <3>3
  <2> HIDE DEF Stops
  <2> QED
    BY <2>1, <2>2, <2>3
<1> HIDE DEF turns
<1>12. \A turn \in 1 .. L : Considered(inode.data[G[turn - 1]]) = e[turn]
  <2> TAKE turn \in 1 .. L
  <2>1. turn - 1 \in 0 .. L
    BY <1>4
  <2>2. inode.data[G[turn - 1]] = e[turn]
    BY <1>1, <1>10, <2>1
  <2>3. \/ DirTypes \in RequiredFeatures(partition.superblock)
        \/ e[turn].type = 0
    <3>1. turn \in DOMAIN e
      BY <1>4
    <3> QED
      BY <3>1 DEF e
  <2> QED
    BY <2>2, <2>3, Zenon DEF Considered
<1>13. Entries(inode) = [turn \in 1 .. L |-> e[turn]]
  BY <1>2, <1>11, <1>12
<1> QED
  BY <1>4, <1>13 DEF e

\* What BlFsInitialize leaves when it succeeds.
Mounted ==
    /\ IsUsable(partition.superblock)
    /\ statics = [descriptors |-> ((SuperblockOffset \div BlockSize) + 1) * BlockSize,
                  inodeSize   |-> InodeStride(partition.superblock)]

LEMMA Division ==
    ASSUME NEW x \in Nat, NEW d \in Nat \ {0}
    PROVE  /\ x \div d \in Nat /\ x % d \in 0 .. (d - 1)
           /\ x = (x \div d) * d + (x % d)
OBVIOUS

\* An inode is found in the table of its group.
LEMMA InodesAre ==
    ASSUME partition \in Partitions, Mounted, NEW n \in DOMAIN partition.contents
    PROVE  ReadInode(n) = partition.contents[n]
<1> DEFINE perGroup == partition.superblock.groupInodes
           first == ((SuperblockOffset \div BlockSize) + 1) * BlockSize
           size == InodeStride(partition.superblock)
           group == (n - 1) \div perGroup
           index == (n - 1) % perGroup
           At(g, i) == partition.inodes[partition.descriptors[first + g * DescriptorSize]
                                          * BlockSize + i * size]
<1>1. IsFormatted(partition) /\ n \in Nat \ {0}
  BY FileSystemAssumption DEF Mounted, Written!IsVolume
<1>2. /\ perGroup \in Nat \ {0}
      /\ \A g \in 0 .. n, i \in 0 .. (perGroup - 1) :
           n = g * perGroup + i + 1 => At(g, i) = partition.contents[n]
  BY <1>1, Zenon DEF IsFormatted
<1>3. ReadInode(n) = At(group, index)
  BY DEF ReadInode, Mounted
<1> HIDE DEF perGroup, At
<1>4. /\ group \in Nat /\ index \in 0 .. (perGroup - 1)
      /\ n - 1 = group * perGroup + index
  <2> DEFINE x == n - 1
  <2>1. x \in Nat
    BY <1>1
  <2> HIDE DEF x
  <2>2. /\ x \div perGroup \in Nat /\ x % perGroup \in 0 .. (perGroup - 1)
        /\ x = (x \div perGroup) * perGroup + (x % perGroup)
    BY <1>2, <2>1, Division
  <2> QED
    BY <2>2 DEF x
<1> HIDE DEF group, index
<1>5. group * perGroup >= group /\ group * perGroup \in Nat
  BY <1>2, <1>4
<1>6. group \in 0 .. n /\ n = group * perGroup + index + 1
  <2> DEFINE product == group * perGroup
  <2>1. product >= group /\ product \in Nat /\ n - 1 = product + index
    BY <1>4, <1>5
  <2>2. index \in Nat /\ n \in Nat /\ group \in Nat
    BY <1>1, <1>2, <1>4
  <2> HIDE DEF product
  <2>3. group \in 0 .. n /\ n = product + index + 1
    BY <2>1, <2>2
  <2> QED
    BY <2>3 DEF product
<1> QED
  BY <1>2, <1>3, <1>4, <1>6

\* What was written.
Contents == partition.contents

LEMMA VolumeType ==
    ASSUME partition \in Partitions
    PROVE  /\ RootNumber \in DOMAIN Contents /\ Contents[RootNumber].type = "dir"
           /\ DOMAIN Contents \subseteq Nat \ {0}
           /\ \A n \in DOMAIN Contents :
                /\ Contents[n].type \in {"dir", "reg", "sym"}
                /\ Contents[n].target \in Seq(Tokens)
                /\ \A k \in 1 .. Len(Contents[n].entries) :
                     Contents[n].entries[k].inode \in DOMAIN Contents \union {0}
BY FileSystemAssumption, Zenon DEF Written!IsVolume, Contents

\* What is read of a link is a path.
LEMMA LinkTextType ==
    ASSUME NEW inode, inode.direct \in Seq(Nat), inode.size \in Nat,
           inode.size <= Len(inode.direct) * BlockSize, Readable(inode)
    PROVE  LinkText(inode) \in Seq(Tokens)
<1>1. /\ BlockSize \in Nat \ {0}
      /\ TextAt \in [0 .. (PartitionSize - 1) -> Tokens] /\ ZeroByte \in Tokens
  BY FileSystemAssumption DEF Reader!InodeReadAssumption
<1>2. Len(inode.direct) \in Nat /\ \A k \in 1 .. Len(inode.direct) : inode.direct[k] \in Nat
  BY LenProperties
<1>3. ASSUME NEW at \in 0 .. (inode.size - 1) PROVE TextByte(inode, at) \in Tokens
  <2> DEFINE q == at \div BlockSize
             r == at % BlockSize
             L == Len(inode.direct)
             block == BlockOf(inode, at)
  <2>0. at \in Nat /\ at < inode.size
    OBVIOUS
  <2>7. q \in Nat /\ r \in 0 .. (BlockSize - 1) /\ at = q * BlockSize + r
    BY <1>1, <2>0, Division
  <2>1. q \in Nat /\ r \in Nat
    BY <1>1, <2>7
  <2>2. q + 1 \in 1 .. L
    <3> DEFINE a == q * BlockSize
               b == L * BlockSize
    <3>1. a \in Nat /\ b \in Nat
      BY <1>1, <1>2, <2>1
    <3>2. L <= q => b <= a
      <4> SUFFICES ASSUME L <= q PROVE b <= a
        OBVIOUS
      <4> DEFINE k == q - L
      <4>1. k \in Nat /\ q = L + k /\ L \in Nat
        BY <1>2, <2>1
      <4>2. BlockSize \in Nat
        BY <1>1
      <4> HIDE DEF q, L, k
      <4>3. q * BlockSize = L * BlockSize + k * BlockSize
        BY <4>1, <4>2
      <4>4. k * BlockSize \in Nat /\ L * BlockSize \in Nat
        BY <4>1, <4>2
      <4> QED
        BY <4>3, <4>4
    <3>3. at = a + r /\ inode.size <= b
      BY <2>7
    <3>4. q \in Nat /\ L \in Nat
      BY <1>2, <2>1
    <3> HIDE DEF q, L, a, b, r
    <3>5. a < b
      BY <2>0, <2>1, <3>1, <3>3
    <3>6. ~(L <= q)
      BY <3>1, <3>2, <3>5
    <3> QED
      BY <3>4, <3>6
  <2>3. block \in Nat
    BY <1>2, <2>2 DEF BlockOf
  <2> HIDE DEF q, block
  <2>4. block * BlockSize + r \in Nat /\ block * BlockSize + r < PartitionSize
    <3>1. block * BlockSize + r < PartitionSize
      BY DEF Readable, block
    <3>2. block * BlockSize + r \in Nat
      BY <1>1, <2>1, <2>3
    <3> QED
      BY <3>1, <3>2
  <2>5. block # 0 => block * BlockSize + r \in 0 .. (PartitionSize - 1)
    <3> DEFINE address == block * BlockSize + r
    <3>1. address \in Nat /\ address < PartitionSize /\ PartitionSize \in Nat
      BY <2>4, FileSystemAssumption DEF Reader!InodeReadAssumption
    <3> HIDE DEF address
    <3>2. address \in 0 .. (PartitionSize - 1)
      BY <3>1
    <3> QED
      BY <3>2 DEF address
  <2>6. TextByte(inode, at) = IF block = 0 THEN ZeroByte ELSE TextAt[block * BlockSize + r]
    BY DEF TextByte, block
  <2> QED
    BY <1>1, <2>5, <2>6
<1>4. \A i \in 1 .. inode.size : TextByte(inode, i - 1) \in Tokens
  BY <1>3
<1>5. LinkText(inode) \in [1 .. inode.size -> Tokens]
  BY <1>4 DEF LinkText
<1> QED
  BY <1>5

\* The volume that lookups see is the one that was written, but for what is read
\* of the links.
LEMMA VolumeIsWritten ==
    ASSUME partition \in Partitions, Mounted
    PROVE  /\ DOMAIN VolumeRead = DOMAIN Contents
           /\ \A n \in DOMAIN Contents :
                /\ VolumeRead[n].type = Contents[n].type
                /\ VolumeRead[n].entries = Contents[n].entries
                /\ VolumeRead[n].target \in Seq(Tokens)
                /\ LinksInBlocks(partition) /\ Contents[n].type = "sym"
                     => VolumeRead[n].target = Contents[n].target
<1>1. DOMAIN VolumeRead = DOMAIN Contents
  BY DEF VolumeRead, Contents
<1>2. ASSUME NEW n \in DOMAIN Contents
      PROVE  /\ VolumeRead[n].type = Contents[n].type
             /\ VolumeRead[n].entries = Contents[n].entries
             /\ VolumeRead[n].target \in Seq(Tokens)
             /\ LinksInBlocks(partition) /\ Contents[n].type = "sym"
                  => VolumeRead[n].target = Contents[n].target
  <2> DEFINE inode == Contents[n]
  <2>0. n \in DOMAIN partition.contents /\ inode = partition.contents[n]
    BY DEF Contents
  <2>1. ReadInode(n) = inode
    BY InodesAre, <2>0
  <2>2. VolumeRead[n] =
          [type     |-> inode.type,
           entries  |-> IF inode.type = "dir" THEN Entries(inode) ELSE <<>>,
           readable |-> inode.type = "sym" /\ Readable(inode),
           target   |-> IF inode.type = "sym" /\ Readable(inode)
                          THEN LinkText(inode) ELSE <<>>]
    <3> HIDE DEF Contents
    <3> QED
      BY <2>0, <2>1, Zenon DEF VolumeRead
  <2>3. IsFormatted(partition)
    BY FileSystemAssumption DEF Mounted
  <2>4. /\ inode.type = "dir" =>
             /\ EntriesInOrder(inode)
             /\ \A k \in DOMAIN inode.entries :
                  \/ DirTypes \in RequiredFeatures(partition.superblock)
                  \/ inode.entries[k].type = 0
        /\ inode.type # "dir" => inode.entries = <<>>
        /\ inode.type = "sym" =>
             /\ inode.direct \in Seq(Nat) /\ inode.size \in Nat
             /\ inode.size <= Len(inode.direct) * BlockSize
    BY <2>0, <2>3, Zenon DEF IsFormatted
  <2> HIDE DEF inode
  <2>5. inode.type = "dir" => Entries(inode) = inode.entries
    BY <2>4, EntriesAre
  <2>6. inode.type = "sym" /\ Readable(inode) => LinkText(inode) \in Seq(Tokens)
    BY <2>4, LinkTextType
  <2>7. LinksInBlocks(partition) /\ inode.type = "sym"
          => Readable(inode) /\ LinkText(inode) = inode.target
    BY <2>0, Zenon DEF LinksInBlocks
  <2>8. <<>> \in Seq(Tokens)
    OBVIOUS
  <2> QED
    BY <2>2, <2>4, <2>5, <2>6, <2>7, <2>8 DEF inode
<1> QED
  BY <1>1, <1>2

-----------------------------------------------------------------------------
(* The parts of a lookup: its calls, the inodes it allocates, its path. *)

LEMMA Popped ==
    ASSUME NEW S, NEW s \in Seq(S), s # <<>>
    PROVE  /\ Len(s) \in Nat \ {0} /\ Head(s) = s[1] /\ s[1] \in S
           /\ Tail(s) \in Seq(S) /\ Len(Tail(s)) = Len(s) - 1
           /\ \A k \in 1 .. (Len(s) - 1) : Tail(s)[k] = s[k + 1]
<1>1. Len(s) \in Nat \ {0}
  BY EmptySeq
<1>2. s[1] \in S
  BY <1>1, LenProperties
<1> QED
  BY <1>1, <1>2

LEMMA Pushed ==
    ASSUME NEW S, NEW s \in Seq(S), NEW e \in S
    PROVE  /\ <<e>> \o s \in Seq(S) /\ Len(<<e>> \o s) = Len(s) + 1 /\ <<e>> \o s # <<>>
           /\ (<<e>> \o s)[1] = e /\ Head(<<e>> \o s) = e /\ Tail(<<e>> \o s) = s
           /\ \A k \in 1 .. Len(s) : (<<e>> \o s)[k + 1] = s[k]
<1> DEFINE a == <<e>>
           t == a \o s
<1>1. a \in Seq(S) /\ Len(a) = 1 /\ a[1] = e /\ Len(s) \in Nat
  BY LenProperties
<1> HIDE DEF a
<1>2. /\ t \in Seq(S) /\ Len(t) = Len(a) + Len(s)
      /\ \A i \in 1 .. Len(a) + Len(s) : t[i] = IF i <= Len(a) THEN a[i] ELSE s[i - Len(a)]
  BY <1>1, ConcatProperties
<1> HIDE DEF t
<1>3. Len(t) = Len(s) + 1 /\ t # <<>> /\ t[1] = e
  BY <1>1, <1>2, EmptySeq
<1>4. \A k \in 1 .. Len(s) : t[k + 1] = s[k]
  <2> TAKE k \in 1 .. Len(s)
  <2>1. k + 1 \in 1 .. Len(a) + Len(s) /\ ~(k + 1 <= Len(a)) /\ (k + 1) - Len(a) = k
    BY <1>1
  <2> QED
    BY <1>2, <2>1
<1>5. /\ Head(t) = t[1] /\ Tail(t) \in Seq(S) /\ Len(Tail(t)) = Len(t) - 1
      /\ \A k \in 1 .. (Len(t) - 1) : Tail(t)[k] = t[k + 1]
  BY <1>2, <1>3, Popped
<1>6. Tail(t) = s
  <2>1. Len(Tail(t)) = Len(s) /\ \A k \in 1 .. Len(s) : Tail(t)[k] = s[k]
    BY <1>1, <1>3, <1>4, <1>5
  <2> QED
    BY <1>5, <2>1, SeqEqual
<1> QED
  BY <1>2, <1>3, <1>4, <1>5, <1>6 DEF t, a

Object == [number : DOMAIN Contents, live : BOOLEAN]

Frame == [inode : Nat, path : Seq(Tokens), symlinks : 0 .. (MaxSymlinks - 1)]

\* The calls that may be waiting when n inodes are allocated.  One that waits for
\* another has the name of a link in front of it.
Frames(s, n, waiting) ==
    /\ s \in Seq(Frame)
    /\ \A k \in 1 .. Len(s) :
         /\ s[k].inode <= n /\ s[k].path # <<>>
         /\ k # 1 \/ waiting => s[k].path[1] # Slash

\* The inodes that calls have.
Held(s) == {s[k].inode : k \in 1 .. Len(s)}

\* No two calls have the same inode, but for the root.
Apart(s) == \A j, k \in 1 .. Len(s) : j # k /\ s[k].inode # 0 => s[j].inode # s[k].inode

LEMMA FramesPopped ==
    ASSUME NEW s, NEW n \in Nat, NEW m \in Nat, n <= m, NEW waiting, Frames(s, n, waiting),
           s # <<>>
    PROVE  /\ Head(s) = s[1] /\ s[1] \in Frame /\ s[1].inode <= n /\ s[1].path # <<>>
           /\ waiting => s[1].path[1] # Slash
           /\ Frames(Tail(s), m, TRUE) /\ Len(Tail(s)) = Len(s) - 1 /\ Len(s) \in Nat \ {0}
           /\ Held(s) = {s[1].inode} \union Held(Tail(s))
           /\ Apart(s) => Apart(Tail(s)) /\ (s[1].inode = 0 \/ s[1].inode \notin Held(Tail(s)))
<1>1. /\ Len(s) \in Nat \ {0} /\ Head(s) = s[1] /\ s[1] \in Frame
      /\ Tail(s) \in Seq(Frame) /\ Len(Tail(s)) = Len(s) - 1
      /\ \A k \in 1 .. (Len(s) - 1) : Tail(s)[k] = s[k + 1]
  BY Popped DEF Frames
<1> DEFINE t == Tail(s)
<1>2. 1 \in 1 .. Len(s)
  BY <1>1
<1>3. \A k \in 1 .. (Len(s) - 1) : k + 1 \in 1 .. Len(s) /\ k + 1 # 1 /\ t[k] = s[k + 1]
  BY <1>1
<1>4. \A k \in 1 .. Len(s) : k = 1 \/ (k - 1 \in 1 .. (Len(s) - 1) /\ (k - 1) + 1 = k)
  BY <1>1
<1>5. t \in Seq(Frame) /\ Len(t) = Len(s) - 1
  BY <1>1
<1> HIDE DEF t
<1>6. Frames(t, m, TRUE)
  <2> SUFFICES ASSUME NEW k \in 1 .. Len(t)
               PROVE  t[k].inode <= m /\ t[k].path # <<>> /\ t[k].path[1] # Slash
    BY <1>5 DEF Frames
  <2>1. k + 1 \in 1 .. Len(s) /\ k + 1 # 1 /\ t[k] = s[k + 1]
    BY <1>3, <1>5
  <2>2. /\ s[k + 1].inode <= n /\ s[k + 1].path # <<>> /\ s[k + 1].path[1] # Slash
    BY <2>1 DEF Frames
  <2>3. s[k + 1].inode \in Nat
    <3>1. s[k + 1] \in Frame
      BY <2>1, LenProperties DEF Frames
    <3> QED
      BY <3>1 DEF Frame
  <2> QED
    BY <2>1, <2>2, <2>3
<1>7. Held(s) = {s[1].inode} \union Held(t)
  <2>1. Held(s) \subseteq {s[1].inode} \union Held(t)
    <3> SUFFICES ASSUME NEW k \in 1 .. Len(s) PROVE k = 1 \/ s[k].inode \in Held(t)
      BY DEF Held
    <3>1. CASE k # 1
      <4>1. k - 1 \in 1 .. Len(t) /\ t[k - 1] = s[k]
        BY <1>3, <1>4, <1>5, <3>1
      <4> QED
        BY <4>1 DEF Held
    <3> QED
      BY <3>1
  <2>2. s[1].inode \in Held(s)
    BY <1>2 DEF Held
  <2>3. Held(t) \subseteq Held(s)
    BY <1>3, <1>5 DEF Held
  <2> QED
    BY <2>1, <2>2, <2>3
<1>8. Apart(s) => Apart(t) /\ (s[1].inode = 0 \/ s[1].inode \notin Held(t))
  <2> SUFFICES ASSUME Apart(s)
               PROVE  Apart(t) /\ (s[1].inode = 0 \/ s[1].inode \notin Held(t))
    OBVIOUS
  <2>1. ASSUME NEW j \in 1 .. Len(t), NEW k \in 1 .. Len(t), j # k, t[k].inode # 0
        PROVE  t[j].inode # t[k].inode
    <3>1. /\ j + 1 \in 1 .. Len(s) /\ k + 1 \in 1 .. Len(s) /\ j + 1 # k + 1
          /\ t[j] = s[j + 1] /\ t[k] = s[k + 1]
      BY <1>3, <1>5, <2>1
    <3> QED
      BY <2>1, <3>1 DEF Apart
  <2>2. Apart(t)
    BY <2>1 DEF Apart
  <2>3. ASSUME NEW k \in 1 .. Len(t), s[1].inode # 0 PROVE t[k].inode # s[1].inode
    <3>1. k + 1 \in 1 .. Len(s) /\ k + 1 # 1 /\ t[k] = s[k + 1]
      BY <1>3, <1>5
    <3> QED
      BY <1>2, <2>3, <3>1 DEF Apart
  <2>4. s[1].inode = 0 \/ s[1].inode \notin Held(t)
    BY <2>3 DEF Held
  <2> QED
    BY <2>2, <2>4
<1> QED
  BY <1>1, <1>2, <1>6, <1>7, <1>8 DEF t, Frames

LEMMA FramesPushed ==
    ASSUME NEW s, NEW n \in Nat, Frames(s, n, TRUE), NEW e \in Frame, e.inode <= n,
           e.path # <<>>, NEW waiting \in BOOLEAN, waiting => e.path[1] # Slash
    PROVE  /\ Frames(<<e>> \o s, n, waiting) /\ <<e>> \o s # <<>>
           /\ Head(<<e>> \o s) = e /\ (<<e>> \o s)[1] = e /\ Tail(<<e>> \o s) = s
           /\ Held(<<e>> \o s) = {e.inode} \union Held(s)
           /\ Apart(s) /\ (e.inode = 0 \/ e.inode \notin Held(s)) => Apart(<<e>> \o s)
<1> DEFINE t == <<e>> \o s
<1>1. /\ t \in Seq(Frame) /\ Len(t) = Len(s) + 1 /\ t # <<>> /\ t[1] = e
      /\ Head(t) = e /\ Tail(t) = s
      /\ \A k \in 1 .. Len(s) : t[k + 1] = s[k]
  BY Pushed DEF Frames
<1> HIDE DEF t
<1>2. Len(s) \in Nat
  BY LenProperties DEF Frames
<1>3. \A k \in 1 .. Len(t) : k = 1 \/ (k - 1 \in 1 .. Len(s) /\ t[k] = s[k - 1])
  <2> SUFFICES ASSUME NEW k \in 1 .. Len(t), k # 1
               PROVE  k - 1 \in 1 .. Len(s) /\ t[k] = s[k - 1]
    OBVIOUS
  <2>1. k - 1 \in 1 .. Len(s) /\ (k - 1) + 1 = k
    BY <1>1, <1>2
  <2> QED
    BY <1>1, <2>1
<1>4. Frames(t, n, waiting)
  <2> SUFFICES ASSUME NEW k \in 1 .. Len(t)
               PROVE  /\ t[k].inode <= n /\ t[k].path # <<>>
                      /\ k # 1 \/ waiting => t[k].path[1] # Slash
    BY <1>1 DEF Frames
  <2>1. CASE k = 1
    BY <1>1, <2>1
  <2>2. CASE k # 1
    BY <1>3, <2>2 DEF Frames
  <2> QED
    BY <2>1, <2>2
<1>5. Held(t) = {e.inode} \union Held(s)
  <2>1. 1 \in 1 .. Len(t) /\ \A k \in 1 .. Len(s) : k + 1 \in 1 .. Len(t)
    BY <1>1, <1>2
  <2> QED
    BY <1>1, <1>3, <2>1 DEF Held
<1>6. Apart(s) /\ (e.inode = 0 \/ e.inode \notin Held(s)) => Apart(t)
  <2> SUFFICES ASSUME Apart(s), e.inode = 0 \/ e.inode \notin Held(s),
                      NEW j \in 1 .. Len(t), NEW k \in 1 .. Len(t), j # k, t[k].inode # 0
               PROVE  t[j].inode # t[k].inode
    BY DEF Apart
  <2>1. \A i \in 1 .. Len(s) : s[i].inode \in Held(s)
    BY DEF Held
  <2>2. CASE j = 1
    BY <1>1, <1>3, <2>1, <2>2
  <2>3. CASE k = 1
    BY <1>1, <1>3, <2>1, <2>3
  <2>4. CASE j # 1 /\ k # 1
    <3>1. j - 1 # k - 1
      BY <1>1, <1>2
    <3> QED
      BY <1>3, <2>4, <3>1 DEF Apart
  <2> QED
    BY <2>2, <2>3, <2>4
<1> QED
  BY <1>1, <1>4, <1>5, <1>6 DEF t

\* The blocks that are allocated.
Unfreed(inodes) == {k \in 1 .. Len(inodes) : inodes[k].live}

LEMMA FreedIs ==
    ASSUME NEW inodes \in Seq(Object), NEW o \in 0 .. Len(inodes)
    PROVE  /\ Lookup!MaybeFree(inodes, o) \in Seq(Object)
           /\ Len(Lookup!MaybeFree(inodes, o)) = Len(inodes)
           /\ \A k \in 1 .. Len(inodes) :
                Lookup!MaybeFree(inodes, o)[k].number = inodes[k].number
           /\ Unfreed(Lookup!MaybeFree(inodes, o)) = Unfreed(inodes) \ {o}
<1>1. Len(inodes) \in Nat /\ inodes \in [1 .. Len(inodes) -> Object]
  BY LenProperties
<1>2. CASE o = 0
  BY <1>2 DEF Lookup!MaybeFree, Lookup!Root, Unfreed
<1>3. CASE o # 0
  <2>1. o \in 1 .. Len(inodes)
    BY <1>1, <1>3
  <2> DEFINE new == [inodes[o] EXCEPT !.live = FALSE]
             f == [inodes EXCEPT ![o] = new]
  <2>2. Lookup!MaybeFree(inodes, o) = f
    BY <1>3 DEF Lookup!MaybeFree, Lookup!Root
  <2>3. new \in Object /\ new.number = inodes[o].number /\ ~new.live
    BY <1>1, <2>1 DEF Object
  <2> HIDE DEF new
  <2>4. /\ f \in Seq(Object) /\ Len(f) = Len(inodes)
        /\ \A k \in 1 .. Len(inodes) : f[k] = IF k = o THEN new ELSE inodes[k]
    BY <2>1, <2>3, <1>1, ExceptSeq
  <2> HIDE DEF f
  <2>5. \A k \in 1 .. Len(inodes) : f[k].number = inodes[k].number
    BY <2>3, <2>4
  <2>6. Unfreed(f) = Unfreed(inodes) \ {o}
    BY <2>1, <2>3, <2>4 DEF Unfreed
  <2> QED
    BY <1>3, <2>2, <2>4, <2>5, <2>6
<1> QED
  BY <1>2, <1>3

\* A block was free, and now has the inode with number n.
Takes(inodes, block, n, new) ==
    /\ new \in Seq(Object) /\ Len(new) \in Nat
    /\ Len(inodes) <= Len(new) /\ block \in 1 .. Len(new)
    /\ \A k \in 1 .. Len(inodes) : k # block => new[k] = inodes[k]
    /\ new[block].number = n
    /\ block \notin Unfreed(inodes)
    /\ Unfreed(new) = Unfreed(inodes) \union {block}

LEMMA AllocatedIs ==
    ASSUME NEW inodes \in Seq(Object), NEW n \in DOMAIN Contents,
           NEW block \in Lookup!FreeBlocks(inodes)
    PROVE  Takes(inodes, block, n, Lookup!Allocated(inodes, block, n))
<1> DEFINE e == [number |-> n, live |-> TRUE]
           f == Lookup!Allocated(inodes, block, n)
           L == Len(inodes)
<1>1. e \in Object /\ e.number = n /\ e.live
  BY DEF Object
<1>2. /\ L \in Nat /\ DOMAIN inodes = 1 .. L /\ inodes \in [1 .. L -> Object]
      /\ block = L + 1 \/ (block \in 1 .. L /\ ~inodes[block].live)
  BY LenProperties DEF Lookup!FreeBlocks
<1>3. f = IF block \in DOMAIN inodes THEN [inodes EXCEPT ![block] = e] ELSE Append(inodes, e)
  BY Zenon DEF Lookup!Allocated
<1> HIDE DEF e, f
<1>4. CASE block \in 1 .. L
  <2> DEFINE g == [inodes EXCEPT ![block] = e]
  <2>1. /\ g \in Seq(Object) /\ Len(g) = L
        /\ \A k \in 1 .. L : g[k] = IF k = block THEN e ELSE inodes[k]
    BY <1>1, <1>2, <1>4, ExceptSeq
  <2>2. f = g
    BY <1>2, <1>3, <1>4
  <2> HIDE DEF g
  <2>3. ~inodes[block].live
    BY <1>2, <1>4
  <2>4. Unfreed(g) = Unfreed(inodes) \union {block}
    BY <1>1, <1>4, <2>1, <2>3 DEF Unfreed
  <2>5. block \notin Unfreed(inodes)
    BY <2>3 DEF Unfreed
  <2>6. g[block].number = n
    BY <1>1, <1>4, <2>1
  <2>7. \A k \in 1 .. Len(inodes) : k # block => g[k] = inodes[k]
    BY <2>1
  <2>8. Len(g) \in Nat /\ Len(inodes) <= Len(g) /\ block \in 1 .. Len(g)
    BY <1>2, <1>4, <2>1
  <2>9. Takes(inodes, block, n, g)
    BY <2>1, <2>4, <2>5, <2>6, <2>7, <2>8, Zenon DEF Takes
  <2> QED
    BY <2>2, <2>9, Zenon DEF f
<1>5. CASE block \notin 1 .. L
  <2> DEFINE g == Append(inodes, e)
  <2>1. /\ g \in Seq(Object) /\ Len(g) = L + 1
        /\ \A k \in 1 .. L : g[k] = inodes[k]
        /\ g[L + 1] = e
    BY <1>1, AppendProperties
  <2>2. f = g /\ block = L + 1
    BY <1>2, <1>3, <1>5
  <2> HIDE DEF g
  <2>3. \A k \in 1 .. (L + 1) : k \in 1 .. L \/ k = L + 1
    BY <1>2
  <2>4. /\ \A k \in 1 .. L : k \in 1 .. (L + 1) /\ k # L + 1
        /\ L + 1 \in 1 .. (L + 1) /\ L + 1 \in Nat /\ L <= L + 1
    BY <1>2
  <2> HIDE DEF L
  <2>5. Unfreed(g) = Unfreed(inodes) \union {L + 1}
    BY <1>1, <2>1, <2>3, <2>4 DEF Unfreed, L
  <2>6. L + 1 \notin Unfreed(inodes)
    BY <2>4 DEF Unfreed, L
  <2>7. g[block].number = n
    BY <1>1, <2>1, <2>2
  <2>8. \A k \in 1 .. Len(inodes) : k # block => g[k] = inodes[k]
    BY <2>1 DEF L
  <2>9. Len(g) \in Nat /\ Len(inodes) <= Len(g) /\ block \in 1 .. Len(g)
    BY <2>1, <2>2, <2>4 DEF L
  <2>10. Takes(inodes, block, n, g)
    BY <2>1, <2>2, <2>5, <2>6, <2>7, <2>8, <2>9, Zenon DEF Takes
  <2> QED
    BY <2>2, <2>10, Zenon DEF f
<1> QED
  BY <1>4, <1>5 DEF f

LEMMA NumberIs ==
    ASSUME partition \in Partitions, objects \in Seq(Object), NEW o \in 0 .. Len(objects)
    PROVE  /\ Lookup!Number(o) \in DOMAIN Contents
           /\ Lookup!Number(o) = IF o = 0 THEN RootNumber ELSE objects[o].number
<1>1. o # 0 => o \in 1 .. Len(objects)
  BY LenProperties
<1>2. o # 0 => objects[o] \in Object
  BY <1>1, LenProperties
<1> QED
  BY <1>2, VolumeType DEF Lookup!Number, Lookup!Root, Object

\* What is behind the slashes a path begins with.
LEMMA SkipSlashesIs ==
    ASSUME NEW p \in Seq(Tokens)
    PROVE  LET r == Lookup!SkipSlashes(p)
           IN /\ r \in Seq(Tokens) /\ Len(r) \in 0 .. Len(p)
              /\ \A k \in 1 .. (Len(p) - Len(r)) : p[k] = Slash
              /\ \A k \in 1 .. Len(r) : r[k] = p[(Len(p) - Len(r)) + k]
              /\ r # <<>> => r[1] # Slash
<1> DEFINE r == Lookup!SkipSlashes(p)
           I == {i \in 1 .. Len(p) : p[i] # Slash}
           m == CHOOSE x \in I : \A y \in I : x =< y
<1>1. Len(p) \in Nat /\ DOMAIN p = 1 .. Len(p)
  BY LenProperties
<1>2. CASE I = {}
  <2>1. \A k \in DOMAIN p : p[k] = Slash
    BY <1>1, <1>2
  <2>2. r = <<>>
    BY <2>1 DEF Lookup!SkipSlashes
  <2>3. r \in Seq(Tokens) /\ Len(r) = 0
    BY <2>2, EmptySeq
  <2> HIDE DEF r
  <2> QED
    BY <1>1, <2>1, <2>2, <2>3 DEF r
<1>3. CASE I # {}
  <2>1. m \in I /\ \A y \in I : m <= y
    <3>1. I \in SUBSET Nat
      OBVIOUS
    <3> HIDE DEF I
    <3>2. \E x \in I : \A y \in I : x =< y
      BY <1>3, <3>1, Least
    <3> QED
      BY <3>2
  <2>2. r = SubSeq(p, m, Len(p))
    <3>1. ~(\A k \in DOMAIN p : p[k] = Slash)
      BY <1>1, <1>3
    <3>2. Lookup!SelectInSeq(p, LAMBDA x : x # Slash) = m
      BY <1>3 DEF Lookup!SelectInSeq, Lookup!Min
    <3> HIDE DEF m
    <3> QED
      BY <3>1, <3>2 DEF Lookup!SkipSlashes
  <2>3. m \in 1 .. Len(p) /\ p[m] # Slash
    BY <2>1
  <2>4. \A k \in 1 .. (m - 1) : p[k] = Slash
    <3> SUFFICES ASSUME NEW k \in 1 .. (m - 1), p[k] # Slash PROVE FALSE
      OBVIOUS
    <3>1. k \in I
      BY <1>1, <2>3
    <3> HIDE DEF I, m
    <3>2. m <= k /\ m \in Nat
      BY <2>1, <2>3, <3>1
    <3> QED
      BY <3>2
  <2> HIDE DEF r, m, I
  <2>5. /\ r \in Seq(Tokens) /\ Len(r) = Len(p) - m + 1
        /\ \A k \in 1 .. (Len(p) - m + 1) : r[k] = p[m + k - 1]
    <3>1. m \in 1 .. (Len(p) + 1) /\ Len(p) \in m .. Len(p)
      BY <1>1, <2>3
    <3>2. /\ SubSeq(p, m, Len(p)) \in Seq(Tokens)
          /\ Len(SubSeq(p, m, Len(p))) = IF m <= Len(p) THEN Len(p) - m + 1 ELSE 0
      BY <1>1, <2>3
    <3>3. \A k \in 1 .. (Len(p) - m + 1) : SubSeq(p, m, Len(p))[k] = p[m + k - 1]
      BY <1>1, <2>3
    <3> QED
      BY <2>2, <2>3, <3>2, <3>3
  <2>6. Len(r) \in 0 .. Len(p) /\ Len(p) - Len(r) = m - 1
    BY <1>1, <2>3, <2>5
  <2>7. \A k \in 1 .. Len(r) : r[k] = p[(Len(p) - Len(r)) + k]
    <3> TAKE k \in 1 .. Len(r)
    <3>1. (Len(p) - Len(r)) + k = m + k - 1 /\ k \in 1 .. (Len(p) - m + 1)
      BY <1>1, <2>3, <2>5
    <3> QED
      BY <2>5, <3>1
  <2>8. r[1] # Slash
    <3>1. 1 \in 1 .. (Len(p) - m + 1) /\ m + 1 - 1 = m
      BY <1>1, <2>3
    <3> QED
      BY <2>3, <2>5, <3>1
  <2> QED
    BY <2>4, <2>5, <2>6, <2>7, <2>8 DEF r
<1> QED
  BY <1>2, <1>3

\* The number of the first entry with a name, or 0.
EntryNamed(entries, name) ==
    LET I == {i \in 1 .. Len(entries) : entries[i].inode # 0 /\ entries[i].name = name}
    IN IF I = {} THEN 0 ELSE entries[CHOOSE x \in I : \A y \in I : x =< y].inode

LEMMA FindEntryIs ==
    ASSUME NEW dir, NEW name
    PROVE  /\ Lookup!FindEntry(dir, name) = EntryNamed(dir.entries, name)
           /\ Written!FindEntry(dir, name) = EntryNamed(dir.entries, name)
           /\ EntryNamed(dir.entries, name) # 0 =>
                \E k \in 1 .. Len(dir.entries) :
                  EntryNamed(dir.entries, name) = dir.entries[k].inode
<1> DEFINE I == {i \in 1 .. Len(dir.entries) :
                   dir.entries[i].inode # 0 /\ dir.entries[i].name = name}
           m == CHOOSE x \in I : \A y \in I : x =< y
<1>1. CASE I = {}
  BY <1>1 DEF Lookup!FindEntry, Lookup!SelectInSeq, Written!FindEntry, Written!SelectInSeq,
              EntryNamed
<1>2. CASE I # {}
  <2>1. m \in I
    <3>1. I \in SUBSET Nat
      OBVIOUS
    <3> HIDE DEF I
    <3>2. \E x \in I : \A y \in I : x =< y
      BY <1>2, <3>1, Least
    <3> QED
      BY <3>2
  <2>3. EntryNamed(dir.entries, name) = dir.entries[m].inode
    BY <1>2 DEF EntryNamed
  <2>4. m # 0 /\ m \in 1 .. Len(dir.entries)
    <3> DEFINE n == Len(dir.entries)
    <3>1. m \in 1 .. n
      BY <2>1, Zenon
    <3>2. \A x \in 1 .. n : x # 0
      <4> HIDE DEF n
      <4> QED
        OBVIOUS
    <3> HIDE DEF m
    <3> QED
      BY <3>1, <3>2
  <2> DEFINE K == IF I # {} THEN m ELSE 0
  <2>5. Lookup!FindEntry(dir, name) = IF K = 0 THEN 0 ELSE dir.entries[K].inode
    BY Zenon DEF Lookup!FindEntry, Lookup!SelectInSeq, Lookup!Min
  <2>6. Written!FindEntry(dir, name) = IF K = 0 THEN 0 ELSE dir.entries[K].inode
    BY Zenon DEF Written!FindEntry, Written!SelectInSeq, Written!Min
  <2> HIDE DEF m
  <2>7. K = m
    BY <1>2
  <2> HIDE DEF K, I
  <2> QED
    BY <2>3, <2>4, <2>5, <2>6, <2>7
<1> QED
  BY <1>1, <1>2

-----------------------------------------------------------------------------
(* The steps of a lookup, and the types of its state. *)

TypeInv ==
    /\ partition \in Partitions
    /\ statics # Unmounted => Mounted
    /\ path \in Seq(Tokens)
    /\ pc \in {"find", "loop", "return", "open", "closed", "crashed", "undefined"}
    /\ pc # "find" => Mounted
    /\ objects \in Seq(Object)
    /\ Frames(stack, Len(objects), pc = "return")
    /\ result \in -1 .. Len(objects)
    /\ nested \in BOOLEAN
    /\ pc = "find" => objects = <<>>
    /\ pc = "loop" => stack # <<>>
    /\ pc \in {"find", "open", "closed"} => stack = <<>>
    /\ pc = "open" => result # -1 /\ Contents[Lookup!Number(result)].type = "reg"

\* What the innermost call looks at: its directory, the rest of its path and where the
\* next name leads.
Here == Contents[Lookup!Number(stack[1].inode)]
Rest == Lookup!SkipSlashes(stack[1].path)
Leads == EntryNamed(Here.entries, Rest[1])

LEMMA LoopIs ==
    ASSUME TypeInv, pc = "loop"
    PROVE  /\ Len(objects) \in Nat /\ stack # <<>> /\ Head(stack) = stack[1]
           /\ stack[1] \in Frame /\ stack[1].inode \in 0 .. Len(objects)
           /\ stack[1].path # <<>> /\ stack[1].path \in Seq(Tokens)
           /\ Frames(Tail(stack), Len(objects), TRUE)
           /\ Lookup!Number(stack[1].inode) \in DOMAIN Contents
           /\ Lookup!IsDirectory <=> Here.type = "dir"
           /\ Lookup!rest = Rest /\ Rest \in Seq(Tokens)
           /\ Rest # <<>> => /\ Lookup!entry = Leads /\ Head(Rest) = Rest[1]
                             /\ Rest[1] # Slash /\ Tail(Rest) \in Seq(Tokens)
           /\ Leads # 0 => Leads \in DOMAIN Contents
<1>1. /\ Len(objects) \in Nat /\ Frames(stack, Len(objects), FALSE) /\ stack # <<>>
      /\ Mounted /\ partition \in Partitions /\ objects \in Seq(Object)
  BY LenProperties DEF TypeInv
<1>2. /\ Head(stack) = stack[1] /\ stack[1] \in Frame /\ stack[1].inode <= Len(objects)
      /\ stack[1].path # <<>> /\ Frames(Tail(stack), Len(objects), TRUE)
  <2> DEFINE no == FALSE
             n == Len(objects)
  <2>1. Frames(stack, n, no)
    BY <1>1, Zenon
  <2>3. n \in Nat /\ n <= n
    BY <1>1
  <2>4. stack # <<>>
    BY <1>1
  <2> HIDE DEF no, n
  <2>2. /\ Head(stack) = stack[1] /\ stack[1] \in Frame /\ stack[1].inode <= n
        /\ stack[1].path # <<>> /\ Frames(Tail(stack), n, TRUE)
    BY <2>1, <2>3, <2>4, FramesPopped
  <2> QED
    BY <2>2 DEF n
<1>3. stack[1].inode \in 0 .. Len(objects) /\ stack[1].path \in Seq(Tokens)
  BY <1>1, <1>2 DEF Frame
<1>4. Lookup!Number(stack[1].inode) \in DOMAIN Contents
  BY <1>1, <1>3, NumberIs
<1>5. /\ VolumeRead[Lookup!Number(stack[1].inode)].type = Here.type
      /\ VolumeRead[Lookup!Number(stack[1].inode)].entries = Here.entries
  BY <1>1, <1>4, VolumeIsWritten DEF Here
<1>6. Lookup!IsDirectory <=> Here.type = "dir"
  BY <1>2, <1>5 DEF Lookup!IsDirectory, Lookup!Inode, Lookup!call
<1>7. Lookup!rest = Rest
  BY <1>2 DEF Lookup!rest, Lookup!call, Rest
<1>8. /\ Rest \in Seq(Tokens)
      /\ Rest # <<>> => Rest[1] # Slash
  BY <1>3, SkipSlashesIs DEF Rest
<1>9. Rest # <<>> => Head(Rest) = Rest[1] /\ Tail(Rest) \in Seq(Tokens)
  BY <1>8, Popped
<1>10. Rest # <<>> => Lookup!entry = Leads
  <2> SUFFICES ASSUME Rest # <<>> PROVE Lookup!entry = Leads
    OBVIOUS
  <2>1. Lookup!entry = Lookup!FindEntry(VolumeRead[Lookup!Number(stack[1].inode)], Rest[1])
    BY <1>2, <1>7, <1>9 DEF Lookup!entry, Lookup!Inode, Lookup!call
  <2> QED
    BY <1>5, <2>1, FindEntryIs DEF Leads
<1>11. Leads # 0 => Leads \in DOMAIN Contents
  <2> SUFFICES ASSUME Leads # 0 PROVE Leads \in DOMAIN Contents
    OBVIOUS
  <2>1. PICK k \in 1 .. Len(Here.entries) : Leads = Here.entries[k].inode
    BY FindEntryIs DEF Leads
  <2>2. Here.entries[k].inode \in DOMAIN Contents \union {0}
    BY <1>1, <1>4, VolumeType DEF Here
  <2> QED
    BY <2>1, <2>2
<1> QED
  BY <1>1, <1>2, <1>3, <1>4, <1>6, <1>7, <1>8, <1>9, <1>10, <1>11

\* A call e in front of others.
Pushes(s2, e, s) ==
    /\ s2 # <<>> /\ s2[1] = e /\ Head(s2) = e /\ Tail(s2) = s
    /\ Held(s2) = {e.inode} \union Held(s)
    /\ Apart(s) /\ (e.inode = 0 \/ e.inode \notin Held(s)) => Apart(s2)

LEMMA PushesIs ==
    ASSUME NEW s, NEW n \in Nat, Frames(s, n, TRUE), NEW e \in Frame, e.inode <= n,
           e.path # <<>>, NEW waiting \in BOOLEAN, waiting => e.path[1] # Slash
    PROVE  Frames(<<e>> \o s, n, waiting) /\ Pushes(<<e>> \o s, e, s)
BY FramesPushed DEF Pushes

Returns(object, s) == pc' = "return" /\ result' = object /\ stack' = s

Calls(e, s) == pc' = "loop" /\ result' = result /\ Pushes(stack', e, s)

\* A call of BiFindInode, from the start or with a name less.
Entered(object, p, links) ==
    [inode |-> IF p[1] = Slash THEN 0 ELSE object, path |-> p, symlinks |-> links]

Moved(object, p) == [stack[1] EXCEPT !.inode = object, !.path = p]

Enters(object, p, links, callers) ==
    IF links = MaxSymlinks \/ p = <<>> THEN Returns(-1, callers)
    ELSE Calls(Entered(object, p, links), callers)

GoesOn(object, p) ==
    IF p = <<>> THEN Returns(object, Tail(stack)) ELSE Calls(Moved(object, p), Tail(stack))

LEMMA EnterIs ==
    ASSUME NEW n \in Nat, NEW object \in 0 .. n, NEW p \in Seq(Tokens),
           NEW links \in 0 .. MaxSymlinks, NEW callers, Frames(callers, n, TRUE),
           Lookup!Enter(object, p, links, callers)
    PROVE  Frames(stack', n, pc' = "return") /\ Enters(object, p, links, callers)
<1>1. CASE links = MaxSymlinks \/ p = <<>>
  BY <1>1 DEF Lookup!Enter, Lookup!Null, Enters, Returns
<1>2. CASE ~(links = MaxSymlinks \/ p = <<>>)
  <2> DEFINE e == Entered(object, p, links)
             no == FALSE
  <2>1. Head(p) = p[1]
    BY <1>2, Popped
  <2>2. pc' = "loop" /\ result' = result /\ stack' = <<e>> \o callers
    BY <1>2, <2>1 DEF Lookup!Enter, Entered, Lookup!Root
  <2>3. links \in 0 .. (MaxSymlinks - 1)
    BY <1>2, FileSystemAssumption DEF Lookup!InodeLookupAssumption
  <2>4. e \in Frame /\ e.inode <= n /\ e.path # <<>> /\ no \in BOOLEAN /\ ~no
    BY <1>2, <2>3 DEF Entered, Frame
  <2> HIDE DEF e, no
  <2>5. Frames(<<e>> \o callers, n, no) /\ Pushes(<<e>> \o callers, e, callers)
    BY <2>4, PushesIs
  <2>6. (pc' = "return") = FALSE
    BY <2>2
  <2>7. Frames(stack', n, pc' = "return")
    BY <2>2, <2>5, <2>6, Zenon DEF no
  <2> QED
    BY <1>2, <2>2, <2>5, <2>7 DEF e, Enters, Calls
<1> QED
  BY <1>1, <1>2

LEMMA AdvanceIs ==
    ASSUME NEW n \in Nat, NEW m \in Nat, n <= m, NEW waiting, Frames(stack, n, waiting),
           stack # <<>>, NEW o \in 0 .. m, NEW r \in Seq(Tokens), Lookup!Advance(o, r)
    PROVE  Frames(stack', m, pc' = "return") /\ GoesOn(o, r)
<1>1. /\ Head(stack) = stack[1] /\ stack[1] \in Frame /\ Frames(Tail(stack), m, TRUE)
  BY FramesPopped
<1>2. CASE r = <<>>
  <2>1. Returns(o, Tail(stack))
    BY <1>2 DEF Lookup!Advance, Lookup!Leave, Returns
  <2> QED
    BY <1>1, <1>2, <2>1 DEF GoesOn, Returns
<1>3. CASE r # <<>>
  <2> DEFINE e == Moved(o, r)
             no == FALSE
             t == Tail(stack)
  <2>1. pc' = "loop" /\ result' = result /\ stack' = <<e>> \o t
    BY <1>1, <1>3 DEF Lookup!Advance, Moved
  <2>2. e \in Frame /\ e.inode <= m /\ e.path # <<>>
    <3> DEFINE c == stack[1]
    <3>1. c \in Frame /\ e = [c EXCEPT !.inode = o, !.path = r] /\ o \in Nat /\ o <= m
      BY <1>1 DEF Moved
    <3> HIDE DEF c, e
    <3>2. e.inode = o /\ e.path = r /\ e \in Frame
      BY <3>1 DEF Frame
    <3> QED
      BY <1>3, <3>1, <3>2
  <2>3. no \in BOOLEAN /\ ~no
    OBVIOUS
  <2> HIDE DEF e, no, t
  <2>4. Frames(<<e>> \o t, m, no) /\ Pushes(<<e>> \o t, e, t)
    BY <1>1, <2>2, <2>3, PushesIs DEF t
  <2>5. (pc' = "return") = FALSE
    BY <2>1
  <2>6. Frames(stack', m, pc' = "return")
    BY <2>1, <2>4, <2>5, Zenon DEF no
  <2> QED
    BY <1>3, <2>1, <2>4, <2>6 DEF e, t, GoesOn, Calls
<1> QED
  BY <1>2, <1>3

\* What a step of a lookup has to show for the types.
LEMMA TypeKept ==
    ASSUME TypeInv, Mounted, UNCHANGED <<partition, statics, path>>,
           objects' \in Seq(Object), Frames(stack', Len(objects'), pc' = "return"),
           result' \in -1 .. Len(objects'), nested' \in BOOLEAN,
           pc' \in {"loop", "return", "open", "closed", "crashed", "undefined"},
           pc' = "loop" => stack' # <<>>, pc' \in {"open", "closed"} => stack' = <<>>,
           pc' = "open" => result' # -1 /\ Contents[Lookup!Number(result)'].type = "reg"
    PROVE  TypeInv'
<1>1. Mounted' /\ Contents' = Contents /\ Object' = Object
  BY DEF Mounted, Contents, Object
<1>2. Frames(stack, Len(objects), pc = "return")' <=> Frames(stack', Len(objects'), pc' = "return")
  BY DEF Frames, Frame
<1> QED
  BY <1>1, <1>2 DEF TypeInv

LEMMA NotFoundIs ==
    ASSUME TypeInv, UNCHANGED <<partition, statics>>, Lookup!NotFound
    PROVE  /\ TypeInv' /\ pc = "loop" /\ UNCHANGED <<path, nested>>
           /\ Here.type # "dir" \/ (Rest # <<>> /\ Leads = 0)
           /\ objects' = Lookup!MaybeFree(objects, stack[1].inode)
           /\ Returns(-1, Tail(stack))
<1>1. pc = "loop" /\ Mounted /\ objects \in Seq(Object)
  BY DEF Lookup!NotFound, TypeInv
<1>2. /\ Len(objects) \in Nat /\ stack[1].inode \in 0 .. Len(objects)
      /\ Frames(Tail(stack), Len(objects), TRUE)
      /\ Here.type # "dir" \/ (Rest # <<>> /\ Leads = 0)
      /\ Lookup!call = stack[1]
  BY <1>1, LoopIs DEF Lookup!NotFound, Lookup!call
<1>3. /\ objects' = Lookup!MaybeFree(objects, stack[1].inode)
      /\ pc' = "return" /\ result' = -1 /\ stack' = Tail(stack) /\ UNCHANGED <<path, nested>>
  BY <1>2 DEF Lookup!NotFound, Lookup!Leave, Lookup!Null
<1>4. objects' \in Seq(Object) /\ Len(objects') = Len(objects)
  BY <1>1, <1>2, <1>3, FreedIs
<1>5. Frames(stack', Len(objects'), pc' = "return")
  BY <1>2, <1>3, <1>4
<1>6. nested' \in BOOLEAN /\ result' \in -1 .. Len(objects')
  BY <1>2, <1>3, <1>4 DEF TypeInv
<1>7. TypeInv'
  BY <1>1, <1>3, <1>4, <1>5, <1>6, TypeKept
<1> QED
  BY <1>1, <1>2, <1>3, <1>7 DEF Returns

LEMMA EndOfPathIs ==
    ASSUME TypeInv, UNCHANGED <<partition, statics>>, Lookup!EndOfPath
    PROVE  /\ TypeInv' /\ pc = "loop" /\ UNCHANGED <<path, nested, objects>>
           /\ Here.type = "dir" /\ Rest = <<>>
           /\ Returns(stack[1].inode, Tail(stack))
<1>1. pc = "loop" /\ Mounted /\ objects \in Seq(Object)
  BY DEF Lookup!EndOfPath, TypeInv
<1>2. /\ Len(objects) \in Nat /\ stack[1].inode \in 0 .. Len(objects)
      /\ Frames(Tail(stack), Len(objects), TRUE)
      /\ Here.type = "dir" /\ Rest = <<>>
      /\ Lookup!call = stack[1]
  BY <1>1, LoopIs DEF Lookup!EndOfPath, Lookup!call
<1>3. /\ pc' = "return" /\ result' = stack[1].inode /\ stack' = Tail(stack)
      /\ UNCHANGED <<path, nested, objects>>
  BY <1>2 DEF Lookup!EndOfPath, Lookup!Leave
<1>5. Frames(stack', Len(objects'), pc' = "return") /\ objects' \in Seq(Object)
  BY <1>1, <1>2, <1>3
<1>6. nested' \in BOOLEAN /\ result' \in -1 .. Len(objects')
  BY <1>2, <1>3 DEF TypeInv
<1>7. TypeInv'
  BY <1>1, <1>3, <1>5, <1>6, TypeKept
<1> QED
  BY <1>1, <1>2, <1>3, <1>7 DEF Returns

\* What the innermost call waits with for the link it follows.
Waiting == [stack[1] EXCEPT !.path = Rest]

Target == VolumeRead[Leads].target

LEMMA FollowLinkIs ==
    ASSUME TypeInv, UNCHANGED <<partition, statics>>, Lookup!FollowLink
    PROVE  /\ TypeInv' /\ pc = "loop" /\ UNCHANGED path
           /\ Here.type = "dir" /\ Rest # <<>> /\ Leads # 0 /\ Contents[Leads].type = "sym"
           /\ \E block \in Lookup!FreeBlocks(objects) :
                objects' = Lookup!MaybeFree(Lookup!Allocated(objects, block, Leads), block)
           /\ Pushes(<<Waiting>> \o Tail(stack), Waiting, Tail(stack))
           /\ Enters(stack[1].inode, Target, stack[1].symlinks + 1, <<Waiting>> \o Tail(stack))
           /\ nested' = (nested \/ (pc' = "loop" /\ Head(stack').inode # 0))
<1>1. pc = "loop" /\ Mounted /\ objects \in Seq(Object) /\ partition \in Partitions
  BY DEF Lookup!FollowLink, TypeInv
<1>2. /\ Len(objects) \in Nat /\ stack[1].inode \in 0 .. Len(objects) /\ stack[1] \in Frame
      /\ Frames(Tail(stack), Len(objects), TRUE)
      /\ Here.type = "dir" /\ Rest # <<>> /\ Leads # 0 /\ Leads \in DOMAIN Contents
      /\ Lookup!call = stack[1] /\ Lookup!rest = Rest /\ Lookup!entry = Leads
      /\ Rest \in Seq(Tokens) /\ Rest[1] # Slash
  BY <1>1, LoopIs DEF Lookup!FollowLink, Lookup!call
<1>3. VolumeRead[Leads].type = Contents[Leads].type /\ Target \in Seq(Tokens)
  BY <1>1, <1>2, VolumeIsWritten DEF Target
<1>13. PICK block \in Lookup!FreeBlocks(objects) :
         objects' = Lookup!MaybeFree(Lookup!Allocated(objects, block, Leads), block)
  BY <1>2 DEF Lookup!FollowLink
<1> DEFINE callers == <<Waiting>> \o Tail(stack)
           all == Lookup!Allocated(objects, block, Leads)
           m == Len(all)
           links == stack[1].symlinks + 1
<1>4. /\ Contents[Leads].type = "sym" /\ UNCHANGED path
      /\ Lookup!Enter(stack[1].inode, Target, links, callers)
      /\ nested' = (nested \/ (pc' = "loop" /\ Head(stack').inode # 0))
  BY <1>2, <1>3 DEF Lookup!FollowLink, Waiting, Lookup!Root, Target
<1>5. /\ all \in Seq(Object) /\ m \in Nat /\ Len(objects) <= m
      /\ block \in 0 .. m
  BY <1>1, <1>2, AllocatedIs DEF Takes
<1>14. objects' = Lookup!MaybeFree(all, block)
  BY <1>13
<1> HIDE DEF all
<1>6. objects' \in Seq(Object) /\ Len(objects') = m
  BY <1>5, <1>14, FreedIs
<1>7. Waiting \in Frame /\ Waiting.inode = stack[1].inode /\ Waiting.path = Rest
      /\ links \in 0 .. MaxSymlinks
  <2> DEFINE c == stack[1]
  <2>1. c \in Frame /\ Waiting = [c EXCEPT !.path = Rest] /\ links = c.symlinks + 1
    BY <1>2 DEF Waiting
  <2> HIDE DEF c, links
  <2>2. Waiting \in Frame /\ Waiting.inode = c.inode /\ Waiting.path = Rest
    BY <1>2, <2>1 DEF Frame
  <2>3. links \in 0 .. MaxSymlinks
    BY <2>1, FileSystemAssumption DEF Frame, Lookup!InodeLookupAssumption
  <2> QED
    BY <2>2, <2>3 DEF c
<1>8. Frames(callers, m, TRUE) /\ Pushes(callers, Waiting, Tail(stack))
  <2> DEFINE yes == TRUE
             t == Tail(stack)
             n == Len(objects)
             w == Waiting
  <2>1. Frames(t, n, yes) /\ n \in Nat /\ m \in Nat /\ n <= m
    BY <1>2, <1>5
  <2>2. w.path # <<>> /\ yes \in BOOLEAN /\ (yes => w.path[1] # Slash)
    BY <1>2, <1>7
  <2>3. w \in Frame /\ w.inode <= n
    BY <1>2, <1>7
  <2> HIDE DEF t, n, w, m
  <2>4. Frames(<<w>> \o t, n, yes) /\ Pushes(<<w>> \o t, w, t)
    <3> HIDE DEF yes
    <3>1. Frames(t, n, TRUE)
      BY <2>1 DEF yes
    <3> QED
      BY <2>1, <2>2, <2>3, <3>1, PushesIs
  <2>5. Frames(<<w>> \o t, m, TRUE)
    <3> SUFFICES ASSUME NEW k \in 1 .. Len(<<w>> \o t)
                 PROVE  (<<w>> \o t)[k].inode <= m
      BY <2>4 DEF Frames
    <3>1. (<<w>> \o t)[k] \in Frame /\ (<<w>> \o t)[k].inode <= n
      BY <2>4 DEF Frames
    <3> QED
      BY <2>1, <3>1 DEF Frame
  <2> QED
    BY <2>4, <2>5 DEF w, t
<1>9. Target \in Seq(Tokens)
  BY <1>3
<1>10. Frames(stack', m, pc' = "return") /\ Enters(stack[1].inode, Target, links, callers)
  <2> DEFINE o == stack[1].inode
             p == Target
  <2>1. o \in 0 .. m /\ m \in Nat /\ p \in Seq(Tokens) /\ links \in 0 .. MaxSymlinks
    BY <1>2, <1>5, <1>7, <1>9
  <2>2. Frames(callers, m, TRUE) /\ Lookup!Enter(o, p, links, callers)
    BY <1>4, <1>8
  <2> HIDE DEF o, p, links, callers, m
  <2>3. Frames(stack', m, pc' = "return") /\ Enters(o, p, links, callers)
    BY <2>1, <2>2, EnterIs
  <2> QED
    BY <2>3 DEF o, p
<1>11. /\ pc' \in {"loop", "return"}
       /\ pc' = "loop" => stack' # <<>>
       /\ result' \in -1 .. m /\ nested' \in BOOLEAN
  <2>1. result \in -1 .. Len(objects) /\ nested \in BOOLEAN
    BY DEF TypeInv
  <2>2. \/ pc' = "return" /\ result' = -1
        \/ pc' = "loop" /\ result' = result /\ stack' # <<>>
    BY <1>10 DEF Enters, Returns, Calls, Pushes
  <2>3. nested' \in BOOLEAN
    BY <1>4, <2>1
  <2> QED
    BY <1>2, <1>5, <2>1, <2>2, <2>3
<1>12. TypeInv'
  <2>1. Frames(stack', Len(objects'), pc' = "return")
    BY <1>6, <1>10, Zenon
  <2>2. UNCHANGED path /\ result' \in -1 .. Len(objects')
    BY <1>4, <1>6, <1>11
  <2> QED
    BY <1>1, <1>6, <1>11, <2>1, <2>2, TypeKept
<1> QED
  BY <1>1, <1>2, <1>4, <1>8, <1>10, <1>12, <1>13

LEMMA LinkUnreadableIs ==
    ASSUME TypeInv, UNCHANGED <<partition, statics>>, Lookup!LinkUnreadable
    PROVE  /\ TypeInv' /\ pc = "loop" /\ pc' = "crashed"
           /\ UNCHANGED <<path, stack, result, objects, nested>>
<1>1. /\ pc = "loop" /\ pc' = "crashed"
      /\ UNCHANGED <<path, stack, result, objects, nested>>
  BY DEF Lookup!LinkUnreadable
<1>2. /\ Mounted /\ objects \in Seq(Object) /\ Len(objects) \in Nat
      /\ result \in -1 .. Len(objects) /\ nested \in BOOLEAN
  BY <1>1, LenProperties DEF TypeInv
<1>3. Frames(stack', Len(objects'), pc' = "return")
  <2>1. Frames(stack, Len(objects), pc = "return")
    BY Zenon DEF TypeInv
  <2>2. (pc = "return") = FALSE /\ (pc' = "return") = FALSE
    BY <1>1
  <2> QED
    BY <1>1, <2>1, <2>2, Zenon
<1>4. TypeInv'
  <2>1. objects' \in Seq(Object) /\ result' \in -1 .. Len(objects') /\ nested' \in BOOLEAN
    BY <1>1, <1>2
  <2> QED
    BY <1>1, <1>2, <1>3, <2>1, TypeKept
<1> QED
  BY <1>1, <1>4

LEMMA DescendIs ==
    ASSUME TypeInv, UNCHANGED <<partition, statics>>, Lookup!Descend
    PROVE  /\ TypeInv' /\ pc = "loop" /\ UNCHANGED <<path, nested>>
           /\ Here.type = "dir" /\ Rest # <<>> /\ Leads # 0 /\ Contents[Leads].type # "sym"
           /\ \E block \in Lookup!FreeBlocks(objects) :
                /\ objects' = Lookup!MaybeFree(Lookup!Allocated(objects, block, Leads),
                                               stack[1].inode)
                /\ GoesOn(block, Tail(Rest))
<1>1. pc = "loop" /\ Mounted /\ objects \in Seq(Object) /\ partition \in Partitions
  BY DEF Lookup!Descend, TypeInv
<1>2. /\ Len(objects) \in Nat /\ stack[1].inode \in 0 .. Len(objects) /\ stack # <<>>
      /\ Here.type = "dir" /\ Rest # <<>> /\ Leads # 0 /\ Leads \in DOMAIN Contents
      /\ Lookup!call = stack[1] /\ Lookup!rest = Rest /\ Lookup!entry = Leads
      /\ Tail(Rest) \in Seq(Tokens)
  BY <1>1, LoopIs DEF Lookup!Descend, Lookup!call
<1>3. VolumeRead[Leads].type = Contents[Leads].type
  BY <1>1, <1>2, VolumeIsWritten
<1> DEFINE n == Len(objects)
           r == Tail(Rest)
<1>10. PICK block \in Lookup!FreeBlocks(objects) :
         /\ objects' = Lookup!MaybeFree(Lookup!Allocated(objects, block, Leads),
                                        stack[1].inode)
         /\ Lookup!Advance(block, r)
  BY <1>2 DEF Lookup!Descend
<1> DEFINE all == Lookup!Allocated(objects, block, Leads)
           m == Len(all)
<1>4. Contents[Leads].type # "sym" /\ UNCHANGED <<path, nested>>
  BY <1>2, <1>3 DEF Lookup!Descend
<1>11. objects' = Lookup!MaybeFree(all, stack[1].inode) /\ Lookup!Advance(block, r)
  BY <1>10
<1>5. /\ all \in Seq(Object) /\ m \in Nat /\ stack[1].inode \in 0 .. m
      /\ n \in Nat /\ n <= m /\ block \in 0 .. m
  BY <1>1, <1>2, AllocatedIs DEF Takes
<1> HIDE DEF all
<1>6. objects' \in Seq(Object) /\ Len(objects') = m
  BY <1>5, <1>11, FreedIs
<1>7. Frames(stack', m, pc' = "return") /\ GoesOn(block, r)
  <2> DEFINE waiting == pc = "return"
  <2>1. Frames(stack, n, waiting)
    BY Zenon DEF TypeInv
  <2>2. stack # <<>> /\ r \in Seq(Tokens)
    BY <1>2
  <2> HIDE DEF m, n, r, waiting
  <2> QED
    BY <1>5, <1>11, <2>1, <2>2, AdvanceIs
<1>8. /\ pc' \in {"loop", "return"}
      /\ pc' = "loop" => stack' # <<>>
      /\ result' \in -1 .. m /\ nested' \in BOOLEAN
  <2>1. result \in -1 .. Len(objects) /\ nested \in BOOLEAN
    BY DEF TypeInv
  <2>2. \/ pc' = "return" /\ result' = block
        \/ pc' = "loop" /\ result' = result /\ stack' # <<>>
    BY <1>7 DEF GoesOn, Returns, Calls, Pushes
  <2> QED
    BY <1>2, <1>4, <1>5, <2>1, <2>2
<1>9. TypeInv'
  <2>1. Frames(stack', Len(objects'), pc' = "return")
    BY <1>6, <1>7, Zenon
  <2>2. result' \in -1 .. Len(objects')
    BY <1>6, <1>8
  <2> QED
    BY <1>1, <1>4, <1>6, <1>8, <2>1, <2>2, TypeKept
<1> QED
  BY <1>1, <1>2, <1>4, <1>7, <1>9, <1>10

\* What the waiting call knows.
LEMMA WaitingIs ==
    ASSUME TypeInv, pc = "return"
    PROVE  /\ Len(objects) \in Nat /\ objects \in Seq(Object) /\ Mounted
           /\ partition \in Partitions
           /\ stack # <<>> =>
                /\ Head(stack) = stack[1] /\ stack[1] \in Frame
                /\ stack[1].inode \in 0 .. Len(objects)
                /\ stack[1].path # <<>> /\ stack[1].path[1] # Slash
                /\ Tail(stack[1].path) \in Seq(Tokens)
                /\ Frames(Tail(stack), Len(objects), TRUE)
<1>1. /\ Len(objects) \in Nat /\ objects \in Seq(Object) /\ Mounted /\ partition \in Partitions
  BY LenProperties DEF TypeInv
<1>2. SUFFICES ASSUME stack # <<>>
               PROVE  /\ Head(stack) = stack[1] /\ stack[1] \in Frame
                      /\ stack[1].inode \in 0 .. Len(objects)
                      /\ stack[1].path # <<>> /\ stack[1].path[1] # Slash
                      /\ Tail(stack[1].path) \in Seq(Tokens)
                      /\ Frames(Tail(stack), Len(objects), TRUE)
  BY <1>1
<1> DEFINE yes == TRUE
           n == Len(objects)
<1>3. Frames(stack, n, yes)
  <2>1. Frames(stack, n, pc = "return")
    BY Zenon DEF TypeInv
  <2>2. (pc = "return") = yes
    OBVIOUS
  <2> QED
    BY <2>1, <2>2, Zenon
<1>4. n \in Nat /\ n <= n
  BY <1>1
<1> HIDE DEF yes, n
<1>8. /\ Head(stack) = stack[1] /\ stack[1] \in Frame /\ stack[1].inode <= n
      /\ stack[1].path # <<>> /\ Frames(Tail(stack), n, TRUE) /\ Len(stack) \in Nat \ {0}
  BY <1>2, <1>3, <1>4, FramesPopped
<1>9. stack[1].path[1] # Slash
  <2>1. 1 \in 1 .. Len(stack)
    BY <1>8
  <2>2. Frames(stack, n, TRUE)
    BY <1>3, Zenon DEF yes
  <2> QED
    BY <2>1, <2>2 DEF Frames
<1>5. /\ Head(stack) = stack[1] /\ stack[1] \in Frame /\ stack[1].inode <= n
      /\ stack[1].path # <<>> /\ stack[1].path[1] # Slash /\ Frames(Tail(stack), n, TRUE)
  BY <1>8, <1>9
<1>6. stack[1].path \in Seq(Tokens) /\ stack[1].inode \in 0 .. n
  BY <1>4, <1>5 DEF Frame
<1>7. Tail(stack[1].path) \in Seq(Tokens)
  BY <1>5, <1>6, Popped
<1> QED
  BY <1>5, <1>6, <1>7 DEF n

\* The directory it waits with is not its own any more.
Dangles ==
    stack[1].inode # 0
      /\ (stack[1].inode \notin Unfreed(objects) \/ stack[1].inode = result)

LEMMA DanglingIs ==
    ASSUME TypeInv, pc = "return", stack # <<>>
    PROVE  Lookup!Dangling <=> Dangles
<1>1. /\ Len(objects) \in Nat /\ objects \in Seq(Object)
      /\ Head(stack) = stack[1] /\ stack[1].inode \in 0 .. Len(objects)
  BY WaitingIs
<1>2. stack[1].inode # 0 =>
        (stack[1].inode \notin Unfreed(objects) <=> ~objects[stack[1].inode].live)
  BY <1>1 DEF Unfreed
<1> QED
  BY <1>1, <1>2, Zenon DEF Lookup!Dangling, Lookup!call, Lookup!Root, Dangles

LEMMA FreedTwiceIs ==
    ASSUME TypeInv, UNCHANGED <<partition, statics>>, Lookup!FreedTwice
    PROVE  /\ TypeInv' /\ pc = "return" /\ stack # <<>> /\ pc' = "undefined" /\ Dangles
           /\ UNCHANGED <<path, stack, result, objects, nested>>
<1>1. /\ pc = "return" /\ stack # <<>> /\ pc' = "undefined"
      /\ UNCHANGED <<path, stack, result, objects, nested>>
      /\ Lookup!Dangling
  BY DEF Lookup!FreedTwice
<1>2. /\ Mounted /\ objects \in Seq(Object) /\ Len(objects) \in Nat
      /\ result \in -1 .. Len(objects) /\ nested \in BOOLEAN
  BY <1>1, LenProperties DEF TypeInv
<1>3. Frames(stack', Len(objects'), pc' = "return")
  <2>1. Frames(stack, Len(objects), pc = "return")
    BY Zenon DEF TypeInv
  <2>2. Frames(stack, Len(objects), FALSE)
    BY <2>1 DEF Frames
  <2>3. (pc' = "return") = FALSE
    BY <1>1
  <2> QED
    BY <1>1, <2>2, <2>3, Zenon
<1>4. TypeInv'
  <2>1. objects' \in Seq(Object) /\ result' \in -1 .. Len(objects') /\ nested' \in BOOLEAN
    BY <1>1, <1>2
  <2> QED
    BY <1>1, <1>2, <1>3, <2>1, TypeKept
<1> QED
  BY <1>1, <1>4, DanglingIs

LEMMA LinkFollowedIs ==
    ASSUME TypeInv, UNCHANGED <<partition, statics>>, Lookup!LinkFollowed
    PROVE  /\ TypeInv' /\ pc = "return" /\ stack # <<>> /\ UNCHANGED <<path, nested>>
           /\ ~Dangles
           /\ objects' = Lookup!MaybeFree(objects, stack[1].inode)
           /\ IF result = -1 THEN Returns(-1, Tail(stack))
              ELSE GoesOn(result, Tail(stack[1].path))
<1>1. pc = "return" /\ stack # <<>> /\ ~Dangles
  BY DanglingIs DEF Lookup!LinkFollowed
<1>2. /\ Len(objects) \in Nat /\ objects \in Seq(Object) /\ Mounted
      /\ Head(stack) = stack[1] /\ stack[1].inode \in 0 .. Len(objects)
      /\ Tail(stack[1].path) \in Seq(Tokens) /\ Frames(Tail(stack), Len(objects), TRUE)
  BY <1>1, WaitingIs
<1> DEFINE n == Len(objects)
           r == Tail(stack[1].path)
<1>3. /\ objects' = Lookup!MaybeFree(objects, stack[1].inode) /\ UNCHANGED <<path, nested>>
      /\ result = -1 => Returns(-1, Tail(stack))
      /\ result # -1 => Lookup!Advance(result, r)
  BY <1>1, <1>2 DEF Lookup!LinkFollowed, Lookup!call, Lookup!Null, Lookup!Leave, Returns
<1>4. objects' \in Seq(Object) /\ Len(objects') = n
  BY <1>2, <1>3, FreedIs
<1>5. nested \in BOOLEAN /\ result \in -1 .. n
  BY DEF TypeInv
<1>6. CASE result = -1
  <2>1. Frames(stack', Len(objects'), pc' = "return")
    BY <1>2, <1>3, <1>4, <1>6 DEF Returns
  <2>2. /\ pc' = "return" /\ nested' \in BOOLEAN /\ result' \in -1 .. Len(objects')
    BY <1>2, <1>3, <1>4, <1>5, <1>6 DEF Returns
  <2>3. TypeInv'
    BY <1>2, <1>3, <1>4, <2>1, <2>2, TypeKept
  <2> QED
    BY <1>1, <1>3, <1>6, <2>3
<1>7. CASE result # -1
  <2>1. Frames(stack', n, pc' = "return") /\ GoesOn(result, r)
    <3> DEFINE waiting == pc = "return"
    <3>1. Frames(stack, n, waiting)
      BY Zenon DEF TypeInv
    <3>2. n \in Nat /\ n <= n /\ result \in 0 .. n /\ r \in Seq(Tokens)
      BY <1>2, <1>5, <1>7
    <3> HIDE DEF n, r, waiting
    <3> QED
      BY <1>1, <1>3, <1>7, <3>1, <3>2, AdvanceIs
  <2>2. Frames(stack', Len(objects'), pc' = "return")
    BY <1>4, <2>1, Zenon
  <2>3. /\ pc' \in {"loop", "return"}
        /\ pc' = "loop" => stack' # <<>>
        /\ result' = result
    BY <2>1 DEF GoesOn, Returns, Calls, Pushes
  <2>4. nested' \in BOOLEAN /\ result' \in -1 .. Len(objects')
    BY <1>3, <1>4, <1>5, <2>3
  <2>5. TypeInv'
    BY <1>2, <1>3, <1>4, <2>2, <2>3, <2>4, TypeKept
  <2> QED
    BY <1>1, <1>3, <1>7, <2>1, <2>5
<1> QED
  BY <1>6, <1>7

\* The lookup found a file.
Finds == result # -1 /\ Contents[Lookup!Number(result)].type = "reg"

LEMMA FoundIs ==
    ASSUME TypeInv, UNCHANGED <<partition, statics>>, Lookup!Found
    PROVE  /\ TypeInv' /\ pc = "return" /\ stack = <<>> /\ UNCHANGED <<path, nested, stack>>
           /\ Finds => pc' = "open" /\ UNCHANGED <<objects, result>>
           /\ ~Finds => /\ pc' = "closed" /\ result' = -1
                        /\ objects' = IF result = -1 THEN objects
                                      ELSE Lookup!MaybeFree(objects, result)
<1>1. pc = "return" /\ stack = <<>> /\ UNCHANGED <<path, nested, stack>>
  BY DEF Lookup!Found
<1>2. Len(objects) \in Nat /\ objects \in Seq(Object) /\ Mounted /\ partition \in Partitions
  BY <1>1, WaitingIs
<1>3. nested \in BOOLEAN /\ result \in -1 .. Len(objects)
  BY DEF TypeInv
<1>4. result # -1 => VolumeRead[Lookup!Number(result)].type = Contents[Lookup!Number(result)].type
  <2> SUFFICES ASSUME result # -1
               PROVE  VolumeRead[Lookup!Number(result)].type
                        = Contents[Lookup!Number(result)].type
    OBVIOUS
  <2>1. result \in 0 .. Len(objects)
    BY <1>2, <1>3
  <2>2. Lookup!Number(result) \in DOMAIN Contents
    BY <1>2, <2>1, NumberIs
  <2> QED
    BY <1>2, <2>2, VolumeIsWritten
<1>5. /\ Finds => pc' = "open" /\ UNCHANGED <<objects, result>>
      /\ ~Finds => /\ pc' = "closed" /\ result' = -1
                   /\ objects' = IF result = -1 THEN objects
                                 ELSE Lookup!MaybeFree(objects, result)
  BY <1>4 DEF Lookup!Found, Lookup!Null, Lookup!Inode, Finds
<1>6. objects' \in Seq(Object) /\ Len(objects') = Len(objects)
  <2>1. CASE Finds \/ result = -1
    BY <1>2, <1>5, <2>1
  <2>2. CASE ~(Finds \/ result = -1)
    <3>1. result \in 0 .. Len(objects)
      BY <1>2, <1>3, <2>2
    <3> QED
      BY <1>2, <1>5, <2>2, <3>1, FreedIs
  <2> QED
    BY <2>1, <2>2
<1>7. /\ Finds => pc' = "open" /\ result' = result /\ objects' = objects
      /\ ~Finds => pc' = "closed" /\ result' = -1
      /\ result' \in -1 .. Len(objects')
  BY <1>2, <1>3, <1>5, <1>6
<1>8. pc' = "open" => result' # -1 /\ Contents[Lookup!Number(result)'].type = "reg"
  <2> SUFFICES ASSUME Finds
               PROVE  result' # -1 /\ Contents[Lookup!Number(result)'].type = "reg"
    BY <1>7
  <2>1. Lookup!Number(result)' = Lookup!Number(result)
    BY <1>7 DEF Lookup!Number
  <2> QED
    BY <1>7, <2>1 DEF Finds
<1>9. Frames(stack', Len(objects'), pc' = "return")
  BY <1>1, EmptySeq DEF Frames
<1>10. TypeInv'
  <2>1. nested' \in BOOLEAN /\ stack' = <<>> /\ pc' \in {"open", "closed"}
    BY <1>1, <1>3, <1>7
  <2> QED
    BY <1>1, <1>2, <1>6, <1>7, <1>8, <1>9, <2>1, TypeKept
<1> QED
  BY <1>1, <1>5, <1>10

LEMMA CloseIs ==
    ASSUME TypeInv, UNCHANGED <<partition, statics>>, Lookup!Close
    PROVE  /\ TypeInv' /\ pc = "open" /\ pc' = "closed"
           /\ result \in 0 .. Len(objects) /\ Finds
           /\ UNCHANGED <<path, nested, stack, result>>
           /\ objects' = Lookup!MaybeFree(objects, result)
<1>1. /\ pc = "open" /\ pc' = "closed" /\ UNCHANGED <<path, nested, stack, result>>
      /\ objects' = Lookup!MaybeFree(objects, result)
  BY DEF Lookup!Close
<1>2. /\ objects \in Seq(Object) /\ result \in -1 .. Len(objects) /\ nested \in BOOLEAN
      /\ Mounted /\ stack = <<>> /\ result # -1 /\ Finds
  BY <1>1 DEF TypeInv, Finds
<1>3. result \in 0 .. Len(objects)
  BY <1>2, LenProperties
<1>4. objects' \in Seq(Object) /\ Len(objects') = Len(objects)
  BY <1>1, <1>2, <1>3, FreedIs
<1>5. Frames(stack', Len(objects'), pc' = "return")
  BY <1>1, <1>2, EmptySeq DEF Frames
<1>6. TypeInv'
  <2>1. nested' \in BOOLEAN /\ stack' = <<>> /\ result' \in -1 .. Len(objects')
    BY <1>1, <1>2, <1>4
  <2> QED
    BY <1>1, <1>2, <1>4, <1>5, <2>1, TypeKept
<1> QED
  BY <1>1, <1>2, <1>3, <1>6

LEMMA FindIs ==
    ASSUME TypeInv, UNCHANGED <<partition, statics>>, statics # Unmounted, Lookup!Find
    PROVE  /\ TypeInv' /\ pc = "find" /\ UNCHANGED <<path, nested, objects>>
           /\ objects = <<>> /\ stack = <<>>
           /\ Enters(0, path, 0, <<>>)
<1>1. /\ pc = "find" /\ UNCHANGED <<path, nested, objects>> /\ Lookup!Enter(0, path, 0, <<>>)
  BY DEF Lookup!Find, Lookup!Root
<1>2. /\ objects = <<>> /\ stack = <<>> /\ path \in Seq(Tokens) /\ Mounted
      /\ nested \in BOOLEAN /\ result \in -1 .. Len(objects) /\ objects \in Seq(Object)
  BY <1>1 DEF TypeInv
<1> DEFINE none == <<>>
           zero == 0
<1>3. Frames(none, zero, TRUE) /\ zero \in Nat /\ zero \in 0 .. zero /\ zero \in 0 .. MaxSymlinks
  BY EmptySeq, FileSystemAssumption DEF Frames, Lookup!InodeLookupAssumption
<1>4. Lookup!Enter(zero, path, zero, none)
  BY <1>1
<1>5. Len(objects') = zero
  BY <1>1, <1>2
<1> HIDE DEF none, zero
<1>6. Frames(stack', zero, pc' = "return") /\ Enters(zero, path, zero, none)
  BY <1>2, <1>3, <1>4, EnterIs
<1>7. Frames(stack', Len(objects'), pc' = "return")
  BY <1>5, <1>6, Zenon
<1>8. /\ pc' \in {"loop", "return"}
      /\ pc' = "loop" => stack' # <<>>
      /\ result' \in {-1, result}
  BY <1>6 DEF Enters, Returns, Calls, Pushes
<1>9. result' \in -1 .. Len(objects') /\ nested' \in BOOLEAN /\ objects' \in Seq(Object)
  BY <1>1, <1>2, <1>8
<1>10. TypeInv'
  BY <1>1, <1>2, <1>7, <1>8, <1>9, TypeKept
<1> QED
  BY <1>1, <1>2, <1>6, <1>10 DEF none, zero

-----------------------------------------------------------------------------
(* Every inode has one owner: a call that goes on, or the caller of the last one that *)
(* returned, until a call is given its caller's own.                                  *)

Owned(at, s, r, inodes) ==
    /\ at # "undefined" /\ Apart(s) /\ Held(s) \ {0} \subseteq Unfreed(inodes)
    /\ at = "return" /\ r > 0 => r \notin Held(s)

Balanced(at, s, r, inodes, relative) ==
    /\ at = "find" => Unfreed(inodes) = {}
    /\ at = "loop" =>
         /\ s[1].inode = 0 \/ s[1].inode \in Unfreed(inodes)
         /\ Unfreed(inodes) \subseteq Held(s)
    /\ at \in {"return", "open"} =>
         /\ r > 0 => r \in Unfreed(inodes)
         /\ Unfreed(inodes) \subseteq Held(s) \union {r}
    /\ at = "closed" => Unfreed(inodes) = {}
    /\ ~relative => Owned(at, s, r, inodes)

BalanceInv == Balanced(pc, stack, result, objects, nested)

LEMMA BalancePrimed ==
    ASSUME Balanced(pc', stack', result', objects', nested')
    PROVE  BalanceInv'
BY DEF BalanceInv, Balanced, Owned, Apart, Held, Unfreed

LEMMA HeldIs ==
    ASSUME NEW s, NEW n \in Nat, NEW waiting, Frames(s, n, waiting)
    PROVE  Held(s) \subseteq 0 .. n
<1> SUFFICES ASSUME NEW k \in 1 .. Len(s) PROVE s[k].inode \in 0 .. n
  BY DEF Held
<1>1. s \in Seq(Frame) /\ s[k].inode <= n
  BY DEF Frames
<1>2. s[k] \in Frame
  BY <1>1, LenProperties
<1> QED
  BY <1>1, <1>2 DEF Frame

LEMMA BalanceInit ==
    ASSUME pc = "find", stack = <<>>, objects = <<>>
    PROVE  BalanceInv
<1>1. Unfreed(objects) = {} /\ Held(stack) = {} /\ Apart(stack)
  BY DEF Unfreed, Held, Apart
<1> QED
  BY <1>1 DEF BalanceInv, Balanced, Owned

\* The innermost call of those that are owned.
LEMMA OwnedPopped ==
    ASSUME NEW s, NEW n \in Nat, NEW waiting, Frames(s, n, waiting), s # <<>>
    PROVE  /\ Held(s) = {s[1].inode} \union Held(Tail(s)) /\ Held(Tail(s)) \subseteq 0 .. n
           /\ s[1].inode \in 0 .. n
           /\ Apart(s) => Apart(Tail(s)) /\ (s[1].inode = 0 \/ s[1].inode \notin Held(Tail(s)))
<1>1. n \in Nat /\ n <= n
  OBVIOUS
<1>2. /\ s[1] \in Frame /\ s[1].inode <= n /\ Frames(Tail(s), n, TRUE)
      /\ Held(s) = {s[1].inode} \union Held(Tail(s))
      /\ Apart(s) => Apart(Tail(s)) /\ (s[1].inode = 0 \/ s[1].inode \notin Held(Tail(s)))
  BY <1>1, FramesPopped
<1>3. Held(Tail(s)) \subseteq 0 .. n
  <2> DEFINE yes == TRUE
  <2>1. Frames(Tail(s), n, yes)
    BY <1>2, Zenon
  <2> HIDE DEF yes
  <2> QED
    BY <2>1, HeldIs
<1> QED
  BY <1>2, <1>3 DEF Frame

LEMMA StackPopped ==
    ASSUME TypeInv, stack # <<>>
    PROVE  /\ Len(objects) \in Nat /\ objects \in Seq(Object)
           /\ Held(stack) = {stack[1].inode} \union Held(Tail(stack))
           /\ Held(Tail(stack)) \subseteq 0 .. Len(objects)
           /\ stack[1].inode \in 0 .. Len(objects)
           /\ Apart(stack) => /\ Apart(Tail(stack))
                              /\ stack[1].inode = 0 \/ stack[1].inode \notin Held(Tail(stack))
<1> DEFINE waiting == pc = "return"
           n == Len(objects)
<1>1. Frames(stack, n, waiting)
  BY Zenon DEF TypeInv
<1>2. n \in Nat /\ objects \in Seq(Object)
  BY LenProperties DEF TypeInv
<1> HIDE DEF waiting, n
<1>3. /\ Held(stack) = {stack[1].inode} \union Held(Tail(stack))
      /\ Held(Tail(stack)) \subseteq 0 .. n /\ stack[1].inode \in 0 .. n
      /\ Apart(stack) => /\ Apart(Tail(stack))
                         /\ stack[1].inode = 0 \/ stack[1].inode \notin Held(Tail(stack))
  BY <1>1, <1>2, OwnedPopped
<1> QED
  BY <1>2, <1>3 DEF n

LEMMA UnfreedIs ==
    ASSUME NEW inodes \in Seq(Object)
    PROVE  Unfreed(inodes) \subseteq 1 .. Len(inodes) /\ Len(inodes) \in Nat
BY LenProperties DEF Unfreed

LEMMA BalanceFind ==
    ASSUME TypeInv, BalanceInv, UNCHANGED <<partition, statics>>, statics # Unmounted,
           Lookup!Find
    PROVE  BalanceInv'
<1>1. /\ pc = "find" /\ UNCHANGED <<nested, objects>> /\ objects = <<>> /\ stack = <<>>
      /\ Enters(0, path, 0, <<>>)
  BY FindIs
<1> DEFINE none == <<>>
<1>2. Held(none) = {} /\ Apart(none) /\ Unfreed(objects') = {}
  BY <1>1 DEF Held, Apart, Unfreed
<1>3. Enters(0, path, 0, none)
  BY <1>1
<1> HIDE DEF none
<1>4. CASE MaxSymlinks = 0 \/ path = <<>>
  <2>1. pc' = "return" /\ result' = -1 /\ stack' = none
    BY <1>3, <1>4 DEF Enters, Returns
  <2>2. Balanced(pc', stack', result', objects', nested')
    BY <1>2, <2>1 DEF Balanced, Owned
  <2> QED
    BY <2>2, BalancePrimed
<1>5. CASE ~(MaxSymlinks = 0 \/ path = <<>>)
  <2>1. pc' = "loop" /\ Pushes(stack', Entered(0, path, 0), none)
    BY <1>3, <1>5 DEF Enters, Calls
  <2>2. /\ stack'[1].inode = 0 /\ Held(stack') = {0} \union Held(none) /\ Apart(stack')
    BY <1>2, <2>1 DEF Pushes, Entered
  <2>3. Balanced(pc', stack', result', objects', nested')
    BY <1>2, <2>1, <2>2 DEF Balanced, Owned
  <2> QED
    BY <2>3, BalancePrimed
<1> QED
  BY <1>4, <1>5

LEMMA BalanceNotFound ==
    ASSUME TypeInv, BalanceInv, UNCHANGED <<partition, statics>>, Lookup!NotFound
    PROVE  BalanceInv'
<1> DEFINE o == stack[1].inode
           t == Tail(stack)
<1>1. /\ pc = "loop" /\ UNCHANGED nested /\ objects' = Lookup!MaybeFree(objects, o)
      /\ pc' = "return" /\ result' = -1 /\ stack' = t
  BY NotFoundIs DEF Returns
<1>2. /\ Held(stack) = {o} \union Held(t) /\ o \in 0 .. Len(objects) /\ objects \in Seq(Object)
      /\ Apart(stack) => Apart(t) /\ (o = 0 \/ o \notin Held(t))
  BY <1>1, StackPopped DEF TypeInv
<1>3. Unfreed(objects') = Unfreed(objects) \ {o}
  BY <1>1, <1>2, FreedIs
<1>4. /\ Unfreed(objects) \subseteq Held(stack)
      /\ ~nested => Owned(pc, stack, result, objects)
  BY <1>1 DEF BalanceInv, Balanced
<1> HIDE DEF o, t
<1>5. ~nested => Owned("return", t, -1, objects')
  BY <1>2, <1>3, <1>4 DEF Owned
<1>6. Unfreed(objects') \subseteq Held(t)
  BY <1>2, <1>3, <1>4
<1>7. Balanced(pc', stack', result', objects', nested')
  BY <1>1, <1>5, <1>6 DEF Balanced
<1> QED
  BY <1>7, BalancePrimed

LEMMA BalanceEndOfPath ==
    ASSUME TypeInv, BalanceInv, UNCHANGED <<partition, statics>>, Lookup!EndOfPath
    PROVE  BalanceInv'
<1> DEFINE o == stack[1].inode
           t == Tail(stack)
<1>1. /\ pc = "loop" /\ UNCHANGED <<nested, objects>>
      /\ pc' = "return" /\ result' = o /\ stack' = t
  BY EndOfPathIs DEF Returns
<1>2. /\ Held(stack) = {o} \union Held(t) /\ o \in 0 .. Len(objects)
      /\ Apart(stack) => Apart(t) /\ (o = 0 \/ o \notin Held(t))
  BY <1>1, StackPopped DEF TypeInv
<1>4. /\ o = 0 \/ o \in Unfreed(objects)
      /\ Unfreed(objects) \subseteq Held(stack)
      /\ ~nested => Owned(pc, stack, result, objects)
  BY <1>1 DEF BalanceInv, Balanced
<1> HIDE DEF o, t
<1>5. ~nested => Owned("return", t, o, objects)
  BY <1>2, <1>4 DEF Owned
<1>6. Balanced(pc', stack', result', objects', nested')
  BY <1>1, <1>2, <1>4, <1>5 DEF Balanced
<1> QED
  BY <1>6, BalancePrimed

LEMMA BalanceFollowLink ==
    ASSUME TypeInv, BalanceInv, UNCHANGED <<partition, statics>>, Lookup!FollowLink
    PROVE  BalanceInv'
<1> DEFINE o == stack[1].inode
           t == Tail(stack)
           n == Len(objects)
           links == stack[1].symlinks + 1
           callers == <<Waiting>> \o t
<1>1. /\ pc = "loop"
      /\ Pushes(callers, Waiting, t) /\ Enters(o, Target, links, callers)
      /\ stack # <<>> /\ Leads \in DOMAIN Contents /\ Waiting.inode = o
  <2>1. /\ pc = "loop" /\ Leads # 0
        /\ Pushes(callers, Waiting, t) /\ Enters(o, Target, links, callers)
    BY FollowLinkIs
  <2>2. stack # <<>> /\ stack[1] \in Frame /\ Leads \in DOMAIN Contents
    BY <2>1, LoopIs
  <2>3. Waiting.inode = o
    BY <2>2 DEF Waiting, Frame
  <2> QED
    BY <2>1, <2>2, <2>3
<1>2. nested' = (nested \/ (pc' = "loop" /\ Head(stack').inode # 0))
  BY FollowLinkIs
<1>3. /\ Held(stack) = {o} \union Held(t) /\ o \in 0 .. n /\ n \in Nat /\ objects \in Seq(Object)
      /\ Apart(stack) => Apart(t) /\ (o = 0 \/ o \notin Held(t))
  BY <1>1, StackPopped
<1>4. Unfreed(objects') = Unfreed(objects)
  <2>1. PICK block \in Lookup!FreeBlocks(objects) :
          objects' = Lookup!MaybeFree(Lookup!Allocated(objects, block, Leads), block)
    BY FollowLinkIs
  <2> DEFINE all == Lookup!Allocated(objects, block, Leads)
  <2>2. Takes(objects, block, Leads, all)
    BY <1>1, <1>3, AllocatedIs
  <2>3. objects' = Lookup!MaybeFree(all, block)
    BY <2>1
  <2> HIDE DEF all
  <2>4. /\ all \in Seq(Object) /\ block \in 0 .. Len(all)
        /\ block \notin Unfreed(objects) /\ Unfreed(all) = Unfreed(objects) \union {block}
    BY <2>2 DEF Takes
  <2>5. Unfreed(objects') = Unfreed(all) \ {block}
    BY <2>3, <2>4, FreedIs
  <2> QED
    BY <2>4, <2>5
<1>5. /\ o = 0 \/ o \in Unfreed(objects)
      /\ Unfreed(objects) \subseteq Held(stack)
      /\ ~nested => Owned(pc, stack, result, objects)
  BY <1>1 DEF BalanceInv, Balanced
<1>6. Held(callers) = Held(stack) /\ (Apart(stack) => Apart(callers))
  BY <1>1, <1>3 DEF Pushes
<1> HIDE DEF o, t, n, callers, links
<1>7. CASE links = MaxSymlinks \/ Target = <<>>
  <2>1. pc' = "return" /\ result' = -1 /\ stack' = callers
    BY <1>1, <1>7 DEF Enters, Returns
  <2>2. ~nested' => ~nested
    BY <1>2
  <2>3. ~nested' => Owned(pc', stack', result', objects')
    BY <1>4, <1>5, <1>6, <2>1, <2>2 DEF Owned
  <2>4. Balanced(pc', stack', result', objects', nested')
    BY <1>4, <1>5, <1>6, <2>1, <2>3 DEF Balanced
  <2> QED
    BY <2>4, BalancePrimed
<1>8. CASE ~(links = MaxSymlinks \/ Target = <<>>)
  <2> DEFINE e == Entered(o, Target, links)
  <2>1. pc' = "loop" /\ Pushes(stack', e, callers)
    BY <1>1, <1>8 DEF Enters, Calls
  <2>2. e.inode = 0 \/ e.inode = o
    BY DEF Entered
  <2> HIDE DEF e
  <2>3. /\ stack'[1] = e /\ Head(stack') = e
        /\ Held(stack') = {e.inode} \union Held(callers)
        /\ Apart(callers) /\ e.inode = 0 => Apart(stack')
    BY <2>1 DEF Pushes
  <2>4. ~nested' => ~nested /\ e.inode = 0
    BY <1>2, <2>1, <2>3
  <2>5. ~nested' => Owned(pc', stack', result', objects')
    BY <1>4, <1>5, <1>6, <2>1, <2>3, <2>4 DEF Owned
  <2>7. Unfreed(objects') \subseteq Held(stack')
    BY <1>4, <1>5, <1>6, <2>3
  <2>8. Balanced(pc', stack', result', objects', nested')
    BY <1>4, <1>5, <2>1, <2>2, <2>3, <2>5, <2>7 DEF Balanced
  <2> QED
    BY <2>8, BalancePrimed
<1> QED
  BY <1>7, <1>8

\* The bootloader stops, and every inode stays where it is.
LEMMA BalanceLinkUnreadable ==
    ASSUME TypeInv, BalanceInv, UNCHANGED <<partition, statics>>, Lookup!LinkUnreadable
    PROVE  BalanceInv'
<1>1. pc = "loop" /\ pc' = "crashed" /\ UNCHANGED <<stack, result, objects, nested>>
  BY LinkUnreadableIs
<1>2. ~nested => Owned(pc, stack, result, objects)
  BY DEF BalanceInv, Balanced
<1>3. ~nested => Owned(pc', stack', result', objects')
  BY <1>1, <1>2 DEF Owned
<1>4. Balanced(pc', stack', result', objects', nested')
  BY <1>1, <1>3 DEF Balanced
<1> QED
  BY <1>4, BalancePrimed

\* The directory of the call that waits was given to another: a relative link.
LEMMA BalanceFreedTwice ==
    ASSUME TypeInv, BalanceInv, UNCHANGED <<partition, statics>>, Lookup!FreedTwice
    PROVE  BalanceInv'
<1> DEFINE o == stack[1].inode
<1>1. /\ pc = "return" /\ stack # <<>> /\ pc' = "undefined" /\ UNCHANGED nested
      /\ o # 0 /\ (o \notin Unfreed(objects) \/ o = result)
  BY FreedTwiceIs DEF Dangles
<1>2. o \in Held(stack) /\ o \in 0 .. Len(objects) /\ Len(objects) \in Nat
  BY <1>1, StackPopped
<1>3. nested
  <2> SUFFICES ASSUME ~nested PROVE FALSE
    OBVIOUS
  <2>1. Owned(pc, stack, result, objects)
    BY DEF BalanceInv, Balanced
  <2> HIDE DEF o
  <2>2. o \in Unfreed(objects) /\ o > 0
    BY <1>1, <1>2, <2>1 DEF Owned
  <2> QED
    BY <1>1, <1>2, <2>1, <2>2 DEF Owned
<1>4. Balanced(pc', stack', result', objects', nested')
  BY <1>1, <1>3 DEF Balanced
<1> QED
  BY <1>4, BalancePrimed

\* A call goes on from an inode nobody else has, or returns it.
LEMMA BalanceGoesOn ==
    ASSUME NEW object, NEW p, GoesOn(object, p), NEW U,
           Unfreed(objects') = U, object > 0 => object \in U,
           U \subseteq Held(Tail(stack)) \union {object}, object \in Nat,
           ~nested' => /\ Apart(Tail(stack)) /\ Held(Tail(stack)) \ {0} \subseteq U
                       /\ object > 0 => object \notin Held(Tail(stack)),
           stack[1] \in Frame
    PROVE  BalanceInv'
<1> DEFINE t == Tail(stack)
<1>3. /\ U \subseteq Held(t) \union {object}
      /\ ~nested' => /\ Apart(t) /\ Held(t) \ {0} \subseteq U
                     /\ object > 0 => object \notin Held(t)
  OBVIOUS
<1> HIDE DEF t
<1>1. CASE p = <<>>
  <2>1. pc' = "return" /\ result' = object /\ stack' = t
    BY <1>1 DEF GoesOn, Returns, t
  <2>2. ~nested' => Owned(pc', stack', result', objects')
    BY <1>3, <2>1 DEF Owned
  <2>3. Balanced(pc', stack', result', objects', nested')
    BY <1>3, <2>1, <2>2 DEF Balanced
  <2> QED
    BY <2>3, BalancePrimed
<1>2. CASE p # <<>>
  <2> DEFINE e == Moved(object, p)
  <2>1. pc' = "loop" /\ Pushes(stack', e, t)
    BY <1>2 DEF GoesOn, Calls, t
  <2>2. e.inode = object
    BY DEF Moved, Frame
  <2> HIDE DEF e
  <2>3. /\ stack'[1].inode = object
        /\ Held(stack') = {object} \union Held(t)
        /\ Apart(t) /\ (object = 0 \/ object \notin Held(t)) => Apart(stack')
    BY <2>1, <2>2 DEF Pushes
  <2>4. object = 0 \/ object > 0
    OBVIOUS
  <2>5. ~nested' => Owned(pc', stack', result', objects')
    BY <1>3, <2>1, <2>3, <2>4 DEF Owned
  <2>6. Balanced(pc', stack', result', objects', nested')
    BY <1>3, <2>1, <2>3, <2>4, <2>5 DEF Balanced
  <2> QED
    BY <2>6, BalancePrimed
<1> QED
  BY <1>1, <1>2

LEMMA BalanceDescend ==
    ASSUME TypeInv, BalanceInv, UNCHANGED <<partition, statics>>, Lookup!Descend
    PROVE  BalanceInv'
<1> DEFINE o == stack[1].inode
           t == Tail(stack)
           n == Len(objects)
           r == Tail(Rest)
<1>1. pc = "loop" /\ UNCHANGED nested /\ Leads # 0
  BY DescendIs
<1>7. PICK block \in Lookup!FreeBlocks(objects) :
        /\ objects' = Lookup!MaybeFree(Lookup!Allocated(objects, block, Leads), o)
        /\ GoesOn(block, r)
  BY DescendIs
<1>8. stack # <<>> /\ Leads \in DOMAIN Contents /\ stack[1] \in Frame
  BY <1>1, LoopIs
<1>2. /\ Held(stack) = {o} \union Held(t) /\ o \in 0 .. n /\ n \in Nat /\ objects \in Seq(Object)
      /\ Apart(stack) => Apart(t) /\ (o = 0 \/ o \notin Held(t))
  BY <1>8, StackPopped
<1>3. /\ o = 0 \/ o \in Unfreed(objects)
      /\ Unfreed(objects) \subseteq Held(stack)
      /\ ~nested => Owned(pc, stack, result, objects)
  BY <1>1 DEF BalanceInv, Balanced
<1> DEFINE all == Lookup!Allocated(objects, block, Leads)
<1>9. Takes(objects, block, Leads, all)
  BY <1>2, <1>8, AllocatedIs
<1>10. objects' = Lookup!MaybeFree(all, o) /\ GoesOn(block, r)
  BY <1>7
<1> HIDE DEF all, o, t, n, r
<1>11. /\ all \in Seq(Object) /\ block \in 1 .. Len(all) /\ Len(all) \in Nat
       /\ n <= Len(all)
       /\ block \notin Unfreed(objects) /\ Unfreed(all) = Unfreed(objects) \union {block}
  BY <1>9 DEF Takes, n
<1> DEFINE U == (Unfreed(objects) \union {block}) \ {o}
<1>4. Unfreed(objects') = U
  <2>1. o \in 0 .. Len(all)
    BY <1>2, <1>11
  <2> QED
    BY <1>10, <1>11, <2>1, FreedIs
<1>5. block \in Nat /\ block > 0 /\ block # o
  BY <1>3, <1>11
<1>6. /\ block \in U /\ U \subseteq Held(t) \union {block}
      /\ ~nested' => /\ Apart(t) /\ Held(t) \ {0} \subseteq U
                     /\ block \notin Held(t)
  BY <1>1, <1>2, <1>3, <1>5, <1>11 DEF Owned
<1> HIDE DEF U
<1> QED
  BY <1>4, <1>5, <1>6, <1>8, <1>10, BalanceGoesOn DEF t

LEMMA BalanceLinkFollowed ==
    ASSUME TypeInv, BalanceInv, UNCHANGED <<partition, statics>>, Lookup!LinkFollowed
    PROVE  BalanceInv'
<1> DEFINE o == stack[1].inode
           t == Tail(stack)
           r == Tail(stack[1].path)
<1>1. /\ pc = "return" /\ stack # <<>> /\ UNCHANGED nested
      /\ objects' = Lookup!MaybeFree(objects, o)
      /\ IF result = -1 THEN Returns(-1, t) ELSE GoesOn(result, r)
      /\ o = 0 \/ (o \in Unfreed(objects) /\ o # result)
  BY LinkFollowedIs DEF Dangles
<1>2. /\ Held(stack) = {o} \union Held(t) /\ o \in 0 .. Len(objects) /\ objects \in Seq(Object)
      /\ Apart(stack) => Apart(t) /\ (o = 0 \/ o \notin Held(t))
      /\ result \in -1 .. Len(objects) /\ Len(objects) \in Nat /\ stack[1] \in Frame
  BY <1>1, StackPopped, WaitingIs DEF TypeInv
<1>3. /\ result > 0 => result \in Unfreed(objects)
      /\ Unfreed(objects) \subseteq Held(stack) \union {result}
      /\ ~nested => Owned(pc, stack, result, objects)
  BY <1>1 DEF BalanceInv, Balanced
<1>4. Unfreed(objects') = Unfreed(objects) \ {o}
  BY <1>1, <1>2, FreedIs
<1> DEFINE U == Unfreed(objects) \ {o}
<1>5. /\ U \subseteq Held(t) \union {result}
      /\ result > 0 => result \in U
      /\ ~nested' => /\ Apart(t) /\ Held(t) \ {0} \subseteq U
                     /\ result > 0 => result \notin Held(t)
  <2> HIDE DEF o, t, r
  <2>1. /\ U \subseteq Held(t) \union {result}
        /\ result > 0 => result \in U
    BY <1>1, <1>2, <1>3
  <2>2. ~nested' => /\ Apart(t) /\ Held(t) \ {0} \subseteq U
                    /\ result > 0 => result \notin Held(t)
    BY <1>1, <1>2, <1>3 DEF Owned
  <2> QED
    BY <2>1, <2>2
<1>6. Unfreed(objects') = U
  BY <1>4
<1>7. CASE result = -1
  <2>1. pc' = "return" /\ result' = -1 /\ stack' = t
    BY <1>1, <1>7 DEF Returns
  <2>2. U \subseteq Held(t) \union {-1}
    BY <1>5, <1>7
  <2> HIDE DEF U, t
  <2>3. Balanced(pc', stack', result', objects', nested')
    BY <1>5, <1>6, <2>1, <2>2 DEF Balanced, Owned
  <2> QED
    BY <2>3, BalancePrimed
<1>8. CASE result # -1
  <2>1. GoesOn(result, r) /\ result \in Nat
    BY <1>1, <1>2, <1>8
  <2> HIDE DEF U, r
  <2> QED
    BY <1>2, <1>5, <1>6, <2>1, BalanceGoesOn
<1> QED
  BY <1>7, <1>8

LEMMA BalanceFound ==
    ASSUME TypeInv, BalanceInv, UNCHANGED <<partition, statics>>, Lookup!Found
    PROVE  BalanceInv'
<1>1. /\ pc = "return" /\ stack = <<>> /\ UNCHANGED <<nested, stack>>
      /\ Finds => pc' = "open" /\ UNCHANGED <<objects, result>>
      /\ ~Finds => /\ pc' = "closed" /\ result' = -1
                   /\ objects' = IF result = -1 THEN objects
                                 ELSE Lookup!MaybeFree(objects, result)
  BY FoundIs
<1>2. /\ result \in -1 .. Len(objects) /\ Len(objects) \in Nat /\ objects \in Seq(Object)
  BY <1>1, WaitingIs DEF TypeInv
<1>3. /\ result > 0 => result \in Unfreed(objects)
      /\ Unfreed(objects) \subseteq Held(stack) \union {result}
  BY <1>1 DEF BalanceInv, Balanced
<1>4. Held(stack) = {} /\ Apart(stack)
  BY <1>1 DEF Held, Apart
<1>7. Owned(pc', stack', result', objects')
  BY <1>1, <1>4 DEF Owned
<1>5. CASE Finds
  <2>1. Balanced(pc', stack', result', objects', nested')
    BY <1>1, <1>3, <1>5, <1>7 DEF Balanced
  <2> QED
    BY <2>1, BalancePrimed
<1>6. CASE ~Finds
  <2>1. Unfreed(objects') = {}
    <3>1. CASE result = -1
      <4>1. Unfreed(objects) = {}
        BY <1>2, <1>3, <1>4, <3>1, UnfreedIs
      <4> QED
        BY <1>1, <1>6, <3>1, <4>1
    <3>2. CASE result # -1
      <4>1. result \in 0 .. Len(objects)
        BY <1>2, <3>2
      <4>2. Unfreed(objects') = Unfreed(objects) \ {result}
        BY <1>1, <1>2, <1>6, <3>2, <4>1, FreedIs
      <4> QED
        BY <1>3, <1>4, <4>2
    <3> QED
      BY <3>1, <3>2
  <2>2. Balanced(pc', stack', result', objects', nested')
    BY <1>1, <1>6, <1>7, <2>1 DEF Balanced
  <2> QED
    BY <2>2, BalancePrimed
<1> QED
  BY <1>5, <1>6

LEMMA BalanceClose ==
    ASSUME TypeInv, BalanceInv, UNCHANGED <<partition, statics>>, Lookup!Close
    PROVE  BalanceInv'
<1>1. /\ pc = "open" /\ pc' = "closed" /\ result \in 0 .. Len(objects)
      /\ UNCHANGED <<nested, stack, result>> /\ objects' = Lookup!MaybeFree(objects, result)
  BY CloseIs
<1>2. Len(objects) \in Nat /\ objects \in Seq(Object) /\ stack = <<>>
  BY <1>1, LenProperties DEF TypeInv
<1>3. Unfreed(objects) \subseteq Held(stack) \union {result}
  BY <1>1 DEF BalanceInv, Balanced
<1>4. Held(stack) = {} /\ Apart(stack)
  BY <1>2 DEF Held, Apart
<1>5. Unfreed(objects') = Unfreed(objects) \ {result}
  BY <1>1, <1>2, FreedIs
<1>6. Unfreed(objects') = {}
  BY <1>3, <1>4, <1>5
<1>7. Owned(pc', stack', result', objects')
  BY <1>1, <1>4 DEF Owned
<1>8. Balanced(pc', stack', result', objects', nested')
  BY <1>1, <1>6, <1>7 DEF Balanced
<1> QED
  BY <1>8, BalancePrimed

-----------------------------------------------------------------------------
(* The specification. *)

LEMMA FindSteps ==
    ASSUME TypeInv, Find
    PROVE  TypeInv' /\ pc # "open" /\ UNCHANGED readVars /\ UNCHANGED <<partition, statics>>
<1>1. UNCHANGED <<partition, statics>> /\ UNCHANGED readVars /\ statics # Unmounted
  BY DEF Find
<1>2. CASE Lookup!Find
  BY <1>1, <1>2, FindIs
<1>3. CASE Lookup!NotFound
  BY <1>1, <1>3, NotFoundIs
<1>4. CASE Lookup!EndOfPath
  BY <1>1, <1>4, EndOfPathIs
<1>5. CASE Lookup!FollowLink
  BY <1>1, <1>5, FollowLinkIs
<1>6. CASE Lookup!Descend
  BY <1>1, <1>6, DescendIs
<1>7. CASE Lookup!LinkFollowed
  BY <1>1, <1>7, LinkFollowedIs
<1>8. CASE Lookup!Found
  BY <1>1, <1>8, FoundIs
<1>9. CASE Lookup!LinkUnreadable
  BY <1>1, <1>9, LinkUnreadableIs
<1>10. CASE Lookup!FreedTwice
  BY <1>1, <1>10, FreedTwiceIs
<1> QED
  BY <1>2, <1>3, <1>4, <1>5, <1>6, <1>7, <1>8, <1>9, <1>10 DEF Find

\* Steps that are none of the lookup's.
LEMMA Elsewhere ==
    ASSUME TypeInv, UNCHANGED <<partition, lookupVars>>,
           statics' # Unmounted => Mounted', pc # "find" => Mounted'
    PROVE  TypeInv'
<1>1. /\ UNCHANGED <<partition, path, pc, stack, result, objects, nested>>
  BY DEF lookupVars
<1>2. Contents' = Contents /\ Object' = Object
  BY <1>1 DEF Contents, Object
<1>3. Frames(stack, Len(objects), pc = "return")'
  BY <1>1 DEF Frames, Frame, TypeInv
<1>4. pc' = "open" => result' # -1 /\ Contents[Lookup!Number(result)].type' = "reg"
  BY <1>1 DEF TypeInv, Contents, Lookup!Number
<1> QED
  BY <1>1, <1>2, <1>3, <1>4 DEF TypeInv

LEMMA TypeInit ==
    ASSUME Init
    PROVE  TypeInv
<1>1. /\ partition \in Partitions /\ statics = Unmounted /\ path \in Paths /\ pc = "find"
      /\ stack = <<>> /\ result = -1 /\ objects = <<>> /\ nested = FALSE
  BY DEF Init, Lookup!Init, Lookup!Null
<1>2. path \in Seq(Tokens)
  BY <1>1, FileSystemAssumption DEF Lookup!InodeLookupAssumption
<1>3. objects \in Seq(Object) /\ Len(objects) = 0
  BY <1>1, EmptySeq
<1>4. Frames(stack, Len(objects), pc = "return")
  BY <1>1, EmptySeq DEF Frames
<1>5. result \in -1 .. Len(objects)
  <2>1. result = -1
    BY <1>1
  <2> QED
    BY <1>3, <2>1
<1>6. nested \in BOOLEAN
  BY <1>1
<1> QED
  BY <1>1, <1>2, <1>3, <1>4, <1>5, <1>6 DEF TypeInv

LEMMA TypeInitialize ==
    ASSUME TypeInv, Initialize
    PROVE  TypeInv'
<1>1. UNCHANGED <<partition, lookupVars>> /\ partition' = partition
  BY DEF Initialize
<1>2. Mounted'
  BY <1>1 DEF Initialize, Mounted
<1> QED
  BY <1>1, <1>2, Elsewhere

LEMMA TypeNext ==
    ASSUME TypeInv, [Next]_vars
    PROVE  TypeInv'
<1>1. CASE Initialize
  BY <1>1, TypeInitialize
<1>2. CASE Find
  BY <1>2, FindSteps
<1>3. CASE Read \/ UNCHANGED vars
  <2>1. UNCHANGED <<partition, statics, lookupVars>>
    BY <1>3 DEF Read, vars
  <2>2. Mounted' = Mounted
    BY <2>1 DEF Mounted
  <2>3. UNCHANGED <<partition, lookupVars>> /\ statics' = statics /\ pc' = pc
    BY <2>1 DEF lookupVars
  <2> QED
    BY <2>2, <2>3, Elsewhere DEF TypeInv
<1>4. CASE Free
  BY <1>4, CloseIs DEF Free
<1> QED
  BY <1>1, <1>2, <1>3, <1>4 DEF Next

\* The state of a lookup has its type: every call is at a directory or link that was
\* allocated, with a name in front when it waits for another, and less than MaxSymlinks
\* deep; the file that is open is a regular file of the partition.
THEOREM TypeCorrect == Spec => []TypeInv
<1>1. Init => TypeInv
  BY TypeInit
<1>2. TypeInv /\ [Next]_vars => TypeInv'
  BY TypeNext
<1> QED
  BY <1>1, <1>2, PTL DEF Spec

LEMMA BalanceSame ==
    ASSUME BalanceInv, UNCHANGED lookupVars
    PROVE  BalanceInv'
<1>1. Balanced(pc', stack', result', objects', nested')
  BY DEF BalanceInv, lookupVars
<1> QED
  BY <1>1, BalancePrimed

LEMMA BalanceNext ==
    ASSUME TypeInv, BalanceInv, [Next]_vars
    PROVE  BalanceInv'
<1>1. CASE Initialize \/ Read \/ UNCHANGED vars
  <2>1. UNCHANGED lookupVars
    BY <1>1 DEF Initialize, Read, vars
  <2> QED
    BY <2>1, BalanceSame
<1>2. CASE Find
  <2>1. UNCHANGED <<partition, statics>> /\ statics # Unmounted
    BY <1>2 DEF Find
  <2>2. CASE Lookup!Find
    BY <2>1, <2>2, BalanceFind
  <2>3. CASE Lookup!NotFound
    BY <2>1, <2>3, BalanceNotFound
  <2>4. CASE Lookup!EndOfPath
    BY <2>1, <2>4, BalanceEndOfPath
  <2>5. CASE Lookup!FollowLink
    BY <2>1, <2>5, BalanceFollowLink
  <2>6. CASE Lookup!Descend
    BY <2>1, <2>6, BalanceDescend
  <2>7. CASE Lookup!LinkFollowed
    BY <2>1, <2>7, BalanceLinkFollowed
  <2>8. CASE Lookup!Found
    BY <2>1, <2>8, BalanceFound
  <2>9. CASE Lookup!LinkUnreadable
    BY <2>1, <2>9, BalanceLinkUnreadable
  <2>10. CASE Lookup!FreedTwice
    BY <2>1, <2>10, BalanceFreedTwice
  <2> QED
    BY <1>2, <2>2, <2>3, <2>4, <2>5, <2>6, <2>7, <2>8, <2>9, <2>10 DEF Find
<1>3. CASE Free
  BY <1>3, BalanceClose DEF Free
<1> QED
  BY <1>1, <1>2, <1>3 DEF Next

LEMMA BalanceIs ==
    ASSUME TypeInv, BalanceInv
    PROVE  InodesBalanced
<1>1. objects \in Seq(Object) /\ Len(objects) \in Nat /\ DOMAIN objects = 1 .. Len(objects)
  BY LenProperties DEF TypeInv
<1>2. Lookup!NoInodeLeaked
  <2> SUFFICES ASSUME pc = "closed", NEW k \in 1 .. Len(objects) PROVE ~objects[k].live
    BY <1>1 DEF Lookup!NoInodeLeaked
  <2>1. k \notin Unfreed(objects)
    BY DEF BalanceInv, Balanced
  <2> QED
    BY <2>1 DEF Unfreed
<1>3. pc = "loop" /\ Lookup!call.inode # 0 => objects[Lookup!call.inode].live
  <2> SUFFICES ASSUME pc = "loop", Lookup!call.inode # 0
               PROVE  objects[Lookup!call.inode].live
    OBVIOUS
  <2>1. Lookup!call = stack[1]
    BY LoopIs DEF Lookup!call
  <2>2. stack[1].inode \in Unfreed(objects)
    BY <2>1 DEF BalanceInv, Balanced
  <2> QED
    BY <2>1, <2>2 DEF Unfreed
<1>4. pc \in {"return", "open"} /\ result > 0 => objects[result].live
  BY DEF BalanceInv, Balanced, Unfreed
<1>5. ASSUME ~nested
      PROVE  /\ pc # "undefined"
             /\ \A k \in DOMAIN stack : stack[k].inode # 0 =>
                  /\ objects[stack[k].inode].live
                  /\ pc = "return" => stack[k].inode # result
                  /\ \A j \in DOMAIN stack : stack[j].inode = stack[k].inode => j = k
  <2>1. Owned(pc, stack, result, objects)
    BY <1>5 DEF BalanceInv, Balanced
  <2>2. DOMAIN stack = 1 .. Len(stack)
    BY LenProperties DEF TypeInv, Frames
  <2>3. Held(stack) \subseteq Nat
    <3> DEFINE waiting == pc = "return"
               n == Len(objects)
    <3>1. Frames(stack, n, waiting) /\ n \in Nat
      BY <1>1, Zenon DEF TypeInv
    <3> HIDE DEF n, waiting
    <3> QED
      BY <3>1, HeldIs
  <2>4. ASSUME NEW k \in 1 .. Len(stack), stack[k].inode # 0
        PROVE  /\ objects[stack[k].inode].live
               /\ pc = "return" => stack[k].inode # result
               /\ \A j \in 1 .. Len(stack) : stack[j].inode = stack[k].inode => j = k
    <3>1. stack[k].inode \in Held(stack)
      BY DEF Held
    <3>2. objects[stack[k].inode].live
      BY <2>1, <2>4, <3>1 DEF Owned, Unfreed
    <3>3. pc = "return" => stack[k].inode # result
      BY <2>1, <2>3, <2>4, <3>1 DEF Owned
    <3>4. \A j \in 1 .. Len(stack) : stack[j].inode = stack[k].inode => j = k
      BY <2>1, <2>4 DEF Owned, Apart
    <3> QED
      BY <3>2, <3>3, <3>4
  <2> QED
    BY <2>1, <2>2, <2>4 DEF Owned
<1>6. Lookup!FreedOnce
  BY <1>3, <1>4, <1>5, Zenon DEF Lookup!FreedOnce, Lookup!Root
<1> QED
  BY <1>2, <1>6 DEF InodesBalanced

\* The blocks that BiFindInode and BlFsFind allocate are all free when the file is closed,
\* whatever the partition holds and whichever free blocks the heap hands out.  The inode a
\* call looks at and the one that is returned are never free, and unless a relative link
\* in a directory other than the root was followed each has one owner: no free block is
\* freed, and no call frees what another one uses.
THEOREM EveryInodeFreed == Spec => []InodesBalanced
<1>1. Init => TypeInv /\ BalanceInv
  BY TypeInit, BalanceInit DEF Init, Lookup!Init
<1>2. TypeInv /\ BalanceInv /\ [Next]_vars => (TypeInv /\ BalanceInv)'
  BY TypeNext, BalanceNext
<1>3. TypeInv /\ BalanceInv => InodesBalanced
  BY BalanceIs
<1> QED
  BY <1>1, <1>2, <1>3, PTL DEF Spec

-----------------------------------------------------------------------------
(* Where paths lead: one name or slash at a time. *)

Somewhere == DOMAIN Contents \union {0}

LinkTables == [DOMAIN Contents -> [DOMAIN Contents -> Somewhere]]

Turn(name, x, links) == IF name = Slash THEN x ELSE Written!Step(x, name, links)

Trace(v, p, x, links) ==
    v[0] = x /\ \A k \in 1 .. Len(p) : v[k] = Turn(p[k], v[k - 1], links)

Ends(p, x, links) ==
    LET at[k \in 0 .. Len(p)] == IF k = 0 THEN x ELSE Turn(p[k], at[k - 1], links)
    IN at[Len(p)]

Checked(p, to) ==
    IF to # 0 /\ p[Len(p)] = Slash /\ Contents[to].type # "dir" THEN 0 ELSE to

LEMMA WalkIs ==
    ASSUME NEW x, NEW p, NEW links
    PROVE  Written!Walk(x, p, links) = Checked(p, Ends(p, x, links))
BY Zenon DEF Written!Walk, Ends, Turn, Contents, Written!Last, Checked

\* A directory's name leads to its entry, or through the table if that is a link.
LEMMA StepIs ==
    ASSUME NEW x, NEW name, NEW links
    PROVE  LET found == EntryNamed(Contents[x].entries, name)
           IN Written!Step(x, name, links) =
                IF x = 0 \/ Contents[x].type # "dir" \/ found = 0 THEN 0
                ELSE IF Contents[found].type = "sym" THEN links[x][found] ELSE found
<1>1. Written!FindEntry(Contents[x], name) = EntryNamed(Contents[x].entries, name)
  BY FindEntryIs
<1> QED
  BY <1>1 DEF Written!Step, Contents

LEMMA TurnType ==
    ASSUME partition \in Partitions, NEW x \in Somewhere, NEW name, NEW links \in LinkTables
    PROVE  Turn(name, x, links) \in Somewhere /\ Written!Step(x, name, links) \in Somewhere
<1> DEFINE found == EntryNamed(Contents[x].entries, name)
<1>1. x # 0 /\ found # 0 => found \in DOMAIN Contents
  <2> SUFFICES ASSUME x # 0, found # 0 PROVE found \in DOMAIN Contents
    OBVIOUS
  <2>1. PICK k \in 1 .. Len(Contents[x].entries) : found = Contents[x].entries[k].inode
    BY FindEntryIs
  <2>2. Contents[x].entries[k].inode \in DOMAIN Contents \union {0}
    BY VolumeType DEF Somewhere
  <2> QED
    BY <2>1, <2>2
<1>2. Written!Step(x, name, links) =
        IF x = 0 \/ Contents[x].type # "dir" \/ found = 0 THEN 0
        ELSE IF Contents[found].type = "sym" THEN links[x][found] ELSE found
  BY StepIs
<1> HIDE DEF found
<1>3. x # 0 /\ found # 0 => links[x][found] \in Somewhere
  BY <1>1 DEF LinkTables, Somewhere
<1>4. Written!Step(x, name, links) \in Somewhere
  BY <1>1, <1>2, <1>3 DEF Somewhere
<1> QED
  BY <1>4 DEF Turn

LEMMA TraceIs ==
    ASSUME partition \in Partitions, NEW p \in Seq(Tokens), NEW x \in Somewhere,
           NEW links \in LinkTables
    PROVE  /\ \E v \in [Nat -> Somewhere] : Trace(v, p, x, links)
           /\ \A v : Trace(v, p, x, links) => Ends(p, x, links) = v[Len(p)]
<1> DEFINE L == Len(p)
           S == Somewhere
           step == [k \in Nat |-> [y \in S |-> IF k \in 1 .. L THEN Turn(p[k], y, links) ELSE y]]
<1>1. L \in Nat
  BY LenProperties
<1>2. step \in [Nat -> [S -> S]]
  BY TurnType
<1>3. PICK v \in [Nat -> S] : v[0] = x /\ \A n \in Nat : v[n + 1] = step[n + 1][v[n]]
  <2> HIDE DEF step, S
  <2>0. x \in S
    BY DEF S
  <2>1. \E f : Runs(f, S, x, step)
    BY <1>2, <2>0, TypedRecursion
  <2> QED
    BY <2>1 DEF Runs
<1>4. Trace(v, p, x, links)
  <2> SUFFICES ASSUME NEW k \in 1 .. L PROVE v[k] = Turn(p[k], v[k - 1], links)
    BY <1>3 DEF Trace
  <2>1. k - 1 \in Nat /\ (k - 1) + 1 = k /\ k \in Nat
    BY <1>1
  <2>2. v[k] = step[k][v[k - 1]] /\ v[k - 1] \in S
    BY <1>3, <2>1
  <2> QED
    BY <2>1, <2>2
<1> DEFINE Def(h) == [k \in 0 .. L |-> IF k = 0 THEN x ELSE Turn(p[k], h[k - 1], links)]
           at == CHOOSE h : h = Def(h)
           g == [k \in 0 .. L |-> v[k]]
<1>5. g = Def(g)
  <2>1. \A k \in 0 .. L : k = 0 \/ (k \in 1 .. L /\ k - 1 \in 0 .. L)
    BY <1>1
  <2> HIDE DEF step
  <2> QED
    BY <1>4, <2>1 DEF Trace
<1>6. at = Def(at)
  <2> HIDE DEF g
  <2>1. \E h : h = Def(h)
    BY <1>5
  <2> HIDE DEF Def
  <2> QED
    BY <2>1
<1>7. Ends(p, x, links) = at[L]
  BY Zenon DEF Ends
<1> HIDE DEF at, g, step
<1>8. ASSUME NEW w, Trace(w, p, x, links) PROVE at[L] = w[L]
  <2> DEFINE T == {n \in Nat : n <= L => at[n] = w[n]}
  <2>1. 0 \in T
    <3>1. 0 \in 0 .. L
      BY <1>1
    <3> QED
      BY <1>6, <1>8, <3>1 DEF Trace
  <2>2. \A n \in T : n + 1 \in T
    <3> SUFFICES ASSUME NEW n \in T, n + 1 <= L PROVE at[n + 1] = w[n + 1]
      OBVIOUS
    <3>1. n + 1 \in 1 .. L /\ n + 1 \in 0 .. L /\ n + 1 # 0 /\ (n + 1) - 1 = n /\ at[n] = w[n]
      BY <1>1
    <3>2. at[n + 1] = Turn(p[n + 1], at[n], links)
      BY <1>6, <3>1
    <3>3. w[n + 1] = Turn(p[n + 1], w[n], links)
      BY <1>8, <3>1 DEF Trace
    <3> QED
      BY <3>1, <3>2, <3>3
  <2>3. \A n \in Nat : n \in T
    <3>1. T \in SUBSET Nat
      OBVIOUS
    <3> HIDE DEF T
    <3> QED
      BY <2>1, <2>2, <3>1, Induction
  <2> QED
    BY <1>1, <2>3
<1> QED
  BY <1>3, <1>4, <1>7, <1>8

LEMMA TraceEnds ==
    ASSUME partition \in Partitions, NEW p \in Seq(Tokens), NEW x \in Somewhere,
           NEW links \in LinkTables, NEW v, Trace(v, p, x, links)
    PROVE  Ends(p, x, links) = v[Len(p)]
BY TraceIs

\* A path leads where its rest does from where its beginning leads.
LEMMA EndsSuffix ==
    ASSUME partition \in Partitions, NEW p \in Seq(Tokens), NEW r \in Seq(Tokens),
           NEW x \in Somewhere, NEW links \in LinkTables,
           NEW v \in [Nat -> Somewhere], Trace(v, p, x, links),
           NEW j \in 0 .. Len(p), Len(r) = Len(p) - j,
           \A k \in 1 .. Len(r) : r[k] = p[j + k]
    PROVE  Ends(r, v[j], links) = Ends(p, x, links)
<1> DEFINE w == [k \in Nat |-> v[j + k]]
<1>1. Len(p) \in Nat /\ Len(r) \in Nat /\ j \in Nat /\ j + Len(r) = Len(p) /\ j + 0 = j
  BY LenProperties
<1>2. w[0] = v[j] /\ w[Len(r)] = v[Len(p)]
  BY <1>1
<1>3. Trace(w, r, v[j], links)
  <2> SUFFICES ASSUME NEW k \in 1 .. Len(r) PROVE w[k] = Turn(r[k], w[k - 1], links)
    BY <1>2 DEF Trace
  <2>1. k \in Nat /\ k - 1 \in Nat /\ j + k \in 1 .. Len(p) /\ (j + k) - 1 = j + (k - 1)
    BY <1>1
  <2>2. v[j + k] = Turn(p[j + k], v[j + (k - 1)], links)
    BY <2>1 DEF Trace
  <2>3. w[k] = v[j + k] /\ w[k - 1] = v[j + (k - 1)]
    BY <2>1
  <2> QED
    BY <2>2, <2>3
<1>4. v[j] \in Somewhere
  BY <1>1
<1>5. Ends(p, x, links) = v[Len(p)]
  BY TraceEnds
<1> DEFINE y == v[j]
<1>6. Trace(w, r, y, links) /\ y \in Somewhere
  BY <1>3, <1>4
<1> HIDE DEF w, y
<1>7. Ends(r, y, links) = w[Len(r)]
  BY <1>6, TraceEnds
<1> QED
  BY <1>2, <1>5, <1>7 DEF y

LEMMA EndsFirst ==
    ASSUME partition \in Partitions, NEW p \in Seq(Tokens), p # <<>>, NEW x \in Somewhere,
           NEW links \in LinkTables
    PROVE  Ends(p, x, links) = Ends(Tail(p), Turn(p[1], x, links), links)
<1>1. PICK v \in [Nat -> Somewhere] : Trace(v, p, x, links)
  BY TraceIs
<1>2. /\ Len(p) \in Nat \ {0} /\ Tail(p) \in Seq(Tokens) /\ Len(Tail(p)) = Len(p) - 1
      /\ \A k \in 1 .. (Len(p) - 1) : Tail(p)[k] = p[k + 1]
  BY Popped
<1> DEFINE j == 1
           r == Tail(p)
<1>3. /\ j \in 0 .. Len(p) /\ r \in Seq(Tokens) /\ Len(r) = Len(p) - j
      /\ \A k \in 1 .. Len(r) : r[k] = p[j + k]
  BY <1>2
<1>4. v[j] = Turn(p[1], x, links)
  <2>1. 1 \in 1 .. Len(p) /\ 1 - 1 = 0
    BY <1>2
  <2> QED
    BY <1>1, <2>1 DEF Trace
<1> HIDE DEF j, r
<1>5. Ends(r, v[j], links) = Ends(p, x, links)
  BY <1>1, <1>3, EndsSuffix
<1> QED
  BY <1>4, <1>5 DEF r

LEMMA EndsSlashes ==
    ASSUME partition \in Partitions, NEW p \in Seq(Tokens), NEW x \in Somewhere,
           NEW links \in LinkTables
    PROVE  Ends(p, x, links) = Ends(Lookup!SkipSlashes(p), x, links)
<1> DEFINE r == Lookup!SkipSlashes(p)
           j == Len(p) - Len(r)
<1>1. PICK v \in [Nat -> Somewhere] : Trace(v, p, x, links)
  BY TraceIs
<1>2. /\ r \in Seq(Tokens) /\ Len(r) \in 0 .. Len(p)
      /\ \A k \in 1 .. j : p[k] = Slash
      /\ \A k \in 1 .. Len(r) : r[k] = p[j + k]
  BY SkipSlashesIs
<1>3. Len(p) \in Nat
  BY LenProperties
<1> HIDE DEF r
<1>4. j \in 0 .. Len(p) /\ Len(r) = Len(p) - j /\ j \in Nat
  BY <1>2, <1>3
<1> HIDE DEF j
<1> DEFINE T == {n \in Nat : n <= j => v[n] = x}
<1>5. 0 \in T
  BY <1>1 DEF Trace
<1>6. \A n \in T : n + 1 \in T
  <2> SUFFICES ASSUME NEW n \in T, n + 1 <= j PROVE v[n + 1] = x
    OBVIOUS
  <2>1. n + 1 \in 1 .. j /\ n + 1 \in 1 .. Len(p) /\ (n + 1) - 1 = n /\ v[n] = x
    BY <1>3, <1>4
  <2>2. v[n + 1] = Turn(p[n + 1], v[n], links) /\ p[n + 1] = Slash
    BY <1>1, <1>2, <2>1 DEF Trace
  <2> QED
    BY <2>1, <2>2 DEF Turn
<1>7. \A n \in Nat : n \in T
  <2>1. T \in SUBSET Nat
    OBVIOUS
  <2> HIDE DEF T
  <2> QED
    BY <1>5, <1>6, <2>1, Induction
<1>8. v[j] = x
  BY <1>4, <1>7
<1> HIDE DEF T
<1>9. Ends(r, v[j], links) = Ends(p, x, links)
  BY <1>1, <1>2, <1>4, EndsSuffix
<1> QED
  BY <1>8, <1>9 DEF r

LEMMA EndsNowhere ==
    ASSUME partition \in Partitions, NEW p \in Seq(Tokens), NEW links \in LinkTables
    PROVE  /\ Ends(p, 0, links) = 0
           /\ p = <<>> => \A x \in Somewhere : Ends(p, x, links) = x
<1> DEFINE v == [k \in Nat |-> 0]
           zero == 0
<1>1. Len(p) \in Nat /\ zero \in Somewhere
  BY LenProperties DEF Somewhere
<1>2. \A name : Turn(name, 0, links) = 0
  BY StepIs DEF Turn
<1>3. Trace(v, p, zero, links)
  <2>1. \A k \in 1 .. Len(p) : k \in Nat /\ k - 1 \in Nat
    BY <1>1
  <2> QED
    BY <1>2, <2>1 DEF Trace
<1>4. v[Len(p)] = 0
  BY <1>1
<1> HIDE DEF v, zero
<1>5. Ends(p, zero, links) = 0
  BY <1>1, <1>3, <1>4, TraceIs
<1>6. p = <<>> => \A x \in Somewhere : Ends(p, x, links) = x
  <2> SUFFICES ASSUME p = <<>>, NEW x \in Somewhere PROVE Ends(p, x, links) = x
    OBVIOUS
  <2>1. PICK w \in [Nat -> Somewhere] : Trace(w, p, x, links)
    BY TraceIs
  <2>2. Ends(p, x, links) = w[Len(p)]
    BY <2>1, TraceIs
  <2>3. Len(p) = 0 /\ w[0] = x
    BY <2>1 DEF Trace
  <2> QED
    BY <2>2, <2>3
<1> QED
  BY <1>5, <1>6 DEF zero

\* Where a path goes on once its first name has led somewhere.
After(x, p, links) == IF p = <<>> THEN x ELSE Written!Walk(x, p, links)

LEMMA WalkType ==
    ASSUME partition \in Partitions, NEW p \in Seq(Tokens), NEW x \in Somewhere,
           NEW links \in LinkTables
    PROVE  Written!Walk(x, p, links) \in Somewhere
<1>1. PICK v \in [Nat -> Somewhere] : Trace(v, p, x, links)
  BY TraceIs
<1>2. Ends(p, x, links) = v[Len(p)]
  BY <1>1, TraceIs
<1>3. Ends(p, x, links) \in Somewhere /\ 0 \in Somewhere
  BY <1>1, <1>2, LenProperties DEF Somewhere
<1>4. Written!Walk(x, p, links) = Checked(p, Ends(p, x, links))
  BY WalkIs
<1> QED
  BY <1>3, <1>4 DEF Checked

\* The first name of a path, and the rest.
LEMMA WalkFirst ==
    ASSUME partition \in Partitions, NEW p \in Seq(Tokens), p # <<>>, p[1] # Slash,
           NEW x \in Somewhere, NEW links \in LinkTables
    PROVE  Written!Walk(x, p, links) = After(Written!Step(x, p[1], links), Tail(p), links)
<1> DEFINE y == Written!Step(x, p[1], links)
           r == Tail(p)
<1>1. /\ Len(p) \in Nat \ {0} /\ r \in Seq(Tokens) /\ Len(r) = Len(p) - 1
      /\ \A k \in 1 .. (Len(p) - 1) : r[k] = p[k + 1]
  BY Popped
<1>2. Turn(p[1], x, links) = y
  BY DEF Turn
<1>3. y \in Somewhere
  BY TurnType
<1>4. Ends(p, x, links) = Ends(r, y, links)
  BY <1>2, EndsFirst
<1>5. Written!Walk(x, p, links) = Checked(p, Ends(p, x, links))
  BY WalkIs
<1>6. Written!Walk(y, r, links) = Checked(r, Ends(r, y, links))
  BY WalkIs
<1> HIDE DEF y, r
<1>7. CASE r = <<>>
  <2>1. Ends(r, y, links) = y
    BY <1>1, <1>3, <1>7, EndsNowhere
  <2>2. Len(p) = 1
    <3>1. Len(r) = 0
      BY <1>7
    <3> QED
      BY <1>1, <3>1
  <2>3. Written!Walk(x, p, links) = y
    BY <1>4, <1>5, <2>1, <2>2 DEF Checked
  <2> QED
    BY <1>7, <2>3 DEF After, y, r
<1>8. CASE r # <<>>
  <2>1. Len(r) \in 1 .. (Len(p) - 1) /\ Len(r) + 1 = Len(p)
    <3>1. Len(r) # 0
      BY <1>1, <1>8, EmptySeq
    <3> QED
      BY <1>1, <3>1
  <2>2. r[Len(r)] = p[Len(p)]
    BY <1>1, <2>1
  <2>3. Checked(p, Ends(p, x, links)) = Checked(r, Ends(r, y, links))
    BY <1>4, <2>2, Zenon DEF Checked
  <2> QED
    BY <1>5, <1>6, <1>8, <2>3 DEF After, y, r
<1> QED
  BY <1>7, <1>8

\* The slashes a path begins with.
LEMMA WalkSlashes ==
    ASSUME partition \in Partitions, NEW p \in Seq(Tokens), p # <<>>,
           NEW x \in Somewhere, NEW links \in LinkTables
    PROVE  LET r == Lookup!SkipSlashes(p)
           IN Written!Walk(x, p, links) =
                IF r = <<>> THEN IF x # 0 /\ Contents[x].type # "dir" THEN 0 ELSE x
                ELSE After(Written!Step(x, r[1], links), Tail(r), links)
<1> DEFINE r == Lookup!SkipSlashes(p)
           d == Len(p) - Len(r)
<1>1. /\ r \in Seq(Tokens) /\ Len(r) \in 0 .. Len(p)
      /\ \A k \in 1 .. d : p[k] = Slash
      /\ \A k \in 1 .. Len(r) : r[k] = p[d + k]
      /\ r # <<>> => r[1] # Slash
  BY SkipSlashesIs
<1>2. Len(p) \in Nat \ {0}
  BY EmptySeq
<1>3. Ends(p, x, links) = Ends(r, x, links)
  BY EndsSlashes
<1>4. Written!Walk(x, p, links) = Checked(p, Ends(p, x, links))
  BY WalkIs
<1>5. Written!Walk(x, r, links) = Checked(r, Ends(r, x, links))
  BY WalkIs
<1> HIDE DEF r
<1>6. CASE r = <<>>
  <2>1. Ends(r, x, links) = x
    BY <1>1, <1>6, EndsNowhere
  <2>2. p[Len(p)] = Slash
    <3>1. Len(r) = 0
      BY <1>6
    <3>2. Len(p) \in 1 .. d
      BY <1>2, <3>1
    <3> QED
      BY <1>1, <3>2
  <2> QED
    BY <1>3, <1>4, <1>6, <2>1, <2>2 DEF Checked, r
<1>7. CASE r # <<>>
  <2>1. r[Len(r)] = p[Len(p)]
    <3>1. Len(r) # 0
      BY <1>1, <1>7, EmptySeq
    <3>2. Len(r) \in 1 .. Len(r) /\ d + Len(r) = Len(p)
      BY <1>1, <1>2, <3>1
    <3> QED
      BY <1>1, <3>2
  <2>2. Checked(p, Ends(p, x, links)) = Checked(r, Ends(r, x, links))
    BY <1>3, <2>1, Zenon DEF Checked
  <2>3. Written!Walk(x, r, links) = After(Written!Step(x, r[1], links), Tail(r), links)
    BY <1>1, <1>7, WalkFirst
  <2> QED
    BY <1>4, <1>5, <1>7, <2>2, <2>3 DEF r
<1> QED
  BY <1>6, <1>7

LEMMA AfterNowhere ==
    ASSUME partition \in Partitions, NEW p \in Seq(Tokens), NEW links \in LinkTables
    PROVE  After(0, p, links) = 0
<1>1. Written!Walk(0, p, links) = 0
  BY WalkIs, EndsNowhere DEF Checked
<1> QED
  BY <1>1 DEF After

\* The table of links, by how many may still be inside each other.
LEMMA LinksAre ==
    ASSUME partition \in Partitions
    PROVE  /\ \A n \in Nat : Written!LinksLead[n] \in LinkTables
           /\ \A dir, link \in DOMAIN Contents : Written!LinksLead[0][dir][link] = 0
           /\ \A n \in Nat : \A dir, link \in DOMAIN Contents :
                Written!LinksLead[n + 1][dir][link]
                  = Written!Destination(dir, Contents[link].target, Written!LinksLead[n])
<1> DEFINE D == DOMAIN Contents
           To(n, dir, link, links) ==
             IF n = 0 THEN 0 ELSE Written!Destination(dir, Contents[link].target, links)
           S == LinkTables
           none == [dir \in D |-> [link \in D |-> 0]]
           step == [n \in Nat |-> [links \in S |->
                      [dir \in D |-> [link \in D |-> To(n, dir, link, links)]]]]
           Def(h) == [n \in Nat |-> [dir \in D |-> [link \in D |-> To(n, dir, link, h[n - 1])]]]
           LL == CHOOSE h : h = Def(h)
<1>1. \A dir, link \in D, links \in S :
        Written!Destination(dir, Contents[link].target, links) \in Somewhere
  <2> TAKE dir, link \in D, links \in S
  <2>1. Contents[link].target \in Seq(Tokens) /\ RootNumber \in Somewhere /\ dir \in Somewhere
    BY VolumeType DEF Somewhere
  <2> DEFINE from == IF Head(Contents[link].target) = Slash THEN RootNumber ELSE dir
  <2>2. from \in Somewhere /\ 0 \in Somewhere
    BY <2>1 DEF Somewhere
  <2> HIDE DEF from
  <2>3. Written!Walk(from, Contents[link].target, links) \in Somewhere
    BY <2>1, <2>2, WalkType
  <2> QED
    BY <2>2, <2>3 DEF Written!Destination, from
<1>2. none \in S /\ step \in [Nat -> [S -> S]]
  BY <1>1 DEF LinkTables, Somewhere
<1>3. PICK f : f \in [Nat -> S] /\ f[0] = none /\ \A n \in Nat : f[n + 1] = step[n + 1][f[n]]
  <2> HIDE DEF step, S, none
  <2>1. \E f : Runs(f, S, none, step)
    BY <1>2, TypedRecursion
  <2> QED
    BY <2>1 DEF Runs
<1>4. \A n \in Nat : f[n + 1] = [dir \in D |-> [link \in D |-> To(n + 1, dir, link, f[n])]]
  <2> TAKE n \in Nat
  <2>1. n + 1 \in Nat /\ f[n] \in S
    BY <1>3
  <2> HIDE DEF S, To
  <2> QED
    BY <1>3, <2>1
<1>5. f = Def(f)
  <2>1. \A n \in Nat : f[n] = [dir \in D |-> [link \in D |-> To(n, dir, link, f[n - 1])]]
    <3> TAKE n \in Nat
    <3>1. CASE n = 0
      BY <1>3, <3>1
    <3>2. CASE n # 0
      <4>1. n - 1 \in Nat /\ (n - 1) + 1 = n
        BY <3>2
      <4> HIDE DEF To
      <4> QED
        BY <1>4, <4>1
    <3> QED
      BY <3>1, <3>2
  <2> HIDE DEF To, D
  <2> QED
    BY <1>3, <2>1
<1>6. LL = Def(LL)
  <2>1. \E h : h = Def(h)
    BY <1>5
  <2> HIDE DEF Def
  <2> QED
    BY <2>1
<1>7. Written!LinksLead = LL
  BY Zenon DEF Written!LinksLead, Contents
<1> HIDE DEF LL
<1>8. \A n \in Nat : LL[n] = [dir \in D |-> [link \in D |-> To(n, dir, link, LL[n - 1])]]
  <2> HIDE DEF To, D
  <2> QED
    BY <1>6
<1>14. LL[0] = none
  BY <1>8
<1>15. ASSUME NEW n \in Nat
       PROVE  LL[n + 1] = [dir \in D |-> [link \in D |->
                             Written!Destination(dir, Contents[link].target, LL[n])]]
  <2>1. n + 1 \in Nat /\ n + 1 # 0 /\ (n + 1) - 1 = n
    OBVIOUS
  <2> HIDE DEF D
  <2> QED
    BY <1>8, <2>1
<1>9. ASSUME NEW dir \in D, NEW link \in D PROVE LL[0][dir][link] = 0
  <2> HIDE DEF D
  <2>1. none[dir] = [l \in D |-> 0]
    OBVIOUS
  <2> QED
    BY <1>14, <2>1
<1>10. ASSUME NEW n \in Nat, NEW dir \in D, NEW link \in D
       PROVE  LL[n + 1][dir][link]
                = Written!Destination(dir, Contents[link].target, LL[n])
  <2> HIDE DEF D
  <2>1. LL[n + 1][dir] = [l \in D |-> Written!Destination(dir, Contents[l].target, LL[n])]
    BY <1>15
  <2> QED
    BY <2>1
<1> DEFINE T == {n \in Nat : LL[n] \in S}
<1>11. 0 \in T
  BY <1>2, <1>14
<1>12. \A n \in T : n + 1 \in T
  <2> SUFFICES ASSUME NEW n \in T PROVE LL[n + 1] \in S
    OBVIOUS
  <2>1. LL[n] \in S
    OBVIOUS
  <2> DEFINE L == LL[n]
             next == [dir \in D |-> [link \in D |->
                        Written!Destination(dir, Contents[link].target, L)]]
  <2>2. n \in Nat /\ L \in S
    BY <2>1
  <2>3. LL[n + 1] = next
    BY <1>15, <2>2
  <2> HIDE DEF L, D
  <2>4. \A dir, link \in D :
          Written!Destination(dir, Contents[link].target, L) \in Somewhere
    BY <1>1, <2>2
  <2>5. next \in [D -> [D -> Somewhere]]
    BY <2>4
  <2> QED
    BY <2>3, <2>5 DEF LinkTables, D
<1>13. \A n \in Nat : n \in T
  <2>1. T \in SUBSET Nat
    OBVIOUS
  <2> HIDE DEF T
  <2> QED
    BY <1>11, <1>12, <2>1, Induction
<1> QED
  BY <1>7, <1>9, <1>10, <1>13

-----------------------------------------------------------------------------
(* Calls that wait: what each makes of what the one for its link returns. *)

\* Where links lead from a call that is itself links deep.
Table(links) == Written!LinksLead[(MaxSymlinks - 1) - links]

Continued(frame, x) == After(x, Tail(frame.path), Table(frame.symlinks))

Chain(s, x, y) ==
    \E v : /\ v[0] = x /\ v[Len(s)] = y
           /\ \A k \in 1 .. Len(s) : v[k] = Continued(s[k], v[k - 1])

LEMMA ChainEmpty ==
    ASSUME NEW x, NEW y
    PROVE  Chain(<<>>, x, y) <=> x = y
<1>1. ASSUME x = y PROVE Chain(<<>>, x, y)
  <2> DEFINE v == [k \in {0} |-> x]
  <2>1. /\ v[0] = x /\ v[Len(<<>>)] = y
        /\ \A k \in 1 .. Len(<<>>) : v[k] = Continued(<<>>[k], v[k - 1])
    BY <1>1
  <2> QED
    BY <2>1, Zenon DEF Chain
<1>2. ASSUME Chain(<<>>, x, y) PROVE x = y
  BY <1>2 DEF Chain
<1> QED
  BY <1>1, <1>2

LEMMA ChainPopped ==
    ASSUME NEW S, NEW s \in Seq(S), s # <<>>, NEW x, NEW y, Chain(s, x, y)
    PROVE  Chain(Tail(s), Continued(s[1], x), y)
<1>1. PICK v : /\ v[0] = x /\ v[Len(s)] = y
               /\ \A k \in 1 .. Len(s) : v[k] = Continued(s[k], v[k - 1])
  BY Zenon DEF Chain
<1> DEFINE t == Tail(s)
           w == [k \in 0 .. Len(t) |-> v[k + 1]]
<1>2. /\ Len(s) \in Nat \ {0} /\ Len(t) = Len(s) - 1
      /\ \A k \in 1 .. (Len(s) - 1) : t[k] = s[k + 1]
  BY Popped
<1> HIDE DEF t
<1>3. /\ Len(t) \in Nat /\ 0 \in 0 .. Len(t) /\ Len(t) \in 0 .. Len(t) /\ Len(t) + 1 = Len(s)
      /\ 0 + 1 = 1 /\ 1 \in 1 .. Len(s) /\ 1 - 1 = 0
  BY <1>2
<1>4. w[0] = Continued(s[1], x) /\ w[Len(t)] = y
  <2>1. v[1] = Continued(s[1], v[0])
    BY <1>1, <1>3, Zenon
  <2>2. w[0] = v[1] /\ w[Len(t)] = v[Len(s)]
    BY <1>3
  <2> QED
    BY <1>1, <2>1, <2>2, Zenon
<1>5. ASSUME NEW k \in 1 .. Len(t) PROVE w[k] = Continued(t[k], w[k - 1])
  <2>1. /\ k \in 0 .. Len(t) /\ k - 1 \in 0 .. Len(t) /\ (k - 1) + 1 = k
        /\ k + 1 \in 1 .. Len(s) /\ (k + 1) - 1 = k /\ k \in 1 .. (Len(s) - 1)
    BY <1>2, <1>3
  <2>2. v[k + 1] = Continued(s[k + 1], v[(k + 1) - 1])
    BY <1>1, <2>1, Zenon
  <2>3. w[k] = v[k + 1] /\ w[k - 1] = v[k] /\ t[k] = s[k + 1]
    BY <1>2, <2>1
  <2> HIDE DEF w
  <2> QED
    BY <2>1, <2>2, <2>3, Zenon
<1> HIDE DEF w
<1>6. Chain(t, Continued(s[1], x), y)
  BY <1>4, <1>5, Zenon DEF Chain
<1> QED
  BY <1>6 DEF t

LEMMA ChainPushed ==
    ASSUME NEW S, NEW s \in Seq(S), s # <<>>, NEW x, NEW y,
           Chain(Tail(s), Continued(s[1], x), y)
    PROVE  Chain(s, x, y)
<1> DEFINE t == Tail(s)
<1>1. PICK v : /\ v[0] = Continued(s[1], x) /\ v[Len(t)] = y
               /\ \A k \in 1 .. Len(t) : v[k] = Continued(t[k], v[k - 1])
  BY Zenon DEF Chain
<1>2. /\ Len(s) \in Nat \ {0} /\ Len(t) = Len(s) - 1
      /\ \A k \in 1 .. (Len(s) - 1) : t[k] = s[k + 1]
  BY Popped
<1> DEFINE w == [k \in 0 .. Len(s) |-> IF k = 0 THEN x ELSE v[k - 1]]
<1> HIDE DEF t
<1>3. w[0] = x /\ w[Len(s)] = y
  <2>1. 0 \in 0 .. Len(s) /\ Len(s) \in 0 .. Len(s) /\ Len(s) # 0 /\ Len(s) - 1 = Len(t)
    BY <1>2
  <2> QED
    BY <1>1, <2>1
<1>4. ASSUME NEW k \in 1 .. Len(s) PROVE w[k] = Continued(s[k], w[k - 1])
  <2>1. /\ k \in 0 .. Len(s) /\ k # 0 /\ k - 1 \in 0 .. Len(s) /\ (k - 1) + 1 = k
        /\ k # 1 => k - 1 \in 1 .. Len(t) /\ k - 1 \in 1 .. (Len(s) - 1) /\ k - 1 # 0
    BY <1>2
  <2>2. w[k] = v[k - 1]
    BY <2>1
  <2>3. CASE k = 1
    <3>1. w[k - 1] = x /\ w[k] = v[0]
      BY <2>1, <2>3
    <3> HIDE DEF w
    <3> QED
      BY <1>1, <2>3, <3>1
  <2>4. CASE k # 1
    <3>1. w[k - 1] = v[(k - 1) - 1]
      BY <2>1, <2>4
    <3>2. v[k - 1] = Continued(t[k - 1], v[(k - 1) - 1]) /\ t[k - 1] = s[(k - 1) + 1]
      BY <1>1, <1>2, <2>1, <2>4, Zenon
    <3> HIDE DEF w
    <3> QED
      BY <2>1, <2>2, <3>1, <3>2, Zenon
  <2> QED
    BY <2>3, <2>4
<1> HIDE DEF w
<1> QED
  BY <1>3, <1>4, Zenon DEF Chain

-----------------------------------------------------------------------------
(* A lookup on its way to the resolution of its path. *)

\* The number of an inode, or 0 for none.
Value(inodes, o) == IF o = -1 THEN 0 ELSE IF o = 0 THEN RootNumber ELSE inodes[o].number

Resolved(at, s, r, inodes) ==
    /\ at = "loop" =>
         Chain(Tail(s),
               Written!Walk(Value(inodes, s[1].inode), s[1].path, Table(s[1].symlinks)),
               Written!Resolution)
    /\ at = "return" => Chain(s, Value(inodes, r), Written!Resolution)
    /\ at \in {"open", "closed"} =>
         IF Written!Resolution # 0 /\ Contents[Written!Resolution].type = "reg"
           THEN r # -1 /\ Value(inodes, r) = Written!Resolution
           ELSE r = -1

ResolveInv == Resolved(pc, stack, result, objects)

\* The partition stays what it is, and with it what paths mean.
LEMMA ResolvePrimed ==
    ASSUME partition' = partition, path' = path, Resolved(pc', stack', result', objects')
    PROVE  ResolveInv'
<1>1. ASSUME NEW x, NEW p, NEW links
      PROVE  (Written!Walk(x, p, links))' = Written!Walk(x, p, links)
  BY DEF Written!Walk, Written!Step, Written!FindEntry, Written!SelectInSeq, Written!Min,
         Written!Last
<1>2. Written!LinksLead' = Written!LinksLead
  BY DEF Written!LinksLead, Written!Destination, Written!Walk, Written!Step,
         Written!FindEntry, Written!SelectInSeq, Written!Min, Written!Last
<1>3. Written!Resolution' = Written!Resolution
  BY <1>1, <1>2 DEF Written!Resolution, Written!Destination
<1>4. ASSUME NEW links PROVE Table(links)' = Table(links)
  BY <1>2 DEF Table
<1>5. ASSUME NEW frame, NEW x PROVE Continued(frame, x)' = Continued(frame, x)
  BY <1>1, <1>4 DEF Continued, After
<1>6. ASSUME NEW s, NEW x, NEW y PROVE Chain(s, x, y)' <=> Chain(s, x, y)
  BY <1>5 DEF Chain
<1>7. ASSUME NEW at, NEW s, NEW r, NEW inodes, Resolved(at, s, r, inodes)
      PROVE  Resolved(at, s, r, inodes)'
  BY <1>1, <1>3, <1>4, <1>6, <1>7 DEF Resolved, Contents, Value
<1> QED
  BY <1>7 DEF ResolveInv

LEMMA ValueIs ==
    ASSUME partition \in Partitions, objects \in Seq(Object), NEW o \in 0 .. Len(objects)
    PROVE  /\ Value(objects, o) = Lookup!Number(o) /\ Value(objects, o) \in DOMAIN Contents
           /\ Value(objects, o) \in Somewhere /\ Value(objects, o) # 0
<1>1. Lookup!Number(o) \in DOMAIN Contents
  BY NumberIs
<1>2. Value(objects, o) = Lookup!Number(o)
  BY LenProperties DEF Value, Lookup!Number, Lookup!Root
<1> QED
  BY <1>1, <1>2, VolumeType DEF Somewhere

\* Inodes keep their numbers when some are freed.
LEMMA ValueKept ==
    ASSUME objects \in Seq(Object), NEW inodes \in Seq(Object), Len(objects) <= Len(inodes),
           \A k \in 1 .. Len(objects) : inodes[k].number = objects[k].number,
           NEW o \in -1 .. Len(objects)
    PROVE  Value(inodes, o) = Value(objects, o)
BY LenProperties DEF Value

LEMMA TableIs ==
    ASSUME partition \in Partitions, NEW links \in 0 .. (MaxSymlinks - 1)
    PROVE  /\ Table(links) \in LinkTables
           /\ \A dir, link \in DOMAIN Contents :
                Table(links)[dir][link] =
                  IF links + 1 = MaxSymlinks THEN 0
                  ELSE Written!Destination(dir, Contents[link].target, Table(links + 1))
<1> DEFINE n == (MaxSymlinks - 1) - links
<1>1. MaxSymlinks \in Nat
  BY FileSystemAssumption DEF Lookup!InodeLookupAssumption
<1>2. n \in Nat
  BY <1>1
<1>3. CASE links + 1 = MaxSymlinks
  <2>1. n = 0
    BY <1>1, <1>3
  <2> HIDE DEF n
  <2> QED
    BY <1>2, <1>3, <2>1, LinksAre DEF Table, n
<1>4. CASE links + 1 # MaxSymlinks
  <2> DEFINE m == (MaxSymlinks - 1) - (links + 1)
  <2>1. m \in Nat /\ n = m + 1
    BY <1>1, <1>4
  <2> HIDE DEF n, m
  <2>2. /\ Written!LinksLead[n] \in LinkTables
        /\ \A dir, link \in DOMAIN Contents :
             Written!LinksLead[n][dir][link]
               = Written!Destination(dir, Contents[link].target, Written!LinksLead[m])
    BY <1>2, <2>1, LinksAre
  <2>3. Table(links) = Written!LinksLead[n] /\ Table(links + 1) = Written!LinksLead[m]
    BY DEF Table, n, m
  <2> QED
    BY <1>4, <2>2, <2>3
<1> QED
  BY <1>3, <1>4

\* What the innermost call will make of the rest of its path.
LEMMA HereLeads ==
    ASSUME TypeInv, pc = "loop"
    PROVE  LET x     == Value(objects, stack[1].inode)
               links == Table(stack[1].symlinks)
           IN /\ x \in DOMAIN Contents /\ links \in LinkTables /\ Here = Contents[x]
              /\ Written!Walk(x, stack[1].path, links) =
                   IF Here.type # "dir" \/ (Rest # <<>> /\ Leads = 0) THEN 0
                   ELSE IF Rest = <<>> THEN x
                   ELSE After(IF Contents[Leads].type = "sym" THEN links[x][Leads]
                              ELSE Leads, Tail(Rest), links)
<1> DEFINE x == Value(objects, stack[1].inode)
           links == Table(stack[1].symlinks)
           p == stack[1].path
<1>1. partition \in Partitions /\ objects \in Seq(Object)
  BY DEF TypeInv
<1>2. /\ stack[1] \in Frame /\ stack[1].inode \in 0 .. Len(objects)
      /\ p # <<>> /\ p \in Seq(Tokens) /\ Rest \in Seq(Tokens)
      /\ Rest # <<>> => Tail(Rest) \in Seq(Tokens)
  BY LoopIs
<1>3. x = Lookup!Number(stack[1].inode) /\ x \in DOMAIN Contents /\ x \in Somewhere /\ x # 0
  BY <1>1, <1>2, ValueIs
<1>4. links \in LinkTables
  BY <1>1, <1>2, TableIs DEF Frame
<1>5. Here = Contents[x]
  BY <1>3 DEF Here
<1> HIDE DEF x, links, p
<1>6. Written!Walk(x, p, links) =
        IF Rest = <<>> THEN IF x # 0 /\ Contents[x].type # "dir" THEN 0 ELSE x
        ELSE After(Written!Step(x, Rest[1], links), Tail(Rest), links)
  BY <1>1, <1>2, <1>3, <1>4, WalkSlashes DEF Rest, p
<1>7. Written!Step(x, Rest[1], links) =
        IF Here.type # "dir" \/ Leads = 0 THEN 0
        ELSE IF Contents[Leads].type = "sym" THEN links[x][Leads] ELSE Leads
  BY <1>3, <1>5, StepIs DEF Leads
<1>8. Rest # <<>> => After(0, Tail(Rest), links) = 0
  BY <1>1, <1>2, <1>4, AfterNowhere
<1>9. CASE Rest = <<>>
  BY <1>3, <1>4, <1>5, <1>6, <1>9 DEF x, links, p
<1>10. CASE Rest # <<>>
  BY <1>3, <1>4, <1>5, <1>6, <1>7, <1>8, <1>10 DEF x, links, p
<1> QED
  BY <1>9, <1>10

LEMMA ResolveNotFound ==
    ASSUME TypeInv, ResolveInv, UNCHANGED <<partition, statics>>, Lookup!NotFound
    PROVE  ResolveInv'
<1>1. /\ pc = "loop" /\ path' = path /\ Returns(-1, Tail(stack))
      /\ Here.type # "dir" \/ (Rest # <<>> /\ Leads = 0)
  BY NotFoundIs
<1>2. Chain(Tail(stack),
            Written!Walk(Value(objects, stack[1].inode), stack[1].path, Table(stack[1].symlinks)),
            Written!Resolution)
  BY <1>1, Zenon DEF ResolveInv, Resolved
<1>3. Written!Walk(Value(objects, stack[1].inode), stack[1].path, Table(stack[1].symlinks)) = 0
  BY <1>1, HereLeads
<1>4. Value(objects', -1) = 0
  BY DEF Value
<1>5. Resolved(pc', stack', result', objects')
  <2>1. pc' = "return" /\ result' = -1 /\ stack' = Tail(stack)
    BY <1>1 DEF Returns
  <2>2. Chain(stack', Value(objects', result'), Written!Resolution)
    BY <1>2, <1>3, <1>4, <2>1, Zenon
  <2> QED
    BY <2>1, <2>2 DEF Resolved
<1> QED
  BY <1>1, <1>5, ResolvePrimed

LEMMA ResolveEndOfPath ==
    ASSUME TypeInv, ResolveInv, UNCHANGED <<partition, statics>>, Lookup!EndOfPath
    PROVE  ResolveInv'
<1>1. /\ pc = "loop" /\ path' = path /\ objects' = objects /\ Here.type = "dir" /\ Rest = <<>>
      /\ Returns(stack[1].inode, Tail(stack))
  BY EndOfPathIs
<1>2. Chain(Tail(stack),
            Written!Walk(Value(objects, stack[1].inode), stack[1].path, Table(stack[1].symlinks)),
            Written!Resolution)
  BY <1>1, Zenon DEF ResolveInv, Resolved
<1>3. Written!Walk(Value(objects, stack[1].inode), stack[1].path, Table(stack[1].symlinks))
        = Value(objects, stack[1].inode)
  BY <1>1, HereLeads
<1>5. Resolved(pc', stack', result', objects')
  <2>1. pc' = "return" /\ result' = stack[1].inode /\ stack' = Tail(stack)
    BY <1>1 DEF Returns
  <2>2. Chain(stack', Value(objects', result'), Written!Resolution)
    BY <1>1, <1>2, <1>3, <2>1, Zenon
  <2> QED
    BY <2>1, <2>2 DEF Resolved
<1> QED
  BY <1>1, <1>5, ResolvePrimed

\* A call goes on, or returns, where the rest of its path is what counts.
LEMMA ResolveGoesOn ==
    ASSUME partition' = partition, path' = path, NEW object, NEW p, object # -1,
           GoesOn(object, p), stack[1] \in Frame,
           Chain(Tail(stack), After(Value(objects', object), p, Table(stack[1].symlinks)),
                 Written!Resolution)
    PROVE  ResolveInv'
<1>1. CASE p = <<>>
  <2>1. pc' = "return" /\ result' = object /\ stack' = Tail(stack)
    BY <1>1 DEF GoesOn, Returns
  <2>2. After(Value(objects', object), p, Table(stack[1].symlinks)) = Value(objects', object)
    BY <1>1 DEF After
  <2>3. Chain(stack', Value(objects', result'), Written!Resolution)
    BY <2>1, <2>2, Zenon
  <2>4. Resolved(pc', stack', result', objects')
    BY <2>1, <2>3 DEF Resolved
  <2> QED
    BY <2>4, ResolvePrimed
<1>2. CASE p # <<>>
  <2> DEFINE e == Moved(object, p)
             c == stack[1]
  <2>1. pc' = "loop" /\ Pushes(stack', e, Tail(stack))
    BY <1>2 DEF GoesOn, Calls
  <2>2. e.inode = object /\ e.path = p /\ e.symlinks = c.symlinks
    <3>1. e = [c EXCEPT !.inode = object, !.path = p] /\ c \in Frame
      BY DEF Moved
    <3> HIDE DEF e, c
    <3> QED
      BY <3>1 DEF Frame
  <2>3. stack'[1] = e /\ Tail(stack') = Tail(stack)
    BY <2>1 DEF Pushes
  <2> HIDE DEF e
  <2>4. After(Value(objects', object), p, Table(c.symlinks))
          = Written!Walk(Value(objects', e.inode), e.path, Table(e.symlinks))
    BY <1>2, <2>2 DEF After
  <2>5. Chain(Tail(stack'),
              Written!Walk(Value(objects', stack'[1].inode), stack'[1].path,
                           Table(stack'[1].symlinks)), Written!Resolution)
    BY <2>3, <2>4, Zenon
  <2>6. Resolved(pc', stack', result', objects')
    BY <2>1, <2>5 DEF Resolved
  <2> QED
    BY <2>6, ResolvePrimed
<1> QED
  BY <1>1, <1>2

\* The inode of a link is not read into the block of the directory the link is in.
LEMMA DirectoryKept ==
    ASSUME objects \in Seq(Object), NEW n \in DOMAIN Contents,
           NEW block \in Lookup!FreeBlocks(objects), NEW o \in 0 .. Len(objects),
           o = 0 \/ o \in Unfreed(objects)
    PROVE  Value(Lookup!MaybeFree(Lookup!Allocated(objects, block, n), block), o)
             = Value(objects, o)
<1> DEFINE all == Lookup!Allocated(objects, block, n)
           new == Lookup!MaybeFree(all, block)
<1>1. Takes(objects, block, n, all)
  BY AllocatedIs
<1>2. Len(objects) \in Nat
  BY LenProperties
<1> HIDE DEF all
<1>3. all \in Seq(Object) /\ block \in 0 .. Len(all)
  BY <1>1 DEF Takes
<1>4. \A k \in 1 .. Len(all) : new[k].number = all[k].number
  BY <1>3, FreedIs
<1> HIDE DEF new
<1>5. CASE o = 0
  BY <1>5 DEF Value
<1>6. CASE o # 0
  <2>1. o \in 1 .. Len(objects) /\ o # -1
    BY <1>2, <1>6
  <2>2. o # block /\ Len(objects) <= Len(all) /\ Len(all) \in Nat
    BY <1>1, <1>6 DEF Takes
  <2>3. all[o] = objects[o] /\ o \in 1 .. Len(all)
    BY <1>1, <1>2, <2>1, <2>2 DEF Takes
  <2>4. new[o].number = objects[o].number
    BY <1>4, <2>3
  <2> QED
    BY <1>6, <2>1, <2>4 DEF Value, new, all
<1> QED
  BY <1>5, <1>6

\* The target of a link is what was written where it was written to blocks.
LEMMA TargetIs ==
    ASSUME TypeInv, LinksInBlocks(partition), pc = "loop", Leads # 0,
           Contents[Leads].type = "sym"
    PROVE  Target = Contents[Leads].target
<1>1. Leads \in DOMAIN Contents
  BY LoopIs
<1>2. partition \in Partitions /\ Mounted
  BY DEF TypeInv
<1> QED
  BY <1>1, <1>2, VolumeIsWritten DEF Target

LEMMA ResolveFollowLink ==
    ASSUME TypeInv, BalanceInv, LinksInBlocks(partition), ResolveInv,
           UNCHANGED <<partition, statics>>, Lookup!FollowLink
    PROVE  ResolveInv'
<1> DEFINE o == stack[1].inode
           x == Value(objects, o)
           s == stack[1].symlinks
           callers == <<Waiting>> \o Tail(stack)
           y == Table(s)[x][Leads]
           R == Written!Resolution
<1>1. /\ TypeInv' /\ pc = "loop" /\ path' = path /\ Here.type = "dir" /\ Rest # <<>> /\ Leads # 0
      /\ Contents[Leads].type = "sym"
      /\ Pushes(callers, Waiting, Tail(stack))
      /\ Enters(o, Target, s + 1, callers)
  BY FollowLinkIs
<1>2. /\ stack[1] \in Frame /\ o \in 0 .. Len(objects) /\ Leads \in DOMAIN Contents
      /\ Len(objects) \in Nat /\ objects \in Seq(Object) /\ partition \in Partitions
  BY <1>1, LoopIs DEF TypeInv
<1>3. s \in 0 .. (MaxSymlinks - 1) /\ MaxSymlinks \in Nat
  BY <1>2, FileSystemAssumption DEF Frame, Lookup!InodeLookupAssumption
<1>4. Waiting.inode = o /\ Waiting.path = Rest /\ Waiting.symlinks = s
  <2> DEFINE c == stack[1]
  <2>1. c \in Frame /\ Waiting = [c EXCEPT !.path = Rest]
    BY <1>2 DEF Waiting
  <2> HIDE DEF c
  <2>2. Waiting.inode = c.inode /\ Waiting.path = Rest /\ Waiting.symlinks = c.symlinks
    BY <2>1 DEF Frame
  <2> QED
    BY <2>2 DEF c
<1>5. x \in DOMAIN Contents /\ x = Lookup!Number(o)
  BY <1>2, ValueIs
<1>6. Value(objects', o) = x /\ Value(objects', 0) = RootNumber
  <2>1. PICK block \in Lookup!FreeBlocks(objects) :
          objects' = Lookup!MaybeFree(Lookup!Allocated(objects, block, Leads), block)
    BY FollowLinkIs
  <2>2. o = 0 \/ o \in Unfreed(objects)
    BY <1>1 DEF BalanceInv, Balanced
  <2> HIDE DEF o
  <2>3. Value(objects', o) = Value(objects, o)
    BY <1>2, <2>1, <2>2, DirectoryKept
  <2> QED
    BY <2>3 DEF Value
<1>11. Target = Contents[Leads].target
  BY <1>1, TargetIs
<1>7. Chain(callers, y, R)
  <2>1. Chain(Tail(stack), Written!Walk(x, stack[1].path, Table(s)), R)
    BY <1>1, Zenon DEF ResolveInv, Resolved
  <2>2. Written!Walk(x, stack[1].path, Table(s)) = After(y, Tail(Rest), Table(s))
    BY <1>1, HereLeads
  <2>3. After(y, Tail(Rest), Table(s)) = Continued(Waiting, y)
    BY <1>4, Zenon DEF Continued
  <2>4. Tail(callers) = Tail(stack) /\ callers[1] = Waiting /\ callers # <<>>
    BY <1>1 DEF Pushes
  <2>5. Chain(Tail(callers), Continued(callers[1], y), R)
    BY <2>1, <2>2, <2>3, <2>4, Zenon
  <2>6. callers \in Seq(Frame)
    <3> DEFINE t == Tail(stack)
    <3>1. t \in Seq(Frame)
      BY <1>1, LoopIs DEF Frames
    <3>2. Waiting \in Frame
      <4>1. Rest \in Seq(Tokens)
        BY <1>1, LoopIs
      <4> QED
        BY <1>2, <4>1 DEF Waiting, Frame
    <3> HIDE DEF t
    <3>3. <<Waiting>> \o t \in Seq(Frame)
      BY <3>1, <3>2, Pushed
    <3> QED
      BY <3>3 DEF t
  <2> HIDE DEF callers, y, R
  <2> QED
    BY <2>4, <2>5, <2>6, ChainPushed
<1>8. y = IF s + 1 = MaxSymlinks \/ Target = <<>> THEN 0
          ELSE Written!Walk(IF Target[1] = Slash THEN RootNumber ELSE x, Target, Table(s + 1))
  <2>1. y = IF s + 1 = MaxSymlinks THEN 0
            ELSE Written!Destination(x, Target, Table(s + 1))
    <3> HIDE DEF s, x
    <3> QED
      BY <1>2, <1>3, <1>5, <1>11, TableIs
  <2>2. Target # <<>> => Head(Target) = Target[1]
    <3>1. Target \in Seq(Tokens)
      BY <1>2, <1>11, VolumeType
    <3> QED
      BY <3>1, Popped
  <2> HIDE DEF y, x, s
  <2> QED
    BY <2>1, <2>2 DEF Written!Destination
<1> HIDE DEF callers, y, R
<1>9. CASE s + 1 = MaxSymlinks \/ Target = <<>>
  <2>1. pc' = "return" /\ result' = -1 /\ stack' = callers
    BY <1>1, <1>9 DEF Enters, Returns
  <2>2. Value(objects', result') = y
    BY <1>8, <1>9, <2>1 DEF Value
  <2>3. Chain(stack', Value(objects', result'), Written!Resolution)
    BY <1>7, <2>1, <2>2, Zenon DEF R
  <2>4. Resolved(pc', stack', result', objects')
    BY <2>1, <2>3 DEF Resolved
  <2> QED
    BY <1>1, <2>4, ResolvePrimed
<1>10. CASE ~(s + 1 = MaxSymlinks \/ Target = <<>>)
  <2> DEFINE e == Entered(o, Target, s + 1)
  <2>1. pc' = "loop" /\ Pushes(stack', e, callers)
    BY <1>1, <1>10 DEF Enters, Calls
  <2>2. /\ e.inode = (IF Target[1] = Slash THEN 0 ELSE o) /\ e.path = Target
        /\ e.symlinks = s + 1
    BY DEF Entered
  <2>3. stack'[1] = e /\ Tail(stack') = callers
    BY <2>1 DEF Pushes
  <2> HIDE DEF e, o, x, s
  <2>4. Value(objects', e.inode) = IF Target[1] = Slash THEN RootNumber ELSE x
    BY <1>6, <2>2
  <2>5. Written!Walk(Value(objects', e.inode), e.path, Table(e.symlinks)) = y
    BY <1>8, <1>10, <2>2, <2>4, Zenon
  <2>6. Chain(Tail(stack'),
              Written!Walk(Value(objects', stack'[1].inode), stack'[1].path,
                           Table(stack'[1].symlinks)), Written!Resolution)
    BY <1>7, <2>3, <2>5, Zenon DEF R
  <2>7. Resolved(pc', stack', result', objects')
    BY <2>1, <2>6 DEF Resolved
  <2> QED
    BY <1>1, <2>7, ResolvePrimed
<1> QED
  BY <1>9, <1>10

LEMMA ResolveDescend ==
    ASSUME TypeInv, ResolveInv, UNCHANGED <<partition, statics>>, Lookup!Descend
    PROVE  ResolveInv'
<1> DEFINE o == stack[1].inode
           x == Value(objects, o)
           links == Table(stack[1].symlinks)
           r == Tail(Rest)
<1>1. /\ pc = "loop" /\ path' = path /\ Here.type = "dir" /\ Rest # <<>> /\ Leads # 0
      /\ Contents[Leads].type # "sym"
  BY DescendIs
<1>6. PICK m \in Lookup!FreeBlocks(objects) :
        /\ objects' = Lookup!MaybeFree(Lookup!Allocated(objects, m, Leads), o)
        /\ GoesOn(m, r)
  BY DescendIs
<1> DEFINE all == Lookup!Allocated(objects, m, Leads)
<1>2. /\ stack[1] \in Frame /\ o \in 0 .. Len(objects) /\ Leads \in DOMAIN Contents
      /\ Len(objects) \in Nat /\ objects \in Seq(Object) /\ partition \in Partitions
  BY <1>1, LoopIs DEF TypeInv
<1>7. Takes(objects, m, Leads, all)
  BY <1>2, AllocatedIs
<1>8. objects' = Lookup!MaybeFree(all, o)
  BY <1>6
<1> HIDE DEF all
<1>9. all \in Seq(Object) /\ o \in 0 .. Len(all) /\ m \in 1 .. Len(all) /\ m \in Nat \ {0}
  BY <1>2, <1>7 DEF Takes
<1>3. Value(objects', m) = Leads
  <2>1. \A k \in 1 .. Len(all) : objects'[k].number = all[k].number
    <3> HIDE DEF o
    <3> QED
      BY <1>8, <1>9, FreedIs
  <2>2. all[m].number = Leads
    BY <1>7 DEF Takes
  <2>3. m # -1 /\ m # 0
    BY <1>9
  <2> QED
    BY <1>9, <2>1, <2>2, <2>3 DEF Value
<1>4. Chain(Tail(stack), After(Value(objects', m), r, links), Written!Resolution)
  <2>1. Chain(Tail(stack), Written!Walk(x, stack[1].path, links), Written!Resolution)
    BY <1>1, Zenon DEF ResolveInv, Resolved
  <2>2. Written!Walk(x, stack[1].path, links) = After(Leads, r, links)
    BY <1>1, HereLeads
  <2> QED
    BY <1>3, <2>1, <2>2, Zenon
<1>5. m # -1
  BY <1>9
<1> HIDE DEF r
<1>10. GoesOn(m, r)
  BY <1>6 DEF r
<1> QED
  BY <1>1, <1>2, <1>4, <1>5, <1>10, ResolveGoesOn

LEMMA ResolveLinkFollowed ==
    ASSUME TypeInv, ResolveInv, UNCHANGED <<partition, statics>>, Lookup!LinkFollowed
    PROVE  ResolveInv'
<1> DEFINE o == stack[1].inode
           t == Tail(stack)
           r == Tail(stack[1].path)
           links == Table(stack[1].symlinks)
           R == Written!Resolution
<1>1. /\ pc = "return" /\ stack # <<>> /\ path' = path
      /\ objects' = Lookup!MaybeFree(objects, o)
      /\ IF result = -1 THEN Returns(-1, t) ELSE GoesOn(result, r)
  BY LinkFollowedIs
<1>2. /\ stack[1] \in Frame /\ o \in 0 .. Len(objects) /\ r \in Seq(Tokens)
      /\ Len(objects) \in Nat /\ objects \in Seq(Object) /\ partition \in Partitions
      /\ stack \in Seq(Frame) /\ result \in -1 .. Len(objects)
  BY <1>1, WaitingIs DEF TypeInv, Frames
<1>3. Chain(t, After(Value(objects, result), r, links), R)
  <2>1. Chain(stack, Value(objects, result), R)
    BY <1>1, Zenon DEF ResolveInv, Resolved
  <2> DEFINE v == Value(objects, result)
  <2> HIDE DEF v, R
  <2>2. Chain(stack, v, R)
    BY <2>1 DEF v, R
  <2>3. Chain(Tail(stack), Continued(stack[1], v), R)
    BY <1>1, <1>2, <2>2, ChainPopped
  <2> QED
    BY <2>3, Zenon DEF v, R, Continued
<1>4. CASE result = -1
  <2>1. pc' = "return" /\ result' = -1 /\ stack' = t
    BY <1>1, <1>4 DEF Returns
  <2>2. links \in LinkTables
    BY <1>2, TableIs DEF Frame
  <2> HIDE DEF links, r
  <2>3. After(Value(objects, result), r, links) = 0
    BY <1>2, <1>4, <2>2, AfterNowhere DEF Value
  <2>4. Value(objects', result') = 0
    BY <2>1 DEF Value
  <2>5. Chain(stack', Value(objects', result'), Written!Resolution)
    BY <1>3, <2>1, <2>3, <2>4, Zenon
  <2>6. Resolved(pc', stack', result', objects')
    BY <2>1, <2>5 DEF Resolved
  <2> QED
    BY <1>1, <2>6, ResolvePrimed
<1>5. CASE result # -1
  <2>1. GoesOn(result, r)
    BY <1>1, <1>5
  <2>2. Value(objects', result) = Value(objects, result)
    <3>1. /\ objects' \in Seq(Object) /\ Len(objects') = Len(objects)
          /\ \A k \in 1 .. Len(objects) : objects'[k].number = objects[k].number
      <4> HIDE DEF o
      <4> QED
        BY <1>1, <1>2, FreedIs
    <3>2. Len(objects) <= Len(objects')
      BY <1>2, <3>1
    <3> QED
      BY <1>2, <3>1, <3>2, ValueKept
  <2>3. Chain(t, After(Value(objects', result), r, links), Written!Resolution)
    BY <1>3, <2>2, Zenon
  <2> HIDE DEF r
  <2> QED
    BY <1>1, <1>2, <1>5, <2>1, <2>3, ResolveGoesOn
<1> QED
  BY <1>4, <1>5

LEMMA ResolveFound ==
    ASSUME TypeInv, ResolveInv, UNCHANGED <<partition, statics>>, Lookup!Found
    PROVE  ResolveInv'
<1> DEFINE R == Written!Resolution
<1>1. /\ pc = "return" /\ stack = <<>> /\ path' = path
      /\ Finds => pc' = "open" /\ objects' = objects /\ result' = result
      /\ ~Finds => pc' = "closed" /\ result' = -1
  BY FoundIs
<1>2. /\ Len(objects) \in Nat /\ objects \in Seq(Object) /\ partition \in Partitions
      /\ result \in -1 .. Len(objects)
  BY <1>1, WaitingIs DEF TypeInv
<1>3. Value(objects, result) = R
  <2> DEFINE none == <<>>
             v == Value(objects, result)
  <2>1. Chain(none, v, R)
    BY <1>1, Zenon DEF ResolveInv, Resolved
  <2> HIDE DEF v, R
  <2> QED
    BY <2>1, ChainEmpty DEF v
<1>4. /\ result = -1 => R = 0
      /\ result # -1 => R # 0 /\ R = Lookup!Number(result)
  <2>1. result # -1 => result \in 0 .. Len(objects)
    BY <1>2
  <2> QED
    BY <1>2, <1>3, <2>1, ValueIs DEF Value
<1>5. /\ Finds => R # 0 /\ Contents[R].type = "reg" /\ result # -1
      /\ ~Finds => ~(R # 0 /\ Contents[R].type = "reg")
  BY <1>4 DEF Finds
<1> HIDE DEF R
<1>6. CASE Finds
  <2>1. Resolved(pc', stack', result', objects')
    BY <1>1, <1>3, <1>5, <1>6 DEF Resolved, R
  <2> QED
    BY <1>1, <2>1, ResolvePrimed
<1>7. CASE ~Finds
  <2>1. Resolved(pc', stack', result', objects')
    BY <1>1, <1>5, <1>7 DEF Resolved, R
  <2> QED
    BY <1>1, <2>1, ResolvePrimed
<1> QED
  BY <1>6, <1>7

LEMMA ResolveClose ==
    ASSUME TypeInv, ResolveInv, UNCHANGED <<partition, statics>>, Lookup!Close
    PROVE  ResolveInv'
<1>1. /\ pc = "open" /\ pc' = "closed" /\ result \in 0 .. Len(objects) /\ path' = path
      /\ result' = result /\ objects' = Lookup!MaybeFree(objects, result)
  BY CloseIs
<1>2. objects \in Seq(Object) /\ Len(objects) \in Nat
  BY LenProperties DEF TypeInv
<1>3. Value(objects', result) = Value(objects, result)
  <2>1. /\ objects' \in Seq(Object) /\ Len(objects') = Len(objects)
        /\ \A k \in 1 .. Len(objects) : objects'[k].number = objects[k].number
    BY <1>1, <1>2, FreedIs
  <2>2. Len(objects) <= Len(objects') /\ result \in -1 .. Len(objects)
    BY <1>1, <1>2, <2>1
  <2> QED
    BY <1>2, <2>1, <2>2, ValueKept
<1>4. Resolved(pc', stack', result', objects')
  BY <1>1, <1>3 DEF ResolveInv, Resolved
<1> QED
  BY <1>1, <1>4, ResolvePrimed

LEMMA ResolveFind ==
    ASSUME TypeInv, UNCHANGED <<partition, statics>>, statics # Unmounted, Lookup!Find
    PROVE  ResolveInv'
<1> DEFINE none == <<>>
           R == Written!Resolution
<1>1. /\ pc = "find" /\ path' = path /\ objects' = objects /\ Enters(0, path, 0, none)
  BY FindIs
<1>2. path \in Seq(Tokens) /\ MaxSymlinks \in Nat
  BY FileSystemAssumption DEF TypeInv, Lookup!InodeLookupAssumption
<1>3. R = IF MaxSymlinks = 0 \/ path = <<>> THEN 0
          ELSE Written!Walk(RootNumber, path, Table(0))
  <2>1. MaxSymlinks # 0 => (MaxSymlinks - 1) - 0 = MaxSymlinks - 1
    BY <1>2
  <2> QED
    BY <2>1 DEF Written!Resolution, Written!Destination, Table
<1> HIDE DEF none, R
<1>4. CASE MaxSymlinks = 0 \/ path = <<>>
  <2>1. pc' = "return" /\ result' = -1 /\ stack' = none
    BY <1>1, <1>4 DEF Enters, Returns
  <2>2. Value(objects', result') = R
    BY <1>3, <1>4, <2>1 DEF Value
  <2> DEFINE v == Value(objects', result')
  <2> HIDE DEF v
  <2>3. Chain(none, v, R)
    BY <2>2, ChainEmpty DEF none, v
  <2>4. Resolved(pc', stack', result', objects')
    BY <2>1, <2>3 DEF Resolved, R, v
  <2> QED
    BY <1>1, <2>4, ResolvePrimed
<1>5. CASE ~(MaxSymlinks = 0 \/ path = <<>>)
  <2> DEFINE e == Entered(0, path, 0)
  <2>1. pc' = "loop" /\ Pushes(stack', e, none)
    BY <1>1, <1>5 DEF Enters, Calls
  <2>2. e.inode = 0 /\ e.path = path /\ e.symlinks = 0
    BY DEF Entered
  <2>3. stack'[1] = e /\ Tail(stack') = none
    BY <2>1 DEF Pushes
  <2> HIDE DEF e
  <2>4. Value(objects', e.inode) = RootNumber
    BY <2>2 DEF Value
  <2> DEFINE w == Written!Walk(Value(objects', e.inode), e.path, Table(e.symlinks))
  <2>5. w = R
    BY <1>3, <1>5, <2>2, <2>4, Zenon
  <2> HIDE DEF w
  <2>6. Chain(none, w, R)
    BY <2>5, ChainEmpty DEF none
  <2>7. Chain(Tail(stack'),
              Written!Walk(Value(objects', stack'[1].inode), stack'[1].path,
                           Table(stack'[1].symlinks)), Written!Resolution)
    BY <2>3, <2>6, Zenon DEF w, R
  <2>8. Resolved(pc', stack', result', objects')
    BY <2>1, <2>7 DEF Resolved
  <2> QED
    BY <1>1, <2>8, ResolvePrimed
<1> QED
  BY <1>4, <1>5

\* A bootloader that has crashed, or a heap that is broken, finds nothing more.
LEMMA ResolveStopped ==
    ASSUME TypeInv, UNCHANGED <<partition, statics>>,
           Lookup!LinkUnreadable \/ Lookup!FreedTwice
    PROVE  ResolveInv'
<1>1. pc' \in {"crashed", "undefined"} /\ path' = path
  BY LinkUnreadableIs, FreedTwiceIs
<1>2. Resolved(pc', stack', result', objects')
  BY <1>1 DEF Resolved
<1> QED
  BY <1>1, <1>2, ResolvePrimed

LEMMA ResolveNext ==
    ASSUME TypeInv, BalanceInv, LinksInBlocks(partition), ResolveInv, [Next]_vars
    PROVE  ResolveInv'
<1>1. CASE Initialize \/ Read \/ UNCHANGED vars
  <2>1. UNCHANGED <<partition, lookupVars>>
    BY <1>1 DEF Initialize, Read, vars
  <2>2. Resolved(pc', stack', result', objects')
    BY <2>1 DEF ResolveInv, lookupVars
  <2> QED
    BY <2>1, <2>2, ResolvePrimed DEF lookupVars
<1>2. CASE Find
  <2>1. UNCHANGED <<partition, statics>> /\ statics # Unmounted
    BY <1>2 DEF Find
  <2>2. CASE Lookup!Find
    BY <2>1, <2>2, ResolveFind
  <2>3. CASE Lookup!NotFound
    BY <2>1, <2>3, ResolveNotFound
  <2>4. CASE Lookup!EndOfPath
    BY <2>1, <2>4, ResolveEndOfPath
  <2>5. CASE Lookup!FollowLink
    BY <2>1, <2>5, ResolveFollowLink
  <2>6. CASE Lookup!Descend
    BY <2>1, <2>6, ResolveDescend
  <2>7. CASE Lookup!LinkFollowed
    BY <2>1, <2>7, ResolveLinkFollowed
  <2>8. CASE Lookup!Found
    BY <2>1, <2>8, ResolveFound
  <2>9. CASE Lookup!LinkUnreadable \/ Lookup!FreedTwice
    BY <2>1, <2>9, ResolveStopped
  <2> QED
    BY <1>2, <2>2, <2>3, <2>4, <2>5, <2>6, <2>7, <2>8, <2>9 DEF Find
<1>3. CASE Free
  BY <1>3, ResolveClose DEF Free
<1> QED
  BY <1>1, <1>2, <1>3 DEF Next

LEMMA ResolutionIs ==
    ASSUME TypeInv, LinksInBlocks(partition) => ResolveInv
    PROVE  LookupIsResolution
<1> DEFINE R == Written!Resolution
<1> SUFFICES ASSUME LinksInBlocks(partition), pc \in {"open", "closed"}
             PROVE  IF R # 0 /\ Contents[R].type = "reg"
                      THEN result # -1 /\ Written!Number(result) = R
                      ELSE result = -1
  BY Zenon DEF LookupIsResolution, Written!LookupIsResolution, Written!Null, Contents
<1>1. IF R # 0 /\ Contents[R].type = "reg"
        THEN result # -1 /\ Value(objects, result) = R
        ELSE result = -1
  BY DEF ResolveInv, Resolved
<1>2. result # -1 => Written!Number(result) = Value(objects, result)
  BY DEF Written!Number, Written!Root, Value
<1> QED
  BY <1>1, <1>2

\* The partition is what it was, and so is where its links are.
LEMMA LinksStay ==
    ASSUME [Next]_vars
    PROVE  LinksInBlocks(partition)' <=> LinksInBlocks(partition)
<1>1. partition' = partition
  BY DEF Next, Initialize, Find, Read, Free, vars
<1> QED
  BY <1>1 DEF LinksInBlocks, Readable, LinkText, TextByte, BlockOf

\* BlFsFind finds the file its path means, and nothing else: for any volume that keeps
\* the targets of its links in blocks, however long the path and however links are nested,
\* up to the limit on links inside each other, and whichever blocks the heap hands out.
THEOREM LookupIsCorrect == Spec => []LookupIsResolution
<1> DEFINE Resolves == LinksInBlocks(partition) => ResolveInv
<1>1. Init => TypeInv /\ BalanceInv /\ Resolves
  BY TypeInit, BalanceInit DEF Init, Lookup!Init, ResolveInv, Resolved
<1>2. TypeInv /\ BalanceInv /\ Resolves /\ [Next]_vars
        => (TypeInv /\ BalanceInv /\ Resolves)'
  <2>1. TypeInv /\ BalanceInv /\ [Next]_vars => (TypeInv /\ BalanceInv)'
    BY TypeNext, BalanceNext
  <2>2. TypeInv /\ BalanceInv /\ Resolves /\ [Next]_vars => Resolves'
    BY ResolveNext, LinksStay
  <2> QED
    BY <2>1, <2>2
<1>3. TypeInv /\ Resolves => LookupIsResolution
  BY ResolutionIs
<1> QED
  BY <1>1, <1>2, <1>3, PTL DEF Spec

-----------------------------------------------------------------------------
(* The trees of a file's blocks: how many blocks they have, and which. *)

Power == Reader!Power
TreeSize == Reader!TreeSize

LEMMA ReadAssumption ==
    /\ BlockSize \in Nat \ {0} /\ SectorSize \in Nat \ {0} /\ BlockSize % SectorSize = 0
    /\ PointerCount \in Nat \ {0} /\ Levels \in Nat
    /\ WordSize \in Nat /\ Power[Levels] < WordSize
    /\ PartitionSize \in Nat /\ MaxCount \in Nat
    /\ DOMAIN PointersOf \subseteq Nat \ {0}
    /\ \A block \in DOMAIN PointersOf : PointersOf[block] \in [1 .. PointerCount -> Nat]
BY FileSystemAssumption DEF Reader!InodeReadAssumption, Power

LEMMA PowerIs ==
    /\ Power \in [Nat -> Nat] /\ Power[0] = 1
    /\ \A n \in Nat : Power[n + 1] = Power[n] * PointerCount
<1> DEFINE step == [n \in Nat |-> [x \in Nat |-> x * PointerCount]]
           one == 1
           Def(h) == [n \in Nat |-> IF n = 0 THEN 1 ELSE h[n - 1] * PointerCount]
<1>1. step \in [Nat -> [Nat -> Nat]] /\ one \in Nat
  <2>1. \A x \in Nat : x * PointerCount \in Nat
    BY ReadAssumption
  <2> QED
    BY <2>1
<1>2. PICK f : f \in [Nat -> Nat] /\ f[0] = one /\ \A n \in Nat : f[n + 1] = step[n + 1][f[n]]
  <2> HIDE DEF step, one
  <2>1. \E f : Runs(f, Nat, one, step)
    BY <1>1, TypedRecursion
  <2> QED
    BY <2>1 DEF Runs
<1>3. \A n \in Nat : f[n + 1] = f[n] * PointerCount
  <2> TAKE n \in Nat
  <2>1. f[n] \in Nat /\ n + 1 \in Nat
    BY <1>2
  <2>2. step[n + 1] = [x \in Nat |-> x * PointerCount]
    BY <2>1
  <2>3. f[n + 1] = step[n + 1][f[n]]
    BY <1>2
  <2> HIDE DEF step
  <2> QED
    BY <2>1, <2>2, <2>3
<1>4. f = Def(f)
  <2>1. \A n \in Nat : f[n] = IF n = 0 THEN 1 ELSE f[n - 1] * PointerCount
    <3> TAKE n \in Nat
    <3>1. n # 0 => n - 1 \in Nat /\ (n - 1) + 1 = n
      OBVIOUS
    <3>2. n # 0 => f[n] = f[n - 1] * PointerCount
      BY <1>3, <3>1
    <3> QED
      BY <1>2, <3>2
  <2> QED
    BY <1>2, <2>1
<1>5. Power = Def(Power)
  <2>1. \E h : h = Def(h)
    BY <1>4
  <2>2. Power = CHOOSE h : h = Def(h)
    BY Zenon DEF Power, Reader!Power
  <2> HIDE DEF Def
  <2> QED
    BY <2>1, <2>2
<1>6. \A n \in Nat : n + 1 \in Nat /\ n + 1 # 0 /\ (n + 1) - 1 = n
  OBVIOUS
<1>7. DOMAIN Power = Nat /\ Power[0] = 1 /\ \A n \in Nat : Power[n + 1] = Power[n] * PointerCount
  BY <1>5, <1>6
<1> DEFINE T == {n \in Nat : Power[n] \in Nat}
<1>8. 0 \in T
  BY <1>7
<1>9. \A n \in T : n + 1 \in T
  <2> TAKE n \in T
  <2> DEFINE x == Power[n]
  <2>1. x \in Nat
    OBVIOUS
  <2> HIDE DEF x
  <2>2. x * PointerCount \in Nat
    BY <2>1, ReadAssumption
  <2> QED
    BY <1>7, <2>2 DEF x
<1>10. \A n \in Nat : n \in T
  <2>1. T \in SUBSET Nat
    OBVIOUS
  <2> HIDE DEF T
  <2> QED
    BY <1>8, <1>9, <2>1, Induction
<1>11. Power = [n \in Nat |-> Power[n]]
  BY <1>5
<1> QED
  BY <1>7, <1>10, <1>11

LEMMA PowerGrows ==
    ASSUME NEW m \in Nat, NEW n \in Nat
    PROVE  Power[m] >= 1 /\ Power[m] <= Power[m + n]
<1> DEFINE T == {k \in Nat : Power[k] >= 1}
           U == {k \in Nat : Power[m] <= Power[m + k]}
<1>1. ASSUME NEW k \in Nat PROVE Power[k] \in Nat /\ Power[k] <= Power[k + 1]
  <2>1. Power[k] \in Nat /\ Power[k + 1] = Power[k] * PointerCount
    BY PowerIs
  <2> DEFINE x == Power[k]
  <2> HIDE DEF x
  <2>2. x \in Nat => x <= x * PointerCount
    BY ReadAssumption
  <2> QED
    BY <2>1, <2>2 DEF x
<1>2. 0 \in T
  BY PowerIs
<1>3. \A k \in T : k + 1 \in T
  <2> TAKE k \in T
  <2>1. k \in Nat /\ k + 1 \in Nat /\ Power[k] >= 1
    OBVIOUS
  <2>2. Power[k] \in Nat /\ Power[k] <= Power[k + 1] /\ Power[k + 1] \in Nat
    BY <1>1, <2>1
  <2>3. Power[k + 1] >= 1
    BY <2>1, <2>2
  <2> QED
    BY <2>1, <2>3
<1>4. \A k \in Nat : k \in T
  <2>1. T \in SUBSET Nat
    OBVIOUS
  <2> HIDE DEF T
  <2> QED
    BY <1>2, <1>3, <2>1, Induction
<1>5. 0 \in U
  BY PowerIs
<1>6. \A k \in U : k + 1 \in U
  <2> SUFFICES ASSUME NEW k \in U PROVE Power[m] <= Power[m + (k + 1)]
    OBVIOUS
  <2>1. k \in Nat /\ m + k \in Nat /\ m + (k + 1) = (m + k) + 1 /\ m + (k + 1) \in Nat
    OBVIOUS
  <2>2. Power[m] <= Power[m + k] /\ Power[m + k] <= Power[m + (k + 1)]
    BY <1>1, <2>1
  <2>3. Power[m] \in Nat /\ Power[m + k] \in Nat /\ Power[m + (k + 1)] \in Nat
    BY <1>1, <2>1
  <2> QED
    BY <2>2, <2>3
<1>7. \A k \in Nat : k \in U
  <2>1. U \in SUBSET Nat
    OBVIOUS
  <2> HIDE DEF U
  <2> QED
    BY <1>5, <1>6, <2>1, Induction
<1> QED
  BY <1>4, <1>7

\* No number of blocks that is compared with is too large for a word.
LEMMA TreeSizes ==
    \A l \in Nat : TreeSize[l] \in Nat /\ (l < Levels => TreeSize[l] = Power[l + 1])
<1> DEFINE step == [n \in Nat |-> [x \in Nat |-> (x * PointerCount) % WordSize]]
           first == PointerCount
           Def(h) == [level \in Nat |-> IF level = 0 THEN PointerCount
                                        ELSE (h[level - 1] * PointerCount) % WordSize]
<1>1. step \in [Nat -> [Nat -> Nat]] /\ first \in Nat
  <2>1. WordSize \in Nat \ {0}
    BY ReadAssumption, PowerIs
  <2>2. \A x \in Nat : x * PointerCount \in Nat
    BY ReadAssumption
  <2>3. \A x \in Nat : x % WordSize \in Nat
    BY <2>1
  <2> QED
    BY <2>2, <2>3, ReadAssumption
<1>2. PICK f : f \in [Nat -> Nat] /\ f[0] = first /\ \A n \in Nat : f[n + 1] = step[n + 1][f[n]]
  <2> HIDE DEF step, first
  <2>1. \E f : Runs(f, Nat, first, step)
    BY <1>1, TypedRecursion
  <2> QED
    BY <2>1 DEF Runs
<1>3. \A n \in Nat : f[n + 1] = (f[n] * PointerCount) % WordSize
  <2> TAKE n \in Nat
  <2>1. f[n] \in Nat /\ n + 1 \in Nat
    BY <1>2
  <2>2. step[n + 1] = [x \in Nat |-> (x * PointerCount) % WordSize]
    BY <2>1
  <2>3. f[n + 1] = step[n + 1][f[n]]
    BY <1>2
  <2> HIDE DEF step
  <2> QED
    BY <2>1, <2>2, <2>3
<1>4. f = Def(f)
  <2>1. \A n \in Nat : f[n] = IF n = 0 THEN PointerCount
                              ELSE (f[n - 1] * PointerCount) % WordSize
    <3> TAKE n \in Nat
    <3>1. n # 0 => n - 1 \in Nat /\ (n - 1) + 1 = n
      OBVIOUS
    <3>2. n # 0 => f[n] = (f[n - 1] * PointerCount) % WordSize
      BY <1>3, <3>1
    <3> QED
      BY <1>2, <3>2
  <2> QED
    BY <1>2, <2>1
<1>5. TreeSize = Def(TreeSize)
  <2>1. \E h : h = Def(h)
    BY <1>4
  <2>2. TreeSize = CHOOSE h : h = Def(h)
    BY Zenon DEF TreeSize, Reader!TreeSize
  <2> HIDE DEF Def
  <2> QED
    BY <2>1, <2>2
<1>6. \A n \in Nat : n + 1 \in Nat /\ n + 1 # 0 /\ (n + 1) - 1 = n
  OBVIOUS
<1>7. /\ TreeSize[0] = PointerCount
      /\ \A n \in Nat : TreeSize[n + 1] = (TreeSize[n] * PointerCount) % WordSize
  BY <1>5, <1>6
<1> DEFINE T == {n \in Nat : n < Levels => TreeSize[n] = Power[n + 1]}
<1>8. 0 \in T
  <2>1. Power[0 + 1] = Power[0] * PointerCount
    BY PowerIs
  <2> QED
    BY <1>7, <2>1, PowerIs, ReadAssumption
<1>9. \A n \in T : n + 1 \in T
  <2> SUFFICES ASSUME NEW n \in T, n + 1 < Levels PROVE TreeSize[n + 1] = Power[(n + 1) + 1]
    OBVIOUS
  <2>1. TreeSize[n] = Power[n + 1]
    BY ReadAssumption
  <2>2. TreeSize[n + 1] = (Power[n + 1] * PointerCount) % WordSize
    BY <1>7, <2>1
  <2>3. Power[(n + 1) + 1] = Power[n + 1] * PointerCount /\ Power[(n + 1) + 1] \in Nat
    BY PowerIs
  <2>4. Power[(n + 1) + 1] <= Power[Levels]
    <3>1. /\ (n + 1) + 1 \in Nat /\ Levels - ((n + 1) + 1) \in Nat
          /\ ((n + 1) + 1) + (Levels - ((n + 1) + 1)) = Levels
      BY ReadAssumption
    <3>2. Power[(n + 1) + 1] <= Power[((n + 1) + 1) + (Levels - ((n + 1) + 1))]
      BY <3>1, PowerGrows
    <3> QED
      BY <3>1, <3>2
  <2> DEFINE x == Power[(n + 1) + 1]
  <2>5. x \in Nat /\ x < WordSize /\ WordSize \in Nat
    <3>1. Power[Levels] < WordSize /\ Power[Levels] \in Nat /\ WordSize \in Nat
      BY ReadAssumption, PowerIs
    <3> QED
      BY <2>3, <2>4, <3>1
  <2>6. TreeSize[n + 1] = x % WordSize
    BY <2>2, <2>3
  <2> HIDE DEF x
  <2>7. x % WordSize = x
    BY <2>5
  <2> QED
    BY <2>6, <2>7 DEF x
<1>10. \A n \in Nat : n \in T
  <2>1. T \in SUBSET Nat
    OBVIOUS
  <2> HIDE DEF T
  <2> QED
    BY <1>8, <1>9, <2>1, Induction
<1> DEFINE U == {n \in Nat : TreeSize[n] \in Nat}
<1>11. 0 \in U
  BY <1>7, ReadAssumption
<1>12. \A n \in U : n + 1 \in U
  <2> TAKE n \in U
  <2> DEFINE x == TreeSize[n]
  <2>1. x \in Nat
    OBVIOUS
  <2> HIDE DEF x
  <2>2. x * PointerCount \in Nat /\ WordSize \in Nat \ {0}
    BY <2>1, ReadAssumption, PowerIs
  <2>3. (x * PointerCount) % WordSize \in Nat
    <3> DEFINE y == x * PointerCount
    <3>1. y \in Nat
      BY <2>2
    <3> HIDE DEF y
    <3>2. y % WordSize \in Nat
      BY <2>2, <3>1
    <3> QED
      BY <3>2 DEF y
  <2> QED
    BY <1>7, <2>3 DEF x
<1>13. \A n \in Nat : n \in U
  <2>1. U \in SUBSET Nat
    OBVIOUS
  <2> HIDE DEF U
  <2> QED
    BY <1>11, <1>12, <2>1, Induction
<1> HIDE DEF TreeSize
<1> QED
  BY <1>10, <1>13

LEMMA Joined ==
    ASSUME NEW a \in Seq(Nat), NEW b \in Seq(Nat)
    PROVE  /\ a \o b \in Seq(Nat) /\ Len(a) \in Nat /\ Len(b) \in Nat
           /\ Len(a \o b) = Len(a) + Len(b)
           /\ \A m \in 1 .. Len(a) : (a \o b)[m] = a[m]
           /\ \A m \in 1 .. Len(b) : (a \o b)[Len(a) + m] = b[m]
OBVIOUS

LEMMA LengthIs ==
    ASSUME NEW X, NEW n \in Nat, NEW s \in [1 .. n -> X]
    PROVE  s \in Seq(X) /\ Len(s) = n
<1>1. s \in Seq(X)
  BY SeqDef
<1>2. s \in [1 .. Len(s) -> X] /\ Len(s) \in Nat
  BY <1>1, LenProperties
<1>3. 1 .. Len(s) = 1 .. n
  BY <1>2
<1> DEFINE l == Len(s)
<1>4. l \in Nat /\ 1 .. l = 1 .. n
  BY <1>2, <1>3
<1> HIDE DEF l
<1>5. (l >= 1 => l \in 1 .. n) /\ (n >= 1 => n \in 1 .. l)
  BY <1>4
<1>6. l = n
  BY <1>4, <1>5
<1> QED
  BY <1>1, <1>6 DEF l

\* Sequences put together: where the elements of each are in the whole.
Pieces(s, n, S) ==
    /\ s \in [1 .. n -> Seq(Nat)]
    /\ S \in [Nat -> Nat] /\ S[0] = 0
    /\ \A i \in 1 .. n : S[i] = S[i - 1] + Len(s[i])

LEMMA FlattenIs ==
    ASSUME NEW n \in Nat, NEW s, NEW S, Pieces(s, n, S)
    PROVE  /\ FlattenSeq(s) \in Seq(Nat) /\ Len(FlattenSeq(s)) = S[n]
           /\ \A i \in 1 .. n : \A j \in 1 .. Len(s[i]) : FlattenSeq(s)[S[i - 1] + j] = s[i][j]
<1> DEFINE Def(h) == [i \in 1 .. n |-> IF i = 1 THEN s[i] ELSE h[i - 1] \o s[i]]
           whole == CHOOSE h : h = Def(h)
<1>1. Len(s) = n
  BY LengthIs DEF Pieces
<1>2. CASE n = 0
  <2>1. Len(s) = 0
    BY <1>1, <1>2
  <2>2. FlattenSeq(s) = s
    BY <2>1, Zenon DEF FlattenSeq
  <2>3. s \in [1 .. 0 -> Seq(Nat)] /\ S[0] = 0
    BY <1>2 DEF Pieces
  <2>4. s \in Seq(Nat) /\ 1 .. n = {}
    BY <1>2, <2>3
  <2> QED
    BY <1>2, <2>1, <2>2, <2>3, <2>4
<1>3. CASE n # 0
  <2>1. FlattenSeq(s) = whole[n]
    BY <1>1, <1>3, Zenon DEF FlattenSeq
  <2> DEFINE V == Seq(Nat)
             none == <<>>
             step == [k \in Nat |-> [x \in V |-> IF k \in 1 .. n
                                       THEN (IF k = 1 THEN s[k] ELSE x \o s[k]) ELSE x]]
  <2>2. step \in [Nat -> [V -> V]] /\ none \in V
    <3>1. \A k \in 1 .. n : s[k] \in V
      BY DEF Pieces
    <3>2. \A x, y \in V : x \o y \in V
      OBVIOUS
    <3>3. none \in V
      OBVIOUS
    <3> HIDE DEF V, none
    <3> QED
      BY <3>1, <3>2, <3>3
  <2>3. PICK f : f \in [Nat -> V] /\ f[0] = none /\ \A k \in Nat : f[k + 1] = step[k + 1][f[k]]
    <3> HIDE DEF step, none, V
    <3>1. \E f : Runs(f, V, none, step)
      BY <2>2, TypedRecursion
    <3> QED
      BY <3>1 DEF Runs
  <2>4. \A k \in 1 .. n : f[k] = IF k = 1 THEN s[k] ELSE f[k - 1] \o s[k]
    <3> TAKE k \in 1 .. n
    <3>1. k - 1 \in Nat /\ (k - 1) + 1 = k /\ k \in Nat
      OBVIOUS
    <3> HIDE DEF V
    <3>2. f[k - 1] \in V /\ f[k] = step[k][f[k - 1]]
      BY <2>3, <3>1
    <3>3. step[k] = [x \in V |-> IF k = 1 THEN s[k] ELSE x \o s[k]]
      BY <3>1
    <3> HIDE DEF step
    <3> QED
      BY <3>2, <3>3
  <2> DEFINE g == [k \in 1 .. n |-> f[k]]
  <2>5. g = Def(g)
    <3>1. \A k \in 1 .. n : k # 1 => k - 1 \in 1 .. n
      OBVIOUS
    <3>2. \A k \in 1 .. n : g[k] = IF k = 1 THEN s[k] ELSE g[k - 1] \o s[k]
      BY <2>4, <3>1
    <3>3. \A k \in 1 .. n : g[k] = Def(g)[k]
      BY <3>2
    <3> QED
      BY <3>3
  <2>6. whole = Def(whole)
    <3> HIDE DEF g
    <3>1. \E h : h = Def(h)
      BY <2>5
    <3> HIDE DEF Def
    <3> QED
      BY <3>1
  <2> HIDE DEF whole, g, step
  <2>7. \A k \in 1 .. n : whole[k] = IF k = 1 THEN s[k] ELSE whole[k - 1] \o s[k]
    BY <2>6
  <2> DEFINE Good(k) == /\ whole[k] \in Seq(Nat) /\ Len(whole[k]) = S[k]
                        /\ \A i \in 1 .. k : /\ S[i] <= S[k]
                                             /\ \A j \in 1 .. Len(s[i]) :
                                                  whole[k][S[i - 1] + j] = s[i][j]
             T == {k \in Nat : k + 1 <= n => Good(k + 1)}
  <2>8. 0 \in T
    <3>1. 1 \in 1 .. n /\ \A i \in 1 .. 1 : i = 1
      BY <1>3
    <3>2. whole[1] = s[1] /\ s[1] \in Seq(Nat) /\ S[1] = S[0] + Len(s[1]) /\ S[0] = 0
      <4>1. whole[1] = s[1]
        BY <2>7, <3>1
      <4> QED
        BY <3>1, <4>1 DEF Pieces
    <3>3. S[1] = Len(s[1]) /\ Len(s[1]) \in Nat /\ S[1] \in Nat
      BY <3>2
    <3> HIDE DEF Def
    <3>4. \A j \in 1 .. Len(s[1]) : S[1 - 1] + j = j
      BY <3>2, <3>3
    <3>5. S[1] <= S[1]
      BY <3>3
    <3>6. Good(1)
      BY <3>1, <3>2, <3>3, <3>4, <3>5
    <3> HIDE DEF Good
    <3> QED
      BY <3>6
  <2>9. \A k \in T : k + 1 \in T
    <3> SUFFICES ASSUME NEW k \in Nat, k + 2 <= n, Good(k + 1) PROVE Good(k + 2)
      <4> HIDE DEF Good
      <4>1. ASSUME NEW k \in T PROVE k + 1 \in T
        <5>1. k \in Nat /\ (k + 1 <= n => Good(k + 1))
          OBVIOUS
        <5>2. (k + 1) + 1 = k + 2 /\ k + 1 \in Nat /\ (k + 2 <= n => k + 1 <= n)
          BY <5>1
        <5>3. k + 2 <= n => Good((k + 1) + 1)
          BY <5>1, <5>2
        <5> QED
          BY <5>2, <5>3
      <4> QED
        BY <4>1
    <3> DEFINE a == whole[k + 1]
               b == s[k + 2]
               c == whole[k + 2]
    <3>1. /\ k + 2 \in 1 .. n /\ k + 2 # 1 /\ (k + 2) - 1 = k + 1 /\ k + 1 \in 1 .. n
      OBVIOUS
    <3>2. c = a \o b /\ b \in Seq(Nat) /\ S[k + 2] = S[k + 1] + Len(b)
      <4>1. c = a \o b
        BY <2>7, <3>1
      <4>2. s[k + 2] \in Seq(Nat) /\ S[k + 2] = S[(k + 2) - 1] + Len(s[k + 2])
        BY <3>1 DEF Pieces
      <4> QED
        BY <3>1, <4>1, <4>2
    <3>3. a \in Seq(Nat) /\ Len(a) = S[k + 1]
      OBVIOUS
    <3>4. S[k + 1] \in Nat /\ S[k + 2] \in Nat
      <4>1. k + 1 \in Nat /\ k + 2 \in Nat
        OBVIOUS
      <4> QED
        BY <4>1 DEF Pieces
    <3>5. /\ \A i \in 1 .. (k + 1) : S[i] <= S[k + 1]
          /\ \A i \in 1 .. (k + 1) : \A j \in 1 .. Len(s[i]) : a[S[i - 1] + j] = s[i][j]
      OBVIOUS
    <3> HIDE DEF a, b, c, Def, Good
    <3>6. /\ c \in Seq(Nat) /\ Len(b) \in Nat /\ Len(c) = Len(a) + Len(b)
          /\ \A m \in 1 .. Len(a) : c[m] = a[m]
          /\ \A m \in 1 .. Len(b) : c[Len(a) + m] = b[m]
      BY <3>2, <3>3, Joined
    <3> DEFINE now == S[k + 1]
               next == S[k + 2]
    <3>8. /\ Len(c) = next /\ Len(a) = now /\ next = now + Len(b)
          /\ now \in Nat /\ next \in Nat /\ Len(b) \in Nat
      BY <3>2, <3>3, <3>4, <3>6
    <3>9. \A i \in 1 .. (k + 1) : S[i] <= now
      BY <3>5
    <3> HIDE DEF now, next
    <3>7. ASSUME NEW i \in 1 .. (k + 2)
          PROVE  S[i] <= next /\ \A j \in 1 .. Len(s[i]) : c[S[i - 1] + j] = s[i][j]
      <4>1. CASE i = k + 2
        <5>1. s[i] = b /\ i - 1 = k + 1
          BY <3>1, <4>1 DEF b
        <5>2. S[i - 1] = Len(a)
          BY <3>3, <5>1
        <5>3. S[i] = next
          BY <4>1 DEF next
        <5> QED
          BY <3>6, <3>8, <5>1, <5>2, <5>3
      <4>2. CASE i # k + 2
        <5> DEFINE x == S[i]
                   y == S[i - 1]
                   t == s[i]
        <5>1. i \in 1 .. (k + 1) /\ i \in 1 .. n /\ i - 1 \in Nat /\ i \in Nat
          BY <3>1, <4>2
        <5>2. x = y + Len(t) /\ x \in Nat /\ y \in Nat /\ t \in Seq(Nat)
          BY <5>1 DEF Pieces
        <5>3. x <= now
          BY <3>9, <5>1
        <5>4. \A j \in 1 .. Len(t) : a[y + j] = t[j]
          BY <3>5, <5>1
        <5> HIDE DEF x, y, t
        <5>5. Len(t) \in Nat
          BY <5>2, LenProperties
        <5>6. x <= next
          BY <3>8, <5>2, <5>3
        <5>7. ASSUME NEW j \in 1 .. Len(t) PROVE c[y + j] = t[j]
          <6>1. y + j \in 1 .. Len(a)
            BY <3>8, <5>2, <5>3, <5>5
          <6> QED
            BY <3>6, <5>4, <6>1
        <5> QED
          BY <5>6, <5>7 DEF x, y, t
      <4> QED
        BY <4>1, <4>2
    <3> QED
      BY <3>6, <3>7, <3>8 DEF Good, c, next
  <2>10. \A k \in Nat : k \in T
    <3>1. T \in SUBSET Nat
      OBVIOUS
    <3> HIDE DEF T
    <3> QED
      BY <2>8, <2>9, <3>1, Induction
  <2>11. n - 1 \in Nat /\ (n - 1) + 1 = n
    BY <1>3
  <2>12. Good(n)
    <3> HIDE DEF Good
    <3>1. n - 1 \in T
      BY <2>10, <2>11
    <3>2. (n - 1) + 1 <= n => Good((n - 1) + 1)
      BY <3>1
    <3> QED
      BY <2>11, <3>2
  <2> QED
    BY <2>1, <2>12
<1> QED
  BY <1>2, <1>3

LEMMA PiecesAre ==
    ASSUME NEW n \in Nat, NEW s \in [1 .. n -> Seq(Nat)]
    PROVE  \E S : Pieces(s, n, S)
<1> DEFINE step == [k \in Nat |-> [x \in Nat |-> IF k \in 1 .. n THEN x + Len(s[k]) ELSE x]]
           zero == 0
<1>1. \A k \in 1 .. n : Len(s[k]) \in Nat
  BY LenProperties
<1>2. step \in [Nat -> [Nat -> Nat]] /\ zero \in Nat
  <2> DEFINE l == [k \in 1 .. n |-> Len(s[k])]
  <2>1. \A k \in 1 .. n : l[k] \in Nat /\ l[k] = Len(s[k])
    BY <1>1
  <2> HIDE DEF l
  <2>2. \A k \in Nat, x \in Nat : (IF k \in 1 .. n THEN x + Len(s[k]) ELSE x) \in Nat
    BY <2>1
  <2> QED
    BY <2>2
<1>3. PICK f : f \in [Nat -> Nat] /\ f[0] = zero /\ \A k \in Nat : f[k + 1] = step[k + 1][f[k]]
  <2> HIDE DEF step, zero
  <2>1. \E f : Runs(f, Nat, zero, step)
    BY <1>2, TypedRecursion
  <2> QED
    BY <2>1 DEF Runs
<1>4. \A i \in 1 .. n : f[i] = f[i - 1] + Len(s[i])
  <2> TAKE i \in 1 .. n
  <2>1. i - 1 \in Nat /\ (i - 1) + 1 = i /\ i \in Nat
    OBVIOUS
  <2>2. f[i - 1] \in Nat /\ f[i] = step[i][f[i - 1]]
    BY <1>3, <2>1
  <2>3. step[i] = [x \in Nat |-> x + Len(s[i])]
    BY <2>1
  <2> HIDE DEF step
  <2> QED
    BY <2>2, <2>3
<1>5. Pieces(s, n, f)
  BY <1>3, <1>4 DEF Pieces
<1> QED
  BY <1>5

LEMMA FlattenType ==
    ASSUME NEW n \in Nat, NEW s \in [1 .. n -> Seq(Nat)]
    PROVE  FlattenSeq(s) \in Seq(Nat)
<1>1. PICK S : Pieces(s, n, S)
  BY PiecesAre
<1> QED
  BY <1>1, FlattenIs

\* The same for sequences of one length.
Even(s, n, size) == s \in [1 .. n -> Seq(Nat)] /\ \A i \in 1 .. n : Len(s[i]) = size

LEMMA FlattenEven ==
    ASSUME NEW n \in Nat, NEW size \in Nat, NEW s, Even(s, n, size)
    PROVE  /\ FlattenSeq(s) \in Seq(Nat) /\ Len(FlattenSeq(s)) = n * size
           /\ \A i \in 1 .. n : \A j \in 1 .. size :
                FlattenSeq(s)[(i - 1) * size + j] = s[i][j]
<1> DEFINE S == [i \in Nat |-> i * size]
<1>1. \A i \in Nat : S[i] \in Nat /\ (i >= 1 => i * size = (i - 1) * size + size)
  OBVIOUS
<1>2. \A i \in 1 .. n : S[i] = S[i - 1] + size
  BY <1>1
<1>3. S \in [Nat -> Nat] /\ S[0] = 0
  BY <1>1
<1>4. \A i \in 1 .. n : S[i - 1] = (i - 1) * size
  OBVIOUS
<1>5. S[n] = n * size
  OBVIOUS
<1> HIDE DEF S
<1>6. Pieces(s, n, S)
  BY <1>2, <1>3 DEF Even, Pieces
<1>7. /\ FlattenSeq(s) \in Seq(Nat) /\ Len(FlattenSeq(s)) = S[n]
      /\ \A i \in 1 .. n : \A j \in 1 .. Len(s[i]) : FlattenSeq(s)[S[i - 1] + j] = s[i][j]
  BY <1>6, FlattenIs
<1>8. \A i \in 1 .. n : Len(s[i]) = size
  BY DEF Even
<1>9. ASSUME NEW i \in 1 .. n, NEW j \in 1 .. size
      PROVE  FlattenSeq(s)[(i - 1) * size + j] = s[i][j]
  <2>1. FlattenSeq(s)[S[i - 1] + j] = s[i][j]
    BY <1>7, <1>8
  <2>2. S[i - 1] = (i - 1) * size
    BY <1>4
  <2> QED
    BY <2>1, <2>2, Zenon
<1> QED
  BY <1>5, <1>7, <1>9

Leaves == Reader!Leaves
Trees == Reader!Trees

\* The leaves of the tree at a block, when those one level below are known.
Above(height, below, block) ==
    IF block \notin DOMAIN PointersOf THEN [i \in 1 .. Power[height] |-> 0]
    ELSE FlattenSeq([i \in 1 .. PointerCount |-> below[PointersOf[block][i]]])

LEMMA AboveType ==
    ASSUME NEW height \in Nat, NEW below \in [Nat -> Seq(Nat)], NEW block \in Nat
    PROVE  Above(height, below, block) \in Seq(Nat)
<1>1. CASE block \notin DOMAIN PointersOf
  <2> DEFINE l == Power[height]
  <2>1. l \in Nat
    BY PowerIs
  <2> HIDE DEF l
  <2>2. [i \in 1 .. l |-> 0] \in Seq(Nat)
    BY <2>1
  <2> QED
    BY <1>1, <2>2 DEF Above, l
<1>2. CASE block \in DOMAIN PointersOf
  <2> DEFINE s == [i \in 1 .. PointerCount |-> below[PointersOf[block][i]]]
  <2>1. PointerCount \in Nat /\ PointersOf[block] \in [1 .. PointerCount -> Nat]
    BY <1>2, ReadAssumption
  <2>2. \A i \in 1 .. PointerCount : below[PointersOf[block][i]] \in Seq(Nat)
    BY <2>1
  <2>3. s \in [1 .. PointerCount -> Seq(Nat)]
    BY <2>2
  <2> HIDE DEF s
  <2>4. FlattenSeq(s) \in Seq(Nat)
    BY <2>1, <2>3, FlattenType
  <2> QED
    BY <1>2, <2>4 DEF Above, s
<1> QED
  BY <1>1, <1>2

LEMMA LeavesAre ==
    /\ Leaves \in [Nat -> [Nat -> Seq(Nat)]]
    /\ \A block \in Nat : Leaves[0][block] = <<block>>
    /\ \A height, block \in Nat :
         Leaves[height + 1][block] = Above(height + 1, Leaves[height], block)
<1> DEFINE V == [Nat -> Seq(Nat)]
           own == [block \in Nat |-> <<block>>]
           step == [n \in Nat |-> [x \in V |-> [block \in Nat |-> Above(n, x, block)]]]
           To(n, x, block) == IF n = 0 THEN <<block>> ELSE Above(n, x, block)
           Def(h) == [height \in Nat |-> [block \in Nat |-> To(height, h[height - 1], block)]]
<1>1. step \in [Nat -> [V -> V]] /\ own \in V
  <2>1. \A n \in Nat, x \in V, block \in Nat : Above(n, x, block) \in Seq(Nat)
    BY AboveType
  <2>2. \A block \in Nat : <<block>> \in Seq(Nat)
    OBVIOUS
  <2> QED
    BY <2>1, <2>2
<1>2. PICK f : f \in [Nat -> V] /\ f[0] = own /\ \A n \in Nat : f[n + 1] = step[n + 1][f[n]]
  <2> HIDE DEF step, own, V
  <2>1. \E f : Runs(f, V, own, step)
    BY <1>1, TypedRecursion
  <2> QED
    BY <2>1 DEF Runs
<1>3. \A n \in Nat : f[n + 1] = [block \in Nat |-> Above(n + 1, f[n], block)]
  <2> TAKE n \in Nat
  <2> HIDE DEF V
  <2>1. f[n] \in V /\ n + 1 \in Nat
    BY <1>2
  <2>2. step[n + 1] = [x \in V |-> [block \in Nat |-> Above(n + 1, x, block)]]
    BY <2>1
  <2>3. f[n + 1] = step[n + 1][f[n]]
    BY <1>2
  <2> HIDE DEF step
  <2> QED
    BY <2>1, <2>2, <2>3
<1>4. f = Def(f)
  <2>1. \A n \in Nat : f[n] = [block \in Nat |-> To(n, f[n - 1], block)]
    <3> TAKE n \in Nat
    <3>1. CASE n = 0
      BY <1>2, <3>1
    <3>2. CASE n # 0
      <4>1. n - 1 \in Nat /\ (n - 1) + 1 = n
        BY <3>2
      <4>2. f[n] = [block \in Nat |-> Above(n, f[n - 1], block)]
        BY <1>3, <4>1
      <4> QED
        BY <3>2, <4>2
    <3> QED
      BY <3>1, <3>2
  <2> HIDE DEF To, V
  <2> QED
    BY <1>2, <2>1
<1>5. Leaves = Def(Leaves)
  <2>1. \E h : h = Def(h)
    BY <1>4
  <2>2. Leaves = CHOOSE h : h = Def(h)
    BY Zenon DEF Leaves, Reader!Leaves, Above, Power, FlattenSeq, Reader!FlattenSeq
  <2> HIDE DEF Def
  <2> QED
    BY <2>1, <2>2
<1>6. \A n \in Nat : Leaves[n] = [block \in Nat |-> To(n, Leaves[n - 1], block)]
  <2> HIDE DEF To
  <2> QED
    BY <1>5
<1>7. Leaves[0] = own
  BY <1>6
<1>8. \A n \in Nat : Leaves[n + 1] = [block \in Nat |-> Above(n + 1, Leaves[n], block)]
  <2> TAKE n \in Nat
  <2>1. n + 1 \in Nat /\ n + 1 # 0 /\ (n + 1) - 1 = n
    OBVIOUS
  <2>2. Leaves[n + 1] = [block \in Nat |-> To(n + 1, Leaves[(n + 1) - 1], block)]
    BY <1>6
  <2> QED
    BY <2>1, <2>2
<1> DEFINE T == {n \in Nat : Leaves[n] \in V}
<1>9. 0 \in T
  BY <1>1, <1>7
<1>10. \A n \in T : n + 1 \in T
  <2> TAKE n \in T
  <2> DEFINE x == Leaves[n]
  <2>1. x \in V /\ n + 1 \in Nat
    OBVIOUS
  <2> HIDE DEF x
  <2>2. \A block \in Nat : Above(n + 1, x, block) \in Seq(Nat)
    BY <2>1, AboveType
  <2>3. Leaves[n + 1] = [block \in Nat |-> Above(n + 1, x, block)]
    BY <1>8 DEF x
  <2>4. Leaves[n + 1] \in V
    BY <2>2, <2>3
  <2> QED
    BY <2>1, <2>4
<1>11. \A n \in Nat : n \in T
  <2>1. T \in SUBSET Nat
    OBVIOUS
  <2> HIDE DEF T
  <2> QED
    BY <1>9, <1>10, <2>1, Induction
<1>12. Leaves = [n \in Nat |-> Leaves[n]]
  <2> HIDE DEF To
  <2> QED
    BY <1>5
<1> QED
  BY <1>7, <1>8, <1>11, <1>12

LEMMA TreesAre ==
    /\ Trees \in [Nat -> SUBSET Nat] /\ Trees[0] = Nat
    /\ \A height \in Nat :
         Trees[height + 1] =
           {0} \union {block \in DOMAIN PointersOf :
                         \A i \in 1 .. PointerCount : PointersOf[block][i] \in Trees[height]}
<1> DEFINE V == SUBSET Nat
           On(x) == {0} \union {block \in DOMAIN PointersOf :
                                  \A i \in 1 .. PointerCount : PointersOf[block][i] \in x}
           step == [n \in Nat |-> [x \in V |-> On(x)]]
           any == Nat
           Def(h) == [height \in Nat |-> IF height = 0 THEN Nat ELSE On(h[height - 1])]
<1>1. \A x : On(x) \in V
  BY ReadAssumption
<1>2. step \in [Nat -> [V -> V]] /\ any \in V
  <2> HIDE DEF On
  <2>1. any \in V
    OBVIOUS
  <2> HIDE DEF V, any
  <2> QED
    BY <1>1, <2>1
<1> HIDE DEF On
<1>3. PICK f : f \in [Nat -> V] /\ f[0] = any /\ \A n \in Nat : f[n + 1] = step[n + 1][f[n]]
  <2> HIDE DEF step, any, V
  <2>1. \E f : Runs(f, V, any, step)
    BY <1>2, TypedRecursion
  <2> QED
    BY <2>1 DEF Runs
<1>4. \A n \in Nat : f[n + 1] = On(f[n])
  <2> TAKE n \in Nat
  <2> HIDE DEF V
  <2>1. f[n] \in V /\ n + 1 \in Nat
    BY <1>3
  <2>2. step[n + 1] = [x \in V |-> On(x)]
    BY <2>1
  <2>3. f[n + 1] = step[n + 1][f[n]]
    BY <1>3
  <2> HIDE DEF step
  <2> QED
    BY <2>1, <2>2, <2>3
<1>5. f = Def(f)
  <2>1. \A n \in Nat : f[n] = IF n = 0 THEN Nat ELSE On(f[n - 1])
    <3> TAKE n \in Nat
    <3>1. n # 0 => n - 1 \in Nat /\ (n - 1) + 1 = n
      OBVIOUS
    <3>2. n # 0 => f[n] = On(f[n - 1])
      BY <1>4, <3>1
    <3> QED
      BY <1>3, <3>2
  <2> HIDE DEF V
  <2> QED
    BY <1>3, <2>1
<1>6. Trees = Def(Trees)
  <2>1. \E h : h = Def(h)
    BY <1>5
  <2>2. Trees = CHOOSE h : h = Def(h)
    BY Zenon DEF Trees, Reader!Trees, On
  <2> HIDE DEF Def
  <2> QED
    BY <2>1, <2>2
<1>7. Trees[0] = Nat /\ \A n \in Nat : Trees[n + 1] = On(Trees[n])
  <2>1. \A n \in Nat : n + 1 \in Nat /\ n + 1 # 0 /\ (n + 1) - 1 = n
    OBVIOUS
  <2> QED
    BY <1>6, <2>1
<1>8. \A n \in Nat : Trees[n] \in V
  <2> TAKE n \in Nat
  <2>1. CASE n = 0
    BY <1>7, <2>1
  <2>2. CASE n # 0
    <3>1. n - 1 \in Nat /\ (n - 1) + 1 = n
      BY <2>2
    <3>2. Trees[n] = On(Trees[n - 1])
      BY <1>7, <3>1
    <3> QED
      BY <1>1, <3>2
  <2> QED
    BY <2>1, <2>2
<1>9. Trees = [n \in Nat |-> Trees[n]]
  BY <1>6
<1> QED
  BY <1>7, <1>8, <1>9 DEF On

\* The leaves of a pointer block are those of the blocks it points to, and a hole is
\* as many zeros.
LEMMA LeavesCount ==
    ASSUME NEW height \in Nat
    PROVE  \A block \in Nat : Len(Leaves[height][block]) = Power[height]
<1> DEFINE T == {h \in Nat : \A block \in Nat : Len(Leaves[h][block]) = Power[h]}
<1>1. 0 \in T
  <2>1. \A block \in Nat : Len(<<block>>) = 1
    OBVIOUS
  <2> QED
    BY <2>1, LeavesAre, PowerIs
<1>2. \A h \in T : h + 1 \in T
  <2> SUFFICES ASSUME NEW h \in Nat, \A block \in Nat : Len(Leaves[h][block]) = Power[h],
                      NEW block \in Nat
               PROVE  Len(Leaves[h + 1][block]) = Power[h + 1]
    OBVIOUS
  <2> DEFINE below == Leaves[h]
             l == Power[h]
             m == Power[h + 1]
  <2>1. /\ Leaves[h + 1][block] = Above(h + 1, below, block)
        /\ below \in [Nat -> Seq(Nat)] /\ l \in Nat /\ m \in Nat /\ m = l * PointerCount
    <3>1. Leaves[h + 1][block] = Above(h + 1, below, block) /\ below \in [Nat -> Seq(Nat)]
      BY LeavesAre
    <3>2. l \in Nat /\ m \in Nat /\ m = l * PointerCount
      BY PowerIs
    <3> QED
      BY <3>1, <3>2
  <2>2. \A b \in Nat : Len(below[b]) = l
    OBVIOUS
  <2> HIDE DEF below
  <2>3. CASE block \notin DOMAIN PointersOf
    <3>1. Above(h + 1, below, block) = [i \in 1 .. m |-> 0]
      BY <2>3 DEF Above
    <3> HIDE DEF m
    <3>2. [i \in 1 .. m |-> 0] \in [1 .. m -> Nat]
      OBVIOUS
    <3>3. Len([i \in 1 .. m |-> 0]) = m
      BY <2>1, <3>2, LengthIs
    <3> QED
      BY <2>1, <3>1, <3>3, Zenon DEF m
  <2>4. CASE block \in DOMAIN PointersOf
    <3> DEFINE s == [i \in 1 .. PointerCount |-> below[PointersOf[block][i]]]
    <3>1. PointerCount \in Nat /\ PointersOf[block] \in [1 .. PointerCount -> Nat]
      BY <2>4, ReadAssumption
    <3>2. \A i \in 1 .. PointerCount : /\ below[PointersOf[block][i]] \in Seq(Nat)
                                       /\ Len(below[PointersOf[block][i]]) = l
      BY <2>1, <2>2, <3>1
    <3>3. Even(s, PointerCount, l)
      BY <3>2 DEF Even
    <3>4. Above(h + 1, below, block) = FlattenSeq(s)
      BY <2>4 DEF Above
    <3> HIDE DEF s, l, m
    <3>5. Len(FlattenSeq(s)) = PointerCount * l
      BY <2>1, <3>1, <3>3, FlattenEven
    <3>6. PointerCount * l = l * PointerCount
      BY <2>1, <3>1
    <3> QED
      BY <2>1, <3>4, <3>5, <3>6 DEF m
  <2> QED
    BY <2>3, <2>4
<1>3. \A n \in Nat : n \in T
  <2>1. T \in SUBSET Nat
    OBVIOUS
  <2> HIDE DEF T
  <2> QED
    BY <1>1, <1>2, <2>1, Induction
<1> QED
  BY <1>3

LEMMA LeavesOf ==
    ASSUME NEW h \in Nat, NEW block \in DOMAIN PointersOf,
           NEW i \in 1 .. PointerCount, NEW j \in 1 .. Power[h]
    PROVE  Leaves[h + 1][block][(i - 1) * Power[h] + j] = Leaves[h][PointersOf[block][i]][j]
<1> DEFINE below == Leaves[h]
           l == Power[h]
           s == [k \in 1 .. PointerCount |-> below[PointersOf[block][k]]]
<1>1. /\ PointerCount \in Nat /\ PointersOf[block] \in [1 .. PointerCount -> Nat] /\ block \in Nat
  BY ReadAssumption
<1>2. /\ Leaves[h + 1][block] = Above(h + 1, below, block)
      /\ below \in [Nat -> Seq(Nat)] /\ l \in Nat
  BY <1>1, LeavesAre, PowerIs
<1>3. \A b \in Nat : Len(below[b]) = l
  BY LeavesCount
<1>4. Leaves[h + 1][block] = FlattenSeq(s)
  BY <1>2 DEF Above
<1> HIDE DEF below
<1>5. \A k \in 1 .. PointerCount : /\ below[PointersOf[block][k]] \in Seq(Nat)
                                   /\ Len(below[PointersOf[block][k]]) = l
  BY <1>1, <1>2, <1>3
<1>6. Even(s, PointerCount, l)
  BY <1>5 DEF Even
<1>7. s[i] = below[PointersOf[block][i]]
  OBVIOUS
<1>8. j \in 1 .. l
  OBVIOUS
<1> HIDE DEF s, l
<1>9. PointerCount \in Nat /\ l \in Nat
  BY <1>1, <1>2
<1>10. FlattenSeq(s)[(i - 1) * l + j] = s[i][j]
  BY <1>6, <1>8, <1>9, FlattenEven
<1> QED
  BY <1>4, <1>7, <1>10 DEF below, l

LEMMA HoleLeaves ==
    ASSUME NEW h \in Nat, NEW j \in 1 .. Power[h]
    PROVE  Leaves[h][0][j] = 0
<1>1. 0 \notin DOMAIN PointersOf
  BY ReadAssumption
<1>2. CASE h = 0
  <2>1. j \in 1 .. Power[0] /\ Power[0] = 1
    BY <1>2, PowerIs
  <2>2. j = 1
    BY <2>1
  <2>3. Leaves[0][0] = <<0>>
    BY LeavesAre
  <2> QED
    BY <1>2, <2>2, <2>3
<1>3. CASE h # 0
  <2>1. h - 1 \in Nat /\ (h - 1) + 1 = h
    BY <1>3
  <2>2. Leaves[h][0] = Above(h, Leaves[h - 1], 0)
    BY <2>1, LeavesAre
  <2>3. Leaves[h][0] = [i \in 1 .. Power[h] |-> 0]
    BY <1>1, <2>2 DEF Above
  <2> QED
    BY <2>3
<1> QED
  BY <1>2, <1>3

LEMMA DivisionIs ==
    ASSUME NEW x \in Nat, NEW d \in Nat \ {0}, NEW q \in Nat, NEW r \in 0 .. (d - 1),
           x = q * d + r
    PROVE  x \div d = q /\ x % d = r
<1> DEFINE q1 == x \div d
           r1 == x % d
<1>1. q1 \in Nat /\ r1 \in 0 .. (d - 1) /\ x = q1 * d + r1
  BY Division
<1> HIDE DEF q1, r1
<1>2. (q1 - q) * d = r - r1 /\ r - r1 \in Int /\ r - r1 < d /\ r1 - r < d /\ q1 - q \in Int
  BY <1>1
<1>3. q1 - q >= 1 => (q1 - q) * d >= d
  BY <1>1
<1>4. q1 - q <= -1 => (q1 - q) * d <= -d
  BY <1>1
<1>5. (q1 - q) * d \in Int
  BY <1>2
<1>6. q1 = q
  <2> DEFINE p == (q1 - q) * d
  <2> HIDE DEF p
  <2>1. p \in Int /\ p = r - r1 /\ (q1 - q >= 1 => p >= d) /\ (q1 - q <= -1 => p <= -d)
    BY <1>2, <1>3, <1>4, <1>5 DEF p
  <2> QED
    BY <1>1, <1>2, <2>1
<1>7. r1 = r
  BY <1>1, <1>6
<1> QED
  BY <1>6, <1>7 DEF q1, r1

\* What is left of a number is its next digit and what is left behind that.
LEMMA Digit ==
    ASSUME NEW b \in Nat, NEW a \in Nat \ {0}, NEW p \in Nat \ {0}
    PROVE  /\ b % (a * p) = ((b \div a) % p) * a + (b % a)
           /\ (b \div a) % p \in 0 .. (p - 1)
<1> DEFINE q == b \div a
           r == b % a
<1>1. q \in Nat /\ r \in 0 .. (a - 1) /\ b = q * a + r
  BY Division
<1> HIDE DEF q, r
<1> DEFINE u == q \div p
           d == q % p
<1>2. u \in Nat /\ d \in 0 .. (p - 1) /\ q = u * p + d
  BY <1>1, Division
<1> HIDE DEF u, d
<1> DEFINE da == d * a
           pa == a * p
           rest == da + r
<1>3. pa \in Nat \ {0} /\ da \in Nat /\ da <= (p - 1) * a /\ (p - 1) * a = pa - a
  <2>1. pa \in Nat /\ pa >= a
    OBVIOUS
  <2>2. da \in Nat /\ da <= (p - 1) * a
    BY <1>2
  <2>3. (p - 1) * a = pa - a
    OBVIOUS
  <2> QED
    BY <2>1, <2>2, <2>3
<1>4. b = u * pa + rest
  <2>1. q * a = (u * p + d) * a
    BY <1>2
  <2>2. (u * p + d) * a = u * (a * p) + d * a
    BY <1>2
  <2>3. u * (a * p) \in Nat
    BY <1>2
  <2> QED
    BY <1>1, <1>2, <2>1, <2>2, <2>3
<1> HIDE DEF da, pa
<1>5. rest \in 0 .. (pa - 1)
  BY <1>1, <1>3
<1> HIDE DEF rest
<1>6. b % pa = rest
  <2>1. rest \in 0 .. (pa - 1) /\ pa \in Nat \ {0}
    BY <1>3, <1>5
  <2> QED
    BY <1>2, <1>4, <2>1, DivisionIs
<1>7. rest = d * a + r
  BY DEF rest, da
<1> QED
  BY <1>2, <1>6, <1>7 DEF pa, d, q, r

\* Where the pointer leads that a digit of the block's number picks.
Down(x, b, height) ==
    IF x = 0 THEN 0 ELSE PointersOf[x][((b \div Power[height]) % PointerCount) + 1]

LEMMA DownIs ==
    ASSUME NEW k \in Nat, NEW x \in Trees[k + 1], NEW b \in Nat
    PROVE  /\ Down(x, b, k) \in Trees[k]
           /\ Leaves[k + 1][x][(b % Power[k + 1]) + 1]
                = Leaves[k][Down(x, b, k)][(b % Power[k]) + 1]
<1> DEFINE a == Power[k]
           c == Power[k + 1]
           d == (b \div a) % PointerCount
           r == b % a
<1>1. a \in Nat \ {0} /\ c \in Nat \ {0} /\ c = a * PointerCount
  BY PowerIs, PowerGrows
<1>2. PointerCount \in Nat \ {0}
  BY ReadAssumption
<1>3. b % (a * PointerCount) = d * a + r /\ d \in 0 .. (PointerCount - 1)
  <2> HIDE DEF a
  <2> QED
    BY <1>1, <1>2, Digit
<1>4. r \in 0 .. (a - 1) /\ b % c \in 0 .. (c - 1)
  <2> HIDE DEF a, c
  <2> QED
    BY <1>1, Division
<1>5. b % c = d * a + r
  BY <1>1, <1>3, Zenon
<1>6. /\ Trees[0] = Nat
      /\ Trees[k + 1] = {0} \union {block \in DOMAIN PointersOf :
                           \A i \in 1 .. PointerCount : PointersOf[block][i] \in Trees[k]}
  BY TreesAre
<1>7. Down(x, b, k) = IF x = 0 THEN 0 ELSE PointersOf[x][d + 1]
  BY DEF Down
<1> HIDE DEF d, r
<1>8. CASE x = 0
  <2>1. 0 \in Trees[k]
    <3>1. CASE k = 0
      BY <1>6, <3>1
    <3>2. CASE k # 0
      <4>1. k - 1 \in Nat /\ (k - 1) + 1 = k
        BY <3>2
      <4>2. Trees[(k - 1) + 1] = {0} \union {block \in DOMAIN PointersOf :
              \A i \in 1 .. PointerCount : PointersOf[block][i] \in Trees[k - 1]}
        BY <4>1, TreesAre
      <4> QED
        BY <4>1, <4>2
    <3> QED
      BY <3>1, <3>2
  <2>2. (b % c) + 1 \in 1 .. c /\ r + 1 \in 1 .. a
    <3> HIDE DEF a, c
    <3> DEFINE m == b % c
    <3>1. m \in 0 .. (c - 1)
      BY <1>4
    <3> HIDE DEF m
    <3>2. m + 1 \in 1 .. c /\ r + 1 \in 1 .. a
      BY <1>1, <1>4, <3>1
    <3> QED
      BY <3>2 DEF m
  <2>3. Leaves[k + 1][0][(b % c) + 1] = 0
    BY <2>2, HoleLeaves
  <2>4. Leaves[k][0][r + 1] = 0
    BY <2>2, HoleLeaves
  <2> QED
    BY <1>7, <1>8, <2>1, <2>3, <2>4 DEF r
<1>9. CASE x # 0
  <2>1. /\ x \in DOMAIN PointersOf
        /\ \A i \in 1 .. PointerCount : PointersOf[x][i] \in Trees[k]
    BY <1>6, <1>9
  <2>2. d + 1 \in 1 .. PointerCount /\ r + 1 \in 1 .. a /\ (d + 1) - 1 = d
    <3> HIDE DEF a, c
    <3> QED
      BY <1>1, <1>2, <1>3, <1>4
  <2>3. Leaves[k + 1][x][((d + 1) - 1) * a + (r + 1)] = Leaves[k][PointersOf[x][d + 1]][r + 1]
    BY <2>1, <2>2, LeavesOf
  <2>4. ((d + 1) - 1) * a + (r + 1) = (b % c) + 1
    <3> DEFINE da == d * a
               m == b % c
    <3>1. ((d + 1) - 1) * a = da
      BY <2>2
    <3>2. da \in Nat /\ m = da + r
      <4> HIDE DEF a, c
      <4> QED
        BY <1>1, <1>2, <1>3, <1>5
    <3> HIDE DEF da, m, a, c
    <3>3. da + (r + 1) = m + 1
      BY <1>1, <1>4, <3>2
    <3> QED
      BY <3>1, <3>3 DEF m
  <2> QED
    BY <1>7, <1>9, <2>1, <2>2, <2>3, <2>4 DEF r
<1> QED
  BY <1>8, <1>9

\* Digit by digit the second loop of BiGetInodeBlockBase reaches the leaf with the block's number.
LEMMA FollowIs ==
    ASSUME NEW h \in Nat, NEW block \in Trees[h], NEW b \in 0 .. (Power[h] - 1)
    PROVE  Reader!Follow(block, b, h) = Leaves[h][block][b + 1]
<1> DEFINE To(turn, x) == IF turn = 0 THEN block ELSE Down(x, b, h - turn)
           Def(f) == [turn \in 0 .. h |-> To(turn, f[turn - 1])]
           at == CHOOSE f : f = Def(f)
           step == [n \in Nat |-> [x \in Nat |->
                      IF n \in 1 .. h /\ x \in Trees[(h - n) + 1] THEN Down(x, b, h - n) ELSE x]]
<1>1. b \in Nat /\ Power[h] \in Nat /\ block \in Nat
  BY PowerIs, TreesAre
<1>2. step \in [Nat -> [Nat -> Nat]]
  <2>1. ASSUME NEW n \in Nat, NEW x \in Nat
        PROVE  (IF n \in 1 .. h /\ x \in Trees[(h - n) + 1] THEN Down(x, b, h - n) ELSE x) \in Nat
    <3>1. ASSUME n \in 1 .. h, x \in Trees[(h - n) + 1] PROVE Down(x, b, h - n) \in Nat
      <4>1. h - n \in Nat
        BY <3>1
      <4>2. Down(x, b, h - n) \in Trees[h - n]
        BY <1>1, <3>1, <4>1, DownIs
      <4> QED
        BY <4>1, <4>2, TreesAre
    <3> QED
      BY <3>1
  <2> QED
    BY <2>1
<1>3. PICK f : f \in [Nat -> Nat] /\ f[0] = block /\ \A n \in Nat : f[n + 1] = step[n + 1][f[n]]
  <2> HIDE DEF step
  <2>1. \E f : Runs(f, Nat, block, step)
    BY <1>1, <1>2, TypedRecursion
  <2> QED
    BY <2>1 DEF Runs
<1> DEFINE AtTurn(n) == /\ f[n] \in Trees[h - n]
                        /\ Leaves[h][block][b + 1] = Leaves[h - n][f[n]][(b % Power[h - n]) + 1]
           T == {n \in Nat : n <= h => AtTurn(n)}
<1>4. ASSUME NEW n \in Nat, n + 1 <= h, f[n] \in Trees[h - n]
      PROVE  f[n + 1] = Down(f[n], b, h - (n + 1))
  <2>1. n + 1 \in 1 .. h /\ (h - (n + 1)) + 1 = h - n /\ n + 1 \in Nat /\ f[n] \in Nat
    BY <1>3, <1>4
  <2>2. step[n + 1] = [x \in Nat |-> IF n + 1 \in 1 .. h /\ x \in Trees[(h - (n + 1)) + 1]
                                       THEN Down(x, b, h - (n + 1)) ELSE x]
    BY <2>1
  <2>3. f[n + 1] = step[n + 1][f[n]]
    BY <1>3
  <2>4. f[n] \in Trees[(h - (n + 1)) + 1]
    BY <1>4, <2>1
  <2> HIDE DEF step
  <2> QED
    BY <2>1, <2>2, <2>3, <2>4
<1>5. 0 \in T
  <2>1. h - 0 = h /\ f[0] = block
    BY <1>3
  <2>2. b % Power[h] = b
    <3> DEFINE m == Power[h]
    <3>1. m \in Nat /\ b \in 0 .. (m - 1)
      BY <1>1
    <3> HIDE DEF m
    <3>2. b % m = b
      BY <3>1
    <3> QED
      BY <3>2 DEF m
  <2>3. AtTurn(0)
    BY <2>1, <2>2
  <2> HIDE DEF AtTurn
  <2> QED
    BY <2>3
<1>6. \A n \in T : n + 1 \in T
  <2> SUFFICES ASSUME NEW n \in Nat, n + 1 <= h, AtTurn(n) PROVE AtTurn(n + 1)
    <3> HIDE DEF AtTurn
    <3>1. ASSUME NEW n \in T PROVE n + 1 \in T
      <4>1. n \in Nat /\ (n <= h => AtTurn(n)) /\ n + 1 \in Nat /\ (n + 1 <= h => n <= h)
        BY <1>1
      <4> QED
        BY <4>1
    <3> QED
      BY <3>1
  <2> DEFINE k == h - (n + 1)
  <2>1. k \in Nat /\ k + 1 = h - n
    OBVIOUS
  <2>2. f[n] \in Trees[k + 1]
    BY <2>1
  <2>3. f[n + 1] = Down(f[n], b, k)
    BY <1>4, <2>1
  <2>4. Leaves[h][block][b + 1] = Leaves[k + 1][f[n]][(b % Power[k + 1]) + 1]
    BY <2>1
  <2> HIDE DEF k
  <2>5. /\ Down(f[n], b, k) \in Trees[k]
        /\ Leaves[k + 1][f[n]][(b % Power[k + 1]) + 1]
             = Leaves[k][Down(f[n], b, k)][(b % Power[k]) + 1]
    BY <1>1, <2>1, <2>2, DownIs
  <2> QED
    BY <2>3, <2>4, <2>5, Zenon DEF k
<1>7. \A n \in Nat : n \in T
  <2>1. T \in SUBSET Nat
    OBVIOUS
  <2> HIDE DEF T
  <2> QED
    BY <1>5, <1>6, <2>1, Induction
<1>8. \A n \in 0 .. h : AtTurn(n)
  <2> HIDE DEF AtTurn
  <2>1. \A n \in 0 .. h : n \in Nat /\ n <= h
    OBVIOUS
  <2> QED
    BY <1>7, <2>1
<1>9. \A n \in 0 .. h : f[n] = To(n, f[n - 1])
  <2> TAKE n \in 0 .. h
  <2>1. CASE n = 0
    BY <1>3, <2>1
  <2>2. CASE n # 0
    <3> DEFINE m == n - 1
    <3>1. m \in Nat /\ m + 1 = n /\ m + 1 <= h /\ m \in 0 .. h
      BY <2>2
    <3> HIDE DEF m
    <3>2. f[m] \in Trees[h - m]
      BY <1>8, <3>1
    <3>3. f[m + 1] = Down(f[m], b, h - (m + 1))
      BY <1>4, <3>1, <3>2
    <3>4. f[n] = Down(f[m], b, h - n)
      BY <3>1, <3>3
    <3> QED
      BY <2>2, <3>4 DEF m
  <2> QED
    BY <2>1, <2>2
<1> HIDE DEF AtTurn, step
<1> DEFINE g == [turn \in 0 .. h |-> f[turn]]
<1>10. g = Def(g)
  <2>1. \A n \in 0 .. h : n # 0 => n - 1 \in 0 .. h
    OBVIOUS
  <2>2. \A n \in 0 .. h : To(n, g[n - 1]) = To(n, f[n - 1])
    BY <2>1
  <2> HIDE DEF To
  <2>3. \A n \in 0 .. h : f[n] = To(n, g[n - 1])
    BY <1>9, <2>2
  <2>4. g = [n \in 0 .. h |-> To(n, g[n - 1])]
    BY <2>3
  <2> QED
    BY <2>4
<1>11. at = Def(at)
  <2> HIDE DEF g
  <2>1. \E e : e = Def(e)
    BY <1>10
  <2> HIDE DEF Def
  <2> QED
    BY <2>1
<1>12. Reader!Follow(block, b, h) = at[h]
  BY Zenon DEF Reader!Follow, Reader!Pointer, Down, Power
<1> HIDE DEF at, g
<1>13. \A n \in 0 .. h : at[n] = To(n, at[n - 1])
  <2> HIDE DEF To
  <2> QED
    BY <1>11
<1> DEFINE U == {n \in Nat : n <= h => at[n] = f[n]}
<1>14. 0 \in U
  BY <1>3, <1>13
<1>15. \A n \in U : n + 1 \in U
  <2> SUFFICES ASSUME NEW n \in Nat, n + 1 <= h, at[n] = f[n] PROVE at[n + 1] = f[n + 1]
    OBVIOUS
  <2>1. n + 1 \in 0 .. h /\ (n + 1) - 1 = n
    OBVIOUS
  <2>2. at[n + 1] = To(n + 1, at[(n + 1) - 1]) /\ f[n + 1] = To(n + 1, f[(n + 1) - 1])
    <3> HIDE DEF To
    <3> QED
      BY <1>9, <1>13, <2>1
  <2> HIDE DEF To
  <2> QED
    BY <2>1, <2>2
<1>16. \A n \in Nat : n \in U
  <2>1. U \in SUBSET Nat
    OBVIOUS
  <2> HIDE DEF U
  <2> QED
    BY <1>14, <1>15, <2>1, Induction
<1>17. at[h] = f[h]
  <2>1. h \in U /\ h <= h
    BY <1>16
  <2> QED
    BY <2>1
<1>18. Leaves[h][block][b + 1] = f[h]
  <2>1. h \in 0 .. h /\ h - h = 0
    OBVIOUS
  <2>2. Leaves[h][block][b + 1] = Leaves[0][f[h]][(b % Power[0]) + 1]
    BY <1>8, <2>1 DEF AtTurn
  <2>3. Power[0] = 1 /\ f[h] \in Nat
    BY <1>3, PowerIs
  <2>4. b % 1 = 0
    BY <1>1
  <2>5. Leaves[0][f[h]] = <<f[h]>>
    BY <2>3, LeavesAre
  <2>6. (b % Power[0]) + 1 = 1
    BY <2>3, <2>4
  <2> QED
    BY <2>2, <2>5, <2>6
<1> QED
  BY <1>12, <1>17, <1>18

\* How many blocks the trees of each height or less have.
Starts(S) ==
    /\ S \in [Nat -> Nat] /\ S[0] = 0
    /\ \A i \in 1 .. Levels : S[i] = S[i - 1] + Power[i]

\* The first loop of BiGetInodeBlockBase finds the tree a block is in, and its number there.
LEMMA FindLevelIs ==
    ASSUME NEW b \in Nat, NEW S, Starts(S)
    PROVE  LET place == Reader!FindLevel(b)
           IN  /\ place.level \in 0 .. Levels
               /\ place.level = Levels => b >= S[Levels]
               /\ place.level < Levels => /\ S[place.level] <= b /\ b < S[place.level + 1]
                                          /\ place.block = b - S[place.level]
<1> DEFINE To(l, x) == IF l = 0 THEN b ELSE x - TreeSize[l - 1]
           Def(h) == [level \in Nat |-> To(level, h[level - 1])]
           left == CHOOSE h : h = Def(h)
           Q(l) == /\ l = Levels \/ left[l] < TreeSize[l]
                   /\ \A k \in 0 .. (l - 1) : left[k] >= TreeSize[k]
           level == CHOOSE l \in 0 .. Levels : Q(l)
           step == [n \in Nat |-> [x \in Int |-> IF n = 0 THEN x ELSE x - TreeSize[n - 1]]]
<1>1. Reader!FindLevel(b) = [level |-> level, block |-> left[level]]
  BY Zenon DEF Reader!FindLevel, TreeSize
<1>2. step \in [Nat -> [Int -> Int]] /\ b \in Int
  <2>1. \A n \in Nat : n # 0 => n - 1 \in Nat
    OBVIOUS
  <2>2. \A n \in Nat, x \in Int : (IF n = 0 THEN x ELSE x - TreeSize[n - 1]) \in Int
    BY <2>1, TreeSizes
  <2> QED
    BY <2>2
<1>3. PICK f : f \in [Nat -> Int] /\ f[0] = b /\ \A n \in Nat : f[n + 1] = step[n + 1][f[n]]
  <2> HIDE DEF step
  <2>1. \E f : Runs(f, Int, b, step)
    BY <1>2, TypedRecursion
  <2> QED
    BY <2>1 DEF Runs
<1>4. f = Def(f)
  <2>1. \A n \in Nat : f[n] = To(n, f[n - 1])
    <3> TAKE n \in Nat
    <3>1. CASE n = 0
      BY <1>3, <3>1
    <3>2. CASE n # 0
      <4>1. n - 1 \in Nat /\ (n - 1) + 1 = n
        BY <3>2
      <4>2. f[n - 1] \in Int /\ f[n] = step[n][f[n - 1]]
        BY <1>3, <4>1
      <4>3. step[n] = [x \in Int |-> x - TreeSize[n - 1]]
        BY <3>2
      <4> HIDE DEF step
      <4> QED
        BY <3>2, <4>2, <4>3
    <3> QED
      BY <3>1, <3>2
  <2> HIDE DEF To, step
  <2> QED
    BY <1>3, <2>1
<1>5. left = Def(left)
  <2>1. \E h : h = Def(h)
    BY <1>4
  <2> HIDE DEF Def
  <2> QED
    BY <2>1
<1> HIDE DEF left, step
<1>6. left[0] = b /\ \A n \in Nat : left[n + 1] = left[n] - TreeSize[n]
  <2>1. \A n \in Nat : left[n] = To(n, left[n - 1])
    <3> HIDE DEF To
    <3> QED
      BY <1>5
  <2>2. \A n \in Nat : n + 1 \in Nat /\ n + 1 # 0 /\ (n + 1) - 1 = n
    OBVIOUS
  <2> HIDE DEF Def
  <2> QED
    BY <2>1, <2>2
<1>7. \A l \in Nat : l < Levels =>
        /\ TreeSize[l] \in Nat /\ S[l] \in Nat /\ S[l + 1] \in Nat /\ S[l + 1] = S[l] + TreeSize[l]
  <2> SUFFICES ASSUME NEW l \in Nat, l < Levels
               PROVE  /\ TreeSize[l] \in Nat /\ S[l] \in Nat /\ S[l + 1] \in Nat
                      /\ S[l + 1] = S[l] + TreeSize[l]
    OBVIOUS
  <2>1. l + 1 \in 1 .. Levels /\ (l + 1) - 1 = l /\ l + 1 \in Nat
    BY ReadAssumption
  <2>2. S[l + 1] = S[(l + 1) - 1] + Power[l + 1] /\ S \in [Nat -> Nat]
    BY <2>1 DEF Starts
  <2>3. TreeSize[l] \in Nat /\ TreeSize[l] = Power[l + 1]
    BY TreeSizes
  <2> QED
    BY <2>1, <2>2, <2>3
<1> DEFINE T == {n \in Nat : n <= Levels => left[n] = b - S[n] /\ S[n] \in Nat}
<1>8. 0 \in T
  BY <1>6 DEF Starts
<1>9. \A n \in T : n + 1 \in T
  <2> SUFFICES ASSUME NEW n \in T, n + 1 <= Levels
               PROVE  left[n + 1] = b - S[n + 1] /\ S[n + 1] \in Nat
    OBVIOUS
  <2>1. n \in Nat /\ n < Levels /\ left[n] = b - S[n]
    BY ReadAssumption
  <2>2. left[n + 1] = left[n] - TreeSize[n]
    BY <1>6, <2>1
  <2>3. /\ TreeSize[n] \in Nat /\ S[n] \in Nat /\ S[n + 1] \in Nat
        /\ S[n + 1] = S[n] + TreeSize[n]
    BY <1>7, <2>1
  <2> QED
    BY <2>1, <2>2, <2>3
<1>10. \A n \in Nat : n \in T
  <2>1. T \in SUBSET Nat
    OBVIOUS
  <2> HIDE DEF T
  <2> QED
    BY <1>8, <1>9, <2>1, Induction
<1>11. \A l \in 0 .. Levels : left[l] = b - S[l] /\ S[l] \in Nat /\ l \in Nat
  <2>1. \A l \in 0 .. Levels : l \in Nat /\ l <= Levels
    BY ReadAssumption
  <2> QED
    BY <1>10, <2>1
<1> DEFINE Stops == {l \in 0 .. Levels : l = Levels \/ left[l] < TreeSize[l]}
<1>12. \E l \in 0 .. Levels : Q(l)
  <2>1. PICK m \in Stops : \A k \in Stops : m <= k
    <3>1. Stops \in SUBSET Nat /\ Levels \in Stops
      BY ReadAssumption
    <3> HIDE DEF Stops
    <3> QED
      BY <3>1, Least
  <2>2. m \in 0 .. Levels /\ (m = Levels \/ left[m] < TreeSize[m]) /\ m \in Nat
    BY <1>11
  <2>3. ASSUME NEW k \in 0 .. (m - 1) PROVE left[k] >= TreeSize[k]
    <3>1. k \in 0 .. Levels /\ k \in Nat /\ k < Levels /\ k < m
      BY <2>2, ReadAssumption
    <3>2. k \notin Stops
      BY <2>1, <2>2, <3>1
    <3>3. ~(left[k] < TreeSize[k])
      BY <3>1, <3>2
    <3>4. left[k] \in Int /\ TreeSize[k] \in Int
      BY <1>7, <1>11, <3>1
    <3> QED
      BY <3>3, <3>4
  <2> QED
    BY <2>2, <2>3
<1>13. level \in 0 .. Levels /\ Q(level)
  <2> HIDE DEF Q
  <2> QED
    BY <1>12
<1> HIDE DEF level
<1>14. left[level] = b - S[level] /\ S[level] \in Nat /\ level \in Nat /\ level <= Levels
  BY <1>11, <1>13
<1>15. S[level] <= b
  <2>1. CASE level = 0
    BY <2>1 DEF Starts
  <2>2. CASE level # 0
    <3> DEFINE k == level - 1
    <3>1. k \in 0 .. (level - 1) /\ k \in Nat /\ k < Levels /\ k + 1 = level /\ k \in 0 .. Levels
      BY <1>13, <1>14, <2>2, ReadAssumption
    <3> HIDE DEF k
    <3>2. left[k] >= TreeSize[k]
      BY <1>13, <3>1
    <3>3. left[k] = b - S[k]
      BY <1>11, <3>1
    <3>4. TreeSize[k] \in Nat /\ S[k] \in Nat /\ S[k + 1] = S[k] + TreeSize[k]
      BY <1>7, <3>1
    <3>5. S[k + 1] <= b
      BY <3>2, <3>3, <3>4
    <3> QED
      BY <3>1, <3>5
  <2> QED
    BY <2>1, <2>2
<1>16. level < Levels => b < S[level + 1]
  <2> SUFFICES ASSUME level < Levels PROVE b < S[level + 1]
    OBVIOUS
  <2>1. left[level] < TreeSize[level]
    BY <1>13
  <2>2. /\ TreeSize[level] \in Nat /\ S[level + 1] \in Nat
        /\ S[level + 1] = S[level] + TreeSize[level]
    BY <1>7, <1>14
  <2> QED
    BY <1>14, <2>1, <2>2
<1>17. /\ level = Levels => b >= S[Levels]
  BY <1>14, <1>15
<1> DEFINE place == Reader!FindLevel(b)
<1>18. place.level = level /\ place.block = left[level]
  BY <1>1
<1> HIDE DEF place
<1>19. /\ place.level \in 0 .. Levels
       /\ place.level = Levels => b >= S[Levels]
       /\ place.level < Levels => /\ S[place.level] <= b /\ b < S[place.level + 1]
                                  /\ place.block = b - S[place.level]
  BY <1>13, <1>14, <1>15, <1>16, <1>17, <1>18
<1> QED
  BY <1>19 DEF place

LEMMA StartsGrow ==
    ASSUME NEW S, Starts(S), NEW i \in 1 .. Levels
    PROVE  S[i] <= S[Levels]
<1> DEFINE T == {k \in Nat : i + k <= Levels => S[i] <= S[i + k]}
<1>1. i \in Nat /\ Levels \in Nat
  BY ReadAssumption
<1>2. 0 \in T
  BY <1>1 DEF Starts
<1>3. \A k \in T : k + 1 \in T
  <2> SUFFICES ASSUME NEW k \in T, i + (k + 1) <= Levels PROVE S[i] <= S[i + (k + 1)]
    OBVIOUS
  <2> DEFINE m == i + (k + 1)
  <2>1. k \in Nat /\ m \in 1 .. Levels /\ m - 1 = i + k /\ S[i] <= S[i + k]
    BY <1>1
  <2> HIDE DEF m
  <2>2. S[m] = S[m - 1] + Power[m] /\ S[m - 1] \in Nat /\ S[i] \in Nat
    BY <1>1, <2>1 DEF Starts
  <2>3. Power[m] \in Nat
    BY <1>1, <2>1, PowerIs
  <2>4. S[i] <= S[m]
    BY <2>1, <2>2, <2>3
  <2> QED
    BY <2>4 DEF m
<1>4. \A k \in Nat : k \in T
  <2>1. T \in SUBSET Nat
    OBVIOUS
  <2> HIDE DEF T
  <2> QED
    BY <1>2, <1>3, <2>1, Induction
<1>5. Levels - i \in Nat /\ i + (Levels - i) = Levels
  BY <1>1
<1>6. S[i] <= S[i + (Levels - i)]
  BY <1>4, <1>5
<1> QED
  BY <1>5, <1>6

\* The loops of BiGetInodeBlockBase find the blocks of a file in their order, and its end.
LEMMA BlockBaseIs ==
    ASSUME NEW f, Reader!IsFile(f), NEW block \in Nat
    PROVE  /\ Reader!Blocks(f) \in Seq(Nat)
           /\ Reader!BlockBase(f, block)
                = IF block < Len(Reader!Blocks(f)) THEN Reader!Blocks(f)[block + 1] ELSE -1
<1> DEFINE D == f.direct
           n == Len(D)
           s == [l \in 1 .. Levels |-> Leaves[l][f.indirect[l]]]
           tail == FlattenSeq(s)
           place == Reader!FindLevel(block - n)
<1>1. /\ D \in Seq(Nat) /\ f.indirect \in [1 .. Levels -> Nat]
      /\ \A l \in 1 .. Levels : f.indirect[l] \in Trees[l]
  BY DEF Reader!IsFile, Trees
<1>2. n \in Nat
  BY <1>1, LenProperties
<1>3. /\ Reader!Blocks(f) = D \o tail
  <2>1. Reader!Blocks(f) = D \o Reader!FlattenSeq(s)
    BY Zenon DEF Reader!Blocks, Leaves
  <2>2. Reader!FlattenSeq(s) = tail
    BY Zenon DEF Reader!FlattenSeq, FlattenSeq
  <2> QED
    BY <2>1, <2>2, Zenon
<1>4. Reader!BlockBase(f, block)
        = IF block < n THEN D[block + 1]
          ELSE IF place.level >= Levels THEN -1
          ELSE Reader!Follow(f.indirect[place.level + 1], place.block, place.level + 1)
  BY Zenon DEF Reader!BlockBase, Reader!Beyond
<1>5. \A l \in 1 .. Levels : Leaves[l][f.indirect[l]] \in Seq(Nat)
                               /\ Len(Leaves[l][f.indirect[l]]) = Power[l]
  <2> TAKE l \in 1 .. Levels
  <2>1. l \in Nat /\ f.indirect[l] \in Nat
    BY <1>1, ReadAssumption
  <2>2. Leaves[l][f.indirect[l]] \in Seq(Nat)
    BY <2>1, LeavesAre
  <2>3. Len(Leaves[l][f.indirect[l]]) = Power[l]
    BY <2>1, LeavesCount
  <2> QED
    BY <2>2, <2>3
<1>6. s \in [1 .. Levels -> Seq(Nat)] /\ \A l \in 1 .. Levels : Len(s[l]) = Power[l]
  BY <1>5
<1> HIDE DEF s
<1>7. Levels \in Nat
  BY ReadAssumption
<1>8. PICK S : Pieces(s, Levels, S)
  BY <1>6, <1>7, PiecesAre
<1>9. Starts(S)
  BY <1>6, <1>8 DEF Pieces, Starts
<1>10. /\ tail \in Seq(Nat) /\ Len(tail) = S[Levels]
       /\ \A i \in 1 .. Levels : \A j \in 1 .. Len(s[i]) : tail[S[i - 1] + j] = s[i][j]
  BY <1>7, <1>8, FlattenIs
<1> HIDE DEF D, tail, place
<1> DEFINE whole == D \o tail
<1>11. /\ whole \in Seq(Nat) /\ Len(tail) \in Nat /\ Len(whole) = n + Len(tail)
       /\ \A m \in 1 .. n : whole[m] = D[m]
       /\ \A m \in 1 .. Len(tail) : whole[n + m] = tail[m]
  BY <1>1, <1>10, Joined
<1> HIDE DEF whole
<1>12. CASE block < n
  <2>1. block + 1 \in 1 .. n /\ block < Len(whole)
    BY <1>2, <1>11, <1>12
  <2>2. whole[block + 1] = D[block + 1]
    BY <1>11, <2>1
  <2> QED
    BY <1>3, <1>4, <1>11, <1>12, <2>1, <2>2 DEF whole
<1>13. CASE ~(block < n)
  <2> DEFINE b == block - n
             l == place.level
  <2>1. b \in Nat /\ block = n + b
    BY <1>2, <1>13
  <2>2. /\ l \in 0 .. Levels /\ (l = Levels => b >= S[Levels])
        /\ l < Levels => S[l] <= b /\ b < S[l + 1] /\ place.block = b - S[l]
    <3> HIDE DEF b
    <3>1. /\ Reader!FindLevel(b).level \in 0 .. Levels
          /\ Reader!FindLevel(b).level = Levels => b >= S[Levels]
          /\ Reader!FindLevel(b).level < Levels =>
               /\ S[Reader!FindLevel(b).level] <= b /\ b < S[Reader!FindLevel(b).level + 1]
               /\ Reader!FindLevel(b).block = b - S[Reader!FindLevel(b).level]
      BY <1>9, <2>1, FindLevelIs
    <3>2. place = Reader!FindLevel(b)
      BY DEF place, b
    <3> QED
      BY <3>1, <3>2
  <2> HIDE DEF b, l
  <2>3. CASE l = Levels
    <3>1. ~(block < Len(whole)) /\ l >= Levels
      BY <1>2, <1>7, <1>10, <1>11, <2>1, <2>2, <2>3
    <3> QED
      BY <1>3, <1>4, <1>11, <1>13, <3>1 DEF whole, l
  <2>4. CASE l # Levels
    <3> DEFINE i == l + 1
               k == place.block
               from == S[l]
    <3>1. l \in Nat /\ l < Levels /\ ~(l >= Levels) /\ i \in 1 .. Levels /\ i - 1 = l /\ i \in Nat
      BY <1>7, <2>2, <2>4
    <3>2. S[i] = from + Power[i] /\ from \in Nat /\ Power[i] \in Nat
      <4>1. S[i] = S[i - 1] + Power[i] /\ S[i - 1] \in Nat
        BY <1>9, <3>1 DEF Starts
      <4> QED
        BY <3>1, <4>1, PowerIs
    <3>3. from <= b /\ b < from + Power[i] /\ k = b - from
      BY <2>2, <3>1, <3>2
    <3> HIDE DEF k, from, i
    <3>4. k \in 0 .. (Power[i] - 1) /\ k + 1 \in 1 .. Power[i] /\ from + (k + 1) = b + 1
      BY <2>1, <3>2, <3>3
    <3>5. Reader!Follow(f.indirect[i], k, i) = Leaves[i][f.indirect[i]][k + 1]
      BY <1>1, <3>1, <3>4, FollowIs
    <3>6. tail[b + 1] = s[i][k + 1]
      <4>1. k + 1 \in 1 .. Len(s[i])
        BY <1>6, <3>1, <3>4
      <4>2. tail[S[i - 1] + (k + 1)] = s[i][k + 1]
        BY <1>10, <3>1, <4>1
      <4>3. S[i - 1] = from
        BY <3>1 DEF from
      <4> QED
        BY <3>4, <4>2, <4>3
    <3>7. s[i] = Leaves[i][f.indirect[i]]
      BY <3>1 DEF s
    <3>8. b + 1 \in 1 .. Len(tail)
      <4>1. \A x \in 1 .. Len(s[i]) : S[i - 1] + x \in 1 .. Len(tail)
        <5>1. S[i] <= S[Levels]
          BY <1>7, <1>9, <3>1, StartsGrow
        <5>2. S[Levels] \in Nat
          BY <1>7, <1>9 DEF Starts
        <5>3. S[i - 1] = from /\ Len(s[i]) = Power[i]
          BY <1>6, <3>1 DEF from
        <5> QED
          BY <1>10, <3>2, <5>1, <5>2, <5>3
      <4>2. k + 1 \in 1 .. Len(s[i])
        BY <1>6, <3>1, <3>4
      <4>3. S[i - 1] = from
        BY <3>1 DEF from
      <4> QED
        BY <3>4, <4>1, <4>2, <4>3
    <3>9. whole[block + 1] = tail[b + 1] /\ block < Len(whole)
      <4>1. whole[n + (b + 1)] = tail[b + 1]
        BY <1>11, <3>8
      <4>2. n + (b + 1) = block + 1 /\ block < Len(whole)
        BY <1>2, <1>11, <2>1, <3>8
      <4> QED
        BY <4>1, <4>2
    <3>10. Reader!BlockBase(f, block) = Reader!Follow(f.indirect[i], k, i)
      BY <1>4, <1>13, <3>1 DEF l, i, k
    <3> QED
      BY <1>3, <1>11, <3>5, <3>6, <3>7, <3>9, <3>10 DEF whole
  <2> QED
    BY <2>3, <2>4
<1> QED
  BY <1>12, <1>13

-----------------------------------------------------------------------------
(* A read: how far it has come, and what a turn of its loop adds. *)

Multiple(x) == \E k \in Int : x = k * SectorSize

LEMMA MultipleIs ==
    ASSUME NEW x \in Nat
    PROVE  Multiple(x) <=> x % SectorSize = 0
<1>1. SectorSize \in Nat \ {0}
  BY ReadAssumption
<1>2. ASSUME x % SectorSize = 0 PROVE Multiple(x)
  <2>1. x \div SectorSize \in Nat /\ x = (x \div SectorSize) * SectorSize + (x % SectorSize)
    BY <1>1, Division
  <2> DEFINE k == x \div SectorSize
             m == k * SectorSize
  <2>2. k \in Int /\ x = m + 0 /\ m \in Int
    BY <1>1, <1>2, <2>1
  <2>3. x = k * SectorSize
    <3> HIDE DEF m
    <3>1. x = m
      BY <2>2
    <3> QED
      BY <3>1 DEF m
  <2> HIDE DEF k
  <2> QED
    BY <2>2, <2>3 DEF Multiple
<1>3. ASSUME Multiple(x) PROVE x % SectorSize = 0
  <2>1. PICK k \in Int : x = k * SectorSize
    BY <1>3 DEF Multiple
  <2>2. k < 0 => k * SectorSize < 0
    BY <1>1
  <2>3. k \in Nat
    BY <2>1, <2>2
  <2>4. 0 \in 0 .. (SectorSize - 1) /\ x = k * SectorSize + 0
    BY <1>1, <2>1
  <2> QED
    BY <1>1, <2>3, <2>4, DivisionIs
<1> QED
  BY <1>2, <1>3

LEMMA MultipleSum ==
    ASSUME NEW x \in Int, NEW y \in Int, Multiple(x), Multiple(y)
    PROVE  Multiple(x + y) /\ Multiple(x - y)
<1>1. PICK k \in Int : x = k * SectorSize
  BY DEF Multiple
<1>2. PICK l \in Int : y = l * SectorSize
  BY DEF Multiple
<1>3. SectorSize \in Nat
  BY ReadAssumption
<1>4. x + y = (k + l) * SectorSize /\ x - y = (k - l) * SectorSize
  BY <1>1, <1>2, <1>3
<1>5. k + l \in Int /\ k - l \in Int
  OBVIOUS
<1> QED
  BY <1>4, <1>5 DEF Multiple

LEMMA MultipleBlocks ==
    ASSUME NEW q \in Int
    PROVE  Multiple(BlockSize) /\ Multiple(q * BlockSize)
<1>1. BlockSize \in Nat /\ SectorSize \in Nat /\ BlockSize % SectorSize = 0
  BY ReadAssumption
<1>2. Multiple(BlockSize)
  BY <1>1, MultipleIs
<1>3. PICK k \in Int : BlockSize = k * SectorSize
  BY <1>2 DEF Multiple
<1>4. q * BlockSize = (q * k) * SectorSize /\ q * k \in Int
  <2>1. q * (k * SectorSize) = (q * k) * SectorSize
    BY <1>1
  <2> QED
    BY <1>3, <2>1
<1> QED
  BY <1>2, <1>4 DEF Multiple

\* A read of whole sectors.
Whole(c) == c.position % SectorSize = 0 /\ c.count % SectorSize = 0

\* The reasons for a crash.
Excused(f, c) ==
    \/ c.position + c.count > f.size
    \/ c.bypass /\ ~Whole(c)
    \/ \E k \in 1 .. Len(Reader!Blocks(f)) :
         (Reader!Blocks(f)[k] + 1) * BlockSize > PartitionSize

RightBytes(f, c, b) ==
    /\ b \in Seq(Int)
    /\ \A i \in 1 .. Len(b) :
         c.position + i - 1 < f.size => b[i] = Reader!ByteAt(f, c.position + i - 1)

\* What is so of a read from a file.
ReadState(f, c, at, b) ==
    /\ at \in {"idle", "call", "read", "done", "crashed"}
    /\ at \in {"idle", "call"} => b = <<>>
    /\ at # "idle" => c \in [position : Nat, count : Nat, bypass : BOOLEAN]
    /\ RightBytes(f, c, b)
    /\ at = "read" => /\ c.position < f.size /\ Len(b) < c.count
                      /\ Whole(c) => Multiple(Len(b))
    /\ at = "done" => Len(b) = IF c.position < f.size THEN c.count ELSE 0
    /\ at = "crashed" => Excused(f, c)

\* What a turn of the loop works with.
From(c, b) == c.position + Len(b)
Within(c, b) == From(c, b) % BlockSize
At(f, c, b) == Reader!BlockBase(f, From(c, b) \div BlockSize)
Length(c, b) ==
    IF c.count - Len(b) <= BlockSize - Within(c, b) THEN c.count - Len(b)
    ELSE BlockSize - Within(c, b)

LEMMA TurnIs ==
    ASSUME NEW f, NEW c, NEW b, ReadState(f, c, "read", b)
    PROVE  /\ c.position \in Nat /\ c.count \in Nat /\ c.bypass \in BOOLEAN
           /\ Len(b) \in Nat /\ b \in Seq(Int)
           /\ From(c, b) \in Nat /\ From(c, b) \div BlockSize \in Nat
           /\ Within(c, b) \in 0 .. (BlockSize - 1)
           /\ From(c, b) = (From(c, b) \div BlockSize) * BlockSize + Within(c, b)
           /\ Length(c, b) \in 1 .. (BlockSize - Within(c, b))
           /\ Len(b) + Length(c, b) <= c.count
<1>1. /\ c.position \in Nat /\ c.count \in Nat /\ c.bypass \in BOOLEAN
      /\ b \in Seq(Int) /\ Len(b) < c.count
  BY DEF ReadState, RightBytes
<1>2. Len(b) \in Nat /\ From(c, b) \in Nat
  BY <1>1, LenProperties DEF From
<1>3. BlockSize \in Nat \ {0}
  BY ReadAssumption
<1> DEFINE p == From(c, b)
<1> HIDE DEF p
<1>4. /\ p \div BlockSize \in Nat /\ p % BlockSize \in 0 .. (BlockSize - 1)
      /\ p = (p \div BlockSize) * BlockSize + (p % BlockSize)
  BY <1>2, <1>3, Division DEF p
<1> DEFINE w == Within(c, b)
<1>5. w \in 0 .. (BlockSize - 1)
  BY <1>4 DEF p, Within
<1> DEFINE l == Len(b)
           n == c.count
<1>6. Length(c, b) = IF n - l <= BlockSize - w THEN n - l ELSE BlockSize - w
  BY DEF Length
<1>7. n \in Nat /\ l \in Nat /\ l < n
  BY <1>1, <1>2
<1> HIDE DEF w, l, n
<1>8. Length(c, b) \in 1 .. (BlockSize - w) /\ l + Length(c, b) <= n
  BY <1>3, <1>5, <1>6, <1>7
<1> QED
  BY <1>1, <1>2, <1>4, <1>5, <1>8 DEF p, w, l, n, Within

\* The bytes of a block are the file's, until it ends.
LEMMA BytesAre ==
    ASSUME NEW f, Reader!IsFile(f), NEW c, NEW b, ReadState(f, c, "read", b),
           At(f, c, b) # -1, NEW i \in 1 .. Length(c, b)
    PROVE  /\ At(f, c, b) \in Nat
           /\ Reader!ByteAt(f, From(c, b) + i - 1)
                = IF At(f, c, b) = 0 THEN -1 ELSE At(f, c, b) * BlockSize + Within(c, b) + i - 1
<1> DEFINE p == From(c, b)
           q == p \div BlockSize
           w == Within(c, b)
           base == At(f, c, b)
           r == w + (i - 1)
           x == p + i - 1
           blocks == Reader!Blocks(f)
<1>1. BlockSize \in Nat \ {0}
  BY ReadAssumption
<1>2. /\ p \in Nat /\ q \in Nat /\ w \in 0 .. (BlockSize - 1) /\ p = q * BlockSize + w
      /\ Length(c, b) \in 1 .. (BlockSize - w)
  BY TurnIs
<1>3. blocks \in Seq(Nat) /\ base = IF q < Len(blocks) THEN blocks[q + 1] ELSE -1
  <2> HIDE DEF q
  <2> QED
    BY <1>2, BlockBaseIs DEF At, q
<1>4. Reader!ByteAt(f, x) = IF blocks[x \div BlockSize + 1] = 0 THEN -1
                            ELSE blocks[x \div BlockSize + 1] * BlockSize + (x % BlockSize)
  BY Zenon DEF Reader!ByteAt, Reader!Zero
<1> HIDE DEF base, blocks, q, w, p
<1>5. Len(blocks) \in Nat
  BY <1>3, LenProperties
<1>6. q < Len(blocks) /\ base = blocks[q + 1]
  BY <1>3 DEF base
<1>7. base \in Nat
  BY <1>2, <1>3, <1>5, <1>6
<1> DEFINE qb == q * BlockSize
<1>8. r \in 0 .. (BlockSize - 1) /\ x \in Nat /\ x = qb + r
  <2>1. qb \in Nat
    BY <1>1, <1>2
  <2>2. p = qb + w
    BY <1>2
  <2>3. i \in 1 .. (BlockSize - w)
    <3> DEFINE l == Length(c, b)
    <3>1. l \in 1 .. (BlockSize - w) /\ i \in 1 .. l
      BY <1>2
    <3> HIDE DEF l
    <3> QED
      BY <1>1, <1>2, <3>1
  <2> HIDE DEF qb
  <2> QED
    BY <1>1, <1>2, <2>1, <2>2, <2>3
<1> HIDE DEF x, r
<1>9. x \div BlockSize = q /\ x % BlockSize = r
  BY <1>1, <1>2, <1>8, DivisionIs
<1>10. Reader!ByteAt(f, x) = IF base = 0 THEN -1 ELSE base * BlockSize + r
  BY <1>4, <1>6, <1>9
<1> DEFINE bb == base * BlockSize
<1>11. bb + r = bb + w + i - 1
  <2>1. bb \in Nat
    BY <1>1, <1>7
  <2> HIDE DEF bb
  <2> QED
    BY <1>2, <2>1 DEF r
<1>12. Reader!ByteAt(f, x) = IF base = 0 THEN -1 ELSE base * BlockSize + w + i - 1
  BY <1>10, <1>11
<1> QED
  BY <1>7, <1>12 DEF x, base, p, w

LEMMA JoinedInts ==
    ASSUME NEW a \in Seq(Int), NEW b \in Seq(Int)
    PROVE  /\ a \o b \in Seq(Int) /\ Len(a \o b) = Len(a) + Len(b)
           /\ \A m \in 1 .. Len(a) : (a \o b)[m] = a[m]
           /\ \A m \in 1 .. Len(b) : (a \o b)[Len(a) + m] = b[m]
OBVIOUS

LEMMA TurnAdds ==
    ASSUME NEW f, Reader!IsFile(f), NEW c, NEW b, ReadState(f, c, "read", b),
           At(f, c, b) # -1, NEW bytes, Len(bytes) = Length(c, b), bytes \in Seq(Int),
           \A i \in 1 .. Length(c, b) :
             bytes[i] = IF At(f, c, b) = 0 THEN -1
                        ELSE At(f, c, b) * BlockSize + Within(c, b) + i - 1
    PROVE  ReadState(f, c, IF Len(b) + Length(c, b) = c.count THEN "done" ELSE "read", b \o bytes)
<1> DEFINE l == Len(b)
           n == Length(c, b)
           p == From(c, b)
           w == Within(c, b)
           all == b \o bytes
           next == IF l + n = c.count THEN "done" ELSE "read"
<1>1. /\ c.position \in Nat /\ c.count \in Nat
      /\ l \in Nat /\ b \in Seq(Int) /\ p \in Nat
      /\ w \in 0 .. (BlockSize - 1) /\ n \in 1 .. (BlockSize - w) /\ l + n <= c.count
      /\ p = (p \div BlockSize) * BlockSize + w /\ p \div BlockSize \in Nat
      /\ p = c.position + l
  BY TurnIs DEF From
<1>2. BlockSize \in Nat \ {0}
  BY ReadAssumption
<1>3. n \in Nat /\ n >= 1
  <2> HIDE DEF n, w
  <2> QED
    BY <1>1, <1>2
<1>4. /\ all \in Seq(Int) /\ Len(all) = l + n
      /\ \A m \in 1 .. l : all[m] = b[m]
      /\ \A m \in 1 .. n : all[l + m] = bytes[m]
  <2>1. b \in Seq(Int) /\ bytes \in Seq(Int) /\ Len(bytes) = n
    BY <1>1
  <2>2. /\ all \in Seq(Int) /\ Len(all) = Len(b) + Len(bytes)
        /\ \A m \in 1 .. Len(b) : all[m] = b[m]
        /\ \A m \in 1 .. Len(bytes) : all[Len(b) + m] = bytes[m]
    BY <2>1, JoinedInts
  <2> HIDE DEF all, n
  <2> QED
    BY <2>1, <2>2
<1>5. /\ c \in [position : Nat, count : Nat, bypass : BOOLEAN] /\ c.position < f.size
      /\ Whole(c) => Multiple(l)
      /\ \A i \in 1 .. l :
           c.position + i - 1 < f.size => b[i] = Reader!ByteAt(f, c.position + i - 1)
  BY DEF ReadState, RightBytes
<1>6. \A i \in 1 .. n : bytes[i] = Reader!ByteAt(f, p + i - 1)
  BY BytesAre
<1> HIDE DEF all, n, l, p, w
<1>7. RightBytes(f, c, all)
  <2>1. ASSUME NEW i \in 1 .. Len(all), c.position + i - 1 < f.size
        PROVE  all[i] = Reader!ByteAt(f, c.position + i - 1)
    <3>1. CASE i <= l
      <4>1. i \in 1 .. l
        BY <1>1, <1>4, <3>1
      <4> QED
        BY <1>4, <1>5, <2>1, <4>1
    <3>2. CASE ~(i <= l)
      <4> DEFINE m == i - l
      <4>1. m \in 1 .. n /\ l + m = i /\ c.position + i - 1 = p + m - 1
        <5> DEFINE cp == c.position
        <5>1. cp \in Nat /\ l \in Nat /\ p = cp + l /\ i \in 1 .. (l + n)
          BY <1>1, <1>4
        <5> HIDE DEF cp
        <5>2. m \in 1 .. n /\ l + m = i /\ cp + i - 1 = p + m - 1
          BY <1>3, <3>2, <5>1
        <5> QED
          BY <5>2 DEF cp
      <4> HIDE DEF m
      <4>2. all[l + m] = bytes[m] /\ bytes[m] = Reader!ByteAt(f, p + m - 1)
        BY <1>4, <1>6, <4>1
      <4> QED
        BY <4>1, <4>2, Zenon
    <3> QED
      BY <3>1, <3>2
  <2> QED
    BY <1>4, <2>1 DEF RightBytes
<1>8. Whole(c) /\ l + n # c.count => Multiple(l + n)
  <2> SUFFICES ASSUME Whole(c), l + n # c.count PROVE Multiple(l + n)
    OBVIOUS
  <2>1. n = BlockSize - w
    BY <1>1 DEF Length, n, l, w
  <2> DEFINE q == p \div BlockSize
             qb == q * BlockSize
  <2>2. q \in Int /\ p = qb + w
    BY <1>1
  <2>3. Multiple(BlockSize) /\ Multiple(qb)
    <3> HIDE DEF q
    <3> QED
      BY <2>2, MultipleBlocks
  <2>4. qb \in Int
    <3> HIDE DEF q
    <3> QED
      BY <1>2, <2>2
  <2> HIDE DEF qb, q
  <2>5. Multiple(qb + BlockSize)
    BY <1>2, <2>3, <2>4, MultipleSum
  <2>6. Multiple(c.position)
    BY <1>1, MultipleIs DEF Whole
  <2>7. Multiple((qb + BlockSize) - c.position)
    <3>1. qb + BlockSize \in Int /\ c.position \in Int
      BY <1>1, <1>2, <2>4
    <3> HIDE DEF Whole
    <3> QED
      BY <2>5, <2>6, <3>1, MultipleSum
  <2>8. (qb + BlockSize) - c.position = l + n
    <3> DEFINE cp == c.position
    <3>1. cp \in Nat /\ l \in Nat /\ p = cp + l /\ w \in 0 .. (BlockSize - 1)
      BY <1>1
    <3> HIDE DEF cp
    <3>2. (qb + BlockSize) - cp = l + n
      BY <1>2, <2>1, <2>2, <2>4, <3>1
    <3> QED
      BY <3>2 DEF cp
  <2> QED
    BY <2>7, <2>8
<1>9. next = "read" => l + n < c.count /\ (Whole(c) => Multiple(l + n))
  <2> DEFINE to == c.count
  <2>1. to \in Nat /\ l \in Nat /\ l + n <= to /\ (next = "read" => l + n # to)
    BY <1>1
  <2> HIDE DEF next, to
  <2>2. next = "read" => l + n < to
    BY <1>3, <2>1
  <2> QED
    BY <1>8, <2>1, <2>2 DEF to
<1>10. next = "done" => l + n = c.count
  OBVIOUS
<1>11. next \in {"read", "done"}
  OBVIOUS
<1> HIDE DEF next
<1>12. ReadState(f, c, next, all)
  <2>1. next = "read" => /\ c.position < f.size /\ Len(all) < c.count
                         /\ Whole(c) => Multiple(Len(all))
    BY <1>4, <1>5, <1>9
  <2>2. next = "done" => Len(all) = IF c.position < f.size THEN c.count ELSE 0
    BY <1>4, <1>5, <1>10
  <2> QED
    BY <1>5, <1>7, <1>11, <2>1, <2>2 DEF ReadState
<1>13. ReadState(f, c, IF l + n = c.count THEN "done" ELSE "read", b \o bytes)
  BY <1>12, Zenon DEF next, all
<1> QED
  BY <1>13, Zenon DEF l, n

LEMMA Crashes ==
    ASSUME NEW f, Reader!IsFile(f), NEW c, NEW b, ReadState(f, c, "read", b),
           \/ At(f, c, b) = -1
           \/ At(f, c, b) * BlockSize + Within(c, b) + Length(c, b) > PartitionSize
           \/ /\ c.bypass
              /\ \/ Within(c, b) % SectorSize # 0
                 \/ Length(c, b) % SectorSize # 0
    PROVE  ReadState(f, c, "crashed", b)
<1> DEFINE l == Len(b)
           n == Length(c, b)
           p == From(c, b)
           q == p \div BlockSize
           w == Within(c, b)
           base == At(f, c, b)
           blocks == Reader!Blocks(f)
<1>1. /\ c.position \in Nat /\ c.count \in Nat /\ l \in Nat /\ p \in Nat /\ q \in Nat
      /\ w \in 0 .. (BlockSize - 1) /\ n \in 1 .. (BlockSize - w) /\ l + n <= c.count
      /\ p = q * BlockSize + w /\ p = c.position + l
  BY TurnIs DEF From
<1>2. BlockSize \in Nat \ {0} /\ SectorSize \in Nat \ {0} /\ PartitionSize \in Nat
  BY ReadAssumption
<1>3. /\ f.size \in Nat /\ f.size <= Len(blocks) * BlockSize
  BY DEF Reader!IsFile
<1>4. blocks \in Seq(Nat) /\ base = IF q < Len(blocks) THEN blocks[q + 1] ELSE -1
  <2> HIDE DEF q
  <2> QED
    BY <1>1, BlockBaseIs DEF At, q
<1>5. /\ c \in [position : Nat, count : Nat, bypass : BOOLEAN] /\ c.position < f.size
      /\ Whole(c) => Multiple(l) /\ RightBytes(f, c, b) /\ l < c.count
  BY DEF ReadState
<1>6. \/ base = -1
      \/ base * BlockSize + w + n > PartitionSize
      \/ c.bypass /\ (w % SectorSize # 0 \/ n % SectorSize # 0)
  OBVIOUS
<1>7. RightBytes(f, c, b)
  BY DEF ReadState
<1> HIDE DEF blocks, q, p, w, n, base, l
<1>8. Len(blocks) \in Nat
  BY <1>4, LenProperties
<1> DEFINE qb == q * BlockSize
<1>9. qb \in Nat /\ p = qb + w
  BY <1>1, <1>2
<1>10. CASE ~(q < Len(blocks))
  <2>1. Len(blocks) * BlockSize <= qb
    BY <1>1, <1>2, <1>8, <1>10
  <2> DEFINE whole == Len(blocks) * BlockSize
  <2>2. whole \in Nat
    BY <1>2, <1>8
  <2> HIDE DEF whole, qb
  <2>3. c.position + c.count > f.size
    BY <1>1, <1>3, <1>5, <1>9, <2>1, <2>2 DEF whole
  <2> QED
    BY <1>5, <1>7, <2>3 DEF ReadState, Excused
<1>11. CASE q < Len(blocks) /\ base * BlockSize + w + n > PartitionSize
  <2>1. base = blocks[q + 1] /\ q + 1 \in 1 .. Len(blocks) /\ base \in Nat
    BY <1>1, <1>4, <1>8, <1>11
  <2> DEFINE bb == base * BlockSize
  <2>2. bb \in Nat /\ (base + 1) * BlockSize = bb + BlockSize
    BY <1>2, <2>1
  <2>3. bb + w + n > PartitionSize
    BY <1>11
  <2> HIDE DEF bb
  <2>4. (base + 1) * BlockSize > PartitionSize
    BY <1>1, <1>2, <2>2, <2>3
  <2>5. Excused(f, c)
    BY <2>1, <2>4 DEF Excused, blocks
  <2> QED
    BY <1>5, <1>7, <2>5 DEF ReadState
<1>12. CASE c.bypass /\ (w % SectorSize # 0 \/ n % SectorSize # 0)
  <2>1. ASSUME Whole(c) PROVE FALSE
    <3> DEFINE cp == c.position
               cc == c.count
    <3>1. cp \in Nat /\ cc \in Nat /\ Multiple(l)
      BY <1>1, <1>5, <2>1
    <3>2. cp % SectorSize = 0 /\ cc % SectorSize = 0
      BY <2>1 DEF Whole
    <3>3. p = cp + l /\ p = qb + w
      BY <1>1
    <3>4. n = cc - l \/ n = BlockSize - w
      BY DEF Length, n, l, w
    <3> HIDE DEF qb, cp, cc
    <3>5. Multiple(cp)
      BY <3>1, <3>2, MultipleIs
    <3>6. Multiple(cc)
      BY <3>1, <3>2, MultipleIs
    <3>7. Multiple(qb) /\ Multiple(BlockSize)
      BY <1>1, MultipleBlocks DEF qb
    <3>8. /\ cp \in Int /\ cc \in Int /\ l \in Int /\ qb \in Int
          /\ w \in Nat /\ w \in Int /\ BlockSize \in Int
      BY <1>1, <1>2, <1>9, <3>1
    <3>9. n \in Nat /\ p \in Int
      BY <1>1, <1>2, <3>8
    <3>10. Multiple(cp + l)
      BY <3>1, <3>5, <3>8, MultipleSum
    <3>11. Multiple(p)
      BY <3>3, <3>10
    <3>12. Multiple(p - qb)
      BY <3>7, <3>8, <3>9, <3>11, MultipleSum
    <3>13. p - qb = w
      BY <3>3, <3>8
    <3>14. Multiple(w)
      BY <3>12, <3>13
    <3>15. w % SectorSize = 0
      BY <3>8, <3>14, MultipleIs
    <3>16. Multiple(cc - l)
      BY <3>1, <3>6, <3>8, MultipleSum
    <3>17. Multiple(BlockSize - w)
      BY <3>7, <3>8, <3>14, MultipleSum
    <3>18. Multiple(n)
      BY <3>4, <3>16, <3>17
    <3>19. n % SectorSize = 0
      BY <3>9, <3>18, MultipleIs
    <3> QED
      BY <1>12, <3>15, <3>19
  <2>2. Excused(f, c)
    BY <1>12, <2>1 DEF Excused
  <2> QED
    BY <1>5, <1>7, <2>2 DEF ReadState
<1>13. q < Len(blocks) => base \in Nat
  BY <1>1, <1>4, <1>8
<1> QED
  BY <1>6, <1>10, <1>11, <1>12, <1>13

\* The file that is open, as it was written to the partition.
File == Contents[objects[result].number]

LEMMA OpenIs ==
    ASSUME TypeInv, pc = "open"
    PROVE  OpenFile = File /\ Reader!IsFile(File)
<1>1. /\ partition \in Partitions /\ Mounted /\ objects \in Seq(Object)
      /\ result \in -1 .. Len(objects) /\ result # -1
      /\ Contents[Lookup!Number(result)].type = "reg"
  BY DEF TypeInv
<1>2. result # 0
  <2>1. Contents[RootNumber].type # "reg"
    BY <1>1, VolumeType
  <2> QED
    BY <1>1, <2>1 DEF Lookup!Number, Lookup!Root
<1>3. result \in 1 .. Len(objects) /\ Lookup!Number(result) = objects[result].number
  <2>1. Len(objects) \in Nat
    BY <1>1, LenProperties
  <2> QED
    BY <1>1, <1>2, <2>1 DEF Lookup!Number, Lookup!Root
<1>4. objects[result].number \in DOMAIN Contents
  <2>1. objects[result] \in Object
    BY <1>1, <1>3, ElementOfSeq
  <2> QED
    BY <2>1 DEF Object
<1>5. OpenFile = File
  BY <1>1, <1>3, <1>4, InodesAre DEF OpenFile, File, Contents
<1>6. Reader!IsFile(File)
  <2>1. IsFormatted(partition)
    BY <1>1, FileSystemAssumption DEF Mounted
  <2>2. \A n \in DOMAIN Contents : Contents[n].type = "reg" => Reader!IsFile(Contents[n])
    BY <2>1, Zenon DEF IsFormatted, Contents
  <2>3. Contents[objects[result].number].type = "reg"
    BY <1>1, <1>3
  <2> QED
    BY <1>4, <2>2, <2>3, Zenon DEF File
<1> QED
  BY <1>5, <1>6

ReadInv ==
    /\ pc \notin {"open", "closed"} => readPc = "idle" /\ buffer = <<>>
    /\ pc = "open" => ReadState(File, call, readPc, buffer)

LEMMA ReadPrimed ==
    ASSUME pc' \notin {"open", "closed"} => readPc' = "idle" /\ buffer' = <<>>,
           pc' = "open" => ReadState(File', call', readPc', buffer')
    PROVE  ReadInv'
<1>1. ASSUME NEW f, NEW c, NEW at, NEW b, ReadState(f, c, at, b)
      PROVE  ReadState(f, c, at, b)'
  BY <1>1
<1> QED
  BY <1>1 DEF ReadInv

LEMMA ReadStart ==
    ASSUME NEW f, NEW c
    PROVE  ReadState(f, c, "idle", <<>>)
BY DEF ReadState, RightBytes

\* The names of a turn of the loop, in the state and for the file that is open.
LEMMA TurnNames ==
    ASSUME TypeInv, pc = "open", ReadState(File, call, "read", buffer)
    PROVE  /\ Reader!position = From(call, buffer)
           /\ Reader!offset = Within(call, buffer)
           /\ Reader!current = Length(call, buffer)
           /\ Reader!base = At(File, call, buffer)
<1>1. Reader!position = From(call, buffer)
  BY DEF Reader!position, From
<1>2. Reader!offset = Within(call, buffer)
  BY <1>1 DEF Reader!offset, Within
<1>3. Reader!base = At(File, call, buffer)
  BY <1>1, OpenIs, Zenon DEF Reader!base, At
<1>4. Reader!current = Length(call, buffer)
  <2> DEFINE x == call.count - Len(buffer)
             y == BlockSize - Within(call, buffer)
  <2>1. x \in Int /\ y \in Int
    <3>1. /\ call.count \in Nat /\ Len(buffer) \in Nat
          /\ Within(call, buffer) \in 0 .. (BlockSize - 1)
      BY TurnIs
    <3>2. BlockSize \in Nat
      BY ReadAssumption
    <3> QED
      BY <3>1, <3>2
  <2>2. Reader!current = CHOOSE m \in {x, y} : \A k \in {x, y} : m <= k
    BY <1>2, Zenon DEF Reader!current, Reader!Min
  <2>3. Length(call, buffer) = IF x <= y THEN x ELSE y
    BY DEF Length
  <2> HIDE DEF x, y
  <2> DEFINE least == IF x <= y THEN x ELSE y
  <2>4. least \in {x, y} /\ \A k \in {x, y} : least <= k
    BY <2>1
  <2>5. \A m \in {x, y} : (\A k \in {x, y} : m <= k) => m = least
    BY <2>1
  <2> HIDE DEF least
  <2>6. (CHOOSE m \in {x, y} : \A k \in {x, y} : m <= k) = least
    BY <2>4, <2>5
  <2> QED
    BY <2>2, <2>3, <2>6 DEF least
<1> QED
  BY <1>1, <1>2, <1>3, <1>4

LEMMA ReadCall ==
    ASSUME TypeInv, pc = "open", ReadState(File, call, readPc, buffer), Reader!Call
    PROVE  ReadState(File, call', readPc', buffer')
<1>1. /\ readPc = "idle" /\ readPc' = "call" /\ buffer' = buffer
      /\ call' \in [position : 0 .. (File.size + BlockSize), count : 0 .. MaxCount,
                    bypass : BOOLEAN]
  BY OpenIs, Zenon DEF Reader!Call
<1>2. buffer = <<>>
  BY <1>1 DEF ReadState
<1>3. call' \in [position : Nat, count : Nat, bypass : BOOLEAN]
  <2>1. File.size \in Nat /\ BlockSize \in Nat /\ MaxCount \in Nat
    BY OpenIs, ReadAssumption DEF Reader!IsFile
  <2> DEFINE top == File.size + BlockSize
  <2>2. 0 .. top \subseteq Nat /\ 0 .. MaxCount \subseteq Nat
    BY <2>1
  <2> HIDE DEF top
  <2>3. call' \in [position : 0 .. top, count : 0 .. MaxCount, bypass : BOOLEAN]
    BY <1>1 DEF top
  <2> QED
    BY <2>2, <2>3
<1>4. RightBytes(File, call', <<>>)
  BY DEF RightBytes
<1> QED
  BY <1>1, <1>2, <1>3, <1>4 DEF ReadState

LEMMA ReadCalled ==
    ASSUME TypeInv, pc = "open", ReadState(File, call, readPc, buffer), Reader!FileRead
    PROVE  ReadState(File, call', readPc', buffer')
<1>1. /\ readPc = "call" /\ call' = call /\ buffer' = buffer
      /\ readPc' = IF call.count = 0 \/ call.position >= File.size THEN "done" ELSE "read"
  BY OpenIs, Zenon DEF Reader!FileRead
<1>2. /\ buffer = <<>> /\ call \in [position : Nat, count : Nat, bypass : BOOLEAN]
      /\ RightBytes(File, call, buffer)
  BY <1>1 DEF ReadState
<1>3. File.size \in Nat
  BY OpenIs DEF Reader!IsFile
<1>4. Multiple(0)
  <2>1. SectorSize \in Nat \ {0}
    BY ReadAssumption
  <2>2. 0 \in Int /\ 0 = 0 * SectorSize
    BY <2>1
  <2> QED
    BY <2>2 DEF Multiple
<1> DEFINE p == call.position
           n == call.count
           s == File.size
<1>5. p \in Nat /\ n \in Nat /\ s \in Nat /\ Len(buffer) = 0
  BY <1>2, <1>3
<1>6. readPc' = IF n = 0 \/ p >= s THEN "done" ELSE "read"
  BY <1>1
<1> HIDE DEF p, n, s
<1>7. /\ readPc' = "read" => p < s /\ Len(buffer) < n /\ Multiple(Len(buffer))
      /\ readPc' = "done" => Len(buffer) = IF p < s THEN n ELSE 0
      /\ readPc' \in {"read", "done"}
  BY <1>4, <1>5, <1>6
<1> QED
  BY <1>1, <1>2, <1>7 DEF ReadState, p, n, s

LEMMA ReadTurn ==
    ASSUME TypeInv, pc = "open", ReadState(File, call, readPc, buffer),
           Reader!ReadBlock \/ Reader!ReadHole
    PROVE  ReadState(File, call', readPc', buffer')
<1> DEFINE base == At(File, call, buffer)
           n == Length(call, buffer)
           w == Within(call, buffer)
           bytes == [i \in 1 .. n |-> IF base = 0 THEN -1 ELSE base * BlockSize + w + i - 1]
<1>1. readPc = "read"
  BY DEF Reader!ReadBlock, Reader!ReadHole
<1>2. ReadState(File, call, "read", buffer)
  BY <1>1, Zenon
<1>3. /\ Reader!current = n /\ Reader!offset = w /\ Reader!base = base
  BY <1>2, TurnNames
<1>4. n \in Nat
  <2>1. n \in 1 .. (BlockSize - w) /\ w \in 0 .. (BlockSize - 1)
    BY <1>2, TurnIs
  <2>2. BlockSize \in Nat
    BY ReadAssumption
  <2> HIDE DEF n, w
  <2> QED
    BY <2>1, <2>2
<1>5. base # -1 /\ Reader!Fill(bytes)
  <2>1. CASE Reader!ReadBlock
    <3> DEFINE some == [i \in 1 .. n |-> base * BlockSize + w + i - 1]
    <3>1. base > 0 /\ Reader!Fill(some)
      BY <1>3, <2>1, Zenon DEF Reader!ReadBlock
    <3>2. base # 0 /\ base # -1
      BY <3>1
    <3> HIDE DEF base, w
    <3>3. bytes = some
      BY <3>2
    <3> QED
      BY <3>1, <3>2, <3>3, Zenon
  <2>2. CASE Reader!ReadHole
    <3> DEFINE some == [i \in 1 .. n |-> -1]
    <3>1. base = 0 /\ Reader!Fill(some)
      BY <1>3, <2>2, Zenon DEF Reader!ReadHole, Reader!Zero
    <3>2. base # -1
      BY <3>1
    <3> HIDE DEF base, w
    <3>3. bytes = some
      BY <3>1
    <3> QED
      BY <3>1, <3>2, <3>3, Zenon
  <2> QED
    BY <2>1, <2>2
<1>6. /\ buffer' = buffer \o bytes /\ call' = call
      /\ readPc' = IF Len(buffer) + n = call.count THEN "done" ELSE "read"
  BY <1>3, <1>5, Zenon DEF Reader!Fill
<1>7. Len(bytes) = n /\ bytes \in Seq(Int)
  <2>1. base \in Int /\ w \in Int /\ BlockSize \in Int
    <3>1. w \in 0 .. (BlockSize - 1) /\ BlockSize \in Nat
      BY <1>2, TurnIs, ReadAssumption
    <3>2. n \in 1 .. (BlockSize - w)
      BY <1>2, TurnIs
    <3> HIDE DEF base, n, w
    <3>3. 1 \in 1 .. n
      BY <3>1, <3>2
    <3>4. base \in Nat
      BY <1>2, <1>5, <3>3, OpenIs, BytesAre DEF base, n
    <3> QED
      BY <3>1, <3>4
  <2> DEFINE bb == base * BlockSize
  <2>2. bb \in Int
    <3> HIDE DEF base
    <3> QED
      BY <2>1
  <2> HIDE DEF bb
  <2>3. \A i \in 1 .. n : bb + w + i - 1 \in Int
    <3> HIDE DEF n, w
    <3> QED
      BY <1>4, <2>1, <2>2
  <2> HIDE DEF n, base, w
  <2>4. \A i \in 1 .. n : (IF base = 0 THEN -1 ELSE base * BlockSize + w + i - 1) \in Int
    BY <2>3 DEF bb
  <2>5. bytes \in [1 .. n -> Int]
    BY <2>4
  <2> HIDE DEF bytes
  <2> QED
    BY <1>4, <2>5
<1>8. \A i \in 1 .. n :
        bytes[i] = IF base = 0 THEN -1 ELSE base * BlockSize + w + i - 1
  BY Zenon
<1> HIDE DEF bytes
<1>9. ReadState(File, call, IF Len(buffer) + n = call.count THEN "done" ELSE "read",
                buffer \o bytes)
  BY <1>2, <1>5, <1>7, <1>8, OpenIs, TurnAdds
<1> QED
  BY <1>6, <1>9, Zenon

LEMMA ReadCrashes ==
    ASSUME TypeInv, pc = "open", ReadState(File, call, readPc, buffer), Reader!ReadFails
    PROVE  ReadState(File, call', readPc', buffer')
<1>1. readPc = "read" /\ readPc' = "crashed" /\ call' = call /\ buffer' = buffer
  BY DEF Reader!ReadFails
<1>2. ReadState(File, call, "read", buffer)
  BY <1>1, Zenon
<1> DEFINE base == At(File, call, buffer)
           n == Length(call, buffer)
           w == Within(call, buffer)
<1>3. \/ base = -1
      \/ base * BlockSize + w + n > PartitionSize
      \/ call.bypass /\ (w % SectorSize # 0 \/ n % SectorSize # 0)
  <2>1. Reader!current = n /\ Reader!offset = w /\ Reader!base = base
    BY <1>2, TurnNames
  <2> HIDE DEF base, n, w
  <2> QED
    BY <2>1, Zenon DEF Reader!ReadFails, Reader!Beyond
<1>4. ReadState(File, call, "crashed", buffer)
  BY <1>2, <1>3, OpenIs, Crashes
<1> QED
  BY <1>1, <1>4, Zenon

LEMMA ReadNext ==
    ASSUME TypeInv, ReadInv, [Next]_vars
    PROVE  ReadInv'
<1>1. CASE Initialize \/ UNCHANGED vars
  <2>1. /\ partition' = partition /\ pc' = pc /\ objects' = objects /\ result' = result
        /\ call' = call /\ readPc' = readPc /\ buffer' = buffer
    BY <1>1 DEF Initialize, vars, lookupVars, readVars
  <2>2. File' = File
    BY <2>1 DEF File, Contents
  <2> QED
    BY <2>1, <2>2, ReadPrimed DEF ReadInv
<1>2. CASE Find
  <2>1. /\ TypeInv' /\ pc # "open" /\ call' = call /\ readPc' = readPc /\ buffer' = buffer
        /\ pc # "closed"
    BY <1>2, FindSteps DEF readVars, Find, Lookup!Find, Lookup!NotFound, Lookup!EndOfPath,
       Lookup!FollowLink, Lookup!LinkUnreadable, Lookup!Descend, Lookup!LinkFollowed,
       Lookup!FreedTwice, Lookup!Found
  <2>2. readPc' = "idle" /\ buffer' = <<>>
    BY <2>1 DEF ReadInv
  <2>3. ReadState(File', call', "idle", <<>>)
    BY ReadStart
  <2> QED
    BY <2>2, <2>3, ReadPrimed
<1>3. CASE Read
  <2>1. /\ pc = "open" /\ pc' = "open" /\ partition' = partition /\ objects' = objects
        /\ result' = result
    BY <1>3 DEF Read, lookupVars
  <2>2. File' = File
    BY <2>1 DEF File, Contents
  <2>3. ReadState(File, call, readPc, buffer)
    BY <2>1 DEF ReadInv
  <2>4. CASE Reader!Call
    BY <2>1, <2>2, <2>3, <2>4, ReadCall, ReadPrimed
  <2>5. CASE Reader!FileRead
    BY <2>1, <2>2, <2>3, <2>5, ReadCalled, ReadPrimed
  <2>6. CASE Reader!ReadBlock \/ Reader!ReadHole
    BY <2>1, <2>2, <2>3, <2>6, ReadTurn, ReadPrimed
  <2>7. CASE Reader!ReadFails
    BY <2>1, <2>2, <2>3, <2>7, ReadCrashes, ReadPrimed
  <2> QED
    BY <1>3, <2>4, <2>5, <2>6, <2>7 DEF Read, Reader!Next
<1>4. CASE Free
  <2>1. pc' = "closed"
    BY <1>4 DEF Free, Lookup!Close
  <2> QED
    BY <2>1, ReadPrimed
<1> QED
  BY <1>1, <1>2, <1>3, <1>4 DEF Next

\* What was written is compared with by the same definitions.
LEMMA SameBlocks ==
    ASSUME NEW f
    PROVE  WrittenFile!Blocks(f) = Reader!Blocks(f)
<1>1. WrittenFile!Power = Reader!Power
  BY Zenon DEF WrittenFile!Power, Reader!Power
<1>2. ASSUME NEW s PROVE WrittenFile!FlattenSeq(s) = Reader!FlattenSeq(s)
  BY Zenon DEF WrittenFile!FlattenSeq, Reader!FlattenSeq
<1>3. WrittenFile!Leaves = Reader!Leaves
  BY <1>1, <1>2, Zenon DEF WrittenFile!Leaves, Reader!Leaves
<1> QED
  BY <1>2, <1>3, Zenon DEF WrittenFile!Blocks, Reader!Blocks

LEMMA FileIsRead ==
    ASSUME TypeInv, ReadInv
    PROVE  ReadsTheFile
<1> SUFFICES ASSUME pc = "open"
             PROVE  WrittenFile!ReadsTheFile /\ WrittenFile!ReadIsComplete
  BY DEF ReadsTheFile
<1>1. ReadState(File, call, readPc, buffer)
  BY DEF ReadInv
<1>2. WrittenFile!Blocks(File) = Reader!Blocks(File)
  BY SameBlocks
<1>3. WrittenFile!ReadsTheFile
  <2>1. \A i \in DOMAIN buffer :
          call.position + i - 1 < File.size =>
            buffer[i] = WrittenFile!ByteAt(File, call.position + i - 1)
    <3>1. ASSUME NEW x PROVE WrittenFile!ByteAt(File, x) = Reader!ByteAt(File, x)
      BY <1>2, Zenon DEF WrittenFile!ByteAt, Reader!ByteAt, WrittenFile!Zero, Reader!Zero
    <3>2. DOMAIN buffer = 1 .. Len(buffer)
      BY <1>1, LenProperties DEF ReadState, RightBytes
    <3> QED
      BY <1>1, <3>1, <3>2 DEF ReadState, RightBytes
  <2> QED
    BY <2>1, Zenon DEF WrittenFile!ReadsTheFile, File, Contents
<1>4. WrittenFile!ReadIsComplete
  <2>1. readPc = "done" =>
          Len(buffer) = IF call.position < File.size THEN call.count ELSE 0
    BY <1>1, Zenon DEF ReadState
  <2>2. ASSUME readPc = "crashed"
        PROVE  \/ call.position + call.count > File.size
               \/ call.bypass /\ ~(/\ call.position % SectorSize = 0
                                   /\ call.count % SectorSize = 0)
               \/ \E b \in WrittenFile!Range(WrittenFile!Blocks(File)) :
                    (b + 1) * BlockSize > PartitionSize
    <3>1. Excused(File, call)
      BY <1>1, <2>2 DEF ReadState
    <3> DEFINE blocks == Reader!Blocks(File)
    <3>2. ASSUME NEW k \in 1 .. Len(blocks), (blocks[k] + 1) * BlockSize > PartitionSize
          PROVE  \E b \in WrittenFile!Range(WrittenFile!Blocks(File)) :
                   (b + 1) * BlockSize > PartitionSize
      <4>1. blocks \in Seq(Nat)
        BY OpenIs, BlockBaseIs
      <4> HIDE DEF blocks
      <4>2. DOMAIN blocks = 1 .. Len(blocks)
        BY <4>1, LenProperties
      <4>3. blocks[k] \in WrittenFile!Range(blocks)
        BY <4>2, Zenon DEF WrittenFile!Range
      <4>4. blocks[k] \in WrittenFile!Range(WrittenFile!Blocks(File))
        BY <1>2, <4>3, Zenon DEF blocks
      <4> QED
        BY <3>2, <4>4, Zenon
    <3> QED
      BY <3>1, <3>2, Zenon DEF Excused, Whole
  <2> QED
    BY <2>1, <2>2, Zenon DEF WrittenFile!ReadIsComplete, File, Contents
<1> QED
  BY <1>3, <1>4

\* A read returns the bytes of the file that was written, through however many trees of
\* pointer blocks and however high, with zeros in its holes and as many as were asked
\* for; and it crashes only on a read beyond the file's end, on one that bypasses the
\* cache without being of whole sectors, or on a block beyond the partition's end.
THEOREM ReadIsCorrect == Spec => []ReadsTheFile
<1>1. Init => TypeInv /\ ReadInv
  <2>1. Init => pc = "find" /\ readPc = "idle" /\ buffer = <<>>
    BY DEF Init, Lookup!Init, Reader!Init
  <2> QED
    BY <2>1, TypeInit DEF ReadInv
<1>2. TypeInv /\ ReadInv /\ [Next]_vars => (TypeInv /\ ReadInv)'
  BY TypeNext, ReadNext
<1>3. TypeInv /\ ReadInv => ReadsTheFile
  BY FileIsRead
<1> QED
  BY <1>1, <1>2, <1>3, PTL DEF Spec
=============================================================================
