-------------------------- MODULE BuddyAlloc_proofs --------------------------
(* Proofs about the kernel heap, for every size of the heap and every set of   *)
(* requests: what size_required computes, that splitting, merging and giving   *)
(* away a block keep the row of blocks, that every loop ends and what it ends  *)
(* with, and from that the heap's invariant and its promise to its callers.    *)
EXTENDS BuddyAlloc, FiniteSetTheorems, NaturalsInduction, WellFoundedInduction, TLAPS

-----------------------------------------------------------------------------
(* Induction. The library's induction theorems take a predicate as parameter;  *)
(* here it is a set of numbers.                                                *)

LEMMA Least ==
    ASSUME NEW S \in SUBSET Nat, S # {}
    PROVE  \E x \in S : \A y \in S : x <= y
<1> DEFINE R == OpToRel(<, Nat)
<1>1. IsWellFoundedOn(R, Nat)
  BY NatLessThanWellFounded
<1>2. \A x, y \in Nat : <<x, y>> \in R <=> x < y
  BY DEF OpToRel
<1> HIDE DEF R
<1>3. PICK x \in S : \A y \in S : ~ (<<y, x>> \in R)
  BY <1>1, WFMin
<1>4. x \in Nat /\ \A y \in S : y \in Nat
  OBVIOUS
<1>5. \A y \in S : ~ (y < x)
  BY <1>2, <1>3, <1>4
<1>6. \A y \in S : x <= y
  BY <1>4, <1>5
<1> QED
  BY <1>6

(* Induction: a set of numbers with 0 and every successor has them all. *)
LEMMA Induct ==
    ASSUME NEW T, 0 \in T, \A k \in Nat : k \in T => k + 1 \in T
    PROVE  Nat \subseteq T
<1> DEFINE U == {k \in Nat : k \notin T}
<1> SUFFICES ASSUME U # {} PROVE FALSE
  OBVIOUS
<1>1. PICK x \in U : \A y \in U : x <= y
  BY Least
<1>2. x \in Nat /\ x # 0 /\ x - 1 \in Nat /\ x - 1 \notin U
  BY <1>1
<1>3. (x - 1) \in T /\ (x - 1) + 1 = x
  BY <1>2
<1> QED BY <1>1, <1>2, <1>3

(* A loop of n rounds of F has a value. *)
Rounds(g, F, s, n) == g = [k \in 0 .. n |-> IF k = 0 THEN s ELSE F[g[k - 1]]]

LEMMA LoopExists ==
    ASSUME NEW S, NEW F \in [S -> S], NEW s \in S, NEW n \in Nat
    PROVE  \E g \in [0 .. n -> S] : Rounds(g, F, s, n)
<1> DEFINE T == {m \in Nat : \E g \in [0 .. m -> S] : Rounds(g, F, s, m)}
<1>1. 0 \in T
  <2> DEFINE g0 == [k \in 0 .. 0 |-> s]
  <2>1. g0 \in [0 .. 0 -> S] /\ Rounds(g0, F, s, 0)
    BY DEF Rounds
  <2> QED BY <2>1
<1>2. ASSUME NEW m \in Nat, m \in T PROVE m + 1 \in T
  <2>1. PICK g \in [0 .. m -> S] : Rounds(g, F, s, m)
    BY <1>2
  <2> DEFINE e == [k \in 0 .. (m + 1) |-> IF k = m + 1 THEN F[g[m]] ELSE g[k]]
  <2>2. e \in [0 .. (m + 1) -> S]
    OBVIOUS
  <2>3. ASSUME NEW k \in 0 .. (m + 1) PROVE e[k] = IF k = 0 THEN s ELSE F[e[k - 1]]
    <3>1. CASE k = m + 1
      BY <3>1
    <3>2. CASE k # m + 1
      <4>1. k \in 0 .. m /\ (k # 0 => k - 1 \in 0 .. m /\ k - 1 # m + 1 /\ k - 1 \in 0 .. (m + 1))
        BY <3>2
      <4>2. g[k] = IF k = 0 THEN s ELSE F[g[k - 1]]
        BY <2>1, <4>1 DEF Rounds
      <4> QED BY <4>1, <4>2, <3>2
    <3> QED BY <3>1, <3>2
  <2>4. e = [k \in 0 .. (m + 1) |-> IF k = 0 THEN s ELSE F[e[k - 1]]]
    <3> DEFINE r == [k \in 0 .. (m + 1) |-> IF k = 0 THEN s ELSE F[e[k - 1]]]
    <3>1. DOMAIN e = 0 .. (m + 1) /\ DOMAIN r = 0 .. (m + 1)
      OBVIOUS
    <3>2. \A k \in 0 .. (m + 1) : r[k] = IF k = 0 THEN s ELSE F[e[k - 1]]
      OBVIOUS
    <3>3. e = [k \in 0 .. (m + 1) |-> e[k]]
      BY <2>2
    <3> HIDE DEF e
    <3>4. [k \in 0 .. (m + 1) |-> e[k]] = r
      BY <2>3
    <3> QED BY <3>3, <3>4
  <2> HIDE DEF e
  <2>5. Rounds(e, F, s, m + 1)
    BY <2>4 DEF Rounds
  <2> QED BY <2>2, <2>5
<1> HIDE DEF T
<1>3. \A m \in Nat : m \in T => m + 1 \in T
  BY <1>2
<1>4. n \in T
  BY <1>1, <1>3, Induct
<1> QED BY <1>4 DEF T


LEMMA InductTo ==
    ASSUME NEW n \in Nat, NEW K, 0 \in K, \A k \in Nat : k < n /\ k \in K => k + 1 \in K
    PROVE  n \in K
<1> DEFINE T == {k \in Nat : k <= n => k \in K}
<1>1. 0 \in T
  OBVIOUS
<1>2. ASSUME NEW k \in Nat, k \in T PROVE k + 1 \in T
  BY <1>2
<1> HIDE DEF T
<1>3. n \in T
  BY <1>1, <1>2, Induct
<1> QED BY <1>3 DEF T

-----------------------------------------------------------------------------
(* Sizes of blocks: the smallest one doubled any number of times. *)

BlockSizes ==
    {m \in Nat : \A S \in SUBSET Nat : alignment \in S /\ (\A x \in S : 2 * x \in S) => m \in S}

LEMMA Geometry ==
    /\ alignment \in Nat /\ alignment >= 1 /\ HeaderSize \in Nat /\ HeaderSize >= alignment
    /\ HalfWord \in Nat /\ HeapSize \in Nat /\ 2 * HeapSize <= HalfWord
    /\ Word \in Nat /\ Word = 2 * HalfWord
    /\ Sizes \subseteq Nat /\ \A n \in Sizes : n < Word
<1>1. Word \in Nat /\ Word = 2 * HalfWord
  BY GeometryAssumption DEF Word
<1>2. \A n \in Sizes : n \in 0 .. (Word - 1)
  BY GeometryAssumption
<1> QED BY <1>1, <1>2, GeometryAssumption

LEMMA Doubling ==
    /\ alignment \in BlockSizes
    /\ \A p \in BlockSizes : p \in Nat /\ 2 * p \in BlockSizes
<1>1. alignment \in BlockSizes
  BY Geometry DEF BlockSizes
<1>2. ASSUME NEW p \in BlockSizes PROVE p \in Nat /\ 2 * p \in BlockSizes
  <2>1. p \in Nat /\ 2 * p \in Nat
    BY DEF BlockSizes
  <2>2. ASSUME NEW S \in SUBSET Nat, alignment \in S, \A x \in S : 2 * x \in S PROVE 2 * p \in S
    <3>1. p \in S
      BY <2>2 DEF BlockSizes
    <3> QED BY <3>1, <2>2
  <2> QED BY <2>1, <2>2 DEF BlockSizes
<1> QED BY <1>1, <1>2

LEMMA SizeInduct ==
    ASSUME NEW T, alignment \in T, \A p \in BlockSizes : p \in T => 2 * p \in T
    PROVE  BlockSizes \subseteq T
<1> DEFINE S == {p \in BlockSizes : p \in T}
<1>1. S \in SUBSET Nat /\ alignment \in S /\ \A x \in S : 2 * x \in S
  BY Doubling
<1> HIDE DEF S
<1>2. \A m \in BlockSizes : m \in S
  BY <1>1 DEF BlockSizes
<1> QED BY <1>2 DEF S

(* A block is the smallest one or twice a block. *)
LEMMA Halving ==
    ASSUME NEW p \in BlockSizes
    PROVE  p \in Nat /\ p >= alignment /\ (p = alignment \/ \E q \in BlockSizes : p = 2 * q)
<1> DEFINE T == {m \in BlockSizes : m >= alignment /\ (m = alignment \/ \E q \in BlockSizes : m = 2 * q)}
<1>1. alignment \in T
  BY Doubling, Geometry
<1>2. ASSUME NEW m \in BlockSizes, m \in T PROVE 2 * m \in T
  BY <1>2, Doubling, Geometry
<1> HIDE DEF T
<1>3. p \in T
  BY <1>1, <1>2, SizeInduct
<1> QED BY <1>3, Doubling DEF T

LEMMA Gap ==
    ASSUME NEW p \in BlockSizes, NEW q \in BlockSizes, p < q
    PROVE  2 * p <= q
<1> DEFINE T == {m \in BlockSizes : \A r \in BlockSizes : m < r => 2 * m <= r}
<1>1. alignment \in T
  <2>1. ASSUME NEW r \in BlockSizes, alignment < r PROVE 2 * alignment <= r
    <3>1. PICK c \in BlockSizes : r = 2 * c
      BY <2>1, Halving, Geometry
    <3> QED BY <3>1, Halving, Geometry
  <2> QED BY <2>1, Doubling
<1>2. ASSUME NEW m \in BlockSizes, m \in T PROVE 2 * m \in T
  <2>1. ASSUME NEW r \in BlockSizes, 2 * m < r PROVE 2 * (2 * m) <= r
    <3>0. m \in Nat /\ m >= alignment /\ r \in Nat
      BY Halving
    <3>1. PICK c \in BlockSizes : r = 2 * c
      BY <2>1, <3>0, Halving, Geometry
    <3>2. c \in Nat /\ m < c
      BY <3>0, <3>1, <2>1, Halving
    <3>3. 2 * m <= c
      BY <3>2, <1>2
    <3> QED BY <3>0, <3>1, <3>2, <3>3
  <2> QED BY <2>1, Doubling
<1> HIDE DEF T
<1>3. p \in T
  BY <1>1, <1>2, SizeInduct
<1> QED BY <1>3 DEF T

(* Every block is a whole number of smallest ones. *)
LEMMA Multiples ==
    ASSUME NEW p \in BlockSizes
    PROVE  \E j \in Nat : p = j * alignment
<1> DEFINE T == {m \in BlockSizes : \E j \in Nat : m = j * alignment}
<1>1. alignment \in T
  <2>1. alignment = 1 * alignment
    BY Geometry
  <2> QED BY <2>1, Doubling
<1>2. ASSUME NEW m \in BlockSizes, m \in T PROVE 2 * m \in T
  <2>1. PICK j \in Nat : m = j * alignment
    BY <1>2
  <2>2. 2 * m = (2 * j) * alignment
    BY <2>1, Geometry
  <2> QED BY <2>2, Doubling
<1> HIDE DEF T
<1>3. p \in T
  BY <1>1, <1>2, SizeInduct
<1> QED BY <1>3 DEF T

-----------------------------------------------------------------------------
(* size_required: the smallest block that holds so many bytes. *)

LEMMA Divided ==
    ASSUME NEW m \in Nat, NEW d \in Nat, d >= 1
    PROVE  /\ m \div d \in Nat /\ m % d \in 0 .. (d - 1)
           /\ m = d * (m \div d) + (m % d)
OBVIOUS

LEMMA Times ==
    ASSUME NEW i \in Nat, NEW j \in Nat, NEW d \in Nat, i < j
    PROVE  i * d + d <= j * d
<1>1. (i + 1) * d <= j * d
  <2>1. PICK k \in Nat : j = (i + 1) + k
    <3>1. j - (i + 1) \in Nat /\ j = (i + 1) + (j - (i + 1))
      OBVIOUS
    <3> QED BY <3>1
  <2>2. j * d = (i + 1) * d + k * d /\ k * d >= 0
    BY <2>1
  <2> QED BY <2>2
<1>2. (i + 1) * d = i * d + d
  OBVIOUS
<1> QED BY <1>1, <1>2

(* What IsBlock counts up to is a block. *)
LEMMA BlockByDoubling ==
    ASSUME NEW n \in Nat, IsBlock(n)
    PROVE  n \in BlockSizes
<1> DEFINE Twice(x) == IF n > x THEN 2 * x ELSE x
           F == [x \in BlockSizes |-> Twice(x)]
<1>1. F \in [BlockSizes -> BlockSizes]
  BY Doubling
<1>2. PICK g \in [0 .. n -> BlockSizes] : Rounds(g, F, alignment, n)
  <2> HIDE DEF F
  <2> QED BY <1>1, Doubling, LoopExists
<1> DEFINE W(f) == f = [k \in 0 .. n |-> IF k = 0 THEN alignment
                                         ELSE IF n > f[k - 1] THEN 2 * f[k - 1] ELSE f[k - 1]]
<1>3. W(g)
  <2>1. \A k \in 0 .. n : k # 0 => F[g[k - 1]] = Twice(g[k - 1])
    OBVIOUS
  <2> QED BY <1>2, <2>1 DEF Rounds
<1>4. n = (CHOOSE f : W(f))[n]
  BY DEF IsBlock, Looped
<1>5. PICK f : f = (CHOOSE e : W(e)) /\ W(f)
  BY <1>3
<1> HIDE DEF F
<1> DEFINE T == {j \in Nat : j <= n => f[j] \in BlockSizes}
<1>6. \A k \in 0 .. n : f[k] = IF k = 0 THEN alignment ELSE Twice(f[k - 1])
  BY <1>5
<1> HIDE DEF W
<1>7. 0 \in T
  BY <1>6, Doubling
<1>8. ASSUME NEW j \in Nat, j \in T PROVE j + 1 \in T
  <2>1. ASSUME j + 1 <= n PROVE f[j + 1] \in BlockSizes
    <3>1. j + 1 \in 0 .. n /\ j + 1 # 0 /\ (j + 1) - 1 = j /\ f[j] \in BlockSizes
      BY <1>8, <2>1
    <3>2. f[j + 1] = Twice(f[j])
      BY <1>6, <3>1
    <3> QED BY <3>1, <3>2, Doubling
  <2> QED BY <2>1
<1> HIDE DEF T
<1>9. n \in T
  BY <1>7, <1>8, Induct
<1> QED BY <1>4, <1>5, <1>9 DEF T

LEMMA HeapIsBlock ==
    /\ HeapSize \in BlockSizes /\ HeapSize >= alignment /\ head \in Addresses
    /\ HalfWord \in BlockSizes /\ HalfWord >= alignment
<1>1. HeapSize \in BlockSizes /\ HalfWord \in BlockSizes
  BY GeometryAssumption, BlockByDoubling
<1>2. 0 % alignment = 0
  BY Geometry
<1> QED BY <1>1, <1>2, Halving, Geometry DEF Addresses, head

(* Rounding up, before it wraps around. *)
Rounded(n) == ((n + alignment - 1) \div alignment) * alignment

LEMMA RoundedIs ==
    ASSUME NEW n \in Nat
    PROVE  /\ Rounded(n) \in Nat /\ n <= Rounded(n) /\ Rounded(n) < n + alignment
           /\ \E d \in Nat : Rounded(n) = d * alignment
           /\ \A j \in Nat : n <= j * alignment => Rounded(n) <= j * alignment
<1> DEFINE m == n + alignment - 1
           d == m \div alignment
<1>0. m \in Nat /\ alignment \in Nat /\ alignment >= 1
  BY Geometry
<1>1. d \in Nat /\ m = alignment * d + (m % alignment) /\ m % alignment \in 0 .. (alignment - 1)
  <2> HIDE DEF m
  <2> QED BY <1>0, Divided
<1>2. Rounded(n) = d * alignment
  BY DEF Rounded
<1> HIDE DEF d
<1>3. d * alignment \in Nat /\ d * alignment = alignment * d
  BY <1>0, <1>1
<1>4. n <= Rounded(n) /\ Rounded(n) < n + alignment
  BY <1>0, <1>1, <1>2, <1>3
<1>5. ASSUME NEW j \in Nat, n <= j * alignment PROVE Rounded(n) <= j * alignment
  <2>1. j * alignment \in Nat
    BY <1>0
  <2>2. ASSUME j < d PROVE FALSE
    <3>1. j * alignment + alignment <= d * alignment
      BY <1>0, <1>1, <2>2, Times
    <3> QED BY <1>0, <1>2, <1>3, <1>4, <1>5, <2>1, <3>1
  <2>3. d <= j
    BY <1>1, <2>2
  <2>4. CASE d = j
    BY <2>1, <2>4, <1>2
  <2>5. CASE d < j
    <3>1. d * alignment + alignment <= j * alignment
      BY <1>0, <1>1, <2>5, Times
    <3> QED BY <1>0, <1>2, <1>3, <2>1, <3>1
  <2> QED BY <1>1, <2>3, <2>4, <2>5
<1> QED BY <1>1, <1>2, <1>3, <1>4, <1>5

LEMMA Modulo ==
    ASSUME NEW w \in Nat, w >= 1
    PROVE  (\A x \in Nat : x < w => x % w = x) /\ w % w = 0 /\ 0 % w = 0
OBVIOUS

LEMMA Aligned ==
    ASSUME NEW n \in 0 .. HalfWord
    PROVE  /\ align(n) \in Nat /\ n <= align(n) /\ align(n) < n + alignment
           /\ \A p \in BlockSizes : n <= p => align(n) <= p
<1>1. /\ Rounded(n) \in Nat /\ n <= Rounded(n) /\ Rounded(n) < n + alignment
      /\ \A j \in Nat : n <= j * alignment => Rounded(n) <= j * alignment
  <2>1. n \in Nat
    OBVIOUS
  <2> QED BY <2>1, RoundedIs
<1>2. \A p \in BlockSizes : n <= p => Rounded(n) <= p
  BY <1>1, Multiples
<1>3. Rounded(n) <= HalfWord
  BY <1>2, HeapIsBlock
<1>4. Rounded(n) < Word /\ Word \in Nat /\ Word >= 1
  BY <1>1, <1>3, HeapIsBlock, Geometry
<1>5. Rounded(n) % Word = Rounded(n)
  BY <1>1, <1>4, Modulo
<1>6. align(n) = Rounded(n)
  BY <1>5 DEF align, Rounded
<1> QED BY <1>1, <1>2, <1>6

(* Sizes from the end of the address space: not wrapped, and wrapped to 0. *)
LEMMA AlignedHigh ==
    ASSUME NEW n \in (HalfWord + 1) .. (Word - 1)
    PROVE  /\ n <= Word - alignment => align(n) \in Nat /\ n <= align(n)
           /\ n > Word - alignment => align(n) = 0
<1>0. n \in Nat /\ alignment \in Nat /\ alignment >= 1 /\ Word \in Nat /\ Word >= alignment /\ Word >= 1
  BY HeapIsBlock, Geometry
<1>1. PICK d \in Nat : /\ Rounded(n) = d * alignment /\ Rounded(n) \in Nat /\ n <= Rounded(n)
                       /\ \A j \in Nat : n <= j * alignment => Rounded(n) <= j * alignment
  BY <1>0, RoundedIs
<1>2. PICK w \in Nat : HalfWord = w * alignment
  BY HeapIsBlock, Multiples
<1>3. Word = (2 * w) * alignment
  BY <1>0, <1>2, Geometry
<1>4. Rounded(n) <= Word
  <2>1. n <= (2 * w) * alignment /\ 2 * w \in Nat
    BY <1>0, <1>3
  <2> QED BY <1>1, <1>3, <2>1
<1>5. align(n) = Rounded(n) % Word
  BY DEF align, Rounded
<1>6. ASSUME Rounded(n) # Word PROVE Rounded(n) <= Word - alignment
  <2>1. d < 2 * w
    <3> SUFFICES ASSUME 2 * w < d PROVE FALSE
      BY <1>1, <1>3, <1>6
    <3>1. (2 * w) * alignment + alignment <= d * alignment
      BY <1>0, Times
    <3> QED BY <1>0, <1>1, <1>3, <1>4, <3>1
  <2>2. d * alignment + alignment <= (2 * w) * alignment
    BY <1>0, <2>1, Times
  <2> QED BY <1>0, <1>1, <1>3, <2>2
<1>7. ASSUME n <= Word - alignment PROVE align(n) \in Nat /\ n <= align(n)
  <2>1. Rounded(n) <= Word - alignment
    <3>1. Word - alignment = (2 * w - 1) * alignment
      BY <1>0, <1>3
    <3>2. 2 * w - 1 \in Nat
      BY <1>0, <1>3
    <3> QED BY <1>1, <1>7, <3>1, <3>2
  <2>2. Rounded(n) % Word = Rounded(n)
    BY <1>0, <1>1, <2>1, Modulo
  <2> QED BY <1>1, <1>5, <2>2
<1>8. ASSUME n > Word - alignment PROVE align(n) = 0
  <2>1. Rounded(n) = Word
    BY <1>0, <1>1, <1>6, <1>8
  <2> QED BY <1>0, <1>5, <2>1, Modulo
<1> QED BY <1>7, <1>8

(* What the loop of size_required may hold, and one round of it. *)
Values == {0} \cup {p \in BlockSizes : p <= HalfWord}

Doubled(n, x) == IF align(n) > x THEN (2 * x) % Word ELSE x

LEMMA DoubledIs ==
    ASSUME NEW n, NEW x \in Values
    PROVE  /\ Doubled(n, x) \in Values
           /\ align(n) > x => Doubled(n, x) = IF x = HalfWord THEN 0 ELSE 2 * x
<1>0. HalfWord \in Nat /\ HalfWord >= 1 /\ Word \in Nat /\ Word = 2 * HalfWord /\ HalfWord \in BlockSizes
  BY HeapIsBlock, Geometry
<1>1. x \in Nat
  BY Halving DEF Values
<1>2. (2 * x) % Word = IF x = HalfWord THEN 0 ELSE 2 * x
  <2>1. CASE x = HalfWord
    BY <1>0, <2>1, Modulo
  <2>2. CASE x # HalfWord
    <3>1. 2 * x < Word /\ 2 * x \in Nat
      BY <1>0, <1>1, <2>2 DEF Values
    <3> QED BY <1>0, <2>2, <3>1, Modulo
  <2> QED BY <2>1, <2>2
<1>3. (2 * x) % Word \in Values
  <2>1. CASE x = 0 \/ x = HalfWord
    BY <1>0, <1>2, <2>1 DEF Values
  <2>2. CASE x # 0 /\ x # HalfWord
    <3>1. x \in BlockSizes /\ x < HalfWord
      BY <1>0, <1>1, <2>2 DEF Values
    <3>2. 2 * x \in BlockSizes /\ 2 * x <= HalfWord
      BY <1>0, <3>1, Doubling, Gap
    <3> QED BY <1>2, <2>2, <3>2 DEF Values
  <2> QED BY <2>1, <2>2
<1> QED BY <1>2, <1>3 DEF Doubled

LEMMA SizeLoop ==
    ASSUME NEW n \in 0 .. (Word - 1)
    PROVE  \E g \in [0 .. n -> Values] :
               /\ g[0] = alignment /\ g[n] = size_required(n)
               /\ \A k \in Nat : k < n => g[k + 1] = Doubled(n, g[k])
<1>0. n \in Nat /\ alignment \in Values
  BY Geometry, Doubling, HeapIsBlock DEF Values
<1> DEFINE F == [x \in Values |-> Doubled(n, x)]
<1>1. F \in [Values -> Values]
  BY DoubledIs
<1>2. PICK g \in [0 .. n -> Values] : Rounds(g, F, alignment, n)
  <2> HIDE DEF F
  <2> QED BY <1>0, <1>1, LoopExists
<1> DEFINE W(f) == f = [k \in 0 .. n |-> IF k = 0 THEN alignment
                                         ELSE IF align(n) > f[k - 1] THEN (2 * f[k - 1]) % Word ELSE f[k - 1]]
<1>3. W(g)
  <2>1. \A k \in 0 .. n : k # 0 => F[g[k - 1]] = Doubled(n, g[k - 1])
    OBVIOUS
  <2> QED BY <1>2, <2>1 DEF Rounds, Doubled
<1>4. size_required(n) = (CHOOSE f : W(f))[n]
  BY DEF size_required, SizeRequired, Looped
<1>5. PICK f : f = (CHOOSE e : W(e)) /\ W(f)
  BY <1>3
<1> HIDE DEF F
<1>6. f[0] = alignment /\ \A k \in Nat : k < n => f[k + 1] = Doubled(n, f[k])
  <2>1. \A k \in 0 .. n : f[k] = IF k = 0 THEN alignment ELSE Doubled(n, f[k - 1])
    BY <1>5 DEF Doubled
  <2> HIDE DEF W
  <2>2. f[0] = alignment
    BY <2>1, <1>0
  <2>3. ASSUME NEW k \in Nat, k < n PROVE f[k + 1] = Doubled(n, f[k])
    <3>1. k + 1 \in 0 .. n /\ k + 1 # 0 /\ (k + 1) - 1 = k
      BY <1>0, <2>3
    <3>2. f[k + 1] = Doubled(n, f[(k + 1) - 1])
      BY <2>1, <3>1
    <3> QED BY <3>1, <3>2
  <2> QED BY <2>2, <2>3
<1>7. ASSUME NEW k \in 0 .. n PROVE f[k] \in Values
  <2> DEFINE T == {j \in Nat : j <= n => f[j] \in Values}
  <2>1. 0 \in T
    BY <1>0, <1>6
  <2>2. ASSUME NEW j \in Nat, j \in T PROVE j + 1 \in T
    <3>1. ASSUME j + 1 <= n PROVE f[j + 1] \in Values
      BY <1>0, <1>6, <2>2, <3>1, DoubledIs
    <3> QED BY <3>1
  <2> HIDE DEF T
  <2>3. k \in T
    BY <2>1, <2>2, Induct
  <2> QED BY <2>3, <1>0 DEF T
<1>8. f \in [0 .. n -> Values]
  <2>1. f = [k \in 0 .. n |-> f[k]]
    BY <1>5
  <2> HIDE DEF W
  <2> QED BY <2>1, <1>7
<1> HIDE DEF W
<1> QED BY <1>4, <1>5, <1>6, <1>8

(* For at most half of the address space: the smallest block that is enough. *)
LEMMA SizeRequiredIs ==
    ASSUME NEW n \in 0 .. HalfWord
    PROVE  /\ size_required(n) \in BlockSizes /\ n <= size_required(n)
           /\ align(n) <= size_required(n)
           /\ \A q \in BlockSizes : n <= q => size_required(n) <= q
<1>0. n \in Nat /\ align(n) \in Nat /\ n <= align(n) /\ align(n) < n + alignment
      /\ alignment \in Nat /\ alignment >= 1 /\ HalfWord \in Nat /\ align(n) <= HalfWord
  BY Geometry, Aligned, HeapIsBlock
<1>1. PICK g \in [0 .. n -> Values] :
               /\ g[0] = alignment /\ g[n] = size_required(n)
               /\ \A k \in Nat : k < n => g[k + 1] = Doubled(n, g[k])
  <2>1. n \in 0 .. (Word - 1)
    BY Geometry, HeapIsBlock
  <2> QED BY <2>1, SizeLoop
<1> DEFINE Fine(x, k) == /\ x # 0
                         /\ x >= align(n) \/ x >= alignment + k
                         /\ x = alignment \/ \E r \in BlockSizes : x = 2 * r /\ r < align(n)
           K == {k \in 0 .. n : Fine(g[k], k)}
<1>2. 0 \in K
  BY <1>0, <1>1
<1>3. ASSUME NEW k \in Nat, k < n, k \in K PROVE k + 1 \in K
  <2>1. g[k] \in Values /\ g[k] \in BlockSizes /\ g[k] \in Nat /\ g[k] >= alignment
    <3>1. g[k] \in Values /\ g[k] # 0
      BY <1>0, <1>3
    <3> QED BY <3>1, Halving DEF Values
  <2>2. g[k + 1] = Doubled(n, g[k]) /\ Fine(g[k], k) /\ k + 1 \in 0 .. n
    BY <1>0, <1>1, <1>3
  <2>3. CASE align(n) > g[k]
    <3>0. g[k] # HalfWord
      BY <1>0, <2>1, <2>3
    <3>1. g[k + 1] = 2 * g[k]
      BY <2>1, <2>2, <2>3, <3>0, DoubledIs
    <3>2. g[k] >= alignment + k
      BY <1>0, <2>1, <2>2, <2>3
    <3>3. g[k + 1] >= alignment + (k + 1) /\ g[k + 1] # 0
      BY <1>0, <2>1, <3>1, <3>2
    <3> QED BY <2>1, <2>2, <2>3, <3>1, <3>3
  <2>4. CASE ~ (align(n) > g[k])
    <3>1. g[k + 1] = g[k] /\ g[k] >= align(n)
      BY <1>0, <2>1, <2>2, <2>4 DEF Doubled
    <3> QED BY <2>2, <3>1
  <2> QED BY <2>3, <2>4
<1>4. Fine(g[n], n)
  <2> HIDE DEF K
  <2>1. n \in K
    BY <1>0, <1>2, <1>3, InductTo
  <2> QED BY <2>1 DEF K
<1> HIDE DEF K
<1> DEFINE x == g[n]
<1>5. x = size_required(n) /\ x \in BlockSizes /\ x \in Nat
  <2>1. x \in Values /\ x # 0
    BY <1>0, <1>4
  <2> QED BY <2>1, <1>1, Halving DEF Values
<1>6. x >= align(n)
  BY <1>0, <1>4, <1>5
<1>7. ASSUME NEW q \in BlockSizes, n <= q PROVE x <= q
  <2>0. q \in Nat /\ q >= alignment /\ align(n) <= q
    BY <1>0, <1>7, Halving, Aligned
  <2>1. CASE x = alignment
    BY <2>0, <2>1
  <2>2. CASE \E r \in BlockSizes : x = 2 * r /\ r < align(n)
    <3>1. PICK r \in BlockSizes : x = 2 * r /\ r < align(n)
      BY <2>2
    <3>2. r \in Nat /\ r < q
      BY <3>1, <2>0, <1>0, Halving
    <3>3. 2 * r <= q
      BY <3>2, Gap
    <3> QED BY <3>1, <3>3
  <2> QED BY <1>4, <2>1, <2>2
<1> HIDE DEF x
<1>8. n <= x
  BY <1>0, <1>5, <1>6
<1> QED BY <1>5, <1>6, <1>7, <1>8

(* For more: the doubling comes to 0, unless the size is rounded to 0. *)
LEMMA SizeRequiredHigh ==
    ASSUME NEW n \in (HalfWord + 1) .. (Word - 1)
    PROVE  size_required(n) = IF n <= Word - alignment THEN 0 ELSE alignment
<1>0. n \in Nat /\ n > HalfWord /\ n \in 0 .. (Word - 1) /\ HalfWord \in Nat
      /\ alignment \in Nat /\ alignment >= 1 /\ Word \in Nat
  BY Geometry
<1>1. PICK g \in [0 .. n -> Values] :
               /\ g[0] = alignment /\ g[n] = size_required(n)
               /\ \A k \in Nat : k < n => g[k + 1] = Doubled(n, g[k])
  BY <1>0, SizeLoop
<1>2. \A x \in Values : x \in Nat /\ x <= HalfWord
  BY <1>0, Halving DEF Values
<1>3. CASE n <= Word - alignment
  <2>0. align(n) \in Nat /\ align(n) > HalfWord
    BY <1>0, <1>3, AlignedHigh
  <2> DEFINE K == {k \in 0 .. n : g[k] = 0 \/ g[k] >= alignment + k}
  <2>1. 0 \in K
    BY <1>0, <1>1
  <2>2. ASSUME NEW k \in Nat, k < n, k \in K PROVE k + 1 \in K
    <3>1. g[k] \in Values /\ g[k] \in Nat /\ g[k] <= HalfWord /\ g[k + 1] = Doubled(n, g[k]) /\ k + 1 \in 0 .. n
      BY <1>0, <1>1, <1>2, <2>2
    <3>2. g[k + 1] = IF g[k] = HalfWord THEN 0 ELSE 2 * g[k]
      BY <1>0, <2>0, <3>1, DoubledIs
    <3>3. g[k + 1] = 0 \/ g[k + 1] >= alignment + (k + 1)
      BY <1>0, <2>2, <3>1, <3>2
    <3> QED BY <3>1, <3>3
  <2>3. n \in K
    <3> HIDE DEF K
    <3> QED BY <1>0, <2>1, <2>2, InductTo
  <2>4. g[n] \in Nat /\ g[n] <= HalfWord
    BY <1>0, <1>2
  <2> QED BY <1>0, <1>1, <1>3, <2>3, <2>4
<1>4. CASE n > Word - alignment
  <2>0. align(n) = 0
    BY <1>4, AlignedHigh
  <2> DEFINE K == {k \in 0 .. n : g[k] = alignment}
  <2>1. 0 \in K
    BY <1>0, <1>1
  <2>2. ASSUME NEW k \in Nat, k < n, k \in K PROVE k + 1 \in K
    <3>1. g[k + 1] = Doubled(n, alignment) /\ k + 1 \in 0 .. n
      BY <1>0, <1>1, <2>2
    <3>2. ~ (align(n) > alignment)
      BY <1>0, <2>0
    <3> QED BY <3>1, <3>2 DEF Doubled
  <2>3. n \in K
    <3> HIDE DEF K
    <3> QED BY <1>0, <2>1, <2>2, InductTo
  <2> QED BY <1>0, <1>1, <1>4, <2>3
<1> QED BY <1>0, <1>3, <1>4

(* Which sizes it spins on, and what it comes to otherwise. *)
LEMMA SpinsWhen ==
    ASSUME NEW n \in 0 .. (Word - 1)
    PROVE  /\ Spins(n) <=> n \in (HalfWord + 1) .. (Word - alignment)
           /\ ~ Spins(n) => /\ size_required(n) \in BlockSizes /\ size_required(n) \in Nat
                            /\ size_required(n) <= HalfWord
<1>0. n \in Nat /\ HalfWord \in Nat /\ alignment \in Nat /\ alignment >= 1 /\ Word \in Nat
      /\ HalfWord \in BlockSizes /\ HalfWord >= alignment
  BY Geometry, HeapIsBlock
<1>1. CASE n <= HalfWord
  <2>1. n \in 0 .. HalfWord
    BY <1>0, <1>1
  <2>2. size_required(n) \in BlockSizes /\ align(n) <= size_required(n) /\ size_required(n) <= HalfWord
        /\ align(n) \in Nat
    BY <1>0, <1>1, <2>1, SizeRequiredIs, Aligned
  <2>3. size_required(n) \in Nat
    BY <2>2, Halving
  <2> QED BY <1>0, <1>1, <2>2, <2>3 DEF Spins
<1>2. CASE n > HalfWord /\ n <= Word - alignment
  <2>1. n \in (HalfWord + 1) .. (Word - 1)
    BY <1>0, <1>2
  <2>2. size_required(n) = 0 /\ align(n) \in Nat /\ n <= align(n)
    BY <1>2, <2>1, SizeRequiredHigh, AlignedHigh
  <2> QED BY <1>0, <1>2, <2>2 DEF Spins
<1>3. CASE n > Word - alignment /\ n > HalfWord
  <2>1. n \in (HalfWord + 1) .. (Word - 1) /\ ~ (n <= Word - alignment)
    BY <1>0, <1>3
  <2>2. size_required(n) = alignment /\ align(n) = 0
    BY <1>3, <2>1, SizeRequiredHigh, AlignedHigh
  <2> QED BY <1>0, <1>3, <2>2, Doubling DEF Spins
<1> QED BY <1>0, <1>1, <1>2, <1>3

(* The block of a block's size is that block. *)
LEMMA SizeOfBlock ==
    ASSUME NEW p \in BlockSizes, p <= HalfWord
    PROVE  size_required(p) = p
<1>1. p \in 0 .. HalfWord
  BY Halving, Geometry
<1>2. size_required(p) \in BlockSizes /\ p <= size_required(p) /\ size_required(p) <= p
  BY <1>1, Halving, SizeRequiredIs
<1>3. size_required(p) \in Nat /\ p \in Nat
  BY <1>2, Halving
<1> QED BY <1>2, <1>3

(* Twice as many bytes need twice the block, from the smallest block up. *)
LEMMA SizeOfTwice ==
    ASSUME NEW s \in Nat, s >= alignment, 2 * s <= HalfWord
    PROVE  size_required(2 * s) = 2 * size_required(s)
<1>0. s \in 0 .. HalfWord /\ 2 * s \in 0 .. HalfWord /\ alignment \in Nat /\ alignment >= 1
  BY Geometry
<1> DEFINE r == size_required(s)
           d == size_required(2 * s)
<1>1. r \in BlockSizes /\ s <= r /\ \A q \in BlockSizes : s <= q => r <= q
  BY <1>0, SizeRequiredIs
<1>2. d \in BlockSizes /\ 2 * s <= d /\ \A q \in BlockSizes : 2 * s <= q => d <= q
  BY <1>0, SizeRequiredIs
<1> HIDE DEF r, d
<1>3. r \in Nat /\ d \in Nat /\ 2 * r \in BlockSizes
  BY <1>1, <1>2, Halving, Doubling
<1>4. d <= 2 * r
  BY <1>0, <1>1, <1>2, <1>3
<1>5. PICK q \in BlockSizes : d = 2 * q
  BY <1>0, <1>2, <1>3, Halving
<1>6. q \in Nat /\ s <= q
  BY <1>2, <1>5, Halving
<1>7. r <= q
  BY <1>1, <1>6
<1>8. d = 2 * r
  BY <1>3, <1>4, <1>5, <1>6, <1>7
<1> QED BY <1>8 DEF r, d

-----------------------------------------------------------------------------
(* Addresses. *)

LEMMA NoRest ==
    ASSUME NEW i \in Nat, NEW d \in Nat, d >= 1
    PROVE  (i * d) % d = 0
<1> DEFINE m == i * d
           q == m \div d
           r == m % d
<1>0. m \in Nat
  OBVIOUS
<1>1. q \in Nat /\ r \in 0 .. (d - 1) /\ m = d * q + r
  <2> HIDE DEF m
  <2> QED BY <1>0, Divided
<1>2. m = i * d
  OBVIOUS
<1> HIDE DEF m, q, r
<1>3. d * q = q * d /\ q * d \in Nat
  BY <1>1
<1>4. ~ (i < q)
  <2>1. ASSUME i < q PROVE i * d + d <= q * d
    BY <1>1, <2>1, Times
  <2> QED BY <1>0, <1>1, <1>2, <1>3, <2>1
<1>5. ~ (q < i)
  <2>1. ASSUME q < i PROVE q * d + d <= i * d
    BY <1>1, <2>1, Times
  <2> QED BY <1>0, <1>1, <1>2, <1>3, <2>1
<1>6. i = q
  BY <1>1, <1>4, <1>5
<1>7. r = 0
  BY <1>0, <1>1, <1>2, <1>3, <1>6
<1> QED BY <1>7 DEF r, m

(* A block behind an aligned address ends at one. *)
LEMMA StillAligned ==
    ASSUME NEW a \in Nat, a % alignment = 0, NEW p \in BlockSizes
    PROVE  (a + p) % alignment = 0
<1>0. alignment \in Nat /\ alignment >= 1
  BY Geometry
<1>1. PICK i \in Nat : a = i * alignment
  <2>1. a \div alignment \in Nat /\ a = alignment * (a \div alignment) + (a % alignment)
    BY <1>0, Divided
  <2> DEFINE q == a \div alignment
  <2>2. q \in Nat /\ a = alignment * q + 0
    BY <2>1
  <2> HIDE DEF q
  <2>3. a = q * alignment
    BY <1>0, <2>2
  <2> QED BY <2>2, <2>3
<1>2. PICK j \in Nat : p = j * alignment
  BY Multiples
<1>3. a + p = (i + j) * alignment
  BY <1>0, <1>1, <1>2
<1>4. ((i + j) * alignment) % alignment = 0
  BY <1>0, NoRest
<1> QED BY <1>3, <1>4

-----------------------------------------------------------------------------
(* B are the blocks that the headers h tell of: they start at the head, each   *)
(* ends where another starts or at the tail, and none reaches into another.    *)

Headers == [Addresses -> [size : 0 .. HeapSize, is_free : BOOLEAN]]

Row(h, B) ==
    /\ B \subseteq Addresses /\ head \in B
    /\ \A b \in B : h[b].size >= alignment /\ NextOf(h, b) \in B \cup {tail}
    /\ \A b, c \in B : b < c => NextOf(h, b) <= c

Used(h, B) == {b \in B : ~ h[b].is_free}

(* The blocks in use are U, and their headers say z. *)
Good(h, B, U, z) ==
    /\ h \in Headers /\ Row(h, B) /\ Used(h, B) = U
    /\ \A b \in U : h[b].size = z[b]

(* What writing to a header does. *)
AHeader == [size : 0 .. HeapSize, is_free : BOOLEAN]

WithSize(h, a, s) == [h EXCEPT ![a].size = s]
WithHeader(h, a, r) == [h EXCEPT ![a] = r]

LEMMA SetHeader ==
    ASSUME NEW h \in Headers, NEW a \in Addresses, NEW r \in AHeader
    PROVE  /\ WithHeader(h, a, r) \in Headers /\ WithHeader(h, a, r)[a] = r
           /\ \A c \in Addresses : c # a => WithHeader(h, a, r)[c] = h[c]
<1>1. h \in [Addresses -> AHeader]
  BY DEF Headers, AHeader
<1>2. [h EXCEPT ![a] = r] \in [Addresses -> AHeader] /\ [h EXCEPT ![a] = r][a] = r
      /\ \A c \in Addresses : c # a => [h EXCEPT ![a] = r][c] = h[c]
  BY <1>1
<1>3. [h EXCEPT ![a] = r] \in Headers
  BY <1>2 DEF Headers, AHeader
<1> QED BY <1>2, <1>3 DEF WithHeader

LEMMA SetSize ==
    ASSUME NEW h \in Headers, NEW a \in Addresses, NEW s \in 0 .. HeapSize
    PROVE  /\ WithSize(h, a, s) \in Headers
           /\ WithSize(h, a, s)[a].size = s /\ WithSize(h, a, s)[a].is_free = h[a].is_free
           /\ \A c \in Addresses : c # a => WithSize(h, a, s)[c] = h[c]
<1> DEFINE r == [h[a] EXCEPT !.size = s]
<1>1. h \in [Addresses -> AHeader]
  BY DEF Headers, AHeader
<1>2. h[a] \in AHeader
  BY <1>1
<1>3. r \in AHeader /\ r.size = s /\ r.is_free = h[a].is_free
  BY <1>2 DEF AHeader
<1>4. WithSize(h, a, s) = WithHeader(h, a, r)
  BY <1>1 DEF WithSize, WithHeader
<1> HIDE DEF r
<1> QED BY <1>3, <1>4, SetHeader

LEMMA AddressIs ==
    ASSUME NEW a \in Addresses
    PROVE  a \in Nat /\ a < tail /\ a % alignment = 0
BY Geometry DEF Addresses, tail

LEMMA HeaderIs ==
    ASSUME NEW h \in Headers, NEW a \in Addresses
    PROVE  /\ h[a].size \in Nat /\ h[a].size <= HeapSize /\ h[a].is_free \in BOOLEAN
           /\ h[a].size \in 0 .. HalfWord /\ 2 * h[a].size <= HalfWord
<1>1. h[a] \in [size : 0 .. HeapSize, is_free : BOOLEAN]
  BY DEF Headers
<1>2. h[a].size \in 0 .. HeapSize /\ h[a].is_free \in BOOLEAN
  BY <1>1
<1> QED BY <1>2, Geometry

LEMMA BlockIs ==
    ASSUME NEW h \in Headers, NEW B, Row(h, B), NEW b \in B
    PROVE  /\ b \in Addresses /\ b \in Nat /\ b < tail
           /\ h[b].size >= alignment
           /\ size_required(h[b].size) \in BlockSizes /\ size_required(h[b].size) \in Nat
           /\ size_required(h[b].size) >= h[b].size
           /\ NextOf(h, b) \in Nat /\ b < NextOf(h, b) /\ NextOf(h, b) <= tail
           /\ NextOf(h, b) \in B \cup {tail}
           /\ NextOf(h, b) = b + size_required(h[b].size)
<1>1. b \in Addresses /\ b \in Nat /\ b < tail /\ tail \in Nat
  BY AddressIs, Geometry DEF Row, tail
<1>2. h[b].size >= alignment /\ NextOf(h, b) \in B \cup {tail}
  BY DEF Row
<1>3. h[b].size \in Nat /\ h[b].size \in 0 .. HalfWord
  BY <1>1, HeaderIs
<1>4. size_required(h[b].size) \in BlockSizes /\ h[b].size <= size_required(h[b].size)
  BY <1>3, SizeRequiredIs
<1>5. size_required(h[b].size) \in Nat /\ size_required(h[b].size) >= 1
  BY <1>4, Halving, Geometry
<1>6. NextOf(h, b) = b + size_required(h[b].size)
  BY DEF NextOf
<1>7. NextOf(h, b) \in Nat /\ b < NextOf(h, b)
  BY <1>1, <1>5, <1>6
<1>8. NextOf(h, b) <= tail
  <2>1. CASE NextOf(h, b) = tail
    BY <1>1, <2>1
  <2>2. CASE NextOf(h, b) \in B
    <3>1. NextOf(h, b) \in Addresses
      BY <2>2 DEF Row
    <3>2. NextOf(h, b) < tail
      BY <3>1, AddressIs
    <3> QED BY <3>2, <1>1, <1>7
  <2> QED BY <1>2, <2>1, <2>2
<1> QED BY <1>1, <1>2, <1>3, <1>4, <1>5, <1>6, <1>7, <1>8

(* Two blocks in a row do not overlap, and the order is that of the addresses. *)
LEMMA RowOrder ==
    ASSUME NEW h \in Headers, NEW B, Row(h, B), NEW b \in B, NEW c \in B
    PROVE  b < c <=> NextOf(h, b) <= c
<1>1. b \in Nat /\ c \in Nat /\ NextOf(h, b) \in Nat /\ b < NextOf(h, b)
  BY BlockIs
<1>2. b < c => NextOf(h, b) <= c
  BY DEF Row
<1> QED BY <1>1, <1>2

-----------------------------------------------------------------------------
(* Splitting, merging and giving away a block keep the row. *)

FreeHeader(s) == [size |-> s, is_free |-> TRUE]
Halved(h, b, half) == WithHeader(WithSize(h, b, half), b + half, FreeHeader(half))

LEMMA SplitRow ==
    ASSUME NEW h, NEW B, NEW U, NEW z, Good(h, B, U, z), NEW b \in B, h[b].is_free,
           NEW half \in BlockSizes, half >= alignment, size_required(h[b].size) = 2 * half,
           NEW e, e = Halved(h, b, half)
    PROVE  /\ Good(e, B \cup {b + half}, U, z)
           /\ e[b + half].is_free /\ size_required(e[b + half].size) = half
           /\ b + half \notin B
<1> DEFINE u == b + half
           n == NextOf(h, b)
           C == B \cup {u}
<1>0. h \in Headers /\ Row(h, B) /\ Used(h, B) = U /\ \A c \in U : h[c].size = z[c]
  BY DEF Good
<1>1. b \in Addresses /\ b \in Nat /\ n \in Nat /\ n <= tail /\ n \in B \cup {tail} /\ n = b + 2 * half
  BY <1>0, BlockIs
<1>2. half \in Nat /\ half >= 1 /\ half <= HeapSize /\ half <= HalfWord /\ tail \in Nat /\ tail = HeapSize
  <2>1. half \in Nat /\ half >= 1 /\ tail = HeapSize /\ HeapSize \in Nat /\ HalfWord \in Nat /\ 2 * HeapSize <= HalfWord
    BY Halving, Geometry DEF tail
  <2> HIDE DEF n
  <2> QED BY <2>1, <1>1
<1>3. u \in Nat /\ b < u /\ u < n /\ u + half = n
  <2> HIDE DEF n
  <2> QED BY <1>1, <1>2
<1>4. u \in Addresses
  <2>1. u % alignment = 0
    BY <1>1, AddressIs, StillAligned
  <2>2. u < HeapSize
    <3> HIDE DEF n, u
    <3> QED BY <1>1, <1>2, <1>3
  <2> HIDE DEF u
  <2> QED BY <2>1, <2>2, <1>3, <1>2 DEF Addresses
<1>5. \A c \in B : c \in Nat /\ c \in Addresses /\ NextOf(h, c) \in Nat /\ c < NextOf(h, c)
                   /\ NextOf(h, c) \in B \cup {tail} /\ h[c].size >= alignment
  BY <1>0, BlockIs
<1>6. \A c \in B : b < c => n <= c
  BY <1>0 DEF Row
<1>7. u \notin B
  <2> HIDE DEF u, n
  <2> QED BY <1>3, <1>6, <1>1
<1>8. u # b
  BY <1>7
<1>9. /\ e \in Headers
      /\ e[b].size = half /\ e[b].is_free = h[b].is_free
      /\ e[u].size = half /\ e[u].is_free
      /\ \A c \in Addresses : c # b /\ c # u => e[c] = h[c]
  <2> DEFINE l == WithSize(h, b, half)
             r == FreeHeader(half)
  <2>1. e = WithHeader(l, u, r)
    BY DEF Halved
  <2>2. half \in 0 .. HeapSize
    BY <1>2
  <2>6. r \in AHeader /\ r.size = half /\ r.is_free
    BY <2>2 DEF AHeader, FreeHeader
  <2> HIDE DEF r
  <2>3. l \in Headers /\ l[b].size = half /\ l[b].is_free = h[b].is_free
        /\ \A c \in Addresses : c # b => l[c] = h[c]
    BY <1>0, <1>1, <2>2, SetSize
  <2> HIDE DEF u, l, r
  <2>4. e \in Headers /\ e[u] = r
        /\ \A c \in Addresses : c # u => e[c] = l[c]
    BY <2>1, <2>3, <2>6, <1>4, SetHeader
  <2>5. e[b] = l[b]
    BY <2>4, <1>1, <1>8
  <2> QED BY <2>3, <2>4, <2>5, <2>6
<1>10. size_required(half) = half
  BY <1>2, SizeOfBlock
<1>11. e[u].size = half /\ e[u].is_free
  <2> HIDE DEF u
  <2> QED BY <1>9
<1>12. NextOf(e, b) = u /\ NextOf(e, u) = n
  <2>1. NextOf(e, b) = b + half
    BY <1>9, <1>10 DEF NextOf
  <2>2. NextOf(e, u) = u + half
    <3> HIDE DEF u
    <3> QED BY <1>11, <1>10 DEF NextOf
  <2> QED BY <2>1, <2>2, <1>3
<1>13. \A c \in B : c # b => e[c] = h[c] /\ NextOf(e, c) = NextOf(h, c)
  <2> HIDE DEF u
  <2> QED BY <1>5, <1>7, <1>9 DEF NextOf
<1> HIDE DEF u, n
<1>14. Row(e, C)
  <2>1. C \subseteq Addresses /\ head \in C
    BY <1>0, <1>4 DEF Row
  <2>2. ASSUME NEW c \in C PROVE e[c].size >= alignment /\ NextOf(e, c) \in C \cup {tail}
    <3>1. CASE c = b
      BY <3>1, <1>9, <1>12
    <3>2. CASE c = u
      BY <3>2, <1>11, <1>12, <1>1
    <3>3. CASE c # b /\ c # u
      BY <3>3, <1>13, <1>5
    <3> QED BY <3>1, <3>2, <3>3
  <2>3. ASSUME NEW c \in C, NEW d \in C, c < d PROVE NextOf(e, c) <= d
    <3>0. c \in Nat /\ d \in Nat
      BY <1>3, <1>5
    <3>1. CASE c = b /\ d = u
      BY <3>1, <1>12, <1>3
    <3>2. CASE c = b /\ d # u
      <4>1. n <= d
        BY <3>2, <2>3, <1>6
      <4> QED BY <3>2, <4>1, <1>12, <1>3, <1>1, <3>0
    <3>3. CASE c = u
      <4>1. d \in B /\ b < d
        BY <3>3, <2>3, <1>1, <1>3, <3>0
      <4>2. n <= d
        BY <4>1, <1>6
      <4> QED BY <4>2, <3>3, <1>12
    <3>4. CASE c # b /\ c # u /\ d = u
      <4>1. c \in B /\ NextOf(e, c) = NextOf(h, c)
        BY <3>4, <1>13
      <4>2. ~ (b < c)
        BY <4>1, <1>6, <3>4, <2>3, <1>3, <1>1, <3>0
      <4>3. c < b
        BY <4>2, <3>4, <1>1, <3>0
      <4>4. NextOf(h, c) <= b /\ NextOf(h, c) \in Nat
        BY <4>1, <4>3, <1>0, <1>5 DEF Row
      <4> QED BY <4>1, <4>4, <3>4, <1>3, <1>1
    <3>5. CASE c # b /\ c # u /\ d # u
      BY <3>5, <2>3, <1>13, <1>0 DEF Row
    <3> QED BY <3>1, <3>2, <3>3, <3>4, <3>5
  <2> QED BY <2>1, <2>2, <2>3 DEF Row
<1>15. Used(e, C) = U /\ \A c \in U : e[c].size = z[c]
  <2>1. \A c \in U : c \in B /\ c # b
    BY <1>0 DEF Used
  <2>2. Used(e, C) = Used(h, B)
    <3>1. \A c \in C : ~ e[c].is_free <=> (c \in B /\ ~ h[c].is_free)
      BY <1>7, <1>9, <1>11, <1>13
    <3> QED BY <3>1 DEF Used
  <2> QED BY <2>1, <2>2, <1>0, <1>13
<1>16. size_required(e[u].size) = half
  BY <1>10, <1>11
<1> QED BY <1>7, <1>9, <1>11, <1>14, <1>15, <1>16 DEF Good, u

LEMMA MergeRow ==
    ASSUME NEW h, NEW B, NEW U, NEW z, Good(h, B, U, z), NEW b \in B, NextOf(h, b) \in B,
           Mergeable(h, b, NextOf(h, b))
    PROVE  /\ Good(Merge(h, b), B \ {NextOf(h, b)}, U, z)
           /\ Merge(h, b)[b].is_free /\ Merge(h, b)[b].size = 2 * h[b].size
           /\ NextOf(Merge(h, b), b) = NextOf(h, NextOf(h, b))
           /\ \A c \in B : c # b /\ c # NextOf(h, b) => Merge(h, b)[c] = h[c]
<1> DEFINE u == NextOf(h, b)
           n == NextOf(h, u)
           C == B \ {u}
           s == h[b].size
           e == Merge(h, b)
<1>0. h \in Headers /\ Row(h, B) /\ Used(h, B) = U /\ (\A c \in U : h[c].size = z[c]) /\ u \in B
  BY DEF Good
<1>1. \A c \in B : c \in Nat /\ c \in Addresses /\ NextOf(h, c) \in Nat /\ c < NextOf(h, c) /\ NextOf(h, c) <= tail
                   /\ NextOf(h, c) \in B \cup {tail} /\ h[c].size >= alignment
                   /\ NextOf(h, c) = c + size_required(h[c].size)
  BY <1>0, BlockIs
<1>2. h[b].is_free /\ h[u].is_free /\ s = h[u].size
  BY DEF Mergeable
<1>3. s \in Nat /\ s >= alignment /\ 2 * s <= HalfWord /\ alignment \in Nat /\ HeapSize \in Nat /\ tail = HeapSize
  BY <1>0, <1>1, HeaderIs, Geometry DEF tail
<1>4. size_required(2 * s) = 2 * size_required(s)
  BY <1>3, SizeOfTwice
<1>5. u = b + size_required(s) /\ n = u + size_required(s) /\ size_required(s) \in Nat /\ s <= size_required(s)
      /\ n \in Nat /\ n <= tail /\ u \in Nat /\ b \in Nat /\ b < u /\ u < n
  <2>1. u = b + size_required(s)
    BY <1>1
  <2>2. n = u + size_required(s)
    BY <1>0, <1>1, <1>2
  <2>3. size_required(s) \in Nat /\ s <= size_required(s)
    BY <1>0, BlockIs
  <2>4. n \in Nat /\ n <= tail /\ u \in Nat /\ b \in Nat /\ b < u /\ u < n
    BY <1>0, <1>1
  <2> QED BY <2>1, <2>2, <2>3, <2>4
<1>6. n = b + size_required(2 * s) /\ 2 * s \in 0 .. HeapSize
  <2> HIDE DEF u, n, s
  <2> QED BY <1>3, <1>4, <1>5
<1>7. u \in Addresses /\ b \in Addresses /\ u # b
  BY <1>0, <1>1, <1>5
<1>8. /\ e \in Headers /\ e[b].size = 2 * s /\ e[b].is_free = h[b].is_free
      /\ \A c \in Addresses : c # b /\ c # u => e[c] = h[c]
  <2> DEFINE l == WithSize(h, b, 2 * s)
  <2>1. e = WithHeader(l, u, NoHeader)
    <3>1. h \in [Addresses -> [size : 0 .. HeapSize, is_free : BOOLEAN]]
      BY <1>0 DEF Headers
    <3> QED BY <3>1, <1>7 DEF Merge, WithHeader, WithSize
  <2> DEFINE v == 2 * s
  <2>2. v \in 0 .. HeapSize
    BY <1>6
  <2>3. l = WithSize(h, b, v)
    OBVIOUS
  <2> HIDE DEF u, l, e, v
  <2>4. l \in Headers /\ l[b].size = v /\ l[b].is_free = h[b].is_free
        /\ \A c \in Addresses : c # b => l[c] = h[c]
    BY <1>0, <2>2, <2>3, <1>7, SetSize
  <2>5. NoHeader \in AHeader
    BY <1>3 DEF NoHeader, AHeader
  <2>6. e \in Headers /\ \A c \in Addresses : c # u => e[c] = l[c]
    BY <2>1, <2>4, <2>5, <1>7, SetHeader
  <2>7. e[b] = l[b]
    BY <2>6, <1>7
  <2> QED BY <2>4, <2>6, <2>7 DEF v
<1> HIDE DEF e, s
<1>9. e[b].size = 2 * s /\ e[b].is_free /\ NextOf(e, b) = n
  BY <1>8, <1>2, <1>6 DEF NextOf
<1>10. \A c \in B : c # b /\ c # u => e[c] = h[c] /\ NextOf(e, c) = NextOf(h, c)
  BY <1>1, <1>8 DEF NextOf
<1>11. /\ \A c \in B : b < c => u <= c
       /\ \A c \in B : u < c => n <= c
       /\ \A c, d \in B : c < d => NextOf(h, c) <= d
       /\ n \in B \cup {tail} /\ n # u
  BY <1>0, <1>1, <1>5 DEF Row
<1> HIDE DEF u, n
<1>12. Row(e, C)
  <2>1. C \subseteq Addresses /\ head \in C
    <3>1. B \subseteq Addresses /\ 0 \in B
      BY <1>0 DEF Row, head
    <3>2. u # 0
      BY <1>5
    <3> QED BY <3>1, <3>2 DEF head
  <2>2. ASSUME NEW c \in C PROVE e[c].size >= alignment /\ NextOf(e, c) \in C \cup {tail}
    <3>1. CASE c = b
      BY <3>1, <1>3, <1>9, <1>11
    <3>2. CASE c # b
      <4>1. c \in B /\ c # u /\ NextOf(e, c) = NextOf(h, c) /\ e[c] = h[c]
        BY <3>2, <1>10
      <4>2. CASE c < b
        <5>1. NextOf(h, c) <= b /\ NextOf(h, c) \in Nat
          BY <4>1, <4>2, <1>11, <1>1
        <5>2. NextOf(h, c) # u
          BY <5>1, <1>5
        <5> QED BY <4>1, <5>2, <1>1
      <4>3. CASE b < c
        <5>1. u <= c /\ c < NextOf(h, c) /\ c \in Nat /\ NextOf(h, c) \in Nat
          BY <4>1, <4>3, <1>11, <1>1
        <5>2. NextOf(h, c) # u
          BY <5>1, <1>5
        <5> QED BY <4>1, <5>2, <1>1
      <4> QED BY <4>1, <4>2, <4>3, <3>2, <1>1, <1>5
    <3> QED BY <3>1, <3>2
  <2>3. ASSUME NEW c \in C, NEW d \in C, c < d PROVE NextOf(e, c) <= d
    <3>0. c \in B /\ d \in B /\ c # u /\ d # u /\ c \in Nat /\ d \in Nat
      BY <1>1
    <3>1. CASE c = b
      <4>1. u <= d /\ u \in Nat
        BY <3>0, <3>1, <2>3, <1>11, <1>5
      <4>2. u < d
        BY <3>0, <4>1
      <4> QED BY <3>0, <3>1, <4>2, <1>9, <1>11
    <3>2. CASE c # b
      BY <3>0, <3>2, <2>3, <1>10, <1>11
    <3> QED BY <3>1, <3>2
  <2> QED BY <2>1, <2>2, <2>3 DEF Row
<1>13. Used(e, C) = U /\ \A c \in U : e[c].size = z[c]
  <2>1. \A c \in U : c \in B /\ c # b /\ c # u
    BY <1>0, <1>2 DEF Used
  <2>2. Used(e, C) = Used(h, B)
    <3>1. \A c \in B : c # u => (~ e[c].is_free <=> ~ h[c].is_free)
      BY <1>2, <1>9, <1>10
    <3> QED BY <3>1, <1>2 DEF Used
  <2> QED BY <2>1, <2>2, <1>0, <1>10
<1>14. Good(e, C, U, z)
  BY <1>8, <1>12, <1>13 DEF Good
<1> QED BY <1>9, <1>10, <1>14 DEF e, u, n, s

-----------------------------------------------------------------------------
(* The loops of the allocator: when a round keeps to the states S, the loop    *)
(* does, and its value is that of the last of its rounds.                      *)

LEMMA Stays ==
    ASSUME NEW n \in Nat, NEW f, NEW S, NEW F \in [S -> S], f[0] \in S,
           \A k \in Nat : k < n /\ f[k] \in S => f[k + 1] = F[f[k]]
    PROVE  \A k \in 0 .. n : f[k] \in S
<1> DEFINE T == {k \in Nat : k <= n => f[k] \in S}
<1>1. 0 \in T
  OBVIOUS
<1>2. ASSUME NEW k \in Nat, k \in T PROVE k + 1 \in T
  <2>1. ASSUME k + 1 <= n PROVE f[k + 1] \in S
    <3>1. k < n /\ f[k] \in S
      BY <1>2, <2>1
    <3> QED BY <3>1
  <2> QED BY <2>1
<1> HIDE DEF T
<1>3. Nat \subseteq T
  BY <1>1, <1>2, Induct
<1> QED BY <1>3 DEF T

(* A loop that moves on to a higher block in every round is over before its    *)
(* rounds are.                                                                 *)
LEMMA MovesOn ==
    ASSUME NEW f, \A k \in 0 .. HeapSize : f[k].block \in Nat,
           \A k \in Nat : k < HeapSize => IF InRange(f[k]) THEN f[k + 1].block > f[k].block
                                                         ELSE f[k + 1] = f[k]
    PROVE  ~ InRange(f[HeapSize])
<1>0. HeapSize \in Nat
  BY Geometry
<1> DEFINE K == {k \in 0 .. HeapSize : InRange(f[k]) => k <= f[k].block}
<1>1. 0 \in K
  BY <1>0
<1>2. ASSUME NEW k \in Nat, k < HeapSize, k \in K PROVE k + 1 \in K
  <2>1. k \in 0 .. HeapSize /\ k + 1 \in 0 .. HeapSize /\ f[k].block \in Nat /\ f[k + 1].block \in Nat
    BY <1>0, <1>2
  <2>2. CASE InRange(f[k])
    <3>1. k <= f[k].block /\ f[k + 1].block > f[k].block
      BY <1>2, <2>2
    <3> QED BY <2>1, <3>1
  <2>3. CASE ~ InRange(f[k])
    <3>1. f[k + 1] = f[k]
      BY <1>2, <2>3
    <3> QED BY <2>1, <2>3, <3>1
  <2> QED BY <2>2, <2>3
<1> HIDE DEF K
<1>3. HeapSize \in K
  BY <1>0, <1>1, <1>2, InductTo
<1>4. f[HeapSize].block \in Nat
  BY <1>0
<1> QED BY <1>0, <1>3, <1>4 DEF K, InRange, tail

(* split_until *)
LEMMA HalveLoop ==
    ASSUME NEW h, NEW b, NEW size, NEW S, [h |-> h, block |-> b, actual |-> size_required(h[b].size)] \in S, \A x \in S : HalveRound(x, size) \in S
    PROVE  \E f : /\ f[0] = [h |-> h, block |-> b, actual |-> size_required(h[b].size)]
                  /\ Halve(h, b, size) = f[HeapSize]
                  /\ \A k \in Nat : k < HeapSize => f[k + 1] = HalveRound(f[k], size)
                  /\ \A k \in 0 .. HeapSize : f[k] \in S
<1> DEFINE s == [h |-> h, block |-> b, actual |-> size_required(h[b].size)]
           F == [x \in S |-> HalveRound(x, size)]
           W(f) == f = [k \in 0 .. HeapSize |-> IF k = 0 THEN s ELSE HalveRound(f[k - 1], size)]
<1>0. HeapSize \in Nat
  BY Geometry
<1>1. F \in [S -> S] /\ s \in S
  OBVIOUS
<1>2. Halve(h, b, size) = (CHOOSE f : W(f))[HeapSize]
  BY DEF Halve, Looped
<1> HIDE DEF s
<1>3. PICK g \in [0 .. HeapSize -> S] : Rounds(g, F, s, HeapSize)
  <2> HIDE DEF F
  <2> QED BY <1>0, <1>1, LoopExists
<1>4. W(g)
  <2>1. \A k \in 0 .. HeapSize : k # 0 => F[g[k - 1]] = HalveRound(g[k - 1], size)
    BY <1>0
  <2> QED BY <1>3, <2>1 DEF Rounds
<1>5. PICK f : f = (CHOOSE e : W(e)) /\ W(f)
  BY <1>4
<1>6. \A k \in 0 .. HeapSize : f[k] = IF k = 0 THEN s ELSE HalveRound(f[k - 1], size)
  BY <1>5
<1> HIDE DEF W
<1>7. f[0] = s /\ \A k \in Nat : k < HeapSize => f[k + 1] = HalveRound(f[k], size)
  <2>1. ASSUME NEW k \in Nat, k < HeapSize PROVE f[k + 1] = HalveRound(f[k], size)
    <3>1. k + 1 \in 0 .. HeapSize /\ k + 1 # 0 /\ (k + 1) - 1 = k
      BY <1>0, <2>1
    <3>2. f[k + 1] = HalveRound(f[(k + 1) - 1], size)
      BY <1>6, <3>1
    <3> QED BY <3>1, <3>2
  <2> QED BY <2>1, <1>0, <1>6
<1>8. \A k \in Nat : k < HeapSize /\ f[k] \in S => f[k + 1] = F[f[k]]
  BY <1>7
<1> HIDE DEF F
<1>9. \A k \in 0 .. HeapSize : f[k] \in S
  BY <1>0, <1>1, <1>7, <1>8, Stays
<1> QED BY <1>2, <1>5, <1>7, <1>9 DEF s

(* find_best *)
LEMMA ScanLoop ==
    ASSUME NEW h, NEW size, NEW S, [h |-> h, block |-> head, buddy |-> NextOf(h, head), best |-> NULL] \in S, \A x \in S : ScanRound(x, size) \in S
    PROVE  \E f : /\ f[0] = [h |-> h, block |-> head, buddy |-> NextOf(h, head), best |-> NULL]
                  /\ Scan(h, size) = f[HeapSize]
                  /\ \A k \in Nat : k < HeapSize => f[k + 1] = ScanRound(f[k], size)
                  /\ \A k \in 0 .. HeapSize : f[k] \in S
<1> DEFINE s == [h |-> h, block |-> head, buddy |-> NextOf(h, head), best |-> NULL]
           F == [x \in S |-> ScanRound(x, size)]
           W(f) == f = [k \in 0 .. HeapSize |-> IF k = 0 THEN s ELSE ScanRound(f[k - 1], size)]
<1>0. HeapSize \in Nat
  BY Geometry
<1>1. F \in [S -> S] /\ s \in S
  OBVIOUS
<1>2. Scan(h, size) = (CHOOSE f : W(f))[HeapSize]
  BY DEF Scan, Looped
<1> HIDE DEF s
<1>3. PICK g \in [0 .. HeapSize -> S] : Rounds(g, F, s, HeapSize)
  <2> HIDE DEF F
  <2> QED BY <1>0, <1>1, LoopExists
<1>4. W(g)
  <2>1. \A k \in 0 .. HeapSize : k # 0 => F[g[k - 1]] = ScanRound(g[k - 1], size)
    BY <1>0
  <2> QED BY <1>3, <2>1 DEF Rounds
<1>5. PICK f : f = (CHOOSE e : W(e)) /\ W(f)
  BY <1>4
<1>6. \A k \in 0 .. HeapSize : f[k] = IF k = 0 THEN s ELSE ScanRound(f[k - 1], size)
  BY <1>5
<1> HIDE DEF W
<1>7. f[0] = s /\ \A k \in Nat : k < HeapSize => f[k + 1] = ScanRound(f[k], size)
  <2>1. ASSUME NEW k \in Nat, k < HeapSize PROVE f[k + 1] = ScanRound(f[k], size)
    <3>1. k + 1 \in 0 .. HeapSize /\ k + 1 # 0 /\ (k + 1) - 1 = k
      BY <1>0, <2>1
    <3>2. f[k + 1] = ScanRound(f[(k + 1) - 1], size)
      BY <1>6, <3>1
    <3> QED BY <3>1, <3>2
  <2> QED BY <2>1, <1>0, <1>6
<1>8. \A k \in Nat : k < HeapSize /\ f[k] \in S => f[k + 1] = F[f[k]]
  BY <1>7
<1> HIDE DEF F
<1>9. \A k \in 0 .. HeapSize : f[k] \in S
  BY <1>0, <1>1, <1>7, <1>8, Stays
<1> QED BY <1>2, <1>5, <1>7, <1>9 DEF s

(* A pass of coalescence *)
LEMMA PassLoop ==
    ASSUME NEW h, NEW S, [h |-> h, block |-> head, buddy |-> NextOf(h, head), again |-> FALSE] \in S, \A x \in S : PassRound(x) \in S
    PROVE  \E f : /\ f[0] = [h |-> h, block |-> head, buddy |-> NextOf(h, head), again |-> FALSE]
                  /\ Pass(h) = f[HeapSize]
                  /\ \A k \in Nat : k < HeapSize => f[k + 1] = PassRound(f[k])
                  /\ \A k \in 0 .. HeapSize : f[k] \in S
<1> DEFINE s == [h |-> h, block |-> head, buddy |-> NextOf(h, head), again |-> FALSE]
           F == [x \in S |-> PassRound(x)]
           W(f) == f = [k \in 0 .. HeapSize |-> IF k = 0 THEN s ELSE PassRound(f[k - 1])]
<1>0. HeapSize \in Nat
  BY Geometry
<1>1. F \in [S -> S] /\ s \in S
  OBVIOUS
<1>2. Pass(h) = (CHOOSE f : W(f))[HeapSize]
  BY DEF Pass, Looped
<1> HIDE DEF s
<1>3. PICK g \in [0 .. HeapSize -> S] : Rounds(g, F, s, HeapSize)
  <2> HIDE DEF F
  <2> QED BY <1>0, <1>1, LoopExists
<1>4. W(g)
  <2>1. \A k \in 0 .. HeapSize : k # 0 => F[g[k - 1]] = PassRound(g[k - 1])
    BY <1>0
  <2> QED BY <1>3, <2>1 DEF Rounds
<1>5. PICK f : f = (CHOOSE e : W(e)) /\ W(f)
  BY <1>4
<1>6. \A k \in 0 .. HeapSize : f[k] = IF k = 0 THEN s ELSE PassRound(f[k - 1])
  BY <1>5
<1> HIDE DEF W
<1>7. f[0] = s /\ \A k \in Nat : k < HeapSize => f[k + 1] = PassRound(f[k])
  <2>1. ASSUME NEW k \in Nat, k < HeapSize PROVE f[k + 1] = PassRound(f[k])
    <3>1. k + 1 \in 0 .. HeapSize /\ k + 1 # 0 /\ (k + 1) - 1 = k
      BY <1>0, <2>1
    <3>2. f[k + 1] = PassRound(f[(k + 1) - 1])
      BY <1>6, <3>1
    <3> QED BY <3>1, <3>2
  <2> QED BY <2>1, <1>0, <1>6
<1>8. \A k \in Nat : k < HeapSize /\ f[k] \in S => f[k + 1] = F[f[k]]
  BY <1>7
<1> HIDE DEF F
<1>9. \A k \in 0 .. HeapSize : f[k] \in S
  BY <1>0, <1>1, <1>7, <1>8, Stays
<1> QED BY <1>2, <1>5, <1>7, <1>9 DEF s

Again(s) == IF s.again THEN Pass(s.h) ELSE s

(* All passes *)
LEMMA PassesLoop ==
    ASSUME NEW h, NEW S, [h |-> h, again |-> TRUE] \in S, \A x \in S : Again(x) \in S
    PROVE  \E f : /\ f[0] = [h |-> h, again |-> TRUE]
                  /\ Passes(h) = f[HeapSize]
                  /\ \A k \in Nat : k < HeapSize => f[k + 1] = Again(f[k])
                  /\ \A k \in 0 .. HeapSize : f[k] \in S
<1> DEFINE s == [h |-> h, again |-> TRUE]
           F == [x \in S |-> Again(x)]
           W(f) == f = [k \in 0 .. HeapSize |-> IF k = 0 THEN s ELSE Again(f[k - 1])]
<1>0. HeapSize \in Nat
  BY Geometry
<1>1. F \in [S -> S] /\ s \in S
  OBVIOUS
<1>2. Passes(h) = (CHOOSE f : W(f))[HeapSize]
  BY DEF Passes, Looped, Again
<1> HIDE DEF s
<1>3. PICK g \in [0 .. HeapSize -> S] : Rounds(g, F, s, HeapSize)
  <2> HIDE DEF F
  <2> QED BY <1>0, <1>1, LoopExists
<1>4. W(g)
  <2>1. \A k \in 0 .. HeapSize : k # 0 => F[g[k - 1]] = Again(g[k - 1])
    BY <1>0
  <2> QED BY <1>3, <2>1 DEF Rounds
<1>5. PICK f : f = (CHOOSE e : W(e)) /\ W(f)
  BY <1>4
<1>6. \A k \in 0 .. HeapSize : f[k] = IF k = 0 THEN s ELSE Again(f[k - 1])
  BY <1>5
<1> HIDE DEF W
<1>7. f[0] = s /\ \A k \in Nat : k < HeapSize => f[k + 1] = Again(f[k])
  <2>1. ASSUME NEW k \in Nat, k < HeapSize PROVE f[k + 1] = Again(f[k])
    <3>1. k + 1 \in 0 .. HeapSize /\ k + 1 # 0 /\ (k + 1) - 1 = k
      BY <1>0, <2>1
    <3>2. f[k + 1] = Again(f[(k + 1) - 1])
      BY <1>6, <3>1
    <3> QED BY <3>1, <3>2
  <2> QED BY <2>1, <1>0, <1>6
<1>8. \A k \in Nat : k < HeapSize /\ f[k] \in S => f[k + 1] = F[f[k]]
  BY <1>7
<1> HIDE DEF F
<1>9. \A k \in 0 .. HeapSize : f[k] \in S
  BY <1>0, <1>1, <1>7, <1>8, Stays
<1> QED BY <1>2, <1>5, <1>7, <1>9 DEF s

OnWalk(w) == IF w.at < tail THEN [at |-> NextOf(hdr, w.at), met |-> w.met \cup {w.at}] ELSE w

(* The walk over the headers *)
LEMMA WalkLoop ==
    ASSUME NEW S, [at |-> head, met |-> {}] \in S, \A x \in S : OnWalk(x) \in S
    PROVE  \E f : /\ f[0] = [at |-> head, met |-> {}]
                  /\ Walk = f[HeapSize]
                  /\ \A k \in Nat : k < HeapSize => f[k + 1] = OnWalk(f[k])
                  /\ \A k \in 0 .. HeapSize : f[k] \in S
<1> DEFINE s == [at |-> head, met |-> {}]
           F == [x \in S |-> OnWalk(x)]
           W(f) == f = [k \in 0 .. HeapSize |-> IF k = 0 THEN s ELSE OnWalk(f[k - 1])]
<1>0. HeapSize \in Nat
  BY Geometry
<1>1. F \in [S -> S] /\ s \in S
  OBVIOUS
<1>2. Walk = (CHOOSE f : W(f))[HeapSize]
  BY DEF Walk, Looped, OnWalk
<1> HIDE DEF s
<1>3. PICK g \in [0 .. HeapSize -> S] : Rounds(g, F, s, HeapSize)
  <2> HIDE DEF F
  <2> QED BY <1>0, <1>1, LoopExists
<1>4. W(g)
  <2>1. \A k \in 0 .. HeapSize : k # 0 => F[g[k - 1]] = OnWalk(g[k - 1])
    BY <1>0
  <2> QED BY <1>3, <2>1 DEF Rounds
<1>5. PICK f : f = (CHOOSE e : W(e)) /\ W(f)
  BY <1>4
<1>6. \A k \in 0 .. HeapSize : f[k] = IF k = 0 THEN s ELSE OnWalk(f[k - 1])
  BY <1>5
<1> HIDE DEF W
<1>7. f[0] = s /\ \A k \in Nat : k < HeapSize => f[k + 1] = OnWalk(f[k])
  <2>1. ASSUME NEW k \in Nat, k < HeapSize PROVE f[k + 1] = OnWalk(f[k])
    <3>1. k + 1 \in 0 .. HeapSize /\ k + 1 # 0 /\ (k + 1) - 1 = k
      BY <1>0, <2>1
    <3>2. f[k + 1] = OnWalk(f[(k + 1) - 1])
      BY <1>6, <3>1
    <3> QED BY <3>1, <3>2
  <2> QED BY <2>1, <1>0, <1>6
<1>8. \A k \in Nat : k < HeapSize /\ f[k] \in S => f[k + 1] = F[f[k]]
  BY <1>7
<1> HIDE DEF F
<1>9. \A k \in 0 .. HeapSize : f[k] \in S
  BY <1>0, <1>1, <1>7, <1>8, Stays
<1> QED BY <1>2, <1>5, <1>7, <1>9 DEF s

-----------------------------------------------------------------------------
(* split_until: it ends at a free block of the size asked for, if the block it *)
(* was given is large enough.                                                  *)

Got(r, B, size, U, z) ==
    /\ Good(r.h, B, U, z)
    /\ r.found # NULL => /\ r.found \in B /\ r.h[r.found].is_free
                         /\ size_required(r.h[r.found].size) = size

Splitting(x, B, U, z) ==
    /\ Good(x.h, B, U, z) /\ x.block \in B /\ x.h[x.block].is_free
    /\ size_required(x.h[x.block].size) = x.actual

SplitStates(U, z) ==
    {x \in [h : Headers, block : Addresses, actual : BlockSizes] : \E B : Splitting(x, B, U, z)}

LEMMA HalvePart ==
    ASSUME NEW U, NEW z, NEW x \in SplitStates(U, z), NEW size \in BlockSizes,
           size < x.actual
    PROVE  /\ HalveRound(x, size) \in SplitStates(U, z)
           /\ HalveRound(x, size).actual < x.actual
<1> DEFINE h == x.h
           b == x.block
           half == x.actual \div 2
           e == Halved(h, b, half)
           y == [h |-> e, block |-> b + half, actual |-> half]
<1>1. PICK B : Splitting(x, B, U, z)
  BY DEF SplitStates
<1>2. x.actual \in BlockSizes /\ h \in Headers /\ b \in Addresses /\ b \in B /\ Good(h, B, U, z)
      /\ h[b].is_free /\ size_required(h[b].size) = x.actual
  BY <1>1 DEF SplitStates, Splitting
<1>3. PICK q \in BlockSizes : x.actual = 2 * q
  BY <1>2, Halving, Geometry
<1>4. size \in Nat /\ q \in Nat /\ alignment \in Nat /\ x.actual \in Nat
  BY <1>2, Halving, Geometry
<1>5. half = q
  BY <1>3, <1>4
<1>7. half \in BlockSizes /\ half >= alignment /\ half < x.actual /\ half \in Nat /\ 2 * half = x.actual
  <2>1. q >= alignment /\ alignment >= 1
    BY Halving, Geometry
  <2> QED BY <1>3, <1>4, <1>5, <2>1
<1> HIDE DEF half, h, b
<1>8. Good(e, B \cup {b + half}, U, z) /\ e[b + half].is_free /\ size_required(e[b + half].size) = half
  <2>1. e = Halved(h, b, half) /\ size_required(h[b].size) = 2 * half
    BY <1>2, <1>7
  <2> HIDE DEF e
  <2> QED BY <1>2, <1>7, <2>1, SplitRow
<1>9. e \in Headers /\ b + half \in Addresses
  BY <1>8 DEF Good, Row
<1>10. half <= HalfWord
  <2>1. NextOf(h, b) <= tail /\ NextOf(h, b) = b + x.actual /\ b \in Nat
    BY <1>2, BlockIs DEF Good
  <2> QED BY <2>1, <1>4, <1>7, Geometry DEF tail
<1>11. size_required(half) = half
  BY <1>7, <1>10, SizeOfBlock
<1>12. half \in 0 .. HeapSize
  <2>1. NextOf(h, b) <= tail /\ NextOf(h, b) = b + x.actual /\ b \in Nat
    BY <1>2, BlockIs DEF Good
  <2> QED BY <2>1, <1>4, <1>7, Geometry DEF tail
<1>13. NextOf(WithSize(h, b, half), b) = b + half
  <2>1. WithSize(h, b, half)[b].size = half
    BY <1>2, <1>12, SetSize
  <2> QED BY <2>1, <1>11 DEF NextOf
<1>14. HalveRound(x, size) = y
  BY <1>13 DEF HalveRound, Halved, WithSize, WithHeader, FreeHeader, h, b, half
<1> HIDE DEF e
<1>15. y \in [h : Headers, block : Addresses, actual : BlockSizes] /\ y.h = e /\ y.block = b + half /\ y.actual = half
  BY <1>9, <1>7
<1> HIDE DEF y
<1>16. Splitting(y, B \cup {b + half}, U, z)
  BY <1>8, <1>15 DEF Splitting
<1>17. y \in SplitStates(U, z)
  BY <1>15, <1>16 DEF SplitStates
<1> QED BY <1>7, <1>14, <1>15, <1>17

LEMMA HalveEnds ==
    ASSUME NEW h, NEW B, NEW U, NEW z, Good(h, B, U, z), NEW b \in B, h[b].is_free,
           NEW size \in BlockSizes
    PROVE  /\ Halve(h, b, size) \in SplitStates(U, z)
           /\ ~ (size < Halve(h, b, size).actual)
<1> DEFINE S == SplitStates(U, z)
           s == [h |-> h, block |-> b, actual |-> size_required(h[b].size)]
<1>1. h \in Headers /\ Row(h, B)
  BY DEF Good
<1>2. b \in Addresses /\ size_required(h[b].size) \in BlockSizes
  BY <1>1, BlockIs
<1>3. s \in S
  <2>1. s \in [h : Headers, block : Addresses, actual : BlockSizes]
    BY <1>1, <1>2
  <2>2. Splitting(s, B, U, z)
    BY DEF Splitting
  <2> QED BY <2>1, <2>2 DEF SplitStates
<1>4. \A x \in S : HalveRound(x, size) \in S
  <2>1. SUFFICES ASSUME NEW x \in S, ~ (size < x.actual) PROVE HalveRound(x, size) \in S
    BY HalvePart
  <2> QED BY <2>1 DEF HalveRound
<1>5. PICK f : /\ f[0] = s /\ Halve(h, b, size) = f[HeapSize]
               /\ \A k \in Nat : k < HeapSize => f[k + 1] = HalveRound(f[k], size)
               /\ \A k \in 0 .. HeapSize : f[k] \in S
  <2> HIDE DEF S
  <2> QED BY <1>3, <1>4, HalveLoop
<1> DEFINE K == {k \in 0 .. HeapSize : size < f[k].actual => f[k].actual + k <= HeapSize}
<1>6. HeapSize \in Nat /\ size \in Nat
  BY Geometry, Halving
<1>7. \A x \in S : x.actual \in Nat /\ x.actual >= alignment /\ x.actual <= HeapSize
  <2> SUFFICES ASSUME NEW x \in S PROVE x.actual \in Nat /\ x.actual >= alignment /\ x.actual <= HeapSize
    OBVIOUS
  <2>1. PICK D : Splitting(x, D, U, z)
    BY DEF SplitStates
  <2>2. x.actual \in BlockSizes
    BY DEF SplitStates
  <2>3. NextOf(x.h, x.block) <= tail /\ NextOf(x.h, x.block) = x.block + x.actual /\ x.block \in Nat
    BY <2>1, BlockIs DEF Splitting, Good
  <2>4. x.actual \in Nat /\ x.actual >= alignment
    BY <2>2, Halving
  <2> QED BY <2>3, <2>4, <1>6 DEF tail
<1>8. 0 \in K
  <2>1. f[0] \in S
    BY <1>5, <1>6
  <2> HIDE DEF S
  <2> QED BY <2>1, <1>6, <1>7
<1>9. ASSUME NEW k \in Nat, k < HeapSize, k \in K PROVE k + 1 \in K
  <2>1. f[k] \in S /\ f[k + 1] = HalveRound(f[k], size) /\ k + 1 \in 0 .. HeapSize /\ f[k + 1] \in S
    <3> HIDE DEF S
    <3> QED BY <1>5, <1>6, <1>9
  <2>2. CASE size < f[k].actual
    <3>1. f[k + 1].actual < f[k].actual
      BY <2>1, <2>2, HalvePart
    <3>2. f[k].actual + k <= HeapSize
      BY <2>2, <1>9
    <3>3. f[k].actual \in Nat /\ f[k + 1].actual \in Nat
      BY <2>1, <1>7
    <3> QED BY <2>1, <3>1, <3>2, <3>3, <1>6
  <2>3. CASE ~ (size < f[k].actual)
    <3>1. f[k + 1] = f[k]
      BY <2>1, <2>3 DEF HalveRound
    <3> QED BY <2>1, <2>3, <3>1
  <2> QED BY <2>2, <2>3
<1> DEFINE last == f[HeapSize]
<1>10. HeapSize \in K
  <2> HIDE DEF K
  <2> QED BY <1>6, <1>8, <1>9, InductTo
<1>11. last \in S
  BY <1>5, <1>6
<1>12. ~ (size < last.actual)
  <2>1. last.actual \in Nat /\ last.actual >= alignment /\ alignment \in Nat /\ alignment >= 1
    BY <1>7, <1>11, Geometry
  <2> QED BY <2>1, <1>10, <1>6
<1> QED BY <1>5, <1>11, <1>12

LEMMA SplitUntil ==
    ASSUME NEW h, NEW B, NEW U, NEW z, Good(h, B, U, z), NEW b \in B, h[b].is_free,
           NEW size \in BlockSizes
    PROVE  \E C : Got(split_until(h, b, size), C, size, U, z)
<1> DEFINE last == Halve(h, b, size)
           r == split_until(h, b, size)
<1>1. last \in SplitStates(U, z) /\ ~ (size < last.actual)
  BY HalveEnds
<1> HIDE DEF last
<1>2. last.actual \in Nat /\ size \in Nat
  BY <1>1, Halving DEF SplitStates
<1>3. PICK C : Splitting(last, C, U, z)
  BY <1>1 DEF SplitStates
<1>4. r = [h |-> last.h, found |-> IF size <= last.actual THEN last.block ELSE NULL]
  BY DEF split_until, last
<1> HIDE DEF r
<1>5. r.h = last.h /\ (r.found # NULL => r.found = last.block /\ last.actual = size)
  <2>1. CASE size <= last.actual
    BY <1>1, <1>2, <1>4, <2>1
  <2>2. CASE ~ (size <= last.actual)
    BY <1>4, <2>2
  <2> QED BY <2>1, <2>2
<1>6. Got(r, C, size, U, z)
  BY <1>3, <1>5 DEF Got, Splitting
<1> QED BY <1>6 DEF r

-----------------------------------------------------------------------------
(* find_best: the row and the blocks in use survive the scan, and the best     *)
(* block so far is a free one of the row, not beyond the block looked at.      *)

Scanning(x, B, size, U, z) ==
    /\ Good(x.h, B, U, z) /\ x.block \in B \cup {tail}
    /\ x.block < tail => x.buddy = NextOf(x.h, x.block)
    /\ x.best # NULL => /\ x.best \in B /\ x.best <= x.block /\ x.h[x.best].is_free
                        /\ size <= x.h[x.best].size

ScanStates(size, U, z) ==
    {x \in [h : Headers, block : 0 .. HeapSize, buddy : 0 .. HeapSize, best : Int] :
        \E B : Scanning(x, B, size, U, z)}

(* Both loops move on to the end of the block's buddy, or of the merged block, *)
(* or to the buddy itself.                                                     *)
LEMMA InRow ==
    ASSUME NEW h, NEW B, NEW U, NEW z, Good(h, B, U, z), NEW b \in B, NextOf(h, b) < tail
    PROVE  /\ NextOf(h, b) \in B /\ NextOf(h, b) \in 0 .. HeapSize
           /\ NextOf(h, NextOf(h, b)) \in B \cup {tail} /\ NextOf(h, NextOf(h, b)) \in 0 .. HeapSize
           /\ b < NextOf(h, b) /\ NextOf(h, b) < NextOf(h, NextOf(h, b)) /\ b \in Nat
<1>0. h \in Headers /\ Row(h, B)
  BY DEF Good
<1>1. b \in Nat /\ NextOf(h, b) \in Nat /\ NextOf(h, b) \in B \cup {tail} /\ b < NextOf(h, b)
  BY <1>0, BlockIs
<1>2. NextOf(h, b) \in B
  BY <1>1, Geometry DEF tail
<1>3. /\ NextOf(h, NextOf(h, b)) \in B \cup {tail} /\ NextOf(h, NextOf(h, b)) \in Nat
      /\ NextOf(h, NextOf(h, b)) <= tail /\ NextOf(h, b) < NextOf(h, NextOf(h, b))
  BY <1>0, <1>2, BlockIs
<1> QED BY <1>1, <1>2, <1>3, Geometry DEF tail

LEMMA BuddyIs ==
    ASSUME NEW h, NEW B, NEW U, NEW z, Good(h, B, U, z), NEW b \in B \cup {tail}, NEW old \in 0 .. HeapSize
    PROVE  BuddyOf(h, b, old) \in 0 .. HeapSize /\ (b < tail => BuddyOf(h, b, old) = NextOf(h, b))
<1>1. CASE b < tail
  <2>1. b \in B /\ h \in Headers /\ Row(h, B)
    BY <1>1, Geometry DEF tail, Good
  <2>2. NextOf(h, b) \in Nat /\ NextOf(h, b) <= tail
    BY <2>1, BlockIs
  <2> QED BY <1>1, <2>2, Geometry DEF BuddyOf, tail
<1>2. CASE ~ (b < tail)
  BY <1>2 DEF BuddyOf
<1> QED BY <1>1, <1>2

LEMMA ScanPart ==
    ASSUME NEW U, NEW z, NEW size \in BlockSizes, NEW x \in ScanStates(size, U, z)
    PROVE  /\ ScanRound(x, size) \in ScanStates(size, U, z)
           /\ InRange(x) => ScanRound(x, size).block > x.block
<1> DEFINE h == x.h
           b == x.block
           u == x.buddy
           T == [h : Headers, block : 0 .. HeapSize, buddy : 0 .. HeapSize, best : Int]
<1>1. CASE ~ InRange(x)
  BY <1>1 DEF ScanRound
<1>2. CASE InRange(x)
  <2>1. PICK B : Scanning(x, B, size, U, z)
    BY DEF ScanStates
  <2>2. b < tail /\ u < tail /\ x \in T /\ size \in Nat /\ HeapSize \in Nat /\ tail = HeapSize /\ -1 \in Int
    BY <1>2, Halving, Geometry DEF InRange, ScanStates, tail
  <2>3. Good(h, B, U, z) /\ b \in B /\ u = NextOf(h, b) /\ h \in Headers
    BY <2>1, <2>2, Geometry DEF Scanning, tail, Good
  <2> DEFINE n == NextOf(h, u)
  <2>4. /\ u \in B /\ u \in 0 .. HeapSize /\ n \in B \cup {tail} /\ n \in 0 .. HeapSize
        /\ b < u /\ u < n /\ b \in Nat
    BY <2>2, <2>3, InRow
  <2>5. x.best # NULL => /\ x.best \in B /\ x.best <= b /\ h[x.best].is_free
                         /\ size <= h[x.best].size
    BY <2>1 DEF Scanning
  <2>6. \A c \in B : c \in Nat /\ c \in Int /\ h[c].size \in Nat
    <3>1. h \in Headers /\ Row(h, B)
      BY <2>3 DEF Good
    <3> QED BY <3>1, BlockIs, HeaderIs
  <2> HIDE DEF h, b, u, n
  <2>7. CASE Mergeable(h, b, u)
    <3> DEFINE e == Merge(h, b)
               best == ScanMerge(x, size).best
               y == [h |-> e, block |-> n, buddy |-> BuddyOf(e, n, u), best |-> best]
    <3>1. Good(e, B \ {u}, U, z) /\ e[b].is_free /\ e[b].size = 2 * h[b].size
          /\ \A c \in B : c # b /\ c # u => e[c] = h[c]
      <4>1. NextOf(h, b) = u
        BY <2>3
      <4> HIDE DEF e
      <4>2. e = Merge(h, b)
        BY DEF e
      <4> QED BY <2>3, <2>4, <2>7, <4>1, <4>2, MergeRow
    <3>2. ScanRound(x, size) = y
      BY <1>2, <2>7 DEF ScanRound, ScanMerge, h, b, u, n
    <3>3. best = x.best \/ (best = b /\ size <= e[b].size)
      BY DEF ScanMerge, h, b
    <3> HIDE DEF e, best
    <3>4. BuddyOf(e, n, u) \in 0 .. HeapSize /\ (n < tail => BuddyOf(e, n, u) = NextOf(e, n))
      <4>1. n \in (B \ {u}) \cup {tail}
        BY <2>4
      <4> QED BY <3>1, <4>1, <2>4, BuddyIs
    <3>5. best # NULL => best \in B \ {u} /\ best <= n /\ e[best].is_free /\ size <= e[best].size
      <4>1. CASE best = b
        <5>1. size <= e[b].size
          <6>1. CASE best = x.best /\ b # NULL
            <7>1. size <= h[b].size /\ h[b].size \in Nat
              BY <4>1, <6>1, <2>3, <2>5, <2>6
            <7> QED BY <7>1, <3>1, <2>2
          <6> QED BY <6>1, <3>3, <4>1, <2>4 DEF NULL
        <5> QED BY <4>1, <5>1, <3>1, <2>3, <2>4
      <4>2. CASE best # b /\ best # NULL
        <5>1. best = x.best
          BY <3>3, <4>2
        <5>2. best \in B /\ best <= b /\ h[best].is_free /\ size <= h[best].size /\ best \in Nat
          BY <5>1, <4>2, <2>5, <2>6
        <5>3. best # u /\ best <= n
          BY <5>2, <2>4
        <5>4. e[best] = h[best]
          BY <5>2, <5>3, <4>2, <3>1
        <5> QED BY <5>2, <5>3, <5>4
      <4> QED BY <4>1, <4>2
    <3>6. best \in Int
      <4>1. CASE best # NULL
        BY <4>1, <3>5, <2>6
      <4> QED BY <4>1 DEF NULL
    <3>7. y \in T /\ y.h = e /\ y.block = n /\ y.buddy = BuddyOf(e, n, u) /\ y.best = best
      <4>1. e \in Headers
        BY <3>1 DEF Good
      <4> QED BY <4>1, <2>4, <3>4, <3>6
    <3> HIDE DEF y
    <3>8. Scanning(y, B \ {u}, size, U, z)
      <4>1. n \in (B \ {u}) \cup {tail}
        BY <2>4
      <4> QED BY <4>1, <3>1, <3>4, <3>5, <3>7 DEF Scanning
    <3>9. y \in ScanStates(size, U, z)
      BY <3>7, <3>8 DEF ScanStates
    <3>10. y.block > x.block
      BY <3>7, <2>4 DEF b
    <3> QED BY <3>2, <3>9, <3>10
  <2>8. CASE ~ Mergeable(h, b, u)
    <3> DEFINE y == ScanOn(x, size)
               best == BestOfPair(x, size)
    <3>1. ScanRound(x, size) = y
      BY <1>2, <2>8 DEF ScanRound, h, b, u
    <3>2. \/ best = x.best
          \/ best = b /\ h[b].is_free /\ size <= h[b].size
          \/ best = u /\ h[u].is_free /\ size <= h[u].size
      BY DEF BestOfPair, h, b, u
    <3>3. y.h = h /\ y.best = best
      BY DEF ScanOn, h
    <3>4. \/ y.block = n /\ y.buddy = BuddyOf(h, n, u)
          \/ y.block = u /\ y.buddy = n
      BY DEF ScanOn, h, b, u, n
    <3>5. BuddyOf(h, n, u) \in 0 .. HeapSize /\ (n < tail => BuddyOf(h, n, u) = NextOf(h, n))
      BY <2>3, <2>4, BuddyIs
    <3>6. y = [h |-> y.h, block |-> y.block, buddy |-> y.buddy, best |-> y.best]
      BY DEF ScanOn
    <3> HIDE DEF best, y
    <3>7. best # NULL => best \in B /\ best <= u /\ h[best].is_free /\ size <= h[best].size
      <4>1. CASE best = x.best /\ best # NULL
        <5>1. best \in B /\ best <= b /\ h[best].is_free /\ size <= h[best].size /\ best \in Nat
          BY <4>1, <2>5, <2>6
        <5> QED BY <5>1, <2>4
      <4> QED BY <4>1, <3>2, <2>3, <2>4
    <3>8. best \in Int
      <4>1. CASE best # NULL
        BY <4>1, <3>7, <2>6
      <4> QED BY <4>1 DEF NULL
    <3>9. /\ y.block \in B \cup {tail} /\ y.block \in 0 .. HeapSize /\ y.buddy \in 0 .. HeapSize
          /\ (y.block < tail => y.buddy = NextOf(h, y.block)) /\ u <= y.block /\ y.block > b
      <4>1. CASE y.block = n /\ y.buddy = BuddyOf(h, n, u)
        BY <4>1, <2>4, <3>5
      <4>2. CASE y.block = u /\ y.buddy = n
        BY <4>2, <2>4 DEF n
      <4> QED BY <4>1, <4>2, <3>4
    <3>10. y \in T
      BY <2>3, <3>3, <3>6, <3>8, <3>9
    <3>11. best # NULL => best <= y.block
      <4>1. ASSUME best # NULL PROVE best <= u /\ best \in Nat
        BY <4>1, <3>7, <2>6
      <4> QED BY <4>1, <2>4, <3>9
    <3>12. Scanning(y, B, size, U, z)
      BY <2>3, <3>3, <3>7, <3>9, <3>11 DEF Scanning
    <3>13. y \in ScanStates(size, U, z)
      BY <3>10, <3>12 DEF ScanStates
    <3>14. y.block > x.block
      BY <3>9 DEF b
    <3> QED BY <3>1, <3>13, <3>14
  <2> QED BY <2>7, <2>8
<1> QED BY <1>1, <1>2

LEMMA ScanEnds ==
    ASSUME NEW h, NEW B, NEW U, NEW z, Good(h, B, U, z), NEW size \in BlockSizes
    PROVE  Scan(h, size) \in ScanStates(size, U, z) /\ ~ InRange(Scan(h, size))
<1> DEFINE S == ScanStates(size, U, z)
           s == [h |-> h, block |-> head, buddy |-> NextOf(h, head), best |-> NULL]
<1>1. h \in Headers /\ Row(h, B) /\ head \in B /\ HeapSize \in Nat
  BY Geometry DEF Good, Row
<1>2. head \in 0 .. HeapSize /\ NextOf(h, head) \in 0 .. HeapSize
  <2>1. head \in Nat /\ head < tail /\ NextOf(h, head) \in Nat /\ NextOf(h, head) <= tail
    BY <1>1, BlockIs
  <2> QED BY <2>1, <1>1 DEF tail
<1>3. s \in S
  <2>1. s \in [h : Headers, block : 0 .. HeapSize, buddy : 0 .. HeapSize, best : Int]
    BY <1>1, <1>2 DEF NULL
  <2>2. Scanning(s, B, size, U, z)
    BY <1>1 DEF Scanning
  <2> QED BY <2>1, <2>2 DEF ScanStates
<1>4. \A y \in S : /\ ScanRound(y, size) \in S /\ y.block \in Nat
                   /\ IF InRange(y) THEN ScanRound(y, size).block > y.block ELSE ScanRound(y, size) = y
  <2>1. \A y \in S : ~ InRange(y) => ScanRound(y, size) = y
    BY DEF ScanRound
  <2>2. \A y \in S : y.block \in Nat
    BY DEF ScanStates
  <2> QED BY <2>1, <2>2, ScanPart
<1> HIDE DEF S
<1>5. PICK f : /\ Scan(h, size) = f[HeapSize]
               /\ \A k \in Nat : k < HeapSize => f[k + 1] = ScanRound(f[k], size)
               /\ \A k \in 0 .. HeapSize : f[k] \in S
  BY <1>3, <1>4, ScanLoop
<1>6. ASSUME NEW k \in Nat, k < HeapSize
      PROVE  IF InRange(f[k]) THEN f[k + 1].block > f[k].block ELSE f[k + 1] = f[k]
  <2>1. f[k] \in S /\ f[k + 1] = ScanRound(f[k], size)
    BY <1>1, <1>5, <1>6
  <2> QED BY <2>1, <1>4
<1>7. \A k \in 0 .. HeapSize : f[k].block \in Nat
  BY <1>4, <1>5
<1>8. ~ InRange(f[HeapSize])
  BY <1>6, <1>7, MovesOn
<1> QED BY <1>1, <1>5, <1>8 DEF S

LEMMA FindBest ==
    ASSUME NEW h, NEW B, NEW U, NEW z, Good(h, B, U, z), NEW size \in BlockSizes
    PROVE  \E C : Got(find_best(h, size), C, size, U, z)
<1> DEFINE x == Scan(h, size)
<1>5. x \in ScanStates(size, U, z) /\ head \in B
  BY ScanEnds DEF Good, Row
<1>6. PICK C : Scanning(x, C, size, U, z)
  BY <1>5 DEF ScanStates
<1> HIDE DEF x
<1>7. CASE NextOf(h, head) = tail /\ h[head].is_free
  <2>1. find_best(h, size) = split_until(h, head, size)
    BY <1>7 DEF find_best
  <2> QED BY <1>5, <1>7, <2>1, SplitUntil
<1>8. CASE ~ (NextOf(h, head) = tail /\ h[head].is_free) /\ x.best # NULL
  <2>1. find_best(h, size) = split_until(x.h, x.best, size)
    BY <1>8 DEF find_best, x
  <2>2. Good(x.h, C, U, z) /\ x.best \in C /\ x.h[x.best].is_free
    BY <1>6, <1>8 DEF Scanning
  <2> QED BY <2>1, <2>2, SplitUntil
<1>9. CASE ~ (NextOf(h, head) = tail /\ h[head].is_free) /\ x.best = NULL
  <2>1. find_best(h, size) = [h |-> x.h, found |-> NULL]
    BY <1>9 DEF find_best, x
  <2>2. Good(x.h, C, U, z)
    BY <1>6 DEF Scanning
  <2> QED BY <2>1, <2>2 DEF Got
<1> QED BY <1>7, <1>8, <1>9

-----------------------------------------------------------------------------
(* coalescence *)

LEMMA RowIsFinite ==
    ASSUME NEW h, NEW B, Row(h, B)
    PROVE  IsFiniteSet(B) /\ Cardinality(B) \in Nat /\ Cardinality(B) <= HeapSize
<1>0. HeapSize \in Nat /\ HeapSize - 1 \in Int
  BY Geometry
<1>1. B \subseteq 0 .. (HeapSize - 1)
  BY DEF Row, Addresses
<1> DEFINE m == HeapSize - 1
<1>2. IsFiniteSet(0 .. m) /\ Cardinality(0 .. m) = IF 0 > m THEN 0 ELSE m - 0 + 1
  <2> HIDE DEF m
  <2>1. m \in Int
    BY <1>0 DEF m
  <2> QED BY <2>1, FS_Interval
<1>3. Cardinality(0 .. m) <= HeapSize
  BY <1>0, <1>2
<1>4. IsFiniteSet(B) /\ Cardinality(B) <= Cardinality(0 .. m)
  BY <1>1, <1>2, FS_Subset
<1>5. Cardinality(B) \in Nat /\ Cardinality(0 .. m) \in Nat
  BY <1>2, <1>4, FS_CardinalityType
<1>6. Cardinality(B) <= HeapSize
  <2> HIDE DEF m
  <2> QED BY <1>0, <1>3, <1>4, <1>5
<1> QED BY <1>4, <1>5, <1>6

Passing(x, B, U, z) ==
    /\ Good(x.h, B, U, z) /\ x.block \in B \cup {tail}
    /\ x.block < tail => x.buddy = NextOf(x.h, x.block)

(* The pass began with the blocks A. *)
PassStates(A, U, z) ==
    {x \in [h : Headers, block : 0 .. HeapSize, buddy : 0 .. HeapSize, again : BOOLEAN] :
        \E B : Passing(x, B, U, z) /\ B \subseteq A /\ (x.again => B # A)}

LEMMA PassPart ==
    ASSUME NEW A, NEW U, NEW z, NEW x \in PassStates(A, U, z)
    PROVE  /\ PassRound(x) \in PassStates(A, U, z)
           /\ InRange(x) => PassRound(x).block > x.block
<1> DEFINE h == x.h
           b == x.block
           u == x.buddy
           T == [h : Headers, block : 0 .. HeapSize, buddy : 0 .. HeapSize, again : BOOLEAN]
<1>1. CASE ~ InRange(x)
  BY <1>1 DEF PassRound
<1>2. CASE InRange(x)
  <2>1. PICK B : Passing(x, B, U, z) /\ B \subseteq A /\ (x.again => B # A)
    BY DEF PassStates
  <2>2. b < tail /\ u < tail /\ x \in T /\ HeapSize \in Nat /\ tail = HeapSize
    BY <1>2, Geometry DEF InRange, PassStates, tail
  <2>3. Good(h, B, U, z) /\ b \in B /\ u = NextOf(h, b) /\ h \in Headers
    BY <2>1, <2>2, Geometry DEF Passing, tail, Good
  <2> DEFINE n == NextOf(h, u)
  <2>4. /\ u \in B /\ u \in 0 .. HeapSize /\ n \in B \cup {tail} /\ n \in 0 .. HeapSize
        /\ b < u /\ u < n /\ b \in Nat
    BY <2>2, <2>3, InRow
  <2> HIDE DEF h, b, u, n
  <2>5. CASE Mergeable(h, b, u)
    <3> DEFINE e == Merge(h, b)
               y == [h |-> e, block |-> n, buddy |-> BuddyOf(e, n, u), again |-> x.again \/ n < tail]
    <3>1. Good(e, B \ {u}, U, z) /\ NextOf(e, b) = n
      <4>1. NextOf(h, b) = u
        BY <2>3
      <4>2. e = Merge(h, b)
        OBVIOUS
      <4> HIDE DEF e
      <4> QED BY <2>3, <2>4, <2>5, <4>1, <4>2, MergeRow DEF n
    <3>2. PassRound(x) = y
      BY <1>2, <2>5, <3>1 DEF PassRound, PassMerge, h, b, u
    <3> HIDE DEF e
    <3>3. n \in (B \ {u}) \cup {tail}
      BY <2>4
    <3>4. BuddyOf(e, n, u) \in 0 .. HeapSize /\ (n < tail => BuddyOf(e, n, u) = NextOf(e, n))
      BY <3>1, <3>3, <2>4, BuddyIs
    <3>5. y \in T /\ y.h = e /\ y.block = n /\ y.buddy = BuddyOf(e, n, u)
      <4>1. e \in Headers
        BY <3>1 DEF Good
      <4>2. (x.again \/ n < tail) \in BOOLEAN
        OBVIOUS
      <4> QED BY <4>1, <4>2, <2>4, <3>4
    <3> HIDE DEF y
    <3>6. Passing(y, B \ {u}, U, z)
      BY <3>1, <3>3, <3>4, <3>5 DEF Passing
    <3>7. B \ {u} \subseteq A /\ B \ {u} # A
      BY <2>1, <2>4
    <3>8. y.block > x.block
      BY <3>5, <2>4 DEF b
    <3> QED BY <3>2, <3>5, <3>6, <3>7, <3>8 DEF PassStates
  <2>6. CASE ~ Mergeable(h, b, u)
    <3> DEFINE y == PassOn(x)
    <3>1. PassRound(x) = y
      BY <1>2, <2>6 DEF PassRound, h, b, u
    <3>2. y.h = h /\ y.again = x.again
          /\ y = [h |-> y.h, block |-> y.block, buddy |-> y.buddy, again |-> y.again]
      BY DEF PassOn, h
    <3>3. \/ y.block = n /\ y.buddy = BuddyOf(h, n, u)
          \/ y.block = u /\ y.buddy = n
      BY <2>2 DEF PassOn, h, b, u, n
    <3>4. BuddyOf(h, n, u) \in 0 .. HeapSize /\ (n < tail => BuddyOf(h, n, u) = NextOf(h, n))
      BY <2>3, <2>4, BuddyIs
    <3> HIDE DEF y
    <3>5. /\ y.block \in B \cup {tail} /\ y.block \in 0 .. HeapSize /\ y.buddy \in 0 .. HeapSize
          /\ (y.block < tail => y.buddy = NextOf(h, y.block)) /\ y.block > b
      <4>1. CASE y.block = n /\ y.buddy = BuddyOf(h, n, u)
        BY <4>1, <2>4, <3>4
      <4>2. CASE y.block = u /\ y.buddy = n
        BY <4>2, <2>4 DEF n
      <4> QED BY <4>1, <4>2, <3>3
    <3>6. y \in T
      BY <2>2, <2>3, <3>2, <3>5
    <3>7. Passing(y, B, U, z)
      BY <2>3, <3>2, <3>5 DEF Passing
    <3>8. y \in PassStates(A, U, z)
      BY <2>1, <3>2, <3>6, <3>7 DEF PassStates
    <3>9. y.block > x.block
      BY <3>5 DEF b
    <3> QED BY <3>1, <3>8, <3>9
  <2> QED BY <2>5, <2>6
<1> QED BY <1>1, <1>2

LEMMA OnePass ==
    ASSUME NEW h, NEW B, NEW U, NEW z, Good(h, B, U, z)
    PROVE  Pass(h) \in PassStates(B, U, z) /\ ~ InRange(Pass(h))
<1> DEFINE S == PassStates(B, U, z)
           s == [h |-> h, block |-> head, buddy |-> NextOf(h, head), again |-> FALSE]
<1>1. h \in Headers /\ Row(h, B) /\ head \in B /\ HeapSize \in Nat
  BY Geometry DEF Good, Row
<1>2. head \in 0 .. HeapSize /\ NextOf(h, head) \in 0 .. HeapSize
  <2>1. head \in Nat /\ head < tail /\ NextOf(h, head) \in Nat /\ NextOf(h, head) <= tail
    BY <1>1, BlockIs
  <2> QED BY <2>1, <1>1 DEF tail
<1>3. s \in S
  <2>1. s \in [h : Headers, block : 0 .. HeapSize, buddy : 0 .. HeapSize, again : BOOLEAN] /\ ~ s.again
    BY <1>1, <1>2
  <2>2. Passing(s, B, U, z)
    BY <1>1 DEF Passing
  <2> QED BY <2>1, <2>2 DEF PassStates
<1>4. \A y \in S : /\ PassRound(y) \in S /\ y.block \in Nat
                   /\ IF InRange(y) THEN PassRound(y).block > y.block ELSE PassRound(y) = y
  <2>1. \A y \in S : ~ InRange(y) => PassRound(y) = y
    BY DEF PassRound
  <2>2. \A y \in S : y.block \in Nat
    BY DEF PassStates
  <2> QED BY <2>1, <2>2, PassPart
<1> HIDE DEF S
<1>5. PICK f : /\ Pass(h) = f[HeapSize]
               /\ \A k \in Nat : k < HeapSize => f[k + 1] = PassRound(f[k])
               /\ \A k \in 0 .. HeapSize : f[k] \in S
  BY <1>3, <1>4, PassLoop
<1>6. ASSUME NEW k \in Nat, k < HeapSize
      PROVE  IF InRange(f[k]) THEN f[k + 1].block > f[k].block ELSE f[k + 1] = f[k]
  <2>1. f[k] \in S /\ f[k + 1] = PassRound(f[k])
    BY <1>1, <1>5, <1>6
  <2> QED BY <2>1, <1>4
<1>7. \A k \in 0 .. HeapSize : f[k].block \in Nat
  BY <1>4, <1>5
<1>8. ~ InRange(f[HeapSize])
  BY <1>6, <1>7, MovesOn
<1> QED BY <1>1, <1>5, <1>8 DEF S

(* A pass that says there is more to do has left fewer blocks. *)
LEMMA FewerBlocks ==
    ASSUME NEW h, NEW B, NEW U, NEW z, Good(h, B, U, z)
    PROVE  \E C : /\ Good(Pass(h).h, C, U, z) /\ IsFiniteSet(C) /\ Cardinality(C) \in Nat
                  /\ Pass(h).again => Cardinality(C) < Cardinality(B)
<1>1. PICK C : Passing(Pass(h), C, U, z) /\ C \subseteq B /\ (Pass(h).again => C # B)
  BY OnePass DEF PassStates
<1>2. IsFiniteSet(B)
  BY RowIsFinite DEF Good
<1>3. IsFiniteSet(C) /\ Cardinality(C) <= Cardinality(B) /\ (Cardinality(C) = Cardinality(B) => C = B)
  BY <1>1, <1>2, FS_Subset
<1>4. Cardinality(B) \in Nat /\ Cardinality(C) \in Nat
  BY <1>2, <1>3, FS_CardinalityType
<1>5. Pass(h).again => Cardinality(C) < Cardinality(B)
  BY <1>1, <1>3, <1>4
<1> QED BY <1>1, <1>3, <1>4, <1>5 DEF Passing

LEMMA PassesEnd ==
    ASSUME NEW h, NEW B, NEW U, NEW z, Good(h, B, U, z)
    PROVE  (\E C : Good(Passes(h).h, C, U, z)) /\ ~ Passes(h).again
<1> DEFINE s == [h |-> h, again |-> TRUE]
           S == {s} \cup {Pass(e) : e \in {d \in Headers : \E C : Good(d, C, U, z)}}
<1>0. HeapSize \in Nat
  BY Geometry
<1>1. \A x \in S : \E C : Good(x.h, C, U, z)
  BY FewerBlocks
<1>2. ASSUME NEW x \in S PROVE Again(x) \in S
  <2>1. PICK C : Good(x.h, C, U, z)
    BY <1>1
  <2>2. x.h \in Headers
    BY <2>1 DEF Good
  <2> QED BY <2>1, <2>2 DEF Again
<1>3. s \in S
  OBVIOUS
<1> HIDE DEF S
<1>4. PICK f : /\ f[0] = s /\ Passes(h) = f[HeapSize]
               /\ \A k \in Nat : k < HeapSize => f[k + 1] = Again(f[k])
               /\ \A k \in 0 .. HeapSize : f[k] \in S
  BY <1>2, <1>3, PassesLoop
<1> DEFINE Few(x, k) == \E C : Good(x.h, C, U, z) /\ Cardinality(C) \in Nat /\ Cardinality(C) + k <= HeapSize
           K == {k \in 0 .. HeapSize : f[k].again => Few(f[k], k)}
<1>5. 0 \in K
  <2>1. Row(h, B)
    BY DEF Good
  <2>2. Cardinality(B) \in Nat /\ Cardinality(B) + 0 <= HeapSize
    BY <2>1, <1>0, RowIsFinite
  <2>3. f[0].h = h
    BY <1>4
  <2> QED BY <1>0, <2>2, <2>3
<1>6. ASSUME NEW k \in Nat, k < HeapSize, k \in K PROVE k + 1 \in K
  <2>1. k + 1 \in 0 .. HeapSize /\ f[k + 1] = Again(f[k])
    BY <1>0, <1>4, <1>6
  <2>2. CASE f[k].again
    <3>1. PICK C : Good(f[k].h, C, U, z) /\ Cardinality(C) \in Nat /\ Cardinality(C) + k <= HeapSize
      BY <1>6, <2>2
    <3>2. f[k + 1] = Pass(f[k].h)
      BY <2>1, <2>2 DEF Again
    <3>3. PICK D : /\ Good(Pass(f[k].h).h, D, U, z) /\ Cardinality(D) \in Nat
                   /\ Pass(f[k].h).again => Cardinality(D) < Cardinality(C)
      BY <3>1, FewerBlocks
    <3>4. ASSUME f[k + 1].again PROVE Few(f[k + 1], k + 1)
      <4>1. Cardinality(D) < Cardinality(C)
        BY <3>2, <3>3, <3>4
      <4>2. Cardinality(D) + (k + 1) <= HeapSize
        BY <4>1, <3>1, <3>3, <1>0
      <4> QED BY <3>2, <3>3, <4>2
    <3> QED BY <2>1, <3>4
  <2>3. CASE ~ f[k].again
    <3>1. f[k + 1] = f[k]
      BY <2>1, <2>3 DEF Again
    <3> QED BY <2>1, <2>3, <3>1
  <2> QED BY <2>2, <2>3
<1> HIDE DEF K
<1>7. HeapSize \in K
  BY <1>0, <1>5, <1>6, InductTo
<1>8. ~ f[HeapSize].again
  <2> SUFFICES ASSUME f[HeapSize].again PROVE FALSE
    OBVIOUS
  <2>1. PICK C : Good(f[HeapSize].h, C, U, z) /\ Cardinality(C) \in Nat /\ Cardinality(C) + HeapSize <= HeapSize
    BY <1>7 DEF K
  <2>2. Cardinality(C) = 0
    BY <2>1, <1>0
  <2>3. Row(f[HeapSize].h, C) /\ head \in C
    BY <2>1 DEF Good, Row
  <2>4. IsFiniteSet(C)
    BY <2>3, RowIsFinite
  <2>5. C = {}
    BY <2>2, <2>4, FS_EmptySet
  <2> QED BY <2>3, <2>5
<1>9. \E C : Good(f[HeapSize].h, C, U, z)
  BY <1>0, <1>1, <1>4
<1> QED BY <1>4, <1>8, <1>9

LEMMA Coalesced ==
    ASSUME NEW h, NEW B, NEW U, NEW z, Good(h, B, U, z)
    PROVE  \E C : Good(coalescence(h), C, U, z)
BY PassesEnd DEF coalescence

LEMMA Obtained ==
    ASSUME NEW h, NEW B, NEW U, NEW z, Good(h, B, U, z), NEW size \in BlockSizes
    PROVE  \E C : Got(Obtain(h, size), C, size, U, z)
<1> DEFINE first == find_best(h, size)
<1>1. PICK C : Got(first, C, size, U, z)
  BY FindBest
<1> HIDE DEF first
<1>2. CASE first.found # NULL
  BY <1>1, <1>2 DEF Obtain, first
<1>3. CASE first.found = NULL
  <2>1. PICK D : Good(coalescence(first.h), D, U, z)
    BY <1>1, Coalesced DEF Got
  <2>2. Obtain(h, size) = find_best(coalescence(first.h), size)
    BY <1>3 DEF Obtain, first
  <2> QED BY <2>1, <2>2, FindBest
<1> QED BY <1>2, <1>3

-----------------------------------------------------------------------------
(* The walk meets the blocks of the row, and ends at the tail. *)

Walking(w, B) ==
    /\ w.at \in B \cup {tail} /\ w.met \subseteq B
    /\ \A b \in B : b < w.at <=> b \in w.met
    /\ w.at # head => \E b \in w.met : NextOf(hdr, b) = w.at

LEMMA WalkPart ==
    ASSUME NEW B, hdr \in Headers, Row(hdr, B), NEW w, Walking(w, B)
    PROVE  Walking(OnWalk(w), B) /\ (w.at < tail => OnWalk(w).at > w.at)
<1>1. CASE ~ (w.at < tail)
  BY <1>1 DEF OnWalk
<1>2. CASE w.at < tail
  <2> DEFINE a == w.at
             n == NextOf(hdr, a)
             met == w.met \cup {a}
             v == [at |-> n, met |-> met]
  <2>0. tail \in Nat
    BY Geometry DEF tail
  <2>1. a \in B /\ w.met \subseteq B /\ (\A b \in B : b < a <=> b \in w.met) /\ OnWalk(w) = v
    BY <1>2, <2>0 DEF Walking, OnWalk
  <2>2. n \in B \cup {tail} /\ n \in Nat /\ a < n /\ a \in Nat
    BY <2>1, BlockIs
  <2>3. \A b \in B : b \in Nat /\ (a < b <=> n <= b)
    BY <2>1, BlockIs, RowOrder
  <2> HIDE DEF a, n
  <2>4. \A b \in B : b < n <=> b \in met
    BY <2>1, <2>2, <2>3
  <2>5. NextOf(hdr, a) = n
    BY DEF n
  <2>6. v.at = n /\ v.met = met
    OBVIOUS
  <2>7. \E b \in met : NextOf(hdr, b) = n
    BY <2>5
  <2>8. met \subseteq B
    BY <2>1
  <2> HIDE DEF v, met
  <2>9. Walking(v, B)
    BY <2>2, <2>4, <2>6, <2>7, <2>8 DEF Walking
  <2> QED BY <2>1, <2>2, <2>6, <2>9 DEF a
<1> QED BY <1>1, <1>2

LEMMA Walked ==
    ASSUME NEW B, hdr \in Headers, Row(hdr, B)
    PROVE  Blocks = B /\ \E b \in B : NextOf(hdr, b) = tail
<1> DEFINE S == {w \in [at : Nat, met : SUBSET B] : Walking(w, B)}
           s == [at |-> head, met |-> {}]
<1>0. HeapSize \in Nat /\ tail = HeapSize /\ head \in B /\ head = 0
  BY Geometry DEF tail, Row, head
<1>1. \A b \in B : b \in Nat /\ b < tail
  BY BlockIs
<1>2. s \in S
  <2>1. s.at = head /\ s.met = {} /\ s \in [at : Nat, met : SUBSET B]
    BY <1>0
  <2>2. \A b \in B : ~ (b < head)
    BY <1>0, <1>1
  <2> QED BY <2>1, <2>2, <1>0 DEF Walking
<1>3. ASSUME NEW w \in S PROVE OnWalk(w) \in S
  <2>1. Walking(OnWalk(w), B) /\ w \in [at : Nat, met : SUBSET B]
    BY WalkPart
  <2>2. OnWalk(w).at \in Nat /\ OnWalk(w).met \subseteq B
    BY <2>1, <1>0, <1>1 DEF Walking
  <2>3. OnWalk(w) = [at |-> OnWalk(w).at, met |-> OnWalk(w).met]
    BY <2>1 DEF OnWalk
  <2> QED BY <2>1, <2>2, <2>3
<1>4. \A w \in S : w.at \in Nat /\ w.at <= tail /\ Walking(w, B)
  BY <1>0, <1>1 DEF Walking
<1>5. PICK f : /\ f[0] = s /\ Walk = f[HeapSize]
               /\ \A k \in Nat : k < HeapSize => f[k + 1] = OnWalk(f[k])
               /\ \A k \in 0 .. HeapSize : f[k] \in S
  <2> HIDE DEF S
  <2> QED BY <1>2, <1>3, WalkLoop
<1> DEFINE K == {k \in 0 .. HeapSize : f[k].at < tail => k <= f[k].at}
<1>6. 0 \in K
  BY <1>0, <1>5
<1>7. ASSUME NEW k \in Nat, k < HeapSize, k \in K PROVE k + 1 \in K
  <2> HIDE DEF S
  <2>1. f[k] \in S /\ f[k + 1] = OnWalk(f[k]) /\ k + 1 \in 0 .. HeapSize /\ f[k + 1] \in S
    BY <1>0, <1>5, <1>7
  <2>2. f[k].at \in Nat /\ f[k + 1].at \in Nat /\ Walking(f[k], B)
    BY <2>1, <1>4
  <2>3. CASE f[k].at < tail
    <3>1. f[k + 1].at > f[k].at
      BY <2>1, <2>2, <2>3, WalkPart
    <3>2. k <= f[k].at
      BY <2>3, <1>7
    <3> QED BY <2>1, <2>2, <3>1, <3>2
  <2>4. CASE ~ (f[k].at < tail)
    <3>1. f[k + 1] = f[k]
      BY <2>1, <2>4 DEF OnWalk
    <3> QED BY <2>1, <2>4, <3>1
  <2> QED BY <2>3, <2>4
<1>8. HeapSize \in K
  <2> HIDE DEF K
  <2> QED BY <1>0, <1>6, <1>7, InductTo
<1> DEFINE w == f[HeapSize]
<1>9. w \in S
  BY <1>0, <1>5
<1>10. w.at \in Nat /\ w.at <= tail /\ Walking(w, B)
  <2> HIDE DEF S
  <2> QED BY <1>4, <1>9
<1>11. w.at = tail
  BY <1>0, <1>8, <1>10
<1> HIDE DEF w, S, K
<1>12. w.met = B
  BY <1>1, <1>10, <1>11 DEF Walking
<1>13. Walk = w
  BY <1>5 DEF w
<1>14. tail # head
  BY HeapIsBlock, Geometry DEF tail, head
<1>15. \E b \in w.met : NextOf(hdr, b) = tail
  BY <1>10, <1>11, <1>14 DEF Walking
<1> QED BY <1>12, <1>13, <1>15 DEF Blocks

-----------------------------------------------------------------------------
(* The inductive invariant. The callers' allocations l are the blocks in use   *)
(* of a row, and their headers say how large they are.                         *)

Owns(h, B, l) ==
    /\ Row(h, B)
    /\ Used(h, B) = {OldBlock(p) : p \in DOMAIN l}
    /\ \A p \in DOMAIN l : h[OldBlock(p)].size = l[p] + HeaderSize

Allocations(l) == l \in [DOMAIN l -> Sizes \ {0}] /\ DOMAIN l \subseteq 0 .. HeapSize

HeapInv ==
    /\ hdr \in Headers /\ Allocations(live) /\ outcome \in {"ok", "failed", "spins", "wild"}
    /\ \E B : Owns(hdr, B, live)

LEMMA OldBlocks ==
    /\ \A p \in Int : OldBlock(p) \in Int
    /\ \A p, q \in Int : OldBlock(p) = OldBlock(q) => p = q
    /\ \A b \in Int : b + HeaderSize \in Int /\ OldBlock(b + HeaderSize) = b
BY Geometry DEF OldBlock

LEMMA Owned ==
    ASSUME NEW h \in Headers, NEW B, NEW l, Owns(h, B, l), Allocations(l), NEW p \in DOMAIN l
    PROVE  /\ OldBlock(p) \in B /\ OldBlock(p) \in Addresses /\ ~ h[OldBlock(p)].is_free
           /\ h[OldBlock(p)].size = l[p] + HeaderSize
           /\ p \in Nat /\ p = OldBlock(p) + HeaderSize /\ l[p] \in Sizes /\ l[p] \in Nat /\ l[p] > 0
           /\ p + l[p] <= NextOf(h, OldBlock(p))
<1>1. OldBlock(p) \in Used(h, B) /\ Row(h, B)
  BY DEF Owns
<1>2. OldBlock(p) \in B /\ ~ h[OldBlock(p)].is_free
  BY <1>1 DEF Used
<1>3. p \in Nat /\ p = OldBlock(p) + HeaderSize
  BY Geometry DEF Allocations, OldBlock
<1>4. l[p] \in Sizes /\ l[p] \in Nat /\ l[p] > 0
  BY Geometry DEF Allocations
<1>5. h[OldBlock(p)].size = l[p] + HeaderSize
  BY DEF Owns
<1>6. /\ OldBlock(p) \in Addresses /\ OldBlock(p) \in Nat
      /\ NextOf(h, OldBlock(p)) = OldBlock(p) + size_required(h[OldBlock(p)].size)
      /\ size_required(h[OldBlock(p)].size) \in Nat
      /\ size_required(h[OldBlock(p)].size) >= h[OldBlock(p)].size
  BY <1>1, <1>2, BlockIs
<1> DEFINE o == OldBlock(p)
           r == size_required(h[OldBlock(p)].size)
<1>7. o \in Nat /\ r \in Nat /\ r >= l[p] + HeaderSize /\ p = o + HeaderSize /\ NextOf(h, o) = o + r
  BY <1>3, <1>5, <1>6
<1> HIDE DEF o, r
<1>8. p + l[p] <= NextOf(h, o)
  BY <1>3, <1>4, <1>7, Geometry
<1> QED BY <1>2, <1>3, <1>4, <1>5, <1>6, <1>8 DEF o

(* Headers that make the blocks as large as they were make the same row. *)
LEMMA SameRow ==
    ASSUME NEW h \in Headers, NEW B, Row(h, B), NEW e \in Headers,
           \A c \in B : e[c].size >= alignment /\ size_required(e[c].size) = size_required(h[c].size)
    PROVE  Row(e, B)
<1>1. \A c \in B : NextOf(e, c) = NextOf(h, c)
  BY DEF NextOf
<1> QED BY <1>1 DEF Row

(* What a request is given: nothing, or a free block of the right size, and    *)
(* everything in use is as it was.                                             *)
Given(got, B, n) ==
    /\ got.h \in Headers /\ Owns(got.h, B, live)
    /\ got.found # NULL => /\ got.found \in B /\ got.h[got.found].is_free
                           /\ size_required(got.h[got.found].size) = size_required(Total(n))

LEMMA RequestSpins ==
    ASSUME NEW n \in Sizes, n # 0
    PROVE  /\ Total(n) \in 0 .. (Word - 1)
           /\ Spins(Total(n)) <=> n + HeaderSize \in (HalfWord + 1) .. (Word - alignment)
           /\ n + HeaderSize < Word => Total(n) = n + HeaderSize
<1>0. n \in Nat /\ n > 0 /\ n < Word /\ Word \in Nat /\ HalfWord \in Nat /\ Word = 2 * HalfWord
      /\ alignment \in Nat /\ alignment >= 1 /\ HalfWord >= alignment /\ HeaderSize = alignment
  BY Geometry, GeometryAssumption, HeapIsBlock
<1> DEFINE m == n + HeaderSize
<1>1. m \in Nat /\ m < Word + alignment
  BY <1>0
<1>2. CASE m < Word
  <2>1. Total(n) = m
    BY <1>0, <1>1, <1>2, Modulo DEF Total
  <2>2. Total(n) \in 0 .. (Word - 1)
    BY <1>0, <1>1, <1>2, <2>1
  <2> QED BY <1>2, <2>1, <2>2, SpinsWhen
<1>3. CASE ~ (m < Word)
  <2>1. m - Word \in Nat /\ m - Word < alignment /\ m - Word < Word
    BY <1>0, <1>1, <1>3
  <2>2. m % Word = m - Word
    BY <1>0, <1>1, <1>3, <2>1
  <2>3. Total(n) = m - Word
    BY <2>2 DEF Total
  <2>4. Total(n) \in 0 .. (Word - 1) /\ Total(n) < alignment
    BY <1>0, <2>1, <2>3
  <2>5. ~ Spins(Total(n))
    BY <1>0, <2>4, SpinsWhen
  <2>6. m \notin (HalfWord + 1) .. (Word - alignment)
    BY <1>0, <1>1, <1>3
  <2> QED BY <1>3, <2>4, <2>5, <2>6
<1> QED BY <1>2, <1>3

LEMMA RequestSize ==
    ASSUME NEW n \in Sizes, n # 0, ~ Spins(Total(n))
    PROVE  /\ size_required(Total(n)) \in BlockSizes
           /\ ~ Short(n) => /\ Total(n) = n + HeaderSize
                            /\ n \in Nat /\ n > 0 /\ n + HeaderSize \in Nat /\ n + HeaderSize >= alignment
                            /\ size_required(n + HeaderSize) \in BlockSizes /\ size_required(n + HeaderSize) \in Nat
                            /\ size_required(n + HeaderSize) >= n + HeaderSize
<1> DEFINE m == n + HeaderSize
           t == Total(n)
<1>1. n \in Nat /\ n > 0 /\ m \in Nat /\ m >= alignment /\ HalfWord \in Nat /\ Word = 2 * HalfWord /\ HalfWord >= 1
  BY Geometry, HeapIsBlock
<1>2. t \in 0 .. (Word - 1) /\ (m < Word => t = m)
  BY RequestSpins
<1>3. size_required(t) \in BlockSizes /\ size_required(t) \in Nat /\ size_required(t) <= HalfWord
  BY <1>2, SpinsWhen
<1>4. ASSUME ~ Short(n) PROVE size_required(t) >= m /\ t = m
  <2>1. size_required(t) >= m
    <3> HIDE DEF t, m
    <3>1. ~ (size_required(t) < m)
      BY <1>4 DEF Short, t, m
    <3> QED BY <1>1, <1>3, <3>1
  <2> HIDE DEF t, m
  <2>2. m < Word
    BY <1>1, <1>3, <2>1
  <2> QED BY <1>2, <2>1, <2>2
<1> HIDE DEF t, m
<1>5. ASSUME ~ Short(n) PROVE size_required(m) \in BlockSizes /\ size_required(m) \in Nat /\ size_required(m) >= m /\ t = m
  BY <1>3, <1>4, <1>5
<1> QED BY <1>1, <1>3, <1>5 DEF t, m

LEMMA Request ==
    ASSUME HeapInv, NEW n \in Sizes, n # 0, ~ Spins(Total(n))
    PROVE  \E B : Given(Obtain(hdr, size_required(Total(n))), B, n)
<1> DEFINE U == {OldBlock(p) : p \in DOMAIN live}
           z == [b \in U |-> hdr[b].size]
           size == size_required(Total(n))
           got == Obtain(hdr, size)
<1>1. size \in BlockSizes
  BY RequestSize
<1>2. PICK B : Owns(hdr, B, live)
  BY DEF HeapInv
<1>3. Good(hdr, B, U, z)
  BY <1>2 DEF HeapInv, Owns, Good
<1> HIDE DEF size
<1>4. PICK C : Got(got, C, size, U, z)
  <2> HIDE DEF U, z
  <2> QED BY <1>1, <1>3, Obtained
<1> HIDE DEF got
<1>5. got.h \in Headers /\ Row(got.h, C) /\ Used(got.h, C) = U /\ \A b \in U : got.h[b].size = z[b]
  BY <1>4 DEF Got, Good
<1>6. \A p \in DOMAIN live : got.h[OldBlock(p)].size = live[p] + HeaderSize
  BY <1>2, <1>5 DEF Owns
<1>7. Owns(got.h, C, live)
  BY <1>5, <1>6 DEF Owns
<1>8. Given(got, C, n)
  BY <1>4, <1>5, <1>7 DEF Given, Got, size
<1> QED BY <1>8 DEF got, size

(* The block at b goes to a caller, with n bytes. *)
WithOne(b, l, n) ==
    [p \in DOMAIN l \cup {b + HeaderSize} |-> IF p = b + HeaderSize THEN n ELSE l[p]]

LEMMA Placed ==
    ASSUME NEW h \in Headers, NEW B, NEW l, Owns(h, B, l), Allocations(l), NEW b \in B, h[b].is_free,
           NEW n \in Sizes, n # 0, ~ Spins(Total(n)), ~ Short(n),
           size_required(h[b].size) = size_required(n + HeaderSize)
    PROVE  /\ Place(h, b, n) \in Headers
           /\ Owns(Place(h, b, n), B, WithOne(b, l, n)) /\ Allocations(WithOne(b, l, n))
           /\ b + HeaderSize \notin DOMAIN l /\ b + HeaderSize + n <= NextOf(h, b)
<1> DEFINE e == Place(h, b, n)
           m == WithOne(b, l, n)
           s == n + HeaderSize
           P == b + HeaderSize
<1>0. Row(h, B) /\ Used(h, B) = {OldBlock(p) : p \in DOMAIN l} /\ HeaderSize \in Nat /\ HeapSize \in Nat /\ tail = HeapSize
  BY Geometry DEF Owns, tail
<1>1. n \in Nat /\ n > 0 /\ s \in Nat /\ s >= alignment /\ size_required(s) \in Nat /\ size_required(s) >= s
  BY RequestSize
<1>2. b \in Addresses /\ b \in Nat /\ NextOf(h, b) = b + size_required(s) /\ NextOf(h, b) <= tail
  BY <1>0, BlockIs
<1>3. s \in 0 .. HeapSize
  <2> HIDE DEF s
  <2> QED BY <1>0, <1>1, <1>2
<1>4. \A c \in B : c \in Addresses /\ c \in Nat /\ h[c].size >= alignment /\ (b < c => NextOf(h, b) <= c)
  BY <1>0, BlockIs DEF Row
<1>5. /\ e \in Headers /\ e[b].size = s /\ ~ e[b].is_free
      /\ \A c \in B : c # b => e[c] = h[c]
  <2> DEFINE new == [size |-> s, is_free |-> FALSE]
             V(a) == IF a = b THEN new ELSE IF b < a /\ a < b + size_required(s) THEN NoHeader ELSE h[a]
  <2>1. new \in AHeader /\ new.size = s /\ ~ new.is_free
    BY <1>3 DEF AHeader
  <2>2. NoHeader \in AHeader
    BY <1>0 DEF NoHeader, AHeader
  <2>3. \A a \in Addresses : h[a] \in AHeader
    BY DEF Headers, AHeader
  <2>4. e = [a \in Addresses |-> V(a)]
    BY DEF Place
  <2> HIDE DEF new, e, s
  <2>5. \A a \in Addresses : V(a) \in AHeader
    BY <2>1, <2>2, <2>3
  <2>6. e \in [Addresses -> AHeader]
    <3> HIDE DEF V
    <3> QED BY <2>4, <2>5
  <2>7. e[b] = new
    BY <2>4, <1>2
  <2>8. ASSUME NEW c \in B, c # b PROVE e[c] = h[c]
    <3>1. ~ (b < c /\ c < b + size_required(s))
      BY <1>2, <1>4, <1>1
    <3> QED BY <2>4, <2>8, <3>1, <1>4
  <2> QED BY <2>1, <2>6, <2>7, <2>8 DEF Headers, AHeader
<1>6. Row(e, B)
  <2>1. \A c \in B : e[c].size >= alignment /\ size_required(e[c].size) = size_required(h[c].size)
    <3> HIDE DEF e
    <3> QED BY <1>1, <1>4, <1>5
  <2> HIDE DEF e
  <2> QED BY <1>0, <1>5, <2>1, SameRow
<1> HIDE DEF e
<1>7. P \in Int /\ P \in Nat /\ OldBlock(P) = b
  BY <1>0, <1>2, OldBlocks
<1>8. \A p \in DOMAIN l : p \in Int /\ OldBlock(p) \in B /\ OldBlock(p) # b
                          /\ h[OldBlock(p)].size = l[p] + HeaderSize /\ p # P
  <2> SUFFICES ASSUME NEW p \in DOMAIN l
               PROVE p \in Int /\ OldBlock(p) \in B /\ OldBlock(p) # b
                          /\ h[OldBlock(p)].size = l[p] + HeaderSize /\ p # P
    OBVIOUS
  <2>1. p \in Nat /\ OldBlock(p) \in B /\ ~ h[OldBlock(p)].is_free /\ h[OldBlock(p)].size = l[p] + HeaderSize
    BY Owned
  <2>2. OldBlock(p) # b
    BY <2>1
  <2> QED BY <2>1, <2>2, <1>7
<1>9. DOMAIN m = DOMAIN l \cup {P} /\ m[P] = n /\ \A p \in DOMAIN l : m[p] = l[p]
  BY <1>8 DEF WithOne
<1>10. P + n <= NextOf(h, b) /\ P <= HeapSize
  BY <1>0, <1>1, <1>2
<1>11. Allocations(m)
  <2>1. \A p \in DOMAIN m : m[p] \in Sizes \ {0}
    <3> HIDE DEF m
    <3> QED BY <1>9 DEF Allocations
  <2>2. m = [p \in DOMAIN m |-> m[p]]
    BY DEF WithOne
  <2>3. DOMAIN m \subseteq 0 .. HeapSize
    <3> HIDE DEF m, P
    <3> QED BY <1>0, <1>7, <1>9, <1>10 DEF Allocations
  <2> HIDE DEF m
  <2> QED BY <2>1, <2>2, <2>3 DEF Allocations
<1> HIDE DEF m, P, s
<1>12. \A c : c \in {OldBlock(p) : p \in DOMAIN m} <=> (c = b \/ c \in {OldBlock(p) : p \in DOMAIN l})
  BY <1>7, <1>9
<1>13. Used(e, B) = {OldBlock(p) : p \in DOMAIN m}
  <2>1. \A c \in B : ~ e[c].is_free <=> (c = b \/ ~ h[c].is_free)
    BY <1>5
  <2>2. \A c : c \in Used(e, B) <=> (c = b \/ c \in Used(h, B))
    BY <2>1 DEF Used
  <2> QED BY <2>2, <1>0, <1>12
<1>14. \A p \in DOMAIN m : e[OldBlock(p)].size = m[p] + HeaderSize
  BY <1>5, <1>7, <1>8, <1>9 DEF s
<1>15. Owns(e, B, m)
  BY <1>6, <1>13, <1>14 DEF Owns
<1>16. P \notin DOMAIN l
  BY <1>8
<1> QED BY <1>5, <1>10, <1>11, <1>15, <1>16 DEF e, m, P

(* The block of p is free again, and as large as it was. *)
Gone(l, p) == [q \in DOMAIN l \ {p} |-> l[q]]

LEMMA Released ==
    ASSUME NEW h \in Headers, NEW B, NEW l, Owns(h, B, l), Allocations(l), NEW p \in DOMAIN l,
           NEW e \in Headers, e[OldBlock(p)].is_free, e[OldBlock(p)].size >= alignment,
           size_required(e[OldBlock(p)].size) = size_required(h[OldBlock(p)].size),
           \A c \in Addresses : c # OldBlock(p) => e[c] = h[c]
    PROVE  Owns(e, B, Gone(l, p)) /\ Allocations(Gone(l, p))
<1> DEFINE m == Gone(l, p)
           o == OldBlock(p)
<1>0. Row(h, B) /\ Used(h, B) = {OldBlock(q) : q \in DOMAIN l} /\ o \in B
  BY Owned DEF Owns
<1>1. \A c \in B : c \in Addresses /\ h[c].size >= alignment
  BY <1>0, BlockIs
<1>2. Row(e, B)
  <2>1. \A c \in B : e[c].size >= alignment /\ size_required(e[c].size) = size_required(h[c].size)
    BY <1>1
  <2> QED BY <1>0, <2>1, SameRow
<1>3. DOMAIN m = DOMAIN l \ {p} /\ \A q \in DOMAIN m : m[q] = l[q]
  BY DEF Gone
<1>4. Allocations(m)
  BY <1>3 DEF Allocations, Gone
<1>5. \A q \in DOMAIN l : q # p => OldBlock(q) # o /\ OldBlock(q) \in Addresses /\ h[OldBlock(q)].size = l[q] + HeaderSize
  <2>1. \A q \in DOMAIN l : q \in Int /\ OldBlock(q) \in Addresses /\ h[OldBlock(q)].size = l[q] + HeaderSize
    BY Owned
  <2> QED BY <2>1, OldBlocks
<1> HIDE DEF m
<1>6. \A c : c \in {OldBlock(q) : q \in DOMAIN m} <=> (c # o /\ c \in {OldBlock(q) : q \in DOMAIN l})
  BY <1>3, <1>5
<1>7. Used(e, B) = {OldBlock(q) : q \in DOMAIN m}
  <2>1. \A c \in B : ~ e[c].is_free <=> (c # o /\ ~ h[c].is_free)
    BY <1>1
  <2>2. \A c : c \in Used(e, B) <=> (c # o /\ c \in Used(h, B))
    BY <2>1 DEF Used
  <2> QED BY <2>2, <1>0, <1>6
<1>8. \A q \in DOMAIN m : e[OldBlock(q)].size = m[q] + HeaderSize
  BY <1>3, <1>5
<1>9. Owns(e, B, m)
  BY <1>2, <1>7, <1>8 DEF Owns
<1> QED BY <1>4, <1>9 DEF m

(* The allocation at p has n bytes from now on, in the block it has. *)
LEMMA Grown ==
    ASSUME NEW h \in Headers, NEW B, NEW l, Owns(h, B, l), Allocations(l), NEW p \in DOMAIN l,
           NEW n \in Sizes, n # 0, ~ Spins(Total(n)), ~ Short(n),
           size_required(h[OldBlock(p)].size) = size_required(n + HeaderSize)
    PROVE  /\ WithSize(h, OldBlock(p), n + HeaderSize) \in Headers
           /\ Owns(WithSize(h, OldBlock(p), n + HeaderSize), B, [l EXCEPT ![p] = n])
           /\ Allocations([l EXCEPT ![p] = n])
           /\ p + n <= NextOf(h, OldBlock(p))
<1> DEFINE o == OldBlock(p)
           s == n + HeaderSize
           e == WithSize(h, o, s)
           m == [l EXCEPT ![p] = n]
<1>0. Row(h, B) /\ Used(h, B) = {OldBlock(q) : q \in DOMAIN l} /\ o \in B /\ o \in Addresses
      /\ ~ h[o].is_free /\ p \in Nat /\ p = o + HeaderSize
  BY Owned DEF Owns
<1>1. n \in Nat /\ s \in Nat /\ s >= alignment /\ size_required(s) \in Nat /\ size_required(s) >= s
      /\ HeapSize \in Nat /\ HeaderSize \in Nat
  BY RequestSize, Geometry
<1>2. o \in Nat /\ NextOf(h, o) = o + size_required(s) /\ NextOf(h, o) <= tail
  BY <1>0, BlockIs
<1>3. s \in 0 .. HeapSize
  <2> HIDE DEF s, o
  <2> QED BY <1>1, <1>2 DEF tail
<1>4. e \in Headers /\ e[o].size = s /\ e[o].is_free = h[o].is_free
      /\ \A c \in Addresses : c # o => e[c] = h[c]
  <2> HIDE DEF s, o
  <2> QED BY <1>0, <1>3, SetSize
<1>5. \A c \in B : c \in Addresses /\ h[c].size >= alignment
  BY <1>0, BlockIs
<1> HIDE DEF e
<1>6. Row(e, B)
  <2>1. \A c \in B : e[c].size >= alignment /\ size_required(e[c].size) = size_required(h[c].size)
    BY <1>1, <1>4, <1>5
  <2> QED BY <1>0, <1>4, <2>1, SameRow
<1>7. l \in [DOMAIN l -> Sizes \ {0}] /\ DOMAIN l \subseteq 0 .. HeapSize
  BY DEF Allocations
<1>8. DOMAIN m = DOMAIN l /\ m[p] = n /\ \A q \in DOMAIN l : q # p => m[q] = l[q]
  BY <1>7
<1>9. Allocations(m)
  <2>1. m \in [DOMAIN l -> Sizes \ {0}]
    BY <1>7
  <2> QED BY <2>1, <1>7, <1>8 DEF Allocations
<1> HIDE DEF m
<1>10. \A q \in DOMAIN l : q # p => OldBlock(q) # o /\ OldBlock(q) \in Addresses /\ h[OldBlock(q)].size = l[q] + HeaderSize
  <2>1. \A q \in DOMAIN l : q \in Int /\ OldBlock(q) \in Addresses /\ h[OldBlock(q)].size = l[q] + HeaderSize
    BY Owned
  <2> QED BY <2>1, OldBlocks
<1>11. Used(e, B) = {OldBlock(q) : q \in DOMAIN m}
  <2>1. \A c \in B : e[c].is_free = h[c].is_free
    BY <1>4, <1>5
  <2>2. Used(e, B) = Used(h, B)
    BY <2>1 DEF Used
  <2> QED BY <2>2, <1>0, <1>8
<1>12. \A q \in DOMAIN m : e[OldBlock(q)].size = m[q] + HeaderSize
  BY <1>4, <1>8, <1>10
<1>13. Owns(e, B, m)
  BY <1>6, <1>11, <1>12 DEF Owns
<1>14. p + n <= NextOf(h, o)
  <2> HIDE DEF o
  <2> QED BY <1>0, <1>1, <1>2
<1> QED BY <1>4, <1>9, <1>13, <1>14 DEF e, m

(* n bytes in a free block meet no allocation and lie in the heap. *)
LEMMA Fitting ==
    ASSUME NEW h \in Headers, NEW B, Owns(h, B, live), Allocations(live), NEW b \in B,
           NEW n \in Nat, b + HeaderSize + n <= NextOf(h, b), NEW freed,
           \A p \in DOMAIN live : OldBlock(p) = b => p \in freed
    PROVE  H!Fits(b + HeaderSize, n, freed)
<1> DEFINE P == b + HeaderSize
           e == NextOf(h, b)
<1>0. Row(h, B) /\ HeaderSize \in Nat /\ HeapSize \in Nat
  BY Geometry DEF Owns
<1>1. b \in Nat /\ e \in Nat /\ e <= HeapSize /\ P \in Nat /\ P + n <= e /\ b <= P
  BY <1>0, BlockIs DEF tail
<1>2. P .. (P + n - 1) \subseteq 0 .. (HeapSize - 1)
  <2> HIDE DEF P, e
  <2> QED BY <1>0, <1>1
<1>3. ASSUME NEW q \in DOMAIN live \ freed PROVE (P .. (P + n - 1)) \cap (q .. (q + live[q] - 1)) = {}
  <2> DEFINE o == OldBlock(q)
             m == live[q]
             f == NextOf(h, o)
  <2>1. q \in DOMAIN live
    OBVIOUS
  <2>2. o \in B /\ q \in Nat /\ q = o + HeaderSize /\ m \in Nat /\ q + m <= f /\ o # b
    BY <2>1, Owned
  <2>3. o \in Nat /\ f \in Nat
    BY <1>0, <2>2, BlockIs
  <2>4. (o < b => f <= b) /\ (b < o => e <= o)
    BY <1>0, <2>2 DEF Row
  <2> HIDE DEF P, e, o, m, f
  <2>5. q + m <= P \/ P + n <= q
    <3>1. CASE o < b
      BY <3>1, <2>2, <2>3, <2>4, <1>0, <1>1
    <3>2. CASE b < o
      BY <3>2, <2>2, <2>3, <2>4, <1>0, <1>1
    <3> QED BY <3>1, <3>2, <2>2, <2>3, <1>1
  <2>6. (P .. (P + n - 1)) \cap (q .. (q + m - 1)) = {}
    BY <2>2, <2>5, <1>1
  <2> QED BY <2>6 DEF m
<1> QED BY <1>2, <1>3 DEF H!Fits, H!Bytes

-----------------------------------------------------------------------------
(* Every operation keeps the invariant, and does to the callers' allocations   *)
(* what the heap's promise says.                                               *)

LEMMA InitInv ==
    ASSUME Init
    PROVE  HeapInv
<1> DEFINE B == {head}
<1>0. HeapSize \in Nat /\ alignment \in Nat /\ HeapSize >= alignment /\ head \in Addresses /\ size_required(HeapSize) = HeapSize
  BY Geometry, HeapIsBlock, SizeOfBlock
<1>1. FirstHeader \in AHeader /\ NoHeader \in AHeader /\ FirstHeader.size = HeapSize /\ FirstHeader.is_free
  BY <1>0 DEF FirstHeader, NoHeader, AHeader
<1>2. hdr \in [Addresses -> AHeader] /\ hdr[head] = FirstHeader
  BY <1>0, <1>1 DEF Init
<1>3. hdr \in Headers
  BY <1>2 DEF Headers, AHeader
<1>4. NextOf(hdr, head) = tail
  BY <1>0, <1>1, <1>2 DEF NextOf, head, tail
<1>5. Row(hdr, B)
  BY <1>0, <1>1, <1>2, <1>4 DEF Row, head
<1>6. Used(hdr, B) = {}
  BY <1>1, <1>2 DEF Used
<1>7. DOMAIN live = {} /\ Allocations(live)
  BY <1>0 DEF Init, Allocations
<1>8. Owns(hdr, B, live)
  BY <1>5, <1>6, <1>7 DEF Owns
<1> QED BY <1>3, <1>7, <1>8 DEF HeapInv, Init

LEMMA Unserved ==
    ASSUME HeapInv, NEW got, NEW B, got.h \in Headers, Owns(got.h, B, live), NEW n, NotServed(got, n)
    PROVE  HeapInv' /\ UNCHANGED live
<1>1. CASE got.found = NULL /\ hdr' = got.h /\ outcome' = "failed" /\ UNCHANGED live
  <2>1. hdr' \in Headers /\ Owns(hdr', B, live') /\ Allocations(live')
    BY <1>1 DEF HeapInv
  <2> QED BY <1>1, <2>1 DEF HeapInv
<1>2. CASE hdr' = hdr /\ outcome' = "wild" /\ UNCHANGED live
  BY <1>2 DEF HeapInv
<1> QED BY <1>1, <1>2 DEF NotServed

LEMMA MallocStep ==
    ASSUME HeapInv, NEW n \in Sizes, malloc(n)
    PROVE  HeapInv' /\ (H!Malloc(n) \/ UNCHANGED live)
<1> DEFINE got == Obtain(hdr, size_required(Total(n)))
           b == got.found
<1>1. n # 0 /\ ~ Spins(Total(n))
  BY DEF malloc
<1>2. PICK B : Given(got, B, n)
  BY <1>1, Request
<1>3. got.h \in Headers /\ Owns(got.h, B, live) /\ Allocations(live)
  BY <1>2 DEF Given, HeapInv
<1>4. CASE NotServed(got, n)
  <2> HIDE DEF got
  <2> QED BY <1>3, <1>4, Unserved
<1>5. CASE /\ b # NULL /\ ~ Short(n) /\ hdr' = Place(got.h, b, n) /\ live' = Own(b, n) /\ outcome' = "ok"
  <2>1. hdr' = Place(got.h, b, n) /\ live' = Own(b, n) /\ outcome' = "ok"
    BY <1>5
  <2>2. b \in B /\ got.h[b].is_free /\ size_required(got.h[b].size) = size_required(n + HeaderSize)
    BY <1>1, <1>2, <1>5, RequestSize DEF Given
  <2> HIDE DEF got, b
  <2> DEFINE h == got.h
  <2>3. Own(b, n) = WithOne(b, live, n)
    BY DEF Own, WithOne
  <2>4. /\ Place(h, b, n) \in Headers
        /\ Owns(Place(h, b, n), B, WithOne(b, live, n)) /\ Allocations(WithOne(b, live, n))
        /\ b + HeaderSize \notin DOMAIN live /\ b + HeaderSize + n <= NextOf(h, b)
    <3> HIDE DEF h
    <3>1. h \in Headers /\ Owns(h, B, live) /\ b \in B /\ h[b].is_free
          /\ size_required(h[b].size) = size_required(n + HeaderSize)
      BY <1>3, <2>2 DEF h
    <3> QED BY <1>1, <1>3, <1>5, <3>1, Placed
  <2>5. hdr' \in Headers /\ Owns(hdr', B, live') /\ Allocations(live')
    BY <2>1, <2>3, <2>4
  <2>6. HeapInv'
    BY <2>1, <2>5 DEF HeapInv
  <2>7. H!Fits(b + HeaderSize, n, {})
    <3> HIDE DEF h
    <3>1. \A p \in DOMAIN live : OldBlock(p) # b
      <4>1. \A p \in DOMAIN live : ~ h[OldBlock(p)].is_free
        BY <1>3, Owned DEF h
      <4> QED BY <4>1, <2>2 DEF h
    <3>2. n \in Nat
      BY Geometry
    <3> QED BY <1>3, <2>2, <2>4, <3>1, <3>2, Fitting DEF h
  <2>8. live' = H!With(live, b + HeaderSize, n) /\ b + HeaderSize \in DOMAIN live'
    BY <2>1 DEF Own, H!With
  <2> QED BY <2>6, <2>7, <2>8 DEF H!Malloc
<1> QED BY <1>4, <1>5 DEF malloc

LEMMA FreeStep ==
    ASSUME HeapInv, NEW p \in DOMAIN live, free(p)
    PROVE  HeapInv' /\ H!Free(p)
<1> DEFINE o == OldBlock(p)
           s == hdr[o].size
           r == Freed(hdr[o])
<1>1. PICK B : Owns(hdr, B, live)
  BY DEF HeapInv
<1>2. hdr \in Headers /\ Allocations(live) /\ Row(hdr, B)
  BY <1>1 DEF HeapInv, Owns
<1>3. o \in B /\ o \in Addresses
  BY <1>1, <1>2, Owned
<1>4. /\ size_required(s) \in BlockSizes /\ size_required(s) \in Nat /\ s >= alignment
      /\ size_required(s) >= s /\ NextOf(hdr, o) = o + size_required(s) /\ NextOf(hdr, o) <= tail /\ o \in Nat
  BY <1>2, <1>3, BlockIs
<1>5. size_required(s) <= HeapSize /\ size_required(s) <= HalfWord /\ size_required(s) >= alignment
  <2>1. s \in Nat
    BY <1>2, <1>3, HeaderIs
  <2> HIDE DEF s, o
  <2> QED BY <1>4, <2>1, Geometry DEF tail
<1>6. size_required(size_required(s)) = size_required(s)
  BY <1>4, <1>5, SizeOfBlock
<1>7. r \in AHeader /\ r.size = size_required(s) /\ r.is_free
  BY <1>4, <1>5, Geometry DEF Freed, AHeader
<1>8. hdr' = WithHeader(hdr, o, r)
  BY <1>2, <1>3 DEF free, WithHeader, Headers
<1> HIDE DEF r, s
<1>9. hdr' \in Headers /\ hdr'[o] = r /\ \A c \in Addresses : c # o => hdr'[c] = hdr[c]
  BY <1>2, <1>3, <1>7, <1>8, SetHeader
<1>10. hdr'[o].is_free /\ hdr'[o].size >= alignment /\ size_required(hdr'[o].size) = size_required(hdr[o].size)
  BY <1>5, <1>6, <1>7, <1>9 DEF s
<1>11. Owns(hdr', B, Gone(live, p)) /\ Allocations(Gone(live, p))
  <2> DEFINE e == hdr'
  <2>1. e \in Headers /\ e[OldBlock(p)].is_free /\ e[OldBlock(p)].size >= alignment
        /\ size_required(e[OldBlock(p)].size) = size_required(hdr[OldBlock(p)].size)
        /\ \A c \in Addresses : c # OldBlock(p) => e[c] = hdr[c]
    BY <1>9, <1>10
  <2> HIDE DEF e
  <2>2. Owns(e, B, Gone(live, p)) /\ Allocations(Gone(live, p))
    BY <1>1, <1>2, <2>1, Released
  <2> QED BY <2>2 DEF e
<1>12. live' = Gone(live, p) /\ outcome' = "ok" /\ live' = H!Without(p)
  BY DEF free, Disown, Gone, H!Without
<1>13. HeapInv'
  BY <1>9, <1>11, <1>12 DEF HeapInv
<1> QED BY <1>12, <1>13 DEF H!Free

LEMMA GrowStep ==
    ASSUME HeapInv, NEW p \in DOMAIN live, NEW n \in Sizes, reallocInPlace(p, n)
    PROVE  HeapInv' /\ H!Realloc(p, n)
<1> DEFINE o == OldBlock(p)
<1>1. PICK B : Owns(hdr, B, live)
  BY DEF HeapInv
<1>2. hdr \in Headers /\ Allocations(live) /\ Row(hdr, B)
  BY <1>1 DEF HeapInv, Owns
<1>3. o \in B /\ o \in Addresses /\ live[p] \in Nat /\ p \in Nat /\ p = o + HeaderSize
  BY <1>1, <1>2, Owned
<1>4. n \in Nat /\ n # 0 /\ size_required(hdr[o].size) = size_required(n + HeaderSize) /\ outcome' = "ok"
      /\ live' = [live EXCEPT ![p] = n] /\ ~ Spins(Total(n)) /\ ~ Short(n)
  <2>1. n \in Nat /\ n # 0 /\ ~ Spins(Total(n)) /\ ~ Short(n)
    BY <1>3, Geometry DEF reallocInPlace
  <2>2. Total(n) = n + HeaderSize
    BY <2>1, RequestSize
  <2> QED BY <2>1, <2>2 DEF reallocInPlace
<1>5. hdr' = WithSize(hdr, o, n + HeaderSize)
  BY DEF reallocInPlace, WithSize
<1>6. /\ WithSize(hdr, o, n + HeaderSize) \in Headers
      /\ Owns(WithSize(hdr, o, n + HeaderSize), B, [live EXCEPT ![p] = n])
      /\ Allocations([live EXCEPT ![p] = n])
      /\ p + n <= NextOf(hdr, o)
  BY <1>1, <1>2, <1>4, Grown
<1>7. hdr' \in Headers /\ Owns(hdr', B, live') /\ Allocations(live')
  BY <1>4, <1>5, <1>6
<1>8. HeapInv'
  BY <1>4, <1>7 DEF HeapInv
<1> HIDE DEF o
<1>9. H!Fits(p, n, {p})
  <2>1. \A q \in DOMAIN live : OldBlock(q) = o => q \in {p}
    <3>1. \A q \in DOMAIN live : q \in Int
      BY <1>1, <1>2, Owned
    <3> QED BY <3>1, OldBlocks DEF o
  <2>2. o + HeaderSize + n <= NextOf(hdr, o)
    BY <1>3, <1>6
  <2>3. H!Fits(o + HeaderSize, n, {p})
    BY <1>1, <1>2, <1>3, <1>4, <2>1, <2>2, Fitting
  <2> QED BY <2>3, <1>3
<1>10. live' = H!With(live, p, n)
  <2>1. live \in [DOMAIN live -> Sizes \ {0}] /\ DOMAIN live \cup {p} = DOMAIN live
    BY <1>2 DEF Allocations
  <2>2. [live EXCEPT ![p] = n] = [q \in DOMAIN live |-> IF q = p THEN n ELSE live[q]]
    BY <2>1
  <2> QED BY <1>4, <2>1, <2>2 DEF H!With
<1> QED BY <1>8, <1>9, <1>10 DEF H!Realloc

LEMMA MoveStep ==
    ASSUME HeapInv, NEW p \in DOMAIN live, NEW n \in Sizes, reallocMoves(p, n)
    PROVE  HeapInv' /\ (H!Realloc(p, n) \/ UNCHANGED live)
<1> DEFINE got == Obtain(hdr, size_required(Total(n)))
           b == got.found
           o == OldBlock(p)
<1>0. Allocations(live) /\ n \in Nat /\ n # 0 /\ ~ Spins(Total(n))
  BY Geometry DEF HeapInv, Allocations, reallocMoves
<1>2. PICK B : Given(got, B, n)
  BY <1>0, Request
<1>3. got.h \in Headers /\ Owns(got.h, B, live)
  BY <1>2 DEF Given
<1>4. CASE NotServed(got, n)
  <2> HIDE DEF got
  <2> QED BY <1>3, <1>4, Unserved
<1>5. CASE /\ b # NULL /\ ~ Short(n) /\ outcome' = "ok"
           /\ hdr' = [Place(got.h, b, n) EXCEPT ![o].is_free = TRUE]
           /\ live' = Disown(Own(b, n), p)
  <2>1. hdr' = [Place(got.h, b, n) EXCEPT ![o].is_free = TRUE]
        /\ live' = Disown(Own(b, n), p) /\ outcome' = "ok"
    BY <1>5
  <2>2. b \in B /\ got.h[b].is_free /\ size_required(got.h[b].size) = size_required(n + HeaderSize)
    BY <1>0, <1>2, <1>5, RequestSize DEF Given
  <2> DEFINE h == got.h
             e == Place(h, b, n)
             m == WithOne(b, live, n)
             P == b + HeaderSize
  <2>3. Own(b, n) = m
    BY DEF Own, WithOne
  <2> HIDE DEF got, b
  <2>4. e \in Headers /\ Owns(e, B, m) /\ Allocations(m) /\ P \notin DOMAIN live /\ P + n <= NextOf(h, b)
    <3> HIDE DEF h
    <3>1. h \in Headers /\ Owns(h, B, live) /\ b \in B /\ h[b].is_free
          /\ size_required(h[b].size) = size_required(n + HeaderSize)
      BY <1>3, <2>2 DEF h
    <3> QED BY <1>0, <1>5, <3>1, Placed
  <2>5. p \in DOMAIN m /\ P \in DOMAIN m /\ P # p /\ DOMAIN m = DOMAIN live \cup {P}
    BY <2>4 DEF WithOne
  <2> HIDE DEF e, m, h
  <2>6. o \in B /\ o \in Addresses
    BY <2>4, <2>5, Owned
  <2> DEFINE r == [e[o] EXCEPT !.is_free = TRUE]
             f == WithHeader(e, o, r)
  <2>7. hdr' = f
    BY <2>1, <2>4, <2>6 DEF WithHeader, Headers, e, h
  <2>8. r \in AHeader /\ r.size = e[o].size /\ r.is_free
    <3>1. e[o] \in AHeader
      BY <2>4, <2>6 DEF Headers, AHeader
    <3> QED BY <3>1 DEF AHeader
  <2> HIDE DEF r
  <2>9. f \in Headers /\ f[o] = r /\ \A c \in Addresses : c # o => f[c] = e[c]
    BY <2>4, <2>6, <2>8, SetHeader
  <2>10. e[o].size >= alignment
    BY <2>4, <2>6, BlockIs DEF Owns
  <2> HIDE DEF f
  <2>11. Owns(f, B, Gone(m, p)) /\ Allocations(Gone(m, p))
    <3>1. f[OldBlock(p)].is_free /\ f[OldBlock(p)].size >= alignment
          /\ size_required(f[OldBlock(p)].size) = size_required(e[OldBlock(p)].size)
      BY <2>8, <2>9, <2>10
    <3> QED BY <2>4, <2>5, <2>9, <3>1, Released
  <2>12. live' = Gone(m, p)
    BY <2>1, <2>3 DEF Disown, Gone
  <2>13. HeapInv'
    BY <2>1, <2>7, <2>9, <2>11, <2>12 DEF HeapInv
  <2>14. H!Fits(P, n, {})
    <3>1. \A q \in DOMAIN live : OldBlock(q) # b
      <4>1. \A q \in DOMAIN live : ~ h[OldBlock(q)].is_free
        BY <1>0, <1>3, Owned DEF h
      <4> QED BY <4>1, <2>2 DEF h
    <3> QED BY <1>0, <1>3, <2>2, <2>4, <3>1, Fitting DEF h
  <2>15. live' = H!With(H!Without(p), P, n) /\ P \in DOMAIN live'
    <3>1. Gone(m, p) = [q \in (DOMAIN live \ {p}) \cup {P} |-> IF q = P THEN n ELSE live[q]]
      <4>1. DOMAIN m \ {p} = (DOMAIN live \ {p}) \cup {P}
        BY <2>5
      <4>2. \A q \in DOMAIN m : m[q] = IF q = P THEN n ELSE live[q]
        BY DEF m, WithOne
      <4> QED BY <4>1, <4>2 DEF Gone
    <3>2. H!With(H!Without(p), P, n) = [q \in (DOMAIN live \ {p}) \cup {P} |-> IF q = P THEN n ELSE live[q]]
      BY DEF H!With, H!Without
    <3>3. P \in DOMAIN live'
      <4>1. P \in DOMAIN Gone(m, p)
        BY <3>1
      <4> QED BY <4>1, <2>12
    <3> QED BY <3>1, <3>2, <3>3, <2>12
  <2> QED BY <2>13, <2>14, <2>15 DEF H!Realloc
<1> QED BY <1>4, <1>5 DEF reallocMoves

LEMMA StepInv ==
    ASSUME HeapInv, [Next]_vars
    PROVE  HeapInv' /\ [H!Next]_live
<1>1. ASSUME NEW n \in Sizes, malloc(n) PROVE HeapInv' /\ [H!Next]_live
  BY <1>1, MallocStep DEF H!Next
<1>2. ASSUME NEW p \in DOMAIN live, free(p) PROVE HeapInv' /\ [H!Next]_live
  BY <1>2, FreeStep DEF H!Next
<1>3. ASSUME NEW p \in DOMAIN live, NEW n \in Sizes, reallocInPlace(p, n) PROVE HeapInv' /\ [H!Next]_live
  BY <1>3, GrowStep DEF H!Next
<1>4. ASSUME NEW p \in DOMAIN live, NEW n \in Sizes, reallocMoves(p, n) PROVE HeapInv' /\ [H!Next]_live
  BY <1>4, MoveStep DEF H!Next
<1>5. CASE UNCHANGED vars
  <2>1. hdr' = hdr /\ live' = live /\ outcome' = outcome
    BY <1>5 DEF vars
  <2> QED BY <2>1 DEF HeapInv
<1>6. ASSUME NEW n \in Sizes, requestSpins(n) PROVE HeapInv' /\ [H!Next]_live
  BY <1>6 DEF requestSpins, HeapInv
<1> QED BY <1>1, <1>2, <1>3, <1>4, <1>5, <1>6 DEF Next

-----------------------------------------------------------------------------
(* The theorems. *)

(* In every state the headers from the head on make a row of blocks that ends  *)
(* at the tail, and those in use are the callers' allocations: whatever        *)
(* find_best merges on its way, split_until splits and realloc leaves behind   *)
(* half filled.                                                                *)
THEOREM HeapInvariance == Spec => []HeapInv
<1>1. Init => HeapInv
  BY InitInv
<1>2. HeapInv /\ [Next]_vars => HeapInv'
  BY StepInv
<1> QED BY <1>1, <1>2, PTL DEF Spec

(* No header ever says more than the heap has, and no allocation is outside of *)
(* it.                                                                         *)
THEOREM Types == Spec => []TypeOK
<1>1. HeapInv => TypeOK
  BY DEF HeapInv, TypeOK, Headers, Allocations
<1> QED BY <1>1, HeapInvariance, PTL

(* The headers lead from the head exactly to the tail, and the blocks in use   *)
(* are the callers' own, each as large as its owner was told.                  *)
THEOREM HeadersAreRight == Spec => []HeadersTell
<1>1. HeapInv => HeadersTell
  <2> SUFFICES ASSUME HeapInv PROVE HeadersTell
    OBVIOUS
  <2>1. PICK B : Owns(hdr, B, live)
    BY DEF HeapInv
  <2>2. Blocks = B /\ \E b \in B : NextOf(hdr, b) = tail
    BY <2>1, Walked DEF HeapInv, Owns
  <2> QED BY <2>1, <2>2 DEF Owns, Used, HeadersTell
<1> QED BY <1>1, HeapInvariance, PTL

(* malloc, realloc and free keep every allocation to itself: no operation, nor *)
(* the coalescing and splitting it does on the way, hands out bytes that       *)
(* another caller still owns, or bytes outside the heap.                       *)
THEOREM Refinement == Spec => ImplementsHeap
<1>1. Init => H!Init
  BY DEF Init, H!Init
<1>2. HeapInv /\ [Next]_vars => [H!Next]_live
  BY StepInv
<1> QED BY <1>1, <1>2, HeapInvariance, PTL DEF Spec, ImplementsHeap, H!Spec

LEMMA FindEnding ==
    ASSUME NEW h, NEW B, NEW U, NEW z, Good(h, B, U, z), NEW size \in BlockSizes
    PROVE  FindEnds(h, size)
<1> DEFINE x == Scan(h, size)
<1>1. x \in ScanStates(size, U, z) /\ ~ InRange(x) /\ head \in B
  BY ScanEnds DEF Good, Row
<1>2. PICK C : Scanning(x, C, size, U, z)
  BY <1>1 DEF ScanStates
<1> HIDE DEF x
<1>3. ASSUME x.best # NULL PROVE ~ (size < Halve(x.h, x.best, size).actual)
  <2>1. Good(x.h, C, U, z) /\ x.best \in C /\ x.h[x.best].is_free
    BY <1>2, <1>3 DEF Scanning
  <2> QED BY <2>1, HalveEnds
<1>4. h[head].is_free => ~ (size < Halve(h, head, size).actual)
  BY <1>1, HalveEnds
<1> QED BY <1>1, <1>3, <1>4 DEF FindEnds, x

(* The requests that never end are those for more than half of the address     *)
(* space whose size does not wrap around, and no others: every other request   *)
(* comes to the end of all its loops, whatever callers have asked for, given   *)
(* back and resized before.                                                    *)
THEOREM RequestsEnd == Spec => []OperationsEnd
<1>1. HeapInv => OperationsEnd
  <2> SUFFICES ASSUME HeapInv, NEW n \in Sizes \ {0}
               PROVE  LET actual == size_required(Total(n))
                          first == find_best(hdr, actual)
                      IN  /\ Spins(Total(n)) <=> n + HeaderSize \in (HalfWord + 1) .. (Word - alignment)
                          /\ ~ Spins(Total(n)) =>
                              /\ FindEnds(hdr, actual)
                              /\ first.found = NULL =>
                                  CoalescenceEnds(first.h) /\ FindEnds(coalescence(first.h), actual)
    BY DEF OperationsEnd
  <2> DEFINE actual == size_required(Total(n))
             first == find_best(hdr, actual)
             U == {OldBlock(p) : p \in DOMAIN live}
             z == [b \in U |-> hdr[b].size]
  <2>0. n \in Sizes /\ n # 0
    OBVIOUS
  <2>1. Spins(Total(n)) <=> n + HeaderSize \in (HalfWord + 1) .. (Word - alignment)
    BY <2>0, RequestSpins
  <2>2. ASSUME ~ Spins(Total(n))
        PROVE  FindEnds(hdr, actual) /\ CoalescenceEnds(first.h) /\ FindEnds(coalescence(first.h), actual)
    <3>1. actual \in BlockSizes
      BY <2>0, <2>2, RequestSize
    <3>2. PICK B : Owns(hdr, B, live)
      BY DEF HeapInv
    <3>3. Good(hdr, B, U, z)
      BY <3>2 DEF HeapInv, Owns, Good
    <3> HIDE DEF actual, U, z
    <3>4. FindEnds(hdr, actual)
      BY <3>1, <3>3, FindEnding
    <3>5. PICK C : Good(first.h, C, U, z)
      BY <3>1, <3>3, FindBest DEF Got
    <3> HIDE DEF first
    <3>6. CoalescenceEnds(first.h)
      BY <3>5, OnePass, PassesEnd DEF CoalescenceEnds
    <3>7. PICK D : Good(coalescence(first.h), D, U, z)
      BY <3>5, Coalesced
    <3>8. FindEnds(coalescence(first.h), actual)
      BY <3>1, <3>7, FindEnding
    <3> QED BY <3>4, <3>6, <3>8
  <2> QED BY <2>1, <2>2
<1> QED BY <1>1, HeapInvariance, PTL
=============================================================================
