-------------------------- MODULE SecureHeapProofs --------------------------
(***************************************************************************)
(* Proofs about SecureHeap for an arena of any number of levels and        *)
(* requests of any sizes: the tables, the lists and the program's pointers *)
(* agree and no assertion fails, every region without memory in use is     *)
(* found, and what is handed out is zero.                                  *)
(***************************************************************************)
EXTENDS SecureHeap, SequenceTheorems, FiniteSetTheorems, NaturalsInduction,
        WellFoundedInduction, TLAPS

(***************************************************************************)
(* Induction, and powers of two.                                           *)
(***************************************************************************)

\* Induction over the natural numbers, with a set for the predicate.
LEMMA SetInduction ==
    ASSUME NEW T, 0 \in T, \A n \in Nat : n \in T => n + 1 \in T
    PROVE  Nat \subseteq T
  <1> DEFINE R == OpToRel(<, Nat)
             C == Nat \ T
  <1>1. IsWellFoundedOn(R, Nat)
    BY NatLessThanWellFounded, Zenon
  <1>2. \A x, y \in Nat : <<x, y>> \in R <=> x < y
    BY DEF OpToRel
  <1> HIDE DEF R
  <1> SUFFICES ASSUME C # {} PROVE FALSE
    OBVIOUS
  <1>3. C \in SUBSET Nat
    OBVIOUS
  <1> HIDE DEF C
  <1>4. PICK m \in C : \A y \in C : ~(<<y, m>> \in R)
    BY <1>1, <1>3, WFMin
  <1>5. m \in Nat /\ m \notin T
    BY DEF C
  <1>6. m # 0 /\ m - 1 \in Nat /\ m - 1 < m /\ (m - 1) + 1 = m
    BY <1>5
  <1>7. m - 1 \notin C
    BY <1>2, <1>4, <1>5, <1>6
  <1> QED
    BY <1>5, <1>6, <1>7 DEF C

\* Induction over an interval.
LEMMA IntervalInduction ==
    ASSUME NEW T, NEW a \in Nat, NEW b \in Nat, a \in T,
           \A n \in a..b - 1 : n \in T => n + 1 \in T
    PROVE  a..b \subseteq T
  <1> DEFINE U == {n \in Nat : a + n <= b => a + n \in T}
  <1>1. 0 \in U
    OBVIOUS
  <1>2. \A n \in Nat : n \in U => n + 1 \in U
    <2> SUFFICES ASSUME NEW n \in Nat, n \in U, a + (n + 1) <= b
                 PROVE  a + (n + 1) \in T
      OBVIOUS
    <2>1. a + n \in a..b - 1 /\ a + n <= b /\ (a + n) + 1 = a + (n + 1)
      OBVIOUS
    <2>2. a + n \in T
      BY <2>1
    <2> QED
      BY <2>1, <2>2
  <1> HIDE DEF U
  <1>3. Nat \subseteq U
    BY <1>1, <1>2, SetInduction
  <1> SUFFICES ASSUME NEW n \in a..b PROVE n \in T
    OBVIOUS
  <1>4. n - a \in Nat /\ a + (n - a) = n /\ n <= b
    OBVIOUS
  <1>5. n - a \in U
    BY <1>3, <1>4
  <1> QED
    BY <1>4, <1>5 DEF U

\* The recursive function is one.
LEMMA PowDef ==
    Pow2 = [n \in Nat |-> IF n = 0 THEN 1 ELSE 2 * Pow2[n - 1]]
  <1> DEFINE Double(v, n) == 2 * v
  <1>1. NatInductiveDefHypothesis(Pow2, 1, Double)
    BY DEF NatInductiveDefHypothesis, Pow2
  <1>2. NatInductiveDefConclusion(Pow2, 1, Double)
    BY <1>1, NatInductiveDef
  <1> QED
    BY <1>2 DEF NatInductiveDefConclusion

\* 1 << n is positive, and doubles.
LEMMA PowFacts ==
    /\ Pow2[0] = 1
    /\ \A n \in Nat : /\ Pow2[n] \in Nat /\ Pow2[n] > 0
                      /\ Pow2[n + 1] = 2 * Pow2[n]
  <1>1. Pow2[0] = 1
    BY PowDef
  <1>2. \A n \in Nat : Pow2[n + 1] = 2 * Pow2[n]
    <2> TAKE n \in Nat
    <2>1. n + 1 \in Nat /\ n + 1 # 0 /\ (n + 1) - 1 = n
      OBVIOUS
    <2> QED
      BY <2>1, PowDef
  <1> DEFINE T == {n \in Nat : Pow2[n] \in Nat /\ Pow2[n] > 0}
  <1>3. 0 \in T
    BY <1>1
  <1>4. \A n \in Nat : n \in T => n + 1 \in T
    BY <1>2
  <1>5. Nat \subseteq T
    <2> HIDE DEF T
    <2> QED
      BY <1>3, <1>4, SetInduction
  <1> QED
    BY <1>1, <1>2, <1>5

\* The sizes of the lists: halves from each list to the next, one unit for
\* the last.
LEMMA SizeFacts ==
    /\ LEVELS \in Nat /\ LEVELS >= 2 /\ ARENA \in Nat /\ ARENA > 0
    /\ \A l \in Lists : /\ l \in Nat
                        /\ SizeOf(l) \in Nat /\ SizeOf(l) > 0
                        /\ Pow2[l] \in Nat /\ Pow2[l] > 0
    /\ SizeOf(0) = ARENA /\ Pow2[0] = 1
    /\ \A l \in Lists : l < LEVELS =>
         /\ l + 1 \in Lists
         /\ SizeOf(l) = 2 * SizeOf(l + 1) /\ Pow2[l + 1] = 2 * Pow2[l]
  <1>1. LEVELS \in Nat /\ LEVELS >= 2
    BY HeapAssumption
  <1>2. ARENA \in Nat /\ ARENA > 0 /\ SizeOf(0) = ARENA
    BY <1>1, PowFacts DEF ARENA, SizeOf
  <1>3. \A l \in Lists : l \in Nat /\ LEVELS - l \in Nat
    BY <1>1 DEF Lists
  <1>4. ASSUME NEW l \in Lists, l < LEVELS
        PROVE  /\ l + 1 \in Lists
               /\ SizeOf(l) = 2 * SizeOf(l + 1) /\ Pow2[l + 1] = 2 * Pow2[l]
    <2>1. /\ l + 1 \in Lists /\ LEVELS - (l + 1) \in Nat
          /\ (LEVELS - (l + 1)) + 1 = LEVELS - l
      BY <1>1, <1>4 DEF Lists
    <2> QED
      BY <2>1, <1>3, PowFacts DEF SizeOf
  <1> QED
    BY <1>1, <1>2, <1>3, <1>4, PowFacts DEF SizeOf

\* Multiples of a size are that far apart.
LEMMA Apart ==
    ASSUME NEW a \in Nat, NEW b \in Nat, NEW s \in Nat
    PROVE  /\ a * s \in Nat
           /\ a <= b => a * s <= b * s
           /\ a < b => a * s + s <= b * s
  <1>1. a * s \in Nat
    OBVIOUS
  <1>2. ASSUME a <= b PROVE a * s <= b * s
    <2>1. PICK c \in Nat : b = a + c
      <3>1. b - a \in Nat /\ b = a + (b - a)
        BY <1>2
      <3> QED
        BY <3>1
    <2>2. b * s = a * s + c * s
      BY <2>1
    <2>3. c * s \in Nat /\ b * s \in Nat
      OBVIOUS
    <2> QED
      BY <1>1, <2>2, <2>3
  <1>3. ASSUME a < b PROVE a * s + s <= b * s
    <2>1. PICK c \in Nat : b = (a + c) + 1
      <3>1. (b - a) - 1 \in Nat /\ b = (a + ((b - a) - 1)) + 1
        BY <1>3
      <3> QED
        BY <3>1
    <2>2. b * s = (a * s + c * s) + s
      BY <2>1
    <2>3. c * s \in Nat /\ b * s \in Nat
      OBVIOUS
    <2> QED
      BY <1>1, <2>2, <2>3
  <1> QED
    BY <1>1, <1>2, <1>3

\* The blocks of a list fill the arena.
LEMMA Area ==
    ASSUME NEW l \in Lists
    PROVE  Pow2[l] * SizeOf(l) = ARENA
  <1> DEFINE T == {n \in Lists : Pow2[n] * SizeOf(n) = ARENA}
  <1>1. 0 \in T
    BY SizeFacts DEF Lists
  <1>2. ASSUME NEW n \in 0..LEVELS - 1, n \in T
        PROVE  n + 1 \in T
    <2>1. n \in Lists /\ n < LEVELS
      BY SizeFacts DEF Lists
    <2>2. /\ n + 1 \in Lists /\ SizeOf(n) = 2 * SizeOf(n + 1)
          /\ Pow2[n + 1] = 2 * Pow2[n]
      BY <2>1, SizeFacts
    <2> DEFINE s == SizeOf(n + 1)
               k == Pow2[n]
    <2>3. s \in Nat /\ k \in Nat /\ k * (2 * s) = ARENA
      BY <2>1, <2>2, <1>2, SizeFacts
    <2> HIDE DEF s, k
    <2>4. (2 * k) * s = k * (2 * s)
      BY <2>3
    <2> QED
      BY <2>2, <2>3, <2>4 DEF s, k
  <1>3. 0..LEVELS \subseteq T
    <2>1. 0 \in Nat /\ LEVELS \in Nat
      BY SizeFacts
    <2> HIDE DEF T
    <2> QED
      BY <1>1, <1>2, <2>1, IntervalInduction
  <1> QED
    BY <1>3 DEF Lists

\* A block of a list is a number of blocks of a later one.
LEMMA Divides ==
    ASSUME NEW l \in Lists, NEW m \in Lists, l <= m
    PROVE  \E d \in Nat \ {0} : SizeOf(l) = d * SizeOf(m)
  <1> DEFINE T == {n \in Lists : \E d \in Nat \ {0} : SizeOf(l) = d * SizeOf(n)}
  <1>1. l \in T
    <2>1. SizeOf(l) = 1 * SizeOf(l)
      BY SizeFacts
    <2> QED
      BY <2>1
  <1>2. ASSUME NEW n \in l..LEVELS - 1, n \in T
        PROVE  n + 1 \in T
    <2>1. n \in Lists /\ n < LEVELS
      BY SizeFacts DEF Lists
    <2>2. n + 1 \in Lists /\ SizeOf(n) = 2 * SizeOf(n + 1) /\ SizeOf(n + 1) \in Nat
      BY <2>1, SizeFacts
    <2>3. PICK d \in Nat \ {0} : SizeOf(l) = d * SizeOf(n)
      BY <1>2
    <2>4. 2 * d \in Nat \ {0} /\ SizeOf(l) = (2 * d) * SizeOf(n + 1)
      BY <2>2, <2>3
    <2> QED
      BY <2>2, <2>4
  <1>3. l..LEVELS \subseteq T
    <2>1. l \in Nat /\ LEVELS \in Nat
      BY SizeFacts
    <2> HIDE DEF T
    <2> QED
      BY <1>1, <1>2, <2>1, IntervalInduction
  <1>4. m \in l..LEVELS
    BY SizeFacts DEF Lists
  <1> QED
    BY <1>3, <1>4

(***************************************************************************)
(* Addresses.  A block of a list starts at a multiple of its size.         *)
(***************************************************************************)

Aligned(p, l) == p \in Units /\ l \in Lists /\ p % SizeOf(l) = 0

\* The multiples of a size, and their bits.
LEMMA MultipleIsAligned ==
    ASSUME NEW l \in Lists, NEW i \in 0..Pow2[l] - 1
    PROVE  /\ Aligned(i * SizeOf(l), l)
           /\ i * SizeOf(l) + SizeOf(l) <= ARENA
           /\ Bit(i * SizeOf(l), l) = Pow2[l] + i
  <1> DEFINE s == SizeOf(l)
             k == Pow2[l]
  <1>1. s \in Nat /\ s > 0 /\ k \in Nat /\ k * s = ARENA /\ i \in Nat /\ i < k
    BY SizeFacts, Area
  <1>2. ARENA \in Nat
    BY SizeFacts
  <1> HIDE DEF s, k
  <1>3. i * s \in Nat /\ i * s + s <= k * s
    BY <1>1, Apart
  <1>4. (i * s) % s = 0 /\ (i * s) \div s = i
    BY <1>1
  <1>5. i * s \in Units
    BY <1>1, <1>2, <1>3 DEF Units
  <1> QED
    BY <1>1, <1>3, <1>4, <1>5 DEF Aligned, Bit, s, k

\* And there are no other aligned addresses.
LEMMA AlignedIsMultiple ==
    ASSUME NEW p, NEW l, Aligned(p, l)
    PROVE  \E i \in 0..Pow2[l] - 1 : p = i * SizeOf(l)
  <1> DEFINE s == SizeOf(l)
             k == Pow2[l]
             i == p \div s
  <1>1. /\ s \in Nat /\ s > 0 /\ k \in Nat /\ k * s = ARENA
        /\ p \in Nat /\ p < ARENA /\ p % s = 0 /\ l \in Lists
    BY SizeFacts, Area DEF Aligned, Units
  <1> HIDE DEF s, k
  <1>2. i \in Nat /\ p = i * s
    BY <1>1
  <1> HIDE DEF i
  <1>3. i < k
    <2> SUFFICES ASSUME k <= i PROVE FALSE
      BY <1>1, <1>2
    <2>1. k * s <= i * s
      BY <1>1, <1>2, Apart
    <2> QED
      BY <1>1, <1>2, <2>1
  <1> QED
    BY <1>1, <1>2, <1>3 DEF s, k

\* A block lies in the arena.
LEMMA BlockInArena ==
    ASSUME NEW p, NEW l, Aligned(p, l)
    PROVE  /\ Block(p, l) \subseteq Units /\ p \in Block(p, l)
           /\ p \in Nat /\ SizeOf(l) \in Nat /\ SizeOf(l) > 0
           /\ p + SizeOf(l) <= ARENA
           /\ IsFiniteSet(Block(p, l)) /\ Cardinality(Block(p, l)) = SizeOf(l)
  <1>1. PICK i \in 0..Pow2[l] - 1 : p = i * SizeOf(l)
    BY AlignedIsMultiple
  <1>2. l \in Lists /\ p \in Units
    BY DEF Aligned
  <1>3. SizeOf(l) \in Nat /\ SizeOf(l) > 0 /\ ARENA \in Nat /\ p \in Nat
    BY <1>2, SizeFacts DEF Units
  <1>4. p + SizeOf(l) <= ARENA
    BY <1>1, <1>2, MultipleIsAligned
  <1>5. Block(p, l) \subseteq Units /\ p \in Block(p, l)
    BY <1>3, <1>4 DEF Block, Units
  <1>6. IsFiniteSet(Block(p, l)) /\ Cardinality(Block(p, l)) = SizeOf(l)
    <2>1. p \in Int /\ p + SizeOf(l) - 1 \in Int /\ ~(p > p + SizeOf(l) - 1)
          /\ (p + SizeOf(l) - 1) - p + 1 = SizeOf(l)
      BY <1>3
    <2> QED
      BY <2>1, FS_Interval DEF Block
  <1> QED
    BY <1>3, <1>4, <1>5, <1>6

\* Blocks that meet lie one in the other.
LEMMA Nested ==
    ASSUME NEW p, NEW l, NEW q, NEW m, Aligned(p, l), Aligned(q, m), l <= m,
           Block(p, l) \cap Block(q, m) # {}
    PROVE  Block(q, m) \subseteq Block(p, l)
  <1> DEFINE s == SizeOf(m)
  <1>1. l \in Lists /\ m \in Lists /\ p \in Nat /\ q \in Nat
    BY BlockInArena DEF Aligned
  <1>2. PICK d \in Nat \ {0} : SizeOf(l) = d * s
    BY <1>1, Divides
  <1>3. PICK i \in 0..Pow2[l] - 1 : p = i * SizeOf(l)
    BY AlignedIsMultiple
  <1>4. PICK j \in 0..Pow2[m] - 1 : q = j * s
    BY AlignedIsMultiple
  <1>5. i \in Nat /\ j \in Nat /\ s \in Nat /\ s > 0 /\ d \in Nat
    BY <1>1, SizeFacts
  <1>6. PICK u : u \in p..p + SizeOf(l) - 1 /\ u \in q..q + s - 1
    BY DEF Block
  <1> DEFINE a == i * d
             b == (i + 1) * d
  <1>7. a \in Nat /\ b \in Nat /\ p = a * s /\ p + SizeOf(l) = b * s
    BY <1>2, <1>3, <1>5
  <1>8. SizeOf(l) = b * s - a * s /\ a * s \in Nat /\ b * s \in Nat
    <2>1. a * s \in Nat /\ b * s \in Nat /\ SizeOf(l) \in Nat
      BY <1>1, <1>5, <1>7, SizeFacts
    <2> QED
      BY <2>1, <1>7
  <1> HIDE DEF a, b, s
  <1>9. a <= j
    <2> SUFFICES ASSUME j < a PROVE FALSE
      BY <1>5, <1>7
    <2>1. j * s + s <= a * s /\ j * s \in Nat
      BY <1>5, <1>7, Apart
    <2> QED
      BY <2>1, <1>4, <1>5, <1>6, <1>7, <1>8
  <1>10. j < b
    <2> SUFFICES ASSUME b <= j PROVE FALSE
      BY <1>5, <1>7
    <2>1. b * s <= j * s /\ j * s \in Nat
      BY <1>5, <1>7, Apart
    <2> QED
      BY <2>1, <1>4, <1>5, <1>6, <1>7, <1>8
  <1>11. a * s <= j * s /\ j * s + s <= b * s
    BY <1>5, <1>7, <1>9, <1>10, Apart
  <1>12. q..q + s - 1 \subseteq p..p + SizeOf(l) - 1
    BY <1>1, <1>4, <1>5, <1>7, <1>8, <1>11
  <1> QED
    BY <1>12 DEF Block, s

\* Blocks of a list that meet are the same.
LEMMA SameList ==
    ASSUME NEW p, NEW q, NEW l, Aligned(p, l), Aligned(q, l),
           Block(p, l) \cap Block(q, l) # {}
    PROVE  p = q
  <1>1. l \in Lists /\ l <= l
    BY SizeFacts DEF Aligned
  <1>2. Block(q, l) \subseteq Block(p, l) /\ Block(p, l) \subseteq Block(q, l)
    BY <1>1, Nested
  <1>3. p \in Block(q, l) /\ q \in Block(p, l) /\ p \in Nat /\ q \in Nat
    BY <1>2, BlockInArena
  <1>4. p >= q /\ q >= p
    BY <1>3 DEF Block
  <1> QED
    BY <1>3, <1>4

\* The bits of a list have numbers of their own.
LEMMA BitRange ==
    ASSUME NEW p, NEW l, Aligned(p, l)
    PROVE  /\ l \in Lists /\ Pow2[l] \in Nat /\ Pow2[l] > 0
           /\ Bit(p, l) \in Pow2[l]..2 * Pow2[l] - 1
           /\ Bit(p, l) \in 1..2 * ARENA - 1
  <1>1. l \in Lists
    BY DEF Aligned
  <1>2. PICK i \in 0..Pow2[l] - 1 : p = i * SizeOf(l)
    BY AlignedIsMultiple
  <1>3. Bit(p, l) = Pow2[l] + i
    BY <1>1, <1>2, MultipleIsAligned
  <1>4. /\ Pow2[l] \in Nat /\ Pow2[l] > 0 /\ SizeOf(l) \in Nat /\ SizeOf(l) > 0
        /\ ARENA \in Nat
    BY <1>1, SizeFacts
  <1>5. Pow2[l] <= ARENA
    <2>1. 1 * Pow2[l] <= SizeOf(l) * Pow2[l]
      BY <1>4, Apart
    <2>2. SizeOf(l) * Pow2[l] = ARENA
      BY <1>1, <1>4, Area
    <2> QED
      BY <2>1, <2>2, <1>4
  <1> QED
    BY <1>1, <1>2, <1>3, <1>4, <1>5

\* Later lists have higher numbers.
LEMMA PowGrows ==
    ASSUME NEW l \in Lists, NEW m \in Lists, l < m
    PROVE  2 * Pow2[l] <= Pow2[m]
  <1> DEFINE T == {n \in Lists : 2 * Pow2[l] <= Pow2[n]}
  <1>1. l \in Nat /\ LEVELS \in Nat /\ l + 1 \in Nat /\ l < LEVELS
    BY SizeFacts DEF Lists
  <1>2. l + 1 \in T
    BY <1>1, SizeFacts
  <1>3. ASSUME NEW n \in l + 1..LEVELS - 1, n \in T
        PROVE  n + 1 \in T
    <2>1. n \in Lists /\ n < LEVELS
      BY <1>1 DEF Lists
    <2> QED
      BY <2>1, <1>3, SizeFacts
  <1>4. l + 1..LEVELS \subseteq T
    <2> HIDE DEF T
    <2> QED
      BY <1>1, <1>2, <1>3, IntervalInduction
  <1>5. m \in l + 1..LEVELS
    BY <1>1 DEF Lists
  <1> QED
    BY <1>4, <1>5

\* A bit is of one block.
LEMMA BitInjective ==
    ASSUME NEW p, NEW l, NEW q, NEW m, Aligned(p, l), Aligned(q, m),
           Bit(p, l) = Bit(q, m)
    PROVE  p = q /\ l = m
  <1>1. /\ l \in Lists /\ m \in Lists /\ Pow2[l] \in Nat /\ Pow2[m] \in Nat
        /\ Bit(p, l) \in Pow2[l]..2 * Pow2[l] - 1
        /\ Bit(p, l) \in Pow2[m]..2 * Pow2[m] - 1
    BY BitRange
  <1>2. ~(l < m)
    <2> SUFFICES ASSUME l < m PROVE FALSE
      OBVIOUS
    <2>1. 2 * Pow2[l] <= Pow2[m]
      BY <1>1, PowGrows
    <2> QED
      BY <1>1, <2>1
  <1>3. ~(m < l)
    <2> SUFFICES ASSUME m < l PROVE FALSE
      OBVIOUS
    <2>1. 2 * Pow2[m] <= Pow2[l]
      BY <1>1, PowGrows
    <2> QED
      BY <1>1, <2>1
  <1>4. l = m
    <2>1. l \in Nat /\ m \in Nat
      BY <1>1, SizeFacts
    <2> QED
      BY ONLY <1>2, <1>3, <2>1
  <1>5. PICK i \in 0..Pow2[l] - 1 : p = i * SizeOf(l)
    BY AlignedIsMultiple
  <1>6. PICK j \in 0..Pow2[l] - 1 : q = j * SizeOf(l)
    BY <1>4, AlignedIsMultiple
  <1>7. Bit(p, l) = Pow2[l] + i /\ Bit(q, l) = Pow2[l] + j
    BY <1>1, <1>5, <1>6, MultipleIsAligned
  <1>8. i = j
    BY <1>1, <1>4, <1>7
  <1> QED
    BY <1>4, <1>5, <1>6, <1>8

\* The two halves of a block.
LEMMA Halves ==
    ASSUME NEW p, NEW l, Aligned(p, l), l < LEVELS
    PROVE  LET q == p + SizeOf(l + 1)
           IN  /\ l + 1 \in Lists /\ Aligned(p, l + 1) /\ Aligned(q, l + 1)
               /\ q > p
               /\ Bit(p, l + 1) = 2 * Bit(p, l) /\ Bit(q, l + 1) = 2 * Bit(p, l) + 1
               /\ Block(p, l) = Block(p, l + 1) \cup Block(q, l + 1)
               /\ Block(p, l + 1) \cap Block(q, l + 1) = {}
  <1> DEFINE s == SizeOf(l + 1)
             q == p + s
             k == Pow2[l]
  <1>1. l \in Lists
    BY DEF Aligned
  <1>2. /\ l + 1 \in Lists /\ SizeOf(l) = 2 * s /\ Pow2[l + 1] = 2 * k
        /\ k \in Nat /\ k > 0
    BY <1>1, SizeFacts
  <1>3. s \in Nat /\ s > 0 /\ p \in Nat
    BY <1>2, SizeFacts, BlockInArena
  <1>4. PICK i \in 0..k - 1 : p = i * SizeOf(l)
    BY AlignedIsMultiple
  <1>5. Bit(p, l) = k + i
    BY <1>1, <1>4, MultipleIsAligned
  <1>6. /\ 2 * i \in 0..Pow2[l + 1] - 1 /\ 2 * i + 1 \in 0..Pow2[l + 1] - 1
    BY <1>2
  <1> HIDE DEF s, k
  <1>7. p = (2 * i) * s /\ q = (2 * i + 1) * s
    BY <1>2, <1>3, <1>4
  <1>8. /\ Aligned(p, l + 1) /\ Bit(p, l + 1) = Pow2[l + 1] + 2 * i
        /\ Aligned(q, l + 1) /\ Bit(q, l + 1) = Pow2[l + 1] + (2 * i + 1)
    <2> HIDE DEF q
    <2> QED
      BY <1>2, <1>6, <1>7, MultipleIsAligned DEF s
  <1>9. Bit(p, l + 1) = 2 * Bit(p, l) /\ Bit(q, l + 1) = 2 * Bit(p, l) + 1
    <2> HIDE DEF q
    <2> QED
      BY <1>2, <1>4, <1>5, <1>8
  <1>10. /\ p..p + 2 * s - 1 = (p..p + s - 1) \cup (q..q + s - 1)
         /\ (p..p + s - 1) \cap (q..q + s - 1) = {} /\ q > p
    BY <1>3
  <1> QED
    BY <1>2, <1>8, <1>9, <1>10 DEF Block, s

\* Every block but the arena is a half of another.
LEMMA Parent ==
    ASSUME NEW p, NEW l, Aligned(p, l), l >= 1
    PROVE  /\ l \in Nat /\ l - 1 \in Lists /\ l - 1 < LEVELS /\ (l - 1) + 1 = l
           /\ \E r : Aligned(r, l - 1) /\ p \in {r, r + SizeOf(l)}
  <1>1. l \in Lists
    BY DEF Aligned
  <1>2. l \in Nat /\ l - 1 \in Lists /\ l - 1 < LEVELS /\ (l - 1) + 1 = l
    BY <1>1, SizeFacts DEF Lists
  <1> DEFINE s == SizeOf(l)
             k == Pow2[l - 1]
  <1>3. /\ SizeOf(l - 1) = 2 * s /\ Pow2[l] = 2 * k /\ k \in Nat
        /\ s \in Nat
    BY <1>1, <1>2, SizeFacts
  <1>4. PICK i \in 0..2 * k - 1 : p = i * s
    BY <1>3, AlignedIsMultiple
  <1> DEFINE j == i \div 2
  <1>5. j \in 0..k - 1 /\ (i = 2 * j \/ i = 2 * j + 1)
    BY <1>3, <1>4
  <1> HIDE DEF s, j
  <1>6. Aligned(j * SizeOf(l - 1), l - 1)
    BY <1>2, <1>5, MultipleIsAligned
  <1>7. p = j * (2 * s) \/ p = j * (2 * s) + s
    BY <1>3, <1>4, <1>5
  <1> QED
    BY <1>2, <1>3, <1>6, <1>7 DEF s

\* The other half of the block that this one is a half of, and its start.
Mate(p, l) == IF Bit(p, l) % 2 = 0 THEN p + SizeOf(l) ELSE p - SizeOf(l)
Low(p, l) == IF Bit(p, l) % 2 = 0 THEN p ELSE p - SizeOf(l)

\* What the halves of r are to each other.
LEMMA MatesOfHalves ==
    ASSUME NEW r, NEW l, Aligned(r, l), l < LEVELS
    PROVE  LET q == r + SizeOf(l + 1)
           IN  /\ Mate(r, l + 1) = q /\ Mate(q, l + 1) = r
               /\ Low(r, l + 1) = r /\ Low(q, l + 1) = r
  <1> DEFINE s == SizeOf(l + 1)
             q == r + s
  <1>1. /\ Bit(r, l + 1) = 2 * Bit(r, l) /\ Bit(q, l + 1) = 2 * Bit(r, l) + 1
        /\ l + 1 \in Lists
    BY Halves
  <1>2. Bit(r, l) \in Nat /\ r \in Nat /\ s \in Nat
    BY <1>1, BitRange, BlockInArena, SizeFacts
  <1>3. Bit(r, l + 1) % 2 = 0 /\ Bit(q, l + 1) % 2 # 0
    <2> HIDE DEF q, s
    <2> QED
      BY <1>1, <1>2
  <1>4. q - s = r
    BY <1>2
  <1> QED
    BY <1>3, <1>4 DEF Mate, Low

\* The buddy of a block.
LEMMA MateFacts ==
    ASSUME NEW p, NEW l, Aligned(p, l), l >= 1
    PROVE  /\ l - 1 \in Lists /\ l - 1 < LEVELS /\ (l - 1) + 1 = l
           /\ Aligned(Mate(p, l), l) /\ Aligned(Low(p, l), l - 1)
           /\ Mate(p, l) # p /\ Mate(Mate(p, l), l) = p
           /\ {p, Mate(p, l)} = {Low(p, l), Low(p, l) + SizeOf(l)}
           /\ Low(p, l) = IF p > Mate(p, l) THEN Mate(p, l) ELSE p
           /\ Block(Low(p, l), l - 1) = Block(p, l) \cup Block(Mate(p, l), l)
           /\ Block(p, l) \cap Block(Mate(p, l), l) = {}
  <1>1. /\ l \in Nat /\ l - 1 \in Lists /\ l - 1 < LEVELS /\ (l - 1) + 1 = l
        /\ \E r : Aligned(r, l - 1) /\ p \in {r, r + SizeOf(l)}
    BY Parent
  <1>2. PICK r : Aligned(r, l - 1) /\ p \in {r, r + SizeOf(l)}
    BY <1>1
  <1> DEFINE q == r + SizeOf(l)
  <1>3. /\ Aligned(r, l) /\ Aligned(q, l) /\ q > r
        /\ Block(r, l - 1) = Block(r, l) \cup Block(q, l)
        /\ Block(r, l) \cap Block(q, l) = {}
    <2> DEFINE k == l - 1
    <2>1. k + 1 = l /\ k < LEVELS /\ Aligned(r, k)
      BY <1>1, <1>2
    <2> HIDE DEF k
    <2>2. LET t == r + SizeOf(k + 1)
          IN  /\ Aligned(r, k + 1) /\ Aligned(t, k + 1) /\ t > r
              /\ Block(r, k) = Block(r, k + 1) \cup Block(t, k + 1)
              /\ Block(r, k + 1) \cap Block(t, k + 1) = {}
      BY ONLY <2>1, Halves
    <2> QED
      BY ONLY <2>1, <2>2 DEF k
  <1>4. /\ Mate(r, l) = q /\ Mate(q, l) = r
        /\ Low(r, l) = r /\ Low(q, l) = r
    BY <1>1, <1>2, MatesOfHalves
  <1>5. r \in Nat /\ q \in Nat
    BY <1>3, BlockInArena
  <1>6. CASE p = r
    <2> HIDE DEF q
    <2>1. Mate(p, l) = q /\ Low(p, l) = p /\ ~(p > q) /\ q # p
      BY <1>3, <1>4, <1>5, <1>6
    <2>2. {p, q} = {p, p + SizeOf(l)}
      BY <1>6 DEF q
    <2>3. /\ Aligned(q, l) /\ Aligned(p, l - 1) /\ Mate(q, l) = p
          /\ Block(p, l - 1) = Block(p, l) \cup Block(q, l)
          /\ Block(p, l) \cap Block(q, l) = {}
      BY <1>2, <1>3, <1>4, <1>6
    <2> QED
      BY ONLY <2>1, <2>2, <2>3, <1>1
  <1>7. CASE p = q
    <2> HIDE DEF q
    <2>1. Mate(p, l) = r /\ Low(p, l) = r /\ p > r
      BY <1>3, <1>4, <1>5, <1>7
    <2>2. {p, r} = {r, r + SizeOf(l)}
      BY <1>7 DEF q
    <2>3. /\ Aligned(r, l) /\ Aligned(r, l - 1) /\ Mate(r, l) = p /\ r # p
          /\ Block(r, l - 1) = Block(p, l) \cup Block(r, l)
          /\ Block(p, l) \cap Block(r, l) = {}
      BY <1>2, <1>3, <1>4, <1>5, <1>7
    <2> QED
      BY ONLY <2>1, <2>2, <2>3, <1>1
  <1> QED
    BY <1>2, <1>6, <1>7

\* sh_find_my_buddy finds it, if it is a free block.
LEMMA FindBuddy ==
    ASSUME NEW p, NEW l, Aligned(p, l), l >= 1, NEW h
    PROVE  sh_find_my_buddy(h, p, l) =
             IF /\ Bit(Mate(p, l), l) \in h.bittable
                /\ Bit(Mate(p, l), l) \notin h.bitmalloc
               THEN {Mate(p, l)} ELSE {}
  <1> DEFINE q == Mate(p, l)
             bit == Bit(p, l)
             other == IF bit % 2 = 0 THEN bit + 1 ELSE bit - 1
  <1>1. Aligned(q, l) /\ l \in Lists
    BY MateFacts DEF Aligned
  <1>2. Bit(q, l) = other
    <2>1. /\ l \in Nat /\ l - 1 \in Lists /\ l - 1 < LEVELS /\ (l - 1) + 1 = l
          /\ \E r : Aligned(r, l - 1) /\ p \in {r, r + SizeOf(l)}
      BY Parent
    <2>2. PICK r : Aligned(r, l - 1) /\ p \in {r, r + SizeOf(l)}
      BY <2>1
    <2> DEFINE s == r + SizeOf(l)
    <2>3. /\ Bit(r, l) = 2 * Bit(r, l - 1) /\ Bit(s, l) = 2 * Bit(r, l - 1) + 1
          /\ Mate(r, l) = s /\ Mate(s, l) = r
      BY <2>1, <2>2, Halves, MatesOfHalves
    <2>4. Bit(r, l - 1) \in Nat
      BY <2>2, BitRange
    <2> HIDE DEF s
    <2>5. p = r \/ p = s
      BY <2>2 DEF s
    <2> QED
      BY <2>3, <2>4, <2>5
  <1>3. PICK j \in 0..Pow2[l] - 1 : q = j * SizeOf(l)
    BY <1>1, AlignedIsMultiple
  <1>4. Bit(q, l) = Pow2[l] + j
    BY <1>1, <1>3, MultipleIsAligned
  <1>5. Pow2[l] \in Nat /\ Pow2[l] > 0
    BY <1>1, SizeFacts
  <1>6. Bit(q, l) % Pow2[l] = j
    BY <1>3, <1>4, <1>5
  <1>7. (other % Pow2[l]) * SizeOf(l) = q
    <2> HIDE DEF other, q
    <2> QED
      BY <1>2, <1>3, <1>6
  <1> HIDE DEF q
  <1>8. sh_find_my_buddy(h, p, l) =
          IF other \in h.bittable /\ other \notin h.bitmalloc
            THEN {(other % Pow2[l]) * SizeOf(l)} ELSE {}
    BY DEF sh_find_my_buddy
  <1> HIDE DEF other
  <1>9. sh_find_my_buddy(h, p, l) =
          IF Bit(q, l) \in h.bittable /\ Bit(q, l) \notin h.bitmalloc THEN {q} ELSE {}
    BY <1>2, <1>7, <1>8
  <1> QED
    BY <1>9 DEF q

(***************************************************************************)
(* The free lists as sequences.                                            *)
(***************************************************************************)

\* The index of an entry is found.
LEMMA MinOfInterval ==
    ASSUME NEW n \in Nat, NEW I, I \subseteq 1..n, I # {}
    PROVE  Min(I) \in I
  <1> DEFINE R == OpToRel(<, Nat)
  <1>1. IsWellFoundedOn(R, Nat)
    BY NatLessThanWellFounded, Zenon
  <1>2. \A x, y \in Nat : <<x, y>> \in R <=> x < y
    BY DEF OpToRel
  <1> HIDE DEF R
  <1>3. I \in SUBSET Nat
    OBVIOUS
  <1>4. PICK m \in I : \A y \in I : ~(<<y, m>> \in R)
    BY <1>1, <1>3, WFMin
  <1>5. \A y \in I : m <= y
    <2> TAKE y \in I
    <2>1. y \in Nat /\ m \in Nat
      BY <1>3
    <2>2. ~(y < m)
      BY <1>2, <1>4, <2>1
    <2> QED
      BY <2>1, <2>2
  <1> QED
    BY <1>4, <1>5 DEF Min

\* An interval has the largest element of each of its parts.
LEMMA MaxOfInterval ==
    ASSUME NEW n \in Nat, NEW I, I \subseteq 0..n, I # {}
    PROVE  Max(I) \in I /\ \A y \in I : Max(I) >= y
  <1> DEFINE J == {n - x : x \in I}
             R == OpToRel(<, Nat)
  <1>1. IsWellFoundedOn(R, Nat)
    BY NatLessThanWellFounded, Zenon
  <1>2. \A x, y \in Nat : <<x, y>> \in R <=> x < y
    BY DEF OpToRel
  <1> HIDE DEF R
  <1>3. J \in SUBSET Nat /\ J # {}
    <2>1. \A x \in I : n - x \in Nat
      OBVIOUS
    <2> QED
      BY <2>1
  <1>4. PICK m \in J : \A y \in J : ~(<<y, m>> \in R)
    BY <1>1, <1>3, WFMin
  <1>5. PICK x \in I : m = n - x
    BY <1>4
  <1>6. \A y \in I : x >= y
    <2> TAKE y \in I
    <2>1. n - y \in J /\ n - y \in Nat /\ m \in Nat /\ x \in Nat /\ y \in Nat
      BY <1>3, <1>4
    <2>2. ~(n - y < m)
      BY <1>2, <1>4, <2>1
    <2> QED
      BY <2>1, <2>2, <1>5
  <1> QED
    BY <1>5, <1>6 DEF Max

\* Without one of its entries, a list has the others.
LEMMA RemoveFromSeq ==
    ASSUME NEW S, NEW s \in Seq(S), IsInjective(s), NEW p, p \in ToSet(s)
    PROVE  LET t == RemoveFirst(s, p)
           IN  t \in Seq(S) /\ IsInjective(t) /\ ToSet(t) = ToSet(s) \ {p}
  <1> DEFINE n == Len(s)
             I == {i \in 1..n : s[i] = p}
             k == Min(I)
             a == SubSeq(s, 1, k - 1)
             b == SubSeq(s, k + 1, n)
             t == a \o b
  <1>1. n \in Nat /\ DOMAIN s = 1..n /\ \A i \in 1..n : s[i] \in S
    BY LenProperties
  <1>2. I # {} /\ I \subseteq 1..n
    BY <1>1 DEF ToSet
  <1>3. k \in I
    <2> HIDE DEF I
    <2> QED
      BY <1>1, <1>2, MinOfInterval
  <1>4. RemoveFirst(s, p) = t
    <2>1. \E i \in 1..Len(s) : s[i] = p
      BY <1>2
    <2>2. RemoveFirst(s, p) = RemoveAt(s, SelectInSeq(s, LAMBDA v : v = p))
      BY <2>1 DEF RemoveFirst
    <2>3. SelectInSeq(s, LAMBDA v : v = p) = k
      BY <1>2 DEF SelectInSeq
    <2> QED
      BY <2>2, <2>3 DEF RemoveAt
  <1>5. k \in 1..n /\ s[k] = p
    BY <1>3
  <1> HIDE DEF I, k, n
  <1>6. /\ a \in Seq(S) /\ Len(a) = k - 1
        /\ \A i \in 1..k - 1 : a[i] = s[i]
    <2>1. 1 \in Int /\ k - 1 \in Int /\ \A i \in 1..k - 1 : s[i] \in S
      BY <1>1, <1>5
    <2>2. /\ a \in Seq(S) /\ Len(a) = IF 1 <= k - 1 THEN (k - 1) - 1 + 1 ELSE 0
          /\ \A i \in 1..(k - 1) - 1 + 1 : a[i] = s[1 + i - 1]
      BY <2>1, SubSeqProperties
    <2> HIDE DEF a
    <2> QED
      BY <2>2, <1>1, <1>5
  <1>7. /\ b \in Seq(S) /\ Len(b) = n - k
        /\ \A i \in 1..n - k : b[i] = s[k + i]
    <2>1. k + 1 \in Int /\ n \in Int /\ \A i \in k + 1..n : s[i] \in S
      BY <1>1, <1>5
    <2>2. /\ b \in Seq(S) /\ Len(b) = IF k + 1 <= n THEN n - (k + 1) + 1 ELSE 0
          /\ \A i \in 1..n - (k + 1) + 1 : b[i] = s[(k + 1) + i - 1]
      BY <2>1, SubSeqProperties
    <2> HIDE DEF b
    <2> QED
      BY <2>2, <1>1, <1>5
  <1> HIDE DEF a, b
  <1>8. /\ t \in Seq(S) /\ Len(t) = n - 1
        /\ \A i \in 1..n - 1 : t[i] = IF i < k THEN s[i] ELSE s[i + 1]
    <2>1. /\ t \in Seq(S) /\ Len(t) = Len(a) + Len(b)
          /\ \A i \in 1..Len(a) + Len(b) : t[i] =
               IF i <= Len(a) THEN a[i] ELSE b[i - Len(a)]
      BY <1>6, <1>7, ConcatProperties
    <2> HIDE DEF t
    <2>2. Len(a) + Len(b) = n - 1
      BY <1>1, <1>5, <1>6, <1>7
    <2>3. ASSUME NEW i \in 1..n - 1, i < k PROVE t[i] = s[i]
      BY <2>1, <2>2, <2>3, <1>1, <1>5, <1>6
    <2>4. ASSUME NEW i \in 1..n - 1, ~(i < k) PROVE t[i] = s[i + 1]
      <3>1. i - Len(a) = i - k + 1 /\ i - k + 1 \in 1..n - k /\ k + (i - k + 1) = i + 1
        BY <2>4, <1>1, <1>5, <1>6
      <3>2. ~(i <= Len(a)) /\ i \in 1..Len(a) + Len(b)
        BY <2>2, <2>4, <1>1, <1>5, <1>6
      <3>3. t[i] = b[i - k + 1]
        BY ONLY <2>1, <3>1, <3>2
      <3> QED
        BY <3>1, <3>3, <1>7
    <2> QED
      BY <2>1, <2>2, <2>3, <2>4
  <1> HIDE DEF t
  <1>9. DOMAIN t = 1..n - 1
    BY <1>8, LenProperties
  <1>10. \A i, j \in 1..n : s[i] = s[j] => i = j
    BY <1>1 DEF IsInjective
  <1>11. IsInjective(t)
    <2> SUFFICES ASSUME NEW i \in 1..n - 1, NEW j \in 1..n - 1, t[i] = t[j]
                 PROVE  i = j
      BY <1>9 DEF IsInjective
    <2> DEFINE x == IF i < k THEN i ELSE i + 1
               y == IF j < k THEN j ELSE j + 1
    <2>1. x \in 1..n /\ y \in 1..n /\ t[i] = s[x] /\ t[j] = s[y]
      BY <1>1, <1>5, <1>8
    <2>2. x = y
      <3> HIDE DEF x, y
      <3> QED
        BY <2>1, <1>10
    <2> QED
      BY <2>2, <1>1, <1>5
  <1>12. ToSet(t) \subseteq ToSet(s) \ {p}
    <2> SUFFICES ASSUME NEW i \in 1..n - 1
                 PROVE  t[i] \in ToSet(s) /\ t[i] # p
      BY <1>9 DEF ToSet
    <2> DEFINE x == IF i < k THEN i ELSE i + 1
    <2>1. x \in 1..n /\ t[i] = s[x] /\ x # k
      BY <1>1, <1>5, <1>8
    <2> HIDE DEF x
    <2> QED
      BY <2>1, <1>1, <1>5, <1>10 DEF ToSet
  <1>13. ToSet(s) \ {p} \subseteq ToSet(t)
    <2> SUFFICES ASSUME NEW i \in 1..n, s[i] # p
                 PROVE  \E j \in 1..n - 1 : t[j] = s[i]
      BY <1>1, <1>9 DEF ToSet
    <2>1. i # k
      BY <1>5
    <2>2. CASE i < k
      BY <2>2, <1>1, <1>5, <1>8
    <2>3. CASE i > k
      <3>1. i - 1 \in 1..n - 1 /\ ~(i - 1 < k) /\ (i - 1) + 1 = i
        BY <2>3, <1>1, <1>5
      <3> QED
        BY <3>1, <1>8
    <2> QED
      BY <2>1, <2>2, <2>3, <1>1, <1>5
  <1> QED
    BY <1>4, <1>8, <1>11, <1>12, <1>13

\* With one in front, it has that one too.
LEMMA AddToSeq ==
    ASSUME NEW S, NEW s \in Seq(S), IsInjective(s), NEW p \in S, p \notin ToSet(s)
    PROVE  LET t == <<p>> \o s
           IN  /\ t \in Seq(S) /\ IsInjective(t) /\ ToSet(t) = ToSet(s) \cup {p}
               /\ t # <<>> /\ Head(t) = p
  <1> DEFINE n == Len(s)
             a == <<p>>
             t == a \o s
  <1>1. n \in Nat /\ DOMAIN s = 1..n
    BY LenProperties
  <1>2. a \in Seq(S) /\ Len(a) = 1 /\ a[1] = p
    OBVIOUS
  <1> HIDE DEF a
  <1>3. /\ t \in Seq(S) /\ Len(t) = 1 + n
        /\ \A i \in 1..1 + n : t[i] = IF i <= 1 THEN a[i] ELSE s[i - 1]
    <2>1. /\ t \in Seq(S) /\ Len(t) = Len(a) + n
          /\ \A i \in 1..Len(a) + n : t[i] = IF i <= Len(a) THEN a[i] ELSE s[i - Len(a)]
      BY <1>2, ConcatProperties
    <2> HIDE DEF t
    <2> QED
      BY <2>1, <1>2
  <1> HIDE DEF t, n
  <1>4. DOMAIN t = 1..1 + n
    BY <1>3, LenProperties
  <1>5. t[1] = p
    BY <1>1, <1>2, <1>3
  <1>6. \A i \in 2..1 + n : t[i] = s[i - 1] /\ i - 1 \in 1..n
    BY <1>1, <1>3
  <1>7. \A i \in 1..n : t[i + 1] = s[i] /\ i + 1 \in 2..1 + n
    BY <1>1, <1>3
  <1>8. IsInjective(t)
    <2> SUFFICES ASSUME NEW i \in 1..1 + n, NEW j \in 1..1 + n, t[i] = t[j]
                 PROVE  i = j
      BY <1>4 DEF IsInjective
    <2>1. \A x \in 1..n : s[x] # p
      BY <1>1 DEF ToSet
    <2>2. i \in 2..1 + n => t[i] # p
      BY <1>6, <2>1
    <2>3. j \in 2..1 + n => t[j] # p
      BY <1>6, <2>1
    <2>4. CASE i \in 2..1 + n /\ j \in 2..1 + n
      <3>1. i - 1 = j - 1
        BY <2>4, <1>1, <1>6 DEF IsInjective
      <3> QED
        BY <3>1
    <2> QED
      BY <2>2, <2>3, <2>4, <1>1, <1>5
  <1>9. ToSet(t) = ToSet(s) \cup {p}
    <2>1. ToSet(t) \subseteq ToSet(s) \cup {p}
      <3> SUFFICES ASSUME NEW i \in 1..1 + n PROVE t[i] \in ToSet(s) \cup {p}
        BY <1>4 DEF ToSet
      <3>1. CASE i = 1
        BY <3>1, <1>5
      <3>2. CASE i \in 2..1 + n
        BY <3>2, <1>1, <1>6 DEF ToSet
      <3> QED
        BY <3>1, <3>2, <1>1
    <2>2. p \in ToSet(t)
      <3>1. 1 \in 1..1 + n
        BY <1>1
      <3> QED
        BY <3>1, <1>4, <1>5 DEF ToSet
    <2>3. ToSet(s) \subseteq ToSet(t)
      <3> SUFFICES ASSUME NEW i \in 1..n PROVE s[i] \in ToSet(t)
        BY <1>1 DEF ToSet
      <3>1. i + 1 \in 1..1 + n /\ t[i + 1] = s[i]
        BY <1>1, <1>7
      <3> QED
        BY <3>1, <1>4 DEF ToSet
    <2> QED
      BY <2>1, <2>2, <2>3
  <1>10. t # <<>> /\ Head(t) = p
    BY <1>1, <1>3, <1>5
  <1> QED
    BY <1>3, <1>8, <1>9, <1>10 DEF t, a

(***************************************************************************)
(* The allocator's state stands for three sets of blocks: those of the     *)
(* table of blocks, those of the table of allocated ones, and those on the *)
(* lists.                                                                  *)
(***************************************************************************)

BlockT == {b \in Units \X Lists : b[1] % SizeOf(b[2]) = 0}

MemT == [Units -> {"zero", "link", "data"}]

HeapT == [bittable : SUBSET Nat, bitmalloc : SUBSET Nat,
          freelist : [Lists -> Seq(Units)], mem : MemT, ok : BOOLEAN]

Bits(S) == {Bit(b[1], b[2]) : b \in S}

Listed(lists, F) ==
    \A l \in Lists : /\ IsInjective(lists[l])
                     /\ ToSet(lists[l]) = {p \in Units : <<p, l>> \in F}

Stands(h, B, A, F) ==
    /\ h \in HeapT /\ h.ok = TRUE
    /\ B \subseteq BlockT /\ A \subseteq BlockT /\ F \subseteq BlockT
    /\ h.bittable = Bits(B)
    /\ h.bitmalloc = Bits(A)
    /\ Listed(h.freelist, F)

\* Blocks as pairs.
LEMMA Pairs ==
    /\ \A p, l : <<p, l>> \in BlockT <=> Aligned(p, l)
    /\ \A b \in BlockT : b = <<b[1], b[2]>> /\ Aligned(b[1], b[2])
  BY DEF BlockT, Aligned

\* A set of blocks with another one, and without one of them.
With(S, p, l) == S \cup {<<p, l>>}
Less(S, p, l) == S \ {<<p, l>>}

\* A table of bits is one of blocks.
LEMMA InBits ==
    ASSUME NEW S, S \subseteq BlockT, NEW p, NEW l, Aligned(p, l)
    PROVE  /\ Bit(p, l) \in Bits(S) <=> <<p, l>> \in S
           /\ Bits(S) \subseteq Nat
           /\ Bits(With(S, p, l)) = Bits(S) \cup {Bit(p, l)}
           /\ Bits(Less(S, p, l)) = Bits(S) \ {Bit(p, l)}
  <1>1. \A b \in S : Aligned(b[1], b[2]) /\ b = <<b[1], b[2]>>
    BY Pairs
  <1>2. \A b \in S : Bit(p, l) = Bit(b[1], b[2]) => b = <<p, l>>
    BY <1>1, BitInjective
  <1>3. \A b \in S : Bit(b[1], b[2]) \in Nat
    BY <1>1, BitRange
  <1>4. Bit(p, l) \in Bits(S) <=> <<p, l>> \in S
    BY <1>2 DEF Bits
  <1>5. Bits(With(S, p, l)) = Bits(S) \cup {Bit(p, l)}
    <2> DEFINE x == <<p, l>>
    <2>1. x[1] = p /\ x[2] = l
      OBVIOUS
    <2> HIDE DEF x
    <2>2. Bits(S \cup {x}) \subseteq Bits(S) \cup {Bit(x[1], x[2])}
      BY DEF Bits
    <2>3. Bits(S) \cup {Bit(x[1], x[2])} \subseteq Bits(S \cup {x})
      BY DEF Bits
    <2> QED
      BY <2>1, <2>2, <2>3 DEF x, With
  <1>6. Bits(Less(S, p, l)) = Bits(S) \ {Bit(p, l)}
    <2>1. Bits(Less(S, p, l)) \subseteq Bits(S) \ {Bit(p, l)}
      BY <1>2 DEF Bits, Less
    <2>2. Bits(S) \ {Bit(p, l)} \subseteq Bits(Less(S, p, l))
      BY DEF Bits, Less
    <2> QED
      BY <2>1, <2>2
  <1>7. Bits(S) \subseteq Nat
    BY <1>3 DEF Bits
  <1> QED
    BY <1>4, <1>5, <1>6, <1>7

\* An assertion that holds changes nothing.
LEMMA AssertHolds ==
    ASSUME NEW h \in HeapT, h.ok = TRUE, NEW cond, cond = TRUE
    PROVE  Assert_(h, cond) = h
  <1>1. (h.ok /\ cond) = h.ok
    OBVIOUS
  <1> QED
    BY <1>1 DEF Assert_, HeapT

\* An operation changes the table of blocks alone.
LEMMA BittableField ==
    ASSUME NEW h \in HeapT, NEW x \in SUBSET Nat
    PROVE  LET g == [h EXCEPT !.bittable = x]
           IN  /\ g \in HeapT /\ g.ok = h.ok
               /\ g.bittable = x
               /\ g.bitmalloc = h.bitmalloc
               /\ g.freelist = h.freelist /\ g.mem = h.mem
  BY DEF HeapT

\* An operation changes the table of allocated blocks alone.
LEMMA BitmallocField ==
    ASSUME NEW h \in HeapT, NEW x \in SUBSET Nat
    PROVE  LET g == [h EXCEPT !.bitmalloc = x]
           IN  /\ g \in HeapT /\ g.ok = h.ok
               /\ g.bittable = h.bittable
               /\ g.bitmalloc = x
               /\ g.freelist = h.freelist /\ g.mem = h.mem
  BY DEF HeapT

\* An operation changes the lists alone.
LEMMA FreelistField ==
    ASSUME NEW h \in HeapT, NEW x \in [Lists -> Seq(Units)]
    PROVE  LET g == [h EXCEPT !.freelist = x]
           IN  /\ g \in HeapT /\ g.ok = h.ok
               /\ g.bittable = h.bittable
               /\ g.bitmalloc = h.bitmalloc
               /\ g.freelist = x /\ g.mem = h.mem
  BY DEF HeapT

\* An operation changes the memory alone.
LEMMA MemField ==
    ASSUME NEW h \in HeapT, NEW x \in MemT
    PROVE  LET g == [h EXCEPT !.mem = x]
           IN  /\ g \in HeapT /\ g.ok = h.ok
               /\ g.bittable = h.bittable
               /\ g.bitmalloc = h.bitmalloc
               /\ g.freelist = h.freelist /\ g.mem = x
  BY DEF HeapT

\* The tests of the bits are tests of the sets.
LEMMA TestBits ==
    ASSUME NEW h, NEW B, NEW A, NEW F, Stands(h, B, A, F),
           NEW p, NEW l, Aligned(p, l)
    PROVE  /\ IsBlock(h, p, l) <=> <<p, l>> \in B
           /\ IsMalloced(h, p, l) <=> <<p, l>> \in A
           /\ p % SizeOf(l) = 0
  <1>1. /\ B \subseteq BlockT /\ A \subseteq BlockT
        /\ h.bittable = Bits(B) /\ h.bitmalloc = Bits(A)
    BY DEF Stands
  <1>2. Bit(p, l) \in Bits(B) <=> <<p, l>> \in B
    BY <1>1, InBits
  <1>3. Bit(p, l) \in Bits(A) <=> <<p, l>> \in A
    BY <1>1, InBits
  <1>4. p % SizeOf(l) = 0
    BY DEF Aligned
  <1> QED
    BY ONLY <1>1, <1>2, <1>3, <1>4 DEF IsBlock, IsMalloced

\* sh_clearbit of the table of blocks.
LEMMA ClearBlockStands ==
    ASSUME NEW h, NEW B, NEW A, NEW F, Stands(h, B, A, F),
           NEW p, NEW l, <<p, l>> \in B
    PROVE  LET g == ClearBlock(h, p, l)
           IN  /\ Stands(g, Less(B, p, l), A, F)
               /\ g.mem = h.mem /\ g.freelist = h.freelist
  <1> DEFINE cond == p % SizeOf(l) = 0 /\ IsBlock(h, p, l)
             y == Less(B, p, l)
             x == h.bittable \ {Bit(p, l)}
             g == [h EXCEPT !.bittable = x]
  <1>1. Aligned(p, l)
    BY Pairs DEF Stands
  <1>2. /\ h \in HeapT /\ h.ok = TRUE /\ x = Bits(y) /\ x \in SUBSET Nat
        /\ y \subseteq BlockT
    <2>1. /\ h \in HeapT /\ h.ok = TRUE /\ B \subseteq BlockT
          /\ h.bittable = Bits(B)
      BY DEF Stands
    <2>2. Bits(Less(B, p, l)) = Bits(B) \ {Bit(p, l)} /\ Bits(B) \subseteq Nat
      BY <2>1, <1>1, InBits
    <2>3. Bit(p, l) \in Nat /\ <<p, l>> \in BlockT
      BY <1>1, BitRange, Pairs
    <2>4. y \subseteq BlockT
      BY ONLY <2>1, <2>3 DEF Less
    <2>5. x = Bits(y)
      BY ONLY <2>1, <2>2
    <2>6. x \in SUBSET Nat
      BY ONLY <2>1, <2>2, <2>3
    <2> QED
      BY ONLY <2>1, <2>4, <2>5, <2>6
  <1>3. cond = TRUE
    <2>0. /\ IsBlock(h, p, l) <=> <<p, l>> \in B
          /\ IsMalloced(h, p, l) <=> <<p, l>> \in A
          /\ p % SizeOf(l) = 0
      BY <1>1, TestBits
    <2>1. cond
      BY <2>0
    <2> QED
      BY ONLY <2>1
  <1>4. Assert_(h, cond) = h
    <2> HIDE DEF cond
    <2> QED
      BY <1>2, <1>3, AssertHolds
  <1>5. ClearBlock(h, p, l) = g
    BY <1>4 DEF ClearBlock
  <1> HIDE DEF x, y
  <1>6. /\ g \in HeapT /\ g.ok = h.ok /\ g.bittable = x /\ g.bitmalloc = h.bitmalloc
        /\ g.freelist = h.freelist /\ g.mem = h.mem
    BY <1>2, BittableField
  <1> HIDE DEF g
  <1>7. Stands(g, y, A, F)
    BY <1>2, <1>6 DEF Stands
  <1> QED
    BY <1>5, <1>6, <1>7 DEF y

\* sh_setbit of it.
LEMMA SetBlockStands ==
    ASSUME NEW h, NEW B, NEW A, NEW F, Stands(h, B, A, F),
           NEW p, NEW l, Aligned(p, l), <<p, l>> \notin B, <<p, l>> \notin A
    PROVE  LET g == SetBlock(h, p, l)
           IN  /\ Stands(g, With(B, p, l), A, F)
               /\ g.mem = h.mem /\ g.freelist = h.freelist
  <1> DEFINE cond == /\ p % SizeOf(l) = 0
                     /\ ~IsBlock(h, p, l)
                     /\ ~IsMalloced(h, p, l)
             y == With(B, p, l)
             x == h.bittable \cup {Bit(p, l)}
             g == [h EXCEPT !.bittable = x]
  <1>1. Aligned(p, l)
    OBVIOUS
  <1>2. /\ h \in HeapT /\ h.ok = TRUE /\ x = Bits(y) /\ x \in SUBSET Nat
        /\ y \subseteq BlockT
    <2>1. /\ h \in HeapT /\ h.ok = TRUE /\ B \subseteq BlockT
          /\ h.bittable = Bits(B)
      BY DEF Stands
    <2>2. Bits(With(B, p, l)) = Bits(B) \cup {Bit(p, l)} /\ Bits(B) \subseteq Nat
      BY <2>1, <1>1, InBits
    <2>3. Bit(p, l) \in Nat /\ <<p, l>> \in BlockT
      BY <1>1, BitRange, Pairs
    <2>4. y \subseteq BlockT
      BY ONLY <2>1, <2>3 DEF With
    <2>5. x = Bits(y)
      BY ONLY <2>1, <2>2
    <2>6. x \in SUBSET Nat
      BY ONLY <2>1, <2>2, <2>3
    <2> QED
      BY ONLY <2>1, <2>4, <2>5, <2>6
  <1>3. cond = TRUE
    <2>0. /\ IsBlock(h, p, l) <=> <<p, l>> \in B
          /\ IsMalloced(h, p, l) <=> <<p, l>> \in A
          /\ p % SizeOf(l) = 0
      BY <1>1, TestBits
    <2>1. cond
      BY <2>0
    <2> QED
      BY ONLY <2>1
  <1>4. Assert_(h, cond) = h
    <2> HIDE DEF cond
    <2> QED
      BY <1>2, <1>3, AssertHolds
  <1>5. SetBlock(h, p, l) = g
    BY <1>4 DEF SetBlock
  <1> HIDE DEF x, y
  <1>6. /\ g \in HeapT /\ g.ok = h.ok /\ g.bittable = x /\ g.bitmalloc = h.bitmalloc
        /\ g.freelist = h.freelist /\ g.mem = h.mem
    BY <1>2, BittableField
  <1> HIDE DEF g
  <1>7. Stands(g, y, A, F)
    BY <1>2, <1>6 DEF Stands
  <1> QED
    BY <1>5, <1>6, <1>7 DEF y

\* sh_setbit of the table of allocated blocks.
LEMMA SetMallocedStands ==
    ASSUME NEW h, NEW B, NEW A, NEW F, Stands(h, B, A, F),
           NEW p, NEW l, <<p, l>> \in B, <<p, l>> \notin A
    PROVE  LET g == SetMalloced(h, p, l)
           IN  /\ Stands(g, B, With(A, p, l), F)
               /\ g.mem = h.mem /\ g.freelist = h.freelist
  <1> DEFINE cond == IsBlock(h, p, l) /\ ~IsMalloced(h, p, l)
             y == With(A, p, l)
             x == h.bitmalloc \cup {Bit(p, l)}
             g == [h EXCEPT !.bitmalloc = x]
  <1>1. Aligned(p, l)
    BY Pairs DEF Stands
  <1>2. /\ h \in HeapT /\ h.ok = TRUE /\ x = Bits(y) /\ x \in SUBSET Nat
        /\ y \subseteq BlockT
    <2>1. /\ h \in HeapT /\ h.ok = TRUE /\ A \subseteq BlockT
          /\ h.bitmalloc = Bits(A)
      BY DEF Stands
    <2>2. Bits(With(A, p, l)) = Bits(A) \cup {Bit(p, l)} /\ Bits(A) \subseteq Nat
      BY <2>1, <1>1, InBits
    <2>3. Bit(p, l) \in Nat /\ <<p, l>> \in BlockT
      BY <1>1, BitRange, Pairs
    <2>4. y \subseteq BlockT
      BY ONLY <2>1, <2>3 DEF With
    <2>5. x = Bits(y)
      BY ONLY <2>1, <2>2
    <2>6. x \in SUBSET Nat
      BY ONLY <2>1, <2>2, <2>3
    <2> QED
      BY ONLY <2>1, <2>4, <2>5, <2>6
  <1>3. cond = TRUE
    <2>0. /\ IsBlock(h, p, l) <=> <<p, l>> \in B
          /\ IsMalloced(h, p, l) <=> <<p, l>> \in A
          /\ p % SizeOf(l) = 0
      BY <1>1, TestBits
    <2>1. cond
      BY <2>0
    <2> QED
      BY ONLY <2>1
  <1>4. Assert_(h, cond) = h
    <2> HIDE DEF cond
    <2> QED
      BY <1>2, <1>3, AssertHolds
  <1>5. SetMalloced(h, p, l) = g
    BY <1>4 DEF SetMalloced
  <1> HIDE DEF x, y
  <1>6. /\ g \in HeapT /\ g.ok = h.ok /\ g.bitmalloc = x /\ g.bittable = h.bittable
        /\ g.freelist = h.freelist /\ g.mem = h.mem
    BY <1>2, BitmallocField
  <1> HIDE DEF g
  <1>7. Stands(g, B, y, F)
    BY <1>2, <1>6 DEF Stands
  <1> QED
    BY <1>5, <1>6, <1>7 DEF y

\* sh_clearbit of it.
LEMMA ClearMallocedStands ==
    ASSUME NEW h, NEW B, NEW A, NEW F, Stands(h, B, A, F),
           NEW p, NEW l, <<p, l>> \in B, <<p, l>> \in A
    PROVE  LET g == ClearMalloced(h, p, l)
           IN  /\ Stands(g, B, Less(A, p, l), F)
               /\ g.mem = h.mem /\ g.freelist = h.freelist
  <1> DEFINE cond == /\ p % SizeOf(l) = 0
                     /\ IsBlock(h, p, l)
                     /\ IsMalloced(h, p, l)
             y == Less(A, p, l)
             x == h.bitmalloc \ {Bit(p, l)}
             g == [h EXCEPT !.bitmalloc = x]
  <1>1. Aligned(p, l)
    BY Pairs DEF Stands
  <1>2. /\ h \in HeapT /\ h.ok = TRUE /\ x = Bits(y) /\ x \in SUBSET Nat
        /\ y \subseteq BlockT
    <2>1. /\ h \in HeapT /\ h.ok = TRUE /\ A \subseteq BlockT
          /\ h.bitmalloc = Bits(A)
      BY DEF Stands
    <2>2. Bits(Less(A, p, l)) = Bits(A) \ {Bit(p, l)} /\ Bits(A) \subseteq Nat
      BY <2>1, <1>1, InBits
    <2>3. Bit(p, l) \in Nat /\ <<p, l>> \in BlockT
      BY <1>1, BitRange, Pairs
    <2>4. y \subseteq BlockT
      BY ONLY <2>1, <2>3 DEF Less
    <2>5. x = Bits(y)
      BY ONLY <2>1, <2>2
    <2>6. x \in SUBSET Nat
      BY ONLY <2>1, <2>2, <2>3
    <2> QED
      BY ONLY <2>1, <2>4, <2>5, <2>6
  <1>3. cond = TRUE
    <2>0. /\ IsBlock(h, p, l) <=> <<p, l>> \in B
          /\ IsMalloced(h, p, l) <=> <<p, l>> \in A
          /\ p % SizeOf(l) = 0
      BY <1>1, TestBits
    <2>1. cond
      BY <2>0
    <2> QED
      BY ONLY <2>1
  <1>4. Assert_(h, cond) = h
    <2> HIDE DEF cond
    <2> QED
      BY <1>2, <1>3, AssertHolds
  <1>5. ClearMalloced(h, p, l) = g
    BY <1>4 DEF ClearMalloced
  <1> HIDE DEF x, y
  <1>6. /\ g \in HeapT /\ g.ok = h.ok /\ g.bitmalloc = x /\ g.bittable = h.bittable
        /\ g.freelist = h.freelist /\ g.mem = h.mem
    BY <1>2, BitmallocField
  <1> HIDE DEF g
  <1>7. Stands(g, B, y, F)
    BY <1>2, <1>6 DEF Stands
  <1> QED
    BY <1>5, <1>6, <1>7 DEF y

\* What is in the memory once units have been set.
Filled(m, units, v) == [u \in Units |-> IF u \in units THEN v ELSE m[u]]

\* Filling changes the memory alone.
LEMMA FillStands ==
    ASSUME NEW h, NEW B, NEW A, NEW F, Stands(h, B, A, F),
           NEW units, NEW v \in {"zero", "link", "data"}
    PROVE  LET g == Fill(h, units, v)
           IN  /\ Stands(g, B, A, F) /\ g.freelist = h.freelist
               /\ g.mem = Filled(h.mem, units, v) /\ g.mem \in MemT
  <1> DEFINE x == Filled(h.mem, units, v)
             g == [h EXCEPT !.mem = x]
  <1>1. h \in HeapT /\ h.mem \in MemT
    BY DEF Stands, HeapT
  <1>2. Fill(h, units, v) = g
    BY DEF Fill, Filled
  <1>3. x \in MemT
    BY <1>1 DEF MemT, Filled
  <1> HIDE DEF x
  <1>4. /\ g \in HeapT /\ g.ok = h.ok /\ g.bittable = h.bittable
        /\ g.bitmalloc = h.bitmalloc /\ g.freelist = h.freelist /\ g.mem = x
    BY <1>1, <1>3, MemField
  <1> HIDE DEF g
  <1> QED
    BY <1>2, <1>3, <1>4 DEF Stands, x

AtHead(lists, l, p) == lists[l] # <<>> /\ Head(lists[l]) = p

\* A block is put at the head of its list.
LEMMA AddStands ==
    ASSUME NEW h, NEW B, NEW A, NEW F, Stands(h, B, A, F),
           NEW p, NEW l, Aligned(p, l), <<p, l>> \notin F
    PROVE  LET g == sh_add_to_list(h, l, p)
           IN  /\ Stands(g, B, A, With(F, p, l))
               /\ g.mem = Filled(h.mem, {p}, "link") /\ g.mem \in MemT
               /\ AtHead(g.freelist, l, p)
  <1> DEFINE s == <<p>> \o h.freelist[l]
             x == [h.freelist EXCEPT ![l] = s]
             f == [h EXCEPT !.freelist = x]
             G == With(F, p, l)
  <1>1. /\ h \in HeapT /\ h.freelist \in [Lists -> Seq(Units)] /\ F \subseteq BlockT
        /\ p \in Units /\ l \in Lists /\ <<p, l>> \in BlockT
    BY Pairs DEF Stands, HeapT, Aligned
  <1>2. /\ h.freelist[l] \in Seq(Units) /\ IsInjective(h.freelist[l])
        /\ ToSet(h.freelist[l]) = {q \in Units : <<q, l>> \in F}
    BY <1>1 DEF Stands, Listed
  <1>3. p \notin ToSet(h.freelist[l])
    BY <1>2
  <1>4. /\ s \in Seq(Units) /\ IsInjective(s)
        /\ ToSet(s) = ToSet(h.freelist[l]) \cup {p} /\ s # <<>> /\ Head(s) = p
    BY <1>1, <1>2, <1>3, AddToSeq
  <1> HIDE DEF s
  <1>5. /\ x \in [Lists -> Seq(Units)] /\ x[l] = s
        /\ \A m \in Lists : m # l => x[m] = h.freelist[m]
    BY <1>1, <1>4
  <1> HIDE DEF x
  <1>6. /\ f \in HeapT /\ f.ok = h.ok /\ f.bittable = h.bittable
        /\ f.bitmalloc = h.bitmalloc /\ f.freelist = x /\ f.mem = h.mem
    BY <1>1, <1>5, FreelistField
  <1> HIDE DEF f
  <1>7. Listed(x, G)
    <2> SUFFICES ASSUME NEW m \in Lists
                 PROVE  /\ IsInjective(x[m])
                        /\ ToSet(x[m]) = {q \in Units : <<q, m>> \in G}
      BY DEF Listed
    <2>1. CASE m = l
      BY <2>1, <1>1, <1>2, <1>4, <1>5 DEF With, Less
    <2>2. CASE m # l
      <3>1. {q \in Units : <<q, m>> \in G} = {q \in Units : <<q, m>> \in F}
        BY <2>2 DEF With, Less
      <3> QED
        BY <3>1, <2>2, <1>5 DEF Stands, Listed
    <2> QED
      BY <2>1, <2>2
  <1>8. Stands(f, B, A, G)
    <2>1. G \subseteq BlockT
      BY <1>1 DEF With, Less
    <2> HIDE DEF G
    <2> QED
      BY <1>1, <1>6, <1>7, <2>1 DEF Stands
  <1>9. sh_add_to_list(h, l, p) = Fill(f, {p}, "link")
    BY DEF sh_add_to_list, f, x, s
  <1> HIDE DEF G
  <1>10. LET g == Fill(f, {p}, "link")
         IN  /\ Stands(g, B, A, G) /\ g.freelist = f.freelist
             /\ g.mem = Filled(f.mem, {p}, "link") /\ g.mem \in MemT
    BY <1>8, FillStands
  <1> QED
    BY <1>4, <1>5, <1>6, <1>9, <1>10 DEF G, AtHead

\* And taken out of it.
LEMMA RemoveStands ==
    ASSUME NEW h, NEW B, NEW A, NEW F, Stands(h, B, A, F),
           NEW p, NEW l, <<p, l>> \in F, h.mem[p] = "link"
    PROVE  LET g == sh_remove_from_list(h, l, p)
           IN  Stands(g, B, A, Less(F, p, l)) /\ g.mem = h.mem
  <1> DEFINE s == RemoveFirst(h.freelist[l], p)
             x == [h.freelist EXCEPT ![l] = s]
             f == [h EXCEPT !.freelist = x]
             G == Less(F, p, l)
  <1>1. /\ h \in HeapT /\ h.freelist \in [Lists -> Seq(Units)] /\ F \subseteq BlockT
        /\ p \in Units /\ l \in Lists /\ h.ok = TRUE
    BY Pairs DEF Stands, HeapT, Aligned
  <1>2. /\ h.freelist[l] \in Seq(Units) /\ IsInjective(h.freelist[l])
        /\ ToSet(h.freelist[l]) = {q \in Units : <<q, l>> \in F}
    BY <1>1 DEF Stands, Listed
  <1>3. p \in ToSet(h.freelist[l])
    BY <1>1, <1>2
  <1>4. /\ s \in Seq(Units) /\ IsInjective(s)
        /\ ToSet(s) = ToSet(h.freelist[l]) \ {p}
    BY <1>1, <1>2, <1>3, RemoveFromSeq
  <1> HIDE DEF s
  <1>5. /\ x \in [Lists -> Seq(Units)] /\ x[l] = s
        /\ \A m \in Lists : m # l => x[m] = h.freelist[m]
    BY <1>1, <1>4
  <1> HIDE DEF x
  <1>6. /\ f \in HeapT /\ f.ok = h.ok /\ f.bittable = h.bittable
        /\ f.bitmalloc = h.bitmalloc /\ f.freelist = x /\ f.mem = h.mem
    BY <1>1, <1>5, FreelistField
  <1> HIDE DEF f
  <1>7. Listed(x, G)
    <2> SUFFICES ASSUME NEW m \in Lists
                 PROVE  /\ IsInjective(x[m])
                        /\ ToSet(x[m]) = {q \in Units : <<q, m>> \in G}
      BY DEF Listed
    <2>1. CASE m = l
      BY <2>1, <1>1, <1>2, <1>4, <1>5 DEF With, Less
    <2>2. CASE m # l
      <3>1. {q \in Units : <<q, m>> \in G} = {q \in Units : <<q, m>> \in F}
        BY <2>2 DEF With, Less
      <3> QED
        BY <3>1, <2>2, <1>5 DEF Stands, Listed
    <2> QED
      BY <2>1, <2>2
  <1>8. Stands(f, B, A, G)
    <2>1. G \subseteq BlockT
      BY <1>1 DEF With, Less
    <2> HIDE DEF G
    <2> QED
      BY <1>1, <1>6, <1>7, <2>1 DEF Stands
  <1>9. Assert_(h, h.mem[p] = "link") = h
    <2>1. (h.mem[p] = "link") = TRUE
      OBVIOUS
    <2> QED
      BY <2>1, <1>1, AssertHolds
  <1>10. sh_remove_from_list(h, l, p) = f
    BY <1>9 DEF sh_remove_from_list, f, x, s
  <1> QED
    BY <1>6, <1>8, <1>10

(***************************************************************************)
(* The loops of sh_malloc and sh_free, as the recursive functions they are *)
(* modelled by.                                                            *)
(***************************************************************************)

\* The entries that sh_malloc splits, one after the other.
LEMMA ReadyIsRecursive ==
    ASSUME NEW h, NEW list \in Nat, NEW slist \in Nat, slist = Max(Sources(h, list))
    PROVE  \E f : /\ Ready(h, list) = f[list]
                  /\ f = [l \in slist..list |->
                            IF l = slist THEN h ELSE Split(f[l - 1], l - 1)]
  <1> DEFINE f == CHOOSE g : g = [l \in slist..list |->
                    IF l = slist THEN h ELSE Split(g[l - 1], l - 1)]
             Def(v, l) == Split(v, l - 1)
  <1>1. FiniteNatInductiveDefHypothesis(f, h, Def, slist, list)
    BY DEF FiniteNatInductiveDefHypothesis
  <1>2. FiniteNatInductiveDefConclusion(f, h, Def, slist, list)
    <2> HIDE DEF f
    <2> QED
      BY <1>1, FiniteNatInductiveDef
  <1>3. f = [l \in slist..list |-> IF l = slist THEN h ELSE Split(f[l - 1], l - 1)]
    BY <1>2 DEF FiniteNatInductiveDefConclusion
  <1>4. Ready(h, list) = f[list]
    BY Zenon DEF Ready
  <1> QED
    BY <1>3, <1>4, Zenon

\* What sh_free starts from.
Freed(h, ptr, list) ==
    [heap |-> sh_add_to_list(ClearMalloced(h, ptr, list), list, ptr),
     at |-> ptr, more |-> TRUE]

\* The rounds of its loop.
LEMMA FreeIsRecursive ==
    ASSUME NEW h, NEW ptr, NEW list \in Nat, list = sh_getlist(h, ptr)
    PROVE  \E f : /\ sh_free(h, ptr) = f[list].heap
                  /\ f[0] = Freed(h, ptr, list)
                  /\ \A n \in 0..list - 1 : f[n + 1] = Coalesce(f[n], list - n)
  <1> DEFINE c == Freed(h, ptr, list)
             f == CHOOSE g : g = [n \in 0..list |->
                    IF n = 0 THEN c ELSE Coalesce(g[n - 1], list - (n - 1))]
             Def(v, n) == Coalesce(v, list - (n - 1))
  <1>1. FiniteNatInductiveDefHypothesis(f, c, Def, 0, list)
    BY DEF FiniteNatInductiveDefHypothesis
  <1>2. FiniteNatInductiveDefConclusion(f, c, Def, 0, list)
    <2> HIDE DEF f, c
    <2> QED
      BY <1>1, FiniteNatInductiveDef
  <1>3. f = [n \in 0..list |->
               IF n = 0 THEN c ELSE Coalesce(f[n - 1], list - (n - 1))]
    BY <1>2 DEF FiniteNatInductiveDefConclusion
  <1>4. sh_free(h, ptr) = f[list].heap
    BY Zenon DEF sh_free, Freed
  <1> HIDE DEF f, c
  <1>5. f[0] = c
    BY <1>3
  <1>6. \A n \in 0..list - 1 : f[n + 1] = Coalesce(f[n], list - n)
    <2> TAKE n \in 0..list - 1
    <2>1. n + 1 \in 0..list /\ n + 1 # 0 /\ (n + 1) - 1 = n
      OBVIOUS
    <2>2. f[n + 1] = IF n + 1 = 0 THEN c
                     ELSE Coalesce(f[(n + 1) - 1], list - ((n + 1) - 1))
      BY <1>3, <2>1
    <2> QED
      BY ONLY <2>1, <2>2
  <1> QED
    BY <1>4, <1>5, <1>6, Zenon DEF c

(***************************************************************************)
(* Blocks that tile the arena.                                             *)
(***************************************************************************)

Span(b) == Block(b[1], b[2])

Tiles(B) ==
    /\ B \subseteq BlockT
    /\ \A u \in Units : \E b \in B : u \in Span(b)
    /\ \A b, c \in B : Span(b) \cap Span(c) # {} => b = c

\* A set of tiles may be replaced by another one over the same units.
LEMMA Retile ==
    ASSUME NEW B, Tiles(B), NEW X, X \subseteq B, NEW Y, Y \subseteq BlockT,
           \A u : (\E x \in X : u \in Span(x)) <=> (\E y \in Y : u \in Span(y)),
           \A y, z \in Y : Span(y) \cap Span(z) # {} => y = z
    PROVE  Tiles((B \ X) \cup Y) /\ Y \cap (B \ X) = {}
  <1> DEFINE C == (B \ X) \cup Y
  <1>1. ASSUME NEW b \in B \ X, NEW y \in Y, Span(b) \cap Span(y) # {}
        PROVE  FALSE
    <2>1. PICK u : u \in Span(b) /\ u \in Span(y)
      BY <1>1
    <2>2. PICK x \in X : u \in Span(x)
      BY <2>1
    <2>3. Span(b) \cap Span(x) # {}
      BY <2>1, <2>2
    <2>4. b = x
      BY <2>3 DEF Tiles
    <2> QED
      BY <2>4
  <1>2. C \subseteq BlockT
    BY DEF Tiles
  <1>3. ASSUME NEW u \in Units PROVE \E b \in C : u \in Span(b)
    <2>1. PICK b \in B : u \in Span(b)
      BY DEF Tiles
    <2>2. CASE b \in X
      BY <2>1, <2>2
    <2>3. CASE b \notin X
      BY <2>1, <2>3
    <2> QED
      BY <2>2, <2>3
  <1>4. ASSUME NEW b \in C, NEW c \in C, Span(b) \cap Span(c) # {}
        PROVE  b = c
    <2>1. CASE b \in Y /\ c \in Y
      BY <2>1, <1>4
    <2>2. CASE b \in B \ X /\ c \in B \ X
      BY <2>2, <1>4 DEF Tiles
    <2>3. CASE b \in B \ X /\ c \in Y
      BY <2>3, <1>1, <1>4
    <2>4. CASE b \in Y /\ c \in B \ X
      <3>1. Span(c) \cap Span(b) # {}
        BY <1>4
      <3> QED
        BY <2>4, <3>1, <1>1
    <2> QED
      BY <2>1, <2>2, <2>3, <2>4
  <1>5. Tiles(C)
    BY <1>2, <1>3, <1>4 DEF Tiles
  <1>6. Y \cap (B \ X) = {}
    <2> SUFFICES ASSUME NEW y \in Y, y \in B \ X PROVE FALSE
      OBVIOUS
    <2>1. Aligned(y[1], y[2])
      BY Pairs
    <2>2. Span(y) \cap Span(y) # {}
      BY <2>1, BlockInArena DEF Span
    <2> QED
      BY <2>2, <1>1
  <1> QED
    BY <1>5, <1>6

\* Two tiles that start at the same unit are one.
LEMMA SameStart ==
    ASSUME NEW B, Tiles(B), NEW p, NEW l, NEW m, <<p, l>> \in B, <<p, m>> \in B
    PROVE  l = m
  <1>1. Aligned(p, l) /\ Aligned(p, m)
    BY Pairs DEF Tiles
  <1>2. p \in Span(<<p, l>>) /\ p \in Span(<<p, m>>)
    BY <1>1, BlockInArena DEF Span
  <1>3. <<p, l>> = <<p, m>>
    BY <1>2 DEF Tiles
  <1> QED
    BY <1>3

\* The block of a list that a unit lies in has the bit of the unit.
LEMMA Containing ==
    ASSUME NEW p \in Units, NEW m \in Lists
    PROVE  \E q : Aligned(q, m) /\ p \in Block(q, m) /\ Bit(q, m) = Bit(p, m)
  <1> DEFINE s == SizeOf(m)
             k == Pow2[m]
             i == p \div s
  <1>1. /\ s \in Nat /\ s > 0 /\ k \in Nat /\ k * s = ARENA /\ ARENA \in Nat
        /\ p \in Nat /\ p < ARENA
    BY SizeFacts, Area DEF Units
  <1> HIDE DEF s, k
  <1>2. i \in Nat /\ i * s <= p /\ p < i * s + s /\ i * s \in Nat
    BY <1>1
  <1> HIDE DEF i
  <1>3. i < k
    <2> SUFFICES ASSUME k <= i PROVE FALSE
      BY <1>1, <1>2
    <2>1. k * s <= i * s
      BY <1>1, <1>2, Apart
    <2> QED
      BY <1>1, <1>2, <2>1
  <1>4. i \in 0..Pow2[m] - 1
    BY <1>1, <1>2, <1>3 DEF k
  <1>5. Aligned(i * SizeOf(m), m) /\ Bit(i * SizeOf(m), m) = Pow2[m] + i
    BY <1>4, MultipleIsAligned
  <1>6. Bit(p, m) = Pow2[m] + i
    BY DEF Bit, i, s
  <1>7. p \in Block(i * s, m)
    BY <1>1, <1>2 DEF Block, s
  <1> QED
    BY <1>5, <1>6, <1>7 DEF s

\* The list of a block is found by its first unit.
LEMMA GetList ==
    ASSUME NEW h, NEW B, NEW A, NEW F, Stands(h, B, A, F), Tiles(B),
           NEW p, NEW l, <<p, l>> \in B
    PROVE  sh_getlist(h, p) = l
  <1>1. Aligned(p, l) /\ l \in Lists /\ p \in Units
    BY Pairs DEF Tiles, Aligned
  <1>2. IsBlock(h, p, l)
    BY <1>1, TestBits
  <1>3. ASSUME NEW m \in Lists, IsBlock(h, p, m)
        PROVE  m = l
    <2>1. PICK q : Aligned(q, m) /\ p \in Block(q, m) /\ Bit(q, m) = Bit(p, m)
      BY <1>1, Containing
    <2>2. IsBlock(h, q, m)
      BY <2>1, <1>3 DEF IsBlock
    <2>3. <<q, m>> \in B
      BY <2>1, <2>2, TestBits
    <2>4. p \in Span(<<q, m>>) /\ p \in Span(<<p, l>>)
      BY <2>1, <1>1, BlockInArena DEF Span
    <2>5. <<q, m>> = <<p, l>>
      BY <2>3, <2>4 DEF Tiles
    <2> QED
      BY <2>5
  <1>4. \A m \in l + 1..LEVELS : ~IsBlock(h, p, m)
    <2> TAKE m \in l + 1..LEVELS
    <2>1. m \in Lists /\ m # l
      BY <1>1, SizeFacts DEF Lists
    <2> QED
      BY <2>1, <1>3
  <1> QED
    BY <1>1, <1>2, <1>3, <1>4 DEF sh_getlist

(***************************************************************************)
(* A heap that is in order: its blocks tile the arena, each of them is     *)
(* either allocated or on its list, and a free block has its links in its  *)
(* first unit and is zero otherwise.                                       *)
(***************************************************************************)

Linked(m, F) ==
    \A b \in F : /\ m[b[1]] = "link"
                 /\ \A u \in Span(b) : u # b[1] => m[u] = "zero"

Rep(h, B, A, F) ==
    /\ Stands(h, B, A, F)
    /\ Tiles(B)
    /\ A \cup F = B /\ A \cap F = {}
    /\ Linked(h.mem, F)

\* No two of the blocks are the halves of a block.
MateOf(b) == <<Mate(b[1], b[2]), b[2]>>
Coalesced(F) == \A b \in F : b[2] >= 1 => MateOf(b) \notin F

\* The head of a list is one of its blocks.
LEMMA HeadIsFree ==
    ASSUME NEW h, NEW B, NEW A, NEW F, Stands(h, B, A, F), NEW l \in Lists,
           h.freelist[l] # <<>>
    PROVE  <<Head(h.freelist[l]), l>> \in F /\ Aligned(Head(h.freelist[l]), l)
  <1> DEFINE s == h.freelist[l]
  <1>1. s \in Seq(Units) /\ ToSet(s) = {p \in Units : <<p, l>> \in F}
    BY DEF Stands, HeapT, Listed
  <1> HIDE DEF s
  <1>2. Head(s) \in ToSet(s)
    BY <1>1, HeadTailProperties, EmptySeq DEF ToSet, s
  <1>3. <<Head(s), l>> \in F
    BY <1>1, <1>2
  <1>4. F \subseteq BlockT
    BY DEF Stands
  <1>5. Aligned(Head(s), l)
    BY <1>3, <1>4, Pairs
  <1> QED
    BY <1>3, <1>5 DEF s

\* Every free block is on a list.
LEMMA FreeIsListed ==
    ASSUME NEW h, NEW B, NEW A, NEW F, Stands(h, B, A, F),
           NEW p, NEW l, <<p, l>> \in F
    PROVE  l \in Lists /\ h.freelist[l] # <<>>
  <1>1. Aligned(p, l)
    BY Pairs DEF Stands
  <1>2. p \in ToSet(h.freelist[l]) /\ l \in Lists
    BY <1>1 DEF Stands, Listed, Aligned
  <1>3. ToSet(<<>>) = {}
    BY DEF ToSet
  <1> QED
    BY <1>2, <1>3

\* A tile and its two halves.
LEMMA SplitTiles ==
    ASSUME NEW B, Tiles(B), NEW t, NEW l, <<t, l>> \in B, l < LEVELS,
           NEW q, q = t + SizeOf(l + 1)
    PROVE  /\ Aligned(t, l) /\ Aligned(t, l + 1) /\ Aligned(q, l + 1) /\ q # t
           /\ <<t, l + 1>> \notin B /\ <<q, l + 1>> \notin B
           /\ Tiles(With(With(Less(B, t, l), t, l + 1), q, l + 1))
           /\ Block(t, l) = Block(t, l + 1) \cup Block(q, l + 1)
           /\ Block(t, l + 1) \cap Block(q, l + 1) = {}
           /\ t \in Block(t, l + 1) /\ q \in Block(q, l + 1)
  <1> DEFINE e == <<t, l>>
             b == <<t, l + 1>>
             c == <<q, l + 1>>
             C == (B \ {e}) \cup {b, c}
  <1>1. Aligned(t, l)
    BY Pairs DEF Tiles
  <1>2. /\ Aligned(t, l + 1) /\ Aligned(q, l + 1)
        /\ q > t
        /\ Block(t, l) = Block(t, l + 1) \cup Block(q, l + 1)
        /\ Block(t, l + 1) \cap Block(q, l + 1) = {}
    BY <1>1, Halves
  <1>3. /\ b \in BlockT /\ c \in BlockT
    BY <1>2, Pairs
  <1>4. Span(e) = Span(b) \cup Span(c) /\ Span(b) \cap Span(c) = {}
    BY <1>2 DEF Span
  <1>5. b # e /\ c # e
    <2>1. l \in Nat
      BY <1>1, SizeFacts DEF Aligned
    <2>2. l + 1 # l
      BY <2>1
    <2> QED
      BY <2>2
  <1>6. Tiles(C) /\ {b, c} \cap (B \ {e}) = {}
    <2> HIDE DEF e, b, c
    <2>1. {e} \subseteq B /\ {b, c} \subseteq BlockT
      BY <1>3 DEF e
    <2>2. \A u : (\E x \in {e} : u \in Span(x)) <=> (\E y \in {b, c} : u \in Span(y))
      BY <1>4
    <2>3. \A y, z \in {b, c} : Span(y) \cap Span(z) # {} => y = z
      BY <1>4
    <2> QED
      BY <2>1, <2>2, <2>3, Retile
  <1>7. b \notin B /\ c \notin B
    <2> HIDE DEF e, b, c
    <2> QED
      BY <1>5, <1>6
  <1>8. C = With(With(Less(B, t, l), t, l + 1), q, l + 1)
    BY DEF With, Less
  <1>9. t \in Block(t, l + 1) /\ q \in Block(q, l + 1)
    BY <1>2, BlockInArena
  <1>10. q # t
    BY <1>2, <1>9
  <1> QED
    BY <1>1, <1>2, <1>6, <1>7, <1>8, <1>9, <1>10

\* The links of the halves.
LEMMA SplitLinked ==
    ASSUME NEW B, Tiles(B), NEW F, F \subseteq B, NEW t, NEW l, <<t, l>> \in F,
           l < LEVELS, NEW q, q = t + SizeOf(l + 1), NEW m, Linked(m, F)
    PROVE  Linked(Filled(Filled(m, {t}, "link"), {q}, "link"),
                  With(With(Less(F, t, l), t, l + 1), q, l + 1))
  <1> DEFINE n == Filled(Filled(m, {t}, "link"), {q}, "link")
             e == <<t, l>>
  <1>1. /\ Aligned(t, l + 1) /\ Aligned(q, l + 1)
        /\ Block(t, l) = Block(t, l + 1) \cup Block(q, l + 1)
        /\ Block(t, l + 1) \cap Block(q, l + 1) = {}
        /\ t \in Block(t, l + 1) /\ q \in Block(q, l + 1)
    <2>1. Aligned(t, l)
      BY Pairs DEF Tiles
    <2>2. /\ Aligned(t, l + 1) /\ Aligned(q, l + 1)
          /\ Block(t, l) = Block(t, l + 1) \cup Block(q, l + 1)
          /\ Block(t, l + 1) \cap Block(q, l + 1) = {}
      BY <2>1, Halves
    <2>3. t \in Block(t, l + 1) /\ q \in Block(q, l + 1)
      BY <2>2, BlockInArena
    <2> QED
      BY <2>2, <2>3
  <1>2. Block(t, l + 1) \subseteq Units /\ Block(q, l + 1) \subseteq Units
    BY <1>1, BlockInArena
  <1>3. \A u \in Units : n[u] = IF u = q \/ u = t THEN "link" ELSE m[u]
    BY DEF Filled
  <1> HIDE DEF n
  <1>4. \A u \in Block(t, l) : u # t => m[u] = "zero"
    BY DEF Linked, Span
  <1>5. n[t] = "link" /\ \A u \in Block(t, l + 1) : u # t => n[u] = "zero"
    BY <1>1, <1>2, <1>3, <1>4
  <1>6. n[q] = "link" /\ \A u \in Block(q, l + 1) : u # q => n[u] = "zero"
    BY <1>1, <1>2, <1>3, <1>4
  <1>7. ASSUME NEW b \in F, b # e
        PROVE  n[b[1]] = "link" /\ \A u \in Span(b) : u # b[1] => n[u] = "zero"
    <2>1. Span(b) \cap Span(e) = {}
      BY <1>7 DEF Tiles
    <2>2. t \in Span(e) /\ q \in Span(e)
      BY <1>1 DEF Span
    <2>3. Aligned(b[1], b[2])
      BY Pairs DEF Tiles
    <2>4. b[1] \in Span(b) /\ Span(b) \subseteq Units
      BY <2>3, BlockInArena DEF Span
    <2>5. \A u \in Span(b) : n[u] = m[u]
      BY <2>1, <2>2, <2>4, <1>3
    <2> QED
      BY <2>4, <2>5 DEF Linked
  <1> DEFINE G == With(With(Less(F, t, l), t, l + 1), q, l + 1)
  <1>8. \A b : b \in G <=> (b \in F /\ b # e) \/ b = <<t, l + 1>> \/ b = <<q, l + 1>>
    BY DEF With, Less
  <1> HIDE DEF G, e
  <1>9. ASSUME NEW b \in G
        PROVE  n[b[1]] = "link" /\ \A u \in Span(b) : u # b[1] => n[u] = "zero"
    <2>1. CASE b = <<t, l + 1>>
      BY <2>1, <1>5 DEF Span
    <2>2. CASE b = <<q, l + 1>>
      BY <2>2, <1>6 DEF Span
    <2>3. CASE b \in F /\ b # e
      BY <2>3, <1>7
    <2> QED
      BY <1>8, <2>1, <2>2, <2>3
  <1>10. Linked(n, G)
    BY <1>9 DEF Linked
  <1> QED
    BY <1>10 DEF n, G

\* Only the upper half has another half that is free.
LEMMA SplitCoalesced ==
    ASSUME NEW F, NEW t, NEW l, Aligned(t, l), l < LEVELS, F \subseteq BlockT,
           NEW q, q = t + SizeOf(l + 1), Coalesced(Less(F, t, l)),
           <<q, l + 1>> \notin F
    PROVE  Coalesced(Less(With(With(Less(F, t, l), t, l + 1), q, l + 1), q, l + 1))
  <1> DEFINE b == <<t, l + 1>>
             c == <<q, l + 1>>
             E == Less(F, t, l)
             G == Less(With(With(E, t, l + 1), q, l + 1), q, l + 1)
  <1>1. Mate(t, l + 1) = q /\ Mate(q, l + 1) = t
    BY MatesOfHalves
  <1>2. MateOf(b) = c
    BY <1>1 DEF MateOf
  <1>3. \A d \in E : d[2] >= 1 /\ MateOf(d) = b => d = c
    <2> SUFFICES ASSUME NEW d \in E, d[2] >= 1, MateOf(d) = b PROVE d = c
      OBVIOUS
    <2>1. Aligned(d[1], d[2]) /\ d = <<d[1], d[2]>>
      BY Pairs DEF Less
    <2>2. d[2] = l + 1 /\ Mate(d[1], d[2]) = t
      BY DEF MateOf
    <2>3. Mate(Mate(d[1], d[2]), d[2]) = d[1]
      BY <2>1, MateFacts
    <2> QED
      BY <1>1, <2>1, <2>2, <2>3
  <1>4. c \notin E
    BY DEF Less
  <1>5. \A d : d \in G <=> d # c /\ (d \in E \/ d = b)
    <2> HIDE DEF E
    <2> QED
      BY <1>4 DEF With, Less
  <1> HIDE DEF b, c, E, G
  <1> SUFFICES ASSUME NEW d \in G, d[2] >= 1, MateOf(d) \in G PROVE FALSE
    BY DEF Coalesced, G, E
  <1>6. d \in E \/ d = b
    BY <1>5
  <1>7. MateOf(d) # c /\ (MateOf(d) \in E \/ MateOf(d) = b)
    BY <1>5
  <1>8. CASE d = b
    BY <1>2, <1>7, <1>8
  <1>9. CASE d \in E /\ MateOf(d) \in E
    BY <1>9 DEF Coalesced, E
  <1>10. CASE d \in E /\ MateOf(d) = b
    BY <1>3, <1>4, <1>10
  <1> QED
    BY <1>6, <1>7, <1>8, <1>9, <1>10

\* One round of the splitting loop: the head of the list becomes two halves,
\* the upper one at the head of the next list.
LEMMA SplitRep ==
    ASSUME NEW h, NEW B, NEW A, NEW F, Rep(h, B, A, F), NEW l \in Lists,
           l < LEVELS, h.freelist[l] # <<>>,
           Coalesced(Less(F, Head(h.freelist[l]), l))
    PROVE  LET g == Split(h, l)
               q == Head(g.freelist[l + 1])
           IN  /\ g.freelist[l + 1] # <<>>
               /\ \E C, G : Rep(g, C, A, G) /\ Coalesced(Less(G, q, l + 1))
  <1> DEFINE t == Head(h.freelist[l])
             k == l + 1
             q == t + SizeOf(k)
             B1 == Less(B, t, l)
             B2 == With(B1, t, k)
             B3 == With(B2, q, k)
             F1 == Less(F, t, l)
             F2 == With(F1, t, k)
             F3 == With(F2, q, k)
             h1 == ClearBlock(h, t, l)
             a == sh_remove_from_list(h1, l, t)
             h2 == SetBlock(a, t, k)
             low == sh_add_to_list(h2, k, t)
             h3 == SetBlock(low, q, k)
             both == sh_add_to_list(h3, k, q)
  <1>1. Stands(h, B, A, F) /\ Tiles(B) /\ A \cup F = B /\ A \cap F = {} /\ Linked(h.mem, F)
    BY DEF Rep
  <1>2. <<t, l>> \in F /\ Aligned(t, l)
    BY <1>1, HeadIsFree
  <1>3. <<t, l>> \in B /\ <<t, l>> \notin A
    BY ONLY <1>1, <1>2
  <1>4. /\ Aligned(t, k) /\ Aligned(q, k) /\ q # t
        /\ <<t, k>> \notin B /\ <<q, k>> \notin B /\ Tiles(B3)
    <2> HIDE DEF t
    <2> QED
      BY <1>1, <1>3, SplitTiles
  <1>5. /\ <<t, k>> \notin A /\ <<q, k>> \notin A
        /\ <<t, k>> \notin F /\ <<q, k>> \notin F
    BY ONLY <1>1, <1>4
  <1>6. l # k
    BY SizeFacts DEF Lists
  <1>7. /\ <<t, k>> \notin B1 /\ <<q, k>> \notin B2
        /\ <<t, k>> \notin F1 /\ <<q, k>> \notin F2
    BY ONLY <1>4, <1>5 DEF With, Less
  <1>8. Assert_(h, ~IsMalloced(h, t, l)) = h
    <2> HIDE DEF t
    <2>1. ~IsMalloced(h, t, l)
      BY <1>1, <1>2, <1>3, TestBits
    <2>2. (~IsMalloced(h, t, l)) = TRUE
      BY ONLY <2>1
    <2>3. h \in HeapT /\ h.ok = TRUE
      BY <1>1 DEF Stands
    <2> QED
      BY <2>2, <2>3, AssertHolds
  <1>9. h.mem[t] = "link" /\ h.mem \in MemT
    BY <1>1, <1>2 DEF Linked, Stands, HeapT
  <1>10. Split(h, l) = Assert_(both, sh_find_my_buddy(both, q, k) = {t})
    BY <1>8 DEF Split
  <1> HIDE DEF t, k, q
  <1>11. Stands(h1, B1, A, F) /\ h1.mem = h.mem
    <2> HIDE DEF h1, B1
    <2> QED
      BY <1>1, <1>3, ClearBlockStands DEF h1, B1
  <1>12. Stands(a, B1, A, F1) /\ a.mem = h.mem
    <2> HIDE DEF h1, B1
    <2> QED
      BY <1>2, <1>9, <1>11, RemoveStands
  <1> HIDE DEF h1, a, B1, F1
  <1>13. Stands(h2, B2, A, F1) /\ h2.mem = h.mem
    BY <1>4, <1>5, <1>7, <1>12, SetBlockStands
  <1> HIDE DEF h2, B2
  <1>14. Stands(low, B2, A, F2) /\ low.mem = Filled(h.mem, {t}, "link")
    <2>1. Stands(h2, B2, A, F1) /\ Aligned(t, k) /\ <<t, k>> \notin F1
      BY ONLY <1>4, <1>7, <1>13
    <2>2. Stands(low, B2, A, F2) /\ low.mem = Filled(h2.mem, {t}, "link")
      BY ONLY <2>1, AddStands
    <2> HIDE DEF low, F2
    <2> QED
      BY ONLY <2>2, <1>13
  <1> HIDE DEF low, F2
  <1>15. Stands(h3, B3, A, F2) /\ h3.mem = Filled(h.mem, {t}, "link")
    BY <1>4, <1>5, <1>7, <1>14, SetBlockStands
  <1> HIDE DEF h3, B3
  <1>16. /\ Stands(both, B3, A, F3)
         /\ both.mem = Filled(Filled(h.mem, {t}, "link"), {q}, "link")
         /\ both.freelist[k] # <<>> /\ Head(both.freelist[k]) = q
    <2>1. Stands(h3, B3, A, F2) /\ Aligned(q, k) /\ <<q, k>> \notin F2
      BY ONLY <1>4, <1>7, <1>15
    <2>2. Stands(both, B3, A, F3) /\ both.mem = Filled(h3.mem, {q}, "link")
      BY ONLY <2>1, AddStands
    <2>3. AtHead(both.freelist, k, q)
      BY ONLY <2>1, AddStands
    <2> HIDE DEF both, F3
    <2> QED
      BY ONLY <2>2, <2>3, <1>15 DEF AtHead
  <1> HIDE DEF both, F3
  <1>17. A \cup F3 = B3 /\ A \cap F3 = {}
    BY ONLY <1>1, <1>2, <1>3, <1>5 DEF B1, B2, B3, F1, F2, F3, With, Less
  <1>18. Split(h, l) = both
    <2>1. Mate(q, k) = t
      BY <1>2, MatesOfHalves DEF q, k
    <2>2. k >= 1
      BY SizeFacts DEF k, Lists
    <2>3. <<t, k>> \in B3
      BY ONLY TRUE DEF B3, B2, With
    <2>4. IsBlock(both, t, k) /\ ~IsMalloced(both, t, k)
      BY <1>4, <1>5, <1>16, <2>3, TestBits
    <2>5. sh_find_my_buddy(both, q, k) = {t}
      BY <1>4, <2>1, <2>2, <2>4, FindBuddy DEF IsBlock, IsMalloced
    <2>6. (sh_find_my_buddy(both, q, k) = {t}) = TRUE
      BY ONLY <2>5
    <2>7. both \in HeapT /\ both.ok = TRUE
      BY <1>16 DEF Stands
    <2>8. Assert_(both, sh_find_my_buddy(both, q, k) = {t}) = both
      BY <2>6, <2>7, AssertHolds
    <2> QED
      BY <1>10, <2>8
  <1>19. Linked(both.mem, F3)
    <2>1. F \subseteq B
      BY ONLY <1>1
    <2> QED
      BY <1>1, <1>2, <1>16, <2>1, SplitLinked DEF F3, F2, F1, k, q
  <1>20. Rep(both, B3, A, F3)
    BY ONLY <1>4, <1>16, <1>17, <1>19 DEF Rep
  <1>21. Coalesced(Less(F3, q, k))
    <2>1. F \subseteq BlockT
      BY <1>1 DEF Stands
    <2> QED
      BY <1>2, <1>5, <2>1, SplitCoalesced DEF F3, F2, F1, k, q, t
  <1> QED
    BY <1>16, <1>18, <1>20, <1>21 DEF k

(***************************************************************************)
(* sh_malloc.                                                              *)
(***************************************************************************)

\* The head of the list may be handed out: but for it, no free blocks are
\* the halves of a block.
Peel(h, A, l) ==
    /\ h.freelist[l] # <<>>
    /\ \E B, F : Rep(h, B, A, F) /\ Coalesced(Less(F, Head(h.freelist[l]), l))

\* The splitting loop ends with such a block.
LEMMA ReadyPeels ==
    ASSUME NEW h, NEW B, NEW A, NEW F, Rep(h, B, A, F), Coalesced(F),
           NEW list \in Lists, Sources(h, list) # {}
    PROVE  Peel(Ready(h, list), A, list)
  <1> DEFINE slist == Max(Sources(h, list))
  <1>1. list \in Nat /\ list <= LEVELS /\ LEVELS \in Nat
    BY SizeFacts DEF Lists
  <1>2. slist \in Sources(h, list)
    <2>1. Sources(h, list) \subseteq 0..list
      BY DEF Sources
    <2> QED
      BY <1>1, <2>1, MaxOfInterval
  <1>3. slist \in Nat /\ slist <= list /\ h.freelist[slist] # <<>>
    BY <1>1, <1>2 DEF Sources
  <1>4. PICK f : /\ Ready(h, list) = f[list]
                 /\ f = [l \in slist..list |->
                           IF l = slist THEN h ELSE Split(f[l - 1], l - 1)]
    <2> HIDE DEF slist
    <2> QED
      BY <1>1, <1>3, ReadyIsRecursive DEF slist
  <1> HIDE DEF slist
  <1>5. f[slist] = h
    BY <1>1, <1>3, <1>4
  <1>6. \A l \in slist..list - 1 : f[l + 1] = Split(f[l], l)
    <2> TAKE l \in slist..list - 1
    <2>1. l + 1 \in slist..list /\ l + 1 # slist /\ (l + 1) - 1 = l
      BY <1>1, <1>3
    <2>2. f[l + 1] = IF l + 1 = slist THEN h ELSE Split(f[(l + 1) - 1], (l + 1) - 1)
      BY <2>1, <1>4
    <2> QED
      BY ONLY <2>1, <2>2
  <1> DEFINE T == {l \in slist..list : Peel(f[l], A, l)}
  <1>7. slist \in T
    <2>1. Coalesced(Less(F, Head(h.freelist[slist]), slist))
      BY DEF Coalesced, Less
    <2>2. Peel(h, A, slist)
      BY <1>3, <2>1 DEF Peel
    <2> QED
      BY <1>1, <1>3, <1>5, <2>2
  <1>8. ASSUME NEW l \in slist..list - 1, l \in T
        PROVE  l + 1 \in T
    <2>1. l \in Lists /\ l < LEVELS /\ l + 1 \in slist..list
      BY <1>1, <1>3 DEF Lists
    <2>2. Peel(f[l], A, l)
      BY <1>8
    <2> DEFINE g == f[l]
    <2>3. g.freelist[l] # <<>>
      BY <2>2 DEF Peel
    <2>4. PICK C, G : Rep(g, C, A, G) /\ Coalesced(Less(G, Head(g.freelist[l]), l))
      BY <2>2 DEF Peel
    <2> HIDE DEF g
    <2>5. Peel(Split(g, l), A, l + 1)
      BY <2>1, <2>3, <2>4, SplitRep DEF Peel
    <2>6. f[l + 1] = Split(g, l)
      BY <1>6 DEF g
    <2> QED
      BY <2>1, <2>5, <2>6
  <1>9. slist..list \subseteq T
    <2> HIDE DEF T
    <2> QED
      BY <1>1, <1>3, <1>7, <1>8, IntervalInduction
  <1>10. list \in slist..list
    BY <1>1, <1>3
  <1> QED
    BY <1>4, <1>9, <1>10

\* It is taken off the list and its links are wiped: it is zero.
LEMMA TakeRep ==
    ASSUME NEW h, NEW A, NEW l \in Lists, Peel(h, A, l),
           NEW p, p = Head(h.freelist[l]), NEW g, g = Take(h, l)
    PROVE  /\ <<p, l>> \notin A /\ Aligned(p, l)
           /\ \A m : <<p, m>> \notin A
           /\ \A u \in Block(p, l) : g.mem[u] = "zero"
           /\ \E C, G : /\ Rep(g, C, With(A, p, l), G) /\ Coalesced(G)
                        /\ <<p, l>> \in C
  <1>1. PICK B, F : Rep(h, B, A, F) /\ Coalesced(Less(F, p, l))
    BY DEF Peel
  <1>2. Stands(h, B, A, F) /\ Tiles(B) /\ A \cup F = B /\ A \cap F = {} /\ Linked(h.mem, F)
    BY <1>1 DEF Rep
  <1>3. <<p, l>> \in F /\ Aligned(p, l)
    BY <1>2, HeadIsFree DEF Peel
  <1>4. <<p, l>> \in B /\ <<p, l>> \notin A
    BY ONLY <1>2, <1>3
  <1>5. \A m : <<p, m>> \notin A
    <2> SUFFICES ASSUME NEW m, <<p, m>> \in A PROVE FALSE
      OBVIOUS
    <2>1. <<p, m>> \in B
      BY <1>2
    <2>2. m = l
      BY <2>1, <1>2, <1>4, SameStart
    <2> QED
      BY <2>2, <1>4
  <1> DEFINE h1 == SetMalloced(h, p, l)
             h2 == sh_remove_from_list(h1, l, p)
             A1 == With(A, p, l)
             F1 == Less(F, p, l)
  <1>6. g = Fill(h2, {p}, "zero")
    BY DEF Take
  <1>7. /\ h.mem[p] = "link" /\ h.mem \in MemT
        /\ \A u \in Block(p, l) : u # p => h.mem[u] = "zero"
    BY <1>2, <1>3 DEF Linked, Stands, HeapT, Span
  <1>8. Stands(h1, B, A1, F) /\ h1.mem = h.mem
    BY <1>2, <1>4, SetMallocedStands
  <1> HIDE DEF h1, A1
  <1>9. Stands(h2, B, A1, F1) /\ h2.mem = h.mem
    BY <1>3, <1>7, <1>8, RemoveStands
  <1> HIDE DEF h2, F1
  <1>10. Stands(g, B, A1, F1) /\ g.mem = Filled(h2.mem, {p}, "zero")
    BY <1>6, <1>9, FillStands
  <1>11. \A u \in Units : g.mem[u] = IF u = p THEN "zero" ELSE h.mem[u]
    BY <1>9, <1>10 DEF Filled
  <1>12. Block(p, l) \subseteq Units /\ p \in Block(p, l)
    BY <1>3, BlockInArena
  <1>13. \A u \in Block(p, l) : g.mem[u] = "zero"
    BY <1>7, <1>11, <1>12
  <1>14. Linked(g.mem, F1)
    <2> SUFFICES ASSUME NEW b \in F, b # <<p, l>>
                 PROVE  /\ g.mem[b[1]] = "link"
                        /\ \A u \in Span(b) : u # b[1] => g.mem[u] = "zero"
      BY DEF Linked, F1, Less
    <2>1. b \in B
      BY <1>2
    <2>2. Aligned(b[1], b[2])
      BY <2>1, <1>2, Pairs DEF Tiles
    <2>3. b[1] \in Span(b) /\ Span(b) \subseteq Units
      BY <2>2, BlockInArena DEF Span
    <2>4. Span(b) \cap Span(<<p, l>>) = {}
      BY <2>1, <1>2, <1>4 DEF Tiles
    <2>5. p \notin Span(b)
      BY <2>4, <1>12 DEF Span
    <2>6. \A u \in Span(b) : g.mem[u] = h.mem[u]
      BY <2>3, <2>5, <1>11
    <2> QED
      BY <2>3, <2>6, <1>2 DEF Linked
  <1>15. A1 \cup F1 = B /\ A1 \cap F1 = {}
    BY ONLY <1>2, <1>3, <1>4 DEF A1, F1, With, Less
  <1>16. Rep(g, B, A1, F1)
    BY ONLY <1>2, <1>10, <1>14, <1>15 DEF Rep
  <1>17. Coalesced(F1)
    BY <1>1 DEF F1
  <1> QED
    BY <1>3, <1>4, <1>5, <1>13, <1>16, <1>17 DEF A1

(***************************************************************************)
(* sh_free.                                                                *)
(***************************************************************************)

\* Two halves and the tile they make.
LEMMA MergeTiles ==
    ASSUME NEW B, Tiles(B), NEW p, NEW l, <<p, l>> \in B, l >= 1,
           NEW b, b = Mate(p, l), <<b, l>> \in B, NEW low, low = Low(p, l)
    PROVE  /\ Tiles(With(Less(Less(B, p, l), b, l), low, l - 1))
           /\ <<low, l - 1>> \notin B
  <1> DEFINE d == <<p, l>>
             c == <<b, l>>
             e == <<low, l - 1>>
             C == (B \ {d, c}) \cup {e}
  <1>1. Aligned(p, l)
    BY Pairs DEF Tiles
  <1>2. /\ Aligned(low, l - 1)
        /\ Block(low, l - 1) = Block(p, l) \cup Block(b, l)
        /\ (l - 1) + 1 = l /\ l - 1 \in Lists
    BY <1>1, MateFacts
  <1>3. e \in BlockT
    BY <1>2, Pairs
  <1>4. Span(e) = Span(d) \cup Span(c)
    BY <1>2 DEF Span
  <1>5. e # d /\ e # c
    <2>1. l - 1 # l
      BY <1>2, SizeFacts
    <2> QED
      BY <2>1
  <1>6. Tiles(C) /\ {e} \cap (B \ {d, c}) = {}
    <2>1. d \in B /\ c \in B
      OBVIOUS
    <2> HIDE DEF e, d, c
    <2>2. {d, c} \subseteq B /\ {e} \subseteq BlockT
      BY <2>1, <1>3
    <2>3. \A u : (\E x \in {d, c} : u \in Span(x)) <=> (\E y \in {e} : u \in Span(y))
      BY <1>4
    <2>4. \A y, z \in {e} : Span(y) \cap Span(z) # {} => y = z
      OBVIOUS
    <2> QED
      BY <2>2, <2>3, <2>4, Retile
  <1>7. e \notin B
    <2> HIDE DEF e, d, c
    <2> QED
      BY <1>5, <1>6
  <1>8. C = With(Less(Less(B, p, l), b, l), low, l - 1)
    BY DEF With, Less
  <1> QED
    BY <1>6, <1>7, <1>8

\* The links of the tile: those of the half that does not start it are wiped.
LEMMA MergeLinked ==
    ASSUME NEW B, Tiles(B), NEW F, F \subseteq B, NEW p, NEW l, <<p, l>> \in F,
           l >= 1, NEW b, b = Mate(p, l), <<b, l>> \in F,
           NEW low, low = Low(p, l), NEW high, low # high,
           (low = p /\ high = b) \/ (low = b /\ high = p),
           NEW m, Linked(m, F)
    PROVE  Linked(Filled(Filled(m, {high}, "zero"), {low}, "link"),
                  With(Less(Less(F, p, l), b, l), low, l - 1))
  <1> DEFINE n == Filled(Filled(m, {high}, "zero"), {low}, "link")
             G == With(Less(Less(F, p, l), b, l), low, l - 1)
             e == <<low, l - 1>>
  <1>1. Aligned(p, l)
    BY Pairs DEF Tiles
  <1>2. Aligned(low, l - 1) /\ Block(low, l - 1) = Block(p, l) \cup Block(b, l)
    BY <1>1, MateFacts
  <1>3. Aligned(b, l)
    BY <1>1, MateFacts
  <1>4. /\ Block(low, l - 1) \subseteq Units
        /\ p \in Block(p, l) /\ b \in Block(b, l)
    BY <1>1, <1>2, <1>3, BlockInArena
  <1>5. \A u \in Units : n[u] = IF u = low THEN "link"
                                ELSE IF u = high THEN "zero" ELSE m[u]
    BY DEF Filled
  <1> HIDE DEF n
  <1>6. /\ \A u \in Block(p, l) : u # p => m[u] = "zero"
        /\ \A u \in Block(b, l) : u # b => m[u] = "zero"
    BY DEF Linked, Span
  <1>7. n[low] = "link" /\ \A u \in Block(low, l - 1) : u # low => n[u] = "zero"
    <2>1. low \in Block(low, l - 1)
      BY <1>2, <1>4
    <2>2. n[low] = "link"
      BY <2>1, <1>4, <1>5
    <2>3. ASSUME NEW u \in Block(low, l - 1), u # low PROVE n[u] = "zero"
      <3>1. u \in Units
        BY <1>4
      <3>2. CASE u = high
        BY <3>1, <3>2, <2>3, <1>5
      <3>3. CASE u # high
        <4>1. u # p /\ u # b
          BY <3>3, <2>3
        <4>2. m[u] = "zero"
          BY <4>1, <1>2, <1>6
        <4> QED
          BY <4>2, <3>1, <3>3, <2>3, <1>5
      <3> QED
        BY <3>2, <3>3
    <2> QED
      BY <2>2, <2>3
  <1>8. ASSUME NEW c \in F, c # <<p, l>>, c # <<b, l>>
        PROVE  n[c[1]] = "link" /\ \A u \in Span(c) : u # c[1] => n[u] = "zero"
    <2>1. Span(c) \cap Span(<<p, l>>) = {} /\ Span(c) \cap Span(<<b, l>>) = {}
      BY <1>8 DEF Tiles
    <2>2. p \notin Span(c) /\ b \notin Span(c)
      BY <2>1, <1>4 DEF Span
    <2>3. Aligned(c[1], c[2])
      BY Pairs DEF Tiles
    <2>4. c[1] \in Span(c) /\ Span(c) \subseteq Units
      BY <2>3, BlockInArena DEF Span
    <2>5. \A u \in Span(c) : u # low /\ u # high
      BY <2>2
    <2>6. \A u \in Span(c) : n[u] = m[u]
      BY <2>4, <2>5, <1>5
    <2> QED
      BY <2>4, <2>6 DEF Linked
  <1>9. \A c : c \in G <=> (c \in F /\ c # <<p, l>> /\ c # <<b, l>>) \/ c = e
    BY DEF With, Less
  <1> HIDE DEF G
  <1>10. ASSUME NEW c \in G
         PROVE  n[c[1]] = "link" /\ \A u \in Span(c) : u # c[1] => n[u] = "zero"
    <2>1. CASE c = e
      BY <2>1, <1>7 DEF Span
    <2>2. CASE c \in F /\ c # <<p, l>> /\ c # <<b, l>>
      BY <2>2, <1>8
    <2> QED
      BY <1>9, <2>1, <2>2
  <1>11. Linked(n, G)
    BY <1>10 DEF Linked
  <1> QED
    BY <1>11 DEF n, G

\* One round of the coalescing loop that finds a buddy.
LEMMA MergeRep ==
    ASSUME NEW h, NEW B, NEW A, NEW F, Rep(h, B, A, F), NEW p, NEW l,
           <<p, l>> \in F, l >= 1, NEW b, b = Mate(p, l), <<b, l>> \in F,
           Coalesced(Less(F, p, l)), NEW g, g = Merge(h, p, b, l),
           NEW low, low = IF p > b THEN b ELSE p
    PROVE  \E C, G : /\ Rep(g, C, A, G) /\ <<low, l - 1>> \in G
                     /\ Coalesced(Less(G, low, l - 1))
  <1> DEFINE k == l - 1
             high == IF p > b THEN p ELSE b
             B1 == Less(B, p, l)
             B2 == Less(B1, b, l)
             B3 == With(B2, low, k)
             F1 == Less(F, p, l)
             F2 == Less(F1, b, l)
             F3 == With(F2, low, k)
             h1 == ClearBlock(h, p, l)
             a == sh_remove_from_list(h1, l, p)
             h2 == ClearBlock(a, b, l)
             c == sh_remove_from_list(h2, l, b)
             h3 == Fill(c, {high}, "zero")
             h4 == SetBlock(h3, low, k)
  <1>1. Stands(h, B, A, F) /\ Tiles(B) /\ A \cup F = B /\ A \cap F = {} /\ Linked(h.mem, F)
    BY DEF Rep
  <1>2. <<p, l>> \in B /\ <<p, l>> \notin A /\ <<b, l>> \in B /\ <<b, l>> \notin A
    BY <1>1
  <1>3. Aligned(p, l)
    BY <1>1, Pairs DEF Stands
  <1>4. /\ Aligned(b, l) /\ b # p /\ Mate(b, l) = p
        /\ low = Low(p, l) /\ Aligned(low, k)
    BY <1>3, MateFacts
  <1>5. Tiles(B3) /\ <<low, k>> \notin B
    BY <1>1, <1>2, <1>4, MergeTiles
  <1>6. low # high /\ ((low = p /\ high = b) \/ (low = b /\ high = p))
    <2>1. low = (IF p > b THEN b ELSE p) /\ b # p
      BY <1>4
    <2> QED
      BY ONLY <2>1
  <1>7. Assert_(h, sh_find_my_buddy(h, b, l) = {p} /\ ~IsMalloced(h, p, l)) = h
    <2>1. IsBlock(h, p, l) /\ ~IsMalloced(h, p, l)
      BY <1>1, <1>2, <1>3, TestBits
    <2>2. sh_find_my_buddy(h, b, l) = {p}
      BY <1>4, <2>1, FindBuddy DEF IsBlock, IsMalloced
    <2>3. (sh_find_my_buddy(h, b, l) = {p} /\ ~IsMalloced(h, p, l)) = TRUE
      BY ONLY <2>1, <2>2
    <2>4. h \in HeapT /\ h.ok = TRUE
      BY <1>1 DEF Stands
    <2> QED
      BY <2>3, <2>4, AssertHolds
  <1>8. g = sh_add_to_list(h4, k, low)
    BY <1>7 DEF Merge
  <1>9. h.mem[p] = "link" /\ h.mem[b] = "link"
    BY <1>1 DEF Linked
  <1>10. <<b, l>> \in B1 /\ <<b, l>> \in F1
    BY <1>2, <1>4 DEF Less
  <1>11. <<low, k>> \notin B2 /\ <<low, k>> \notin A /\ <<low, k>> \notin F2
         /\ <<low, k>> \notin F
    BY <1>1, <1>5 DEF Less
  <1> HIDE DEF k, high
  <1>12. Stands(h1, B1, A, F) /\ h1.mem = h.mem
    BY <1>1, <1>2, ClearBlockStands
  <1> HIDE DEF h1, B1
  <1>13. Stands(a, B1, A, F1) /\ a.mem = h.mem
    BY <1>9, <1>12, RemoveStands
  <1> HIDE DEF a, F1
  <1>14. Stands(h2, B2, A, F1) /\ h2.mem = h.mem
    BY <1>10, <1>13, ClearBlockStands
  <1> HIDE DEF h2, B2
  <1>15. Stands(c, B2, A, F2) /\ c.mem = h.mem
    BY <1>9, <1>10, <1>14, RemoveStands
  <1> HIDE DEF c, F2
  <1>16. Stands(h3, B2, A, F2) /\ h3.mem = Filled(c.mem, {high}, "zero")
    BY <1>15, FillStands
  <1> HIDE DEF h3
  <1>17. Stands(h4, B3, A, F2) /\ h4.mem = h3.mem
    BY <1>4, <1>11, <1>16, SetBlockStands
  <1> HIDE DEF h4, B3
  <1>18. Stands(g, B3, A, F3) /\ g.mem = Filled(h4.mem, {low}, "link")
    BY <1>4, <1>8, <1>11, <1>17, AddStands
  <1> HIDE DEF F3
  <1>19. g.mem = Filled(Filled(h.mem, {high}, "zero"), {low}, "link")
    BY ONLY <1>15, <1>16, <1>17, <1>18
  <1>20. A \cup F3 = B3 /\ A \cap F3 = {}
    BY ONLY <1>1, <1>2, <1>11 DEF B1, B2, B3, F1, F2, F3, With, Less
  <1>21. Linked(g.mem, F3)
    <2>1. F \subseteq B
      BY ONLY <1>1
    <2>2. F3 = With(Less(Less(F, p, l), b, l), low, l - 1)
      BY DEF F3, F2, F1, k
    <2>3. Linked(Filled(Filled(h.mem, {high}, "zero"), {low}, "link"),
                 With(Less(Less(F, p, l), b, l), low, l - 1))
      BY <1>1, <1>4, <1>6, <2>1, MergeLinked
    <2> QED
      BY ONLY <1>19, <2>2, <2>3
  <1>22. Rep(g, B3, A, F3)
    BY ONLY <1>5, <1>18, <1>20, <1>21 DEF Rep
  <1>23. <<low, k>> \in F3
    BY DEF F3, With
  <1>24. Coalesced(Less(F3, low, k))
    <2>1. Less(F3, low, k) \subseteq F1
      BY DEF F3, F2, With, Less
    <2> QED
      BY <2>1 DEF Coalesced, F1
  <1> QED
    BY <1>22, <1>23, <1>24 DEF k

\* A block whose other half is not free leaves nothing to coalesce.
LEMMA NoBuddyCoalesced ==
    ASSUME NEW F, F \subseteq BlockT, NEW p, NEW l, Aligned(p, l),
           Coalesced(Less(F, p, l)), l >= 1 => <<Mate(p, l), l>> \notin F
    PROVE  Coalesced(F)
  <1> SUFFICES ASSUME NEW d \in F, d[2] >= 1, MateOf(d) \in F PROVE FALSE
    BY DEF Coalesced
  <1>1. Aligned(d[1], d[2]) /\ d = <<d[1], d[2]>>
    BY Pairs
  <1>2. CASE d = <<p, l>>
    BY <1>2 DEF MateOf
  <1>3. CASE MateOf(d) = <<p, l>>
    <2>1. d[2] = l /\ Mate(d[1], d[2]) = p
      BY <1>3 DEF MateOf
    <2>2. Mate(Mate(d[1], d[2]), d[2]) = d[1]
      BY <1>1, MateFacts
    <2>3. d = <<Mate(p, l), l>>
      BY <1>1, <2>1, <2>2
    <2> QED
      BY <2>1, <2>3
  <1>4. CASE d # <<p, l>> /\ MateOf(d) # <<p, l>>
    <2>1. d \in Less(F, p, l) /\ MateOf(d) \in Less(F, p, l)
      BY <1>4 DEF Less
    <2> QED
      BY <2>1 DEF Coalesced
  <1> QED
    BY <1>2, <1>3, <1>4

\* Between two rounds of the loop of sh_free, with the lists from l to 0 left.
Loop(x, A, l) ==
    /\ x.more \in BOOLEAN
    /\ \E B, F : /\ Rep(x.heap, B, A, F)
                 /\ x.more => <<x.at, l>> \in F /\ Coalesced(Less(F, x.at, l))
                 /\ ~x.more => Coalesced(F)

\* A round of the loop.
LEMMA CoalesceLoop ==
    ASSUME NEW x, NEW A, NEW l \in Lists, l >= 1, Loop(x, A, l)
    PROVE  Loop(Coalesce(x, l), A, l - 1)
  <1> DEFINE h == x.heap
             p == x.at
             found == sh_find_my_buddy(h, p, l)
             stop == [heap |-> h, at |-> p, more |-> FALSE]
  <1>1. x.more \in BOOLEAN
    BY DEF Loop
  <1>2. PICK B, F : /\ Rep(h, B, A, F)
                    /\ x.more => <<p, l>> \in F /\ Coalesced(Less(F, p, l))
                    /\ ~x.more => Coalesced(F)
    BY DEF Loop
  <1>4. ASSUME Coalesced(F) PROVE Loop(stop, A, l - 1)
    <2>1. stop.heap = h /\ stop.at = p /\ stop.more = FALSE
      OBVIOUS
    <2> HIDE DEF stop, h, p
    <2> QED
      BY <1>2, <1>4, <2>1 DEF Loop
  <1>5. CASE ~x.more
    <2>1. Coalesce(x, l) = stop
      BY <1>5 DEF Coalesce
    <2> QED
      BY <1>2, <1>4, <1>5, <2>1
  <1>6. CASE x.more
    <2>1. /\ <<p, l>> \in F /\ Coalesced(Less(F, p, l))
          /\ Stands(h, B, A, F) /\ F \subseteq BlockT /\ A \cup F = B /\ A \cap F = {}
      BY <1>2, <1>6 DEF Rep, Stands
    <2>2. Aligned(p, l)
      BY <2>1, Pairs
    <2>3. found = IF IsBlock(h, Mate(p, l), l) /\ ~IsMalloced(h, Mate(p, l), l)
                    THEN {Mate(p, l)} ELSE {}
      BY <2>2, FindBuddy DEF IsBlock, IsMalloced
    <2>4. Aligned(Mate(p, l), l)
      BY <2>2, MateFacts
    <2>5. /\ IsBlock(h, Mate(p, l), l) <=> <<Mate(p, l), l>> \in B
          /\ IsMalloced(h, Mate(p, l), l) <=> <<Mate(p, l), l>> \in A
      BY <2>1, <2>4, TestBits
    <2>6. found = IF <<Mate(p, l), l>> \in F THEN {Mate(p, l)} ELSE {}
      BY <2>1, <2>3, <2>5
    <2>7. CASE <<Mate(p, l), l>> \notin F
      <3>1. found = {}
        BY <2>6, <2>7
      <3>2. Coalesce(x, l) = stop
        BY <3>1 DEF Coalesce
      <3>3. Coalesced(F)
        BY <2>1, <2>2, <2>7, NoBuddyCoalesced
      <3> QED
        BY <1>4, <3>2, <3>3
    <2>8. CASE <<Mate(p, l), l>> \in F
      <3> DEFINE b == Mate(p, l)
                 g == Merge(h, p, b, l)
                 low == IF p > b THEN b ELSE p
                 y == [heap |-> g, at |-> low, more |-> TRUE]
      <3>1. found = {b}
        BY <2>6, <2>8
      <3>2. (CHOOSE z \in found : TRUE) = b /\ found # {}
        BY <3>1
      <3>3. Coalesce(x, l) = y
        <4> HIDE DEF b
        <4> QED
          BY <1>6, <3>2 DEF Coalesce
      <3> HIDE DEF g, low
      <3>4. PICK C, G : /\ Rep(g, C, A, G) /\ <<low, l - 1>> \in G
                        /\ Coalesced(Less(G, low, l - 1))
        <4> HIDE DEF h, p, b
        <4>1. b = Mate(p, l) /\ <<b, l>> \in F
          BY <2>8 DEF b
        <4> QED
          BY <1>2, <2>1, <4>1, MergeRep DEF g, low
      <3>5. Loop(y, A, l - 1)
        <4>1. y.heap = g /\ y.at = low /\ y.more = TRUE
          OBVIOUS
        <4> HIDE DEF y
        <4> QED
          BY <3>4, <4>1 DEF Loop
      <3> QED
        BY <3>3, <3>5
    <2> QED
      BY <2>7, <2>8
  <1> QED
    BY <1>1, <1>5, <1>6

\* A wiped block is put on its list.
LEMMA FreedLoop ==
    ASSUME NEW h, NEW B, NEW A, NEW F, Rep(h, B, A, F), Coalesced(F),
           NEW p, NEW l, <<p, l>> \in A, \A u \in Block(p, l) : h.mem[u] = "zero"
    PROVE  Loop(Freed(h, p, l), Less(A, p, l), l)
  <1> DEFINE h1 == ClearMalloced(h, p, l)
             g == sh_add_to_list(h1, l, p)
             A1 == Less(A, p, l)
             F1 == With(F, p, l)
             x == [heap |-> g, at |-> p, more |-> TRUE]
  <1>1. Stands(h, B, A, F) /\ Tiles(B) /\ A \cup F = B /\ A \cap F = {} /\ Linked(h.mem, F)
    BY DEF Rep
  <1>2. <<p, l>> \in B /\ <<p, l>> \notin F
    BY <1>1
  <1>3. Aligned(p, l)
    BY <1>1, Pairs DEF Stands
  <1>4. Stands(h1, B, A1, F) /\ h1.mem = h.mem
    BY <1>1, <1>2, ClearMallocedStands
  <1> HIDE DEF h1, A1
  <1>5. Stands(g, B, A1, F1) /\ g.mem = Filled(h1.mem, {p}, "link")
    BY <1>2, <1>3, <1>4, AddStands
  <1> HIDE DEF g, F1
  <1>6. \A u \in Units : g.mem[u] = IF u = p THEN "link" ELSE h.mem[u]
    BY <1>4, <1>5 DEF Filled
  <1>7. Block(p, l) \subseteq Units /\ p \in Block(p, l)
    BY <1>3, BlockInArena
  <1>8. Linked(g.mem, F1)
    <2> SUFFICES ASSUME NEW b \in F1
                 PROVE  /\ g.mem[b[1]] = "link"
                        /\ \A u \in Span(b) : u # b[1] => g.mem[u] = "zero"
      BY DEF Linked
    <2>1. CASE b = <<p, l>>
      BY <2>1, <1>6, <1>7 DEF Span
    <2>2. CASE b # <<p, l>>
      <3>1. b \in F /\ b \in B
        BY <2>2, <1>1 DEF F1, With
      <3>2. Aligned(b[1], b[2])
        BY <3>1, <1>1, Pairs DEF Tiles
      <3>3. b[1] \in Span(b) /\ Span(b) \subseteq Units
        BY <3>2, BlockInArena DEF Span
      <3>4. Span(b) \cap Span(<<p, l>>) = {}
        BY <2>2, <3>1, <1>1, <1>2 DEF Tiles
      <3>5. p \notin Span(b)
        BY <3>4, <1>7 DEF Span
      <3>6. \A u \in Span(b) : g.mem[u] = h.mem[u]
        BY <3>3, <3>5, <1>6
      <3> QED
        BY <3>1, <3>3, <3>6, <1>1 DEF Linked
    <2> QED
      BY <2>1, <2>2
  <1>9. A1 \cup F1 = B /\ A1 \cap F1 = {}
    BY ONLY <1>1, <1>2 DEF A1, F1, With, Less
  <1>10. Rep(g, B, A1, F1)
    BY ONLY <1>1, <1>5, <1>8, <1>9 DEF Rep
  <1>11. <<p, l>> \in F1 /\ Coalesced(Less(F1, p, l))
    <2>1. Less(F1, p, l) \subseteq F
      BY DEF F1, With, Less
    <2> QED
      BY <2>1 DEF Coalesced, F1, With
  <1>12. Freed(h, p, l) = x
    BY DEF Freed, g, h1
  <1>13. x.heap = g /\ x.at = p /\ x.more = TRUE
    OBVIOUS
  <1> HIDE DEF x
  <1>14. Loop(x, A1, l)
    BY <1>10, <1>11, <1>13 DEF Loop
  <1> QED
    BY <1>12, <1>14 DEF A1

\* sh_free coalesces all it can.
LEMMA FreeRep ==
    ASSUME NEW h, NEW B, NEW A, NEW F, Rep(h, B, A, F), Coalesced(F),
           NEW p, NEW l, <<p, l>> \in A, \A u \in Block(p, l) : h.mem[u] = "zero"
    PROVE  \E C, G : Rep(sh_free(h, p), C, Less(A, p, l), G) /\ Coalesced(G)
  <1> DEFINE A1 == Less(A, p, l)
  <1>1. Stands(h, B, A, F) /\ Tiles(B) /\ <<p, l>> \in B /\ Aligned(p, l)
    BY Pairs DEF Rep, Stands
  <1>2. l \in Lists /\ l \in Nat /\ l <= LEVELS /\ LEVELS \in Nat
    BY <1>1, SizeFacts DEF Aligned, Lists
  <1>3. sh_getlist(h, p) = l
    BY <1>1, GetList
  <1>4. PICK f : /\ sh_free(h, p) = f[l].heap
                 /\ f[0] = Freed(h, p, l)
                 /\ \A n \in 0..l - 1 : f[n + 1] = Coalesce(f[n], l - n)
    <2>1. l = sh_getlist(h, p)
      BY <1>3
    <2> QED
      BY ONLY <1>2, <2>1, FreeIsRecursive
  <1> DEFINE T == {n \in 0..l : Loop(f[n], A1, l - n)}
  <1>5. 0 \in T
    <2>1. Loop(Freed(h, p, l), A1, l)
      BY FreedLoop
    <2>2. f[0] = Freed(h, p, l) /\ l - 0 = l /\ 0 \in 0..l
      BY <1>2, <1>4
    <2> QED
      BY <2>1, <2>2
  <1>6. ASSUME NEW n \in 0..l - 1, n \in T
        PROVE  n + 1 \in T
    <2>1. /\ n + 1 \in 0..l /\ n + 1 # 0 /\ (n + 1) - 1 = n
          /\ l - n \in Lists /\ l - n >= 1 /\ (l - n) - 1 = l - (n + 1)
      BY <1>2 DEF Lists
    <2>3. f[n + 1] = Coalesce(f[n], l - n)
      BY <1>4
    <2>4. Loop(f[n], A1, l - n)
      BY <1>6
    <2>5. Loop(Coalesce(f[n], l - n), A1, (l - n) - 1)
      BY <2>1, <2>4, CoalesceLoop
    <2> QED
      BY <2>1, <2>3, <2>5
  <1>7. 0..l \subseteq T
    <2> HIDE DEF T
    <2> QED
      BY <1>2, <1>5, <1>6, IntervalInduction
  <1>8. Loop(f[l], A1, 0)
    <2>1. l \in 0..l /\ l - l = 0
      BY <1>2
    <2> QED
      BY <1>7, <2>1
  <1> DEFINE x == f[l]
  <1> HIDE DEF x, A1
  <1>9. PICK C, G : /\ Rep(x.heap, C, A1, G)
                    /\ x.more => <<x.at, 0>> \in G /\ Coalesced(Less(G, x.at, 0))
                    /\ ~x.more => Coalesced(G)
    BY <1>8 DEF Loop, x
  <1>10. ASSUME x.more PROVE Coalesced(G)
    <2>1. G \subseteq BlockT
      BY <1>9 DEF Rep, Stands
    <2>2. Aligned(x.at, 0)
      BY <1>9, <1>10, <2>1, Pairs
    <2>3. Coalesced(Less(G, x.at, 0)) /\ (0 >= 1 => <<Mate(x.at, 0), 0>> \notin G)
      BY <1>9, <1>10
    <2> QED
      BY ONLY <2>1, <2>2, <2>3, NoBuddyCoalesced
  <1> QED
    BY <1>4, <1>9, <1>10 DEF x, A1

(***************************************************************************)
(* The heap at the start, and writes to it.                                *)
(***************************************************************************)

\* The sets that the properties speak of are those the heap stands for.
LEMMA ReadBlocks ==
    ASSUME NEW h, NEW B, NEW A, NEW F, Stands(h, B, A, F)
    PROVE  Blocks(h) = B /\ FreeBlocks(h) = B \ A /\ Allocated(h) = B \cap A
  <1>1. B \subseteq BlockT
    BY DEF Stands
  <1>2. ASSUME NEW b \in BlockT
        PROVE  /\ IsBlock(h, b[1], b[2]) <=> b \in B
               /\ IsMalloced(h, b[1], b[2]) <=> b \in A
    <2>1. b = <<b[1], b[2]>> /\ Aligned(b[1], b[2])
      BY Pairs
    <2>2. /\ IsBlock(h, b[1], b[2]) <=> <<b[1], b[2]>> \in B
          /\ IsMalloced(h, b[1], b[2]) <=> <<b[1], b[2]>> \in A
      BY <2>1, TestBits
    <2> QED
      BY <2>1, <2>2
  <1>3. Blocks(h) = {b \in BlockT : IsBlock(h, b[1], b[2])}
    BY DEF Blocks, BlockT
  <1>4. Blocks(h) = B
    BY <1>1, <1>2, <1>3
  <1>5. FreeBlocks(h) = B \ A
    <2>1. FreeBlocks(h) = {b \in B : ~IsMalloced(h, b[1], b[2])}
      BY <1>4 DEF FreeBlocks
    <2> QED
      BY <1>1, <1>2, <2>1
  <1>6. Allocated(h) = B \cap A
    BY <1>4, <1>5 DEF Allocated
  <1> QED
    BY <1>4, <1>5, <1>6

\* A heap that is gone has no blocks.
LEMMA GoneStands ==
    Stands(Gone, {}, {}, {}) /\ Gone.mem = [u \in Units |-> "zero"]
  <1> DEFINE lists == [l \in Lists |-> <<>>]
             m == [u \in Units |-> "zero"]
  <1>1. lists \in [Lists -> Seq(Units)] /\ \A l \in Lists : lists[l] = <<>>
    <2>1. <<>> \in Seq(Units)
      BY EmptySeq
    <2> QED
      BY <2>1
  <1>2. m \in MemT
    BY DEF MemT
  <1>3. Listed(lists, {})
    <2>1. IsInjective(<<>>) /\ ToSet(<<>>) = {}
      BY DEF IsInjective, ToSet
    <2> SUFFICES ASSUME NEW l \in Lists
                 PROVE  /\ IsInjective(lists[l])
                        /\ ToSet(lists[l]) = {p \in Units : <<p, l>> \in {}}
      BY DEF Listed
    <2>2. lists[l] = <<>>
      BY <1>1
    <2> HIDE DEF lists
    <2> QED
      BY <2>1, <2>2
  <1> HIDE DEF lists, m
  <1>4. Gone = [bittable |-> {}, bitmalloc |-> {}, freelist |-> lists, mem |-> m,
                ok |-> TRUE]
    BY DEF Gone, lists, m
  <1>5. Gone \in HeapT
    BY <1>1, <1>2, <1>4 DEF HeapT
  <1>6. /\ Gone.ok = TRUE /\ Gone.bittable = {} /\ Gone.bitmalloc = {}
        /\ Gone.freelist = lists /\ Gone.mem = m
    BY <1>4
  <1>7. Bits({}) = {}
    BY DEF Bits
  <1> QED
    BY <1>3, <1>5, <1>6, <1>7 DEF Stands, m

\* sh_init leaves one free block, the arena.
LEMMA FreshRep ==
    \E B, F : Rep(Fresh, B, {}, F) /\ Coalesced(F)
  <1> DEFINE e == <<0, 0>>
             h1 == SetBlock(Gone, 0, 0)
             none == {}
             B == With(none, 0, 0)
  <1>1. /\ 0 \in Lists /\ 0 \in Units /\ SizeOf(0) = ARENA /\ ARENA \in Nat /\ ARENA > 0
    BY SizeFacts DEF Lists, Units
  <1>2. Aligned(0, 0)
    BY <1>1 DEF Aligned
  <1>3. Stands(h1, B, none, none) /\ h1.mem = [u \in Units |-> "zero"]
    <2>1. Stands(Gone, none, none, none) /\ <<0, 0>> \notin none
      BY GoneStands
    <2>2. Gone.mem = [u \in Units |-> "zero"]
      BY GoneStands
    <2> HIDE DEF none
    <2>3. Stands(h1, B, none, none) /\ h1.mem = Gone.mem
      BY ONLY <1>2, <2>1, SetBlockStands
    <2> HIDE DEF h1
    <2> QED
      BY ONLY <2>2, <2>3
  <1> HIDE DEF h1
  <1>4. Fresh = sh_add_to_list(h1, 0, 0)
    BY DEF Fresh, h1
  <1>5. <<0, 0>> \notin none
    OBVIOUS
  <1>6. Stands(Fresh, B, none, B) /\ Fresh.mem = Filled(h1.mem, {0}, "link")
    <2> HIDE DEF none
    <2> QED
      BY ONLY <1>2, <1>3, <1>4, <1>5, AddStands
  <1>7. B = {e}
    BY DEF With
  <1> HIDE DEF B
  <1>8. Span(e) = Units
    BY <1>1 DEF Span, Block, Units
  <1>9. Tiles(B)
    <2>1. e \in BlockT
      BY <1>2, Pairs
    <2> HIDE DEF e
    <2> QED
      BY <1>7, <1>8, <2>1 DEF Tiles
  <1>10. Linked(Fresh.mem, B)
    <2>1. \A u \in Units : Fresh.mem[u] = IF u = 0 THEN "link" ELSE "zero"
      BY <1>3, <1>6 DEF Filled
    <2> QED
      BY <2>1, <1>1, <1>7, <1>8 DEF Linked
  <1>11. Rep(Fresh, B, none, B)
    BY <1>6, <1>9, <1>10 DEF Rep
  <1>12. Coalesced(B)
    <2>1. \A b \in B : ~(b[2] >= 1)
      BY <1>7
    <2> QED
      BY <2>1 DEF Coalesced
  <1> QED
    BY <1>11, <1>12

\* What is written to an allocated block is not in a free one.
LEMMA WriteRep ==
    ASSUME NEW h, NEW B, NEW A, NEW F, Rep(h, B, A, F), NEW p, NEW l,
           <<p, l>> \in A, NEW v \in {"zero", "link", "data"}
    PROVE  LET g == Fill(h, p..p + sh_actual_size(h, p) - 1, v)
           IN  /\ Rep(g, B, A, F)
               /\ \A u \in Block(p, l) : g.mem[u] = v
  <1> DEFINE g == Fill(h, Block(p, l), v)
  <1>1. Stands(h, B, A, F) /\ Tiles(B) /\ A \cup F = B /\ A \cap F = {} /\ Linked(h.mem, F)
    BY DEF Rep
  <1>2. <<p, l>> \in B /\ <<p, l>> \notin F
    BY <1>1
  <1>3. sh_getlist(h, p) = l
    BY <1>1, <1>2, GetList
  <1>4. Fill(h, p..p + sh_actual_size(h, p) - 1, v) = g
    BY <1>3 DEF sh_actual_size, Block
  <1>5. Stands(g, B, A, F) /\ g.mem = Filled(h.mem, Block(p, l), v)
    BY <1>1, FillStands
  <1> HIDE DEF g
  <1>6. \A u \in Units : g.mem[u] = IF u \in Block(p, l) THEN v ELSE h.mem[u]
    BY <1>5 DEF Filled
  <1>7. Aligned(p, l)
    BY <1>1, <1>2, Pairs DEF Tiles
  <1>8. \A u \in Block(p, l) : g.mem[u] = v
    BY <1>6, <1>7, BlockInArena
  <1>9. Linked(g.mem, F)
    <2> SUFFICES ASSUME NEW b \in F
                 PROVE  /\ g.mem[b[1]] = "link"
                        /\ \A u \in Span(b) : u # b[1] => g.mem[u] = "zero"
      BY DEF Linked
    <2>1. b \in B /\ b # <<p, l>>
      BY <1>1, <1>2
    <2>2. Aligned(b[1], b[2])
      BY <2>1, <1>1, Pairs DEF Tiles
    <2>3. b[1] \in Span(b) /\ Span(b) \subseteq Units
      BY <2>2, BlockInArena DEF Span
    <2>4. Span(b) \cap Span(<<p, l>>) = {}
      BY <2>1, <1>1, <1>2 DEF Tiles
    <2>5. \A u \in Span(b) : u \notin Block(p, l)
      BY <2>4 DEF Span
    <2>6. \A u \in Span(b) : g.mem[u] = h.mem[u]
      BY <2>3, <2>5, <1>6
    <2> QED
      BY <2>3, <2>6, <1>1 DEF Linked
  <1>10. Rep(g, B, A, F)
    BY ONLY <1>1, <1>5, <1>9 DEF Rep
  <1> QED
    BY <1>4, <1>8, <1>10

(***************************************************************************)
(* secure_mem_used.                                                        *)
(***************************************************************************)

Cover(A) == UNION {Block(b[1], b[2]) : b \in A}

\* The units of a set of blocks.
LEMMA CoverFacts ==
    ASSUME NEW A, A \subseteq BlockT
    PROVE  /\ \A u : u \in Cover(A) <=> \E b \in A : u \in Span(b)
           /\ Cover(A) \subseteq Units
           /\ IsFiniteSet(Cover(A)) /\ Cardinality(Cover(A)) \in 0..ARENA
           /\ IsFiniteSet(A) /\ Cardinality(A) \in Nat
           /\ Cardinality(Cover(A)) = 0 => A = {}
  <1>1. \A u : u \in Cover(A) <=> \E b \in A : u \in Span(b)
    BY DEF Cover, Span
  <1>2. \A b \in A : Span(b) \subseteq Units /\ Span(b) # {}
    BY Pairs, BlockInArena DEF Span
  <1>3. Cover(A) \subseteq Units
    BY <1>1, <1>2
  <1>4. IsFiniteSet(Units) /\ Cardinality(Units) = ARENA
    <2>1. 0 \in Int /\ ARENA - 1 \in Int /\ ~(0 > ARENA - 1) /\ (ARENA - 1) - 0 + 1 = ARENA
      BY SizeFacts
    <2> QED
      BY <2>1, FS_Interval DEF Units
  <1>5. /\ IsFiniteSet(Cover(A)) /\ Cardinality(Cover(A)) <= ARENA
        /\ Cardinality(Cover(A)) \in Nat
    BY <1>3, <1>4, FS_Subset, FS_CardinalityType
  <1>6. IsFiniteSet(A) /\ Cardinality(A) \in Nat
    <2>1. 0 \in Int /\ LEVELS \in Int
      BY SizeFacts
    <2>2. IsFiniteSet(Lists)
      BY <2>1, FS_Interval DEF Lists
    <2>3. IsFiniteSet(Units \X Lists)
      BY <1>4, <2>2, FS_Product
    <2>4. A \in SUBSET (Units \X Lists)
      BY DEF BlockT
    <2> QED
      BY <2>3, <2>4, FS_Subset, FS_CardinalityType
  <1>7. ASSUME Cardinality(Cover(A)) = 0 PROVE A = {}
    <2>1. Cover(A) = {}
      BY <1>5, <1>7, FS_EmptySet
    <2> QED
      BY <2>1, <1>1, <1>2
  <1>8. Cardinality(Cover(A)) \in 0..ARENA
    BY <1>5, SizeFacts
  <1> QED
    BY <1>1, <1>3, <1>5, <1>6, <1>7, <1>8

\* A block more.
LEMMA CoverWith ==
    ASSUME NEW B, Tiles(B), NEW A, A \subseteq B, NEW p, NEW l,
           <<p, l>> \in B, <<p, l>> \notin A
    PROVE  /\ Cardinality(Cover(With(A, p, l))) = Cardinality(Cover(A)) + SizeOf(l)
           /\ Cardinality(With(A, p, l)) = Cardinality(A) + 1
  <1> DEFINE e == <<p, l>>
             C == Cover(A)
             D == Block(p, l)
             A1 == With(A, p, l)
  <1>1. A \subseteq BlockT /\ A1 \subseteq BlockT
    BY DEF Tiles, With
  <1>2. Aligned(p, l)
    BY Pairs DEF Tiles
  <1>3. IsFiniteSet(D) /\ Cardinality(D) = SizeOf(l) /\ SizeOf(l) \in Nat
    BY <1>2, BlockInArena
  <1>4. /\ IsFiniteSet(C) /\ Cardinality(C) \in 0..ARENA
        /\ IsFiniteSet(A)
        /\ \A u : u \in C <=> \E b \in A : u \in Span(b)
    BY <1>1, CoverFacts
  <1>5. \A u : u \in Cover(A1) <=> \E b \in A1 : u \in Span(b)
    BY <1>1, CoverFacts
  <1> HIDE DEF C
  <1>6. D = Span(e)
    BY DEF Span
  <1> HIDE DEF D
  <1>7. C \cap D = {}
    <2> SUFFICES ASSUME NEW u, u \in C, u \in D PROVE FALSE
      OBVIOUS
    <2>1. PICK b \in A : u \in Span(b)
      BY <1>4
    <2>2. b = e
      BY <2>1, <1>6 DEF Tiles
    <2> QED
      BY <2>1, <2>2
  <1>8. Cover(A1) = C \cup D
    <2>1. \A b : b \in A1 <=> b \in A \/ b = e
      BY DEF With
    <2> HIDE DEF A1, e
    <2> QED
      BY <1>4, <1>5, <1>6, <2>1
  <1>9. Cardinality(C \cup D) = Cardinality(C) + Cardinality(D) - Cardinality(C \cap D)
    BY <1>3, <1>4, FS_Union
  <1>10. Cardinality(C \cap D) = 0
    BY <1>7, FS_EmptySet
  <1>11. Cardinality(C) \in Nat
    BY <1>4, SizeFacts
  <1>12. Cardinality(Cover(A1)) = Cardinality(C) + SizeOf(l)
    BY <1>3, <1>8, <1>9, <1>10, <1>11
  <1>13. Cardinality(A \cup {e}) = Cardinality(A) + 1
    <2> HIDE DEF e
    <2> QED
      BY <1>4, FS_AddElement DEF e
  <1> QED
    BY <1>12, <1>13 DEF C, With

\* A block less.
LEMMA CoverLess ==
    ASSUME NEW B, Tiles(B), NEW A, A \subseteq B, NEW p, NEW l, <<p, l>> \in A
    PROVE  /\ Cardinality(Cover(Less(A, p, l))) = Cardinality(Cover(A)) - SizeOf(l)
           /\ Cardinality(Less(A, p, l)) = Cardinality(A) - 1
  <1> DEFINE D == Less(A, p, l)
  <1>1. /\ D \subseteq B /\ <<p, l>> \in B /\ <<p, l>> \notin D
        /\ With(D, p, l) = A
    BY DEF Less, With
  <1>2. D \subseteq BlockT /\ l \in Lists
    BY <1>1, Pairs DEF Tiles, Aligned
  <1> HIDE DEF D
  <1>3. /\ Cardinality(Cover(With(D, p, l))) = Cardinality(Cover(D)) + SizeOf(l)
        /\ Cardinality(With(D, p, l)) = Cardinality(D) + 1
    BY <1>1, CoverWith
  <1>4. Cardinality(Cover(D)) \in Nat /\ Cardinality(D) \in Nat /\ SizeOf(l) \in Nat
    <2>1. Cardinality(Cover(D)) \in 0..ARENA /\ Cardinality(D) \in Nat
      BY <1>2, CoverFacts
    <2> QED
      BY <2>1, <1>2, SizeFacts
  <1>5. /\ Cardinality(Cover(A)) = Cardinality(Cover(D)) + SizeOf(l)
        /\ Cardinality(A) = Cardinality(D) + 1
    BY <1>1, <1>3
  <1> QED
    BY <1>4, <1>5 DEF D

(***************************************************************************)
(* The inductive invariant: a heap that is in order and coalesced, whose   *)
(* allocated blocks are the program's pointers.                            *)
(***************************************************************************)

\* The pointers of the program and secure_mem_used are those of the blocks.
Accounts(A) ==
    /\ DOMAIN owned = {b[1] : b \in A}
    /\ IsFiniteSet(DOMAIN owned)
    /\ \A b \in A : owned[b[1]] <= SizeOf(b[2])
    /\ Cardinality(A) = Cardinality(DOMAIN owned)
    /\ used = Cardinality(Cover(A))

InOrder == \E B, A, F : Rep(sh, B, A, F) /\ Coalesced(F) /\ Accounts(A)

IInv ==
    /\ initialized \in BOOLEAN
    /\ plain \in 0..MAX_PLAIN
    /\ ~initialized => sh = Gone /\ DOMAIN owned = {} /\ used = 0
    /\ initialized => InOrder

\* The list that serves a request has blocks that are large enough.
LEMMA ListForFits ==
    ASSUME NEW num \in Nat, num <= ARENA
    PROVE  ListFor(num) \in Lists /\ SizeOf(ListFor(num)) >= num
  <1> DEFINE I == {l \in Lists : SizeOf(l) >= num}
  <1>1. 0 \in I
    <2>1. 0 \in Lists
      BY SizeFacts DEF Lists
    <2>2. SizeOf(0) = ARENA /\ ARENA \in Nat
      BY SizeFacts
    <2> QED
      BY <2>1, <2>2
  <1>2. I \subseteq 0..LEVELS /\ I # {} /\ LEVELS \in Nat
    BY <1>1, SizeFacts DEF Lists
  <1>3. ListFor(num) = Max(I)
    BY DEF ListFor
  <1>4. Max(I) \in I
    <2> HIDE DEF I
    <2> QED
      BY <1>2, MaxOfInterval
  <1> QED
    BY <1>3, <1>4

\* The invariant holds at first.
LEMMA InitIInv ==
    Init => IInv
  <1> SUFFICES ASSUME Init PROVE IInv
    OBVIOUS
  <1>1. sh = Gone /\ used = 0 /\ initialized = FALSE /\ owned = <<>> /\ plain = 0
    BY DEF Init
  <1>2. DOMAIN owned = {}
    BY <1>1
  <1>3. plain \in 0..MAX_PLAIN
    BY <1>1, HeapAssumption
  <1> QED
    BY <1>1, <1>2, <1>3 DEF IInv

\* CRYPTO_secure_malloc_init makes a heap that is in order.
LEMMA InitStep ==
    ASSUME IInv, CRYPTO_secure_malloc_init
    PROVE  IInv' /\ DOMAIN owned' = DOMAIN owned
  <1>1. /\ initialized = FALSE /\ initialized' = TRUE /\ sh' = Fresh
        /\ used' = used /\ owned' = owned /\ plain' = plain
    BY DEF CRYPTO_secure_malloc_init, IInv
  <1>2. DOMAIN owned = {} /\ used = 0 /\ plain \in 0..MAX_PLAIN
    BY <1>1 DEF IInv
  <1> DEFINE none == {}
  <1>3. PICK B, F : Rep(Fresh, B, none, F) /\ Coalesced(F)
    BY FreshRep
  <1>4. Rep(sh', B, none, F)
    BY <1>1, <1>3
  <1>5. Accounts(none)'
    <2>1. Cover(none) = {}
      BY DEF Cover
    <2>2. IsFiniteSet(none) /\ Cardinality(none) = 0
      BY FS_EmptySet
    <2> QED
      BY <1>1, <1>2, <2>1, <2>2 DEF Accounts
  <1> HIDE DEF none
  <1>6. InOrder'
    BY <1>3, <1>4, <1>5 DEF InOrder
  <1> QED
    BY <1>1, <1>2, <1>6 DEF IInv

\* CRYPTO_secure_malloc_done: without memory in use the program has no
\* pointers.
LEMMA DoneStep ==
    ASSUME IInv, CRYPTO_secure_malloc_done
    PROVE  IInv' /\ DOMAIN owned' = DOMAIN owned
  <1>1. /\ used = 0 /\ initialized' = FALSE /\ sh' = Gone
        /\ used' = used /\ owned' = owned /\ plain' = plain
    BY DEF CRYPTO_secure_malloc_done
  <1>2. DOMAIN owned = {}
    <2>1. CASE ~initialized
      BY <2>1 DEF IInv
    <2>2. CASE initialized
      <3>1. PICK B, A, F : Rep(sh, B, A, F) /\ Coalesced(F) /\ Accounts(A)
        BY <2>2 DEF IInv, InOrder
      <3>2. A \subseteq BlockT /\ Cardinality(Cover(A)) = 0
        BY <1>1, <3>1 DEF Rep, Stands, Accounts
      <3>3. A = {}
        BY <3>2, CoverFacts
      <3> QED
        BY <3>1, <3>3 DEF Accounts
    <2> QED
      BY <2>1, <2>2
  <1> QED
    BY <1>1, <1>2 DEF IInv

\* CRYPTO_secure_malloc hands out a block that nobody has, that is as large
\* as asked for, and that is zero.
LEMMA MallocStep ==
    ASSUME IInv, NEW num \in Sizes, CRYPTO_secure_malloc(num)
    PROVE  /\ IInv'
           /\ \A p \in DOMAIN owned' \ DOMAIN owned :
                \A u \in Block(p, sh_getlist(sh', p)) : sh'.mem[u] = "zero"
  <1> DEFINE list == ListFor(num)
             h == Ready(sh, list)
             chunk == Head(h.freelist[list])
  <1>0. PICK p : p = chunk
    OBVIOUS
  <1>1. /\ initialized /\ num <= ARENA /\ Sources(sh, list) # {}
        /\ sh' = Take(h, list)
        /\ used' = used + sh_actual_size(sh', p)
        /\ owned' = [q \in DOMAIN owned \cup {p} |-> IF q = p THEN num ELSE owned[q]]
        /\ initialized' = initialized /\ plain' = plain
    BY <1>0 DEF CRYPTO_secure_malloc
  <1>2. num \in Nat
    BY HeapAssumption
  <1>3. list \in Lists /\ SizeOf(list) >= num
    BY <1>1, <1>2, ListForFits
  <1> HIDE DEF list
  <1>4. PICK B, A, F : Rep(sh, B, A, F) /\ Coalesced(F) /\ Accounts(A)
    BY <1>1 DEF IInv, InOrder
  <1>5. Peel(h, A, list)
    BY <1>1, <1>3, <1>4, ReadyPeels
  <1>6. p = Head(h.freelist[list])
    BY <1>0
  <1> HIDE DEF h, chunk
  <1>7. /\ <<p, list>> \notin A /\ Aligned(p, list)
        /\ \A m : <<p, m>> \notin A
        /\ \A u \in Block(p, list) : sh'.mem[u] = "zero"
    BY <1>1, <1>3, <1>5, <1>6, TakeRep
  <1> DEFINE A1 == With(A, p, list)
  <1>8. PICK C, G : /\ Rep(sh', C, A1, G) /\ Coalesced(G)
                    /\ <<p, list>> \in C
    BY <1>1, <1>3, <1>5, <1>6, TakeRep
  <1>9. Stands(sh', C, A1, G) /\ Tiles(C) /\ A1 \subseteq C /\ A \subseteq C
    BY <1>8 DEF Rep, With
  <1>10. sh_getlist(sh', p) = list
    BY <1>8, <1>9, GetList
  <1>11. used' = used + SizeOf(list)
    BY <1>1, <1>10 DEF sh_actual_size
  <1>12. /\ Cardinality(Cover(A1)) = Cardinality(Cover(A)) + SizeOf(list)
         /\ Cardinality(A1) = Cardinality(A) + 1
    BY <1>7, <1>8, <1>9, CoverWith
  <1>13. A \subseteq BlockT
    BY <1>4 DEF Rep, Stands
  <1>14. p \notin DOMAIN owned
    <2> SUFFICES ASSUME p \in DOMAIN owned PROVE FALSE
      OBVIOUS
    <2>1. PICK b \in A : b[1] = p
      BY <1>4 DEF Accounts
    <2>2. b = <<p, b[2]>>
      BY <2>1, <1>13, Pairs
    <2> QED
      BY <2>1, <2>2, <1>7
  <1>15. DOMAIN owned' = DOMAIN owned \cup {p}
    BY <1>1
  <1>16. \A b \in A : b[1] \in DOMAIN owned /\ b[1] # p
    BY <1>4, <1>14 DEF Accounts
  <1>17. Accounts(A1)'
    <2>1. DOMAIN owned' = {b[1] : b \in A1}
      <3> DEFINE e == <<p, list>>
      <3>1. e[1] = p /\ A1 = A \cup {e}
        BY DEF With
      <3> HIDE DEF e, A1
      <3> QED
        BY <1>4, <1>15, <3>1 DEF Accounts
    <2>2. /\ IsFiniteSet(DOMAIN owned')
          /\ Cardinality(DOMAIN owned') = Cardinality(DOMAIN owned) + 1
      <3>1. IsFiniteSet(DOMAIN owned)
        BY <1>4 DEF Accounts
      <3> QED
        BY <1>14, <1>15, <3>1, FS_AddElement
    <2>3. \A b \in A1 : owned'[b[1]] <= SizeOf(b[2])
      <3> SUFFICES ASSUME NEW b \in A1 PROVE owned'[b[1]] <= SizeOf(b[2])
        OBVIOUS
      <3>1. CASE b = <<p, list>>
        <4>1. owned'[p] = num
          BY <1>1
        <4>2. num <= SizeOf(list)
          BY <1>2, <1>3, SizeFacts
        <4> QED
          BY <3>1, <4>1, <4>2
      <3>2. CASE b \in A
        <4>1. owned'[b[1]] = owned[b[1]]
          BY <1>1, <1>16, <3>2
        <4> QED
          BY <1>4, <3>2, <4>1 DEF Accounts
      <3> QED
        BY <3>1, <3>2 DEF With
    <2>4. Cardinality(A1) = Cardinality(DOMAIN owned')
      BY <1>4, <1>12, <2>2 DEF Accounts
    <2>5. used' = Cardinality(Cover(A1))
      BY <1>4, <1>11, <1>12 DEF Accounts
    <2> HIDE DEF A1
    <2> QED
      BY <2>1, <2>2, <2>3, <2>4, <2>5 DEF Accounts
  <1> HIDE DEF A1
  <1>18. InOrder'
    BY <1>8, <1>17 DEF InOrder
  <1>19. IInv'
    BY <1>1, <1>18 DEF IInv
  <1>20. \A q \in DOMAIN owned' \ DOMAIN owned :
           \A u \in Block(q, sh_getlist(sh', q)) : sh'.mem[u] = "zero"
    BY <1>7, <1>10, <1>15
  <1> QED
    BY <1>19, <1>20

\* A write to a block the program has.
LEMMA WriteStep ==
    ASSUME IInv, NEW p \in Units, Write(p)
    PROVE  IInv' /\ DOMAIN owned' = DOMAIN owned
  <1>1. /\ p \in DOMAIN owned
        /\ sh' = Fill(sh, p..p + sh_actual_size(sh, p) - 1, "data")
        /\ used' = used /\ initialized' = initialized /\ owned' = owned /\ plain' = plain
    BY DEF Write
  <1>2. initialized
    BY <1>1 DEF IInv
  <1>3. PICK B, A, F : Rep(sh, B, A, F) /\ Coalesced(F) /\ Accounts(A)
    BY <1>2 DEF IInv, InOrder
  <1>4. PICK l : <<p, l>> \in A
    <2>1. PICK b \in A : b[1] = p
      BY <1>1, <1>3 DEF Accounts
    <2>2. A \subseteq BlockT
      BY <1>3 DEF Rep, Stands
    <2>3. b = <<p, b[2]>>
      BY <2>1, <2>2, Pairs
    <2> QED
      BY <2>1, <2>3
  <1>5. Rep(sh', B, A, F)
    <2>1. "data" \in {"zero", "link", "data"}
      OBVIOUS
    <2> QED
      BY <1>1, <1>3, <1>4, <2>1, WriteRep
  <1>6. Accounts(A)'
    BY <1>1, <1>3 DEF Accounts
  <1>7. InOrder'
    BY <1>3, <1>5, <1>6 DEF InOrder
  <1> QED
    BY <1>1, <1>2, <1>7 DEF IInv

\* CRYPTO_secure_free takes one pointer from the program.
LEMMA FreeStep ==
    ASSUME IInv, NEW p \in Units, CRYPTO_secure_free(p)
    PROVE  IInv' /\ DOMAIN owned' \subseteq DOMAIN owned
  <1> DEFINE n == sh_actual_size(sh, p)
             h == Fill(sh, p..p + n - 1, "zero")
  <1>1. /\ p \in DOMAIN owned
        /\ sh' = sh_free(h, p) /\ used' = used - n
        /\ owned' = [q \in DOMAIN owned \ {p} |-> owned[q]]
        /\ initialized' = initialized /\ plain' = plain
    BY DEF CRYPTO_secure_free, SecureFree
  <1>2. initialized
    BY <1>1 DEF IInv
  <1>3. PICK B, A, F : Rep(sh, B, A, F) /\ Coalesced(F) /\ Accounts(A)
    BY <1>2 DEF IInv, InOrder
  <1>4. Stands(sh, B, A, F) /\ Tiles(B) /\ A \subseteq B /\ A \subseteq BlockT
    BY <1>3 DEF Rep, Stands
  <1>5. PICK l : <<p, l>> \in A
    <2>1. PICK b \in A : b[1] = p
      BY <1>1, <1>3 DEF Accounts
    <2>2. b = <<p, b[2]>>
      BY <2>1, <1>4, Pairs
    <2> QED
      BY <2>1, <2>2
  <1>6. <<p, l>> \in B
    BY <1>4, <1>5
  <1>7. n = SizeOf(l)
    BY <1>4, <1>6, GetList DEF sh_actual_size
  <1>8. Rep(h, B, A, F) /\ \A u \in Block(p, l) : h.mem[u] = "zero"
    <2>1. "zero" \in {"zero", "link", "data"}
      OBVIOUS
    <2> QED
      BY <1>3, <1>5, <2>1, WriteRep
  <1> HIDE DEF h, n
  <1> DEFINE A1 == Less(A, p, l)
  <1>9. PICK C, G : Rep(sh', C, A1, G) /\ Coalesced(G)
    BY <1>1, <1>3, <1>5, <1>8, FreeRep
  <1>10. /\ Cardinality(Cover(A1)) = Cardinality(Cover(A)) - SizeOf(l)
         /\ Cardinality(A1) = Cardinality(A) - 1
    BY <1>4, <1>5, CoverLess
  <1>11. DOMAIN owned' = DOMAIN owned \ {p}
    BY <1>1
  <1>12. \A b \in A1 : b \in A /\ b[1] \in DOMAIN owned /\ b[1] # p
    <2> SUFFICES ASSUME NEW b \in A1
                 PROVE  b \in A /\ b[1] \in DOMAIN owned /\ b[1] # p
      OBVIOUS
    <2>1. b \in A /\ b # <<p, l>>
      BY DEF Less
    <2>2. b[1] \in DOMAIN owned
      BY <2>1, <1>3 DEF Accounts
    <2>3. ASSUME b[1] = p PROVE FALSE
      <3>1. b = <<p, b[2]>> /\ b \in B
        BY <2>1, <2>3, <1>4, Pairs
      <3>2. b[2] = l
        BY <3>1, <1>4, <1>6, SameStart
      <3> QED
        BY <2>1, <3>1, <3>2
    <2> QED
      BY <2>1, <2>2, <2>3
  <1>13. Accounts(A1)'
    <2>1. DOMAIN owned' = {b[1] : b \in A1}
      <3>1. \A q \in DOMAIN owned' : \E b \in A1 : q = b[1]
        <4> SUFFICES ASSUME NEW q \in DOMAIN owned, q # p
                     PROVE  \E b \in A1 : q = b[1]
          BY <1>11
        <4>1. PICK b \in A : q = b[1]
          BY <1>3 DEF Accounts
        <4>2. b # <<p, l>>
          BY <4>1
        <4>3. b \in A1
          BY <4>2 DEF Less
        <4> QED
          BY <4>1, <4>3
      <3> HIDE DEF A1
      <3> QED
        BY <1>11, <1>12, <3>1
    <2>2. /\ IsFiniteSet(DOMAIN owned')
          /\ Cardinality(DOMAIN owned') = Cardinality(DOMAIN owned) - 1
      <3>1. IsFiniteSet(DOMAIN owned)
        BY <1>3 DEF Accounts
      <3> QED
        BY <1>1, <1>11, <3>1, FS_RemoveElement
    <2>3. \A b \in A1 : owned'[b[1]] <= SizeOf(b[2])
      <3> SUFFICES ASSUME NEW b \in A1 PROVE owned'[b[1]] <= SizeOf(b[2])
        OBVIOUS
      <3>1. owned'[b[1]] = owned[b[1]]
        BY <1>1, <1>12
      <3> QED
        BY <1>3, <1>12, <3>1 DEF Accounts
    <2>4. Cardinality(A1) = Cardinality(DOMAIN owned')
      BY <1>3, <1>10, <2>2 DEF Accounts
    <2>5. used' = Cardinality(Cover(A1))
      BY <1>1, <1>3, <1>7, <1>10 DEF Accounts
    <2> HIDE DEF A1
    <2> QED
      BY <2>1, <2>2, <2>3, <2>4, <2>5 DEF Accounts
  <1> HIDE DEF A1
  <1>14. InOrder'
    BY <1>9, <1>13 DEF InOrder
  <1> QED
    BY <1>1, <1>2, <1>11, <1>14 DEF IInv

\* The plain heap has nothing to do with it.
LEMMA PlainStep ==
    ASSUME IInv, PlainMalloc \/ PlainFree \/ UNCHANGED vars
    PROVE  IInv' /\ DOMAIN owned' = DOMAIN owned
  <1>1. /\ sh' = sh /\ used' = used /\ initialized' = initialized /\ owned' = owned
        /\ plain' \in 0..MAX_PLAIN
    BY HeapAssumption DEF PlainMalloc, PlainFree, vars, IInv
  <1>2. InOrder => InOrder'
    BY <1>1 DEF InOrder, Accounts
  <1> QED
    BY <1>1, <1>2 DEF IInv

\* The invariant is inductive, and a step that gives the program a pointer
\* gives it zeroes.
LEMMA NextIInv ==
    ASSUME IInv, [Next]_vars
    PROVE  /\ IInv'
           /\ \A p \in DOMAIN owned' \ DOMAIN owned :
                \A u \in Block(p, sh_getlist(sh', p)) : sh'.mem[u] = "zero"
  <1>1. CASE CRYPTO_secure_malloc_init
    BY <1>1, InitStep
  <1>2. CASE CRYPTO_secure_malloc_done
    BY <1>2, DoneStep
  <1>3. CASE \E num \in Sizes : CRYPTO_secure_malloc(num)
    <2>1. PICK num \in Sizes : CRYPTO_secure_malloc(num)
      BY <1>3
    <2> QED
      BY <2>1, MallocStep
  <1>4. CASE \E ptr \in Units : Write(ptr) \/ CRYPTO_secure_free(ptr)
    <2>1. PICK ptr \in Units : Write(ptr) \/ CRYPTO_secure_free(ptr)
      BY <1>4
    <2>2. CASE Write(ptr)
      BY <2>2, WriteStep
    <2>3. CASE CRYPTO_secure_free(ptr)
      BY <2>3, FreeStep
    <2> QED
      BY <2>1, <2>2, <2>3
  <1>5. CASE PlainMalloc \/ PlainFree \/ UNCHANGED vars
    BY <1>5, PlainStep
  <1> QED
    BY <1>1, <1>2, <1>3, <1>4, <1>5 DEF Next

\* What the invariant says of a heap that is gone and of one that is not.
LEMMA WhatItStandsFor ==
    ASSUME IInv
    PROVE  \E B, A, F : /\ Stands(sh, B, A, F) /\ A \cup F = B /\ A \cap F = {}
                        /\ Linked(sh.mem, F) /\ Accounts(A)
                        /\ DOMAIN owned # {} => initialized
                        /\ initialized => Tiles(B) /\ Coalesced(F)
  <1>1. CASE initialized
    BY <1>1 DEF IInv, InOrder, Rep
  <1>2. CASE ~initialized
    <2>1. sh = Gone /\ DOMAIN owned = {} /\ used = 0
      BY <1>2 DEF IInv
    <2>2. Stands(sh, {}, {}, {})
      BY <2>1, GoneStands
    <2>3. Linked(sh.mem, {})
      BY DEF Linked
    <2>4. Accounts({})
      <3>1. Cover({}) = {}
        BY DEF Cover
      <3>2. IsFiniteSet({}) /\ Cardinality({}) = 0
        BY FS_EmptySet
      <3> QED
        BY <2>1, <3>1, <3>2 DEF Accounts
    <2>5. {} \cup {} = {} /\ {} \cap {} = {}
      OBVIOUS
    <2>6. /\ DOMAIN owned # {} => initialized
          /\ initialized => Tiles({}) /\ Coalesced({})
      BY <1>2, <2>1
    <2> QED
      BY ONLY <2>2, <2>3, <2>4, <2>5, <2>6, Zenon
  <1> QED
    BY <1>1, <1>2 DEF IInv

\* It implies what mem_sec.c promises of its tables, lists and pointers.
LEMMA IInvHeap ==
    ASSUME IInv
    PROVE  HeapInvariant
  <1>1. PICK B, A, F : /\ Stands(sh, B, A, F) /\ A \cup F = B /\ A \cap F = {}
                       /\ Linked(sh.mem, F) /\ Accounts(A)
                       /\ DOMAIN owned # {} => initialized
                       /\ initialized => Tiles(B) /\ Coalesced(F)
    BY WhatItStandsFor
  <1>2. /\ sh \in HeapT /\ sh.ok = TRUE /\ sh.bittable = Bits(B) /\ sh.bitmalloc = Bits(A)
        /\ B \subseteq BlockT /\ A \subseteq BlockT /\ F \subseteq BlockT
        /\ Listed(sh.freelist, F)
    BY <1>1 DEF Stands
  <1>3. Blocks(sh) = B /\ FreeBlocks(sh) = F /\ Allocated(sh) = A
    <2>1. Blocks(sh) = B /\ FreeBlocks(sh) = B \ A /\ Allocated(sh) = B \cap A
      BY <1>1, ReadBlocks
    <2>2. B \ A = F /\ B \cap A = A
      BY <1>1
    <2> QED
      BY ONLY <2>1, <2>2
  <1>4. /\ \A u : u \in Cover(A) <=> \E b \in A : u \in Span(b)
        /\ Cardinality(Cover(A)) \in 0..ARENA
    BY <1>2, CoverFacts
  <1>5. TypeOK
    <2>1. sh.bittable \subseteq 1..2 * ARENA - 1
      <3>1. \A b \in B : Bit(b[1], b[2]) \in 1..2 * ARENA - 1
        BY <1>2, Pairs, BitRange
      <3> QED
        BY <1>2, <3>1 DEF Bits
    <2>2. sh.bitmalloc \subseteq sh.bittable
      <3>1. A \subseteq B
        BY <1>1
      <3> QED
        BY <1>2, <3>1 DEF Bits
    <2>3. /\ \A l \in Lists : sh.freelist[l] \in Seq(Units)
          /\ sh.mem \in [Units -> {"zero", "link", "data"}]
      BY <1>2 DEF HeapT, MemT
    <2>4. used \in 0..ARENA
      BY <1>1, <1>4 DEF Accounts
    <2>5. DOMAIN owned \subseteq Units
      <3>1. \A b \in A : b[1] \in Units
        BY <1>2, Pairs DEF Aligned
      <3> QED
        BY <1>1, <3>1 DEF Accounts
    <2> QED
      BY <2>1, <2>2, <2>3, <2>4, <2>5 DEF TypeOK, IInv
  <1>6. BlocksPartitionTheArena
    <2> SUFFICES ASSUME initialized, NEW u \in Units
                 PROVE  Cardinality({b \in Blocks(sh) : u \in Block(b[1], b[2])}) = 1
      BY DEF BlocksPartitionTheArena
    <2>1. Tiles(B)
      BY <1>1
    <2>2. PICK b \in B : u \in Span(b)
      BY <2>1 DEF Tiles
    <2>3. \A c \in B : u \in Span(c) => c = b
      BY <2>1, <2>2 DEF Tiles
    <2>4. {c \in Blocks(sh) : u \in Block(c[1], c[2])} = {b}
      BY <1>3, <2>2, <2>3 DEF Span
    <2> QED
      BY <2>4, FS_Singleton
  <1>7. FreeListsAreExact
    <2> SUFFICES ASSUME NEW l \in Lists
                 PROVE  /\ IsInjective(sh.freelist[l])
                        /\ \A p \in ToSet(sh.freelist[l]) : sh.mem[p] = "link"
                        /\ ToSet(sh.freelist[l]) =
                             {b[1] : b \in {f \in FreeBlocks(sh) : f[2] = l}}
      BY DEF FreeListsAreExact
    <2> DEFINE s == sh.freelist[l]
    <2>1. IsInjective(s) /\ ToSet(s) = {p \in Units : <<p, l>> \in F}
      BY <1>2 DEF Listed
    <2> HIDE DEF s
    <2>2. \A p \in ToSet(s) : sh.mem[p] = "link"
      BY <1>1, <2>1 DEF Linked
    <2>3. ToSet(s) = {b[1] : b \in {f \in F : f[2] = l}}
      <3>1. ASSUME NEW p, p \in Units, <<p, l>> \in F
            PROVE  \E b \in {f \in F : f[2] = l} : p = b[1]
        <4>1. <<p, l>>[1] = p /\ <<p, l>>[2] = l
          OBVIOUS
        <4> QED
          BY <3>1, <4>1
      <3>2. ASSUME NEW b \in F, b[2] = l
            PROVE  b[1] \in Units /\ <<b[1], l>> \in F
        <4>1. b = <<b[1], b[2]>> /\ b[1] \in Units
          BY <1>2, Pairs DEF Aligned
        <4> QED
          BY <3>2, <4>1
      <3> QED
        BY <2>1, <3>1, <3>2
    <2> QED
      BY <1>3, <2>1, <2>2, <2>3 DEF s
  <1>8. OwnedAreTheAllocated
    <2>1. DOMAIN owned # {} => initialized
      BY <1>1
    <2>2. ASSUME NEW p \in DOMAIN owned
          PROVE  <<p, sh_getlist(sh, p)>> \in A /\ owned[p] <= SizeOf(sh_getlist(sh, p))
      <3>1. PICK b \in A : p = b[1]
        BY <1>1 DEF Accounts
      <3>2. b = <<p, b[2]>> /\ b \in B
        BY <1>1, <1>2, <3>1, Pairs
      <3>3. Tiles(B)
        BY <1>1
      <3>4. sh_getlist(sh, p) = b[2]
        BY <1>1, <3>2, <3>3, GetList
      <3>5. owned[b[1]] <= SizeOf(b[2])
        BY <1>1 DEF Accounts
      <3> QED
        BY <3>1, <3>2, <3>4, <3>5
    <2>3. /\ Cardinality(A) = Cardinality(DOMAIN owned)
          /\ used = Cardinality(UNION {Block(b[1], b[2]) : b \in A})
      BY <1>1 DEF Accounts, Cover
    <2> QED
      BY <1>3, <2>1, <2>2, <2>3 DEF OwnedAreTheAllocated
  <1> QED
    BY <1>2, <1>5, <1>6, <1>7, <1>8 DEF HeapInvariant

\* In a region without memory in use all the tiles are free.
LEMMA FreeRegion ==
    ASSUME NEW B, NEW A, NEW F, Rep(sh, B, A, F), Accounts(A), NEW R,
           \A p \in DOMAIN owned : Block(p, sh_getlist(sh, p)) \cap R = {},
           NEW t \in B, Span(t) \cap R # {}
    PROVE  t \in F
  <1>1. Stands(sh, B, A, F) /\ Tiles(B) /\ A \cup F = B
    BY DEF Rep
  <1> SUFFICES ASSUME t \in A PROVE FALSE
    BY <1>1
  <1>2. t = <<t[1], t[2]>>
    BY <1>1, Pairs DEF Tiles
  <1>3. t[1] \in DOMAIN owned
    BY DEF Accounts
  <1>4. sh_getlist(sh, t[1]) = t[2]
    BY <1>1, <1>2, GetList
  <1> QED
    BY <1>3, <1>4 DEF Span

\* A coalesced heap serves every request that fits: if the tiles of a free
\* region were smaller than it, then the smallest of them would have a free
\* other half.
LEMMA FitIsFound ==
    ASSUME NEW B, NEW A, NEW F, Rep(sh, B, A, F), Coalesced(F), Accounts(A),
           NEW r, NEW list, Aligned(r, list),
           \A p \in DOMAIN owned :
             Block(p, sh_getlist(sh, p)) \cap Block(r, list) = {}
    PROVE  Sources(sh, list) # {}
  <1> DEFINE R == Block(r, list)
  <1>1. Stands(sh, B, A, F) /\ Tiles(B) /\ B \subseteq BlockT
    BY DEF Rep, Tiles
  <1>2. \A t \in B : Span(t) \cap R # {} => t \in F
    BY FreeRegion
  <1>3. r \in Units /\ r \in R /\ list \in Lists /\ list \in Nat
    BY BlockInArena, SizeFacts DEF Aligned
  <1>4. PICK b \in B : r \in Span(b)
    BY <1>1, <1>3 DEF Tiles
  <1>5. b \in F /\ b = <<b[1], b[2]>> /\ Aligned(b[1], b[2])
    BY <1>1, <1>2, <1>3, <1>4, Pairs
  <1>6. b[2] \in Lists /\ b[2] \in Nat
    BY <1>5, SizeFacts DEF Aligned
  <1>7. CASE b[2] <= list
    <2>1. sh.freelist[b[2]] # <<>>
      BY <1>1, <1>5, FreeIsListed
    <2>2. b[2] \in 0..list
      BY <1>3, <1>6, <1>7
    <2> QED
      BY <2>1, <2>2 DEF Sources
  <1>8. CASE list < b[2]
    <2> DEFINE I == {l \in Lists : \E p : <<p, l>> \in B /\ Block(p, l) \subseteq R}
               d == Max(I)
    <2>1. b[2] \in I
      <3>1. Block(b[1], b[2]) \subseteq R
        BY <1>3, <1>4, <1>5, <1>6, <1>8, Nested DEF Span
      <3> QED
        BY <3>1, <1>5, <1>6
    <2>2. d \in I /\ \A l \in I : d >= l
      <3>1. I \subseteq 0..LEVELS /\ I # {} /\ LEVELS \in Nat
        BY <2>1, SizeFacts DEF Lists
      <3> HIDE DEF I
      <3> QED
        BY <3>1, MaxOfInterval
    <2>3. PICK p : <<p, d>> \in B /\ Block(p, d) \subseteq R
      BY <2>2
    <2>4. d \in Lists /\ d \in Nat /\ d >= b[2]
      BY <2>1, <2>2, SizeFacts
    <2> HIDE DEF d, I
    <2>5. d >= 1 /\ list <= d - 1 /\ d - 1 \in Nat
      BY <2>4, <1>3, <1>6, <1>8
    <2>6. Aligned(p, d)
      BY <2>3, <1>1, Pairs
    <2> DEFINE m == Mate(p, d)
               low == Low(p, d)
    <2>7. /\ Aligned(m, d) /\ Aligned(low, d - 1)
          /\ Block(low, d - 1) = Block(p, d) \cup Block(m, d)
      BY <2>5, <2>6, MateFacts
    <2> HIDE DEF m, low
    <2>8. p \in Block(p, d) /\ m \in Block(m, d) /\ m \in Units
      BY <2>6, <2>7, BlockInArena DEF Aligned
    <2>9. Block(low, d - 1) \subseteq R
      <3>1. Block(r, list) \cap Block(low, d - 1) # {}
        BY <2>3, <2>7, <2>8
      <3> QED
        BY <3>1, <2>5, <2>7, Nested
    <2>10. PICK t \in B : m \in Span(t)
      BY <2>8, <1>1 DEF Tiles
    <2>11. t = <<t[1], t[2]>> /\ Aligned(t[1], t[2])
      BY <1>1, Pairs
    <2>12. t[2] \in Lists /\ t[2] \in Nat
      BY <2>11, SizeFacts DEF Aligned
    <2>13. ~(d < t[2])
      <3> SUFFICES ASSUME d < t[2] PROVE FALSE
        OBVIOUS
      <3>1. Block(m, d) \cap Block(t[1], t[2]) # {}
        BY <2>8, <2>10 DEF Span
      <3>2. Block(t[1], t[2]) \subseteq Block(m, d)
        BY <3>1, <2>4, <2>7, <2>11, <2>12, Nested
      <3>3. Block(t[1], t[2]) \subseteq R
        BY <3>2, <2>7, <2>9
      <3>4. t[2] \in I
        BY <3>3, <2>11, <2>12 DEF I
      <3> QED
        BY <3>4, <2>2, <2>4, <2>12
    <2>14. ~(t[2] < d)
      <3> SUFFICES ASSUME t[2] < d PROVE FALSE
        OBVIOUS
      <3>1. t[2] <= d - 1
        BY <2>4, <2>12
      <3>2. Block(t[1], t[2]) \cap Block(low, d - 1) # {}
        BY <2>7, <2>8, <2>10 DEF Span
      <3>3. Block(low, d - 1) \subseteq Block(t[1], t[2])
        BY <3>1, <3>2, <2>7, <2>11, Nested
      <3>4. p \in Span(t) /\ p \in Span(<<p, d>>)
        BY <3>3, <2>7, <2>8 DEF Span
      <3>5. t = <<p, d>>
        BY <3>4, <2>3, <1>1 DEF Tiles
      <3>6. t[2] = d
        BY <3>5
      <3> QED
        BY <3>6, <2>4
    <2>15. t[2] = d
      BY ONLY <2>4, <2>12, <2>13, <2>14
    <2>16. t[1] = m
      <3>1. Block(t[1], d) \cap Block(m, d) # {}
        BY <2>8, <2>10, <2>15 DEF Span
      <3> QED
        BY <3>1, <2>7, <2>11, <2>15, SameList
    <2>17. t \in F
      <3>1. m \in R
        BY <2>7, <2>8, <2>9
      <3>2. Span(t) \cap R # {}
        BY <3>1, <2>10
      <3> QED
        BY <3>2, <1>2
    <2>18. <<p, d>> \in F
      <3>1. Span(<<p, d>>) \cap R # {}
        BY <2>3, <2>8 DEF Span
      <3> QED
        BY <3>1, <2>3, <1>2
    <2>19. MateOf(<<p, d>>) = t
      BY <2>11, <2>15, <2>16 DEF MateOf, m
    <2>20. <<p, d>>[2] >= 1
      BY <2>5
    <2> QED
      BY <2>17, <2>18, <2>19, <2>20 DEF Coalesced
  <1> QED
    BY <1>3, <1>6, <1>7, <1>8
\* The inductive invariant gives every request that fits a list to take from.
LEMMA IInvFit ==
    ASSUME IInv
    PROVE  EveryFitIsFound
  <1> SUFFICES ASSUME initialized, NEW list \in Lists,
                      NEW i \in 0..Pow2[list] - 1,
                      \A p \in DOMAIN owned :
                        Block(p, sh_getlist(sh, p))
                          \cap Block(i * SizeOf(list), list) = {}
               PROVE  Sources(sh, list) # {}
    BY DEF EveryFitIsFound
  <1>1. PICK B, A, F : Rep(sh, B, A, F) /\ Coalesced(F) /\ Accounts(A)
    BY DEF IInv, InOrder
  <1>2. Aligned(i * SizeOf(list), list)
    BY MultipleIsAligned
  <1> DEFINE r == i * SizeOf(list)
  <1>3. Aligned(r, list)
    BY <1>2
  <1>4. \A p \in DOMAIN owned : Block(p, sh_getlist(sh, p)) \cap Block(r, list) = {}
    OBVIOUS
  <1> HIDE DEF r
  <1> QED
    BY ONLY <1>1, <1>3, <1>4, FitIsFound

-----------------------------------------------------------------------------
\* In every reachable state the tables, the lists and the links stand for one
\* tiling of the arena whose free blocks are coalesced.
THEOREM HeapInOrder == Spec => []IInv
  <1>1. Init => IInv
    BY InitIInv
  <1>2. IInv /\ [Next]_vars => IInv'
    BY NextIInv
  <1> QED
    BY <1>1, <1>2, PTL DEF Spec

\* Whatever calls the program makes, and however large the arena is, the bit
\* tables, the free lists, the links in the arena, the program's pointers and
\* secure_mem_used agree, and no assertion of mem_sec.c fails.
THEOREM HeapInvariantHolds == Spec => []HeapInvariant
  <1>1. IInv => HeapInvariant
    BY IInvHeap
  <1> QED
    BY <1>1, HeapInOrder, PTL

\* sh_free coalesces all it can: sh_malloc finds a block whenever an aligned
\* region of the size is without memory in use.
THEOREM EveryFitIsFoundHolds == Spec => []EveryFitIsFound
  <1>1. IInv => EveryFitIsFound
    BY IInvFit
  <1> QED
    BY <1>1, HeapInOrder, PTL

\* The block a call of CRYPTO_secure_malloc hands out is all zeros.
THEOREM AllocatedIsZeroHolds == Spec => AllocatedIsZero
  <1> DEFINE Zero == \A p \in DOMAIN owned' \ DOMAIN owned :
                       \A u \in Block(p, sh_getlist(sh', p)) : sh'.mem[u] = "zero"
  <1>1. IInv /\ [Next]_vars => [Zero]_vars
    BY NextIInv
  <1> HIDE DEF Zero
  <1>2. Spec => [][Zero]_vars
    BY <1>1, HeapInOrder, PTL DEF Spec
  <1> QED
    BY <1>2 DEF AllocatedIsZero, Zero

=============================================================================
