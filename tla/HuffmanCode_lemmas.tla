------------------------- MODULE HuffmanCode_lemmas -------------------------
(***************************************************************************)
(* Facts about codes made from lists of code lengths, and about the powers,*)
(* quotients and numbers of bits they are computed with.                   *)
(*                                                                         *)
(* One theorem stands out: every list of code lengths that inflate_table   *)
(* accepts is a code that can be read (CodesRead).                         *)
(***************************************************************************)
EXTENDS HuffmanCode, SequenceTheorems, FiniteSetTheorems, WellFoundedInduction, TLAPS

-----------------------------------------------------------------------------
(* Counting.                                                               *)

\* A set of numbers has a least one.
LEMMA LeastNumber ==
  ASSUME NEW T \in SUBSET Nat, T # {}
  PROVE  \E x \in T : \A y \in T : x <= y
<1> DEFINE R == OpToRel(<, Nat)
<1>1. IsWellFoundedOn(R, Nat)
  BY NatLessThanWellFounded
<1>2. \A x, y \in Nat : x < y => <<x, y>> \in R
  BY DEF OpToRel
<1> HIDE DEF R
<1>3. PICK x \in T : \A y \in T : ~(<<y, x>> \in R)
  BY <1>1, WFMin
<1>4. \A y \in T : x <= y
  <2> SUFFICES ASSUME NEW y \in T PROVE x <= y
    OBVIOUS
  <2>1. x \in Nat /\ y \in Nat /\ ~(y < x)
    BY <1>2, <1>3
  <2> QED
    BY <2>1
<1> QED
  BY <1>4

\* A set of numbers that has 0 and with each number the next one is all of them.
LEMMA Counting ==
  ASSUME NEW T \in SUBSET Nat, 0 \in T, \A n \in T : n + 1 \in T
  PROVE  T = Nat
<1> SUFFICES ASSUME Nat \ T # {} PROVE FALSE
  OBVIOUS
<1>1. PICK x \in Nat \ T : \A y \in Nat \ T : x <= y
  BY LeastNumber
<1>2. x - 1 \in Nat /\ x - 1 \in T
  BY <1>1
<1> QED
  BY <1>1, <1>2

-----------------------------------------------------------------------------
(* Powers of 2, which count the subsets.                                   *)

\* The subsets of n elements number 2^n; so powers of 2 are numbers.
LEMMA PowerOf == \A n \in Nat : 2^n = Cardinality(SUBSET (1 .. n)) /\ 2^n \in Nat
<1> SUFFICES ASSUME NEW n \in Nat PROVE 2^n = Cardinality(SUBSET (1 .. n)) /\ 2^n \in Nat
  OBVIOUS
<1>1. IsFiniteSet(1 .. n) /\ Cardinality(1 .. n) = n
  BY FS_Interval
<1>2. IsFiniteSet(SUBSET (1 .. n)) /\ Cardinality(SUBSET (1 .. n)) = 2^n
  BY <1>1, FS_SUBSET
<1> QED
  BY <1>2, FS_CardinalityType

\* Of none there is one.
LEMMA PowerZero == 2^0 = 1
<1>1. SUBSET (1 .. 0) = {{}}
  OBVIOUS
<1>2. 2^0 = Cardinality(SUBSET (1 .. 0))
  BY PowerOf
<1> QED
  BY <1>1, <1>2, FS_Singleton

\* With one element more there are twice as many.
LEMMA PowerDoubles == \A n \in Nat : 2^(n + 1) = 2 * 2^n
<1> SUFFICES ASSUME NEW n \in Nat PROVE 2^(n + 1) = 2 * 2^n
  OBVIOUS
<1> DEFINE A == SUBSET (1 .. n)
           B == {u \cup {n + 1} : u \in A}
           f == [u \in A |-> u \cup {n + 1}]
<1>1. IsFiniteSet(A)
  <2>1. IsFiniteSet(1 .. n)
    BY FS_Interval
  <2> QED
    BY <2>1, FS_SUBSET
<1>2. SUBSET (1 .. n + 1) = A \cup B
  <2>1. 1 .. n + 1 = (1 .. n) \cup {n + 1}
    OBVIOUS
  <2>2. ASSUME NEW s \in SUBSET (1 .. n + 1) PROVE s \in A \cup B
    <3>1. CASE n + 1 \in s
      <4>1. s \ {n + 1} \in A /\ s = (s \ {n + 1}) \cup {n + 1}
        BY <2>1, <3>1
      <4> QED
        BY <4>1
    <3>2. CASE n + 1 \notin s
      BY <2>1, <3>2
    <3> QED
      BY <3>1, <3>2
  <2>3. A \subseteq SUBSET (1 .. n + 1) /\ B \subseteq SUBSET (1 .. n + 1)
    BY <2>1
  <2> HIDE DEF A, B
  <2> QED
    BY <2>2, <2>3
<1>3. A \cap B = {}
  <2>1. n + 1 \notin 1 .. n
    OBVIOUS
  <2> QED
    BY <2>1
<1>4. IsFiniteSet(B) /\ Cardinality(B) = Cardinality(A)
  <2>1. f \in Bijection(A, B)
    <3>1. f \in [A -> B] /\ \A b \in B : \E u \in A : f[u] = b
      OBVIOUS
    <3>3. f \in Surjection(A, B)
      BY <3>1 DEF Surjection
    <3>2. \A u, v \in A : f[u] = f[v] => u = v
      <4>1. n + 1 \notin 1 .. n
        OBVIOUS
      <4> QED
        BY <4>1
    <3>4. f \in Injection(A, B)
      <4> HIDE DEF f, A, B
      <4>1. DOMAIN f = A
        BY <3>1
      <4> QED
        BY <3>1, <3>2, <4>1 DEF Injection, IsInjective
    <3> QED
      BY <3>3, <3>4 DEF Bijection
  <2> QED
    BY <1>1, <2>1, FS_Bijection DEF ExistsBijection
<1>5. Cardinality(A \cup B) = Cardinality(A) + Cardinality(B)
  <2>1. Cardinality(A \cup B) = Cardinality(A) + Cardinality(B) - Cardinality(A \cap B)
    BY <1>1, <1>4, FS_Union
  <2>2. Cardinality(A) \in Nat /\ Cardinality(B) \in Nat /\ Cardinality(A \cap B) = 0
    BY <1>1, <1>3, <1>4, FS_CardinalityType, FS_EmptySet
  <2> QED
    BY <2>1, <2>2
<1>6. 2^n = Cardinality(A) /\ 2^(n + 1) = Cardinality(SUBSET (1 .. n + 1)) /\ 2^n \in Nat
  BY PowerOf
<1>7. Cardinality(SUBSET (1 .. n + 1)) = Cardinality(A) + Cardinality(A)
  BY <1>2, <1>4, <1>5
<1> HIDE DEF A, B
<1>8. \A c : c \in Nat => c + c = 2 * c
  OBVIOUS
<1> QED
  BY <1>6, <1>7, <1>8

\* There is always one.
LEMMA PowerPositive == \A n \in Nat : 2^n \in Nat /\ 2^n > 0
<1> DEFINE T == {n \in Nat : 2^n > 0}
<1>1. 0 \in T
  BY PowerZero
<1>2. \A n \in T : n + 1 \in T
  BY PowerDoubles, PowerOf
<1> HIDE DEF T
<1>3. T \in SUBSET Nat
  BY DEF T
<1>4. T = Nat
  BY <1>1, <1>2, <1>3, Counting
<1> QED
  BY <1>4, PowerOf DEF T

-----------------------------------------------------------------------------
(* Functions that are defined by recursion over an interval.               *)

\* f has v at 0, and at every later place what a makes of the place and the value before.
Recurs(f, v, a, n) == f = [l \in 0 .. n |-> IF l = 0 THEN v ELSE a[<<l, f[l - 1]>>]]

\* There is such a function.
LEMMA Recursion ==
  ASSUME NEW V, NEW v \in V, NEW a \in [Nat \X V -> V], NEW n \in Nat
  PROVE  \E f \in [0 .. n -> V] : Recurs(f, v, a, n)
<1> DEFINE Good(m) == \E f \in [0 .. m -> V] : f = [l \in 0 .. m |-> IF l = 0 THEN v ELSE a[<<l, f[l - 1]>>]]
           T == {m \in Nat : Good(m)}
<1>1. 0 \in T
  <2> DEFINE f == [l \in 0 .. 0 |-> v]
  <2>1. f \in [0 .. 0 -> V]
    OBVIOUS
  <2>2. f = [l \in 0 .. 0 |-> IF l = 0 THEN v ELSE a[<<l, f[l - 1]>>]]
    OBVIOUS
  <2> QED
    BY <2>1, <2>2
<1>2. ASSUME NEW m \in T PROVE m + 1 \in T
  <2>1. m \in Nat
    OBVIOUS
  <2>2. PICK f \in [0 .. m -> V] : f = [l \in 0 .. m |-> IF l = 0 THEN v ELSE a[<<l, f[l - 1]>>]]
    OBVIOUS
  <2> DEFINE g == [l \in 0 .. m + 1 |-> IF l <= m THEN f[l] ELSE a[<<l, f[m]>>]]
  <2>3. g \in [0 .. m + 1 -> V]
    <3>1. f[m] \in V /\ a[<<m + 1, f[m]>>] \in V
      BY <2>1
    <3>2. \A l \in 0 .. m + 1 : l <= m \/ l = m + 1
      BY <2>1
    <3>3. \A l \in 0 .. m + 1 : l <= m => l \in 0 .. m
      BY <2>1
    <3> QED
      BY <3>1, <3>2, <3>3
  <2>4. ASSUME NEW l \in 0 .. m + 1
        PROVE  g[l] = IF l = 0 THEN v ELSE a[<<l, g[l - 1]>>]
    <3>1. CASE l = 0
      <4>1. l \in 0 .. m /\ l <= m
        BY <2>1, <3>1
      <4>2. g[l] = f[l]
        BY <4>1
      <4>3. f[l] = v
        BY <2>2, <3>1, <4>1
      <4> QED
        BY <3>1, <4>2, <4>3
    <3>2. CASE l # 0 /\ l <= m
      <4>1. l \in 0 .. m /\ l - 1 \in 0 .. m + 1 /\ l - 1 <= m
        BY <2>1, <3>2
      <4>2. g[l] = f[l] /\ g[l - 1] = f[l - 1]
        BY <3>2, <4>1
      <4>3. f[l] = a[<<l, f[l - 1]>>]
        BY <2>2, <3>2, <4>1
      <4> QED
        BY <3>2, <4>2, <4>3
    <3>3. CASE l = m + 1
      <4>1. l # 0 /\ ~(l <= m) /\ l - 1 = m /\ m \in 0 .. m + 1 /\ m <= m
        BY <2>1, <3>3
      <4>2. g[l] = a[<<l, f[m]>>] /\ g[m] = f[m]
        BY <4>1
      <4> QED
        BY <4>1, <4>2
    <3> QED
      BY <2>1, <3>1, <3>2, <3>3
  <2> HIDE DEF g
  <2>5. g = [l \in 0 .. m + 1 |-> IF l = 0 THEN v ELSE a[<<l, g[l - 1]>>]]
    <3>1. g = [l \in 0 .. m + 1 |-> g[l]]
      BY <2>3
    <3> QED
      BY <2>4, <3>1
  <2>6. Good(m + 1)
    BY <2>3, <2>5
  <2> HIDE DEF Good
  <2>7. m + 1 \in Nat
    BY <2>1
  <2> QED
    BY <2>7, <2>6
<1> HIDE DEF T
<1>3. T \in SUBSET Nat
  BY DEF T
<1>4. T = Nat
  BY <1>1, <1>2, <1>3, Counting
<1> QED
  BY <1>4 DEF T, Recurs

-----------------------------------------------------------------------------
(* Division.                                                               *)

\* A quotient is what it is by its two bounds.
LEMMA Quotient ==
  ASSUME NEW x \in Nat, NEW m \in Nat \ {0}, NEW q \in Nat, m * q <= x, x < m * q + m
  PROVE  x \div m = q
OBVIOUS

\* Those bounds.
LEMMA DividedBy ==
  ASSUME NEW x \in Nat, NEW m \in Nat \ {0}
  PROVE  x \div m \in Nat /\ m * (x \div m) <= x /\ x < m * (x \div m) + m
OBVIOUS

\* The last digit.
LEMMA Remainder ==
  ASSUME NEW q \in Nat, NEW p \in Nat, NEW r \in {0, 1}, q = 2 * p + r
  PROVE  q % 2 = r
OBVIOUS

\* A number by its half and its last digit.
LEMMA HalfOf ==
  ASSUME NEW q \in Nat
  PROVE  \E p \in Nat, r \in {0, 1} : q = 2 * p + r /\ q \div 2 = p /\ q % 2 = r
<1> DEFINE p == q \div 2
           r == q - 2 * p
<1>1. p \in Nat /\ 2 * p <= q /\ q < 2 * p + 2
  BY DividedBy
<1>d. q \div 2 = p
  OBVIOUS
<1> HIDE DEF p
<1>2. r \in {0, 1} /\ q = 2 * p + r
  BY <1>1
<1> HIDE DEF r
<1>3. q % 2 = r
  BY <1>1, <1>2, Remainder
<1>4. \A x, y : x \in Nat /\ y \in {0, 1} /\ q = 2 * x + y /\ q \div 2 = x /\ q % 2 = y
               => \E h \in Nat, b \in {0, 1} : q = 2 * h + b /\ q \div 2 = h /\ q % 2 = b
  BY Zenon
<1> QED
  BY <1>1, <1>2, <1>3, <1>4, <1>d, Zenon

\* Half of a quotient.
LEMMA DivideTwice ==
  ASSUME NEW x \in Nat, NEW m \in Nat \ {0}
  PROVE  x \div (2 * m) = (x \div m) \div 2
<1> DEFINE q == x \div m
           p == q \div 2
<1>1. q \in Nat /\ m * q <= x /\ x < m * q + m
  BY DividedBy
<1> HIDE DEF q
<1>2. p \in Nat /\ (q = 2 * p \/ q = 2 * p + 1)
  <2>1. PICK h \in Nat, b \in {0, 1} : q = 2 * h + b /\ q \div 2 = h
    BY <1>1, HalfOf
  <2> QED
    BY <2>1
<1> HIDE DEF p
<1>3. 2 * m \in Nat \ {0}
  OBVIOUS
<1>4. (2 * m) * p <= x /\ x < (2 * m) * p + 2 * m
  <2>1. CASE q = 2 * p
    <3>1. m * q = (2 * m) * p
      BY <1>2, <2>1
    <3> QED
      BY <1>1, <1>2, <3>1
  <2>2. CASE q = 2 * p + 1
    <3>1. m * q = (2 * m) * p + m
      BY <1>2, <2>2
    <3>2. (2 * m) * p \in Nat /\ m * q \in Nat
      BY <1>1, <1>2, <3>1
    <3> QED
      BY <1>1, <1>2, <3>1, <3>2
  <2> QED
    BY <1>2, <2>1, <2>2
<1>5. x \div (2 * m) = p
  BY <1>2, <1>3, <1>4, Quotient
<1> QED
  BY <1>5 DEF p, q

\* Bits of a number are taken off one by one.
LEMMA PowerDivides ==
  ASSUME NEW x \in Nat, NEW k \in Nat
  PROVE  x \div 2^(k + 1) = (x \div 2^k) \div 2
<1>1. 2^k \in Nat \ {0} /\ 2^(k + 1) = 2 * 2^k
  BY PowerPositive, PowerDoubles
<1> QED
  BY <1>1, DivideTwice

-----------------------------------------------------------------------------
(* How many codes of each length there are, and how many words are left.   *)

\* Left and FirstCode are functions that equal this step applied to themselves.
LeftStep(lens, g) == [l \in 0 .. MAXBITS |-> IF l = 0 THEN 1 ELSE 2 * g[l - 1] - CountOf(lens, l)]
FirstStep(lens, g) == [l \in 1 .. MAXBITS |-> IF l = 1 THEN 0 ELSE 2 * (g[l - 1] + CountOf(lens, l - 1))]

\* The symbols of a length are finitely many.
LEMMA CountType ==
  ASSUME NEW D, IsFiniteSet(D), NEW lens \in [D -> 0 .. MAXBITS], NEW l
  PROVE  CountOf(lens, l) \in Nat /\ IsFiniteSet({s \in D : lens[s] = l})
<1>1. {s \in D : lens[s] = l} \in SUBSET D
  OBVIOUS
<1>2. IsFiniteSet({s \in D : lens[s] = l})
  BY <1>1, FS_Subset
<1> QED
  BY <1>2, FS_CardinalityType DEF CountOf

\* Left by its recursion.
LEMMA LeftEquations ==
  ASSUME NEW D, IsFiniteSet(D), NEW lens \in [D -> 0 .. MAXBITS]
  PROVE  /\ Left(lens) \in [0 .. MAXBITS -> Int] /\ Left(lens)[0] = 1
         /\ \A l \in 1 .. MAXBITS : Left(lens)[l] = 2 * Left(lens)[l - 1] - CountOf(lens, l)
<1> DEFINE a == [p \in Nat \X Int |-> 2 * p[2] - CountOf(lens, p[1])]
<1>1. a \in [Nat \X Int -> Int]
  <2>1. \A p \in Nat \X Int : p[2] \in Int /\ CountOf(lens, p[1]) \in Nat
    BY CountType
  <2> QED
    BY <2>1
<1>2. MAXBITS \in Nat
  BY CodeAssumption
<1>3. PICK f \in [0 .. MAXBITS -> Int] : Recurs(f, 1, a, MAXBITS)
  <2> HIDE DEF a
  <2>1. 1 \in Int
    OBVIOUS
  <2> QED
    BY <1>1, <1>2, <2>1, Recursion
<1>4. f = LeftStep(lens, f)
  <2>1. \A l \in 0 .. MAXBITS : l # 0 => a[<<l, f[l - 1]>>] = 2 * f[l - 1] - CountOf(lens, l)
    <3>1. \A l \in 0 .. MAXBITS : l # 0 => l \in Nat /\ f[l - 1] \in Int
      BY <1>2
    <3>2. \A l \in Nat, x \in Int : a[<<l, x>>] = 2 * x - CountOf(lens, l)
      OBVIOUS
    <3> HIDE DEF a
    <3> QED
      BY <3>1, <3>2
  <2> HIDE DEF a
  <2> QED
    BY <1>3, <2>1 DEF LeftStep, Recurs
<1>5. Left(lens) = CHOOSE g : g = LeftStep(lens, g)
  BY DEF Left, LeftStep
<1>6. Left(lens) = LeftStep(lens, Left(lens))
  BY <1>4, <1>5
<1> DEFINE g == Left(lens)
<1> HIDE DEF g
<1>7. g = LeftStep(lens, g)
  BY <1>6 DEF g
<1>8. \A l \in 0 .. MAXBITS : g[l] = IF l = 0 THEN 1 ELSE 2 * g[l - 1] - CountOf(lens, l)
  BY <1>7 DEF LeftStep
<1>9. g \in [0 .. MAXBITS -> Int]
  <2>0. DOMAIN g = 0 .. MAXBITS /\ g = [l \in 0 .. MAXBITS |-> g[l]]
    BY <1>7 DEF LeftStep
  <2> DEFINE T == {n \in Nat : n <= MAXBITS => g[n] \in Int}
  <2>1. 0 \in T
    BY <1>2, <1>8
  <2>2. ASSUME NEW n \in T PROVE n + 1 \in T
    <3>1. CASE n + 1 <= MAXBITS
      <4>1. n \in Nat /\ n + 1 \in 0 .. MAXBITS /\ n + 1 # 0 /\ (n + 1) - 1 = n /\ n <= MAXBITS
        BY <1>2, <3>1
      <4>2. g[n] \in Int
        BY <4>1
      <4>3. g[n + 1] = 2 * g[n] - CountOf(lens, n + 1)
        BY <1>8, <4>1
      <4>4. CountOf(lens, n + 1) \in Nat
        BY CountType
      <4> QED
        BY <4>1, <4>2, <4>3, <4>4
    <3> QED
      BY <3>1
  <2> HIDE DEF T
  <2>3. T \in SUBSET Nat
    BY DEF T
  <2>4. T = Nat
    BY <2>1, <2>2, <2>3, Counting
  <2>5. \A l \in 0 .. MAXBITS : g[l] \in Int
    <3>1. \A l \in 0 .. MAXBITS : l \in Nat /\ l <= MAXBITS
      BY <1>2
    <3> QED
      BY <2>4, <3>1 DEF T
  <2> QED
    BY <2>0, <2>5
<1>10. \A l \in 1 .. MAXBITS : l \in 0 .. MAXBITS /\ l # 0
  BY <1>2
<1>11. 0 \in 0 .. MAXBITS
  BY <1>2
<1> QED
  BY <1>8, <1>9, <1>10, <1>11 DEF g

\* FirstCode by its recursion.
LEMMA FirstEquations ==
  ASSUME NEW D, IsFiniteSet(D), NEW lens \in [D -> 0 .. MAXBITS]
  PROVE  /\ FirstCode(lens) \in [1 .. MAXBITS -> Nat] /\ FirstCode(lens)[1] = 0
         /\ \A l \in 1 .. MAXBITS : l < MAXBITS =>
              FirstCode(lens)[l + 1] = 2 * (FirstCode(lens)[l] + CountOf(lens, l))
<1> DEFINE a == [p \in Nat \X Nat |-> 2 * (p[2] + CountOf(lens, p[1]))]
<1>1. a \in [Nat \X Nat -> Nat]
  <2>1. \A p \in Nat \X Nat : p[2] \in Nat /\ CountOf(lens, p[1]) \in Nat
    BY CountType
  <2> QED
    BY <2>1
<1>2. MAXBITS \in Nat /\ MAXBITS >= 1 /\ MAXBITS - 1 \in Nat
  BY CodeAssumption
<1>3. PICK f \in [0 .. MAXBITS - 1 -> Nat] : Recurs(f, 0, a, MAXBITS - 1)
  <2> HIDE DEF a
  <2> DEFINE n == MAXBITS - 1
  <2>1. 0 \in Nat /\ n \in Nat
    BY <1>2
  <2> HIDE DEF n
  <2>2. \E f \in [0 .. n -> Nat] : Recurs(f, 0, a, n)
    BY <1>1, <2>1, Recursion
  <2> QED
    BY <2>2 DEF n
<1> DEFINE h == [l \in 1 .. MAXBITS |-> f[l - 1]]
<1>4. h = FirstStep(lens, h)
  <2>1. ASSUME NEW l \in 1 .. MAXBITS
        PROVE  h[l] = IF l = 1 THEN 0 ELSE 2 * (h[l - 1] + CountOf(lens, l - 1))
    <3>0. h[l] = f[l - 1] /\ l - 1 \in 0 .. MAXBITS - 1
      BY <1>2
    <3>1. CASE l = 1
      <4>1. f[l - 1] = 0
        BY <1>2, <1>3, <3>0, <3>1 DEF Recurs
      <4> QED
        BY <3>0, <3>1, <4>1
    <3>2. CASE l # 1
      <4>1. l - 1 \in 0 .. MAXBITS - 1 /\ l - 1 # 0 /\ l - 1 \in 1 .. MAXBITS /\ (l - 1) - 1 \in 0 .. MAXBITS - 1 /\ l - 1 \in Nat
        BY <1>2, <3>2
      <4>2. h[l - 1] = f[(l - 1) - 1] /\ f[(l - 1) - 1] \in Nat
        BY <4>1
      <4>3. f[l - 1] = a[<<l - 1, f[(l - 1) - 1]>>]
        <5> HIDE DEF a, h
        <5> QED
          BY <1>3, <4>1 DEF Recurs
      <4>4. \A k \in Nat, x \in Nat : a[<<k, x>>] = 2 * (x + CountOf(lens, k))
        OBVIOUS
      <4>5. a[<<l - 1, f[(l - 1) - 1]>>] = 2 * (f[(l - 1) - 1] + CountOf(lens, l - 1))
        <5> HIDE DEF a, h
        <5> QED
          BY <4>1, <4>2, <4>4
      <4> HIDE DEF a, h
      <4> QED
        BY <3>0, <3>2, <4>2, <4>3, <4>5
    <3> QED
      BY <3>1, <3>2
  <2>2. h = [l \in 1 .. MAXBITS |-> h[l]]
    OBVIOUS
  <2> HIDE DEF h
  <2> QED
    BY <2>1, <2>2 DEF FirstStep
<1>5. FirstCode(lens) = CHOOSE g : g = FirstStep(lens, g)
  BY DEF FirstCode, FirstStep
<1>6. FirstCode(lens) = FirstStep(lens, FirstCode(lens))
  <2> HIDE DEF h
  <2> QED
    BY <1>4, <1>5
<1> DEFINE g == FirstCode(lens)
<1> HIDE DEF g, a, h
<1>7. g = FirstStep(lens, g)
  BY <1>6 DEF g
<1>8. \A l \in 1 .. MAXBITS : g[l] = IF l = 1 THEN 0 ELSE 2 * (g[l - 1] + CountOf(lens, l - 1))
  BY <1>7 DEF FirstStep
<1>9. g \in [1 .. MAXBITS -> Nat]
  <2>0. g = [l \in 1 .. MAXBITS |-> g[l]]
    BY <1>7 DEF FirstStep
  <2> DEFINE T == {n \in Nat : n + 1 <= MAXBITS => g[n + 1] \in Nat}
  <2>1. 0 \in T
    <3>1. 1 \in 1 .. MAXBITS
      BY <1>2
    <3> QED
      BY <1>8, <3>1
  <2>2. ASSUME NEW n \in T PROVE n + 1 \in T
    <3>1. CASE (n + 1) + 1 <= MAXBITS
      <4>1. n \in Nat /\ (n + 1) + 1 \in 1 .. MAXBITS /\ (n + 1) + 1 # 1 /\ ((n + 1) + 1) - 1 = n + 1 /\ n + 1 <= MAXBITS
        BY <1>2, <3>1
      <4>2. g[n + 1] \in Nat
        BY <4>1
      <4>3. g[(n + 1) + 1] = 2 * (g[n + 1] + CountOf(lens, n + 1))
        BY <1>8, <4>1
      <4>4. CountOf(lens, n + 1) \in Nat
        BY CountType
      <4> QED
        BY <4>1, <4>2, <4>3, <4>4
    <3> QED
      BY <3>1
  <2> HIDE DEF T
  <2>3. T \in SUBSET Nat
    BY DEF T
  <2>4. T = Nat
    BY <2>1, <2>2, <2>3, Counting
  <2>5. \A l \in 1 .. MAXBITS : g[l] \in Nat
    <3> SUFFICES ASSUME NEW l \in 1 .. MAXBITS PROVE g[l] \in Nat
      OBVIOUS
    <3> DEFINE m == l - 1
    <3>1. m \in Nat /\ m + 1 <= MAXBITS /\ m + 1 = l
      BY <1>2
    <3> HIDE DEF m
    <3>2. g[m + 1] \in Nat
      BY <2>4, <3>1 DEF T
    <3> QED
      BY <3>1, <3>2
  <2> QED
    BY <2>0, <2>5
<1>10. \A l \in 1 .. MAXBITS : l < MAXBITS => l + 1 \in 1 .. MAXBITS /\ l + 1 # 1 /\ (l + 1) - 1 = l
  BY <1>2
<1>11. 1 \in 1 .. MAXBITS
  BY <1>2
<1>12. \A l \in 1 .. MAXBITS : l < MAXBITS => g[l + 1] = 2 * (g[l] + CountOf(lens, l))
  BY <1>8, <1>10
<1> QED
  BY <1>8, <1>9, <1>11, <1>12 DEF g

\* What is left is what the codes so far do not cover.
LEMMA LeftIs ==
  ASSUME NEW D, IsFiniteSet(D), NEW lens \in [D -> 0 .. MAXBITS]
  PROVE  \A l \in 1 .. MAXBITS : Left(lens)[l] = 2^l - (FirstCode(lens)[l] + CountOf(lens, l))
<1> DEFINE left == Left(lens)
           fc == FirstCode(lens)
           T == {n \in Nat : n + 1 <= MAXBITS => left[n + 1] = 2^(n + 1) - (fc[n + 1] + CountOf(lens, n + 1))}
<1>1. /\ MAXBITS \in Nat /\ MAXBITS >= 1
      /\ left \in [0 .. MAXBITS -> Int] /\ left[0] = 1
      /\ \A l \in 1 .. MAXBITS : left[l] = 2 * left[l - 1] - CountOf(lens, l)
  BY LeftEquations, CodeAssumption
<1>2. /\ fc \in [1 .. MAXBITS -> Nat] /\ fc[1] = 0
      /\ \A l \in 1 .. MAXBITS : l < MAXBITS => fc[l + 1] = 2 * (fc[l] + CountOf(lens, l))
  BY FirstEquations
<1> HIDE DEF left, fc
<1>3. 0 \in T
  <2>1. 2^(0 + 1) = 2 /\ 0 + 1 = 1
    BY PowerZero, PowerDoubles
  <2>2. 1 \in 1 .. MAXBITS /\ 1 - 1 = 0
    BY <1>1
  <2>3. left[1] = 2 * left[0] - CountOf(lens, 1) /\ CountOf(lens, 1) \in Nat
    BY <1>1, <2>2, CountType
  <2> QED
    BY <1>1, <1>2, <2>1, <2>3
<1>4. ASSUME NEW n \in T PROVE n + 1 \in T
  <2> SUFFICES ASSUME (n + 1) + 1 <= MAXBITS
               PROVE  left[(n + 1) + 1] = 2^((n + 1) + 1) - (fc[(n + 1) + 1] + CountOf(lens, (n + 1) + 1))
    OBVIOUS
  <2> DEFINE l == n + 1
             m == l + 1
  <2>1. l \in 1 .. MAXBITS /\ m \in 1 .. MAXBITS /\ m - 1 = l /\ l < MAXBITS /\ l \in Nat /\ n \in Nat /\ l <= MAXBITS
    BY <1>1
  <2>2. left[l] = 2^l - (fc[l] + CountOf(lens, l))
    BY <2>1
  <2> HIDE DEF T, l
  <2>3. 2^m = 2 * 2^l /\ 2^l \in Nat
    BY <2>1, PowerDoubles, PowerOf
  <2>4. CountOf(lens, l) \in Nat /\ CountOf(lens, m) \in Nat /\ fc[l] \in Nat
    BY <1>2, <2>1, CountType
  <2>5. fc[m] = 2 * (fc[l] + CountOf(lens, l))
    BY <1>2, <2>1
  <2> HIDE DEF m
  <2>6. left[m] = 2 * left[l] - CountOf(lens, m)
    BY <1>1, <2>1
  <2>7. left[m] = 2^m - (fc[m] + CountOf(lens, m))
    BY <2>2, <2>3, <2>4, <2>5, <2>6
  <2> QED
    BY <2>7 DEF m, l
<1> HIDE DEF T
<1>5. T \in SUBSET Nat
  BY DEF T
<1>6. T = Nat
  BY <1>3, <1>4, <1>5, Counting
<1>7. ASSUME NEW l \in 1 .. MAXBITS PROVE left[l] = 2^l - (fc[l] + CountOf(lens, l))
  <2> DEFINE n == l - 1
  <2>1. n \in Nat /\ n + 1 = l /\ n + 1 <= MAXBITS
    BY <1>1
  <2> HIDE DEF n
  <2>2. left[n + 1] = 2^(n + 1) - (fc[n + 1] + CountOf(lens, n + 1))
    BY <1>6, <2>1 DEF T
  <2> QED
    BY <2>1, <2>2
<1> QED
  BY <1>7 DEF left, fc

\* There is a longest length, and it is 0 only where no symbol has a code.
LEMMA LongestIs ==
  ASSUME NEW D, IsFiniteSet(D), NEW lens \in [D -> 0 .. MAXBITS]
  PROVE  /\ Longest(lens) \in 0 .. MAXBITS
         /\ Longest(lens) = 0 \/ CountOf(lens, Longest(lens)) # 0
         /\ \A k \in Longest(lens) + 1 .. MAXBITS : CountOf(lens, k) = 0
<1> DEFINE Is(l) == (l = 0 \/ CountOf(lens, l) # 0) /\ \A k \in l + 1 .. MAXBITS : CountOf(lens, k) = 0
           T == {n \in Nat : n <= MAXBITS /\ (n = MAXBITS \/ CountOf(lens, MAXBITS - n) # 0)}
<1>1. MAXBITS \in Nat
  BY CodeAssumption
<1>2. T \in SUBSET Nat /\ MAXBITS \in T
  BY <1>1
<1>3. PICK n \in T : \A m \in T : n <= m
  <2> HIDE DEF T
  <2> QED
    BY <1>2, LeastNumber
<1> DEFINE l == MAXBITS - n
<1>4. l \in 0 .. MAXBITS /\ n \in Nat
  BY <1>1
<1>5. l = 0 \/ CountOf(lens, l) # 0
  BY <1>1
<1>6. ASSUME NEW k \in l + 1 .. MAXBITS PROVE CountOf(lens, k) = 0
  <2> DEFINE m == MAXBITS - k
  <2>1. m \in Nat /\ m <= MAXBITS /\ MAXBITS - m = k /\ m < n
    BY <1>1, <1>4
  <2> HIDE DEF m
  <2>2. m \notin T
    BY <1>3, <1>4, <2>1
  <2> QED
    BY <2>1, <2>2
<1>7. \E k \in 0 .. MAXBITS : Is(k)
  <2> HIDE DEF l
  <2> QED
    BY <1>4, <1>5, <1>6
<1>8. Longest(lens) = CHOOSE k \in 0 .. MAXBITS : Is(k)
  BY DEF Longest
<1> HIDE DEF Is
<1>9. Longest(lens) \in 0 .. MAXBITS /\ Is(Longest(lens))
  BY <1>7, <1>8
<1> QED
  BY <1>9 DEF Is

\* The smaller ones.
Before(S, s) == {t \in S : t < s}

\* The place of a symbol among those of its length: every place is taken, by one symbol.
LEMMA Ranks ==
  ASSUME NEW S, IsFiniteSet(S), S \subseteq Int
  PROVE  /\ \A s \in S : Cardinality(Before(S, s)) \in 0 .. Cardinality(S) - 1
         /\ \A s, t \in S : Cardinality(Before(S, s)) = Cardinality(Before(S, t)) => s = t
         /\ \A n \in 0 .. Cardinality(S) - 1 : \E s \in S : Cardinality(Before(S, s)) = n
         /\ \A s, t \in S : s < t => Cardinality(Before(S, s)) < Cardinality(Before(S, t))
<1> DEFINE c == Cardinality(S)
           f == [s \in S |-> Cardinality(Before(S, s))]
<1>1. c \in Nat
  BY FS_CardinalityType
<1>2. ASSUME NEW s \in S PROVE IsFiniteSet(Before(S, s)) /\ Cardinality(Before(S, s)) \in 0 .. c - 1
  <2>1. Before(S, s) \in SUBSET S /\ s \notin Before(S, s)
    BY DEF Before
  <2>2. IsFiniteSet(Before(S, s)) /\ Cardinality(Before(S, s)) <= c /\ Cardinality(Before(S, s)) # c
    BY <2>1, FS_Subset
  <2>3. Cardinality(Before(S, s)) \in Nat
    BY <2>2, FS_CardinalityType
  <2> HIDE DEF c
  <2> QED
    BY <1>1, <2>2, <2>3
<1>3. ASSUME NEW s \in S, NEW t \in S, s < t PROVE Cardinality(Before(S, s)) < Cardinality(Before(S, t))
  <2>1. Before(S, s) \in SUBSET Before(S, t) /\ s \in Before(S, t) /\ s \notin Before(S, s)
    <3>1. \A r \in S : r < s => r < t
      <4>1. \A r \in S : r \in Int
        OBVIOUS
      <4>2. s \in Int /\ t \in Int
        OBVIOUS
      <4> QED
        BY <1>3, <4>1, <4>2
    <3>2. ~(s < s)
      OBVIOUS
    <3> QED
      BY <1>3, <3>1, <3>2 DEF Before
  <2>2. Cardinality(Before(S, s)) <= Cardinality(Before(S, t)) /\ Cardinality(Before(S, s)) # Cardinality(Before(S, t))
    BY <1>2, <2>1, FS_Subset
  <2>3. Cardinality(Before(S, s)) \in Nat /\ Cardinality(Before(S, t)) \in Nat
    BY <1>2, FS_CardinalityType
  <2> QED
    BY <2>2, <2>3
<1>4. \A s, t \in S : Cardinality(Before(S, s)) = Cardinality(Before(S, t)) => s = t
  <2> SUFFICES ASSUME NEW s \in S, NEW t \in S, Cardinality(Before(S, s)) = Cardinality(Before(S, t)), s # t PROVE FALSE
    OBVIOUS
  <2>1. s < t \/ t < s
    OBVIOUS
  <2>2. Cardinality(Before(S, s)) < Cardinality(Before(S, t)) \/ Cardinality(Before(S, t)) < Cardinality(Before(S, s))
    BY <1>3, <2>1
  <2>3. Cardinality(Before(S, s)) \in Nat /\ Cardinality(Before(S, t)) \in Nat
    BY <1>2, FS_CardinalityType
  <2> QED
    BY <2>2, <2>3
<1>5. f \in [S -> 0 .. c - 1] /\ DOMAIN f = S
  <2> HIDE DEF c
  <2> QED
    BY <1>2
<1>6. \A s \in S : f[s] = Cardinality(Before(S, s))
  OBVIOUS
<1> HIDE DEF f
<1>7. f \in Injection(S, 0 .. c - 1)
  BY <1>4, <1>5, <1>6 DEF Injection, IsInjective
<1>8. IsFiniteSet(0 .. c - 1) /\ Cardinality(0 .. c - 1) = c
  <2> HIDE DEF c
  <2>1. 0 \in Int /\ c - 1 \in Int
    BY <1>1
  <2>2. IsFiniteSet(0 .. c - 1) /\ Cardinality(0 .. c - 1) = IF 0 > c - 1 THEN 0 ELSE (c - 1) - 0 + 1
    BY <2>1, FS_Interval
  <2> QED
    BY <1>1, <2>2
<1>9. f \in Surjection(S, 0 .. c - 1)
  BY <1>7, <1>8, FS_Injection
<1>10. \A n \in 0 .. c - 1 : \E s \in S : f[s] = n
  <2> HIDE DEF c
  <2> QED
    BY <1>9 DEF Surjection
<1> QED
  BY <1>2, <1>3, <1>4, <1>6, <1>10

-----------------------------------------------------------------------------
(* The number that the first bits of a word stand for, the first of them   *)
(* being the highest.                                                      *)

\* val is that number for every length.
Values(bits, val) == /\ val \in [0 .. Len(bits) -> Nat] /\ val[0] = 0
                     /\ \A l \in 1 .. Len(bits) : val[l] = 2 * val[l - 1] + bits[l]

\* Every word has them.
LEMMA ValuesExist == ASSUME NEW bits \in Seq(Bit) PROVE \E val : Values(bits, val)
<1> DEFINE bit(l) == IF l \in 1 .. Len(bits) THEN bits[l] ELSE 0
           a == [p \in Nat \X Nat |-> 2 * p[2] + bit(p[1])]
           n == Len(bits)
<1>1. n \in Nat /\ \A l \in 1 .. n : bits[l] \in Nat /\ bits[l] \in Bit
  BY DEF Bit
<1>2. \A l : bit(l) \in Nat
  BY <1>1
<1> HIDE DEF bit
<1>3. a \in [Nat \X Nat -> Nat]
  BY <1>2
<1>4. \A l \in Nat, x \in Nat : a[<<l, x>>] = 2 * x + bit(l)
  OBVIOUS
<1> HIDE DEF a
<1>5. PICK f \in [0 .. n -> Nat] : Recurs(f, 0, a, n)
  <2>1. 0 \in Nat
    OBVIOUS
  <2> HIDE DEF n
  <2> QED
    BY <1>1, <1>3, <2>1, Recursion
<1>6. \A l \in 0 .. n : f[l] = IF l = 0 THEN 0 ELSE a[<<l, f[l - 1]>>]
  BY <1>5 DEF Recurs
<1>7. ASSUME NEW l \in 1 .. n PROVE f[l] = 2 * f[l - 1] + bits[l]
  <2>1. l \in 0 .. n /\ l # 0 /\ l - 1 \in 0 .. n /\ l \in Nat
    BY <1>1
  <2>2. f[l] = a[<<l, f[l - 1]>>] /\ f[l - 1] \in Nat
    BY <1>6, <2>1
  <2>3. bit(l) = bits[l]
    BY DEF bit
  <2> QED
    BY <1>4, <2>1, <2>2, <2>3
<1>8. f[0] = 0
  <2>1. 0 \in 0 .. n
    BY <1>1
  <2> QED
    BY <1>6, <2>1
<1> QED
  BY <1>7, <1>8 DEF Values

\* Less than the number of words of that length.
LEMMA ValueBound ==
  ASSUME NEW bits \in Seq(Bit), NEW val, Values(bits, val)
  PROVE  \A l \in 0 .. Len(bits) : val[l] \in Nat /\ val[l] < 2^l
<1> DEFINE n == Len(bits)
           T == {l \in Nat : l <= n => val[l] < 2^l}
<1>1. /\ n \in Nat /\ val \in [0 .. n -> Nat] /\ val[0] = 0
      /\ \A l \in 1 .. n : val[l] = 2 * val[l - 1] + bits[l] /\ bits[l] \in {0, 1}
  BY DEF Values, Bit
<1> HIDE DEF n
<1>2. 0 \in T
  BY <1>1, PowerZero
<1>3. ASSUME NEW l \in T PROVE l + 1 \in T
  <2> SUFFICES ASSUME l + 1 <= n PROVE val[l + 1] < 2^(l + 1)
    OBVIOUS
  <2>1. l \in Nat /\ l \in 0 .. n /\ l + 1 \in 1 .. n /\ (l + 1) - 1 = l /\ l <= n
    BY <1>1
  <2>2. val[l] < 2^l /\ val[l] \in Nat /\ 2^l \in Nat /\ 2^(l + 1) = 2 * 2^l
    BY <1>1, <2>1, PowerDoubles, PowerOf
  <2>3. val[l + 1] = 2 * val[l] + bits[l + 1] /\ bits[l + 1] \in {0, 1}
    BY <1>1, <2>1
  <2> QED
    BY <2>2, <2>3
<1> HIDE DEF T
<1>4. T \in SUBSET Nat
  BY DEF T
<1>5. T = Nat
  BY <1>2, <1>3, <1>4, Counting
<1>6. \A l \in 0 .. n : l \in Nat /\ l <= n /\ val[l] \in Nat
  BY <1>1
<1> QED
  BY <1>5, <1>6 DEF T, n

\* Without its k last bits it is what the bits before them stand for.
LEMMA ValueDivided ==
  ASSUME NEW bits \in Seq(Bit), NEW val, Values(bits, val), NEW l \in 0 .. Len(bits)
  PROVE  \A k \in 0 .. l : val[l] \div 2^k = val[l - k]
<1> DEFINE n == Len(bits)
           T == {k \in Nat : k <= l => val[l] \div 2^k = val[l - k]}
<1>1. /\ n \in Nat /\ l \in 0 .. n /\ val \in [0 .. n -> Nat]
      /\ \A i \in 1 .. n : val[i] = 2 * val[i - 1] + bits[i] /\ bits[i] \in {0, 1}
  BY DEF Values, Bit
<1> HIDE DEF n
<1>2. val[l] \in Nat /\ l \in Nat
  BY <1>1
<1>3. 0 \in T
  <2>1. val[l] \div 1 = val[l] /\ l - 0 = l
    BY <1>2
  <2> QED
    BY <2>1, PowerZero
<1>4. ASSUME NEW k \in T PROVE k + 1 \in T
  <2> SUFFICES ASSUME k + 1 <= l PROVE val[l] \div 2^(k + 1) = val[l - (k + 1)]
    OBVIOUS
  <2>1. k \in Nat /\ k <= l /\ l - k \in 1 .. n /\ (l - k) - 1 = l - (k + 1) /\ l - (k + 1) \in 0 .. n
    BY <1>1, <1>2
  <2>2. val[l] \div 2^k = val[l - k]
    BY <2>1
  <2>3. val[l] \div 2^(k + 1) = (val[l] \div 2^k) \div 2
    BY <1>2, <2>1, PowerDivides
  <2>4. val[l - k] = 2 * val[l - (k + 1)] + bits[l - k] /\ bits[l - k] \in {0, 1} /\ val[l - (k + 1)] \in Nat
    BY <1>1, <2>1
  <2> DEFINE v == val[l - k]
             p == val[l - (k + 1)]
             b == bits[l - k]
  <2>5. v = 2 * p + b /\ b \in {0, 1} /\ p \in Nat
    BY <2>4
  <2> HIDE DEF v, p, b
  <2>6. v \div 2 = p
    <3>1. v \in Nat /\ 2 \in Nat \ {0} /\ 2 * p <= v /\ v < 2 * p + 2
      BY <2>5
    <3> QED
      BY <2>5, <3>1, Quotient
  <2> QED
    BY <2>2, <2>3, <2>6 DEF v, p
<1> HIDE DEF T
<1>5. T \in SUBSET Nat
  BY DEF T
<1>6. T = Nat
  BY <1>3, <1>4, <1>5, Counting
<1>7. \A k \in 0 .. l : k \in Nat /\ k <= l
  BY <1>2
<1> QED
  BY <1>6, <1>7 DEF T

\* The word of l bits for a number, the highest first.
WordOf(l, n) == [i \in 1 .. l |-> (n \div 2^(l - i)) % 2]

\* The first bits of a sequence are the word of their number, and of no other one.
LEMMA WordOfValue ==
  ASSUME NEW bits \in Seq(Bit), NEW val, Values(bits, val), NEW l \in 0 .. Len(bits)
  PROVE  WordOf(l, val[l]) = SubSeq(bits, 1, l)
<1>1. /\ Len(bits) \in Nat /\ l \in 0 .. Len(bits) /\ val \in [0 .. Len(bits) -> Nat]
      /\ \A i \in 1 .. Len(bits) : val[i] = 2 * val[i - 1] + bits[i] /\ bits[i] \in {0, 1}
  BY DEF Values, Bit
<1>2. ASSUME NEW i \in 1 .. l PROVE (val[l] \div 2^(l - i)) % 2 = bits[i]
  <2>1. l - i \in 0 .. l /\ l - (l - i) = i /\ i \in 1 .. Len(bits) /\ i - 1 \in 0 .. Len(bits)
          /\ i \in 0 .. Len(bits)
    BY <1>1
  <2>2. val[l] \div 2^(l - i) = val[i]
    BY <2>1, ValueDivided
  <2>3. val[i] = 2 * val[i - 1] + bits[i] /\ bits[i] \in {0, 1} /\ val[i - 1] \in Nat /\ val[i] \in Nat
    BY <1>1, <2>1
  <2>4. val[i] % 2 = bits[i]
    BY <2>3, Remainder
  <2> QED
    BY <2>2, <2>4
<1>3. SubSeq(bits, 1, l) = [i \in 1 .. l |-> bits[i]]
  BY <1>1
<1> QED
  BY <1>2, <1>3 DEF WordOf

\* The digits of a number below 2^l are the bits of its word.
LEMMA WordIsSeq ==
  ASSUME NEW l \in Nat, NEW n \in Nat
  PROVE  WordOf(l, n) \in Seq(Bit) /\ Len(WordOf(l, n)) = l
<1>1. ASSUME NEW i \in 1 .. l PROVE (n \div 2^(l - i)) % 2 \in Bit
  <2>1. l - i \in Nat
    OBVIOUS
  <2>2. 2^(l - i) \in Nat \ {0}
    BY <2>1, PowerPositive
  <2>3. n \div 2^(l - i) \in Nat
    BY <2>2, DividedBy
  <2>4. PICK p \in Nat, r \in {0, 1} : (n \div 2^(l - i)) % 2 = r
    BY <2>3, HalfOf
  <2> QED
    BY <2>4 DEF Bit
<1> QED
  BY <1>1 DEF WordOf

\* The word of a number below 2^l stands for that number.
LEMMA ValueOfWord ==
  ASSUME NEW l \in Nat, NEW n \in Nat, n < 2^l, NEW val, Values(WordOf(l, n), val)
  PROVE  val[l] = n
<1> DEFINE w == WordOf(l, n)
           q(i) == n \div 2^(l - i)
           T == {i \in Nat : i <= l => val[i] = q(i)}
<1>1. /\ w \in Seq(Bit) /\ Len(w) = l /\ val \in [0 .. l -> Nat] /\ val[0] = 0
      /\ \A i \in 1 .. l : val[i] = 2 * val[i - 1] + w[i]
  BY WordIsSeq DEF Values
<1>2. \A i \in 1 .. l : w[i] = q(i) % 2
  BY DEF WordOf
<1> HIDE DEF w
<1>3. 0 \in T
  <2> DEFINE m == 2^l
  <2>1. m \in Nat \ {0} /\ n < m
    BY PowerPositive
  <2>2. l - 0 = l
    OBVIOUS
  <2>3. n \div m = 0
    <3> HIDE DEF m
    <3>1. 0 \in Nat /\ m * 0 <= n /\ n < m * 0 + m
      BY <2>1
    <3> QED
      BY <2>1, <3>1, Quotient
  <2> QED
    BY <1>1, <2>2, <2>3
<1>4. ASSUME NEW i \in T PROVE i + 1 \in T
  <2> SUFFICES ASSUME i + 1 <= l PROVE val[i + 1] = q(i + 1)
    OBVIOUS
  <2>1. i \in Nat /\ i <= l /\ i + 1 \in 1 .. l /\ (i + 1) - 1 = i /\ l - (i + 1) \in Nat /\ l - i = (l - (i + 1)) + 1
    OBVIOUS
  <2>2. val[i] = q(i)
    BY <2>1
  <2> DEFINE k == l - (i + 1)
  <2>3. k \in Nat /\ l - i = k + 1
    BY <2>1
  <2> HIDE DEF k
  <2>4. n \div 2^(k + 1) = (n \div 2^k) \div 2
    BY <2>3, PowerDivides
  <2>5. 2^k \in Nat \ {0}
    BY <2>3, PowerPositive
  <2>6. n \div 2^k \in Nat
    BY <2>5, DividedBy
  <2>7. PICK p \in Nat, r \in {0, 1} : n \div 2^k = 2 * p + r /\ (n \div 2^k) \div 2 = p /\ (n \div 2^k) % 2 = r
    BY <2>6, HalfOf
  <2>8. q(i) = p /\ q(i + 1) = 2 * p + r
    BY <2>3, <2>4, <2>7 DEF k
  <2>9. w[i + 1] = r
    BY <1>2, <2>1, <2>7 DEF k
  <2>10. val[i + 1] = 2 * val[i] + w[i + 1]
    BY <1>1, <2>1
  <2> HIDE DEF q
  <2> QED
    BY <2>2, <2>8, <2>9, <2>10
<1> HIDE DEF T
<1>5. T \in SUBSET Nat
  BY DEF T
<1>6. T = Nat
  BY <1>3, <1>4, <1>5, Counting
<1>7. val[l] = q(l)
  <2>1. l \in T /\ l <= l
    BY <1>6
  <2> HIDE DEF q
  <2> QED
    BY <2>1 DEF T
<1>8. q(l) = n
  <2>1. l - l = 0
    OBVIOUS
  <2>2. n \div 1 = n
    OBVIOUS
  <2> QED
    BY <2>1, <2>2, PowerZero
<1> QED
  BY <1>7, <1>8

\* Two sequences that begin alike have the same numbers there.
LEMMA SameValues ==
  ASSUME NEW b, NEW v, Values(b, v), NEW c, NEW u, Values(c, u), NEW l \in Nat,
         Len(b) \in Nat, Len(c) \in Nat, l <= Len(b), l <= Len(c), \A i \in 1 .. l : b[i] = c[i]
  PROVE  v[l] = u[l]
<1> DEFINE T == {n \in Nat : n <= l => v[n] = u[n]}
<1>1. 0 \in T
  BY DEF Values
<1>2. ASSUME NEW n \in T PROVE n + 1 \in T
  <2> SUFFICES ASSUME n + 1 <= l PROVE v[n + 1] = u[n + 1]
    OBVIOUS
  <2>1. n \in Nat /\ n <= l /\ n + 1 \in 1 .. l /\ n + 1 \in 1 .. Len(b) /\ n + 1 \in 1 .. Len(c) /\ (n + 1) - 1 = n
    OBVIOUS
  <2>2. v[n] = u[n] /\ b[n + 1] = c[n + 1]
    BY <2>1
  <2>3. v[n + 1] = 2 * v[n] + b[n + 1] /\ u[n + 1] = 2 * u[n] + c[n + 1]
    <3>1. \A i \in 1 .. Len(b) : v[i] = 2 * v[i - 1] + b[i]
      BY DEF Values
    <3>2. \A i \in 1 .. Len(c) : u[i] = 2 * u[i - 1] + c[i]
      BY DEF Values
    <3> QED
      BY <2>1, <3>1, <3>2
  <2> QED
    BY <2>2, <2>3
<1> HIDE DEF T
<1>3. T \in SUBSET Nat
  BY DEF T
<1>4. T = Nat
  BY <1>1, <1>2, <1>3, Counting
<1> QED
  BY <1>4 DEF T

-----------------------------------------------------------------------------
(* Canonical codes.                                                        *)

\* The number behind the last code of a length.
Upto(lens, l) == FirstCode(lens)[l] + CountOf(lens, l)

\* How many words are left behind the codes of a length, and where the next length begins.
LEMMA UptoIs ==
  ASSUME NEW D, IsFiniteSet(D), NEW lens \in [D -> 0 .. MAXBITS]
  PROVE  /\ MAXBITS \in Nat /\ MAXBITS >= 1
         /\ \A l \in 1 .. MAXBITS : /\ FirstCode(lens)[l] \in Nat /\ Upto(lens, l) \in Nat
                                    /\ FirstCode(lens)[l] <= Upto(lens, l)
                                    /\ Left(lens)[l] = 2^l - Upto(lens, l)
                                    /\ l < MAXBITS => FirstCode(lens)[l + 1] = 2 * Upto(lens, l)
         /\ FirstCode(lens)[1] = 0
<1>1. MAXBITS \in Nat /\ MAXBITS >= 1
  BY CodeAssumption
<1>2. ASSUME NEW l \in 1 .. MAXBITS
      PROVE  /\ FirstCode(lens)[l] \in Nat /\ Upto(lens, l) \in Nat
             /\ FirstCode(lens)[l] <= Upto(lens, l)
             /\ Left(lens)[l] = 2^l - Upto(lens, l)
             /\ l < MAXBITS => FirstCode(lens)[l + 1] = 2 * Upto(lens, l)
  <2>1. FirstCode(lens)[l] \in Nat /\ CountOf(lens, l) \in Nat
    BY FirstEquations, CountType
  <2>2. Left(lens)[l] = 2^l - Upto(lens, l)
    BY LeftIs DEF Upto
  <2>3. l < MAXBITS => FirstCode(lens)[l + 1] = 2 * Upto(lens, l)
    BY FirstEquations DEF Upto
  <2>4. Upto(lens, l) \in Nat /\ FirstCode(lens)[l] <= Upto(lens, l)
    BY <2>1 DEF Upto
  <2> QED
    BY <2>1, <2>2, <2>3, <2>4
<1>3. FirstCode(lens)[1] = 0
  BY FirstEquations
<1> QED
  BY <1>1, <1>2, <1>3

\* The bits behind a code do not begin a code of more bits.
LEMMA CoveredOn ==
  ASSUME NEW D, IsFiniteSet(D), NEW lens \in [D -> 0 .. MAXBITS],
         NEW bits \in Seq(Bit), NEW val, Values(bits, val),
         NEW l \in 1 .. MAXBITS, NEW k \in 1 .. MAXBITS, l < k, k <= Len(bits), val[l] < Upto(lens, l)
  PROVE  val[k] < FirstCode(lens)[k]
<1> DEFINE fc == FirstCode(lens)
           T == {n \in Nat : l + n + 1 <= k => val[l + n + 1] < fc[l + n + 1]}
<1>1. /\ MAXBITS \in Nat
      /\ \A i \in 1 .. MAXBITS : /\ fc[i] \in Nat /\ Upto(lens, i) \in Nat /\ fc[i] <= Upto(lens, i)
                                 /\ i < MAXBITS => fc[i + 1] = 2 * Upto(lens, i)
  BY UptoIs
<1>2. /\ Len(bits) \in Nat /\ val \in [0 .. Len(bits) -> Nat]
      /\ \A i \in 1 .. Len(bits) : val[i] = 2 * val[i - 1] + bits[i] /\ bits[i] \in {0, 1}
  BY DEF Values, Bit
<1> HIDE DEF fc
<1>3. ASSUME NEW i \in 1 .. MAXBITS, i < k, val[i] < Upto(lens, i) PROVE val[i + 1] < fc[i + 1]
  <2>1. i + 1 \in 1 .. Len(bits) /\ (i + 1) - 1 = i /\ i < MAXBITS /\ i \in 0 .. Len(bits)
    BY <1>1, <1>2, <1>3
  <2>2. val[i + 1] = 2 * val[i] + bits[i + 1] /\ bits[i + 1] \in {0, 1} /\ val[i] \in Nat
    BY <1>2, <2>1
  <2>3. fc[i + 1] = 2 * Upto(lens, i) /\ Upto(lens, i) \in Nat
    BY <1>1, <2>1
  <2> QED
    BY <1>3, <2>2, <2>3
<1>4. 0 \in T
  <2>1. l + 0 + 1 = l + 1
    OBVIOUS
  <2> QED
    BY <1>3, <2>1
<1>5. ASSUME NEW n \in T PROVE n + 1 \in T
  <2> SUFFICES ASSUME l + (n + 1) + 1 <= k PROVE val[l + (n + 1) + 1] < fc[l + (n + 1) + 1]
    OBVIOUS
  <2> DEFINE i == l + n + 1
  <2>1. i \in 1 .. MAXBITS /\ i < k /\ i + 1 = l + (n + 1) + 1 /\ n \in Nat /\ i <= k /\ i <= Len(bits) /\ i \in 0 .. Len(bits)
    BY <1>1, <1>2
  <2>2. val[i] < fc[i]
    BY <2>1
  <2> HIDE DEF T, i
  <2>3. val[i] < Upto(lens, i)
    <3>1. val[i] \in Nat /\ fc[i] \in Nat /\ Upto(lens, i) \in Nat /\ fc[i] <= Upto(lens, i)
      BY <1>1, <1>2, <2>1
    <3> QED
      BY <2>2, <3>1
  <2>4. val[i + 1] < fc[i + 1]
    BY <1>3, <2>1, <2>3
  <2> QED
    BY <2>1, <2>4
<1> HIDE DEF T
<1>6. T \in SUBSET Nat
  BY DEF T
<1>7. T = Nat
  BY <1>4, <1>5, <1>6, Counting
<1> DEFINE n == k - l - 1
<1>8. n \in Nat /\ l + n + 1 = k /\ l + n + 1 <= k
  BY <1>1
<1> HIDE DEF n
<1>9. val[l + n + 1] < fc[l + n + 1]
  BY <1>7, <1>8 DEF T
<1> QED
  BY <1>8, <1>9 DEF fc

\* Where a number is below the end of the codes of its length, some code begins the bits.
LEMMA CoveredAt ==
  ASSUME NEW D, IsFiniteSet(D), NEW lens \in [D -> 0 .. MAXBITS],
         NEW bits \in Seq(Bit), NEW val, Values(bits, val),
         NEW k \in 1 .. MAXBITS, k <= Len(bits), val[k] < Upto(lens, k)
  PROVE  \E l \in 1 .. MAXBITS : l <= Len(bits) /\ FirstCode(lens)[l] <= val[l] /\ val[l] < Upto(lens, l)
<1> DEFINE T == {n \in Nat : n \in 1 .. MAXBITS /\ n <= Len(bits) /\ val[n] < Upto(lens, n)}
<1>1. /\ MAXBITS \in Nat /\ FirstCode(lens)[1] = 0
      /\ \A i \in 1 .. MAXBITS : /\ Upto(lens, i) \in Nat
                                 /\ i < MAXBITS => FirstCode(lens)[i + 1] = 2 * Upto(lens, i)
  BY UptoIs
<1>2. /\ Len(bits) \in Nat /\ val \in [0 .. Len(bits) -> Nat] /\ val[0] = 0
      /\ \A i \in 1 .. Len(bits) : val[i] = 2 * val[i - 1] + bits[i] /\ bits[i] \in {0, 1}
  BY DEF Values, Bit
<1>3. T \in SUBSET Nat /\ k \in T
  BY <1>1
<1>4. PICK l \in T : \A n \in T : l <= n
  <2> HIDE DEF T
  <2> QED
    BY <1>3, LeastNumber
<1>5. l \in 1 .. MAXBITS /\ l <= Len(bits) /\ val[l] < Upto(lens, l) /\ l \in Nat
  OBVIOUS
<1>6. FirstCode(lens)[l] <= val[l]
  <2>0. l \in 0 .. Len(bits) /\ val[l] \in Nat
    BY <1>2, <1>5
  <2>1. CASE l = 1
    BY <1>1, <2>0, <2>1
  <2>2. CASE l # 1
    <3> DEFINE i == l - 1
    <3>1. i \in 1 .. MAXBITS /\ i <= Len(bits) /\ i < MAXBITS /\ i + 1 = l /\ i \in Nat /\ i < l /\ l \in 1 .. Len(bits) /\ i \in 0 .. Len(bits)
      BY <1>1, <1>2, <1>5, <2>2
    <3>2. i \notin T
      <4> HIDE DEF T, i
      <4> QED
        BY <1>4, <1>5, <3>1
    <3>3. ~(val[i] < Upto(lens, i))
      BY <3>1, <3>2
    <3>4. val[i] \in Nat /\ Upto(lens, i) \in Nat /\ FirstCode(lens)[i + 1] = 2 * Upto(lens, i)
      <4> HIDE DEF i
      <4> QED
        BY <1>1, <1>2, <3>1
    <3>5. val[l] = 2 * val[i] + bits[l] /\ bits[l] \in {0, 1}
      BY <1>2, <3>1
    <3> HIDE DEF i, T
    <3>6. FirstCode(lens)[l] = 2 * Upto(lens, i)
      BY <3>1, <3>4
    <3> QED
      BY <3>3, <3>4, <3>5, <3>6
  <2> QED
    BY <2>1, <2>2
<1> QED
  BY <1>5, <1>6

\* The number of a symbol's code.
NumberOf(lens, s) == FirstCode(lens)[lens[s]] + Cardinality(Before({t \in DOMAIN lens : lens[t] = lens[s]}, s))

\* Symbols are finitely many numbers.
Alphabet(D) == IsFiniteSet(D) /\ D \subseteq Int

\* A symbol that has a code is given a number among those of its length.
LEMMA SymbolWord ==
  ASSUME NEW D, Alphabet(D), NEW lens \in [D -> 0 .. MAXBITS], NEW s \in Coded(lens)
  PROVE  /\ s \in D /\ lens[s] \in 1 .. MAXBITS
         /\ NumberOf(lens, s) \in Nat
         /\ FirstCode(lens)[lens[s]] <= NumberOf(lens, s) /\ NumberOf(lens, s) < Upto(lens, lens[s])
         /\ Word(lens, s) = WordOf(lens[s], NumberOf(lens, s))
<1>s. IsFiniteSet(D) /\ D \subseteq Int
  BY DEF Alphabet
<1> USE <1>s
<1> DEFINE l == lens[s]
           S == {t \in D : lens[t] = l}
<1>1. s \in D /\ l \in 1 .. MAXBITS /\ DOMAIN lens = D
  BY CodeAssumption DEF Coded
<1>2. IsFiniteSet(S) /\ S \subseteq Int /\ s \in S
  <2>0. S \in SUBSET D
    OBVIOUS
  <2>1. IsFiniteSet(S)
    <3> HIDE DEF S
    <3> QED
      BY <2>0, FS_Subset
  <2> QED
    BY <1>1, <2>1
<1>3. Cardinality(Before(S, s)) \in 0 .. Cardinality(S) - 1 /\ Cardinality(S) \in Nat
  <2> HIDE DEF S
  <2> QED
    BY <1>2, Ranks, FS_CardinalityType
<1>4. CountOf(lens, l) = Cardinality(S)
  BY <1>1 DEF CountOf
<1>5. FirstCode(lens)[l] \in Nat
  BY <1>1, UptoIs
<1>6. NumberOf(lens, s) = FirstCode(lens)[l] + Cardinality(Before(S, s))
  BY <1>1 DEF NumberOf
<1>7. {t \in DOMAIN lens : t < s /\ lens[t] = l} = Before(S, s)
  BY <1>1 DEF Before
<1>8. Word(lens, s) = WordOf(l, NumberOf(lens, s))
  BY <1>6, <1>7 DEF Word, WordOf
<1> HIDE DEF l, S
<1>9. /\ NumberOf(lens, s) \in Nat /\ FirstCode(lens)[l] <= NumberOf(lens, s)
      /\ NumberOf(lens, s) < Upto(lens, l)
  BY <1>3, <1>4, <1>5, <1>6 DEF Upto
<1> QED
  BY <1>1, <1>8, <1>9 DEF l

\* Every number among the codes of a length is the code of one symbol.
LEMMA SymbolOfNumber ==
  ASSUME NEW D, Alphabet(D), NEW lens \in [D -> 0 .. MAXBITS],
         NEW l \in 1 .. MAXBITS, NEW n \in Nat, FirstCode(lens)[l] <= n, n < Upto(lens, l)
  PROVE  \E s \in Coded(lens) : lens[s] = l /\ NumberOf(lens, s) = n
<1>s. IsFiniteSet(D) /\ D \subseteq Int
  BY DEF Alphabet
<1> USE <1>s
<1> DEFINE S == {t \in D : lens[t] = l}
<1>1. DOMAIN lens = D /\ l # 0 /\ MAXBITS \in Nat
  BY CodeAssumption
<1>2. IsFiniteSet(S) /\ S \subseteq Int
  <2>0. S \in SUBSET D
    OBVIOUS
  <2>1. IsFiniteSet(S)
    <3> HIDE DEF S
    <3> QED
      BY <2>0, FS_Subset
  <2> QED
    BY <1>1, <2>1
<1>3. CountOf(lens, l) = Cardinality(S) /\ Cardinality(S) \in Nat
  BY <1>1, <1>2, FS_CardinalityType DEF CountOf
<1>4. FirstCode(lens)[l] \in Nat
  BY <1>1, UptoIs
<1> DEFINE r == n - FirstCode(lens)[l]
<1>5. r \in 0 .. Cardinality(S) - 1
  <2> HIDE DEF S
  <2> QED
    BY <1>3, <1>4 DEF Upto
<1>6. PICK s \in S : Cardinality(Before(S, s)) = r
  <2> HIDE DEF S, r
  <2> QED
    BY <1>2, <1>5, Ranks
<1>7. s \in D /\ lens[s] = l /\ s \in Coded(lens)
  BY <1>1 DEF Coded
<1>8. NumberOf(lens, s) = FirstCode(lens)[l] + Cardinality(Before(S, s))
  BY <1>1, <1>7 DEF NumberOf
<1>9. NumberOf(lens, s) = n
  <2> HIDE DEF S
  <2> QED
    BY <1>4, <1>6, <1>8
<1> QED
  BY <1>7, <1>9

\* Two symbols of a length have two numbers.
LEMMA NumbersDiffer ==
  ASSUME NEW D, Alphabet(D), NEW lens \in [D -> 0 .. MAXBITS],
         NEW s \in Coded(lens), NEW t \in Coded(lens), lens[s] = lens[t], NumberOf(lens, s) = NumberOf(lens, t)
  PROVE  s = t
<1>s. IsFiniteSet(D) /\ D \subseteq Int
  BY DEF Alphabet
<1> USE <1>s
<1> DEFINE S == {r \in D : lens[r] = lens[s]}
<1>1. DOMAIN lens = D /\ s \in S /\ t \in S /\ lens[s] \in 1 .. MAXBITS
  BY SymbolWord DEF Coded
<1>2. IsFiniteSet(S) /\ S \subseteq Int
  <2>0. S \in SUBSET D
    OBVIOUS
  <2>1. IsFiniteSet(S)
    <3> HIDE DEF S
    <3> QED
      BY <2>0, FS_Subset
  <2> QED
    BY <1>1, <2>1
<1>3. NumberOf(lens, s) = FirstCode(lens)[lens[s]] + Cardinality(Before(S, s))
  BY <1>1 DEF NumberOf
<1>4. NumberOf(lens, t) = FirstCode(lens)[lens[s]] + Cardinality(Before(S, t))
  BY <1>1 DEF NumberOf
<1>5. FirstCode(lens)[lens[s]] \in Nat
  BY <1>1, UptoIs
<1> HIDE DEF S
<1>6. Cardinality(Before(S, s)) \in Int /\ Cardinality(Before(S, t)) \in Int
  <2>1. Cardinality(Before(S, s)) \in 0 .. Cardinality(S) - 1 /\ Cardinality(Before(S, t)) \in 0 .. Cardinality(S) - 1
    BY <1>1, <1>2, Ranks
  <2> QED
    BY <2>1
<1>7. Cardinality(Before(S, s)) = Cardinality(Before(S, t))
  <2> DEFINE a == FirstCode(lens)[lens[s]]
             x == Cardinality(Before(S, s))
             y == Cardinality(Before(S, t))
  <2>1. a \in Nat /\ x \in Int /\ y \in Int /\ a + x = a + y
    BY <1>3, <1>4, <1>5, <1>6
  <2> HIDE DEF a, x, y
  <2>2. x = y
    BY <2>1
  <2> QED
    BY <2>2 DEF x, y
<1> QED
  BY <1>1, <1>2, <1>7, Ranks

\* What an incomplete code leaves over.
Spare(lens) == IF Longest(lens) = 0 THEN {<<0>>, <<1>>} ELSE IF Left(lens)[MAXBITS] > 0 THEN {<<1>>} ELSE {}

\* The words of a code are those of its symbols and what it leaves over.
LEMMA CodeWords ==
  ASSUME NEW lens
  PROVE  /\ DOMAIN CodeOf(lens) = {Word(lens, s) : s \in Coded(lens)} \cup Spare(lens)
         /\ \A w \in DOMAIN CodeOf(lens) : \/ \E s \in Coded(lens) : w = Word(lens, s) /\ CodeOf(lens)[w] = s
                                           \/ w \in Spare(lens) /\ CodeOf(lens)[w] = INVALID
<1> DEFINE words == {<<Word(lens, s), s>> : s \in Coded(lens)} \cup {<<w, INVALID>> : w \in Spare(lens)}
           code == [w \in {p[1] : p \in words} |-> (CHOOSE p \in words : p[1] = w)[2]]
<1>1. CodeOf(lens) = code
  BY DEF CodeOf, Spare
<1>2. DOMAIN code = {p[1] : p \in words}
  OBVIOUS
<1>3. {p[1] : p \in words} = {Word(lens, s) : s \in Coded(lens)} \cup Spare(lens)
  <2>1. \A p \in words : (\E s \in Coded(lens) : p = <<Word(lens, s), s>>) \/ (\E w \in Spare(lens) : p = <<w, INVALID>>)
    OBVIOUS
  <2>2. \A s \in Coded(lens) : <<Word(lens, s), s>> \in words
    OBVIOUS
  <2>3. \A w \in Spare(lens) : <<w, INVALID>> \in words
    OBVIOUS
  <2> HIDE DEF words
  <2>4. ASSUME NEW w \in {p[1] : p \in words} PROVE w \in {Word(lens, s) : s \in Coded(lens)} \cup Spare(lens)
    <3>1. PICK p \in words : p[1] = w
      OBVIOUS
    <3> QED
      BY <2>1, <3>1
  <2>5. ASSUME NEW w \in {Word(lens, s) : s \in Coded(lens)} \cup Spare(lens) PROVE w \in {p[1] : p \in words}
    <3>1. CASE w \in Spare(lens)
      <4>1. <<w, INVALID>> \in words /\ <<w, INVALID>>[1] = w
        BY <2>3, <3>1
      <4> QED
        BY <4>1
    <3>2. CASE \E s \in Coded(lens) : w = Word(lens, s)
      <4>1. PICK s \in Coded(lens) : w = Word(lens, s)
        BY <3>2
      <4>2. <<w, s>> \in words /\ <<w, s>>[1] = w
        BY <2>2, <4>1
      <4> QED
        BY <4>2
    <3> QED
      BY <3>1, <3>2
  <2> QED
    BY <2>4, <2>5
<1>4. ASSUME NEW w \in DOMAIN code
      PROVE  \/ \E s \in Coded(lens) : w = Word(lens, s) /\ code[w] = s
             \/ w \in Spare(lens) /\ code[w] = INVALID
  <2> DEFINE q == CHOOSE p \in words : p[1] = w
  <2>1. code[w] = q[2]
    OBVIOUS
  <2>2. \E p \in words : p[1] = w
    <3> HIDE DEF words
    <3> QED
      BY <1>2
  <2>3. \A p \in words : (\E s \in Coded(lens) : p = <<Word(lens, s), s>>) \/ (\E v \in Spare(lens) : p = <<v, INVALID>>)
    OBVIOUS
  <2>4. q \in words /\ q[1] = w
    <3> HIDE DEF words
    <3> QED
      BY <2>2
  <2> HIDE DEF q, words, code
  <2>5. CASE \E s \in Coded(lens) : q = <<Word(lens, s), s>>
    <3>1. PICK s \in Coded(lens) : q = <<Word(lens, s), s>>
      BY <2>5
    <3>2. w = Word(lens, s) /\ code[w] = s
      BY <2>1, <2>4, <3>1
    <3> QED
      BY <3>2
  <2>6. CASE \E v \in Spare(lens) : q = <<v, INVALID>>
    <3>1. PICK v \in Spare(lens) : q = <<v, INVALID>>
      BY <2>6
    <3>2. w = v /\ code[w] = INVALID
      BY <2>1, <2>4, <3>1
    <3> QED
      BY <3>1, <3>2
  <2> QED
    BY <2>3, <2>4, <2>5, <2>6
<1> HIDE DEF code
<1> QED
  BY <1>1, <1>2, <1>3, <1>4

\* There are words for all codes of every length.
NeverOver(lens) == \A l \in 1 .. MAXBITS : Upto(lens, l) <= 2^l

\* A sequence of bits begins with a symbol's word where its number is the symbol's.
LEMMA BeginsWith ==
  ASSUME NEW D, Alphabet(D), NEW lens \in [D -> 0 .. MAXBITS],
         NeverOver(lens),
         NEW bits \in Seq(Bit), NEW val, Values(bits, val),
         NEW n \in 1 .. Len(bits), NEW s \in Coded(lens), SubSeq(bits, 1, n) = Word(lens, s)
  PROVE  n = lens[s] /\ val[n] = NumberOf(lens, s)
<1>s. IsFiniteSet(D) /\ D \subseteq Int
  BY DEF Alphabet
<1> USE <1>s
<1> DEFINE l == lens[s]
           m == NumberOf(lens, s)
           w == Word(lens, s)
<1>1. l \in 1 .. MAXBITS /\ m \in Nat /\ m < Upto(lens, l) /\ w = WordOf(l, m)
  BY SymbolWord
<1>2. Upto(lens, l) <= 2^l /\ Upto(lens, l) \in Nat /\ 2^l \in Nat /\ l \in Nat
  <2> HIDE DEF l
  <2>1. l \in Nat /\ Upto(lens, l) \in Nat
    <3>1. l \in Nat
      BY <1>1, CodeAssumption
    <3>2. \A k \in 1 .. MAXBITS : Upto(lens, k) \in Nat
      BY UptoIs
    <3> QED
      BY <1>1, <3>1, <3>2
  <2>2. 2^l \in Nat
    BY <2>1, PowerOf
  <2> QED
    BY <1>1, <2>1, <2>2 DEF NeverOver
<1> HIDE DEF l, m, w
<1>3. m < 2^l
  BY <1>1, <1>2
<1>4. w \in Seq(Bit) /\ Len(w) = l
  BY <1>1, <1>2, WordIsSeq
<1>5. n = l
  <2>1. Len(SubSeq(bits, 1, n)) = n
    OBVIOUS
  <2> QED
    BY <1>4, <2>1 DEF w
<1>6. \A i \in 1 .. l : bits[i] = w[i]
  <2>1. \A i \in 1 .. n : SubSeq(bits, 1, n)[i] = bits[i]
    OBVIOUS
  <2> QED
    BY <1>5, <2>1 DEF w
<1>7. PICK u : Values(w, u)
  BY <1>4, ValuesExist
<1>8. u[l] = m
  BY <1>1, <1>2, <1>3, <1>7, ValueOfWord
<1>9. val[l] = u[l]
  <2>1. Len(bits) \in Nat /\ Len(w) \in Nat /\ l <= Len(bits) /\ l <= Len(w)
    BY <1>2, <1>4, <1>5
  <2> QED
    BY <1>2, <1>6, <1>7, <2>1, SameValues
<1> QED
  BY <1>5, <1>8, <1>9 DEF l, m

\* A code with a word of a bit left over has the two words of a bit and no other.
LEMMA OneBitCode ==
  ASSUME NEW D, Alphabet(D), NEW lens \in [D -> 0 .. MAXBITS],
         NEW type, Accepted(type, lens), Longest(lens) = 0 \/ Left(lens)[MAXBITS] > 0
  PROVE  /\ DOMAIN CodeOf(lens) = {<<0>>, <<1>>}
         /\ \A s \in Coded(lens) : Word(lens, s) = <<0>> /\ CodeOf(lens)[<<0>>] = s
<1>s. IsFiniteSet(D) /\ D \subseteq Int
  BY DEF Alphabet
<1> USE <1>s
<1>1. DOMAIN lens = D /\ MAXBITS \in Nat /\ MAXBITS >= 1
  BY CodeAssumption
<1>2. /\ Longest(lens) \in 0 .. MAXBITS
      /\ Longest(lens) = 0 \/ CountOf(lens, Longest(lens)) # 0
      /\ \A k \in Longest(lens) + 1 .. MAXBITS : CountOf(lens, k) = 0
  BY LongestIs
<1>3. ASSUME NEW k \in 1 .. MAXBITS, CountOf(lens, k) = 0, NEW s \in D PROVE lens[s] # k
  <2> DEFINE S == {t \in D : lens[t] = k}
  <2>1. Cardinality(S) = 0
    BY <1>1, <1>3 DEF CountOf
  <2>2. S \in SUBSET D
    OBVIOUS
  <2>3. S = {}
    <3> HIDE DEF S
    <3> QED
      BY <2>1, <2>2, FS_Subset, FS_EmptySet
  <2> QED
    BY <2>3
<1>4. CASE Longest(lens) = 0
  <2>1. ASSUME NEW s \in Coded(lens) PROVE FALSE
    <3>1. s \in D /\ lens[s] \in 1 .. MAXBITS
      BY SymbolWord
    <3>2. CountOf(lens, lens[s]) = 0
      BY <1>2, <1>4, <3>1
    <3> QED
      BY <1>3, <3>1, <3>2
  <2>2. Spare(lens) = {<<0>>, <<1>>}
    BY <1>4 DEF Spare
  <2>3. DOMAIN CodeOf(lens) = {Word(lens, s) : s \in Coded(lens)} \cup Spare(lens)
    BY CodeWords
  <2> QED
    BY <2>1, <2>2, <2>3
<1>5. CASE Longest(lens) # 0
  <2>1. Left(lens)[MAXBITS] > 0 /\ Longest(lens) = 1 /\ \A l \in 1 .. MAXBITS : Left(lens)[l] >= 0
    BY <1>5 DEF Accepted
  <2>2. CountOf(lens, 1) # 0 /\ CountOf(lens, 1) \in Nat /\ \A k \in 1 .. MAXBITS : k # 1 => CountOf(lens, k) = 0
    <3>1. \A k \in 1 .. MAXBITS : k # 1 => k \in 1 + 1 .. MAXBITS
      OBVIOUS
    <3>2. CountOf(lens, 1) \in Nat
      BY CountType
    <3> QED
      BY <1>2, <2>1, <3>1, <3>2
  <2>3. /\ Left(lens) \in [0 .. MAXBITS -> Int] /\ Left(lens)[0] = 1
        /\ \A l \in 1 .. MAXBITS : Left(lens)[l] = 2 * Left(lens)[l - 1] - CountOf(lens, l)
    BY LeftEquations
  <2>4. Left(lens)[1] # 0
    <3> SUFFICES ASSUME Left(lens)[1] = 0 PROVE FALSE
      OBVIOUS
    <3> DEFINE T == {n \in Nat : n + 1 <= MAXBITS => Left(lens)[n + 1] = 0}
    <3>1. 0 \in T
      OBVIOUS
    <3>2. ASSUME NEW n \in T PROVE n + 1 \in T
      <4> SUFFICES ASSUME (n + 1) + 1 <= MAXBITS PROVE Left(lens)[(n + 1) + 1] = 0
        OBVIOUS
      <4> DEFINE l == (n + 1) + 1
      <4>1. l \in 1 .. MAXBITS /\ l # 1 /\ l - 1 = n + 1 /\ n + 1 <= MAXBITS /\ n \in Nat
        BY <1>1
      <4>2. Left(lens)[n + 1] = 0
        BY <4>1
      <4> HIDE DEF l
      <4>3. Left(lens)[l] = 2 * Left(lens)[l - 1] - CountOf(lens, l) /\ CountOf(lens, l) = 0
        BY <2>2, <2>3, <4>1
      <4>4. Left(lens)[l] = 0
        BY <4>1, <4>2, <4>3
      <4> QED
        BY <4>4 DEF l
    <3> HIDE DEF T
    <3>3. T \in SUBSET Nat
      BY DEF T
    <3>4. T = Nat
      BY <3>1, <3>2, <3>3, Counting
    <3> DEFINE n == MAXBITS - 1
    <3>5. n \in Nat /\ n + 1 = MAXBITS /\ n + 1 <= MAXBITS
      BY <1>1
    <3> HIDE DEF n
    <3>6. Left(lens)[n + 1] = 0
      BY <3>4, <3>5 DEF T
    <3> QED
      BY <2>1, <3>5, <3>6
  <2>5. CountOf(lens, 1) = 1
    <3>1. 1 \in 1 .. MAXBITS /\ 1 - 1 = 0
      BY <1>1
    <3>2. Left(lens)[1] = 2 - CountOf(lens, 1) /\ Left(lens)[1] >= 0
      BY <2>1, <2>3, <3>1
    <3> QED
      BY <2>2, <2>4, <3>2
  <2>6. \A s \in Coded(lens) : lens[s] = 1 /\ NumberOf(lens, s) = 0 /\ Word(lens, s) = <<0>>
    <3> SUFFICES ASSUME NEW s \in Coded(lens) PROVE lens[s] = 1 /\ NumberOf(lens, s) = 0 /\ Word(lens, s) = <<0>>
      OBVIOUS
    <3>1. /\ s \in D /\ lens[s] \in 1 .. MAXBITS /\ NumberOf(lens, s) \in Nat
          /\ NumberOf(lens, s) < Upto(lens, lens[s]) /\ Word(lens, s) = WordOf(lens[s], NumberOf(lens, s))
      BY SymbolWord
    <3>2. lens[s] = 1
      BY <1>3, <2>2, <3>1
    <3>3. Upto(lens, 1) = 1
      <4>1. FirstCode(lens)[1] = 0
        BY FirstEquations
      <4> QED
        BY <2>5, <4>1 DEF Upto
    <3>4. NumberOf(lens, s) = 0
      BY <3>1, <3>2, <3>3
    <3>5. WordOf(1, 0) = <<0>>
      <4>1. \A i \in 1 .. 1 : (0 \div 2^(1 - i)) % 2 = 0
        <5>1. \A i \in 1 .. 1 : 1 - i = 0
          OBVIOUS
        <5>2. (0 \div 1) % 2 = 0
          OBVIOUS
        <5> QED
          BY <5>1, <5>2, PowerZero
      <4>2. WordOf(1, 0) = [i \in 1 .. 1 |-> 0]
        BY <4>1 DEF WordOf
      <4> QED
        BY <4>2
    <3> QED
      BY <3>1, <3>2, <3>4, <3>5
  <2>7. \E s : s \in Coded(lens)
    <3> DEFINE S == {t \in D : lens[t] = 1}
    <3>1. Cardinality(S) = 1 /\ S \in SUBSET D
      BY <1>1, <2>5 DEF CountOf
    <3>2. S # {}
      <4> HIDE DEF S
      <4> QED
        BY <3>1, FS_EmptySet
    <3>3. PICK s \in S : TRUE
      BY <3>2
    <3>4. s \in Coded(lens)
      BY <1>1, <3>3 DEF Coded
    <3> QED
      BY <3>4
  <2>8. Spare(lens) = {<<1>>}
    BY <1>5, <2>1 DEF Spare
  <2>9. DOMAIN CodeOf(lens) = {<<0>>, <<1>>}
    <3>1. {Word(lens, s) : s \in Coded(lens)} = {<<0>>}
      BY <2>6, <2>7
    <3> QED
      BY <2>8, <3>1, CodeWords
  <2>10. ASSUME NEW s \in Coded(lens) PROVE CodeOf(lens)[<<0>>] = s
    <3>1. \A t \in Coded(lens) : t = s
      <4> SUFFICES ASSUME NEW t \in Coded(lens) PROVE t = s
        OBVIOUS
      <4> QED
        BY <2>6, NumbersDiffer
    <3>2. <<0>> # <<1>>
      OBVIOUS
    <3>3. <<0>> \in DOMAIN CodeOf(lens)
      BY <2>9
    <3>4. <<0>> \notin Spare(lens)
      BY <2>8, <3>2
    <3>5. \E t \in Coded(lens) : CodeOf(lens)[<<0>>] = t
      BY <3>3, <3>4, CodeWords
    <3> QED
      BY <3>1, <3>5
  <2> QED
    BY <2>6, <2>9, <2>10
<1> QED
  BY <1>4, <1>5

\* Every accepted list of lengths makes a code that reads: whatever bits come, by the time
\* there are as many as the longest code has, one word of the code begins them, and never
\* two (inflate_table's left, and the lookup loops of inflate that pull bits until a code is
\* at hand); and each symbol that has a code is what its own word stands for.
THEOREM CodesRead ==
  ASSUME NEW D, Alphabet(D), NEW lens \in [D -> 0 .. MAXBITS],
         NEW type, Accepted(type, lens)
  PROVE  /\ \A bits \in Seq(Bit) : Len(bits) >= MAXBITS => Leading(CodeOf(lens), bits) # {}
         /\ \A bits \in Seq(Bit) : \A u, v \in Leading(CodeOf(lens), bits) : u = v
         /\ \A w \in DOMAIN CodeOf(lens) :
              w \in Seq(Bit) /\ Len(w) \in 1 .. MAXBITS /\ CodeOf(lens)[w] \in D \cup {INVALID}
         /\ \A s \in Coded(lens) : Word(lens, s) \in DOMAIN CodeOf(lens) /\ CodeOf(lens)[Word(lens, s)] = s
<1>s. IsFiniteSet(D) /\ D \subseteq Int
  BY DEF Alphabet
<1> USE <1>s
<1> DEFINE code == CodeOf(lens)
           most(bits) == IF Len(bits) < MAXBITS THEN Len(bits) ELSE MAXBITS
<1>1. DOMAIN lens = D /\ MAXBITS \in Nat /\ MAXBITS >= 1
  BY CodeAssumption
<1>2. ASSUME NEW bits \in Seq(Bit)
      PROVE  /\ \A u \in Leading(code, bits) :
                  u \in DOMAIN code /\ \E n \in 1 .. Len(bits) : n <= MAXBITS /\ u = SubSeq(bits, 1, n)
             /\ \A n \in 1 .. Len(bits) : n <= MAXBITS /\ SubSeq(bits, 1, n) \in DOMAIN code => Leading(code, bits) # {}
  <2>1. \A n \in 1 .. most(bits) : n \in 1 .. Len(bits) /\ n <= MAXBITS
    BY <1>1
  <2>2. \A n \in 1 .. Len(bits) : n <= MAXBITS => n \in 1 .. most(bits)
    BY <1>1
  <2>3. Leading(code, bits) = {SubSeq(bits, 1, n) : n \in 1 .. most(bits)} \cap DOMAIN code
    BY DEF Leading
  <2> HIDE DEF code, most
  <2> QED
    BY <2>1, <2>2, <2>3
<1>3. ASSUME NEW w \in DOMAIN code
      PROVE  \/ \E s \in Coded(lens) : w = Word(lens, s) /\ code[w] = s
             \/ w \in Spare(lens) /\ code[w] = INVALID
  BY CodeWords
<1>4. ASSUME NEW s \in Coded(lens)
      PROVE  Word(lens, s) \in Seq(Bit) /\ Len(Word(lens, s)) \in 1 .. MAXBITS /\ s \in D
  <2>1. s \in D /\ lens[s] \in 1 .. MAXBITS /\ NumberOf(lens, s) \in Nat /\ Word(lens, s) = WordOf(lens[s], NumberOf(lens, s))
    BY SymbolWord
  <2>2. lens[s] \in Nat
    BY <1>1, <2>1
  <2> QED
    BY <2>1, <2>2, WordIsSeq
<1>5. \A w \in Spare(lens) : w \in Seq(Bit) /\ Len(w) = 1
  <2>1. 0 \in Bit /\ 1 \in Bit
    BY DEF Bit
  <2>2. \A b \in Bit : <<b>> \in Seq(Bit) /\ Len(<<b>>) = 1
    OBVIOUS
  <2>3. \A w \in Spare(lens) : w = <<0>> \/ w = <<1>>
    BY DEF Spare
  <2> QED
    BY <2>1, <2>2, <2>3
<1>9. \A s \in Coded(lens) : Word(lens, s) \in DOMAIN code
  <2>1. DOMAIN code = {Word(lens, s) : s \in Coded(lens)} \cup Spare(lens)
    BY CodeWords
  <2> HIDE DEF code
  <2> QED
    BY <2>1
<1>6. ASSUME NEW w \in DOMAIN code
      PROVE  w \in Seq(Bit) /\ Len(w) \in 1 .. MAXBITS /\ code[w] \in D \cup {INVALID}
  <2>1. CASE \E s \in Coded(lens) : w = Word(lens, s) /\ code[w] = s
    <3> HIDE DEF code
    <3> QED
      BY <1>4, <2>1
  <2>2. CASE w \in Spare(lens) /\ code[w] = INVALID
    <3>1. w \in Seq(Bit) /\ Len(w) = 1
      BY <1>5, <2>2
    <3>2. 1 \in 1 .. MAXBITS
      BY <1>1
    <3> HIDE DEF code
    <3> QED
      BY <2>2, <3>1, <3>2
  <2> QED
    BY <1>3, <2>1, <2>2
<1>7. CASE Longest(lens) = 0 \/ Left(lens)[MAXBITS] > 0
  <2>1. /\ DOMAIN code = {<<0>>, <<1>>}
        /\ \A s \in Coded(lens) : Word(lens, s) = <<0>> /\ code[<<0>>] = s
    BY <1>7, OneBitCode
  <2> HIDE DEF code
  <2>2. ASSUME NEW bits \in Seq(Bit), Len(bits) >= MAXBITS PROVE Leading(code, bits) # {}
    <3>1. 1 \in 1 .. Len(bits) /\ bits[1] \in {0, 1}
      BY <1>1, <2>2 DEF Bit
    <3>2. SubSeq(bits, 1, 1) = <<bits[1]>>
      <4>1. SubSeq(bits, 1, 1) = [i \in 1 .. 1 |-> bits[1]]
        BY <3>1
      <4>2. \A b : <<b>> = [i \in 1 .. 1 |-> b]
        OBVIOUS
      <4> QED
        BY <4>1, <4>2
    <3>3. SubSeq(bits, 1, 1) \in DOMAIN code
      BY <2>1, <3>1, <3>2
    <3> QED
      BY <1>1, <1>2, <3>1, <3>3
  <2>3. ASSUME NEW bits \in Seq(Bit), NEW u \in Leading(code, bits), NEW v \in Leading(code, bits) PROVE u = v
    <3>1. PICK m \in 1 .. Len(bits) : u = SubSeq(bits, 1, m)
      BY <1>2
    <3>2. PICK n \in 1 .. Len(bits) : v = SubSeq(bits, 1, n)
      BY <1>2
    <3>3. u \in {<<0>>, <<1>>} /\ v \in {<<0>>, <<1>>}
      BY <1>2, <2>1
    <3>4. Len(u) = m /\ Len(v) = n
      BY <3>1, <3>2
    <3>5. Len(u) = 1 /\ Len(v) = 1
      BY <3>3
    <3> QED
      BY <3>1, <3>2, <3>4, <3>5
  <2>4. \A s \in Coded(lens) : Word(lens, s) \in DOMAIN code /\ code[Word(lens, s)] = s
    BY <2>1
  <2> QED
    BY <1>6, <2>2, <2>3, <2>4 DEF code
<1>8. CASE Longest(lens) # 0 /\ ~(Left(lens)[MAXBITS] > 0)
  <2>1. Spare(lens) = {}
    BY <1>8 DEF Spare
  <2>2. ASSUME NEW l \in 1 .. MAXBITS PROVE /\ Upto(lens, l) <= 2^l /\ Upto(lens, l) \in Nat /\ FirstCode(lens)[l] \in Nat
                                            /\ FirstCode(lens)[l] <= Upto(lens, l)
    <3>1. Left(lens)[l] >= 0 /\ Left(lens)[l] = 2^l - Upto(lens, l) /\ Upto(lens, l) \in Nat /\ FirstCode(lens)[l] \in Nat
          /\ FirstCode(lens)[l] <= Upto(lens, l)
      BY <1>8, UptoIs DEF Accepted
    <3>2. l \in Nat
      BY <1>1
    <3>3. 2^l \in Nat
      BY <3>2, PowerOf
    <3> QED
      BY <3>1, <3>3
  <2>3. Upto(lens, MAXBITS) = 2^MAXBITS /\ MAXBITS \in 1 .. MAXBITS
    <3>0. MAXBITS \in 1 .. MAXBITS
      BY <1>1
    <3>1. Left(lens)[MAXBITS] >= 0 /\ Left(lens)[MAXBITS] = 2^MAXBITS - Upto(lens, MAXBITS)
      BY <1>8, <3>0, UptoIs DEF Accepted
    <3>2. 2^MAXBITS \in Nat /\ Upto(lens, MAXBITS) \in Nat
      BY <1>1, <2>2, <3>0, PowerOf
    <3> DEFINE p == 2^MAXBITS
               q == Upto(lens, MAXBITS)
               r == Left(lens)[MAXBITS]
    <3>3. r >= 0 /\ ~(r > 0) /\ r = p - q /\ p \in Nat /\ q \in Nat
      BY <1>8, <3>1, <3>2
    <3> HIDE DEF p, q, r
    <3>4. q = p
      BY <3>3
    <3> QED
      BY <3>0, <3>4 DEF p, q
  <2> HIDE DEF code
  <2>4. ASSUME NEW bits \in Seq(Bit), Len(bits) >= MAXBITS PROVE Leading(code, bits) # {}
    <3>1. PICK val : Values(bits, val)
      BY ValuesExist
    <3>2. MAXBITS \in 0 .. Len(bits)
      BY <1>1, <2>4
    <3>3. val[MAXBITS] < Upto(lens, MAXBITS)
      BY <2>3, <3>1, <3>2, ValueBound
    <3>4. PICK l \in 1 .. MAXBITS : l <= Len(bits) /\ FirstCode(lens)[l] <= val[l] /\ val[l] < Upto(lens, l)
      BY <2>3, <2>4, <3>1, <3>3, CoveredAt
    <3>5. l \in 1 .. Len(bits) /\ l \in 0 .. Len(bits) /\ l <= MAXBITS
      BY <1>1, <3>4
    <3>6. val[l] \in Nat
      BY <3>1, <3>5, ValueBound
    <3>7. PICK s \in Coded(lens) : lens[s] = l /\ NumberOf(lens, s) = val[l]
      <4> DEFINE v == val[l]
      <4>1. v \in Nat /\ FirstCode(lens)[l] <= v /\ v < Upto(lens, l)
        BY <3>4, <3>6
      <4> HIDE DEF v
      <4>2. \E s \in Coded(lens) : lens[s] = l /\ NumberOf(lens, s) = v
        BY <4>1, SymbolOfNumber
      <4> QED
        BY <4>2 DEF v
    <3>8. Word(lens, s) = WordOf(l, val[l])
      BY <3>7, SymbolWord
    <3>9. Word(lens, s) = SubSeq(bits, 1, l)
      BY <3>1, <3>5, <3>8, WordOfValue
    <3>10. Word(lens, s) \in DOMAIN code
      BY <1>9
    <3> QED
      BY <1>2, <3>5, <3>9, <3>10
  <2>5. ASSUME NEW bits \in Seq(Bit), NEW val, Values(bits, val), NEW u \in Leading(code, bits)
        PROVE  \E n \in 1 .. Len(bits) : /\ n \in 1 .. MAXBITS /\ u = SubSeq(bits, 1, n)
                                         /\ FirstCode(lens)[n] <= val[n] /\ val[n] < Upto(lens, n)
    <3>1. u \in DOMAIN code /\ \E n \in 1 .. Len(bits) : n <= MAXBITS /\ u = SubSeq(bits, 1, n)
      BY <1>2
    <3>2. PICK n \in 1 .. Len(bits) : n <= MAXBITS /\ u = SubSeq(bits, 1, n)
      BY <3>1
    <3>3. PICK s \in Coded(lens) : u = Word(lens, s)
      BY <1>3, <2>1, <3>1
    <3>4. n = lens[s] /\ val[n] = NumberOf(lens, s)
      <4>1. NeverOver(lens)
        BY <2>2 DEF NeverOver
      <4>2. SubSeq(bits, 1, n) = Word(lens, s)
        BY <3>2, <3>3
      <4> QED
        BY <2>5, <4>1, <4>2, BeginsWith, SMTT(20)
    <3>5. /\ lens[s] \in 1 .. MAXBITS
          /\ FirstCode(lens)[lens[s]] <= NumberOf(lens, s) /\ NumberOf(lens, s) < Upto(lens, lens[s])
      BY SymbolWord
    <3> QED
      BY <3>2, <3>4, <3>5
  <2>6. ASSUME NEW bits \in Seq(Bit), NEW u \in Leading(code, bits), NEW v \in Leading(code, bits) PROVE u = v
    <3>1. PICK val : Values(bits, val)
      BY ValuesExist
    <3>2. PICK m \in 1 .. Len(bits) : /\ m \in 1 .. MAXBITS /\ u = SubSeq(bits, 1, m)
                                      /\ FirstCode(lens)[m] <= val[m] /\ val[m] < Upto(lens, m)
      BY <2>5, <3>1
    <3>3. PICK n \in 1 .. Len(bits) : /\ n \in 1 .. MAXBITS /\ v = SubSeq(bits, 1, n)
                                      /\ FirstCode(lens)[n] <= val[n] /\ val[n] < Upto(lens, n)
      BY <2>5, <3>1
    <3>4. val[m] \in Nat /\ val[n] \in Nat /\ m \in Nat /\ n \in Nat /\ m <= Len(bits) /\ n <= Len(bits)
      <4>1. m \in 0 .. Len(bits) /\ n \in 0 .. Len(bits)
        OBVIOUS
      <4> QED
        BY <3>1, <4>1, ValueBound
    <3>5. ~(m < n)
      <4> SUFFICES ASSUME m < n PROVE FALSE
        OBVIOUS
      <4>1. val[n] < FirstCode(lens)[n]
        BY <3>1, <3>2, <3>3, <3>4, CoveredOn
      <4> QED
        BY <2>2, <3>3, <3>4, <4>1
    <3>6. ~(n < m)
      <4> SUFFICES ASSUME n < m PROVE FALSE
        OBVIOUS
      <4>1. val[m] < FirstCode(lens)[m]
        BY <3>1, <3>2, <3>3, <3>4, CoveredOn
      <4> QED
        BY <2>2, <3>2, <3>4, <4>1
    <3>7. m = n
      BY <3>4, <3>5, <3>6
    <3> QED
      BY <3>2, <3>3, <3>7
  <2>7. ASSUME NEW s \in Coded(lens) PROVE Word(lens, s) \in DOMAIN code /\ code[Word(lens, s)] = s
    <3> DEFINE w == Word(lens, s)
    <3>1. w \in DOMAIN code
      BY <1>9
    <3>2. PICK t \in Coded(lens) : w = Word(lens, t) /\ code[w] = t
      <4> HIDE DEF w
      <4> QED
        BY <1>3, <2>1, <3>1
    <3>3. t = s
      <4>1. /\ lens[s] \in 1 .. MAXBITS /\ NumberOf(lens, s) \in Nat /\ NumberOf(lens, s) < Upto(lens, lens[s])
            /\ w = WordOf(lens[s], NumberOf(lens, s))
        BY SymbolWord
      <4> HIDE DEF w
      <4>2. w \in Seq(Bit) /\ Len(w) = lens[s] /\ lens[s] \in Nat
        BY <1>1, <4>1, WordIsSeq
      <4>3. PICK val : Values(w, val)
        BY <4>2, ValuesExist
      <4> DEFINE n == Len(w)
      <4>4. n \in 1 .. Len(w) /\ SubSeq(w, 1, n) = w
        BY <1>1, <4>1, <4>2
      <4> HIDE DEF n
      <4>5. NeverOver(lens)
        BY <2>2 DEF NeverOver
      <4>6. SubSeq(w, 1, n) = Word(lens, s) /\ SubSeq(w, 1, n) = Word(lens, t)
        BY <3>2, <4>4 DEF w
      <4>7. n = lens[s] /\ val[n] = NumberOf(lens, s)
        BY <4>2, <4>3, <4>4, <4>5, <4>6, BeginsWith
      <4>8. n = lens[t] /\ val[n] = NumberOf(lens, t)
        BY <4>2, <4>3, <4>4, <4>5, <4>6, BeginsWith
      <4>9. lens[s] = lens[t] /\ NumberOf(lens, s) = NumberOf(lens, t)
        BY <4>7, <4>8
      <4> QED
        BY <4>9, NumbersDiffer
    <3> QED
      BY <3>1, <3>2, <3>3
  <2> QED
    BY <1>6, <2>4, <2>6, <2>7 DEF code
<1> QED
  BY <1>7, <1>8

\* A part of a sequence.
LEMMA PartOf ==
  ASSUME NEW S, NEW s \in Seq(S), NEW m \in Nat \ {0}, NEW n \in 0 .. Len(s)
  PROVE  /\ SubSeq(s, m, n) \in Seq(S)
         /\ Len(SubSeq(s, m, n)) = IF m <= n THEN n - m + 1 ELSE 0
         /\ \A i \in 1 .. n - m + 1 : SubSeq(s, m, n)[i] = s[m + i - 1]
<1>1. m \in Int /\ n \in Int /\ Len(s) \in Nat
  BY LenProperties
<1>2. \A i \in m .. n : s[i] \in S
  <2> SUFFICES ASSUME NEW i \in m .. n PROVE s[i] \in S
    OBVIOUS
  <2>1. i \in 1 .. Len(s)
    BY <1>1
  <2> QED
    BY <2>1, ElementOfSeq
<1> QED
  BY <1>1, <1>2, SubSeqProperties

-----------------------------------------------------------------------------
(* Numbers made of bits, and bits of numbers.                              *)

\* Running sums of a sequence of numbers.
AddStep(b, n, c) == [i \in 0 .. n |-> IF i = 0 THEN 0 ELSE c[i - 1] + b[i]]

\* There are such sums.
LEMMA RunningSums ==
  ASSUME NEW n \in Nat, NEW b \in [1 .. n -> Nat]
  PROVE  /\ \E c : c = AddStep(b, n, c)
         /\ \A c : c = AddStep(b, n, c) =>
              c \in [0 .. n -> Nat] /\ c[0] = 0 /\ \A i \in 1 .. n : c[i] = c[i - 1] + b[i]
<1> DEFINE term(i) == IF i \in 1 .. n THEN b[i] ELSE 0
           a == [p \in Nat \X Nat |-> p[2] + term(p[1])]
<1>1. \A i : term(i) \in Nat
  OBVIOUS
<1>0. \A i \in 1 .. n : term(i) = b[i]
  OBVIOUS
<1> HIDE DEF term
<1>2. a \in [Nat \X Nat -> Nat]
  BY <1>1
<1>3. \A i \in Nat, x \in Nat : a[<<i, x>>] = x + term(i)
  OBVIOUS
<1> HIDE DEF a
<1>4. PICK f \in [0 .. n -> Nat] : Recurs(f, 0, a, n)
  <2>1. 0 \in Nat
    OBVIOUS
  <2> QED
    BY <1>2, <2>1, Recursion
<1>5. f = AddStep(b, n, f)
  <2>1. ASSUME NEW i \in 0 .. n, i # 0 PROVE a[<<i, f[i - 1]>>] = f[i - 1] + b[i]
    <3>1. i \in Nat /\ i \in 1 .. n /\ i - 1 \in 0 .. n
      BY <2>1
    <3>2. f[i - 1] \in Nat
      BY <3>1
    <3> QED
      BY <1>0, <1>3, <3>1, <3>2
  <2> QED
    BY <1>4, <2>1 DEF Recurs, AddStep
<1>6. ASSUME NEW c, c = AddStep(b, n, c)
      PROVE  c \in [0 .. n -> Nat] /\ c[0] = 0 /\ \A i \in 1 .. n : c[i] = c[i - 1] + b[i]
  <2>1. \A i \in 0 .. n : c[i] = IF i = 0 THEN 0 ELSE c[i - 1] + b[i]
    BY <1>6 DEF AddStep
  <2>2. c = [i \in 0 .. n |-> c[i]]
    BY <1>6 DEF AddStep
  <2>3. 0 \in 0 .. n /\ \A i \in 1 .. n : i \in 0 .. n /\ i # 0
    OBVIOUS
  <2>4. c[0] = 0 /\ \A i \in 1 .. n : c[i] = c[i - 1] + b[i]
    BY <2>1, <2>3
  <2> DEFINE T == {i \in Nat : i <= n => c[i] \in Nat}
  <2>5. 0 \in T
    BY <2>4
  <2>6. ASSUME NEW i \in T PROVE i + 1 \in T
    <3> SUFFICES ASSUME i + 1 <= n PROVE c[i + 1] \in Nat
      OBVIOUS
    <3>1. i \in Nat /\ i <= n /\ i + 1 \in 1 .. n /\ (i + 1) - 1 = i
      OBVIOUS
    <3>2. c[i] \in Nat /\ b[i + 1] \in Nat
      BY <3>1
    <3>3. c[i + 1] = c[i] + b[i + 1]
      BY <2>4, <3>1
    <3> QED
      BY <3>2, <3>3
  <2> HIDE DEF T
  <2>7. T \in SUBSET Nat
    BY DEF T
  <2>8. T = Nat
    BY <2>5, <2>6, <2>7, Counting
  <2>9. \A i \in 0 .. n : i \in Nat /\ i <= n
    OBVIOUS
  <2>10. \A i \in 0 .. n : c[i] \in Nat
    BY <2>8, <2>9 DEF T
  <2> QED
    BY <2>2, <2>4, <2>10
<1> QED
  BY <1>5, <1>6

\* Num, one bit on.
NumStep(bits, c) == [i \in 0 .. Len(bits) |-> IF i = 0 THEN 0 ELSE c[i - 1] + bits[i] * 2^(i - 1)]

\* A number of n bits is below 2^n.
LEMMA NumBound ==
  ASSUME NEW bits \in Seq(Bit)
  PROVE  Num(bits) \in Nat /\ Num(bits) < 2^Len(bits)
<1> DEFINE n == Len(bits)
           b == [i \in 1 .. n |-> bits[i] * 2^(i - 1)]
<1>1. n \in Nat /\ \A i \in 1 .. n : bits[i] \in {0, 1}
  BY DEF Bit
<1>2. \A i \in 1 .. n : 2^(i - 1) \in Nat /\ bits[i] * 2^(i - 1) \in Nat /\ bits[i] * 2^(i - 1) <= 2^(i - 1)
  <2> SUFFICES ASSUME NEW i \in 1 .. n
               PROVE  2^(i - 1) \in Nat /\ bits[i] * 2^(i - 1) \in Nat /\ bits[i] * 2^(i - 1) <= 2^(i - 1)
    OBVIOUS
  <2>1. i - 1 \in Nat
    BY <1>1
  <2>2. 2^(i - 1) \in Nat
    BY <2>1, PowerOf
  <2> DEFINE p == 2^(i - 1)
  <2>3. bits[i] \in {0, 1} /\ p \in Nat
    BY <1>1, <2>2
  <2> HIDE DEF p
  <2>4. bits[i] * p \in Nat /\ bits[i] * p <= p
    BY <2>3
  <2> QED
    BY <2>2, <2>4 DEF p
<1>3. b \in [1 .. n -> Nat]
  BY <1>2
<1>4. \A c : NumStep(bits, c) = AddStep(b, n, c)
  <2> SUFFICES ASSUME NEW c PROVE NumStep(bits, c) = AddStep(b, n, c)
    OBVIOUS
  <2>1. \A i \in 0 .. n : i # 0 => i \in 1 .. n
    BY <1>1
  <2>2. \A i \in 1 .. n : b[i] = bits[i] * 2^(i - 1)
    OBVIOUS
  <2> HIDE DEF b
  <2> QED
    BY <2>1, <2>2 DEF NumStep, AddStep
<1> DEFINE g == CHOOSE c : c = NumStep(bits, c)
<1>5. Num(bits) = g[n]
  BY DEF Num, NumStep
<1>i. \A i \in 1 .. n : b[i] = bits[i] * 2^(i - 1)
  OBVIOUS
<1> HIDE DEF b
<1>6. g = NumStep(bits, g)
  <2>1. PICK c : c = AddStep(b, n, c)
    <3> HIDE DEF n
    <3> QED
      BY <1>1, <1>3, RunningSums
  <2>2. c = NumStep(bits, c)
    BY <1>4, <2>1
  <2> QED
    BY <2>2
<1> HIDE DEF g
<1>7. g = AddStep(b, n, g)
  BY <1>4, <1>6
<1>8. g \in [0 .. n -> Nat] /\ g[0] = 0 /\ \A i \in 1 .. n : g[i] = g[i - 1] + b[i]
  <2> HIDE DEF n
  <2> QED
    BY <1>1, <1>3, <1>7, RunningSums
<1> HIDE DEF n
<1> DEFINE T == {i \in Nat : i <= n => g[i] < 2^i}
<1>9. 0 \in T
  BY <1>8, PowerZero
<1>10. ASSUME NEW i \in T PROVE i + 1 \in T
  <2> SUFFICES ASSUME i + 1 <= n PROVE g[i + 1] < 2^(i + 1)
    OBVIOUS
  <2>1. i \in Nat /\ i <= n /\ i \in 0 .. n /\ i + 1 \in 1 .. n /\ (i + 1) - 1 = i
    BY <1>1
  <2>2. g[i] < 2^i /\ g[i] \in Nat
    BY <1>8, <2>1
  <2>3. 2^i \in Nat /\ 2^(i + 1) = 2 * 2^i
    BY <2>1, PowerOf, PowerDoubles
  <2>4. b[i + 1] <= 2^i /\ b[i + 1] \in Nat
    <3>1. b[i + 1] = bits[i + 1] * 2^((i + 1) - 1)
      BY <1>i, <2>1
    <3>2. bits[i + 1] * 2^((i + 1) - 1) <= 2^((i + 1) - 1) /\ bits[i + 1] * 2^((i + 1) - 1) \in Nat
      BY <1>2, <2>1
    <3> QED
      BY <2>1, <3>1, <3>2
  <2>5. g[i + 1] = g[i] + b[i + 1]
    BY <1>8, <2>1
  <2> QED
    BY <2>2, <2>3, <2>4, <2>5
<1> HIDE DEF T
<1>11. T \in SUBSET Nat
  BY DEF T
<1>12. T = Nat
  BY <1>9, <1>10, <1>11, Counting
<1>13. n \in 0 .. n /\ n <= n
  BY <1>1
<1>14. g[n] \in Nat /\ g[n] < 2^n
  BY <1>1, <1>8, <1>12, <1>13 DEF T
<1> QED
  BY <1>5, <1>14 DEF n

\* The bits of a number.
LEMMA BitsOfNumber ==
  ASSUME NEW n \in Nat, NEW x \in Nat
  PROVE  BitsOf(n, x) \in Seq(Bit) /\ Len(BitsOf(n, x)) = n
<1>1. ASSUME NEW i \in 1 .. n PROVE (IF i > 31 THEN 0 ELSE (x \div 2^(i - 1)) % 2) \in Bit
  <2>1. i - 1 \in Nat
    OBVIOUS
  <2>2. 2^(i - 1) \in Nat \ {0}
    BY <2>1, PowerPositive
  <2>3. x \div 2^(i - 1) \in Nat
    BY <2>2, DividedBy
  <2>4. PICK p \in Nat, r \in {0, 1} : (x \div 2^(i - 1)) % 2 = r
    BY <2>3, HalfOf
  <2> QED
    BY <2>4 DEF Bit
<1> QED
  BY <1>1 DEF BitsOf
=============================================================================
