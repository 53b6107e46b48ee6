---------------------------- MODULE Reader_proofs ----------------------------
(***************************************************************************)
(* The desktop reader: the decoding table that inflate_table builds from a *)
(* list of code lengths, the search for the sync marker with the table it  *)
(* goes on by after a mismatch, and the reader that both are parts of.     *)
(*                                                                         *)
(* The decoding table, for every list of lengths, every MAXBITS and every  *)
(* width of the root.  The codes are entered in the order of their         *)
(* numbers, so what is filled in the table in hand is always a front: the  *)
(* places, bits reversed, of all numbers below the code's (Front, Filled,  *)
(* Entered).  A code's places are free and carry the front on              *)
(* (PlacesFree), a new sub-table starts where the last one ends            *)
(* (SplitsRoot, SplitsAgain) and is wide enough for all codes that share   *)
(* its prefix (WidthIs, NotBeyond), and the numbers below the code are     *)
(* those of the inputs that are read already (ReadsBelow, CodeEntered).    *)
(* These are the parts of the inductive invariant TableInv.                *)
(*                                                                         *)
(* The search, for every needle and every haystack.  An entry of its table *)
(* is the longest border of the needle's beginning that the mismatch does  *)
(* not rule out (TableRight), and what lies between two positions of the   *)
(* needle cannot hold an occurrence (Matching).                            *)
(*                                                                         *)
(* The reader, for every set of files and whatever is done with them.  It  *)
(* is within its file, in a state that goes with that of the search        *)
(* (PlaceInv), so the search's invariant is one of the application, and    *)
(* each step of reading is of one of five kinds (ReadKinds).  Where a      *)
(* record lies undamaged it sees what was written (RecordSeen), so in step *)
(* with the records it stays there; in a file that nobody has damaged it   *)
(* is always behind one of the first records, with the lines of these made *)
(* and their data inflated (OnTheWay).                                     *)
(***************************************************************************)
EXTENDS HuffmanTable, ReaderApp, HuffmanCode_lemmas, TLAPS

-----------------------------------------------------------------------------
(* Products and quotients.                                                 *)

\* Multiplying keeps the order.
LEMMA TimesKeepsOrder ==
  ASSUME NEW a \in Nat, NEW x \in Int, NEW y \in Int, x <= y
  PROVE  a * x <= a * y
<1> DEFINE e == y - x
<1>1. e \in Nat /\ y = x + e
  OBVIOUS
<1> HIDE DEF e
<1>2. a * e \in Nat /\ a * (x + e) = a * x + a * e
  BY <1>1
<1>3. a * x \in Int
  OBVIOUS
<1> QED
  BY <1>1, <1>2, <1>3

\* Quotient and remainder.
LEMMA Divided ==
  ASSUME NEW m \in Nat \ {0}, NEW q \in Nat, NEW r \in Nat, r < m
  PROVE  (m * q + r) \div m = q /\ (m * q + r) % m = r
<1>1. m * q \in Nat
  OBVIOUS
<1> DEFINE x == m * q + r
<1>2. x \in Nat /\ m * q <= x /\ x < m * q + m
  BY <1>1
<1>3. x \div m = q
  <2> HIDE DEF x
  <2> QED BY <1>2, Quotient
<1>4. x % m = x - m * (x \div m)
  <2> HIDE DEF x
  <2> QED BY <1>2
<1> QED
  BY <1>1, <1>3, <1>4

\* Every number is quotient and remainder.
LEMMA Division ==
  ASSUME NEW x \in Nat, NEW m \in Nat \ {0}
  PROVE  /\ x \div m \in Nat /\ x % m \in Nat /\ x % m < m
         /\ x = m * (x \div m) + (x % m)
<1>1. x \div m \in Nat
  BY DividedBy
<1>2. (x % m) \in 0 .. m - 1 /\ (x % m) = x - m * (x \div m)
  OBVIOUS
<1>3. m * (x \div m) \in Nat
  BY <1>1
<1> QED
  BY <1>1, <1>2, <1>3

\* Powers of two multiply.
LEMMA PowerAdds == \A a, b \in Nat : 2^(a + b) = 2^a * 2^b
<1> SUFFICES ASSUME NEW a \in Nat PROVE \A b \in Nat : 2^(a + b) = 2^a * 2^b
  OBVIOUS
<1> DEFINE T == {b \in Nat : 2^(a + b) = 2^a * 2^b}
<1>0. 2^a \in Nat
  BY PowerPositive
<1>1. 0 \in T
  <2>1. a + 0 = a
    OBVIOUS
  <2> QED
    BY <1>0, <2>1, PowerZero
<1>2. ASSUME NEW b \in T PROVE b + 1 \in T
  <2>1. b \in Nat /\ 2^(a + b) = 2^a * 2^b
    OBVIOUS
  <2>2. a + (b + 1) = (a + b) + 1 /\ a + b \in Nat
    BY <2>1
  <2>3. 2^((a + b) + 1) = 2 * 2^(a + b) /\ 2^(b + 1) = 2 * 2^b /\ 2^b \in Nat
    BY <2>1, <2>2, PowerDoubles, PowerPositive
  <2> DEFINE p == 2^a
             q == 2^b
  <2>4. p \in Nat /\ q \in Nat
    BY <1>0, <2>3
  <2> HIDE DEF p, q
  <2>5. 2 * (p * q) = p * (2 * q)
    BY <2>4
  <2>6. 2^(a + (b + 1)) = 2^a * 2^(b + 1)
    BY <2>1, <2>2, <2>3, <2>5 DEF p, q
  <2> QED
    BY <2>1, <2>6
<1> HIDE DEF T
<1>3. T \in SUBSET Nat
  BY DEF T
<1>4. T = Nat
  BY <1>1, <1>2, <1>3, Counting
<1> QED
  BY <1>4 DEF T

\* Two powers and their product.
LEMMA PowersOf ==
  ASSUME NEW a \in Nat, NEW b \in Nat
  PROVE  /\ 2^a \in Nat /\ 2^a > 0 /\ 2^b \in Nat /\ 2^b > 0
         /\ 2^(a + b) = 2^a * 2^b
<1>1. 2^a \in Nat /\ 2^a > 0 /\ 2^b \in Nat /\ 2^b > 0
  BY PowerPositive
<1>2. 2^(a + b) = 2^a * 2^b
  BY PowerAdds
<1> QED
  BY <1>1, <1>2

\* Dividing twice is dividing by the product.
LEMMA DividedAgain ==
  ASSUME NEW x \in Nat, NEW a \in Nat \ {0}, NEW b \in Nat \ {0}
  PROVE  x \div (a * b) = (x \div a) \div b
<1> DEFINE q == x \div a
           p == q \div b
<1>1. q \in Nat /\ a * q <= x /\ x < a * q + a
  BY DividedBy
<1>2. p \in Nat /\ b * p <= q /\ q < b * p + b
  <2> HIDE DEF q
  <2> QED BY <1>1, DividedBy
<1> HIDE DEF p, q
<1>3. a * b \in Nat \ {0} /\ a * (b * p) = (a * b) * p
  BY <1>2
<1>4. a * (b * p) <= a * q
  BY <1>1, <1>2, TimesKeepsOrder
<1>5. a * (q + 1) <= a * (b * p + b)
  <2>1. q + 1 \in Int /\ b * p + b \in Int /\ q + 1 <= b * p + b
    BY <1>1, <1>2
  <2> QED BY <2>1, TimesKeepsOrder
<1>6. a * (q + 1) = a * q + a /\ a * (b * p + b) = (a * b) * p + a * b
  BY <1>1, <1>2
<1>7. a * q \in Nat /\ (a * b) * p \in Nat
  BY <1>1, <1>2, <1>3
<1>8. (a * b) * p <= x /\ x < (a * b) * p + a * b
  BY <1>1, <1>3, <1>4, <1>5, <1>6, <1>7
<1>9. x \div (a * b) = p
  <2> DEFINE m == a * b
  <2>1. m \in Nat \ {0} /\ m * p <= x /\ x < m * p + m
    BY <1>3, <1>8
  <2> HIDE DEF m
  <2>2. x \div m = p
    BY <1>2, <2>1, Quotient
  <2> QED BY <2>2 DEF m
<1> QED
  BY <1>9 DEF p, q

-----------------------------------------------------------------------------
(* Numbers read backwards.                                                 *)

\* A number of n bits with its bits in the opposite order.
Reversed(n, y) == Num(WordOf(n, y))

\* The running numbers of a sequence of bits, the first bit being the lowest.
Sums(bits, c) == /\ c \in [0 .. Len(bits) -> Nat] /\ c[0] = 0
                 /\ \A k \in 1 .. Len(bits) : c[k] = c[k - 1] + bits[k] * 2^(k - 1)

\* Num by its recursion.
LEMMA NumEquations ==
  ASSUME NEW bits \in Seq(Bit)
  PROVE  \E c : Sums(bits, c) /\ Num(bits) = c[Len(bits)]
<1> DEFINE n == Len(bits)
           b == [k \in 1 .. n |-> bits[k] * 2^(k - 1)]
<1>1. n \in Nat /\ \A k \in 1 .. n : bits[k] \in {0, 1}
  BY DEF Bit
<1>2. \A k \in 1 .. n : bits[k] * 2^(k - 1) \in Nat
  <2> SUFFICES ASSUME NEW k \in 1 .. n PROVE bits[k] * 2^(k - 1) \in Nat
    OBVIOUS
  <2>1. k - 1 \in Nat
    BY <1>1
  <2> DEFINE p == 2^(k - 1)
  <2>2. p \in Nat /\ bits[k] \in {0, 1}
    BY <1>1, <2>1, PowerPositive
  <2> HIDE DEF p
  <2>3. bits[k] * p \in Nat
    BY <2>2
  <2> QED BY <2>3 DEF p
<1>3. b \in [1 .. n -> Nat] /\ \A k \in 1 .. n : b[k] = bits[k] * 2^(k - 1)
  BY <1>2
<1>4. \A c : NumStep(bits, c) = AddStep(b, n, c)
  <2> SUFFICES ASSUME NEW c PROVE NumStep(bits, c) = AddStep(b, n, c)
    OBVIOUS
  <2>1. \A k \in 0 .. n : k # 0 => k \in 1 .. n
    BY <1>1
  <2> HIDE DEF b
  <2> QED
    BY <1>3, <2>1 DEF NumStep, AddStep
<1> DEFINE g == CHOOSE c : c = NumStep(bits, c)
<1>5. Num(bits) = g[n]
  BY DEF Num, NumStep
<1> HIDE DEF b
<1>6. g = NumStep(bits, g)
  <2>1. PICK c : c = AddStep(b, n, c)
    <3> HIDE DEF n
    <3> QED
      BY <1>1, <1>3, RunningSums
  <2>2. c = NumStep(bits, c)
    BY <1>4, <2>1
  <2> QED
    BY <2>2
<1> HIDE DEF g
<1>7. g = AddStep(b, n, g)
  BY <1>4, <1>6
<1>8. g \in [0 .. n -> Nat] /\ g[0] = 0 /\ \A k \in 1 .. n : g[k] = g[k - 1] + b[k]
  <2> HIDE DEF n
  <2> QED
    BY <1>1, <1>3, <1>7, RunningSums
<1>9. Sums(bits, g)
  BY <1>3, <1>8 DEF Sums
<1> QED
  BY <1>5, <1>9

\* Sequences that begin alike have the same running numbers there.
LEMMA SameSums ==
  ASSUME NEW u, NEW c, Sums(u, c), NEW v, NEW g, Sums(v, g), NEW n \in Nat,
         Len(u) \in Nat, Len(v) \in Nat, n <= Len(u), n <= Len(v), \A k \in 1 .. n : u[k] = v[k]
  PROVE  c[n] = g[n]
<1> DEFINE T == {k \in Nat : k <= n => c[k] = g[k]}
<1>1. 0 \in T
  BY DEF Sums
<1>2. ASSUME NEW k \in T PROVE k + 1 \in T
  <2> SUFFICES ASSUME k + 1 <= n PROVE c[k + 1] = g[k + 1]
    OBVIOUS
  <2>1. k \in Nat /\ k <= n /\ k + 1 \in 1 .. n /\ k + 1 \in 1 .. Len(u) /\ k + 1 \in 1 .. Len(v) /\ (k + 1) - 1 = k
    OBVIOUS
  <2>2. c[k] = g[k] /\ u[k + 1] = v[k + 1]
    BY <2>1
  <2>3. c[k + 1] = c[k] + u[k + 1] * 2^k
    BY <2>1 DEF Sums
  <2>4. g[k + 1] = g[k] + v[k + 1] * 2^k
    BY <2>1 DEF Sums
  <2> QED
    BY <2>2, <2>3, <2>4
<1> HIDE DEF T
<1>3. T \in SUBSET Nat
  BY DEF T
<1>4. T = Nat
  BY <1>1, <1>2, <1>3, Counting
<1> QED
  BY <1>4 DEF T

\* One bit more.
LEMMA NumOfLonger ==
  ASSUME NEW u \in Seq(Bit), NEW v \in Seq(Bit), NEW n \in Nat,
         Len(u) = n + 1, Len(v) = n, \A k \in 1 .. n : u[k] = v[k]
  PROVE  Num(u) = Num(v) + u[n + 1] * 2^n
<1>1. PICK c : Sums(u, c) /\ Num(u) = c[Len(u)]
  BY NumEquations
<1>2. PICK g : Sums(v, g) /\ Num(v) = g[Len(v)]
  BY NumEquations
<1>3. c[n] = g[n]
  <2>1. Len(u) \in Nat /\ Len(v) \in Nat /\ n <= Len(u) /\ n <= Len(v)
    OBVIOUS
  <2> QED BY <1>1, <1>2, <2>1, SameSums
<1>4. n + 1 \in 1 .. Len(u) /\ (n + 1) - 1 = n
  OBVIOUS
<1>5. c[n + 1] = c[n] + u[n + 1] * 2^n
  BY <1>1, <1>4 DEF Sums
<1> QED
  BY <1>1, <1>2, <1>3, <1>5

\* Nothing backwards.
LEMMA ReversedNone == \A y \in Nat : Reversed(0, y) = 0
<1> SUFFICES ASSUME NEW y \in Nat PROVE Reversed(0, y) = 0
  OBVIOUS
<1>1. WordOf(0, y) \in Seq(Bit) /\ Len(WordOf(0, y)) = 0
  BY WordIsSeq
<1>2. PICK c : Sums(WordOf(0, y), c) /\ Num(WordOf(0, y)) = c[0]
  BY <1>1, NumEquations
<1> QED
  BY <1>2 DEF Sums, Reversed

\* The last bit becomes the highest.
LEMMA ReversedNext ==
  ASSUME NEW n \in Nat, NEW y \in Nat, NEW c \in {0, 1}
  PROVE  Reversed(n + 1, 2 * y + c) = Reversed(n, y) + c * 2^n
<1> DEFINE u == WordOf(n + 1, 2 * y + c)
           v == WordOf(n, y)
<1>1. u \in Seq(Bit) /\ Len(u) = n + 1 /\ v \in Seq(Bit) /\ Len(v) = n
  BY WordIsSeq
<1>2. ASSUME NEW k \in 1 .. n PROVE u[k] = v[k]
  <2> DEFINE e == n - k
  <2>1. e \in Nat /\ (n + 1) - k = e + 1 /\ k \in 1 .. n + 1
    OBVIOUS
  <2>2. u[k] = ((2 * y + c) \div 2^(e + 1)) % 2 /\ v[k] = (y \div 2^e) % 2
    BY <2>1 DEF WordOf
  <2> HIDE DEF e
  <2> DEFINE p == 2^e
  <2>3. p \in Nat \ {0} /\ 2^(e + 1) = 2 * p
    BY <2>1, PowerPositive, PowerDoubles
  <2> HIDE DEF p
  <2>4. (2 * y + c) \div (2 * p) = ((2 * y + c) \div 2) \div p
    <3> DEFINE x == 2 * y + c
    <3>1. x \in Nat /\ 2 \in Nat \ {0}
      OBVIOUS
    <3> HIDE DEF x
    <3>2. x \div (2 * p) = (x \div 2) \div p
      BY <2>3, <3>1, DividedAgain
    <3> QED
      BY <3>2 DEF x
  <2>5. (2 * y + c) \div 2 = y
    OBVIOUS
  <2> QED
    BY <2>2, <2>3, <2>4, <2>5 DEF p
<1>3. u[n + 1] = c
  <2>1. u[n + 1] = ((2 * y + c) \div 2^((n + 1) - (n + 1))) % 2
    BY DEF WordOf
  <2>2. (n + 1) - (n + 1) = 0 /\ (2 * y + c) \div 1 = 2 * y + c /\ (2 * y + c) % 2 = c
    OBVIOUS
  <2> QED
    BY <2>1, <2>2, PowerZero
<1> HIDE DEF u, v
<1>4. Num(u) = Num(v) + u[n + 1] * 2^n
  BY <1>1, <1>2, NumOfLonger
<1> QED
  BY <1>3, <1>4 DEF u, v, Reversed

\* A number of n bits stays one.
LEMMA ReversedBound ==
  ASSUME NEW n \in Nat, NEW y \in Nat
  PROVE  Reversed(n, y) \in Nat /\ Reversed(n, y) < 2^n
<1>1. WordOf(n, y) \in Seq(Bit) /\ Len(WordOf(n, y)) = n
  BY WordIsSeq
<1> QED
  BY <1>1, NumBound DEF Reversed

\* Two numbers one behind the other.
LEMMA ReversedJoin ==
  ASSUME NEW a \in Nat, NEW y \in Nat
  PROVE  \A b \in Nat : \A z \in 0 .. 2^b - 1 : Reversed(a + b, y * 2^b + z) = Reversed(a, y) + 2^a * Reversed(b, z)
<1> DEFINE P(b) == \A z \in 0 .. 2^b - 1 : Reversed(a + b, y * 2^b + z) = Reversed(a, y) + 2^a * Reversed(b, z)
           T == {b \in Nat : P(b)}
<1>1. 0 \in T
  <2> SUFFICES ASSUME NEW z \in 0 .. 2^0 - 1
               PROVE  Reversed(a + 0, y * 2^0 + z) = Reversed(a, y) + 2^a * Reversed(0, z)
    OBVIOUS
  <2>1. z = 0 /\ y * 2^0 + z = y /\ a + 0 = a
    BY PowerZero
  <2>2. Reversed(0, z) = 0
    BY <2>1, ReversedNone
  <2>3. 2^a \in Nat /\ Reversed(a, y) \in Nat
    BY PowerPositive, ReversedBound
  <2> QED
    BY <2>1, <2>2, <2>3
<1>2. ASSUME NEW b \in T PROVE b + 1 \in T
  <2> SUFFICES ASSUME NEW z \in 0 .. 2^(b + 1) - 1
               PROVE  Reversed(a + (b + 1), y * 2^(b + 1) + z) = Reversed(a, y) + 2^a * Reversed(b + 1, z)
    BY <1>2
  <2> DEFINE p == 2^b
             r == 2^a
  <2>1. b \in Nat /\ P(b)
    OBVIOUS
  <2>2. p \in Nat /\ r \in Nat /\ 2^(b + 1) = 2 * p
    BY <2>1, PowerPositive, PowerDoubles
  <2>3. 2^(a + b) = r * p
    BY <2>1, PowerAdds
  <2>4. z \in Nat
    BY <2>2
  <2>5. PICK h \in Nat, c \in {0, 1} : z = 2 * h + c
    BY <2>4, HalfOf
  <2> HIDE DEF p, r
  <2>6. h \in 0 .. p - 1
    BY <2>2, <2>5
  <2>7. Reversed(a + b, y * p + h) = Reversed(a, y) + r * Reversed(b, h)
    BY <2>1, <2>6 DEF p, r
  <2>8. Reversed(b + 1, z) = Reversed(b, h) + c * p
    BY <2>1, <2>5, ReversedNext DEF p
  <2> DEFINE m == y * p + h
  <2>9. m \in Nat /\ y * (2 * p) + z = 2 * m + c
    BY <2>2, <2>5
  <2> HIDE DEF m
  <2>10. a + b \in Nat /\ a + (b + 1) = (a + b) + 1
    BY <2>1
  <2>11. Reversed((a + b) + 1, 2 * m + c) = Reversed(a + b, m) + c * 2^(a + b)
    BY <2>9, <2>10, ReversedNext
  <2> DEFINE f == Reversed(a, y)
             g == Reversed(b, h)
  <2>12. f \in Nat /\ g \in Nat
    BY <2>1, ReversedBound
  <2>13. Reversed(a + (b + 1), y * 2^(b + 1) + z) = (f + r * g) + c * (r * p)
    BY <2>2, <2>3, <2>7, <2>9, <2>10, <2>11 DEF m
  <2> HIDE DEF f, g
  <2>14. (f + r * g) + c * (r * p) = f + r * (g + c * p)
    <3>1. CASE c = 0
      BY <2>2, <2>12, <3>1
    <3>2. CASE c = 1
      BY <2>2, <2>12, <3>2
    <3> QED BY <3>1, <3>2
  <2>15. r * Reversed(b + 1, z) = r * (g + c * p)
    BY <2>8 DEF g
  <2> QED
    BY <2>13, <2>14, <2>15 DEF f, r
<1> HIDE DEF T
<1>3. T \in SUBSET Nat
  BY DEF T
<1>4. T = Nat
  BY <1>1, <1>2, <1>3, Counting
<1> QED
  BY <1>4 DEF T

\* Zero is zero backwards.
LEMMA ReversedZero == \A n \in Nat : Reversed(n, 0) = 0
<1> DEFINE T == {n \in Nat : Reversed(n, 0) = 0}
<1>1. 0 \in T
  BY ReversedNone
<1>2. ASSUME NEW n \in T PROVE n + 1 \in T
  <2>1. Reversed(n + 1, 2 * 0 + 0) = Reversed(n, 0) + 0 * 2^n
    BY ReversedNext
  <2>2. 2^n \in Nat
    BY PowerPositive
  <2> QED
    BY <2>1, <2>2
<1> HIDE DEF T
<1>3. T \in SUBSET Nat
  BY DEF T
<1>4. T = Nat
  BY <1>1, <1>2, <1>3, Counting
<1> QED
  BY <1>4 DEF T

\* Zeros behind a number change nothing.
LEMMA ReversedZeros ==
  ASSUME NEW a \in Nat, NEW y \in Nat, NEW b \in Nat
  PROVE  Reversed(a + b, y * 2^b) = Reversed(a, y)
<1> DEFINE p == 2^b
           r == 2^a
<1>1. p \in Nat /\ p > 0 /\ r \in Nat /\ Reversed(a, y) \in Nat
  BY PowerPositive, ReversedBound
<1>2. 0 \in 0 .. p - 1
  BY <1>1
<1>3. Reversed(a + b, y * p + 0) = Reversed(a, y) + r * Reversed(b, 0)
  BY <1>2, ReversedJoin
<1>4. Reversed(b, 0) = 0
  BY ReversedZero
<1> HIDE DEF p, r
<1>5. y * p + 0 = y * p /\ r * 0 = 0
  BY <1>1
<1> QED
  BY <1>1, <1>3, <1>4, <1>5 DEF p

\* Different numbers stay different.
LEMMA ReversedDiffers ==
  ASSUME NEW n \in Nat, NEW y \in 0 .. 2^n - 1, NEW z \in 0 .. 2^n - 1, Reversed(n, y) = Reversed(n, z)
  PROVE  y = z
<1> DEFINE P(m) == \A u, v \in 0 .. 2^m - 1 : Reversed(m, u) = Reversed(m, v) => u = v
           T == {m \in Nat : P(m)}
<1>1. 0 \in T
  BY PowerZero
<1>2. ASSUME NEW m \in T PROVE m + 1 \in T
  <2> SUFFICES ASSUME NEW u \in 0 .. 2^(m + 1) - 1, NEW v \in 0 .. 2^(m + 1) - 1, Reversed(m + 1, u) = Reversed(m + 1, v)
               PROVE  u = v
    BY <1>2
  <2> DEFINE p == 2^m
  <2>1. m \in Nat /\ P(m)
    OBVIOUS
  <2>2. p \in Nat /\ 2^(m + 1) = 2 * p
    BY <2>1, PowerPositive, PowerDoubles
  <2>3. u \in Nat /\ v \in Nat
    BY <2>2
  <2>4. PICK h \in Nat, c \in {0, 1} : u = 2 * h + c
    BY <2>3, HalfOf
  <2>5. PICK k \in Nat, e \in {0, 1} : v = 2 * k + e
    BY <2>3, HalfOf
  <2>6. Reversed(m + 1, u) = Reversed(m, h) + c * p /\ Reversed(m + 1, v) = Reversed(m, k) + e * p
    BY <2>1, <2>4, <2>5, ReversedNext
  <2>7. /\ Reversed(m, h) \in Nat /\ Reversed(m, h) < p
        /\ Reversed(m, k) \in Nat /\ Reversed(m, k) < p
    BY <2>1, ReversedBound
  <2> HIDE DEF p
  <2>8. c = e /\ Reversed(m, h) = Reversed(m, k)
    BY <2>2, <2>6, <2>7
  <2>9. h \in 0 .. p - 1 /\ k \in 0 .. p - 1
    BY <2>2, <2>4, <2>5
  <2>10. h = k
    BY <2>1, <2>8, <2>9 DEF p
  <2> QED
    BY <2>4, <2>5, <2>8, <2>10
<1> HIDE DEF T
<1>3. T \in SUBSET Nat
  BY DEF T
<1>4. T = Nat
  BY <1>1, <1>2, <1>3, Counting
<1> QED
  BY <1>4 DEF T

\* Every number of n bits is one backwards.
LEMMA ReversedReaches ==
  ASSUME NEW n \in Nat, NEW x \in 0 .. 2^n - 1
  PROVE  \E y \in 0 .. 2^n - 1 : Reversed(n, y) = x
<1> DEFINE P(m) == \A u \in 0 .. 2^m - 1 : \E v \in 0 .. 2^m - 1 : Reversed(m, v) = u
           T == {m \in Nat : P(m)}
<1>1. 0 \in T
  BY PowerZero, ReversedNone
<1>2. ASSUME NEW m \in T PROVE m + 1 \in T
  <2> SUFFICES ASSUME NEW u \in 0 .. 2^(m + 1) - 1
               PROVE  \E v \in 0 .. 2^(m + 1) - 1 : Reversed(m + 1, v) = u
    BY <1>2
  <2> DEFINE p == 2^m
  <2>1. m \in Nat /\ P(m)
    OBVIOUS
  <2>2. p \in Nat /\ 2^(m + 1) = 2 * p
    BY <2>1, PowerPositive, PowerDoubles
  <2>3. PICK c \in {0, 1} : u - c * p \in 0 .. p - 1
    <3> HIDE DEF p
    <3>1. CASE u < p
      <4>1. 0 \in {0, 1} /\ u - 0 * p \in 0 .. p - 1
        BY <2>2, <3>1
      <4> QED BY <4>1
    <3>2. CASE u >= p
      <4>1. 1 \in {0, 1} /\ u - 1 * p \in 0 .. p - 1
        BY <2>2, <3>2
      <4> QED BY <4>1
    <3> QED BY <2>2, <3>1, <3>2
  <2>4. PICK h \in 0 .. p - 1 : Reversed(m, h) = u - c * p
    BY <2>1, <2>3
  <2>5. h \in Nat /\ 2 * h + c \in 0 .. 2 * p - 1
    <3> HIDE DEF p
    <3> QED BY <2>2
  <2>6. Reversed(m + 1, 2 * h + c) = Reversed(m, h) + c * p
    BY <2>1, <2>5, ReversedNext
  <2>7. Reversed(m + 1, 2 * h + c) = u
    <3> HIDE DEF p
    <3>1. CASE c = 0
      BY <2>2, <2>4, <2>6, <3>1
    <3>2. CASE c = 1
      BY <2>2, <2>4, <2>6, <3>2
    <3> QED BY <3>1, <3>2
  <2> QED
    BY <2>2, <2>5, <2>7
<1> HIDE DEF T
<1>3. T \in SUBSET Nat
  BY DEF T
<1>4. T = Nat
  BY <1>1, <1>2, <1>3, Counting
<1> QED
  BY <1>4 DEF T

\* The bits of a number that are 0.
Free(h, l) == {b \in 0 .. l - 1 : (h \div 2^b) % 2 = 0}

\* A higher bit does not matter to the lower ones.
LEMMA HigherBit ==
  ASSUME NEW h \in Nat, NEW l \in Nat, NEW b \in Nat, b < l
  PROVE  /\ ((h + 2^l) \div 2^b) % 2 = (h \div 2^b) % 2
         /\ (h + 2^l) % 2^b = h % 2^b
<1> DEFINE e == l - (b + 1)
<1>1. e \in Nat /\ l = b + (e + 1)
  OBVIOUS
<1> HIDE DEF e
<1> DEFINE p == 2^b
           f == 2^e
           q == h \div p
           r == h % p
<1>2. p \in Nat \ {0} /\ f \in Nat
  BY <1>1, PowerPositive
<1>3. 2^l = p * (2 * f)
  <2>1. 2^(b + (e + 1)) = 2^b * 2^(e + 1) /\ 2^(e + 1) = 2 * 2^e
    BY <1>1, PowerAdds, PowerDoubles
  <2> QED BY <1>1, <2>1
<1>4. q \in Nat /\ r \in Nat /\ r < p /\ h = p * q + r
  BY <1>2, Division
<1> HIDE DEF p, f
<1>5. h + 2^l = p * (q + 2 * f) + r
  <2>1. h + p * (2 * f) = p * (q + 2 * f) + r
    <3> HIDE DEF q, r
    <3> QED BY <1>2, <1>4
  <2> QED BY <1>3, <2>1
<1> DEFINE m == q + 2 * f
<1>6. m \in Nat
  BY <1>2, <1>4
<1> HIDE DEF m, q, r
<1>7. (p * m + r) \div p = m /\ (p * m + r) % p = r
  BY <1>2, <1>4, <1>6, Divided
<1>8. m % 2 = q % 2
  BY <1>2, <1>4 DEF m
<1> QED
  BY <1>5, <1>7, <1>8 DEF m, p, q, r

\* Increment counts words backwards.
LEMMA IncrementIs ==
  \A l \in Nat : \A y \in 0 .. 2^l - 1 :
     /\ Free(Reversed(l, y), l) = {} <=> y + 1 = 2^l
     /\ Increment(Reversed(l, y), l) = IF y + 1 = 2^l THEN 0 ELSE Reversed(l, y + 1)
<1> DEFINE P(l) == \A y \in 0 .. 2^l - 1 :
                      /\ Free(Reversed(l, y), l) = {} <=> y + 1 = 2^l
                      /\ Increment(Reversed(l, y), l) = IF y + 1 = 2^l THEN 0 ELSE Reversed(l, y + 1)
           T == {l \in Nat : P(l)}
<1>1. 0 \in T
  <2> SUFFICES ASSUME NEW y \in 0 .. 2^0 - 1
               PROVE  /\ Free(Reversed(0, y), 0) = {} <=> y + 1 = 2^0
                      /\ Increment(Reversed(0, y), 0) = IF y + 1 = 2^0 THEN 0 ELSE Reversed(0, y + 1)
    OBVIOUS
  <2>1. y + 1 = 2^0
    BY PowerZero
  <2>2. Free(Reversed(0, y), 0) = {}
    BY DEF Free
  <2> QED
    BY <2>1, <2>2 DEF Increment, Free
<1>2. ASSUME NEW l \in T PROVE l + 1 \in T
  <2> SUFFICES ASSUME NEW y \in 0 .. 2^(l + 1) - 1
               PROVE  /\ Free(Reversed(l + 1, y), l + 1) = {} <=> y + 1 = 2^(l + 1)
                      /\ Increment(Reversed(l + 1, y), l + 1) = IF y + 1 = 2^(l + 1) THEN 0 ELSE Reversed(l + 1, y + 1)
    BY <1>2
  <2> DEFINE p == 2^l
             h == Reversed(l + 1, y)
  <2>1. l \in Nat /\ P(l)
    OBVIOUS
  <2>2. p \in Nat \ {0} /\ 2^(l + 1) = 2 * p
    BY <2>1, PowerPositive, PowerDoubles
  <2>3. PICK k \in Nat, c \in {0, 1} : y = 2 * k + c
    <3>1. y \in Nat
      BY <2>2
    <3> QED BY <3>1, HalfOf
  <2> DEFINE g == Reversed(l, k)
  <2>4. k \in 0 .. p - 1 /\ g \in Nat /\ g < p
    <3>1. g \in Nat /\ g < p
      BY <2>1, ReversedBound
    <3> HIDE DEF p, g
    <3> QED BY <2>2, <2>3, <3>1
  <2>5. h = g + c * p
    BY <2>1, <2>3, ReversedNext
  <2>6. Free(g, l) = {} <=> k + 1 = p
    BY <2>1, <2>4
  <2>7. Increment(g, l) = IF k + 1 = p THEN 0 ELSE Reversed(l, k + 1)
    BY <2>1, <2>4
  <2>8. Free(h, l + 1) = Free(g, l) \cup (IF c = 0 THEN {l} ELSE {})
    <3>1. ASSUME NEW b \in 0 .. l - 1 PROVE (h \div 2^b) % 2 = (g \div 2^b) % 2
      <4>1. CASE c = 0
        BY <2>2, <2>4, <2>5, <4>1
      <4>2. CASE c = 1
        <5>1. h = g + 2^l
          BY <2>2, <2>4, <2>5, <4>2
        <5>2. b \in Nat /\ b < l /\ l \in Nat /\ g \in Nat
          BY <2>1, <2>4
        <5> HIDE DEF h, g, T, P
        <5> QED BY <5>1, <5>2, HigherBit
      <4> QED BY <4>1, <4>2
    <3>2. (h \div p) % 2 = c
      <4>1. (p * c + g) \div p = c
        <5> HIDE DEF p, g
        <5> QED BY <2>2, <2>4, Divided
      <4>2. h = p * c + g
        <5> HIDE DEF p, g, h
        <5> QED BY <2>2, <2>4, <2>5
      <4> QED BY <4>1, <4>2
    <3>3. \A b : b \in 0 .. (l + 1) - 1 <=> b \in 0 .. l - 1 \/ b = l
      BY <2>1
    <3> HIDE DEF h, g
    <3> QED BY <3>1, <3>2, <3>3 DEF Free, p
  <2>9. CASE c = 0
    <3>1. y + 1 = 2 * k + 1 /\ y + 1 # 2 * p
      BY <2>2, <2>3, <2>9
    <3>2. Reversed(l + 1, 2 * k + 1) = Reversed(l, k) + 1 * 2^l
      BY <2>1, <2>3, ReversedNext
    <3>3. h = g
      BY <2>2, <2>4, <2>5, <2>9
    <3>4. l \in Free(h, l + 1) /\ \A b \in Free(h, l + 1) : b <= l
      <4>1. \A b \in Free(h, l + 1) : b <= l
        BY <2>1 DEF Free
      <4> QED BY <2>8, <2>9, <4>1
    <3>5. (CHOOSE b \in Free(h, l + 1) : \A e \in Free(h, l + 1) : e <= b) = l
      <4>1. \A b \in Free(h, l + 1) : b \in Int
        BY DEF Free
      <4>2. \A b \in Free(h, l + 1) : (\A e \in Free(h, l + 1) : e <= b) => b = l
        BY <2>1, <3>4, <4>1
      <4> HIDE DEF h
      <4> QED BY <3>4, <4>2
    <3>6. Increment(h, l + 1) = (h % 2^l) + 2^l
      BY <3>4, <3>5 DEF Increment, Free
    <3>7. h % p = g
      <4> HIDE DEF p, g, h
      <4> QED BY <2>2, <2>4, <3>3
    <3>8. Increment(h, l + 1) = Reversed(l + 1, y + 1)
      <4> HIDE DEF h
      <4>1. 1 * 2^l = 2^l
        BY <2>2
      <4> QED BY <3>1, <3>2, <3>6, <3>7, <4>1
    <3> QED
      BY <2>2, <3>1, <3>4, <3>8
  <2>10. CASE c = 1
    <3>1. Free(h, l + 1) = Free(g, l)
      BY <2>8, <2>10
    <3>2. y + 1 = 2 * (k + 1) + 0 /\ (y + 1 = 2 * p <=> k + 1 = p)
      BY <2>2, <2>3, <2>4, <2>10
    <3>3. CASE k + 1 = p
      <4>1. Free(h, l + 1) = {}
        BY <2>6, <3>1, <3>3
      <4>2. Increment(h, l + 1) = 0
        BY <4>1 DEF Increment, Free
      <4> HIDE DEF h
      <4> QED BY <2>2, <3>2, <3>3, <4>1, <4>2 DEF h
    <3>4. CASE k + 1 # p
      <4>1. Free(g, l) # {}
        BY <2>6, <3>4
      <4> DEFINE top == CHOOSE b \in Free(g, l) : \A e \in Free(g, l) : e <= b
      <4>2. Increment(g, l) = (g % 2^top) + 2^top
        BY <4>1 DEF Increment, Free
      <4>3. Increment(h, l + 1) = (h % 2^top) + 2^top
        <5>1. {b \in 0 .. (l + 1) - 1 : (h \div 2^b) % 2 = 0} = Free(g, l)
          BY <3>1 DEF Free
        <5> HIDE DEF h, g
        <5> QED BY <4>1, <5>1 DEF Increment
      <4>4. top \in Nat /\ top < l
        <5> DEFINE Q == {x \in Nat : l - 1 - x \in Free(g, l)}
        <5>1. Q \in SUBSET Nat
          OBVIOUS
        <5>2. PICK b \in Free(g, l) : TRUE
          BY <4>1
        <5>3. b \in 0 .. l - 1
          BY <5>2 DEF Free
        <5>4. l - 1 - b \in Nat /\ l - 1 - (l - 1 - b) = b
          BY <2>1, <5>3
        <5>5. Q # {}
          BY <5>2, <5>4
        <5>6. PICK x \in Q : \A z \in Q : x <= z
          BY <5>1, <5>5, LeastNumber
        <5>7. ASSUME NEW e \in Free(g, l) PROVE e <= l - 1 - x
          <6>1. e \in 0 .. l - 1
            BY DEF Free
          <6>2. l - 1 - e \in Nat /\ l - 1 - (l - 1 - e) = e
            BY <2>1, <6>1
          <6>3. x <= l - 1 - e
            BY <5>6, <6>2
          <6> QED BY <2>1, <5>6, <6>1, <6>3
        <5>8. l - 1 - x \in Free(g, l)
          BY <5>6
        <5>9. top \in Free(g, l)
          BY <5>7, <5>8
        <5> HIDE DEF top
        <5> QED BY <2>1, <5>9 DEF Free
      <4> HIDE DEF top
      <4>5. h % 2^top = g % 2^top
        <5>1. h = g + 2^l
          BY <2>2, <2>4, <2>5, <2>10
        <5> HIDE DEF h, g
        <5> QED BY <2>1, <2>4, <4>4, <5>1, HigherBit
      <4>6. Increment(h, l + 1) = Reversed(l, k + 1)
        BY <2>7, <3>4, <4>2, <4>3, <4>5
      <4>7. Reversed(l + 1, 2 * (k + 1) + 0) = Reversed(l, k + 1) + 0 * 2^l
        <5>1. l \in Nat /\ k + 1 \in Nat /\ 0 \in {0, 1}
          BY <2>1, <2>3
        <5> QED BY <5>1, ReversedNext
      <4>8. Reversed(l, k + 1) + 0 * 2^l = Reversed(l, k + 1)
        BY <2>1, <2>2, <2>3, ReversedBound
      <4>9. Increment(h, l + 1) = Reversed(l + 1, y + 1)
        <5> HIDE DEF h
        <5> QED BY <3>2, <4>6, <4>7, <4>8
      <4> HIDE DEF h
      <4> QED BY <2>2, <3>1, <3>2, <3>4, <4>1, <4>9 DEF h
    <3> QED BY <3>3, <3>4
  <2> QED
    BY <2>3, <2>9, <2>10
<1> HIDE DEF T
<1>3. T \in SUBSET Nat
  BY DEF T
<1>4. T = Nat
  BY <1>1, <1>2, <1>3, Counting
<1> QED
  BY <1>4 DEF T

\* The places of the m first numbers of n bits in a table that starts at a place.
Front(at, n, m) == {at + Reversed(n, y) : y \in 0 .. m - 1}

\* A front lies in its table.
LEMMA FrontWithin ==
  ASSUME NEW at \in Nat, NEW n \in Nat, NEW m \in Int
  PROVE  \A p \in Front(at, n, m) : p \in Nat /\ at <= p /\ p < at + 2^n
<1> SUFFICES ASSUME NEW p \in Front(at, n, m) PROVE p \in Nat /\ at <= p /\ p < at + 2^n
  OBVIOUS
<1>1. PICK y \in 0 .. m - 1 : p = at + Reversed(n, y)
  BY DEF Front
<1>2. y \in Nat
  OBVIOUS
<1>3. Reversed(n, y) \in Nat /\ Reversed(n, y) < 2^n /\ 2^n \in Nat
  BY <1>2, ReversedBound, PowerPositive
<1> QED
  BY <1>1, <1>3

\* All numbers of n bits fill the table.
LEMMA FrontWhole ==
  ASSUME NEW at \in Nat, NEW n \in Nat
  PROVE  Front(at, n, 2^n) = at .. at + 2^n - 1
<1> DEFINE p == 2^n
<1>1. p \in Nat
  BY PowerPositive
<1>2. ASSUME NEW x \in Front(at, n, p) PROVE x \in at .. at + p - 1
  <2>1. x \in Nat /\ at <= x /\ x < at + p
    BY <1>1, FrontWithin
  <2> HIDE DEF p
  <2> QED BY <1>1, <2>1
<1>3. ASSUME NEW x \in at .. at + p - 1 PROVE x \in Front(at, n, p)
  <2>1. x - at \in 0 .. p - 1
    <3> HIDE DEF p
    <3> QED BY <1>1
  <2>2. PICK y \in 0 .. p - 1 : Reversed(n, y) = x - at
    BY <2>1, ReversedReaches
  <2>3. x = at + Reversed(n, y)
    <3>1. x \in Int
      <4> HIDE DEF p
      <4> QED BY <1>1
    <3> QED BY <2>2, <3>1
  <2> QED
    BY <2>3 DEF Front
<1> QED
  BY <1>2, <1>3

\* A front grows by places that are not in it.
LEMMA FrontGrows ==
  ASSUME NEW at \in Nat, NEW n \in Nat, NEW a \in Nat, NEW b \in Nat, a <= b, b <= 2^n
  PROVE  /\ Front(at, n, b) = Front(at, n, a) \cup {at + Reversed(n, y) : y \in a .. b - 1}
         /\ Front(at, n, a) \cap {at + Reversed(n, y) : y \in a .. b - 1} = {}
<1>1. \A y : y \in 0 .. b - 1 <=> y \in 0 .. a - 1 \/ y \in a .. b - 1
  OBVIOUS
<1>2. Front(at, n, b) = Front(at, n, a) \cup {at + Reversed(n, y) : y \in a .. b - 1}
  BY <1>1 DEF Front
<1>3. ASSUME NEW y \in 0 .. a - 1, NEW z \in a .. b - 1, at + Reversed(n, y) = at + Reversed(n, z)
      PROVE  FALSE
  <2> DEFINE p == 2^n
  <2>1. p \in Nat
    BY PowerPositive
  <2>2. y \in 0 .. p - 1 /\ z \in 0 .. p - 1 /\ y # z /\ y \in Nat /\ z \in Nat
    BY <2>1
  <2>3. Reversed(n, y) \in Nat /\ Reversed(n, z) \in Nat
    BY <2>2, ReversedBound
  <2>4. Reversed(n, y) = Reversed(n, z)
    BY <1>3, <2>3
  <2> QED
    BY <2>2, <2>4, ReversedDiffers
<1> QED
  BY <1>2, <1>3 DEF Front

\* The parts of a code that the root and the table behind it are indexed with.
LEMMA Parts ==
  ASSUME NEW d \in Nat, NEW t \in Nat, NEW c \in Nat, c < 2^(d + t)
  PROVE  /\ c \div 2^t \in Nat /\ c \div 2^t < 2^d
         /\ c % 2^t \in Nat /\ c % 2^t < 2^t
         /\ c = 2^t * (c \div 2^t) + (c % 2^t)
         /\ Reversed(d + t, c) % 2^d = Reversed(d, c \div 2^t)
         /\ Reversed(d + t, c) \div 2^d = Reversed(t, c % 2^t)
<1> DEFINE p == 2^t
           r == 2^d
           q == c \div p
           m == c % p
<1>1. p \in Nat \ {0} /\ r \in Nat \ {0}
  BY PowerPositive
<1>2. q \in Nat /\ m \in Nat /\ m < p /\ c = p * q + m
  BY <1>1, Division
<1>3. 2^(d + t) = r * p
  BY PowerAdds
<1>4. q < r
  <2> HIDE DEF p, r, q, m
  <2> SUFFICES ASSUME ~(q < r) PROVE FALSE
    OBVIOUS
  <2>1. p * r <= p * q
    BY <1>1, <1>2, TimesKeepsOrder
  <2>2. p * r = r * p /\ p * q \in Nat /\ r * p \in Nat
    BY <1>1, <1>2
  <2> QED BY <1>1, <1>2, <1>3, <2>1, <2>2
<1>5. Reversed(d + t, q * p + m) = Reversed(d, q) + r * Reversed(t, m)
  <2>1. m \in 0 .. p - 1
    <3> HIDE DEF p, m
    <3> QED BY <1>1, <1>2
  <2> QED BY <1>2, <2>1, ReversedJoin
<1>6. q * p + m = c
  <2> HIDE DEF p, q, m
  <2> QED BY <1>1, <1>2
<1> DEFINE u == Reversed(d, q)
           v == Reversed(t, m)
<1>7. u \in Nat /\ u < r /\ v \in Nat
  BY <1>2, ReversedBound
<1>8. Reversed(d + t, c) = r * v + u
  <2>1. u + r * v = r * v + u
    <3> HIDE DEF u, v, r
    <3> QED BY <1>1, <1>7
  <2> QED BY <1>5, <1>6, <2>1
<1>9. (r * v + u) \div r = v /\ (r * v + u) % r = u
  <2> HIDE DEF u, v, r
  <2> QED BY <1>1, <1>7, Divided
<1> QED
  BY <1>2, <1>4, <1>8, <1>9

\* The places of a code in a table of n index bits, the code's bits there being t and their number z.
Span(at, n, t, z) == {at + Reversed(n, y) : y \in z * 2^(n - t) .. (z + 1) * 2^(n - t) - 1}

\* They are as far apart as there are codes of that length.
Strides(at, n, t, z) == {at + Reversed(t, z) + k * 2^t : k \in 0 .. 2^(n - t) - 1}

\* Where a code of t bits belongs in a table of n index bits.
LEMMA PlacesAre ==
  ASSUME NEW at \in Nat, NEW n \in Nat, NEW t \in Nat, t <= n, NEW c \in 0 .. 2^t - 1
  PROVE  Strides(at, n, t, c) = Span(at, n, t, c)
<1> DEFINE e == n - t
<1>1. e \in Nat /\ n = t + e
  OBVIOUS
<1> HIDE DEF e
<1> DEFINE f == 2^e
           p == 2^t
<1>2. f \in Nat \ {0} /\ p \in Nat \ {0} /\ c \in Nat
  BY <1>1, PowerPositive
<1>3. \A z \in 0 .. f - 1 : Reversed(n, c * f + z) = Reversed(t, c) + p * Reversed(e, z)
  BY <1>1, <1>2, ReversedJoin
<1>r. Reversed(t, c) \in Nat
  BY <1>2, ReversedBound
<1>4. ASSUME NEW k \in 0 .. f - 1
      PROVE  \E y \in c * f .. (c + 1) * f - 1 : at + Reversed(t, c) + k * p = at + Reversed(n, y)
  <2>1. PICK z \in 0 .. f - 1 : Reversed(e, z) = k
    BY <1>1, ReversedReaches
  <2>2. c * f + z \in c * f .. (c + 1) * f - 1
    <3> HIDE DEF f
    <3>1. c * f \in Nat /\ (c + 1) * f = c * f + f
      BY <1>2
    <3> QED BY <1>2, <3>1
  <2>3. Reversed(n, c * f + z) = Reversed(t, c) + p * k
    BY <1>3, <2>1
  <2>4. at + Reversed(t, c) + k * p = at + Reversed(n, c * f + z)
    <3> DEFINE u == Reversed(t, c)
    <3> HIDE DEF f, p, u
    <3>1. k \in Nat /\ k * p = p * k /\ p * k \in Nat
      BY <1>2
    <3> QED BY <1>2, <1>r, <2>3, <3>1 DEF u
  <2> QED BY <2>2, <2>4
<1>5. ASSUME NEW y \in c * f .. (c + 1) * f - 1
      PROVE  \E k \in 0 .. f - 1 : at + Reversed(n, y) = at + Reversed(t, c) + k * p
  <2> DEFINE z == y - c * f
  <2>1. z \in 0 .. f - 1 /\ y = c * f + z
    <3> HIDE DEF f
    <3>1. c * f \in Nat /\ (c + 1) * f = c * f + f
      BY <1>2
    <3> QED BY <1>2, <3>1
  <2> HIDE DEF z
  <2>2. Reversed(n, y) = Reversed(t, c) + p * Reversed(e, z)
    BY <1>3, <2>1
  <2>3. Reversed(e, z) \in 0 .. f - 1
    <3>1. z \in Nat
      BY <2>1
    <3>2. Reversed(e, z) \in Nat /\ Reversed(e, z) < f
      BY <1>1, <3>1, ReversedBound
    <3> HIDE DEF f
    <3> QED BY <1>2, <3>2
  <2>4. at + Reversed(n, y) = at + Reversed(t, c) + Reversed(e, z) * p
    <3> DEFINE u == Reversed(t, c)
               k == Reversed(e, z)
    <3>1. k \in Nat
      BY <2>3
    <3> HIDE DEF f, p, u, k
    <3>2. k * p = p * k /\ p * k \in Nat
      BY <1>2, <3>1
    <3> QED BY <1>2, <1>r, <2>2, <3>2 DEF u, k
  <2> QED BY <2>3, <2>4
<1>6. Strides(at, n, t, c) = {at + Reversed(t, c) + k * p : k \in 0 .. f - 1}
  BY <1>1 DEF Strides
<1>7. Span(at, n, t, c) = {at + Reversed(n, y) : y \in c * f .. (c + 1) * f - 1}
  BY <1>1 DEF Span
<1> HIDE DEF f, p
<1> QED
  BY <1>4, <1>5, <1>6, <1>7

-----------------------------------------------------------------------------
(* The symbols in the order of their codes.                                *)

\* s comes before t.
Sooner(ls, s, t) == ls[s] < ls[t] \/ (ls[s] = ls[t] /\ s < t)

\* The lists of code lengths.
Lists == [0 .. Symbols - 1 -> 0 .. MAXBITS]

\* The symbols are finitely many numbers.
LEMMA SymbolsAre ==
  /\ Symbols \in Nat /\ MAXBITS \in Nat /\ MAXBITS >= 1
  /\ Alphabet(0 .. Symbols - 1) /\ IsFiniteSet(0 .. Symbols - 1)
  /\ \A ls \in Lists : /\ DOMAIN ls = 0 .. Symbols - 1
                       /\ IsFiniteSet(Coded(ls)) /\ Coded(ls) \subseteq 0 .. Symbols - 1
                       /\ \A s \in Coded(ls) : ls[s] \in 1 .. MAXBITS
<1>1. Symbols \in Nat /\ MAXBITS \in Nat /\ MAXBITS >= 1
  BY TableAssumption, CodeAssumption
<1>2. IsFiniteSet(0 .. Symbols - 1)
  BY <1>1, FS_Interval
<1>3. 0 .. Symbols - 1 \subseteq Int
  BY <1>1
<1>4. ASSUME NEW ls \in Lists
      PROVE  /\ DOMAIN ls = 0 .. Symbols - 1
             /\ IsFiniteSet(Coded(ls)) /\ Coded(ls) \subseteq 0 .. Symbols - 1
             /\ \A s \in Coded(ls) : ls[s] \in 1 .. MAXBITS
  <2>1. DOMAIN ls = 0 .. Symbols - 1 /\ \A s \in 0 .. Symbols - 1 : ls[s] \in 0 .. MAXBITS
    BY DEF Lists
  <2>2. Coded(ls) \in SUBSET (0 .. Symbols - 1)
    BY <2>1 DEF Coded
  <2>3. IsFiniteSet(Coded(ls))
    BY <1>2, <2>2, FS_Subset
  <2>4. ASSUME NEW s \in Coded(ls) PROVE ls[s] \in 1 .. MAXBITS
    <3>1. ls[s] \in 0 .. MAXBITS /\ ls[s] # 0
      BY <2>1, <2>2 DEF Coded
    <3> QED BY <1>1, <3>1
  <2> QED
    BY <2>1, <2>2, <2>3, <2>4
<1> QED
  BY <1>1, <1>2, <1>3, <1>4 DEF Alphabet

\* The order is the order of numbers.
LEMMA SoonerByKey ==
  ASSUME NEW ls \in Lists, NEW s \in Coded(ls), NEW t \in Coded(ls)
  PROVE  Sooner(ls, s, t) <=> ls[s] * Symbols + s < ls[t] * Symbols + t
<1> DEFINE n == Symbols
           a == ls[s]
           b == ls[t]
<1>1. n \in Nat /\ s \in Nat /\ t \in Nat /\ s < n /\ t < n /\ a \in Nat /\ b \in Nat
  <2>1. s \in 0 .. Symbols - 1 /\ t \in 0 .. Symbols - 1 /\ ls[s] \in 1 .. MAXBITS /\ ls[t] \in 1 .. MAXBITS
    BY SymbolsAre
  <2>2. Symbols \in Nat /\ MAXBITS \in Nat
    BY SymbolsAre
  <2> QED BY <2>1, <2>2
<1> HIDE DEF n, a, b
<1>2. a * n \in Nat /\ b * n \in Nat
  BY <1>1
<1>3. a < b => a * n + n <= b * n
  <2> SUFFICES ASSUME a < b PROVE a * n + n <= b * n
    OBVIOUS
  <2>1. n * (a + 1) <= n * b
    BY <1>1, TimesKeepsOrder
  <2>2. n * (a + 1) = a * n + n /\ n * b = b * n
    BY <1>1
  <2> QED BY <2>1, <2>2
<1>4. b < a => b * n + n <= a * n
  <2> SUFFICES ASSUME b < a PROVE b * n + n <= a * n
    OBVIOUS
  <2>1. n * (b + 1) <= n * a
    BY <1>1, TimesKeepsOrder
  <2>2. n * (b + 1) = b * n + n /\ n * a = a * n
    BY <1>1
  <2> QED BY <2>1, <2>2
<1>5. (a < b \/ (a = b /\ s < t)) <=> a * n + s < b * n + t
  <2>1. CASE a < b
    BY <1>1, <1>2, <1>3, <2>1
  <2>2. CASE b < a
    BY <1>1, <1>2, <1>4, <2>2
  <2>3. CASE a = b
    BY <1>1, <1>2, <2>3
  <2> QED BY <1>1, <2>1, <2>2, <2>3
<1> QED
  BY <1>5 DEF Sooner, n, a, b

\* A list in this order exists.
LEMMA SortedExists ==
  ASSUME NEW ls \in Lists
  PROVE  \E w \in [1 .. Cardinality(Coded(ls)) -> Coded(ls)] :
           \A a \in 1 .. Cardinality(Coded(ls)) : \A b \in a + 1 .. Cardinality(Coded(ls)) : Sooner(ls, w[a], w[b])
<1> DEFINE S == Coded(ls)
           key(s) == ls[s] * Symbols + s
           f == [s \in S |-> key(s)]
           K == {key(s) : s \in S}
           n == Cardinality(S)
<1>1. IsFiniteSet(S) /\ n \in Nat /\ \A s \in S : key(s) \in Int
  <2>1. IsFiniteSet(S)
    BY SymbolsAre
  <2>2. ASSUME NEW s \in S PROVE key(s) \in Int
    <3>1. s \in 0 .. Symbols - 1 /\ ls[s] \in 1 .. MAXBITS /\ Symbols \in Nat /\ MAXBITS \in Nat
      BY SymbolsAre
    <3> HIDE DEF S
    <3> QED BY <3>1
  <2> QED
    BY <2>1, <2>2, FS_CardinalityType
<1>2. \A s, t \in S : key(s) = key(t) => s = t
  <2> SUFFICES ASSUME NEW s \in S, NEW t \in S, key(s) = key(t) PROVE s = t
    OBVIOUS
  <2>1. ~Sooner(ls, s, t) /\ ~Sooner(ls, t, s)
    <3>1. ~(key(s) < key(t)) /\ ~(key(t) < key(s))
      BY <1>1
    <3> QED BY <3>1, SoonerByKey
  <2>2. s \in 0 .. Symbols - 1 /\ t \in 0 .. Symbols - 1 /\ ls[s] \in 1 .. MAXBITS /\ ls[t] \in 1 .. MAXBITS
    BY SymbolsAre
  <2>3. Symbols \in Nat /\ MAXBITS \in Nat
    BY SymbolsAre
  <2> QED
    BY <2>1, <2>2, <2>3 DEF Sooner
<1>3. IsFiniteSet(K) /\ Cardinality(K) = n
  <2>1. f \in [S -> K] /\ \A s \in S : f[s] = key(s)
    OBVIOUS
  <2>2. \A s, t \in S : f[s] = f[t] => s = t
    BY <1>2, <2>1
  <2>3. \A k \in K : \E s \in S : f[s] = k
    BY <2>1
  <2> HIDE DEF f, K, S
  <2>4. f \in Bijection(S, K)
    BY <2>1, <2>2, <2>3 DEF Bijection, Injection, IsInjective, Surjection
  <2> QED
    BY <1>1, <2>4, FS_Bijection DEF ExistsBijection, n
<1>4. K \subseteq Int
  BY <1>1
<1>5. \A s \in S : key(s) \in K
  OBVIOUS
<1>6. \A k \in K : \E s \in S : key(s) = k
  OBVIOUS
<1> HIDE DEF K
<1> DEFINE rank(k) == Cardinality(Before(K, k))
<1>7. /\ \A k \in K : rank(k) \in 0 .. n - 1
      /\ \A r \in 0 .. n - 1 : \E k \in K : rank(k) = r
      /\ \A k, m \in K : k < m => rank(k) < rank(m)
  <2> HIDE DEF n
  <2>1. /\ \A k \in K : Cardinality(Before(K, k)) \in 0 .. Cardinality(K) - 1
        /\ \A r \in 0 .. Cardinality(K) - 1 : \E k \in K : Cardinality(Before(K, k)) = r
        /\ \A k, m \in K : k < m => Cardinality(Before(K, k)) < Cardinality(Before(K, m))
    BY <1>3, <1>4, Ranks
  <2> QED
    BY <1>3, <2>1
<1> HIDE DEF rank
<1> DEFINE w == [a \in 1 .. n |-> CHOOSE s \in S : rank(key(s)) = a - 1]
<1>8. \A a \in 1 .. n : w[a] \in S /\ rank(key(w[a])) = a - 1
  <2> SUFFICES ASSUME NEW a \in 1 .. n PROVE w[a] \in S /\ rank(key(w[a])) = a - 1
    OBVIOUS
  <2>1. a - 1 \in 0 .. n - 1
    BY <1>1
  <2>2. \E s \in S : rank(key(s)) = a - 1
    BY <1>6, <1>7, <2>1
  <2>3. w[a] = CHOOSE s \in S : rank(key(s)) = a - 1
    OBVIOUS
  <2> HIDE DEF w
  <2> QED BY <2>2, <2>3
<1>9. w \in [1 .. n -> S]
  BY <1>8
<1> HIDE DEF w
<1>10. ASSUME NEW a \in 1 .. n, NEW b \in a + 1 .. n PROVE Sooner(ls, w[a], w[b])
  <2>1. a \in Int /\ b \in 1 .. n /\ b \in Int /\ a < b /\ n \in Nat
    BY <1>1
  <2>2. w[a] \in S /\ rank(key(w[a])) = a - 1 /\ w[b] \in S /\ rank(key(w[b])) = b - 1
    BY <1>8, <2>1
  <2>3. key(w[a]) \in K /\ key(w[b]) \in K /\ key(w[a]) \in Int /\ key(w[b]) \in Int
    BY <1>1, <1>5, <2>2
  <2>4. key(w[a]) < key(w[b])
    <3> SUFFICES ASSUME ~(key(w[a]) < key(w[b])) PROVE FALSE
      OBVIOUS
    <3> DEFINE u == key(w[a])
               v == key(w[b])
    <3>1. u = v \/ v < u
      <4>1. u \in Int /\ v \in Int /\ ~(u < v)
        BY <2>3
      <4> HIDE DEF u, v
      <4> QED BY <4>1
    <3>2. u = v => rank(u) = rank(v)
      OBVIOUS
    <3>3. v < u => rank(v) < rank(u)
      BY <1>7, <2>3
    <3>4. rank(u) = a - 1 /\ rank(v) = b - 1
      BY <2>2
    <3> HIDE DEF u, v
    <3> QED BY <2>1, <3>1, <3>2, <3>3, <3>4
  <2> QED BY <2>2, <2>4, SoonerByKey
<1> QED
  BY <1>9, <1>10 DEF n, S

\* The list that inflate_table makes is in this order and holds every symbol.
LEMMA SortedIs ==
  ASSUME NEW ls \in Lists
  PROVE  /\ Cardinality(Coded(ls)) \in Nat
         /\ Sorted(ls) \in [1 .. Cardinality(Coded(ls)) -> Coded(ls)]
         /\ \A a, b \in 1 .. Cardinality(Coded(ls)) : a < b <=> Sooner(ls, Sorted(ls)[a], Sorted(ls)[b])
         /\ \A s \in Coded(ls) : \E a \in 1 .. Cardinality(Coded(ls)) : Sorted(ls)[a] = s
<1> DEFINE S == Coded(ls)
           n == Cardinality(S)
           Is(v) == \A a \in DOMAIN v : \A b \in a + 1 .. Len(v) :
                      ls[v[a]] < ls[v[b]] \/ (ls[v[a]] = ls[v[b]] /\ v[a] < v[b])
           w == Sorted(ls)
<1>1. IsFiniteSet(S) /\ n \in Nat
  BY SymbolsAre, FS_CardinalityType
<1>2. \A v \in [1 .. n -> S] : DOMAIN v = 1 .. n /\ Len(v) = n
  <2> HIDE DEF n, S
  <2> SUFFICES ASSUME NEW v \in [1 .. n -> S] PROVE DOMAIN v = 1 .. n /\ Len(v) = n
    OBVIOUS
  <2>1. v \in Seq(S)
    BY <1>1, SeqDef
  <2> QED BY <1>1, <2>1
<1>3. \E v \in [1 .. n -> S] : Is(v)
  <2>1. PICK v \in [1 .. n -> S] : \A a \in 1 .. n : \A b \in a + 1 .. n : Sooner(ls, v[a], v[b])
    BY SortedExists
  <2>2. Is(v)
    BY <1>2, <2>1 DEF Sooner
  <2> QED BY <2>2
<1>4. w \in [1 .. n -> S] /\ Is(w)
  <2>1. w = CHOOSE v \in [1 .. n -> S] : Is(v)
    BY DEF Sorted
  <2> HIDE DEF Is, w, n, S
  <2> QED BY <1>3, <2>1
<1> HIDE DEF w
<1>5. \A a \in 1 .. n : \A b \in a + 1 .. n : Sooner(ls, w[a], w[b])
  BY <1>2, <1>4 DEF Sooner
<1>6. \A a \in 1 .. n : w[a] \in S /\ w[a] \in Int /\ ls[w[a]] \in Int
  <2> SUFFICES ASSUME NEW a \in 1 .. n PROVE w[a] \in S /\ w[a] \in Int /\ ls[w[a]] \in Int
    OBVIOUS
  <2>1. w[a] \in S
    BY <1>4
  <2>2. w[a] \in 0 .. Symbols - 1 /\ ls[w[a]] \in 1 .. MAXBITS
    BY <2>1, SymbolsAre
  <2>3. Symbols \in Nat /\ MAXBITS \in Nat
    BY SymbolsAre
  <2> QED BY <2>1, <2>2, <2>3
<1>7. \A a, b \in 1 .. n : a < b <=> Sooner(ls, w[a], w[b])
  <2> SUFFICES ASSUME NEW a \in 1 .. n, NEW b \in 1 .. n PROVE a < b <=> Sooner(ls, w[a], w[b])
    OBVIOUS
  <2> HIDE DEF n
  <2>1. a < b => Sooner(ls, w[a], w[b])
    <3>1. a < b => b \in a + 1 .. n
      BY <1>1
    <3> QED BY <1>5, <3>1
  <2>2. b < a => Sooner(ls, w[b], w[a])
    <3>1. b < a => a \in b + 1 .. n
      BY <1>1
    <3> QED BY <1>5, <3>1
  <2>3. a \in Int /\ b \in Int
    BY <1>1
  <2>4. a = b => ~Sooner(ls, w[a], w[b])
    BY <1>6 DEF Sooner
  <2>5. Sooner(ls, w[b], w[a]) => ~Sooner(ls, w[a], w[b])
    BY <1>6 DEF Sooner
  <2> QED BY <2>1, <2>2, <2>3, <2>4, <2>5
<1>8. \A s \in S : \E a \in 1 .. n : w[a] = s
  <2>1. \A a, b \in 1 .. n : w[a] = w[b] => a = b
    <3> SUFFICES ASSUME NEW a \in 1 .. n, NEW b \in 1 .. n, w[a] = w[b] PROVE a = b
      OBVIOUS
    <3>1. ~Sooner(ls, w[a], w[b]) /\ ~Sooner(ls, w[b], w[a])
      BY <1>6 DEF Sooner
    <3> HIDE DEF n
    <3> QED BY <1>1, <1>7, <3>1
  <2>2. w \in Injection(1 .. n, S)
    BY <1>4, <2>1 DEF Injection, IsInjective
  <2>3. IsFiniteSet(1 .. n) /\ Cardinality(1 .. n) = n
    <3> HIDE DEF n
    <3>1. 1 \in Int /\ n \in Int
      BY <1>1
    <3>2. IsFiniteSet(1 .. n) /\ Cardinality(1 .. n) = IF 1 > n THEN 0 ELSE n - 1 + 1
      BY <3>1, FS_Interval
    <3> QED BY <1>1, <3>2
  <2>4. w \in Surjection(1 .. n, S)
    BY <1>1, <2>2, <2>3, FS_Injection
  <2> QED BY <2>4 DEF Surjection
<1> QED
  BY <1>1, <1>4, <1>7, <1>8 DEF w

-----------------------------------------------------------------------------
(* The numbers of the codes in this order.                                 *)

\* Within a length the codes are in the order of the symbols.
LEMMA NumbersInOrder ==
  ASSUME NEW ls \in Lists, NEW s \in Coded(ls), NEW t \in Coded(ls), ls[s] = ls[t]
  PROVE  s < t <=> NumberOf(ls, s) < NumberOf(ls, t)
<1> DEFINE C == {u \in DOMAIN ls : ls[u] = ls[s]}
           f == FirstCode(ls)[ls[s]]
           rank(u) == Cardinality(Before(C, u))
<1>1. ls[s] \in 1 .. MAXBITS /\ s \in DOMAIN ls /\ t \in DOMAIN ls /\ DOMAIN ls \subseteq Int /\ IsFiniteSet(DOMAIN ls)
  BY SymbolsAre DEF Alphabet
<1>2. C \in SUBSET (DOMAIN ls) /\ s \in C /\ t \in C
  BY <1>1
<1>3. IsFiniteSet(C) /\ C \subseteq Int
  <2> HIDE DEF C
  <2> QED BY <1>1, <1>2, FS_Subset
<1>4. f \in Nat
  <2>1. ls \in [0 .. Symbols - 1 -> 0 .. MAXBITS] /\ IsFiniteSet(0 .. Symbols - 1)
    BY SymbolsAre DEF Lists
  <2> QED BY <1>1, <2>1, UptoIs
<1>5. NumberOf(ls, s) = f + rank(s) /\ NumberOf(ls, t) = f + rank(t)
  BY DEF NumberOf
<1>6. /\ rank(s) \in Int /\ rank(t) \in Int
      /\ s < t => rank(s) < rank(t)
      /\ t < s => rank(t) < rank(s)
  <2> HIDE DEF C
  <2> DEFINE m == Cardinality(C)
  <2>1. rank(s) \in 0 .. m - 1 /\ rank(t) \in 0 .. m - 1
    BY <1>2, <1>3, Ranks
  <2>2. m \in Nat
    BY <1>3, FS_CardinalityType
  <2>3. s < t => rank(s) < rank(t)
    BY <1>2, <1>3, Ranks
  <2>4. t < s => rank(t) < rank(s)
    BY <1>2, <1>3, Ranks
  <2> HIDE DEF m, rank
  <2> QED BY <2>1, <2>2, <2>3, <2>4
<1>7. s \in Int /\ t \in Int
  BY <1>1
<1>8. s = t => rank(s) = rank(t)
  OBVIOUS
<1> HIDE DEF rank, f
<1> QED
  BY <1>4, <1>5, <1>6, <1>7, <1>8

\* The words that are given out to short codes are given out at every greater length.
LEMMA UptoGrows ==
  ASSUME NEW ls \in Lists, NEW l \in 1 .. MAXBITS
  PROVE  \A e \in Nat : l + e <= MAXBITS =>
            /\ Upto(ls, l) * 2^e <= Upto(ls, l + e)
            /\ (\A m \in l + 1 .. l + e : CountOf(ls, m) = 0) => Upto(ls, l + e) = Upto(ls, l) * 2^e
<1> DEFINE a == Upto(ls, l)
           P(e) == l + e <= MAXBITS =>
                      /\ a * 2^e <= Upto(ls, l + e)
                      /\ (\A m \in l + 1 .. l + e : CountOf(ls, m) = 0) => Upto(ls, l + e) = a * 2^e
           T == {e \in Nat : P(e)}
<1>1. ls \in [0 .. Symbols - 1 -> 0 .. MAXBITS] /\ IsFiniteSet(0 .. Symbols - 1) /\ MAXBITS \in Nat
  BY SymbolsAre DEF Lists
<1>2. \A m \in 1 .. MAXBITS : /\ FirstCode(ls)[m] \in Nat /\ Upto(ls, m) \in Nat
                              /\ m < MAXBITS => FirstCode(ls)[m + 1] = 2 * Upto(ls, m)
  BY <1>1, UptoIs
<1>3. \A m : CountOf(ls, m) \in Nat
  BY <1>1, CountType
<1>4. a \in Nat
  BY <1>2
<1>5. 0 \in T
  <2>1. l + 0 = l
    BY <1>1
  <2> HIDE DEF a
  <2>2. a * 2^0 = a
    BY <1>4, PowerZero
  <2> QED BY <1>4, <2>1, <2>2 DEF a
<1>6. ASSUME NEW e \in T PROVE e + 1 \in T
  <2> SUFFICES ASSUME l + (e + 1) <= MAXBITS
               PROVE  /\ a * 2^(e + 1) <= Upto(ls, l + (e + 1))
                      /\ (\A m \in l + 1 .. l + (e + 1) : CountOf(ls, m) = 0) => Upto(ls, l + (e + 1)) = a * 2^(e + 1)
    OBVIOUS
  <2> DEFINE p == 2^e
             k == l + e
  <2>1. e \in Nat /\ P(e) /\ k \in 1 .. MAXBITS /\ k < MAXBITS /\ l + (e + 1) = k + 1 /\ k + 1 \in 1 .. MAXBITS /\ l + e <= MAXBITS
    BY <1>1
  <2>2. p \in Nat /\ 2^(e + 1) = 2 * p
    BY <2>1, PowerPositive, PowerDoubles
  <2>3. a * p <= Upto(ls, k) /\ ((\A m \in l + 1 .. k : CountOf(ls, m) = 0) => Upto(ls, k) = a * p)
    BY <2>1
  <2>4. Upto(ls, k + 1) = 2 * Upto(ls, k) + CountOf(ls, k + 1)
    BY <1>2, <2>1 DEF Upto
  <2>5. a * (2 * p) = 2 * (a * p) /\ a * p \in Nat
    <3> HIDE DEF a, p
    <3> QED BY <1>4, <2>2
  <2>6. Upto(ls, k) \in Nat /\ CountOf(ls, k + 1) \in Nat
    BY <1>2, <1>3, <2>1
  <2>7. (\A m \in l + 1 .. l + (e + 1) : CountOf(ls, m) = 0) => CountOf(ls, k + 1) = 0 /\ \A m \in l + 1 .. k : CountOf(ls, m) = 0
    BY <2>1
  <2> DEFINE u == Upto(ls, k)
             c == CountOf(ls, k + 1)
             ap == a * p
             v == Upto(ls, k + 1)
  <2>8. v = 2 * u + c /\ u \in Nat /\ c \in Nat /\ ap \in Nat /\ ap <= u /\ a * 2^(e + 1) = 2 * ap
    BY <2>2, <2>3, <2>4, <2>5, <2>6
  <2>9. (\A m \in l + 1 .. l + (e + 1) : CountOf(ls, m) = 0) => c = 0 /\ u = ap
    BY <2>3, <2>7
  <2>10. Upto(ls, l + (e + 1)) = v
    BY <2>1
  <2> HIDE DEF u, c, ap, v, a
  <2> QED
    BY <2>8, <2>9, <2>10
<1> HIDE DEF T, P
<1>7. T \in SUBSET Nat
  BY DEF T
<1>8. T = Nat
  BY <1>5, <1>6, <1>7, Counting
<1> QED
  BY <1>8 DEF T, P, a

\* The first code of a length lies behind all shorter ones.
LEMMA FirstCodeAfter ==
  ASSUME NEW ls \in Lists, NEW l \in 1 .. MAXBITS, NEW k \in 1 .. MAXBITS, l < k
  PROVE  /\ Upto(ls, l) * 2^(k - l) <= FirstCode(ls)[k]
         /\ (\A m \in l + 1 .. k - 1 : CountOf(ls, m) = 0) => FirstCode(ls)[k] = Upto(ls, l) * 2^(k - l)
<1> DEFINE e == k - 1 - l
           a == Upto(ls, l)
           p == 2^e
<1>0. MAXBITS \in Nat
  BY SymbolsAre
<1>1. e \in Nat /\ l + e <= MAXBITS /\ l + e = k - 1 /\ k - l = e + 1 /\ k - 1 \in 1 .. MAXBITS /\ k - 1 < MAXBITS /\ (k - 1) + 1 = k
  BY <1>0
<1>2. /\ a * p <= Upto(ls, k - 1)
      /\ (\A m \in l + 1 .. k - 1 : CountOf(ls, m) = 0) => Upto(ls, k - 1) = a * p
  <2> HIDE DEF e
  <2> QED BY <1>1, UptoGrows
<1>3. a \in Nat /\ Upto(ls, k - 1) \in Nat /\ FirstCode(ls)[k] = 2 * Upto(ls, k - 1)
  <2>1. ls \in [0 .. Symbols - 1 -> 0 .. MAXBITS] /\ IsFiniteSet(0 .. Symbols - 1)
    BY SymbolsAre DEF Lists
  <2> QED BY <1>1, <2>1, UptoIs
<1>4. p \in Nat /\ 2^(k - l) = 2 * p
  <2> HIDE DEF e
  <2> QED BY <1>1, PowerPositive, PowerDoubles
<1> DEFINE u == Upto(ls, k - 1)
<1> HIDE DEF a, p, u, e
<1>5. a * (2 * p) = 2 * (a * p) /\ a * p \in Nat
  BY <1>3, <1>4 DEF u
<1> QED
  BY <1>2, <1>3, <1>4, <1>5 DEF a, u

\* The shortest code.
LEMMA ShortestIs ==
  ASSUME NEW ls \in Lists, Longest(ls) # 0
  PROVE  /\ Shortest(ls) \in 1 .. Longest(ls) /\ CountOf(ls, Shortest(ls)) # 0
         /\ \A k \in 1 .. Shortest(ls) - 1 : CountOf(ls, k) = 0
<1> DEFINE T == {n \in Nat : n >= 1 /\ CountOf(ls, n) # 0}
           Is(l) == /\ l = Longest(ls) \/ CountOf(ls, l) # 0
                    /\ \A k \in 1 .. l - 1 : CountOf(ls, k) = 0
<1>1. /\ Longest(ls) \in 1 .. MAXBITS /\ CountOf(ls, Longest(ls)) # 0 /\ MAXBITS \in Nat
  <2>1. ls \in [0 .. Symbols - 1 -> 0 .. MAXBITS] /\ IsFiniteSet(0 .. Symbols - 1) /\ MAXBITS \in Nat
    BY SymbolsAre DEF Lists
  <2>2. Longest(ls) \in 0 .. MAXBITS /\ (Longest(ls) = 0 \/ CountOf(ls, Longest(ls)) # 0)
    BY <2>1, LongestIs
  <2> QED BY <2>1, <2>2
<1>2. T \in SUBSET Nat /\ Longest(ls) \in T
  BY <1>1
<1>3. PICK l \in T : \A m \in T : l <= m
  <2> HIDE DEF T
  <2> QED BY <1>2, LeastNumber
<1>4. l \in 1 .. Longest(ls) /\ l \in 1 .. MAXBITS /\ CountOf(ls, l) # 0
  BY <1>1, <1>2, <1>3
<1>5. \A k \in 1 .. l - 1 : CountOf(ls, k) = 0
  BY <1>3, <1>4
<1>6. Is(l)
  BY <1>4, <1>5
<1>7. Shortest(ls) = CHOOSE k \in 1 .. MAXBITS : Is(k)
  BY DEF Shortest
<1>8. Shortest(ls) \in 1 .. MAXBITS /\ Is(Shortest(ls))
  <2> HIDE DEF Is
  <2> QED BY <1>4, <1>6, <1>7
<1> DEFINE s == Shortest(ls)
<1> HIDE DEF s
<1>9. s \in 1 .. MAXBITS /\ CountOf(ls, s) # 0 /\ \A k \in 1 .. s - 1 : CountOf(ls, k) = 0
  BY <1>1, <1>8 DEF s
<1>10. s <= Longest(ls)
  BY <1>1, <1>9
<1> QED
  BY <1>1, <1>9, <1>10 DEF s

\* A length that is used has a symbol.
LEMMA CodeOfLength ==
  ASSUME NEW ls \in Lists, NEW l \in 1 .. MAXBITS
  PROVE  /\ (\E s \in Coded(ls) : ls[s] = l) <=> CountOf(ls, l) # 0
         /\ CountOf(ls, l) # 0 => FirstCode(ls)[l] < Upto(ls, l)
         /\ \A s \in Coded(ls) : ls[s] <= Longest(ls)
<1>1. ls \in [0 .. Symbols - 1 -> 0 .. MAXBITS] /\ IsFiniteSet(0 .. Symbols - 1) /\ MAXBITS \in Nat
  BY SymbolsAre DEF Lists
<1>2. \A k : CountOf(ls, k) \in Nat /\ IsFiniteSet({s \in 0 .. Symbols - 1 : ls[s] = k})
  BY <1>1, CountType
<1>3. ASSUME NEW k \in 1 .. MAXBITS PROVE (\E s \in Coded(ls) : ls[s] = k) <=> CountOf(ls, k) # 0
  <2> DEFINE C == {s \in 0 .. Symbols - 1 : ls[s] = k}
  <2>1. IsFiniteSet(C) /\ CountOf(ls, k) = Cardinality(C)
    BY <1>1, <1>2 DEF CountOf
  <2>2. C = {} <=> Cardinality(C) = 0
    BY <2>1, FS_EmptySet
  <2>3. (\E s \in Coded(ls) : ls[s] = k) <=> C # {}
    <3>1. k # 0
      BY <1>1
    <3> QED BY <1>1, <3>1 DEF Coded
  <2> QED BY <2>1, <2>2, <2>3
<1>4. FirstCode(ls)[l] \in Nat
  BY <1>1, UptoIs
<1>5. CountOf(ls, l) # 0 => FirstCode(ls)[l] < Upto(ls, l)
  <2> DEFINE f == FirstCode(ls)[l]
             c == CountOf(ls, l)
  <2>1. f \in Nat /\ c \in Nat /\ Upto(ls, l) = f + c
    BY <1>2, <1>4 DEF Upto
  <2> HIDE DEF f, c
  <2>2. c # 0 => f < f + c
    BY <2>1
  <2> QED BY <2>1, <2>2 DEF f, c
<1>6. ASSUME NEW s \in Coded(ls) PROVE ls[s] <= Longest(ls)
  <2>1. ls[s] \in 1 .. MAXBITS
    BY SymbolsAre
  <2>2. CountOf(ls, ls[s]) # 0
    BY <1>3, <2>1
  <2>3. Longest(ls) \in 0 .. MAXBITS /\ \A k \in Longest(ls) + 1 .. MAXBITS : CountOf(ls, k) = 0
    BY <1>1, LongestIs
  <2> QED BY <1>1, <2>1, <2>2, <2>3
<1> QED
  BY <1>3, <1>5, <1>6

\* Before the shortest length no word is given out.
LEMMA NothingShorter ==
  ASSUME NEW ls \in Lists, NEW l \in 1 .. MAXBITS, \A k \in 1 .. l - 1 : CountOf(ls, k) = 0
  PROVE  FirstCode(ls)[l] = 0
<1>1. ls \in [0 .. Symbols - 1 -> 0 .. MAXBITS] /\ IsFiniteSet(0 .. Symbols - 1) /\ MAXBITS \in Nat
  BY SymbolsAre DEF Lists
<1>2. FirstCode(ls)[1] = 0
  BY <1>1, UptoIs
<1>3. CASE l = 1
  BY <1>2, <1>3
<1>4. CASE l # 1
  <2>1. 1 \in 1 .. MAXBITS /\ 1 < l /\ 1 \in 1 .. l - 1
    BY <1>1, <1>4
  <2>2. Upto(ls, 1) = 0
    BY <1>2, <2>1 DEF Upto
  <2>3. \A m \in 1 + 1 .. l - 1 : CountOf(ls, m) = 0
    BY <1>1
  <2>4. FirstCode(ls)[l] = Upto(ls, 1) * 2^(l - 1)
    BY <2>1, <2>3, FirstCodeAfter
  <2>5. 2^(l - 1) \in Nat
    <3>1. l - 1 \in Nat
      BY <1>1
    <3> QED BY <3>1, PowerPositive
  <2> QED BY <2>2, <2>4, <2>5
<1> QED BY <1>3, <1>4

\* The first symbol of the list has the first code of the shortest length.
LEMMA FirstSymbol ==
  ASSUME NEW ls \in Lists, Longest(ls) # 0
  PROVE  /\ Cardinality(Coded(ls)) >= 1
         /\ ls[Sorted(ls)[1]] = Shortest(ls) /\ NumberOf(ls, Sorted(ls)[1]) = 0
<1> DEFINE n == Cardinality(Coded(ls))
           w == Sorted(ls)
           l == Shortest(ls)
<1>1. l \in 1 .. Longest(ls) /\ CountOf(ls, l) # 0 /\ \A k \in 1 .. l - 1 : CountOf(ls, k) = 0
  BY ShortestIs
<1>2. l \in 1 .. MAXBITS /\ MAXBITS \in Nat
  <2>1. ls \in [0 .. Symbols - 1 -> 0 .. MAXBITS] /\ IsFiniteSet(0 .. Symbols - 1) /\ MAXBITS \in Nat
    BY SymbolsAre DEF Lists
  <2>2. Longest(ls) \in 0 .. MAXBITS
    BY <2>1, LongestIs
  <2> HIDE DEF l
  <2> QED BY <1>1, <2>1, <2>2
<1> HIDE DEF l
<1>3. /\ n \in Nat /\ w \in [1 .. n -> Coded(ls)]
      /\ \A a, b \in 1 .. n : a < b <=> Sooner(ls, w[a], w[b])
      /\ \A s \in Coded(ls) : \E a \in 1 .. n : w[a] = s
  BY SortedIs
<1> HIDE DEF n, w
<1>4. FirstCode(ls)[l] = 0
  BY <1>1, <1>2, NothingShorter
<1>5. FirstCode(ls)[l] < Upto(ls, l)
  BY <1>1, <1>2, CodeOfLength
<1>6. PICK s \in Coded(ls) : ls[s] = l /\ NumberOf(ls, s) = 0
  <2>1. Alphabet(0 .. Symbols - 1) /\ ls \in [0 .. Symbols - 1 -> 0 .. MAXBITS]
    BY SymbolsAre DEF Lists
  <2>2. 0 \in Nat /\ FirstCode(ls)[l] <= 0 /\ 0 < Upto(ls, l)
    BY <1>4, <1>5
  <2> QED BY <1>2, <2>1, <2>2, SymbolOfNumber
<1>7. PICK a \in 1 .. n : w[a] = s
  BY <1>3
<1>8. n >= 1 /\ 1 \in 1 .. n /\ w[1] \in Coded(ls)
  BY <1>3, <1>7
<1>9. a = 1
  <2> SUFFICES ASSUME a # 1 PROVE FALSE
    OBVIOUS
  <2>1. 1 < a
    BY <1>3, <1>7
  <2>2. Sooner(ls, w[1], s)
    BY <1>3, <1>7, <1>8, <2>1
  <2>3. ls[w[1]] \in 1 .. MAXBITS /\ CountOf(ls, ls[w[1]]) # 0
    <3>1. ls[w[1]] \in 1 .. MAXBITS
      BY <1>8, SymbolsAre
    <3> QED BY <1>8, <3>1, CodeOfLength
  <2>4. ~(ls[w[1]] < l)
    BY <1>1, <1>2, <2>3
  <2>5. ls[w[1]] = l /\ w[1] < s
    BY <1>2, <1>6, <2>2, <2>3, <2>4 DEF Sooner
  <2>6. NumberOf(ls, w[1]) < 0
    BY <1>6, <1>8, <2>5, NumbersInOrder
  <2>7. NumberOf(ls, w[1]) \in Nat
    <3>1. Alphabet(0 .. Symbols - 1) /\ ls \in [0 .. Symbols - 1 -> 0 .. MAXBITS]
      BY SymbolsAre DEF Lists
    <3> QED BY <1>8, <3>1, SymbolWord
  <2> QED BY <2>6, <2>7
<1> QED
  BY <1>6, <1>7, <1>8, <1>9 DEF n, w, l

\* The symbol behind another has the next code of its length or, behind the last of
\* them, the first one of the next length that is used.
LEMMA NextSymbol ==
  ASSUME NEW ls \in Lists, NEW a \in 1 .. Cardinality(Coded(ls))
  PROVE  LET w == Sorted(ls)
             s == w[a]
             t == w[a + 1]
         IN /\ NumberOf(ls, s) + 1 <= Upto(ls, ls[s])
            /\ ~(NumberOf(ls, s) + 1 = Upto(ls, ls[s]) /\ ls[s] = Longest(ls)) =>
                  /\ a + 1 \in 1 .. Cardinality(Coded(ls)) /\ t \in Coded(ls)
            /\ NumberOf(ls, s) + 1 # Upto(ls, ls[s]) =>
                  ls[t] = ls[s] /\ NumberOf(ls, t) = NumberOf(ls, s) + 1
            /\ NumberOf(ls, s) + 1 = Upto(ls, ls[s]) /\ ls[s] # Longest(ls) =>
                  /\ ls[t] > ls[s] /\ NumberOf(ls, t) = FirstCode(ls)[ls[t]]
                  /\ \A k \in ls[s] + 1 .. ls[t] - 1 : CountOf(ls, k) = 0
<1> DEFINE n == Cardinality(Coded(ls))
           w == Sorted(ls)
           s == w[a]
           t == w[a + 1]
           l == ls[s]
           N(u) == NumberOf(ls, u)
<1>1. /\ n \in Nat /\ w \in [1 .. n -> Coded(ls)]
      /\ \A b, c \in 1 .. n : b < c <=> Sooner(ls, w[b], w[c])
      /\ \A u \in Coded(ls) : \E b \in 1 .. n : w[b] = u
  BY SortedIs
<1>2. ls \in [0 .. Symbols - 1 -> 0 .. MAXBITS] /\ IsFiniteSet(0 .. Symbols - 1) /\ MAXBITS \in Nat /\ Alphabet(0 .. Symbols - 1)
  BY SymbolsAre DEF Lists
<1>3. \A u \in Coded(ls) : /\ ls[u] \in 1 .. MAXBITS /\ ls[u] \in Int /\ u \in Int /\ N(u) \in Nat /\ N(u) < Upto(ls, ls[u])
                           /\ FirstCode(ls)[ls[u]] <= N(u) /\ ls[u] <= Longest(ls)
                           /\ CountOf(ls, ls[u]) # 0
  <2> SUFFICES ASSUME NEW u \in Coded(ls)
               PROVE  /\ ls[u] \in 1 .. MAXBITS /\ ls[u] \in Int /\ u \in Int /\ N(u) \in Nat /\ N(u) < Upto(ls, ls[u])
                      /\ FirstCode(ls)[ls[u]] <= N(u) /\ ls[u] <= Longest(ls)
                      /\ CountOf(ls, ls[u]) # 0
    OBVIOUS
  <2>1. ls[u] \in 1 .. MAXBITS /\ u \in 0 .. Symbols - 1
    BY SymbolsAre
  <2>2. N(u) \in Nat /\ N(u) < Upto(ls, ls[u]) /\ FirstCode(ls)[ls[u]] <= N(u)
    BY <1>2, SymbolWord
  <2>3. ls[u] <= Longest(ls) /\ CountOf(ls, ls[u]) # 0
    BY <2>1, CodeOfLength
  <2> HIDE DEF N
  <2> QED BY <1>2, <2>1, <2>2, <2>3
<1>4. \A k \in 1 .. MAXBITS : Upto(ls, k) \in Nat /\ FirstCode(ls)[k] \in Nat
  BY <1>2, UptoIs
<1>5. \A u, v \in Coded(ls) : ls[u] = ls[v] => (u < v <=> N(u) < N(v))
  BY NumbersInOrder
<1>6. \A k \in 1 .. MAXBITS : \A m \in Nat :
        FirstCode(ls)[k] <= m /\ m < Upto(ls, k) => \E u \in Coded(ls) : ls[u] = k /\ N(u) = m
  BY <1>2, SymbolOfNumber
<1>7. \A k \in 1 .. MAXBITS : /\ (\E u \in Coded(ls) : ls[u] = k) <=> CountOf(ls, k) # 0
                              /\ CountOf(ls, k) # 0 => FirstCode(ls)[k] < Upto(ls, k)
  BY CodeOfLength
<1> HIDE DEF n, w, N
<1>8. s \in Coded(ls) /\ a \in 1 .. n /\ a \in Int
  BY <1>1 DEF n
<1>9. N(s) + 1 <= Upto(ls, l) /\ l \in 1 .. MAXBITS /\ N(s) \in Nat
  <2>1. N(s) < Upto(ls, l) /\ l \in 1 .. MAXBITS /\ N(s) \in Nat
    BY <1>3, <1>8
  <2>2. Upto(ls, l) \in Nat
    BY <1>4, <2>1
  <2> HIDE DEF s, l
  <2> QED BY <2>1, <2>2
\* What comes later than s comes no sooner than t.
<1>10. ASSUME NEW u \in Coded(ls), Sooner(ls, s, u)
       PROVE  a + 1 \in 1 .. n /\ t \in Coded(ls) /\ Sooner(ls, s, t) /\ (u = t \/ Sooner(ls, t, u))
  <2>1. PICK b \in 1 .. n : w[b] = u
    BY <1>1
  <2>2. a < b
    BY <1>1, <1>8, <1>10, <2>1
  <2>3. a + 1 \in 1 .. n /\ a < a + 1 /\ (b = a + 1 \/ a + 1 < b)
    BY <1>1, <1>8, <2>1, <2>2
  <2>4. t \in Coded(ls) /\ Sooner(ls, s, t)
    BY <1>1, <1>8, <2>3
  <2>5. u = t \/ Sooner(ls, t, u)
    BY <1>1, <2>1, <2>3
  <2> QED BY <2>3, <2>4, <2>5
<1> HIDE DEF t, s
<1>11. CASE N(s) + 1 # Upto(ls, l)
  <2>1. PICK u \in Coded(ls) : ls[u] = l /\ N(u) = N(s) + 1
    <3>1. FirstCode(ls)[l] <= N(s) /\ FirstCode(ls)[l] \in Nat /\ Upto(ls, l) \in Nat
      BY <1>3, <1>4, <1>8, <1>9
    <3> DEFINE f == FirstCode(ls)[l]
               m == N(s) + 1
               v == Upto(ls, l)
    <3>2. m \in Nat /\ f <= m /\ m < v
      BY <1>9, <1>11, <3>1
    <3> HIDE DEF m
    <3>3. \E u \in Coded(ls) : ls[u] = l /\ N(u) = m
      BY <1>6, <1>9, <3>2
    <3> QED BY <3>3 DEF m
  <2>2. Sooner(ls, s, u)
    <3>1. s < u
      BY <1>5, <1>8, <1>9, <2>1
    <3> QED BY <2>1, <3>1 DEF Sooner
  <2>3. a + 1 \in 1 .. n /\ t \in Coded(ls) /\ Sooner(ls, s, t) /\ (u = t \/ Sooner(ls, t, u))
    BY <1>10, <2>2
  <2>4. u = t
    <3> SUFFICES ASSUME u # t PROVE FALSE
      OBVIOUS
    <3>1. Sooner(ls, t, u) /\ Sooner(ls, s, t)
      BY <2>3
    <3>2. ls[t] \in Int /\ l \in Int
      BY <1>3, <1>9, <2>3
    <3>3. ls[t] = l /\ s < t /\ t < u
      BY <2>1, <3>1, <3>2 DEF Sooner
    <3>4. N(s) < N(t) /\ N(t) < N(u)
      BY <1>5, <1>8, <2>1, <2>3, <3>3
    <3>5. N(t) \in Nat
      BY <1>3, <2>3
    <3> QED BY <1>9, <2>1, <3>4, <3>5
  <2> QED BY <1>9, <1>11, <2>1, <2>3, <2>4 DEF s, t, N, n, w
<1>12. CASE N(s) + 1 = Upto(ls, l) /\ l # Longest(ls)
  <2>1. PICK u \in Coded(ls) : ls[u] = Longest(ls)
    <3>1. Longest(ls) \in 0 .. MAXBITS /\ (Longest(ls) = 0 \/ CountOf(ls, Longest(ls)) # 0)
      BY <1>2, LongestIs
    <3>2. l <= Longest(ls)
      BY <1>3, <1>8
    <3>3. Longest(ls) \in 1 .. MAXBITS
      BY <1>2, <1>9, <3>1, <3>2
    <3> QED BY <1>2, <1>7, <3>1, <3>3
  <2>2. Sooner(ls, s, u)
    <3>1. l <= Longest(ls) /\ ls[u] \in Int
      BY <1>3, <1>8
    <3> QED BY <1>9, <1>12, <2>1, <3>1 DEF Sooner
  <2>3. a + 1 \in 1 .. n /\ t \in Coded(ls) /\ Sooner(ls, s, t)
    BY <1>10, <2>2
  <2>4. ls[t] > l
    <3> SUFFICES ASSUME ~(ls[t] > l) PROVE FALSE
      OBVIOUS
    <3>1. ls[t] \in Int /\ l \in Int
      BY <1>3, <1>9, <2>3
    <3>2. ls[t] = l /\ s < t
      BY <2>3, <3>1 DEF Sooner
    <3>3. N(s) < N(t) /\ N(t) < Upto(ls, l) /\ N(t) \in Nat
      BY <1>3, <1>5, <1>8, <2>3, <3>2
    <3> QED BY <1>9, <1>12, <3>3
  <2>5. ls[t] \in 1 .. MAXBITS /\ CountOf(ls, ls[t]) # 0 /\ FirstCode(ls)[ls[t]] <= N(t) /\ N(t) \in Nat
    BY <1>3, <2>3
  <2>6. N(t) = FirstCode(ls)[ls[t]]
    <3> DEFINE f == FirstCode(ls)[ls[t]]
    <3>1. f < Upto(ls, ls[t]) /\ f \in Nat /\ f <= f
      BY <1>4, <1>7, <2>5
    <3> HIDE DEF f
    <3>2. PICK v \in Coded(ls) : ls[v] = ls[t] /\ N(v) = f
      BY <1>6, <2>5, <3>1 DEF f
    <3>3. Sooner(ls, s, v)
      BY <2>4, <3>2 DEF Sooner
    <3>4. v = t \/ Sooner(ls, t, v)
      BY <1>10, <3>3
    <3>5. v = t \/ t < v
      BY <2>5, <3>2, <3>4 DEF Sooner
    <3>6. v = t \/ N(t) < f
      BY <1>5, <2>3, <3>2, <3>5
    <3> QED BY <2>5, <3>1, <3>2, <3>6 DEF f
  <2>7. ASSUME NEW k \in l + 1 .. ls[t] - 1 PROVE CountOf(ls, k) = 0
    <3> SUFFICES ASSUME CountOf(ls, k) # 0 PROVE FALSE
      OBVIOUS
    <3>1. k \in 1 .. MAXBITS /\ l < k /\ k < ls[t] /\ k \in Int
      BY <1>2, <1>9, <2>5
    <3>2. PICK v \in Coded(ls) : ls[v] = k
      BY <1>7, <3>1
    <3>3. Sooner(ls, s, v)
      BY <3>1, <3>2 DEF Sooner
    <3>4. v = t \/ Sooner(ls, t, v)
      BY <1>10, <3>3
    <3> QED BY <2>5, <3>1, <3>2, <3>4 DEF Sooner
  <2> QED BY <1>9, <1>12, <2>3, <2>4, <2>6, <2>7 DEF s, t, N, n, w
<1>13. CASE N(s) + 1 = Upto(ls, l) /\ l = Longest(ls)
  BY <1>9, <1>13 DEF s, t, N, n, w
<1> QED
  BY <1>11, <1>12, <1>13

-----------------------------------------------------------------------------
(* The size of a sub-table.                                                *)

\* What Width computes for a size: the room that the codes still to come leave.
RoomStep(l, d, cnt, f) == [c \in l - d .. Longest(lens) - d |->
                             IF c = l - d THEN 2^c - cnt[l] ELSE 2 * f[c - 1] - cnt[c + d]]

\* A sub-table for the code c of l bits behind d of them takes in every code that begins
\* with the same d bits: there are none longer, or they are used up at its size.
LEMMA WidthIs ==
  ASSUME lens \in Lists, NEW d \in Nat, NEW l \in d + 1 .. Longest(lens), NEW c \in Nat, NEW cnt,
         cnt[l] = Upto(lens, l) - c, \A k \in l + 1 .. Longest(lens) : cnt[k] = CountOf(lens, k)
  PROVE  LET w == Width(l, d, cnt)
         IN /\ w \in l - d .. Longest(lens) - d
            /\ w = Longest(lens) - d \/ 2^w + c * 2^(w + d - l) <= Upto(lens, w + d)
<1> DEFINE a == l - d
           b == Longest(lens) - d
           R == [x \in a .. b |-> 2^x - (Upto(lens, x + d) - c * 2^(x + d - l))]
<1>1. lens \in [0 .. Symbols - 1 -> 0 .. MAXBITS] /\ IsFiniteSet(0 .. Symbols - 1) /\ MAXBITS \in Nat
  BY SymbolsAre DEF Lists
<1>2. /\ Longest(lens) \in 1 .. MAXBITS /\ l \in Nat /\ a \in Nat /\ b \in Nat /\ a >= 1 /\ a <= b
      /\ Longest(lens) \in Nat
  <2>1. Longest(lens) \in 0 .. MAXBITS
    BY <1>1, LongestIs
  <2> QED BY <1>1, <2>1
<1>3. \A x \in a .. b : /\ x \in Nat /\ x + d \in l .. Longest(lens) /\ x + d \in 1 .. MAXBITS /\ x + d - l \in Nat
                        /\ x # a => x - 1 \in a .. b /\ (x - 1) + d = (x + d) - 1 /\ x + d \in l + 1 .. Longest(lens)
  BY <1>1, <1>2
<1>4. \A x \in a .. b : /\ Upto(lens, x + d) \in Nat /\ 2^x \in Nat /\ c * 2^(x + d - l) \in Nat
                        /\ R[x] = 2^x - (Upto(lens, x + d) - c * 2^(x + d - l)) /\ R[x] \in Int
  <2> SUFFICES ASSUME NEW x \in a .. b
               PROVE  /\ Upto(lens, x + d) \in Nat /\ 2^x \in Nat /\ c * 2^(x + d - l) \in Nat
                      /\ R[x] = 2^x - (Upto(lens, x + d) - c * 2^(x + d - l)) /\ R[x] \in Int
    OBVIOUS
  <2>1. Upto(lens, x + d) \in Nat
    BY <1>1, <1>3, UptoIs
  <2>2. 2^x \in Nat /\ 2^(x + d - l) \in Nat
    BY <1>3, PowerPositive
  <2>3. c * 2^(x + d - l) \in Nat
    <3> DEFINE p == 2^(x + d - l)
    <3> HIDE DEF p
    <3>1. p \in Nat
      BY <2>2 DEF p
    <3>2. c * p \in Nat
      BY <3>1
    <3> QED BY <3>2 DEF p
  <2>4. R[x] = 2^x - (Upto(lens, x + d) - c * 2^(x + d - l))
    OBVIOUS
  <2> DEFINE u == 2^x
             v == Upto(lens, x + d)
             q == c * 2^(x + d - l)
  <2>5. u \in Nat /\ v \in Nat /\ q \in Nat /\ R[x] = u - (v - q)
    BY <2>1, <2>2, <2>3, <2>4
  <2> HIDE DEF u, v, q
  <2>6. R[x] \in Int
    BY <2>5
  <2> QED BY <2>1, <2>2, <2>3, <2>4, <2>6
<1>5. R[a] = 2^a - cnt[l]
  <2>1. a \in a .. b /\ a + d = l /\ a + d - l = 0
    BY <1>2
  <2>2. R[a] = 2^a - (Upto(lens, a + d) - c * 2^(a + d - l))
    BY <1>4, <2>1
  <2>3. c * 2^(a + d - l) = c
    BY <2>1, PowerZero
  <2> HIDE DEF R, a
  <2> QED BY <2>1, <2>2, <2>3
<1>6. ASSUME NEW x \in a .. b, x # a PROVE R[x] = 2 * R[x - 1] - cnt[x + d]
  <2> DEFINE y == x - 1
             k == x + d - l
             e == (x - 1) + d - l
  <2>1. y \in a .. b /\ x = y + 1 /\ y + d = (x + d) - 1 /\ x + d \in l + 1 .. Longest(lens) /\ y + d \in 1 .. MAXBITS /\ y \in Nat
        /\ e \in Nat /\ k = e + 1 /\ x + d = (y + d) + 1 /\ y + d < MAXBITS /\ x + d \in 1 .. MAXBITS
    BY <1>1, <1>2, <1>3, <1>6
  <2>2. 2^x = 2 * 2^y /\ 2^y \in Nat /\ 2^k = 2 * 2^e /\ 2^e \in Nat
    <3> HIDE DEF y, k, e
    <3> QED BY <2>1, PowerDoubles, PowerPositive
  <2>3. Upto(lens, x + d) = 2 * Upto(lens, y + d) + CountOf(lens, x + d) /\ Upto(lens, y + d) \in Nat
    <3>1. FirstCode(lens)[(y + d) + 1] = 2 * Upto(lens, y + d) /\ Upto(lens, y + d) \in Nat
      <4> HIDE DEF y
      <4> QED BY <1>1, <2>1, UptoIs
    <3>2. Upto(lens, x + d) = FirstCode(lens)[x + d] + CountOf(lens, x + d)
      BY DEF Upto
    <3> HIDE DEF y
    <3> QED BY <2>1, <3>1, <3>2
  <2>4. cnt[x + d] = CountOf(lens, x + d) /\ CountOf(lens, x + d) \in Nat
    BY <1>1, <2>1, CountType
  <2>5. R[x] = 2^x - (Upto(lens, x + d) - c * 2^k) /\ R[y] = 2^y - (Upto(lens, y + d) - c * 2^e)
    BY <1>4, <2>1
  <2> DEFINE p == 2^y
             u == Upto(lens, y + d)
             z == CountOf(lens, x + d)
             q == 2^e
             Rx == R[x]
             Ry == R[y]
  <2>6. p \in Nat /\ u \in Nat /\ z \in Nat /\ q \in Nat /\ Ry = p - (u - c * q) /\ Rx = 2 * p - ((2 * u + z) - c * (2 * q))
    BY <2>2, <2>3, <2>4, <2>5
  <2> HIDE DEF p, u, z, q, Rx, Ry
  <2>7. c * (2 * q) = 2 * (c * q) /\ c * q \in Nat
    BY <2>6
  <2>8. Rx = 2 * Ry - z
    BY <2>6, <2>7
  <2> QED BY <2>4, <2>8 DEF Rx, Ry, z
<1>7. R = RoomStep(l, d, cnt, R)
  <2>1. \A x \in a .. b : R[x] = IF x = a THEN 2^x - cnt[l] ELSE 2 * R[x - 1] - cnt[x + d]
    BY <1>5, <1>6
  <2>2. R = [x \in a .. b |-> R[x]]
    OBVIOUS
  <2> HIDE DEF R
  <2> QED BY <2>1, <2>2 DEF RoomStep
<1> DEFINE room == CHOOSE f : f = RoomStep(l, d, cnt, f)
<1>8. room = RoomStep(l, d, cnt, room)
  <2> HIDE DEF R
  <2> QED BY <1>7
<1> HIDE DEF room, R
<1>9. /\ room[a] = R[a]
      /\ \A x \in a .. b : x # a => room[x] = 2 * room[x - 1] - cnt[x + d]
  <2>1. \A x \in a .. b : room[x] = IF x = a THEN 2^x - cnt[l] ELSE 2 * room[x - 1] - cnt[x + d]
    BY <1>8 DEF RoomStep
  <2>2. a \in a .. b
    BY <1>2
  <2> QED BY <1>5, <2>1, <2>2
<1>10. \A x \in a .. b : room[x] = R[x]
  <2> DEFINE T == {e \in Nat : a + e <= b => room[a + e] = R[a + e]}
  <2>1. 0 \in T
    <3>1. a + 0 = a
      BY <1>2
    <3> QED BY <1>9, <3>1
  <2>2. ASSUME NEW e \in T PROVE e + 1 \in T
    <3> SUFFICES ASSUME a + (e + 1) <= b PROVE room[a + (e + 1)] = R[a + (e + 1)]
      OBVIOUS
    <3> DEFINE x == a + (e + 1)
    <3>1. e \in Nat /\ x \in a .. b /\ x # a /\ x - 1 = a + e /\ a + e <= b
      BY <1>2
    <3>2. room[x - 1] = R[x - 1]
      BY <3>1
    <3>3. room[x] = 2 * room[x - 1] - cnt[x + d] /\ R[x] = 2 * R[x - 1] - cnt[x + d]
      BY <1>6, <1>9, <3>1
    <3> QED BY <3>2, <3>3
  <2> HIDE DEF T
  <2>3. T \in SUBSET Nat
    BY DEF T
  <2>4. T = Nat
    BY <2>1, <2>2, <2>3, Counting
  <2>5. ASSUME NEW x \in a .. b PROVE room[x] = R[x]
    <3>1. x - a \in Nat /\ a + (x - a) = x /\ a + (x - a) <= b
      BY <1>2
    <3>2. x - a \in T
      BY <2>4, <3>1
    <3> QED BY <3>1, <3>2 DEF T
  <2> QED BY <2>5
<1> DEFINE EndsAt(x) == x = b \/ room[x] <= 0
           Is(x) == EndsAt(x) /\ \A y \in a .. x - 1 : room[y] > 0
           w == Width(l, d, cnt)
<1>11. w = CHOOSE x \in a .. b : Is(x)
  BY DEF Width, RoomStep, room
<1>12. \E x \in a .. b : Is(x)
  <2> DEFINE T == {x \in Nat : x \in a .. b /\ EndsAt(x)}
  <2>1. T \in SUBSET Nat /\ b \in T
    BY <1>2
  <2>2. PICK x \in T : \A y \in T : x <= y
    <3> HIDE DEF T
    <3> QED BY <2>1, LeastNumber
  <2>3. x \in a .. b /\ EndsAt(x)
    OBVIOUS
  <2>4. ASSUME NEW y \in a .. x - 1 PROVE room[y] > 0
    <3>1. y \in Nat /\ y \in a .. b /\ y < x
      BY <1>2, <2>3
    <3>2. ~(room[y] <= 0)
      BY <2>2, <3>1
    <3>3. room[y] \in Int
      BY <1>4, <1>10, <3>1
    <3> QED BY <3>2, <3>3
  <2> QED BY <2>3, <2>4
<1>13. w \in a .. b /\ EndsAt(w)
  <2> HIDE DEF w, EndsAt
  <2>1. w \in a .. b /\ Is(w)
    <3> HIDE DEF Is
    <3> QED BY <1>11, <1>12
  <2> QED BY <2>1
<1>14. w = b \/ 2^w + c * 2^(w + d - l) <= Upto(lens, w + d)
  <2> SUFFICES ASSUME w # b PROVE 2^w + c * 2^(w + d - l) <= Upto(lens, w + d)
    OBVIOUS
  <2> HIDE DEF w
  <2> DEFINE u == 2^w
             v == Upto(lens, w + d)
             q == c * 2^(w + d - l)
  <2>1. R[w] <= 0
    BY <1>10, <1>13
  <2>2. u \in Nat /\ v \in Nat /\ q \in Nat /\ R[w] = u - (v - q)
    BY <1>4, <1>13
  <2> HIDE DEF u, v, q
  <2>3. u + q <= v
    BY <2>1, <2>2
  <2> QED BY <2>3 DEF u, v, q
<1> QED
  BY <1>13, <1>14

-----------------------------------------------------------------------------
(* What is filled before and after a code is entered.  A table in hand has *)
(* n index bits and starts at a place; d bits of the code, none in the     *)
(* root table, are dropped because the root has taken them.                *)

\* The number of the first d bits of a code of l bits, and of the others.
RootPart(d, l, c) == c \div 2^(l - d)
SubPart(d, l, c) == c % 2^(l - d)

\* The places before the table in hand, and the root's for all codes up to this one.
InFront(d, at, c, l) == IF d = 0 THEN {} ELSE Front(0, d, RootPart(d, l, c) + 1) \cup (2^d .. at - 1)

\* Filled when the code of number c and length l is about to be entered.
Filled(d, n, at, c, l) == Front(at, n, SubPart(d, l, c) * 2^(n - (l - d))) \cup InFront(d, at, c, l)

\* Filled when it has been.
Entered(d, n, at, c, l) == Front(at, n, (SubPart(d, l, c) + 1) * 2^(n - (l - d))) \cup InFront(d, at, c, l)

\* What is behind the table in hand lies before it.
LEMMA BehindIs ==
  ASSUME NEW d \in Nat, NEW at \in Nat, NEW c \in Nat, NEW l \in Nat, d # 0 => at >= 2^d
  PROVE  \A p \in InFront(d, at, c, l) : p \in Nat /\ p < at
<1> SUFFICES ASSUME NEW p \in InFront(d, at, c, l) PROVE p \in Nat /\ p < at
  OBVIOUS
<1>1. d # 0 /\ p \in Front(0, d, RootPart(d, l, c) + 1) \cup (2^d .. at - 1)
  BY DEF InFront
<1> DEFINE w == 2^d
<1>2. w \in Nat /\ at >= w
  BY <1>1, PowerPositive
<1>3. CASE p \in Front(0, d, RootPart(d, l, c) + 1)
  <2>1. CASE RootPart(d, l, c) + 1 \in Int
    <3>1. p \in Nat /\ p < 0 + w
      BY <1>3, <2>1, FrontWithin
    <3> HIDE DEF w
    <3> QED BY <1>2, <3>1
  <2>2. CASE RootPart(d, l, c) + 1 \notin Int
    <3>1. PICK y \in 0 .. (RootPart(d, l, c) + 1) - 1 : p = 0 + Reversed(d, y)
      BY <1>3 DEF Front
    <3>2. y \in Nat
      BY <3>1
    <3>3. Reversed(d, y) \in Nat /\ Reversed(d, y) < w
      BY <3>2, ReversedBound
    <3> HIDE DEF w
    <3> QED BY <1>2, <3>1, <3>3
  <2> QED BY <2>1, <2>2
<1>4. CASE p \in w .. at - 1
  <2> HIDE DEF w
  <2> QED BY <1>2, <1>4
<1> QED
  BY <1>1, <1>3, <1>4

\* The places that the program takes for them.
Strided(d, n, at, t, c) == {at + Reversed(d + t, c) \div 2^d + k * 2^t : k \in 0 .. 2^(n - t) - 1}

\* The places of a code are free and complete what is filled.
LEMMA PlacesFree ==
  ASSUME NEW d \in Nat, NEW n \in Nat, NEW t \in Nat, t <= n, NEW at \in Nat, d # 0 => at >= 2^d,
         NEW c \in Nat, c < 2^(d + t)
  PROVE  /\ Strided(d, n, at, t, c) = Span(at, n, t, c % 2^t)
         /\ Strided(d, n, at, t, c) \cap Filled(d, n, at, c, d + t) = {}
         /\ Strided(d, n, at, t, c) \cup Filled(d, n, at, c, d + t) = Entered(d, n, at, c, d + t)
<1> DEFINE S == Strided(d, n, at, t, c)
           z == c % 2^t
           p == 2^t
           w == 2^(n - t)
           h == 2^n
           N == {at + Reversed(n, y) : y \in z * w .. (z + 1) * w - 1}
           B == InFront(d, at, c, d + t)
<1>1. p \in Nat /\ z \in Nat /\ z < p /\ Reversed(d + t, c) \div 2^d = Reversed(t, z)
  <2>1. /\ c % 2^t \in Nat /\ c % 2^t < 2^t
        /\ Reversed(d + t, c) \div 2^d = Reversed(t, c % 2^t)
    BY ONLY d \in Nat, t \in Nat, c \in Nat, c < 2^(d + t), Parts
  <2> QED BY <2>1, PowerPositive
<1>2. n - t \in Nat /\ w \in Nat /\ h \in Nat /\ h = p * w
  <2>1. n - t \in Nat /\ t + (n - t) = n
    OBVIOUS
  <2> QED BY <2>1, PowersOf
<1>3. S = N
  <2>1. z \in 0 .. p - 1
    <3> HIDE DEF p, z
    <3> QED BY <1>1
  <2>2. Strides(at, n, t, z) = Span(at, n, t, z)
    <3> HIDE DEF z
    <3> QED BY ONLY <2>1, at \in Nat, n \in Nat, t \in Nat, t <= n, PlacesAre DEF p
  <2>3. S = Strides(at, n, t, z)
    BY <1>1 DEF Strided, Strides
  <2>4. N = Span(at, n, t, z)
    BY DEF Span
  <2> QED BY <2>2, <2>3, <2>4
<1>4. (d + t) - d = t
  OBVIOUS
<1>5. /\ Filled(d, n, at, c, d + t) = Front(at, n, z * w) \cup B
      /\ Entered(d, n, at, c, d + t) = Front(at, n, (z + 1) * w) \cup B
  BY <1>4 DEF Filled, Entered, SubPart
<1>6. z * w \in Nat /\ (z + 1) * w \in Nat /\ z * w <= (z + 1) * w /\ (z + 1) * w <= h
  <2> HIDE DEF p, z, w, h
  <2>1. w * z <= w * (z + 1) /\ w * (z + 1) <= w * p
    BY <1>1, <1>2, TimesKeepsOrder
  <2>2. w * z = z * w /\ w * (z + 1) = (z + 1) * w /\ w * p = p * w /\ z * w \in Nat /\ (z + 1) * w \in Nat
    BY <1>1, <1>2
  <2> QED BY <1>2, <2>1, <2>2
<1>7. Front(at, n, (z + 1) * w) = Front(at, n, z * w) \cup N /\ Front(at, n, z * w) \cap N = {}
  <2> DEFINE a == z * w
             b == (z + 1) * w
  <2>1. a \in Nat /\ b \in Nat /\ a <= b /\ b <= 2^n
    BY <1>6
  <2> HIDE DEF a, b
  <2>2. /\ Front(at, n, b) = Front(at, n, a) \cup {at + Reversed(n, y) : y \in a .. b - 1}
        /\ Front(at, n, a) \cap {at + Reversed(n, y) : y \in a .. b - 1} = {}
    BY <2>1, FrontGrows
  <2> QED BY <2>2 DEF a, b
<1>8. N \cap B = {}
  <2> SUFFICES ASSUME NEW x \in N, x \in B PROVE FALSE
    OBVIOUS
  <2>1. PICK y \in z * w .. (z + 1) * w - 1 : x = at + Reversed(n, y)
    OBVIOUS
  <2>2. y \in Nat
    <3> HIDE DEF z, w
    <3> QED BY <1>6
  <2>3. Reversed(n, y) \in Nat
    BY <2>2, ReversedBound
  <2>4. x < at /\ x \in Nat
    BY BehindIs
  <2> QED BY <2>1, <2>3, <2>4
<1>9. Span(at, n, t, z) = N
  BY DEF Span
<1> HIDE DEF N, B, S
<1> QED
  BY <1>3, <1>5, <1>7, <1>8, <1>9 DEF N, B, S

\* The number after a code's, if the code after it is e bits longer.
CodeAfter(c, e) == (c + 1) * 2^e

\* The parts of the code after a code: the lower one counts on, or it is used up and the
\* upper one does.
GoesOnFrom(t, e, c) ==
  /\ (c % 2^t) + 1 <= 2^t
  /\ (c % 2^t) + 1 < 2^t => CodeAfter(c, e) \div 2^(t + e) = c \div 2^t /\ CodeAfter(c, e) % 2^(t + e) = ((c % 2^t) + 1) * 2^e
  /\ (c % 2^t) + 1 = 2^t => CodeAfter(c, e) \div 2^(t + e) = (c \div 2^t) + 1 /\ CodeAfter(c, e) % 2^(t + e) = 0

LEMMA Onwards ==
  ASSUME NEW t \in Nat, NEW e \in Nat, NEW c \in Nat
  PROVE  GoesOnFrom(t, e, c)
<1> DEFINE m == CodeAfter(c, e)
           p == 2^t
           f == 2^e
           q == c \div p
           z == c % p
<1>1. p \in Nat \ {0} /\ f \in Nat \ {0} /\ 2^(t + e) = p * f
  <2>1. p \in Nat /\ p > 0 /\ f \in Nat /\ f > 0
    BY PowerPositive
  <2>2. 2^(t + e) = 2^t * 2^e
    BY PowerAdds
  <2> QED BY <2>1, <2>2
<1>2. q \in Nat /\ z \in Nat /\ z < p /\ c = p * q + z /\ m = (c + 1) * f
  BY <1>1, Division DEF CodeAfter
<1>3. p * f \in Nat \ {0}
  <2> HIDE DEF p, f
  <2>1. f * 1 <= f * p
    BY <1>1, TimesKeepsOrder
  <2>2. f * p = p * f /\ f * 1 = f /\ p * f \in Nat
    BY <1>1
  <2> QED BY <1>1, <2>1, <2>2
<1>4. ASSUME z + 1 < p PROVE m \div (p * f) = q /\ m % (p * f) = (z + 1) * f
  <2> HIDE DEF p, f, q, z, m
  <2>1. f * (z + 1) <= f * (p - 1)
    BY <1>1, <1>2, <1>4, TimesKeepsOrder
  <2>2. f * (p - 1) = f * p - f /\ f * p = p * f /\ f * (z + 1) = (z + 1) * f /\ (z + 1) * f \in Nat
    BY <1>1, <1>2
  <2>3. (z + 1) * f < p * f
    BY <1>1, <1>3, <2>1, <2>2
  <2>4. m = (p * f) * q + (z + 1) * f
    <3>1. (p * q + z + 1) * f = (p * q) * f + (z + 1) * f
      BY <1>1, <1>2
    <3>2. (p * q) * f = (p * f) * q
      BY <1>1, <1>2
    <3>3. p * q \in Nat
      BY <1>1, <1>2
    <3>4. c + 1 = p * q + z + 1
      BY <1>2, <3>3
    <3> QED BY <1>2, <3>1, <3>2, <3>4
  <2>5. ((p * f) * q + (z + 1) * f) \div (p * f) = q /\ ((p * f) * q + (z + 1) * f) % (p * f) = (z + 1) * f
    BY <1>2, <1>3, <2>2, <2>3, Divided
  <2> QED BY <2>4, <2>5
<1>5. ASSUME z + 1 = p PROVE m \div (p * f) = q + 1 /\ m % (p * f) = 0
  <2> HIDE DEF p, f, q, z, m
  <2>1. m = (p * f) * (q + 1) + 0
    <3>1. p * q + z + 1 = p * (q + 1)
      BY <1>1, <1>2, <1>5
    <3>2. (p * (q + 1)) * f = (p * f) * (q + 1)
      BY <1>1, <1>2
    <3>3. (p * f) * (q + 1) \in Nat
      BY <1>2, <1>3
    <3>4. c + 1 = p * (q + 1)
      <4>1. p * q \in Nat
        BY <1>1, <1>2
      <4> QED BY <1>2, <3>1, <4>1
    <3> QED BY <1>2, <3>2, <3>3, <3>4
  <2>2. ((p * f) * (q + 1) + 0) \div (p * f) = q + 1 /\ ((p * f) * (q + 1) + 0) % (p * f) = 0
    <3>1. q + 1 \in Nat /\ 0 < p * f
      BY <1>2, <1>3
    <3> QED BY <1>3, <3>1, Divided
  <2> QED BY <2>1, <2>2
<1> HIDE DEF p, f, q, z, m
<1>6. z + 1 <= p
  BY <1>1, <1>2
<1> QED
  BY <1>1, <1>4, <1>5, <1>6 DEF p, f, q, z, m, GoesOnFrom

\* Of two codes that follow each other the later one is as long or longer.
Follows(c, l, m, k) == l <= k /\ m = CodeAfter(c, k - l)

\* The parts of a code and of the one after it: the others count on, or they are
\* used up and the first ones count on.
LEMMA PartsFollow ==
  ASSUME NEW d \in Nat, NEW l \in Nat, NEW k \in Nat, d <= l, NEW c \in Nat, NEW m, Follows(c, l, m, k)
  PROVE  /\ m \in Nat /\ RootPart(d, l, c) \in Nat /\ SubPart(d, l, c) \in Nat
         /\ \/ /\ SubPart(d, l, c) + 1 < 2^(l - d)
               /\ RootPart(d, k, m) = RootPart(d, l, c)
               /\ SubPart(d, k, m) = (SubPart(d, l, c) + 1) * 2^(k - l)
            \/ /\ SubPart(d, l, c) + 1 = 2^(l - d)
               /\ RootPart(d, k, m) = RootPart(d, l, c) + 1
               /\ SubPart(d, k, m) = 0
<1> DEFINE t == l - d
           e == k - l
           f == 2^e
           p == 2^t
<1>1. l <= k /\ m = CodeAfter(c, k - l)
  BY DEF Follows
<1>2. t \in Nat /\ e \in Nat /\ k - d = t + e
  BY <1>1
<1>3. f \in Nat /\ p \in Nat \ {0}
  BY <1>2, PowerPositive
<1>4. m = CodeAfter(c, e)
  BY <1>1
<1> HIDE DEF t, e
<1>5. GoesOnFrom(t, e, c)
  BY <1>2, Onwards
<1>6. c % p \in Nat /\ c \div p \in Nat
  BY <1>3, Division
<1>7. m \in Nat
  <2>1. m = (c + 1) * f
    BY <1>4 DEF CodeAfter
  <2> HIDE DEF f
  <2> QED BY <1>3, <2>1
<1>8. /\ RootPart(d, l, c) = c \div p /\ SubPart(d, l, c) = c % p
      /\ RootPart(d, k, m) = m \div 2^(t + e) /\ SubPart(d, k, m) = m % 2^(t + e)
  BY <1>2 DEF RootPart, SubPart, t, e
<1>9. (c % p) + 1 < p \/ (c % p) + 1 = p
  <2>1. (c % p) + 1 <= p
    BY <1>5 DEF GoesOnFrom
  <2> HIDE DEF p
  <2> QED BY <1>3, <1>6, <2>1
<1>10. /\ (c % p) + 1 < p => m \div 2^(t + e) = c \div p /\ m % 2^(t + e) = ((c % p) + 1) * f
       /\ (c % p) + 1 = p => m \div 2^(t + e) = (c \div p) + 1 /\ m % 2^(t + e) = 0
  BY <1>4, <1>5 DEF GoesOnFrom
<1> QED
  BY <1>6, <1>7, <1>8, <1>9, <1>10 DEF t, e

\* Where the table in hand goes on, the next code finds filled what its predecessor leaves.
LEMMA Stays ==
  ASSUME NEW d \in Nat, NEW l \in Nat, NEW k \in Nat, d <= l, NEW c \in Nat, NEW m, Follows(c, l, m, k),
         RootPart(d, k, m) = RootPart(d, l, c), NEW n \in Nat, k - d <= n, NEW at \in Nat
  PROVE  Filled(d, n, at, m, k) = Entered(d, n, at, c, l)
<1> DEFINE z == SubPart(d, l, c) + 1
           f == 2^(k - l)
           g == 2^(n - (k - d))
           h == 2^(n - (l - d))
<1>1. SubPart(d, k, m) = z * f /\ z \in Nat /\ l <= k
  <2>1. /\ RootPart(d, l, c) \in Nat /\ SubPart(d, l, c) \in Nat
        /\ RootPart(d, k, m) = RootPart(d, l, c) + 1 \/ SubPart(d, k, m) = z * f
    BY PartsFollow
  <2>2. RootPart(d, k, m) # RootPart(d, l, c) + 1
    BY <2>1
  <2>3. l <= k
    BY DEF Follows
  <2> QED BY <2>1, <2>2, <2>3
<1>2. f * g = h /\ f \in Nat /\ g \in Nat
  <2>1. k - l \in Nat /\ n - (k - d) \in Nat /\ (k - l) + (n - (k - d)) = n - (l - d)
    BY <1>1
  <2>2. 2^((k - l) + (n - (k - d))) = f * g
    BY <2>1, PowerAdds
  <2> QED BY <2>1, <2>2, PowerPositive
<1>3. (z * f) * g = z * h
  <2> HIDE DEF z, f, g, h
  <2>1. (z * f) * g = z * (f * g)
    BY <1>1, <1>2
  <2> QED BY <1>2, <2>1
<1>4. InFront(d, at, m, k) = InFront(d, at, c, l)
  BY DEF InFront
<1>5. Filled(d, n, at, m, k) = Front(at, n, (z * f) * g) \cup InFront(d, at, m, k)
  BY <1>1 DEF Filled
<1>6. Entered(d, n, at, c, l) = Front(at, n, z * h) \cup InFront(d, at, c, l)
  BY DEF Entered
<1> HIDE DEF z, f, g, h
<1> QED
  BY <1>3, <1>4, <1>5, <1>6

\* The next entry of the root, the front's next place.
LEMMA OneMore ==
  ASSUME NEW r \in Nat, NEW v \in Nat, v < 2^r
  PROVE  /\ Front(0, r, v + 1) = Front(0, r, v) \cup {Reversed(r, v)}
         /\ Reversed(r, v) \notin Front(0, r, v)
<1> DEFINE w == 2^r
<1>1. v + 1 \in Nat /\ v <= v + 1 /\ v + 1 <= w
  <2>1. w \in Nat /\ v < w
    BY PowerPositive
  <2> HIDE DEF w
  <2> QED BY <2>1
<1>2. /\ Front(0, r, v + 1) = Front(0, r, v) \cup {0 + Reversed(r, y) : y \in v .. (v + 1) - 1}
      /\ Front(0, r, v) \cap {0 + Reversed(r, y) : y \in v .. (v + 1) - 1} = {}
  <2> DEFINE b == v + 1
  <2>1. b \in Nat /\ v <= b /\ b <= 2^r /\ 0 \in Nat
    BY <1>1
  <2> HIDE DEF b
  <2>2. /\ Front(0, r, b) = Front(0, r, v) \cup {0 + Reversed(r, y) : y \in v .. b - 1}
        /\ Front(0, r, v) \cap {0 + Reversed(r, y) : y \in v .. b - 1} = {}
    BY <2>1, FrontGrows
  <2> QED BY <2>2 DEF b
<1>3. v .. (v + 1) - 1 = {v}
  OBVIOUS
<1>4. Reversed(r, v) \in Nat
  BY ReversedBound
<1>5. {0 + Reversed(r, y) : y \in v .. (v + 1) - 1} = {0 + Reversed(r, v)}
  BY <1>3
<1>6. 0 + Reversed(r, v) = Reversed(r, v)
  BY <1>4
<1> QED
  BY <1>2, <1>5, <1>6

\* No number, no place.
LEMMA FrontNone == \A at, n : Front(at, n, 0) = {}
BY DEF Front

\* The first sub-table: the root goes on where its codes end.
LEMMA SplitsRoot ==
  ASSUME NEW r \in Nat \ {0}, NEW l \in Nat, NEW k \in Nat, l <= r, r <= k, NEW c \in Nat,
         NEW m, Follows(c, l, m, k), m < 2^k, NEW w \in Nat, k - r <= w
  PROVE  /\ SubPart(r, k, m) = 0
         /\ Reversed(r, RootPart(r, k, m)) \notin Entered(0, r, 0, c, l)
         /\ Entered(0, r, 0, c, l) \cup {Reversed(r, RootPart(r, k, m))} = Filled(r, w, 2^r, m, k)
<1> DEFINE f == 2^(r - l)
           g == 2^(k - r)
           h == 2^(k - l)
           v == (c + 1) * f
<1>1. f \in Nat \ {0} /\ g \in Nat \ {0} /\ h = f * g
  <2>1. r - l \in Nat /\ k - r \in Nat /\ (r - l) + (k - r) = k - l
    OBVIOUS
  <2>2. 2^((r - l) + (k - r)) = f * g
    BY <2>1, PowerAdds
  <2> QED BY <2>1, <2>2, PowerPositive
<1>2. v \in Nat /\ m = g * v + 0 /\ m \in Nat
  <2>1. m = (c + 1) * h
    BY DEF CodeAfter, Follows
  <2> HIDE DEF f, g, h
  <2>2. (c + 1) * f \in Nat /\ (c + 1) * (f * g) = g * ((c + 1) * f) /\ g * ((c + 1) * f) \in Nat
    BY <1>1
  <2> QED BY <1>1, <2>1, <2>2
<1>3. m \div g = v /\ m % g = 0
  <2>1. (g * v + 0) \div g = v /\ (g * v + 0) % g = 0
    <3> HIDE DEF g, v
    <3>1. 0 < g
      BY <1>1
    <3> QED BY <1>1, <1>2, <3>1, Divided
  <2> QED BY <1>2, <2>1
<1>4. v < 2^r
  <2>1. r + (k - r) = k /\ k - r \in Nat
    OBVIOUS
  <2>2. m \div 2^(k - r) < 2^r
    BY <1>2, <2>1, Parts
  <2> QED BY <1>3, <2>2
<1>5. Entered(0, r, 0, c, l) = Front(0, r, v)
  <2> DEFINE p == 2^(l - 0)
  <2>1. l - 0 = l /\ r - (l - 0) = r - l
    OBVIOUS
  <2>2. SubPart(0, l, c) = c % p /\ c % p = c
    <3>1. p \in Nat \ {0}
      BY <2>1, PowerPositive
    <3>2. c < p
      <4>1. l + (k - l) = k /\ k - l \in Nat
        OBVIOUS
      <4>2. m \div h < 2^l
        BY <1>2, <4>1, Parts
      <4>3. m \div h = c + 1
        <5>1. h \in Nat \ {0}
          BY <4>1, PowerPositive
        <5>2. m = h * (c + 1) + 0 /\ 0 < h
          <6>1. m = (c + 1) * h
            BY DEF CodeAfter, Follows
          <6> HIDE DEF h
          <6> QED BY <5>1, <6>1
        <5>3. (h * (c + 1) + 0) \div h = c + 1
          <6> HIDE DEF h
          <6>1. c + 1 \in Nat
            OBVIOUS
          <6> QED BY <5>1, <5>2, <6>1, Divided
        <5> QED BY <5>2, <5>3
      <4> HIDE DEF h, p
      <4> QED BY <2>1, <3>1, <4>2, <4>3 DEF p
    <3>3. p * 0 + c = c
      <4> HIDE DEF p
      <4> QED BY <3>1
    <3>4. (p * 0 + c) % p = c
      <4> HIDE DEF p
      <4>1. 0 \in Nat
        OBVIOUS
      <4> QED BY <3>1, <3>2, <4>1, Divided
    <3> QED BY <3>3, <3>4 DEF SubPart
  <2>3. InFront(0, 0, c, l) = {}
    BY DEF InFront
  <2>4. Entered(0, r, 0, c, l) = Front(0, r, (SubPart(0, l, c) + 1) * 2^(r - (l - 0))) \cup InFront(0, 0, c, l)
    BY DEF Entered
  <2>5. (SubPart(0, l, c) + 1) * 2^(r - (l - 0)) = v
    BY <2>1, <2>2
  <2> HIDE DEF p, v
  <2> QED BY <2>3, <2>4, <2>5
<1>6. Filled(r, w, 2^r, m, k) = Front(0, r, v + 1)
  <2> DEFINE o == 2^r
             s == 2^(w - (k - r))
  <2>1. o .. o - 1 = {}
    <3>1. o \in Nat
      BY PowerPositive
    <3> HIDE DEF o
    <3> QED BY <3>1
  <2>2. InFront(r, o, m, k) = Front(0, r, v + 1)
    <3>1. InFront(r, o, m, k) = Front(0, r, (m \div g) + 1) \cup (o .. o - 1)
      BY DEF InFront, RootPart
    <3> HIDE DEF o, g, v
    <3> QED BY <1>3, <2>1, <3>1
  <2>3. Filled(r, w, o, m, k) = Front(o, w, (m % g) * s) \cup InFront(r, o, m, k)
    BY DEF Filled, SubPart
  <2>4. Front(o, w, (m % g) * s) = {}
    <3>1. w - (k - r) \in Nat
      OBVIOUS
    <3>2. s \in Nat
      BY <3>1, PowerPositive
    <3>3. 0 * s = 0
      <4> HIDE DEF s
      <4> QED BY <3>2
    <3> QED BY <1>3, <3>3, FrontNone
  <2> HIDE DEF o, s, g, v
  <2> QED BY <2>2, <2>3, <2>4 DEF o
<1> HIDE DEF v
<1>7. /\ Front(0, r, v + 1) = Front(0, r, v) \cup {Reversed(r, v)}
      /\ Reversed(r, v) \notin Front(0, r, v)
  BY <1>2, <1>4, OneMore
<1> QED
  BY <1>2, <1>3, <1>5, <1>6, <1>7 DEF v, RootPart, SubPart

\* Another sub-table: the one in hand is full and the root goes on by one.
LEMMA SplitsAgain ==
  ASSUME NEW r \in Nat \ {0}, NEW l \in Nat, NEW k \in Nat, r <= l, NEW c \in Nat,
         NEW m, Follows(c, l, m, k), m < 2^k, RootPart(r, k, m) # RootPart(r, l, c),
         NEW n \in Nat, l - r <= n, NEW at \in Nat, at >= 2^r, NEW w \in Nat, k - r <= w
  PROVE  /\ SubPart(r, k, m) = 0
         /\ Reversed(r, RootPart(r, k, m)) \notin Entered(r, n, at, c, l)
         /\ Entered(r, n, at, c, l) \cup {Reversed(r, RootPart(r, k, m))} = Filled(r, w, at + 2^n, m, k)
<1> DEFINE p == 2^(l - r)
           f == 2^(n - (l - r))
           h == 2^n
           o == 2^r
           s == 2^(w - (k - r))
           u == RootPart(r, l, c)
           v == RootPart(r, k, m)
           z == SubPart(r, l, c)
<1>1. m \in Nat /\ u \in Nat /\ z \in Nat /\ z + 1 = p /\ v = u + 1 /\ SubPart(r, k, m) = 0
  <2>1. /\ m \in Nat /\ u \in Nat /\ z \in Nat
        /\ \/ v = u
           \/ z + 1 = p /\ v = u + 1 /\ SubPart(r, k, m) = 0
    BY PartsFollow
  <2> QED BY <2>1
<1>2. p * f = h /\ f \in Nat /\ p \in Nat /\ h \in Nat /\ o \in Nat
  <2>1. l - r \in Nat /\ n - (l - r) \in Nat /\ (l - r) + (n - (l - r)) = n
    OBVIOUS
  <2>2. 2^((l - r) + (n - (l - r))) = p * f
    BY <2>1, PowerAdds
  <2> QED BY <2>1, <2>2, PowerPositive
<1>3. Entered(r, n, at, c, l) = (at .. at + h - 1) \cup Front(0, r, u + 1) \cup (o .. at - 1)
  <2>1. Entered(r, n, at, c, l) = Front(at, n, (z + 1) * f) \cup InFront(r, at, c, l)
    BY DEF Entered
  <2>2. InFront(r, at, c, l) = Front(0, r, u + 1) \cup (o .. at - 1)
    BY DEF InFront
  <2>3. (z + 1) * f = h
    <3> HIDE DEF z, p, f, h
    <3> QED BY <1>1, <1>2
  <2>4. Front(at, n, h) = at .. at + h - 1
    BY FrontWhole
  <2> HIDE DEF z, f, h, u, o
  <2> QED BY <2>1, <2>2, <2>3, <2>4
<1>4. v < o /\ v \in Nat
  <2>1. l <= k
    BY DEF Follows
  <2>2. r + (k - r) = k /\ k - r \in Nat
    BY <2>1
  <2>3. m \div 2^(k - r) < 2^r
    BY <1>1, <2>2, Parts
  <2>4. v \in Nat
    <3> HIDE DEF u, v
    <3> QED BY <1>1
  <2> QED BY <2>3, <2>4 DEF RootPart
<1>5. /\ Front(0, r, v + 1) = Front(0, r, u + 1) \cup {Reversed(r, v)}
      /\ Reversed(r, v) \notin Front(0, r, u + 1)
  <2> HIDE DEF u, v
  <2>1. Front(0, r, v + 1) = Front(0, r, v) \cup {Reversed(r, v)} /\ Reversed(r, v) \notin Front(0, r, v)
    BY <1>4, OneMore
  <2> QED BY <1>1, <2>1
<1>6. Reversed(r, v) \in Nat /\ Reversed(r, v) < o
  <2> HIDE DEF v
  <2> QED BY <1>4, ReversedBound
<1>7. Filled(r, w, at + h, m, k) = Front(0, r, v + 1) \cup (o .. at + h - 1)
  <2>1. Filled(r, w, at + h, m, k) = Front(at + h, w, SubPart(r, k, m) * s) \cup InFront(r, at + h, m, k)
    BY DEF Filled
  <2>2. Front(at + h, w, SubPart(r, k, m) * s) = {}
    <3>1. w - (k - r) \in Nat
      BY DEF Follows
    <3>2. s \in Nat
      BY <3>1, PowerPositive
    <3>3. 0 * s = 0
      <4> HIDE DEF s
      <4> QED BY <3>2
    <3> QED BY <1>1, <3>3, FrontNone
  <2>3. InFront(r, at + h, m, k) = Front(0, r, v + 1) \cup (o .. at + h - 1)
    BY DEF InFront
  <2> HIDE DEF h, s, v, o
  <2> QED BY <2>1, <2>2, <2>3
<1>8. o .. at + h - 1 = (at .. at + h - 1) \cup (o .. at - 1)
  <2>1. at >= o
    OBVIOUS
  <2> HIDE DEF o, h
  <2> QED BY <1>2, <2>1
<1>9. Reversed(r, v) \notin (at .. at + h - 1) \cup (o .. at - 1)
  <2>1. at >= o
    OBVIOUS
  <2> DEFINE x == Reversed(r, v)
  <2> HIDE DEF o, h, v, x
  <2> QED BY <1>2, <1>6, <2>1 DEF x
<1>10. Filled(r, w, at + 2^n, m, k) = Filled(r, w, at + h, m, k)
  OBVIOUS
<1> HIDE DEF o, h, v, u
<1>11. Reversed(r, v) \notin Entered(r, n, at, c, l)
  BY <1>3, <1>5, <1>9
<1>12. Entered(r, n, at, c, l) \cup {Reversed(r, v)} = Filled(r, w, at + h, m, k)
  BY <1>3, <1>5, <1>7, <1>8
<1> QED
  BY <1>1, <1>10, <1>11, <1>12 DEF v

\* After the last number of a length that the table in hand reaches, all is filled.
LEMMA FillsUp ==
  ASSUME NEW d \in Nat, NEW l \in Nat, d <= l, NEW c \in Nat, c + 1 = 2^l, NEW at \in Nat,
         IF d = 0 THEN at = 0 ELSE at >= 2^d
  PROVE  Entered(d, l - d, at, c, l) = 0 .. at + 2^(l - d) - 1
<1> DEFINE p == 2^(l - d)
           o == 2^d
           u == RootPart(d, l, c)
           z == SubPart(d, l, c)
<1>1. l - d \in Nat /\ p \in Nat \ {0} /\ o \in Nat \ {0} /\ 2^l = p * o
  <2>1. l - d \in Nat /\ d + (l - d) = l
    OBVIOUS
  <2>2. 2^(d + (l - d)) = o * p
    BY <2>1, PowerAdds
  <2>3. p \in Nat \ {0} /\ o \in Nat \ {0}
    BY <2>1, PowerPositive
  <2>4. o * p = p * o
    <3> HIDE DEF o, p
    <3> QED BY <2>3
  <2> QED BY <2>1, <2>2, <2>3, <2>4
<1>2. u = o - 1 /\ z = p - 1
  <2>1. c = p * (o - 1) + (p - 1)
    <3>1. c + 1 = p * o
      BY <1>1
    <3> HIDE DEF p, o
    <3>2. p * (o - 1) = p * o - p /\ p * o \in Nat
      BY <1>1
    <3> QED BY <1>1, <3>1, <3>2
  <2>2. (p * (o - 1) + (p - 1)) \div p = o - 1 /\ (p * (o - 1) + (p - 1)) % p = p - 1
    <3> HIDE DEF p, o
    <3>1. o - 1 \in Nat /\ p - 1 \in Nat /\ p - 1 < p
      BY <1>1
    <3> QED BY <1>1, <3>1, Divided
  <2> QED BY <2>1, <2>2 DEF RootPart, SubPart
<1>3. Entered(d, l - d, at, c, l) = Front(at, l - d, (z + 1) * 2^((l - d) - (l - d))) \cup InFront(d, at, c, l)
  BY DEF Entered
<1>4. (z + 1) * 2^((l - d) - (l - d)) = p
  <2>1. (l - d) - (l - d) = 0
    OBVIOUS
  <2>2. 2^((l - d) - (l - d)) = 1
    BY <2>1, PowerZero
  <2> HIDE DEF z, p
  <2> QED BY <1>1, <1>2, <2>2
<1>5. Front(at, l - d, p) = at .. at + p - 1
  BY <1>1, FrontWhole
<1>6. CASE d = 0
  <2>1. InFront(d, at, c, l) = {} /\ at = 0
    BY <1>6 DEF InFront
  <2> HIDE DEF p
  <2> QED BY <1>3, <1>4, <1>5, <2>1 DEF p
<1>7. CASE d # 0
  <2>1. InFront(d, at, c, l) = Front(0, d, u + 1) \cup (o .. at - 1) /\ at >= o
    BY <1>7 DEF InFront
  <2>2. u + 1 = o
    <3> HIDE DEF u, o
    <3> QED BY <1>1, <1>2
  <2>3. Front(0, d, o) = 0 .. 0 + o - 1
    BY FrontWhole
  <2>4. 0 .. at + p - 1 = (at .. at + p - 1) \cup ((0 .. 0 + o - 1) \cup (o .. at - 1))
    <3> HIDE DEF p, o
    <3> QED BY <1>1, <2>1
  <2>5. Entered(d, l - d, at, c, l) = (at .. at + p - 1) \cup ((0 .. 0 + o - 1) \cup (o .. at - 1))
    <3> HIDE DEF p, o, u
    <3> QED BY <1>3, <1>4, <1>5, <2>1, <2>2, <2>3
  <2> QED BY <2>4, <2>5
<1> QED
  BY <1>6, <1>7

-----------------------------------------------------------------------------
(* What a table gives for a number of MAXBITS bits, the first bits of the  *)
(* input with the first of them the highest.                               *)

RootIndex(r, x) == Reversed(r, x \div 2^(MAXBITS - r))
SubIndex(r, at, n, x) == at + Reversed(n, (x \div 2^(MAXBITS - r - n)) % 2^n)

\* In one or two lookups b bits are taken and the entry is of a kind and has a value.
Finds(T, r, x, b, kind, val) ==
  /\ RootIndex(r, x) \in DOMAIN T
  /\ \/ kind # "sub" /\ T[RootIndex(r, x)] = Entry(b, kind, val)
     \/ \E at \in Nat, n \in 0 .. MAXBITS - r :
          /\ T[RootIndex(r, x)] = Entry(r, "sub", [at |-> at, bits |-> n])
          /\ SubIndex(r, at, n, x) \in DOMAIN T
          /\ T[SubIndex(r, at, n, x)] = Entry(b - r, kind, val)

\* A table that has all entries of another one.
Extends(T, V) == \A p \in DOMAIN T : p \in DOMAIN V /\ V[p] = T[p]

\* A table that is extended gives what it gave.
LEMMA FindsKept ==
  ASSUME NEW T, NEW V, Extends(T, V), NEW r, NEW x, NEW b, NEW kind, NEW val, Finds(T, r, x, b, kind, val)
  PROVE  Finds(V, r, x, b, kind, val)
<1>1. RootIndex(r, x) \in DOMAIN T /\ RootIndex(r, x) \in DOMAIN V /\ V[RootIndex(r, x)] = T[RootIndex(r, x)]
  BY DEF Finds, Extends
<1>2. CASE kind # "sub" /\ T[RootIndex(r, x)] = Entry(b, kind, val)
  BY <1>1, <1>2 DEF Finds
<1>3. CASE \E at \in Nat, n \in 0 .. MAXBITS - r :
             /\ T[RootIndex(r, x)] = Entry(r, "sub", [at |-> at, bits |-> n])
             /\ SubIndex(r, at, n, x) \in DOMAIN T
             /\ T[SubIndex(r, at, n, x)] = Entry(b - r, kind, val)
  <2>1. PICK at \in Nat, n \in 0 .. MAXBITS - r :
             /\ T[RootIndex(r, x)] = Entry(r, "sub", [at |-> at, bits |-> n])
             /\ SubIndex(r, at, n, x) \in DOMAIN T
             /\ T[SubIndex(r, at, n, x)] = Entry(b - r, kind, val)
    BY <1>3
  <2>2. SubIndex(r, at, n, x) \in DOMAIN V /\ V[SubIndex(r, at, n, x)] = Entry(b - r, kind, val)
    BY <2>1 DEF Extends
  <2>3. V[RootIndex(r, x)] = Entry(r, "sub", [at |-> at, bits |-> n])
    BY <1>1, <2>1
  <2> HIDE DEF SubIndex, RootIndex
  <2> QED BY <1>1, <2>2, <2>3 DEF Finds
<1> QED
  BY <1>2, <1>3 DEF Finds

\* A number whose first bits are a code lies in the code's span.
LEMMA InSpan ==
  ASSUME NEW y \in Nat, NEW e \in Nat
  PROVE  y \in (y \div 2^e) * 2^e .. ((y \div 2^e) + 1) * 2^e - 1
<1> DEFINE p == 2^e
           q == y \div p
<1>1. p \in Nat \ {0}
  BY PowerPositive
<1>2. q \in Nat /\ y % p \in Nat /\ y % p < p /\ y = p * q + (y % p)
  BY <1>1, Division
<1> DEFINE v == y % p
<1> HIDE DEF p, q, v
<1>3. p * q = q * p /\ (q + 1) * p = q * p + p /\ q * p \in Nat
  BY <1>1, <1>2
<1>4. v \in Nat /\ v < p /\ y = p * q + v
  BY <1>2 DEF v
<1>5. y \in q * p .. (q + 1) * p - 1
  BY <1>1, <1>3, <1>4
<1> QED
  BY <1>5 DEF p, q

\* The first of the last bits.
LEMMA FirstOfLast ==
  ASSUME NEW y \in Nat, NEW a \in Nat, NEW b \in Nat
  PROVE  (y % 2^(a + b)) \div 2^b = (y \div 2^b) % 2^a
<1> DEFINE p == 2^a
           f == 2^b
           h == 2^(a + b)
           q == y \div h
           z == y % h
           u == z \div f
           v == z % f
<1>1. p \in Nat \ {0} /\ f \in Nat \ {0} /\ h = p * f /\ h \in Nat \ {0}
  <2>1. a + b \in Nat
    OBVIOUS
  <2>2. p \in Nat \ {0} /\ f \in Nat \ {0} /\ h \in Nat \ {0}
    BY <2>1, PowerPositive
  <2> QED BY <2>2, PowerAdds
<1>2. q \in Nat /\ z \in Nat /\ z < h /\ y = h * q + z
  BY <1>1, Division
<1>3. u \in Nat /\ v \in Nat /\ v < f /\ z = f * u + v
  <2> HIDE DEF z, f
  <2> QED BY <1>1, <1>2, Division
<1> HIDE DEF p, f, h, q, z, u, v
<1>4. u < p
  <2> SUFFICES ASSUME ~(u < p) PROVE FALSE
    OBVIOUS
  <2>1. f * p <= f * u
    BY <1>1, <1>3, TimesKeepsOrder
  <2>2. f * p = h /\ f * u \in Nat
    BY <1>1, <1>3
  <2> QED BY <1>1, <1>2, <1>3, <2>1, <2>2
<1>5. y = f * (p * q + u) + v /\ p * q + u \in Nat
  <2>1. h * q = f * (p * q) /\ p * q \in Nat
    BY <1>1, <1>2
  <2>2. f * (p * q + u) = f * (p * q) + f * u /\ f * u \in Nat /\ f * (p * q) \in Nat
    BY <1>1, <1>3, <2>1
  <2> QED BY <1>2, <1>3, <2>1, <2>2
<1>6. (f * (p * q + u) + v) \div f = p * q + u
  <2> DEFINE w == p * q + u
  <2>1. w \in Nat
    BY <1>5
  <2> HIDE DEF w
  <2>2. (f * w + v) \div f = w
    BY <1>1, <1>3, <2>1, Divided
  <2> QED BY <2>2 DEF w
<1>7. (p * q + u) % p = u
  BY <1>1, <1>2, <1>3, <1>4, Divided
<1>8. y \div f = p * q + u
  BY <1>5, <1>6
<1>9. (y \div f) % p = u
  BY <1>7, <1>8
<1> QED
  BY <1>9 DEF u, z, h, f, p

\* Divided by a power, and again by another one.
LEMMA PowersDivide ==
  ASSUME NEW x \in Nat, NEW a \in Nat, NEW b \in Nat
  PROVE  (x \div 2^a) \div 2^b = x \div 2^(a + b) /\ x \div 2^a \in Nat
<1> DEFINE p == 2^a
           f == 2^b
<1>1. p \in Nat \ {0} /\ f \in Nat \ {0} /\ 2^(a + b) = p * f
  <2>1. p \in Nat /\ p > 0 /\ f \in Nat /\ f > 0 /\ 2^(a + b) = p * f
    BY PowersOf
  <2> HIDE DEF p, f
  <2> QED BY <2>1
<1>2. x \div (p * f) = (x \div p) \div f
  <2> HIDE DEF p, f
  <2> QED BY <1>1, DividedAgain
<1>3. x \div p \in Nat
  <2> HIDE DEF p
  <2> QED BY <1>1, Division
<1> QED
  BY <1>1, <1>2, <1>3

\* A code of the root table is found for every input that begins with it.
LEMMA RootFinds ==
  ASSUME NEW r \in Nat, r <= MAXBITS, NEW l \in Nat, l <= r, NEW x \in Nat, NEW c \in Nat,
         c = x \div 2^(MAXBITS - l), c < 2^l,
         NEW T, NEW s, \A p \in Span(0, r, l, c % 2^l) : p \in DOMAIN T /\ T[p] = Entry(l, "symbol", s)
  PROVE  Finds(T, r, x, l, "symbol", s)
<1> DEFINE y == x \div 2^(MAXBITS - r)
<1>1. MAXBITS \in Nat
  BY SymbolsAre
<1>2. y \in Nat /\ y \div 2^(r - l) = c
  <2>1. MAXBITS - r \in Nat /\ r - l \in Nat /\ (MAXBITS - r) + (r - l) = MAXBITS - l
    BY <1>1
  <2> DEFINE a == MAXBITS - r
             b == r - l
  <2> HIDE DEF a, b
  <2>2. (x \div 2^a) \div 2^b = x \div 2^(a + b) /\ x \div 2^a \in Nat
    <3>1. a \in Nat /\ b \in Nat
      BY <2>1 DEF a, b
    <3> QED BY <3>1, PowersDivide
  <2>3. a + b = MAXBITS - l
    BY <2>1 DEF a, b
  <2> QED BY <2>2, <2>3 DEF a, b
<1>3. c % 2^l = c
  <2> DEFINE p == 2^l
  <2>1. p \in Nat \ {0} /\ c < p
    BY PowerPositive
  <2> HIDE DEF p
  <2>2. (p * 0 + c) % p = c
    <3>1. 0 \in Nat
      OBVIOUS
    <3> QED BY <2>1, <3>1, Divided
  <2>3. p * 0 + c = c
    BY <2>1
  <2> QED BY <2>2, <2>3 DEF p
<1>4. y \in c * 2^(r - l) .. (c + 1) * 2^(r - l) - 1
  <2>1. r - l \in Nat
    OBVIOUS
  <2> HIDE DEF y
  <2>2. y \in (y \div 2^(r - l)) * 2^(r - l) .. ((y \div 2^(r - l)) + 1) * 2^(r - l) - 1
    <3> DEFINE e == r - l
    <3>1. e \in Nat
      BY <2>1
    <3> HIDE DEF e
    <3>2. y \in (y \div 2^e) * 2^e .. ((y \div 2^e) + 1) * 2^e - 1
      BY <1>2, <3>1, InSpan
    <3> QED BY <3>2 DEF e
  <2> QED BY <1>2, <2>2
<1>5. RootIndex(r, x) = 0 + Reversed(r, y)
  <2>1. Reversed(r, y) \in Nat
    BY <1>2, ReversedBound
  <2> QED BY <2>1 DEF RootIndex
<1>6. RootIndex(r, x) \in Span(0, r, l, c)
  <2> HIDE DEF y
  <2> QED BY <1>4, <1>5 DEF Span
<1>7. RootIndex(r, x) \in DOMAIN T /\ T[RootIndex(r, x)] = Entry(l, "symbol", s)
  BY <1>3, <1>6
<1> QED
  BY <1>7 DEF Finds

\* A code of a sub-table is found by way of the root.
LEMMA SubFinds ==
  ASSUME NEW r \in Nat, r <= MAXBITS, NEW n \in 0 .. MAXBITS - r, NEW t \in Nat, t <= n, NEW x \in Nat, NEW c \in Nat,
         c = x \div 2^(MAXBITS - (r + t)), NEW at \in Nat,
         NEW T, NEW s, \A p \in Span(at, n, t, c % 2^t) : p \in DOMAIN T /\ T[p] = Entry(t, "symbol", s),
         Reversed(r, c \div 2^t) \in DOMAIN T, T[Reversed(r, c \div 2^t)] = Entry(r, "sub", [at |-> at, bits |-> n])
  PROVE  Finds(T, r, x, r + t, "symbol", s)
<1> DEFINE g == MAXBITS - r - n
           e == n - t
           y == x \div 2^g
           z == y % 2^n
<1>1. /\ g \in Nat /\ e \in Nat /\ n \in Nat /\ t + e = n
      /\ g + e = MAXBITS - (r + t) /\ MAXBITS - (r + t) \in Nat /\ (MAXBITS - (r + t)) + t = MAXBITS - r
  BY SymbolsAre
<1> HIDE DEF g, e
<1>2. y \in Nat /\ y \div 2^e = c
  <2>1. (x \div 2^g) \div 2^e = x \div 2^(g + e) /\ x \div 2^g \in Nat
    BY <1>1, PowersDivide
  <2> QED BY <1>1, <2>1
<1>3. RootIndex(r, x) = Reversed(r, c \div 2^t)
  <2> DEFINE a == MAXBITS - (r + t)
  <2>1. a \in Nat /\ a + t = MAXBITS - r /\ c = x \div 2^a
    BY <1>1
  <2> HIDE DEF a
  <2>2. (x \div 2^a) \div 2^t = x \div 2^(a + t)
    BY <2>1, PowersDivide
  <2> QED BY <2>1, <2>2 DEF RootIndex
<1>4. z \in Nat /\ z \div 2^e = c % 2^t
  <2>1. (y % 2^(t + e)) \div 2^e = (y \div 2^e) % 2^t
    BY <1>1, <1>2, FirstOfLast
  <2>2. y % 2^n \in Nat
    <3> DEFINE h == 2^n
    <3>1. h \in Nat \ {0}
      BY <1>1, PowerPositive
    <3> HIDE DEF h, y
    <3>2. y % h \in Nat
      BY <1>2, <3>1, Division
    <3> QED BY <3>2 DEF h
  <2> QED BY <1>1, <1>2, <2>1, <2>2
<1>5. z \in (c % 2^t) * 2^e .. ((c % 2^t) + 1) * 2^e - 1
  <2> HIDE DEF z
  <2>1. z \in (z \div 2^e) * 2^e .. ((z \div 2^e) + 1) * 2^e - 1
    BY <1>1, <1>4, InSpan
  <2> QED BY <1>4, <2>1
<1>6. SubIndex(r, at, n, x) = at + Reversed(n, z)
  BY DEF SubIndex, g
<1>7. SubIndex(r, at, n, x) \in Span(at, n, t, c % 2^t)
  <2> HIDE DEF z
  <2>1. z \in (c % 2^t) * 2^(n - t) .. ((c % 2^t) + 1) * 2^(n - t) - 1
    BY <1>5 DEF e
  <2> QED BY <1>6, <2>1 DEF Span
<1>8. SubIndex(r, at, n, x) \in DOMAIN T /\ T[SubIndex(r, at, n, x)] = Entry((r + t) - r, "symbol", s)
  <2>1. (r + t) - r = t
    OBVIOUS
  <2> QED BY <1>7, <2>1
<1> QED
  BY <1>3, <1>8 DEF Finds

-----------------------------------------------------------------------------
(* An accepted list of lengths.                                            *)

\* Its numbers fit their lengths; the last one is all ones unless the code is one bit.
LEMMA AcceptedCode ==
  ASSUME NEW ls \in Lists, NEW ty, Accepted(ty, ls), Longest(ls) # 0
  PROVE  /\ Longest(ls) \in 1 .. MAXBITS /\ NeverOver(ls)
         /\ \A s \in Coded(ls) : /\ ls[s] \in 1 .. Longest(ls) /\ NumberOf(ls, s) \in Nat
                                 /\ NumberOf(ls, s) < 2^ls[s] /\ NumberOf(ls, s) < Upto(ls, ls[s])
         /\ \/ Left(ls)[MAXBITS] = 0 /\ Upto(ls, Longest(ls)) = 2^Longest(ls)
            \/ Left(ls)[MAXBITS] > 0 /\ Longest(ls) = 1 /\ Upto(ls, 1) = 1
<1> DEFINE L == Longest(ls)
<1>1. /\ ls \in [0 .. Symbols - 1 -> 0 .. MAXBITS] /\ IsFiniteSet(0 .. Symbols - 1) /\ Alphabet(0 .. Symbols - 1)
      /\ MAXBITS \in Nat /\ MAXBITS >= 1
  BY SymbolsAre DEF Lists
<1>2. \A l \in 1 .. MAXBITS : /\ FirstCode(ls)[l] \in Nat /\ Upto(ls, l) \in Nat
                              /\ FirstCode(ls)[l] <= Upto(ls, l)
                              /\ Left(ls)[l] = 2^l - Upto(ls, l)
  BY <1>1, UptoIs
<1>3. /\ L \in 1 .. MAXBITS /\ \A k \in L + 1 .. MAXBITS : CountOf(ls, k) = 0
  <2>1. L \in 0 .. MAXBITS /\ \A k \in L + 1 .. MAXBITS : CountOf(ls, k) = 0
    BY <1>1, LongestIs
  <2> QED BY <2>1
<1>4. /\ \A l \in 1 .. MAXBITS : Left(ls)[l] >= 0
      /\ Left(ls)[MAXBITS] > 0 => L = 1
  BY DEF Accepted
<1>5. ASSUME NEW l \in 1 .. MAXBITS PROVE Upto(ls, l) <= 2^l
  <2> DEFINE u == Upto(ls, l)
             p == 2^l
  <2>1. p \in Nat /\ u \in Nat /\ p - u >= 0
    BY <1>2, <1>4, PowerPositive
  <2> HIDE DEF u, p
  <2>2. u <= p
    BY <2>1
  <2> QED BY <2>2 DEF u, p
<1>6. ASSUME NEW s \in Coded(ls)
      PROVE  /\ ls[s] \in 1 .. L /\ NumberOf(ls, s) \in Nat
             /\ NumberOf(ls, s) < 2^ls[s] /\ NumberOf(ls, s) < Upto(ls, ls[s])
  <2>1. ls[s] \in 1 .. MAXBITS /\ NumberOf(ls, s) \in Nat /\ NumberOf(ls, s) < Upto(ls, ls[s])
    BY <1>1, SymbolWord
  <2>2. ls[s] <= L
    BY <2>1, CodeOfLength
  <2>3. NumberOf(ls, s) < 2^ls[s]
    <3> DEFINE u == Upto(ls, ls[s])
               p == 2^ls[s]
               c == NumberOf(ls, s)
    <3>1. u <= p /\ u \in Nat /\ p \in Nat /\ c \in Nat /\ c < u
      BY <1>2, <1>5, <2>1, PowerPositive
    <3> HIDE DEF u, p, c
    <3>2. c < p
      BY <3>1
    <3> QED BY <3>2 DEF c, p
  <2> QED BY <1>3, <2>1, <2>2, <2>3
<1> DEFINE e == MAXBITS - L
           a == Upto(ls, L)
           b == Upto(ls, MAXBITS)
           p == 2^L
           f == 2^e
           h == 2^MAXBITS
<1>7. e \in Nat /\ L + e = MAXBITS
  BY <1>1, <1>3
<1>8. b = a * f
  <2> HIDE DEF e
  <2>1. \A m \in L + 1 .. L + e : CountOf(ls, m) = 0
    BY <1>3, <1>7
  <2>2. Upto(ls, L + e) = Upto(ls, L) * 2^e
    BY <1>1, <1>3, <1>7, <2>1, UptoGrows
  <2> QED BY <1>7, <2>2
<1>9. /\ a \in Nat /\ b \in Nat /\ p \in Nat \ {0} /\ f \in Nat \ {0} /\ h = p * f /\ a <= p
      /\ Left(ls)[MAXBITS] = h - b /\ Left(ls)[MAXBITS] >= 0
  <2>1. MAXBITS \in 1 .. MAXBITS
    BY <1>1
  <2>2. 2^(L + e) = p * f
    BY <1>3, <1>7, PowerAdds
  <2>3. p \in Nat \ {0} /\ f \in Nat \ {0}
    BY <1>3, <1>7, PowerPositive
  <2>4. a \in Nat /\ b \in Nat /\ Left(ls)[MAXBITS] = h - b
    BY <1>2, <1>3, <2>1
  <2>5. a <= p
    BY <1>3, <1>5
  <2>6. Left(ls)[MAXBITS] >= 0
    BY <1>4, <2>1
  <2>7. h = p * f
    BY <1>7, <2>2
  <2> QED BY <2>3, <2>4, <2>5, <2>6, <2>7
<1>10. CASE Left(ls)[MAXBITS] = 0
  <2>1. a * f = p * f
    <3>1. h - b = 0
      BY <1>9, <1>10
    <3> HIDE DEF a, b, p, f, h
    <3>2. p * f \in Nat /\ a * f \in Nat
      BY <1>9
    <3> QED BY <1>8, <1>9, <3>1, <3>2
  <2>2. a = p
    <3> HIDE DEF a, p, f
    <3>1. f * a = a * f /\ f * p = p * f
      BY <1>9
    <3>2. f * a + 0 = f * a /\ f * p + 0 = f * p
      BY <1>9
    <3>3. 0 < f /\ f * p + 0 = f * a + 0
      BY <1>9, <2>1, <3>1, <3>2
    <3>4. (f * p + 0) \div f = p
      BY <1>9, <3>3, Divided
    <3>5. (f * a + 0) \div f = a
      BY <1>9, <3>3, Divided
    <3> QED BY <3>3, <3>4, <3>5
  <2> QED BY <1>3, <1>5, <1>6, <1>10, <2>2 DEF NeverOver
<1>11. CASE Left(ls)[MAXBITS] > 0
  <2>1. L = 1
    BY <1>4, <1>11
  <2>2. CountOf(ls, 1) # 0 /\ 1 \in 1 .. MAXBITS
    <3>1. L = 0 \/ CountOf(ls, L) # 0
      BY <1>1, LongestIs
    <3> QED BY <1>1, <2>1, <3>1
  <2>3. FirstCode(ls)[1] < Upto(ls, 1)
    BY <2>2, CodeOfLength
  <2>4. 2^1 = 2
    BY PowerZero, PowerDoubles
  <2>5. Upto(ls, 1) # 2
    <3> SUFFICES ASSUME a = 2 PROVE FALSE
      BY <2>1
    <3>1. p = 2
      BY <2>1, <2>4
    <3> HIDE DEF a, b, p, f, h
    <3>2. b = h
      BY <1>8, <1>9, <3>1
    <3>3. h \in Int
      BY <1>9
    <3> QED BY <1>9, <1>11, <3>2, <3>3
  <2>6. Upto(ls, 1) <= 2
    BY <1>5, <2>2, <2>4
  <2>7. Upto(ls, 1) = 1
    BY <1>2, <2>2, <2>3, <2>5, <2>6
  <2> QED BY <1>3, <1>5, <1>6, <1>11, <2>1, <2>7 DEF NeverOver
<1> QED
  BY <1>9, <1>10, <1>11

\* The symbols of an accepted list in order: each code follows the one before it.
LEMMA NextFollows ==
  ASSUME NEW ls \in Lists, NEW ty, Accepted(ty, ls), Longest(ls) # 0,
         NEW a \in 1 .. Cardinality(Coded(ls)),
         NEW s, s = Sorted(ls)[a], NEW t, t = Sorted(ls)[a + 1],
         ~(NumberOf(ls, s) + 1 = Upto(ls, ls[s]) /\ ls[s] = Longest(ls))
  PROVE  /\ a + 1 \in 1 .. Cardinality(Coded(ls)) /\ s \in Coded(ls) /\ t \in Coded(ls)
         /\ Follows(NumberOf(ls, s), ls[s], NumberOf(ls, t), ls[t])
         /\ IF NumberOf(ls, s) + 1 # Upto(ls, ls[s]) THEN ls[t] = ls[s]
            ELSE /\ ls[t] > ls[s] /\ NumberOf(ls, t) = FirstCode(ls)[ls[t]]
                 /\ \A k \in ls[s] + 1 .. ls[t] - 1 : CountOf(ls, k) = 0
<1> DEFINE c == NumberOf(ls, s)
           m == NumberOf(ls, t)
           u == Upto(ls, ls[s])
<1>1. /\ c + 1 <= u
      /\ a + 1 \in 1 .. Cardinality(Coded(ls)) /\ t \in Coded(ls)
      /\ c + 1 # u => ls[t] = ls[s] /\ m = c + 1
      /\ c + 1 = u /\ ls[s] # Longest(ls) =>
           /\ ls[t] > ls[s] /\ m = FirstCode(ls)[ls[t]]
           /\ \A k \in ls[s] + 1 .. ls[t] - 1 : CountOf(ls, k) = 0
  BY NextSymbol
<1>2. s \in Coded(ls)
  BY SortedIs
<1>3. /\ ls[s] \in 1 .. MAXBITS /\ ls[t] \in 1 .. MAXBITS /\ c \in Nat
  BY <1>1, <1>2, SymbolsAre, AcceptedCode
<1>4. CASE c + 1 # u
  <2>1. ls[t] = ls[s] /\ m = c + 1
    BY <1>1, <1>4
  <2>2. CodeAfter(c, ls[t] - ls[s]) = c + 1
    <3>1. ls[t] - ls[s] = 0
      BY <1>3, <2>1
    <3>2. 2^(ls[t] - ls[s]) = 1
      BY <3>1, PowerZero
    <3> HIDE DEF c
    <3> QED BY <1>3, <3>2 DEF CodeAfter
  <2>3. Follows(c, ls[s], m, ls[t])
    <3>1. ls[s] <= ls[t]
      BY <1>3, <2>1
    <3> QED BY <2>1, <2>2, <3>1 DEF Follows
  <2> QED BY <1>1, <1>2, <1>4, <2>1, <2>3
<1>5. CASE c + 1 = u
  <2>1. /\ ls[t] > ls[s] /\ m = FirstCode(ls)[ls[t]]
        /\ \A k \in ls[s] + 1 .. ls[t] - 1 : CountOf(ls, k) = 0
    BY <1>1, <1>5
  <2>2. FirstCode(ls)[ls[t]] = u * 2^(ls[t] - ls[s])
    <3> DEFINE l == ls[s]
               k == ls[t]
    <3>1. l \in 1 .. MAXBITS /\ k \in 1 .. MAXBITS /\ l < k /\ \A v \in l + 1 .. k - 1 : CountOf(ls, v) = 0
      BY <1>3, <2>1
    <3> HIDE DEF l, k
    <3>2. FirstCode(ls)[k] = Upto(ls, l) * 2^(k - l)
      BY <3>1, FirstCodeAfter
    <3> QED BY <3>2 DEF l, k
  <2>3. m = CodeAfter(c, ls[t] - ls[s])
    BY <1>5, <2>1, <2>2 DEF CodeAfter
  <2>4. ls[s] <= ls[t]
    BY <1>3, <2>1
  <2> QED BY <1>1, <1>2, <1>5, <2>1, <2>3, <2>4 DEF Follows
<1> QED
  BY <1>4, <1>5

-----------------------------------------------------------------------------
(* The table while it is built.                                            *)

\* The number of the code that is entered next.
Code == NumberOf(lens, work[sym + 1])

\* A number of MAXBITS bits is read: its first bits are a code, whose symbol is found.
IsGot(T, r, ls, x) == \E s \in Coded(ls) : /\ x \div 2^(MAXBITS - ls[s]) = NumberOf(ls, s)
                                           /\ Finds(T, r, x, ls[s], "symbol", s)
ReadsBelow(T, r, ls, m) == \A x \in 0 .. m - 1 : IsGot(T, r, ls, x)

\* What holds from the first code to the last.
Begun == /\ lens \in Lists /\ Longest(lens) # 0 /\ Accepted(type, lens) /\ ret = 0
         /\ root = RootOf(lens) /\ work = Sorted(lens)
         /\ next \in Nat /\ curr \in Nat /\ used = next + 2^curr
         /\ LimitsTable => used <= ENOUGH

\* The counts are those of the codes still to be entered.
Counts == /\ count \in [0 .. MAXBITS -> Int]
          /\ count[len] = Upto(lens, len) - Code
          /\ \A l \in len + 1 .. Longest(lens) : count[l] = CountOf(lens, l)

\* The table in hand has room for the code, and a sub-table for all that share its first bits.
InHand == IF drop = 0
            THEN curr = root /\ next = 0 /\ low = -1 /\ len <= root
            ELSE /\ drop = root /\ len \in root + 1 .. root + curr /\ root + curr <= Longest(lens)
                 /\ next >= 2^root
                 /\ low = Reversed(root, RootPart(root, len, Code)) /\ low \in DOMAIN table
                 /\ table[low] = Entry(root, "sub", [at |-> next, bits |-> curr])
                 /\ \/ root + curr = Longest(lens)
                    \/ (RootPart(root, len, Code) + 1) * 2^curr <= Upto(lens, root + curr)

Entering == /\ Begun /\ sym \in 0 .. Cardinality(Coded(lens)) - 1 /\ len = lens[work[sym + 1]]
            /\ huff = Reversed(len, Code)
            /\ Counts /\ InHand
            /\ DOMAIN table = Filled(drop, curr, next, Code, len)
            /\ ReadsBelow(table, root, lens, Code * 2^(MAXBITS - len))

\* A table with one entry more, in several places.
With(S, v, T) == Overlay([p \in S |-> v], T)

\* The table with the code's entries.
Grown == With(Places, Entry(len - drop, "symbol", work[sym + 1]), table)

\* Entries elsewhere leave those that are there.
LEMMA WithIs ==
  ASSUME NEW S, NEW v, NEW T, S \cap DOMAIN T = {}
  PROVE  /\ DOMAIN With(S, v, T) = S \cup DOMAIN T
         /\ Extends(T, With(S, v, T))
         /\ \A p \in S : With(S, v, T)[p] = v
BY DEF With, Overlay, Extends

\* The root's index bits.
LEMMA RootIs ==
  ASSUME NEW ls \in Lists, Longest(ls) # 0
  PROVE  /\ RootOf(ls) \in 1 .. Longest(ls) /\ Shortest(ls) <= RootOf(ls) /\ Longest(ls) \in 1 .. MAXBITS
         /\ Shortest(ls) \in 1 .. Longest(ls)
<1>1. Longest(ls) \in 1 .. MAXBITS
  <2>1. ls \in [0 .. Symbols - 1 -> 0 .. MAXBITS] /\ IsFiniteSet(0 .. Symbols - 1) /\ MAXBITS \in Nat
    BY SymbolsAre DEF Lists
  <2>2. Longest(ls) \in 0 .. MAXBITS
    BY <2>1, LongestIs
  <2> QED BY <2>1, <2>2
<1>2. Shortest(ls) \in 1 .. Longest(ls)
  BY ShortestIs
<1>3. RootBits \in 1 .. MAXBITS
  BY TableAssumption
<1> QED
  BY <1>1, <1>2, <1>3, SymbolsAre DEF RootOf

\* With a code's symbol found for all inputs that begin with it, more is read.
LEMMA ReadsOn ==
  ASSUME NEW ls \in Lists, NEW s \in Coded(ls), NEW c \in Nat, c = NumberOf(ls, s), NEW r,
         NEW T, NEW V, Extends(T, V), ReadsBelow(T, r, ls, c * 2^(MAXBITS - ls[s])),
         \A x \in Nat : x \div 2^(MAXBITS - ls[s]) = c => Finds(V, r, x, ls[s], "symbol", s)
  PROVE  ReadsBelow(V, r, ls, (c + 1) * 2^(MAXBITS - ls[s]))
<1> DEFINE p == 2^(MAXBITS - ls[s])
<1>1. p \in Nat \ {0}
  <2>1. MAXBITS - ls[s] \in Nat
    BY SymbolsAre
  <2> QED BY <2>1, PowerPositive
<1>2. c * p \in Nat /\ (c + 1) * p = c * p + p /\ c * p = p * c
  <2> HIDE DEF p
  <2> QED BY <1>1
<1> SUFFICES ASSUME NEW x \in 0 .. (c + 1) * p - 1 PROVE IsGot(V, r, ls, x)
  BY DEF ReadsBelow
<1>3. x \in Nat /\ x < c * p + p
  <2> HIDE DEF p
  <2> QED BY <1>1, <1>2
<1>4. CASE x < c * p
  <2>1. x \in 0 .. c * p - 1
    <3> HIDE DEF p
    <3> QED BY <1>2, <1>3, <1>4
  <2>2. IsGot(T, r, ls, x)
    BY <2>1 DEF ReadsBelow
  <2>3. PICK t \in Coded(ls) : x \div 2^(MAXBITS - ls[t]) = NumberOf(ls, t) /\ Finds(T, r, x, ls[t], "symbol", t)
    BY <2>2 DEF IsGot
  <2>4. Finds(V, r, x, ls[t], "symbol", t)
    BY <2>3, FindsKept
  <2> QED BY <2>3, <2>4 DEF IsGot
<1>5. CASE ~(x < c * p)
  <2>1. x \div p = c
    <3> HIDE DEF p
    <3>1. p * c <= x /\ x < p * c + p
      BY <1>2, <1>3, <1>5
    <3> QED BY <1>1, <1>3, <3>1, Quotient
  <2>2. Finds(V, r, x, ls[s], "symbol", s)
    BY <1>3, <2>1
  <2> QED BY <2>1, <2>2 DEF IsGot
<1> QED
  BY <1>4, <1>5

\* One code ends where the next begins.
LEMMA FollowsOn ==
  ASSUME NEW c \in Nat, NEW l \in Nat, NEW k \in Nat, NEW m, Follows(c, l, m, k), k <= MAXBITS
  PROVE  m * 2^(MAXBITS - k) = (c + 1) * 2^(MAXBITS - l)
<1> DEFINE f == 2^(k - l)
           g == 2^(MAXBITS - k)
           h == 2^(MAXBITS - l)
<1>1. MAXBITS \in Nat /\ l <= k /\ m = (c + 1) * f
  BY SymbolsAre DEF Follows, CodeAfter
<1>2. f \in Nat /\ g \in Nat /\ h = f * g
  <2>1. k - l \in Nat /\ MAXBITS - k \in Nat /\ (k - l) + (MAXBITS - k) = MAXBITS - l
    BY <1>1
  <2>2. 2^((k - l) + (MAXBITS - k)) = f * g
    BY <2>1, PowerAdds
  <2>3. f \in Nat /\ g \in Nat
    BY <2>1, PowerPositive
  <2> QED BY <2>1, <2>2, <2>3
<1> HIDE DEF f, g, h
<1>3. ((c + 1) * f) * g = (c + 1) * (f * g)
  BY <1>2
<1> QED
  BY <1>1, <1>2, <1>3 DEF g, h

\* Entering a code.
LEMMA CodeEntered ==
  ASSUME Entering
  PROVE  /\ work[sym + 1] \in Coded(lens) /\ len \in 1 .. Longest(lens) /\ Longest(lens) \in 1 .. MAXBITS
         /\ Code \in Nat /\ Code < 2^len /\ Code < Upto(lens, len)
         /\ root \in 1 .. Longest(lens) /\ drop \in {0, root} /\ drop <= len /\ len - drop <= curr /\ root <= MAXBITS
         /\ drop # 0 => next >= 2^drop
         /\ Places \cap DOMAIN table = {}
         /\ Extends(table, Grown)
         /\ DOMAIN Grown = Entered(drop, curr, next, Code, len)
         /\ ReadsBelow(Grown, root, lens, (Code + 1) * 2^(MAXBITS - len))
<1> DEFINE s == work[sym + 1]
           d == drop
           n == curr
           c == Code
           M == MAXBITS
           t == len - d
           L == Longest(lens)
<1>1. /\ Begun /\ sym \in 0 .. Cardinality(Coded(lens)) - 1 /\ len = lens[s]
      /\ huff = Reversed(len, c) /\ InHand
      /\ DOMAIN table = Filled(d, n, next, c, len)
      /\ ReadsBelow(table, root, lens, c * 2^(M - len))
      /\ c = NumberOf(lens, s)
  BY DEF Entering, Code
<1>2. /\ lens \in Lists /\ L # 0 /\ Accepted(type, lens)
      /\ root = RootOf(lens) /\ work = Sorted(lens)
      /\ next \in Nat /\ n \in Nat
  BY <1>1 DEF Begun
<1>3. s \in Coded(lens)
  <2>1. Cardinality(Coded(lens)) \in Nat
    BY <1>2, SortedIs
  <2>2. sym + 1 \in 1 .. Cardinality(Coded(lens))
    BY <1>1, <2>1
  <2> QED BY <1>2, <2>2, SortedIs
<1>4. /\ root \in 1 .. L /\ L \in 1 .. M /\ M \in Nat /\ root <= M /\ root \in Nat /\ root # 0
  <2>1. root \in 1 .. L /\ L \in 1 .. M /\ M \in Nat
    BY <1>2, RootIs, SymbolsAre
  <2> QED BY <2>1
<1>5. len \in 1 .. L /\ c \in Nat /\ c < 2^len /\ c < Upto(lens, len)
  BY <1>1, <1>2, <1>3, AcceptedCode
<1>6. /\ d \in {0, root} /\ d \in Nat /\ d <= len /\ len - d <= n /\ t \in Nat /\ t <= n /\ d + t = len /\ len \in Nat
      /\ d # 0 => next >= 2^d
  <2>1. len \in Nat /\ len >= 1
    BY <1>4, <1>5
  <2>2. CASE d = 0
    <3>1. n = root /\ len <= root
      BY <1>1, <2>2 DEF InHand
    <3> QED BY <1>4, <2>1, <2>2, <3>1
  <2>3. CASE d # 0
    <3>1. d = root /\ len \in root + 1 .. root + n /\ next >= 2^root
      BY <1>1, <2>3 DEF InHand
    <3> QED BY <1>2, <1>4, <2>1, <2>3, <3>1
  <2> QED BY <2>2, <2>3
<1>7. /\ Places = Span(next, n, t, c % 2^t)
      /\ Places \cap DOMAIN table = {}
      /\ Places \cup DOMAIN table = Entered(d, n, next, c, len)
  <2> HIDE DEF t, c
  <2>1. c < 2^(d + t) /\ n \in Nat /\ next \in Nat /\ d \in Nat /\ t \in Nat /\ t <= n /\ c \in Nat
    BY <1>2, <1>5, <1>6
  <2>2. Places = Strided(d, n, next, t, c)
    <3>1. t = len - drop /\ huff = Reversed(d + t, c)
      BY <1>1, <1>6 DEF t, c
    <3> QED BY <3>1 DEF Places, Strided
  <2>3. /\ Places = Span(next, n, t, c % 2^t)
        /\ Places \cap Filled(d, n, next, c, d + t) = {}
        /\ Places \cup Filled(d, n, next, c, d + t) = Entered(d, n, next, c, d + t)
    BY <1>6, <2>1, <2>2, PlacesFree
  <2> QED BY <1>1, <1>6, <2>3 DEF c
<1>8. /\ DOMAIN Grown = Places \cup DOMAIN table
      /\ Extends(table, Grown)
      /\ \A p \in Places : Grown[p] = Entry(t, "symbol", s)
  <2> DEFINE v == Entry(t, "symbol", s)
  <2>1. Grown = With(Places, v, table)
    BY DEF Grown
  <2> HIDE DEF v
  <2>2. /\ DOMAIN With(Places, v, table) = Places \cup DOMAIN table
        /\ Extends(table, With(Places, v, table))
        /\ \A p \in Places : With(Places, v, table)[p] = v
    <3>1. Places \cap DOMAIN table = {}
      BY <1>7
    <3> QED BY ONLY <3>1, WithIs
  <2> QED BY <2>1, <2>2 DEF v
<1>9. \A p \in Span(next, n, t, c % 2^t) : p \in DOMAIN Grown /\ Grown[p] = Entry(t, "symbol", s)
  BY <1>7, <1>8
<1>10. ASSUME NEW x \in Nat, x \div 2^(M - len) = c PROVE Finds(Grown, root, x, len, "symbol", s)
  <2>1. CASE d = 0
    <3>1. n = root /\ next = 0 /\ len <= root
      BY <1>1, <2>1 DEF InHand
    <3>2. t = len
      BY <1>6, <2>1
    <3> HIDE DEF t, c
    <3>3. \A p \in Span(0, root, len, c % 2^len) : p \in DOMAIN Grown /\ Grown[p] = Entry(len, "symbol", s)
      BY <1>9, <3>1, <3>2
    <3>4. c = x \div 2^(M - len)
      BY <1>10
    <3> HIDE DEF s
    <3> QED BY <1>4, <1>5, <1>6, <3>1, <3>3, <3>4, RootFinds
  <2>2. CASE d # 0
    <3>1. /\ d = root /\ len \in root + 1 .. root + n /\ root + n <= L
          /\ low = Reversed(root, RootPart(root, len, c)) /\ low \in DOMAIN table
          /\ table[low] = Entry(root, "sub", [at |-> next, bits |-> n])
      BY <1>1, <2>2 DEF InHand
    <3>2. low \in DOMAIN Grown /\ Grown[low] = Entry(root, "sub", [at |-> next, bits |-> n])
      BY <1>8, <3>1 DEF Extends
    <3>3. low = Reversed(root, c \div 2^t)
      BY <3>1 DEF RootPart
    <3>4. n \in 0 .. M - root
      BY <1>2, <1>4, <3>1
    <3>5. root + t = len
      BY <1>6, <3>1
    <3> HIDE DEF t, c, s
    <3>6. c = x \div 2^(M - (root + t))
      BY <1>10, <3>5
    <3>7. Finds(Grown, root, x, root + t, "symbol", s)
      BY <1>2, <1>4, <1>5, <1>6, <1>9, <3>2, <3>3, <3>4, <3>6, SubFinds
    <3> QED BY <3>5, <3>7
  <2> QED BY <2>1, <2>2
<1>11. ReadsBelow(Grown, root, lens, (c + 1) * 2^(M - len))
  <2> HIDE DEF c, s
  <2> QED BY <1>1, <1>2, <1>3, <1>5, <1>8, <1>10, ReadsOn
<1> QED
  BY <1>3, <1>4, <1>5, <1>6, <1>7, <1>8, <1>11

-----------------------------------------------------------------------------
(* The step that enters a code, by the names of what it works out.         *)

Remaining == [count EXCEPT ![len] = @ - 1]
IsLast == Remaining[len] = 0 /\ len = Longest(lens)
NextLen == IF Remaining[len] = 0 /\ ~IsLast THEN lens[work[sym + 2]] ELSE len
Carried == Increment(huff, len)
Splits == ~IsLast /\ NextLen > root /\ Carried % 2^root # low
NextWidth == Width(NextLen, root, Remaining)

\* What it does in these names.
LEMMA EnterCodeIs ==
  ASSUME EnterCode
  PROVE  /\ stage = "enter" /\ huff' = Carried /\ sym' = sym + 1 /\ count' = Remaining /\ len' = NextLen
         /\ IF Splits
              THEN /\ drop' = root /\ curr' = NextWidth /\ next' = next + 2^curr /\ used' = used + 2^NextWidth
                   /\ IF LimitsTable /\ used + 2^NextWidth > ENOUGH
                        THEN ret' = 1 /\ table' = Grown /\ low' = low
                        ELSE /\ low' = Carried % 2^root
                             /\ table' = With({Carried % 2^root},
                                              Entry(root, "sub", [at |-> next + 2^curr, bits |-> NextWidth]), Grown)
                             /\ ret' = ret
              ELSE table' = Grown /\ drop' = drop /\ curr' = curr /\ next' = next /\ used' = used /\ low' = low /\ ret' = ret
         /\ stage' = CASE ret' = 1 -> "done" [] IsLast -> "rest" [] OTHER -> "enter"
         /\ type' = type /\ lens' = lens /\ root' = root /\ work' = work
BY DEF EnterCode, Remaining, IsLast, NextLen, Carried, Splits, NextWidth, Grown, With

\* The codes of the length in hand that remain.
LEMMA RemainingIs ==
  ASSUME Entering
  PROVE  /\ Remaining \in [0 .. MAXBITS -> Int]
         /\ Remaining[len] = Upto(lens, len) - Code - 1
         /\ \A l \in len + 1 .. Longest(lens) : Remaining[l] = CountOf(lens, l)
         /\ IsLast <=> Code + 1 = Upto(lens, len) /\ len = Longest(lens)
         /\ Remaining[len] = 0 <=> Code + 1 = Upto(lens, len)
<1>1. Counts
  BY DEF Entering
<1>2. /\ len \in 1 .. Longest(lens) /\ Longest(lens) \in 1 .. MAXBITS /\ Code \in Nat
  BY CodeEntered
<1>3. MAXBITS \in Nat /\ lens \in Lists
  BY SymbolsAre DEF Entering, Begun
<1>4. len \in 0 .. MAXBITS /\ len \in 1 .. MAXBITS
  BY <1>2, <1>3
<1>5. Upto(lens, len) \in Nat
  <2>1. lens \in [0 .. Symbols - 1 -> 0 .. MAXBITS] /\ IsFiniteSet(0 .. Symbols - 1)
    BY <1>3, SymbolsAre DEF Lists
  <2> QED BY <1>4, <2>1, UptoIs
<1>6. count \in [0 .. MAXBITS -> Int] /\ count[len] = Upto(lens, len) - Code
  BY <1>1 DEF Counts
<1>7. Remaining \in [0 .. MAXBITS -> Int] /\ Remaining[len] = (Upto(lens, len) - Code) - 1
  BY <1>2, <1>4, <1>5, <1>6 DEF Remaining
<1>8. ASSUME NEW l \in len + 1 .. Longest(lens) PROVE Remaining[l] = CountOf(lens, l)
  <2>1. count[l] = CountOf(lens, l)
    BY <1>1 DEF Counts
  <2>2. l # len /\ l \in 0 .. MAXBITS
    BY <1>2, <1>3
  <2> QED BY <1>6, <2>1, <2>2 DEF Remaining
<1>9. Remaining[len] = 0 <=> Code + 1 = Upto(lens, len)
  <2> DEFINE u == Upto(lens, len)
             c == Code
             v == Remaining[len]
  <2>1. v = (u - c) - 1 /\ u \in Nat /\ c \in Nat
    BY <1>2, <1>5, <1>7
  <2> HIDE DEF u, c, v
  <2>2. v = 0 <=> c + 1 = u
    BY <2>1
  <2> QED BY <2>2 DEF u, c, v
<1> QED
  BY <1>7, <1>8, <1>9 DEF IsLast

\* The code after the one that is entered, when there is one.
LEMMA Successor ==
  ASSUME Entering, ~IsLast, NEW t, t = work[sym + 2], NEW m, m = NumberOf(lens, t)
  PROVE  /\ sym + 1 \in 0 .. Cardinality(Coded(lens)) - 1 /\ t \in Coded(lens)
         /\ NextLen = lens[t] /\ NextLen \in 1 .. Longest(lens) /\ len <= NextLen
         /\ m \in Nat /\ m < 2^NextLen /\ FirstCode(lens)[NextLen] <= m
         /\ Follows(Code, len, m, NextLen)
         /\ Carried = Reversed(NextLen, m)
         /\ Remaining[NextLen] = Upto(lens, NextLen) - m
         /\ \A l \in NextLen + 1 .. Longest(lens) : Remaining[l] = CountOf(lens, l)
         /\ ReadsBelow(Grown, root, lens, m * 2^(MAXBITS - NextLen))
<1> DEFINE s == work[sym + 1]
           c == Code
           l == len
           k == lens[t]
           L == Longest(lens)
<1>1. /\ lens \in Lists /\ L # 0 /\ Accepted(type, lens) /\ work = Sorted(lens)
      /\ sym \in 0 .. Cardinality(Coded(lens)) - 1 /\ l = lens[s] /\ huff = Reversed(l, c)
      /\ c = NumberOf(lens, s)
  BY DEF Entering, Begun, Code
<1>2. /\ s \in Coded(lens) /\ l \in 1 .. L /\ L \in 1 .. MAXBITS /\ c \in Nat /\ c < 2^l
      /\ ReadsBelow(Grown, root, lens, (c + 1) * 2^(MAXBITS - l))
  BY CodeEntered
<1>3. /\ Remaining[l] = Upto(lens, l) - c - 1
      /\ \A v \in l + 1 .. L : Remaining[v] = CountOf(lens, v)
      /\ IsLast <=> c + 1 = Upto(lens, l) /\ l = L
      /\ Remaining[l] = 0 <=> c + 1 = Upto(lens, l)
  BY RemainingIs
<1>4. Cardinality(Coded(lens)) \in Nat
  BY <1>1, SortedIs
<1>5. /\ sym + 2 \in 1 .. Cardinality(Coded(lens)) /\ t \in Coded(lens)
      /\ Follows(c, l, m, k)
      /\ IF c + 1 # Upto(lens, l) THEN k = l
         ELSE /\ k > l /\ m = FirstCode(lens)[k]
              /\ \A v \in l + 1 .. k - 1 : CountOf(lens, v) = 0
  <2> DEFINE a == sym + 1
  <2>1. a \in 1 .. Cardinality(Coded(lens)) /\ s = Sorted(lens)[a] /\ a + 1 = sym + 2
    BY <1>1, <1>4
  <2>2. t = Sorted(lens)[a + 1]
    BY <1>1, <2>1
  <2>3. ~(NumberOf(lens, s) + 1 = Upto(lens, lens[s]) /\ lens[s] = Longest(lens))
    BY <1>1, <1>3
  <2> HIDE DEF a, s
  <2>4. /\ a + 1 \in 1 .. Cardinality(Coded(lens)) /\ t \in Coded(lens)
        /\ Follows(NumberOf(lens, s), lens[s], NumberOf(lens, t), lens[t])
        /\ IF NumberOf(lens, s) + 1 # Upto(lens, lens[s]) THEN lens[t] = lens[s]
           ELSE /\ lens[t] > lens[s] /\ NumberOf(lens, t) = FirstCode(lens)[lens[t]]
                /\ \A v \in lens[s] + 1 .. lens[t] - 1 : CountOf(lens, v) = 0
    BY <1>1, <2>1, <2>2, <2>3, NextFollows
  <2> HIDE DEF c
  <2> QED BY <1>1, <2>1, <2>4
<1>6. k \in 1 .. L /\ m \in Nat /\ m < 2^k /\ m < Upto(lens, k)
  BY <1>1, <1>5, AcceptedCode
<1>7. k \in 1 .. MAXBITS /\ k \in Nat /\ l \in Nat /\ l \in 1 .. MAXBITS /\ MAXBITS \in Nat
  <2>1. MAXBITS \in Nat
    BY SymbolsAre
  <2> QED BY <1>2, <1>6, <2>1
<1>8. NextLen = k
  <2>1. CASE c + 1 # Upto(lens, l)
    <3>1. NextLen = len /\ k = l
      BY <1>3, <1>5, <2>1 DEF NextLen
    <3> QED BY <3>1
  <2>2. CASE c + 1 = Upto(lens, l)
    <3>1. Remaining[len] = 0 /\ ~IsLast
      BY <1>3, <2>2
    <3> QED BY <3>1 DEF NextLen
  <2> QED BY <2>1, <2>2
<1>9. l <= k /\ m = (c + 1) * 2^(k - l)
  BY <1>5 DEF Follows, CodeAfter
<1>10. FirstCode(lens)[k] <= m
  <2>1. lens \in [0 .. Symbols - 1 -> 0 .. MAXBITS] /\ Alphabet(0 .. Symbols - 1)
    BY <1>1, SymbolsAre DEF Lists
  <2>2. FirstCode(lens)[lens[t]] <= NumberOf(lens, t)
    BY <1>5, <2>1, SymbolWord
  <2> QED BY <2>2
<1>11. Carried = Reversed(k, m)
  <2> DEFINE p == 2^l
             f == 2^(k - l)
  <2>1. p \in Nat \ {0} /\ f \in Nat \ {0} /\ 2^k = p * f
    <3>1. k - l \in Nat /\ l + (k - l) = k
      BY <1>7, <1>9
    <3>2. 2^(l + (k - l)) = p * f
      BY <1>7, <3>1, PowerAdds
    <3> QED BY <1>7, <3>1, <3>2, PowerPositive
  <2>2. c + 1 # p
    <3> SUFFICES ASSUME c + 1 = p PROVE FALSE
      OBVIOUS
    <3>1. m = p * f
      BY <1>9
    <3>2. m < p * f /\ m \in Nat
      BY <1>6, <2>1
    <3> QED BY <3>1, <3>2
  <2>3. c \in 0 .. p - 1
    <3> HIDE DEF p, c
    <3> QED BY <1>2, <2>1 DEF p
  <2>4. Carried = Reversed(l, c + 1)
    <3>1. Carried = Increment(Reversed(l, c), l)
      BY <1>1 DEF Carried
    <3>2. Increment(Reversed(l, c), l) = IF c + 1 = 2^l THEN 0 ELSE Reversed(l, c + 1)
      <4> HIDE DEF c
      <4> QED BY <1>7, <2>3, IncrementIs
    <3> QED BY <2>2, <3>1, <3>2
  <2>5. Reversed(k, (c + 1) * 2^(k - l)) = Reversed(l, c + 1)
    <3> DEFINE e == k - l
               y == c + 1
    <3>1. e \in Nat /\ l + e = k /\ y \in Nat
      BY <1>2, <1>7, <1>9
    <3> HIDE DEF e, y
    <3>2. Reversed(l + e, y * 2^e) = Reversed(l, y)
      BY <1>7, <3>1, ReversedZeros
    <3> QED BY <3>1, <3>2 DEF e, y
  <2> QED BY <1>9, <2>4, <2>5
<1>12. Remaining[k] = Upto(lens, k) - m
  <2>0. CountOf(lens, k) \in Nat /\ FirstCode(lens)[k] \in Nat /\ Upto(lens, l) \in Nat
    <3>1. lens \in [0 .. Symbols - 1 -> 0 .. MAXBITS] /\ IsFiniteSet(0 .. Symbols - 1)
      BY <1>1, SymbolsAre DEF Lists
    <3> QED BY <1>7, <3>1, UptoIs, CountType
  <2>1. CASE c + 1 # Upto(lens, l)
    <3>1. k = l
      BY <1>5, <2>1
    <3>2. m = c + 1
      <4>1. k - l = 0
        BY <1>7, <3>1
      <4>2. 2^(k - l) = 1
        BY <4>1, PowerZero
      <4> HIDE DEF c
      <4> QED BY <1>2, <1>9, <4>2
    <3> DEFINE u == Upto(lens, l)
    <3>3. (u - c) - 1 = u - (c + 1)
      <4> HIDE DEF u, c
      <4> QED BY <1>2, <2>0 DEF u
    <3> QED BY <1>3, <3>1, <3>2, <3>3
  <2>2. CASE c + 1 = Upto(lens, l)
    <3>1. k > l /\ m = FirstCode(lens)[k]
      BY <1>5, <2>2
    <3>2. k \in l + 1 .. L
      BY <1>6, <1>7, <3>1
    <3>3. Remaining[k] = CountOf(lens, k)
      BY <1>3, <3>2
    <3> DEFINE f == FirstCode(lens)[k]
               g == CountOf(lens, k)
    <3>4. (f + g) - f = g
      <4> HIDE DEF f, g
      <4> QED BY <2>0 DEF f, g
    <3> QED BY <3>1, <3>3, <3>4 DEF Upto
  <2> QED BY <2>1, <2>2
<1>13. \A v \in k + 1 .. L : Remaining[v] = CountOf(lens, v)
  <2>1. \A v \in k + 1 .. L : v \in l + 1 .. L
    BY <1>2, <1>7, <1>9
  <2> QED BY <1>3, <2>1
<1>14. m * 2^(MAXBITS - k) = (c + 1) * 2^(MAXBITS - l)
  <2>1. k <= MAXBITS
    BY <1>7
  <2> HIDE DEF c, k
  <2> QED BY <1>2, <1>5, <1>7, <2>1, FollowsOn
<1>15. sym + 1 \in 0 .. Cardinality(Coded(lens)) - 1
  BY <1>1, <1>4, <1>5
<1> HIDE DEF k, c
<1>16. ReadsBelow(Grown, root, lens, m * 2^(MAXBITS - k))
  BY <1>2, <1>14
<1> QED
  BY <1>5, <1>6, <1>7, <1>8, <1>9, <1>10, <1>11, <1>12, <1>13, <1>15, <1>16 DEF k, c

\* A code that is at least the first of the codes beyond a table does not begin with what leads there.
LEMMA NotBeyond ==
  ASSUME NEW ls \in Lists, NEW r \in Nat, r >= 1, NEW n \in Nat, NEW k \in 1 .. MAXBITS, r + n < k,
         NEW m \in Nat, FirstCode(ls)[k] <= m,
         NEW v \in Nat, (v + 1) * 2^n <= Upto(ls, r + n)
  PROVE  RootPart(r, k, m) # v
<1> DEFINE l == r + n
           e == k - l
           f == 2^e
           p == 2^n
           h == 2^(k - r)
           u == Upto(ls, l)
<1>1. MAXBITS \in Nat /\ l \in 1 .. MAXBITS /\ e \in Nat /\ l < k /\ k - r = n + e /\ k - r \in Nat
  BY SymbolsAre
<1>2. f \in Nat /\ p \in Nat /\ h \in Nat \ {0} /\ h = p * f
  <2>1. 2^(n + e) = p * f
    BY <1>1, PowerAdds
  <2> QED BY <1>1, <2>1, PowerPositive
<1>3. u * f <= m /\ u \in Nat
  <2>1. ls \in [0 .. Symbols - 1 -> 0 .. MAXBITS] /\ IsFiniteSet(0 .. Symbols - 1)
    BY SymbolsAre DEF Lists
  <2>2. u \in Nat /\ FirstCode(ls)[k] \in Nat
    <3> HIDE DEF l
    <3> QED BY <1>1, <2>1, UptoIs
  <2>3. u * f <= FirstCode(ls)[k]
    <3> HIDE DEF l
    <3> QED BY <1>1, FirstCodeAfter DEF e
  <2> DEFINE w == FirstCode(ls)[k]
             q == u * f
  <2>4. q \in Nat /\ w \in Nat /\ q <= w /\ w <= m
    <3> HIDE DEF u, f, w
    <3>1. u * f \in Nat
      BY <1>2, <2>2
    <3> QED BY <2>2, <2>3, <3>1 DEF w
  <2> HIDE DEF q, w
  <2>5. q <= m
    BY <2>4
  <2> QED BY <2>2, <2>5 DEF q
<1>4. (v + 1) * p <= u
  OBVIOUS
<1> HIDE DEF f, p, h, u
<1>5. h * (v + 1) <= m
  <2>1. f * ((v + 1) * p) <= f * u
    <3>1. (v + 1) * p \in Int
      BY <1>2
    <3> QED BY <1>2, <1>3, <1>4, <3>1, TimesKeepsOrder
  <2>2. f * ((v + 1) * p) = (p * f) * (v + 1) /\ f * u = u * f
    BY <1>2, <1>3
  <2> DEFINE a == (p * f) * (v + 1)
             b == u * f
  <2>3. a \in Nat /\ b \in Nat /\ a <= b /\ b <= m
    BY <1>2, <1>3, <2>1, <2>2
  <2> HIDE DEF a, b
  <2>4. a <= m
    BY <2>3
  <2> QED BY <1>2, <2>4 DEF a
<1>6. SUFFICES ASSUME m \div h = v PROVE FALSE
  BY DEF RootPart, h
<1>7. m % h \in Nat /\ m % h < h /\ m = h * (m \div h) + (m % h)
  BY <1>2, Division
<1> DEFINE z == m % h
<1>8. z \in Nat /\ z < h /\ m = h * v + z
  BY <1>6, <1>7
<1> HIDE DEF z
<1>9. h * (v + 1) = h * v + h /\ h * v \in Nat
  BY <1>2
<1> QED
  BY <1>2, <1>5, <1>8, <1>9

\* The root index of the code after this one.
LEMMA CarriedRoot ==
  ASSUME NEW r \in Nat, NEW k \in Nat, r <= k, NEW m \in Nat, m < 2^k
  PROVE  /\ Reversed(k, m) % 2^r = Reversed(r, RootPart(r, k, m))
         /\ RootPart(r, k, m) \in Nat /\ RootPart(r, k, m) < 2^r
         /\ m = 2^(k - r) * RootPart(r, k, m) + SubPart(r, k, m)
<1> DEFINE t == k - r
<1>1. t \in Nat /\ r + t = k
  OBVIOUS
<1> HIDE DEF t
<1>2. m < 2^(r + t)
  BY <1>1
<1>3. /\ m \div 2^t \in Nat /\ m \div 2^t < 2^r
      /\ m = 2^t * (m \div 2^t) + (m % 2^t)
      /\ Reversed(r + t, m) % 2^r = Reversed(r, m \div 2^t)
  BY ONLY r \in Nat, m \in Nat, <1>1, <1>2, Parts
<1> QED
  BY <1>1, <1>3 DEF RootPart, SubPart, t

\* Without a new table.
LEMMA GoesOn ==
  ASSUME Entering, ~IsLast, ~Splits, NEW t, t = work[sym + 2], NEW m, m = NumberOf(lens, t)
  PROVE  /\ DOMAIN Grown = Filled(drop, curr, next, m, NextLen)
         /\ IF drop = 0 THEN NextLen <= root
            ELSE NextLen \in root + 1 .. root + curr /\ RootPart(root, NextLen, m) = RootPart(root, len, Code)
<1> DEFINE c == Code
           l == len
           k == NextLen
           L == Longest(lens)
           r == root
<1>1. /\ k \in 1 .. L /\ l <= k /\ m \in Nat /\ m < 2^k /\ FirstCode(lens)[k] <= m
      /\ Follows(c, l, m, k) /\ Carried = Reversed(k, m)
  BY Successor
<1>2. /\ l \in 1 .. L /\ L \in 1 .. MAXBITS /\ c \in Nat /\ c < 2^l
      /\ r \in 1 .. L /\ drop \in {0, r} /\ drop <= l
      /\ DOMAIN Grown = Entered(drop, curr, next, c, l)
  BY CodeEntered
<1>3. /\ lens \in Lists /\ InHand /\ next \in Nat /\ curr \in Nat
  BY DEF Entering, Begun
<1>4. l \in Nat /\ k \in Nat /\ r \in Nat /\ r >= 1 /\ k \in 1 .. MAXBITS /\ MAXBITS \in Nat /\ L \in Nat
  <2>1. MAXBITS \in Nat
    BY SymbolsAre
  <2> QED BY <1>1, <1>2, <2>1
<1>5. k > r => Carried % 2^r = low
  BY DEF Splits
<1>6. k > r => /\ Carried % 2^r = Reversed(r, RootPart(r, k, m))
               /\ RootPart(r, k, m) \in Nat /\ RootPart(r, k, m) < 2^r
  <2> SUFFICES ASSUME k > r
               PROVE  /\ Carried % 2^r = Reversed(r, RootPart(r, k, m))
                      /\ RootPart(r, k, m) \in Nat /\ RootPart(r, k, m) < 2^r
    OBVIOUS
  <2>1. r <= k
    BY <1>4
  <2>2. /\ Reversed(k, m) % 2^r = Reversed(r, RootPart(r, k, m))
        /\ RootPart(r, k, m) \in Nat /\ RootPart(r, k, m) < 2^r
    BY <1>1, <1>4, <2>1, CarriedRoot
  <2> QED BY <1>1, <2>2
<1>7. CASE drop = 0
  <2>1. curr = r /\ next = 0 /\ low = -1
    BY <1>3, <1>7 DEF InHand
  <2>2. k <= r
    <3> SUFFICES ASSUME k > r PROVE FALSE
      BY <1>4
    <3>1. Reversed(r, RootPart(r, k, m)) = -1
      BY <1>5, <1>6, <2>1
    <3>2. Reversed(r, RootPart(r, k, m)) \in Nat
      BY <1>4, <1>6, ReversedBound
    <3> QED BY <3>1, <3>2
  <2>3. RootPart(0, k, m) = RootPart(0, l, c)
    <3>1. ASSUME NEW y \in Nat, NEW z \in Nat, y < 2^z PROVE RootPart(0, z, y) = 0
      <4> DEFINE p == 2^z
      <4>1. p \in Nat \ {0} /\ y < p
        BY <3>1, PowerPositive
      <4> HIDE DEF p
      <4>2. (p * 0 + y) \div p = 0
        <5>1. 0 \in Nat
          OBVIOUS
        <5> QED BY <4>1, <5>1, Divided
      <4>3. p * 0 + y = y
        BY <4>1
      <4>4. z - 0 = z
        OBVIOUS
      <4> QED BY <4>2, <4>3, <4>4 DEF p, RootPart
    <3> QED BY <1>1, <1>2, <1>4, <3>1
  <2>4. Filled(0, curr, next, m, k) = Entered(0, curr, next, c, l)
    <3>1. k - 0 <= curr /\ 0 <= l /\ 0 \in Nat
      BY <1>4, <2>1, <2>2
    <3> HIDE DEF c, l, k
    <3> QED BY <1>1, <1>2, <1>3, <1>4, <2>3, <3>1, Stays
  <2> QED BY <1>2, <1>7, <2>2, <2>4
<1>8. CASE drop # 0
  <2>1. /\ drop = r /\ l \in r + 1 .. r + curr /\ r + curr <= L
        /\ low = Reversed(r, RootPart(r, l, c))
        /\ \/ r + curr = L
           \/ (RootPart(r, l, c) + 1) * 2^curr <= Upto(lens, r + curr)
    BY <1>3, <1>8 DEF InHand
  <2>2. k > r /\ r <= l
    BY <1>1, <1>4, <2>1
  <2>3. RootPart(r, l, c) \in Nat /\ RootPart(r, l, c) < 2^r
    BY <1>2, <1>4, <2>2, CarriedRoot
  <2>4. RootPart(r, k, m) = RootPart(r, l, c)
    <3> DEFINE a == RootPart(r, k, m)
               b == RootPart(r, l, c)
               p == 2^r
    <3>1. Reversed(r, a) = Reversed(r, b)
      BY <1>5, <1>6, <2>1, <2>2
    <3>2. a \in Nat /\ a < p /\ b \in Nat /\ b < p /\ p \in Nat
      BY <1>4, <1>6, <2>2, <2>3, PowerPositive
    <3>3. a \in 0 .. p - 1 /\ b \in 0 .. p - 1
      <4> HIDE DEF a, b, p
      <4> QED BY <3>2
    <3> HIDE DEF a, b
    <3>4. a = b
      BY <1>4, <3>1, <3>3, ReversedDiffers
    <3> QED BY <3>4 DEF a, b
  <2>5. k <= r + curr
    <3>1. CASE r + curr = L
      BY <1>1, <3>1
    <3>2. CASE (RootPart(r, l, c) + 1) * 2^curr <= Upto(lens, r + curr)
      <4> SUFFICES ASSUME r + curr < k PROVE FALSE
        BY <1>3, <1>4
      <4> DEFINE v == RootPart(r, l, c)
      <4>1. v \in Nat /\ (v + 1) * 2^curr <= Upto(lens, r + curr) /\ RootPart(r, k, m) = v
        BY <2>3, <2>4, <3>2
      <4> HIDE DEF v, k
      <4> QED BY <1>1, <1>3, <1>4, <4>1, NotBeyond
    <3> QED BY <2>1, <3>1, <3>2
  <2>6. k \in r + 1 .. r + curr
    BY <1>3, <1>4, <2>2, <2>5
  <2>7. Filled(r, curr, next, m, k) = Entered(r, curr, next, c, l)
    <3>1. k - r <= curr
      BY <1>3, <1>4, <2>5
    <3> HIDE DEF c, l, k
    <3> QED BY <1>1, <1>2, <1>3, <1>4, <2>2, <2>4, <3>1, Stays
  <2> QED BY <1>2, <1>8, <2>1, <2>4, <2>6, <2>7
<1> QED
  BY <1>7, <1>8

\* With a new table: the index that leads there is free, and the table is as wide as
\* the codes to come need.
LEMMA StartsTable ==
  ASSUME Entering, Splits, NEW t, t = work[sym + 2], NEW m, m = NumberOf(lens, t)
  PROVE  /\ Carried % 2^root = Reversed(root, RootPart(root, NextLen, m))
         /\ Carried % 2^root \notin DOMAIN Grown
         /\ DOMAIN Grown \cup {Carried % 2^root} = Filled(root, NextWidth, next + 2^curr, m, NextLen)
         /\ NextWidth \in Nat /\ next + 2^curr \in Nat /\ next + 2^curr >= 2^root
         /\ NextLen \in root + 1 .. root + NextWidth /\ root + NextWidth <= Longest(lens)
         /\ \/ root + NextWidth = Longest(lens)
            \/ (RootPart(root, NextLen, m) + 1) * 2^NextWidth <= Upto(lens, root + NextWidth)
<1> DEFINE c == Code
           l == len
           k == NextLen
           L == Longest(lens)
           r == root
           w == NextWidth
           v == RootPart(r, k, m)
<1>1. ~IsLast /\ k > r /\ Carried % 2^r # low
  BY DEF Splits
<1>2. /\ k \in 1 .. L /\ l <= k /\ m \in Nat /\ m < 2^k
      /\ Follows(c, l, m, k) /\ Carried = Reversed(k, m)
      /\ Remaining[k] = Upto(lens, k) - m
      /\ \A a \in k + 1 .. L : Remaining[a] = CountOf(lens, a)
  BY <1>1, Successor
<1>3. /\ l \in 1 .. L /\ L \in 1 .. MAXBITS /\ c \in Nat /\ c < 2^l
      /\ r \in 1 .. L /\ drop \in {0, r} /\ drop <= l /\ l - drop <= curr
      /\ DOMAIN Grown = Entered(drop, curr, next, c, l)
  BY CodeEntered
<1>4. /\ lens \in Lists /\ InHand /\ next \in Nat /\ curr \in Nat
  BY DEF Entering, Begun
<1>5. /\ l \in Nat /\ k \in Nat /\ r \in Nat /\ r \in Nat \ {0} /\ r <= k /\ MAXBITS \in Nat /\ L \in Nat
      /\ k \in r + 1 .. L
  <2>1. MAXBITS \in Nat
    BY SymbolsAre
  <2> QED BY <1>1, <1>2, <1>3, <2>1
<1>6. /\ Carried % 2^r = Reversed(r, v)
      /\ v \in Nat /\ v < 2^r
      /\ m = 2^(k - r) * v + SubPart(r, k, m)
  <2>1. /\ Reversed(k, m) % 2^r = Reversed(r, v)
        /\ v \in Nat /\ v < 2^r
        /\ m = 2^(k - r) * v + SubPart(r, k, m)
    <3> HIDE DEF k
    <3> QED BY <1>2, <1>5, CarriedRoot
  <2> QED BY <1>2, <2>1
<1>7. /\ w \in k - r .. L - r
      /\ w = L - r \/ 2^w + m * 2^(w + r - k) <= Upto(lens, w + r)
  <2>1. w = Width(k, r, Remaining)
    BY DEF NextWidth
  <2> HIDE DEF w, k
  <2>2. k \in r + 1 .. Longest(lens)
    BY <1>5
  <2>3. LET u == Width(k, r, Remaining)
        IN /\ u \in k - r .. Longest(lens) - r
           /\ u = Longest(lens) - r \/ 2^u + m * 2^(u + r - k) <= Upto(lens, u + r)
    BY <1>2, <1>4, <1>5, <2>2, WidthIs
  <2> QED BY <2>1, <2>3
<1>8. w \in Nat /\ k - r <= w /\ k \in r + 1 .. r + w /\ r + w <= L /\ w + r = r + w
  <2> HIDE DEF w, k
  <2> QED BY <1>5, <1>7
<1>9. 2^curr \in Nat /\ 2^r \in Nat
  BY <1>4, <1>5, PowerPositive
<1>10. /\ SubPart(r, k, m) = 0
       /\ Reversed(r, v) \notin Entered(drop, curr, next, c, l)
       /\ Entered(drop, curr, next, c, l) \cup {Reversed(r, v)} = Filled(r, w, next + 2^curr, m, k)
       /\ next + 2^curr >= 2^r
  <2>1. CASE drop = 0
    <3>1. curr = r /\ next = 0 /\ l <= r
      BY <1>4, <2>1 DEF InHand
    <3>2. next + 2^curr = 2^r
      <4> DEFINE p == 2^r
      <4>1. p \in Nat
        BY <1>9
      <4> HIDE DEF p
      <4>2. 0 + p = p
        BY <4>1
      <4> QED BY <3>1, <4>2 DEF p
    <3>3. /\ SubPart(r, k, m) = 0
          /\ Reversed(r, RootPart(r, k, m)) \notin Entered(0, r, 0, c, l)
          /\ Entered(0, r, 0, c, l) \cup {Reversed(r, RootPart(r, k, m))} = Filled(r, w, 2^r, m, k)
      <4> HIDE DEF c, l, k, w
      <4> QED BY <1>2, <1>3, <1>5, <1>8, <3>1, SplitsRoot
    <3>4. 2^r >= 2^r
      BY <1>9
    <3> HIDE DEF c, l, k, w
    <3> QED BY <2>1, <3>1, <3>2, <3>3, <3>4 DEF v
  <2>2. CASE drop # 0
    <3>1. /\ drop = r /\ l \in r + 1 .. r + curr /\ next >= 2^r
          /\ low = Reversed(r, RootPart(r, l, c))
      BY <1>3, <1>4, <2>2 DEF InHand
    <3>2. RootPart(r, k, m) # RootPart(r, l, c)
      BY <1>1, <1>6, <3>1
    <3>3. r <= l /\ l - r <= curr
      BY <1>4, <1>5, <3>1
    <3>4. /\ SubPart(r, k, m) = 0
          /\ Reversed(r, RootPart(r, k, m)) \notin Entered(r, curr, next, c, l)
          /\ Entered(r, curr, next, c, l) \cup {Reversed(r, RootPart(r, k, m))} = Filled(r, w, next + 2^curr, m, k)
      <4> HIDE DEF c, l, k, w
      <4> QED BY <1>2, <1>3, <1>4, <1>5, <1>8, <3>1, <3>2, <3>3, SplitsAgain
    <3>5. next + 2^curr >= 2^r
      <4> DEFINE p == 2^r
                 q == 2^curr
      <4>1. p \in Nat /\ q \in Nat /\ next >= p
        BY <1>9, <3>1
      <4> HIDE DEF p, q
      <4>2. next + q >= p
        BY <1>4, <4>1
      <4> QED BY <4>2 DEF p, q
    <3> HIDE DEF c, l, k, w
    <3> QED BY <3>1, <3>4, <3>5 DEF v
  <2> QED BY <2>1, <2>2
<1>11. w # L - r => (v + 1) * 2^w <= Upto(lens, r + w)
  <2> SUFFICES ASSUME w # L - r PROVE (v + 1) * 2^w <= Upto(lens, r + w)
    OBVIOUS
  <2> DEFINE p == 2^w
             g == 2^(k - r)
             f == 2^(w + r - k)
             u == Upto(lens, r + w)
  <2>1. p + m * f <= u
    <3>1. 2^w + m * 2^(w + r - k) <= Upto(lens, w + r)
      BY <1>7
    <3> HIDE DEF w, k
    <3> QED BY <1>8, <3>1
  <2>2. p = g * f /\ p \in Nat /\ g \in Nat /\ f \in Nat
    <3> HIDE DEF w, k
    <3>1. k - r \in Nat /\ w + r - k \in Nat /\ (k - r) + (w + r - k) = w
      BY <1>5, <1>8
    <3>2. 2^((k - r) + (w + r - k)) = g * f
      BY <3>1, PowerAdds
    <3> QED BY <1>8, <3>1, <3>2, PowerPositive
  <2>3. m = g * v
    <3>1. m = g * v + 0
      BY <1>6, <1>10
    <3> HIDE DEF g, v
    <3>2. g * v \in Nat
      BY <1>6, <2>2
    <3> QED BY <3>1, <3>2
  <2>4. p + m * f = (v + 1) * p
    <3> HIDE DEF p, g, f, v
    <3>1. (g * v) * f = v * (g * f) /\ (v + 1) * p = v * p + p /\ v * p \in Nat
      BY <1>6, <2>2
    <3> QED BY <2>2, <2>3, <3>1
  <2> QED BY <2>1, <2>4
<1>12. next + 2^curr \in Nat
  BY <1>4, <1>9
<1>13. /\ Reversed(r, v) \notin DOMAIN Grown
       /\ DOMAIN Grown \cup {Reversed(r, v)} = Filled(r, w, next + 2^curr, m, k)
  <2> HIDE DEF v, c, l, k, w
  <2> QED BY <1>3, <1>10
<1>14. w = L - r => r + w = L
  <2> HIDE DEF w
  <2> QED BY <1>5
<1> QED
  BY <1>6, <1>8, <1>10, <1>11, <1>12, <1>13, <1>14

-----------------------------------------------------------------------------
(* The end of the table.                                                   *)

\* All inputs are read and all entries that were given out are filled.
FilledUp == /\ Left(lens)[MAXBITS] = 0 /\ DOMAIN table = 0 .. used - 1
            /\ ReadsBelow(table, root, lens, 2^MAXBITS)

\* A single code of one bit: half of the inputs are read.
HalfFull == /\ Left(lens)[MAXBITS] > 0 /\ Longest(lens) = 1 /\ root = 1 /\ used = 2
            /\ ReadsBelow(table, root, lens, 2^(MAXBITS - 1))

\* After the last code.
LEMMA LastEntered ==
  ASSUME Entering, IsLast
  PROVE  \/ /\ Carried = 0 /\ Left(lens)[MAXBITS] = 0 /\ DOMAIN Grown = 0 .. used - 1
            /\ ReadsBelow(Grown, root, lens, 2^MAXBITS)
         \/ /\ Carried = 1 /\ Left(lens)[MAXBITS] > 0 /\ Longest(lens) = 1 /\ root = 1 /\ used = 2
            /\ ReadsBelow(Grown, root, lens, 2^(MAXBITS - 1))
            /\ drop = 0 /\ len = 1 /\ next = 0 /\ DOMAIN Grown = {0}
<1> DEFINE c == Code
           l == len
           L == Longest(lens)
           r == root
           M == MAXBITS
<1>1. c + 1 = Upto(lens, l) /\ l = L /\ NextLen = l
  BY RemainingIs DEF NextLen
<1>2. /\ l \in 1 .. L /\ L \in 1 .. M /\ c \in Nat /\ c < 2^l
      /\ r \in 1 .. L /\ drop \in {0, r} /\ drop <= l /\ l - drop <= curr
      /\ DOMAIN Grown = Entered(drop, curr, next, c, l)
      /\ ReadsBelow(Grown, r, lens, (c + 1) * 2^(M - l))
      /\ drop # 0 => next >= 2^drop
  BY CodeEntered
<1>3. /\ lens \in Lists /\ InHand /\ next \in Nat /\ curr \in Nat /\ Accepted(type, lens) /\ L # 0
      /\ used = next + 2^curr /\ huff = Reversed(l, c)
  BY DEF Entering, Begun
<1>4. l \in Nat /\ r \in Nat /\ L \in Nat /\ M \in Nat /\ M >= 1 /\ drop \in Nat
  <2>1. M \in Nat /\ M >= 1
    BY SymbolsAre
  <2> QED BY <1>2, <2>1
<1>5. /\ drop = 0 => curr = r /\ next = 0 /\ l <= r
      /\ drop # 0 => drop = r /\ l \in r + 1 .. r + curr /\ r + curr <= L
  BY <1>3 DEF InHand
<1>6. curr = l - drop
  <2>1. l = L /\ r <= l /\ curr \in Nat
    BY <1>1, <1>2, <1>3, <1>4
  <2>2. CASE drop = 0
    BY <1>4, <1>5, <2>1, <2>2
  <2>3. CASE drop # 0
    <3>1. drop = r /\ l <= r + curr /\ r + curr <= L
      BY <1>4, <1>5, <2>1, <2>3
    <3> HIDE DEF l, L, r
    <3> QED BY <1>4, <2>1, <3>1
  <2> QED BY <2>2, <2>3
<1>7. Carried = IF c + 1 = 2^l THEN 0 ELSE Reversed(l, c + 1)
  <2>1. c \in 0 .. 2^l - 1
    <3> DEFINE p == 2^l
    <3>1. p \in Nat /\ c < p
      BY <1>2, <1>4, PowerPositive
    <3> HIDE DEF p, c
    <3>2. c \in 0 .. p - 1
      BY <1>2, <3>1
    <3> QED BY <3>2 DEF p
  <2>2. Carried = Increment(Reversed(l, c), l)
    BY <1>3 DEF Carried
  <2> HIDE DEF c
  <2> QED BY <1>4, <2>1, <2>2, IncrementIs
<1>8. \/ Left(lens)[M] = 0 /\ Upto(lens, L) = 2^L
      \/ Left(lens)[M] > 0 /\ L = 1 /\ Upto(lens, 1) = 1
  BY <1>3, AcceptedCode
<1>9. CASE Left(lens)[M] = 0 /\ Upto(lens, L) = 2^L
  <2>1. c + 1 = 2^l
    BY <1>1, <1>9
  <2>2. Carried = 0
    BY <1>7, <2>1
  <2>3. Entered(drop, l - drop, next, c, l) = 0 .. next + 2^(l - drop) - 1
    <3>1. IF drop = 0 THEN next = 0 ELSE next >= 2^drop
      BY <1>2, <1>5
    <3>2. drop \in Nat /\ l \in Nat /\ drop <= l /\ c \in Nat /\ next \in Nat
      BY <1>2, <1>3, <1>4
    <3> HIDE DEF c, l
    <3> QED BY ONLY <2>1, <3>1, <3>2, FillsUp
  <2>4. DOMAIN Grown = 0 .. used - 1
    BY <1>2, <1>3, <1>6, <2>3
  <2>5. (c + 1) * 2^(M - l) = 2^M
    <3>1. M - l \in Nat /\ l + (M - l) = M
      BY <1>2, <1>4
    <3>2. 2^(l + (M - l)) = 2^l * 2^(M - l)
      BY <1>4, <3>1, PowerAdds
    <3> QED BY <2>1, <3>1, <3>2
  <2>6. ReadsBelow(Grown, r, lens, 2^M)
    BY <1>2, <2>5
  <2> QED BY <1>9, <2>2, <2>4, <2>6
<1>10. CASE Left(lens)[M] > 0 /\ L = 1 /\ Upto(lens, 1) = 1
  <2>1. l = 1 /\ c = 0 /\ r = 1
    <3>1. l = 1 /\ r = 1
      BY <1>1, <1>2, <1>10
    <3>2. c + 1 = 1
      BY <1>1, <1>10, <3>1
    <3> HIDE DEF c
    <3> QED BY <1>2, <3>1, <3>2
  <2>2. drop = 0
    BY <1>4, <1>5, <2>1
  <2>3. curr = 1 /\ next = 0 /\ 2^1 = 2 /\ 2^0 = 1
    BY <1>5, <2>1, <2>2, PowerZero, PowerDoubles
  <2>4. used = 2
    BY <1>3, <2>3
  <2>5. Carried = 1
    <3>1. Carried = Reversed(1, 0 + 1)
      BY <1>7, <2>1, <2>3
    <3>2. Reversed(0 + 1, 2 * 0 + 1) = Reversed(0, 0) + 1 * 2^0
      BY ReversedNext
    <3>3. Reversed(0, 0) = 0
      BY ReversedNone
    <3> QED BY <2>3, <3>1, <3>2, <3>3
  <2>6. DOMAIN Grown = {0}
    <3>1. DOMAIN Grown = Entered(0, 1, 0, 0, 1)
      BY <1>2, <2>1, <2>2, <2>3
    <3>2. SubPart(0, 1, 0) = 0
      <4>1. 0 % 2 = 0 /\ 1 - 0 = 1
        OBVIOUS
      <4> QED BY <2>3, <4>1 DEF SubPart
    <3>3. Entered(0, 1, 0, 0, 1) = Front(0, 1, 1)
      <4>1. (0 + 1) * 2^(1 - (1 - 0)) = 1
        <5>1. 1 - (1 - 0) = 0 /\ (0 + 1) * 1 = 1
          OBVIOUS
        <5> QED BY <2>3, <5>1
      <4> QED BY <3>2, <4>1 DEF Entered, InFront
    <3>4. Front(0, 1, 1) = {0 + Reversed(1, 0)}
      <4>1. 0 .. 1 - 1 = {0}
        OBVIOUS
      <4> QED BY <4>1 DEF Front
    <3>5. Reversed(1, 0) = 0
      BY ReversedZero
    <3> QED BY <3>1, <3>3, <3>4, <3>5
  <2>7. ReadsBelow(Grown, r, lens, 2^(M - 1))
    <3>1. (0 + 1) * 2^(M - 1) = 2^(M - 1)
      <4>1. M - 1 \in Nat
        BY <1>4
      <4> DEFINE p == 2^(M - 1)
      <4>2. p \in Nat
        BY <4>1, PowerPositive
      <4> HIDE DEF p
      <4> QED BY <4>2 DEF p
    <3> QED BY <1>2, <2>1, <3>1
  <2> QED BY <1>10, <2>1, <2>2, <2>3, <2>4, <2>5, <2>6, <2>7
<1> QED
  BY <1>8, <1>9, <1>10

\* Before the lengths are looked at.
Starting == /\ table = <<>> /\ ret = 0 /\ used = 0 /\ drop = 0 /\ huff = 0 /\ sym = 0 /\ next = 0 /\ low = -1

\* Between the last code and the end.
Filling == /\ Begun
           /\ \/ huff = 0 /\ FilledUp
              \/ huff = 1 /\ HalfFull /\ drop = 0 /\ len = 1 /\ next = 0 /\ DOMAIN table = {0}

\* The finished tables: no code, a code that is used up, one code of one bit.
NoCode == Longest(lens) = 0 /\ root = 1 /\ used = 2 /\ table = [p \in {0, 1} |-> Entry(1, "invalid", 0)]
OneBit == HalfFull /\ DOMAIN table = 0 .. 1 /\ table[1] = Entry(1, "invalid", 0)
Finished == /\ used \in Nat /\ ret \in {0, 1, -1} /\ (ret = -1 <=> ~Accepted(type, lens))
            /\ \A p \in DOMAIN table : p \in 0 .. used - 1
            /\ ret = -1 => used = 0
            /\ ret = 0 => /\ LimitsTable => used <= ENOUGH
                          /\ \/ NoCode
                             \/ Longest(lens) # 0 /\ root = RootOf(lens) /\ (FilledUp \/ OneBit)

\* The inductive invariant.
TableInv == /\ lens \in Lists /\ stage \in {"check", "enter", "rest", "done"}
            /\ stage = "check" => Starting
            /\ stage = "enter" => Entering
            /\ stage = "rest" => Filling
            /\ stage = "done" => Finished

\* What is read is read of a table with more entries.
LEMMA ReadsKept ==
  ASSUME NEW T, NEW V, Extends(T, V), NEW r, NEW ls, NEW m, ReadsBelow(T, r, ls, m)
  PROVE  ReadsBelow(V, r, ls, m)
<1> SUFFICES ASSUME NEW x \in 0 .. m - 1 PROVE IsGot(V, r, ls, x)
  BY DEF ReadsBelow
<1>1. PICK s \in Coded(ls) : x \div 2^(MAXBITS - ls[s]) = NumberOf(ls, s) /\ Finds(T, r, x, ls[s], "symbol", s)
  BY DEF ReadsBelow, IsGot
<1>2. Finds(V, r, x, ls[s], "symbol", s)
  BY <1>1, FindsKept
<1> QED
  BY <1>1, <1>2 DEF IsGot

LEMMA ExtendsTwice ==
  ASSUME NEW T, NEW U, NEW V, Extends(T, U), Extends(U, V)
  PROVE  Extends(T, V)
BY DEF Extends

\* The empty table is extended by every table.
LEMMA ExtendsNone == \A V : Extends(<<>>, V)
BY DEF Extends

\* Nothing lies beyond what was given out while codes are entered.
LEMMA EnteredWithin ==
  ASSUME Entering
  PROVE  /\ \A p \in DOMAIN Grown : p \in 0 .. used - 1
         /\ \A p \in DOMAIN table : p \in 0 .. used - 1
<1> DEFINE h == 2^curr
<1>1. next \in Nat /\ curr \in Nat /\ used = next + h /\ h \in Nat
  BY PowerPositive DEF Entering, Begun
<1>2. /\ Extends(table, Grown) /\ DOMAIN Grown = Entered(drop, curr, next, Code, len)
      /\ Code \in Nat /\ len \in 1 .. Longest(lens) /\ Longest(lens) \in 1 .. MAXBITS
      /\ drop # 0 => next >= 2^drop
      /\ drop <= len /\ drop \in {0, root} /\ root \in 1 .. Longest(lens) /\ len - drop <= curr
  BY CodeEntered
<1>3. MAXBITS \in Nat
  BY SymbolsAre
<1>4. len \in Nat /\ drop \in Nat /\ Code \in Nat /\ root \in Nat
  <2>1. Longest(lens) \in Nat
    BY <1>2, <1>3
  <2>2. len \in Nat /\ root \in Nat
    BY <1>2, <2>1
  <2> QED BY <1>2, <2>2
<1>5. ASSUME NEW p \in DOMAIN Grown PROVE p \in 0 .. used - 1
  <2>1. p \in Front(next, curr, (SubPart(drop, len, Code) + 1) * 2^(curr - (len - drop))) \cup InFront(drop, next, Code, len)
    BY <1>2 DEF Entered
  <2>2. CASE p \in InFront(drop, next, Code, len)
    <3>1. p \in Nat /\ p < next
      BY <1>1, <1>2, <1>4, <2>2, BehindIs
    <3> HIDE DEF h
    <3> QED BY <1>1, <3>1
  <2>3. CASE p \in Front(next, curr, (SubPart(drop, len, Code) + 1) * 2^(curr - (len - drop)))
    <3> DEFINE a == SubPart(drop, len, Code)
               b == 2^(curr - (len - drop))
    <3>1. a \in Nat
      <4> DEFINE q == 2^(len - drop)
      <4>1. len - drop \in Nat
        BY <1>2, <1>4
      <4>2. q \in Nat \ {0}
        BY <4>1, PowerPositive
      <4>3. Code % q \in Nat
        <5> HIDE DEF q
        <5> QED BY <1>4, <4>2, Division
      <4> QED BY <4>3 DEF SubPart
    <3>2. b \in Nat
      <4>1. curr - (len - drop) \in Nat
        BY <1>1, <1>2, <1>4
      <4> QED BY <4>1, PowerPositive
    <3> HIDE DEF a, b
    <3>3. (a + 1) * b \in Int
      BY <3>1, <3>2
    <3> DEFINE m == (a + 1) * b
    <3>4. m \in Int /\ p \in Front(next, curr, m)
      BY <2>3, <3>3 DEF a, b
    <3> HIDE DEF m
    <3>5. p \in Nat /\ next <= p /\ p < next + 2^curr
      BY <1>1, <3>4, FrontWithin
    <3> HIDE DEF h
    <3> QED BY <1>1, <3>5 DEF h
  <2> QED BY <2>1, <2>2, <2>3
<1> QED
  BY <1>2, <1>5 DEF Extends

\* The first code.
LEMMA SetUpStarts ==
  ASSUME TableInv, SetUp
  PROVE  TableInv' /\ Extends(table, table')
<1>1. /\ stage = "check" /\ Longest(lens) # 0 /\ Accepted(type, lens) /\ lens \in Lists
      /\ table = <<>> /\ ret = 0 /\ used = 0 /\ drop = 0 /\ huff = 0 /\ sym = 0 /\ next = 0 /\ low = -1
  BY DEF TableInv, SetUp, Starting
<1> DEFINE r == RootOf(lens)
           l == Shortest(lens)
<1>2. /\ root' = r /\ curr' = r /\ used' = 2^r /\ work' = Sorted(lens) /\ len' = l
      /\ count' = [k \in 0 .. MAXBITS |-> CountOf(lens, k)]
      /\ type' = type /\ lens' = lens /\ drop' = drop /\ huff' = huff /\ sym' = sym /\ next' = next /\ low' = low
      /\ table' = table
      /\ IF LimitsTable /\ 2^r > ENOUGH THEN ret' = 1 /\ stage' = "done" ELSE stage' = "enter" /\ ret' = ret
  BY DEF SetUp
<1>3. /\ r \in 1 .. Longest(lens) /\ l <= r /\ Longest(lens) \in 1 .. MAXBITS
      /\ l \in 1 .. Longest(lens) /\ MAXBITS \in Nat
  BY <1>1, RootIs, SymbolsAre
<1>4. DOMAIN table = {}
  BY <1>1
<1>5. Extends(table, table')
  BY <1>2 DEF Extends
<1>6. CASE LimitsTable /\ 2^r > ENOUGH
  <2>1. ret' = 1 /\ stage' = "done"
    BY <1>2, <1>6
  <2>2. used' \in Nat
    <3>1. r \in Nat
      BY <1>3
    <3> QED BY <1>2, <3>1, PowerPositive
  <2>3. Finished'
    BY <1>1, <1>2, <1>4, <2>1, <2>2 DEF Finished
  <2> QED BY <1>1, <1>2, <1>5, <2>1, <2>3 DEF TableInv
<1>7. CASE ~(LimitsTable /\ 2^r > ENOUGH)
  <2>1. stage' = "enter" /\ ret' = 0
    BY <1>1, <1>2, <1>7
  <2>2. /\ Cardinality(Coded(lens)) \in Nat /\ Cardinality(Coded(lens)) >= 1
        /\ lens[Sorted(lens)[1]] = l /\ NumberOf(lens, Sorted(lens)[1]) = 0
    BY <1>1, FirstSymbol, SortedIs
  <2>3. Code' = 0 /\ len' = (lens[work[sym + 1]])'
    <3>1. Code' = NumberOf(lens', work'[sym' + 1])
      BY DEF Code
    <3>2. sym' + 1 = 1
      BY <1>1, <1>2
    <3> QED BY <1>2, <2>2, <3>1, <3>2
  <2>4. r \in Nat /\ l \in Nat /\ l \in 1 .. MAXBITS /\ 2^r \in Nat
    <3>1. r \in Nat /\ l \in Nat /\ l \in 1 .. MAXBITS
      BY <1>3
    <3> QED BY <3>1, PowerPositive
  <2>5. Begun'
    <3>1. LimitsTable' => used' <= ENOUGH
      <4>1. LimitsTable' <=> LimitsTable
        BY <1>2 DEF LimitsTable
      <4> DEFINE p == 2^r
      <4>2. LimitsTable => ~(p > ENOUGH)
        BY <1>7
      <4>3. p \in Nat /\ ENOUGH \in Nat
        BY <2>4, TableAssumption
      <4> HIDE DEF p
      <4>4. LimitsTable => p <= ENOUGH
        BY <4>2, <4>3
      <4> QED BY <1>2, <4>1, <4>4 DEF p
    <3>2. used' = next' + 2^curr'
      <4> DEFINE p == 2^r
      <4>1. p \in Nat /\ next' = 0 /\ used' = p /\ 2^curr' = p
        BY <1>1, <1>2, <2>4
      <4> HIDE DEF p
      <4>2. 0 + p = p
        BY <4>1
      <4> QED BY <4>1, <4>2
    <3>3. next' \in Nat /\ curr' \in Nat
      BY <1>1, <1>2, <2>4
    <3> QED BY <1>1, <1>2, <2>1, <3>1, <3>2, <3>3 DEF Begun
  <2>6. Counts'
    <3>1. /\ lens \in [0 .. Symbols - 1 -> 0 .. MAXBITS] /\ IsFiniteSet(0 .. Symbols - 1)
      BY <1>1, SymbolsAre DEF Lists
    <3>2. \A k : CountOf(lens, k) \in Nat
      BY <3>1, CountType
    <3>3. FirstCode(lens)[l] = 0
      <4>1. \A k \in 1 .. l - 1 : CountOf(lens, k) = 0
        BY <1>1, ShortestIs
      <4> HIDE DEF l
      <4> QED BY <1>1, <2>4, <4>1, NothingShorter
    <3>4. count' \in [0 .. MAXBITS -> Int]
      BY <1>2, <3>2
    <3>5. count'[len'] = Upto(lens', len') - Code'
      <4>1. count'[len'] = CountOf(lens, l)
        BY <1>2, <1>3, <2>4
      <4>2. Upto(lens', len') = 0 + CountOf(lens, l)
        BY <1>2, <3>3 DEF Upto
      <4> DEFINE g == CountOf(lens, l)
      <4>3. g \in Nat
        BY <3>2
      <4> HIDE DEF g
      <4>4. (0 + g) - 0 = g
        BY <4>3
      <4> QED BY <2>3, <4>1, <4>2, <4>4 DEF g
    <3>6. \A k \in len' + 1 .. Longest(lens') : count'[k] = CountOf(lens', k)
      <4>1. \A k \in l + 1 .. Longest(lens) : k \in 0 .. MAXBITS
        BY <1>3, <2>4
      <4> QED BY <1>2, <4>1
    <3> QED BY <3>4, <3>5, <3>6 DEF Counts
  <2>7. InHand'
    <3>1. drop' = 0 /\ curr' = root' /\ next' = 0 /\ low' = -1 /\ len' <= root'
      BY <1>1, <1>2, <1>3
    <3> QED BY <3>1 DEF InHand
  <2>8. (DOMAIN table = Filled(drop, curr, next, Code, len))'
    <3>1. Filled(0, r, 0, 0, l) = {}
      <4>1. SubPart(0, l, 0) = 0
        <5> DEFINE p == 2^(l - 0)
        <5>1. p \in Nat \ {0}
          <6>1. l - 0 \in Nat
            BY <2>4
          <6> QED BY <6>1, PowerPositive
        <5> HIDE DEF p
        <5>2. (p * 0 + 0) % p = 0
          <6>1. 0 \in Nat /\ 0 < p
            BY <5>1
          <6> QED BY <5>1, <6>1, Divided
        <5>3. p * 0 + 0 = 0
          BY <5>1
        <5> QED BY <5>2, <5>3 DEF p, SubPart
      <4>2. 0 * 2^(r - (l - 0)) = 0
        <5>1. r - (l - 0) \in Nat
          BY <1>3, <2>4
        <5> DEFINE p == 2^(r - (l - 0))
        <5>2. p \in Nat
          BY <5>1, PowerPositive
        <5> HIDE DEF p
        <5>3. 0 * p = 0
          BY <5>2
        <5> QED BY <5>3 DEF p
      <4>3. Filled(0, r, 0, 0, l) = Front(0, r, SubPart(0, l, 0) * 2^(r - (l - 0))) \cup InFront(0, 0, 0, l)
        BY DEF Filled
      <4>4. InFront(0, 0, 0, l) = {}
        BY DEF InFront
      <4> HIDE DEF l, r
      <4> QED BY <4>1, <4>2, <4>3, <4>4, FrontNone
    <3>2. DOMAIN table' = {}
      BY <1>2, <1>4
    <3>3. Filled(drop', curr', next', Code', len') = Filled(0, r, 0, 0, l)
      BY <1>1, <1>2, <2>3
    <3> HIDE DEF l, r
    <3> QED BY <3>1, <3>2, <3>3
  <2>9. ReadsBelow(table', root', lens', Code' * 2^(MAXBITS - len'))
    <3>1. Code' * 2^(MAXBITS - len') = 0
      <4> DEFINE p == 2^(MAXBITS - l)
      <4>1. p \in Nat
        <5>1. MAXBITS - l \in Nat
          BY <1>3, <2>4
        <5> QED BY <5>1, PowerPositive
      <4>2. Code' * 2^(MAXBITS - len') = 0 * p
        BY <1>2, <2>3
      <4> HIDE DEF p
      <4>3. 0 * p = 0
        BY <4>1
      <4> QED BY <4>2, <4>3
    <3>2. 0 .. 0 - 1 = {}
      OBVIOUS
    <3> QED BY <3>1, <3>2 DEF ReadsBelow
  <2>10. huff' = Reversed(len', Code')
    <3>1. Reversed(l, 0) = 0
      BY <2>4, ReversedZero
    <3> QED BY <1>1, <1>2, <2>3, <3>1
  <2>11. sym' \in 0 .. Cardinality(Coded(lens')) - 1
    BY <1>1, <1>2, <2>2
  <2>12. Entering'
    BY <2>3, <2>5, <2>6, <2>7, <2>8, <2>9, <2>10, <2>11 DEF Entering
  <2> QED BY <1>1, <1>2, <1>5, <2>1, <2>12 DEF TableInv
<1> QED
  BY <1>6, <1>7

\* A code that is not the last.
LEMMA EnterCodeGoesOn ==
  ASSUME TableInv, EnterCode, ~IsLast
  PROVE  TableInv' /\ Extends(table, table')
<1> DEFINE t == work[sym + 2]
           m == NumberOf(lens, t)
           k == NextLen
           w == NextWidth
           o == Carried % 2^root
<1>1. stage = "enter" /\ Entering /\ lens \in Lists
  BY DEF TableInv, EnterCode
<1>2. /\ huff' = Carried /\ sym' = sym + 1 /\ count' = Remaining /\ len' = k
      /\ IF Splits
           THEN /\ drop' = root /\ curr' = w /\ next' = next + 2^curr /\ used' = used + 2^w
                /\ IF LimitsTable /\ used + 2^w > ENOUGH
                     THEN ret' = 1 /\ table' = Grown /\ low' = low
                     ELSE /\ low' = o
                          /\ table' = With({o}, Entry(root, "sub", [at |-> next + 2^curr, bits |-> w]), Grown)
                          /\ ret' = ret
           ELSE table' = Grown /\ drop' = drop /\ curr' = curr /\ next' = next /\ used' = used /\ low' = low /\ ret' = ret
      /\ stage' = CASE ret' = 1 -> "done" [] IsLast -> "rest" [] OTHER -> "enter"
      /\ type' = type /\ lens' = lens /\ root' = root /\ work' = work
  BY EnterCodeIs
<1>3. /\ sym + 1 \in 0 .. Cardinality(Coded(lens)) - 1 /\ t \in Coded(lens)
      /\ k = lens[t] /\ k \in 1 .. Longest(lens)
      /\ m \in Nat /\ m < 2^k
      /\ Carried = Reversed(k, m)
      /\ Remaining[k] = Upto(lens, k) - m
      /\ \A l \in k + 1 .. Longest(lens) : Remaining[l] = CountOf(lens, l)
      /\ ReadsBelow(Grown, root, lens, m * 2^(MAXBITS - k))
  BY <1>1, Successor
<1>4. /\ Longest(lens) # 0 /\ Accepted(type, lens) /\ ret = 0
      /\ root = RootOf(lens) /\ work = Sorted(lens)
      /\ next \in Nat /\ curr \in Nat /\ used = next + 2^curr
      /\ LimitsTable => used <= ENOUGH
      /\ sym \in 0 .. Cardinality(Coded(lens)) - 1
      /\ InHand
  BY <1>1 DEF Entering, Begun
<1>5. Extends(table, Grown)
  BY <1>1, CodeEntered
<1>6. LimitsTable' <=> LimitsTable
  BY <1>2 DEF LimitsTable
<1>7. (sym + 1) + 1 = sym + 2
  <2>1. sym \in Int
    <3>1. Cardinality(Coded(lens)) \in Nat
      BY <1>1, SortedIs
    <3> QED BY <1>4, <3>1
  <2> QED BY <2>1
<1>8. Code' = m /\ len' = lens'[work'[sym' + 1]]
  <2>1. Code' = NumberOf(lens', work'[sym' + 1])
    BY DEF Code
  <2> QED BY <1>2, <1>3, <1>7, <2>1
<1>9. sym' \in 0 .. Cardinality(Coded(lens')) - 1 /\ huff' = Reversed(len', Code')
  BY <1>2, <1>3, <1>8
<1>10. Counts'
  <2>1. Remaining \in [0 .. MAXBITS -> Int]
    BY <1>1, RemainingIs
  <2> HIDE DEF m, k
  <2> QED BY <1>2, <1>3, <1>8, <2>1 DEF Counts
<1>11. Extends(Grown, table') => ReadsBelow(table', root', lens', Code' * 2^(MAXBITS - len'))
  <2> HIDE DEF m, k
  <2>1. Extends(Grown, table') => ReadsBelow(table', root, lens, m * 2^(MAXBITS - k))
    BY <1>3, ReadsKept
  <2> QED BY <1>2, <1>8, <2>1
<1>12. CASE ~Splits
  <2>1. table' = Grown /\ drop' = drop /\ curr' = curr /\ next' = next /\ used' = used /\ low' = low /\ ret' = ret
    BY <1>2, <1>12
  <2>2. ret' = 0 /\ stage' = "enter"
    BY <1>2, <1>4, <2>1
  <2>3. /\ DOMAIN Grown = Filled(drop, curr, next, m, k)
        /\ IF drop = 0 THEN k <= root
           ELSE k \in root + 1 .. root + curr /\ RootPart(root, k, m) = RootPart(root, len, Code)
    BY <1>1, <1>12, GoesOn
  <2>4. (DOMAIN table)' = Filled(drop', curr', next', Code', len')
    BY <1>2, <1>8, <2>1, <2>3
  <2>5. Begun'
    BY <1>1, <1>2, <1>4, <1>6, <2>1, <2>2 DEF Begun
  <2>6. InHand'
    <3>1. CASE drop = 0
      <4>1. curr = root /\ next = 0 /\ low = -1 /\ k <= root
        BY <1>4, <2>3, <3>1 DEF InHand
      <4>2. drop' = 0 /\ curr' = root' /\ next' = 0 /\ low' = -1 /\ len' <= root'
        BY <1>2, <2>1, <3>1, <4>1
      <4> QED BY <4>2 DEF InHand
    <3>2. CASE drop # 0
      <4>1. /\ drop = root /\ root + curr <= Longest(lens)
            /\ next >= 2^root
            /\ low = Reversed(root, RootPart(root, len, Code)) /\ low \in DOMAIN table
            /\ table[low] = Entry(root, "sub", [at |-> next, bits |-> curr])
            /\ \/ root + curr = Longest(lens)
               \/ (RootPart(root, len, Code) + 1) * 2^curr <= Upto(lens, root + curr)
        BY <1>4, <3>2 DEF InHand
      <4>2. k \in root + 1 .. root + curr /\ RootPart(root, k, m) = RootPart(root, len, Code)
        BY <2>3, <3>2
      <4>3. low \in DOMAIN Grown /\ Grown[low] = Entry(root, "sub", [at |-> next, bits |-> curr])
        BY <1>5, <4>1 DEF Extends
      <4> DEFINE v == RootPart(root, len, Code)
      <4>4. RootPart(root', len', Code') = v
        BY <1>2, <1>8, <4>2
      <4> HIDE DEF v, m, k
      <4>5. /\ drop' # 0 /\ drop' = root' /\ len' \in root' + 1 .. root' + curr' /\ root' + curr' <= Longest(lens')
            /\ next' >= 2^root'
            /\ low' = Reversed(root', v) /\ low' \in DOMAIN table'
            /\ table'[low'] = Entry(root', "sub", [at |-> next', bits |-> curr'])
            /\ \/ root' + curr' = Longest(lens')
               \/ (v + 1) * 2^curr' <= Upto(lens', root' + curr')
        BY <1>2, <2>1, <3>2, <4>1, <4>2, <4>3 DEF v
      <4> QED BY <4>4, <4>5 DEF InHand
    <3> QED BY <3>1, <3>2
  <2>7. ReadsBelow(table', root', lens', Code' * 2^(MAXBITS - len'))
    BY <1>11, <2>1 DEF Extends
  <2>8. Entering'
    BY <1>8, <1>9, <1>10, <2>4, <2>5, <2>6, <2>7 DEF Entering
  <2> QED BY <1>1, <1>2, <1>5, <2>1, <2>2, <2>8 DEF TableInv
<1>13. CASE Splits
  <2>1. drop' = root /\ curr' = w /\ next' = next + 2^curr /\ used' = used + 2^w
    BY <1>2, <1>13
  <2>2. /\ o = Reversed(root, RootPart(root, k, m))
        /\ o \notin DOMAIN Grown
        /\ DOMAIN Grown \cup {o} = Filled(root, w, next + 2^curr, m, k)
        /\ w \in Nat /\ next + 2^curr \in Nat /\ next + 2^curr >= 2^root
        /\ k \in root + 1 .. root + w /\ root + w <= Longest(lens)
        /\ \/ root + w = Longest(lens)
           \/ (RootPart(root, k, m) + 1) * 2^w <= Upto(lens, root + w)
    BY <1>1, <1>13, StartsTable
  <2>3. used \in Nat /\ 2^w \in Nat /\ used = next + 2^curr /\ used + 2^w \in Nat
    <3>1. 2^w \in Nat
      BY <2>2, PowerPositive
    <3>2. used \in Nat
      BY <1>4, <2>2
    <3> HIDE DEF w
    <3> DEFINE p == 2^w
    <3>3. used + p \in Nat
      <4>1. p \in Nat
        BY <3>1
      <4> HIDE DEF p
      <4> QED BY <3>2, <4>1
    <3> QED BY <1>4, <3>1, <3>2, <3>3
  <2>4. CASE LimitsTable /\ used + 2^w > ENOUGH
    <3>1. ret' = 1 /\ table' = Grown /\ stage' = "done"
      BY <1>2, <1>13, <2>4
    <3>2. \A p \in DOMAIN table' : p \in 0 .. used' - 1
      <4> SUFFICES ASSUME NEW p \in DOMAIN Grown PROVE p \in 0 .. used' - 1
        BY <3>1
      <4>1. p \in 0 .. used - 1
        BY <1>1, EnteredWithin
      <4> DEFINE q == 2^w
      <4>2. used' = used + q /\ q \in Nat
        BY <2>1, <2>3
      <4> HIDE DEF q, w
      <4> QED BY <2>3, <4>1, <4>2
    <3>3. Finished'
      BY <1>2, <1>4, <2>1, <2>3, <3>1, <3>2 DEF Finished
    <3> QED BY <1>1, <1>2, <1>5, <3>1, <3>3 DEF TableInv
  <2>5. CASE ~(LimitsTable /\ used + 2^w > ENOUGH)
    <3> DEFINE e == Entry(root, "sub", [at |-> next + 2^curr, bits |-> w])
               v == RootPart(root, k, m)
    <3>1. /\ low' = o /\ table' = With({o}, e, Grown) /\ ret' = 0
      BY <1>2, <1>4, <1>13, <2>5
    <3>2. stage' = "enter"
      BY <1>2, <3>1
    <3>3. /\ DOMAIN With({o}, e, Grown) = {o} \cup DOMAIN Grown
          /\ Extends(Grown, With({o}, e, Grown))
          /\ \A p \in {o} : With({o}, e, Grown)[p] = e
      <4>1. {o} \cap DOMAIN Grown = {}
        BY <2>2
      <4> HIDE DEF o, e
      <4> DEFINE S == {o}
      <4>2. S \cap DOMAIN Grown = {}
        BY <4>1
      <4> HIDE DEF S
      <4>3. /\ DOMAIN With(S, e, Grown) = S \cup DOMAIN Grown
            /\ Extends(Grown, With(S, e, Grown))
            /\ \A p \in S : With(S, e, Grown)[p] = e
        BY ONLY <4>2, WithIs
      <4> QED BY <4>3 DEF S
    <3> HIDE DEF e, o
    <3>4. DOMAIN table' = DOMAIN Grown \cup {o} /\ Extends(Grown, table') /\ o \in DOMAIN table' /\ table'[o] = e
      BY <3>1, <3>3
    <3>5. Begun'
      <4>1. LimitsTable' => used' <= ENOUGH
        <5>1. ENOUGH \in Nat
          BY TableAssumption
        <5>2. LimitsTable => used + 2^w <= ENOUGH
          <6> DEFINE x == used + 2^w
          <6>1. x \in Nat /\ (LimitsTable => ~(x > ENOUGH))
            BY <2>3, <2>5
          <6> HIDE DEF x
          <6>2. LimitsTable => x <= ENOUGH
            BY <5>1, <6>1
          <6> QED BY <6>2 DEF x
        <5> QED BY <1>6, <2>1, <5>2
      <4>2. next' \in Nat /\ curr' \in Nat /\ used' = next' + 2^curr'
        BY <2>1, <2>2, <2>3
      <4> QED BY <1>1, <1>2, <1>4, <3>1, <4>1, <4>2 DEF Begun
    <3>6. InHand'
      <4>1. root # 0
        <5>1. root \in 1 .. Longest(lens) /\ Longest(lens) \in 1 .. MAXBITS
          BY <1>1, CodeEntered
        <5> QED BY <5>1, SymbolsAre
      <4>2. RootPart(root', len', Code') = v
        BY <1>2, <1>8
      <4> HIDE DEF v, m, k, w
      <4>3. /\ drop' # 0 /\ drop' = root' /\ len' \in root' + 1 .. root' + curr' /\ root' + curr' <= Longest(lens')
            /\ next' >= 2^root'
            /\ low' = Reversed(root', v) /\ low' \in DOMAIN table'
            /\ table'[low'] = Entry(root', "sub", [at |-> next', bits |-> curr'])
            /\ \/ root' + curr' = Longest(lens')
               \/ (v + 1) * 2^curr' <= Upto(lens', root' + curr')
        BY <1>2, <2>1, <2>2, <3>1, <3>4, <4>1 DEF v, e
      <4> QED BY <4>2, <4>3 DEF InHand
    <3>7. (DOMAIN table)' = Filled(drop', curr', next', Code', len')
      <4> HIDE DEF m, k, w
      <4> QED BY <1>2, <1>8, <2>1, <2>2, <3>4
    <3>8. ReadsBelow(table', root', lens', Code' * 2^(MAXBITS - len'))
      BY <1>11, <3>4
    <3>9. Entering'
      BY <1>8, <1>9, <1>10, <3>5, <3>6, <3>7, <3>8 DEF Entering
    <3>10. Extends(table, table')
      BY <1>5, <3>4, ExtendsTwice
    <3> QED BY <1>1, <1>2, <3>2, <3>9, <3>10 DEF TableInv
  <2> QED BY <2>4, <2>5
<1> QED
  BY <1>12, <1>13

\* The last code.
LEMMA EnterCodeEnds ==
  ASSUME TableInv, EnterCode, IsLast
  PROVE  TableInv' /\ Extends(table, table')
<1>1. stage = "enter" /\ Entering /\ lens \in Lists
  BY DEF TableInv, EnterCode
<1>2. ~Splits
  BY DEF Splits
<1>3. /\ huff' = Carried /\ len' = NextLen
      /\ table' = Grown /\ drop' = drop /\ curr' = curr /\ next' = next /\ used' = used /\ low' = low /\ ret' = ret
      /\ stage' = CASE ret' = 1 -> "done" [] IsLast -> "rest" [] OTHER -> "enter"
      /\ type' = type /\ lens' = lens /\ root' = root /\ work' = work
  BY <1>2, EnterCodeIs
<1>4. Begun /\ ret = 0
  BY <1>1 DEF Entering, Begun
<1>5. stage' = "rest" /\ ret' = 0
  BY <1>3, <1>4
<1>6. Begun'
  BY <1>3, <1>4 DEF Begun, LimitsTable
<1>7. NextLen = len
  BY DEF NextLen
<1>8. Filling'
  <2>1. CASE /\ Carried = 0 /\ Left(lens)[MAXBITS] = 0 /\ DOMAIN Grown = 0 .. used - 1
             /\ ReadsBelow(Grown, root, lens, 2^MAXBITS)
    <3>1. FilledUp' /\ huff' = 0
      BY <1>3, <2>1 DEF FilledUp
    <3> QED BY <1>6, <3>1 DEF Filling
  <2>2. CASE /\ Carried = 1 /\ Left(lens)[MAXBITS] > 0 /\ Longest(lens) = 1 /\ root = 1 /\ used = 2
             /\ ReadsBelow(Grown, root, lens, 2^(MAXBITS - 1))
             /\ drop = 0 /\ len = 1 /\ next = 0 /\ DOMAIN Grown = {0}
    <3>1. HalfFull' /\ huff' = 1 /\ drop' = 0 /\ len' = 1 /\ next' = 0 /\ (DOMAIN table)' = {0}
      BY <1>3, <1>7, <2>2 DEF HalfFull
    <3> QED BY <1>6, <3>1 DEF Filling
  <2> QED BY <1>1, <2>1, <2>2, LastEntered
<1>9. Extends(table, table')
  BY <1>1, <1>3, CodeEntered
<1> QED
  BY <1>1, <1>3, <1>5, <1>8, <1>9 DEF TableInv

\* The end.
LEMMA FillRestEnds ==
  ASSUME TableInv, FillRest
  PROVE  TableInv' /\ Extends(table, table')
<1>1. /\ stage = "rest" /\ Filling /\ lens \in Lists /\ stage' = "done"
      /\ type' = type /\ lens' = lens /\ ret' = ret /\ root' = root /\ used' = used /\ work' = work
      /\ table' = IF huff = 0 THEN table
                  ELSE With({next + huff}, Entry(len - drop, "invalid", 0), table)
  BY DEF TableInv, FillRest, With
<1>2. /\ Longest(lens) # 0 /\ Accepted(type, lens) /\ ret = 0 /\ root = RootOf(lens)
      /\ LimitsTable => used <= ENOUGH
      /\ used \in Nat
  <2>1. /\ Longest(lens) # 0 /\ Accepted(type, lens) /\ ret = 0 /\ root = RootOf(lens)
        /\ LimitsTable => used <= ENOUGH
        /\ next \in Nat /\ curr \in Nat /\ used = next + 2^curr
    BY <1>1 DEF Filling, Begun
  <2> DEFINE h == 2^curr
  <2>2. h \in Nat /\ used = next + h
    BY <2>1, PowerPositive
  <2>3. used \in Nat
    <3> HIDE DEF h
    <3> QED BY <2>1, <2>2
  <2> QED BY <2>1, <2>3
<1>3. LimitsTable' <=> LimitsTable
  BY <1>1 DEF LimitsTable
<1>4. CASE huff = 0 /\ FilledUp
  <2>1. table' = table
    BY <1>1, <1>4
  <2>2. FilledUp'
    BY <1>1, <1>4, <2>1 DEF FilledUp
  <2>3. \A p \in DOMAIN table' : p \in 0 .. used' - 1
    BY <2>2 DEF FilledUp
  <2>4. Finished'
    <3>1. ret' = 0 /\ root' = RootOf(lens') /\ Longest(lens') # 0 /\ used' \in Nat /\ Accepted(type', lens')
      BY <1>1, <1>2
    <3>2. LimitsTable' => used' <= ENOUGH
      BY <1>1, <1>2, <1>3
    <3> QED BY <2>2, <2>3, <3>1, <3>2 DEF Finished
  <2>5. Extends(table, table')
    BY <2>1 DEF Extends
  <2> QED BY <1>1, <2>4, <2>5 DEF TableInv
<1>5. CASE huff = 1 /\ HalfFull /\ drop = 0 /\ len = 1 /\ next = 0 /\ DOMAIN table = {0}
  <2> DEFINE e == Entry(1, "invalid", 0)
             S == {1}
  <2>1. table' = With(S, e, table)
    <3>1. next + huff = 1 /\ len - drop = 1 /\ huff # 0
      BY <1>5
    <3> QED BY <1>1, <3>1
  <2>2. /\ DOMAIN With(S, e, table) = S \cup DOMAIN table
        /\ Extends(table, With(S, e, table))
        /\ \A p \in S : With(S, e, table)[p] = e
    <3>1. S \cap DOMAIN table = {}
      BY <1>5
    <3> HIDE DEF S, e
    <3> QED BY ONLY <3>1, WithIs
  <2>3. DOMAIN table' = 0 .. 1 /\ table'[1] = e /\ Extends(table, table')
    <3>1. {1} \cup {0} = 0 .. 1
      OBVIOUS
    <3> HIDE DEF e
    <3> QED BY <1>5, <2>1, <2>2, <3>1
  <2>4. HalfFull'
    <3>1. ReadsBelow(table', root, lens, 2^(MAXBITS - 1))
      BY <1>5, <2>3, ReadsKept DEF HalfFull
    <3> QED BY <1>1, <1>5, <3>1 DEF HalfFull
  <2>5. OneBit'
    BY <2>3, <2>4 DEF OneBit
  <2>6. \A p \in DOMAIN table' : p \in 0 .. used' - 1
    BY <2>3, <2>4 DEF HalfFull
  <2> HIDE DEF e, S
  <2>7. Finished'
    <3>1. ret' = 0 /\ root' = RootOf(lens') /\ Longest(lens') # 0 /\ used' \in Nat /\ Accepted(type', lens')
      BY <1>1, <1>2
    <3>2. LimitsTable' => used' <= ENOUGH
      BY <1>1, <1>2, <1>3
    <3> QED BY <2>5, <2>6, <3>1, <3>2 DEF Finished
  <2> QED BY <1>1, <2>3, <2>7 DEF TableInv
<1> QED
  BY <1>1, <1>4, <1>5 DEF Filling

\* No code, or a list that is refused.
LEMMA ChecksEnd ==
  ASSUME TableInv, NoSymbols \/ Reject
  PROVE  TableInv' /\ Extends(table, table')
<1>1. /\ stage = "check" /\ Starting /\ lens \in Lists
      /\ type' = type /\ lens' = lens /\ stage' = "done"
  BY DEF TableInv, NoSymbols, Reject
<1>2. table = <<>> /\ ret = 0 /\ used = 0
  BY <1>1 DEF Starting
<1>3. Extends(table, table')
  BY <1>2, ExtendsNone
<1>4. CASE NoSymbols
  <2>1. /\ Longest(lens) = 0 /\ table' = [p \in {0, 1} |-> Entry(1, "invalid", 0)]
        /\ root' = 1 /\ used' = 2 /\ ret' = 0
    BY <1>2, <1>4 DEF NoSymbols
  <2>2. Accepted(type, lens)
    BY <2>1 DEF Accepted
  <2>3. NoCode'
    BY <1>1, <2>1 DEF NoCode
  <2>4. \A p \in DOMAIN table' : p \in 0 .. used' - 1
    BY <2>1
  <2>5. used' <= ENOUGH
    BY <2>1, TableAssumption
  <2>6. Finished'
    BY <1>1, <2>1, <2>2, <2>3, <2>4, <2>5 DEF Finished
  <2> QED BY <1>1, <1>3, <2>6 DEF TableInv
<1>5. CASE Reject
  <2>1. ~Accepted(type, lens) /\ ret' = -1 /\ used' = used /\ table' = table
    BY <1>5 DEF Reject
  <2>2. \A p \in DOMAIN table' : p \in 0 .. used' - 1
    BY <1>2, <2>1
  <2>3. Finished'
    BY <1>1, <1>2, <2>1, <2>2 DEF Finished
  <2> QED BY <1>1, <1>3, <2>3 DEF TableInv
<1> QED
  BY <1>4, <1>5

\* Every step keeps the invariant and what is filled.
LEMMA TableSteps ==
  ASSUME TableInv, [TableNext]_tableVars
  PROVE  TableInv' /\ Extends(table, table')
<1>1. CASE NoSymbols \/ Reject
  BY <1>1, ChecksEnd
<1>2. CASE SetUp
  BY <1>2, SetUpStarts
<1>3. CASE EnterCode
  BY <1>3, EnterCodeGoesOn, EnterCodeEnds
<1>4. CASE FillRest
  BY <1>4, FillRestEnds
<1>5. CASE UNCHANGED tableVars
  <2>1. /\ type' = type /\ lens' = lens /\ stage' = stage /\ ret' = ret /\ work' = work /\ count' = count
        /\ root' = root /\ curr' = curr /\ drop' = drop /\ huff' = huff /\ sym' = sym /\ len' = len
        /\ next' = next /\ low' = low /\ used' = used /\ table' = table
    BY <1>5 DEF tableVars
  <2>2. Code' = Code
    BY <2>1 DEF Code
  <2>3. Begun' <=> Begun
    BY <2>1 DEF Begun, LimitsTable
  <2>4. Entering' <=> Entering
    <3>1. Counts' <=> Counts
      BY <2>1, <2>2 DEF Counts
    <3>2. InHand' <=> InHand
      BY <2>1, <2>2 DEF InHand
    <3> QED BY <2>1, <2>2, <2>3, <3>1, <3>2 DEF Entering
  <2>5. FilledUp' <=> FilledUp
    BY <2>1 DEF FilledUp
  <2>6. HalfFull' <=> HalfFull
    BY <2>1 DEF HalfFull
  <2>7. Filling' <=> Filling
    BY <2>1, <2>3, <2>5, <2>6 DEF Filling
  <2>8. Finished' <=> Finished
    BY <2>1, <2>5, <2>6 DEF Finished, LimitsTable, NoCode, OneBit
  <2>9. Starting' <=> Starting
    BY <2>1 DEF Starting
  <2>10. TableInv'
    BY <2>1, <2>4, <2>7, <2>8, <2>9 DEF TableInv
  <2>11. Extends(table, table')
    BY <2>1 DEF Extends
  <2> QED BY <2>10, <2>11
<1> QED
  BY <1>1, <1>2, <1>3, <1>4, <1>5 DEF TableNext

\* In every state of inflate_table the table in hand is filled for exactly the codes that
\* were entered, in place and in order, and every input up to the last of them is read.
THEOREM TableInvariant == TableSpec => []TableInv
<1>1. TableInit => TableInv
  BY DEF TableInit, TableInv, Starting, Lists
<1>2. TableInv /\ [TableNext]_tableVars => TableInv'
  BY TableSteps
<1> QED
  BY <1>1, <1>2, PTL DEF TableSpec

\* No code, sub-table or pointer to one takes the place of another.
THEOREM TableWrittenOnce == TableSpec => WrittenOnce
<1>1. TableInv /\ [TableNext]_tableVars => [KeepsEntries]_tableVars
  BY TableSteps DEF Extends, KeepsEntries
<1> QED
  BY <1>1, TableInvariant, PTL DEF TableSpec, WrittenOnce

\* What is given out is filled in the end, nothing lies beyond it and it fits the room there is.
THEOREM TablePacked == TableSpec => []Packed
<1>1. TableInv => Packed
  <2> SUFFICES ASSUME TableInv PROVE Packed
    OBVIOUS
  <2>1. CASE stage = "check"
    <3>1. table = <<>> /\ used = 0
      BY <2>1 DEF TableInv, Starting
    <3>2. 0 <= ENOUGH
      BY TableAssumption
    <3> QED BY <2>1, <3>1, <3>2 DEF Packed
  <2>2. CASE stage = "enter"
    <3>1. Entering
      BY <2>2 DEF TableInv
    <3>2. LimitsTable => used <= ENOUGH
      BY <3>1 DEF Entering, Begun
    <3>3. next \in Nat /\ curr \in Nat /\ used = next + 2^curr
      BY <3>1 DEF Entering, Begun
    <3>4. used \in Nat
      <4> DEFINE h == 2^curr
      <4>1. h \in Nat /\ used = next + h
        BY <3>3, PowerPositive
      <4> HIDE DEF h
      <4> QED BY <3>3, <4>1
    <3>5. \A p \in DOMAIN table : p < used
      <4>1. \A p \in DOMAIN table : p \in 0 .. used - 1
        BY <3>1, EnteredWithin
      <4> QED BY <3>4, <4>1
    <3> QED BY <2>2, <3>2, <3>5 DEF Packed
  <2>3. CASE stage = "rest"
    <3>1. Filling
      BY <2>3 DEF TableInv
    <3>2. LimitsTable => used <= ENOUGH
      BY <3>1 DEF Filling, Begun
    <3>3. next \in Nat /\ curr \in Nat /\ used = next + 2^curr
      BY <3>1 DEF Filling, Begun
    <3>4. used \in Nat
      <4> DEFINE h == 2^curr
      <4>1. h \in Nat /\ used = next + h
        BY <3>3, PowerPositive
      <4> HIDE DEF h
      <4> QED BY <3>3, <4>1
    <3>5. \A p \in DOMAIN table : p < used
      <4>1. DOMAIN table = 0 .. used - 1 \/ (DOMAIN table = {0} /\ used = 2)
        BY <3>1 DEF Filling, FilledUp, HalfFull
      <4> QED BY <3>4, <4>1
    <3> QED BY <2>3, <3>2, <3>5 DEF Packed
  <2>4. CASE stage = "done"
    <3>1. Finished
      BY <2>4 DEF TableInv
    <3>2. \A p \in DOMAIN table : p < used
      <4> SUFFICES ASSUME NEW p \in DOMAIN table PROVE p < used
        OBVIOUS
      <4>1. p \in 0 .. used - 1
        BY <3>1 DEF Finished
      <4>2. used \in Nat
        BY <3>1 DEF Finished
      <4> QED BY <4>1, <4>2
    <3>3. ret = 0 => DOMAIN table = 0 .. used - 1
      <4>1. NoCode => DOMAIN table = 0 .. used - 1
        <5>1. {0, 1} = 0 .. 2 - 1
          OBVIOUS
        <5> QED BY <5>1 DEF NoCode
      <4>2. FilledUp => DOMAIN table = 0 .. used - 1
        BY DEF FilledUp
      <4>3. OneBit => DOMAIN table = 0 .. used - 1
        <5>1. 0 .. 1 = 0 .. 2 - 1
          OBVIOUS
        <5> QED BY <5>1 DEF OneBit, HalfFull
      <4>4. ret = 0 => NoCode \/ FilledUp \/ OneBit
        BY <3>1 DEF Finished
      <4> QED BY <4>1, <4>2, <4>3, <4>4
    <3>4. ret = 1 \/ ~LimitsTable \/ used <= ENOUGH
      BY <3>1, TableAssumption DEF Finished
    <3> QED BY <2>4, <3>2, <3>3, <3>4 DEF Packed
  <2> QED BY <2>1, <2>2, <2>3, <2>4 DEF TableInv
<1> QED
  BY <1>1, TableInvariant, PTL

\* The bits of a part of a sequence, as a number whose highest bit arrives first.
LEMMA PartIsWord ==
  ASSUME NEW bits \in Seq(Bit), NEW val, Values(bits, val), NEW a \in Nat, NEW n \in Nat, a + n <= Len(bits)
  PROVE  SubSeq(bits, a + 1, a + n) = WordOf(n, val[a + n] % 2^n)
<1> DEFINE v == val[a + n]
           u == SubSeq(bits, a + 1, a + n)
<1>1. a + n \in 0 .. Len(bits) /\ a + 1 \in Nat \ {0} /\ (a + n) - (a + 1) + 1 = n
  OBVIOUS
<1>2. v \in Nat
  BY <1>1, ValueBound
<1>3. SubSeq(bits, 1, a + n) = WordOf(a + n, v)
  BY <1>1, WordOfValue
<1>4. u \in Seq(Bit) /\ Len(u) = n /\ \A c \in 1 .. n : u[c] = bits[a + c]
  <2>1. /\ u \in Seq(Bit)
        /\ Len(u) = IF a + 1 <= a + n THEN (a + n) - (a + 1) + 1 ELSE 0
        /\ \A c \in 1 .. (a + n) - (a + 1) + 1 : u[c] = bits[(a + 1) + c - 1]
    BY <1>1, PartOf
  <2> HIDE DEF u
  <2>2. Len(u) = n
    BY <2>1
  <2>3. \A c \in 1 .. n : (a + 1) + c - 1 = a + c
    OBVIOUS
  <2> QED BY <1>1, <2>1, <2>2, <2>3
<1>5. \A c \in 1 .. n : bits[a + c] = (v \div 2^(n - c)) % 2
  <2> SUFFICES ASSUME NEW c \in 1 .. n PROVE bits[a + c] = (v \div 2^(n - c)) % 2
    OBVIOUS
  <2>1. a + c \in 1 .. a + n /\ (a + n) - (a + c) = n - c
    OBVIOUS
  <2>2. SubSeq(bits, 1, a + n)[a + c] = bits[a + c]
    <3> DEFINE b == a + n
    <3>1. SubSeq(bits, 1, b) = [p \in 1 .. b |-> bits[p]]
      <4>1. b \in 0 .. Len(bits)
        BY <1>1
      <4> HIDE DEF b
      <4> QED BY <4>1
    <3>2. a + c \in 1 .. b
      BY <2>1
    <3> HIDE DEF b
    <3> QED BY <3>1, <3>2 DEF b
  <2>3. WordOf(a + n, v)[a + c] = (v \div 2^((a + n) - (a + c))) % 2
    <3> HIDE DEF v
    <3> QED BY <2>1 DEF WordOf
  <2> HIDE DEF v
  <2> QED BY <1>3, <2>1, <2>2, <2>3
<1> HIDE DEF v
<1>6. \A c \in 1 .. n : ((v % 2^n) \div 2^(n - c)) % 2 = (v \div 2^(n - c)) % 2
  <2> SUFFICES ASSUME NEW c \in 1 .. n PROVE ((v % 2^n) \div 2^(n - c)) % 2 = (v \div 2^(n - c)) % 2
    OBVIOUS
  <2> DEFINE b == n - c
             h == c - 1
  <2>1. b \in Nat /\ h \in Nat /\ c = h + 1 /\ n = c + b /\ c \in Nat
    OBVIOUS
  <2> HIDE DEF b, h
  <2> DEFINE z == v \div 2^b
             p == 2^h
  <2>2. (v % 2^(c + b)) \div 2^b = (z % 2^c)
    BY <1>2, <2>1, FirstOfLast
  <2>3. p \in Nat /\ p > 0 /\ 2^c = 2 * p
    BY <2>1, PowerPositive, PowerDoubles
  <2>4. z \in Nat
    BY <1>2, <2>1, PowerPositive, DividedBy
  <2> HIDE DEF z, p
  <2>5. (z % (2 * p)) % 2 = z % 2
    <3> DEFINE m == 2 * p
               q == z \div m
               r == z % m
               k == p * q
    <3>1. m \in Nat \ {0}
      BY <2>3
    <3> HIDE DEF m
    <3>2. q \in Nat /\ r \in Nat /\ z = m * q + r
      BY <2>4, <3>1, Division
    <3>3. k \in Nat /\ m * q = 2 * k
      <4> HIDE DEF q
      <4> QED BY <2>3, <3>2 DEF m
    <3> HIDE DEF q, r, k
    <3>4. r % 2 = z % 2
      BY <2>4, <3>2, <3>3
    <3> QED BY <3>4 DEF r, m
  <2>6. (v % 2^n) \div 2^b = (z % 2^c)
    BY <2>1, <2>2
  <2>7. ((v % 2^n) \div 2^b) % 2 = z % 2
    BY <2>3, <2>5, <2>6
  <2> QED BY <2>7 DEF z, b
<1>7. WordOf(n, v % 2^n) = [c \in 1 .. n |-> ((v % 2^n) \div 2^(n - c)) % 2]
  BY DEF WordOf
<1>8. u = [c \in 1 .. n |-> u[c]]
  <2> HIDE DEF u
  <2>1. u \in [1 .. n -> Bit]
    BY <1>4
  <2> QED BY <2>1
<1> HIDE DEF u
<1>9. \A c \in 1 .. n : u[c] = ((v % 2^n) \div 2^(n - c)) % 2
  BY <1>4, <1>5, <1>6
<1>10. u = WordOf(n, v % 2^n)
  BY <1>7, <1>8, <1>9
<1> QED BY <1>10 DEF u, v

\* What is said of the numbers whose bits arrive is said of the bits: the first lookup and
\* the second one.
LEMMA IndicesRead ==
  ASSUME NEW bits \in Seq(Bit), Len(bits) = MAXBITS, NEW val, Values(bits, val), NEW x, x = val[MAXBITS],
         NEW r \in 0 .. MAXBITS
  PROVE  /\ x \in Nat /\ x < 2^MAXBITS
         /\ Num(SubSeq(bits, 1, r)) = RootIndex(r, x)
         /\ \A at \in Nat, n \in 0 .. MAXBITS - r : at + Num(SubSeq(bits, r + 1, r + n)) = SubIndex(r, at, n, x)
<1>1. MAXBITS \in Nat /\ MAXBITS \in 0 .. Len(bits)
  BY CodeAssumption
<1>2. x \in Nat /\ x < 2^MAXBITS
  BY <1>1, ValueBound
<1>3. ASSUME NEW l \in 0 .. MAXBITS PROVE x \div 2^(MAXBITS - l) = val[l]
  <2>1. MAXBITS - l \in 0 .. MAXBITS /\ MAXBITS - (MAXBITS - l) = l
    BY <1>1
  <2>2. \A k \in 0 .. MAXBITS : val[MAXBITS] \div 2^k = val[MAXBITS - k]
    BY <1>1, ValueDivided
  <2> QED BY <2>1, <2>2
<1>4. Num(SubSeq(bits, 1, r)) = RootIndex(r, x)
  <2>1. r \in 0 .. Len(bits)
    BY <1>1
  <2>2. WordOf(r, val[r]) = SubSeq(bits, 1, r)
    BY <2>1, WordOfValue
  <2> QED BY <1>3, <2>2 DEF RootIndex, Reversed
<1>5. ASSUME NEW at \in Nat, NEW n \in 0 .. MAXBITS - r
      PROVE  at + Num(SubSeq(bits, r + 1, r + n)) = SubIndex(r, at, n, x)
  <2>1. r \in Nat /\ n \in Nat /\ r + n <= Len(bits) /\ r + n \in 0 .. MAXBITS /\ MAXBITS - (r + n) = MAXBITS - r - n
    BY <1>1
  <2>2. SubSeq(bits, r + 1, r + n) = WordOf(n, val[r + n] % 2^n)
    BY ONLY <2>1, bits \in Seq(Bit), Values(bits, val), PartIsWord
  <2>3. val[r + n] = x \div 2^(MAXBITS - r - n)
    BY <1>3, <2>1
  <2> QED BY <2>2, <2>3 DEF SubIndex, Reversed
<1> QED BY <1>2, <1>4, <1>5

\* One lookup or two give what the table holds for the input.
LEMMA LookupFinds ==
  ASSUME NEW bits \in Seq(Bit), Len(bits) = MAXBITS, NEW val, Values(bits, val), root \in 0 .. MAXBITS,
         NEW b \in Nat, NEW kind, kind # "sub", NEW s, Finds(table, root, val[MAXBITS], b, kind, s)
  PROVE  Lookup(bits) = Entry(b, kind, s)
<1> DEFINE x == val[MAXBITS]
           e == table[RootIndex(root, x)]
<1>1. /\ Num(SubSeq(bits, 1, root)) = RootIndex(root, x)
      /\ \A at \in Nat, n \in 0 .. MAXBITS - root : at + Num(SubSeq(bits, root + 1, root + n)) = SubIndex(root, at, n, x)
  BY IndicesRead
<1>2. Finds(table, root, x, b, kind, s)
  OBVIOUS
<1> HIDE DEF x
<1>3. Lookup(bits) = IF e.kind = "sub"
                       THEN LET f == table[e.val.at + Num(SubSeq(bits, root + 1, root + e.val.bits))]
                            IN [f EXCEPT !.bits = @ + root]
                       ELSE e
  BY <1>1 DEF Lookup
<1> HIDE DEF e
<1>4. CASE e = Entry(b, kind, s)
  <2>1. e.kind = kind
    BY <1>4 DEF Entry
  <2> QED BY <1>3, <1>4, <2>1
<1>5. CASE \E at \in Nat, n \in 0 .. MAXBITS - root :
             /\ e = Entry(root, "sub", [at |-> at, bits |-> n])
             /\ table[SubIndex(root, at, n, x)] = Entry(b - root, kind, s)
  <2>1. PICK at \in Nat, n \in 0 .. MAXBITS - root :
             /\ e = Entry(root, "sub", [at |-> at, bits |-> n])
             /\ table[SubIndex(root, at, n, x)] = Entry(b - root, kind, s)
    BY <1>5
  <2>2. e.kind = "sub" /\ e.val.at = at /\ e.val.bits = n
    BY <2>1 DEF Entry
  <2>3. at + Num(SubSeq(bits, root + 1, root + n)) = SubIndex(root, at, n, x)
    BY <1>1
  <2> DEFINE f == Entry(b - root, kind, s)
  <2>4. Lookup(bits) = [f EXCEPT !.bits = @ + root]
    BY <1>3, <2>1, <2>2, <2>3
  <2>5. (b - root) + root = b
    BY CodeAssumption
  <2>6. [f EXCEPT !.bits = @ + root] = Entry(b, kind, s)
    BY <2>5 DEF Entry
  <2> QED BY <2>4, <2>6
<1> QED
  BY <1>2, <1>4, <1>5 DEF Finds, e

\* What Decodes says of one sequence of bits.
DecodedFor(bits) == \E w \in Leading(CodeOf(lens), bits) :
                   /\ Lookup(bits).bits = Len(w)
                   /\ IF CodeOf(lens)[w] = INVALID
                        THEN Lookup(bits).kind = "invalid"
                        ELSE Lookup(bits).kind = "symbol" /\ Lookup(bits).val = CodeOf(lens)[w]

\* The first words of a sequence of bits are those that Leading looks at.
LEMMA LeadingIs ==
  ASSUME NEW bits \in Seq(Bit), Len(bits) = MAXBITS, NEW n \in 1 .. MAXBITS, NEW code,
         SubSeq(bits, 1, n) \in DOMAIN code
  PROVE  SubSeq(bits, 1, n) \in Leading(code, bits)
BY DEF Leading

\* A code that was entered is decoded.
LEMMA ReadsDecodes ==
  ASSUME lens \in Lists, Longest(lens) # 0, Accepted(type, lens), root \in 0 .. MAXBITS,
         NEW bits \in Seq(Bit), Len(bits) = MAXBITS, NEW val, Values(bits, val),
         IsGot(table, root, lens, val[MAXBITS])
  PROVE  DecodedFor(bits)
<1>1. MAXBITS \in Nat /\ MAXBITS \in 0 .. Len(bits) /\ lens \in [0 .. Symbols - 1 -> 0 .. MAXBITS]
      /\ Alphabet(0 .. Symbols - 1)
  BY CodeAssumption, SymbolsAre DEF Lists
<1>2. PICK s \in Coded(lens) : /\ val[MAXBITS] \div 2^(MAXBITS - lens[s]) = NumberOf(lens, s)
                               /\ Finds(table, root, val[MAXBITS], lens[s], "symbol", s)
  BY DEF IsGot
<1> DEFINE l == lens[s]
           w == SubSeq(bits, 1, l)
<1>3. l \in 1 .. MAXBITS /\ s \in 0 .. Symbols - 1 /\ Word(lens, s) = WordOf(l, NumberOf(lens, s))
  <2>1. /\ lens[s] \in 1 .. MAXBITS /\ s \in 0 .. Symbols - 1
        /\ Word(lens, s) = WordOf(lens[s], NumberOf(lens, s))
    BY ONLY <1>1, s \in Coded(lens), SymbolWord
  <2> QED BY <2>1
<1>4. val[l] = NumberOf(lens, s)
  <2> HIDE DEF l
  <2>1. MAXBITS - l \in 0 .. MAXBITS /\ MAXBITS - (MAXBITS - l) = l
    BY <1>1, <1>3
  <2>2. \A k \in 0 .. MAXBITS : val[MAXBITS] \div 2^k = val[MAXBITS - k]
    BY <1>1, ValueDivided
  <2>3. val[MAXBITS] \div 2^(MAXBITS - l) = val[l]
    BY <2>1, <2>2
  <2> QED BY <1>2, <2>3 DEF l
<1>5. w = Word(lens, s)
  <2>1. l \in 0 .. Len(bits)
    BY <1>1, <1>3
  <2>2. WordOf(l, val[l]) = SubSeq(bits, 1, l)
    <3> HIDE DEF l
    <3> QED BY <2>1, WordOfValue
  <2> QED BY <1>3, <1>4, <2>2
<1>6. w \in DOMAIN CodeOf(lens) /\ CodeOf(lens)[w] = s
  <2>1. Word(lens, s) \in DOMAIN CodeOf(lens) /\ CodeOf(lens)[Word(lens, s)] = s
    BY <1>1, CodesRead
  <2> QED BY <1>5, <2>1
<1>7. w \in Leading(CodeOf(lens), bits)
  <2> HIDE DEF l
  <2> QED BY <1>3, <1>6, LeadingIs
<1>8. Len(w) = l
  <2>1. l \in Nat /\ l <= Len(bits)
    BY <1>1, <1>3
  <2> QED BY <1>1, <2>1
<1>9. Lookup(bits) = Entry(l, "symbol", s)
  <2>1. l \in Nat
    BY <1>1, <1>3
  <2>2. Finds(table, root, val[MAXBITS], l, "symbol", s)
    BY <1>2
  <2> HIDE DEF l
  <2>3. "symbol" # "sub"
    OBVIOUS
  <2> QED BY <2>1, <2>2, <2>3, LookupFinds
<1>10. s # INVALID
  BY <1>3 DEF INVALID
<1>11. Lookup(bits).bits = Len(w) /\ Lookup(bits).kind = "symbol" /\ Lookup(bits).val = s
  <2> HIDE DEF l, w
  <2> QED BY <1>8, <1>9 DEF Entry
<1> QED
  BY <1>6, <1>7, <1>10, <1>11 DEF DecodedFor

\* A word of one bit that is nobody's code is decoded as invalid.
LEMMA InvalidDecodes ==
  ASSUME lens \in Lists, Accepted(type, lens), Longest(lens) = 0 \/ Left(lens)[MAXBITS] > 0,
         NEW bits \in Seq(Bit), Len(bits) = MAXBITS,
         Longest(lens) = 0 \/ bits[1] = 1,
         Lookup(bits) = Entry(1, "invalid", 0)
  PROVE  DecodedFor(bits)
<1>1. MAXBITS \in Nat /\ MAXBITS >= 1 /\ lens \in [0 .. Symbols - 1 -> 0 .. MAXBITS] /\ Alphabet(0 .. Symbols - 1)
  BY CodeAssumption, SymbolsAre DEF Lists
<1>2. 1 \in 1 .. Len(bits) /\ bits[1] \in {0, 1}
  BY <1>1 DEF Bit
<1> DEFINE w == SubSeq(bits, 1, 1)
<1>3. w = <<bits[1]>>
  <2>1. SubSeq(bits, 1, 1) = [c \in 1 .. 1 |-> bits[1]]
    BY <1>2
  <2>2. \A b : <<b>> = [c \in 1 .. 1 |-> b]
    OBVIOUS
  <2> QED
    BY <2>1, <2>2
<1>4. /\ DOMAIN CodeOf(lens) = {<<0>>, <<1>>}
      /\ \A s \in Coded(lens) : Word(lens, s) = <<0>>
  BY <1>1, OneBitCode
<1>5. w \in DOMAIN CodeOf(lens)
  BY <1>2, <1>3, <1>4
<1>6. w \in Leading(CodeOf(lens), bits)
  BY <1>1, <1>5, LeadingIs
<1>7. CodeOf(lens)[w] = INVALID
  <2>1. \/ \E s \in Coded(lens) : w = Word(lens, s)
        \/ CodeOf(lens)[w] = INVALID
    BY <1>5, CodeWords
  <2>2. ASSUME NEW s \in Coded(lens), w = Word(lens, s) PROVE FALSE
    <3>1. CASE Longest(lens) = 0
      <4>1. s \in DOMAIN lens /\ lens[s] # 0
        BY DEF Coded
      <4>2. lens[s] \in 0 .. MAXBITS
        BY <1>1, <4>1
      <4>3. 1 \in 1 .. MAXBITS
        BY <1>1
      <4>4. lens[s] <= Longest(lens)
        BY <4>3, CodeOfLength
      <4> QED BY <1>1, <3>1, <4>1, <4>2, <4>4
    <3>2. CASE bits[1] = 1
      <4>1. <<1>> = <<0>>
        BY <1>3, <1>4, <2>2, <3>2
      <4>2. <<1>>[1] = 1 /\ <<0>>[1] = 0
        OBVIOUS
      <4> QED BY <4>1, <4>2
    <3> QED BY <3>1, <3>2
  <2> QED BY <2>1, <2>2
<1>8. Len(w) = 1
  BY <1>3
<1>9. Lookup(bits).bits = 1 /\ Lookup(bits).kind = "invalid"
  BY DEF Entry
<1> QED
  BY <1>6, <1>7, <1>8, <1>9 DEF DecodedFor

\* A finished table decodes every sequence of bits.
LEMMA FinishedDecodes ==
  ASSUME lens \in Lists, Finished, ret = 0, NEW bits \in [1 .. MAXBITS -> Bit]
  PROVE  DecodedFor(bits)
<1>1. MAXBITS \in Nat /\ MAXBITS >= 1
  BY CodeAssumption
<1>2. bits \in Seq(Bit) /\ Len(bits) = MAXBITS
  BY <1>1
<1>3. PICK val : Values(bits, val)
  BY <1>2, ValuesExist
<1> DEFINE x == val[MAXBITS]
<1>4. Accepted(type, lens)
  BY DEF Finished
<1>5. 1 \in 1 .. Len(bits) /\ bits[1] \in {0, 1} /\ val[1] = bits[1]
  <2>1. 1 \in 1 .. Len(bits) /\ bits[1] \in {0, 1}
    BY <1>1, <1>2 DEF Bit
  <2>2. val[0] = 0 /\ val[1] = 2 * val[1 - 1] + bits[1]
    BY <1>3, <2>1 DEF Values
  <2> QED BY <2>1, <2>2
<1>6. CASE NoCode
  <2>1. Longest(lens) = 0 /\ root = 1 /\ table = [p \in {0, 1} |-> Entry(1, "invalid", 0)]
    BY <1>6 DEF NoCode
  <2> DEFINE k == Num(SubSeq(bits, 1, 1))
  <2>2. k \in {0, 1}
    <3>1. SubSeq(bits, 1, 1) \in Seq(Bit) /\ Len(SubSeq(bits, 1, 1)) = 1
      BY <1>2, <1>5
    <3>2. k \in Nat /\ k < 2^1
      BY <3>1, NumBound
    <3>3. 2^1 = 2
      <4>1. 2^(0 + 1) = 2 * 2^0 /\ 0 + 1 = 1
        BY PowerDoubles
      <4> QED BY <4>1, PowerZero
    <3> HIDE DEF k
    <3> QED BY <3>2, <3>3
  <2>3. Lookup(bits) = IF table[k].kind = "sub"
                         THEN LET f == table[table[k].val.at + Num(SubSeq(bits, 1 + 1, 1 + table[k].val.bits))]
                              IN [f EXCEPT !.bits = @ + 1]
                         ELSE table[k]
    BY <2>1 DEF Lookup
  <2> HIDE DEF k
  <2>4. table[k] = Entry(1, "invalid", 0)
    BY <2>1, <2>2
  <2>5. table[k].kind # "sub"
    BY <2>4 DEF Entry
  <2>6. Lookup(bits) = Entry(1, "invalid", 0)
    BY <2>3, <2>4, <2>5
  <2> QED BY <1>2, <1>4, <2>1, <2>6, InvalidDecodes
<1>7. CASE Longest(lens) # 0 /\ root = RootOf(lens) /\ (FilledUp \/ OneBit)
  <2>1. root \in 0 .. MAXBITS
    <3>1. RootOf(lens) \in 1 .. Longest(lens) /\ Longest(lens) \in 1 .. MAXBITS
      BY <1>7, RootIs
    <3> QED BY <1>1, <1>7, <3>1
  <2>2. x \in Nat /\ x < 2^MAXBITS /\ Num(SubSeq(bits, 1, root)) = RootIndex(root, x)
    BY <1>2, <1>3, <2>1, IndicesRead
  <2>3. Longest(lens) # 0
    BY <1>7
  <2>4. CASE FilledUp
    <3>1. IsGot(table, root, lens, x)
      <4>1. ReadsBelow(table, root, lens, 2^MAXBITS)
        BY <2>4 DEF FilledUp
      <4>2. 2^MAXBITS \in Nat
        BY <1>1, PowerPositive
      <4> HIDE DEF x
      <4>3. x \in 0 .. 2^MAXBITS - 1
        BY <2>2, <4>2
      <4> QED BY <4>1, <4>3 DEF ReadsBelow
    <3> QED BY <1>2, <1>3, <1>4, <2>1, <2>3, <3>1, ReadsDecodes
  <2>5. CASE OneBit
    <3>1. /\ Left(lens)[MAXBITS] > 0 /\ root = 1 /\ ReadsBelow(table, root, lens, 2^(MAXBITS - 1))
          /\ DOMAIN table = 0 .. 1 /\ table[1] = Entry(1, "invalid", 0)
      BY <2>5 DEF OneBit, HalfFull
    <3>2. x \div 2^(MAXBITS - 1) = bits[1]
      <4>1. MAXBITS - 1 \in 0 .. MAXBITS /\ MAXBITS - (MAXBITS - 1) = 1 /\ MAXBITS \in 0 .. Len(bits)
        BY <1>1, <1>2
      <4>2. \A k \in 0 .. MAXBITS : val[MAXBITS] \div 2^k = val[MAXBITS - k]
        BY <1>2, <1>3, <4>1, ValueDivided
      <4> QED BY <1>5, <4>1, <4>2
    <3>3. 2^(MAXBITS - 1) \in Nat /\ 2^(MAXBITS - 1) > 0
      <4>1. MAXBITS - 1 \in Nat
        BY <1>1
      <4> QED BY <4>1, PowerPositive
    <3>4. CASE bits[1] = 0
      <4>1. x < 2^(MAXBITS - 1)
        <5> HIDE DEF x
        <5> DEFINE m == 2^(MAXBITS - 1)
        <5>1. x \div m = 0 /\ m \in Nat /\ m > 0
          BY <3>2, <3>3, <3>4
        <5> HIDE DEF m
        <5>2. x < m
          BY <2>2, <5>1, DividedBy
        <5> QED BY <5>2 DEF m
      <4>2. IsGot(table, root, lens, x)
        <5> HIDE DEF x
        <5>1. x \in 0 .. 2^(MAXBITS - 1) - 1
          BY <2>2, <3>3, <4>1
        <5> QED BY <3>1, <5>1 DEF ReadsBelow
      <4> QED BY <1>2, <1>3, <1>4, <2>1, <2>3, <4>2, ReadsDecodes
    <3>5. CASE bits[1] = 1
      <4>1. RootIndex(root, x) = 1
        <5>1. Reversed(0 + 1, 2 * 0 + 1) = Reversed(0, 0) + 1 * 2^0
          <6>1. 0 \in Nat /\ 1 \in {0, 1}
            OBVIOUS
          <6> QED BY <6>1, ReversedNext
        <5>2. Reversed(0, 0) = 0
          BY ReversedNone
        <5>3. Reversed(1, 1) = 1
          BY <5>1, <5>2, PowerZero
        <5> QED BY <3>1, <3>2, <3>5, <5>3 DEF RootIndex
      <4>2. Finds(table, root, x, 1, "invalid", 0)
        <5>1. 1 \in 0 .. 1
          OBVIOUS
        <5> QED BY <3>1, <4>1, <5>1 DEF Finds
      <4>3. Lookup(bits) = Entry(1, "invalid", 0)
        <5>1. 1 \in Nat /\ "invalid" # "sub"
          OBVIOUS
        <5> QED BY <1>2, <1>3, <2>1, <4>2, <5>1, LookupFinds
      <4> QED BY <1>2, <1>4, <3>1, <3>5, <4>3, InvalidDecodes
    <3> QED BY <1>5, <3>4, <3>5
  <2> QED BY <1>7, <2>4, <2>5
<1> QED
  BY <1>6, <1>7 DEF Finished

\* A finished table decodes every input to the symbol whose canonical code it begins with
\* and takes exactly that code's bits; a word that is nobody's code is found invalid.
THEOREM TableDecodes == TableSpec => []Decodes
<1>1. TableInv => Decodes
  <2> SUFFICES ASSUME TableInv, stage = "done", ret = 0, NEW bits \in [1 .. MAXBITS -> Bit]
               PROVE  DecodedFor(bits)
    BY DEF Decodes, DecodedFor
  <2>1. lens \in Lists /\ Finished
    BY DEF TableInv
  <2> QED BY <2>1, FinishedDecodes
<1> QED
  BY <1>1, TableInvariant, PTL DEF TableSpec

\* The words of l bits that begin with the word of a symbol, counted from the first symbol on.
Share(ls, l, s) == IF ls[s] \in 1 .. l THEN 2^(l - ls[s]) ELSE 0
Shares(ls, l, f) == /\ f \in [0 .. Symbols -> Nat] /\ f[0] = 0
                    /\ \A s \in 0 .. Symbols - 1 : f[s + 1] = f[s] + Share(ls, l, s)

LEMMA ShareIs ==
  ASSUME NEW ls \in Lists, NEW l \in Nat, NEW s \in 0 .. Symbols - 1
  PROVE  /\ Share(ls, l, s) \in Nat
         /\ Share(ls, 0, s) = 0
         /\ Share(ls, l + 1, s) = 2 * Share(ls, l, s) + IF ls[s] = l + 1 THEN 1 ELSE 0
<1>1. ls[s] \in Nat
  BY SymbolsAre DEF Lists
<1> DEFINE a == ls[s]
<1>2. a \in Nat
  BY <1>1
<1> HIDE DEF a
<1>3. CASE a \in 1 .. l
  <2> DEFINE e == l - a
  <2>1. e \in Nat /\ (l + 1) - a = e + 1 /\ a \in 1 .. l + 1 /\ a # l + 1
    BY <1>2, <1>3
  <2>2. 2^e \in Nat /\ 2^(e + 1) = 2 * 2^e
    <3> HIDE DEF e
    <3> QED BY <2>1, PowerPositive, PowerDoubles
  <2>3. Share(ls, l, s) = 2^e /\ Share(ls, l + 1, s) = 2^(e + 1) /\ Share(ls, 0, s) = 0
    <3>1. a \notin 1 .. 0
      BY <1>2
    <3>2. Share(ls, l + 1, s) = 2^((l + 1) - a)
      BY <2>1 DEF Share, a
    <3> QED BY <1>3, <2>1, <3>1, <3>2 DEF Share, a
  <2> HIDE DEF e
  <2> QED BY <2>1, <2>2, <2>3 DEF a
<1>4. CASE a = l + 1
  <2>1. Share(ls, l, s) = 0 /\ Share(ls, 0, s) = 0 /\ Share(ls, l + 1, s) = 2^((l + 1) - (l + 1))
    <3>1. a \notin 1 .. l /\ a \notin 1 .. 0 /\ a \in 1 .. l + 1
      BY <1>4
    <3> QED BY <1>4, <3>1 DEF Share, a
  <2>2. 2^((l + 1) - (l + 1)) = 1
    <3>1. (l + 1) - (l + 1) = 0
      OBVIOUS
    <3> QED BY <3>1, PowerZero
  <2> QED BY <1>4, <2>1, <2>2 DEF a
<1>5. CASE a \notin 1 .. l + 1
  <2>1. a \notin 1 .. l /\ a \notin 1 .. 0 /\ a # l + 1
    BY <1>2, <1>5
  <2>2. Share(ls, l, s) = 0 /\ Share(ls, 0, s) = 0 /\ Share(ls, l + 1, s) = 0
    BY <1>5, <2>1 DEF Share, a
  <2> QED BY <2>1, <2>2 DEF a
<1> QED BY <1>2, <1>3, <1>4, <1>5

\* The sums that Weight is defined by.
LEMMA SharesExist ==
  ASSUME NEW ls \in Lists, NEW l \in Nat
  PROVE  \E f : Shares(ls, l, f)
<1> DEFINE b == [t \in 1 .. Symbols |-> Share(ls, l, t - 1)]
<1>1. Symbols \in Nat
  BY TableAssumption
<1>2. \A t \in 1 .. Symbols : t - 1 \in 0 .. Symbols - 1
  BY <1>1
<1>3. b \in [1 .. Symbols -> Nat]
  BY <1>2, ShareIs
<1>4. \A s \in 0 .. Symbols - 1 : s + 1 \in 1 .. Symbols /\ (s + 1) - 1 = s
  BY <1>1
<1>5. \A s \in 0 .. Symbols - 1 : b[s + 1] = Share(ls, l, s)
  BY <1>4
<1> HIDE DEF b
<1>6. PICK c : c = AddStep(b, Symbols, c)
  BY <1>1, <1>3, RunningSums
<1>7. c \in [0 .. Symbols -> Nat] /\ c[0] = 0 /\ \A t \in 1 .. Symbols : c[t] = c[t - 1] + b[t]
  BY <1>1, <1>3, <1>6, RunningSums
<1>8. \A s \in 0 .. Symbols - 1 : c[s + 1] = c[s] + Share(ls, l, s)
  <2> SUFFICES ASSUME NEW s \in 0 .. Symbols - 1 PROVE c[s + 1] = c[s] + Share(ls, l, s)
    OBVIOUS
  <2>1. s + 1 \in 1 .. Symbols /\ (s + 1) - 1 = s /\ b[s + 1] = Share(ls, l, s)
    BY <1>4, <1>5
  <2>2. c[s + 1] = c[(s + 1) - 1] + b[s + 1]
    BY <1>7, <2>1
  <2> QED BY <2>1, <2>2
<1> QED BY <1>7, <1>8 DEF Shares

\* One bit more doubles them and adds the codes of that length.
LEMMA SharesDouble ==
  ASSUME NEW ls \in Lists, NEW l \in Nat, NEW f, Shares(ls, l, f), NEW g, Shares(ls, l + 1, g)
  PROVE  g[Symbols] = 2 * f[Symbols] + CountOf(ls, l + 1)
<1> DEFINE C(s) == {t \in 0 .. s - 1 : ls[t] = l + 1}
           T == {s \in Nat : s <= Symbols => /\ IsFiniteSet(C(s)) /\ Cardinality(C(s)) \in Nat
                                             /\ g[s] = 2 * f[s] + Cardinality(C(s))}
<1>1. Symbols \in Nat
  BY TableAssumption
<1>2. 0 \in T
  <2>1. C(0) = {}
    OBVIOUS
  <2>2. f[0] = 0 /\ g[0] = 0
    BY DEF Shares
  <2> HIDE DEF C
  <2>3. IsFiniteSet(C(0)) /\ Cardinality(C(0)) = 0
    BY <2>1, FS_EmptySet
  <2> QED BY <2>2, <2>3
<1>3. ASSUME NEW s \in T PROVE s + 1 \in T
  <2> SUFFICES ASSUME s + 1 <= Symbols
               PROVE  /\ IsFiniteSet(C(s + 1)) /\ Cardinality(C(s + 1)) \in Nat
                      /\ g[s + 1] = 2 * f[s + 1] + Cardinality(C(s + 1))
    OBVIOUS
  <2>1. s \in Nat /\ s <= Symbols /\ s \in 0 .. Symbols - 1 /\ s \in 0 .. Symbols /\ s + 1 \in 0 .. Symbols
    BY <1>1
  <2>2. IsFiniteSet(C(s)) /\ Cardinality(C(s)) \in Nat /\ g[s] = 2 * f[s] + Cardinality(C(s))
    BY <2>1
  <2>3. C(s + 1) = IF ls[s] = l + 1 THEN C(s) \cup {s} ELSE C(s)
    <3>1. \A t : t \in 0 .. (s + 1) - 1 <=> t \in 0 .. s - 1 \/ t = s
      BY <2>1
    <3> QED BY <3>1
  <2>4. s \notin C(s)
    BY <2>1
  <2> HIDE DEF C
  <2>5. /\ IsFiniteSet(C(s + 1)) /\ Cardinality(C(s + 1)) \in Nat
        /\ Cardinality(C(s + 1)) = Cardinality(C(s)) + IF ls[s] = l + 1 THEN 1 ELSE 0
    <3>1. CASE ls[s] = l + 1
      <4>1. C(s + 1) = C(s) \cup {s}
        BY <2>3, <3>1
      <4>2. IsFiniteSet(C(s) \cup {s}) /\ Cardinality(C(s) \cup {s}) = Cardinality(C(s)) + 1
        BY <2>2, <2>4, FS_AddElement
      <4> DEFINE n == Cardinality(C(s))
                 m == Cardinality(C(s + 1))
      <4>3. n \in Nat /\ m = n + 1 /\ IsFiniteSet(C(s + 1))
        BY <2>2, <4>1, <4>2
      <4> HIDE DEF n, m
      <4>4. m \in Nat /\ m = n + IF ls[s] = l + 1 THEN 1 ELSE 0
        BY <3>1, <4>3
      <4> QED BY <4>3, <4>4 DEF n, m
    <3>2. CASE ls[s] # l + 1
      BY <2>2, <2>3, <3>2
    <3> QED BY <3>1, <3>2
  <2>6. f[s] \in Nat /\ g[s] \in Nat /\ f[s + 1] = f[s] + Share(ls, l, s) /\ g[s + 1] = g[s] + Share(ls, l + 1, s)
    BY <2>1 DEF Shares
  <2>7. /\ Share(ls, l, s) \in Nat
        /\ Share(ls, l + 1, s) = 2 * Share(ls, l, s) + IF ls[s] = l + 1 THEN 1 ELSE 0
    BY <2>1, ShareIs
  <2> DEFINE k == IF ls[s] = l + 1 THEN 1 ELSE 0
             u == Share(ls, l, s)
             v == Share(ls, l + 1, s)
             n == Cardinality(C(s))
  <2>8. k \in Nat /\ u \in Nat /\ v = 2 * u + k /\ Cardinality(C(s + 1)) = n + k /\ n \in Nat
        /\ g[s] = 2 * f[s] + n /\ f[s + 1] = f[s] + u /\ g[s + 1] = g[s] + v
    BY <2>2, <2>5, <2>6, <2>7
  <2> HIDE DEF k, u, v, n
  <2>9. g[s + 1] = 2 * f[s + 1] + (n + k)
    BY <2>6, <2>8
  <2> QED BY <2>5, <2>8, <2>9
<1>4. T = Nat
  <2>1. T \in SUBSET Nat
    OBVIOUS
  <2> HIDE DEF T
  <2> QED BY <1>2, <1>3, <2>1, Counting
<1>5. g[Symbols] = 2 * f[Symbols] + Cardinality(C(Symbols))
  <2>1. Symbols \in T
    <3> HIDE DEF T
    <3> QED BY <1>1, <1>4
  <2> QED BY <1>1, <2>1
<1>6. CountOf(ls, l + 1) = Cardinality(C(Symbols))
  <2>1. DOMAIN ls = 0 .. Symbols - 1
    BY DEF Lists
  <2> QED BY <2>1 DEF CountOf
<1> QED BY <1>5, <1>6

\* They count the words that the codes up to a length leave nobody else.
LEMMA SharesAre ==
  ASSUME NEW ls \in Lists
  PROVE  \A l \in 1 .. MAXBITS : \A f : Shares(ls, l, f) => f[Symbols] = Upto(ls, l)
<1> DEFINE P(l) == l <= MAXBITS => \A f : Shares(ls, l, f) => f[Symbols] = IF l = 0 THEN 0 ELSE Upto(ls, l)
           T == {l \in Nat : P(l)}
<1>1. Symbols \in Nat /\ MAXBITS \in Nat /\ ls \in [0 .. Symbols - 1 -> 0 .. MAXBITS] /\ IsFiniteSet(0 .. Symbols - 1)
  BY TableAssumption, CodeAssumption, SymbolsAre DEF Lists
<1>2. 0 \in T
  <2> SUFFICES ASSUME NEW f, Shares(ls, 0, f) PROVE f[Symbols] = 0
    OBVIOUS
  <2> DEFINE Z == {s \in Nat : s <= Symbols => f[s] = 0}
  <2>1. 0 \in Z
    BY DEF Shares
  <2>2. ASSUME NEW s \in Z PROVE s + 1 \in Z
    <3> SUFFICES ASSUME s + 1 <= Symbols PROVE f[s + 1] = 0
      OBVIOUS
    <3>1. s \in 0 .. Symbols - 1 /\ f[s] = 0
      BY <1>1
    <3>2. f[s + 1] = f[s] + Share(ls, 0, s)
      BY <3>1 DEF Shares
    <3>3. Share(ls, 0, s) = 0
      BY <3>1, ShareIs
    <3> QED BY <3>1, <3>2, <3>3
  <2>3. Z = Nat
    <3>1. Z \in SUBSET Nat
      OBVIOUS
    <3> HIDE DEF Z
    <3> QED BY <2>1, <2>2, <3>1, Counting
  <2> QED BY <1>1, <2>3
<1>3. ASSUME NEW l \in T PROVE l + 1 \in T
  <2> SUFFICES ASSUME l + 1 <= MAXBITS, NEW g, Shares(ls, l + 1, g) PROVE g[Symbols] = Upto(ls, l + 1)
    OBVIOUS
  <2>1. l \in Nat /\ l <= MAXBITS /\ l + 1 \in 1 .. MAXBITS /\ P(l)
    BY <1>1
  <2>2. PICK f : Shares(ls, l, f)
    BY <2>1, SharesExist
  <2>3. f[Symbols] = IF l = 0 THEN 0 ELSE Upto(ls, l)
    BY <2>1, <2>2
  <2>4. g[Symbols] = 2 * f[Symbols] + CountOf(ls, l + 1)
    BY <2>1, <2>2, SharesDouble
  <2>5. CountOf(ls, l + 1) \in Nat
    BY <1>1, CountType
  <2>6. FirstCode(ls)[l + 1] = 2 * f[Symbols]
    <3>1. CASE l = 0
      BY <1>1, <2>3, <3>1, UptoIs
    <3>2. CASE l # 0
      <4>1. l \in 1 .. MAXBITS /\ l < MAXBITS
        <5> HIDE DEF P, T
        <5> QED BY <1>1, <2>1, <3>2
      <4> QED BY <1>1, <2>3, <3>2, <4>1, UptoIs
    <3> QED BY <3>1, <3>2
  <2> QED BY <2>4, <2>6 DEF Upto
<1>4. T = Nat
  <2>1. T \in SUBSET Nat
    OBVIOUS
  <2> HIDE DEF T
  <2> QED BY <1>2, <1>3, <2>1, Counting
<1> QED
  <2>1. ASSUME NEW l \in 1 .. MAXBITS, NEW f, Shares(ls, l, f) PROVE f[Symbols] = Upto(ls, l)
    <3>1. l \in Nat /\ l <= MAXBITS /\ l # 0
      BY <1>1
    <3>2. P(l)
      BY <1>4, <3>1
    <3> QED BY <2>1, <3>1, <3>2
  <2> QED BY <2>1

\* The sum of 2^-length, in words of the longest length there may be.
LEMMA WeightIs ==
  ASSUME NEW ls \in Lists
  PROVE  Weight(ls) = Upto(ls, MAXBITS)
<1> DEFINE b == [t \in 1 .. Symbols |-> Share(ls, MAXBITS, t - 1)]
           W(c) == [s \in 0 .. Symbols |->
                      IF s = 0 THEN 0 ELSE c[s - 1] + IF ls[s - 1] = 0 THEN 0 ELSE 2^(MAXBITS - ls[s - 1])]
           g == CHOOSE c : c = W(c)
<1>1. Symbols \in Nat /\ MAXBITS \in Nat /\ MAXBITS \in 1 .. MAXBITS /\ ls \in [0 .. Symbols - 1 -> 0 .. MAXBITS]
  BY TableAssumption, CodeAssumption DEF Lists
<1>2. Weight(ls) = g[Symbols]
  BY DEF Weight
<1>3. \A t \in 1 .. Symbols : t - 1 \in 0 .. Symbols - 1
  BY <1>1
<1>4. b \in [1 .. Symbols -> Nat]
  BY <1>1, <1>3, ShareIs
<1>5. ASSUME NEW t \in 1 .. Symbols
      PROVE  b[t] = IF ls[t - 1] = 0 THEN 0 ELSE 2^(MAXBITS - ls[t - 1])
  <2>1. ls[t - 1] \in 0 .. MAXBITS
    BY <1>1, <1>3
  <2>2. ls[t - 1] \in 1 .. MAXBITS <=> ls[t - 1] # 0
    BY <1>1, <2>1
  <2> QED BY <2>2 DEF Share
<1>6. \A c : W(c) = AddStep(b, Symbols, c)
  <2> SUFFICES ASSUME NEW c PROVE W(c) = AddStep(b, Symbols, c)
    OBVIOUS
  <2>1. \A s \in 0 .. Symbols : s # 0 => s \in 1 .. Symbols
    BY <1>1
  <2> HIDE DEF b
  <2> QED BY <1>5, <2>1 DEF AddStep
<1>7. \A s \in 0 .. Symbols - 1 : b[s + 1] = Share(ls, MAXBITS, s) /\ s + 1 \in 1 .. Symbols /\ (s + 1) - 1 = s
  BY <1>1
<1> HIDE DEF b
<1>8. g = AddStep(b, Symbols, g)
  <2>1. PICK c : c = AddStep(b, Symbols, c)
    BY <1>1, <1>4, RunningSums
  <2>2. c = W(c)
    BY <1>6, <2>1
  <2> HIDE DEF W
  <2>3. g = W(g)
    BY <2>2
  <2> QED BY <1>6, <2>3
<1> HIDE DEF g, W
<1>9. g \in [0 .. Symbols -> Nat] /\ g[0] = 0 /\ \A t \in 1 .. Symbols : g[t] = g[t - 1] + b[t]
  BY <1>1, <1>4, <1>8, RunningSums
<1>10. \A s \in 0 .. Symbols - 1 : g[s + 1] = g[s] + Share(ls, MAXBITS, s)
  <2> SUFFICES ASSUME NEW s \in 0 .. Symbols - 1 PROVE g[s + 1] = g[s] + Share(ls, MAXBITS, s)
    OBVIOUS
  <2>1. g[s + 1] = g[(s + 1) - 1] + b[s + 1]
    BY <1>7, <1>9
  <2> QED BY <1>7, <2>1
<1>11. Shares(ls, MAXBITS, g)
  BY <1>9, <1>10 DEF Shares
<1> QED
  BY <1>1, <1>2, <1>11, SharesAre

\* Which lists are refused, by their weight.
LEMMA RefusedByWeight ==
  ASSUME NEW ls \in Lists, NEW ty
  PROVE  ~Accepted(ty, ls) <=> /\ Weight(ls) # 0
                               /\ Weight(ls) # 2^MAXBITS
                               /\ ty = "CODES" \/ Weight(ls) > 2^MAXBITS \/ \E s \in DOMAIN ls : ls[s] > 1
<1> DEFINE u(l) == Upto(ls, l)
           p(l) == 2^l
           L == Longest(ls)
<1>1. /\ MAXBITS \in Nat /\ MAXBITS \in 1 .. MAXBITS
      /\ ls \in [0 .. Symbols - 1 -> 0 .. MAXBITS] /\ IsFiniteSet(0 .. Symbols - 1) /\ DOMAIN ls = 0 .. Symbols - 1
  BY CodeAssumption, SymbolsAre DEF Lists
<1>2. ASSUME NEW l \in 1 .. MAXBITS PROVE Left(ls)[l] = p(l) - u(l) /\ u(l) \in Nat /\ p(l) \in Nat
  <2>1. l \in Nat
    BY <1>1
  <2> QED BY <1>1, <2>1, UptoIs, PowerPositive
<1>3. ASSUME NEW l \in 1 .. MAXBITS PROVE u(l) * p(MAXBITS - l) <= u(MAXBITS) /\ p(MAXBITS) = p(l) * p(MAXBITS - l)
                                          /\ p(MAXBITS - l) \in Nat /\ p(MAXBITS - l) > 0
  <2> DEFINE e == MAXBITS - l
  <2>1. e \in Nat /\ l + e = MAXBITS /\ l \in Nat
    BY <1>1
  <2> HIDE DEF e
  <2>2. Upto(ls, l) * 2^e <= Upto(ls, l + e)
    BY <2>1, UptoGrows
  <2>3. 2^(l + e) = 2^l * 2^e /\ 2^e \in Nat /\ 2^e > 0
    BY <2>1, PowersOf
  <2> QED BY <2>1, <2>2, <2>3 DEF e
<1>4. /\ L \in 0 .. MAXBITS
      /\ L = 0 \/ CountOf(ls, L) # 0
      /\ \A k \in L + 1 .. MAXBITS : CountOf(ls, k) = 0
  BY <1>1, LongestIs
<1>5. u(MAXBITS) = 0 <=> L = 0
  <2>1. ASSUME L = 0 PROVE u(MAXBITS) = 0
    <3>1. \A k \in 1 .. MAXBITS : CountOf(ls, k) = 0
      BY <1>4, <2>1
    <3>2. \A k \in 1 .. MAXBITS - 1 : k \in 1 .. MAXBITS
      BY <1>1
    <3>3. FirstCode(ls)[MAXBITS] = 0
      BY <1>1, <3>1, <3>2, NothingShorter
    <3> QED BY <1>1, <3>1, <3>3 DEF Upto
  <2>2. ASSUME L # 0 PROVE u(MAXBITS) # 0
    <3>1. L \in 1 .. MAXBITS /\ CountOf(ls, L) # 0
      <4> HIDE DEF L
      <4> QED BY <1>1, <1>4, <2>2
    <3> HIDE DEF L
    <3>2. FirstCode(ls)[L] < u(L) /\ FirstCode(ls)[L] \in Nat
      BY <1>1, <3>1, CodeOfLength, UptoIs
    <3>3. u(L) \in Nat /\ u(L) * p(MAXBITS - L) <= u(MAXBITS) /\ p(MAXBITS - L) \in Nat /\ p(MAXBITS - L) > 0 /\ u(MAXBITS) \in Nat
      BY <1>1, <1>2, <1>3, <3>1
    <3> HIDE DEF u, p
    <3> DEFINE a == u(L)
               c == p(MAXBITS - L)
    <3>4. a \in Nat /\ a > 0 /\ c \in Nat /\ c > 0 /\ a * c <= u(MAXBITS)
      BY <3>2, <3>3
    <3> HIDE DEF a, c
    <3>5. a * c > 0
      BY <3>4
    <3> QED BY <3>3, <3>4, <3>5
  <2> QED BY <2>1, <2>2
<1>6. (\A l \in 1 .. MAXBITS : Left(ls)[l] >= 0) <=> u(MAXBITS) <= p(MAXBITS)
  <2>1. ASSUME \A l \in 1 .. MAXBITS : Left(ls)[l] >= 0 PROVE u(MAXBITS) <= p(MAXBITS)
    <3>1. Left(ls)[MAXBITS] >= 0 /\ Left(ls)[MAXBITS] = p(MAXBITS) - u(MAXBITS) /\ u(MAXBITS) \in Nat /\ p(MAXBITS) \in Nat
      BY <1>1, <1>2, <2>1
    <3> HIDE DEF u, p
    <3> QED BY <3>1
  <2>2. ASSUME u(MAXBITS) <= p(MAXBITS), NEW l \in 1 .. MAXBITS PROVE Left(ls)[l] >= 0
    <3>1. Left(ls)[l] = p(l) - u(l) /\ u(l) \in Nat /\ p(l) \in Nat
      BY <1>2
    <3>2. u(l) * p(MAXBITS - l) <= p(l) * p(MAXBITS - l) /\ p(MAXBITS - l) \in Nat /\ p(MAXBITS - l) > 0
      <4>1. u(MAXBITS) \in Nat /\ p(MAXBITS) \in Nat
        BY <1>1, <1>2
      <4>2. u(l) * p(MAXBITS - l) <= u(MAXBITS) /\ p(MAXBITS) = p(l) * p(MAXBITS - l)
            /\ p(MAXBITS - l) \in Nat /\ p(MAXBITS - l) > 0
        BY <1>3
      <4> DEFINE y == u(l) * p(MAXBITS - l)
                 z == p(l) * p(MAXBITS - l)
      <4>3. y \in Nat /\ z \in Nat /\ y <= u(MAXBITS) /\ p(MAXBITS) = z
        <5> HIDE DEF u, p
        <5> QED BY <3>1, <4>2
      <4> HIDE DEF u, p, y, z
      <4>4. y <= z
        BY <2>2, <4>1, <4>3
      <4> QED BY <4>2, <4>4 DEF y, z
    <3> DEFINE a == u(l)
               c == p(l)
               d == p(MAXBITS - l)
    <3>3. a \in Nat /\ c \in Nat /\ d \in Nat /\ d > 0 /\ a * d <= c * d
      BY <3>1, <3>2
    <3> HIDE DEF a, c, d
    <3>4. a <= c
      <4> SUFFICES ASSUME c + 1 <= a PROVE FALSE
        BY <3>3
      <4>1. d * (c + 1) <= d * a
        BY <3>3, TimesKeepsOrder
      <4>2. d * (c + 1) = c * d + d /\ d * a = a * d /\ c * d \in Nat /\ a * d \in Nat
        BY <3>3
      <4> QED BY <3>3, <4>1, <4>2
    <3>5. Left(ls)[l] = c - a
      BY <3>1 DEF a, c
    <3> QED BY <3>3, <3>4, <3>5
  <2> QED BY <2>1, <2>2
<1>7. ASSUME L # 0 PROVE L # 1 <=> \E s \in DOMAIN ls : ls[s] > 1
  <2>1. L \in 1 .. MAXBITS /\ CountOf(ls, L) # 0 /\ L \in Nat
    <3> HIDE DEF L
    <3> QED BY <1>1, <1>4, <1>7
  <2>2. PICK s \in Coded(ls) : ls[s] = L
    <3> HIDE DEF L
    <3> QED BY <2>1, CodeOfLength
  <2>3. \A t \in Coded(ls) : ls[t] <= L
    BY <2>1, CodeOfLength
  <2>4. ASSUME L # 1 PROVE \E t \in DOMAIN ls : ls[t] > 1
    <3>1. s \in DOMAIN ls /\ L > 1
      BY <2>1, <2>4 DEF Coded
    <3> QED BY <2>2, <3>1
  <2>5. ASSUME NEW t \in DOMAIN ls, ls[t] > 1 PROVE L # 1
    <3>1. ls[t] \in Nat /\ ls[t] # 0
      BY <1>1, <2>5
    <3>2. t \in Coded(ls)
      BY <3>1 DEF Coded
    <3>3. ls[t] <= L
      BY <2>3, <3>2
    <3> HIDE DEF L
    <3> QED BY <2>1, <2>5, <3>1, <3>3
  <2> QED BY <2>4, <2>5
<1>8. Weight(ls) = u(MAXBITS)
  BY WeightIs
<1>9. Left(ls)[MAXBITS] = p(MAXBITS) - u(MAXBITS) /\ u(MAXBITS) \in Nat /\ p(MAXBITS) \in Nat
  BY <1>1, <1>2
<1>10. Accepted(ty, ls) <=> \/ L = 0
                            \/ /\ \A l \in 1 .. MAXBITS : Left(ls)[l] >= 0
                               /\ Left(ls)[MAXBITS] > 0 => ty # "CODES" /\ L = 1
  BY DEF Accepted
<1> DEFINE w == u(MAXBITS)
           f == p(MAXBITS)
           E == \E s \in DOMAIN ls : ls[s] > 1
<1>11. /\ w = 0 <=> L = 0
       /\ L # 0 => (L # 1 <=> E)
       /\ Weight(ls) = w /\ w \in Nat /\ f \in Nat
       /\ Accepted(ty, ls) <=> L = 0 \/ (w <= f /\ (f - w > 0 => ty # "CODES" /\ L = 1))
  BY <1>5, <1>6, <1>7, <1>8, <1>9, <1>10
<1> HIDE DEF w, f, E, L, u, p
<1>12. ~Accepted(ty, ls) <=> w # 0 /\ w # f /\ (ty = "CODES" \/ w > f \/ E)
  BY <1>11
<1> QED BY <1>11, <1>12 DEF f, p, E

\* The lists refused are those whose words do not partition the input, but for the one
\* incomplete code allowed.
THEOREM TableRefusesRightly == TableSpec => []RefusesRightly
<1>1. TableInv => RefusesRightly
  <2> SUFFICES ASSUME TableInv, stage = "done" PROVE RefusesRightly
    BY DEF RefusesRightly
  <2>1. lens \in Lists /\ (ret = -1 <=> ~Accepted(type, lens))
    BY DEF TableInv, Finished
  <2>2. ~Accepted(type, lens) <=> /\ Weight(lens) # 0
                                  /\ Weight(lens) # 2^MAXBITS
                                  /\ type = "CODES" \/ Weight(lens) > 2^MAXBITS \/ \E s \in DOMAIN lens : lens[s] > 1
    BY <2>1, RefusedByWeight
  <2> QED BY <2>1, <2>2 DEF RefusesRightly
<1> QED
  BY <1>1, TableInvariant, PTL DEF TableSpec

-----------------------------------------------------------------------------
(* The search for the sync marker.                                         *)

\* The needle's first m elements are also the last m of its first q.
Border(m, q) == \A k \in 1 .. m : Needle[k] = Needle[q - m + k]

\* t is the longest border of the first q elements that another element follows.
Failure(q, t) == /\ t \in -1 .. q - 1
                 /\ t >= 0 => Border(t, q) /\ Needle[t + 1] # Needle[q + 1]
                 /\ \A m \in 0 .. q - 1 : m > t => ~(Border(m, q) /\ Needle[m + 1] # Needle[q + 1])

SearchTypes == /\ search \in {"table", "idle", "run"}
         /\ haystack \in Seq(Byte)
         /\ i \in Nat /\ j \in Int
         /\ found \in Int

TableRight == /\ DOMAIN partialMatchTable = IF search = "table" THEN 0 .. i ELSE 0 .. Size - 1
              /\ \A q \in DOMAIN partialMatchTable : Failure(q, partialMatchTable[q])

\* j is a border of the beginning that ends at i; the longer ones do not go on.
Growing == search = "table" =>
             /\ i <= Size - 1 /\ j \in -1 .. i - 1
             /\ j >= 0 => Border(j, i)
             /\ \A m \in 0 .. i - 1 : m > j /\ Border(m, i) => Needle[m + 1] # Needle[i + 1]

\* j elements of the needle lie before i, and no occurrence begins before them.
Matching == search = "run" =>
              /\ i <= Len(haystack) /\ j \in -1 .. Size /\ j <= i
              /\ \A k \in 1 .. j : Needle[k] = haystack[i - j + k]
              /\ \A b \in 0 .. Len(haystack) : b < i - j => ~Occurs(haystack, b)

SearchInv == SearchTypes /\ TableRight /\ Growing /\ Matching

\* The needle is a sequence that has a first element.
LEMMA NeedleShape == Needle \in Seq(Byte) /\ Size \in Nat /\ Size >= 1
  BY NeedleAssumption DEF Size

\* A border of a border is a border.
LEMMA BorderOfBorder == ASSUME NEW q \in Nat, NEW m \in 0 .. q, NEW k \in 0 .. m, Border(m, q), Border(k, m)
                        PROVE Border(k, q)
  <1> SUFFICES ASSUME NEW x \in 1 .. k PROVE Needle[x] = Needle[q - k + x]
    BY DEF Border
  <1>1. Needle[x] = Needle[m - k + x]
    BY DEF Border
  <1>2. m - k + x \in 1 .. m
    OBVIOUS
  <1>3. Needle[m - k + x] = Needle[q - m + (m - k + x)]
    BY <1>2 DEF Border
  <1>4. q - m + (m - k + x) = q - k + x
    OBVIOUS
  <1> QED BY <1>1, <1>3, <1>4

\* Of two borders of the same beginning the shorter is a border of the longer.
LEMMA BorderInBorder == ASSUME NEW q \in Nat, NEW m \in 0 .. q, NEW k \in 0 .. m, Border(m, q), Border(k, q)
                        PROVE Border(k, m)
  <1> SUFFICES ASSUME NEW x \in 1 .. k PROVE Needle[x] = Needle[m - k + x]
    BY DEF Border
  <1>1. Needle[x] = Needle[q - k + x]
    BY DEF Border
  <1>2. m - k + x \in 1 .. m
    OBVIOUS
  <1>3. Needle[m - k + x] = Needle[q - m + (m - k + x)]
    BY <1>2 DEF Border
  <1>4. q - m + (m - k + x) = q - k + x
    OBVIOUS
  <1> QED BY <1>1, <1>3, <1>4

\* A border that the needle's next element continues is a border of one more.
LEMMA BorderGoesOn == ASSUME NEW q \in Nat, NEW m \in 0 .. q, Border(m, q), Needle[m + 1] = Needle[q + 1]
                      PROVE Border(m + 1, q + 1)
  <1> SUFFICES ASSUME NEW x \in 1 .. m + 1 PROVE Needle[x] = Needle[(q + 1) - (m + 1) + x]
    BY DEF Border
  <1>1. (q + 1) - (m + 1) + x = q - m + x
    OBVIOUS
  <1>2. CASE x = m + 1
    <2>1. q - m + x = q + 1
      BY <1>2
    <2> QED BY <1>1, <1>2, <2>1
  <1>3. CASE x \in 1 .. m
    BY <1>1, <1>3 DEF Border
  <1> QED BY <1>2, <1>3

\* A border of one more is a border with its last element taken away.
LEMMA BorderWas == ASSUME NEW q \in Nat, NEW m \in 1 .. q + 1, Border(m, q + 1)
                   PROVE Border(m - 1, q) /\ Needle[m] = Needle[q + 1]
  <1>1. Needle[m] = Needle[q + 1]
    <2>1. m \in 1 .. m /\ (q + 1) - m + m = q + 1
      OBVIOUS
    <2> QED BY <2>1 DEF Border
  <1>2. Border(m - 1, q)
    <2> SUFFICES ASSUME NEW x \in 1 .. m - 1 PROVE Needle[x] = Needle[q - (m - 1) + x]
      BY DEF Border
    <2>1. x \in 1 .. m /\ (q + 1) - m + x = q - (m - 1) + x
      OBVIOUS
    <2> QED BY <2>1 DEF Border
  <1> QED BY <1>1, <1>2

-----------------------------------------------------------------------------
\* A step forward in the table: the new entry is the failure of its place.
LEMMA EntryIsFailure ==
  ASSUME NEW p \in Nat, NEW k \in 0 .. p - 1,
         DOMAIN partialMatchTable = 0 .. p - 1, \A q \in 0 .. p - 1 : Failure(q, partialMatchTable[q]),
         Border(k, p), \A m \in 0 .. p - 1 : m > k => ~Border(m, p)
  PROVE Failure(p, MatchEntry(p, k))
  <1>1. CASE Needle[p + 1] # Needle[k + 1]
    BY <1>1 DEF MatchEntry, Failure
  <1>2. CASE Needle[p + 1] = Needle[k + 1]
    <2> DEFINE t == partialMatchTable[k]
    <2>1. MatchEntry(p, k) = t
      BY <1>2 DEF MatchEntry
    <2>2. Failure(k, t)
      OBVIOUS
    <2>3. t \in -1 .. k - 1
      BY <2>2 DEF Failure
    <2>4. ASSUME t >= 0 PROVE Border(t, p) /\ Needle[t + 1] # Needle[p + 1]
      <3>1. Border(t, k) /\ Needle[t + 1] # Needle[k + 1]
        BY <2>2, <2>4 DEF Failure
      <3>2. t \in 0 .. k /\ k \in 0 .. p
        BY <2>3, <2>4
      <3>3. Border(t, p)
        BY <3>1, <3>2, BorderOfBorder
      <3> QED BY <3>1, <3>3, <1>2
    <2>5. ASSUME NEW m \in 0 .. p - 1, m > t, Border(m, p), Needle[m + 1] # Needle[p + 1] PROVE FALSE
      <3>1. m <= k
        BY <2>5
      <3>2. m # k
        BY <2>5, <1>2
      <3>3. m \in 0 .. k - 1 /\ m \in 0 .. k /\ k \in 0 .. p
        BY <3>1, <3>2
      <3>4. Border(m, k)
        BY <2>5, <3>3, BorderInBorder
      <3> QED BY <3>3, <3>4, <2>2, <2>5, <1>2 DEF Failure
    <2> HIDE DEF t
    <2>6. t \in -1 .. p - 1
      BY <2>3
    <2> QED BY <2>1, <2>4, <2>5, <2>6 DEF Failure
  <1> QED BY <1>1, <1>2

\* The search starts from an empty table and no haystack.
LEMMA Initially == SearchInit => SearchInv
  BY NeedleShape DEF SearchInit, SearchInv, SearchTypes, TableRight, Growing, Matching, Failure

\* A step forward keeps the table right.
LEMMA ForwardInTable == SearchInv /\ TableForward => SearchInv'
  <1> SUFFICES ASSUME SearchInv, TableForward PROVE SearchInv'
    OBVIOUS
  <1> USE NeedleShape
  <1>1. /\ search = "table" /\ i \in Nat /\ j \in Int /\ i < Size - 1
        /\ i' = i + 1 /\ j' = j + 1 /\ search' = "table"
        /\ haystack' = haystack /\ found' = found
    BY DEF SearchInv, SearchTypes, TableForward
  <1>2. j \in -1 .. i - 1
    BY <1>1 DEF SearchInv, Growing
  <1>3. j + 1 \in 0 .. (i + 1) - 1
    BY <1>1, <1>2
  <1>4. Border(j + 1, i + 1)
    <2>1. CASE j = -1
      BY <2>1 DEF Border
    <2>2. CASE j >= 0
      <3>1. Border(j, i) /\ Needle[j + 1] = Needle[i + 1]
        BY <1>1, <2>2 DEF SearchInv, Growing, TableForward, Goes
      <3>2. j \in 0 .. i
        BY <1>1, <1>2, <2>2
      <3> QED BY <3>1, <3>2, <1>1, BorderGoesOn
    <2> QED BY <2>1, <2>2, <1>2
  <1>5. ASSUME NEW m \in 0 .. (i + 1) - 1, m > j + 1 PROVE ~Border(m, i + 1)
    <2> SUFFICES ASSUME Border(m, i + 1) PROVE FALSE
      OBVIOUS
    <2>1. m \in 1 .. i + 1 /\ m - 1 \in 0 .. i - 1 /\ m - 1 > j
      BY <1>1, <1>2, <1>5
    <2>2. Border(m - 1, i) /\ Needle[m] = Needle[i + 1]
      BY <2>1, <1>1, BorderWas
    <2>3. (m - 1) + 1 = m
      BY <2>1
    <2>4. Needle[(m - 1) + 1] # Needle[i + 1]
      BY <2>1, <2>2, <1>1 DEF SearchInv, Growing
    <2> QED BY <2>2, <2>3, <2>4
  <1>6. DOMAIN partialMatchTable = 0 .. (i + 1) - 1 /\ \A q \in 0 .. (i + 1) - 1 : Failure(q, partialMatchTable[q])
    BY <1>1 DEF SearchInv, TableRight
  <1>7. Failure(i + 1, MatchEntry(i + 1, j + 1))
    BY <1>1, <1>3, <1>4, <1>5, <1>6, EntryIsFailure
  <1>8. DOMAIN partialMatchTable' = 0 .. i' /\ \A q \in 0 .. i' : Failure(q, partialMatchTable'[q])
    <2>1. partialMatchTable' = [q \in 0 .. i + 1 |-> IF q = i + 1 THEN MatchEntry(i + 1, j + 1) ELSE partialMatchTable[q]]
      BY DEF TableForward
    <2>2. ASSUME NEW q \in 0 .. i + 1 PROVE Failure(q, partialMatchTable'[q])
      <3>1. CASE q = i + 1
        BY <3>1, <2>1, <1>1, <1>7
      <3>2. CASE q # i + 1
        <4>1. q \in 0 .. (i + 1) - 1 /\ partialMatchTable'[q] = partialMatchTable[q]
          BY <3>2, <2>1, <1>1
        <4> QED BY <4>1, <1>6
      <3> QED BY <3>1, <3>2
    <2> QED BY <2>1, <2>2, <1>1
  <1>9. TableRight'
    BY <1>1, <1>8 DEF TableRight, Failure, Border, Size
  <1>10. Growing'
    <2>1. i + 1 <= Size - 1 /\ j + 1 \in -1 .. (i + 1) - 1
      BY <1>1, <1>3
    <2> QED BY <1>1, <1>4, <1>5, <2>1 DEF Growing, Border, Size
  <1>11. SearchTypes' /\ Matching'
    BY <1>1 DEF SearchInv, SearchTypes, Matching
  <1> QED BY <1>9, <1>10, <1>11 DEF SearchInv

\* A step back takes the next border, and what lies between has been ruled out.
LEMMA BackInTable == SearchInv /\ TableBack => SearchInv'
  <1> SUFFICES ASSUME SearchInv, TableBack PROVE SearchInv'
    OBVIOUS
  <1> USE NeedleShape
  <1> DEFINE t == partialMatchTable[j]
  <1>1. /\ search = "table" /\ i \in Nat /\ j \in Int /\ i < Size - 1
        /\ i' = i /\ j' = t /\ search' = "table" /\ partialMatchTable' = partialMatchTable
        /\ haystack' = haystack /\ found' = found
        /\ j >= 0 /\ Needle[i + 1] # Needle[j + 1]
    BY DEF SearchInv, SearchTypes, TableBack, Goes
  <1>2. j \in 0 .. i - 1 /\ j \in DOMAIN partialMatchTable
    BY <1>1 DEF SearchInv, Growing, TableRight
  <1>3. Failure(j, t)
    BY <1>2 DEF SearchInv, TableRight
  <1>4. t \in -1 .. j - 1
    BY <1>3 DEF Failure
  <1>5. Border(j, i)
    BY <1>1 DEF SearchInv, Growing
  <1>6. ASSUME t >= 0 PROVE Border(t, i)
    <2>1. Border(t, j) /\ t \in 0 .. j /\ j \in 0 .. i
      BY <1>1, <1>2, <1>3, <1>4, <1>6 DEF Failure
    <2> QED BY <2>1, <1>1, <1>5, BorderOfBorder
  <1>7. ASSUME NEW m \in 0 .. i - 1, m > t, Border(m, i) PROVE Needle[m + 1] # Needle[i + 1]
    <2>1. CASE m > j
      BY <2>1, <1>1, <1>7 DEF SearchInv, Growing
    <2>2. CASE m = j
      BY <2>2, <1>1
    <2>3. CASE m < j
      <3>1. m \in 0 .. j - 1 /\ m \in 0 .. j /\ j \in 0 .. i
        BY <2>3, <1>1, <1>2
      <3>2. Border(m, j)
        BY <3>1, <1>1, <1>5, <1>7, BorderInBorder
      <3>3. Needle[m + 1] = Needle[j + 1]
        BY <3>1, <3>2, <1>3, <1>7 DEF Failure
      <3> QED BY <3>3, <1>1
    <2> QED BY <2>1, <2>2, <2>3, <1>2
  <1> HIDE DEF t
  <1>8. Growing'
    <2>1. i <= Size - 1 /\ t \in -1 .. i - 1
      BY <1>1, <1>2, <1>4
    <2> QED BY <2>1, <1>1, <1>6, <1>7 DEF Growing, Border, Size
  <1>9. TableRight'
    BY <1>1 DEF SearchInv, TableRight, Failure, Border, Size
  <1>10. SearchTypes' /\ Matching'
    BY <1>1, <1>4 DEF SearchInv, SearchTypes, Matching
  <1> QED BY <1>8, <1>9, <1>10 DEF SearchInv

\* A step of the search keeps the part of the needle that matches.
LEMMA ForwardInHaystack == SearchInv /\ Forward => SearchInv'
  <1> SUFFICES ASSUME SearchInv, Forward PROVE SearchInv'
    OBVIOUS
  <1> USE NeedleShape
  <1>1. /\ search = "run" /\ i \in Nat /\ j \in Int /\ i < Len(haystack) /\ j < Size
        /\ i' = i + 1 /\ j' = j + 1 /\ search' = "run" /\ partialMatchTable' = partialMatchTable
        /\ haystack' = haystack /\ found' = found /\ haystack \in Seq(Byte)
        /\ j >= 0 => haystack[i + 1] = Needle[j + 1]
    BY DEF SearchInv, SearchTypes, Forward, Looking, Fits
  <1>2. j \in -1 .. Size /\ j <= i
    BY <1>1 DEF SearchInv, Matching
  <1>3. ASSUME NEW k \in 1 .. j + 1 PROVE Needle[k] = haystack[(i + 1) - (j + 1) + k]
    <2>1. (i + 1) - (j + 1) + k = i - j + k
      BY <1>1
    <2>2. CASE k = j + 1
      <3>1. i - j + k = i + 1 /\ j >= 0
        BY <2>2, <1>1
      <3> QED BY <3>1, <2>1, <2>2, <1>1
    <2>3. CASE k \in 1 .. j
      BY <2>1, <2>3, <1>1 DEF SearchInv, Matching
    <2> QED BY <2>2, <2>3, <1>1
  <1>4. ASSUME NEW b \in 0 .. Len(haystack), b < (i + 1) - (j + 1) PROVE ~Occurs(haystack, b)
    <2>1. b < i - j
      BY <1>4, <1>1
    <2> QED BY <2>1, <1>1 DEF SearchInv, Matching
  <1>5. Matching'
    <2>1. i + 1 <= Len(haystack) /\ j + 1 \in -1 .. Size /\ j + 1 <= i + 1
      BY <1>1, <1>2
    <2> QED BY <2>1, <1>1, <1>3, <1>4 DEF Matching, Occurs, Size
  <1>6. TableRight'
    BY <1>1 DEF SearchInv, TableRight, Failure, Border, Size
  <1>7. SearchTypes' /\ Growing'
    BY <1>1 DEF SearchInv, SearchTypes, Growing
  <1> QED BY <1>5, <1>6, <1>7 DEF SearchInv

\* A step back in the search moves the needle on, over places where it does not lie.
LEMMA BackInHaystack == SearchInv /\ Back => SearchInv'
  <1> SUFFICES ASSUME SearchInv, Back PROVE SearchInv'
    OBVIOUS
  <1> USE NeedleShape
  <1> DEFINE t == partialMatchTable[j]
  <1>1. /\ search = "run" /\ i \in Nat /\ j \in Int /\ i < Len(haystack) /\ j < Size
        /\ i' = i /\ j' = t /\ search' = "run" /\ partialMatchTable' = partialMatchTable
        /\ haystack' = haystack /\ found' = found /\ haystack \in Seq(Byte)
        /\ j >= 0 /\ haystack[i + 1] # Needle[j + 1]
    BY DEF SearchInv, SearchTypes, Back, Looking, Fits
  <1>2. j \in 0 .. Size - 1 /\ j <= i /\ j \in DOMAIN partialMatchTable
    BY <1>1 DEF SearchInv, Matching, TableRight
  <1>3. Failure(j, t)
    BY <1>2 DEF SearchInv, TableRight
  <1>4. t \in -1 .. j - 1
    BY <1>3 DEF Failure
  <1>5. \A k \in 1 .. j : Needle[k] = haystack[i - j + k]
    BY <1>1 DEF SearchInv, Matching
  <1>6. ASSUME NEW k \in 1 .. t PROVE Needle[k] = haystack[i - t + k]
    <2>1. Border(t, j) /\ j - t + k \in 1 .. j
      BY <1>3, <1>4, <1>6, <1>2 DEF Failure
    <2>2. Needle[k] = Needle[j - t + k]
      BY <2>1, <1>6 DEF Border
    <2>3. Needle[j - t + k] = haystack[i - j + (j - t + k)]
      BY <2>1, <1>5
    <2>4. i - j + (j - t + k) = i - t + k
      BY <1>1, <1>4
    <2> QED BY <2>2, <2>3, <2>4
  <1>7. ASSUME NEW b \in 0 .. Len(haystack), b < i - t, Occurs(haystack, b) PROVE FALSE
    <2>1. CASE b < i - j
      BY <2>1, <1>1, <1>7 DEF SearchInv, Matching
    <2>2. CASE b >= i - j
      <3> DEFINE m == i - b
      <3>1. m \in 0 .. j /\ m > t
        BY <2>2, <1>1, <1>2, <1>4, <1>7
      <3>2. m + 1 \in 1 .. Size /\ b + (m + 1) = i + 1
        BY <3>1, <1>1, <1>2
      <3>3. haystack[i + 1] = Needle[m + 1]
        BY <3>2, <1>7 DEF Occurs
      <3>4. m # j
        BY <3>3, <1>1
      <3>5. ASSUME NEW k \in 1 .. m PROVE Needle[k] = Needle[j - m + k]
        <4>1. k \in 1 .. Size /\ j - m + k \in 1 .. j
          BY <3>1, <1>2
        <4>2. Needle[k] = haystack[b + k]
          BY <4>1, <1>7 DEF Occurs
        <4>3. Needle[j - m + k] = haystack[i - j + (j - m + k)]
          BY <4>1, <1>5
        <4>4. i - j + (j - m + k) = b + k
          BY <3>1, <1>1
        <4> QED BY <4>2, <4>3, <4>4
      <3>6. Border(m, j)
        BY <3>5 DEF Border
      <3>7. m \in 0 .. j - 1
        BY <3>1, <3>4, <1>1
      <3>8. Needle[m + 1] = Needle[j + 1]
        BY <3>1, <3>6, <3>7, <1>3 DEF Failure
      <3> QED BY <3>3, <3>8, <1>1
    <2> QED BY <2>1, <2>2, <1>1
  <1> HIDE DEF t
  <1>8. Matching'
    <2>1. i <= Len(haystack) /\ t \in -1 .. Size /\ t <= i
      BY <1>1, <1>2, <1>4
    <2> QED BY <2>1, <1>1, <1>6, <1>7 DEF Matching, Occurs, Size
  <1>9. TableRight'
    BY <1>1 DEF SearchInv, TableRight, Failure, Border, Size
  <1>10. SearchTypes' /\ Growing'
    BY <1>1, <1>4 DEF SearchInv, SearchTypes, Growing
  <1> QED BY <1>8, <1>9, <1>10 DEF SearchInv

\* The steps between the loops keep the invariant.
LEMMA OtherSearchSteps == SearchInv /\ (TableDone \/ Return \/ (\E h \in Seq(Byte) : Begin(h)) \/ UNCHANGED searchVars) => SearchInv'
  <1> SUFFICES ASSUME SearchInv, TableDone \/ Return \/ (\E h \in Seq(Byte) : Begin(h)) \/ UNCHANGED searchVars PROVE SearchInv'
    OBVIOUS
  <1> USE NeedleShape
  <1>1. CASE TableDone
    <2>1. i = Size - 1 /\ search = "table"
      BY <1>1 DEF SearchInv, Growing, SearchTypes, TableDone
    <2> QED BY <1>1, <2>1 DEF TableDone, SearchInv, SearchTypes, TableRight, Growing, Matching, Failure, Border, Size
  <1>2. CASE Return
    <2>1. search = "run" /\ search' = "idle" /\ found' \in Int /\ UNCHANGED <<partialMatchTable, haystack, i, j>>
      BY <1>2 DEF Return, SearchInv, SearchTypes
    <2> QED BY <2>1 DEF SearchInv, SearchTypes, TableRight, Growing, Matching, Failure, Border, Size
  <1>3. ASSUME NEW h \in Seq(Byte), Begin(h) PROVE SearchInv'
    <2>1. /\ search = "idle" /\ search' = "run" /\ haystack' = h /\ i' = 0 /\ j' = 0 /\ UNCHANGED <<partialMatchTable, found>>
      BY <1>3 DEF Begin
    <2>2. Matching'
      BY <2>1 DEF Matching, Size
    <2>3. TableRight'
      BY <2>1 DEF SearchInv, TableRight, Failure, Border, Size
    <2>4. SearchTypes' /\ Growing'
      BY <2>1 DEF SearchInv, SearchTypes, Growing
    <2> QED BY <2>2, <2>3, <2>4 DEF SearchInv
  <1>4. CASE UNCHANGED searchVars
    <2>1. /\ search' = search /\ partialMatchTable' = partialMatchTable /\ haystack' = haystack
          /\ i' = i /\ j' = j /\ found' = found
      BY <1>4 DEF searchVars
    <2>2. SearchTypes' /\ Growing'
      BY <2>1 DEF SearchInv, SearchTypes, Growing, Border
    <2>3. TableRight'
      BY <2>1 DEF SearchInv, TableRight, Failure, Border, Size
    <2>4. Matching'
      BY <2>1 DEF SearchInv, Matching, Occurs, Size
    <2> QED BY <2>2, <2>3, <2>4 DEF SearchInv
  <1> QED BY <1>1, <1>2, <1>3, <1>4

\* The two loops keep the invariant.
LEMMA InvHolds == SearchSpec => []SearchInv
  <1>1. SearchInv /\ [SearchNext]_searchVars => SearchInv'
    BY ForwardInTable, BackInTable, ForwardInHaystack, BackInHaystack, OtherSearchSteps
       DEF SearchNext, Computing, Searching
  <1> QED BY Initially, <1>1, PTL DEF SearchSpec

\* Where the loop ends, what it returns is the first occurrence.
LEMMA ReturnIsFirst == SearchInv /\ Return => IsFirst(haystack, found')
  <1> SUFFICES ASSUME SearchInv, Return PROVE IsFirst(haystack, found')
    OBVIOUS
  <1> USE NeedleShape
  <1>1. /\ search = "run" /\ i \in Nat /\ j \in Int /\ haystack \in Seq(Byte) /\ Len(haystack) \in Nat
        /\ i <= Len(haystack) /\ j \in -1 .. Size /\ j <= i
        /\ ~(i < Len(haystack) /\ j < Size)
    BY DEF SearchInv, SearchTypes, Matching, Return, Looking
  <1>2. \A b \in 0 .. Len(haystack) : b < i - j => ~Occurs(haystack, b)
    BY <1>1 DEF SearchInv, Matching
  <1>3. CASE j = Size
    <2>1. found' = i - j /\ i - j # -1 /\ i - j \in 0 .. Len(haystack)
      BY <1>1, <1>3 DEF Return
    <2>2. Occurs(haystack, i - j)
      BY <1>1, <1>3 DEF SearchInv, Matching, Occurs
    <2>3. \A b \in 0 .. i - j - 1 : ~Occurs(haystack, b)
      BY <1>1, <1>2, <2>1
    <2> QED BY <2>1, <2>2, <2>3 DEF IsFirst
  <1>4. CASE j # Size
    <2>1. found' = -1 /\ i = Len(haystack) /\ j < Size
      BY <1>1, <1>4 DEF Return
    <2>2. ASSUME NEW b \in 0 .. Len(haystack) PROVE ~Occurs(haystack, b)
      <3>1. CASE b < i - j
        BY <3>1, <1>2
      <3>2. CASE b >= i - j
        <4>1. b + Size > Len(haystack)
          BY <3>2, <2>1, <1>1
        <4> QED BY <4>1, <1>1 DEF Occurs
      <3> QED BY <3>1, <3>2, <1>1
    <2> QED BY <2>1, <2>2 DEF IsFirst
  <1> QED BY <1>3, <1>4

\* For every needle and every haystack a search returns the first place where the needle
\* lies, and -1 exactly if there is none (searchNeedle, computePartialMatchTable).
THEOREM SearchFindsFirst == SearchSpec => FindsFirst
  <1>1. SearchInv /\ [SearchNext]_searchVars => [search = "run" /\ search' = "idle" => IsFirst(haystack, found')]_searchVars
    <2> SUFFICES ASSUME SearchInv, [SearchNext]_searchVars, search = "run", search' = "idle"
                 PROVE IsFirst(haystack, found')
      OBVIOUS
    <2>1. Return
      BY DEF SearchNext, Computing, Searching, TableForward, TableBack, TableDone, Forward, Back, Begin, Looking, searchVars
    <2> QED BY <2>1, ReturnIsFirst
  <1> QED BY InvHolds, <1>1, PTL DEF SearchSpec, FindsFirst

-----------------------------------------------------------------------------
(* The search inside the reader.                                           *)

\* The files of the job and the drops to come are files of the scenario.
JobInv == /\ scenario \in Scenarios
          /\ coming \subseteq scenario.drops /\ asking \subseteq scenario.drops
          /\ timers \in Seq([drop : scenario.drops, dir : scenario.dirs])
          /\ app \in {"idle", "file", "quit"} /\ index \in Nat
          /\ app = "file" => job \in [drop : scenario.drops, dir : scenario.dirs] /\ index >= 1

InFile == {"opening", "ready", "recover", "returned"}

\* Where the reader is, and when it searches what.
PlaceInv == /\ content \in Seq(Byte) /\ position \in Nat
            /\ pc \in {"none", "thrown"} \cup InFile
            /\ pc # "none" => app = "file"
            /\ pc \in InFile => position <= Len(content)
            /\ pc = "opening" => search \in {"table", "idle"} /\ version \in {RecoveryVersion, CipherVersion}
            /\ pc \in {"ready", "returned"} => search = "idle" /\ version \in {RecoveryVersion, CipherVersion}
            /\ pc = "recover" => /\ search \in {"run", "idle"}
                                 /\ haystack = SubSeq(content, position + 1, Len(content))
                                 /\ search = "idle" => IsFirst(haystack, found)
                                 /\ version \in {RecoveryVersion, CipherVersion}
            /\ pc \in {"none", "thrown"} => search \in {"table", "idle"}

ReaderInv == SearchInv /\ JobInv /\ PlaceInv

\* A file's bytes are numbers.
LEMMA BytesAre == ASSUME content \in Seq(Byte), NEW p \in Nat, p < Len(content)
                  PROVE  At(p) \in 0 .. 255
  <1>1. p + 1 \in 1 .. Len(content)
    OBVIOUS
  <1>2. content[p + 1] \in Byte
    BY <1>1
  <1> QED BY <1>2, ReaderAssumption DEF At

\* What Space means.
LEMMA SpaceIs == ASSUME content \in Seq(Byte), NEW p \in Nat
                 PROVE  /\ Space(p) \in Nat
                        /\ \A n \in Nat : n > 0 /\ Space(p) >= n => p + n <= Len(content)
                        /\ p <= Len(content) => p + Space(p) = Len(content)
  BY DEF Space

\* Two bytes make a number.
LEMMA NumberAt == ASSUME content \in Seq(Byte), NEW p \in Nat, p + 2 <= Len(content)
                  PROVE  U16(p) \in Nat
  <1>1. p + 1 \in 1 .. Len(content) /\ (p + 1) + 1 \in 1 .. Len(content)
    OBVIOUS
  <1>2. content[p + 1] \in Byte /\ content[(p + 1) + 1] \in Byte
    BY <1>1
  <1>3. \A b \in Byte : b \in Nat
    BY ReaderAssumption
  <1>4. content[p + 1] \in Nat /\ content[(p + 1) + 1] \in Nat
    BY <1>2, <1>3
  <1> QED BY <1>4 DEF U16, At

\* As much of a marker lies at a place as MarkedAt says.
LEMMA MarkedAtIs == ASSUME content \in Seq(Byte), NEW p \in Nat
                    PROVE  /\ MarkedAt(p) \in 0 .. Size /\ MarkedAt(p) <= Space(p)
                           /\ Slice(p, MarkedAt(p)) = SubSeq(Needle, 1, MarkedAt(p))
                           /\ MarkedAt(p) = Size \/ MarkedAt(p) = Space(p) \/ At(p + MarkedAt(p)) # Needle[MarkedAt(p) + 1]
  <1> DEFINE T == {k \in Nat : k <= Size /\ k <= Space(p) /\ (k = Size \/ k = Space(p) \/ At(p + k) # Needle[k + 1])}
  <1> USE NeedleShape
  <1>0. Space(p) \in Nat /\ \A n \in Nat : n > 0 /\ Space(p) >= n => p + n <= Len(content)
    BY SpaceIs
  <1>1. T # {}
    <2>1. CASE Size <= Space(p)
      <3>1. Size \in T
        BY <2>1
      <3> QED BY <3>1
    <2>2. CASE Space(p) < Size
      <3>1. Space(p) \in T
        BY <2>2, <1>0
      <3> QED BY <3>1
    <2> QED BY <2>1, <2>2, <1>0
  <1>2. PICK m \in T : \A y \in T : m <= y
    <2>1. T \in SUBSET Nat
      OBVIOUS
    <2> HIDE DEF T
    <2> QED BY <2>1, <1>1, LeastNumber
  <1>3. ASSUME NEW x \in 0 .. m - 1 PROVE At(p + x) = Needle[x + 1]
    <2>1. x \in Nat /\ x < m /\ x # Size /\ x # Space(p) /\ x <= Size /\ x <= Space(p)
      BY <1>2, <1>0
    <2>2. x \notin T
      BY <1>2, <2>1
    <2> QED BY <2>1, <2>2
  <1>4. Slice(p, m) = SubSeq(Needle, 1, m)
    <2>1. m \in Nat /\ (m = 0 \/ p + m <= Len(content))
      BY <1>2, <1>0
    <2>2. CASE m = 0
      BY <2>2 DEF Slice
    <2>3. CASE m > 0
      <3>1. \A x \in 1 .. m : content[p + x] = Needle[x]
        <4> SUFFICES ASSUME NEW x \in 1 .. m PROVE content[p + x] = Needle[x]
          OBVIOUS
        <4>1. x - 1 \in 0 .. m - 1 /\ (x - 1) + 1 = x /\ p + (x - 1) + 1 = p + x
          OBVIOUS
        <4> QED BY <4>1, <1>3 DEF At
      <3>2. m \in Nat /\ m <= Size /\ p + m <= Len(content)
        BY <2>1, <2>3, <1>2
      <3> HIDE DEF T
      <3>3. Slice(p, m) = [x \in 1 .. m |-> content[p + x]]
        BY <3>2, <2>3 DEF Slice
      <3>4. SubSeq(Needle, 1, m) = [x \in 1 .. m |-> Needle[x]]
        BY <3>2, <2>3 DEF Size
      <3> QED BY <3>1, <3>3, <3>4
    <2> QED BY <2>1, <2>2, <2>3
  <1>5. m \in 0 .. Size /\ m <= Space(p) /\ (m = Size \/ m = Space(p) \/ At(p + m) # Needle[m + 1])
    BY <1>2, <1>0
  <1>6. \E k \in 0 .. Size : /\ k <= Space(p)
                             /\ Slice(p, k) = SubSeq(Needle, 1, k)
                             /\ k = Size \/ k = Space(p) \/ At(p + k) # Needle[k + 1]
    BY <1>4, <1>5
  <1> HIDE DEF T
  <1> QED BY <1>6 DEF MarkedAt

-----------------------------------------------------------------------------
\* A record's data lies in the file, with a marker's room behind it.
LEMMA DataLies == ASSUME ReaderInv, ReadsData
                  PROVE  /\ DataAt \in Nat /\ DataAt > position /\ LogLength \in Nat /\ LogLength > 0
                         /\ MarkerAt \in position + 1 .. Len(content)
                         /\ MarkerAt + Size <= Len(content)
  <1> USE NeedleShape
  <1>1. /\ content \in Seq(Byte) /\ position \in Nat /\ position <= Len(content)
        /\ Space(position) >= Smallest /\ ~NoKey /\ ~NoSpace /\ ~BadLength
        /\ version \in {RecoveryVersion, CipherVersion}
    BY DEF ReaderInv, PlaceInv, InFile, ReadsData, Reads
  <1>2. position + Smallest <= Len(content) /\ Smallest \in Nat
    BY <1>1, SpaceIs DEF Smallest
  <1>3. LengthAt \in Nat /\ LengthAt >= position /\ LengthAt + 2 <= Len(content)
    <2>1. CASE Encrypts
      <3>1. LengthAt = position + 1 + KeyBytes /\ KeyBytes \in Nat
        BY <2>1, <1>1, ReaderAssumption DEF LengthAt, Encrypts
      <3>2. LengthAt \in Nat /\ ~(Space(LengthAt) < 2)
        BY <2>1, <1>1, <3>1 DEF NoKey
      <3>3. Space(LengthAt) \in Nat
        BY <1>1, <3>2, SpaceIs
      <3>4. Space(LengthAt) >= 2
        BY <3>2, <3>3
      <3> QED BY <3>1, <3>4, <1>1, SpaceIs
    <2>2. CASE ~Encrypts
      BY <2>2, <1>1, <1>2 DEF LengthAt, Smallest
    <2> QED BY <2>1, <2>2
  <1>4. LogLength \in Nat
    BY <1>1, <1>3, NumberAt DEF LogLength
  <1>5. LogLength > 0
    BY <1>1, <1>4 DEF BadLength
  <1>6. Space(DataAt) >= LogLength + Size
    <2>1. ~TooLong
      BY <1>1 DEF NoSpace
    <2>2. DataAt \in Nat /\ Space(DataAt) \in Nat
      BY <1>3, <1>1, SpaceIs DEF DataAt
    <2> QED BY <2>1, <2>2, <1>4 DEF TooLong
  <1>7. DataAt + (LogLength + Size) <= Len(content)
    BY <1>1, <1>3, <1>4, <1>6, SpaceIs DEF DataAt
  <1> QED BY <1>1, <1>3, <1>4, <1>5, <1>7 DEF DataAt, MarkerAt

\* What a step of reading does, but for the steps of a search.
ReadKinds == \/ search = "idle" /\ Throw
             \/ pc = "ready" /\ \E p \in position + 1 .. Len(content) : Recover(p)
             \/ Recovered
             \/ /\ UNCHANGED <<searchVars, content, version>>
                /\ \/ ReadHeader /\ pc = "opening" /\ search = "idle" /\ pc' = "ready" /\ position' \in position + 1 .. Len(content)
                   \/ pc = "ready" /\ pc' = "returned" /\ position' \in position + 1 .. Len(content) /\ UNCHANGED zipped
                   \/ pc = "ready" /\ pc' = "returned" /\ position' = position /\ pair'.n = -1 /\ UNCHANGED zipped

\* Behind a record's data stands a marker, or what there is of one.
LEMMA CheckedKinds == ASSUME ReaderInv, ReadsData, NEW data, Checked(data) PROVE ReadKinds
  <1> USE NeedleShape
  <1> DEFINE marked == MarkedAt(MarkerAt)
  <1>1. /\ MarkerAt \in position + 1 .. Len(content) /\ MarkerAt + Size <= Len(content)
        /\ content \in Seq(Byte) /\ position \in Nat /\ pc = "ready"
    BY DataLies DEF ReaderInv, PlaceInv, ReadsData, Reads
  <1>2. marked \in 0 .. Size
    <2>1. MarkerAt \in Nat
      BY <1>1
    <2> QED BY <2>1, <1>1, MarkedAtIs
  <1>3. CASE marked = Size
    <2>1. /\ pc' = "returned" /\ position' = MarkerAt + Size
          /\ UNCHANGED <<searchVars, content, version, zipped>>
      BY <1>3 DEF Checked, Give
    <2>2. position' \in position + 1 .. Len(content)
      BY <2>1, <1>1
    <2> QED BY <2>1, <2>2, <1>1 DEF ReadKinds
  <1>4. CASE marked # Size
    <2>1. Recover(MarkerAt + marked)
      BY <1>4 DEF Checked
    <2>2. MarkerAt + marked \in position + 1 .. Len(content)
      BY <1>1, <1>2
    <2> HIDE DEF marked
    <2> QED BY <2>1, <2>2, <1>1 DEF ReadKinds
  <1> QED BY <1>3, <1>4

LEMMA ReadingKinds == ASSUME ReaderInv, Reading PROVE ReadKinds \/ SearchStep
  <1> USE NeedleShape
  <1>1. /\ content \in Seq(Byte) /\ position \in Nat
        /\ pc \in InFile => position <= Len(content)
    BY DEF ReaderInv, PlaceInv
  <1>2. CASE ReadHeader
    <2> DEFINE modes == IF version = RecoveryVersion THEN 1 ELSE 0
               from  == position + modes
               named == from + 2
               start == named + U16(from)
    <2>1. pc = "opening" /\ search = "idle" /\ position <= Len(content)
      BY <1>1, <1>2 DEF ReadHeader, InFile
    <2>2. CASE Throw
      BY <2>1, <2>2 DEF ReadKinds
    <2>3. CASE ~Throw
      <3>1. /\ ~(Space(from) < 2 \/ Space(named) < U16(from) + Size)
            /\ position' = start + Size /\ pc' = "ready" /\ UNCHANGED <<searchVars, content, version>>
        BY <1>2, <2>3 DEF ReadHeader
      <3>2. from \in Nat /\ named \in Nat /\ from >= position /\ named = from + 2
        BY <1>1
      <3> HIDE DEF from, named
      <3>3. Space(from) \in Nat /\ Space(named) \in Nat
        BY <1>1, <3>2, SpaceIs
      <3>4. from + 2 <= Len(content)
        BY <1>1, <3>1, <3>2, <3>3, SpaceIs
      <3>5. U16(from) \in Nat
        BY <1>1, <3>2, <3>4, NumberAt
      <3>6. named + (U16(from) + Size) <= Len(content)
        <4>1. U16(from) + Size \in Nat /\ U16(from) + Size > 0 /\ Space(named) >= U16(from) + Size
          BY <3>1, <3>3, <3>5
        <4> QED BY <1>1, <3>2, <4>1, SpaceIs
      <3>7. position' \in position + 1 .. Len(content)
        BY <3>1, <3>2, <3>5, <3>6, <1>1
      <3> QED BY <1>2, <3>1, <3>7, <2>1 DEF ReadKinds
    <2> QED BY <2>2, <2>3
  <1>3. CASE Recovered
    BY <1>3 DEF ReadKinds
  <1>4. CASE EndOfFile
    BY <1>4 DEF EndOfFile, Give, ReadKinds
  <1>5. CASE IllegalModes
    <2>1. pc = "ready" /\ Space(position) >= Smallest /\ Recover(position + 1)
      BY <1>5 DEF IllegalModes
    <2>2. position + Smallest <= Len(content)
      BY <2>1, <1>1, SpaceIs DEF Smallest
    <2>3. position + 1 \in position + 1 .. Len(content)
      BY <2>2, <1>1 DEF Smallest
    <2> QED BY <2>1, <2>3 DEF ReadKinds
  <1>6. CASE ReadBeyond
    <2>1. pc = "ready" /\ Throw
      BY <1>6 DEF ReadBeyond, Reads
    <2>2. search = "idle"
      BY <2>1 DEF ReaderInv, PlaceInv
    <2> QED BY <2>1, <2>2 DEF ReadKinds
  <1>7. CASE ReadBadLength
    <2>1. /\ pc = "ready" /\ Space(position) >= Smallest /\ ~NoKey /\ Recover(DataAt)
          /\ version \in {RecoveryVersion, CipherVersion}
      BY <1>7 DEF ReadBadLength, Reads, ReaderInv, PlaceInv
    <2>2. position + Smallest <= Len(content)
      BY <2>1, <1>1, SpaceIs DEF Smallest
    <2>3. DataAt \in position + 1 .. Len(content)
      <3>1. CASE Encrypts
        <4>1. LengthAt = position + 1 + KeyBytes /\ KeyBytes \in Nat
          BY <3>1, <1>1, ReaderAssumption DEF LengthAt, Encrypts
        <4>2. Space(LengthAt) >= 2 /\ Space(LengthAt) \in Nat
          BY <3>1, <2>1, <1>1, <4>1, SpaceIs DEF NoKey
        <4> QED BY <4>1, <4>2, <1>1, SpaceIs DEF DataAt
      <3>2. CASE ~Encrypts
        BY <3>2, <1>1, <2>2 DEF DataAt, LengthAt, Smallest
      <3> QED BY <3>1, <3>2
    <2> QED BY <2>1, <2>3 DEF ReadKinds
  <1>8. CASE ReadStored
    BY <1>8, CheckedKinds DEF ReadStored
  <1>9. CASE ReadZipped
    <2>1. ReadsData /\ (Recover(MarkerAt) \/ Checked(Decompress(inflate, Data).data))
      BY <1>9 DEF ReadZipped
    <2>2. CASE Recover(MarkerAt)
      <3>1. MarkerAt \in position + 1 .. Len(content) /\ pc = "ready"
        BY <2>1, DataLies DEF ReadsData, Reads
      <3> QED BY <2>2, <3>1 DEF ReadKinds
    <2>3. CASE Checked(Decompress(inflate, Data).data)
      BY <2>1, <2>3, CheckedKinds
    <2> QED BY <2>1, <2>2, <2>3
  <1> QED BY <1>2, <1>3, <1>4, <1>5, <1>6, <1>7, <1>8, <1>9 DEF Reading

-----------------------------------------------------------------------------
\* The job does not change while a file is read.
LEMMA SameJob == JobInv /\ UNCHANGED appVars => JobInv'
  BY DEF JobInv, appVars

\* Opening a file begins the table anew.
LEMMA OpenKeeps == ASSUME ReaderInv, pc = "none", app = "file", NEW bytes \in Seq(Byte), Open(bytes), app' = app
                   PROVE  SearchInv' /\ PlaceInv'
  <1> USE NeedleShape
  <1>1. /\ content' = bytes /\ bytes \in Seq(Byte) /\ position \in Nat /\ SearchInv
        /\ search \in {"table", "idle"} /\ app' = "file"
    BY DEF Open, ReaderInv, PlaceInv
  <1>2. CASE pc' = "thrown" /\ UNCHANGED <<searchVars, position, version>>
    <2>1. SearchInv'
      BY <1>1, <1>2, OtherSearchSteps
    <2>2. search' = search
      BY <1>2 DEF searchVars
    <2> QED BY <1>1, <1>2, <2>1, <2>2 DEF PlaceInv, InFile
  <1>3. CASE ~(pc' = "thrown" /\ UNCHANGED <<searchVars, position, version>>)
    <2>1. /\ ~(Len(bytes) < Len(MAGIC) + 1 \/ SubSeq(bytes, 1, Len(MAGIC)) # MAGIC
                 \/ bytes[Len(MAGIC) + 1] \notin {RecoveryVersion, CipherVersion})
          /\ version' = bytes[Len(MAGIC) + 1] /\ position' = Len(MAGIC) + 1 /\ pc' = "opening"
          /\ search' = "table" /\ partialMatchTable' = [q \in {0} |-> -1] /\ i' = 0 /\ j' = -1
          /\ haystack' = haystack /\ found' = found
      BY <1>3 DEF Open
    <2>2. Len(MAGIC) + 1 = 5
      BY DEF MAGIC
    <2>3. SearchTypes'
      BY <1>1, <2>1 DEF SearchInv, SearchTypes
    <2>4. TableRight' /\ Growing' /\ Matching'
      BY <2>1 DEF TableRight, Growing, Matching, Failure
    <2>5. position' <= Len(content') /\ position' \in Nat /\ version' \in {RecoveryVersion, CipherVersion}
      BY <1>1, <2>1, <2>2
    <2> QED BY <1>1, <2>1, <2>3, <2>4, <2>5 DEF SearchInv, PlaceInv, InFile
  <1> QED BY <1>2, <1>3

\* A step of the search is the search's own.
LEMMA SearchKeeps == ASSUME ReaderInv, SearchStep, app' = app
                     PROVE  SearchInv' /\ PlaceInv'
  <1> USE NeedleShape
  <1>1. SearchInv /\ PlaceInv /\ (Computing \/ Searching)
        /\ pc' = pc /\ content' = content /\ position' = position /\ version' = version
    BY DEF ReaderInv, SearchStep
  <1>2. SearchInv'
    BY <1>1, ForwardInTable, BackInTable, ForwardInHaystack, BackInHaystack, OtherSearchSteps DEF Computing, Searching
  <1>3. CASE Computing
    <2>1. search = "table" /\ search' \in {"table", "idle"}
      BY <1>3 DEF Computing, TableForward, TableBack, TableDone
    <2>2. pc \in {"opening", "none", "thrown"}
      BY <1>1, <2>1 DEF PlaceInv, InFile
    <2> QED BY <1>1, <1>2, <2>1, <2>2 DEF PlaceInv, InFile
  <1>4. CASE Forward \/ Back
    <2>1. search = "run" /\ search' = "run" /\ haystack' = haystack
      BY <1>4 DEF Forward, Back, Looking
    <2> QED BY <1>1, <1>2, <2>1 DEF PlaceInv, InFile
  <1>5. CASE Return
    <2>1. search = "run" /\ search' = "idle" /\ haystack' = haystack
      BY <1>5 DEF Return
    <2>2. IsFirst(haystack, found')
      BY <1>1, <1>5, ReturnIsFirst
    <2> QED BY <1>1, <1>2, <2>1, <2>2 DEF PlaceInv, InFile
  <1> QED BY <1>1, <1>3, <1>4, <1>5 DEF Searching

\* Where the reader goes on after a search.
LEMMA RecoveredGoes ==
  ASSUME ReaderInv, Recovered
  PROVE  /\ pc = "recover" /\ pc' = "returned" /\ position' \in position .. Len(content)
         /\ \/ /\ pair'.n = -1 /\ position' = position
               /\ \A p \in position .. Len(content) : ~Occurs(content, p)
            \/ /\ pair'.n = 0
               /\ position' - Size \in position .. Len(content) - Size
               /\ Occurs(content, position' - Size)
               /\ \A p \in position .. position' - Size - 1 : ~Occurs(content, p)
  <1> USE NeedleShape
  <1>1. /\ pc = "recover" /\ search = "idle" /\ IsFirst(haystack, found)
        /\ haystack = SubSeq(content, position + 1, Len(content))
        /\ content \in Seq(Byte) /\ position \in Nat /\ position <= Len(content)
        /\ found \in Int
    BY DEF ReaderInv, PlaceInv, InFile, Recovered, SearchInv, SearchTypes
  <1> DEFINE n == Len(content) - position
  <1>2. n \in Nat /\ Len(haystack) = n /\ \A k \in 1 .. n : haystack[k] = content[position + k]
    BY <1>1
  <1>3. ASSUME NEW b \in 0 .. n PROVE Occurs(haystack, b) <=> Occurs(content, position + b)
    <2>1. b + Size <= Len(haystack) <=> (position + b) + Size <= Len(content)
      BY <1>1, <1>2
    <2>2. ASSUME b + Size <= Len(haystack), NEW k \in 1 .. Size PROVE haystack[b + k] = content[(position + b) + k]
      <3>1. b + k <= n
        BY <1>2, <2>2
      <3>2. b + k \in 1 .. n /\ position + (b + k) = (position + b) + k
        BY <1>1, <1>2, <3>1
      <3> QED BY <3>2, <1>2
    <2> QED BY <2>1, <2>2 DEF Occurs
  <1> HIDE DEF n
  <1>4. ASSUME NEW p \in position .. Len(content) PROVE p - position \in 0 .. n /\ position + (p - position) = p
    BY <1>1 DEF n
  <1>5. CASE found = -1
    <2>1. pc' = "returned" /\ pair'.n = -1 /\ position' = position
      BY <1>5 DEF Recovered, Give
    <2>2. \A b \in 0 .. n : ~Occurs(haystack, b)
      BY <1>1, <1>2, <1>5 DEF IsFirst
    <2>3. ASSUME NEW p \in position .. Len(content) PROVE ~Occurs(content, p)
      BY <1>3, <1>4, <2>2
    <2> QED BY <1>1, <2>1, <2>3
  <1>6. CASE found # -1
    <2>1. pc' = "returned" /\ pair'.n = 0 /\ position' = position + found + Size
      BY <1>6 DEF Recovered, Give, ResumeAt
    <2>2. found \in 0 .. n /\ Occurs(haystack, found) /\ \A b \in 0 .. found - 1 : ~Occurs(haystack, b)
      BY <1>1, <1>2, <1>6 DEF IsFirst
    <2>3. position' - Size = position + found
      BY <1>1, <2>1
    <2>4. Occurs(content, position + found)
      BY <1>3, <2>2
    <2>5. position + found + Size <= Len(content)
      BY <2>4 DEF Occurs
    <2>6. ASSUME NEW p \in position .. position + found - 1 PROVE ~Occurs(content, p)
      <3>1. p - position \in 0 .. found - 1 /\ p - position \in 0 .. n /\ position + (p - position) = p
        BY <1>1, <1>2, <2>2
      <3> QED BY <3>1, <1>3, <2>2
    <2>7. position + found \in position .. Len(content) - Size
      BY <1>1, <2>2, <2>5
    <2>8. position' \in position .. Len(content)
      BY <1>1, <2>1, <2>2, <2>5
    <2> QED BY <1>1, <2>1, <2>3, <2>4, <2>6, <2>7, <2>8
  <1> QED BY <1>5, <1>6

\* Reading keeps the invariant.
LEMMA ReadingKeeps == ASSUME ReaderInv, Reading, app = "file", app' = app
                      PROVE  SearchInv' /\ PlaceInv'
  <1> USE NeedleShape
  <1>1. /\ content \in Seq(Byte) /\ position \in Nat /\ SearchInv /\ PlaceInv
    BY DEF ReaderInv, PlaceInv
  <1>2. CASE SearchStep
    BY <1>2, SearchKeeps
  <1>3. CASE search = "idle" /\ Throw
    <2>1. UNCHANGED <<searchVars, content, position>> /\ pc' = "thrown" /\ search = "idle"
      BY <1>3 DEF Throw
    <2>2. SearchInv' /\ search' = search
      BY <1>1, <2>1, OtherSearchSteps DEF searchVars
    <2> QED BY <1>1, <2>1, <2>2 DEF PlaceInv, InFile
  <1>4. ASSUME pc = "ready", NEW p \in position + 1 .. Len(content), Recover(p) PROVE SearchInv' /\ PlaceInv'
    <2> DEFINE h == SubSeq(content, p + 1, Len(content))
    <2>1. /\ position' = p /\ pc' = "recover" /\ Begin(h) /\ content' = content /\ version' = version
      BY <1>4 DEF Recover
    <2>2. h \in Seq(Byte)
      BY <1>1
    <2>3. SearchInv'
      BY <1>1, <2>1, <2>2, OtherSearchSteps
    <2>4. search' = "run" /\ haystack' = h
      BY <2>1 DEF Begin
    <2> QED BY <1>1, <1>4, <2>1, <2>3, <2>4 DEF PlaceInv, InFile
  <1>5. CASE Recovered
    <2>1. UNCHANGED <<searchVars, content, version>> /\ search = "idle" /\ pc = "recover"
      BY <1>5 DEF Recovered
    <2>2. SearchInv' /\ search' = search
      BY <1>1, <2>1, OtherSearchSteps DEF searchVars
    <2>3. pc' = "returned" /\ position' \in Nat /\ position' <= Len(content)
      BY <1>1, <1>5, RecoveredGoes
    <2> QED BY <1>1, <2>1, <2>2, <2>3 DEF PlaceInv, InFile
  <1>6. ASSUME UNCHANGED <<searchVars, content, version>>,
               \/ pc = "opening" /\ search = "idle" /\ pc' = "ready" /\ position' \in position + 1 .. Len(content)
               \/ pc = "ready" /\ pc' = "returned" /\ position' \in position + 1 .. Len(content)
               \/ pc = "ready" /\ pc' = "returned" /\ position' = position
        PROVE  SearchInv' /\ PlaceInv'
    <2>1. SearchInv' /\ search' = search
      BY <1>1, <1>6, OtherSearchSteps DEF searchVars
    <2>2. search = "idle" /\ version \in {RecoveryVersion, CipherVersion} /\ pc \in {"opening", "ready"} /\ pc' \in {"ready", "returned"}
      BY <1>1, <1>6 DEF PlaceInv
    <2>3. position <= Len(content)
      BY <1>1, <2>2 DEF PlaceInv, InFile
    <2>4. position' \in Nat /\ position' <= Len(content)
      BY <1>1, <1>6, <2>3
    <2> QED BY <1>1, <1>6, <2>1, <2>2, <2>4 DEF PlaceInv, InFile
  <1> QED BY <1>2, <1>3, <1>4, <1>5, <1>6, ReadingKinds DEF ReadKinds

-----------------------------------------------------------------------------
\* Where the reader's state does not change but for pc, the search and the place stay.
LEMMA StayingKeeps ==
  ASSUME ReaderInv, UNCHANGED <<searchVars, content, position, version>>,
         \/ pc' = pc /\ (pc # "none" => app' = "file")
         \/ pc \in {"returned", "thrown"} /\ pc' = "none"
         \/ pc = "returned" /\ pc' = "ready" /\ app' = "file"
  PROVE  SearchInv' /\ PlaceInv'
  <1>1. SearchInv /\ PlaceInv
    BY DEF ReaderInv
  <1>2. SearchInv' /\ search' = search /\ haystack' = haystack /\ found' = found
    BY <1>1, OtherSearchSteps DEF searchVars
  <1>3. CASE pc' = pc /\ (pc # "none" => app' = "file")
    <2>1. IsFirst(haystack, found)' <=> IsFirst(haystack, found)
      BY <1>2 DEF IsFirst, Occurs, Size
    <2> QED BY <1>1, <1>2, <1>3, <2>1 DEF PlaceInv, InFile
  <1>4. CASE pc \in {"returned", "thrown"} /\ pc' = "none"
    BY <1>1, <1>2, <1>4 DEF PlaceInv, InFile
  <1>5. CASE pc = "returned" /\ pc' = "ready" /\ app' = "file"
    BY <1>1, <1>2, <1>5 DEF PlaceInv, InFile
  <1> QED BY <1>3, <1>4, <1>5

LEMMA ReaderStarts == Init => ReaderInv
  <1> SUFFICES ASSUME Init PROVE ReaderInv
    OBVIOUS
  <1>1. SearchInv
    BY Initially DEF Init, ReaderInit
  <1>2. JobInv
    BY DEF Init, JobInv
  <1>3. PlaceInv
    BY DEF Init, ReaderInit, SearchInit, PlaceInv, InFile
  <1> QED BY <1>1, <1>2, <1>3 DEF ReaderInv

\* A file that is opened is one of the scenario's.
LEMMA FileIs == ASSUME JobInv, Between
                PROVE  /\ Files \in Seq(DOMAIN Disk) /\ index \in 1 .. Len(Files)
                       /\ File.bytes = Absent \/ File.bytes \in Seq(Byte)
  <1>1. /\ scenario \in Scenarios /\ job.drop \in scenario.drops /\ index \in Nat /\ index >= 1 /\ index <= Len(Files)
    BY DEF JobInv, Between
  <1>2. Files \in Seq(DOMAIN Disk)
    BY <1>1, ScenarioAssumption DEF Files, Disk
  <1>3. Files[index] \in DOMAIN Disk
    BY <1>1, <1>2
  <1> QED BY <1>1, <1>2, <1>3, ScenarioAssumption DEF File, Disk

LEMMA JobKeeps == ASSUME ReaderInv, [Next]_vars PROVE JobInv'
  <1>1. JobInv
    BY DEF ReaderInv
  <1>2. ASSUME NEW d \in coming, Drop(d) PROVE JobInv'
    BY <1>1, <1>2 DEF Drop, JobInv
  <1>3. ASSUME NEW d \in asking, NEW dir \in scenario.dirs, Choose(d, dir) PROVE JobInv'
    <2>1. [drop |-> d, dir |-> dir] \in [drop : scenario.drops, dir : scenario.dirs]
      BY <1>1 DEF JobInv
    <2> QED BY <1>1, <1>3, <2>1 DEF Choose, JobInv
  <1>4. ASSUME NEW d \in asking, Cancel(d) PROVE JobInv'
    BY <1>1, <1>4 DEF Cancel, JobInv
  <1>5. CASE Quit
    BY <1>1, <1>5 DEF Quit, JobInv
  <1>6. CASE Fire
    <2> DEFINE T == [drop : scenario.drops, dir : scenario.dirs]
    <2>1. timers \in Seq(T) /\ timers # <<>>
      BY <1>1, <1>6 DEF Fire, JobInv
    <2> HIDE DEF T
    <2>2. Head(timers) \in T /\ Tail(timers) \in Seq(T)
      BY <2>1
    <2> USE DEF T
    <2> QED BY <1>1, <1>6, <2>2 DEF Fire, JobInv
  <1>7. CASE FileGone
    BY <1>1, <1>7 DEF FileGone, JobInv
  <1>8. CASE OpenFile
    BY <1>1, <1>8 DEF OpenFile, JobInv
  <1>9. CASE HandleBroken \/ HandleLog
    BY <1>1, <1>9 DEF HandleBroken, HandleLog, JobInv
  <1>10. CASE HandleEnd \/ HandleError
    <2>1. /\ app = "file" /\ index' = index + 1
          /\ UNCHANGED <<scenario, app, coming, asking, timers, job>>
      BY <1>10 DEF HandleEnd, HandleError, NextFile
    <2>2. index' \in Nat /\ index' >= 1
      BY <1>1, <2>1 DEF JobInv
    <2> QED BY <1>1, <2>1, <2>2 DEF JobInv
  <1>11. CASE Complete
    BY <1>1, <1>11 DEF Complete, JobInv
  <1>12. CASE UNCHANGED appVars
    BY <1>1, <1>12, SameJob
  <1>13. CASE UNCHANGED vars
    BY <1>12, <1>13 DEF vars
  <1> QED BY <1>2, <1>3, <1>4, <1>5, <1>6, <1>7, <1>8, <1>9, <1>10, <1>11, <1>12, <1>13 DEF Next, User, Callback

\* The steps of the application, in kinds: to the reader most of them are pauses.
LEMMA AppKinds ==
  ASSUME ReaderInv, [Next]_vars
  PROVE  \/ /\ UNCHANGED <<searchVars, content, position, version, pair, inflate, zipped>>
            /\ \/ pc' = pc /\ (pc # "none" => app' = "file")
               \/ pc \in {"returned", "thrown"} /\ pc' = "none"
               \/ pc = "returned" /\ pc' = "ready" /\ app' = "file"
         \/ HasLog /\ Throw /\ app' = app
         \/ OpenFile
         \/ app = "file" /\ Reading /\ UNCHANGED appVars
  <1>1. PlaceInv
    BY DEF ReaderInv
  <1>2. ASSUME NEW d, Drop(d) \/ Cancel(d) \/ (\E dir \in scenario.dirs : Choose(d, dir))
        PROVE  UNCHANGED readerVars /\ app' = app
    BY <1>2 DEF Drop, Cancel, Choose
  <1>3. CASE Quit \/ Fire \/ FileGone \/ Complete
    <2>1. UNCHANGED readerVars /\ pc = "none"
      BY <1>1, <1>3 DEF Quit, Fire, FileGone, Complete, Between, PlaceInv
    <2> QED BY <2>1 DEF readerVars
  <1>4. CASE HandleBroken
    BY <1>4 DEF HandleBroken, ReadOn
  <1>5. CASE HandleLog
    BY <1>5 DEF HandleLog, HasLog, ReadOn
  <1>6. CASE HandleEnd \/ HandleError
    BY <1>6 DEF HandleEnd, HandleError, NextFile
  <1>7. ASSUME UNCHANGED readerVars, app' = app
        PROVE  UNCHANGED <<searchVars, content, position, version, pair, inflate, zipped>> /\ pc' = pc /\ (pc # "none" => app' = "file")
    BY <1>1, <1>7 DEF readerVars, PlaceInv
  <1>8. CASE UNCHANGED vars
    BY <1>7, <1>8 DEF vars, appVars
  <1> QED BY <1>2, <1>3, <1>4, <1>5, <1>6, <1>7, <1>8 DEF Next, User, Callback

LEMMA ReaderKeeps == ReaderInv /\ [Next]_vars => ReaderInv'
  <1> SUFFICES ASSUME ReaderInv, [Next]_vars PROVE SearchInv' /\ PlaceInv'
    BY JobKeeps DEF ReaderInv
  <1>1. CASE HasLog /\ Throw /\ app' = app
    <2>1. /\ SearchInv /\ PlaceInv /\ app' = "file" /\ search = "idle" /\ pc' = "thrown"
          /\ UNCHANGED <<searchVars, content, position, version>>
      BY <1>1 DEF ReaderInv, PlaceInv, HasLog, Throw
    <2>2. SearchInv' /\ search' = search
      BY <2>1, OtherSearchSteps DEF searchVars
    <2> QED BY <2>1, <2>2 DEF PlaceInv, InFile
  <1>2. CASE OpenFile
    <2>1. JobInv /\ Between /\ File.bytes # Absent /\ Open(File.bytes) /\ app' = app
      BY <1>2 DEF ReaderInv, OpenFile
    <2>2. File.bytes \in Seq(Byte)
      BY <2>1, FileIs
    <2>3. pc = "none" /\ app = "file"
      BY <2>1 DEF Between
    <2> QED BY <2>1, <2>2, <2>3, OpenKeeps
  <1>3. CASE app = "file" /\ Reading /\ UNCHANGED appVars
    <2>1. app' = app
      BY <1>3 DEF appVars
    <2> QED BY <1>3, <2>1, ReadingKeeps
  <1> QED BY <1>1, <1>2, <1>3, AppKinds, StayingKeeps

\* The invariant of the reader application: the search's, whose job is being done, and where
\* the reader is in its file (FileReaderV3, FileReaderV4, tryRecover, parseLogFiles).
THEOREM ReaderInvariant == Spec => []ReaderInv
  BY ReaderStarts, ReaderKeeps, PTL DEF Spec

\* The search in the reader is the search: whatever file it is in and wherever it begins, it
\* returns the first marker in the rest of the file, and -1 only if there is none (tryRecover,
\* searchNeedle, computePartialMatchTable).
THEOREM ReaderFindsFirst == Spec => FindsFirst
  <1>1. ReaderInv /\ [Next]_vars => [search = "run" /\ search' = "idle" => IsFirst(haystack, found')]_searchVars
    <2> SUFFICES ASSUME ReaderInv, [Next]_vars, search = "run", search' = "idle"
                 PROVE  IsFirst(haystack, found')
      OBVIOUS
    <2>1. SearchInv /\ pc = "recover"
      BY DEF ReaderInv, PlaceInv, InFile
    <2>2. Reading
      <3>1. ~UNCHANGED searchVars
        BY DEF searchVars
      <3>2. ~Throw
        BY <3>1 DEF Throw
      <3>3. ~OpenFile
        BY <2>1 DEF OpenFile, Between
      <3> QED BY <3>1, <3>2, <3>3, AppKinds
    <2>3. SearchStep
      <3>1. ~ReadKinds
        BY <2>1 DEF ReadKinds, Throw, Recovered, searchVars
      <3> QED BY <2>2, <3>1, ReadingKinds
    <2>4. Return
      BY <2>3 DEF SearchStep, Computing, Searching, TableForward, TableBack, TableDone, Forward, Back, Looking
    <2> QED BY <2>1, <2>4, ReturnIsFirst
  <1> QED BY <1>1, ReaderInvariant, PTL DEF Spec, FindsFirst

\* A reader that has lost its way goes on right behind the first marker that lies in the file at
\* or behind the place from which it was looked for, and gives the file up only where none does.
GoesOnBehindMarker ==
  pc = "recover" /\ pc' = "returned" =>
    \/ /\ pair'.n = -1 /\ position' = position
       /\ \A p \in position .. Len(content) : ~Occurs(content, p)
    \/ /\ pair'.n = 0
       /\ position' - Size \in position .. Len(content) - Size
       /\ Occurs(content, position' - Size)
       /\ \A p \in position .. position' - Size - 1 : ~Occurs(content, p)

ResumesBehindMarker == [][GoesOnBehindMarker]_vars

\* The reader goes on behind the first marker, from every state it can be in (tryRecover, read).
THEOREM ReaderResumes == Spec => ResumesBehindMarker
  <1>1. ASSUME ReaderInv, [Next]_vars, pc = "recover", pc' = "returned" PROVE Recovered
    <2>1. app = "file" /\ Reading
      BY <1>1, AppKinds DEF Throw, OpenFile, Between
    <2>2. ReadKinds
      BY <1>1, <2>1, ReadingKinds DEF SearchStep
    <2> QED BY <1>1, <2>2 DEF ReadKinds, Throw
  <1>2. ReaderInv /\ [Next]_vars => [GoesOnBehindMarker]_vars
    BY <1>1, RecoveredGoes DEF GoesOnBehindMarker
  <1> QED BY <1>2, ReaderInvariant, PTL DEF Spec, ResumesBehindMarker

\* Within a file the reader never goes back and never beyond the end, and a call of read moves it
\* forward unless it reports the end of the file: however a file is damaged, no call
\* repeats an earlier one.
GoesForward ==
  pc \in InFile /\ pc' \in InFile =>
    /\ content' = content /\ position' \in position .. Len(content)
    /\ pc = "ready" /\ pc' # "ready" => pair'.n = -1 \/ position' > position

Advances == [][GoesForward]_vars

\* No call of read goes back, and none but the last stays where it is (read).
THEOREM ReaderAdvances == Spec => Advances
  <1>1. ASSUME ReaderInv, [Next]_vars, pc \in InFile, pc' \in InFile
        PROVE  /\ content' = content /\ position' \in position .. Len(content)
               /\ pc = "ready" /\ pc' # "ready" => pair'.n = -1 \/ position' > position
    <2> USE NeedleShape
    <2>1. content \in Seq(Byte) /\ position \in Nat /\ position <= Len(content)
      BY <1>1 DEF ReaderInv, PlaceInv
    <2>2. CASE UNCHANGED <<content, position>> /\ ~(pc = "ready" /\ pc' # "ready")
      BY <2>1, <2>2
    <2>3. CASE app = "file" /\ Reading
      <3>1. CASE SearchStep
        BY <2>2, <3>1 DEF SearchStep
      <3>2. CASE pc = "ready" /\ \E p \in position + 1 .. Len(content) : Recover(p)
        BY <2>1, <3>2 DEF Recover
      <3>3. CASE Recovered
        BY <1>1, <3>3, RecoveredGoes DEF Recovered
      <3> QED BY <1>1, <2>1, <2>3, <3>1, <3>2, <3>3, ReadingKinds DEF ReadKinds, Throw, InFile
    <2> QED BY <1>1, <2>2, <2>3, AppKinds DEF Throw, OpenFile, Between, InFile
  <1>2. ReaderInv /\ [Next]_vars => [GoesForward]_vars
    BY <1>1 DEF GoesForward
  <1> QED BY <1>2, ReaderInvariant, PTL DEF Spec, Advances

-----------------------------------------------------------------------------
(* What is read where a file is not damaged.                               *)

\* The reader goes by the file's header.
Compressed(b) == FormatOf(b) = RecoveryVersion /\ b[NameAt(b)] \div 16 = 1

HeaderInv == /\ pc \in InFile => version = FormatOf(content)
             /\ pc = "opening" => position = Len(MAGIC) + 1 /\ inflate = NewInflate
             /\ pc \in InFile \ {"opening"} => zipped = Compressed(content)

LEMMA HeaderKeeps == ASSUME ReaderInv, HeaderInv, [Next]_vars PROVE HeaderInv'
  <1>1. CASE UNCHANGED <<content, position, version, inflate, zipped>> /\ pc' = pc
    BY <1>1 DEF HeaderInv, InFile
  <1>2. CASE pc' \in {"none", "thrown"}
    BY <1>2 DEF HeaderInv, InFile
  <1>3. CASE pc = "returned" /\ pc' = "ready" /\ UNCHANGED <<content, version, zipped>>
    BY <1>3 DEF HeaderInv, InFile
  <1>4. CASE OpenFile
    <2>1. Open(File.bytes)
      BY <1>4 DEF OpenFile
    <2>2. pc' = "thrown" \/ (pc' = "opening" /\ version' = FormatOf(content') /\ position' = Len(MAGIC) + 1 /\ inflate' = NewInflate)
      BY <2>1 DEF Open, FormatOf
    <2> QED BY <2>2 DEF HeaderInv, InFile
  <1>5. ASSUME Reading PROVE HeaderInv'
    <2>1. CASE SearchStep
      BY <1>1, <2>1 DEF SearchStep
    <2>2. CASE Throw
      BY <1>2, <2>2 DEF Throw
    <2>3. ASSUME pc \in {"ready", "recover"}, pc' \in {"recover", "returned"}, UNCHANGED <<content, version, zipped>>
          PROVE  HeaderInv'
      BY <2>3 DEF HeaderInv, InFile
    <2>4. CASE ReadHeader /\ pc' = "ready" /\ UNCHANGED <<content, version>>
      <3> DEFINE modes == IF version = RecoveryVersion THEN 1 ELSE 0
      <3>1. pc = "opening" /\ version = FormatOf(content) /\ position = Len(MAGIC) + 1
        BY <2>4 DEF ReadHeader, HeaderInv, InFile
      <3>2. zipped' = (modes = 1 /\ At(position) \div 16 = 1)
        BY <2>4 DEF ReadHeader, Throw
      <3>3. modes = 1 => NameAt(content) = position + 1
        BY <3>1 DEF NameAt, MAGIC
      <3>4. modes = 1 <=> FormatOf(content) = RecoveryVersion
        BY <3>1
      <3>5. zipped' = Compressed(content)
        BY <3>2, <3>3, <3>4 DEF Compressed, At
      <3> QED BY <2>4, <3>1, <3>5 DEF HeaderInv, InFile
    <2>5. CASE ReadKinds /\ ~Throw
      BY <2>3, <2>4, <2>5 DEF ReadKinds, Recover, Recovered, Give
    <2> QED BY <1>5, <2>1, <2>2, <2>5, ReadingKinds
  <1> QED BY <1>1, <1>2, <1>3, <1>4, <1>5, AppKinds DEF Throw

LEMMA HeaderHolds == Spec => []HeaderInv
  <1>1. Init => HeaderInv
    BY DEF Init, ReaderInit, HeaderInv, InFile
  <1> QED BY <1>1, HeaderKeeps, ReaderInvariant, PTL DEF Spec

\* Where a marker lies it is found.
LEMMA MarkerFound == ASSUME content \in Seq(Byte), NEW p \in Nat, p + Size <= Len(content), Part(content, p, Size) = Needle
                     PROVE  MarkedAt(p) = Size
  <1> USE NeedleShape
  <1> DEFINE m == MarkedAt(p)
  <1>1. /\ m \in 0 .. Size /\ m <= Space(p)
        /\ m = Size \/ m = Space(p) \/ At(p + m) # Needle[m + 1]
    BY MarkedAtIs
  <1>2. Space(p) >= Size
    BY DEF Space
  <1> HIDE DEF m
  <1>3. ASSUME m < Size PROVE FALSE
    <2>1. m + 1 \in 1 .. Size /\ m # Space(p) /\ m # Size
      BY <1>1, <1>2, <1>3
    <2>2. Needle[m + 1] = content[p + (m + 1)]
      <3>1. Part(content, p, Size) = [x \in 1 .. Size |-> content[p + x]]
        BY DEF Part
      <3> QED BY <3>1, <2>1
    <2>3. p + (m + 1) = (p + m) + 1
      BY <1>1
    <2> QED BY <1>1, <2>1, <2>2, <2>3 DEF At
  <1> QED BY <1>1, <1>3 DEF m

\* Bytes and numbers of the content.
LEMMA ContentIs == ASSUME NEW p \in Int, NEW n PROVE U16(p) = Number(content, p) /\ Slice(p, n) = Part(content, p, n)
  <1>1. (p + 1) + 1 = p + 2
    OBVIOUS
  <1> QED BY <1>1 DEF U16, At, Number, Slice, Part

\* What the reader takes for the record is the record.
LEMMA RecordSeen ==
  ASSUME ReaderInv, HeaderInv, pc = "ready", NEW r, NEW history, RecordLies(content, r, history), position = r.at
  PROVE  /\ ReadsData /\ ~NoKey /\ ~NoSpace /\ ~BadLength /\ ModesLegal
         /\ Space(position) >= Smallest
         /\ Data = BodyIn(content, position)
         /\ Zips <=> ZippedAt(content, position)
         /\ MarkerAt + Size = r.to
         /\ MarkedAt(MarkerAt) = Size
         /\ Len(Data) = LogLength /\ LogLength \in Nat /\ LogLength > 0
  <1> USE NeedleShape
  <1> DEFINE n == Number(content, LengthIn(content, position))
  <1>1. /\ content \in Seq(Byte) /\ version = FormatOf(content) /\ position \in Nat
        /\ version \in {RecoveryVersion, CipherVersion}
        /\ zipped = (FormatOf(content) = RecoveryVersion /\ content[NameAt(content)] \div 16 = 1)
        /\ RecordLies(content, r, history) /\ r.at = position
        /\ KeyBytes \in Nat /\ MaxLength \in Nat
    BY ReaderAssumption DEF HeaderInv, Compressed, InFile, ReaderInv, PlaceInv
  <1>2. /\ position + Smallest <= Len(content)
        /\ version = CipherVersion => content[position + 1] \div 16 \in 1 .. 2 /\ content[position + 1] % 16 \in 1 .. 2
        /\ LengthIn(content, position) + 2 <= Len(content)
        /\ n \in 1 .. MaxLength
        /\ r.to = LengthIn(content, position) + 2 + n + Size
        /\ r.to <= Len(content) /\ Part(content, r.to - Size, Size) = Needle
    BY <1>1 DEF RecordLies
  <1>3. Space(position) >= Smallest
    BY <1>1, <1>2 DEF Space, Smallest
  <1>4. ModesLegal
    BY <1>2 DEF ModesLegal, At
  <1>5. Reads
    BY <1>3, <1>4 DEF Reads
  <1>6. Encrypts <=> CipheredAt(content, position)
    BY <1>1 DEF Encrypts, CipheredAt, At
  <1>7. Zips <=> ZippedAt(content, position)
    BY <1>1 DEF Zips, ZippedAt, At, RecoveryVersion, CipherVersion
  <1>8. LengthAt = LengthIn(content, position) /\ LengthAt \in Nat
    BY <1>1, <1>6 DEF LengthAt, LengthIn
  <1>9. LogLength = n /\ n \in Nat /\ n > 0 /\ n <= MaxLength
    <2>1. LengthIn(content, position) + 1 + 1 = LengthIn(content, position) + 2
      BY <1>8
    <2>2. LogLength = n
      BY <1>8, <2>1 DEF LogLength, U16, At, Number
    <2>3. n \in Nat /\ n > 0 /\ n <= MaxLength
      <3> HIDE DEF n
      <3> QED BY <1>1, <1>2
    <2> QED BY <2>2, <2>3
  <1>10. DataAt = LengthIn(content, position) + 2 /\ DataAt \in Nat
    BY <1>8 DEF DataAt
  <1>11. MarkerAt = r.to - Size /\ MarkerAt \in Nat /\ MarkerAt + Size = r.to
    BY <1>2, <1>8, <1>9, <1>10 DEF MarkerAt
  <1>12. ~NoKey
    <2> SUFFICES ASSUME Encrypts PROVE ~(Space(position + 1) < KeyBytes) /\ ~(Space(LengthAt) < 2)
      BY DEF NoKey
    <2>1. LengthAt = position + 1 + KeyBytes
      <3>1. version = CipherVersion
        BY DEF Encrypts
      <3>2. LengthAt = position + (1 + KeyBytes)
        BY <3>1 DEF LengthAt
      <3>3. position \in Nat /\ KeyBytes \in Nat
        BY <1>1
      <3> QED BY <3>2, <3>3
    <2>2. position + 1 + KeyBytes + 2 <= Len(content)
      BY <1>2, <1>8, <2>1
    <2>3. ~(Space(position + 1) < KeyBytes)
      <3>1. position \in Nat /\ KeyBytes \in Nat /\ Len(content) \in Nat
        BY <1>1
      <3> QED BY <2>2, <3>1 DEF Space
    <2>4. ~(Space(LengthAt) < 2)
      BY <1>1, <2>1, <2>2 DEF Space
    <2> QED BY <2>3, <2>4
  <1>13. ~BadLength
    BY <1>1, <1>9 DEF BadLength
  <1>14. ~NoSpace
    <2>1. DataAt + (LogLength + Size) <= Len(content)
      BY <1>2, <1>8, <1>9, <1>10
    <2>2. ~TooLong
      BY <1>1, <1>9, <1>10, <2>1 DEF TooLong, Space
    <2> QED BY <2>2 DEF NoSpace
  <1>15. Data = BodyIn(content, position)
    <2>1. Slice(DataAt, LogLength) = Part(content, LengthIn(content, position) + 2, n)
      BY <1>9, <1>10, ContentIs
    <2>2. Slice(position + 1, KeyBytes) = Part(content, position + 1, KeyBytes)
      BY <1>1, ContentIs
    <2> QED BY <1>6, <2>1, <2>2 DEF Data, BodyIn
  <1>16. MarkedAt(MarkerAt) = Size
    <2>1. MarkerAt + Size <= Len(content) /\ Part(content, MarkerAt, Size) = Needle
      BY <1>2, <1>11
    <2> QED BY <1>1, <1>11, <2>1, MarkerFound
  <1>17. Len(Data) = LogLength
    <2>1. DataAt + LogLength <= Len(content)
      <3>1. Len(content) \in Nat /\ Size \in Nat /\ DataAt + LogLength + Size <= Len(content)
        BY <1>1, <1>2, <1>8, <1>9, <1>10
      <3> HIDE DEF n
      <3> QED BY <1>9, <1>10, <3>1
    <2>2. Len(Slice(DataAt, LogLength)) = LogLength
      <3> DEFINE d == DataAt
                 m == LogLength
      <3>1. d \in Nat /\ m \in Nat /\ m > 0 /\ d + m <= Len(content)
        BY <1>9, <1>10, <2>1
      <3>2. Slice(DataAt, LogLength) = SubSeq(content, d + 1, d + m)
        BY DEF Slice
      <3> HIDE DEF d, m, n
      <3>3. Len(SubSeq(content, d + 1, d + m)) = m
        BY <1>1, <3>1
      <3> QED BY <3>2, <3>3 DEF m
    <2>3. CASE Encrypts
      BY <2>2, <2>3, <1>9 DEF Data, Decrypt
    <2>4. CASE ~Encrypts
      BY <2>2, <2>4 DEF Data
    <2> QED BY <2>3, <2>4
  <1>18. ReadsData
    BY <1>5, <1>12, <1>13, <1>14 DEF ReadsData
  <1> QED BY <1>3, <1>4, <1>7, <1>9, <1>11, <1>12, <1>13, <1>14, <1>15, <1>16, <1>17, <1>18

\* What fits into a chunk of the inflate's output is given whole.
LEMMA WholeChunk == ASSUME NEW d \in Seq(Byte), Len(d) \in 1 .. ChunkSize PROVE LastChunk(d) = d
  <1> DEFINE n    == Len(d)
             full == n \div ChunkSize
             from == IF n % ChunkSize = 0 /\ full > 0 THEN full - 1 ELSE full
  <1>1. ChunkSize \in Nat \ {0} /\ n \in 1 .. ChunkSize
    BY ReaderAssumption
  <1>2. LastChunk(d) = SubSeq(d, from * ChunkSize + 1, n)
    BY DEF LastChunk
  <1> HIDE DEF n
  <1>3. from = 0
    <2>1. CASE n < ChunkSize
      <3>1. full = 0
        BY <1>1, <2>1
      <3> QED BY <3>1
    <2>2. CASE n = ChunkSize
      <3>1. full = 1 /\ n % ChunkSize = 0
        BY <1>1, <2>2
      <3> QED BY <3>1
    <2> QED BY <1>1, <2>1, <2>2
  <1>4. from * ChunkSize + 1 = 1
    BY <1>1, <1>3
  <1>5. SubSeq(d, 1, n) = d
    BY DEF n
  <1> QED BY <1>2, <1>4, <1>5

\* There the reader reads a record, whichever of its steps that takes.
LEMMA RecordReached ==
  ASSUME ReaderInv, HeaderInv, pc = "ready", Reading, NEW r, NEW history, RecordLies(content, r, history), position = r.at
  PROVE  ReadStored \/ ReadZipped
  <1>1. search = "idle" /\ content \in Seq(Byte) /\ position \in Nat
    BY DEF ReaderInv, PlaceInv
  <1>2. EndOfFile \/ IllegalModes \/ ReadBeyond \/ ReadBadLength \/ ReadStored \/ ReadZipped
    BY <1>1 DEF Reading, ReadHeader, Recovered, SearchStep, Computing, Searching, TableForward, TableBack, TableDone,
                Forward, Back, Looking, Return
  <1>3. ~NoKey /\ ~NoSpace /\ ~BadLength /\ ModesLegal /\ Space(position) >= Smallest
    BY RecordSeen
  <1>4. ~EndOfFile
    <2>1. Space(position) \in Nat
      BY <1>1, SpaceIs
    <2>2. Smallest \in Nat
      BY NeedleShape DEF Smallest
    <2> QED BY <1>3, <2>1, <2>2 DEF EndOfFile
  <1> QED BY <1>2, <1>3, <1>4 DEF IllegalModes, ReadBeyond, ReadBadLength

\* Behind a record the reader has its data, and its object has inflated it.
LEMMA RecordRead ==
  ASSUME ReaderInv, HeaderInv, pc = "ready", ReadStored \/ ReadZipped,
         NEW r, NEW history, RecordLies(content, r, history), position = r.at,
         ZippedAt(content, position) => history \in Seq(Byte) /\ inflate = [history |-> history, ended |-> FALSE]
  PROVE  /\ pc' = "returned" /\ pair' = [n |-> Len(r.data), data |-> r.data]
         /\ position' = r.to
         /\ IF ZippedAt(content, position) THEN inflate' = [history |-> r.inflated, ended |-> FALSE] /\ r.inflated \in Seq(Byte)
                                           ELSE inflate' = inflate /\ r.inflated = history
         /\ Len(r.data) \in Nat \ {0}
         /\ UNCHANGED <<content, version, zipped>>
  <1> DEFINE h == history
  <1>1. RecordLies(content, r, h) /\ r.at = position
    OBVIOUS
  <1>2. /\ Data = BodyIn(content, position)
        /\ Zips <=> ZippedAt(content, position)
        /\ MarkerAt + Size = r.to
        /\ MarkedAt(MarkerAt) = Size
        /\ Len(Data) \in Nat \ {0}
    BY <1>1, RecordSeen
  <1>3. ASSUME NEW data, Checked(data)
        PROVE  /\ pc' = "returned" /\ pair' = [n |-> Len(data), data |-> data]
               /\ position' = r.to /\ UNCHANGED <<content, version, zipped>>
    BY <1>2, <1>3 DEF Checked, Give
  <1>4. CASE ReadStored
    <2>1. ~Zips /\ Checked(Data) /\ inflate' = inflate
      BY <1>4 DEF ReadStored
    <2>2. r.data = Data /\ r.inflated = h
      BY <1>1, <1>2, <2>1 DEF RecordLies
    <2>3. Len(r.data) \in Nat \ {0}
      BY <1>2, <2>2
    <2> QED BY <1>2, <1>3, <2>1, <2>2, <2>3
  <1>5. CASE ReadZipped
    <2> DEFINE did == Inflated(h, Data)
    <2>1. Zips
      BY <1>5 DEF ReadZipped
    <2>2. /\ r.data \in Seq(Byte) /\ Len(r.data) \in 1 .. ChunkSize /\ r.inflated = h \o r.data
          /\ did = [out |-> r.inflated, is |-> "open"]
      BY <1>1, <1>2, <2>1 DEF RecordLies
    <2>3. h \in Seq(Byte) /\ inflate = [history |-> h, ended |-> FALSE] /\ ChunkSize \in Nat \ {0}
      BY <1>2, <2>1, ReaderAssumption
    <2>4. SubSeq(r.inflated, Len(h) + 1, Len(r.inflated)) = r.data
      <3> DEFINE d == r.data
      <3>1. d \in Seq(Byte)
        BY <2>2
      <3> HIDE DEF d
      <3>2. SubSeq(h \o d, Len(h) + 1, Len(h \o d)) = d
        <4>1. h \o d \in Seq(Byte) /\ Len(h \o d) = Len(h) + Len(d)
          BY <2>3, <3>1
        <4>2. \A q \in 1 .. Len(d) : (h \o d)[Len(h) + q] = d[q]
          BY <2>3, <3>1
        <4>3. SubSeq(h \o d, Len(h) + 1, Len(h) + Len(d)) = [q \in 1 .. Len(d) |-> (h \o d)[Len(h) + q]]
          BY <2>3, <3>1, <4>1
        <4>4. d = [q \in 1 .. Len(d) |-> d[q]]
          BY <3>1
        <4> QED BY <4>1, <4>2, <4>3, <4>4
      <3> QED BY <2>2, <3>2 DEF d
    <2>5. LastChunk(r.data) = r.data
      BY <2>2, WholeChunk
    <2>6. Decompress(inflate, Data) = [inflate |-> [history |-> r.inflated, ended |-> FALSE], data |-> r.data]
      <3>1. Decompress(inflate, Data) = After(h, did)
        BY <2>3 DEF Decompress
      <3>2. did.out = r.inflated /\ did.is = "open"
        BY <2>2
      <3> HIDE DEF did
      <3> QED BY <2>4, <2>5, <3>1, <3>2 DEF After
    <2>7. r.data # <<>>
      BY <2>2
    <2>8. inflate' = [history |-> r.inflated, ended |-> FALSE] /\ Checked(r.data)
      BY <1>5, <2>6, <2>7 DEF ReadZipped
    <2>9. r.inflated \in Seq(Byte) /\ Len(r.data) \in Nat \ {0}
      BY <2>2, <2>3
    <2> QED BY <1>2, <1>3, <2>1, <2>8, <2>9
  <1> QED BY <1>4, <1>5

\* The reader stands before the record k, which lies in the file undamaged, and the object that
\* inflates it, if it is compressed, has inflated the ones before it.
InStep(k) == /\ position = Records[k].at
             /\ RecordLies(content, Records[k], HistoryOf(File, k - 1))
             /\ ZippedAt(content, position) => /\ HistoryOf(File, k - 1) \in Seq(Byte)
                                               /\ inflate = [history |-> HistoryOf(File, k - 1), ended |-> FALSE]

\* However a file is damaged elsewhere: a reader that stands before a record that is not, reads
\* it and goes on right behind it, where the next one begins (read of FileReaderV3, FileReaderV4).
ReadsRecord ==
  pc = "ready" /\ pc' # pc =>
    \A k \in DOMAIN Records :
      InStep(k) => /\ pc' = "returned" /\ pair' = [n |-> Len(Records[k].data), data |-> Records[k].data]
                   /\ position' = Records[k].to
                   /\ ZippedAt(content, position) => inflate' = [history |-> Records[k].inflated, ended |-> FALSE]

StaysInStep == [][ReadsRecord]_vars

\* A reader in step with the records stays in step up to the next damage.
THEOREM ReaderStaysInStep == Spec => StaysInStep
  <1>1. ReaderInv /\ HeaderInv /\ [Next]_vars => [ReadsRecord]_vars
    <2> SUFFICES ASSUME ReaderInv, HeaderInv, [Next]_vars, pc = "ready", pc' # pc, NEW k \in DOMAIN Records, InStep(k)
                 PROVE  /\ pc' = "returned" /\ pair' = [n |-> Len(Records[k].data), data |-> Records[k].data]
                        /\ position' = Records[k].to
                        /\ ZippedAt(content, position) => inflate' = [history |-> Records[k].inflated, ended |-> FALSE]
      BY DEF ReadsRecord
    <2> DEFINE r == Records[k]
               h == HistoryOf(File, k - 1)
    <2>1. pc = "ready" /\ position = r.at /\ RecordLies(content, r, h)
          /\ (ZippedAt(content, position) => h \in Seq(Byte) /\ inflate = [history |-> h, ended |-> FALSE])
      BY DEF InStep
    <2>2. Reading
      BY <2>1, AppKinds DEF HasLog, OpenFile, Between
    <2> HIDE DEF r, h
    <2>3. ReadStored \/ ReadZipped
      BY <2>1, <2>2, RecordReached
    <2>4. /\ pc' = "returned" /\ pair' = [n |-> Len(r.data), data |-> r.data] /\ position' = r.to
          /\ ZippedAt(content, position) => inflate' = [history |-> r.inflated, ended |-> FALSE]
      BY <2>1, <2>3, RecordRead
    <2> QED BY <2>4 DEF r
  <1> QED BY <1>1, HeaderHolds, ReaderInvariant, PTL DEF Spec, StaysInStep

-----------------------------------------------------------------------------
(* A file that nobody has damaged.                                         *)

\* The files that are read whole: what was written into them makes lines.
Clean(f) == /\ Disk[f].damage = "none"
            /\ \A k \in DOMAIN Disk[f].records : LineMade(Disk[f].records[k].data)

\* The reader is behind the first k records, and lines have been made of the first m.
AtRecord(k) == /\ position = EndOf(File, k)
               /\ inflate = [history |-> HistoryOf(File, k), ended |-> FALSE]
MadeOf(m) == Lines = [q \in 1 .. m |-> Line(Records[q].data)]

OnTheWay == /\ pc \in {"opening", "ready", "returned"}
            /\ inflate.history \in Seq(Byte)
            /\ pc = "opening" => Lines = <<>>
            /\ pc = "ready" => \E k \in 0 .. Len(Records) : AtRecord(k) /\ MadeOf(k)
            /\ pc = "returned" => \/ pair.n = -1 /\ MadeOf(Len(Records))
                                  \/ \E k \in 1 .. Len(Records) :
                                       /\ AtRecord(k) /\ MadeOf(k - 1)
                                       /\ pair = [n |-> Len(Records[k].data), data |-> Records[k].data]
                                       /\ pair.n \in Nat \ {0}

WholeInv == /\ DOMAIN outputs = scenario.dirs \X {Disk[f].stem : f \in DOMAIN Disk}
            /\ \A f \in broken : ~Clean(f)
            /\ pc # "none" => /\ index <= Len(Files)
                              /\ content = File.bytes /\ File.bytes # Absent
                              /\ Clean(Files[index]) => OnTheWay

\* What IntactAssumption says of the file being read.
LEMMA CleanFile == ASSUME ReaderInv, WholeInv, pc # "none", Clean(Files[index])
                   PROVE  /\ OnTheWay
                          /\ content \in Seq(Byte) /\ HeaderLies(content)
                          /\ Len(Records) \in Nat /\ DOMAIN Records = 1 .. Len(Records)
                          /\ \A k \in 1 .. Len(Records) : /\ Records[k].at = EndOf(File, k - 1)
                                                          /\ RecordLies(content, Records[k], HistoryOf(File, k - 1))
                                                          /\ LineMade(Records[k].data)
                          /\ EndOf(File, Len(Records)) = Len(content)
  <1>1. /\ OnTheWay /\ content \in Seq(Byte) /\ content = File.bytes /\ File.bytes # Absent
        /\ app = "file" /\ index <= Len(Files) /\ JobInv
    BY DEF WholeInv, ReaderInv, PlaceInv
  <1>2. scenario \in Scenarios /\ job.drop \in scenario.drops /\ index \in Nat /\ index >= 1
    BY <1>1 DEF JobInv
  <1>3. Files \in Seq(DOMAIN Disk)
    BY <1>2, ScenarioAssumption DEF Files, Disk
  <1>4. Files[index] \in DOMAIN Disk
    BY <1>1, <1>2, <1>3
  <1>5. LaidOut(File)
    BY <1>1, <1>2, <1>4, IntactAssumption DEF File, Disk, Clean
  <1>6. Records \in Seq({Records[k] : k \in DOMAIN Records})
    BY <1>5 DEF LaidOut, Records
  <1>7. Len(Records) \in Nat /\ DOMAIN Records = 1 .. Len(Records)
    BY <1>6
  <1>8. \A k \in DOMAIN Records : LineMade(Records[k].data)
    BY DEF Clean, Records, File
  <1> QED BY <1>1, <1>5, <1>7, <1>8 DEF LaidOut, Records

\* The header is accepted.
LEMMA HeaderRead ==
  ASSUME ReaderInv, HeaderInv, WholeInv, Clean(Files[index]), ReadHeader
  PROVE  position' = HeaderEnd(content) /\ pc' = "ready" /\ UNCHANGED <<content, inflate>>
  <1> USE NeedleShape
  <1>1. /\ pc = "opening" /\ position = 5 /\ Len(MAGIC) = 4
        /\ content \in Seq(Byte) /\ HeaderLies(content) /\ version = FormatOf(content)
    BY CleanFile DEF ReadHeader, HeaderInv, InFile, MAGIC
  <1> DEFINE modes == IF version = RecoveryVersion THEN 1 ELSE 0
             from  == position + modes
             named == from + 2
             start == named + U16(from)
  <1>2. from = NameAt(content) /\ from \in Nat /\ from >= 5 /\ from + 2 <= 8 /\ modes \in 0 .. 1
    BY <1>1 DEF NameAt
  <1>3. Len(content) >= 8
    BY <1>1 DEF HeaderLies
  <1>4. U16(from) = Number(content, NameAt(content)) /\ U16(from) \in Nat
    <2> HIDE DEF from
    <2>1. from + 2 <= Len(content)
      BY <1>1, <1>2, <1>3
    <2>2. U16(from) = Number(content, from)
      <3>1. (from + 1) + 1 = from + 2
        BY <1>2
      <3> QED BY <3>1 DEF U16, At, Number
    <2>3. U16(from) \in Nat
      BY <1>1, <1>2, <2>1, NumberAt
    <2> QED BY <1>2, <2>2, <2>3
  <1>5. start = HeaderEnd(content) - Size /\ start \in Nat /\ HeaderEnd(content) = start + Size
    BY <1>2, <1>4 DEF HeaderEnd
  <1>6. start + Size <= Len(content) /\ Part(content, start, Size) = Needle
    BY <1>1, <1>5 DEF HeaderLies
  <1>7. MarkedAt(start) = Size
    <2> HIDE DEF start
    <2> QED BY <1>1, <1>5, <1>6, MarkerFound
  <1>8. ~(Space(position) < modes)
    BY <1>1, <1>2, <1>3 DEF Space
  <1>9. modes = 1 => At(position) = content[NameAt(content)] /\ At(position) \div 16 \in 0 .. 1 /\ At(position) % 16 \in 0 .. 1
    <2> SUFFICES ASSUME modes = 1 PROVE At(position) = content[NameAt(content)] /\ At(position) \div 16 \in 0 .. 1 /\ At(position) % 16 \in 0 .. 1
      OBVIOUS
    <2>1. version = RecoveryVersion /\ NameAt(content) = position + 1
      BY <1>1, <1>2
    <2> QED BY <1>1, <2>1 DEF At, HeaderLies
  <1>10. ~(Space(from) < 2)
    BY <1>1, <1>2, <1>3 DEF Space
  <1>11. ~(Space(named) < U16(from) + Size)
    BY <1>1, <1>2, <1>4, <1>6 DEF Space
  <1>12. position' = start + Size /\ pc' = "ready" /\ UNCHANGED <<content, inflate>>
    BY <1>7, <1>8, <1>9, <1>10, <1>11 DEF ReadHeader
  <1> QED BY <1>5, <1>12

\* A call of read in a file that is whole gives the next record, and the end of the file behind
\* the last one.
LEMMA ReadyGoes ==
  ASSUME ReaderInv, HeaderInv, WholeInv, pc = "ready", Clean(Files[index]), Reading
  PROVE  /\ pc' = "returned" /\ UNCHANGED content
         /\ \/ pair'.n = -1 /\ MadeOf(Len(Records)) /\ UNCHANGED inflate
            \/ \E k \in 1 .. Len(Records) :
                 /\ MadeOf(k - 1) /\ Len(Records[k].data) \in Nat \ {0}
                 /\ pair' = [n |-> Len(Records[k].data), data |-> Records[k].data]
                 /\ position' = Records[k].to
                 /\ inflate' = [history |-> Records[k].inflated, ended |-> FALSE]
                 /\ Records[k].inflated \in Seq(Byte)
  <1> USE NeedleShape
  <1>1. /\ OnTheWay /\ content \in Seq(Byte) /\ Len(Records) \in Nat
        /\ EndOf(File, Len(Records)) = Len(content)
        /\ \A k \in 1 .. Len(Records) : /\ Records[k].at = EndOf(File, k - 1)
                                        /\ RecordLies(content, Records[k], HistoryOf(File, k - 1))
    BY CleanFile
  <1>2. PICK k \in 0 .. Len(Records) : AtRecord(k) /\ MadeOf(k)
    BY <1>1 DEF OnTheWay
  <1>3. CASE k = Len(Records)
    <2>1. Space(position) = 0
      BY <1>1, <1>2, <1>3 DEF AtRecord, Space
    <2>2. ~(Space(position) >= Smallest) /\ search = "idle"
      BY <2>1 DEF Smallest, ReaderInv, PlaceInv
    <2>3. EndOfFile
      BY <2>2 DEF Reading, ReadHeader, Recovered, SearchStep, Computing, Searching, TableForward, TableBack, TableDone,
         Forward, Back, Looking, Return, IllegalModes, ReadBeyond, ReadBadLength, ReadStored, ReadZipped, ReadsData, Reads
    <2> QED BY <1>2, <1>3, <2>3 DEF EndOfFile, Give
  <1>4. CASE k < Len(Records)
    <2> DEFINE r == Records[k + 1]
               h == HistoryOf(File, k)
    <2>1. k + 1 \in 1 .. Len(Records) /\ (k + 1) - 1 = k
      BY <1>1, <1>2, <1>4
    <2>2. /\ RecordLies(content, r, h) /\ position = r.at
          /\ inflate = [history |-> h, ended |-> FALSE] /\ h \in Seq(Byte)
      BY <1>1, <1>2, <2>1 DEF AtRecord, OnTheWay
    <2> HIDE DEF r, h
    <2>3. ReadStored \/ ReadZipped
      BY <2>2, RecordReached
    <2>4. /\ pc' = "returned" /\ pair' = [n |-> Len(r.data), data |-> r.data] /\ position' = r.to
          /\ inflate' = [history |-> r.inflated, ended |-> FALSE] /\ r.inflated \in Seq(Byte)
          /\ Len(r.data) \in Nat \ {0} /\ UNCHANGED content
      BY <2>2, <2>3, RecordRead
    <2>5. MadeOf((k + 1) - 1)
      BY <1>2, <2>1
    <2> QED BY <2>1, <2>4, <2>5 DEF r
  <1> QED BY <1>1, <1>2, <1>3, <1>4

\* What belongs to the file does not change while it is read.
LEMMA SameFile == ASSUME UNCHANGED <<scenario, job, index>>
                  PROVE  /\ Files' = Files /\ File' = File /\ Records' = Records /\ Output' = Output /\ Disk' = Disk
                         /\ \A f : Clean(f)' <=> Clean(f)
                         /\ \A k : EndOf(File, k)' = EndOf(File, k) /\ HistoryOf(File, k)' = HistoryOf(File, k)
                         /\ \A data : Line(data)' = Line(data)
  <1>1. Files' = Files /\ Disk' = Disk
    BY DEF Files, Disk
  <1>2. File' = File /\ Records' = Records /\ Output' = Output
    BY <1>1 DEF File, Records, Output
  <1>3. \A data : Line(data)' = Line(data)
    BY DEF Line
  <1>4. \A data : LineMade(data)' <=> LineMade(data)
    BY DEF LineMade
  <1>5. \A f : Clean(f)' <=> Clean(f)
    BY <1>1, <1>4 DEF Clean
  <1>6. \A k : EndOf(File, k)' = EndOf(File, k) /\ HistoryOf(File, k)' = HistoryOf(File, k)
    BY <1>2 DEF EndOf, HistoryOf
  <1> QED BY <1>1, <1>2, <1>3, <1>5, <1>6

\* Reading brings the reader on its way through a file that is whole.
LEMMA WholeReading ==
  ASSUME ReaderInv, HeaderInv, WholeInv, pc # "none", Clean(Files[index]), Reading, UNCHANGED appVars
  PROVE  OnTheWay'
  <1>1. /\ OnTheWay /\ content \in Seq(Byte) /\ HeaderLies(content) /\ Len(Records) \in Nat
        /\ \A k \in 1 .. Len(Records) : LineMade(Records[k].data)
    BY CleanFile
  <1>2. /\ File' = File /\ Records' = Records /\ Output' = Output /\ outputs' = outputs
        /\ \A k : EndOf(File, k)' = EndOf(File, k) /\ HistoryOf(File, k)' = HistoryOf(File, k)
        /\ \A data : Line(data)' = Line(data)
    BY SameFile DEF appVars
  <1>3. Lines' = Lines
    BY <1>2 DEF Lines
  <1>4. ASSUME NEW m, MadeOf(m) PROVE MadeOf(m)'
    BY <1>2, <1>3, <1>4 DEF MadeOf
  <1>5. CASE SearchStep
    <2>1. UNCHANGED <<pc, content, position, version, zipped, inflate, pair>>
      BY <1>5 DEF SearchStep
    <2>2. \A k : AtRecord(k)' <=> AtRecord(k)
      BY <1>2, <2>1 DEF AtRecord
    <2> QED BY <1>1, <1>2, <1>3, <1>4, <2>1, <2>2 DEF OnTheWay
  <1>6. CASE ReadHeader
    <2>1. pc = "opening" /\ inflate = NewInflate /\ Lines = <<>> /\ inflate.history \in Seq(Byte)
      BY <1>1, <1>6 DEF ReadHeader, OnTheWay, HeaderInv
    <2>2. position' = HeaderEnd(content) /\ pc' = "ready" /\ UNCHANGED <<content, inflate>>
      BY <1>6, HeaderRead
    <2>3. EndOf(File, 0) = HeaderEnd(content) /\ HistoryOf(File, 0) = <<>>
      BY DEF EndOf, HistoryOf, WholeInv
    <2>4. AtRecord(0)'
      BY <1>2, <2>1, <2>2, <2>3 DEF AtRecord, NewInflate
    <2>5. MadeOf(0)'
      <3>1. MadeOf(0)
        BY <2>1 DEF MadeOf
      <3> QED BY <3>1, <1>4
    <2>6. 0 \in 0 .. Len(Records')
      BY <1>1, <1>2
    <2> QED BY <2>1, <2>2, <2>4, <2>5, <2>6 DEF OnTheWay
  <1>7. CASE pc = "ready"
    <2>1. pc' = "returned" /\ UNCHANGED content
      BY <1>7, ReadyGoes
    <2>2. inflate.history \in Seq(Byte)
      BY <1>1, <1>7 DEF OnTheWay
    <2>3. CASE pair'.n = -1 /\ MadeOf(Len(Records)) /\ UNCHANGED inflate
      <3>1. MadeOf(Len(Records))'
        BY <2>3, <1>2, <1>3 DEF MadeOf
      <3> QED BY <2>1, <2>2, <2>3, <3>1 DEF OnTheWay
    <2>4. ASSUME NEW k \in 1 .. Len(Records),
                 MadeOf(k - 1), Len(Records[k].data) \in Nat \ {0},
                 pair' = [n |-> Len(Records[k].data), data |-> Records[k].data],
                 position' = Records[k].to,
                 inflate' = [history |-> Records[k].inflated, ended |-> FALSE],
                 Records[k].inflated \in Seq(Byte)
          PROVE  OnTheWay'
      <3>1. EndOf(File, k) = Records[k].to /\ HistoryOf(File, k) = Records[k].inflated
        BY <1>1, <2>4 DEF EndOf, HistoryOf, Records
      <3>2. AtRecord(k)'
        BY <1>2, <2>4, <3>1 DEF AtRecord
      <3>3. MadeOf(k - 1)'
        BY <1>2, <1>3, <2>4 DEF MadeOf
      <3>4. k \in 1 .. Len(Records') /\ pair' = [n |-> Len(Records'[k].data), data |-> Records'[k].data]
            /\ pair'.n \in Nat \ {0}
        BY <1>2, <2>4
      <3>5. inflate'.history \in Seq(Byte)
        BY <2>4
      <3> QED BY <2>1, <2>2, <3>2, <3>3, <3>4, <3>5 DEF OnTheWay
    <2> QED BY <1>7, <2>3, <2>4, ReadyGoes
  <1>8. SearchStep \/ ReadHeader \/ pc = "ready"
    <2>1. pc # "recover"
      BY <1>1 DEF OnTheWay
    <2> QED BY <2>1 DEF Reading, Recovered, EndOfFile, IllegalModes, ReadBeyond, ReadBadLength, ReadStored, ReadZipped,
                 ReadsData, Reads
  <1> QED BY <1>5, <1>6, <1>7, <1>8

\* A line that is made of the record read is the next one.
LEMMA NextLine == ASSUME NEW f, NEW k \in Nat \ {0}
                 PROVE  Append([q \in 1 .. k - 1 |-> f[q]], f[k]) = [q \in 1 .. k |-> f[q]]
  <1> DEFINE S == {f[q] : q \in 1 .. k}
             s == [q \in 1 .. k - 1 |-> f[q]]
  <1>1. s \in Seq(S) /\ Len(s) = k - 1
    OBVIOUS
  <1>2. Append(s, f[k]) \in Seq(S) /\ Len(Append(s, f[k])) = k
    BY <1>1
  <1>3. \A q \in 1 .. k : Append(s, f[k])[q] = f[q]
    BY <1>1
  <1>4. Append(s, f[k]) = [q \in 1 .. k |-> Append(s, f[k])[q]]
    BY <1>2
  <1> QED BY <1>3, <1>4

LEMMA WholeLog ==
  ASSUME ReaderInv, WholeInv, HandleLog
  PROVE  DOMAIN outputs' = DOMAIN outputs /\ (Clean(Files[index]) => OnTheWay')
  <1>1. /\ pc = "returned" /\ pair.n > 0 /\ app = "file" /\ UNCHANGED <<scenario, job, index>>
        /\ JobInv /\ index <= Len(Files) /\ content = File.bytes
    BY DEF HandleLog, HasLog, WholeInv, ReaderInv
  <1>2. DOMAIN outputs' = DOMAIN outputs
    BY DEF HandleLog, AppendLine
  <1>3. ASSUME Clean(Files[index]) PROVE OnTheWay'
    <2>1. /\ OnTheWay /\ Len(Records) \in Nat
          /\ \A k \in 1 .. Len(Records) : LineMade(Records[k].data)
      BY <1>1, <1>3, CleanFile
    <2>2. PICK k \in 1 .. Len(Records) : /\ AtRecord(k) /\ MadeOf(k - 1)
                                         /\ pair = [n |-> Len(Records[k].data), data |-> Records[k].data]
      BY <1>1, <2>1 DEF OnTheWay
    <2>3. LineMade(pair.data) /\ pair.data = Records[k].data
      BY <2>1, <2>2
    <2>4. AppendLine(Line(pair.data)) /\ ReadOn
      BY <2>3 DEF HandleLog
    <2>5. /\ File' = File /\ Records' = Records /\ Output' = Output
          /\ \A m : EndOf(File, m)' = EndOf(File, m) /\ HistoryOf(File, m)' = HistoryOf(File, m)
          /\ \A data : Line(data)' = Line(data)
      BY <1>1, SameFile
    <2>6. Output \in DOMAIN outputs
      <3>1. index \in 1 .. Len(Files) /\ Files \in Seq(DOMAIN Disk)
        <4>1. /\ scenario \in Scenarios /\ job.drop \in scenario.drops /\ index \in Nat /\ index >= 1
          BY <1>1 DEF JobInv
        <4>2. Files \in Seq(DOMAIN Disk)
          BY <4>1, ScenarioAssumption DEF Files, Disk
        <4> QED BY <1>1, <4>1, <4>2
      <3>2. Files[index] \in DOMAIN Disk /\ job.dir \in scenario.dirs
        BY <1>1, <3>1 DEF JobInv
      <3> QED BY <3>2 DEF Output, File, WholeInv
    <2>7. Lines' = Append(Lines, Line(Records[k].data))
      BY <2>3, <2>4, <2>5, <2>6 DEF AppendLine, Lines
    <2>8. MadeOf(k)'
      <3> DEFINE f == [q \in 1 .. k |-> Line(Records[q].data)]
      <3>1. Lines = [q \in 1 .. k - 1 |-> f[q]]
        BY <2>2 DEF MadeOf
      <3>2. Lines' = [q \in 1 .. k |-> f[q]]
        BY <2>7, <3>1, NextLine
      <3> QED BY <2>5, <3>2 DEF MadeOf
    <2>9. AtRecord(k)'
      BY <2>2, <2>4, <2>5 DEF AtRecord, ReadOn
    <2>10. k \in 0 .. Len(Records') /\ pc' = "ready" /\ UNCHANGED <<content, version, zipped, inflate>>
      BY <2>1, <2>2, <2>4, <2>5 DEF ReadOn
    <2> QED BY <1>1, <2>1, <2>8, <2>9, <2>10 DEF OnTheWay
  <1> QED BY <1>2, <1>3

\* A file is opened behind its magic number, with nothing inflated and nothing put out.
LEMMA WholeOpened ==
  ASSUME ReaderInv, WholeInv, OpenFile
  PROVE  /\ DOMAIN outputs' = DOMAIN outputs
         /\ index <= Len(Files) /\ content' = File.bytes /\ File.bytes # Absent
         /\ Clean(Files[index]) => OnTheWay'
  <1>1. /\ Between /\ File.bytes # Absent /\ Open(File.bytes) /\ outputs' = [outputs EXCEPT ![Output] = <<>>]
        /\ JobInv /\ index <= Len(Files) /\ UNCHANGED <<scenario, job, index>>
    BY DEF OpenFile, Between, ReaderInv
  <1>2. content' = File.bytes
    BY <1>1 DEF Open
  <1>3. Files[index] \in DOMAIN Disk /\ job.dir \in scenario.dirs /\ scenario \in Scenarios
    BY <1>1, FileIs DEF JobInv, Between
  <1>4. ASSUME Clean(Files[index]) PROVE OnTheWay'
    <2>1. HeaderLies(File.bytes)
      BY <1>1, <1>3, <1>4, IntactAssumption DEF LaidOut, Clean, File, Disk
    <2>2. Len(MAGIC) = 4 /\ Len(MAGIC) \in Nat
      BY DEF MAGIC
    <2>3. Part(File.bytes, 0, Len(MAGIC)) = SubSeq(File.bytes, 1, Len(MAGIC))
      BY <2>2 DEF Part
    <2>4. File.bytes \in Seq(Byte) /\ Len(File.bytes) >= 8
      BY <1>1, <2>1, <2>2, FileIs DEF HeaderLies
    <2>5. ~(\/ Len(File.bytes) < Len(MAGIC) + 1 \/ SubSeq(File.bytes, 1, Len(MAGIC)) # MAGIC
            \/ File.bytes[Len(MAGIC) + 1] \notin {RecoveryVersion, CipherVersion})
      BY <2>1, <2>2, <2>3, <2>4 DEF HeaderLies, FormatOf
    <2>6. /\ inflate' = NewInflate /\ version' = File.bytes[Len(MAGIC) + 1] /\ position' = Len(MAGIC) + 1 /\ pc' = "opening"
      BY <1>1, <2>5 DEF Open
    <2>7. Output \in DOMAIN outputs /\ Output' = Output
      BY <1>1, <1>3, SameFile DEF Output, File, WholeInv
    <2>8. Lines' = <<>>
      BY <1>1, <2>7 DEF Lines
    <2>9. NewInflate.history \in Seq(Byte)
      BY DEF NewInflate
    <2> QED BY <1>2, <2>6, <2>8, <2>9 DEF OnTheWay, FormatOf
  <1> QED BY <1>1, <1>2, <1>4

LEMMA WholeStarts == Init => WholeInv
  <1> SUFFICES ASSUME Init PROVE WholeInv
    OBVIOUS
  <1>1. DOMAIN outputs = scenario.dirs \X {Disk[f].stem : f \in DOMAIN Disk} /\ broken = {} /\ pc = "none"
    BY DEF Init, ReaderInit
  <1> QED BY <1>1 DEF WholeInv

LEMMA WholeKeeps == ReaderInv /\ HeaderInv /\ WholeInv /\ [Next]_vars => WholeInv'
  <1> SUFFICES ASSUME ReaderInv, HeaderInv, WholeInv, [Next]_vars PROVE WholeInv'
    OBVIOUS
  <1>0. /\ DOMAIN outputs = scenario.dirs \X {Disk[f].stem : f \in DOMAIN Disk}
        /\ \A f \in broken : ~Clean(f)
        /\ pc # "none" => /\ index <= Len(Files) /\ content = File.bytes /\ File.bytes # Absent
                          /\ Clean(Files[index]) => OnTheWay
    BY DEF WholeInv
  <1>1. ASSUME scenario' = scenario, DOMAIN outputs' = DOMAIN outputs, pc' = "none",
               broken' = {} \/ (broken' = broken /\ job' = job)
        PROVE  WholeInv'
    <2>1. Disk' = Disk
      BY <1>1 DEF Disk
    <2>2. ASSUME broken' = broken, job' = job PROVE \A f \in broken' : ~Clean(f)'
      <3>1. \A f : Clean(f)' <=> Clean(f)
        BY <1>1, <2>1, <2>2 DEF Clean, LineMade
      <3> QED BY <1>0, <2>2, <3>1
    <2> QED BY <1>0, <1>1, <2>1, <2>2 DEF WholeInv
  <1>2. ASSUME UNCHANGED <<scenario, job, index>>, DOMAIN outputs' = DOMAIN outputs,
               content' = File.bytes, File.bytes # Absent, index <= Len(Files),
               \A f \in broken' : ~Clean(f),
               Clean(Files[index]) => OnTheWay'
        PROVE  WholeInv'
    <2>1. /\ Files' = Files /\ File' = File /\ Disk' = Disk
          /\ \A f : Clean(f)' <=> Clean(f)
      BY <1>2, SameFile
    <2>2. Clean(Files[index])' <=> Clean(Files[index])
      BY <1>2, <2>1 DEF Clean, LineMade
    <2> QED BY <1>0, <1>2, <2>1, <2>2 DEF WholeInv
  <1>3. ASSUME UNCHANGED readerVars, pc = "none", scenario' = scenario, outputs' = outputs,
               broken' = {} \/ (broken' = broken /\ job' = job)
        PROVE  WholeInv'
    BY <1>1, <1>3 DEF readerVars
  <1>4. CASE User
    <2>1. UNCHANGED <<readerVars, scenario, job, outputs, broken>> /\ app = "idle"
      BY <1>4 DEF User, Drop, Cancel, Choose, Quit
    <2>2. pc = "none"
      BY <2>1 DEF ReaderInv, PlaceInv
    <2> QED BY <1>3, <2>1, <2>2
  <1>5. CASE Fire
    <2>1. pc = "none"
      BY <1>5 DEF Fire, ReaderInv, PlaceInv
    <2> QED BY <1>3, <1>5, <2>1 DEF Fire
  <1>6. CASE FileGone \/ Complete
    BY <1>3, <1>6 DEF FileGone, Complete, Between
  <1>7. CASE HandleEnd \/ HandleError
    <2>1. UNCHANGED <<scenario, job, outputs>> /\ pc' = "none"
      BY <1>7 DEF HandleEnd, HandleError, NextFile
    <2>2. broken' = broken
      BY <1>7 DEF HandleEnd, HandleError
    <2> QED BY <1>1, <2>1, <2>2
  <1>8. CASE HandleBroken
    <2>1. /\ pc = "returned" /\ pair.n = 0 /\ broken' = broken \cup {Files[index]}
          /\ UNCHANGED <<scenario, job, index, outputs, content>>
      BY <1>8 DEF HandleBroken, ReadOn
    <2>2. ~Clean(Files[index])
      BY <1>0, <2>1 DEF OnTheWay
    <2> QED BY <1>0, <1>2, <2>1, <2>2
  <1>9. CASE OpenFile
    <2>1. UNCHANGED <<scenario, job, index, broken>>
      BY <1>9 DEF OpenFile
    <2> QED BY <1>0, <1>2, <1>9, <2>1, WholeOpened
  <1>10. CASE HandleLog
    <2>1. UNCHANGED <<scenario, job, index, broken, content>> /\ pc # "none"
      BY <1>10 DEF HandleLog, HasLog, Throw, ReadOn
    <2> QED BY <1>0, <1>2, <1>10, <2>1, WholeLog
  <1>11. CASE app = "file" /\ Reading /\ UNCHANGED appVars
    <2>1. UNCHANGED <<scenario, job, index, broken, outputs>>
      BY <1>11 DEF appVars
    <2>2. CASE pc = "none"
      <3>1. pc' = "none"
        BY <1>11, <2>2, ReadingKinds DEF ReadKinds, SearchStep, PlaceInv, ReaderInv, Reading, ReadHeader, Recovered,
           EndOfFile, IllegalModes, ReadBeyond, ReadBadLength, ReadStored, ReadZipped, ReadsData, Reads
      <3> QED BY <1>1, <2>1, <3>1
    <2>3. CASE pc # "none"
      <3>1. content' = content
        BY <1>11, ReadingKinds DEF ReadKinds, Throw, Recover, Recovered, SearchStep
      <3> QED BY <1>0, <1>2, <1>11, <2>1, <2>3, <3>1, WholeReading
    <2> QED BY <2>2, <2>3
  <1>12. CASE UNCHANGED vars
    <2>1. UNCHANGED readerVars /\ UNCHANGED appVars
      BY <1>12 DEF vars
    <2>2. UNCHANGED <<scenario, job, index, broken, outputs, content, pc>>
      BY <2>1 DEF readerVars, appVars
    <2>3. CASE pc = "none"
      BY <1>1, <2>2, <2>3
    <2>4. CASE pc # "none"
      <3>1. /\ File' = File /\ Records' = Records /\ Output' = Output
            /\ \A k : EndOf(File, k)' = EndOf(File, k) /\ HistoryOf(File, k)' = HistoryOf(File, k)
            /\ \A data : Line(data)' = Line(data)
        BY <2>2, SameFile
      <3>2. Lines' = Lines
        BY <2>2, <3>1 DEF Lines
      <3>3. UNCHANGED <<position, version, zipped, inflate, pair>>
        BY <2>1 DEF readerVars
      <3>4. \A k : (AtRecord(k)' <=> AtRecord(k)) /\ (MadeOf(k)' <=> MadeOf(k))
        BY <3>1, <3>2, <3>3 DEF AtRecord, MadeOf
      <3>5. OnTheWay => OnTheWay'
        <4> SUFFICES ASSUME OnTheWay PROVE OnTheWay'
          OBVIOUS
        <4>1. Len(Records)' = Len(Records)
          BY <3>1
        <4>2. MadeOf(Len(Records))' <=> MadeOf(Len(Records))
          BY <3>1, <3>2 DEF MadeOf
        <4>3. \A k : MadeOf(k - 1)' <=> MadeOf(k - 1)
          BY <3>1, <3>2 DEF MadeOf
        <4> QED BY <2>2, <3>1, <3>2, <3>3, <3>4, <4>1, <4>2, <4>3 DEF OnTheWay
      <3> QED BY <1>0, <1>2, <2>2, <2>4, <3>5
    <2> QED BY <2>3, <2>4
  <1> QED BY <1>4, <1>5, <1>6, <1>7, <1>8, <1>9, <1>10, <1>11, <1>12 DEF Next, Callback

\* A file that nobody has damaged is read whole, of any length, with any records and any data,
\* and whatever was parsed before it (ReadsWhole of ReaderApp; parseLogFiles, FileReaderV3,
\* FileReaderV4, read).
THEOREM ReaderReadsWhole == Spec => []ReadsWhole
  <1>1. ReaderInv /\ WholeInv => ReadsWhole
    <2> SUFFICES ASSUME ReaderInv, WholeInv, app = "file", index <= Len(Files), pc # "none", File.damage = "none",
                        \A k \in DOMAIN Records : LineMade(Records[k].data)
                 PROVE  /\ pc # "thrown" /\ Files[index] \notin broken
                        /\ AtEndOfFile => Lines = [k \in DOMAIN Records |-> Line(Records[k].data)]
      BY DEF ReadsWhole
    <2>1. Clean(Files[index])
      BY DEF Clean, File, Records
    <2>2. OnTheWay /\ DOMAIN Records = 1 .. Len(Records)
      BY <2>1, CleanFile
    <2>3. Files[index] \notin broken
      BY <2>1 DEF WholeInv
    <2>4. ASSUME AtEndOfFile PROVE MadeOf(Len(Records))
      BY <2>2, <2>4 DEF AtEndOfFile, OnTheWay
    <2> QED BY <2>2, <2>3, <2>4 DEF OnTheWay, MadeOf
  <1>2. Spec => []WholeInv
    BY WholeStarts, WholeKeeps, HeaderHolds, ReaderInvariant, PTL DEF Spec
  <1> QED BY <1>1, <1>2, ReaderInvariant, PTL
=============================================================================
