------------------------ MODULE ArchiveGuard_proofs ------------------------
(***************************************************************************)
(* What cleanupSafely removes and what it spares, for any number of        *)
(* archives, readers and concurrent cleanups and for any limits.           *)
(*                                                                         *)
(* The limits: the total a cleanup counts down is at all times at least    *)
(* the sum of the sizes it listed over the archives it has not removed, so *)
(* it never falls below zero, and whatever was kept without being read was *)
(* kept because the total was within the limit, which it stays.  What is   *)
(* kept is older than what is left, so that an archive removed for its age *)
(* has only read ones behind it.                                           *)
(*                                                                         *)
(* The readers: the name of every reader is in m_readingArchives from      *)
(* before it opens its file until it is closed, provided no two readers    *)
(* share an archive, and what a cleanup found out about the archive it is  *)
(* about to dispose of is still true, since it holds the lock.             *)
(***************************************************************************)
EXTENDS ArchiveGuard, FiniteSetTheorems, WellFoundedInduction, TLAPS

-----------------------------------------------------------------------------
(* Sums over a finite set, which the size limit is about.                  *)

\* Induction over the subsets of a finite set, by the smallest counterexample.
LEMMA SetInduction ==
  ASSUME NEW F, IsFiniteSet(F), NEW T \in SUBSET SUBSET F,
         \A s \in SUBSET F : (\A u \in SUBSET s : u # s => u \in T) => s \in T
  PROVE  T = SUBSET F
<1> SUFFICES ASSUME (SUBSET F) \ T # {} PROVE FALSE
  OBVIOUS
<1>1. (SUBSET F) \ T \subseteq FiniteSubsetsOf(F)
  BY FS_Subset DEF FiniteSubsetsOf
<1>2. PICK s \in (SUBSET F) \ T : \A u \in (SUBSET F) \ T : ~(<<u, s>> \in StrictSubsetOrdering(F))
  <2> DEFINE R == StrictSubsetOrdering(F)
             D == FiniteSubsetsOf(F)
             C == (SUBSET F) \ T
  <2>1. IsWellFoundedOn(R, D) /\ C \subseteq D /\ C # {}
    BY <1>1, FS_StrictSubsetOrderingWellFounded
  <2> HIDE DEF R, D, C
  <2>2. \E x \in C : \A y \in C : ~(<<y, x>> \in R)
    BY <2>1, WFMin
  <2>3. QED
    BY <2>2 DEF R, C
<1>3. \A u \in SUBSET s : u # s => u \in T
  BY <1>2 DEF StrictSubsetOrdering
<1>4. QED
  BY <1>2, <1>3

\* SumFunctionOnSet takes the elements of the set one by one.
Picked(s) == CHOOSE x \in s : TRUE
SumStep(f, g, S) == [s \in SUBSET S |-> IF s = {} THEN 0 ELSE f[Picked(s)] + g[s \ {Picked(s)}]]
Sums(f, S) == CHOOSE g : g = SumStep(f, g, S)

LEMMA SumIsSums == ASSUME NEW f, NEW S PROVE SumFunctionOnSet(f, S) = Sums(f, S)[S]
BY DEF SumFunctionOnSet, FoldFunctionOnSet, MapThenFoldSet, Sums, SumStep, Picked

\* What is picked is an element.
LEMMA PickedIn == ASSUME NEW s, s # {} PROVE Picked(s) \in s
BY DEF Picked

\* Two functions that sum up alike agree where both are defined.
LEMMA SumsAgree ==
  ASSUME NEW F, IsFiniteSet(F), NEW f, NEW A \in SUBSET F, NEW B \in SUBSET F, NEW g, NEW h,
         g = SumStep(f, g, A), h = SumStep(f, h, B)
  PROVE  \A t \in SUBSET (A \cap B) : g[t] = h[t]
<1> DEFINE T == {t \in SUBSET F : t \subseteq A \cap B => g[t] = h[t]}
<1>1. ASSUME NEW s \in SUBSET F, \A u \in SUBSET s : u # s => u \in T PROVE s \in T
  <2> SUFFICES ASSUME s \subseteq A \cap B PROVE g[s] = h[s]
    OBVIOUS
  <2>1. /\ g[s] = IF s = {} THEN 0 ELSE f[Picked(s)] + g[s \ {Picked(s)}]
        /\ h[s] = IF s = {} THEN 0 ELSE f[Picked(s)] + h[s \ {Picked(s)}]
    BY DEF SumStep
  <2>2. s # {} => g[s \ {Picked(s)}] = h[s \ {Picked(s)}]
    BY <1>1, PickedIn
  <2>3. QED
    BY <2>1, <2>2
<1> HIDE DEF T
<1>2. T \in SUBSET SUBSET F
  BY DEF T
<1>3. T = SUBSET F
  BY <1>1, <1>2, SetInduction
<1>4. QED
  BY <1>3 DEF T

\* The recursion has a solution.
LEMMA SumsDefined ==
  ASSUME NEW F, IsFiniteSet(F), NEW f
  PROVE  \A s \in SUBSET F : Sums(f, s) = SumStep(f, Sums(f, s), s)
<1> DEFINE T == {s \in SUBSET F : Sums(f, s) = SumStep(f, Sums(f, s), s)}
<1>1. ASSUME NEW s \in SUBSET F, \A u \in SUBSET s : u # s => u \in T PROVE s \in T
  <2> DEFINE p == Picked(s)
             g == [t \in SUBSET s |-> IF t # s THEN Sums(f, t)[t]
                                      ELSE IF s = {} THEN 0 ELSE f[p] + Sums(f, s \ {p})[s \ {p}]]
  <2>1. ASSUME NEW t \in SUBSET s PROVE g[t] = SumStep(f, g, s)[t]
    <3>1. CASE t = {}
      <4>1. s # {} => Sums(f, t)[t] = 0
        BY <1>1, <3>1 DEF SumStep
      <4>2. QED
        BY <3>1, <4>1 DEF SumStep
    <3>2. CASE t # {}
      <4> DEFINE q == Picked(t)
                 r == t \ {q}
      <4>1. r \in SUBSET t /\ r # t /\ r # s /\ r \in SUBSET s
        BY <3>2, PickedIn
      <4>2. g[r] = Sums(f, r)[r]
        BY <4>1
      <4>3. SumStep(f, g, s)[t] = f[q] + g[r]
        BY <3>2 DEF SumStep
      <4>4. CASE t = s
        BY <3>2, <4>2, <4>3, <4>4
      <4>5. CASE t # s
        <5>1. Sums(f, t) = SumStep(f, Sums(f, t), t) /\ Sums(f, r) = SumStep(f, Sums(f, r), r)
          BY <1>1, <4>1, <4>5
        <5>2. Sums(f, t)[t] = f[q] + Sums(f, t)[r]
          BY <3>2, <5>1 DEF SumStep
        <5>3. Sums(f, t)[r] = Sums(f, r)[r]
          <6>1. t \in SUBSET F /\ r \in SUBSET F /\ r \in SUBSET (t \cap r)
            OBVIOUS
          <6> HIDE DEF r
          <6>2. QED
            BY <5>1, <6>1, SumsAgree
        <5>4. g[t] = Sums(f, t)[t]
          BY <4>5
        <5>5. QED
          BY <4>2, <4>3, <5>2, <5>3, <5>4
      <4>6. QED
        BY <4>4, <4>5
    <3>3. QED
      BY <3>1, <3>2
  <2>2. g = SumStep(f, g, s)
    BY <2>1 DEF SumStep
  <2> HIDE DEF g
  <2>3. QED
    BY <2>2 DEF Sums
<1> HIDE DEF T
<1>2. T \in SUBSET SUBSET F
  BY DEF T
<1>3. T = SUBSET F
  BY <1>1, <1>2, SetInduction
<1>4. QED
  BY <1>3 DEF T

\* The sum over a set, by the sum without the element that is picked.
LEMMA SumEquation ==
  ASSUME NEW F, IsFiniteSet(F), NEW f, NEW s \in SUBSET F
  PROVE  SumFunctionOnSet(f, s) = IF s = {} THEN 0
                                  ELSE f[Picked(s)] + SumFunctionOnSet(f, s \ {Picked(s)})
<1> DEFINE r == s \ {Picked(s)}
<1>1. Sums(f, s) = SumStep(f, Sums(f, s), s) /\ Sums(f, r) = SumStep(f, Sums(f, r), r)
  BY SumsDefined
<1>2. Sums(f, s)[s] = IF s = {} THEN 0 ELSE f[Picked(s)] + Sums(f, s)[r]
  BY <1>1 DEF SumStep
<1>3. Sums(f, s)[r] = Sums(f, r)[r]
  <2>1. r \in SUBSET F /\ r \in SUBSET (s \cap r)
    OBVIOUS
  <2> HIDE DEF r
  <2>2. QED
    BY <1>1, <2>1, SumsAgree
<1> HIDE DEF r
<1>4. SumFunctionOnSet(f, s) = Sums(f, s)[s] /\ SumFunctionOnSet(f, r) = Sums(f, r)[r]
  BY SumIsSums
<1>5. QED
  BY <1>2, <1>3, <1>4 DEF r

LEMMA SumIsNatural ==
  ASSUME NEW F, IsFiniteSet(F), NEW f, \A x \in F : f[x] \in Nat
  PROVE  \A s \in SUBSET F : SumFunctionOnSet(f, s) \in Nat
<1> DEFINE T == {s \in SUBSET F : SumFunctionOnSet(f, s) \in Nat}
<1>1. ASSUME NEW s \in SUBSET F, \A u \in SUBSET s : u # s => u \in T PROVE s \in T
  <2>1. s # {} => Picked(s) \in s
    BY PickedIn
  <2>2. s # {} => f[Picked(s)] \in Nat /\ SumFunctionOnSet(f, s \ {Picked(s)}) \in Nat
    BY <1>1, <2>1
  <2>3. SumFunctionOnSet(f, s) = IF s = {} THEN 0
                                  ELSE f[Picked(s)] + SumFunctionOnSet(f, s \ {Picked(s)})
    BY SumEquation
  <2>4. QED
    BY <2>2, <2>3
<1> HIDE DEF T
<1>2. T \in SUBSET SUBSET F
  BY DEF T
<1>3. T = SUBSET F
  BY <1>1, <1>2, SetInduction
<1>4. QED
  BY <1>3 DEF T

\* It does not matter which element is taken.
LEMMA SumWithout ==
  ASSUME NEW F, IsFiniteSet(F), NEW f, \A x \in F : f[x] \in Nat
  PROVE  \A s \in SUBSET F : \A x \in s :
           SumFunctionOnSet(f, s) = f[x] + SumFunctionOnSet(f, s \ {x})
<1> DEFINE T == {s \in SUBSET F : \A x \in s : SumFunctionOnSet(f, s) = f[x] + SumFunctionOnSet(f, s \ {x})}
<1>1. ASSUME NEW s \in SUBSET F, \A u \in SUBSET s : u # s => u \in T PROVE s \in T
  <2> SUFFICES ASSUME NEW x \in s
               PROVE  SumFunctionOnSet(f, s) = f[x] + SumFunctionOnSet(f, s \ {x})
    OBVIOUS
  <2> DEFINE y == Picked(s)
             r == (s \ {x}) \ {y}
  <2>1. y \in s /\ x \in F /\ y \in F
    BY PickedIn
  <2>2. SumFunctionOnSet(f, s) = f[y] + SumFunctionOnSet(f, s \ {y})
    BY SumEquation
  <2>3. CASE x = y
    BY <2>2, <2>3
  <2>4. CASE x # y
    <3>1. s \ {y} \in T /\ x \in s \ {y} /\ s \ {x} \in T /\ y \in s \ {x}
      BY <1>1, <2>1, <2>4
    <3>2. SumFunctionOnSet(f, s \ {y}) = f[x] + SumFunctionOnSet(f, r)
      <4>1. SumFunctionOnSet(f, s \ {y}) = f[x] + SumFunctionOnSet(f, (s \ {y}) \ {x})
        BY <3>1
      <4>2. (s \ {y}) \ {x} = r
        OBVIOUS
      <4>3. QED
        BY <4>1, <4>2
    <3>3. SumFunctionOnSet(f, s \ {x}) = f[y] + SumFunctionOnSet(f, r)
      BY <3>1
    <3>4. f[x] \in Nat /\ f[y] \in Nat /\ SumFunctionOnSet(f, r) \in Nat
      <4>1. r \in SUBSET F
        OBVIOUS
      <4> HIDE DEF r
      <4>2. QED
        BY <2>1, <4>1, SumIsNatural
    <3>5. QED
      BY <2>2, <3>2, <3>3, <3>4
  <2>5. QED
    BY <2>3, <2>4
<1> HIDE DEF T
<1>2. T \in SUBSET SUBSET F
  BY DEF T
<1>3. T = SUBSET F
  BY <1>1, <1>2, SetInduction
<1>4. QED
  BY <1>3 DEF T

\* Fewer elements never sum up to more.
LEMMA SumGrows ==
  ASSUME NEW F, IsFiniteSet(F), NEW f, \A x \in F : f[x] \in Nat, NEW u \in SUBSET F
  PROVE  \A s \in SUBSET F : u \subseteq s => SumFunctionOnSet(f, u) <= SumFunctionOnSet(f, s)
<1> DEFINE T == {s \in SUBSET F : u \subseteq s => SumFunctionOnSet(f, u) <= SumFunctionOnSet(f, s)}
<1>0. \A s \in SUBSET F : SumFunctionOnSet(f, s) \in Nat
  BY SumIsNatural
<1>1. ASSUME NEW s \in SUBSET F, \A v \in SUBSET s : v # s => v \in T PROVE s \in T
  <2>1. CASE u = s
    BY <1>0, <2>1
  <2>2. CASE u \subseteq s /\ u # s
    <3>1. PICK x \in s : x \notin u
      BY <2>2
    <3>2. SumFunctionOnSet(f, s) = f[x] + SumFunctionOnSet(f, s \ {x})
      BY SumWithout
    <3>3. SumFunctionOnSet(f, u) <= SumFunctionOnSet(f, s \ {x})
      BY <1>1, <2>2, <3>1
    <3>4. f[x] \in Nat /\ SumFunctionOnSet(f, u) \in Nat /\ SumFunctionOnSet(f, s \ {x}) \in Nat
      BY <1>0
    <3>5. SumFunctionOnSet(f, u) <= SumFunctionOnSet(f, s)
      BY <3>2, <3>3, <3>4
    <3>6. QED
      BY <3>5
  <2>3. QED
    BY <2>1, <2>2
<1> HIDE DEF T
<1>2. T \in SUBSET SUBSET F
  BY DEF T
<1>3. T = SUBSET F
  BY <1>1, <1>2, SetInduction
<1>4. QED
  BY <1>3 DEF T

-----------------------------------------------------------------------------
(* The archives, by age.                                                   *)

LEMMA ArchivesFinite == IsFiniteSet(Archives) /\ Archives \in SUBSET Nat
BY FS_Interval, GuardAssumption DEF Archives

LEMMA LeastNatural ==
  ASSUME NEW S \in SUBSET Nat, S # {}
  PROVE  \E x \in S : \A y \in S : x <= y
<1> DEFINE R == OpToRel(<, Nat)
<1>1. IsWellFoundedOn(R, Nat)
  BY NatLessThanWellFounded
<1>2. \A x, y \in Nat : x < y => <<x, y>> \in R
  BY DEF OpToRel
<1> HIDE DEF R
<1>3. PICK x \in S : \A y \in S : ~(<<y, x>> \in R)
  BY <1>1, WFMin
<1>4. \A y \in S : x <= y
  <2> SUFFICES ASSUME NEW y \in S PROVE x <= y
    OBVIOUS
  <2>1. x \in Nat /\ y \in Nat /\ ~(y < x)
    BY <1>2, <1>3
  <2> QED
    BY <2>1
<1> QED
  BY <1>4

LEMMA OldestIn ==
  ASSUME NEW S \in SUBSET Archives, S # {}
  PROVE  Oldest(S) \in S /\ \A b \in S : Oldest(S) <= b
<1>1. \E x \in S : \A y \in S : x <= y
  BY LeastNatural, ArchivesFinite
<1> QED
  BY <1>1 DEF Oldest

\* The newest is the least bound.
LEMMA NewestIn ==
  ASSUME NEW S \in SUBSET Archives, S # {}
  PROVE  Newest(S) \in S /\ \A b \in S : b <= Newest(S)
<1> DEFINE B == {n \in Nat : \A b \in S : b <= n}
<1>1. MaxArchive \in B
  BY GuardAssumption DEF Archives
<1>2. B \in SUBSET Nat /\ B # {}
  BY <1>1
<1> HIDE DEF B
<1>3. PICK n \in B : \A m \in B : n <= m
  BY <1>2, LeastNatural
<1>4. n \in Nat /\ \A b \in S : b <= n
  BY <1>3 DEF B
<1>5. n \in S
  <2> SUFFICES ASSUME n \notin S PROVE FALSE
    OBVIOUS
  <2>1. PICK b \in S : TRUE
    OBVIOUS
  <2>2. \A x \in S : x \in Nat /\ x > 0
    BY DEF Archives
  <2>3. n - 1 \in Nat /\ \A x \in S : x <= n - 1
    BY <1>4, <2>1, <2>2
  <2>4. n - 1 \in B
    BY <2>3 DEF B
  <2> QED
    BY <1>3, <1>4, <2>4
<1>6. \E x \in S : \A b \in S : b <= x
  BY <1>4, <1>5
<1> QED
  BY <1>6 DEF Newest

-----------------------------------------------------------------------------
(* What a cleanup knows of the archives it listed.                         *)

CleanerRecord == [pc : {"idle", "listed", "visit", "dispose"},
                  todo : SUBSET Archives, kept : SUBSET Archives,
                  sizes : [Archives -> 0 .. MaxSize], total : Nat,
                  due : 0 .. MaxArchive, spared : BOOLEAN]

\* The loops run under the lock.
Locked == \A c \in Cleaners : cleaner[c].pc \in {"visit", "dispose"} => holder = {c}

\* What Visit found out stays true until the archive is disposed of.
Current == \A c \in Cleaners :
             cleaner[c].pc = "dispose" =>
               cleaner[c].spared = (Oldest(cleaner[c].todo) \in reading)

SkippedOf(k) == Newest({a \in Archives : k.sizes[a] > 0})
ListedOf(k) == k.todo \cup k.kept \cup {SkippedOf(k)}

\* What it kept is older than what it has left, and that than what it skips.
Divided(k) == /\ \A a \in k.kept, b \in k.todo : a < b
              /\ k.pc = "dispose" => k.todo # {}
              /\ k.pc # "idle" => /\ SkippedOf(k) \in Archives
                                  /\ \A a \in k.todo \cup k.kept : a < SkippedOf(k)

\* Each archive it kept is in R, the set of those being read, or had to go
\* neither for the size nor for its age.
Justified(k, R) == \A a \in k.kept : a \in R \/ (k.total <= SizeLimit /\ a > k.due)

\* The total is at least what the archives not yet removed take.
Accounted(k) == k.pc # "idle" => SumFunctionOnSet(k.sizes, ListedOf(k)) <= k.total

\* It keeps none before it has the lock, and spares what is in R.
Guarded(k, R) == /\ k.pc \in {"idle", "listed"} => k.kept = {}
                 /\ k.pc = "dispose" => k.spared = (Oldest(k.todo) \in R)

Limits(k, R) == Divided(k) /\ Justified(k, R) /\ Accounted(k) /\ Guarded(k, R)

LimitInv == TypeOK /\ Locked /\ \A c \in Cleaners : Limits(cleaner[c], reading)

LEMMA SumsOfSizes ==
  ASSUME NEW k \in CleanerRecord
  PROVE  /\ \A s \in SUBSET Archives : SumFunctionOnSet(k.sizes, s) \in Nat
         /\ \A s \in SUBSET Archives : \A a \in s :
              SumFunctionOnSet(k.sizes, s) = k.sizes[a] + SumFunctionOnSet(k.sizes, s \ {a})
         /\ \A u, s \in SUBSET Archives :
              u \subseteq s => SumFunctionOnSet(k.sizes, u) <= SumFunctionOnSet(k.sizes, s)
<1> DEFINE f == k.sizes
<1>1. \A a \in Archives : f[a] \in Nat
  BY GuardAssumption DEF CleanerRecord
<1>2. IsFiniteSet(Archives)
  BY ArchivesFinite
<1> HIDE DEF f
<1>3. \A s \in SUBSET Archives : SumFunctionOnSet(f, s) \in Nat
  BY <1>1, <1>2, SumIsNatural
<1>4. \A s \in SUBSET Archives : \A a \in s :
              SumFunctionOnSet(f, s) = f[a] + SumFunctionOnSet(f, s \ {a})
  <2> SUFFICES ASSUME NEW s \in SUBSET Archives, NEW a \in s
               PROVE  SumFunctionOnSet(f, s) = f[a] + SumFunctionOnSet(f, s \ {a})
    OBVIOUS
  <2> QED
    BY <1>1, <1>2, SumWithout
<1>5. \A u, s \in SUBSET Archives :
              u \subseteq s => SumFunctionOnSet(f, u) <= SumFunctionOnSet(f, s)
  <2> SUFFICES ASSUME NEW u \in SUBSET Archives, NEW s \in SUBSET Archives, u \subseteq s
               PROVE  SumFunctionOnSet(f, u) <= SumFunctionOnSet(f, s)
    OBVIOUS
  <2> QED
    BY <1>1, <1>2, SumGrows
<1> QED
  BY <1>3, <1>4, <1>5 DEF f

LEMMA IdleLimits == Idle \in CleanerRecord /\ \A R : Limits(Idle, R)
BY GuardAssumption DEF Idle, CleanerRecord, Limits, Divided, Justified, Accounted, Guarded

\* A new listing: all of the archives are there.
LEMMA ListedLimits ==
  ASSUME TypeOK, Cardinality(Present) > 1, NEW k, NEW R,
         k = [Idle EXCEPT !.pc = "listed", !.todo = Present \ {Newest(Present)},
                          !.sizes = size, !.total = SumFunction(size)]
  PROVE  k \in CleanerRecord /\ Limits(k, R)
<1>1. Present \in SUBSET Archives
  BY DEF Present
<1>2. Present # {}
  BY FS_EmptySet
<1>3. Newest(Present) \in Present /\ \A b \in Present : b <= Newest(Present)
  BY <1>1, <1>2, NewestIn
<1>4. /\ k.pc = "listed" /\ k.todo = Present \ {Newest(Present)} /\ k.kept = {}
      /\ k.sizes = size /\ k.total = SumFunction(size)
      /\ k.due = 0 /\ k.spared = FALSE
      /\ k = [pc |-> "listed", todo |-> Present \ {Newest(Present)}, kept |-> {}, sizes |-> size,
              total |-> SumFunction(size), due |-> 0, spared |-> FALSE]
  BY DEF Idle
<1>5. size \in [Archives -> 0 .. MaxSize] /\ DOMAIN size = Archives
  BY DEF TypeOK
<1>6. k.total = SumFunctionOnSet(size, Archives)
  BY <1>4, <1>5 DEF SumFunction
<1>7. \A a \in Archives : size[a] \in Nat
  BY <1>5, GuardAssumption
<1>8. k.total \in Nat
  BY <1>6, <1>7, SumIsNatural, ArchivesFinite
<1>9. k \in CleanerRecord
  <2>1. /\ 0 \in 0 .. MaxArchive /\ {} \in SUBSET Archives
        /\ Present \ {Newest(Present)} \in SUBSET Archives
    BY <1>1, GuardAssumption
  <2> QED
    BY <1>4, <1>5, <1>8, <2>1 DEF CleanerRecord
<1>10. SkippedOf(k) = Newest(Present)
  BY <1>4 DEF SkippedOf, Present
<1>11. \A a \in Present : a \in Nat
  BY <1>1, ArchivesFinite
<1>12. Divided(k)
  BY <1>1, <1>3, <1>4, <1>10, <1>11 DEF Divided
<1>13. Accounted(k)
  <2>1. ListedOf(k) \in SUBSET Archives
    BY <1>1, <1>3, <1>4, <1>10 DEF ListedOf
  <2>2. SumFunctionOnSet(k.sizes, ListedOf(k)) <= SumFunctionOnSet(k.sizes, Archives)
    BY <1>9, <2>1, SumsOfSizes
  <2> QED
    BY <1>4, <1>6, <2>2 DEF Accounted
<1> QED
  BY <1>4, <1>9, <1>12, <1>13 DEF Limits, Justified, Guarded

\* The lock is taken.
LEMMA LockLimits ==
  ASSUME NEW k \in CleanerRecord, NEW R, Limits(k, R), k.pc = "listed",
         NEW d \in 0 .. MaxArchive, NEW n, n = [k EXCEPT !.pc = "visit", !.due = d]
  PROVE  n \in CleanerRecord /\ Limits(n, R)
<1>1. /\ n.pc = "visit" /\ n.todo = k.todo /\ n.kept = k.kept /\ n.sizes = k.sizes
      /\ n.total = k.total /\ n \in CleanerRecord
  BY DEF CleanerRecord
<1>2. SkippedOf(n) = SkippedOf(k) /\ ListedOf(n) = ListedOf(k)
  BY <1>1 DEF SkippedOf, ListedOf
<1> QED
  BY <1>1, <1>2 DEF Limits, Divided, Justified, Accounted, Guarded

\* The oldest one left is looked up.
LEMMA VisitLimits ==
  ASSUME NEW k \in CleanerRecord, NEW R, Limits(k, R), k.pc = "visit", k.todo # {},
         NEW s \in BOOLEAN, s <=> Oldest(k.todo) \in R,
         NEW n, n = [k EXCEPT !.pc = "dispose", !.spared = s]
  PROVE  n \in CleanerRecord /\ Limits(n, R)
<1>1. /\ n.pc = "dispose" /\ n.todo = k.todo /\ n.kept = k.kept /\ n.sizes = k.sizes
      /\ n.total = k.total /\ n.due = k.due /\ n.spared = s
      /\ n \in CleanerRecord
  BY DEF CleanerRecord
<1>2. SkippedOf(n) = SkippedOf(k) /\ ListedOf(n) = ListedOf(k)
  BY <1>1 DEF SkippedOf, ListedOf
<1> QED
  BY <1>1, <1>2 DEF Limits, Divided, Justified, Accounted, Guarded

\* It is removed, and the total shrinks by its size or not at all.
LEMMA DisposedLimits ==
  ASSUME NEW k \in CleanerRecord, NEW R, Limits(k, R), k.pc = "dispose", NEW a,
         a = Oldest(k.todo), NEW t, t \in {k.total, k.total - k.sizes[a]},
         NEW n, n = [k EXCEPT !.pc = "visit", !.todo = @ \ {a}, !.total = t]
  PROVE  n \in CleanerRecord /\ Limits(n, R)
<1>1. a \in k.todo /\ a \in Archives /\ k.todo \in SUBSET Archives /\ k.kept \in SUBSET Archives
  BY OldestIn DEF Limits, Divided, CleanerRecord
<1>2. /\ n.pc = "visit" /\ n.todo = k.todo \ {a} /\ n.kept = k.kept /\ n.sizes = k.sizes
      /\ n.total = t /\ n.due = k.due
  BY DEF CleanerRecord
<1>3. SkippedOf(n) = SkippedOf(k)
  BY <1>2 DEF SkippedOf
<1>4. SkippedOf(k) \in Archives /\ a < SkippedOf(k) /\ \A b \in k.kept : b < a
  BY <1>1 DEF Limits, Divided
<1>5. a \in Nat /\ a # SkippedOf(k) /\ a \notin k.kept
  BY <1>1, <1>4, ArchivesFinite
<1>6. ListedOf(n) = ListedOf(k) \ {a} /\ ListedOf(k) \in SUBSET Archives /\ a \in ListedOf(k)
  BY <1>1, <1>2, <1>3, <1>4, <1>5 DEF ListedOf
<1>7. SumFunctionOnSet(k.sizes, ListedOf(k))
        = k.sizes[a] + SumFunctionOnSet(k.sizes, ListedOf(k) \ {a})
  BY <1>6, SumsOfSizes
<1>8. /\ SumFunctionOnSet(k.sizes, ListedOf(k)) \in Nat
      /\ SumFunctionOnSet(k.sizes, ListedOf(k) \ {a}) \in Nat
  BY <1>6, SumsOfSizes
<1>9. k.sizes[a] \in Nat /\ k.total \in Nat
  BY <1>1, GuardAssumption DEF CleanerRecord
<1>10. SumFunctionOnSet(k.sizes, ListedOf(k)) <= k.total
  BY DEF Limits, Accounted
<1>11. SumFunctionOnSet(k.sizes, ListedOf(k) \ {a}) <= t /\ t \in Nat /\ t <= k.total
  BY <1>7, <1>8, <1>9, <1>10
<1>12. n \in CleanerRecord
  BY <1>11 DEF CleanerRecord
<1>13. Accounted(n)
  BY <1>2, <1>6, <1>11 DEF Accounted
<1>14. Divided(n)
  BY <1>1, <1>2, <1>3, <1>4 DEF Limits, Divided
<1>15. Justified(n, R)
  BY <1>2, <1>9, <1>11, GuardAssumption DEF Limits, Justified
<1> QED
  BY <1>2, <1>12, <1>13, <1>14, <1>15 DEF Limits, Guarded

\* It is kept, being read or within the limits.
LEMMA KeptLimits ==
  ASSUME NEW k \in CleanerRecord, NEW R, Limits(k, R), k.pc = "dispose", NEW a,
         a = Oldest(k.todo), k.spared \/ (k.total <= SizeLimit /\ a > k.due),
         NEW n, n = [k EXCEPT !.pc = "visit", !.todo = @ \ {a}, !.kept = @ \cup {a},
                              !.spared = FALSE]
  PROVE  n \in CleanerRecord /\ Limits(n, R)
<1>1. a \in k.todo /\ a \in Archives /\ k.todo \in SUBSET Archives /\ \A b \in k.todo : a <= b
  BY OldestIn DEF Limits, Divided, CleanerRecord
<1>2. /\ n.pc = "visit" /\ n.todo = k.todo \ {a} /\ n.kept = k.kept \cup {a}
      /\ n.sizes = k.sizes /\ n.total = k.total /\ n.due = k.due
      /\ n \in CleanerRecord
  BY <1>1 DEF CleanerRecord
<1>3. SkippedOf(n) = SkippedOf(k)
  BY <1>2 DEF SkippedOf
<1>4. ListedOf(n) = ListedOf(k)
  BY <1>1, <1>2, <1>3 DEF ListedOf
<1>5. Accounted(n)
  BY <1>2, <1>4 DEF Limits, Accounted
<1>6. \A b \in k.todo \ {a} : a < b
  BY <1>1, ArchivesFinite
<1>7. Divided(n)
  BY <1>1, <1>2, <1>3, <1>6 DEF Limits, Divided
<1>8. Justified(n, R)
  BY <1>2 DEF Limits, Justified, Guarded
<1> QED
  BY <1>2, <1>5, <1>7, <1>8 DEF Limits, Guarded

\* One of those kept is removed for their number.
LEMMA LimitedLimits ==
  ASSUME NEW k \in CleanerRecord, NEW R, Limits(k, R), k.pc = "visit", NEW a,
         NEW n, n = [k EXCEPT !.kept = @ \ {a}]
  PROVE  n \in CleanerRecord /\ Limits(n, R)
<1>1. /\ n.pc = "visit" /\ n.todo = k.todo /\ n.kept = k.kept \ {a} /\ n.sizes = k.sizes
      /\ n.total = k.total /\ n.due = k.due /\ n \in CleanerRecord
  BY DEF CleanerRecord
<1>2. SkippedOf(n) = SkippedOf(k)
  BY <1>1 DEF SkippedOf
<1>3. /\ ListedOf(n) \in SUBSET Archives /\ ListedOf(k) \in SUBSET Archives
      /\ ListedOf(n) \subseteq ListedOf(k)
  BY <1>1, <1>2 DEF ListedOf, Limits, Divided, CleanerRecord
<1>4. /\ SumFunctionOnSet(k.sizes, ListedOf(n)) \in Nat
      /\ SumFunctionOnSet(k.sizes, ListedOf(k)) \in Nat
      /\ SumFunctionOnSet(k.sizes, ListedOf(n)) <= SumFunctionOnSet(k.sizes, ListedOf(k))
  BY <1>3, SumsOfSizes
<1>5. SumFunctionOnSet(k.sizes, ListedOf(k)) <= k.total /\ k.total \in Nat
  BY DEF Limits, Accounted, CleanerRecord
<1>6. Accounted(n)
  BY <1>1, <1>4, <1>5 DEF Accounted
<1>7. Divided(n) /\ Justified(n, R) /\ Guarded(n, R)
  BY <1>1, <1>2 DEF Limits, Divided, Justified, Guarded
<1> QED
  BY <1>1, <1>6, <1>7 DEF Limits

-----------------------------------------------------------------------------
(* Every step keeps to the limits.                                         *)

\* The readers, as TypeOK has them.
ReaderStates == {"none", "registered", "open", "unreadable", "cleaned", "limited", "removed"}
ReaderRecord == [file : 0 .. MaxArchive, state : ReaderStates]

LEMMA InitLimits == Init => LimitInv
<1> SUFFICES ASSUME Init PROVE LimitInv
  OBVIOUS
<1> USE GuardAssumption DEF Init
<1>1. \A c \in Cleaners : cleaner[c] = Idle
  OBVIOUS
<1>2. cleaner \in [Cleaners -> CleanerRecord]
  BY IdleLimits
<1>3. \A c \in Cleaners : Limits(cleaner[c], reading)
  BY <1>1, IdleLimits
<1>4. NoReader \in [file : 0 .. MaxArchive,
                    state : {"none", "registered", "open", "unreadable",
                             "cleaned", "limited", "removed"}]
  BY DEF NoReader
<1>5. TypeOK
  BY <1>2, <1>4 DEF TypeOK, NoRemoval, CleanerRecord
<1>6. Locked
  BY <1>1 DEF Locked, Idle
<1> QED
  BY <1>3, <1>5, <1>6 DEF LimitInv

\* What a removal leaves of the types.
LEMMA RemoveTypes ==
  ASSUME TypeOK, NEW a, NEW how \in ReaderStates, Remove(a, how)
  PROVE  /\ size' \in [Archives -> 0 .. MaxSize]
         /\ reader' \in [Readers -> ReaderRecord]
<1>1. size \in [Archives -> 0 .. MaxSize] /\ reader \in [Readers -> ReaderRecord]
  BY DEF TypeOK, ReaderRecord, ReaderStates
<1>2. size' \in [Archives -> 0 .. MaxSize]
  <2>1. 0 \in 0 .. MaxSize
    BY GuardAssumption
  <2> QED
    BY <1>1, <2>1 DEF Remove
<1>3. \A r \in Readers : (IF reader[r] = [file |-> a, state |-> "open"]
                            THEN [reader[r] EXCEPT !.state = how] ELSE reader[r]) \in ReaderRecord
  BY <1>1 DEF ReaderRecord
<1>4. reader' \in [Readers -> ReaderRecord]
  BY <1>3 DEF Remove
<1> QED
  BY <1>2, <1>4

\* A step that leaves the cleanups and their lock alone, and the set of those
\* being read unless the lock is free.
LEMMA OthersLimits ==
  ASSUME LimitInv, TypeOK', UNCHANGED <<cleaner, holder>>, holder = {} \/ reading' = reading
  PROVE  LimitInv'
<1>1. Locked'
  BY DEF LimitInv, Locked
<1>2. \A c \in Cleaners : Limits(cleaner[c], reading')
  <2> SUFFICES ASSUME NEW c \in Cleaners PROVE Limits(cleaner[c], reading')
    OBVIOUS
  <2>1. Limits(cleaner[c], reading)
    BY DEF LimitInv
  <2>2. CASE reading' = reading
    BY <2>1, <2>2
  <2>3. CASE holder = {}
    <3>1. cleaner[c].pc \in {"idle", "listed"}
      BY <2>3 DEF LimitInv, Locked, TypeOK
    <3> QED
      BY <2>1, <3>1 DEF Limits, Justified, Guarded
  <2> QED
    BY <2>2, <2>3
<1> QED
  BY <1>1, <1>2 DEF LimitInv

\* A step of one cleanup to a record k.
LEMMA CleanupLimits ==
  ASSUME LimitInv, NEW c \in Cleaners, NEW k \in CleanerRecord, Limits(k, reading),
         cleaner' = [cleaner EXCEPT ![c] = k], UNCHANGED <<reading, made, removal>>,
         size' \in [Archives -> 0 .. MaxSize], reader' \in [Readers -> ReaderRecord],
         holder' \in {{}} \cup {{d} : d \in Cleaners},
         k.pc \in {"visit", "dispose"} => holder' = {c},
         \A d \in Cleaners \ {c} : cleaner[d].pc \in {"visit", "dispose"} => holder' = {d}
  PROVE  LimitInv'
<1>1. cleaner \in [Cleaners -> CleanerRecord]
  BY DEF LimitInv, TypeOK, CleanerRecord
<1>2. cleaner' \in [Cleaners -> CleanerRecord]
  BY <1>1
<1>3. \A d \in Cleaners : cleaner'[d] = IF d = c THEN k ELSE cleaner[d]
  BY <1>1
<1>4. TypeOK'
  BY <1>2 DEF LimitInv, TypeOK, CleanerRecord, ReaderRecord, ReaderStates
<1>5. Locked'
  BY <1>3 DEF Locked
<1>6. \A d \in Cleaners : Limits(cleaner'[d], reading')
  BY <1>3 DEF LimitInv
<1> QED
  BY <1>4, <1>5, <1>6 DEF LimitInv

\* ... which has the lock and keeps it.
LEMMA HolderLimits ==
  ASSUME LimitInv, NEW c \in Cleaners, NEW k \in CleanerRecord, Limits(k, reading),
         cleaner[c].pc \in {"visit", "dispose"},
         cleaner' = [cleaner EXCEPT ![c] = k], UNCHANGED <<reading, made, removal, holder>>,
         size' \in [Archives -> 0 .. MaxSize], reader' \in [Readers -> ReaderRecord]
  PROVE  LimitInv'
<1>1. holder = {c} /\ \A d \in Cleaners \ {c} : cleaner[d].pc \notin {"visit", "dispose"}
  BY DEF LimitInv, Locked
<1> QED
  BY <1>1, CleanupLimits

LEMMA CleanerFacts ==
  ASSUME LimitInv, NEW c \in Cleaners
  PROVE  /\ cleaner[c] \in CleanerRecord /\ Limits(cleaner[c], reading)
         /\ made \in 0 .. MaxArchive /\ size \in [Archives -> 0 .. MaxSize]
         /\ reader \in [Readers -> ReaderRecord]
         /\ holder \in {{}} \cup {{d} : d \in Cleaners}
         /\ cleaner \in [Cleaners -> CleanerRecord]
BY DEF LimitInv, TypeOK, CleanerRecord, ReaderRecord, ReaderStates

LEMMA CollectLimits ==
  ASSUME LimitInv, NEW c \in Cleaners, Collect(c)
  PROVE  LimitInv'
<1> DEFINE k == [Idle EXCEPT !.pc = "listed", !.todo = Present \ {Newest(Present)},
                             !.sizes = size, !.total = SumFunction(size)]
<1>1. cleaner' = [cleaner EXCEPT ![c] = k] /\ Cardinality(Present) > 1
  BY DEF Collect
<1>2. k.pc = "listed"
  BY DEF Idle
<1> HIDE DEF k
<1>3. k \in CleanerRecord /\ Limits(k, reading)
  BY <1>1, ListedLimits DEF LimitInv, k
<1>4. UNCHANGED <<size, made, reading, holder, reader, removal>>
  BY DEF Collect
<1>5. \A d \in Cleaners \ {c} : cleaner[d].pc \in {"visit", "dispose"} => holder' = {d}
  BY <1>4 DEF LimitInv, Locked
<1> QED
  BY <1>1, <1>2, <1>3, <1>4, <1>5, CleanerFacts, CleanupLimits

LEMMA LockStep ==
  ASSUME LimitInv, NEW c \in Cleaners, Lock(c)
  PROVE  LimitInv'
<1> PICK d \in 0 .. made :
      cleaner' = [cleaner EXCEPT ![c].pc = "visit", ![c].due = d]
  BY DEF Lock
<1> DEFINE k == [cleaner[c] EXCEPT !.pc = "visit", !.due = d]
<1>1. cleaner' = [cleaner EXCEPT ![c] = k]
  BY CleanerFacts
<1>2. d \in 0 .. MaxArchive
  BY CleanerFacts, GuardAssumption
<1>3. cleaner[c].pc = "listed"
  BY DEF Lock, Step
<1>4. k \in CleanerRecord /\ Limits(k, reading)
  BY <1>2, <1>3, CleanerFacts, LockLimits
<1> HIDE DEF k
<1>5. /\ UNCHANGED <<size, made, reading, reader, removal>> /\ holder = {} /\ holder' = {c}
  BY DEF Lock
<1>6. \A e \in Cleaners \ {c} : cleaner[e].pc \notin {"visit", "dispose"}
  BY <1>5 DEF LimitInv, Locked
<1> QED
  BY <1>1, <1>4, <1>5, <1>6, CleanerFacts, CleanupLimits

LEMMA VisitStep ==
  ASSUME LimitInv, NEW c \in Cleaners, Visit(c)
  PROVE  LimitInv'
<1> DEFINE k == [cleaner[c] EXCEPT !.pc = "dispose", !.spared = Oldest(cleaner[c].todo) \in reading]
<1>1. cleaner' = [cleaner EXCEPT ![c] = k]
  BY CleanerFacts DEF Visit
<1>2. cleaner[c].pc = "visit" /\ cleaner[c].todo # {}
  BY DEF Visit, Step
<1>3. k \in CleanerRecord /\ Limits(k, reading)
  <2> DEFINE s == Oldest(cleaner[c].todo) \in reading
  <2>1. s \in BOOLEAN
    OBVIOUS
  <2>2. cleaner[c] \in CleanerRecord /\ Limits(cleaner[c], reading)
    BY CleanerFacts
  <2>3. s <=> Oldest(cleaner[c].todo) \in reading
    OBVIOUS
  <2>4. k = [cleaner[c] EXCEPT !.pc = "dispose", !.spared = s]
    OBVIOUS
  <2> HIDE DEF s, k
  <2> QED
    BY <1>2, <2>1, <2>2, <2>3, <2>4, VisitLimits
<1> HIDE DEF k
<1>4. UNCHANGED <<size, made, reading, holder, reader, removal>>
  BY DEF Visit
<1> QED
  BY <1>1, <1>2, <1>3, <1>4, CleanerFacts, HolderLimits

LEMMA DisposeStep ==
  ASSUME LimitInv, NEW c \in Cleaners, Shrink(c) \/ Retire(c)
  PROVE  LimitInv'
<1> DEFINE a == Oldest(cleaner[c].todo)
           t == IF Shrink(c) THEN cleaner[c].total - cleaner[c].sizes[a] ELSE cleaner[c].total
           k == [cleaner[c] EXCEPT !.pc = "visit", !.todo = @ \ {a}, !.total = t]
<1>1. cleaner[c] \in CleanerRecord /\ cleaner \in [Cleaners -> CleanerRecord]
  BY CleanerFacts
<1>2. cleaner' = [cleaner EXCEPT ![c] = k]
  <2>1. CASE Shrink(c)
    <3>1. k = [cleaner[c] EXCEPT !.pc = "visit", !.todo = @ \ {a},
                                 !.total = @ - cleaner[c].sizes[a]]
      BY <2>1
    <3>2. cleaner' = [cleaner EXCEPT ![c].pc = "visit", ![c].todo = @ \ {a},
                                     ![c].total = @ - cleaner[c].sizes[a]]
      BY <2>1 DEF Shrink
    <3> HIDE DEF k, a
    <3> QED
      BY <1>1, <3>1, <3>2
  <2>2. CASE Retire(c) /\ ~Shrink(c)
    <3>1. k = [cleaner[c] EXCEPT !.pc = "visit", !.todo = @ \ {a}]
      BY <1>1, <2>2 DEF CleanerRecord
    <3>2. cleaner' = [cleaner EXCEPT ![c].pc = "visit", ![c].todo = @ \ {a}]
      BY <2>2 DEF Retire
    <3> HIDE DEF k, a
    <3> QED
      BY <1>1, <3>1, <3>2
  <2> QED
    BY <2>1, <2>2
<1>3. cleaner[c].pc = "dispose"
  BY DEF Shrink, Retire, Step
<1>4. t \in {cleaner[c].total, cleaner[c].total - cleaner[c].sizes[a]}
  OBVIOUS
<1> HIDE DEF t
<1>5. k \in CleanerRecord /\ Limits(k, reading)
  BY <1>3, <1>4, CleanerFacts, DisposedLimits
<1> HIDE DEF k
<1>6. Remove(a, "cleaned") /\ UNCHANGED <<made, reading, holder, removal>>
  BY DEF Shrink, Retire
<1> HIDE DEF a
<1>7. "cleaned" \in ReaderStates
  BY DEF ReaderStates
<1>8. size' \in [Archives -> 0 .. MaxSize] /\ reader' \in [Readers -> ReaderRecord]
  BY <1>6, <1>7, RemoveTypes DEF LimitInv
<1> QED
  BY <1>2, <1>3, <1>5, <1>6, <1>8, HolderLimits

\* What is kept is being read, or the total is within the limit and it is not overdue.
LEMMA KeepStep ==
  ASSUME LimitInv, NEW c \in Cleaners, Keep(c)
  PROVE  LimitInv'
<1> DEFINE a == Oldest(cleaner[c].todo)
           k == [cleaner[c] EXCEPT !.pc = "visit", !.todo = @ \ {a}, !.kept = @ \cup {a},
                                   !.spared = FALSE]
<1>1. cleaner' = [cleaner EXCEPT ![c] = k]
  BY CleanerFacts DEF Keep
<1>2. cleaner[c].pc = "dispose"
  BY DEF Keep, Step
<1>3. cleaner[c].spared \/ (cleaner[c].total <= SizeLimit /\ a > cleaner[c].due)
  <2>1. cleaner[c].spared \/ (~(cleaner[c].total > SizeLimit) /\ ~(a <= cleaner[c].due))
    BY DEF Keep, Oversize, Overdue
  <2>2. /\ cleaner[c].total \in Nat /\ cleaner[c].due \in Nat
        /\ cleaner[c].todo \in SUBSET Archives /\ cleaner[c].todo # {}
    BY <1>2, CleanerFacts, GuardAssumption DEF CleanerRecord, Limits, Divided
  <2>3. a \in Nat
    BY <2>2, OldestIn, ArchivesFinite
  <2> HIDE DEF a
  <2> QED
    BY <2>1, <2>2, <2>3, GuardAssumption
<1>4. k \in CleanerRecord /\ Limits(k, reading)
  BY <1>2, <1>3, CleanerFacts, KeptLimits
<1> HIDE DEF k
<1>5. UNCHANGED <<size, made, reading, holder, reader, removal>>
  BY DEF Keep
<1> QED
  BY <1>1, <1>2, <1>4, <1>5, CleanerFacts, HolderLimits

LEMMA LimitStep ==
  ASSUME LimitInv, NEW c \in Cleaners, LimitNumber(c)
  PROVE  LimitInv'
<1> DEFINE a == Oldest(cleaner[c].kept)
           k == [cleaner[c] EXCEPT !.kept = @ \ {a}]
<1>1. cleaner' = [cleaner EXCEPT ![c] = k]
  BY CleanerFacts DEF LimitNumber
<1>2. cleaner[c].pc = "visit"
  BY DEF LimitNumber, Step
<1>3. k \in CleanerRecord /\ Limits(k, reading)
  BY <1>2, CleanerFacts, LimitedLimits
<1> HIDE DEF k
<1>4. Remove(a, "limited") /\ UNCHANGED <<made, reading, holder, removal>>
  BY DEF LimitNumber
<1> HIDE DEF a
<1>5. "limited" \in ReaderStates
  BY DEF ReaderStates
<1>6. size' \in [Archives -> 0 .. MaxSize] /\ reader' \in [Readers -> ReaderRecord]
  BY <1>4, <1>5, RemoveTypes DEF LimitInv
<1> QED
  BY <1>1, <1>2, <1>3, <1>4, <1>6, HolderLimits

LEMMA UnlockStep ==
  ASSUME LimitInv, NEW c \in Cleaners, Unlock(c)
  PROVE  LimitInv'
<1>1. /\ cleaner' = [cleaner EXCEPT ![c] = Idle] /\ holder' = {} /\ cleaner[c].pc = "visit"
      /\ UNCHANGED <<size, made, reading, reader, removal>>
  BY DEF Unlock, Step
<1>2. \A d \in Cleaners \ {c} : cleaner[d].pc \notin {"visit", "dispose"}
  BY <1>1 DEF LimitInv, Locked
<1>3. Idle.pc = "idle"
  BY DEF Idle
<1> QED
  BY <1>1, <1>2, <1>3, IdleLimits, CleanerFacts, CleanupLimits

-----------------------------------------------------------------------------
LEMMA ReaderStep ==
  ASSUME LimitInv, NEW r \in Readers, Reader(r)
  PROVE  LimitInv'
<1>1. reader \in [Readers -> ReaderRecord] /\ reading \subseteq Archives
  BY DEF LimitInv, TypeOK, ReaderRecord, ReaderStates
<1>2. NoReader \in ReaderRecord
  BY GuardAssumption DEF NoReader, ReaderRecord, ReaderStates
<1>3. ASSUME reader' \in [Readers -> ReaderRecord], reading' \subseteq Archives,
             UNCHANGED <<size, made, holder, cleaner, removal>>
      PROVE  TypeOK'
  BY <1>3 DEF LimitInv, TypeOK, ReaderRecord, ReaderStates
<1>4. ASSUME NEW a \in Archives, Register(r, a) PROVE LimitInv'
  <2>1. [file |-> a, state |-> "registered"] \in ReaderRecord
    BY GuardAssumption DEF ReaderRecord, ReaderStates, Archives
  <2>2. reader' \in [Readers -> ReaderRecord] /\ reading' \subseteq Archives
    BY <1>1, <1>4, <2>1 DEF Register
  <2> QED
    BY <1>3, <1>4, <2>2, OthersLimits DEF Register
<1>5. CASE OpenThrows(r)
  <2>1. reader' \in [Readers -> ReaderRecord]
    BY <1>1, <1>2, <1>5 DEF OpenThrows
  <2> QED
    BY <1>1, <1>3, <1>5, <2>1, OthersLimits DEF OpenThrows
<1>6. CASE OpenFile(r)
  <2>1. \A st \in {"open", "unreadable"} : [reader[r] EXCEPT !.state = st] \in ReaderRecord
    BY <1>1 DEF ReaderRecord, ReaderStates
  <2>2. reader' = [reader EXCEPT ![r] = [reader[r] EXCEPT !.state =
                     IF size[reader[r].file] > 0 THEN "open" ELSE "unreadable"]]
    BY <1>1, <1>6 DEF OpenFile
  <2>3. reader' \in [Readers -> ReaderRecord]
    BY <1>1, <2>1, <2>2
  <2> QED
    BY <1>1, <1>3, <1>6, <2>3, OthersLimits DEF OpenFile
<1>7. CASE CloseReader(r)
  <2>1. reader' \in [Readers -> ReaderRecord] /\ reading' \subseteq Archives
    BY <1>1, <1>2, <1>7 DEF CloseReader
  <2> QED
    BY <1>3, <1>7, <2>1, OthersLimits DEF CloseReader
<1> QED
  BY <1>4, <1>5, <1>6, <1>7 DEF Reader

LEMMA WriterStep ==
  ASSUME LimitInv, Writer
  PROVE  LimitInv'
<1>1. size \in [Archives -> 0 .. MaxSize] /\ made \in 0 .. MaxArchive
  BY DEF LimitInv, TypeOK
<1>2. size' \in [Archives -> 0 .. MaxSize] /\ made' \in 0 .. MaxArchive
  <2>1. CASE NewArchive
    <3>1. PICK n \in 1 .. MaxSize : size' = [size EXCEPT ![made + 1] = n]
      BY <2>1 DEF NewArchive
    <3>2. n \in 0 .. MaxSize
      BY GuardAssumption
    <3>3. made' = made + 1 /\ made < MaxArchive
      BY <2>1 DEF NewArchive
    <3>4. size' \in [Archives -> 0 .. MaxSize]
      BY <1>1, <3>1, <3>2
    <3> QED
      BY <1>1, <3>3, <3>4, GuardAssumption
  <2>2. CASE AppendArchive
    <3>1. made \in Archives /\ size' = [size EXCEPT ![made] = @ + 1] /\ made' = made
          /\ size[made] < MaxSize
      BY <1>1, <2>2, GuardAssumption DEF AppendArchive, Archives
    <3>2. size[made] + 1 \in 0 .. MaxSize
      BY <1>1, <3>1, GuardAssumption
    <3> QED
      BY <1>1, <3>1, <3>2
  <2> QED
    BY <2>1, <2>2 DEF Writer
<1>3. UNCHANGED <<reading, holder, reader, cleaner, removal>>
  BY DEF Writer, NewArchive, AppendArchive
<1>4. TypeOK'
  BY <1>2, <1>3 DEF LimitInv, TypeOK
<1> QED
  BY <1>3, <1>4, OthersLimits

LEMMA RemovalStep ==
  ASSUME LimitInv, Removal
  PROVE  LimitInv'
<1> USE DEF LimitInv
<1>1. "removed" \in ReaderStates
  BY DEF ReaderStates
<1>2. ASSUME NEW a, Remove(a, "removed") \/ UNCHANGED <<size, reader>>
      PROVE  size' \in [Archives -> 0 .. MaxSize] /\ reader' \in [Readers -> ReaderRecord]
  BY <1>1, <1>2, RemoveTypes DEF TypeOK, ReaderRecord, ReaderStates
<1>3. removal \in [pc : {"idle", "removing"}, todo : SUBSET Archives, forced : BOOLEAN]
  BY DEF TypeOK
<1>4. UNCHANGED <<made, reading, holder, cleaner>>
  BY DEF Removal, RemoveFile, RemoveReadFile, RemoveNext, RemoveAll, RemovedAll
<1>5. /\ size' \in [Archives -> 0 .. MaxSize] /\ reader' \in [Readers -> ReaderRecord]
  <2>1. CASE \E a \in Archives : RemoveFile(a) \/ RemoveReadFile(a) \/ RemoveNext(a)
    BY <1>2, <2>1 DEF RemoveFile, RemoveReadFile, RemoveNext
  <2>2. CASE RemoveAll \/ RemovedAll
    BY <1>2, <2>2 DEF RemoveAll, RemovedAll
  <2> QED
    BY <2>1, <2>2 DEF Removal
<1>6. removal' \in [pc : {"idle", "removing"}, todo : SUBSET Archives, forced : BOOLEAN]
  <2>1. CASE \E a \in Archives : RemoveFile(a) \/ RemoveReadFile(a)
    BY <1>3, <2>1 DEF RemoveFile, RemoveReadFile
  <2>2. CASE \E a \in Archives : RemoveNext(a)
    <3>1. PICK a \in Archives : removal' = [removal EXCEPT !.todo = @ \ {a}]
      BY <2>2 DEF RemoveNext
    <3> QED
      BY <1>3, <3>1
  <2>3. CASE RemoveAll
    <3>1. Present \in SUBSET Archives
      BY DEF Present
    <3> QED
      BY <2>3, <3>1 DEF RemoveAll
  <2>4. CASE RemovedAll
    BY <2>4 DEF RemovedAll, NoRemoval
  <2> QED
    BY <2>1, <2>2, <2>3, <2>4 DEF Removal
<1>7. TypeOK'
  BY <1>4, <1>5, <1>6 DEF TypeOK, ReaderRecord, ReaderStates
<1> QED
  BY <1>4, <1>7, OthersLimits

LEMMA NextLimits == LimitInv /\ [Next]_vars => LimitInv'
<1> SUFFICES ASSUME LimitInv, [Next]_vars PROVE LimitInv'
  OBVIOUS
<1>1. CASE Writer
  BY <1>1, WriterStep
<1>2. CASE \E r \in Readers : Reader(r)
  BY <1>2, ReaderStep
<1>3. CASE \E c \in Cleaners : Cleanup(c)
  BY <1>3, CollectLimits, LockStep, VisitStep, DisposeStep, KeepStep, LimitStep,
     UnlockStep DEF Cleanup
<1>4. CASE Removal
  BY <1>4, RemovalStep
<1>5. CASE UNCHANGED vars
  <2>1. TypeOK'
    BY <1>5 DEF LimitInv, TypeOK, vars
  <2> QED
    BY <1>5, <2>1, OthersLimits DEF vars
<1> QED
  BY <1>1, <1>2, <1>3, <1>4, <1>5 DEF Next

\* Once the first loop is through, what a cleanup kept is within the limit or
\* being read.
LEMMA LimitsKept == LimitInv => WithinLimit
<1> SUFFICES ASSUME LimitInv, NEW c \in Cleaners, Step(c, "visit"), cleaner[c].todo = {},
                    ~(cleaner[c].kept \subseteq reading)
             PROVE  SumFunctionOnSet(cleaner[c].sizes, cleaner[c].kept \cup {Skipped(c)}) <= SizeLimit
  BY DEF WithinLimit
<1> DEFINE k == cleaner[c]
<1>1. k \in CleanerRecord /\ Limits(k, reading) /\ k.pc = "visit"
  BY CleanerFacts DEF Step
<1>2. k.total <= SizeLimit /\ k.total \in Nat
  BY <1>1 DEF Limits, Justified, CleanerRecord
<1>3. ListedOf(k) = k.kept \cup {Skipped(c)}
  BY DEF ListedOf, SkippedOf, Skipped
<1>4. SumFunctionOnSet(k.sizes, ListedOf(k)) <= k.total
  BY <1>1 DEF Limits, Accounted
<1>5. SumFunctionOnSet(k.sizes, ListedOf(k)) \in Nat
  <2>1. ListedOf(k) \in SUBSET Archives
    BY <1>1 DEF ListedOf, Limits, Divided, CleanerRecord
  <2> QED
    BY <1>1, <2>1, SumsOfSizes
<1>6. SumFunctionOnSet(k.sizes, ListedOf(k)) <= SizeLimit
  BY <1>2, <1>4, <1>5, GuardAssumption
<1> QED
  BY <1>3, <1>6

\* An archive goes for its size or its age only if all it kept is being read: had
\* one of those been kept for the limits, the total would be within them still, or
\* the younger one not overdue.
LEMMA OlderAreRead ==
  ASSUME LimitInv, [Next]_vars, NEW c \in Cleaners, Step(c, "dispose"),
         cleaner'[c].pc = "visit", cleaner'[c].kept = cleaner[c].kept
  PROVE  cleaner[c].kept \subseteq reading
<1> DEFINE k == cleaner[c]
           a == Oldest(k.todo)
<1>1. k \in CleanerRecord /\ Limits(k, reading) /\ k.pc = "dispose"
  BY CleanerFacts DEF Step
<1>2. k.todo \in SUBSET Archives /\ k.todo # {} /\ k.kept \in SUBSET Archives
  BY <1>1 DEF Limits, Divided, CleanerRecord
<1>3. a \in k.todo /\ a \in Nat
  BY <1>2, OldestIn, ArchivesFinite
<1>4. \A b \in k.kept : b < a /\ b \in Nat
  BY <1>1, <1>2, <1>3, ArchivesFinite DEF Limits, Divided
<1>5. k.total \in Nat /\ k.due \in Nat
  BY <1>1, GuardAssumption DEF CleanerRecord
<1>6. \A b \in k.kept : b \in reading \/ (k.total <= SizeLimit /\ b > k.due)
  BY <1>1 DEF Limits, Justified
<1>7. CASE Shrink(c) \/ Retire(c)
  <2>1. k.total > SizeLimit \/ a <= k.due
    BY <1>7 DEF Shrink, Retire, Oversize, Overdue
  <2> HIDE DEF a, k
  <2>2. ASSUME NEW b \in k.kept PROVE b \in reading
    BY <1>4, <1>3, <1>5, <1>6, <2>1, <2>2, GuardAssumption
  <2> QED
    BY <2>2 DEF k
<1>8. CASE Keep(c)
  <2>1. a \notin k.kept
    BY <1>3, <1>4
  <2>2. cleaner'[c].kept = k.kept \cup {a}
    BY <1>1, <1>8, CleanerFacts DEF Keep, CleanerRecord
  <2> QED
    BY <2>1, <2>2
<1>9. CASE cleaner'[c] = cleaner[c]
  BY <1>1, <1>9
<1>10. Shrink(c) \/ Retire(c) \/ Keep(c) \/ cleaner'[c] = cleaner[c]
  <2>1. CASE \E d \in Cleaners : Cleanup(d)
    <3>1. PICK d \in Cleaners : Cleanup(d)
      BY <2>1
    <3>2. CASE d = c
      BY <1>1, <3>1, <3>2 DEF Cleanup, Collect, Lock, Visit, LimitNumber, Unlock, Step
    <3>3. CASE d # c
      BY <3>1, <3>3, CleanerFacts
         DEF Cleanup, Collect, Lock, Visit, Shrink, Retire, Keep, LimitNumber, Unlock
    <3> QED
      BY <3>2, <3>3
  <2>2. CASE Writer
    BY <2>2 DEF Writer, NewArchive, AppendArchive
  <2>3. CASE \E r \in Readers : Reader(r)
    BY <2>3 DEF Reader, Register, OpenThrows, OpenFile, CloseReader
  <2>4. CASE Removal
    BY <2>4 DEF Removal, RemoveFile, RemoveReadFile, RemoveNext, RemoveAll, RemovedAll
  <2>5. CASE UNCHANGED vars
    BY <2>5 DEF vars
  <2> QED
    BY <2>1, <2>2, <2>3, <2>4, <2>5 DEF Next
<1> QED
  BY <1>7, <1>8, <1>9, <1>10

\* Every variable keeps its type; in particular the total cleanupSafely counts
\* down by the sizes it listed, an unsigned number, never goes below zero.
THEOREM GuardTypes == Spec => []TypeOK
<1>1. LimitInv => TypeOK
  BY DEF LimitInv
<1> QED
  BY <1>1, InitLimits, NextLimits, PTL DEF Spec

\* Once its first loop is through, the archives cleanupSafely kept and the one it
\* skipped are within the size limit by the sizes it listed, unless readers hold
\* all it kept: whatever the sizes and the limits, and however many cleanups and
\* readers there are.
THEOREM CleanupWithinLimit == Spec => []WithinLimit
BY InitLimits, NextLimits, LimitsKept, PTL DEF Spec

\* cleanupSafely removes the oldest archives first: none goes for its size or its
\* age while an older one it kept is not being read.
THEOREM CleanupOldestFirst == Spec => OldestFirst
<1>1. LimitInv /\ [Next]_vars =>
        [\A c \in Cleaners :
           Step(c, "dispose") /\ cleaner'[c].pc = "visit" /\ cleaner'[c].kept = cleaner[c].kept
             => cleaner[c].kept \subseteq reading]_vars
  BY OlderAreRead
<1> QED
  BY <1>1, InitLimits, NextLimits, PTL DEF Spec, OldestFirst

\* The loops of cleanupSafely run one cleanup at a time, and what a cleanup
\* found out about an archive under m_readingArchivesLock is still true when it
\* disposes of it.
THEOREM LoopsAreExclusive == Spec => [](Locked /\ Current)
<1>1. LimitInv => Locked /\ Current
  BY DEF LimitInv, Limits, Guarded, Current
<1> QED
  BY <1>1, InitLimits, NextLimits, PTL DEF Spec

-----------------------------------------------------------------------------
(* The readers, when no two share an archive.                              *)

Busy(r) == reader[r].state # "none"

\* A reader that is not closed has its name in the set, and no other reader has.
Entered == /\ \A r \in Readers : Busy(r) => reader[r].file \in reading
           /\ \A r \in Readers : ~Busy(r) <=> reader[r] = NoReader
           /\ \A r, s \in Readers : Busy(r) /\ Busy(s) /\ r # s => reader[r].file # reader[s].file

GuardInv == LimitInv /\ Entered /\ SparesReader

LEMMA InitGuard == Init => Entered /\ SparesReader
BY DEF Init, Entered, Busy, SparesReader, NoReader

\* A removal changes what became of the readers of that archive, not which
\* archive a reader has; readers of an archive that has its name in the set are
\* not cleaned.
LEMMA RemoveReaders ==
  ASSUME GuardInv, NEW a, NEW how \in ReaderStates \ {"none"}, Remove(a, how),
         reading' = reading, how = "cleaned" => a \notin reading
  PROVE  Entered' /\ SparesReader'
<1>1. \A r \in Readers :
        /\ reader[r] \in ReaderRecord
        /\ reader'[r] = IF reader[r] = [file |-> a, state |-> "open"]
                          THEN [reader[r] EXCEPT !.state = how] ELSE reader[r]
  BY DEF GuardInv, LimitInv, TypeOK, ReaderRecord, ReaderStates, Remove
<1>2. \A r \in Readers :
        /\ reader'[r].file = reader[r].file
        /\ \/ reader'[r] = reader[r]
           \/ /\ reader[r] = [file |-> a, state |-> "open"]
              /\ reader'[r].state = how
  BY <1>1 DEF ReaderRecord
<1>3. \A r \in Readers : (Busy(r)' <=> Busy(r)) /\ reader'[r].file = reader[r].file
  BY <1>2 DEF Busy
<1>4. \A r \in Readers : ~Busy(r) => reader'[r] = reader[r]
  BY <1>2 DEF Busy
<1>5. \A r \in Readers : ~Busy(r)' <=> reader'[r] = NoReader
  BY <1>3, <1>4 DEF GuardInv, Entered, Busy, NoReader
<1>6. Entered'
  BY <1>3, <1>5 DEF GuardInv, Entered
<1>7. \A r \in Readers : reader[r] = [file |-> a, state |-> "open"] => a \in reading
  BY DEF GuardInv, Entered, Busy
<1>8. SparesReader'
  BY <1>2, <1>7 DEF GuardInv, SparesReader
<1> QED
  BY <1>6, <1>8

LEMMA ReaderGuard ==
  ASSUME GuardInv, ~SharedReading, NEW r \in Readers, Reader(r)
  PROVE  Entered' /\ SparesReader'
<1>1. reader \in [Readers -> ReaderRecord]
  BY DEF GuardInv, LimitInv, TypeOK, ReaderRecord, ReaderStates
<1>2. ASSUME NEW a \in Archives, Register(r, a) PROVE Entered' /\ SparesReader'
  <2> DEFINE new == [file |-> a, state |-> "registered"]
  <2>1. /\ reader' = [reader EXCEPT ![r] = new]
        /\ reading' = reading \cup {a}
        /\ \A s \in Readers \ {r} : reader[s].file # a
    BY <1>2 DEF Register, SoleReader
  <2>2. \A s \in Readers : reader'[s] = IF s = r THEN new ELSE reader[s]
    BY <1>1, <2>1
  <2>3. Entered'
    BY <2>1, <2>2 DEF GuardInv, Entered, Busy, NoReader
  <2>4. SparesReader'
    BY <2>2 DEF GuardInv, SparesReader
  <2> QED
    BY <2>3, <2>4
<1>3. CASE OpenFile(r)
  <2> DEFINE st == IF size[reader[r].file] > 0 THEN "open" ELSE "unreadable"
  <2>1. st \in {"open", "unreadable"}
    OBVIOUS
  <2>2. reader' = [reader EXCEPT ![r] = [reader[r] EXCEPT !.state = st]]
    BY <1>1, <1>3 DEF OpenFile
  <2> HIDE DEF st
  <2>3. \A s \in Readers : reader'[s].file = reader[s].file
                        /\ (s # r => reader'[s] = reader[s])
                        /\ (s = r => reader'[s].state = st)
    BY <1>1, <2>2 DEF ReaderRecord
  <2>4. reader[r].state = "registered" /\ reading' = reading
    BY <1>3 DEF OpenFile
  <2>5. \A s \in Readers : Busy(s)' <=> Busy(s)
    BY <2>1, <2>3, <2>4 DEF Busy
  <2>6. \A s \in Readers : ~Busy(s)' <=> reader'[s] = NoReader
    BY <2>1, <2>3, <2>4 DEF Busy, GuardInv, Entered, NoReader
  <2>7. Entered'
    BY <2>3, <2>4, <2>5, <2>6 DEF GuardInv, Entered
  <2>8. SparesReader'
    BY <2>1, <2>3 DEF GuardInv, SparesReader
  <2> QED
    BY <2>7, <2>8
<1>4. CASE OpenThrows(r) \/ CloseReader(r)
  <2>1. \A s \in Readers : reader'[s] = IF s = r THEN NoReader ELSE reader[s]
    BY <1>1, <1>4 DEF OpenThrows, CloseReader
  <2>2. Busy(r) /\ (reading' = reading \/ reading' = reading \ {reader[r].file})
    BY <1>4 DEF OpenThrows, CloseReader, Busy
  <2>3. Entered'
    BY <2>1, <2>2 DEF GuardInv, Entered, Busy, NoReader
  <2>4. SparesReader'
    BY <2>1 DEF GuardInv, SparesReader, NoReader
  <2> QED
    BY <2>3, <2>4
<1> QED
  BY <1>2, <1>3, <1>4 DEF Reader

\* What is disposed of for its size or its age was not in the set when it was
\* looked up, and the set has not changed since.
LEMMA CleanupGuard ==
  ASSUME GuardInv, NEW c \in Cleaners, Cleanup(c)
  PROVE  Entered' /\ SparesReader'
<1>1. {"cleaned", "limited"} \subseteq ReaderStates \ {"none"}
  BY DEF ReaderStates
<1>2. CASE Shrink(c) \/ Retire(c)
  <2>1. /\ cleaner[c].pc = "dispose" /\ ~cleaner[c].spared
        /\ Remove(Oldest(cleaner[c].todo), "cleaned") /\ reading' = reading
    BY <1>2 DEF Shrink, Retire, Step
  <2>2. Oldest(cleaner[c].todo) \notin reading
    BY <2>1, CleanerFacts DEF GuardInv, Limits, Guarded
  <2> QED
    BY <1>1, <2>1, <2>2, RemoveReaders
<1>3. CASE LimitNumber(c)
  BY <1>1, <1>3, RemoveReaders DEF LimitNumber
<1>4. CASE reader' = reader /\ reading' = reading
  BY <1>4 DEF GuardInv, Entered, Busy, SparesReader
<1> QED
  BY <1>2, <1>3, <1>4 DEF Cleanup, Collect, Lock, Visit, Keep, Unlock

LEMMA RemovalGuard ==
  ASSUME GuardInv, Removal
  PROVE  Entered' /\ SparesReader'
<1>1. "removed" \in ReaderStates \ {"none"}
  BY DEF ReaderStates
<1>2. reading' = reading /\ (reader' = reader \/ \E a \in Archives : Remove(a, "removed"))
  BY DEF Removal, RemoveFile, RemoveReadFile, RemoveNext, RemoveAll, RemovedAll
<1>3. CASE reader' = reader
  BY <1>2, <1>3 DEF GuardInv, Entered, Busy, SparesReader
<1> QED
  BY <1>1, <1>2, <1>3, RemoveReaders

LEMMA NextGuard == GuardInv /\ ~SharedReading /\ [Next]_vars => GuardInv'
<1> SUFFICES ASSUME GuardInv, ~SharedReading, [Next]_vars PROVE Entered' /\ SparesReader'
  BY NextLimits DEF GuardInv
<1>1. CASE Writer \/ UNCHANGED vars
  <2>1. reader' = reader /\ reading' = reading
    BY <1>1 DEF Writer, NewArchive, AppendArchive, vars
  <2> QED
    BY <2>1 DEF GuardInv, Entered, Busy, SparesReader
<1>2. CASE \E r \in Readers : Reader(r)
  BY <1>2, ReaderGuard
<1>3. CASE \E c \in Cleaners : Cleanup(c)
  BY <1>3, CleanupGuard
<1>4. CASE Removal
  BY <1>4, RemovalGuard
<1> QED
  BY <1>1, <1>2, <1>3, <1>4 DEF Next

\* The size and age limits of cleanupSafely never remove an archive from under
\* its one reader, however the calls of openReader, closeReader, removeAll,
\* removeArchiveFile and several cleanups interleave.
THEOREM CleanupSparesReader == ASSUME ~SharedReading PROVE Spec => []SparesReader
<1>1. Init => GuardInv
  BY InitLimits, InitGuard DEF GuardInv
<1>2. GuardInv /\ [Next]_vars => GuardInv'
  BY NextGuard
<1>3. GuardInv => SparesReader
  BY DEF GuardInv
<1> QED
  BY <1>1, <1>2, <1>3, PTL DEF Spec
=============================================================================
