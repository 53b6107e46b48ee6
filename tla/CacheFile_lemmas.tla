-------------------------- MODULE CacheFile_lemmas --------------------------
(***************************************************************************)
(* What appending, concatenating and cutting a body does to the logs it    *)
(* holds: the facts the proofs about both ways of archiving rest on.       *)
(***************************************************************************)
EXTENDS CacheFile, SequenceTheorems, FiniteSetTheorems, TLAPS

LEMMA LogsOfEmpty == LogsOf(<<>>) = {}
BY DEF LogsOf

LEMMA LogsOfIndexed ==
  ASSUME NEW b \in Seq(Nat)
  PROVE  /\ LogsOf(b) = {b[i] : i \in 1 .. Len(b)} \ {Gap}
         /\ LogsOf(b) \subseteq Nat
BY LenProperties, ElementOfSeq DEF LogsOf

\* A new record adds its log; a gap adds nothing.
LEMMA LogsOfAppend ==
  ASSUME NEW b \in Seq(Nat), NEW x \in Nat
  PROVE  /\ Append(b, x) \in Seq(Nat)
         /\ LogsOf(Append(b, x)) = LogsOf(b) \cup ({x} \ {Gap})
<1>1. /\ Append(b, x) \in Seq(Nat)
      /\ Len(Append(b, x)) = Len(b) + 1
      /\ \A i \in 1 .. Len(b) : Append(b, x)[i] = b[i]
      /\ Append(b, x)[Len(b) + 1] = x
  BY AppendProperties
<1> DEFINE a == Append(b, x)
<1>2. Len(b) \in Nat
  BY LenProperties
<1>3. LogsOf(a) = {a[i] : i \in 1 .. Len(a)} \ {Gap}
  BY <1>1, LogsOfIndexed
<1>4. LogsOf(b) = {b[i] : i \in 1 .. Len(b)} \ {Gap}
  BY LogsOfIndexed
<1> HIDE DEF a
<1>5. {a[i] : i \in 1 .. Len(a)} = {b[i] : i \in 1 .. Len(b)} \cup {x}
  BY <1>1, <1>2 DEF a
<1>6. QED
  BY <1>1, <1>3, <1>4, <1>5 DEF a

\* Copying records behind others keeps both.
LEMMA LogsOfConcat ==
  ASSUME NEW b \in Seq(Nat), NEW c \in Seq(Nat)
  PROVE  /\ b \o c \in Seq(Nat)
         /\ LogsOf(b \o c) = LogsOf(b) \cup LogsOf(c)
<1> DEFINE d == b \o c
<1>1. /\ d \in Seq(Nat)
      /\ Len(d) = Len(b) + Len(c)
      /\ \A i \in 1 .. Len(b) + Len(c) : d[i] = IF i <= Len(b) THEN b[i] ELSE c[i - Len(b)]
  BY ConcatProperties
<1> HIDE DEF d
<1>2. Len(b) \in Nat /\ Len(c) \in Nat
  BY LenProperties
<1>3. {d[i] : i \in 1 .. Len(d)} = {b[i] : i \in 1 .. Len(b)} \cup {c[i] : i \in 1 .. Len(c)}
  <2>1. ASSUME NEW i \in 1 .. Len(d)
        PROVE  d[i] \in {b[j] : j \in 1 .. Len(b)} \cup {c[j] : j \in 1 .. Len(c)}
    <3>1. CASE i <= Len(b)
      BY <1>1, <1>2, <2>1, <3>1
    <3>2. CASE ~(i <= Len(b))
      <4>1. i - Len(b) \in 1 .. Len(c)
        BY <1>1, <1>2, <2>1, <3>2
      <4>2. QED
        BY <1>1, <1>2, <2>1, <3>2, <4>1
    <3>3. QED
      BY <3>1, <3>2
  <2>2. ASSUME NEW j \in 1 .. Len(b)
        PROVE  b[j] \in {d[i] : i \in 1 .. Len(d)}
    <3>1. j \in 1 .. Len(d) /\ d[j] = b[j]
      BY <1>1, <1>2
    <3>2. QED
      BY <3>1
  <2>3. ASSUME NEW j \in 1 .. Len(c)
        PROVE  c[j] \in {d[i] : i \in 1 .. Len(d)}
    <3>1. Len(b) + j \in 1 .. Len(d) /\ ~(Len(b) + j <= Len(b)) /\ (Len(b) + j) - Len(b) = j
      BY <1>1, <1>2
    <3>2. d[Len(b) + j] = c[j]
      BY <1>1, <3>1
    <3>3. QED
      BY <3>1, <3>2
  <2>4. QED
    BY <2>1, <2>2, <2>3
<1>4. /\ LogsOf(d) = {d[i] : i \in 1 .. Len(d)} \ {Gap}
      /\ LogsOf(b) = {b[i] : i \in 1 .. Len(b)} \ {Gap}
      /\ LogsOf(c) = {c[i] : i \in 1 .. Len(c)} \ {Gap}
  BY <1>1, LogsOfIndexed
<1>5. QED
  BY <1>1, <1>3, <1>4 DEF d

\* Cutting a body back never adds a log.
LEMMA LogsOfCut ==
  ASSUME NEW b \in Seq(Nat), NEW k \in 0 .. Len(b)
  PROVE  /\ SubSeq(b, 1, k) \in Seq(Nat)
         /\ Len(SubSeq(b, 1, k)) = k
         /\ LogsOf(SubSeq(b, 1, k)) \subseteq LogsOf(b)
<1> DEFINE c == SubSeq(b, 1, k)
<1>0. Len(b) \in Nat /\ k \in Nat
  BY LenProperties
<1>1. \A i \in 1 .. k : b[i] \in Nat
  BY <1>0, ElementOfSeq
<1>2. /\ c \in Seq(Nat)
      /\ Len(c) = k
      /\ \A i \in 1 .. k : c[i] = b[i]
  <2>1. /\ c \in Seq(Nat)
        /\ Len(c) = IF 1 <= k THEN k - 1 + 1 ELSE 0
        /\ \A i \in 1 .. k - 1 + 1 : c[i] = b[1 + i - 1]
    BY <1>0, <1>1, SubSeqProperties
  <2>2. QED
    BY <1>0, <2>1
<1> HIDE DEF c
<1>3. /\ LogsOf(c) = {c[i] : i \in 1 .. Len(c)} \ {Gap}
      /\ LogsOf(b) = {b[i] : i \in 1 .. Len(b)} \ {Gap}
  BY <1>2, LogsOfIndexed
<1>4. QED
  BY <1>0, <1>2, <1>3 DEF c

\* Cutting a concatenation back to its first part restores that part.
LEMMA CutConcat ==
  ASSUME NEW b \in Seq(Nat), NEW c \in Seq(Nat)
  PROVE  SubSeq(b \o c, 1, Len(b)) = b
<1>1. /\ b \o c \in Seq(Nat)
      /\ Len(b \o c) = Len(b) + Len(c)
      /\ \A i \in 1 .. Len(b) + Len(c) : (b \o c)[i] = IF i <= Len(b) THEN b[i] ELSE c[i - Len(b)]
  BY ConcatProperties
<1> DEFINE d == b \o c
           e == SubSeq(d, 1, Len(b))
<1>2. Len(b) \in Nat /\ Len(c) \in Nat
  BY LenProperties
<1>3. \A i \in 1 .. Len(b) : d[i] = b[i] /\ d[i] \in Nat
  BY <1>1, <1>2, ElementOfSeq
<1> HIDE DEF d
<1>4. /\ e \in Seq(Nat)
      /\ Len(e) = IF 1 <= Len(b) THEN Len(b) - 1 + 1 ELSE 0
      /\ \A i \in 1 .. Len(b) - 1 + 1 : e[i] = d[1 + i - 1]
  BY <1>2, <1>3, SubSeqProperties, SMTT(20)
<1> HIDE DEF e
<1>5. e = b
  <2>1. Len(e) = Len(b)
    BY <1>2, <1>4
  <2>2. \A i \in 1 .. Len(e) : e[i] = b[i]
    BY <1>2, <1>3, <1>4, <2>1
  <2>3. QED
    BY <1>4, <2>1, <2>2, SeqEqual
<1>6. QED
  BY <1>5 DEF d, e

\* It does not matter which two parts of a body are put together first.
LEMMA ThreeParts ==
  ASSUME NEW b \in Seq(Nat), NEW c \in Seq(Nat), NEW d \in Seq(Nat)
  PROVE  b \o (c \o d) = (b \o c) \o d
BY SMTT(20)

\* A body followed by a gap holds the logs of the body, and can be cut back to it.
LEMMA GapBehind ==
  ASSUME NEW b \in Seq(Nat)
  PROVE  /\ Append(b, Gap) \in Seq(Nat)
         /\ Len(Append(b, Gap)) = Len(b) + 1
         /\ LogsOf(Append(b, Gap)) = LogsOf(b)
         /\ SubSeq(Append(b, Gap), 1, Len(b)) = b
<1>1. Gap \in Nat
  BY DEF Gap
<1>2. Append(b, Gap) = b \o <<Gap>> /\ <<Gap>> \in Seq(Nat)
  BY <1>1, AppendIsConcat
<1>3. SubSeq(b \o <<Gap>>, 1, Len(b)) = b
  BY <1>2, CutConcat
<1>4. Len(Append(b, Gap)) = Len(b) + 1
  BY <1>1, AppendProperties
<1>5. LogsOf(Append(b, Gap)) = LogsOf(b)
  <2>1. LogsOf(Append(b, Gap)) = LogsOf(b) \cup ({Gap} \ {Gap})
    BY <1>1, LogsOfAppend
  <2>2. QED
    BY <2>1
<1>6. Append(b, Gap) \in Seq(Nat)
  BY <1>1, AppendProperties
<1>7. SubSeq(Append(b, Gap), 1, Len(b)) = b
  BY <1>2, <1>3
<1>8. QED
  BY <1>4, <1>5, <1>6, <1>7

\* The bodies without a record.
LEMMA NoRecords ==
  /\ <<>> \in Seq(Nat) /\ Len(<<>>) = 0 /\ LogsOf(<<>>) = {}
  /\ LogsOf(SubSeq(<<>>, 1, 0)) = {}
  /\ <<Gap>> \in Seq(Nat) /\ LogsOf(<<Gap>>) = {}
<1>1. <<>> \in Seq(Nat) /\ Len(<<>>) = 0 /\ LogsOf(<<>>) = {}
  BY EmptySeq, LogsOfEmpty
<1>2. LogsOf(SubSeq(<<>>, 1, 0)) \subseteq LogsOf(<<>>)
  <2>1. 0 \in 0 .. Len(<<>>)
    BY <1>1
  <2>2. QED
    BY <1>1, <2>1, LogsOfCut
<1>3. <<Gap>> \in Seq(Nat)
  BY DEF Gap
<1>4. LogsOf(<<Gap>>) = {}
  <2>1. Append(<<>>, Gap) = <<Gap>>
    OBVIOUS
  <2>2. QED
    BY <1>1, <2>1, GapBehind
<1>5. QED
  BY <1>1, <1>2, <1>3, <1>4

\* A record newer than all others, or a gap, leaves a body in order.
LEMMA AppendInOrder ==
  ASSUME NEW b \in Seq(Nat), NEW x \in Nat, InOrder(b),
         x = Gap \/ \A l \in LogsOf(b) : l < x
  PROVE  InOrder(Append(b, x))
<1> DEFINE a == Append(b, x)
<1>1. /\ a \in Seq(Nat)
      /\ Len(a) = Len(b) + 1
      /\ \A i \in 1 .. Len(b) : a[i] = b[i]
      /\ a[Len(b) + 1] = x
  BY AppendProperties
<1> HIDE DEF a
<1>2. Len(b) \in Nat /\ DOMAIN b = 1 .. Len(b) /\ DOMAIN a = 1 .. Len(b) + 1
  BY <1>1, LenProperties
<1>3. LogsOf(b) = {b[i] : i \in 1 .. Len(b)} \ {Gap}
  BY LogsOfIndexed
<1>4. InOrder(a)
  <2> SUFFICES ASSUME NEW i \in DOMAIN a, NEW j \in DOMAIN a, i < j, a[i] # Gap, a[j] # Gap
               PROVE  a[i] < a[j]
    BY DEF InOrder
  <2>1. i \in 1 .. Len(b) /\ a[i] = b[i]
    BY <1>1, <1>2
  <2>2. CASE j \in 1 .. Len(b)
    BY <1>1, <1>2, <2>1, <2>2 DEF InOrder
  <2>3. CASE j = Len(b) + 1
    BY <1>1, <1>3, <2>1, <2>3
  <2>4. QED
    BY <1>2, <2>2, <2>3
<1>5. QED
  BY <1>4 DEF a

\* A body behind one whose logs are all older.
LEMMA ConcatInOrder ==
  ASSUME NEW b \in Seq(Nat), NEW c \in Seq(Nat), InOrder(b), InOrder(c),
         \A k \in LogsOf(b), l \in LogsOf(c) : k < l
  PROVE  InOrder(b \o c)
<1> DEFINE a == b \o c
<1>1. /\ a \in Seq(Nat)
      /\ Len(a) = Len(b) + Len(c)
      /\ \A i \in 1 .. Len(b) + Len(c) : a[i] = IF i <= Len(b) THEN b[i] ELSE c[i - Len(b)]
  BY ConcatProperties
<1> HIDE DEF a
<1>2. /\ Len(b) \in Nat /\ DOMAIN b = 1 .. Len(b)
      /\ Len(c) \in Nat /\ DOMAIN c = 1 .. Len(c)
      /\ DOMAIN a = 1 .. Len(b) + Len(c)
  BY <1>1, LenProperties
<1>3. /\ LogsOf(b) = {b[i] : i \in 1 .. Len(b)} \ {Gap}
      /\ LogsOf(c) = {c[i] : i \in 1 .. Len(c)} \ {Gap}
  BY LogsOfIndexed
<1>4. InOrder(a)
  <2> SUFFICES ASSUME NEW i \in DOMAIN a, NEW j \in DOMAIN a, i < j, a[i] # Gap, a[j] # Gap
               PROVE  a[i] < a[j]
    BY DEF InOrder
  <2>1. CASE j <= Len(b)
    <3>1. i \in DOMAIN b /\ j \in DOMAIN b /\ a[i] = b[i] /\ a[j] = b[j]
      BY <1>1, <1>2, <2>1
    <3>2. QED
      BY <3>1 DEF InOrder
  <2>2. CASE i > Len(b)
    <3>1. i \in 1 .. Len(b) + Len(c) /\ j \in 1 .. Len(b) + Len(c)
      BY <1>2
    <3>2. a[i] = c[i - Len(b)] /\ a[j] = c[j - Len(b)]
      <4>1. ~(i <= Len(b)) /\ ~(j <= Len(b))
        BY <1>2, <2>2, <3>1
      <4>2. QED
        BY <1>1, <3>1, <4>1
    <3>3. i - Len(b) \in DOMAIN c /\ j - Len(b) \in DOMAIN c /\ i - Len(b) < j - Len(b)
      BY <1>2, <2>2, <3>1
    <3>4. QED
      BY <3>2, <3>3 DEF InOrder
  <2>3. CASE i <= Len(b) /\ j > Len(b)
    <3>1. /\ i \in 1 .. Len(b) /\ a[i] = b[i]
          /\ j - Len(b) \in 1 .. Len(c) /\ a[j] = c[j - Len(b)]
      BY <1>1, <1>2, <2>3
    <3>2. a[i] \in LogsOf(b) /\ a[j] \in LogsOf(c)
      BY <1>3, <3>1
    <3>3. QED
      BY <3>2
  <2>4. QED
    BY <1>2, <2>1, <2>2, <2>3
<1>5. QED
  BY <1>4 DEF a

-----------------------------------------------------------------------------
(* What is certain to be found: everything before the first gap.           *)

LEMMA SafeIndexed ==
  ASSUME NEW b \in Seq(Nat)
  PROVE  /\ SafeOf(b) = {b[i] : i \in {j \in 1 .. Len(b) : \A k \in 1 .. j : b[k] # Gap}}
         /\ SafeOf(b) \subseteq LogsOf(b)
         /\ ~Torn(b) => SafeOf(b) = LogsOf(b)
         /\ Torn(b) <=> \E i \in 1 .. Len(b) : b[i] = Gap
<1>1. Len(b) \in Nat /\ DOMAIN b = 1 .. Len(b)
  BY LenProperties
<1>2. \A j \in 1 .. Len(b) : j \in 1 .. j /\ \A k \in 1 .. j : k \in 1 .. Len(b)
  BY <1>1
<1>3. QED
  BY <1>1, <1>2 DEF SafeOf, SafeAt, LogsOf, Torn

LEMMA SameTruth ==
  ASSUME NEW b, NEW c, Torn(b) <=> Torn(c)
  PROVE  Torn(b) = Torn(c)
BY DEF Torn

LEMMA EmptyIsSafe == SafeOf(<<>>) = {} /\ ~Torn(<<>>)
BY DEF SafeOf, SafeAt, Torn

\* A log put behind an intact body is found, one behind a gap may not be.
LEMMA SafeOfAppend ==
  ASSUME NEW b \in Seq(Nat), NEW x \in Nat
  PROVE  /\ SafeOf(Append(b, x)) = SafeOf(b) \cup IF Torn(b) \/ x = Gap THEN {} ELSE {x}
         /\ Torn(Append(b, x)) <=> Torn(b) \/ x = Gap
<1> DEFINE a == Append(b, x)
           S(c) == {j \in 1 .. Len(c) : \A k \in 1 .. j : c[k] # Gap}
<1>1. /\ a \in Seq(Nat)
      /\ Len(a) = Len(b) + 1
      /\ \A i \in 1 .. Len(b) : a[i] = b[i]
      /\ a[Len(b) + 1] = x
  BY AppendProperties
<1>2. Len(b) \in Nat
  BY LenProperties
<1> HIDE DEF a
<1>3. /\ SafeOf(a) = {a[i] : i \in S(a)} /\ SafeOf(b) = {b[i] : i \in S(b)}
      /\ Torn(a) <=> \E i \in 1 .. Len(a) : a[i] = Gap
      /\ Torn(b) <=> \E i \in 1 .. Len(b) : b[i] = Gap
  BY <1>1, SafeIndexed
<1>4. \A j \in 1 .. Len(b) : j \in 1 .. Len(a) /\ (j \in S(a) <=> j \in S(b))
  <2> SUFFICES ASSUME NEW j \in 1 .. Len(b)
               PROVE  j \in 1 .. Len(a) /\ (j \in S(a) <=> j \in S(b))
    OBVIOUS
  <2>1. \A k \in 1 .. j : k \in 1 .. Len(b)
    BY <1>2
  <2>2. j \in 1 .. Len(a)
    BY <1>1, <1>2
  <2>3. QED
    BY <1>1, <2>1, <2>2
<1>5. Len(b) + 1 \in S(a) <=> ~Torn(b) /\ x # Gap
  <2>1. Len(b) + 1 \in 1 .. Len(a)
    BY <1>1, <1>2
  <2>2. \A k \in 1 .. Len(b) + 1 : k \in 1 .. Len(b) \/ k = Len(b) + 1
    BY <1>2
  <2>3. \A k \in 1 .. Len(b) : k \in 1 .. Len(b) + 1
    BY <1>2
  <2>4. Len(b) + 1 \in 1 .. Len(b) + 1
    BY <1>2
  <2>5. QED
    BY <1>1, <1>3, <2>1, <2>2, <2>3, <2>4
<1>6. \A j \in 1 .. Len(a) : j \in 1 .. Len(b) \/ j = Len(b) + 1
  BY <1>1, <1>2
<1>7. Torn(a) <=> Torn(b) \/ x = Gap
  <2>1. Len(b) + 1 \in 1 .. Len(a) /\ \A j \in 1 .. Len(b) : j \in 1 .. Len(a)
    BY <1>1, <1>2
  <2>2. QED
    BY <1>1, <1>3, <1>6, <2>1
<1>8. S(a) \subseteq 1 .. Len(a) /\ S(b) \subseteq 1 .. Len(b)
  OBVIOUS
<1> HIDE DEF S
<1>9. SafeOf(a) = SafeOf(b) \cup IF Torn(b) \/ x = Gap THEN {} ELSE {x}
  <2>1. ASSUME NEW i \in S(a)
        PROVE  a[i] \in SafeOf(b) \cup IF Torn(b) \/ x = Gap THEN {} ELSE {x}
    <3>1. CASE i \in 1 .. Len(b)
      BY <1>1, <1>3, <1>4, <2>1, <3>1
    <3>2. CASE i = Len(b) + 1
      BY <1>1, <1>5, <2>1, <3>2
    <3>3. QED
      BY <1>6, <1>8, <3>1, <3>2
  <2>2. ASSUME NEW i \in S(b) PROVE b[i] \in SafeOf(a)
    BY <1>1, <1>3, <1>4, <1>8
  <2>3. ~(Torn(b) \/ x = Gap) => x \in SafeOf(a)
    BY <1>1, <1>3, <1>5
  <2>4. QED
    BY <1>3, <2>1, <2>2, <2>3
<1>10. QED
  BY <1>7, <1>9 DEF a

\* Behind an intact body all is found that was found before.
LEMMA SafeOfConcat ==
  ASSUME NEW b \in Seq(Nat), NEW c \in Seq(Nat)
  PROVE  /\ SafeOf(b) \subseteq SafeOf(b \o c)
         /\ ~Torn(b) => SafeOf(c) \subseteq SafeOf(b \o c)
         /\ Torn(b \o c) <=> Torn(b) \/ Torn(c)
<1> DEFINE d == b \o c
           S(e) == {j \in 1 .. Len(e) : \A k \in 1 .. j : e[k] # Gap}
<1>1. /\ d \in Seq(Nat)
      /\ Len(d) = Len(b) + Len(c)
      /\ \A i \in 1 .. Len(b) + Len(c) : d[i] = IF i <= Len(b) THEN b[i] ELSE c[i - Len(b)]
  BY ConcatProperties
<1> HIDE DEF d
<1>2. Len(b) \in Nat /\ Len(c) \in Nat
  BY LenProperties
<1>3. /\ SafeOf(b) = {b[i] : i \in S(b)}
      /\ SafeOf(c) = {c[i] : i \in S(c)}
      /\ SafeOf(d) = {d[i] : i \in S(d)}
      /\ Torn(b) <=> \E i \in 1 .. Len(b) : b[i] = Gap
      /\ Torn(c) <=> \E i \in 1 .. Len(c) : c[i] = Gap
      /\ Torn(d) <=> \E i \in 1 .. Len(d) : d[i] = Gap
  BY <1>1, SafeIndexed
<1>4. \A i \in 1 .. Len(b) : i \in 1 .. Len(d) /\ d[i] = b[i]
  BY <1>1, <1>2
<1>5. \A i \in 1 .. Len(c) : Len(b) + i \in 1 .. Len(d) /\ d[Len(b) + i] = c[i]
  <2> SUFFICES ASSUME NEW i \in 1 .. Len(c)
               PROVE  Len(b) + i \in 1 .. Len(d) /\ d[Len(b) + i] = c[i]
    OBVIOUS
  <2>1. Len(b) + i \in 1 .. Len(b) + Len(c) /\ ~(Len(b) + i <= Len(b)) /\ (Len(b) + i) - Len(b) = i
    BY <1>2
  <2>2. QED
    BY <1>1, <2>1
<1>6. \A i \in 1 .. Len(d) : i \in 1 .. Len(b) \/ \E j \in 1 .. Len(c) : i = Len(b) + j
  <2> SUFFICES ASSUME NEW i \in 1 .. Len(d), i \notin 1 .. Len(b)
               PROVE  \E j \in 1 .. Len(c) : i = Len(b) + j
    OBVIOUS
  <2>1. i - Len(b) \in 1 .. Len(c) /\ i = Len(b) + (i - Len(b))
    BY <1>1, <1>2
  <2>2. QED
    BY <2>1
<1>7. Torn(d) <=> Torn(b) \/ Torn(c)
  <2>1. CASE Torn(b)
    <3>1. PICK i \in 1 .. Len(b) : b[i] = Gap
      BY <1>3, <2>1
    <3>2. i \in 1 .. Len(d) /\ d[i] = Gap
      BY <1>4, <3>1
    <3>3. QED
      BY <1>3, <2>1, <3>2
  <2>2. CASE Torn(c)
    <3>1. PICK i \in 1 .. Len(c) : c[i] = Gap
      BY <1>3, <2>2
    <3>2. Len(b) + i \in 1 .. Len(d) /\ d[Len(b) + i] = Gap
      BY <1>5, <3>1
    <3>3. QED
      BY <1>3, <2>2, <3>2
  <2>3. CASE ~Torn(b) /\ ~Torn(c)
    <3> SUFFICES ASSUME NEW i \in 1 .. Len(d), d[i] = Gap PROVE FALSE
      BY <1>3, <2>3
    <3>1. CASE i \in 1 .. Len(b)
      BY <1>3, <1>4, <2>3, <3>1
    <3>2. CASE \E j \in 1 .. Len(c) : i = Len(b) + j
      BY <1>3, <1>5, <2>3, <3>2
    <3>3. QED
      BY <1>6, <3>1, <3>2
  <2>4. QED
    BY <2>1, <2>2, <2>3
<1>8. SafeOf(b) \subseteq SafeOf(d)
  <2> SUFFICES ASSUME NEW i \in S(b) PROVE i \in S(d) /\ d[i] = b[i]
    BY <1>3
  <2>1. \A k \in 1 .. i : k \in 1 .. Len(b)
    BY <1>2
  <2>2. QED
    BY <1>4, <2>1
<1>9. ASSUME ~Torn(b) PROVE SafeOf(c) \subseteq SafeOf(d)
  <2> SUFFICES ASSUME NEW i \in S(c) PROVE Len(b) + i \in S(d) /\ d[Len(b) + i] = c[i]
    BY <1>3
  <2>1. \A k \in 1 .. Len(b) + i : k \in 1 .. Len(d)
    BY <1>1, <1>2
  <2>2. ASSUME NEW k \in 1 .. Len(b) + i PROVE d[k] # Gap
    <3>1. CASE k \in 1 .. Len(b)
      BY <1>3, <1>4, <1>9, <3>1
    <3>2. CASE k \notin 1 .. Len(b)
      <4>1. PICK j \in 1 .. Len(c) : k = Len(b) + j
        BY <1>6, <2>1, <2>2, <3>2
      <4>2. j \in 1 .. i
        BY <1>2, <2>2, <4>1
      <4>3. QED
        BY <1>5, <4>1, <4>2
    <3>3. QED
      BY <3>1, <3>2
  <2>3. QED
    BY <1>5, <2>2
<1>10. QED
  BY <1>7, <1>8, <1>9 DEF d

-----------------------------------------------------------------------------
(* Where a load may find its place.                                        *)

LEMMA CountType ==
  ASSUME NEW b \in Seq(Nat)
  PROVE  /\ Counts(b) \subseteq Nat
         /\ \A k \in Nat : IsFiniteSet(LogsBehind(b, k))
<1>1. Len(b) \in Nat /\ DOMAIN b = 1 .. Len(b)
  BY LenProperties
<1>2. IsFiniteSet(1 .. Len(b))
  BY <1>1, FS_Interval
<1>3. SafeAt(b) \subseteq 1 .. Len(b)
  BY <1>1 DEF SafeAt
<1>4. ASSUME NEW k \in Nat PROVE IsFiniteSet(LogsBehind(b, k))
  <2>1. LogsBehind(b, k) \subseteq 1 .. Len(b)
    BY <1>1 DEF LogsBehind
  <2>2. QED
    BY <1>2, <2>1, FS_Subset
<1>5. Cardinality(SafeAt(b)) \in Nat /\ Cardinality(LogsBehind(b, 0)) \in Nat
  BY <1>2, <1>3, <1>4, FS_Subset, FS_CardinalityType
<1>6. QED
  BY <1>4, <1>5 DEF Counts

\* A load whose place is right keeps the body; otherwise a gap has put it out of
\* step, nothing before the gap is touched, and of the rest two logs at most.
LEMMA PositionKeeps ==
  ASSUME NEW b \in Seq(Nat), NEW c \in Positions(b)
  PROVE  /\ c \in Seq(Nat)
         /\ SafeOf(c) = SafeOf(b)
         /\ Torn(c) <=> Torn(b)
         /\ c = b \/ Torn(b)
         /\ LogsOf(c) \subseteq LogsOf(b)
         /\ IsFiniteSet(LogsOf(b) \ LogsOf(c))
         /\ Cardinality(LogsOf(b) \ LogsOf(c)) <= 2
         /\ InOrder(b) => InOrder(c)
<1>1. CASE c = b
  <2>1. LogsOf(b) \ LogsOf(c) = {}
    BY <1>1
  <2>2. IsFiniteSet({}) /\ Cardinality({}) = 0
    BY FS_EmptySet
  <2>3. IsFiniteSet(LogsOf(b) \ LogsOf(c)) /\ Cardinality(LogsOf(b) \ LogsOf(c)) <= 2
    <3>1. IsFiniteSet(LogsOf(b) \ LogsOf(c)) /\ Cardinality(LogsOf(b) \ LogsOf(c)) = 0
      BY <2>1, <2>2, Zenon
    <3>2. QED
      BY <3>1
  <2>4. QED
    BY <1>1, <2>3
<1>2. CASE c # b
  <2>1. PICK k \in Cuts(b) : c = Append(SubSeq(b, 1, k), Gap)
    BY <1>2 DEF Positions
  <2> DEFINE s == SubSeq(b, 1, k)
  <2>2. Len(b) \in Nat /\ DOMAIN b = 1 .. Len(b) /\ k \in 1 .. Len(b) /\ k \in 0 .. Len(b)
    BY LenProperties DEF Cuts
  <2>3. PICK g \in 1 .. k : g < Len(b) /\ b[g] = Gap
    BY DEF Cuts
  <2>4. /\ s \in Seq(Nat) /\ Len(s) = k /\ LogsOf(s) \subseteq LogsOf(b)
    BY <2>2, LogsOfCut
  <2>5. \A i \in 1 .. k : s[i] = b[i]
    <3>1. \A i \in 1 .. k : b[i] \in Nat
      BY <2>2, ElementOfSeq
    <3>2. /\ Len(s) = IF 1 <= k THEN k - 1 + 1 ELSE 0
          /\ \A i \in 1 .. k - 1 + 1 : s[i] = b[1 + i - 1]
      BY <2>2, <3>1, SubSeqProperties
    <3>3. QED
      BY <2>2, <3>2
  <2> HIDE DEF s
  <2>6. Torn(b) /\ Torn(s)
    <3>1. g \in 1 .. Len(b) /\ g \in 1 .. Len(s) /\ s[g] = Gap
      BY <2>2, <2>3, <2>4, <2>5
    <3>2. QED
      BY <2>3, <2>4, <3>1, SafeIndexed
  <2>7. SafeOf(s) = SafeOf(b)
    <3> DEFINE S(e) == {j \in 1 .. Len(e) : \A i \in 1 .. j : e[i] # Gap}
    <3>1. SafeOf(b) = {b[i] : i \in S(b)} /\ SafeOf(s) = {s[i] : i \in S(s)}
      BY <2>4, SafeIndexed
    <3>2. ASSUME NEW j \in S(b) PROVE j \in 1 .. k
      <4>1. g \notin 1 .. j
        BY <2>3
      <4>2. QED
        BY <2>2, <4>1
    <3>3. \A j \in 1 .. k : j \in S(s) <=> j \in S(b)
      <4> SUFFICES ASSUME NEW j \in 1 .. k PROVE j \in S(s) <=> j \in S(b)
        OBVIOUS
      <4>1. \A i \in 1 .. j : i \in 1 .. k
        BY <2>2
      <4>2. j \in 1 .. Len(s) /\ j \in 1 .. Len(b)
        BY <2>2, <2>4
      <4>3. QED
        BY <2>5, <4>1, <4>2
    <3>4. S(s) \subseteq 1 .. k
      BY <2>4
    <3> HIDE DEF S
    <3>5. QED
      BY <2>5, <3>1, <3>2, <3>3, <3>4
  <2>8. c \in Seq(Nat) /\ LogsOf(c) = LogsOf(s) /\ SafeOf(c) = SafeOf(s) /\ Torn(c)
    <3>1. Gap \in Nat
      BY DEF Gap
    <3>2. SafeOf(c) = SafeOf(s) \cup {} /\ Torn(c)
      BY <2>1, <2>4, <3>1, SafeOfAppend DEF s
    <3>3. QED
      BY <2>1, <2>4, <3>2, GapBehind DEF s
  <2>9. IsFiniteSet(LogsOf(b) \ LogsOf(c)) /\ Cardinality(LogsOf(b) \ LogsOf(c)) <= 2
    <3> DEFINE B == LogsBehind(b, k)
               f == [i \in B |-> b[i]]
               T == {f[i] : i \in B}
    <3>1. IsFiniteSet(B) /\ Cardinality(B) <= 2
      BY <2>2, CountType DEF Cuts
    <3>2. f \in Surjection(B, T)
      BY DEF Surjection
    <3>3. /\ IsFiniteSet(T) /\ Cardinality(T) <= Cardinality(B)
          /\ Cardinality(T) \in Nat /\ Cardinality(B) \in Nat
      BY <3>1, <3>2, FS_Surjection, FS_CardinalityType
    <3>4. LogsOf(b) \ LogsOf(c) \subseteq T
      <4> SUFFICES ASSUME NEW l \in LogsOf(b), l \notin LogsOf(s) PROVE l \in T
        BY <2>8
      <4>1. PICK i \in 1 .. Len(b) : l = b[i] /\ b[i] # Gap
        BY LogsOfIndexed
      <4>2. i \notin 1 .. k
        BY <2>4, <2>5, <4>1, LogsOfIndexed
      <4>3. i \in k + 1 .. Len(b)
        BY <2>2, <4>2
      <4>4. i \in B
        BY <4>1, <4>3 DEF LogsBehind
      <4>5. QED
        BY <4>1, <4>4
    <3> HIDE DEF B, T
    <3>5. /\ IsFiniteSet(LogsOf(b) \ LogsOf(c))
          /\ Cardinality(LogsOf(b) \ LogsOf(c)) <= Cardinality(T)
      BY <3>3, <3>4, FS_Subset
    <3>6. Cardinality(LogsOf(b) \ LogsOf(c)) \in Nat
      BY <3>5, FS_CardinalityType
    <3>7. QED
      BY <3>1, <3>3, <3>5, <3>6
  <2>10. InOrder(b) => InOrder(c)
    <3> SUFFICES ASSUME InOrder(b) PROVE InOrder(c)
      OBVIOUS
    <3>1. DOMAIN s = 1 .. k
      BY <2>4, LenProperties
    <3>2. InOrder(s)
      BY <2>2, <2>5, <3>1 DEF InOrder
    <3>3. Gap \in Nat
      BY DEF Gap
    <3>4. QED
      BY <2>1, <2>4, <3>2, <3>3, AppendInOrder DEF s
  <2>11. QED
    BY <2>4, <2>6, <2>7, <2>8, <2>9, <2>10
<1>3. QED
  BY <1>1, <1>2

\* A set that gets at most one member more has at most one member more.
LEMMA OneMore ==
  ASSUME NEW S, NEW T, NEW x, IsFiniteSet(S), T \subseteq S \cup {x}
  PROVE  /\ IsFiniteSet(T)
         /\ Cardinality(S) \in Nat /\ Cardinality(T) \in Nat
         /\ Cardinality(T) <= Cardinality(S) + 1
         /\ T \subseteq S => Cardinality(T) <= Cardinality(S)
<1>1. Cardinality(S) \in Nat
  BY FS_CardinalityType
<1>2. /\ IsFiniteSet(S \cup {x})
      /\ Cardinality(S \cup {x}) = Cardinality(S) \/ Cardinality(S \cup {x}) = Cardinality(S) + 1
  BY FS_AddElement
<1>3. IsFiniteSet(T) /\ Cardinality(T) <= Cardinality(S \cup {x})
  BY <1>2, FS_Subset
<1>4. Cardinality(T) \in Nat
  BY <1>3, FS_CardinalityType
<1>5. T \subseteq S => Cardinality(T) <= Cardinality(S)
  BY FS_Subset
<1>6. QED
  BY <1>1, <1>2, <1>3, <1>4, <1>5

\* A set of two members at most.
LEMMA Pair ==
  ASSUME NEW S, S # {}, IsFiniteSet(S), Cardinality(S) <= 2
  PROVE  \E x, y \in S : S \subseteq {x, y}
<1>1. PICK x \in S : TRUE
  OBVIOUS
<1> DEFINE T == S \ {x}
<1>2. /\ Cardinality(S) \in Nat
      /\ IsFiniteSet(T) /\ Cardinality(T) = Cardinality(S) - 1 /\ Cardinality(T) \in Nat
  BY FS_RemoveElement, FS_CardinalityType
<1>3. CASE T = {}
  BY <1>1, <1>3
<1>4. CASE T # {}
  <2>1. PICK y \in T : TRUE
    BY <1>4
  <2>2. IsFiniteSet(T \ {y}) /\ Cardinality(T \ {y}) = Cardinality(T) - 1
    BY <1>2, FS_RemoveElement
  <2>3. Cardinality(T \ {y}) \in Nat /\ Cardinality(T \ {y}) <= 0
    BY <1>2, <2>2, FS_CardinalityType
  <2>4. T \ {y} = {}
    BY <2>2, <2>3, FS_EmptySet
  <2>5. QED
    BY <2>1, <2>4
<1>5. QED
  BY <1>3, <1>4

-----------------------------------------------------------------------------
(* The steps of the cache file that both ways of archiving share.          *)

\* A file without a valid header holds no record.
FileOK(f) == f.kind # "valid" => f.body = <<>>

LoadStep == LoadOpen \/ LoadDiscard \/ LoadMap \/ LoadFails

LEMMA NewFiles ==
  \A f \in {Absent, Empty, Zeros} : f \in File /\ f.body = <<>> /\ FileOK(f)
<1>1. <<>> \in Seq(Nat)
  BY EmptySeq
<1>2. Absent \in File /\ Absent.body = <<>>
  BY <1>1 DEF Absent, File, Kinds
<1>3. Empty \in File /\ Empty.body = <<>>
  BY <1>1 DEF Empty, File, Kinds
<1>4. Zeros \in File /\ Zeros.body = <<>>
  BY <1>1 DEF Zeros, File, Kinds
<1>5. QED
  BY <1>2, <1>3, <1>4 DEF FileOK

LEMMA ValidFile ==
  ASSUME NEW b \in Seq(Nat)
  PROVE  Valid(b) \in File /\ Valid(b).body = b /\ Valid(b).kind = "valid" /\ FileOK(Valid(b))
BY DEF Valid, File, Kinds, FileOK

LEMMA CountedFailure ==
  ASSUME CacheTypeOK, Works \/ \E call \in FailingCalls : Fails(call)
  PROVE  failures' \in 0 .. MaxFailures
<1>1. failures \in 0 .. MaxFailures /\ MaxFailures \in Nat
  BY CacheFileAssumption DEF CacheTypeOK
<1>2. failures' = failures \/ (failures < MaxFailures /\ failures' = failures + 1)
  BY DEF Works, Fails
<1>3. QED
  BY <1>1, <1>2

\* loadFromDisk changes no call, and of the cache at most what lies behind a gap.
LEMMA LoadKeeps ==
  ASSUME CacheTypeOK, FileOK(cache), LoadStep
  PROVE  /\ CacheTypeOK'
         /\ FileOK(cache')
         /\ cache'.body \in Positions(cache.body)
         /\ next' = next /\ job' = job /\ acked' = acked /\ crashes' = crashes
         /\ pc \in {"open", "map"} /\ pc' \in {"open", "map", "loaded"}
<1> USE DEF LoadStep
<1>1. cache \in File /\ cache.body \in Seq(Nat) /\ cache.body \in Positions(cache.body)
  BY DEF CacheTypeOK, File, Positions
<1>2. \/ cache' = cache
      \/ cache' \in {Absent, Empty, Zeros} /\ cache.body = <<>>
      \/ \E b \in Positions(cache.body) : cache' = Valid(b)
  BY DEF LoadOpen, LoadDiscard, LoadMap, LoadFails, FileOK
<1>3. cache' \in File /\ cache'.body \in Positions(cache.body) /\ FileOK(cache')
  <2>1. CASE \E b \in Positions(cache.body) : cache' = Valid(b)
    <3>1. PICK b \in Positions(cache.body) : cache' = Valid(b)
      BY <2>1
    <3>2. b \in Seq(Nat)
      BY <1>1, PositionKeeps
    <3>3. QED
      BY <3>1, <3>2, ValidFile
  <2>2. QED
    BY <1>1, <1>2, <2>1, NewFiles
<1>4. /\ next' = next /\ job' = job /\ acked' = acked /\ crashes' = crashes /\ loaded' = loaded
      /\ pc \in {"open", "map"} /\ pc' \in {"open", "map", "loaded"}
  BY DEF LoadOpen, LoadDiscard, LoadMap, LoadFails
<1>5. num' \in Nat
  <2>1. Counts(cache.body) \subseteq Nat
    BY <1>1, CountType
  <2>2. num' = num \/ num' = 0 \/ num' \in Counts(cache.body)
    BY DEF LoadOpen, LoadDiscard, LoadMap, LoadFails
  <2>3. QED
    BY <2>1, <2>2 DEF CacheTypeOK
<1>6. handle' \in {"closed", "null", "mapped"} /\ ok' \in BOOLEAN
  BY DEF LoadOpen, LoadDiscard, LoadMap, LoadFails, CacheTypeOK
<1>7. Works \/ \E call \in FailingCalls : Fails(call)
  BY DEF LoadOpen, LoadDiscard, LoadMap, LoadFails, Fails
<1>8. CacheTypeOK'
  BY <1>3, <1>4, <1>5, <1>6, <1>7, CountedFailure DEF CacheTypeOK
<1>9. QED
  BY <1>3, <1>4, <1>8

\* A crash leaves the records of the cache, and in writeLogData one more or a torn one.
LEMMA CrashKeeps ==
  ASSUME CacheTypeOK, FileOK(cache), cache' \in CrashedCache
  PROVE  \/ cache' \in File /\ FileOK(cache') /\ cache'.body = cache.body
         \/ /\ pc = "put" /\ handle = "mapped"
            /\ \E x \in {Gap, next} : cache' = Valid(Append(cache.body, x))
<1>1. cache \in File
  BY DEF CacheTypeOK
<1>2. CASE pc = "put" /\ handle = "mapped"
  BY <1>1, <1>2 DEF CrashedCache
<1>3. CASE pc = "map" /\ cache.kind = "empty"
  <2>1. cache.body = <<>> /\ <<>> \in Seq(Nat)
    BY <1>3, EmptySeq DEF FileOK
  <2>2. cache' = Empty \/ cache' = Zeros \/ cache' = Valid(<<>>)
    BY <1>3 DEF CrashedCache
  <2>3. QED
    BY <2>1, <2>2, NewFiles, ValidFile
<1>4. CASE ~(pc = "put" /\ handle = "mapped") /\ ~(pc = "map" /\ cache.kind = "empty")
  BY <1>1, <1>4 DEF CrashedCache
<1>5. QED
  BY <1>2, <1>3, <1>4
=============================================================================
