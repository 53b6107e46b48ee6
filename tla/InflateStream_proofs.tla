------------------------ MODULE InflateStream_proofs ------------------------
(***************************************************************************)
(* Proofs about pako's inflate and the object around it, for every stream, *)
(* cut of it into pieces, buffer size and window size.                     *)
(*                                                                         *)
(* IInv is the inductive invariant of inflate's state: in every mode the   *)
(* fields which that mode reads are sound, no more bits are in hand than   *)
(* the mode asked for (Lean), and inside inflate_fast what is left of the  *)
(* input and of the room covers the rest of the round (FastInv).           *)
(*                                                                         *)
(* HistoryInv cuts what was written into older members, what this member   *)
(* wrote before the call, and what the call wrote; the window ends like    *)
(* the second. RecordsInv follows the bytes into the chunks. Every step of *)
(* inflate is of one of five kinds (Step) to them: it works, writes,       *)
(* leaves, asks for a dictionary or compares the check value.              *)
(*                                                                         *)
(* The theorems about the decoder assume MAXMATCH >= 258, what inflate.js  *)
(* has there; the runs' instance has less, and streams with short matches. *)
(***************************************************************************)
EXTENDS InflateStream, HuffmanCode_lemmas

-----------------------------------------------------------------------------
(* The circular window.                                                    *)

\* A window whose array has room for its size.
Windows(B) == {w \in [alloc : BOOLEAN, size : Nat, have : Nat, next : Nat, data : Seq(B)] :
                 /\ Shaped(w)
                 /\ w.size <= Len(w.data)
                 /\ ~w.alloc => w.size = 0}

\* What Put leaves, element by element.
LEMMA PutAt == ASSUME NEW B, NEW data \in Seq(B), NEW bytes \in Seq(B), NEW at \in Nat
               PROVE /\ Put(data, at, bytes) \in Seq(B)
                     /\ Len(Put(data, at, bytes)) = Len(data)
                     /\ \A k \in 1 .. Len(data) :
                          Put(data, at, bytes)[k] = IF k > at /\ k <= at + Len(bytes) THEN bytes[k - at] ELSE data[k]
<1>1. \A k \in 1 .. Len(data) : k - at \in 1 .. Len(bytes) <=> k > at /\ k <= at + Len(bytes)
  OBVIOUS
<1>2. Put(data, at, bytes) = [k \in 1 .. Len(data) |-> IF k > at /\ k <= at + Len(bytes) THEN bytes[k - at] ELSE data[k]]
  BY <1>1 DEF Put
<1>3. \A k \in 1 .. Len(data) : (IF k > at /\ k <= at + Len(bytes) THEN bytes[k - at] ELSE data[k]) \in B
  OBVIOUS
<1> QED BY <1>2, <1>3

\* The last n elements, element by element.
LEMMA LastAt == ASSUME NEW B, NEW s \in Seq(B), NEW n \in 0 .. Len(s)
                PROVE /\ LastOf(n, s) \in Seq(B) /\ Len(LastOf(n, s)) = n
                      /\ \A k \in 1 .. n : LastOf(n, s)[k] = s[Len(s) - n + k]
  BY DEF LastOf

\* What was written and the piece, counted from the end.
LEMMA FromTheEnd == ASSUME NEW B, NEW s \in Seq(B), NEW t \in Seq(B), NEW n \in 1 .. Len(s) + Len(t)
                    PROVE /\ Len(s \o t) = Len(s) + Len(t)
                          /\ n <= Len(t) => (s \o t)[Len(s \o t) - n + 1] = t[Len(t) - n + 1]
                          /\ n > Len(t) => (s \o t)[Len(s \o t) - n + 1] = s[Len(s) - (n - Len(t)) + 1]
  OBVIOUS

\* Where a byte lies that a wrapped piece, or the window before it, put there: the sizes
\* are the window's, where it goes on, the piece's and the array's.
LEMMA WrapPlaces ==
  ASSUME NEW S \in Nat, NEW N \in Nat, NEW L \in Nat, NEW D \in Nat, N < S, S <= D, L < S, L > S - N,
         NEW n \in 1 .. S, n > L - (S - N), NEW p, p = S - (n - (L - (S - N))) + 1
  PROVE /\ p \in 1 .. D /\ p > L - (S - N) /\ p <= S /\ p = N + L - n + 1
        /\ n <= L => p > N /\ p - N \in 1 .. S - N /\ p - N = L - n + 1
        /\ n > L => p <= N /\ n - L \in 1 .. N /\ p = N - (n - L) + 1
  OBVIOUS

\* The same for a piece that fits, a byte of it and an older one.
LEMMA ExtendPlaces ==
  ASSUME NEW S \in Nat, NEW N \in Nat, NEW L \in Nat, NEW D \in Nat, N < S, S <= D, L <= S - N, L < S,
         NEW n \in 1 .. S, NEW M, M = IF N + L = S THEN 0 ELSE N + L,
         NEW p, p = (IF n > M THEN S - (n - M) ELSE M - n) + 1
  PROVE /\ n <= L => p = N + L - n + 1 /\ p \in 1 .. D /\ p > N /\ p <= N + L /\ p - N = L - n + 1
        /\ n > L => /\ p = (IF n - L > N THEN S - ((n - L) - N) ELSE N - (n - L)) + 1
                    /\ p \in 1 .. D /\ ~(p > N /\ p <= N + L)
  OBVIOUS

\* A piece as long as the window or longer.
LEMMA ReplaceKeeps ==
  ASSUME NEW B, NEW w \in Windows(B), NEW written \in Seq(B), NEW bytes \in Seq(B), w.alloc,
         Len(bytes) >= w.size
  PROVE /\ Replace(w, bytes) \in Windows(B) /\ Holds(Replace(w, bytes), written \o bytes)
        /\ Replace(w, bytes).size = w.size /\ Replace(w, bytes).have = w.size
<1> DEFINE last == LastOf(w.size, bytes)
           u == Replace(w, bytes)
<1>1. w \in [alloc : BOOLEAN, size : Nat, have : Nat, next : Nat, data : Seq(B)] /\ w.size <= Len(w.data)
  BY DEF Windows
<1>2. /\ last \in Seq(B) /\ Len(last) = w.size
      /\ \A k \in 1 .. w.size : last[k] = bytes[Len(bytes) - w.size + k]
  <2>1. w.size \in 0 .. Len(bytes)
    BY <1>1
  <2> QED BY <2>1, LastAt
<1> HIDE DEF last
<1>a. /\ Put(w.data, 0, last) \in Seq(B) /\ Len(Put(w.data, 0, last)) = Len(w.data)
      /\ \A k \in 1 .. Len(w.data) : Put(w.data, 0, last)[k] = IF k > 0 /\ k <= 0 + Len(last) THEN last[k - 0] ELSE w.data[k]
  BY <1>1, <1>2, PutAt
<1>3. /\ u.alloc = w.alloc /\ u.size = w.size /\ u.have = w.size /\ u.next = 0 /\ u.data = Put(w.data, 0, last)
      /\ u \in [alloc : BOOLEAN, size : Nat, have : Nat, next : Nat, data : Seq(B)]
  BY <1>1, <1>a DEF Replace, last
<1> HIDE DEF u
<1>4. Len(u.data) = Len(w.data) /\ \A k \in 1 .. w.size : u.data[k] = last[k]
  <2>1. /\ w.size \in Nat /\ Len(w.data) \in Nat /\ w.size <= Len(w.data)
        /\ u.data = Put(w.data, 0, last) /\ Len(last) = w.size
    BY <1>1, <1>2, <1>3
  <2>2. ASSUME NEW k \in 1 .. w.size PROVE u.data[k] = last[k]
    <3>1. k \in 1 .. Len(w.data) /\ k > 0 /\ k <= 0 + w.size /\ k - 0 = k
      BY <2>1
    <3> QED BY <1>a, <2>1, <3>1
  <2> QED BY <1>a, <2>1, <2>2
<1>5. ASSUME NEW n \in 1 .. u.have
      PROVE n <= Len(written \o bytes) /\ u.data[Behind(u, n) + 1] = (written \o bytes)[Len(written \o bytes) - n + 1]
  <2>1. n \in 1 .. w.size /\ n <= Len(bytes) /\ n \in 1 .. Len(written) + Len(bytes)
    BY <1>1, <1>3, <1>5
  <2>2. Behind(u, n) + 1 = w.size - n + 1
    BY <1>1, <1>3, <2>1 DEF Behind
  <2>3. w.size - n + 1 \in 1 .. w.size /\ Len(bytes) - w.size + (w.size - n + 1) = Len(bytes) - n + 1
    BY <1>1, <2>1
  <2>4. u.data[Behind(u, n) + 1] = bytes[Len(bytes) - n + 1]
    BY <1>2, <1>4, <2>2, <2>3
  <2> QED BY <2>1, <2>4, FromTheEnd
<1>6. Shaped(u)
  BY <1>1, <1>3 DEF Shaped
<1> HIDE DEF u
<1>7. Holds(u, written \o bytes)
  BY <1>5 DEF Holds
<1>8. u \in Windows(B)
  BY <1>1, <1>3, <1>4, <1>6 DEF Windows
<1> QED BY <1>3, <1>7, <1>8 DEF u

\* A piece that goes beyond the end of the window.
LEMMA WrapKeeps ==
  ASSUME NEW B, NEW w \in Windows(B), NEW written \in Seq(B), NEW bytes \in Seq(B), w.alloc, Holds(w, written),
         Len(bytes) < w.size, Len(bytes) > w.size - w.next
  PROVE /\ Wrap(w, bytes) \in Windows(B) /\ Holds(Wrap(w, bytes), written \o bytes)
        /\ Wrap(w, bytes).size = w.size /\ Wrap(w, bytes).have = w.size
<1> DEFINE dist == w.size - w.next
           rest == Len(bytes) - dist
           front == SubSeq(bytes, 1, dist)
           back == LastOf(rest, bytes)
           mid == Put(w.data, w.next, front)
           u == Wrap(w, bytes)
<1>1. /\ w \in [alloc : BOOLEAN, size : Nat, have : Nat, next : Nat, data : Seq(B)] /\ w.size <= Len(w.data) /\ Shaped(w)
      /\ Len(bytes) \in Nat /\ Len(w.data) \in Nat /\ Len(written) \in Nat
  BY DEF Windows
<1>n. /\ w.size \in Nat /\ w.have \in Nat /\ w.next \in Nat /\ w.size <= Len(w.data)
      /\ Len(bytes) \in Nat /\ Len(w.data) \in Nat /\ Len(written) \in Nat
  BY <1>1
<1>2. /\ w.size > 0 /\ w.next \in 0 .. w.size - 1 /\ w.have \in 0 .. w.size
      /\ w.have < w.size => w.next = w.have
  BY <1>1 DEF Shaped
<1>3. dist \in 1 .. w.size /\ dist < Len(bytes) /\ rest \in 1 .. Len(bytes) /\ rest < w.next
  BY <1>1, <1>2
<1>4. front \in Seq(B) /\ Len(front) = dist /\ \A k \in 1 .. dist : front[k] = bytes[k]
  BY <1>3
<1>5. back \in Seq(B) /\ Len(back) = rest /\ \A k \in 1 .. rest : back[k] = bytes[Len(bytes) - rest + k]
  BY <1>3, LastAt, SMTT(20)
<1> HIDE DEF front, back
<1>6. /\ mid \in Seq(B) /\ Len(mid) = Len(w.data)
      /\ \A k \in 1 .. Len(w.data) : mid[k] = IF k > w.next /\ k <= w.next + dist THEN front[k - w.next] ELSE w.data[k]
  BY <1>1, <1>4, PutAt, SMTT(20)
<1>a. Put(mid, 0, back) \in Seq(B)
  BY <1>5, <1>6, PutAt
<1>b. rest \in Nat
  BY <1>3
<1>7. /\ u.alloc = w.alloc /\ u.size = w.size /\ u.have = w.size /\ u.next = rest /\ u.data = Put(mid, 0, back)
      /\ u \in [alloc : BOOLEAN, size : Nat, have : Nat, next : Nat, data : Seq(B)]
  BY <1>1, <1>a, <1>b DEF Wrap, front, back
<1>8. /\ Len(u.data) = Len(w.data)
      /\ \A k \in 1 .. Len(w.data) : u.data[k] = IF k <= rest THEN back[k] ELSE mid[k]
  BY <1>3, <1>5, <1>6, <1>7, PutAt
<1> HIDE DEF mid, u
<1>9. ASSUME NEW n \in 1 .. u.have
      PROVE n <= Len(written \o bytes) /\ u.data[Behind(u, n) + 1] = (written \o bytes)[Len(written \o bytes) - n + 1]
  <2>1. n \in 1 .. w.size
    BY <1>7
  <2>2. CASE n <= rest
    <3>1. n <= Len(bytes) /\ n \in 1 .. Len(written) + Len(bytes)
      BY <1>3, <2>1, <2>2
    <3>2. Behind(u, n) + 1 = rest - n + 1
      BY <1>3, <1>7, <2>1, <2>2 DEF Behind
    <3>3. rest - n + 1 \in 1 .. rest /\ rest - n + 1 \in 1 .. Len(w.data) /\ Len(bytes) - rest + (rest - n + 1) = Len(bytes) - n + 1
      <4>1. rest \in Nat /\ rest <= Len(w.data)
        BY <1>n, <1>2, <1>3
      <4> HIDE DEF rest
      <4> QED BY <4>1, <1>n, <2>1, <2>2
    <3>4. u.data[rest - n + 1] = bytes[Len(bytes) - n + 1]
      BY <1>5, <1>8, <3>3
    <3> QED BY <3>1, <3>2, <3>4, FromTheEnd
  <2>3. CASE n > rest /\ n <= Len(bytes)
    <3>1. n \in 1 .. Len(written) + Len(bytes)
      BY <2>1, <2>3
    <3>2. Behind(u, n) + 1 = w.size - (n - rest) + 1
      BY <1>n, <1>3, <1>7, <2>1, <2>3 DEF Behind
    <3> DEFINE p == w.size - (n - rest) + 1
    <3>3. /\ p \in 1 .. Len(w.data) /\ p > rest /\ p > w.next /\ p <= w.next + dist
          /\ p - w.next \in 1 .. dist /\ p - w.next = Len(bytes) - n + 1
      <4> DEFINE S == w.size
                 N == w.next
                 L == Len(bytes)
                 D == Len(w.data)
      <4>1. /\ S \in Nat /\ N \in Nat /\ L \in Nat /\ D \in Nat /\ N < S /\ S <= D /\ L < S /\ L > S - N
            /\ n \in 1 .. S /\ n > L - (S - N) /\ n <= L
        BY <1>n, <1>2, <2>1, <2>3
      <4>2. p = S - (n - (L - (S - N))) + 1
        OBVIOUS
      <4> HIDE DEF S, N, L, D, p
      <4>3. /\ p \in 1 .. D /\ p > L - (S - N) /\ p <= S /\ p > N
            /\ p - N \in 1 .. S - N /\ p - N = L - n + 1
        BY <4>1, <4>2, WrapPlaces
      <4>4. p <= N + (S - N)
        BY <4>1, <4>3
      <4> QED BY <4>3, <4>4 DEF S, N, L, D
    <3>4. u.data[p] = bytes[Len(bytes) - n + 1]
      <4> HIDE DEF p
      <4>1. u.data[p] = mid[p]
        BY <1>3, <1>8, <3>3
      <4>2. mid[p] = front[p - w.next]
        BY <1>6, <3>3
      <4> QED BY <4>1, <4>2, <1>4, <3>3
    <3> QED BY <2>3, <3>1, <3>2, <3>4, FromTheEnd
  <2>4. CASE n > Len(bytes)
    <3> DEFINE m == n - Len(bytes)
               p == w.size - (n - rest) + 1
    <3>0. /\ w.next < w.size /\ n > rest /\ p \in 1 .. Len(w.data) /\ p > rest /\ p <= w.next
          /\ m \in 1 .. w.next /\ p = w.next - m + 1
      <4> DEFINE S == w.size
                 N == w.next
                 L == Len(bytes)
                 D == Len(w.data)
      <4>1. /\ S \in Nat /\ N \in Nat /\ L \in Nat /\ D \in Nat /\ N < S /\ S <= D /\ L < S /\ L > S - N
            /\ n \in 1 .. S /\ n > L - (S - N) /\ n > L
        BY <1>n, <1>2, <1>3, <2>1, <2>4
      <4>2. p = S - (n - (L - (S - N))) + 1 /\ m = n - L
        OBVIOUS
      <4> HIDE DEF S, N, L, D, p, m
      <4>3. /\ N < S /\ n > L - (S - N) /\ p \in 1 .. D /\ p > L - (S - N) /\ p <= N
            /\ m \in 1 .. N /\ p = N - m + 1
        BY <4>1, <4>2, WrapPlaces
      <4> QED BY <4>3 DEF S, N, L, D
    <3>1. m \in 1 .. w.have /\ m <= w.next
      BY <1>n, <1>2, <3>0, SMTT(20)
    <3>2. m <= Len(written) /\ w.data[Behind(w, m) + 1] = written[Len(written) - m + 1]
      BY <3>1 DEF Holds
    <3>3. Behind(w, m) + 1 = p
      <4> HIDE DEF m, p
      <4> QED BY <1>n, <3>0, <3>1 DEF Behind
    <3>4. Behind(u, n) + 1 = p
      BY <1>7, <3>0 DEF Behind
    <3>5. p \in 1 .. Len(w.data) /\ p > rest /\ p <= w.next
      BY <3>0
    <3>6. u.data[p] = w.data[p]
      <4> HIDE DEF p
      <4>1. u.data[p] = mid[p]
        BY <1>3, <1>8, <3>5
      <4>2. ~(p > w.next /\ p <= w.next + dist)
        BY <1>n, <3>5
      <4> QED BY <4>1, <4>2, <1>6, <3>5
    <3>7. n \in 1 .. Len(written) + Len(bytes)
      BY <2>1, <2>4, <3>2
    <3> QED BY <2>4, <3>2, <3>3, <3>4, <3>6, <3>7, FromTheEnd
  <2> QED BY <1>3, <2>1, <2>2, <2>3, <2>4
<1>10. Shaped(u)
  BY <1>1, <1>2, <1>3, <1>7 DEF Shaped
<1>11. Holds(u, written \o bytes)
  BY <1>9 DEF Holds
<1>12. u \in Windows(B)
  BY <1>1, <1>7, <1>8, <1>10 DEF Windows
<1> QED BY <1>7, <1>11, <1>12 DEF u

\* A piece that ends within the window, or at its end.
LEMMA ExtendKeeps ==
  ASSUME NEW B, NEW w \in Windows(B), NEW written \in Seq(B), NEW bytes \in Seq(B), w.alloc, Holds(w, written),
         Len(bytes) < w.size, Len(bytes) <= w.size - w.next
  PROVE /\ Extend(w, bytes) \in Windows(B) /\ Holds(Extend(w, bytes), written \o bytes)
        /\ Extend(w, bytes).size = w.size
        /\ Extend(w, bytes).have = IF w.have < w.size THEN w.have + Len(bytes) ELSE w.size
<1> DEFINE u == Extend(w, bytes)
           stop == w.next + Len(bytes)
<1>1. /\ w \in [alloc : BOOLEAN, size : Nat, have : Nat, next : Nat, data : Seq(B)] /\ w.size <= Len(w.data) /\ Shaped(w)
      /\ Len(bytes) \in Nat /\ Len(w.data) \in Nat /\ Len(written) \in Nat
  BY DEF Windows
<1>n. /\ w.size \in Nat /\ w.have \in Nat /\ w.next \in Nat /\ w.size <= Len(w.data)
      /\ Len(bytes) \in Nat /\ Len(w.data) \in Nat /\ Len(written) \in Nat
  BY <1>1
<1>2. /\ w.size > 0 /\ w.next \in 0 .. w.size - 1 /\ w.have \in 0 .. w.size
      /\ w.have < w.size => w.next = w.have
  BY <1>1 DEF Shaped
<1>3. stop \in 0 .. w.size
  BY <1>1, <1>2
<1>4. /\ u.alloc = w.alloc /\ u.size = w.size /\ u.data = Put(w.data, w.next, bytes)
      /\ u.have = (IF w.have < w.size THEN w.have + Len(bytes) ELSE w.have)
      /\ u.next = (IF stop = w.size THEN 0 ELSE stop)
  BY <1>1 DEF Extend
<1>a. Put(w.data, w.next, bytes) \in Seq(B)
  BY <1>1, <1>2, PutAt
<1>5. u \in [alloc : BOOLEAN, size : Nat, have : Nat, next : Nat, data : Seq(B)]
  <2>1. /\ (IF stop = w.size THEN 0 ELSE stop) \in Nat
        /\ (IF w.have < w.size THEN w.have + Len(bytes) ELSE w.have) \in Nat
    BY <1>n, <1>3
  <2> QED BY <2>1, <1>1, <1>a DEF Extend
<1>6. /\ Len(u.data) = Len(w.data)
      /\ \A k \in 1 .. Len(w.data) : u.data[k] = IF k > w.next /\ k <= stop THEN bytes[k - w.next] ELSE w.data[k]
  BY <1>1, <1>4, PutAt
<1> HIDE DEF u
<1>7. ASSUME NEW n \in 1 .. u.have
      PROVE n <= Len(written \o bytes) /\ u.data[Behind(u, n) + 1] = (written \o bytes)[Len(written \o bytes) - n + 1]
  <2>1. n \in 1 .. w.size /\ n <= w.have + Len(bytes)
    BY <1>n, <1>2, <1>4, <1>7
  <2> DEFINE p == Behind(u, n) + 1
             m == n - Len(bytes)
  <2>a. p = (IF n > u.next THEN w.size - (n - u.next) ELSE u.next - n) + 1
    BY <1>4 DEF Behind
  <2>b. /\ w.next < w.size /\ Len(bytes) <= w.size - w.next
        /\ u.next = IF w.next + Len(bytes) = w.size THEN 0 ELSE w.next + Len(bytes)
    BY <1>n, <1>2, <1>4
  <2> HIDE DEF p
  <2>c. /\ n <= Len(bytes) => p = w.next + Len(bytes) - n + 1 /\ p \in 1 .. Len(w.data) /\ p > w.next
                              /\ p <= w.next + Len(bytes) /\ p - w.next = Len(bytes) - n + 1
        /\ n > Len(bytes) => /\ p = (IF m > w.next THEN w.size - (m - w.next) ELSE w.next - m) + 1
                             /\ p \in 1 .. Len(w.data) /\ ~(p > w.next /\ p <= w.next + Len(bytes))
    <3> DEFINE S == w.size
               N == w.next
               L == Len(bytes)
               D == Len(w.data)
               M == u.next
    <3>1. S \in Nat /\ N \in Nat /\ L \in Nat /\ D \in Nat /\ N < S /\ S <= D /\ L <= S - N /\ L < S /\ n \in 1 .. S
      BY <1>n, <2>1, <2>b
    <3>2. M = IF N + L = S THEN 0 ELSE N + L
      BY <2>b
    <3>3. p = (IF n > M THEN S - (n - M) ELSE M - n) + 1
      BY <2>a
    <3> HIDE DEF S, N, L, D, M
    <3>4. /\ n <= L => p = N + L - n + 1 /\ p \in 1 .. D /\ p > N /\ p <= N + L /\ p - N = L - n + 1
          /\ n > L => /\ p = (IF n - L > N THEN S - ((n - L) - N) ELSE N - (n - L)) + 1
                      /\ p \in 1 .. D /\ ~(p > N /\ p <= N + L)
      BY <3>1, <3>2, <3>3, ExtendPlaces
    <3> QED BY <3>4 DEF S, N, L, D
  <2>2. CASE n <= Len(bytes)
    <3>1. u.data[p] = bytes[Len(bytes) - n + 1]
      BY <1>6, <2>c, <2>2
    <3>2. n \in 1 .. Len(written) + Len(bytes)
      BY <1>n, <2>1, <2>2
    <3> QED BY <2>2, <3>1, <3>2, FromTheEnd DEF p
  <2>3. CASE n > Len(bytes)
    <3>1. m \in 1 .. w.have
      BY <1>n, <1>2, <2>1, <2>3
    <3>2. m <= Len(written) /\ w.data[Behind(w, m) + 1] = written[Len(written) - m + 1]
      BY <3>1 DEF Holds
    <3>3. Behind(w, m) + 1 = p
      BY <2>c, <2>3 DEF Behind
    <3>4. u.data[p] = w.data[p]
      BY <1>6, <2>c, <2>3
    <3>5. n \in 1 .. Len(written) + Len(bytes)
      BY <1>n, <2>1, <2>3, <3>2
    <3> QED BY <2>3, <3>2, <3>3, <3>4, <3>5, FromTheEnd DEF p
  <2> QED BY <2>1, <2>2, <2>3
<1>8. Shaped(u)
  BY <1>1, <1>2, <1>3, <1>4 DEF Shaped
<1>9. Holds(u, written \o bytes)
  BY <1>7 DEF Holds
<1>10. u \in Windows(B)
  BY <1>1, <1>4, <1>5, <1>6, <1>8 DEF Windows
<1>11. u.have = IF w.have < w.size THEN w.have + Len(bytes) ELSE w.size
  BY <1>n, <1>2, <1>4
<1> QED BY <1>4, <1>9, <1>10, <1>11 DEF u

\* updatewindow keeps the window right for every size of it and every piece: it holds the
\* end of what was written, and as much of it as fits.
THEOREM WindowKeepsTheEnd ==
  ASSUME NEW B, 0 \in B, NEW w \in Windows(B), NEW size \in Nat,
         NEW written \in Seq(B), NEW bytes \in Seq(B), Holds(w, written)
  PROVE LET u == UpdateWindow(w, size, bytes)
        IN /\ u \in Windows(B) /\ Holds(u, written \o bytes)
           /\ u.size = IF w.alloc THEN w.size ELSE size
           /\ u.have = u.size \/ u.have = w.have + Len(bytes)
<1> DEFINE v == Allocated(w, size)
<1>1. /\ w \in [alloc : BOOLEAN, size : Nat, have : Nat, next : Nat, data : Seq(B)] /\ Shaped(w)
      /\ w.size <= Len(w.data) /\ (~w.alloc => w.size = 0)
  BY DEF Windows
<1>2. /\ v \in Windows(B) /\ v.alloc /\ Holds(v, written)
      /\ v.size = (IF w.alloc THEN w.size ELSE size) /\ v.have = w.have
  <2>1. CASE w.alloc
    BY <2>1 DEF Allocated
  <2>2. CASE ~w.alloc
    <3> DEFINE zeros == [k \in 1 .. size |-> 0]
    <3>1. w.have = 0
      BY <1>1, <2>2 DEF Shaped
    <3>2. zeros \in Seq(B) /\ Len(zeros) = size
      OBVIOUS
    <3>3. v = [alloc |-> TRUE, size |-> size, have |-> 0, next |-> 0, data |-> zeros]
      BY <2>2 DEF Allocated
    <3> HIDE DEF zeros, v
    <3>4. v \in [alloc : BOOLEAN, size : Nat, have : Nat, next : Nat, data : Seq(B)]
      BY <3>2, <3>3
    <3>5. Shaped(v)
      BY <3>3 DEF Shaped
    <3>6. Holds(v, written)
      BY <3>3 DEF Holds
    <3> QED BY <2>2, <3>1, <3>2, <3>3, <3>4, <3>5, <3>6 DEF Windows
  <2> QED BY <2>1, <2>2
<1>3. UpdateWindow(w, size, bytes) = IF Len(bytes) >= v.size THEN Replace(v, bytes)
                                     ELSE IF Len(bytes) > v.size - v.next THEN Wrap(v, bytes)
                                     ELSE Extend(v, bytes)
  BY DEF UpdateWindow
<1> HIDE DEF v
<1>4. v \in [alloc : BOOLEAN, size : Nat, have : Nat, next : Nat, data : Seq(B)] /\ Len(bytes) \in Nat
  BY <1>2 DEF Windows
<1>5. CASE Len(bytes) >= v.size
  BY <1>2, <1>3, <1>5, ReplaceKeeps
<1>6. CASE Len(bytes) < v.size /\ Len(bytes) > v.size - v.next
  <2>1. UpdateWindow(w, size, bytes) = Wrap(v, bytes)
    BY <1>3, <1>4, <1>6
  <2> QED BY <1>2, <1>6, <2>1, WrapKeeps
<1>7. CASE Len(bytes) < v.size /\ Len(bytes) <= v.size - v.next
  <2>1. UpdateWindow(w, size, bytes) = Extend(v, bytes)
    BY <1>3, <1>4, <1>7
  <2> QED BY <1>2, <1>7, <2>1, ExtendKeeps
<1> QED BY <1>4, <1>5, <1>6, <1>7

-----------------------------------------------------------------------------
(* Check values are 32 bits.                                               *)

\* Check values.
Check32 == {c \in Seq(Bit) : Len(c) = 32}

\* The sums of Adler-32, one byte on.
LowStep(bytes, c) == [i \in 0 .. Len(bytes) |-> IF i = 0 THEN 0 ELSE c[i - 1] + bytes[i]]
HighStep(bytes, c) == [i \in 0 .. Len(bytes) |-> IF i = 0 THEN 0 ELSE c[i - 1] + (Len(bytes) - i + 1) * bytes[i]]

\* The sum of the bytes is a number.
LEMMA LowTotal == ASSUME NEW bytes \in Seq(Byte) PROVE Total(Len(bytes), LAMBDA i : bytes[i]) \in Nat
<1> DEFINE n == Len(bytes)
           g == CHOOSE c : c = LowStep(bytes, c)
           b == [i \in 1 .. n |-> bytes[i]]
<1>0. n \in Nat /\ \A i \in 1 .. n : bytes[i] \in Nat
  <2>1. \A x \in Byte : x \in Nat
    BY DEF Byte
  <2>2. n \in Nat /\ \A i \in 1 .. n : bytes[i] \in Byte
    OBVIOUS
  <2> QED
    BY <2>1, <2>2
<1>1. n \in Nat /\ b \in [1 .. n -> Nat]
  BY <1>0
<1>2. Total(Len(bytes), LAMBDA i : bytes[i]) = g[n]
  BY DEF Total, LowStep
<1>3. \A c : LowStep(bytes, c) = AddStep(b, n, c)
  <2> SUFFICES ASSUME NEW c PROVE LowStep(bytes, c) = AddStep(b, n, c)
    OBVIOUS
  <2>1. \A i \in 0 .. n : i # 0 => i \in 1 .. n
    BY <1>1
  <2>2. \A i \in 1 .. n : b[i] = bytes[i]
    OBVIOUS
  <2> HIDE DEF b
  <2> QED
    BY <2>1, <2>2 DEF LowStep, AddStep
<1> HIDE DEF b
<1>4. g = LowStep(bytes, g)
  <2>1. PICK c : c = AddStep(b, n, c)
    <3> HIDE DEF n
    <3> QED
      BY <1>1, RunningSums
  <2>2. c = LowStep(bytes, c)
    BY <1>3, <2>1
  <2> QED
    BY <2>2
<1> HIDE DEF g
<1>5. g = AddStep(b, n, g)
  BY <1>3, <1>4
<1> HIDE DEF n
<1>6. g \in [0 .. n -> Nat]
  BY <1>1, <1>5, RunningSums
<1>7. n \in 0 .. n
  BY <1>1
<1> QED
  BY <1>2, <1>6, <1>7 DEF n

\* So is the sum of the sums.
LEMMA HighTotal == ASSUME NEW bytes \in Seq(Byte) PROVE Total(Len(bytes), LAMBDA i : (Len(bytes) - i + 1) * bytes[i]) \in Nat
<1> DEFINE n == Len(bytes)
           g == CHOOSE c : c = HighStep(bytes, c)
           b == [i \in 1 .. n |-> (n - i + 1) * bytes[i]]
<1>1. n \in Nat /\ b \in [1 .. n -> Nat]
  <2>1. n \in Nat /\ \A i \in 1 .. n : n - i + 1 \in Nat /\ bytes[i] \in Nat
    <3>1. \A x \in Byte : x \in Nat
      BY DEF Byte
    <3>2. n \in Nat /\ \A i \in 1 .. n : bytes[i] \in Byte
      OBVIOUS
    <3>3. \A i \in 1 .. n : n - i + 1 \in Nat
      BY <3>2
    <3> QED
      BY <3>1, <3>2, <3>3
  <2>2. \A i \in 1 .. n : (n - i + 1) * bytes[i] \in Nat
    <3>1. \A x, y : x \in Nat /\ y \in Nat => x * y \in Nat
      OBVIOUS
    <3> QED
      BY <2>1, <3>1
  <2> QED
    BY <2>1, <2>2
<1>2. Total(Len(bytes), LAMBDA i : (Len(bytes) - i + 1) * bytes[i]) = g[n]
  BY DEF Total, HighStep
<1>3. \A c : HighStep(bytes, c) = AddStep(b, n, c)
  <2> SUFFICES ASSUME NEW c PROVE HighStep(bytes, c) = AddStep(b, n, c)
    OBVIOUS
  <2>1. \A i \in 0 .. n : i # 0 => i \in 1 .. n
    BY <1>1
  <2>2. \A i \in 1 .. n : b[i] = (n - i + 1) * bytes[i]
    OBVIOUS
  <2> HIDE DEF b
  <2> QED
    BY <2>1, <2>2 DEF HighStep, AddStep
<1> HIDE DEF b
<1>4. g = HighStep(bytes, g)
  <2>1. PICK c : c = AddStep(b, n, c)
    <3> HIDE DEF n
    <3> QED
      BY <1>1, RunningSums
  <2>2. c = HighStep(bytes, c)
    BY <1>3, <2>1
  <2> QED
    BY <2>2
<1> HIDE DEF g
<1>5. g = AddStep(b, n, g)
  BY <1>3, <1>4
<1> HIDE DEF n
<1>6. g \in [0 .. n -> Nat]
  BY <1>1, <1>5, RunningSums
<1>7. n \in 0 .. n
  BY <1>1
<1> QED
  BY <1>2, <1>6, <1>7 DEF n

\* Adler-32 is 32 bits.
LEMMA Adler32Is32 == ASSUME NEW check \in Check32, NEW bytes \in Seq(Byte) PROVE Adler32(check, bytes) \in Check32
<1> DEFINE n == Len(bytes)
           low == Num(SubSeq(check, 1, 16))
           high == Num(SubSeq(check, 17, 32))
           t == Total(n, LAMBDA i : bytes[i])
           u == Total(n, LAMBDA i : (n - i + 1) * bytes[i])
           x == (low + t) % 65521
           y == (high + n * low + u) % 65521
<1>c. check \in Seq(Bit) /\ Len(check) = 32
  BY DEF Check32
<1>1. SubSeq(check, 1, 16) \in Seq(Bit) /\ SubSeq(check, 17, 32) \in Seq(Bit)
  <2>1. 1 \in Nat \ {0} /\ 17 \in Nat \ {0} /\ 16 \in 0 .. Len(check) /\ 32 \in 0 .. Len(check)
    BY <1>c
  <2> QED
    BY <1>c, <2>1, PartOf
<1>2. low \in Nat /\ high \in Nat
  BY <1>1, NumBound
<1>t. t \in Nat
  BY LowTotal
<1>u. u \in Nat
  BY HighTotal
<1>3. t \in Nat /\ u \in Nat /\ n \in Nat
  <2>1. n \in Nat
    BY LenProperties
  <2> HIDE DEF t, u, n
  <2> QED
    BY <2>1, <1>t, <1>u
<1>0. Adler32(check, bytes) = BitsOf(16, x) \o BitsOf(16, y)
  BY DEF Adler32, Total
<1> HIDE DEF low, high, t, u, n
<1>4. n * low \in Nat
  BY <1>2, <1>3
<1>5. x \in Nat /\ y \in Nat
  BY <1>2, <1>3, <1>4
<1> HIDE DEF x, y
<1>6. /\ BitsOf(16, x) \in Seq(Bit) /\ Len(BitsOf(16, x)) = 16
      /\ BitsOf(16, y) \in Seq(Bit) /\ Len(BitsOf(16, y)) = 16
  BY <1>5, BitsOfNumber
<1> DEFINE a == BitsOf(16, x)
           c == BitsOf(16, y)
<1>7. a \in Seq(Bit) /\ c \in Seq(Bit) /\ Len(a) = 16 /\ Len(c) = 16
  BY <1>6
<1>8. Adler32(check, bytes) = a \o c
  BY <1>0
<1> HIDE DEF a, c
<1>9. a \o c \in Seq(Bit) /\ Len(a \o c) = 32
  <2>1. a \o c \in Seq(Bit) /\ Len(a \o c) = Len(a) + Len(c)
    BY <1>7, ConcatProperties
  <2> QED
    BY <1>7, <2>1
<1> QED
  BY <1>8, <1>9 DEF Check32

\* CRC-32 is 32 bits.
LEMMA Crc32Is32 == ASSUME NEW check, NEW bytes PROVE Crc32(check, bytes) \in Check32
<1>1. \A ones : Word32(ones) \in Check32
  BY DEF Word32, Check32, Bit
<1> QED
  BY <1>1 DEF Crc32

\* So are the bytes of a check value in the opposite order.
LEMMA SwappedIs32 == ASSUME NEW bits \in Check32 PROVE Swapped(bits) \in Check32
<1>0. bits \in Seq(Bit) /\ Len(bits) = 32
  BY DEF Check32
<1> DEFINE a == SubSeq(bits, 25, 32)
           b == SubSeq(bits, 17, 24)
           c == SubSeq(bits, 9, 16)
           d == SubSeq(bits, 1, 8)
<1>1. a \in Seq(Bit) /\ Len(a) = 8
  <2>1. 25 \in Nat \ {0} /\ 32 \in 0 .. Len(bits)
    BY <1>0
  <2>2. a \in Seq(Bit) /\ Len(a) = IF 25 <= 32 THEN 32 - 25 + 1 ELSE 0
    BY <1>0, <2>1, PartOf
  <2> QED
    BY <2>2
<1>2. b \in Seq(Bit) /\ Len(b) = 8
  <2>1. 17 \in Nat \ {0} /\ 24 \in 0 .. Len(bits)
    BY <1>0
  <2>2. b \in Seq(Bit) /\ Len(b) = IF 17 <= 24 THEN 24 - 17 + 1 ELSE 0
    BY <1>0, <2>1, PartOf
  <2> QED
    BY <2>2
<1>5. c \in Seq(Bit) /\ Len(c) = 8
  <2>1. 9 \in Nat \ {0} /\ 16 \in 0 .. Len(bits)
    BY <1>0
  <2>2. c \in Seq(Bit) /\ Len(c) = IF 9 <= 16 THEN 16 - 9 + 1 ELSE 0
    BY <1>0, <2>1, PartOf
  <2> QED
    BY <2>2
<1>6. d \in Seq(Bit) /\ Len(d) = 8
  <2>1. 1 \in Nat \ {0} /\ 8 \in 0 .. Len(bits)
    BY <1>0
  <2>2. d \in Seq(Bit) /\ Len(d) = IF 1 <= 8 THEN 8 - 1 + 1 ELSE 0
    BY <1>0, <2>1, PartOf, ZenonT(20)
  <2> QED
    BY <2>2
<1>3. Swapped(bits) = a \o b \o c \o d
  BY DEF Swapped
<1> HIDE DEF a, b, c, d
<1>4. a \o b \o c \o d \in Seq(Bit) /\ Len(a \o b \o c \o d) = 32
  <2>1. a \o b \in Seq(Bit) /\ Len(a \o b) = Len(a) + Len(b)
    BY <1>1, <1>2, ConcatProperties
  <2>2. a \o b \o c \in Seq(Bit) /\ Len(a \o b \o c) = Len(a \o b) + Len(c)
    BY <1>5, <2>1, ConcatProperties
  <2>3. a \o b \o c \o d \in Seq(Bit) /\ Len(a \o b \o c \o d) = Len(a \o b \o c) + Len(d)
    BY <1>6, <2>2, ConcatProperties
  <2> QED
    BY <1>1, <1>2, <1>5, <1>6, <2>1, <2>2, <2>3
<1> QED
  BY <1>3, <1>4 DEF Check32

-----------------------------------------------------------------------------
(* Sequences one behind the other.                                         *)

\* Concat, one sequence on.
ConcatStep(ss, c) == [i \in 0 .. Len(ss) |-> IF i = 0 THEN <<>> ELSE c[i - 1] \o ss[i]]

\* Concat by its recursion.
LEMMA ConcatIs ==
  ASSUME NEW S, NEW ss \in Seq(Seq(S))
  PROVE  \E f \in [0 .. Len(ss) -> Seq(S)] :
           /\ Concat(ss) = f[Len(ss)] /\ f[0] = <<>>
           /\ \A i \in 1 .. Len(ss) : f[i] = f[i - 1] \o ss[i]
<1> DEFINE n == Len(ss)
           term(i) == IF i \in 1 .. n THEN ss[i] ELSE <<>>
           a == [p \in Nat \X Seq(S) |-> p[2] \o term(p[1])]
<1>n. n \in Nat
  BY LenProperties
<1>1. \A i : term(i) \in Seq(S)
  <2> SUFFICES ASSUME NEW i PROVE term(i) \in Seq(S)
    OBVIOUS
  <2>1. CASE i \in 1 .. n
    BY <2>1, ElementOfSeq
  <2>2. CASE i \notin 1 .. n
    BY <2>2, EmptySeq
  <2> QED
    BY <2>1, <2>2
<1>0. \A i \in 1 .. n : term(i) = ss[i]
  OBVIOUS
<1> HIDE DEF term
<1>2. a \in [Nat \X Seq(S) -> Seq(S)]
  <2>1. \A p \in Nat \X Seq(S) : p[2] \o term(p[1]) \in Seq(S)
    <3> SUFFICES ASSUME NEW p \in Nat \X Seq(S) PROVE p[2] \o term(p[1]) \in Seq(S)
      OBVIOUS
    <3>1. p[2] \in Seq(S) /\ term(p[1]) \in Seq(S)
      BY <1>1
    <3> QED
      BY <3>1, ConcatProperties
  <2> QED
    BY <2>1
<1>3. \A i \in Nat, x \in Seq(S) : a[<<i, x>>] = x \o term(i)
  OBVIOUS
<1> HIDE DEF a, n
<1>4. PICK f \in [0 .. n -> Seq(S)] : Recurs(f, <<>>, a, n)
  <2>1. <<>> \in Seq(S)
    BY EmptySeq
  <2> QED
    BY <1>n, <1>2, <2>1, Recursion
<1>s. \A i \in 1 .. n : i \in Nat /\ i \in 0 .. n /\ i # 0 /\ i - 1 \in 0 .. n
  BY <1>n
<1>5. \A i \in 0 .. n : f[i] = IF i = 0 THEN <<>> ELSE a[<<i, f[i - 1]>>]
  BY <1>4 DEF Recurs
<1>6. f[0] = <<>> /\ \A i \in 1 .. n : f[i] = f[i - 1] \o ss[i]
  <2>1. f[0] = <<>>
    <3>1. 0 \in 0 .. n
      BY <1>n
    <3> QED
      BY <1>5, <3>1
  <2>2. ASSUME NEW i \in 1 .. n PROVE f[i] = f[i - 1] \o ss[i]
    <3>1. f[i - 1] \in Seq(S) /\ i \in Nat /\ i \in 0 .. n /\ i # 0
      BY <1>s
    <3>2. a[<<i, f[i - 1]>>] = f[i - 1] \o term(i)
      BY <1>3, <3>1
    <3>3. f[i] = a[<<i, f[i - 1]>>]
      BY <1>5, <3>1
    <3> QED
      BY <1>0, <3>2, <3>3
  <2> QED
    BY <2>1, <2>2
<1> DEFINE g == CHOOSE c : c = ConcatStep(ss, c)
<1>7. Concat(ss) = g[n]
  BY DEF Concat, ConcatStep, n
<1>8. f = ConcatStep(ss, f)
  <2>1. \A i \in 0 .. n : f[i] = IF i = 0 THEN <<>> ELSE f[i - 1] \o ss[i]
    <3>1. \A i \in 0 .. n : i = 0 \/ i \in 1 .. n
      BY <1>n
    <3>2. \A i \in 1 .. n : i # 0
      OBVIOUS
    <3> QED
      BY <1>6, <3>1, <3>2
  <2>2. f = [i \in 0 .. n |-> f[i]]
    OBVIOUS
  <2>3. f = [i \in 0 .. n |-> IF i = 0 THEN <<>> ELSE f[i - 1] \o ss[i]]
    BY <2>1, <2>2
  <2> QED
    BY <2>3 DEF ConcatStep, n
<1>9. g = ConcatStep(ss, g)
  BY <1>8
<1> HIDE DEF g
<1>10. g = f
  <2>1. \A i \in 0 .. n : g[i] = IF i = 0 THEN <<>> ELSE g[i - 1] \o ss[i]
    BY <1>9 DEF ConcatStep, n
  <2>2. g = [i \in 0 .. n |-> g[i]]
    BY <1>9 DEF ConcatStep, n
  <2> DEFINE T == {i \in Nat : i <= n => g[i] = f[i]}
  <2>3. 0 \in T
    <3>1. 0 \in 0 .. n
      BY <1>n
    <3> QED
      BY <1>6, <2>1, <3>1
  <2>4. ASSUME NEW i \in T PROVE i + 1 \in T
    <3> SUFFICES ASSUME i + 1 <= n PROVE g[i + 1] = f[i + 1]
      OBVIOUS
    <3>1. i + 1 \in 1 .. n /\ i + 1 \in 0 .. n /\ i + 1 # 0 /\ (i + 1) - 1 = i
      BY <1>n
    <3>2. g[i] = f[i]
      BY <1>n
    <3>3. g[i + 1] = g[(i + 1) - 1] \o ss[i + 1] /\ f[i + 1] = f[(i + 1) - 1] \o ss[i + 1]
      BY <1>6, <2>1, <3>1
    <3> QED
      BY <3>1, <3>2, <3>3
  <2> HIDE DEF T
  <2>5. T \in SUBSET Nat
    BY DEF T
  <2>6. T = Nat
    BY <2>3, <2>4, <2>5, Counting
  <2>7. \A i \in 0 .. n : i \in Nat /\ i <= n
    BY <1>n
  <2>8. \A i \in 0 .. n : g[i] = f[i]
    BY <2>6, <2>7 DEF T
  <2> QED
    BY <2>2, <2>8
<1> QED
  BY <1>6, <1>7, <1>10 DEF n

\* Concat of nothing, and of one sequence more.
LEMMA ConcatNone == Concat(<<>>) = <<>>
<1>1. ASSUME NEW S, NEW ss \in Seq(Seq(S)) PROVE Len(ss) = 0 => Concat(ss) = <<>>
  <2>1. PICK f \in [0 .. Len(ss) -> Seq(S)] :
          /\ Concat(ss) = f[Len(ss)] /\ f[0] = <<>>
          /\ \A i \in 1 .. Len(ss) : f[i] = f[i - 1] \o ss[i]
    BY ConcatIs
  <2> QED
    BY <2>1
<1>2. <<>> \in Seq(Seq({0})) /\ Len(<<>>) = 0
  BY EmptySeq
<1> QED
  BY <1>1, <1>2

\* One sequence more.
LEMMA ConcatMore ==
  ASSUME NEW S, NEW ss \in Seq(Seq(S)), NEW s \in Seq(S)
  PROVE  /\ Concat(ss) \in Seq(S)
         /\ Append(ss, s) \in Seq(Seq(S))
         /\ Concat(Append(ss, s)) = Concat(ss) \o s
<1> DEFINE tt == Append(ss, s)
           n == Len(ss)
<1>1. /\ n \in Nat /\ tt \in Seq(Seq(S)) /\ Len(tt) = n + 1
      /\ tt[n + 1] = s /\ \A i \in 1 .. n : tt[i] = ss[i]
  OBVIOUS
<1> HIDE DEF tt
<1>2. PICK f \in [0 .. n -> Seq(S)] :
        /\ Concat(ss) = f[n] /\ f[0] = <<>>
        /\ \A i \in 1 .. n : f[i] = f[i - 1] \o ss[i]
  BY ConcatIs
<1>3. PICK g \in [0 .. n + 1 -> Seq(S)] :
        /\ Concat(tt) = g[n + 1] /\ g[0] = <<>>
        /\ \A i \in 1 .. n + 1 : g[i] = g[i - 1] \o tt[i]
  <2>1. \E g \in [0 .. Len(tt) -> Seq(S)] :
          /\ Concat(tt) = g[Len(tt)] /\ g[0] = <<>>
          /\ \A i \in 1 .. Len(tt) : g[i] = g[i - 1] \o tt[i]
    BY <1>1, ConcatIs
  <2>2. Len(tt) = n + 1
    BY <1>1
  <2> HIDE DEF n
  <2> QED
    BY <2>1, <2>2
<1> HIDE DEF n
<1> DEFINE T == {i \in Nat : i <= n => g[i] = f[i]}
<1>4. 0 \in T
  BY <1>2, <1>3
<1>5. ASSUME NEW i \in T PROVE i + 1 \in T
  <2> SUFFICES ASSUME i + 1 <= n PROVE g[i + 1] = f[i + 1]
    OBVIOUS
  <2>1. i + 1 \in 1 .. n /\ i + 1 \in 1 .. n + 1 /\ (i + 1) - 1 = i
    BY <1>1
  <2>2. g[i] = f[i]
    BY <1>1
  <2>3. g[i + 1] = g[(i + 1) - 1] \o tt[i + 1] /\ f[i + 1] = f[(i + 1) - 1] \o ss[i + 1]
    BY <1>2, <1>3, <2>1
  <2> QED
    BY <1>1, <2>1, <2>2, <2>3
<1> HIDE DEF T
<1>6. T \in SUBSET Nat
  BY DEF T
<1>7. T = Nat
  BY <1>4, <1>5, <1>6, Counting
<1>8. g[n] = f[n]
  BY <1>1, <1>7, SMTT(20) DEF T
<1>9. n + 1 \in 1 .. n + 1 /\ (n + 1) - 1 = n /\ n \in 0 .. n
  BY <1>1
<1>10. g[n + 1] = g[(n + 1) - 1] \o tt[n + 1]
  BY <1>3, <1>9
<1>11. f[n] \in Seq(S)
  BY <1>2, <1>9
<1> QED
  BY <1>1, <1>2, <1>3, <1>8, <1>9, <1>10, <1>11 DEF tt

-----------------------------------------------------------------------------
(* Codes that inflate reads by.                                            *)

\* A code that 15 bits are always enough for, with symbols up to n.
IsCode(c, n) == /\ \A bits \in Seq(Bit) : Len(bits) >= 15 => Known(c, bits)
                /\ \A bits \in Seq(Bit) : \A u, v \in Leading(c, bits) : u = v
                /\ \A w \in DOMAIN c : w \in Seq(Bit) /\ Len(w) \in 1 .. 15 /\ c[w] \in -1 .. n

\* What inflate_table makes of the accepted lists of up to n + 1 lengths.
Lists(n) == {lens \in UNION {[0 .. m -> 0 .. 15] : m \in 0 .. n} :
               \E type \in {"CODES", "LENS", "DISTS"} : Accepted(type, lens)}
Codes(n) == {CodeOf(lens) : lens \in Lists(n)}

\* By CodesRead every one of them is such a code.
LEMMA CodesAreCodes == ASSUME NEW n \in Nat, NEW c \in Codes(n) PROVE IsCode(c, n)
<1>1. PICK lens \in Lists(n) : c = CodeOf(lens)
  BY DEF Codes
<1>2. PICK m \in 0 .. n, type \in {"CODES", "LENS", "DISTS"} : lens \in [0 .. m -> 0 .. 15] /\ Accepted(type, lens)
  BY DEF Lists
<1> DEFINE D == 0 .. m
<1>3. Alphabet(D)
  BY FS_Interval DEF Alphabet
<1>4. MAXBITS = 15 /\ lens \in [D -> 0 .. MAXBITS]
  BY <1>2, InflateAssumption
<1>5. \A d \in D \cup {INVALID} : d \in -1 .. n
  BY DEF INVALID
<1> HIDE DEF D
<1>6. /\ \A bits \in Seq(Bit) : Len(bits) >= MAXBITS => Leading(CodeOf(lens), bits) # {}
      /\ \A bits \in Seq(Bit) : \A u, v \in Leading(CodeOf(lens), bits) : u = v
      /\ \A w \in DOMAIN CodeOf(lens) :
           w \in Seq(Bit) /\ Len(w) \in 1 .. MAXBITS /\ CodeOf(lens)[w] \in D \cup {INVALID}
  BY <1>2, <1>3, <1>4, CodesRead
<1> QED
  BY <1>1, <1>4, <1>5, <1>6 DEF IsCode, Known

\* Codes with fewer symbols are among them.
LEMMA CodesGrow == ASSUME NEW n \in Nat, NEW m \in Nat, m <= n PROVE Codes(m) \subseteq Codes(n)
  BY DEF Codes, Lists

\* The word that is found: the bits begin with it.
LEMMA FirstIs ==
  ASSUME NEW n, NEW c, IsCode(c, n), NEW bits \in Seq(Bit), Known(c, bits)
  PROVE  /\ First(c, bits) \in Seq(Bit) /\ Len(First(c, bits)) \in 1 .. 15 /\ Len(First(c, bits)) <= Len(bits)
         /\ First(c, bits) = SubSeq(bits, 1, Len(First(c, bits)))
         /\ First(c, bits) \in DOMAIN c /\ c[First(c, bits)] \in -1 .. n
<1> DEFINE w == First(c, bits)
<1>1. w \in Leading(c, bits)
  BY DEF Known, First
<1> HIDE DEF w
<1>2. MAXBITS = 15
  BY InflateAssumption
<1>3. PICK k \in 1 .. IF Len(bits) < 15 THEN Len(bits) ELSE 15 : w = SubSeq(bits, 1, k)
  BY <1>1, <1>2 DEF Leading
<1>4. w \in DOMAIN c
  BY <1>1 DEF Leading
<1>5. Len(bits) \in Nat
  BY LenProperties
<1>6. k \in 0 .. Len(bits) /\ k \in 1 .. 15 /\ k <= Len(bits) /\ 1 \in Nat \ {0}
  BY <1>5
<1>7. Len(w) = IF 1 <= k THEN k - 1 + 1 ELSE 0
  BY <1>3, <1>6, PartOf
<1>8. Len(w) = k
  BY <1>6, <1>7
<1>9. w \in Seq(Bit) /\ c[w] \in -1 .. n
  BY <1>4 DEF IsCode
<1> QED
  BY <1>3, <1>4, <1>6, <1>8, <1>9 DEF w

\* If some of the bits were not enough, the word is longer than they are.
LEMMA FirstIsLonger ==
  ASSUME NEW n, NEW c, IsCode(c, n), NEW bits \in Seq(Bit), Known(c, bits),
         NEW m \in 0 .. Len(bits), ~Known(c, SubSeq(bits, 1, m))
  PROVE  Len(First(c, bits)) > m
<1> DEFINE w == First(c, bits)
           k == Len(w)
           some == SubSeq(bits, 1, m)
<1>1. /\ k \in 1 .. 15 /\ k <= Len(bits) /\ w = SubSeq(bits, 1, k) /\ w \in DOMAIN c
  BY FirstIs
<1> SUFFICES ASSUME k <= m PROVE FALSE
  <2>1. m \in Nat /\ k \in Nat
    BY <1>1, LenProperties
  <2> HIDE DEF k
  <2> QED
    BY <2>1 DEF k, w
<1>2. Len(bits) \in Nat /\ m \in Nat
  BY LenProperties
<1>3. some \in Seq(Bit) /\ Len(some) = m
  <2>1. 1 \in Nat \ {0} /\ m \in 0 .. Len(bits)
    OBVIOUS
  <2>2. some \in Seq(Bit) /\ Len(some) = IF 1 <= m THEN m - 1 + 1 ELSE 0
    BY <2>1, PartOf
  <2> QED
    BY <1>2, <2>2
<1> HIDE DEF k
<1>4. SubSeq(some, 1, k) = SubSeq(bits, 1, k)
  <2>1. k \in 1 .. m /\ 1 \in 1 .. m /\ 1 \in 1 .. Len(bits) /\ m \in 1 .. Len(bits)
    BY <1>1, <1>2
  <2>2. 1 \in 1 .. m - 1 + 1 /\ k \in 1 .. m - 1 + 1 /\ 1 + 1 - 1 = 1 /\ 1 + k - 1 = k
    BY <1>1, <1>2, <2>1
  <2>3. SubSeq(SubSeq(bits, 1, m), 1, k) = SubSeq(bits, 1 + 1 - 1, 1 + k - 1)
    BY <2>1, <2>2, SubSeqOfSubSeq
  <2> QED
    BY <2>2, <2>3
<1> HIDE DEF w, some
<1>5. MAXBITS = 15
  BY InflateAssumption
<1>6. k \in 1 .. IF Len(some) < MAXBITS THEN Len(some) ELSE MAXBITS
  BY <1>1, <1>2, <1>3, <1>5
<1>7. w = SubSeq(some, 1, k)
  BY <1>1, <1>4
<1>8. w \in Leading(c, some)
  BY <1>1, <1>6, <1>7 DEF Leading
<1> QED
  BY <1>8 DEF Known, some

\* If some of the bits are enough already, it is the word that they begin with.
LEMMA FirstIsSame ==
  ASSUME NEW n, NEW c, IsCode(c, n), NEW bits \in Seq(Bit), NEW m \in 0 .. Len(bits), Known(c, SubSeq(bits, 1, m))
  PROVE  Known(c, bits) /\ First(c, SubSeq(bits, 1, m)) = First(c, bits)
<1> DEFINE some == SubSeq(bits, 1, m)
           w == First(c, some)
           k == Len(w)
<1>1. Len(bits) \in Nat /\ m \in Nat
  BY LenProperties
<1>2. some \in Seq(Bit) /\ Len(some) = m
  <2>1. 1 \in Nat \ {0} /\ m \in 0 .. Len(bits)
    OBVIOUS
  <2>2. some \in Seq(Bit) /\ Len(some) = IF 1 <= m THEN m - 1 + 1 ELSE 0
    BY <2>1, PartOf
  <2> QED
    BY <1>1, <2>2
<1>3. k \in 1 .. 15 /\ k <= m /\ w = SubSeq(some, 1, k) /\ w \in DOMAIN c
  <2> HIDE DEF some
  <2>1. Known(c, some)
    BY DEF some
  <2> QED
    BY <1>2, <2>1, FirstIs
<1> HIDE DEF w, k
<1>4. SubSeq(some, 1, k) = SubSeq(bits, 1, k)
  <2>1. k \in 1 .. m /\ 1 \in 1 .. m /\ 1 \in 1 .. Len(bits) /\ m \in 1 .. Len(bits)
    BY <1>1, <1>3
  <2>2. 1 \in 1 .. m - 1 + 1 /\ k \in 1 .. m - 1 + 1 /\ 1 + 1 - 1 = 1 /\ 1 + k - 1 = k
    BY <1>1, <1>3, <2>1
  <2>3. SubSeq(SubSeq(bits, 1, m), 1, k) = SubSeq(bits, 1 + 1 - 1, 1 + k - 1)
    BY <2>1, <2>2, SubSeqOfSubSeq
  <2> QED
    BY <2>2, <2>3
<1> HIDE DEF some
<1>5. MAXBITS = 15
  BY InflateAssumption
<1>6. k \in 1 .. IF Len(bits) < MAXBITS THEN Len(bits) ELSE MAXBITS
  BY <1>1, <1>3, <1>5
<1>7. w \in Leading(c, bits)
  BY <1>3, <1>4, <1>6 DEF Leading
<1>8. Known(c, bits)
  BY <1>7 DEF Known
<1>9. First(c, bits) \in Leading(c, bits)
  BY <1>7 DEF First
<1>10. w = First(c, bits)
  BY <1>7, <1>9 DEF IsCode
<1> QED
  BY <1>8, <1>10 DEF w, some

\* A list of lengths that uses the words up: no length takes more than are left.
LEMMA UsedUp ==
  ASSUME NEW n \in Nat, NEW lens \in [0 .. n -> 0 .. 15], NEW s \in 0 .. n, lens[s] # 0,
         \A l \in 1 .. 15 : Left(lens)[l] >= 0, Left(lens)[15] = 0
  PROVE  CodeOf(lens) \in Codes(n)
<1>1. MAXBITS = 15
  BY InflateAssumption
<1>2. Accepted("LENS", lens)
  BY <1>1 DEF Accepted
<1>3. lens \in Lists(n)
  BY <1>2 DEF Lists
<1> QED
  BY <1>3 DEF Codes

\* Left, one length after the other.
LEMMA LeftOn ==
  ASSUME NEW n \in Nat, NEW lens \in [0 .. n -> 0 .. 15]
  PROVE  /\ Left(lens)[0] = 1
         /\ \A l \in 1 .. 15 : Left(lens)[l] = 2 * Left(lens)[l - 1] - CountOf(lens, l)
         /\ Left(lens) \in [0 .. 15 -> Int]
<1> DEFINE D == 0 .. n
<1>1. MAXBITS = 15 /\ IsFiniteSet(D) /\ lens \in [D -> 0 .. MAXBITS]
  BY InflateAssumption, FS_Interval
<1> HIDE DEF D
<1>2. /\ Left(lens) \in [0 .. MAXBITS -> Int] /\ Left(lens)[0] = 1
      /\ \A l \in 1 .. MAXBITS : Left(lens)[l] = 2 * Left(lens)[l - 1] - CountOf(lens, l)
  BY <1>1, LeftEquations
<1> QED
  BY <1>1, <1>2

\* How many numbers there are in an interval.
LEMMA Between ==
  ASSUME NEW a \in Int, NEW b \in Int, a <= b, NEW c \in Int, c = b - a + 1
  PROVE  IsFiniteSet(a .. b) /\ Cardinality(a .. b) = c
<1>1. Cardinality(a .. b) = IF a > b THEN 0 ELSE b - a + 1
  BY FS_Interval
<1>2. IsFiniteSet(a .. b)
  BY FS_Interval
<1> QED
  BY <1>1, <1>2

\* The code of distances in a block of type 1: 32 words of 5 bits.
LEMMA FixedDistIs == FixedDist \in Codes(31)
<1> DEFINE lens == [s \in 0 .. 31 |-> 5]
           x == Left(lens)
<1>1. lens \in [0 .. 31 -> 0 .. 15] /\ lens[0] # 0 /\ 0 \in 0 .. 31
  OBVIOUS
<1>2. CountOf(lens, 5) = 32
  <2>1. {s \in DOMAIN lens : lens[s] = 5} = 0 .. 31
    OBVIOUS
  <2>2. Cardinality(0 .. 31) = 32
    <3>1. 0 \in Int /\ 31 \in Int /\ 0 <= 31 /\ 32 \in Int /\ 32 = 31 - 0 + 1
      OBVIOUS
    <3> QED
      BY <3>1, Between
  <2> QED
    BY <2>1, <2>2 DEF CountOf
<1>3. \A l : l # 5 => CountOf(lens, l) = 0
  <2> SUFFICES ASSUME NEW l, l # 5 PROVE CountOf(lens, l) = 0
    OBVIOUS
  <2>1. {s \in DOMAIN lens : lens[s] = l} = {}
    OBVIOUS
  <2> QED
    BY <2>1, FS_EmptySet DEF CountOf
<1>4. FixedDist = CodeOf(lens)
  BY DEF FixedDist
<1> HIDE DEF lens
<1>5. /\ x[0] = 1 /\ x \in [0 .. 15 -> Int]
      /\ \A l \in 1 .. 15 : x[l] = 2 * x[l - 1] - CountOf(lens, l)
  BY <1>1, LeftOn
<1> HIDE DEF x
<1>6. x[1] = 2 /\ x[2] = 4 /\ x[3] = 8 /\ x[4] = 16 /\ x[5] = 0
  BY <1>2, <1>3, <1>5
<1>r. \A l \in 6 .. 15 : x[l] = 2 * x[l - 1]
  BY <1>3, <1>5
<1>7. x[6] = 0 /\ x[7] = 0 /\ x[8] = 0
  BY <1>6, <1>r
<1>a. x[9] = 0 /\ x[10] = 0 /\ x[11] = 0
  BY <1>7, <1>r
<1>b. x[12] = 0 /\ x[13] = 0
  BY <1>a, <1>r
<1>8. x[14] = 0 /\ x[15] = 0
  BY <1>b, <1>r
<1>9. \A l \in 1 .. 15 : x[l] >= 0
  BY <1>6, <1>7, <1>8, <1>a, <1>b
<1> QED
  BY <1>1, <1>4, <1>8, <1>9, UsedUp DEF x

\* The code of literals and lengths in it: 24 words of 7 bits, 152 of 8 and 112 of 9.
LEMMA FixedLenIs == FixedLen \in Codes(287)
<1> DEFINE lens == [s \in 0 .. 287 |-> CASE s < 144 -> 8 [] s \in 144 .. 255 -> 9 [] s \in 256 .. 279 -> 7 [] OTHER -> 8]
           x == Left(lens)
<1>0. /\ DOMAIN lens = 0 .. 287
      /\ \A s \in 0 .. 287 : /\ s < 144 => lens[s] = 8
                             /\ s >= 144 /\ s <= 255 => lens[s] = 9
                             /\ s >= 256 /\ s <= 279 => lens[s] = 7
                             /\ s >= 280 => lens[s] = 8
  OBVIOUS
<1>4. FixedLen = CodeOf(lens)
  BY DEF FixedLen
<1>f. lens = [s \in 0 .. 287 |-> lens[s]]
  OBVIOUS
<1> DEFINE n == 287
<1> HIDE DEF lens, n
<1>1. lens \in [0 .. n -> 0 .. 15] /\ lens[0] # 0 /\ 0 \in 0 .. n
  <2>1. \A s \in 0 .. 287 : lens[s] \in {7, 8, 9}
    BY <1>0
  <2>2. \A s \in 0 .. 287 : lens[s] \in 0 .. 15
    BY <2>1
  <2>3. lens[0] \in {7, 8, 9}
    BY <2>1
  <2>4. lens \in [0 .. n -> 0 .. 15]
    <3>2. lens \in [0 .. 287 -> 0 .. 15]
      <4> DEFINE S == 0 .. 287
                 T == 0 .. 15
      <4>1. lens = [s \in S |-> lens[s]] /\ \A s \in S : lens[s] \in T
        BY <1>f, <2>2, ZenonT(20)
      <4> HIDE DEF S, T
      <4>2. lens \in [S -> T]
        BY <4>1
      <4> QED
        BY <4>2 DEF S, T
    <3> QED
      BY <3>2 DEF n
  <2>5. lens[0] # 0
    BY <2>3
  <2>6. 0 \in 0 .. n
    BY DEF n
  <2> QED
    BY <2>4, <2>5, <2>6
<1>2. CountOf(lens, 7) = 24
  <2>1. {s \in DOMAIN lens : lens[s] = 7} = 256 .. 279
    BY <1>0
  <2>2. Cardinality(256 .. 279) = 24
    <3> DEFINE a == 256
               b == 279
    <3>1. a \in Int /\ b \in Int /\ a <= b /\ b - a + 1 = 24
      OBVIOUS
    <3> HIDE DEF a, b
    <3>2. Cardinality(a .. b) = 24
      BY <3>1, Between
    <3> QED
      BY <3>2 DEF a, b
  <2> QED
    BY <2>1, <2>2 DEF CountOf
<1>3. CountOf(lens, 9) = 112
  <2>1. {s \in DOMAIN lens : lens[s] = 9} = 144 .. 255
    BY <1>0
  <2>2. Cardinality(144 .. 255) = 112
    <3> DEFINE a == 144
               b == 255
    <3>1. a \in Int /\ b \in Int /\ a <= b /\ b - a + 1 = 112
      OBVIOUS
    <3> HIDE DEF a, b
    <3>2. Cardinality(a .. b) = 112
      BY <3>1, Between
    <3> QED
      BY <3>2 DEF a, b
  <2> QED
    BY <2>1, <2>2 DEF CountOf
<1>5. CountOf(lens, 8) = 152
  <2> DEFINE A == 0 .. 143
             B == 280 .. 287
  <2>1. {s \in DOMAIN lens : lens[s] = 8} = A \cup B
    BY <1>0
  <2>2. Cardinality(A) = 144 /\ IsFiniteSet(A) /\ Cardinality(B) = 8 /\ IsFiniteSet(B)
    <3>1. 0 \in Int /\ 143 \in Int /\ 0 <= 143 /\ 144 \in Int /\ 144 = 143 - 0 + 1
      OBVIOUS
    <3> DEFINE a == 280
               b == 287
    <3>2. a \in Int /\ b \in Int /\ a <= b /\ b - a + 1 = 8
      OBVIOUS
    <3> HIDE DEF a, b
    <3>5. Cardinality(a .. b) = 8 /\ IsFiniteSet(a .. b)
      BY <3>2, Between
    <3>3. Cardinality(A) = 144 /\ IsFiniteSet(A)
      BY <3>1, Between, ZenonT(20)
    <3>4. Cardinality(B) = 8 /\ IsFiniteSet(B)
      BY <3>5 DEF a, b
    <3> QED
      BY <3>3, <3>4
  <2>3. A \cap B = {}
    OBVIOUS
  <2> HIDE DEF A, B
  <2>4. Cardinality(A \cup B) = Cardinality(A) + Cardinality(B) - Cardinality(A \cap B)
    BY <2>2, FS_Union
  <2>5. Cardinality(A \cap B) = 0
    BY <2>3, FS_EmptySet
  <2> QED
    BY <2>1, <2>2, <2>4, <2>5 DEF CountOf
<1>6. \A l \in Int : l \notin {7, 8, 9} => CountOf(lens, l) = 0
  <2> SUFFICES ASSUME NEW l \in Int, l \notin {7, 8, 9} PROVE CountOf(lens, l) = 0
    OBVIOUS
  <2>1. {s \in DOMAIN lens : lens[s] = l} = {}
    <3>1. \A s \in 0 .. 287 : lens[s] \in {7, 8, 9}
      BY <1>0
    <3> QED
      BY <1>0, <3>1
  <2> QED
    BY <2>1, FS_EmptySet DEF CountOf
<1>n. n \in Nat
  BY DEF n
<1>7. /\ x[0] = 1 /\ x \in [0 .. 15 -> Int]
      /\ \A l \in 1 .. 15 : x[l] = 2 * x[l - 1] - CountOf(lens, l)
  BY <1>n, <1>1, LeftOn
<1> HIDE DEF x
<1>8. x[1] = 2 /\ x[2] = 4 /\ x[3] = 8 /\ x[4] = 16 /\ x[5] = 32 /\ x[6] = 64
  BY <1>6, <1>7
<1>9. x[7] = 104
  BY <1>2, <1>7, <1>8
<1>10. x[8] = 56
  BY <1>5, <1>7, <1>9
<1>11. x[9] = 0
  BY <1>3, <1>7, <1>10
<1>r. \A l \in 10 .. 15 : x[l] = 2 * x[l - 1]
  BY <1>6, <1>7
<1>12. x[10] = 0 /\ x[11] = 0 /\ x[12] = 0
  BY <1>11, <1>r
<1>a. x[13] = 0 /\ x[14] = 0 /\ x[15] = 0
  BY <1>12, <1>r
<1>13. \A l \in 1 .. 15 : x[l] >= 0
  BY <1>8, <1>9, <1>10, <1>11, <1>12, <1>a
<1>14. CodeOf(lens) \in Codes(n)
  BY <1>n, <1>1, <1>a, <1>13, UsedUp DEF x
<1> QED
  BY <1>4, <1>14 DEF n

\* Small powers.
LEMMA SmallPowers == 2^0 = 1 /\ 2^1 = 2 /\ 2^2 = 4 /\ 2^3 = 8 /\ 2^4 = 16 /\ 2^5 = 32
<1>1. \A n \in Nat : 2^(n + 1) = 2 * 2^n /\ 2^n \in Nat
  BY PowerDoubles, PowerOf
<1>2. 2^1 = 2 * 2^0 /\ 2^2 = 2 * 2^1 /\ 2^3 = 2 * 2^2 /\ 2^4 = 2 * 2^3 /\ 2^5 = 2 * 2^4
  <2>1. 2^(0 + 1) = 2 * 2^0
    BY <1>1
  <2>2. 2^(1 + 1) = 2 * 2^1
    BY <1>1
  <2>3. 2^(2 + 1) = 2 * 2^2
    BY <1>1
  <2>4. 2^(3 + 1) = 2 * 2^3
    BY <1>1
  <2>5. 2^(4 + 1) = 2 * 2^4
    BY <1>1
  <2>6. 0 + 1 = 1 /\ 1 + 1 = 2 /\ 2 + 1 = 3 /\ 3 + 1 = 4 /\ 4 + 1 = 5
    OBVIOUS
  <2> QED
    BY <2>1, <2>2, <2>3, <2>4, <2>5, <2>6
<1> QED
  BY <1>2, PowerZero

\* A length with its extra bits is 258 at most (lbase and lext).
LEMMA LengthTable ==
  \A k \in 1 .. 29 : /\ LengthBase[k] \in Nat /\ LengthExtra(k) \in 0 .. 5
                     /\ LengthBase[k] + 2^LengthExtra(k) <= 259
<1>1. /\ \A k \in 1 .. 8 : LengthBase[k] \in Nat /\ LengthBase[k] <= 10 /\ LengthExtra(k) = 0
      /\ LengthBase[29] = 258 /\ LengthExtra(29) = 0
  BY DEF LengthBase, LengthExtra
<1>2. \A k \in 9 .. 12 : LengthBase[k] \in Nat /\ LengthBase[k] <= 17 /\ LengthExtra(k) = 1
  BY DEF LengthBase, LengthExtra
<1>3. \A k \in 13 .. 16 : LengthBase[k] \in Nat /\ LengthBase[k] <= 31 /\ LengthExtra(k) = 2
  BY DEF LengthBase, LengthExtra
<1>4. \A k \in 17 .. 20 : LengthBase[k] \in Nat /\ LengthBase[k] <= 59 /\ LengthExtra(k) = 3
  BY DEF LengthBase, LengthExtra
<1>5. \A k \in 21 .. 24 : LengthBase[k] \in Nat /\ LengthBase[k] <= 115 /\ LengthExtra(k) = 4
  BY DEF LengthBase, LengthExtra
<1>6. \A k \in 25 .. 28 : LengthBase[k] \in Nat /\ LengthBase[k] <= 227 /\ LengthExtra(k) = 5
  BY DEF LengthBase, LengthExtra
<1> SUFFICES ASSUME NEW k \in 1 .. 29
             PROVE  /\ LengthBase[k] \in Nat /\ LengthExtra(k) \in 0 .. 5
                    /\ LengthBase[k] + 2^LengthExtra(k) <= 259
  OBVIOUS
<1>7. \/ k \in 1 .. 8 \/ k = 29 \/ k \in 9 .. 12 \/ k \in 13 .. 16
      \/ k \in 17 .. 20 \/ k \in 21 .. 24 \/ k \in 25 .. 28
  OBVIOUS
<1>8. LengthBase[k] \in Nat /\ LengthExtra(k) \in 0 .. 5
  BY <1>1, <1>2, <1>3, <1>4, <1>5, <1>6, <1>7
<1> DEFINE b == LengthBase[k]
           e == LengthExtra(k)
<1>9. \/ b <= 258 /\ e = 0
      \/ b <= 17 /\ e = 1
      \/ b <= 31 /\ e = 2
      \/ b <= 59 /\ e = 3
      \/ b <= 115 /\ e = 4
      \/ b <= 227 /\ e = 5
  <2>1. k \in 1 .. 8 => b <= 10 /\ e = 0
    BY <1>1
  <2>2. k = 29 => b <= 258 /\ e = 0
    BY <1>1
  <2>3. k \in 9 .. 12 => b <= 17 /\ e = 1
    BY <1>2
  <2>4. k \in 13 .. 16 => b <= 31 /\ e = 2
    BY <1>3
  <2>5. k \in 17 .. 20 => b <= 59 /\ e = 3
    BY <1>4
  <2>6. k \in 21 .. 24 => b <= 115 /\ e = 4
    BY <1>5
  <2>7. k \in 25 .. 28 => b <= 227 /\ e = 5
    BY <1>6
  <2>8. b \in Nat
    BY <1>8
  <2> HIDE DEF b, e
  <2>9. b <= 10 => b <= 258
    BY <2>8
  <2> QED
    BY <1>7, <2>1, <2>2, <2>3, <2>4, <2>5, <2>6, <2>7, <2>9
<1>10. b \in Nat
  BY <1>8
<1> HIDE DEF b, e
<1>11. b + 2^e <= 259
  <2> DEFINE p == 2^e
  <2>1. (e = 0 => p = 1) /\ (e = 1 => p = 2) /\ (e = 2 => p = 4) /\ (e = 3 => p = 8)
    BY SmallPowers, Zenon
  <2>2. (e = 4 => p = 16) /\ (e = 5 => p = 32)
    BY SmallPowers, Zenon
  <2> HIDE DEF p
  <2>3. b + p <= 259
    BY <1>9, <1>10, <2>1, <2>2
  <2> QED
    BY <2>3 DEF p
<1> QED
  BY <1>8, <1>11 DEF b, e

\* A distance is 1 at least and has 13 extra bits at most (dbase and dext).
LEMMA DistTable ==
  \A k \in 1 .. 30 : DistBase(k) \in Nat \ {0} /\ DistExtra(k) \in 0 .. 13
<1> SUFFICES ASSUME NEW k \in 1 .. 30 PROVE DistBase(k) \in Nat \ {0} /\ DistExtra(k) \in 0 .. 13
  OBVIOUS
<1>1. CASE k < 5
  BY <1>1 DEF DistBase, DistExtra
<1>2. CASE k >= 5
  <2>1. k - 3 \in 2 .. 27 /\ k - 3 \in Nat
    BY <1>2
  <2>2. (k - 3) \div 2 \in 0 .. 13
    BY <2>1
  <2>3. DistExtra(k) = (k - 3) \div 2 /\ DistExtra(k) \in 0 .. 13
    BY <1>2, <2>2 DEF DistExtra
  <2> DEFINE e == DistExtra(k)
             p == 2^e
             m == 2 + ((k - 1) % 2)
  <2>4. p \in Nat
    <3> HIDE DEF e
    <3>1. e \in Nat
      BY <2>3 DEF e
    <3> QED
      BY <3>1, PowerOf
  <2>5. m \in Nat
    OBVIOUS
  <2>6. DistBase(k) = 1 + m * p
    BY <1>2 DEF DistBase
  <2> HIDE DEF e, p, m
  <2>7. m * p \in Nat
    BY <2>4, <2>5
  <2> QED
    BY <2>3, <2>6, <2>7
<1> QED
  BY <1>1, <1>2

-----------------------------------------------------------------------------
(* The bits in hand.                                                       *)

\* What is left of a sequence.
LEMMA DroppedIs ==
  ASSUME NEW S, NEW s \in Seq(S), NEW n \in 0 .. Len(s)
  PROVE  Dropped(n, s) \in Seq(S) /\ Len(Dropped(n, s)) = Len(s) - n
<1>1. Len(s) \in Nat
  BY LenProperties
<1>2. n + 1 \in Nat \ {0} /\ Len(s) \in 0 .. Len(s)
  BY <1>1
<1>3. /\ SubSeq(s, n + 1, Len(s)) \in Seq(S)
      /\ Len(SubSeq(s, n + 1, Len(s))) = IF n + 1 <= Len(s) THEN Len(s) - (n + 1) + 1 ELSE 0
  BY <1>2, PartOf
<1> DEFINE L == Len(s)
<1>4. (IF n + 1 <= L THEN L - (n + 1) + 1 ELSE 0) = L - n
  <2>1. L \in Nat /\ n \in Nat /\ n <= L
    BY <1>1
  <2> HIDE DEF L
  <2> QED
    BY <2>1
<1> QED
  BY <1>3, <1>4 DEF Dropped

\* The first n elements.
LEMMA FirstsOf ==
  ASSUME NEW S, NEW s \in Seq(S), NEW n \in 0 .. Len(s)
  PROVE  SubSeq(s, 1, n) \in Seq(S) /\ Len(SubSeq(s, 1, n)) = n
<1>1. Len(s) \in Nat
  BY LenProperties
<1>2. 1 \in Nat \ {0}
  OBVIOUS
<1>3. /\ SubSeq(s, 1, n) \in Seq(S)
      /\ Len(SubSeq(s, 1, n)) = IF 1 <= n THEN n - 1 + 1 ELSE 0
  BY <1>2, PartOf
<1>4. n \in Nat
  BY <1>1
<1>5. (IF 1 <= n THEN n - 1 + 1 ELSE 0) = n
  BY <1>4
<1> QED
  BY <1>3, <1>5

\* The number that some of the bits are.
LEMMA NumOf ==
  ASSUME NEW bits \in Seq(Bit), NEW m \in Nat \ {0}, NEW n \in 0 .. Len(bits)
  PROVE  Num(SubSeq(bits, m, n)) \in Nat
<1>1. SubSeq(bits, m, n) \in Seq(Bit)
  BY PartOf
<1> QED
  BY <1>1, NumBound

\* A byte more.
LEMMA ByteMore ==
  ASSUME NEW hold \in Seq(Bit), NEW b \in Byte
  PROVE  /\ hold \o BitsOf(8, b) \in Seq(Bit) /\ Len(hold \o BitsOf(8, b)) = Len(hold) + 8
         /\ SubSeq(hold \o BitsOf(8, b), 1, Len(hold)) = hold
<1> DEFINE byte == BitsOf(8, b)
<1>1. b \in Nat
  BY DEF Byte
<1>2. byte \in Seq(Bit) /\ Len(byte) = 8
  BY <1>1, BitsOfNumber
<1> HIDE DEF byte
<1>3. hold \o byte \in Seq(Bit) /\ Len(hold \o byte) = Len(hold) + Len(byte)
  BY <1>2, ConcatProperties
<1>4. SubSeq(hold \o byte, 1, Len(hold)) = hold
  BY <1>2
<1> QED
  BY <1>2, <1>3, <1>4 DEF byte

-----------------------------------------------------------------------------
(* Parts of the invariant that are about inflate's state alone.            *)

\* Modes in which whole bytes are read.
Aligned == {"HEAD", "FLAGS", "TIME", "OS", "EXLEN", "EXTRA", "NAME", "COMMENT", "HCRC", "DICTID", "DICT", "STORED", "COPY",
          "CHECK", "LENGTH", "DONE"}

\* Modes of inflate_fast's loop.
Coding == {"LEN", "LENEXT", "DIST", "DISTEXT", "MATCH", "LIT"}

Flags16 == {f \in Seq(Bit) : Len(f) = 16}
Wraps == SUBSET {"zlib", "gzip"}
LenCodes == {<<>>} \cup Codes(287)
DistCodes == {<<>>} \cup Codes(31)
Lengths == Seq(0 .. 15)

States == [mode : Modes, last : BOOLEAN, wrap : Wraps, wbits : Nat, flags : Flags16, havedict : BOOLEAN,
           dmax : Nat, check : Check32, total : Nat, hold : Seq(Bit), length : Nat, offset : Nat, extra : Nat,
           fixed : BOOLEAN, lencode : LenCodes, distcode : DistCodes,
           ncode : Nat, nlen : Nat, ndist : Nat, lens : Lengths]

\* What the fields hold that the mode uses.
Sound(s) ==
  /\ Len(s.hold) <= 32
  /\ s.mode \in Aligned => \E k \in Nat : Len(s.hold) = 8 * k
  /\ s.mode \in {"LENLENS", "CODELENS"} => s.nlen \in 257 .. 286 /\ s.ndist \in 1 .. 30
  /\ s.mode = "CODELENS" => s.lencode \in Codes(18) /\ Len(s.lens) <= s.nlen + s.ndist
  /\ s.mode \in Coding => s.fixed \/ (s.lencode \in Codes(287) /\ s.distcode \in Codes(31))
  /\ s.mode = "LIT" => s.length \in Byte
  /\ s.mode = "LENEXT" => \E k \in 1 .. 29 : s.length = LengthBase[k] /\ s.extra = LengthExtra(k)
  /\ s.mode \in {"DIST", "DISTEXT", "MATCH"} => s.length <= 258
  /\ s.mode = "DISTEXT" => s.offset >= 1 /\ s.extra <= 13
  /\ s.mode = "MATCH" => s.offset >= 1

\* The model's Wanted and Ready for a state s that has bits in hand.
Wants(s) == CASE s.mode = "HEAD" /\ s.wrap # {}           -> 16
              [] s.mode \in {"FLAGS", "OS"}               -> 16
              [] s.mode \in {"TIME", "DICTID", "STORED"}  -> 32
              [] s.mode = "EXLEN" /\ s.flags[11] = 1      -> 16
              [] s.mode = "HCRC" /\ s.flags[10] = 1       -> 16
              [] s.mode = "TYPE" /\ ~s.last               -> 3
              [] s.mode = "TABLE"                         -> 14
              [] s.mode = "LENLENS" /\ Len(s.lens) < s.ncode -> 3
              [] s.mode \in {"LENEXT", "DISTEXT"}         -> s.extra
              [] s.mode = "CHECK" /\ s.wrap # {}          -> 32
              [] s.mode = "LENGTH" /\ s.wrap # {} /\ s.flags # Zeros(16) -> 32
              [] OTHER                                    -> 0

LenCodeOf(s) == IF s.fixed THEN FixedLen ELSE s.lencode
DistCodeOf(s) == IF s.fixed THEN FixedDist ELSE s.distcode

Enough(s, bits) == CASE s.mode = "LEN"      -> Known(LenCodeOf(s), bits)
                     [] s.mode = "DIST"     -> Known(DistCodeOf(s), bits)
                     [] s.mode = "CODELENS" -> \/ Len(s.lens) = s.nlen + s.ndist
                                               \/ /\ Known(s.lencode, bits)
                                                  /\ LET w == First(s.lencode, bits)
                                                     IN Len(bits) >= Len(w) + RepeatBits(s.lencode[w])
                     [] OTHER               -> Len(bits) >= Wants(s)

\* No byte was pulled before there was need of it.
Lean(s) == Len(s.hold) >= 8 => ~Enough(s, SubSeq(s.hold, 1, Len(s.hold) - 8))

\* Ready is Enough of the bits in hand.
LEMMA ReadyIs == Ready <=> Enough(st, st.hold)
<1>1. Wanted = Wants(st)
  BY DEF Wanted, Wants, FEXTRA, FHCRC, Gzip, Flag
<1>2. LenCode = LenCodeOf(st) /\ DistCode = DistCodeOf(st)
  BY DEF LenCode, LenCodeOf, DistCode, DistCodeOf
<1> QED
  BY <1>1, <1>2, Zenon DEF Ready, Enough

\* Wants, mode by mode.
LEMMA WantsIs ==
  ASSUME NEW s
  PROVE  /\ s.mode = "HEAD" => Wants(s) = IF s.wrap = {} THEN 0 ELSE 16
         /\ s.mode \in {"FLAGS", "OS"} => Wants(s) = 16
         /\ s.mode \in {"TIME", "DICTID", "STORED"} => Wants(s) = 32
         /\ s.mode = "EXLEN" => Wants(s) = IF s.flags[11] = 1 THEN 16 ELSE 0
         /\ s.mode = "HCRC" => Wants(s) = IF s.flags[10] = 1 THEN 16 ELSE 0
         /\ s.mode = "TYPE" => (~s.last => Wants(s) = 3) /\ (s.last => Wants(s) = 0)
         /\ s.mode = "TABLE" => Wants(s) = 14
         /\ s.mode = "LENLENS" => Wants(s) = IF Len(s.lens) < s.ncode THEN 3 ELSE 0
         /\ s.mode \in {"LENEXT", "DISTEXT"} => Wants(s) = s.extra
         /\ s.mode = "CHECK" => Wants(s) = IF s.wrap = {} THEN 0 ELSE 32
         /\ s.mode = "LENGTH" => Wants(s) = IF s.wrap # {} /\ s.flags # Zeros(16) THEN 32 ELSE 0
         /\ s.mode \in {"EXTRA", "NAME", "COMMENT", "DICT", "COPY", "MATCH", "LIT", "DONE", "BAD"} => Wants(s) = 0
  BY DEF Wants

\* Enough, for a code and for a number of bits.
LEMMA EnoughIs ==
  ASSUME NEW s, NEW bits
  PROVE  /\ s.mode = "LEN" => (Enough(s, bits) <=> Known(LenCodeOf(s), bits))
         /\ s.mode = "DIST" => (Enough(s, bits) <=> Known(DistCodeOf(s), bits))
         /\ s.mode \notin {"LEN", "DIST", "CODELENS"} => (Enough(s, bits) <=> Len(bits) >= Wants(s))
  BY DEF Enough

\* A state's mode is one of the switch's cases.
LEMMA ModesOf == st \in States => st.mode \in Modes
  BY DEF States

\* Where nothing is left over but part of a byte, most modes need no more.
LEMMA PlainIs ==
  ASSUME NEW s \in States, Len(s.hold) < 8, s.mode \notin Coding \cup {"LENLENS", "CODELENS"},
         s.mode \in Aligned => s.hold = <<>>
  PROVE  Sound(s) /\ Lean(s)
<1>1. s.hold \in Seq(Bit)
  BY DEF States
<1>2. Len(s.hold) \in Nat
  BY <1>1, LenProperties
<1>3. s.mode \in Aligned => Len(s.hold) = 8 * 0 /\ 0 \in Nat
  BY EmptySeq
<1>4. Len(s.hold) <= 32 /\ ~(Len(s.hold) >= 8)
  BY <1>2
<1> QED
  BY <1>3, <1>4 DEF Sound, Lean, Coding

\* Nothing more is read from a damaged stream.
LEMMA BadIs == ASSUME NEW s \in States, s.mode = "BAD", Len(s.hold) <= 32 PROVE Sound(s)
  BY DEF Sound, Coding, Aligned

\* Modes that read bytes wait for none, for two or for four.
LEMMA AlignedWants ==
  ASSUME NEW s, s.mode \in Aligned
  PROVE  Wants(s) \in {0, 16, 32} /\ s.mode \notin {"LEN", "DIST", "CODELENS"}
<1>1. s.mode \notin {"LEN", "DIST", "CODELENS"}
  BY DEF Aligned
<1>2. CASE s.mode \in {"HEAD", "EXLEN", "HCRC", "CHECK", "LENGTH"}
  BY <1>2, WantsIs
<1>3. CASE s.mode \in {"FLAGS", "OS", "TIME", "DICTID", "STORED"}
  BY <1>3, WantsIs
<1>4. CASE s.mode \in {"EXTRA", "NAME", "COMMENT", "DICT", "COPY", "DONE"}
  BY <1>4, WantsIs
<1> QED
  BY <1>1, <1>2, <1>3, <1>4 DEF Aligned

\* A mode that waits for a number of bits has them and less than a byte more.
LEMMA NoMoreThanWanted ==
  ASSUME NEW s \in States, Lean(s), Enough(s, s.hold), s.mode \notin {"LEN", "DIST", "CODELENS"}
  PROVE  Len(s.hold) \in Nat /\ Wants(s) <= Len(s.hold) /\ Len(s.hold) < Wants(s) + 8
<1> DEFINE n == Len(s.hold)
           some == SubSeq(s.hold, 1, n - 8)
<1>1. s.hold \in Seq(Bit) /\ s.lens \in Lengths /\ s.ncode \in Nat /\ s.extra \in Nat /\ s.mode \in Modes
  BY DEF States
<1>2. n \in Nat
  BY <1>1, LenProperties
<1>3. Wants(s) <= n
  BY EnoughIs
<1>4. Wants(s) \in Nat
  <2>1. CASE s.mode \in Aligned
    BY <2>1, AlignedWants
  <2>2. CASE s.mode \in {"TYPE", "TABLE", "LENLENS", "LENEXT", "DISTEXT", "MATCH", "LIT", "BAD"}
    BY <1>1, <2>2, WantsIs
  <2> QED
    BY <1>1, <2>1, <2>2 DEF Aligned, Modes
<1>5. CASE n < 8
  <2> HIDE DEF n
  <2> QED
    BY <1>2, <1>3, <1>4, <1>5 DEF n
<1>6. CASE n >= 8
  <2>1. n - 8 \in 0 .. n
    BY <1>2, <1>6
  <2>2. Len(some) = n - 8
    BY <1>1, <2>1, FirstsOf
  <2>3. ~Enough(s, some)
    BY <1>6 DEF Lean
  <2>4. ~(Len(some) >= Wants(s))
    BY <2>3, EnoughIs
  <2> HIDE DEF some, n
  <2> QED
    BY <1>2, <1>3, <1>4, <2>2, <2>4 DEF n
<1> QED
  BY <1>2, <1>5, <1>6

\* Where bytes are read, exactly the wanted ones are there.
LEMMA JustTheWanted ==
  ASSUME NEW s \in States, Sound(s), Lean(s), Enough(s, s.hold), s.mode \in Aligned
  PROVE  Len(s.hold) = Wants(s) /\ (Wants(s) = 0 => s.hold = <<>>)
<1>1. Wants(s) \in {0, 16, 32} /\ s.mode \notin {"LEN", "DIST", "CODELENS"}
  BY AlignedWants
<1>2. Len(s.hold) \in Nat /\ Wants(s) <= Len(s.hold) /\ Len(s.hold) < Wants(s) + 8
  BY <1>1, NoMoreThanWanted
<1>3. PICK k \in Nat : Len(s.hold) = 8 * k
  BY DEF Sound
<1>4. Len(s.hold) = Wants(s)
  BY <1>1, <1>2, <1>3
<1>5. s.hold \in Seq(Bit)
  BY DEF States
<1>6. Len(s.hold) = 0 => s.hold = <<>>
  BY <1>5, EmptySeq
<1> QED
  BY <1>4, <1>6

-----------------------------------------------------------------------------
(* The invariant: types, bits in hand, and the bounds of the fast decoder. *)

FlushModes == {"NO_FLUSH", "SYNC_FLUSH", "FINISH"}

Streams == [input : Seq(Byte), next : Nat, output : Seq(Byte)]
Calls == [flush : FlushModes, in0 : Nat, out0 : Nat]

StreamInv ==
  /\ z \in Streams /\ z.next <= Len(z.input) /\ Len(z.output) <= CHUNK
  /\ call \in Calls
  /\ pc \in {"run", "fast", "back"} => call.in0 <= z.next /\ call.out0 <= Len(z.output)
  /\ history \in Seq(Byte)

WindowInv == win \in Windows(Byte) /\ \E written \in Seq(Byte) : Holds(win, written)

ClientInv ==
  /\ session \in Sessions /\ pushed \in 0 .. Len(session.bytes)
  /\ pc \in {"idle", "loop", "run", "fast", "back"}
  /\ ret \in {"OK", "STREAM_END", "BUF_ERROR", "DATA_ERROR", "NEED_DICT"}
  /\ flush \in FlushModes
  /\ ended \in BOOLEAN
  /\ chunks \in Seq(Seq(Byte))
  /\ calls \in {"first", "again"}

StateInv == st \in States /\ Sound(st)

LeanInv == pc # "fast" /\ st.mode # "BAD" => Lean(st)

\* Of 48 bits for a length and a distance, so many are there still.
FastInv ==
  pc = "fast" =>
    /\ st.mode \in Coding \cup {"TYPE", "BAD"}
    /\ \/ Len(st.hold) < 8 * (z.next - call.in0) + 8
       \/ st.mode = "LEN" /\ GoOn /\ Lean(st)
    /\ st.mode \in Coding \ {"LEN"} => Room >= MAXMATCH
    /\ st.mode = "LENEXT" => 8 * Have + Len(st.hold) >= 33
    /\ st.mode = "DIST" => 8 * Have + Len(st.hold) >= 28
    /\ st.mode = "DISTEXT" => 8 * Have + Len(st.hold) >= 13

IInv == StreamInv /\ WindowInv /\ ClientInv /\ StateInv /\ LeanInv /\ FastInv

\* A step of run that only makes a new state of inflate's.
LEMMA BecomesKeeps ==
  ASSUME IInv, pc = "run", UNCHANGED streamVars, NEW s, Becomes(s),
         s \in States, Sound(s), s.mode # "BAD" => Lean(s)
  PROVE  IInv'
<1>1. /\ st' = s /\ z' = z /\ win' = win /\ call' = call /\ pc' = pc /\ ret' = ret /\ history' = history
      /\ session' = session /\ pushed' = pushed /\ flush' = flush /\ ended' = ended /\ err' = err
      /\ chunks' = chunks /\ calls' = calls
  BY DEF Becomes, streamVars
<1>2. StreamInv'
  BY <1>1 DEF IInv, StreamInv
<1>3. WindowInv'
  BY <1>1 DEF IInv, WindowInv
<1>4. ClientInv'
  BY <1>1 DEF IInv, ClientInv
<1>5. StateInv'
  BY <1>1 DEF StateInv
<1>6. LeanInv'
  BY <1>1 DEF LeanInv
<1>7. FastInv'
  BY <1>1 DEF FastInv
<1> QED
  BY <1>2, <1>3, <1>4, <1>5, <1>6, <1>7 DEF IInv

\* What a case of the switch finds.
LEMMA AtFinds ==
  ASSUME IInv, NEW mode, mode # "BAD", At(mode)
  PROVE  /\ pc = "run" /\ st.mode = mode /\ ~Stuck /\ Enough(st, st.hold)
         /\ st \in States /\ Sound(st) /\ Lean(st)
         /\ mode \in Aligned => Len(st.hold) = Wants(st) /\ (Wants(st) = 0 => st.hold = <<>>)
         /\ mode \notin {"LEN", "DIST", "CODELENS"} =>
              Len(st.hold) \in Nat /\ Wants(st) <= Len(st.hold) /\ Len(st.hold) < Wants(st) + 8
<1>1. pc = "run" /\ st.mode = mode /\ ~Stuck /\ Enough(st, st.hold)
  BY ReadyIs DEF At
<1>2. st \in States /\ Sound(st) /\ Lean(st)
  BY <1>1 DEF IInv, StateInv, LeanInv
<1>3. mode \in Aligned => Len(st.hold) = Wants(st) /\ (Wants(st) = 0 => st.hold = <<>>)
  BY <1>1, <1>2, JustTheWanted
<1>4. mode \notin {"LEN", "DIST", "CODELENS"} =>
        Len(st.hold) \in Nat /\ Wants(st) <= Len(st.hold) /\ Len(st.hold) < Wants(st) + 8
  BY <1>1, <1>2, NoMoreThanWanted
<1> QED
  BY <1>1, <1>2, <1>3, <1>4

\* A state of inflate's with no bits in hand, in a mode that reads no code.
LEMMA PlainKeeps ==
  ASSUME IInv, pc = "run", UNCHANGED streamVars, NEW s, Becomes(s),
         s \in States, s.hold = <<>>, s.mode \notin Coding \cup {"LENLENS", "CODELENS"}
  PROVE  IInv'
<1>1. Len(s.hold) < 8
  BY EmptySeq
<1>2. Sound(s) /\ Lean(s)
  BY <1>1, PlainIs
<1> QED
  BY <1>2, BecomesKeeps

\* A damaged one.
LEMMA BadKeeps ==
  ASSUME IInv, pc = "run", UNCHANGED streamVars, NEW s, Becomes(s),
         s \in States, Len(s.hold) <= 32, s.mode = "BAD"
  PROVE  IInv'
<1>1. Sound(s)
  BY BadIs
<1> QED
  BY <1>1, BecomesKeeps

\* No bits at all are a sequence of bits.
LEMMA NoBits == <<>> \in Seq(Bit) /\ Len(<<>>) = 0
  BY EmptySeq

\* The bits in hand fit into 32, as hold does.
LEMMA HoldFits == ASSUME IInv PROVE st \in States /\ st.hold \in Seq(Bit) /\ Len(st.hold) <= 32
  BY DEF IInv, StateInv, Sound, States

\* The values that flags and check begin with.
LEMMA ZerosAre == Zeros(16) \in Flags16 /\ Zeros(32) \in Check32 /\ One \in Check32
<1>1. Zeros(16) \in Flags16
  BY DEF Zeros, Flags16, Bit
<1>2. Zeros(32) \in Check32
  BY DEF Zeros, Check32, Bit
<1>3. One \in Check32
  <2>1. 32 \in Nat /\ 1 \in Nat
    OBVIOUS
  <2> QED
    BY <2>1, BitsOfNumber DEF One, Check32
<1> QED
  BY <1>1, <1>2, <1>3

\* The check value over the header stays 32 bits.
LEMMA HeaderCrcIs == ASSUME NEW check \in Check32, NEW bytes PROVE HeaderCrc(check, bytes) \in Check32
  BY Crc32Is32 DEF HeaderCrc

\* A field of the header that is taken in whole.
LEMMA TimeKeeps == ASSUME IInv, UNCHANGED streamVars, Time PROVE IInv'
<1> DEFINE c == HeaderCrc(st.check, BytesOf(st.hold))
           s == [st EXCEPT !.check = c, !.hold = <<>>, !.mode = "OS"]
<1>1. pc = "run" /\ st \in States
  BY AtFinds DEF Time
<1>2. c \in Check32
  <2>1. st.check \in Check32
    BY <1>1 DEF States
  <2> QED
    BY <2>1, HeaderCrcIs
<1>3. Becomes(s)
  BY DEF Time
<1> HIDE DEF c
<1>4. s \in States /\ s.hold = <<>> /\ s.mode \notin Coding \cup {"LENLENS", "CODELENS"}
  BY NoBits, <1>1, <1>2 DEF States, Modes, Coding
<1> QED
  BY <1>1, <1>3, <1>4, PlainKeeps

\* The bytes of XFL and OS.
LEMMA OsKeeps == ASSUME IInv, UNCHANGED streamVars, Os PROVE IInv'
<1> DEFINE c == HeaderCrc(st.check, BytesOf(st.hold))
           s == [st EXCEPT !.check = c, !.hold = <<>>, !.mode = "EXLEN"]
<1>1. pc = "run" /\ st \in States
  BY AtFinds DEF Os
<1>2. c \in Check32
  <2>1. st.check \in Check32
    BY <1>1 DEF States
  <2> QED
    BY <2>1, HeaderCrcIs
<1>3. Becomes(s)
  BY DEF Os
<1> HIDE DEF c
<1>4. s \in States /\ s.hold = <<>> /\ s.mode \notin Coding \cup {"LENLENS", "CODELENS"}
  BY NoBits, <1>1, <1>2 DEF States, Modes, Coding
<1> QED
  BY <1>1, <1>3, <1>4, PlainKeeps

\* The length of the extra field, if there is one.
LEMMA ExLenKeeps == ASSUME IInv, UNCHANGED streamVars, ExLen PROVE IInv'
<1> DEFINE c == HeaderCrc(st.check, BytesOf(st.hold))
           n == Num(st.hold)
           s == [st EXCEPT !.length = n, !.check = c, !.hold = <<>>, !.mode = "EXTRA"]
           t == [st EXCEPT !.mode = "EXTRA"]
<1>1. /\ pc = "run" /\ st \in States /\ st.mode = "EXLEN"
      /\ Wants(st) = 0 => st.hold = <<>>
  BY AtFinds DEF ExLen, Aligned
<1>2. c \in Check32
  <2>1. st.check \in Check32
    BY <1>1 DEF States
  <2> QED
    BY <2>1, HeaderCrcIs
<1>3. n \in Nat
  BY <1>1, NumBound DEF States
<1>4. Becomes(IF FEXTRA THEN s ELSE t)
  BY DEF ExLen
<1> HIDE DEF c, n
<1>5. s \in States /\ s.hold = <<>> /\ s.mode \notin Coding \cup {"LENLENS", "CODELENS"}
  BY NoBits, <1>1, <1>2, <1>3 DEF States, Modes, Coding
<1>6. ~FEXTRA => t \in States /\ t.hold = <<>> /\ t.mode \notin Coding \cup {"LENLENS", "CODELENS"}
  <2>1. ~FEXTRA => st.hold = <<>>
    BY <1>1, WantsIs DEF FEXTRA, Flag
  <2> QED
    BY <1>1, <2>1 DEF States, Modes, Coding
<1> HIDE DEF s, t
<1> QED
  BY <1>1, <1>4, <1>5, <1>6, PlainKeeps

\* The id of the dictionary.
LEMMA DictIdKeeps == ASSUME IInv, UNCHANGED streamVars, DictId PROVE IInv'
<1> DEFINE c == Swapped(st.hold)
           s == [st EXCEPT !.check = c, !.hold = <<>>, !.mode = "DICT"]
<1>1. pc = "run" /\ st \in States /\ Len(st.hold) = 32
  BY AtFinds, WantsIs, ZenonT(20) DEF DictId, Aligned
<1>2. c \in Check32
  <2>1. st.hold \in Check32
    BY <1>1 DEF States, Check32
  <2> QED
    BY <2>1, SwappedIs32
<1>3. Becomes(s)
  BY DEF DictId
<1> HIDE DEF c
<1>4. s \in States /\ s.hold = <<>> /\ s.mode \notin Coding \cup {"LENLENS", "CODELENS"}
  BY NoBits, <1>1, <1>2 DEF States, Modes, Coding
<1> QED
  BY <1>1, <1>3, <1>4, PlainKeeps

\* The check of the header itself, if there is one.
LEMMA HCrcKeeps == ASSUME IInv, UNCHANGED streamVars, HCrc PROVE IInv'
<1> DEFINE h == IF FHCRC THEN <<>> ELSE st.hold
           s == [st EXCEPT !.hold = h, !.check = Zeros(32), !.mode = "TYPE"]
           b == Bad(st)
<1>1. /\ pc = "run" /\ st \in States /\ st.mode = "HCRC"
      /\ Wants(st) = 0 => st.hold = <<>>
  BY AtFinds DEF HCrc, Aligned
<1>2. Becomes(b) \/ Becomes(s)
  BY DEF HCrc
<1>3. h = <<>>
  BY <1>1, WantsIs DEF FHCRC, Flag
<1> HIDE DEF h
<1>4. s \in States /\ s.hold = <<>> /\ s.mode \notin Coding \cup {"LENLENS", "CODELENS"}
  BY NoBits, <1>1, <1>3, ZerosAre DEF States, Modes, Coding
<1>5. b \in States /\ Len(b.hold) <= 32 /\ b.mode = "BAD"
  BY <1>1, HoldFits DEF States, Modes, Bad
<1> HIDE DEF s, b
<1>6. CASE Becomes(b)
  BY <1>1, <1>5, <1>6, BadKeeps
<1>7. CASE Becomes(s)
  BY <1>1, <1>4, <1>7, PlainKeeps
<1> QED
  BY <1>2, <1>6, <1>7

\* The method and the flags of a gzip header.
LEMMA FlagsKeeps == ASSUME IInv, UNCHANGED streamVars, Flags PROVE IInv'
<1> DEFINE h == st.hold
           c == IF st.hold[10] = 1 THEN Crc32(st.check, BytesOf(st.hold)) ELSE st.check
           s == [st EXCEPT !.flags = h]
           t == [s EXCEPT !.check = c, !.hold = <<>>, !.mode = "TIME"]
           b == Bad(s)
<1>1. pc = "run" /\ st \in States /\ Len(h) = 16
  <2>1. pc = "run" /\ st \in States /\ st.mode = "FLAGS" /\ Len(st.hold) = Wants(st)
    BY AtFinds DEF Flags, Aligned
  <2> QED
    BY <2>1, WantsIs
<1>2. h \in Flags16 /\ h \in Seq(Bit)
  BY <1>1 DEF Flags16, States
<1>3. c \in Check32
  <2>1. st.check \in Check32
    BY <1>1 DEF States
  <2> QED
    BY <2>1, Crc32Is32
<1>4. Becomes(b) \/ Becomes(t)
  BY DEF Flags
<1>5. h = st.hold /\ Len(h) <= 32
  BY <1>1
<1> HIDE DEF c, h
<1>6. b \in States /\ Len(b.hold) <= 32 /\ b.mode = "BAD"
  BY <1>1, <1>2, <1>5 DEF States, Modes, Bad
<1>7. t \in States /\ t.hold = <<>> /\ t.mode \notin Coding \cup {"LENLENS", "CODELENS"}
  BY NoBits, <1>1, <1>2, <1>3 DEF States, Modes, Coding
<1> HIDE DEF b, t
<1>8. CASE Becomes(b)
  BY <1>1, <1>6, <1>8, BadKeeps
<1>9. CASE Becomes(t)
  BY <1>1, <1>7, <1>9, PlainKeeps
<1> QED
  BY <1>4, <1>8, <1>9

\* The first two bytes: a gzip header, a zlib header, neither, or none wanted.
LEMMA HeaderKeeps == ASSUME IInv, UNCHANGED streamVars, MagicOrHeader PROVE IInv'
<1> DEFINE h == BytesOf(st.hold)
           nibble == Num(SubSeq(st.hold, 5, 8)) + MINBITS
           empty == [st EXCEPT !.hold = <<>>]
           w == IF st.wbits = 0 THEN nibble ELSE st.wbits
           m == IF st.hold[14] = 1 THEN "DICTID" ELSE "TYPE"
           d == 2^w
           c == Crc32(Zeros(32), h)
           raw == [st EXCEPT !.mode = "TYPE"]
           gz == [empty EXCEPT !.check = c, !.mode = "FLAGS"]
           b == Bad([st EXCEPT !.flags = Zeros(16)])
           zl == [empty EXCEPT !.flags = Zeros(16), !.wbits = w, !.dmax = d, !.check = One, !.mode = m]
<1>1. /\ pc = "run" /\ st \in States /\ st.mode = "HEAD"
      /\ Len(st.hold) = Wants(st) /\ (Wants(st) = 0 => st.hold = <<>>)
  BY AtFinds DEF MagicOrHeader, Aligned
<1>2. \/ Becomes(raw) /\ st.wrap = {}
      \/ Becomes(gz) /\ st.wrap # {}
      \/ Becomes(b) /\ st.wrap # {}
      \/ Becomes(zl) /\ st.wrap # {}
  BY DEF MagicOrHeader
<1>3. st.wrap # {} => nibble \in Nat
  <2> SUFFICES ASSUME st.wrap # {} PROVE nibble \in Nat
    OBVIOUS
  <2>1. Len(st.hold) = 16
    BY <1>1, WantsIs
  <2>2. 5 \in Nat \ {0} /\ 8 \in 0 .. Len(st.hold) /\ st.hold \in Seq(Bit)
    BY <1>1, <2>1 DEF States
  <2>3. Num(SubSeq(st.hold, 5, 8)) \in Nat
    BY <2>2, NumOf
  <2> QED
    BY <2>3, InflateAssumption
<1>4. st.wrap # {} => w \in Nat /\ d \in Nat
  <2>1. st.wrap # {} => w \in Nat
    BY <1>1, <1>3 DEF States
  <2> HIDE DEF w
  <2> QED
    BY <2>1, PowerOf
<1>5. c \in Check32 /\ m \in {"DICTID", "TYPE"}
  BY Crc32Is32
<1> HIDE DEF h, nibble, w, m, d, c
<1>6. CASE Becomes(raw) /\ st.wrap = {}
  <2>1. st.hold = <<>>
    BY <1>1, <1>6, WantsIs
  <2>2. raw \in States /\ raw.hold = <<>> /\ raw.mode \notin Coding \cup {"LENLENS", "CODELENS"}
    BY NoBits, <1>1, <2>1 DEF States, Modes, Coding
  <2> HIDE DEF raw
  <2> QED
    BY <1>1, <1>6, <2>2, PlainKeeps
<1>7. CASE Becomes(gz)
  <2>1. gz \in States /\ gz.hold = <<>> /\ gz.mode \notin Coding \cup {"LENLENS", "CODELENS"}
    BY NoBits, <1>1, <1>5 DEF States, Modes, Coding
  <2> HIDE DEF gz
  <2> QED
    BY <1>1, <1>7, <2>1, PlainKeeps
<1>8. CASE Becomes(b)
  <2>1. b \in States /\ Len(b.hold) <= 32 /\ b.mode = "BAD"
    BY <1>1, HoldFits, ZerosAre DEF States, Modes, Bad
  <2> HIDE DEF b
  <2> QED
    BY <1>1, <1>8, <2>1, BadKeeps
<1>9. CASE Becomes(zl) /\ st.wrap # {}
  <2>1. zl \in States /\ zl.hold = <<>> /\ zl.mode \notin Coding \cup {"LENLENS", "CODELENS"}
    BY NoBits, <1>1, <1>4, <1>5, <1>9, ZerosAre DEF States, Modes, Coding
  <2> HIDE DEF zl
  <2> QED
    BY <1>1, <1>9, <2>1, PlainKeeps
<1> QED
  BY <1>2, <1>6, <1>7, <1>8, <1>9

-----------------------------------------------------------------------------
(* The rest of the header, and the ways out of a call.                     *)

\* The types of what a call reads and writes, and where it is.
LEMMA InputIs ==
  ASSUME IInv
  PROVE  /\ z.input \in Seq(Byte) /\ z.output \in Seq(Byte) /\ history \in Seq(Byte)
         /\ Len(z.input) \in Nat /\ Len(z.output) \in Nat /\ Len(z.output) <= CHUNK
         /\ z.next \in Nat /\ z.next <= Len(z.input) /\ Have \in Nat /\ Room \in Nat
         /\ Have = Len(z.input) - z.next /\ Room = CHUNK - Len(z.output)
         /\ call.in0 \in Nat /\ call.out0 \in Nat /\ call.flush \in FlushModes
<1>1. /\ z \in Streams /\ z.next <= Len(z.input) /\ Len(z.output) <= CHUNK /\ call \in Calls /\ history \in Seq(Byte)
  BY DEF IInv, StreamInv
<1>2. z.input \in Seq(Byte) /\ z.output \in Seq(Byte) /\ z.next \in Nat
  BY <1>1 DEF Streams
<1>3. Len(z.input) \in Nat /\ Len(z.output) \in Nat
  BY <1>2, LenProperties
<1>4. CHUNK \in Nat
  BY InflateAssumption
<1>5. Have \in Nat /\ Room \in Nat
  BY <1>1, <1>2, <1>3, <1>4 DEF Have, Room
<1>6. call.in0 \in Nat /\ call.out0 \in Nat /\ call.flush \in FlushModes
  BY <1>1 DEF Calls
<1> QED
  BY <1>1, <1>2, <1>3, <1>5, <1>6 DEF Have, Room

\* Bytes of the header that are passed over.
LEMMA SkipKeeps ==
  ASSUME IInv, pc = "run", UNCHANGED streamVars, NEW n \in Nat, n <= Have, NEW s, Skip(n, s),
         s \in States, s.hold = <<>>, s.mode \notin Coding \cup {"LENLENS", "CODELENS"}
  PROVE  IInv'
<1> DEFINE c == HeaderCrc(s.check, SubSeq(z.input, z.next + 1, z.next + n))
           t == [s EXCEPT !.check = c]
           m == z.next + n
           y == [z EXCEPT !.next = m]
<1>1. /\ st' = t /\ z' = y /\ win' = win /\ call' = call /\ pc' = pc /\ ret' = ret /\ history' = history
      /\ session' = session /\ pushed' = pushed /\ flush' = flush /\ ended' = ended /\ err' = err
      /\ chunks' = chunks /\ calls' = calls
  BY DEF Skip, streamVars
<1>2. c \in Check32
  <2>1. s.check \in Check32
    BY DEF States
  <2> QED
    BY <2>1, HeaderCrcIs
<1> HIDE DEF c
<1>3. t \in States /\ t.hold = <<>> /\ t.mode = s.mode
  BY <1>2 DEF States
<1>4. Sound(t) /\ Lean(t)
  <2>1. Len(t.hold) < 8
    BY <1>3, EmptySeq
  <2> QED
    BY <1>3, <2>1, PlainIs
<1>5. m \in Nat /\ m <= Len(z.input) /\ z.next <= m
  BY InputIs
<1>6. y \in Streams /\ y.input = z.input /\ y.output = z.output /\ y.next = m
  <2>1. z \in Streams
    BY DEF IInv, StreamInv
  <2> HIDE DEF m
  <2> QED
    BY <1>5, <2>1 DEF Streams
<1> HIDE DEF t, y
<1>7. StreamInv'
  <2>1. call.in0 <= m
    BY <1>5, InputIs DEF IInv, StreamInv
  <2> HIDE DEF m
  <2> QED
    BY <1>1, <1>5, <1>6, <2>1 DEF IInv, StreamInv
<1>8. WindowInv'
  BY <1>1 DEF IInv, WindowInv
<1>9. ClientInv'
  BY <1>1 DEF IInv, ClientInv
<1>10. StateInv'
  BY <1>1, <1>3, <1>4 DEF StateInv
<1>11. LeanInv'
  BY <1>1, <1>4 DEF LeanInv
<1>12. FastInv'
  BY <1>1 DEF FastInv
<1> QED
  BY <1>7, <1>8, <1>9, <1>10, <1>11, <1>12 DEF IInv

\* The extra field is passed over as far as it is there.
LEMMA ExtraKeeps == ASSUME IInv, UNCHANGED streamVars, Extra PROVE IInv'
<1> DEFINE copy == IF st.length > Have THEN Have ELSE st.length
           left == st.length - copy
           s == [st EXCEPT !.length = left]
           t == [st EXCEPT !.length = 0, !.mode = "NAME"]
<1>1. /\ pc = "run" /\ st \in States /\ st.mode = "EXTRA" /\ (Wants(st) = 0 => st.hold = <<>>)
  BY AtFinds DEF Extra, Aligned
<1>2. st.hold = <<>>
  BY <1>1, WantsIs
<1>3. st.length \in Nat /\ Have \in Nat
  BY <1>1, InputIs DEF States
<1>4. copy \in Nat /\ copy <= Have /\ left \in Nat
  BY <1>3
<1>5. Skip(copy, s) \/ Becomes(t)
  BY DEF Extra
<1> HIDE DEF copy, left
<1>6. s \in States /\ s.hold = <<>> /\ s.mode \notin Coding \cup {"LENLENS", "CODELENS"}
  BY NoBits, <1>1, <1>2, <1>4 DEF States, Modes, Coding
<1>7. t \in States /\ t.hold = <<>> /\ t.mode \notin Coding \cup {"LENLENS", "CODELENS"}
  BY NoBits, <1>1, <1>2 DEF States, Modes, Coding
<1> HIDE DEF s, t
<1>8. CASE Skip(copy, s)
  BY <1>1, <1>4, <1>6, <1>8, SkipKeeps
<1>9. CASE Becomes(t)
  BY <1>1, <1>7, <1>9, PlainKeeps
<1> QED
  BY <1>5, <1>8, <1>9

\* A text of the header is passed over to its zero byte, as far as it is there.
LEMMA TextKeeps ==
  ASSUME IInv, UNCHANGED streamVars, NEW mode \in {"NAME", "COMMENT"}, NEW following \in {"COMMENT", "HCRC"},
         NEW present \in BOOLEAN, Text(mode, present, following)
  PROVE  IInv'
<1> DEFINE ends == {i \in z.next + 1 .. Len(z.input) : z.input[i] = 0}
           n == (CHOOSE i \in ends : \A j \in ends : i <= j) - z.next
           t == [st EXCEPT !.length = 0, !.mode = following]
<1>1. /\ pc = "run" /\ st \in States /\ st.mode = mode /\ (Wants(st) = 0 => st.hold = <<>>)
  BY AtFinds DEF Text, Aligned
<1>2. st.hold = <<>> /\ st.mode \notin Coding \cup {"LENLENS", "CODELENS"}
  BY <1>1, WantsIs DEF Coding
<1>3. t \in States /\ t.hold = <<>> /\ t.mode \notin Coding \cup {"LENLENS", "CODELENS"}
  BY NoBits, <1>1, <1>2 DEF States, Modes, Coding
<1>4. z.next \in Nat /\ Len(z.input) \in Nat /\ Have = Len(z.input) - z.next /\ Have \in Nat
  BY InputIs
<1>5. ends # {} => n \in Nat /\ n <= Have
  <2> SUFFICES ASSUME ends # {} PROVE n \in Nat /\ n <= Have
    OBVIOUS
  <2>1. ends \in SUBSET Nat /\ \A i \in ends : z.next + 1 <= i /\ i <= Len(z.input)
    BY <1>4
  <2> DEFINE first == CHOOSE i \in ends : \A j \in ends : i <= j
  <2>2. first \in ends
    <3> HIDE DEF ends
    <3> QED
      BY <2>1, LeastNumber
  <2> HIDE DEF ends, first
  <2>3. first \in Nat /\ z.next + 1 <= first /\ first <= Len(z.input)
    BY <2>1, <2>2
  <2>4. first - z.next \in Nat /\ first - z.next <= Have
    BY <1>4, <2>3
  <2> QED
    BY <2>4 DEF first
<1>6. \/ present /\ ends = {} /\ Skip(Have, st)
      \/ present /\ ends # {} /\ Skip(n, t)
      \/ Becomes(t)
  BY DEF Text
<1> HIDE DEF n, ends, t
<1>7. CASE ends = {} /\ Skip(Have, st)
  <2>1. Have <= Have
    BY <1>4
  <2> QED
    BY <1>1, <1>2, <1>4, <1>7, <2>1, SkipKeeps
<1>8. CASE ends # {} /\ Skip(n, t)
  BY <1>1, <1>3, <1>5, <1>8, SkipKeeps
<1>9. CASE Becomes(t)
  BY <1>1, <1>3, <1>9, PlainKeeps
<1> QED
  BY <1>6, <1>7, <1>8, <1>9

\* The file name.
LEMMA NameKeeps == ASSUME IInv, UNCHANGED streamVars, Name PROVE IInv'
<1>1. FNAME \in BOOLEAN
  BY DEF FNAME, Flag
<1> QED
  BY <1>1, TextKeeps DEF Name

\* The comment.
LEMMA CommentKeeps == ASSUME IInv, UNCHANGED streamVars, Comment PROVE IInv'
<1>1. FCOMMENT \in BOOLEAN
  BY DEF FCOMMENT, Flag
<1> QED
  BY <1>1, TextKeeps DEF Comment

\* The call returns as it is.
LEMMA BackKeeps ==
  ASSUME IInv, pc = "run", UNCHANGED <<z, st, win, call, history>>, UNCHANGED streamVars,
         pc' = "back", ret' \in {"OK", "STREAM_END", "BUF_ERROR", "DATA_ERROR", "NEED_DICT"}
  PROVE  IInv'
<1>1. /\ st' = st /\ z' = z /\ win' = win /\ call' = call /\ history' = history
      /\ session' = session /\ pushed' = pushed /\ flush' = flush /\ ended' = ended /\ err' = err
      /\ chunks' = chunks /\ calls' = calls
  BY DEF streamVars
<1>2. StreamInv'
  BY <1>1 DEF IInv, StreamInv
<1>3. WindowInv'
  BY <1>1 DEF IInv, WindowInv
<1>4. ClientInv'
  BY <1>1 DEF IInv, ClientInv
<1>5. StateInv'
  BY <1>1 DEF IInv, StateInv
<1>6. LeanInv'
  BY <1>1 DEF IInv, LeanInv
<1>7. FastInv'
  BY DEF FastInv
<1> QED
  BY <1>2, <1>3, <1>4, <1>5, <1>6, <1>7 DEF IInv

\* A dictionary is at hand, or asked for.
LEMMA DictKeeps == ASSUME IInv, UNCHANGED streamVars, Dict PROVE IInv'
<1> DEFINE s == [st EXCEPT !.check = One, !.mode = "TYPE"]
<1>1. /\ pc = "run" /\ st \in States /\ st.mode = "DICT" /\ (Wants(st) = 0 => st.hold = <<>>)
  BY AtFinds DEF Dict, Aligned
<1>2. st.hold = <<>>
  BY <1>1, WantsIs
<1>3. s \in States /\ s.hold = <<>> /\ s.mode \notin Coding \cup {"LENLENS", "CODELENS"}
  BY NoBits, <1>1, <1>2, ZerosAre DEF States, Modes, Coding
<1>4. \/ Becomes(s)
      \/ ret' = "NEED_DICT" /\ pc' = "back" /\ UNCHANGED <<z, st, win, call, history>>
  BY DEF Dict
<1> HIDE DEF s
<1>5. CASE Becomes(s)
  BY <1>1, <1>3, <1>5, PlainKeeps
<1>6. CASE ret' = "NEED_DICT" /\ pc' = "back" /\ UNCHANGED <<z, st, win, call, history>>
  BY <1>1, <1>6, BackKeeps
<1> QED
  BY <1>4, <1>5, <1>6

\* Seven extra bits at most behind a code length's symbol.
LEMMA RepeatBitsAre == \A sym : RepeatBits(sym) \in 0 .. 7
  BY DEF RepeatBits

\* A byte is pulled only while the bits do not suffice, so there are few of them.
LEMMA FewBits ==
  ASSUME IInv, ~Ready
  PROVE  Len(st.hold) \in Nat /\ Len(st.hold) <= 24 /\ st.mode # "BAD"
<1>1. st \in States /\ Sound(st) /\ ~Enough(st, st.hold)
  BY ReadyIs DEF IInv, StateInv
<1>2. /\ st.hold \in Seq(Bit) /\ Len(st.hold) \in Nat /\ st.mode \in Modes
      /\ st.lencode \in LenCodes /\ st.distcode \in DistCodes
  BY <1>1, LenProperties DEF States
<1>3. CASE st.mode \in Aligned
  <2>1. Wants(st) \in {0, 16, 32} /\ st.mode \notin {"LEN", "DIST", "CODELENS"}
    BY <1>3, AlignedWants
  <2>2. ~(Len(st.hold) >= Wants(st))
    BY <1>1, <2>1, EnoughIs
  <2>3. PICK k \in Nat : Len(st.hold) = 8 * k
    BY <1>1, <1>3 DEF Sound
  <2>4. Len(st.hold) <= 24
    BY <2>1, <2>2, <2>3
  <2> QED
    BY <1>2, <1>3, <2>4 DEF Aligned
<1>4. CASE st.mode \in {"TYPE", "TABLE", "LENLENS", "LENEXT", "DISTEXT", "MATCH", "LIT", "BAD"}
  <2>1. ~(Len(st.hold) >= Wants(st))
    BY <1>1, <1>4, EnoughIs
  <2>2. st.mode = "LENEXT" => st.extra \in 0 .. 5
    <3> SUFFICES ASSUME st.mode = "LENEXT" PROVE st.extra \in 0 .. 5
      OBVIOUS
    <3>1. PICK k \in 1 .. 29 : st.extra = LengthExtra(k)
      BY <1>1 DEF Sound
    <3> QED
      BY <3>1, LengthTable
  <2>3. st.mode = "DISTEXT" => st.extra \in 0 .. 13
    <3>1. st.extra \in Nat
      BY <1>1 DEF States
    <3>2. st.mode = "DISTEXT" => st.extra <= 13
      BY <1>1 DEF Sound
    <3> QED
      BY <3>1, <3>2
  <2>4. Wants(st) \in 0 .. 14 /\ (st.mode = "BAD" => Wants(st) = 0)
    BY <1>4, <2>2, <2>3, WantsIs
  <2> QED
    BY <1>2, <2>1, <2>4
<1>5. ASSUME NEW n \in Nat, NEW c \in Codes(n), ~Known(c, st.hold) PROVE Len(st.hold) < 15
  <2>1. IsCode(c, n)
    BY CodesAreCodes
  <2> QED
    BY <1>2, <1>5, <2>1 DEF IsCode
<1>6. 287 \in Nat /\ 31 \in Nat /\ 18 \in Nat
  OBVIOUS
<1>7. CASE st.mode = "LEN"
  <2>1. LenCodeOf(st) \in Codes(287) /\ ~Known(LenCodeOf(st), st.hold)
    BY <1>1, <1>7, FixedLenIs, EnoughIs DEF Sound, Coding, LenCodeOf
  <2>2. Len(st.hold) < 15
    BY <1>5, <1>6, <2>1
  <2> QED
    BY <1>2, <1>7, <2>2
<1>8. CASE st.mode = "DIST"
  <2>1. DistCodeOf(st) \in Codes(31) /\ ~Known(DistCodeOf(st), st.hold)
    BY <1>1, <1>8, FixedDistIs, EnoughIs DEF Sound, Coding, DistCodeOf
  <2>2. Len(st.hold) < 15
    BY <1>5, <1>6, <2>1
  <2> QED
    BY <1>2, <1>8, <2>2
<1>9. CASE st.mode = "CODELENS"
  <2> DEFINE w == First(st.lencode, st.hold)
             r == RepeatBits(st.lencode[w])
  <2>1. st.lencode \in Codes(18)
    BY <1>1, <1>9 DEF Sound
  <2>2. ~Known(st.lencode, st.hold) \/ ~(Len(st.hold) >= Len(w) + r)
    BY <1>1, <1>9 DEF Enough
  <2>3. CASE ~Known(st.lencode, st.hold)
    <3>1. Len(st.hold) < 15
      BY <1>5, <1>6, <2>1, <2>3
    <3> QED
      BY <1>2, <1>9, <3>1
  <2>4. CASE Known(st.lencode, st.hold)
    <3>1. IsCode(st.lencode, 18)
      BY <1>6, <2>1, CodesAreCodes
    <3>2. Len(w) \in 1 .. 15
      BY <1>2, <2>4, <3>1, FirstIs
    <3>3. r \in 0 .. 7
      BY RepeatBitsAre
    <3> DEFINE k == Len(w)
               h == Len(st.hold)
    <3>4. k \in 1 .. 15 /\ h \in Nat /\ ~(h >= k + r)
      BY <1>2, <2>2, <2>4, <3>2
    <3> HIDE DEF w, r, k, h
    <3>5. h < 22
      BY <3>3, <3>4
    <3>6. Len(st.hold) < 22
      BY <3>5 DEF h
    <3> QED
      BY <1>2, <1>9, <3>6
  <2> QED
    BY <2>3, <2>4
<1> QED
  BY <1>2, <1>3, <1>4, <1>7, <1>8, <1>9 DEF Modes, Aligned

\* A byte is pulled only where there is one, and room for its bits in hold.
LEMMA PullKeeps == ASSUME IInv, UNCHANGED streamVars, Pull PROVE IInv'
<1> DEFINE b == z.input[z.next + 1]
           h == st.hold \o BitsOf(8, b)
           t == [st EXCEPT !.hold = h]
           m == z.next + 1
           y == [z EXCEPT !.next = m]
<1>1. /\ st' = t /\ z' = y /\ win' = win /\ call' = call /\ pc' = pc /\ ret' = ret /\ history' = history
      /\ session' = session /\ pushed' = pushed /\ flush' = flush /\ ended' = ended /\ err' = err
      /\ chunks' = chunks /\ calls' = calls
      /\ pc = "run" /\ ~Ready /\ Have > 0
  BY DEF Pull, streamVars
<1>2. st \in States /\ Sound(st) /\ st.hold \in Seq(Bit) /\ ~Enough(st, st.hold)
  BY <1>1, ReadyIs DEF IInv, StateInv, States
<1>3. m \in Nat /\ m <= Len(z.input) /\ z.next <= m /\ m \in 1 .. Len(z.input)
  BY <1>1, InputIs
<1>4. b \in Byte
  BY <1>3, InputIs, ElementOfSeq
<1>5. h \in Seq(Bit) /\ Len(h) = Len(st.hold) + 8 /\ SubSeq(h, 1, Len(st.hold)) = st.hold
  BY <1>2, <1>4, ByteMore
<1>6. Len(st.hold) \in Nat /\ Len(st.hold) <= 24 /\ st.mode # "BAD"
  BY <1>1, FewBits
<1> HIDE DEF b, h
<1>7. t \in States /\ t.hold = h
  BY <1>2, <1>5 DEF States
<1>8. Len(h) <= 32 /\ Len(h) - 8 = Len(st.hold)
  BY <1>5, <1>6
<1>9. /\ t.mode = st.mode /\ t.nlen = st.nlen /\ t.ndist = st.ndist /\ t.lencode = st.lencode /\ t.distcode = st.distcode
      /\ t.lens = st.lens /\ t.fixed = st.fixed /\ t.length = st.length /\ t.extra = st.extra /\ t.offset = st.offset
      /\ t.wrap = st.wrap /\ t.flags = st.flags /\ t.last = st.last /\ t.ncode = st.ncode
  BY <1>2 DEF States
<1> HIDE DEF t
<1>10. Sound(t)
  <2>1. t.mode \in Aligned => \E k \in Nat : Len(h) = 8 * k
    <3> SUFFICES ASSUME st.mode \in Aligned PROVE \E k \in Nat : Len(h) = 8 * k
      BY <1>9
    <3>1. PICK k \in Nat : Len(st.hold) = 8 * k
      BY <1>2 DEF Sound
    <3>2. Len(h) = 8 * (k + 1) /\ k + 1 \in Nat
      BY <1>5, <3>1
    <3> QED
      BY <3>2
  <2> QED
    BY <1>2, <1>7, <1>8, <1>9, <2>1 DEF Sound
<1>11. Lean(t)
  <2>1. Wants(t) = Wants(st)
    BY <1>9 DEF Wants
  <2>2. LenCodeOf(t) = LenCodeOf(st) /\ DistCodeOf(t) = DistCodeOf(st)
    BY <1>9 DEF LenCodeOf, DistCodeOf
  <2>3. ~Enough(t, st.hold)
    BY <1>2, <1>9, <2>1, <2>2 DEF Enough
  <2> QED
    BY <1>5, <1>7, <1>8, <2>3 DEF Lean
<1>12. y \in Streams /\ y.input = z.input /\ y.output = z.output /\ y.next = m
  <2>1. z \in Streams
    BY DEF IInv, StreamInv
  <2> HIDE DEF m
  <2> QED
    BY <1>3, <2>1 DEF Streams
<1> HIDE DEF y
<1>13. StreamInv'
  <2>1. call.in0 <= m
    BY <1>1, <1>3, InputIs DEF IInv, StreamInv
  <2> HIDE DEF m
  <2> QED
    BY <1>1, <1>3, <1>12, <2>1 DEF IInv, StreamInv
<1>14. WindowInv'
  BY <1>1 DEF IInv, WindowInv
<1>15. ClientInv'
  BY <1>1 DEF IInv, ClientInv
<1>16. StateInv'
  BY <1>1, <1>7, <1>10 DEF StateInv
<1>17. LeanInv'
  BY <1>1, <1>11 DEF LeanInv
<1>18. FastInv'
  BY <1>1 DEF FastInv
<1> QED
  BY <1>13, <1>14, <1>15, <1>16, <1>17, <1>18 DEF IInv

-----------------------------------------------------------------------------
\* What this call has written.
LEMMA WrittenIs ==
  ASSUME IInv, pc \in {"run", "fast", "back"}
  PROVE  Written \in Seq(Byte) /\ Len(Written) = Len(z.output) - call.out0 /\ Len(Written) \in Nat
<1>1. z.output \in Seq(Byte) /\ call.out0 \in Nat /\ Len(z.output) \in Nat /\ call.out0 <= Len(z.output)
  BY InputIs DEF IInv, StreamInv
<1>2. call.out0 \in 0 .. Len(z.output)
  BY <1>1
<1>3. Written = Dropped(call.out0, z.output)
  BY DEF Written, Dropped
<1> QED
  BY <1>1, <1>2, <1>3, DroppedIs, SMTT(20)

\* The check value stays 32 bits.
LEMMA UpdateIs == ASSUME NEW check \in Check32, NEW bytes \in Seq(Byte) PROVE Update(check, bytes) \in Check32
  BY Adler32Is32, Crc32Is32 DEF Update

\* What inf_leave does: totals, check value, window.
LEMMA LeaveKeeps ==
  ASSUME IInv, pc = "run", UNCHANGED streamVars, NEW code \in {"OK", "STREAM_END", "DATA_ERROR"}, Leave(code)
  PROVE  IInv'
<1> DEFINE n == st.total + Len(Written)
           c == IF st.wrap # {} /\ Written # <<>> THEN Update(st.check, Written) ELSE st.check
           t == [st EXCEPT !.total = n, !.check = c]
           size == 2^st.wbits
           u == UpdateWindow(win, size, Written)
<1>1. /\ st' = t /\ z' = z /\ call' = call /\ pc' = "back" /\ history' = history
      /\ ret' \in {"OK", "STREAM_END", "BUF_ERROR", "DATA_ERROR", "NEED_DICT"}
      /\ session' = session /\ pushed' = pushed /\ flush' = flush /\ ended' = ended /\ err' = err
      /\ chunks' = chunks /\ calls' = calls
      /\ win' = u \/ win' = win
  BY DEF Leave, streamVars
<1>2. st \in States /\ Sound(st)
  BY DEF IInv, StateInv
<1>3. Written \in Seq(Byte) /\ Len(Written) \in Nat
  BY WrittenIs
<1>4. c \in Check32
  BY <1>2, <1>3, UpdateIs DEF States
<1>5. n \in Nat /\ size \in Nat
  <2>1. st.total \in Nat /\ st.wbits \in Nat
    BY <1>2 DEF States
  <2>2. size \in Nat
    BY <2>1, PowerOf
  <2> QED
    BY <1>3, <2>1, <2>2
<1> HIDE DEF c, n, size
<1>6. t \in States /\ t.hold = st.hold
  BY <1>2, <1>4, <1>5 DEF States
<1>7. /\ t.mode = st.mode /\ t.nlen = st.nlen /\ t.ndist = st.ndist /\ t.lencode = st.lencode /\ t.distcode = st.distcode
      /\ t.lens = st.lens /\ t.fixed = st.fixed /\ t.length = st.length /\ t.extra = st.extra /\ t.offset = st.offset
      /\ t.wrap = st.wrap /\ t.flags = st.flags /\ t.last = st.last /\ t.ncode = st.ncode
  BY <1>2 DEF States
<1> HIDE DEF t
<1>8. Sound(t)
  BY <1>2, <1>6, <1>7 DEF Sound
<1>9. Lean(st) => Lean(t)
  <2>1. Wants(t) = Wants(st)
    BY <1>7 DEF Wants
  <2>2. LenCodeOf(t) = LenCodeOf(st) /\ DistCodeOf(t) = DistCodeOf(st)
    BY <1>7 DEF LenCodeOf, DistCodeOf
  <2> QED
    BY <1>6, <1>7, <2>1, <2>2 DEF Lean, Enough
<1>10. StreamInv'
  BY <1>1 DEF IInv, StreamInv
<1>11. WindowInv'
  <2>1. win \in Windows(Byte) /\ \E written \in Seq(Byte) : Holds(win, written)
    BY DEF IInv, WindowInv
  <2>2. u \in Windows(Byte) /\ \E written \in Seq(Byte) : Holds(u, written)
    <3>1. PICK written \in Seq(Byte) : Holds(win, written)
      BY <2>1
    <3>2. 0 \in Byte
      BY DEF Byte
    <3>3. u \in Windows(Byte) /\ Holds(u, written \o Written)
      BY <1>3, <1>5, <2>1, <3>1, <3>2, WindowKeepsTheEnd
    <3>4. written \o Written \in Seq(Byte)
      BY <1>3, ConcatProperties
    <3> HIDE DEF u
    <3> QED
      BY <3>3, <3>4
  <2> HIDE DEF u
  <2> QED
    BY <1>1, <2>1, <2>2 DEF WindowInv
<1>12. ClientInv'
  BY <1>1 DEF IInv, ClientInv
<1>13. StateInv'
  BY <1>1, <1>6, <1>8 DEF StateInv
<1>14. LeanInv'
  BY <1>1, <1>7, <1>9 DEF IInv, LeanInv
<1>15. FastInv'
  BY <1>1 DEF FastInv
<1> QED
  BY <1>10, <1>11, <1>12, <1>13, <1>14, <1>15 DEF IInv

-----------------------------------------------------------------------------
(* Blocks and stored bytes.                                                *)

\* Fewer than eight bits are part of a byte, and given up.
LEMMA ToByteIs ==
  ASSUME NEW bits \in Seq(Bit), Len(bits) < 8
  PROVE  ToByte(bits) = <<>>
<1> DEFINE n == Len(bits)
<1>1. n \in Nat /\ n < 8
  BY LenProperties
<1>2. n % 8 = n
  <2> HIDE DEF n
  <2> QED
    BY <1>1
<1>3. n \in 0 .. Len(bits)
  BY <1>1
<1>4. Dropped(n, bits) \in Seq(Bit) /\ Len(Dropped(n, bits)) = Len(bits) - n
  BY <1>3, DroppedIs
<1>5. Len(Dropped(n, bits)) = 0
  <2>1. Len(bits) - n = 0
    BY <1>1
  <2> QED
    BY <1>4, <2>1
<1> QED
  BY <1>2, <1>4, <1>5, EmptySeq DEF ToByte

\* Another block, or the end of the last one.
LEMMA BlockKeeps == ASSUME IInv, UNCHANGED streamVars, Block PROVE IInv'
<1> DEFINE h == Dropped(3, st.hold)
           l == st.hold[1] = 1
           type == Num(SubSeq(st.hold, 2, 3))
           e == ToByte(st.hold)
           f == ToByte(h)
           a == [st EXCEPT !.hold = e, !.mode = "CHECK"]
           s == [st EXCEPT !.last = l, !.hold = h]
           s0 == [s EXCEPT !.hold = f, !.mode = "STORED"]
           s1 == [s EXCEPT !.fixed = TRUE, !.mode = "LEN"]
           s2 == [s EXCEPT !.mode = "TABLE"]
           s3 == Bad(s)
<1>1. /\ pc = "run" /\ st \in States /\ st.mode = "TYPE"
      /\ Len(st.hold) \in Nat /\ Wants(st) <= Len(st.hold) /\ Len(st.hold) < Wants(st) + 8
  BY AtFinds DEF Block
<1>2. st.hold \in Seq(Bit) /\ st.last \in BOOLEAN
  BY <1>1 DEF States
<1>3. CASE st.last
  <2>1. Len(st.hold) < 8
    <3>1. Wants(st) = 0
      BY <1>1, <1>3, WantsIs
    <3> QED
      BY <1>1, <3>1
  <2>2. e = <<>>
    BY <1>2, <2>1, ToByteIs
  <2>3. Becomes(a)
    BY <1>3 DEF Block
  <2> HIDE DEF e
  <2>4. a \in States /\ a.hold = <<>> /\ a.mode \notin Coding \cup {"LENLENS", "CODELENS"}
    BY <1>1, <2>2, NoBits DEF States, Modes, Coding
  <2> HIDE DEF a
  <2> QED
    BY <1>1, <2>3, <2>4, PlainKeeps
<1>4. CASE ~st.last
  <2>1. Len(st.hold) >= 3 /\ Len(st.hold) < 11
    <3>1. Wants(st) = 3
      BY <1>1, <1>4, WantsIs
    <3> QED
      BY <1>1, <3>1
  <2>2. 3 \in 0 .. Len(st.hold)
    BY <1>1, <2>1
  <2>3. h \in Seq(Bit) /\ Len(h) = Len(st.hold) - 3
    BY <1>2, <2>2, DroppedIs
  <2>4. Len(h) < 8 /\ Len(h) <= 32
    BY <1>1, <2>1, <2>3
  <2>5. f = <<>>
    BY <2>3, <2>4, ToByteIs
  <2>6. Becomes(CASE type = 0 -> s0 [] type = 1 -> s1 [] type = 2 -> s2 [] type = 3 -> s3)
    BY <1>4 DEF Block
  <2>7. type \in {0, 1, 2, 3}
    <3>1. 2 \in Nat \ {0} /\ 3 \in 0 .. Len(st.hold)
      BY <2>2
    <3>2. SubSeq(st.hold, 2, 3) \in Seq(Bit) /\ Len(SubSeq(st.hold, 2, 3)) = IF 2 <= 3 THEN 3 - 2 + 1 ELSE 0
      BY <1>2, <3>1, PartOf
    <3>3. Len(SubSeq(st.hold, 2, 3)) = 2
      BY <3>2
    <3>4. type \in Nat /\ type < 2^2
      BY <3>2, <3>3, NumBound
    <3> HIDE DEF type
    <3> QED
      BY <3>4, SmallPowers
  <2>8. l \in BOOLEAN
    OBVIOUS
  <2> HIDE DEF h, f, type, l
  <2>9. /\ s0 \in States /\ s0.hold = <<>> /\ s0.mode \notin Coding \cup {"LENLENS", "CODELENS"}
    BY <1>1, <2>3, <2>5, <2>8, NoBits, ZenonT(20) DEF States, Modes, Coding
  <2>10. s1 \in States /\ s1.hold = h /\ s1.mode = "LEN" /\ s1.fixed
    BY <1>1, <2>3, <2>8 DEF States, Modes
  <2>11. s2 \in States /\ s2.hold = h /\ s2.mode = "TABLE"
    BY <1>1, <2>3, <2>8 DEF States, Modes
  <2>12. s3 \in States /\ s3.hold = h /\ s3.mode = "BAD"
    BY <1>1, <2>3, <2>8 DEF States, Modes, Bad
  <2> HIDE DEF s0, s1, s2, s3
  <2>13. CASE Becomes(s0)
    BY <1>1, <2>9, <2>13, PlainKeeps
  <2>14. CASE Becomes(s1)
    <3>1. Sound(s1)
      BY <2>4, <2>10 DEF Sound, Aligned
    <3>2. Lean(s1)
      BY <2>3, <2>4, <2>10 DEF Lean
    <3> QED
      BY <1>1, <2>10, <2>14, <3>1, <3>2, BecomesKeeps
  <2>15. CASE Becomes(s2)
    <3>1. Sound(s2) /\ Lean(s2)
      BY <2>4, <2>11, PlainIs DEF Coding, Aligned
    <3> QED
      BY <1>1, <2>11, <2>15, <3>1, BecomesKeeps
  <2>16. CASE Becomes(s3)
    BY <1>1, <2>4, <2>12, <2>16, BadKeeps
  <2> QED
    BY <2>6, <2>7, <2>13, <2>14, <2>15, <2>16
<1> QED
  BY <1>2, <1>3, <1>4

\* The length of a stored block.
LEMMA StoredKeeps == ASSUME IInv, UNCHANGED streamVars, Stored PROVE IInv'
<1> DEFINE n == Num(SubSeq(st.hold, 1, 16))
           s == [st EXCEPT !.length = n, !.hold = <<>>, !.mode = "COPY"]
           b == Bad(st)
<1>1. /\ pc = "run" /\ st \in States /\ st.mode = "STORED" /\ Len(st.hold) = Wants(st)
  BY AtFinds DEF Stored, Aligned
<1>2. n \in Nat
  <2>1. Len(st.hold) = 32
    BY <1>1, WantsIs
  <2>2. 1 \in Nat \ {0} /\ 16 \in 0 .. Len(st.hold) /\ st.hold \in Seq(Bit)
    BY <1>1, <2>1 DEF States
  <2> QED
    BY <2>2, NumOf
<1>3. Becomes(b) \/ Becomes(s)
  BY DEF Stored
<1> HIDE DEF n
<1>4. s \in States /\ s.hold = <<>> /\ s.mode \notin Coding \cup {"LENLENS", "CODELENS"}
  BY <1>1, <1>2, NoBits DEF States, Modes, Coding
<1>5. b \in States /\ Len(b.hold) <= 32 /\ b.mode = "BAD"
  BY <1>1, HoldFits DEF States, Modes, Bad
<1> HIDE DEF s, b
<1>6. CASE Becomes(b)
  BY <1>1, <1>5, <1>6, BadKeeps
<1>7. CASE Becomes(s)
  BY <1>1, <1>4, <1>7, PlainKeeps
<1> QED
  BY <1>3, <1>6, <1>7

-----------------------------------------------------------------------------
\* Bytes are taken from the input or put into the output, as many as there are or fit.
LEMMA Moves ==
  ASSUME IInv, pc \in {"run", "fast"}, NEW m \in Nat, z.next <= m, m <= Len(z.input),
         NEW bytes \in Seq(Byte), Len(bytes) <= Room,
         z' = [z EXCEPT !.next = m, !.output = z.output \o bytes], history' = history \o bytes, call' = call
  PROVE  StreamInv'
<1> DEFINE o == z.output \o bytes
           y == [z EXCEPT !.next = m, !.output = o]
<1>1. z.output \in Seq(Byte) /\ history \in Seq(Byte) /\ Room = CHUNK - Len(z.output)
  BY InputIs
<1>2. o \in Seq(Byte) /\ Len(o) = Len(z.output) + Len(bytes) /\ history \o bytes \in Seq(Byte)
  BY <1>1, ConcatProperties
<1>3. Len(bytes) \in Nat /\ Len(z.output) \in Nat /\ CHUNK \in Nat
  BY InputIs, LenProperties, InflateAssumption
<1>4. Len(o) <= CHUNK /\ Len(z.output) <= Len(o) /\ Len(o) \in Nat
  BY <1>1, <1>2, <1>3
<1>5. y \in Streams /\ y.input = z.input /\ y.output = o /\ y.next = m
  <2>1. z \in Streams
    BY DEF IInv, StreamInv
  <2> HIDE DEF o
  <2> QED
    BY <1>2, <2>1 DEF Streams
<1>6. call.in0 <= m /\ call.out0 <= Len(o)
  <2>1. call.in0 <= z.next /\ call.out0 <= Len(z.output) /\ z.next \in Nat /\ call.in0 \in Nat /\ call.out0 \in Nat
    BY InputIs DEF IInv, StreamInv
  <2> HIDE DEF o
  <2> QED
    BY <1>3, <1>4, <2>1
<1>7. call \in Calls
  BY DEF IInv, StreamInv
<1>8. z' = y
  OBVIOUS
<1> HIDE DEF y, o
<1> QED
  BY <1>2, <1>4, <1>5, <1>6, <1>7, <1>8 DEF StreamInv

\* Stored bytes are moved as far as the block, the input and the room go.
LEMMA CopyMoves ==
  ASSUME IInv, st \in States
  PROVE  LET copy  == CHOOSE n \in {st.length, Have, Room} : n <= st.length /\ n <= Have /\ n <= Room
             bytes == SubSeq(z.input, z.next + 1, z.next + copy)
         IN /\ copy \in Nat /\ copy <= st.length /\ copy <= Have
            /\ bytes \in Seq(Byte) /\ Len(bytes) <= Room
<1> DEFINE copy == CHOOSE n \in {st.length, Have, Room} : n <= st.length /\ n <= Have /\ n <= Room
           bytes == SubSeq(z.input, z.next + 1, z.next + copy)
           a == z.next + 1
           m == z.next + copy
<1>1. /\ Have \in Nat /\ Room \in Nat /\ z.next \in Nat /\ z.input \in Seq(Byte) /\ Len(z.input) \in Nat
      /\ Have = Len(z.input) - z.next
  BY InputIs
<1>2. st.length \in Nat
  BY DEF States
<1>3. copy \in Nat /\ copy <= st.length /\ copy <= Have /\ copy <= Room
  <2>1. \E n \in {st.length, Have, Room} : n <= st.length /\ n <= Have /\ n <= Room
    BY <1>1, <1>2
  <2>2. copy \in {st.length, Have, Room} /\ copy <= st.length /\ copy <= Have /\ copy <= Room
    BY <2>1
  <2> HIDE DEF copy
  <2> QED
    BY <1>1, <1>2, <2>2
<1> HIDE DEF copy
<1>4. a \in Nat \ {0} /\ m \in 0 .. Len(z.input)
  BY <1>1, <1>3
<1>5. SubSeq(z.input, a, m) \in Seq(Byte) /\ Len(SubSeq(z.input, a, m)) = IF a <= m THEN m - a + 1 ELSE 0
  BY <1>1, <1>4, PartOf
<1>6. (IF a <= m THEN m - a + 1 ELSE 0) <= Room
  BY <1>1, <1>3
<1>7. bytes \in Seq(Byte) /\ Len(bytes) <= Room
  BY <1>5, <1>6
<1> QED
  BY <1>3, <1>7 DEF copy

\* Stored bytes are copied.
LEMMA CopyKeeps == ASSUME IInv, UNCHANGED streamVars, Copy PROVE IInv'
<1> DEFINE copy == CHOOSE n \in {st.length, Have, Room} : n <= st.length /\ n <= Have /\ n <= Room
           bytes == SubSeq(z.input, z.next + 1, z.next + copy)
           left == st.length - copy
           m == z.next + copy
           s == [st EXCEPT !.mode = "TYPE"]
           t == [st EXCEPT !.length = left]
<1>1. /\ pc = "run" /\ st \in States /\ st.mode = "COPY" /\ (Wants(st) = 0 => st.hold = <<>>)
  BY AtFinds DEF Copy, Aligned
<1>2. st.hold = <<>> /\ st.length \in Nat
  BY <1>1, WantsIs DEF States
<1>3. CASE st.length = 0
  <2>1. Becomes(s)
    BY <1>3 DEF Copy
  <2>2. s \in States /\ s.hold = <<>> /\ s.mode \notin Coding \cup {"LENLENS", "CODELENS"}
    BY <1>1, <1>2, NoBits DEF States, Modes, Coding
  <2> HIDE DEF s
  <2> QED
    BY <1>1, <2>1, <2>2, PlainKeeps
<1>4. CASE st.length # 0
  <2>1. /\ z' = [z EXCEPT !.next = m, !.output = z.output \o bytes] /\ history' = history \o bytes
        /\ st' = t /\ win' = win /\ call' = call /\ pc' = pc /\ ret' = ret
        /\ session' = session /\ pushed' = pushed /\ flush' = flush /\ ended' = ended /\ err' = err
        /\ chunks' = chunks /\ calls' = calls
    BY <1>4 DEF Copy, streamVars
  <2>2. /\ Have \in Nat /\ Room \in Nat /\ z.next \in Nat /\ z.input \in Seq(Byte) /\ Len(z.input) \in Nat
        /\ Have = Len(z.input) - z.next
    BY InputIs
  <2>3. copy \in Nat /\ copy <= st.length /\ copy <= Have /\ bytes \in Seq(Byte) /\ Len(bytes) <= Room
    BY <1>1, CopyMoves
  <2> HIDE DEF copy
  <2>4. left \in Nat /\ m \in Nat /\ z.next <= m /\ m <= Len(z.input)
    BY <1>2, <2>2, <2>3, SMTT(20)
  <2> HIDE DEF bytes, m, left
  <2>6. t \in States /\ t.hold = <<>> /\ t.mode \notin Coding \cup {"LENLENS", "CODELENS"}
    BY <1>1, <1>2, <2>4, NoBits DEF States, Modes, Coding
  <2>7. Sound(t) /\ Lean(t)
    <3>1. Len(t.hold) < 8
      BY <2>6, EmptySeq
    <3> QED
      BY <2>6, <3>1, PlainIs
  <2>8. StreamInv'
    BY <1>1, <2>1, <2>3, <2>4, Moves
  <2> HIDE DEF t
  <2>9. WindowInv'
    BY <2>1 DEF IInv, WindowInv
  <2>10. ClientInv'
    BY <2>1 DEF IInv, ClientInv
  <2>11. StateInv' /\ LeanInv'
    BY <2>1, <2>6, <2>7 DEF StateInv, LeanInv
  <2>12. FastInv'
    BY <1>1, <2>1 DEF FastInv
  <2> QED
    BY <2>8, <2>9, <2>10, <2>11, <2>12 DEF IInv
<1> QED
  BY <1>3, <1>4

-----------------------------------------------------------------------------
(* The codes of a block.                                                   *)

\* The numbers of lengths; more than there are symbols is damage.
LEMMA TableSizesKeeps == ASSUME IInv, UNCHANGED streamVars, TableSizes PROVE IInv'
<1> DEFINE a == Num(SubSeq(st.hold, 1, 5)) + 257
           d == Num(SubSeq(st.hold, 6, 10)) + 1
           c == Num(SubSeq(st.hold, 11, 14)) + 4
           h == Dropped(14, st.hold)
           s == [st EXCEPT !.nlen = a, !.ndist = d, !.ncode = c, !.hold = h]
           b == Bad(s)
           t == [s EXCEPT !.lens = <<>>, !.mode = "LENLENS"]
<1>1. /\ pc = "run" /\ st \in States /\ st.mode = "TABLE"
      /\ Len(st.hold) \in Nat /\ Wants(st) <= Len(st.hold) /\ Len(st.hold) < Wants(st) + 8
  BY AtFinds DEF TableSizes
<1>2. Len(st.hold) >= 14 /\ Len(st.hold) < 22
  <2>1. Wants(st) = 14
    BY <1>1, WantsIs
  <2> QED
    BY <1>1, <2>1
<1>3. /\ st.hold \in Seq(Bit) /\ 1 \in Nat \ {0} /\ 5 \in 0 .. Len(st.hold) /\ 6 \in Nat \ {0} /\ 10 \in 0 .. Len(st.hold)
      /\ 11 \in Nat \ {0} /\ 14 \in 0 .. Len(st.hold)
  BY <1>1, <1>2 DEF States
<1>4. a \in Nat /\ a >= 257 /\ d \in Nat /\ d >= 1 /\ c \in Nat
  <2>1. Num(SubSeq(st.hold, 1, 5)) \in Nat /\ Num(SubSeq(st.hold, 6, 10)) \in Nat /\ Num(SubSeq(st.hold, 11, 14)) \in Nat
    BY <1>3, NumOf
  <2> QED
    BY <2>1
<1>5. h \in Seq(Bit) /\ Len(h) = Len(st.hold) - 14
  BY <1>3, DroppedIs
<1>6. Len(h) < 8 /\ Len(h) <= 32
  BY <1>1, <1>2, <1>5
<1>7. Becomes(b) \/ (a <= 286 /\ d <= 30 /\ Becomes(t))
  <2>1. s.nlen = a /\ s.ndist = d
    BY <1>1 DEF States
  <2>2. Becomes(IF s.nlen > 286 \/ s.ndist > 30 THEN b ELSE t)
    BY DEF TableSizes
  <2> HIDE DEF a, d, c, h, s, b, t
  <2> QED
    BY <1>4, <2>1, <2>2
<1>8. <<>> \in Lengths
  BY EmptySeq DEF Lengths
<1> HIDE DEF a, d, c, h
<1>9. b \in States /\ b.hold = h /\ b.mode = "BAD"
  BY <1>1, <1>4, <1>5 DEF States, Modes, Bad
<1>10. t \in States /\ t.hold = h /\ t.mode = "LENLENS" /\ t.nlen = a /\ t.ndist = d
  BY <1>1, <1>4, <1>5, <1>8 DEF States, Modes
<1> HIDE DEF s, b, t
<1>11. CASE Becomes(b)
  BY <1>1, <1>6, <1>9, <1>11, BadKeeps
<1>12. CASE a <= 286 /\ d <= 30 /\ Becomes(t)
  <2>1. a \in 257 .. 286 /\ d \in 1 .. 30
    BY <1>4, <1>12
  <2>2. Sound(t)
    BY <1>6, <1>10, <2>1 DEF Sound, Aligned, Coding
  <2>3. Lean(t)
    BY <1>5, <1>6, <1>10, LenProperties DEF Lean
  <2> QED
    BY <1>1, <1>10, <1>12, <2>2, <2>3, BecomesKeeps
<1> QED
  BY <1>7, <1>11, <1>12

\* The lengths of the code lengths' code, and the code they make.
LEMMA LenLensKeeps == ASSUME IInv, UNCHANGED streamVars, LenLens PROVE IInv'
<1>1. /\ pc = "run" /\ st \in States /\ st.mode = "LENLENS" /\ Sound(st)
      /\ Len(st.hold) \in Nat /\ Wants(st) <= Len(st.hold) /\ Len(st.hold) < Wants(st) + 8
  <2>1. At("LENLENS")
    BY DEF LenLens
  <2>2. "LENLENS" # "BAD" /\ "LENLENS" \notin {"LEN", "DIST", "CODELENS"}
    OBVIOUS
  <2> QED
    BY <2>1, <2>2, AtFinds
<1>2. st.hold \in Seq(Bit) /\ st.lens \in Lengths
  BY <1>1 DEF States
<1>3. st.nlen \in 257 .. 286 /\ st.ndist \in 1 .. 30
  BY <1>1 DEF Sound
<1>4. CASE Len(st.lens) < st.ncode
  <2> DEFINE x == Num(SubSeq(st.hold, 1, 3))
             l == Append(st.lens, x)
             h == Dropped(3, st.hold)
             s == [st EXCEPT !.lens = l, !.hold = h]
  <2>1. Len(st.hold) >= 3 /\ Len(st.hold) < 11
    <3>1. Wants(st) = 3
      BY <1>1, <1>4, WantsIs
    <3> QED
      BY <1>1, <3>1
  <2>2. 3 \in 0 .. Len(st.hold)
    BY <1>1, <2>1
  <2>3. x \in 0 .. 15
    <3>1. SubSeq(st.hold, 1, 3) \in Seq(Bit) /\ Len(SubSeq(st.hold, 1, 3)) = 3
      BY <1>2, <2>2, FirstsOf
    <3>2. x \in Nat /\ x < 2^3
      BY <3>1, NumBound
    <3> HIDE DEF x
    <3> QED
      BY <3>2, SmallPowers
  <2>4. l \in Lengths
    <3> HIDE DEF x
    <3> QED
      BY <1>2, <2>3, AppendProperties DEF Lengths
  <2>5. h \in Seq(Bit) /\ Len(h) = Len(st.hold) - 3
    BY <1>2, <2>2, DroppedIs
  <2>6. Len(h) < 8 /\ Len(h) <= 32
    BY <1>1, <2>1, <2>5
  <2>7. Becomes(s)
    BY <1>4 DEF LenLens
  <2> HIDE DEF x, l, h
  <2>8. s \in States /\ s.hold = h /\ s.mode = "LENLENS" /\ s.nlen = st.nlen /\ s.ndist = st.ndist
    BY <1>1, <2>4, <2>5 DEF States
  <2> HIDE DEF s
  <2>9. Sound(s)
    BY <1>3, <2>6, <2>8 DEF Sound, Aligned, Coding
  <2>10. Lean(s)
    BY <2>5, <2>6, <2>8, LenProperties DEF Lean
  <2> QED
    BY <1>1, <2>7, <2>8, <2>9, <2>10, BecomesKeeps
<1>5. CASE ~(Len(st.lens) < st.ncode)
  <2> DEFINE lens == [s \in 0 .. 18 |-> IF \E i \in DOMAIN st.lens : Order[i] = s
                                        THEN st.lens[CHOOSE i \in DOMAIN st.lens : Order[i] = s] ELSE 0]
             c == CodeOf(lens)
             t == [st EXCEPT !.lencode = c, !.lens = <<>>, !.fixed = FALSE, !.mode = "CODELENS"]
             b == Bad([st EXCEPT !.fixed = FALSE])
  <2>1. Len(st.hold) < 8
    <3>1. Wants(st) = 0
      BY <1>1, <1>5, WantsIs
    <3> QED
      BY <1>1, <3>1
  <2>2. lens \in [0 .. 18 -> 0 .. 15]
    <3>1. \A i \in DOMAIN st.lens : st.lens[i] \in 0 .. 15
      BY <1>2 DEF Lengths
    <3>2. 0 \in 0 .. 15
      OBVIOUS
    <3> QED
      BY <3>1, <3>2
  <2>3. Becomes(b) \/ (Accepted("CODES", lens) /\ Becomes(t))
    BY <1>5 DEF LenLens
  <2> HIDE DEF lens
  <2>4. Accepted("CODES", lens) => c \in Codes(18) /\ c \in LenCodes
    <3> SUFFICES ASSUME Accepted("CODES", lens) PROVE c \in Codes(18) /\ c \in LenCodes
      OBVIOUS
    <3>1. 18 \in 0 .. 18
      OBVIOUS
    <3>2. lens \in Lists(18)
      BY <2>2, <3>1 DEF Lists
    <3>3. c \in Codes(18)
      BY <3>2 DEF Codes
    <3>4. 18 \in Nat /\ 287 \in Nat /\ 18 <= 287
      OBVIOUS
    <3>5. Codes(18) \subseteq Codes(287)
      BY <3>4, CodesGrow
    <3> QED
      BY <3>3, <3>5 DEF LenCodes
  <2>5. <<>> \in Lengths /\ Len(<<>>) = 0
    BY EmptySeq DEF Lengths
  <2> HIDE DEF c
  <2>6. b \in States /\ Len(b.hold) <= 32 /\ b.mode = "BAD"
    BY <1>1, HoldFits DEF States, Modes, Bad
  <2>7. c \in LenCodes => /\ t \in States /\ t.hold = st.hold /\ t.mode = "CODELENS" /\ t.nlen = st.nlen
                          /\ t.ndist = st.ndist /\ t.lencode = c /\ t.lens = <<>>
    BY <1>1, <2>5 DEF States, Modes
  <2> HIDE DEF b, t
  <2>8. CASE Becomes(b)
    BY <1>1, <2>6, <2>8, BadKeeps
  <2>9. CASE Accepted("CODES", lens) /\ Becomes(t)
    <3>1. t \in States
      BY <2>4, <2>7, <2>9
    <3>2. Len(t.lens) <= st.nlen + st.ndist
      <4>1. Len(t.lens) = 0
        BY <2>4, <2>5, <2>7, <2>9
      <4>2. \A x \in {0} : x <= st.nlen + st.ndist
        BY <1>3
      <4> QED
        BY <4>1, <4>2
    <3>3. Len(t.hold) <= 32
      BY <1>1, <2>1, <2>4, <2>7, <2>9
    <3>4. Sound(t)
      BY <1>3, <2>4, <2>7, <2>9, <3>2, <3>3, ZenonT(20) DEF Sound, Aligned, Coding
    <3>5. Lean(t)
      BY <1>1, <2>1, <2>4, <2>7, <2>9 DEF Lean
    <3> QED
      BY <1>1, <2>9, <3>1, <3>4, <3>5, BecomesKeeps
  <2> QED
    BY <2>3, <2>8, <2>9
<1>6. st.ncode \in Nat /\ Len(st.lens) \in Nat
  BY <1>1, <1>2, LenProperties DEF States, Lengths
<1> QED
  BY <1>4, <1>5, <1>6

-----------------------------------------------------------------------------
\* What one symbol of the code of the code lengths and its extra bits take leaves less than a byte.
LEMMA OneLength ==
  ASSUME st \in States, Sound(st), Lean(st), Enough(st, st.hold), st.mode = "CODELENS", Len(st.lens) < st.nlen + st.ndist
  PROVE  LET w == First(st.lencode, st.hold)
             n == Len(w) + RepeatBits(st.lencode[w])
         IN /\ Len(w) \in 1 .. 15 /\ st.lencode[w] \in -1 .. 18
            /\ n \in 0 .. Len(st.hold) /\ Len(st.hold) - n < 8
<1> DEFINE w == First(st.lencode, st.hold)
           k == Len(w)
           r == RepeatBits(st.lencode[w])
           m == Len(st.hold) - 8
           some == SubSeq(st.hold, 1, m)
<1>1. st.hold \in Seq(Bit) /\ Len(st.hold) \in Nat /\ st.lencode \in Codes(18)
  BY LenProperties DEF States, Sound
<1>2. IsCode(st.lencode, 18)
  BY <1>1, CodesAreCodes
<1>3. Len(st.lens) # st.nlen + st.ndist
  <2>1. Len(st.lens) \in Nat
    BY LenProperties DEF States, Lengths
  <2>2. st.nlen \in Nat /\ st.ndist \in Nat
    BY DEF States
  <2> QED
    BY <2>1, <2>2
<1>4. Known(st.lencode, st.hold) /\ Len(st.hold) >= k + r
  BY <1>3 DEF Enough
<1>5. /\ w \in Seq(Bit) /\ k \in 1 .. 15 /\ st.lencode[w] \in -1 .. 18
  BY <1>1, <1>2, <1>4, FirstIs
<1>6. r \in 0 .. 7
  BY RepeatBitsAre
<1>7. CASE m \in Nat
  <2>1. m \in 0 .. Len(st.hold)
    BY <1>1, <1>7
  <2>2. some \in Seq(Bit) /\ Len(some) = m
    BY <1>1, <2>1, FirstsOf
  <2>3. ~Enough(st, some)
    <3>1. Len(st.hold) >= 8
      BY <1>1, <1>7
    <3> QED
      BY <3>1 DEF Lean
  <2>4. CASE ~Known(st.lencode, some)
    <3>1. k > m
      BY <1>1, <1>2, <1>4, <2>1, <2>4, FirstIsLonger
    <3> HIDE DEF k, r
    <3>2. k + r \in 0 .. Len(st.hold) /\ Len(st.hold) - (k + r) < 8
      BY <1>1, <1>4, <1>5, <1>6, <1>7, <3>1
    <3> QED
      BY <1>5, <3>2 DEF k, r
  <2>5. CASE Known(st.lencode, some)
    <3>1. First(st.lencode, some) = w
      BY <1>1, <1>2, <2>1, <2>5, FirstIsSame
    <3>2. ~(Len(some) >= k + r)
      BY <2>3, <2>5, <3>1 DEF Enough
    <3>4. ~(m >= k + r)
      BY <2>2, <3>2
    <3> HIDE DEF k, r
    <3>3. k + r \in 0 .. Len(st.hold) /\ Len(st.hold) - (k + r) < 8
      BY <1>1, <1>4, <1>5, <1>6, <1>7, <3>4
    <3> QED
      BY <1>5, <3>3 DEF k, r
  <2> QED
    BY <2>4, <2>5
<1>8. CASE m \notin Nat
  <2> HIDE DEF k, r
  <2>1. Len(st.hold) < 8
    BY <1>1, <1>8
  <2>2. k + r \in 0 .. Len(st.hold) /\ Len(st.hold) - (k + r) < 8
    BY <1>1, <1>4, <1>5, <1>6, <2>1
  <2> QED
    BY <1>5, <2>2 DEF k, r
<1> QED
  BY <1>7, <1>8

\* A code length or a repetition of one never makes more lengths than were announced.
LEMMA CodeLensStep ==
  ASSUME IInv, UNCHANGED streamVars, CodeLens, Len(st.lens) < st.nlen + st.ndist
  PROVE  IInv'
<1> DEFINE w    == First(st.lencode, st.hold)
           v    == st.lencode[w]
           sym  == IF v = INVALID THEN 0 ELSE v
           r    == RepeatBits(sym)
           more == Num(SubSeq(st.hold, Len(w) + 1, Len(w) + r))
           copy == IF sym = 18 THEN 11 + more ELSE IF sym > 15 THEN 3 + more ELSE 1
           h    == Dropped(Len(w) + r, st.hold)
           s    == [st EXCEPT !.hold = h]
           b    == Bad(s)
           len  == CASE sym < 16 -> sym [] sym = 16 -> st.lens[Len(st.lens)] [] sym > 16 -> 0
           l    == st.lens \o [i \in 1 .. copy |-> len]
           t    == [s EXCEPT !.lens = l]
<1>1. /\ pc = "run" /\ st \in States /\ st.mode = "CODELENS" /\ Sound(st) /\ Lean(st) /\ Enough(st, st.hold)
  <2>1. At("CODELENS") /\ "CODELENS" # "BAD"
    BY DEF CodeLens
  <2> QED
    BY <2>1, AtFinds
<1>2. /\ st.hold \in Seq(Bit) /\ st.lens \in Seq(0 .. 15) /\ Len(st.hold) \in Nat /\ Len(st.lens) \in Nat
  BY <1>1, LenProperties DEF States, Lengths
<1>3. Becomes(IF (sym = 16 /\ st.lens = <<>>) \/ Len(st.lens) + copy > st.nlen + st.ndist THEN b ELSE t)
  BY DEF CodeLens
<1>4. Len(w) \in 1 .. 15 /\ sym \in 0 .. 18 /\ Len(w) + r \in 0 .. Len(st.hold) /\ Len(st.hold) - (Len(w) + r) < 8
  <2>1. /\ Len(w) \in 1 .. 15 /\ v \in -1 .. 18
        /\ Len(w) + RepeatBits(v) \in 0 .. Len(st.hold) /\ Len(st.hold) - (Len(w) + RepeatBits(v)) < 8
    BY <1>1, OneLength
  <2>2. RepeatBits(v) = r
    <3> HIDE DEF v
    <3> QED
      BY DEF RepeatBits, INVALID
  <2>3. sym \in 0 .. 18
    <3> HIDE DEF v
    <3> QED
      BY <2>1 DEF INVALID
  <2> HIDE DEF v, w, r
  <2> QED
    BY <2>1, <2>2, <2>3
<1>5. r \in 0 .. 7
  BY RepeatBitsAre
<1>6. more \in Nat
  <2> DEFINE p == Len(w) + 1
             q == Len(w) + r
  <2> HIDE DEF w, r
  <2>1. p \in Nat \ {0} /\ q \in 0 .. Len(st.hold)
    BY <1>4
  <2> HIDE DEF p, q
  <2>2. Num(SubSeq(st.hold, p, q)) \in Nat
    BY <1>2, <2>1, NumOf
  <2> QED
    BY <2>2 DEF p, q
<1>7. h \in Seq(Bit) /\ Len(h) < 8
  <2>1. h \in Seq(Bit) /\ Len(h) = Len(st.hold) - (Len(w) + r)
    BY <1>2, <1>4, DroppedIs
  <2> QED
    BY <1>4, <2>1
<1>8. Len(h) <= 32
  BY <1>7, LenProperties
<1> HIDE DEF w, v, r, more, h
<1>9. copy \in Nat
  BY <1>4, <1>6
<1>10. ~(sym = 16 /\ st.lens = <<>>) => len \in 0 .. 15
  <2> SUFFICES ASSUME ~(sym = 16 /\ st.lens = <<>>) PROVE len \in 0 .. 15
    OBVIOUS
  <2>1. sym = 16 => st.lens[Len(st.lens)] \in 0 .. 15
    <3> SUFFICES ASSUME sym = 16 PROVE st.lens[Len(st.lens)] \in 0 .. 15
      OBVIOUS
    <3>1. Len(st.lens) # 0
      BY <1>2, EmptySeq
    <3>2. Len(st.lens) \in 1 .. Len(st.lens)
      BY <1>2, <3>1
    <3> QED
      BY <1>2, <3>2, ElementOfSeq
  <2> HIDE DEF sym
  <2>2. CASE sym < 16
    <3>1. len = sym
      BY <1>4, <2>2
    <3> QED
      BY <1>4, <2>2, <3>1, SMTT(20)
  <2>3. CASE sym = 16
    <3>1. len = st.lens[Len(st.lens)]
      BY <2>3
    <3> QED
      BY <2>1, <2>3, <3>1
  <2>4. CASE sym > 16
    <3>1. len = 0
      BY <1>4, <2>4
    <3>2. 0 \in 0 .. 15
      OBVIOUS
    <3> QED
      BY <3>1, <3>2
  <2> QED
    BY <1>4, <2>2, <2>3, <2>4, SMTT(20)
<1>11. len \in 0 .. 15 => l \in Seq(0 .. 15) /\ Len(l) = Len(st.lens) + copy
  <2> SUFFICES ASSUME len \in 0 .. 15 PROVE l \in Seq(0 .. 15) /\ Len(l) = Len(st.lens) + copy
    OBVIOUS
  <2> HIDE DEF len, copy
  <2>1. [i \in 1 .. copy |-> len] \in Seq(0 .. 15) /\ Len([i \in 1 .. copy |-> len]) = copy
    BY <1>9
  <2> DEFINE tail == [i \in 1 .. copy |-> len]
             S == 0 .. 15
             old == st.lens
  <2>2. old \in Seq(S) /\ tail \in Seq(S) /\ Len(tail) = copy
    BY <1>2, <2>1
  <2> HIDE DEF tail, S, old
  <2>3. old \o tail \in Seq(S) /\ Len(old \o tail) = Len(old) + Len(tail)
    BY <2>2, ConcatProperties
  <2> QED
    BY <2>2, <2>3 DEF tail, S, old
<1> HIDE DEF sym, copy, len, l
<1>12. b \in States /\ b.hold = h /\ b.mode = "BAD"
  BY <1>1, <1>7 DEF States, Modes, Bad
<1>13. l \in Seq(0 .. 15) => /\ t \in States /\ t.hold = h /\ t.mode = "CODELENS" /\ t.nlen = st.nlen /\ t.ndist = st.ndist
                             /\ t.lencode = st.lencode /\ t.lens = l
  BY <1>1, <1>7 DEF States, Lengths
<1> HIDE DEF s, b, t
<1>14. CASE (sym = 16 /\ st.lens = <<>>) \/ Len(st.lens) + copy > st.nlen + st.ndist
  <2>1. Becomes(b)
    BY <1>3, <1>14
  <2> QED
    BY <1>1, <1>8, <1>12, <2>1, BadKeeps
<1>15. CASE ~((sym = 16 /\ st.lens = <<>>) \/ Len(st.lens) + copy > st.nlen + st.ndist)
  <2>1. Becomes(t)
    BY <1>3, <1>15
  <2>2. l \in Seq(0 .. 15) /\ Len(l) = Len(st.lens) + copy
    BY <1>10, <1>11, <1>15
  <2>3. st.nlen \in 257 .. 286 /\ st.ndist \in 1 .. 30 /\ st.lencode \in Codes(18)
    BY <1>1 DEF Sound
  <2>4. Len(t.lens) <= t.nlen + t.ndist
    <3> DEFINE N == st.nlen + st.ndist
               L == Len(st.lens) + copy
    <3>a. \A x \in 257 .. 286, y \in 1 .. 30 : x + y \in Nat
      OBVIOUS
    <3>b. \A x, y \in Nat : x + y \in Nat
      OBVIOUS
    <3>1. N \in Nat /\ L \in Nat /\ ~(L > N)
      BY <1>2, <1>9, <1>15, <2>3, <3>a, <3>b
    <3>2. Len(t.lens) = L /\ t.nlen + t.ndist = N
      BY <1>13, <2>2
    <3> HIDE DEF N, L
    <3> QED
      BY <3>1, <3>2
  <2>5. Sound(t)
    BY <1>8, <1>13, <2>2, <2>3, <2>4, ZenonT(20) DEF Sound, Aligned, Coding
  <2>6. Lean(t)
    BY <1>7, <1>13, <2>2, LenProperties DEF Lean
  <2> QED
    BY <1>1, <1>13, <2>1, <2>2, <2>5, <2>6, BecomesKeeps
<1> QED
  BY <1>14, <1>15

\* With all lengths there both codes are made, or it is damage.
LEMMA CodeLensEnd ==
  ASSUME IInv, UNCHANGED streamVars, CodeLens, ~(Len(st.lens) < st.nlen + st.ndist)
  PROVE  IInv'
<1> DEFINE lengths == [s \in 0 .. st.nlen - 1 |-> st.lens[s + 1]]
           dists   == [s \in 0 .. st.ndist - 1 |-> st.lens[st.nlen + s + 1]]
           c       == CodeOf(lengths)
           d       == CodeOf(dists)
           b       == Bad(st)
           t       == [st EXCEPT !.lencode = c, !.distcode = d, !.lens = <<>>, !.mode = "LEN"]
<1>1. /\ pc = "run" /\ st \in States /\ st.mode = "CODELENS" /\ Sound(st) /\ Lean(st) /\ Enough(st, st.hold)
  <2>1. At("CODELENS") /\ "CODELENS" # "BAD"
    BY DEF CodeLens
  <2> QED
    BY <2>1, AtFinds
<1>2. /\ st.hold \in Seq(Bit) /\ st.lens \in Seq(0 .. 15) /\ Len(st.hold) \in Nat /\ Len(st.lens) \in Nat
  BY <1>1, LenProperties DEF States, Lengths
<1>3. st.nlen \in 257 .. 286 /\ st.ndist \in 1 .. 30 /\ Len(st.lens) <= st.nlen + st.ndist
  BY <1>1 DEF Sound
<1> DEFINE N == st.nlen
           M == st.ndist
           L == Len(st.lens)
<1>a. N \in 257 .. 286 /\ M \in 1 .. 30 /\ L \in Nat /\ L <= N + M /\ ~(L < N + M)
  BY <1>2, <1>3
<1>4. Len(st.lens) = st.nlen + st.ndist
  <2>1. L = N + M
    <3> HIDE DEF N, M, L
    <3> QED
      BY <1>a
  <2> QED
    BY <2>1
<1>5. Len(st.hold) < 8
  <2>1. Enough(st, SubSeq(st.hold, 1, Len(st.hold) - 8))
    BY <1>1, <1>4 DEF Enough
  <2> QED
    BY <1>1, <1>2, <2>1 DEF Lean
<1>6. Becomes(b) \/ (Accepted("LENS", lengths) /\ Accepted("DISTS", dists) /\ Becomes(t))
  BY DEF CodeLens
<1>7. \A i \in 1 .. st.nlen + st.ndist : st.lens[i] \in 0 .. 15
  BY <1>2, <1>4, ElementOfSeq
<1>8. lengths \in [0 .. st.nlen - 1 -> 0 .. 15] /\ st.nlen - 1 \in 0 .. 287
  <2>1. N - 1 \in 0 .. 287 /\ \A s \in 0 .. N - 1 : s + 1 \in 1 .. N + M
    <3> HIDE DEF N, M
    <3> QED
      BY <1>a
  <2> QED
    BY <1>7, <2>1
<1>9. dists \in [0 .. st.ndist - 1 -> 0 .. 15] /\ st.ndist - 1 \in 0 .. 31
  <2>1. M - 1 \in 0 .. 31 /\ \A s \in 0 .. M - 1 : N + s + 1 \in 1 .. N + M
    <3> HIDE DEF N, M
    <3> QED
      BY <1>a
  <2> QED
    BY <1>7, <2>1
<1> HIDE DEF lengths, dists
<1>10. Accepted("LENS", lengths) => c \in Codes(287)
  <2> SUFFICES ASSUME Accepted("LENS", lengths) PROVE lengths \in Lists(287)
    BY DEF Codes
  <2> QED
    BY <1>8 DEF Lists
<1>11. Accepted("DISTS", dists) => d \in Codes(31)
  <2> SUFFICES ASSUME Accepted("DISTS", dists) PROVE dists \in Lists(31)
    BY DEF Codes
  <2> QED
    BY <1>9 DEF Lists
<1>12. <<>> \in Lengths
  BY EmptySeq DEF Lengths
<1> HIDE DEF c, d
<1>13. b \in States /\ Len(b.hold) <= 32 /\ b.mode = "BAD"
  BY <1>1, HoldFits DEF States, Modes, Bad
<1>14. c \in Codes(287) /\ d \in Codes(31) => /\ t \in States /\ t.hold = st.hold /\ t.mode = "LEN"
                                              /\ t.lencode = c /\ t.distcode = d
  <2> SUFFICES ASSUME c \in Codes(287), d \in Codes(31)
               PROVE t \in States /\ t.hold = st.hold /\ t.mode = "LEN" /\ t.lencode = c /\ t.distcode = d
    OBVIOUS
  <2>1. c \in LenCodes /\ d \in DistCodes
    BY DEF LenCodes, DistCodes
  <2> QED
    BY <1>1, <1>12, <2>1 DEF States, Modes
<1> HIDE DEF b, t
<1>15. CASE Becomes(b)
  BY <1>1, <1>13, <1>15, BadKeeps
<1>16. CASE Accepted("LENS", lengths) /\ Accepted("DISTS", dists) /\ Becomes(t)
  <2>1. /\ t \in States /\ t.hold = st.hold /\ t.mode = "LEN" /\ t.lencode \in Codes(287) /\ t.distcode \in Codes(31)
    BY <1>10, <1>11, <1>14, <1>16
  <2>2. Len(t.hold) <= 32 /\ ~(Len(t.hold) >= 8)
    BY <1>2, <1>5, <2>1
  <2>3. Sound(t) /\ Lean(t)
    BY <2>1, <2>2 DEF Sound, Lean, Aligned
  <2> QED
    BY <1>1, <1>16, <2>1, <2>3, BecomesKeeps
<1> QED
  BY <1>6, <1>15, <1>16

\* The code lengths.
LEMMA CodeLensKeeps == ASSUME IInv, UNCHANGED streamVars, CodeLens PROVE IInv'
  BY CodeLensStep, CodeLensEnd

-----------------------------------------------------------------------------
(* Lengths and distances, for either decoder.                              *)

\* The codes of a block.
LEMMA BlockCodes ==
  ASSUME st \in States, Sound(st), st.mode \in Coding
  PROVE  IsCode(LenCode, 287) /\ IsCode(DistCode, 31)
<1>1. LenCode \in Codes(287) /\ DistCode \in Codes(31)
  BY FixedLenIs, FixedDistIs DEF Sound, LenCode, DistCode
<1>2. 287 \in Nat /\ 31 \in Nat
  OBVIOUS
<1> QED
  BY <1>1, <1>2, CodesAreCodes

\* A state that has other bits in hand.
SameBlock(s) == /\ s \in States
                /\ s.mode = st.mode /\ s.fixed = st.fixed /\ s.lencode = st.lencode /\ s.distcode = st.distcode
                /\ s.length = st.length /\ s.offset = st.offset /\ s.extra = st.extra

\* Sound, part by part.
LEMMA SoundParts ==
  ASSUME NEW s, Sound(s)
  PROVE  /\ Len(s.hold) <= 32
         /\ s.mode \in Coding => s.fixed \/ (s.lencode \in Codes(287) /\ s.distcode \in Codes(31))
         /\ s.mode = "LENEXT" => \E k \in 1 .. 29 : s.length = LengthBase[k] /\ s.extra = LengthExtra(k)
         /\ s.mode \in {"DIST", "DISTEXT", "MATCH"} => s.length <= 258
         /\ s.mode = "DISTEXT" => s.offset >= 1 /\ s.extra <= 13
  BY DEF Sound

\* A length symbol's base and extra bits are sound.
LEMMA SoundLength ==
  ASSUME NEW s, s.mode = "LENEXT", Len(s.hold) <= 32, s.fixed \/ (s.lencode \in Codes(287) /\ s.distcode \in Codes(31)),
         NEW k \in 1 .. 29, s.length = LengthBase[k], s.extra = LengthExtra(k)
  PROVE  Sound(s)
  BY DEF Sound, Coding, Aligned

\* What a symbol makes of the state: damage, the end of the block, a byte or a length.
LEMMA LengthSymbolIs ==
  ASSUME st \in States, Sound(st), st.mode = "LEN", NEW s, SameBlock(s),
         NEW w, Len(w) \in 0 .. Len(s.hold), Len(s.hold) - Len(w) <= 32, LenCode[w] \in -1 .. 287
  PROVE  LET r == LengthSymbol(s, w)
         IN /\ r \in States /\ Sound(r) /\ r.mode \in {"BAD", "TYPE", "LIT", "LENEXT"}
            /\ r.hold = Dropped(Len(w), s.hold) /\ r.hold \in Seq(Bit) /\ Len(r.hold) = Len(s.hold) - Len(w)
<1> DEFINE sym == LenCode[w]
           n == Len(w)
           h == Dropped(n, s.hold)
           r == [s EXCEPT !.hold = h]
           b == Bad(r)
           e == [r EXCEPT !.mode = "TYPE"]
           l == [r EXCEPT !.length = sym, !.mode = "LIT"]
           k == sym - 256
           base == LengthBase[k]
           more == LengthExtra(k)
           x == [r EXCEPT !.length = base, !.extra = more, !.mode = "LENEXT"]
<1>1. s \in States /\ s.hold \in Seq(Bit)
  BY DEF SameBlock, States
<1>2. h \in Seq(Bit) /\ Len(h) = Len(s.hold) - n
  BY <1>1, DroppedIs
<1>3. Len(h) <= 32
  BY <1>2
<1>4. LengthSymbol(s, w) = CASE sym = INVALID \/ sym > 285 -> b
                             [] sym = 256                  -> e
                             [] sym \in 0 .. 255           -> l
                             [] OTHER                      -> x
  BY DEF LengthSymbol
<1>5. s.fixed \/ (s.lencode \in Codes(287) /\ s.distcode \in Codes(31))
  BY SoundParts DEF SameBlock, Coding
<1> HIDE DEF sym, h, n
<1>6. sym \in -1 .. 287
  BY DEF sym
<1>7. CASE sym = INVALID \/ sym > 285
  <2>1. LengthSymbol(s, w) = b
    <3>1. ~(sym = 256) /\ ~(sym \in 0 .. 255)
      BY <1>6, <1>7 DEF INVALID
    <3> HIDE DEF b, e, l, x
    <3> QED
      BY <1>4, <1>7, <3>1
  <2>2. b \in States /\ b.hold = h /\ b.mode = "BAD"
    BY <1>1, <1>2 DEF States, Modes, Bad
  <2> HIDE DEF b
  <2>3. Sound(b)
    BY <1>3, <2>2, BadIs
  <2> QED
    BY <1>2, <2>1, <2>2, <2>3 DEF n, h
<1>8. CASE sym = 256
  <2>1. LengthSymbol(s, w) = e
    BY <1>4, <1>8 DEF INVALID
  <2>2. e \in States /\ e.hold = h /\ e.mode = "TYPE"
    BY <1>1, <1>2 DEF States, Modes
  <2> HIDE DEF e
  <2>3. Sound(e)
    BY <1>3, <2>2 DEF Sound, Coding, Aligned
  <2> QED
    BY <1>2, <2>1, <2>2, <2>3 DEF n, h
<1>9. CASE sym \in 0 .. 255
  <2>1. LengthSymbol(s, w) = l
    BY <1>4, <1>9 DEF INVALID
  <2>a. sym \in Nat
    BY <1>9
  <2>2. /\ l \in States /\ l.hold = h /\ l.mode = "LIT" /\ l.length = sym
        /\ l.fixed = s.fixed /\ l.lencode = s.lencode /\ l.distcode = s.distcode
    BY <1>1, <1>2, <2>a DEF States, Modes
  <2> HIDE DEF l
  <2>3. sym \in Byte
    BY <1>9 DEF Byte
  <2>4. Sound(l)
    BY <1>3, <1>5, <2>2, <2>3 DEF Sound, Coding, Aligned
  <2> QED
    BY <1>2, <2>1, <2>2, <2>4 DEF n, h
<1>10. CASE sym \in 257 .. 285
  <2>1. LengthSymbol(s, w) = x
    <3>1. ~(sym = INVALID \/ sym > 285) /\ sym # 256 /\ ~(sym \in 0 .. 255)
      BY <1>10 DEF INVALID
    <3> HIDE DEF b, e, l, x
    <3> QED
      BY <1>4, <3>1
  <2>2. k \in 1 .. 29
    BY <1>10
  <2> HIDE DEF k
  <2>3. base \in Nat /\ more \in 0 .. 5
    BY <2>2, LengthTable
  <2>b. more \in Nat
    BY <2>3
  <2>c. base = LengthBase[k] /\ more = LengthExtra(k)
    OBVIOUS
  <2> HIDE DEF base, more
  <2>4. /\ x \in States /\ x.hold = h /\ x.mode = "LENEXT" /\ x.length = base /\ x.extra = more
        /\ x.fixed = s.fixed /\ x.lencode = s.lencode /\ x.distcode = s.distcode
    BY <1>1, <1>2, <2>3, <2>b DEF States, Modes
  <2> HIDE DEF x
  <2>6. Sound(x)
    BY <1>3, <1>5, <2>2, <2>4, <2>c, SoundLength, ZenonT(20)
  <2> QED
    BY <1>2, <2>1, <2>4, <2>6 DEF n, h
<1>11. sym = INVALID \/ sym > 285 \/ sym = 256 \/ sym \in 0 .. 255 \/ sym \in 257 .. 285
  BY <1>6 DEF INVALID
<1> QED
  BY <1>7, <1>8, <1>9, <1>10, <1>11

\* What a symbol makes of the state: damage, or a distance.
LEMMA DistSymbolIs ==
  ASSUME st \in States, Sound(st), st.mode = "DIST", NEW s, SameBlock(s),
         NEW w, Len(w) \in 0 .. Len(s.hold), Len(s.hold) - Len(w) <= 32, DistCode[w] \in -1 .. 31
  PROVE  LET r == DistSymbol(s, w)
         IN /\ r \in States /\ Sound(r) /\ r.mode \in {"BAD", "DISTEXT"}
            /\ r.hold = Dropped(Len(w), s.hold) /\ r.hold \in Seq(Bit) /\ Len(r.hold) = Len(s.hold) - Len(w)
<1> DEFINE sym == DistCode[w]
           n == Len(w)
           h == Dropped(n, s.hold)
           r == [s EXCEPT !.hold = h]
           b == Bad(r)
           k == sym + 1
           base == DistBase(k)
           more == DistExtra(k)
           x == [r EXCEPT !.offset = base, !.extra = more, !.mode = "DISTEXT"]
<1>1. s \in States /\ s.hold \in Seq(Bit)
  BY DEF SameBlock, States
<1>2. h \in Seq(Bit) /\ Len(h) = Len(s.hold) - n
  BY <1>1, DroppedIs
<1>3. Len(h) <= 32
  BY <1>2
<1>4. DistSymbol(s, w) = IF sym = INVALID \/ sym > 29 THEN b ELSE x
  BY DEF DistSymbol
<1>5. (s.fixed \/ (s.lencode \in Codes(287) /\ s.distcode \in Codes(31))) /\ s.length <= 258
  BY SoundParts DEF SameBlock, Coding
<1> HIDE DEF sym, h, n
<1>6. sym \in -1 .. 31
  BY DEF sym
<1>7. CASE sym = INVALID \/ sym > 29
  <2>1. DistSymbol(s, w) = b
    BY <1>4, <1>7
  <2>2. b \in States /\ b.hold = h /\ b.mode = "BAD"
    BY <1>1, <1>2 DEF States, Modes, Bad
  <2> HIDE DEF b
  <2>3. Sound(b)
    BY <1>3, <2>2, BadIs
  <2> QED
    BY <1>2, <2>1, <2>2, <2>3 DEF n, h
<1>8. CASE ~(sym = INVALID \/ sym > 29)
  <2>1. DistSymbol(s, w) = x
    BY <1>4, <1>8
  <2>2. k \in 1 .. 30
    BY <1>6, <1>8 DEF INVALID
  <2> HIDE DEF k
  <2>3. base \in Nat \ {0} /\ more \in 0 .. 13
    BY <2>2, DistTable
  <2> HIDE DEF base, more
  <2>b. more \in Nat /\ base \in Nat /\ base >= 1 /\ more <= 13
    BY <2>3
  <2>4. /\ x \in States /\ x.hold = h /\ x.mode = "DISTEXT" /\ x.offset = base /\ x.extra = more /\ x.length = s.length
        /\ x.fixed = s.fixed /\ x.lencode = s.lencode /\ x.distcode = s.distcode
    BY <1>1, <1>2, <2>b DEF States, Modes
  <2> HIDE DEF x
  <2>6. Sound(x)
    BY <1>3, <1>5, <2>4, <2>b DEF Sound, Coding, Aligned
  <2> QED
    BY <1>2, <2>1, <2>4, <2>6 DEF n, h
<1> QED
  BY <1>7, <1>8

\* A length with its extra bits is 258 at most.
LEMMA LengthWholeIs ==
  ASSUME st \in States, Sound(st), st.mode = "LENEXT", NEW s, SameBlock(s),
         s.extra <= Len(s.hold), Len(s.hold) - s.extra <= 32
  PROVE  LET r == LengthWhole(s)
         IN /\ r \in States /\ Sound(r) /\ r.mode = "DIST"
            /\ r.hold = Dropped(s.extra, s.hold) /\ r.hold \in Seq(Bit) /\ Len(r.hold) = Len(s.hold) - s.extra
<1> DEFINE e == s.extra
           bits == SubSeq(s.hold, 1, e)
           h == Dropped(e, s.hold)
           m == s.length + Num(bits)
           r == [s EXCEPT !.length = m, !.hold = h, !.mode = "DIST"]
<1>1. s \in States /\ s.hold \in Seq(Bit) /\ Len(s.hold) \in Nat
  BY LenProperties DEF SameBlock, States
<1>2. PICK k \in 1 .. 29 : s.length = LengthBase[k] /\ s.extra = LengthExtra(k)
  BY SoundParts DEF SameBlock
<1>3. s.length \in Nat /\ e \in 0 .. 5 /\ s.length + 2^e <= 259
  BY <1>2, LengthTable, ZenonT(20)
<1>4. e \in 0 .. Len(s.hold)
  BY <1>1, <1>3
<1>5. bits \in Seq(Bit) /\ Len(bits) = e
  BY <1>1, <1>4, FirstsOf
<1>6. Num(bits) \in Nat /\ Num(bits) < 2^e
  BY <1>5, NumBound
<1>7. 2^e \in Nat
  <2>1. e \in Nat
    BY <1>3
  <2> QED
    BY <2>1, PowerOf
<1>8. m \in Nat /\ m <= 258
  <2> DEFINE p == 2^e
             q == Num(bits)
  <2>1. s.length \in Nat /\ p \in Nat /\ q \in Nat /\ q < p /\ s.length + p <= 259
    BY <1>3, <1>6, <1>7
  <2> HIDE DEF p, q
  <2>2. s.length + q \in Nat /\ s.length + q <= 258
    BY <2>1
  <2> QED
    BY <2>2 DEF q
<1>9. h \in Seq(Bit) /\ Len(h) = Len(s.hold) - e
  BY <1>1, <1>4, DroppedIs
<1>10. Len(h) <= 32
  BY <1>9
<1>11. LengthWhole(s) = r
  BY DEF LengthWhole
<1>12. s.fixed \/ (s.lencode \in Codes(287) /\ s.distcode \in Codes(31))
  BY SoundParts DEF SameBlock, Coding
<1> HIDE DEF e, bits, h, m
<1>13. /\ r \in States /\ r.hold = h /\ r.mode = "DIST" /\ r.length = m
       /\ r.fixed = s.fixed /\ r.lencode = s.lencode /\ r.distcode = s.distcode
  BY <1>1, <1>8, <1>9 DEF States, Modes
<1> HIDE DEF r
<1>14. Sound(r)
  BY <1>8, <1>10, <1>12, <1>13 DEF Sound, Coding, Aligned
<1> QED
  BY <1>9, <1>11, <1>13, <1>14 DEF e, h

\* A distance with its extra bits is within dmax, or damage.
LEMMA DistWholeIs ==
  ASSUME st \in States, Sound(st), st.mode = "DISTEXT", NEW s, SameBlock(s),
         s.extra <= Len(s.hold), Len(s.hold) - s.extra <= 32
  PROVE  LET r == DistWhole(s)
         IN /\ r \in States /\ Sound(r) /\ r.mode \in {"MATCH", "BAD"}
            /\ r.hold = Dropped(s.extra, s.hold) /\ r.hold \in Seq(Bit) /\ Len(r.hold) = Len(s.hold) - s.extra
<1> DEFINE e == s.extra
           bits == SubSeq(s.hold, 1, e)
           h == Dropped(e, s.hold)
           m == s.offset + Num(bits)
           r == [s EXCEPT !.offset = m, !.hold = h]
           b == Bad(r)
           x == [r EXCEPT !.mode = "MATCH"]
<1>1. s \in States /\ s.hold \in Seq(Bit) /\ Len(s.hold) \in Nat /\ s.extra \in Nat /\ s.offset \in Nat
  BY LenProperties DEF SameBlock, States
<1>2. s.offset >= 1 /\ s.length <= 258 /\ (s.fixed \/ (s.lencode \in Codes(287) /\ s.distcode \in Codes(31)))
  BY SoundParts DEF SameBlock, Coding
<1>4. e \in 0 .. Len(s.hold)
  BY <1>1
<1>5. bits \in Seq(Bit) /\ Len(bits) = e
  BY <1>1, <1>4, FirstsOf
<1>6. Num(bits) \in Nat
  BY <1>5, NumBound
<1>8. m \in Nat /\ m >= 1
  BY <1>1, <1>2, <1>6
<1>9. h \in Seq(Bit) /\ Len(h) = Len(s.hold) - e
  BY <1>1, <1>4, DroppedIs
<1>10. Len(h) <= 32
  BY <1>9
<1>11. DistWhole(s) \in {b, x}
  BY DEF DistWhole
<1> HIDE DEF e, bits, h, m
<1>12. b \in States /\ b.hold = h /\ b.mode = "BAD"
  BY <1>1, <1>8, <1>9 DEF States, Modes, Bad
<1>13. /\ x \in States /\ x.hold = h /\ x.mode = "MATCH" /\ x.offset = m /\ x.length = s.length
       /\ x.fixed = s.fixed /\ x.lencode = s.lencode /\ x.distcode = s.distcode
  BY <1>1, <1>8, <1>9 DEF States, Modes
<1> HIDE DEF b, x
<1>14. Sound(b)
  BY <1>10, <1>12, BadIs
<1>15. Sound(x)
  BY <1>2, <1>8, <1>10, <1>13 DEF Sound, Coding, Aligned
<1> QED
  BY <1>9, <1>11, <1>12, <1>13, <1>14, <1>15 DEF e, h

\* Fewer than eight bits, and the rest as it should be.
LEMMA FewKeeps ==
  ASSUME IInv, pc = "run", UNCHANGED streamVars, NEW s, Becomes(s), s \in States, Sound(s), Len(s.hold) < 8
  PROVE  IInv'
<1>1. s.hold \in Seq(Bit)
  BY DEF States
<1>2. ~(Len(s.hold) >= 8)
  BY <1>1, LenProperties
<1>3. Lean(s)
  BY <1>2 DEF Lean
<1> QED
  BY <1>3, BecomesKeeps

\* A word that less would not have been enough for leaves less than a byte.
LEMMA OneWord ==
  ASSUME NEW n, NEW c, IsCode(c, n), NEW bits \in Seq(Bit), Known(c, bits),
         Len(bits) >= 8 => ~Known(c, SubSeq(bits, 1, Len(bits) - 8))
  PROVE  LET w == First(c, bits)
         IN Len(w) \in 0 .. Len(bits) /\ Len(bits) - Len(w) < 8 /\ c[w] \in -1 .. n /\ Len(w) \in 1 .. 15
<1> DEFINE w == First(c, bits)
           k == Len(w)
           l == Len(bits)
<1>1. l \in Nat
  BY LenProperties
<1>2. k \in 1 .. 15 /\ k <= l /\ c[w] \in -1 .. n
  BY FirstIs
<1>3. l >= 8 => k > l - 8
  <2> SUFFICES ASSUME l >= 8 PROVE k > l - 8
    OBVIOUS
  <2>1. l - 8 \in 0 .. Len(bits)
    BY <1>1
  <2> QED
    BY <2>1, FirstIsLonger
<1> HIDE DEF k, l
<1>4. k \in 0 .. l /\ l - k < 8
  BY <1>1, <1>2, <1>3
<1> QED
  BY <1>2, <1>4 DEF k, l

\* A literal, the end of a block or a length is read.
LEMMA LenCaseKeeps == ASSUME IInv, UNCHANGED streamVars, LenCase PROVE IInv'
<1> DEFINE w == First(LenCode, st.hold)
           r == LengthSymbol(st, w)
<1>1. At("LEN") /\ Becomes(r)
  BY DEF LenCase
<1>2. "LEN" # "BAD"
  OBVIOUS
<1>3. pc = "run" /\ st.mode = "LEN" /\ Enough(st, st.hold) /\ st \in States /\ Sound(st) /\ Lean(st)
  BY <1>1, <1>2, AtFinds
<1>4. LenCode = LenCodeOf(st)
  BY DEF LenCode, LenCodeOf
<1>5. IsCode(LenCode, 287)
  BY <1>3, BlockCodes DEF Coding
<1>6. Known(LenCode, st.hold) /\ (Len(st.hold) >= 8 => ~Known(LenCode, SubSeq(st.hold, 1, Len(st.hold) - 8)))
  BY <1>3, <1>4, EnoughIs DEF Lean
<1>7. st.hold \in Seq(Bit)
  BY <1>3 DEF States
<1>8. Len(w) \in 0 .. Len(st.hold) /\ Len(st.hold) - Len(w) < 8 /\ LenCode[w] \in -1 .. 287
  BY <1>5, <1>6, <1>7, OneWord
<1>9. SameBlock(st)
  BY <1>3 DEF SameBlock
<1> HIDE DEF w
<1>10. Len(st.hold) - Len(w) <= 32
  BY <1>7, <1>8, LenProperties
<1>11. r \in States /\ Sound(r) /\ Len(r.hold) = Len(st.hold) - Len(w)
  BY <1>3, <1>8, <1>9, <1>10, LengthSymbolIs
<1> HIDE DEF r
<1>12. Len(r.hold) < 8
  BY <1>8, <1>11
<1> QED
  BY <1>1, <1>3, <1>11, <1>12, FewKeeps

\* A distance is read.
LEMMA DistKeeps == ASSUME IInv, UNCHANGED streamVars, Dist PROVE IInv'
<1> DEFINE w == First(DistCode, st.hold)
           r == DistSymbol(st, w)
<1>1. At("DIST") /\ Becomes(r)
  BY DEF Dist
<1>2. "DIST" # "BAD"
  OBVIOUS
<1>3. pc = "run" /\ st.mode = "DIST" /\ Enough(st, st.hold) /\ st \in States /\ Sound(st) /\ Lean(st)
  BY <1>1, <1>2, AtFinds
<1>4. DistCode = DistCodeOf(st)
  BY DEF DistCode, DistCodeOf
<1>5. IsCode(DistCode, 31)
  BY <1>3, BlockCodes DEF Coding
<1>6. Known(DistCode, st.hold) /\ (Len(st.hold) >= 8 => ~Known(DistCode, SubSeq(st.hold, 1, Len(st.hold) - 8)))
  BY <1>3, <1>4, EnoughIs DEF Lean
<1>7. st.hold \in Seq(Bit)
  BY <1>3 DEF States
<1>8. Len(w) \in 0 .. Len(st.hold) /\ Len(st.hold) - Len(w) < 8 /\ DistCode[w] \in -1 .. 31
  BY <1>5, <1>6, <1>7, OneWord
<1>9. SameBlock(st)
  BY <1>3 DEF SameBlock
<1> HIDE DEF w
<1>10. Len(st.hold) - Len(w) <= 32
  BY <1>7, <1>8, LenProperties
<1>11. r \in States /\ Sound(r) /\ Len(r.hold) = Len(st.hold) - Len(w)
  BY <1>3, <1>8, <1>9, <1>10, DistSymbolIs
<1> HIDE DEF r
<1>12. Len(r.hold) < 8
  BY <1>8, <1>11
<1> QED
  BY <1>1, <1>3, <1>11, <1>12, FewKeeps

\* The extra bits of a length.
LEMMA LenExtKeeps == ASSUME IInv, UNCHANGED streamVars, LenExt PROVE IInv'
<1> DEFINE r == LengthWhole(st)
<1>1. At("LENEXT") /\ Becomes(r)
  BY DEF LenExt
<1>2. "LENEXT" # "BAD" /\ "LENEXT" \notin {"LEN", "DIST", "CODELENS"}
  OBVIOUS
<1>3. /\ pc = "run" /\ st.mode = "LENEXT" /\ st \in States /\ Sound(st)
      /\ Len(st.hold) \in Nat /\ Wants(st) <= Len(st.hold) /\ Len(st.hold) < Wants(st) + 8
  BY <1>1, <1>2, AtFinds
<1>4. Wants(st) = st.extra /\ st.extra \in Nat
  BY <1>3, WantsIs DEF States
<1>5. SameBlock(st)
  BY <1>3 DEF SameBlock
<1>6. Len(st.hold) - st.extra <= 32 /\ st.extra <= Len(st.hold) /\ Len(st.hold) - st.extra < 8
  BY <1>3, <1>4
<1>7. r \in States /\ Sound(r) /\ Len(r.hold) = Len(st.hold) - st.extra
  BY <1>3, <1>5, <1>6, LengthWholeIs
<1> HIDE DEF r
<1>8. Len(r.hold) < 8
  BY <1>6, <1>7
<1> QED
  BY <1>1, <1>3, <1>7, <1>8, FewKeeps

\* The extra bits of a distance.
LEMMA DistExtKeeps == ASSUME IInv, UNCHANGED streamVars, DistExt PROVE IInv'
<1> DEFINE r == DistWhole(st)
<1>1. At("DISTEXT") /\ Becomes(r)
  BY DEF DistExt
<1>2. "DISTEXT" # "BAD" /\ "DISTEXT" \notin {"LEN", "DIST", "CODELENS"}
  OBVIOUS
<1>3. /\ pc = "run" /\ st.mode = "DISTEXT" /\ st \in States /\ Sound(st)
      /\ Len(st.hold) \in Nat /\ Wants(st) <= Len(st.hold) /\ Len(st.hold) < Wants(st) + 8
  BY <1>1, <1>2, AtFinds
<1>4. Wants(st) = st.extra /\ st.extra \in Nat
  BY <1>3, WantsIs DEF States
<1>5. SameBlock(st)
  BY <1>3 DEF SameBlock
<1>6. Len(st.hold) - st.extra <= 32 /\ st.extra <= Len(st.hold) /\ Len(st.hold) - st.extra < 8
  BY <1>3, <1>4
<1>7. r \in States /\ Sound(r) /\ Len(r.hold) = Len(st.hold) - st.extra
  BY <1>3, <1>5, <1>6, DistWholeIs
<1> HIDE DEF r
<1>8. Len(r.hold) < 8
  BY <1>6, <1>7
<1> QED
  BY <1>1, <1>3, <1>7, <1>8, FewKeeps

-----------------------------------------------------------------------------
(* Output.                                                                 *)

\* A match within the output is as long as it says.
LEMMA RepeatIs ==
  ASSUME NEW B, NEW o \in Seq(B), NEW dist \in 1 .. Len(o), NEW n \in Nat
  PROVE  Repeat(o, dist, n) \in Seq(B) /\ Len(Repeat(o, dist, n)) = n
<1>1. Len(o) \in Nat /\ dist \in Nat \ {0} /\ dist <= Len(o)
  BY LenProperties
<1>2. ASSUME NEW i \in 1 .. n PROVE o[Len(o) - dist + 1 + ((i - 1) % dist)] \in B
  <2>1. (i - 1) % dist \in 0 .. dist - 1
    <3>1. i - 1 \in Nat
      BY <1>2
    <3> DEFINE j == i - 1
    <3> HIDE DEF j
    <3> QED
      BY <1>1, <3>1, Remainder DEF j
  <2> DEFINE r == (i - 1) % dist
             L == Len(o)
             p == L - dist + 1 + r
  <2>2. r \in 0 .. dist - 1
    BY <2>1
  <2> HIDE DEF r, L
  <2>3. p \in 1 .. L
    BY <1>1, <2>2 DEF L
  <2> HIDE DEF p
  <2>4. o[p] \in B
    BY <2>3, ElementOfSeq DEF L
  <2> QED
    BY <2>4 DEF p, r, L
<1> QED
  BY <1>2 DEF Repeat

\* The window's numbers.
LEMMA WindowIs ==
  ASSUME IInv
  PROVE  /\ win.size \in Nat /\ win.have \in Nat /\ win.next \in Nat /\ win.data \in Seq(Byte)
         /\ win.have <= win.size /\ win.size <= Len(win.data) /\ Len(win.data) \in Nat
         /\ win.have > 0 => win.next <= win.size
         /\ win.have > 0 /\ win.next = 0 => win.have = win.size
         /\ win.have < win.size => win.next = win.have
<1>1. win \in Windows(Byte)
  BY DEF IInv, WindowInv
<1>2. /\ win.size \in Nat /\ win.have \in Nat /\ win.next \in Nat /\ win.data \in Seq(Byte)
      /\ win.size <= Len(win.data)
  BY <1>1 DEF Windows
<1>3. /\ win.have \in 0 .. win.size
      /\ win.have < win.size => win.next = win.have
      /\ win.have = win.size /\ win.size > 0 => win.next \in 0 .. win.size - 1
  BY <1>1 DEF Windows, Shaped
<1>4. Len(win.data) \in Nat
  BY <1>2, LenProperties
<1> QED
  BY <1>2, <1>3, <1>4

\* Bytes that fit are appended.
LEMMA OutputKeeps ==
  ASSUME IInv, pc \in {"run", "fast"}, UNCHANGED streamVars, UNCHANGED <<win, call, pc, ret>>,
         NEW bytes \in Seq(Byte), Len(bytes) <= Room, Output(bytes),
         NEW t, st' = t, t \in States, Sound(t), pc = "run" /\ t.mode # "BAD" => Lean(t), FastInv'
  PROVE  IInv'
<1>1. /\ win' = win /\ call' = call /\ pc' = pc /\ ret' = ret
      /\ session' = session /\ pushed' = pushed /\ flush' = flush /\ ended' = ended /\ err' = err
      /\ chunks' = chunks /\ calls' = calls
  BY DEF streamVars
<1>2. z \in Streams /\ z.next \in Nat /\ z.next <= z.next /\ z.next <= Len(z.input)
  BY InputIs DEF IInv, StreamInv
<1>3. z' = [z EXCEPT !.next = z.next, !.output = z.output \o bytes] /\ history' = history \o bytes
  <2>1. z' = [z EXCEPT !.output = z.output \o bytes] /\ history' = history \o bytes
    BY DEF Output
  <2>2. [z EXCEPT !.output = z.output \o bytes] = [z EXCEPT !.next = z.next, !.output = z.output \o bytes]
    BY <1>2 DEF Streams
  <2> QED
    BY <2>1, <2>2
<1>4. StreamInv'
  BY <1>1, <1>2, <1>3, Moves
<1>5. WindowInv'
  BY <1>1 DEF IInv, WindowInv
<1>6. ClientInv'
  BY <1>1 DEF IInv, ClientInv
<1>7. StateInv' /\ LeanInv'
  BY <1>1 DEF StateInv, LeanInv
<1> QED
  BY <1>4, <1>5, <1>6, <1>7 DEF IInv

\* A literal is written.
LEMMA LitKeeps == ASSUME IInv, UNCHANGED streamVars, Lit PROVE IInv'
<1> DEFINE bytes == <<st.length>>
           t == [st EXCEPT !.mode = "LEN"]
<1>1. At("LIT") /\ Output(bytes) /\ st' = t /\ UNCHANGED <<win, call, pc, ret>>
  BY DEF Lit
<1>2. "LIT" # "BAD" /\ "LIT" \notin {"LEN", "DIST", "CODELENS"}
  OBVIOUS
<1>3. /\ pc = "run" /\ st.mode = "LIT" /\ st \in States /\ Sound(st) /\ ~Stuck
      /\ Len(st.hold) \in Nat /\ Wants(st) <= Len(st.hold) /\ Len(st.hold) < Wants(st) + 8
  BY <1>1, <1>2, AtFinds
<1>4. Len(st.hold) < 8 /\ Len(st.hold) <= 32
  <2>1. Wants(st) = 0
    BY <1>3, WantsIs
  <2> QED
    BY <1>3, <2>1
<1>5. bytes \in Seq(Byte) /\ Len(bytes) <= Room
  <2>1. st.length \in Byte
    BY <1>3 DEF Sound
  <2>2. Room # 0 /\ Room \in Nat
    BY <1>3, InputIs DEF Stuck, NeedsRoom
  <2>3. 1 <= Room
    BY <2>2
  <2> QED
    BY <2>1, <2>3
<1>6. st.fixed \/ (st.lencode \in Codes(287) /\ st.distcode \in Codes(31))
  BY <1>3, SoundParts DEF Coding
<1>7. /\ t \in States /\ t.hold = st.hold /\ t.mode = "LEN"
      /\ t.fixed = st.fixed /\ t.lencode = st.lencode /\ t.distcode = st.distcode
  BY <1>3 DEF States, Modes
<1> HIDE DEF t, bytes
<1>8. Sound(t) /\ Lean(t)
  <2>1. ~(Len(st.hold) >= 8)
    BY <1>3, <1>4
  <2> QED
    BY <1>4, <1>6, <1>7, <2>1 DEF Sound, Lean, Aligned
<1>9. FastInv'
  BY <1>1, <1>3 DEF FastInv
<1> QED
  BY <1>1, <1>3, <1>5, <1>7, <1>8, <1>9, OutputKeeps

\* Bytes of the window.
LEMMA SegmentIs ==
  ASSUME IInv, NEW from \in Nat, NEW n \in Nat, from + n <= Len(win.data)
  PROVE  Segment(from, n) \in Seq(Byte) /\ Len(Segment(from, n)) = n
<1> DEFINE a == from + 1
           b == from + n
<1>1. win.data \in Seq(Byte) /\ Len(win.data) \in Nat
  BY WindowIs
<1>2. a \in Nat \ {0} /\ b \in 0 .. Len(win.data)
  BY <1>1
<1>3. (IF a <= b THEN b - a + 1 ELSE 0) = n
  OBVIOUS
<1>4. Segment(from, n) = SubSeq(win.data, a, b)
  BY DEF Segment
<1> HIDE DEF a, b
<1> QED
  BY <1>1, <1>2, <1>3, <1>4, PartOf

\* What a match may change of the state: its rest is shorter.
LEMMA MatchLeft ==
  ASSUME st \in States, Sound(st), st.mode = "MATCH", Len(st.hold) < 8, NEW n \in Nat, n <= st.length, NEW m \in {"LEN", "MATCH"}
  PROVE  LET t == [st EXCEPT !.length = st.length - n, !.mode = m]
         IN t \in States /\ Sound(t) /\ Lean(t)
<1> DEFINE l == st.length - n
           t == [st EXCEPT !.length = l, !.mode = m]
<1>1. st.length \in Nat /\ st.length <= 258 /\ st.offset >= 1
  BY DEF States, Sound
<1>2. l \in Nat /\ l <= 258
  BY <1>1
<1>3. st.fixed \/ (st.lencode \in Codes(287) /\ st.distcode \in Codes(31))
  BY SoundParts DEF Coding
<1>4. Len(st.hold) <= 32 /\ ~(Len(st.hold) >= 8)
  <2>1. st.hold \in Seq(Bit)
    BY DEF States
  <2> QED
    BY <2>1, LenProperties
<1> HIDE DEF l
<1>5. /\ t \in States /\ t.hold = st.hold /\ t.mode = m /\ t.length = l /\ t.offset = st.offset
      /\ t.fixed = st.fixed /\ t.lencode = st.lencode /\ t.distcode = st.distcode
  BY <1>2 DEF States, Modes
<1> HIDE DEF t
<1>6. Sound(t)
  BY <1>1, <1>2, <1>3, <1>4, <1>5 DEF Sound, Aligned
<1>7. Lean(t)
  BY <1>4, <1>5 DEF Lean
<1> QED
  BY <1>5, <1>6, <1>7 DEF t, l

\* Where a match begins: as far behind this call's output as its offset reaches beyond it.
LEMMA MatchFinds ==
  ASSUME IInv, pc \in {"run", "fast"}, st.mode = "MATCH"
  PROVE  LET back == st.offset - Len(Written)
         IN /\ back \in Int /\ st.length \in Nat /\ st.length <= 258
            /\ back <= 0 => st.offset \in 1 .. Len(z.output)
<1> DEFINE n == Len(Written)
<1>1. n \in Nat /\ n = Len(z.output) - call.out0
  BY WrittenIs
<1>2. st.offset \in Nat /\ st.length \in Nat /\ st.offset >= 1 /\ st.length <= 258
  <2>1. st \in States /\ Sound(st)
    BY DEF IInv, StateInv
  <2>2. st.offset \in Nat /\ st.length \in Nat
    BY <2>1 DEF States
  <2> QED
    BY <2>1, <2>2 DEF Sound
<1>3. Len(z.output) \in Nat /\ call.out0 \in Nat
  BY InputIs
<1> HIDE DEF n
<1>4. st.offset - n \in Int /\ (st.offset - n <= 0 => st.offset \in 1 .. Len(z.output))
  BY <1>1, <1>2, <1>3
<1> QED
  BY <1>2, <1>4 DEF n

\* A match is written piece by piece, from the window or from the output.
LEMMA MatchMoves ==
  ASSUME IInv, pc = "run", st.mode = "MATCH", st.offset - Len(Written) <= win.have
  PROVE  LET back  == st.offset - Len(Written)
             piece == IF back <= 0 THEN st.length ELSE IF back > win.next THEN back - win.next ELSE back
             from  == IF back > win.next THEN win.size - (back - win.next) ELSE win.next - back
             copy  == CHOOSE n \in {piece, st.length, Room} : n <= piece /\ n <= st.length /\ n <= Room
             bytes == IF back <= 0 THEN Repeat(z.output, st.offset, copy) ELSE Segment(from, copy)
         IN /\ copy \in Nat /\ copy <= st.length
            /\ bytes \in Seq(Byte) /\ Len(bytes) <= Room
<1> DEFINE back == st.offset - Len(Written)
           piece == IF back <= 0 THEN st.length ELSE IF back > win.next THEN back - win.next ELSE back
           from  == IF back > win.next THEN win.size - (back - win.next) ELSE win.next - back
           copy  == CHOOSE n \in {piece, st.length, Room} : n <= piece /\ n <= st.length /\ n <= Room
           bytes == IF back <= 0 THEN Repeat(z.output, st.offset, copy) ELSE Segment(from, copy)
<1>1. back \in Int /\ st.length \in Nat /\ (back <= 0 => st.offset \in 1 .. Len(z.output))
  BY MatchFinds
<1>2. /\ win.size \in Nat /\ win.have \in Nat /\ win.next \in Nat /\ Len(win.data) \in Nat
      /\ win.have <= win.size /\ win.size <= Len(win.data) /\ (win.have > 0 => win.next <= win.size)
  BY WindowIs
<1>3. Room \in Nat /\ z.output \in Seq(Byte)
  BY InputIs
<1>4. back <= win.have
  OBVIOUS
<1> HIDE DEF back
<1>5. piece \in Nat
  BY <1>1, <1>2
<1>6. copy \in Nat /\ copy <= piece /\ copy <= st.length /\ copy <= Room
  <2> HIDE DEF piece
  <2>1. \E n \in {piece, st.length, Room} : n <= piece /\ n <= st.length /\ n <= Room
    BY <1>1, <1>3, <1>5
  <2>2. copy \in {piece, st.length, Room} /\ copy <= piece /\ copy <= st.length /\ copy <= Room
    BY <2>1
  <2> HIDE DEF copy
  <2> QED
    BY <1>1, <1>3, <1>5, <2>2
<1> HIDE DEF copy
<1>7. bytes \in Seq(Byte) /\ Len(bytes) = copy
  <2>1. CASE back <= 0
    <3>1. bytes = Repeat(z.output, st.offset, copy)
      BY <2>1
    <3> HIDE DEF bytes
    <3> QED
      BY <1>1, <1>3, <1>6, <2>1, <3>1, RepeatIs
  <2>2. CASE ~(back <= 0)
    <3>1. bytes = Segment(from, copy)
      BY <2>2
    <3>2. from \in Nat /\ from + copy <= Len(win.data)
      BY <1>1, <1>2, <1>4, <1>6, <2>2, SMTT(20)
    <3> HIDE DEF bytes, from
    <3> QED
      BY <1>6, <3>1, <3>2, SegmentIs
  <2> QED
    BY <2>1, <2>2
<1>8. Len(bytes) <= Room
  BY <1>6, <1>7
<1> QED
  BY <1>6, <1>7, <1>8 DEF back, copy

\* A piece of a match is written; one that reaches too far back is damage.
LEMMA MatchKeeps == ASSUME IInv, UNCHANGED streamVars, Match PROVE IInv'
<1> DEFINE back == st.offset - Len(Written)
           piece == IF back <= 0 THEN st.length ELSE IF back > win.next THEN back - win.next ELSE back
           from  == IF back > win.next THEN win.size - (back - win.next) ELSE win.next - back
           copy  == CHOOSE n \in {piece, st.length, Room} : n <= piece /\ n <= st.length /\ n <= Room
           bytes == IF back <= 0 THEN Repeat(z.output, st.offset, copy) ELSE Segment(from, copy)
           m     == IF st.length = copy THEN "LEN" ELSE "MATCH"
           t     == [st EXCEPT !.length = st.length - copy, !.mode = m]
           b     == Bad(st)
<1>1. At("MATCH")
  BY DEF Match
<1>2. "MATCH" # "BAD" /\ "MATCH" \notin {"LEN", "DIST", "CODELENS"}
  OBVIOUS
<1>3. /\ pc = "run" /\ st.mode = "MATCH" /\ st \in States /\ Sound(st) /\ ~Stuck
      /\ Len(st.hold) \in Nat /\ Wants(st) <= Len(st.hold) /\ Len(st.hold) < Wants(st) + 8
  BY <1>1, <1>2, AtFinds
<1>4. Len(st.hold) < 8
  <2>1. Wants(st) = 0
    BY <1>3, WantsIs
  <2> QED
    BY <1>3, <2>1
<1>5. /\ back > win.have => Becomes(b)
      /\ ~(back > win.have) => Output(bytes) /\ st' = t /\ UNCHANGED <<win, call, pc, ret>>
  BY <1>3 DEF Match
<1>6. back \in Int /\ st.length \in Nat /\ (back <= 0 => st.offset \in 1 .. Len(z.output))
  BY <1>3, MatchFinds
<1>7. CASE back > win.have
  <2>1. b \in States /\ Len(b.hold) <= 32 /\ b.mode = "BAD"
    BY <1>3, HoldFits DEF States, Modes, Bad
  <2>2. Becomes(b)
    BY <1>5, <1>7
  <2> HIDE DEF b
  <2> QED
    BY <1>3, <2>1, <2>2, BadKeeps
<1>8. CASE ~(back > win.have)
  <2>1. back <= win.have
    <3>1. win.have \in Nat
      BY WindowIs
    <3> HIDE DEF back
    <3> QED
      BY <1>6, <1>8, <3>1
  <2>2. copy \in Nat /\ copy <= st.length /\ bytes \in Seq(Byte) /\ Len(bytes) <= Room
    BY <1>3, <2>1, MatchMoves
  <2>3. Output(bytes) /\ st' = t /\ UNCHANGED <<win, call, pc, ret>>
    BY <1>5, <1>8
  <2> HIDE DEF back, copy
  <2>7. m \in {"LEN", "MATCH"}
    OBVIOUS
  <2> HIDE DEF bytes, m
  <2>8. t \in States /\ Sound(t) /\ Lean(t)
    BY <1>3, <1>4, <2>2, <2>7, MatchLeft
  <2> HIDE DEF t
  <2>9. FastInv'
    BY <1>3, <2>3 DEF FastInv
  <2> QED
    BY <1>3, <2>2, <2>3, <2>8, <2>9, OutputKeeps
<1> QED
  BY <1>7, <1>8

-----------------------------------------------------------------------------
(* The trailer.                                                            *)

\* The check value is compared.
LEMMA CheckKeeps == ASSUME IInv, UNCHANGED streamVars, Check PROVE IInv'
<1>1. /\ pc = "run" /\ st \in States /\ st.mode = "CHECK" /\ Len(st.hold) = Wants(st) /\ (Wants(st) = 0 => st.hold = <<>>)
  BY AtFinds DEF Check, Aligned
<1>2. CASE st.wrap = {}
  <2> DEFINE s == [st EXCEPT !.mode = "LENGTH"]
  <2>1. st.hold = <<>>
    BY <1>1, <1>2, WantsIs
  <2>2. s \in States /\ s.hold = <<>> /\ s.mode \notin Coding \cup {"LENLENS", "CODELENS"}
    BY <1>1, <2>1, NoBits DEF States, Modes, Coding
  <2>3. Becomes(s)
    BY <1>2 DEF Check
  <2> HIDE DEF s
  <2> QED
    BY <1>1, <2>2, <2>3, PlainKeeps
<1>3. CASE st.wrap # {}
  <2> DEFINE n == st.total + Len(Written)
             c == IF Written = <<>> THEN st.check ELSE Update(st.check, Written)
             s == [st EXCEPT !.total = n, !.check = c]
             b == Bad(s)
             t == [s EXCEPT !.hold = <<>>, !.mode = "LENGTH"]
             o == Len(z.output)
             y == [call EXCEPT !.out0 = o]
  <2>1. /\ st' \in {b, t} /\ call' = y /\ z' = z /\ win' = win /\ pc' = pc /\ ret' = ret /\ history' = history
        /\ session' = session /\ pushed' = pushed /\ flush' = flush /\ ended' = ended /\ err' = err
        /\ chunks' = chunks /\ calls' = calls
    BY <1>3 DEF Check, streamVars
  <2>2. Written \in Seq(Byte) /\ Len(Written) \in Nat
    BY <1>1, WrittenIs
  <2>3. n \in Nat /\ c \in Check32
    BY <1>1, <2>2, UpdateIs DEF States
  <2>4. o \in Nat /\ call \in Calls
    BY InputIs DEF IInv, StreamInv
  <2> HIDE DEF n, c
  <2>5. b \in States /\ b.hold = st.hold /\ b.mode = "BAD"
    BY <1>1, <2>3 DEF States, Modes, Bad
  <2>6. t \in States /\ t.hold = <<>> /\ t.mode = "LENGTH"
    BY <1>1, <2>3, NoBits DEF States, Modes
  <2>7. Sound(b)
    BY <2>5, HoldFits, BadIs
  <2> HIDE DEF s, b, t
  <2>8. Sound(t) /\ Lean(t)
    <3>1. Len(t.hold) < 8
      BY <2>6, EmptySeq
    <3> QED
      BY <2>6, <3>1, PlainIs DEF Coding
  <2>9. StreamInv'
    <3>1. y \in Calls /\ y.in0 = call.in0 /\ y.out0 = o
      <4> HIDE DEF o
      <4> QED
        BY <2>4 DEF Calls
    <3>2. o <= Len(z.output)
      BY <2>4
    <3> HIDE DEF o, y
    <3> QED
      BY <1>1, <2>1, <3>1, <3>2 DEF IInv, StreamInv
  <2>10. WindowInv'
    BY <2>1 DEF IInv, WindowInv
  <2>11. ClientInv'
    BY <2>1 DEF IInv, ClientInv
  <2>12. StateInv' /\ LeanInv'
    BY <2>1, <2>5, <2>6, <2>7, <2>8 DEF StateInv, LeanInv
  <2>13. FastInv'
    BY <1>1, <2>1 DEF FastInv
  <2> QED
    BY <2>9, <2>10, <2>11, <2>12, <2>13 DEF IInv
<1> QED
  BY <1>2, <1>3

\* The length of a gzip member is compared.
LEMMA LengthKeeps == ASSUME IInv, UNCHANGED streamVars, Length PROVE IInv'
<1> DEFINE h == IF st.wrap # {} /\ Gzip THEN <<>> ELSE st.hold
           s == [st EXCEPT !.hold = h, !.mode = "DONE"]
           b == Bad(st)
<1>1. /\ pc = "run" /\ st \in States /\ st.mode = "LENGTH" /\ (Wants(st) = 0 => st.hold = <<>>)
  BY AtFinds DEF Length, Aligned
<1>2. Becomes(b) \/ Becomes(s)
  BY DEF Length
<1>3. h = <<>>
  BY <1>1, WantsIs DEF Gzip
<1> HIDE DEF h
<1>4. s \in States /\ s.hold = <<>> /\ s.mode \notin Coding \cup {"LENLENS", "CODELENS"}
  BY <1>1, <1>3, NoBits DEF States, Modes, Coding
<1>5. b \in States /\ Len(b.hold) <= 32 /\ b.mode = "BAD"
  BY <1>1, HoldFits DEF States, Modes, Bad
<1> HIDE DEF s, b
<1>6. CASE Becomes(b)
  BY <1>1, <1>5, <1>6, BadKeeps
<1>7. CASE Becomes(s)
  BY <1>1, <1>4, <1>7, PlainKeeps
<1> QED
  BY <1>2, <1>6, <1>7

-----------------------------------------------------------------------------
(* inflate_fast.                                                           *)

\* The fast loop is entered with input and room for a whole round.
LEMMA EnterFastKeeps == ASSUME IInv, UNCHANGED streamVars, EnterFast PROVE IInv'
<1>1. /\ pc = "run" /\ pc' = "fast" /\ st.mode = "LEN" /\ Have >= 6 /\ Room >= MAXMATCH
      /\ st' = st /\ z' = z /\ win' = win /\ call' = call /\ ret' = ret /\ history' = history
      /\ session' = session /\ pushed' = pushed /\ flush' = flush /\ ended' = ended /\ err' = err
      /\ chunks' = chunks /\ calls' = calls
  BY DEF EnterFast, FastEligible, streamVars
<1>2. Lean(st)
  BY <1>1 DEF IInv, LeanInv
<1>3. StreamInv'
  BY <1>1 DEF IInv, StreamInv
<1>4. WindowInv'
  BY <1>1 DEF IInv, WindowInv
<1>5. ClientInv'
  BY <1>1 DEF IInv, ClientInv
<1>6. StateInv'
  BY <1>1 DEF IInv, StateInv
<1>7. LeanInv'
  BY <1>1 DEF LeanInv
<1>8. FastInv'
  <2>1. GoOn'
    BY <1>1 DEF GoOn, Have, Room
  <2> QED
    BY <1>1, <1>2, <2>1 DEF FastInv, Coding
<1> QED
  BY <1>3, <1>4, <1>5, <1>6, <1>7, <1>8 DEF IInv

\* The bits of n bytes that are there.
LEMMA BytesRead ==
  ASSUME IInv, NEW n \in {0, 1, 2}, n <= Have
  PROVE  LET bits == Concat([i \in 1 .. n |-> BitsOf(8, ByteAt(z.next + i))])
         IN bits \in Seq(Bit) /\ Len(bits) = 8 * n
<1> DEFINE x(i) == BitsOf(8, ByteAt(z.next + i))
           b == Concat([i \in 1 .. n |-> x(i)])
<1>1. \A i \in {1, 2} : x(i) \in Seq(Bit) /\ Len(x(i)) = 8
  <2> SUFFICES ASSUME NEW i \in {1, 2} PROVE x(i) \in Seq(Bit) /\ Len(x(i)) = 8
    OBVIOUS
  <2>1. ByteAt(z.next + i) \in Nat
    <3> DEFINE p == z.next + i
    <3>1. z.input \in Seq(Byte) /\ Len(z.input) \in Nat /\ p \in Nat \ {0}
      BY InputIs
    <3> HIDE DEF p
    <3>2. p <= Len(z.input) => z.input[p] \in Byte
      BY <3>1, ElementOfSeq
    <3>3. \A v \in Byte : v \in Nat
      BY DEF Byte
    <3>4. ByteAt(p) \in Nat
      BY <3>2, <3>3 DEF ByteAt
    <3> QED
      BY <3>4 DEF p
  <2> QED
    BY <2>1, BitsOfNumber
<1> HIDE DEF x
<1> DEFINE none == <<>>
           one == Append(none, x(1))
           two == Append(one, x(2))
<1>2. none \in Seq(Seq(Bit)) /\ Concat(none) = <<>> /\ none \in Seq(Bit) /\ Len(none) = 0
  BY ConcatNone, EmptySeq
<1>3. one \in Seq(Seq(Bit)) /\ Concat(one) = <<>> \o x(1)
  <2>1. x(1) \in Seq(Bit)
    BY <1>1
  <2> HIDE DEF none
  <2> QED
    BY <1>2, <2>1, ConcatMore
<1>4. Concat(one) \in Seq(Bit) /\ Len(Concat(one)) = 8
  <2>1. x(1) \in Seq(Bit) /\ Len(x(1)) = 8
    BY <1>1
  <2>2. <<>> \o x(1) = x(1)
    BY <2>1, ConcatEmptySeq
  <2> QED
    BY <1>3, <2>1, <2>2
<1>5. Concat(two) = Concat(one) \o x(2)
  <2>1. x(2) \in Seq(Bit)
    BY <1>1
  <2> HIDE DEF one
  <2> QED
    BY <1>3, <2>1, ConcatMore
<1>6. Concat(two) \in Seq(Bit) /\ Len(Concat(two)) = 16
  <2>1. x(2) \in Seq(Bit) /\ Len(x(2)) = 8
    BY <1>1
  <2> HIDE DEF one, two
  <2>2. Concat(one) \o x(2) \in Seq(Bit) /\ Len(Concat(one) \o x(2)) = Len(Concat(one)) + Len(x(2))
    BY <1>4, <2>1, ConcatProperties
  <2> QED
    BY <1>4, <1>5, <2>1, <2>2
<1>7. CASE n = 0
  <2>1. [i \in 1 .. n |-> x(i)] = none
    BY <1>7
  <2>2. 8 * n = 0
    BY <1>7
  <2>3. Concat(none) \in Seq(Bit) /\ Len(Concat(none)) = 0
    BY <1>2
  <2> HIDE DEF none
  <2> QED
    BY <2>1, <2>2, <2>3 DEF x
<1>8. CASE n = 1
  <2>1. [i \in 1 .. n |-> x(i)] = one
    BY <1>8
  <2> HIDE DEF one
  <2> QED
    BY <1>4, <1>8, <2>1 DEF x
<1>9. CASE n = 2
  <2>1. [i \in 1 .. n |-> x(i)] = two
    BY <1>9
  <2> HIDE DEF two
  <2> QED
    BY <1>6, <1>9, <2>1 DEF x
<1> QED
  BY <1>7, <1>8, <1>9

\* The state with the bytes read.
LEMMA ReadIs ==
  ASSUME IInv, NEW n \in {0, 1, 2}, n <= Have
  PROVE  LET s == [st EXCEPT !.hold = st.hold \o Concat([i \in 1 .. n |-> BitsOf(8, ByteAt(z.next + i))])]
         IN /\ SameBlock(s) /\ s.hold \in Seq(Bit) /\ Len(s.hold) = Len(st.hold) + 8 * n
            /\ Len(s.hold) \in Nat /\ Len(st.hold) \in Nat /\ Len(st.hold) <= 32
            /\ \A m \in 0 .. Len(st.hold) : SubSeq(s.hold, 1, m) = SubSeq(st.hold, 1, m)
<1> DEFINE bits == Concat([i \in 1 .. n |-> BitsOf(8, ByteAt(z.next + i))])
           h == st.hold \o bits
           s == [st EXCEPT !.hold = h]
<1>1. bits \in Seq(Bit) /\ Len(bits) = 8 * n
  BY BytesRead
<1> HIDE DEF bits
<1>2. st \in States /\ st.hold \in Seq(Bit) /\ Len(st.hold) <= 32
  BY HoldFits
<1>3. h \in Seq(Bit) /\ Len(h) = Len(st.hold) + 8 * n
  <2>1. h \in Seq(Bit) /\ Len(h) = Len(st.hold) + Len(bits)
    BY <1>1, <1>2, ConcatProperties
  <2> QED
    BY <1>1, <2>1
<1>4. \A m \in 0 .. Len(st.hold) : SubSeq(h, 1, m) = SubSeq(st.hold, 1, m)
  BY <1>1, <1>2
<1>5. Len(h) \in Nat /\ Len(st.hold) \in Nat
  BY <1>2, <1>3, LenProperties
<1> HIDE DEF h
<1>6. s \in States /\ s.hold = h
  BY <1>2, <1>3 DEF States
<1>7. SameBlock(s)
  BY <1>2, <1>6 DEF SameBlock, States
<1> HIDE DEF s
<1> QED
  BY <1>2, <1>3, <1>4, <1>5, <1>6, <1>7 DEF s, h, bits

\* What a case of the loop must leave behind.
LEMMA ReadingKeeps ==
  ASSUME IInv, pc = "fast", UNCHANGED streamVars, UNCHANGED <<win, call, pc, ret, history>>,
         NEW n \in {0, 1, 2}, n <= Have, z' = [z EXCEPT !.next = z.next + n],
         NEW t, st' = t, t \in States, Sound(t),
         t.mode \in Coding \cup {"TYPE", "BAD"},
         Len(t.hold) < 8 * (z.next + n - call.in0) + 8,
         t.mode \in Coding \ {"LEN"} => Room >= MAXMATCH,
         t.mode = "LENEXT" => 8 * (Have - n) + Len(t.hold) >= 33,
         t.mode = "DIST" => 8 * (Have - n) + Len(t.hold) >= 28,
         t.mode = "DISTEXT" => 8 * (Have - n) + Len(t.hold) >= 13
  PROVE  IInv'
<1> DEFINE m == z.next + n
           y == [z EXCEPT !.next = m]
<1>1. /\ win' = win /\ call' = call /\ pc' = pc /\ ret' = ret /\ history' = history
      /\ session' = session /\ pushed' = pushed /\ flush' = flush /\ ended' = ended /\ err' = err
      /\ chunks' = chunks /\ calls' = calls /\ z' = y
  BY DEF streamVars
<1>2. m \in Nat /\ m <= Len(z.input) /\ z.next <= m
  <2> DEFINE a == z.next
             l == Len(z.input)
             h == Have
  <2>1. a \in Nat /\ l \in Nat /\ h = l - a /\ n <= h /\ n \in Nat
    BY InputIs
  <2> HIDE DEF a, l, h
  <2>2. a + n \in Nat /\ a + n <= l /\ a <= a + n
    BY <2>1
  <2> QED
    BY <2>2 DEF a, l
<1>3. y \in Streams /\ y.input = z.input /\ y.output = z.output /\ y.next = m
  <2>1. z \in Streams
    BY DEF IInv, StreamInv
  <2> HIDE DEF m
  <2> QED
    BY <1>2, <2>1 DEF Streams
<1>4. Have' = Have - n /\ Room' = Room
  <2>1. Have' = Len(z.input) - m /\ Room' = CHUNK - Len(z.output)
    BY <1>1, <1>3 DEF Have, Room
  <2> QED
    BY <2>1, InputIs, SMTT(20)
<1> HIDE DEF y
<1>5. StreamInv'
  <2>1. call.in0 <= m
    BY <1>2, InputIs DEF IInv, StreamInv
  <2> HIDE DEF m
  <2> QED
    BY <1>1, <1>2, <1>3, <2>1 DEF IInv, StreamInv
<1>6. WindowInv'
  BY <1>1 DEF IInv, WindowInv
<1>7. ClientInv'
  BY <1>1 DEF IInv, ClientInv
<1>8. StateInv' /\ LeanInv'
  BY <1>1 DEF StateInv, LeanInv
<1>9. FastInv'
  <2>1. z'.next = z.next + n /\ call'.in0 = call.in0 /\ st' = t
    BY <1>1, <1>3
  <2>2. Len(st'.hold) < 8 * (z'.next - call'.in0) + 8
    <3> DEFINE a == z'.next
               b == call'.in0
               l == Len(st'.hold)
    <3>1. a = z.next + n /\ b = call.in0 /\ l = Len(t.hold)
      BY <2>1
    <3> HIDE DEF a, b, l
    <3>2. z.next \in Nat /\ call.in0 \in Nat /\ n \in Nat
      BY InputIs
    <3>3. l < 8 * (a - b) + 8
      BY <3>1, <3>2
    <3> QED
      BY <3>3 DEF a, b, l
  <2>3. st'.mode \in Coding \cup {"TYPE", "BAD"} /\ (st'.mode \in Coding \ {"LEN"} => Room' >= MAXMATCH)
    BY <1>4, <2>1
  <2>4. /\ st'.mode = "LENEXT" => 8 * Have' + Len(st'.hold) >= 33
        /\ st'.mode = "DIST" => 8 * Have' + Len(st'.hold) >= 28
        /\ st'.mode = "DISTEXT" => 8 * Have' + Len(st'.hold) >= 13
    BY <1>4, <2>1
  <2> QED
    BY <2>2, <2>3, <2>4 DEF FastInv
<1> QED
  BY <1>5, <1>6, <1>7, <1>8, <1>9 DEF IInv

\* What the loop finds.
LEMMA FastFinds ==
  ASSUME IInv, NEW mode, Fast(mode)
  PROVE  /\ pc = "fast" /\ st.mode = mode /\ st \in States /\ Sound(st)
         /\ z.next \in Nat /\ call.in0 \in Nat /\ call.in0 <= z.next /\ Have \in Nat /\ Room \in Nat
         /\ Len(st.hold) \in Nat /\ Len(st.hold) <= 32 /\ st.hold \in Seq(Bit)
         /\ \/ Len(st.hold) < 8 * (z.next - call.in0) + 8
            \/ mode = "LEN" /\ GoOn /\ Lean(st)
         /\ mode \in Coding \ {"LEN"} => Room >= MAXMATCH
         /\ mode = "LENEXT" => 8 * Have + Len(st.hold) >= 33
         /\ mode = "DIST" => 8 * Have + Len(st.hold) >= 28
         /\ mode = "DISTEXT" => 8 * Have + Len(st.hold) >= 13
<1>1. pc = "fast" /\ st.mode = mode
  BY DEF Fast
<1>2. st \in States /\ Sound(st) /\ FastInv
  BY DEF IInv, StateInv
<1>3. st.hold \in Seq(Bit) /\ Len(st.hold) <= 32
  BY HoldFits
<1>4. Len(st.hold) \in Nat
  BY <1>3, LenProperties
<1>5. z.next \in Nat /\ call.in0 \in Nat /\ Have \in Nat /\ Room \in Nat
  BY InputIs
<1>6. call.in0 <= z.next
  BY <1>1 DEF IInv, StreamInv
<1> QED
  BY <1>1, <1>2, <1>3, <1>4, <1>5, <1>6 DEF FastInv

\* The loop reads a symbol: two bytes at most, which are there.
LEMMA FastLenKeeps == ASSUME IInv, UNCHANGED streamVars, FastLen PROVE IInv'
<1> DEFINE n == ForCode
           s == [st EXCEPT !.hold = st.hold \o Concat([i \in 1 .. n |-> BitsOf(8, ByteAt(z.next + i))])]
           w == First(LenCode, s.hold)
           r == LengthSymbol(s, w)
           k == Len(w)
           l == Len(st.hold)
           read == z.next - call.in0
<1>1. /\ z' = [z EXCEPT !.next = z.next + n] /\ st' = r /\ UNCHANGED <<win, call, pc, ret, history>>
      /\ Fast("LEN") /\ GoOn
  BY DEF FastLen, Reading
<1>2. /\ pc = "fast" /\ st.mode = "LEN" /\ st \in States /\ Sound(st)
      /\ z.next \in Nat /\ call.in0 \in Nat /\ call.in0 <= z.next /\ Have \in Nat /\ Room \in Nat
      /\ l \in Nat /\ l <= 32
      /\ l < 8 * (z.next - call.in0) + 8 \/ Lean(st)
  BY <1>1, FastFinds
<1>3. n \in {0, 1, 2} /\ n <= Have /\ (n = 0 => l >= 15) /\ (n # 0 => n = 2 /\ l < 15)
  BY <1>1, <1>2 DEF ForCode, GoOn
<1>4. /\ SameBlock(s) /\ s.hold \in Seq(Bit) /\ Len(s.hold) = l + 8 * n
      /\ \A m \in 0 .. l : SubSeq(s.hold, 1, m) = SubSeq(st.hold, 1, m)
  BY <1>3, ReadIs
<1>5. IsCode(LenCode, 287)
  BY <1>2, BlockCodes DEF Coding
<1> HIDE DEF n, s
<1>6. Known(LenCode, s.hold)
  <2>1. Len(s.hold) >= 15
    <3> DEFINE m == Len(s.hold)
    <3>1. l \in Nat /\ (n = 0 => l >= 15) /\ (n # 0 => n = 2) /\ m = l + 8 * n
      BY <1>2, <1>3, <1>4
    <3> HIDE DEF l, m
    <3>2. m >= 15
      BY <3>1
    <3> QED
      BY <3>2 DEF m
  <2> QED
    BY <1>4, <1>5, <2>1 DEF IsCode
<1>7. k \in 1 .. 15 /\ k <= Len(s.hold) /\ LenCode[w] \in -1 .. 287
  BY <1>4, <1>5, <1>6, FirstIs
<1>8. Lean(st) /\ l >= 8 => k > l - 8
  <2> SUFFICES ASSUME Lean(st), l >= 8 PROVE k > l - 8
    OBVIOUS
  <2>1. l - 8 \in 0 .. l /\ l - 8 \in 0 .. Len(s.hold)
    <3> DEFINE m == Len(s.hold)
    <3>1. l \in Nat /\ n \in {0, 1, 2} /\ m = l + 8 * n /\ l >= 8
      BY <1>2, <1>3, <1>4
    <3> HIDE DEF l, m
    <3>2. l - 8 \in 0 .. l /\ l - 8 \in 0 .. m
      BY <3>1
    <3> QED
      BY <3>2 DEF m
  <2>2. ~Known(LenCodeOf(st), SubSeq(st.hold, 1, l - 8))
    BY <1>2, EnoughIs DEF Lean
  <2>3. LenCodeOf(st) = LenCode
    BY DEF LenCodeOf, LenCode
  <2>4. ~Known(LenCode, SubSeq(s.hold, 1, l - 8))
    BY <1>4, <2>1, <2>2, <2>3
  <2> HIDE DEF l
  <2> QED
    BY <1>4, <1>5, <1>6, <2>1, <2>4, FirstIsLonger
<1> HIDE DEF w, k, l
<1>9. k \in 0 .. l + 8 * n /\ l + 8 * n - k <= 32
  BY <1>2, <1>3, <1>4, <1>7
<1>10. r \in States /\ Sound(r) /\ r.mode \in {"BAD", "TYPE", "LIT", "LENEXT"} /\ Len(r.hold) = l + 8 * n - k
  <2>1. Len(w) \in 0 .. Len(s.hold) /\ Len(s.hold) - Len(w) <= 32
    <3> DEFINE m == Len(s.hold)
    <3>1. m = l + 8 * n
      BY <1>4
    <3> HIDE DEF m
    <3>2. k \in 0 .. m /\ m - k <= 32
      BY <1>2, <1>3, <1>7, <1>9, <3>1
    <3> QED
      BY <3>2 DEF m, k
  <2>2. r \in States /\ Sound(r) /\ r.mode \in {"BAD", "TYPE", "LIT", "LENEXT"} /\ Len(r.hold) = Len(s.hold) - Len(w)
    BY <1>2, <1>4, <1>7, <2>1, LengthSymbolIs
  <2> DEFINE m == Len(s.hold)
             p == Len(r.hold)
  <2>3. m = l + 8 * n
    BY <1>4
  <2> HIDE DEF r
  <2>4. p = m - k
    BY <2>2 DEF k
  <2> HIDE DEF m, p
  <2>5. p = l + 8 * n - k
    BY <1>2, <1>3, <1>7, <2>3, <2>4
  <2> QED
    BY <2>2, <2>5 DEF p
<1> HIDE DEF r
<1>11. l + 8 * n - k < 8 * (z.next + n - call.in0) + 8
  <2>1. CASE l < 8 * (z.next - call.in0) + 8
    BY <1>2, <1>3, <1>7, <2>1, SMTT(20)
  <2>2. CASE Lean(st) /\ l >= 8
    BY <1>2, <1>3, <1>7, <1>8, <2>2
  <2>3. CASE l < 8
    BY <1>2, <1>3, <1>7, <2>3
  <2> QED
    BY <1>2, <2>1, <2>2, <2>3
<1>12. Room >= MAXMATCH /\ 8 * (Have - n) + (l + 8 * n - k) >= 33
  <2>1. Have >= 6 /\ Room >= MAXMATCH
    BY <1>1 DEF GoOn
  <2> QED
    BY <1>2, <1>3, <1>7, <2>1
<1>13. r.mode \in Coding \cup {"TYPE", "BAD"} /\ r.mode \notin {"DIST", "DISTEXT"}
  BY <1>10 DEF Coding
<1> QED
  BY <1>1, <1>2, <1>3, <1>10, <1>11, <1>12, <1>13, ReadingKeeps

\* The loop reads a distance's symbol: what the length left suffices.
LEMMA FastDistKeeps == ASSUME IInv, UNCHANGED streamVars, FastDist PROVE IInv'
<1> DEFINE n == ForCode
           s == [st EXCEPT !.hold = st.hold \o Concat([i \in 1 .. n |-> BitsOf(8, ByteAt(z.next + i))])]
           w == First(DistCode, s.hold)
           r == DistSymbol(s, w)
           k == Len(w)
           l == Len(st.hold)
<1>1. /\ z' = [z EXCEPT !.next = z.next + n] /\ st' = r /\ UNCHANGED <<win, call, pc, ret, history>>
      /\ Fast("DIST")
  BY DEF FastDist, Reading
<1>2. /\ pc = "fast" /\ st.mode = "DIST" /\ st \in States /\ Sound(st)
      /\ z.next \in Nat /\ call.in0 \in Nat /\ call.in0 <= z.next /\ Have \in Nat /\ Room \in Nat
      /\ l \in Nat /\ l <= 32
      /\ l < 8 * (z.next - call.in0) + 8 /\ Room >= MAXMATCH /\ 8 * Have + l >= 28
  BY <1>1, FastFinds DEF Coding
<1>3. n \in {0, 1, 2} /\ n <= Have /\ (n = 0 => l >= 15) /\ (n # 0 => n = 2 /\ l < 15)
  BY <1>1, <1>2, SMTT(20) DEF ForCode
<1>4. SameBlock(s) /\ s.hold \in Seq(Bit) /\ Len(s.hold) = l + 8 * n
  BY <1>3, ReadIs
<1>5. IsCode(DistCode, 31)
  BY <1>2, BlockCodes DEF Coding
<1> HIDE DEF n, s
<1>6. Known(DistCode, s.hold)
  <2>1. Len(s.hold) >= 15
    <3> DEFINE m == Len(s.hold)
    <3>1. l \in Nat /\ (n = 0 => l >= 15) /\ (n # 0 => n = 2) /\ m = l + 8 * n
      BY <1>2, <1>3, <1>4
    <3> HIDE DEF l, m
    <3>2. m >= 15
      BY <3>1
    <3> QED
      BY <3>2 DEF m
  <2> QED
    BY <1>4, <1>5, <2>1 DEF IsCode
<1>7. k \in 1 .. 15 /\ k <= Len(s.hold) /\ DistCode[w] \in -1 .. 31
  BY <1>4, <1>5, <1>6, FirstIs
<1> HIDE DEF w, k, l
<1>9. k \in 0 .. l + 8 * n /\ l + 8 * n - k <= 32
  BY <1>2, <1>3, <1>4, <1>7
<1>10. r \in States /\ Sound(r) /\ r.mode \in {"BAD", "DISTEXT"} /\ Len(r.hold) = l + 8 * n - k
  <2>1. Len(w) \in 0 .. Len(s.hold) /\ Len(s.hold) - Len(w) <= 32
    <3> DEFINE m == Len(s.hold)
    <3>1. m = l + 8 * n
      BY <1>4
    <3> HIDE DEF m
    <3>2. k \in 0 .. m /\ m - k <= 32
      BY <1>2, <1>3, <1>7, <1>9, <3>1
    <3> QED
      BY <3>2 DEF m, k
  <2>2. r \in States /\ Sound(r) /\ r.mode \in {"BAD", "DISTEXT"} /\ Len(r.hold) = Len(s.hold) - Len(w)
    BY <1>2, <1>4, <1>7, <2>1, DistSymbolIs
  <2> DEFINE m == Len(s.hold)
             p == Len(r.hold)
  <2>3. m = l + 8 * n
    BY <1>4
  <2> HIDE DEF r
  <2>4. p = m - k
    BY <2>2 DEF k
  <2> HIDE DEF m, p
  <2>5. p = l + 8 * n - k
    BY <1>2, <1>3, <1>7, <2>3, <2>4
  <2> QED
    BY <2>2, <2>5 DEF p
<1> HIDE DEF r
<1>11. l + 8 * n - k < 8 * (z.next + n - call.in0) + 8
  BY <1>2, <1>3, <1>7, SMTT(20)
<1>12. Room >= MAXMATCH /\ 8 * (Have - n) + (l + 8 * n - k) >= 13
  BY <1>2, <1>3, <1>7
<1>13. r.mode \in Coding \cup {"TYPE", "BAD"} /\ r.mode \notin {"DIST", "LENEXT"}
  BY <1>10 DEF Coding
<1> QED
  BY <1>1, <1>2, <1>3, <1>10, <1>11, <1>12, <1>13, ReadingKeeps

\* As many bytes as it takes to have e bits.
LEMMA ForBitsIs ==
  ASSUME NEW e \in 0 .. 13, Len(st.hold) \in Nat, Len(st.hold) <= 32, NEW h \in Nat, 8 * h + Len(st.hold) >= e
  PROVE  /\ ForBits(e) \in {0, 1, 2} /\ ForBits(e) <= h
         /\ e <= Len(st.hold) + 8 * ForBits(e) /\ Len(st.hold) + 8 * ForBits(e) <= 32
<1> DEFINE l == Len(st.hold)
<1>1. l \in Nat /\ l <= 32 /\ 8 * h + l >= e
  OBVIOUS
<1>2. ForBits(e) = IF l >= e THEN 0 ELSE IF l + 8 >= e THEN 1 ELSE 2
  BY DEF ForBits
<1> HIDE DEF l
<1>3. ForBits(e) \in {0, 1, 2} /\ ForBits(e) <= h /\ e <= l + 8 * ForBits(e) /\ l + 8 * ForBits(e) <= 32
  <2>1. CASE l >= e
    <3>1. ForBits(e) = 0
      BY <1>2, <2>1
    <3> QED
      BY <1>1, <2>1, <3>1
  <2>2. CASE ~(l >= e) /\ l + 8 >= e
    <3>1. ForBits(e) = 1
      BY <1>2, <2>2
    <3> QED
      BY <1>1, <2>2, <3>1
  <2>3. CASE ~(l >= e) /\ ~(l + 8 >= e)
    <3>1. ForBits(e) = 2
      BY <1>2, <2>3
    <3> QED
      BY <1>1, <2>3, <3>1
  <2> QED
    BY <2>1, <2>2, <2>3
<1> QED
  BY <1>3 DEF l

\* The loop reads the extra bits of a length.
LEMMA FastLenExtKeeps == ASSUME IInv, UNCHANGED streamVars, FastLenExt PROVE IInv'
<1> DEFINE e == st.extra
           n == ForBits(e)
           s == [st EXCEPT !.hold = st.hold \o Concat([i \in 1 .. n |-> BitsOf(8, ByteAt(z.next + i))])]
           r == LengthWhole(s)
           l == Len(st.hold)
<1>1. /\ z' = [z EXCEPT !.next = z.next + n] /\ st' = r /\ UNCHANGED <<win, call, pc, ret, history>>
      /\ Fast("LENEXT")
  BY DEF FastLenExt, Reading
<1>2. /\ pc = "fast" /\ st.mode = "LENEXT" /\ st \in States /\ Sound(st)
      /\ z.next \in Nat /\ call.in0 \in Nat /\ call.in0 <= z.next /\ Have \in Nat /\ Room \in Nat
      /\ l \in Nat /\ l <= 32
      /\ l < 8 * (z.next - call.in0) + 8 /\ Room >= MAXMATCH /\ 8 * Have + l >= 33
  BY <1>1, FastFinds DEF Coding
<1>3. e \in 0 .. 5 /\ e \in 0 .. 13
  <2>1. PICK k \in 1 .. 29 : st.extra = LengthExtra(k)
    BY <1>2, SoundParts
  <2>2. e \in 0 .. 5
    BY <2>1, LengthTable
  <2> HIDE DEF e
  <2> QED
    BY <2>2
<1>4. n \in {0, 1, 2} /\ n <= Have /\ e <= l + 8 * n /\ l + 8 * n <= 32
  <2> HIDE DEF e, l
  <2>1. 8 * Have + l >= e
    BY <1>2, <1>3
  <2>2. Len(st.hold) \in Nat /\ Len(st.hold) <= 32 /\ 8 * Have + Len(st.hold) >= e
    BY <1>2, <2>1 DEF l
  <2> QED
    BY <1>2, <1>3, <2>2, ForBitsIs DEF l
<1>5. SameBlock(s) /\ Len(s.hold) = l + 8 * n
  BY <1>4, ReadIs
<1>6. s.extra = e
  BY <1>5 DEF SameBlock
<1> HIDE DEF e, n, s, l
<1>7. r \in States /\ Sound(r) /\ r.mode = "DIST" /\ Len(r.hold) = l + 8 * n - e
  <2>1. s.extra <= Len(s.hold) /\ Len(s.hold) - s.extra <= 32
    <3> DEFINE m == Len(s.hold)
    <3>1. m = l + 8 * n
      BY <1>5
    <3> HIDE DEF m
    <3>2. e <= m /\ m - e <= 32
      BY <1>2, <1>3, <1>4, <3>1
    <3> QED
      BY <1>6, <3>2 DEF m
  <2>2. r \in States /\ Sound(r) /\ r.mode = "DIST" /\ Len(r.hold) = Len(s.hold) - s.extra
    BY <1>2, <1>5, <2>1, LengthWholeIs
  <2> DEFINE m == Len(s.hold)
             p == Len(r.hold)
  <2>3. m = l + 8 * n
    BY <1>5
  <2> HIDE DEF r
  <2>4. p = m - e
    BY <1>6, <2>2
  <2> HIDE DEF m, p
  <2>5. p = l + 8 * n - e
    BY <1>2, <1>3, <1>4, <2>3, <2>4
  <2> QED
    BY <2>2, <2>5 DEF p
<1> HIDE DEF r
<1>8. l + 8 * n - e < 8 * (z.next + n - call.in0) + 8
  BY <1>2, <1>3, <1>4
<1>9. 8 * (Have - n) + (l + 8 * n - e) >= 28
  BY <1>2, <1>3, <1>4
<1>10. r.mode \in Coding \cup {"TYPE", "BAD"} /\ r.mode \notin {"DISTEXT", "LENEXT"}
  BY <1>7 DEF Coding
<1> QED
  BY <1>1, <1>2, <1>4, <1>7, <1>8, <1>9, <1>10, ReadingKeeps

\* The loop reads the extra bits of a distance.
LEMMA FastDistExtKeeps == ASSUME IInv, UNCHANGED streamVars, FastDistExt PROVE IInv'
<1> DEFINE e == st.extra
           n == ForBits(e)
           s == [st EXCEPT !.hold = st.hold \o Concat([i \in 1 .. n |-> BitsOf(8, ByteAt(z.next + i))])]
           r == DistWhole(s)
           l == Len(st.hold)
<1>1. /\ z' = [z EXCEPT !.next = z.next + n] /\ st' = r /\ UNCHANGED <<win, call, pc, ret, history>>
      /\ Fast("DISTEXT")
  BY DEF FastDistExt, Reading
<1>2. /\ pc = "fast" /\ st.mode = "DISTEXT" /\ st \in States /\ Sound(st)
      /\ z.next \in Nat /\ call.in0 \in Nat /\ call.in0 <= z.next /\ Have \in Nat /\ Room \in Nat
      /\ l \in Nat /\ l <= 32
      /\ l < 8 * (z.next - call.in0) + 8 /\ Room >= MAXMATCH /\ 8 * Have + l >= 13
  BY <1>1, FastFinds DEF Coding
<1>3. e \in 0 .. 13
  <2>1. e \in Nat
    BY <1>2 DEF States
  <2>2. e <= 13
    BY <1>2, SoundParts
  <2> QED
    BY <2>1, <2>2
<1>4. n \in {0, 1, 2} /\ n <= Have /\ e <= l + 8 * n /\ l + 8 * n <= 32
  <2> HIDE DEF e, l
  <2>1. 8 * Have + l >= e
    BY <1>2, <1>3
  <2>2. Len(st.hold) \in Nat /\ Len(st.hold) <= 32 /\ 8 * Have + Len(st.hold) >= e
    BY <1>2, <2>1 DEF l
  <2> QED
    BY <1>2, <1>3, <2>2, ForBitsIs DEF l
<1>5. SameBlock(s) /\ Len(s.hold) = l + 8 * n
  BY <1>4, ReadIs
<1>6. s.extra = e
  BY <1>5 DEF SameBlock
<1> HIDE DEF e, n, s, l
<1>7. r \in States /\ Sound(r) /\ r.mode \in {"MATCH", "BAD"} /\ Len(r.hold) = l + 8 * n - e
  <2>1. s.extra <= Len(s.hold) /\ Len(s.hold) - s.extra <= 32
    <3> DEFINE m == Len(s.hold)
    <3>1. m = l + 8 * n
      BY <1>5
    <3> HIDE DEF m
    <3>2. e <= m /\ m - e <= 32
      BY <1>2, <1>3, <1>4, <3>1
    <3> QED
      BY <1>6, <3>2 DEF m
  <2>2. r \in States /\ Sound(r) /\ r.mode \in {"MATCH", "BAD"} /\ Len(r.hold) = Len(s.hold) - s.extra
    BY <1>2, <1>5, <2>1, DistWholeIs
  <2> DEFINE m == Len(s.hold)
             p == Len(r.hold)
  <2>3. m = l + 8 * n
    BY <1>5
  <2> HIDE DEF r
  <2>4. p = m - e
    BY <1>6, <2>2
  <2> HIDE DEF m, p
  <2>5. p = l + 8 * n - e
    BY <1>2, <1>3, <1>4, <2>3, <2>4
  <2> QED
    BY <2>2, <2>5 DEF p
<1> HIDE DEF r
<1>8. l + 8 * n - e < 8 * (z.next + n - call.in0) + 8
  BY <1>2, <1>3, <1>4
<1>10. r.mode \in Coding \cup {"TYPE", "BAD"} /\ r.mode \notin {"DIST", "DISTEXT", "LENEXT"}
  BY <1>7 DEF Coding
<1> QED
  BY <1>1, <1>2, <1>4, <1>7, <1>8, <1>10, ReadingKeeps

\* What the loop leaves as it is when it writes: it is before the next length again.
LEMMA FastWrote ==
  ASSUME IInv, NEW mode \in {"LIT", "MATCH"}, Fast(mode), NEW t, t \in States, t.hold = st.hold, t.mode = "LEN",
         st' = t, z'.next = z.next, UNCHANGED <<call, pc>>
  PROVE  FastInv'
<1>1. pc = "fast" /\ Len(st.hold) < 8 * (z.next - call.in0) + 8
  BY FastFinds
<1>2. Len(st'.hold) < 8 * (z'.next - call'.in0) + 8 /\ st'.mode = "LEN"
  <2>1. st'.hold = st.hold /\ z'.next = z.next /\ call'.in0 = call.in0
    OBVIOUS
  <2> QED
    BY <1>1, <2>1
<1> QED
  BY <1>2 DEF FastInv, Coding

\* The loop writes a literal.
LEMMA FastLitKeeps == ASSUME IInv, UNCHANGED streamVars, FastLit PROVE IInv'
<1> DEFINE bytes == <<st.length>>
           t == [st EXCEPT !.mode = "LEN"]
<1>1. Fast("LIT") /\ Output(bytes) /\ st' = t /\ UNCHANGED <<win, call, pc, ret>>
  BY DEF FastLit
<1>2. /\ pc = "fast" /\ st.mode = "LIT" /\ st \in States /\ Sound(st) /\ Room \in Nat /\ Room >= MAXMATCH
  BY <1>1, FastFinds DEF Coding
<1>3. bytes \in Seq(Byte) /\ Len(bytes) <= Room
  <2>1. st.length \in Byte
    BY <1>2 DEF Sound
  <2>2. 1 <= Room
    BY <1>2, InflateAssumption
  <2> QED
    BY <2>1, <2>2
<1>4. st.fixed \/ (st.lencode \in Codes(287) /\ st.distcode \in Codes(31))
  BY <1>2, SoundParts DEF Coding
<1>5. /\ t \in States /\ t.hold = st.hold /\ t.mode = "LEN"
      /\ t.fixed = st.fixed /\ t.lencode = st.lencode /\ t.distcode = st.distcode
  BY <1>2 DEF States, Modes
<1>6. z'.next = z.next
  <2>1. z \in Streams
    BY DEF IInv, StreamInv
  <2> QED
    BY <1>1, <2>1 DEF Output, Streams
<1> HIDE DEF t, bytes
<1>7. Sound(t)
  BY <1>4, <1>5, HoldFits DEF Sound, Aligned
<1>8. FastInv'
  BY <1>1, <1>5, <1>6, FastWrote
<1> QED
  BY <1>1, <1>2, <1>3, <1>5, <1>7, <1>8, OutputKeeps

\* The window's part of a match is as long as the match reaches back into the window.
LEMMA FromWindowIs ==
  ASSUME IInv, NEW back \in Nat \ {0}, back <= win.have
  PROVE  FromWindow(back) \in Seq(Byte) /\ Len(FromWindow(back)) = back
<1>1. /\ win.size \in Nat /\ win.have \in Nat /\ win.next \in Nat
      /\ win.have <= win.size /\ win.size <= Len(win.data) /\ Len(win.data) \in Nat
      /\ win.next <= win.size
      /\ win.next = 0 => win.have = win.size
  BY WindowIs
<1>2. CASE win.next = 0
  <2>1. FromWindow(back) = Segment(win.size - back, back)
    BY <1>2 DEF FromWindow
  <2> DEFINE a == win.size - back
  <2>2. a \in Nat /\ a + back <= Len(win.data) /\ back \in Nat
    BY <1>1
  <2> HIDE DEF a
  <2>3. Segment(a, back) \in Seq(Byte) /\ Len(Segment(a, back)) = back
    BY <2>2, SegmentIs
  <2> QED
    BY <2>1, <2>3 DEF a
<1>3. CASE win.next # 0 /\ win.next < back
  <2> DEFINE a == win.size + win.next - back
             n == back - win.next
             m == win.next
             o == 0
  <2>1. FromWindow(back) = Segment(a, n) \o Segment(o, m)
    BY <1>3 DEF FromWindow
  <2>2. a \in Nat /\ n \in Nat /\ a + n <= Len(win.data) /\ m \in Nat /\ o \in Nat /\ o + m <= Len(win.data) /\ n + m = back
    BY <1>1, <1>3, SMTT(20)
  <2> HIDE DEF a, n, m, o
  <2>3. Segment(a, n) \in Seq(Byte) /\ Len(Segment(a, n)) = n
    BY <2>2, SegmentIs
  <2>4. Segment(o, m) \in Seq(Byte) /\ Len(Segment(o, m)) = m
    BY <2>2, SegmentIs
  <2>5. Segment(a, n) \o Segment(o, m) \in Seq(Byte) /\ Len(Segment(a, n) \o Segment(o, m)) = Len(Segment(a, n)) + Len(Segment(o, m))
    BY <2>3, <2>4, ConcatProperties
  <2> QED
    BY <2>1, <2>2, <2>3, <2>4, <2>5
<1>4. CASE win.next # 0 /\ ~(win.next < back)
  <2>1. FromWindow(back) = Segment(win.next - back, back)
    BY <1>4 DEF FromWindow
  <2> DEFINE a == win.next - back
  <2>2. a \in Nat /\ a + back <= Len(win.data) /\ back \in Nat
    BY <1>1, <1>4
  <2> HIDE DEF a
  <2>3. Segment(a, back) \in Seq(Byte) /\ Len(Segment(a, back)) = back
    BY <2>2, SegmentIs
  <2> QED
    BY <2>1, <2>3 DEF a
<1> QED
  BY <1>2, <1>3, <1>4

\* A whole match at once.
WholeMatch == LET back == st.offset - Len(Written)
              IN IF back <= 0 THEN Repeat(z.output, st.offset, st.length)
                 ELSE IF back >= st.length THEN SubSeq(FromWindow(back), 1, st.length)
                 ELSE FromWindow(back) \o Repeat(z.output \o FromWindow(back), st.offset, st.length - back)

\* A match that the loop copies at once is as long as it says.
LEMMA WholeMatchIs ==
  ASSUME IInv, Fast("MATCH"), st.offset - Len(Written) <= win.have
  PROVE  WholeMatch \in Seq(Byte) /\ Len(WholeMatch) = st.length
<1> DEFINE back == st.offset - Len(Written)
           from == FromWindow(back)
           o == z.output \o from
           rest == st.length - back
           again == Repeat(o, st.offset, rest)
<1>1. pc = "fast" /\ st.mode = "MATCH" /\ st \in States /\ Sound(st)
  BY FastFinds
<1>2. back \in Int /\ st.length \in Nat /\ (back <= 0 => st.offset \in 1 .. Len(z.output))
  BY <1>1, MatchFinds
<1>3. z.output \in Seq(Byte) /\ Len(z.output) \in Nat
  BY InputIs
<1>4. /\ st.offset \in Nat /\ st.offset >= 1
      /\ st.offset - back <= Len(z.output)
  <2>1. st.offset \in Nat /\ st.offset >= 1
    BY <1>1 DEF States, Sound
  <2>2. Len(Written) \in Nat /\ Len(Written) = Len(z.output) - call.out0 /\ call.out0 \in Nat
    BY <1>1, WrittenIs, InputIs
  <2> DEFINE n == Len(Written)
             l == Len(z.output)
  <2>3. st.offset - (st.offset - n) <= l
    <3>1. n \in Nat /\ l \in Nat /\ n = l - call.out0
      BY <1>3, <2>2
    <3> HIDE DEF n, l
    <3> QED
      BY <2>1, <2>2, <3>1
  <2> QED
    BY <2>1, <2>3
<1>5. WholeMatch = IF back <= 0 THEN Repeat(z.output, st.offset, st.length)
                   ELSE IF back >= st.length THEN SubSeq(from, 1, st.length) ELSE from \o again
  BY DEF WholeMatch
<1>6. back <= win.have
  OBVIOUS
<1> HIDE DEF back
<1>7. CASE back <= 0
  <2>1. WholeMatch = Repeat(z.output, st.offset, st.length)
    BY <1>5, <1>7
  <2> QED
    BY <1>2, <1>3, <1>7, <2>1, RepeatIs
<1>8. CASE ~(back <= 0)
  <2>1. back \in Nat \ {0}
    BY <1>2, <1>8
  <2>2. from \in Seq(Byte) /\ Len(from) = back
    BY <1>6, <2>1, FromWindowIs
  <2> HIDE DEF from
  <2>3. CASE back >= st.length
    <3>1. WholeMatch = SubSeq(from, 1, st.length)
      BY <1>5, <1>8, <2>3
    <3>2. st.length \in 0 .. Len(from)
      BY <1>2, <2>1, <2>2, <2>3
    <3> QED
      BY <2>2, <3>1, <3>2, FirstsOf
  <2>4. CASE ~(back >= st.length)
    <3>1. WholeMatch = from \o again
      BY <1>5, <1>8, <2>4
    <3>2. o \in Seq(Byte) /\ Len(o) = Len(z.output) + Len(from)
      BY <1>3, <2>2, ConcatProperties
    <3> DEFINE l == Len(o)
               l0 == Len(z.output)
    <3>3. l = l0 + back /\ l0 \in Nat
      BY <1>3, <2>2, <3>2
    <3>4. st.offset \in 1 .. l /\ rest \in Nat /\ back + rest = st.length
      <4>1. st.offset - back <= l0
        BY <1>4
      <4> HIDE DEF l, l0
      <4> QED
        BY <1>2, <1>4, <2>1, <2>4, <3>3, <4>1
    <3> HIDE DEF o, rest
    <3>5. again \in Seq(Byte) /\ Len(again) = rest
      <4>1. st.offset \in 1 .. Len(o)
        BY <3>4
      <4> QED
        BY <3>2, <3>4, <4>1, RepeatIs
    <3> HIDE DEF again
    <3>6. from \o again \in Seq(Byte) /\ Len(from \o again) = Len(from) + Len(again)
      BY <2>2, <3>5, ConcatProperties
    <3> QED
      BY <2>2, <3>1, <3>4, <3>5, <3>6
  <2> QED
    BY <2>3, <2>4
<1> QED
  BY <1>7, <1>8

\* The loop writes a match, which is 258 bytes at most and so fits.
LEMMA FastMatchKeeps == ASSUME MAXMATCH >= 258, IInv, UNCHANGED streamVars, FastMatch PROVE IInv'
<1> DEFINE back == st.offset - Len(Written)
           t == [st EXCEPT !.mode = "LEN"]
           b == Bad(st)
<1>1. /\ Fast("MATCH")
      /\ back > win.have => Becomes(b)
      /\ ~(back > win.have) => Output(WholeMatch) /\ st' = t /\ UNCHANGED <<win, call, pc, ret>>
  BY DEF FastMatch, WholeMatch
<1>2. /\ pc = "fast" /\ st.mode = "MATCH" /\ st \in States /\ Sound(st) /\ Room \in Nat /\ Room >= MAXMATCH
      /\ z.next \in Nat /\ Have \in Nat
      /\ Len(st.hold) < 8 * (z.next - call.in0) + 8
  BY <1>1, FastFinds DEF Coding
<1>3. back \in Int /\ st.length \in Nat /\ st.length <= 258
  BY <1>2, MatchFinds
<1>4. win.have \in Nat
  BY WindowIs
<1>5. CASE back > win.have
  <2>1. b \in States /\ b.hold = st.hold /\ Len(b.hold) <= 32 /\ b.mode = "BAD"
    BY <1>2, HoldFits DEF States, Modes, Bad
  <2>2. /\ st' = b /\ z' = z /\ win' = win /\ call' = call /\ pc' = pc /\ ret' = ret /\ history' = history
        /\ session' = session /\ pushed' = pushed /\ flush' = flush /\ ended' = ended /\ err' = err
        /\ chunks' = chunks /\ calls' = calls
    BY <1>1, <1>5 DEF Becomes, streamVars
  <2> HIDE DEF b
  <2>3. Sound(b)
    BY <2>1, BadIs
  <2>4. StreamInv'
    BY <2>2 DEF IInv, StreamInv
  <2>5. WindowInv'
    BY <2>2 DEF IInv, WindowInv
  <2>6. ClientInv'
    BY <2>2 DEF IInv, ClientInv
  <2>7. StateInv' /\ LeanInv'
    BY <2>1, <2>2, <2>3 DEF StateInv, LeanInv
  <2>8. FastInv'
    <3>1. Len(st'.hold) < 8 * (z'.next - call'.in0) + 8
      BY <1>2, <2>1, <2>2
    <3> QED
      BY <2>1, <2>2, <3>1 DEF FastInv, Coding
  <2> QED
    BY <2>4, <2>5, <2>6, <2>7, <2>8 DEF IInv
<1>6. CASE ~(back > win.have)
  <2>1. Output(WholeMatch) /\ st' = t /\ UNCHANGED <<win, call, pc, ret>>
    BY <1>1, <1>6
  <2>2. back <= win.have
    <3> HIDE DEF back
    <3> QED
      BY <1>3, <1>4, <1>6
  <2>3. WholeMatch \in Seq(Byte) /\ Len(WholeMatch) = st.length
    BY <1>1, <2>2, WholeMatchIs
  <2>4. Len(WholeMatch) <= Room
    <3>1. MAXMATCH \in Nat
      BY InflateAssumption
    <3>2. st.length <= Room
      BY <1>2, <1>3, <3>1
    <3> QED
      BY <2>3, <3>2
  <2>5. st.fixed \/ (st.lencode \in Codes(287) /\ st.distcode \in Codes(31))
    BY <1>2, SoundParts DEF Coding
  <2>6. /\ t \in States /\ t.hold = st.hold /\ t.mode = "LEN"
        /\ t.fixed = st.fixed /\ t.lencode = st.lencode /\ t.distcode = st.distcode
    BY <1>2 DEF States, Modes
  <2>7. z'.next = z.next
    <3>1. z \in Streams
      BY DEF IInv, StreamInv
    <3> HIDE DEF t
    <3> QED
      BY <2>1, <3>1 DEF Output, Streams
  <2> HIDE DEF t
  <2>8. Sound(t)
    BY <2>5, <2>6, HoldFits DEF Sound, Aligned
  <2>9. FastInv'
    BY <1>1, <2>1, <2>6, <2>7, FastWrote
  <2> QED
    BY <1>2, <2>1, <2>3, <2>4, <2>6, <2>8, <2>9, OutputKeeps
<1> QED
  BY <1>5, <1>6

\* Whole bytes that are still in hold go back: they were read in this call.
LEMMA LeaveFastKeeps == ASSUME IInv, UNCHANGED streamVars, LeaveFast PROVE IInv'
<1> DEFINE l == Len(st.hold)
           n == l \div 8
           r == l % 8
           h == SubSeq(st.hold, 1, r)
           t == [st EXCEPT !.hold = h]
           m == z.next - n
           y == [z EXCEPT !.next = m]
<1>1. /\ pc = "fast" /\ z' = y /\ st' = t /\ pc' = "run" /\ win' = win /\ call' = call /\ ret' = ret /\ history' = history
      /\ session' = session /\ pushed' = pushed /\ flush' = flush /\ ended' = ended /\ err' = err
      /\ chunks' = chunks /\ calls' = calls
      /\ st.mode \in {"TYPE", "BAD"} \/ (st.mode = "LEN" /\ ~GoOn)
  BY DEF LeaveFast, streamVars
<1>2. /\ st \in States /\ Sound(st) /\ l \in Nat /\ st.hold \in Seq(Bit)
      /\ z.next \in Nat /\ call.in0 \in Nat /\ call.in0 <= z.next
      /\ l < 8 * (z.next - call.in0) + 8
  <2>1. Fast(st.mode)
    BY <1>1 DEF Fast
  <2>2. ~(st.mode = "LEN" /\ GoOn /\ Lean(st))
    BY <1>1
  <2> QED
    BY <2>1, <2>2, FastFinds
<1>3. r \in 0 .. 7 /\ n \in Nat /\ l = 8 * n + r
  <2> HIDE DEF l
  <2> QED
    BY <1>2
<1> HIDE DEF n, r
<1>4. m \in Nat /\ call.in0 <= m /\ m <= z.next
  <2> HIDE DEF l
  <2> QED
    BY <1>2, <1>3, SMTT(20)
<1>5. h \in Seq(Bit) /\ Len(h) = r
  <2>1. r \in 0 .. Len(st.hold)
    <3>1. r \in 0 .. l
      <4> HIDE DEF l
      <4> QED
        BY <1>2, <1>3
    <3> QED
      BY <3>1
  <2> QED
    BY <1>2, <2>1, FirstsOf
<1>6. Len(h) <= 32 /\ ~(Len(h) >= 8)
  BY <1>3, <1>5
<1> HIDE DEF h
<1>7. /\ t \in States /\ t.hold = h /\ t.mode = st.mode
      /\ t.fixed = st.fixed /\ t.lencode = st.lencode /\ t.distcode = st.distcode
  BY <1>2, <1>5 DEF States
<1>8. st.mode = "LEN" => st.fixed \/ (st.lencode \in Codes(287) /\ st.distcode \in Codes(31))
  BY <1>2, SoundParts DEF Coding
<1> HIDE DEF t
<1>9. Sound(t) /\ Lean(t)
  BY <1>1, <1>6, <1>7, <1>8 DEF Sound, Lean, Coding, Aligned
<1>10. y \in Streams /\ y.input = z.input /\ y.output = z.output /\ y.next = m
  <2>1. z \in Streams
    BY DEF IInv, StreamInv
  <2> HIDE DEF m
  <2> QED
    BY <1>4, <2>1 DEF Streams
<1> HIDE DEF y
<1>11. StreamInv'
  <2>1. m <= Len(z.input)
    BY <1>2, <1>4, InputIs
  <2> HIDE DEF m
  <2> QED
    BY <1>1, <1>4, <1>10, <2>1 DEF IInv, StreamInv
<1>12. WindowInv'
  BY <1>1 DEF IInv, WindowInv
<1>13. ClientInv'
  BY <1>1 DEF IInv, ClientInv
<1>14. StateInv' /\ LeanInv'
  BY <1>1, <1>7, <1>9 DEF StateInv, LeanInv
<1>15. FastInv'
  BY <1>1 DEF FastInv
<1> QED
  BY <1>11, <1>12, <1>13, <1>14, <1>15 DEF IInv

-----------------------------------------------------------------------------
(* Every step of inflate keeps the invariant.                              *)

\* The ways out of a call that pass inf_leave.
LEMMA OutKeeps == ASSUME IInv, UNCHANGED streamVars, Starve \/ Done \/ Damaged PROVE IInv'
<1>1. CASE Starve
  <2>1. pc = "run" /\ Leave("OK")
    BY <1>1 DEF Starve
  <2> QED
    BY <2>1, LeaveKeeps
<1>2. CASE Done
  <2>1. pc = "run" /\ Leave("STREAM_END")
    BY <1>2 DEF Done, At
  <2> QED
    BY <2>1, LeaveKeeps
<1>3. CASE Damaged
  <2>1. pc = "run" /\ Leave("DATA_ERROR")
    BY <1>3 DEF Damaged, At
  <2> QED
    BY <2>1, LeaveKeeps
<1> QED
  BY <1>1, <1>2, <1>3

\* inflate and inflate_fast.
LEMMA InflatingKeeps == ASSUME MAXMATCH >= 258, IInv, UNCHANGED streamVars, Inflating PROVE IInv'
<1>1. CASE Pull \/ Starve \/ Done \/ Damaged
  BY <1>1, PullKeeps, OutKeeps
<1>2. CASE MagicOrHeader \/ Flags \/ Time \/ Os \/ ExLen
  BY <1>2, HeaderKeeps, FlagsKeeps, TimeKeeps, OsKeeps, ExLenKeeps
<1>3. CASE Extra \/ Name \/ Comment \/ HCrc \/ DictId \/ Dict
  BY <1>3, ExtraKeeps, NameKeeps, CommentKeeps, HCrcKeeps, DictIdKeeps, DictKeeps
<1>4. CASE Block \/ Stored \/ Copy \/ TableSizes \/ LenLens \/ CodeLens
  BY <1>4, BlockKeeps, StoredKeeps, CopyKeeps, TableSizesKeeps, LenLensKeeps, CodeLensKeeps
<1>5. CASE LenCase \/ LenExt \/ Dist \/ DistExt \/ Match \/ Lit
  BY <1>5, LenCaseKeeps, LenExtKeeps, DistKeeps, DistExtKeeps, MatchKeeps, LitKeeps
<1>6. CASE EnterFast \/ FastLen \/ FastLenExt \/ FastDist \/ FastDistExt
  BY <1>6, EnterFastKeeps, FastLenKeeps, FastLenExtKeeps, FastDistKeeps, FastDistExtKeeps
<1>7. CASE FastLit \/ FastMatch \/ LeaveFast \/ Check \/ Length
  BY <1>7, FastLitKeeps, FastMatchKeeps, LeaveFastKeeps, CheckKeeps, LengthKeeps
<1> QED
  BY <1>1, <1>2, <1>3, <1>4, <1>5, <1>6, <1>7 DEF Inflating

-----------------------------------------------------------------------------
(* The steps of push and of its caller.                                    *)

\* What the options of a session are.
LEMMA SessionIs ==
  ASSUME IInv
  PROVE  /\ session.raw \in BOOLEAN /\ session.bits \in -15 .. 47 /\ session.dictionary \in Seq(Byte)
         /\ session.bytes \in Seq(Byte) /\ session.flush \in FlushModes
         /\ session.flush = "SYNC_FLUSH" =>
              session.cuts \subseteq 1 .. Len(session.bytes)
              /\ (session.bytes # <<>> => Len(session.bytes) \in session.cuts)
         /\ Len(session.bytes) \in Nat /\ pushed \in Nat /\ pushed <= Len(session.bytes)
<1>1. session \in Sessions /\ pushed \in 0 .. Len(session.bytes)
  BY DEF IInv, ClientInv
<1>2. session.bytes \in Seq(Byte)
  BY <1>1, SessionAssumption
<1>3. Len(session.bytes) \in Nat
  BY <1>2, LenProperties
<1>4. pushed \in Nat /\ pushed <= Len(session.bytes)
  BY <1>1, <1>3
<1> QED
  BY <1>1, <1>2, <1>3, <1>4, SessionAssumption DEF FlushModes

\* A piece is part of what is left of the stream.
LEMMA PieceFits ==
  ASSUME IInv, Remaining > 0, NEW n \in NextPieces
  PROVE  n \in Nat /\ pushed + n \in Nat /\ pushed + n <= Len(session.bytes)
<1> DEFINE len == Len(session.bytes)
           T == {c \in session.cuts : c > pushed}
           least(c) == c \in session.cuts /\ c > pushed /\ \A d \in session.cuts : d > pushed => c <= d
<1>1. len \in Nat /\ pushed \in Nat /\ pushed <= len /\ Remaining = len - pushed
  BY SessionIs DEF Remaining
<1>2. CASE session.flush = "SYNC_FLUSH"
  <2>1. len > pushed
    <3> HIDE DEF len
    <3> QED
      BY <1>1
  <2>2. session.bytes # <<>>
    BY <1>1, <2>1, EmptySeq
  <2>3. session.cuts \subseteq 1 .. len /\ len \in session.cuts
    BY <1>2, <2>2, SessionIs
  <2> HIDE DEF len
  <2>4. T \in SUBSET Nat /\ len \in T
    BY <1>1, <2>1, <2>3
  <2>5. PICK x \in T : \A y \in T : x <= y
    BY <2>4, LeastNumber
  <2>6. least(x)
    BY <2>5
  <2> DEFINE c == CHOOSE e \in session.cuts : e > pushed /\ \A d \in session.cuts : d > pushed => e <= d
  <2>7. c \in session.cuts /\ c > pushed
    BY <2>6
  <2>8. n = c - pushed
    BY <1>2 DEF NextPieces
  <2> HIDE DEF c
  <2>9. c \in 1 .. len
    BY <2>3, <2>7
  <2> QED
    BY <1>1, <2>7, <2>8, <2>9 DEF len
<1>3. CASE session.flush # "SYNC_FLUSH"
  <2>1. (n \in Pieces /\ n <= Remaining) \/ n = Remaining
    BY <1>3 DEF NextPieces
  <2>2. n \in Nat /\ n <= Remaining
    <3> HIDE DEF len
    <3>1. Remaining \in Nat
      BY <1>1
    <3>2. Pieces \subseteq Nat
      BY SessionAssumption
    <3>3. Remaining <= Remaining
      BY <3>1
    <3> QED
      BY <2>1, <3>1, <3>2, <3>3
  <2> HIDE DEF len
  <2>3. pushed + n \in Nat /\ pushed + n <= len
    BY <1>1, <2>2
  <2> QED
    BY <2>2, <2>3 DEF len
<1> QED
  BY <1>2, <1>3

\* A piece is pushed.
LEMMA PushKeeps == ASSUME IInv, Push PROVE IInv'
<1>1. PICK n \in NextPieces :
        /\ z' = [z EXCEPT !.input = SubSeq(session.bytes, pushed + 1, pushed + n), !.next = 0]
        /\ pushed' = pushed + n
        /\ flush' = IF session.flush = "FINISH" /\ n < Remaining THEN "NO_FLUSH" ELSE session.flush
  BY DEF Push
<1>2. /\ Remaining > 0 /\ pc' = "loop" /\ st' = st /\ win' = win /\ call' = call /\ ret' = ret /\ history' = history
      /\ session' = session /\ ended' = ended /\ err' = err /\ chunks' = chunks /\ calls' = calls
      /\ pc = "idle"
  BY DEF Push
<1> DEFINE to == pushed + n
           piece == SubSeq(session.bytes, pushed + 1, to)
<1>3. to \in Nat /\ to <= Len(session.bytes) /\ Len(session.bytes) \in Nat
  BY <1>2, PieceFits, SessionIs
<1>4. pushed + 1 \in Nat \ {0}
  BY SessionIs
<1>5. to \in 0 .. Len(session.bytes)
  <2> HIDE DEF to
  <2> QED
    BY <1>3
<1>6. session.bytes \in Seq(Byte)
  BY SessionIs
<1>7. piece \in Seq(Byte)
  <2> HIDE DEF to
  <2> QED
    BY <1>4, <1>5, <1>6, PartOf
<1>8. Len(piece) \in Nat
  BY <1>7, LenProperties
<1> HIDE DEF piece, to
<1>9. z' = [z EXCEPT !.input = piece, !.next = 0] /\ pushed' = to
  BY <1>1 DEF piece, to
<1>10. StreamInv'
  <2>1. z \in Streams /\ Len(z.output) <= CHUNK /\ call \in Calls /\ history \in Seq(Byte)
    BY DEF IInv, StreamInv
  <2>2. z' \in Streams /\ z'.input = piece /\ z'.next = 0 /\ z'.output = z.output
    BY <1>7, <1>9, <2>1 DEF Streams
  <2>3. z'.next <= Len(z'.input)
    BY <1>8, <2>2
  <2> QED
    BY <1>2, <2>1, <2>2, <2>3 DEF StreamInv
<1>11. WindowInv'
  BY <1>2 DEF IInv, WindowInv
<1>12. ClientInv'
  <2>1. flush' \in FlushModes
    BY <1>1, SessionIs DEF FlushModes
  <2> QED
    BY <1>2, <1>5, <1>9, <2>1 DEF IInv, ClientInv
<1>13. StateInv'
  BY <1>2 DEF IInv, StateInv
<1>14. LeanInv'
  BY <1>2 DEF IInv, LeanInv
<1>15. FastInv'
  BY <1>2 DEF FastInv
<1> QED
  BY <1>10, <1>11, <1>12, <1>13, <1>14, <1>15 DEF IInv

\* inflate is called where input and output are.
LEMMA CalledIs ==
  ASSUME z' \in Streams, NEW f \in FlushModes, Called(f)
  PROVE  /\ pc' = "run" /\ call' \in Calls /\ call'.in0 = z'.next /\ call'.out0 = Len(z'.output)
         /\ z'.next \in Nat /\ Len(z'.output) \in Nat
<1>1. z'.next \in Nat /\ z'.output \in Seq(Byte)
  BY DEF Streams
<1>2. Len(z'.output) \in Nat
  BY <1>1, LenProperties
<1>3. call' = [flush |-> f, in0 |-> z'.next, out0 |-> Len(z'.output)] /\ pc' = "run"
  BY DEF Called
<1> QED
  BY <1>1, <1>2, <1>3 DEF Calls

\* In the loop of push inflate is called.
LEMMA CallInflateKeeps == ASSUME IInv, CallInflate PROVE IInv'
<1>1. /\ z' = z \/ z' = [z EXCEPT !.output = <<>>]
      /\ st' = st /\ win' = win /\ ret' = ret /\ history' = history /\ session' = session /\ pushed' = pushed
      /\ flush' = flush /\ ended' = ended /\ err' = err /\ chunks' = chunks /\ calls' = "first"
      /\ Called(flush) /\ pc = "loop"
  BY DEF CallInflate
<1>2. z \in Streams /\ z.next <= Len(z.input) /\ Len(z.output) <= CHUNK /\ history \in Seq(Byte)
  BY DEF IInv, StreamInv
<1>3. <<>> \in Seq(Byte) /\ Len(<<>>) = 0
  BY EmptySeq
<1>4. CHUNK \in Nat
  BY InflateAssumption
<1>5. z' \in Streams /\ z'.input = z.input /\ z'.next = z.next /\ (z'.output = z.output \/ z'.output = <<>>)
  BY <1>1, <1>2, <1>3 DEF Streams
<1>6. Len(z'.output) <= CHUNK
  BY <1>2, <1>3, <1>4, <1>5
<1>7. flush \in FlushModes
  BY DEF IInv, ClientInv
<1>8. /\ pc' = "run" /\ call' \in Calls /\ call'.in0 = z'.next /\ call'.out0 = Len(z'.output)
      /\ z'.next \in Nat /\ Len(z'.output) \in Nat
  BY <1>1, <1>5, <1>7, CalledIs
<1>9. StreamInv'
  BY <1>1, <1>2, <1>5, <1>6, <1>8 DEF StreamInv
<1>10. WindowInv'
  BY <1>1 DEF IInv, WindowInv
<1>11. ClientInv'
  BY <1>1, <1>8 DEF IInv, ClientInv
<1>12. StateInv'
  BY <1>1 DEF IInv, StateInv
<1>13. LeanInv'
  BY <1>1 DEF IInv, LeanInv
<1>14. FastInv'
  BY <1>8 DEF FastInv
<1> QED
  BY <1>9, <1>10, <1>11, <1>12, <1>13, <1>14 DEF IInv

\* What the window holds after an update is the end of something.
LEMMA WindowGrows ==
  ASSUME NEW w \in Windows(Byte), NEW size \in Nat, NEW bytes \in Seq(Byte), \E written \in Seq(Byte) : Holds(w, written)
  PROVE  /\ UpdateWindow(w, size, bytes) \in Windows(Byte)
         /\ \E written \in Seq(Byte) : Holds(UpdateWindow(w, size, bytes), written)
<1> DEFINE u == UpdateWindow(w, size, bytes)
<1>1. PICK written \in Seq(Byte) : Holds(w, written)
  OBVIOUS
<1>2. 0 \in Byte
  BY DEF Byte
<1>3. u \in Windows(Byte) /\ Holds(u, written \o bytes)
  BY <1>1, <1>2, WindowKeepsTheEnd
<1>4. written \o bytes \in Seq(Byte)
  BY ConcatProperties
<1> HIDE DEF u
<1>5. u \in Windows(Byte) /\ \E x \in Seq(Byte) : Holds(u, x)
  BY <1>3, <1>4
<1> QED
  BY <1>5 DEF u

\* What is left of the state when it starts over.
LEMMA RestartedIs ==
  ASSUME NEW s \in States
  PROVE  Restarted(s) \in States /\ Sound(Restarted(s)) /\ Lean(Restarted(s))
<1> DEFINE t == Restarted(s)
<1>1. <<>> \in Seq(Bit) /\ <<>> \in LenCodes /\ <<>> \in DistCodes /\ "HEAD" \in Modes
  BY NoBits DEF LenCodes, DistCodes, Modes
<1>2. 0 \in Nat
  OBVIOUS
<1>3. t \in States
  <2> DEFINE R(n) == [s EXCEPT !.mode = "HEAD", !.last = FALSE, !.havedict = FALSE, !.total = 0, !.hold = <<>>,
                               !.dmax = n, !.fixed = FALSE, !.lencode = <<>>, !.distcode = <<>>]
  <2>1. \A n \in Nat : R(n) \in States
    BY Zenon, <1>1, <1>2 DEF States
  <2>2. t = R(32768)
    BY SMT DEF Restarted
  <2> HIDE DEF R, t
  <2>3. R(32768) \in States
    BY <2>1
  <2>4. QED
    BY <2>2, <2>3
<1>4. t.hold = <<>> /\ t.mode = "HEAD"
  BY DEF Restarted, States
<1> HIDE DEF t
<1>5. t.mode \notin Coding \cup {"LENLENS", "CODELENS"}
  BY <1>4 DEF Coding
<1>6. Len(t.hold) < 8
  BY <1>4, NoBits
<1>7. Sound(t) /\ Lean(t)
  BY <1>3, <1>4, <1>5, <1>6, PlainIs
<1> QED
  BY <1>3, <1>7 DEF t

\* Another member.
LEMMA NextMemberKeeps == ASSUME IInv, NextMember PROVE IInv'
<1>1. /\ z' = z /\ win' = Forgotten(win) /\ st' = Restarted(st) /\ ret' = ret /\ history' = history
      /\ session' = session /\ pushed' = pushed
      /\ flush' = flush /\ ended' = ended /\ err' = err /\ chunks' = chunks /\ calls' = "again"
      /\ Called(flush) /\ pc = "back"
  BY DEF NextMember
<1>2. z \in Streams /\ z.next <= Len(z.input) /\ Len(z.output) <= CHUNK /\ history \in Seq(Byte)
  BY DEF IInv, StreamInv
<1>3. flush \in FlushModes
  BY DEF IInv, ClientInv
<1>4. /\ pc' = "run" /\ call' \in Calls /\ call'.in0 = z'.next /\ call'.out0 = Len(z'.output)
      /\ z'.next \in Nat /\ Len(z'.output) \in Nat
  BY <1>1, <1>2, <1>3, CalledIs
<1>5. StreamInv'
  BY <1>1, <1>2, <1>4 DEF StreamInv
<1>6. WindowInv'
  <2>1. win \in Windows(Byte)
    BY DEF IInv, WindowInv
  <2> DEFINE u == Forgotten(win)
  <2>2. /\ u.alloc \in BOOLEAN /\ u.size = 0 /\ u.have = 0 /\ u.next = 0 /\ u.data = win.data /\ u.data \in Seq(Byte)
        /\ u \in [alloc : BOOLEAN, size : Nat, have : Nat, next : Nat, data : Seq(Byte)]
    BY <2>1 DEF Forgotten, Windows
  <2> HIDE DEF u
  <2>3. Len(u.data) \in Nat
    BY <2>2, LenProperties
  <2>4. Shaped(u) /\ u.size <= Len(u.data)
    BY <2>2, <2>3 DEF Shaped
  <2>5. u \in Windows(Byte)
    BY <2>2, <2>4 DEF Windows
  <2>6. Holds(u, <<>>) /\ <<>> \in Seq(Byte)
    BY <2>2 DEF Holds
  <2>7. win' = u
    BY <1>1 DEF u
  <2> QED
    BY <2>5, <2>6, <2>7 DEF WindowInv
<1>7. ClientInv'
  BY <1>1, <1>4 DEF IInv, ClientInv
<1>8. st \in States
  BY DEF IInv, StateInv
<1>9. StateInv' /\ LeanInv'
  BY <1>1, <1>8, RestartedIs DEF StateInv, LeanInv
<1>10. FastInv'
  BY <1>4 DEF FastInv
<1> QED
  BY <1>5, <1>6, <1>7, <1>9, <1>10 DEF IInv

\* Back in push: what is delivered, and whether the object has ended.
LEMMA CallerKeeps ==
  ASSUME IInv, pc = "back", UNCHANGED <<z, st, win, call, ret, history, session, pushed, flush, calls>>,
         pc' \in {"idle", "loop"}, ended' \in BOOLEAN, chunks' \in Seq(Seq(Byte))
  PROVE  IInv'
<1>1. StreamInv'
  BY DEF IInv, StreamInv
<1>2. WindowInv'
  BY DEF IInv, WindowInv
<1>3. ClientInv'
  BY DEF IInv, ClientInv
<1>4. StateInv'
  BY DEF IInv, StateInv
<1>5. LeanInv'
  BY DEF IInv, LeanInv
<1>6. FastInv'
  BY DEF FastInv
<1> QED
  BY <1>1, <1>2, <1>3, <1>4, <1>5, <1>6 DEF IInv

\* A dictionary is given, or is the wrong one.
LEMMA SetDictionaryKeeps == ASSUME IInv, SetDictionary PROVE IInv'
<1> DEFINE u == WithDictionary(win, st, session.dictionary)
           t == [st EXCEPT !.havedict = TRUE]
<1>1. CASE Adler32(One, session.dictionary) = st.check
  <2>1. /\ z' = z /\ win' = u /\ st' = t /\ ret' = ret /\ history' = history
        /\ session' = session /\ pushed' = pushed
        /\ flush' = flush /\ ended' = ended /\ err' = err /\ chunks' = chunks /\ calls' = "again"
        /\ Called(flush) /\ pc = "back"
    BY <1>1 DEF SetDictionary
  <2>2. z \in Streams /\ z.next <= Len(z.input) /\ Len(z.output) <= CHUNK /\ history \in Seq(Byte)
    BY DEF IInv, StreamInv
  <2>3. flush \in FlushModes
    BY DEF IInv, ClientInv
  <2>4. /\ pc' = "run" /\ call' \in Calls /\ call'.in0 = z'.next /\ call'.out0 = Len(z'.output)
        /\ z'.next \in Nat /\ Len(z'.output) \in Nat
    BY <2>1, <2>2, <2>3, CalledIs
  <2>5. StreamInv'
    BY <2>1, <2>2, <2>4 DEF StreamInv
  <2>6. st \in States /\ Sound(st) /\ LeanInv
    BY DEF IInv, StateInv
  <2>7. WindowInv'
    <3>1. win \in Windows(Byte) /\ \E written \in Seq(Byte) : Holds(win, written)
      BY DEF IInv, WindowInv
    <3>2. session.dictionary \in Seq(Byte)
      BY SessionIs
    <3>3. st.wbits \in Nat
      BY <2>6 DEF States
    <3>4. 2^st.wbits \in Nat
      BY <3>3, PowerOf
    <3>5. u \in Windows(Byte) /\ \E written \in Seq(Byte) : Holds(u, written)
      BY <3>1, <3>2, <3>4, WindowGrows DEF WithDictionary
    <3> HIDE DEF u
    <3> QED
      BY <2>1, <3>5 DEF WindowInv
  <2>8. ClientInv'
    BY <2>1, <2>4 DEF IInv, ClientInv
  <2>9. /\ t.mode = st.mode /\ t.nlen = st.nlen /\ t.ndist = st.ndist /\ t.lencode = st.lencode /\ t.distcode = st.distcode
        /\ t.lens = st.lens /\ t.fixed = st.fixed /\ t.length = st.length /\ t.extra = st.extra /\ t.offset = st.offset
        /\ t.wrap = st.wrap /\ t.flags = st.flags /\ t.last = st.last /\ t.ncode = st.ncode /\ t.hold = st.hold
        /\ t \in States
    BY <2>6 DEF States
  <2> HIDE DEF t
  <2>10. Sound(t)
    BY <2>6, <2>9 DEF Sound
  <2>11. Lean(st) => Lean(t)
    <3>1. Wants(t) = Wants(st)
      BY <2>9 DEF Wants
    <3>2. LenCodeOf(t) = LenCodeOf(st) /\ DistCodeOf(t) = DistCodeOf(st)
      BY <2>9 DEF LenCodeOf, DistCodeOf
    <3> QED
      BY <2>9, <3>1, <3>2 DEF Lean, Enough
  <2>12. StateInv'
    BY <2>1, <2>9, <2>10 DEF StateInv
  <2>13. LeanInv'
    BY <2>1, <2>6, <2>9, <2>11 DEF LeanInv
  <2>14. FastInv'
    BY <2>4 DEF FastInv
  <2> QED
    BY <2>5, <2>7, <2>8, <2>12, <2>13, <2>14 DEF IInv
<1>2. CASE Adler32(One, session.dictionary) # st.check
  <2>1. /\ UNCHANGED <<z, st, win, call, ret, history, session, pushed, flush, calls>>
        /\ ended' = TRUE /\ pc = "back" /\ pc' = "idle" /\ chunks' = <<>>
    BY <1>2 DEF SetDictionary, End
  <2>2. <<>> \in Seq(Seq(Byte))
    BY EmptySeq
  <2> QED
    BY <2>1, <2>2, CallerKeeps
<1> QED
  BY <1>1, <1>2

\* The result of a call goes to the caller.
LEMMA FailKeeps == ASSUME IInv, Fail PROVE IInv'
<1>1. /\ UNCHANGED <<z, st, win, call, ret, history, session, pushed, flush, calls>>
      /\ ended' = TRUE /\ pc = "back" /\ pc' = "idle" /\ chunks' = <<>>
  BY DEF Fail, End
<1>2. <<>> \in Seq(Seq(Byte))
  BY EmptySeq
<1> QED
  BY <1>1, <1>2, CallerKeeps

\* Output goes to the caller, and the loop goes on or ends.
LEMMA DeliverKeeps == ASSUME IInv, Deliver PROVE IInv'
<1>1. /\ UNCHANGED <<z, st, win, call, ret, history, session, pushed, flush, calls>>
      /\ ended' \in {ended, TRUE} /\ pc = "back" /\ pc' \in {"loop", "idle"}
      /\ chunks' = chunks \/ chunks' = Append(chunks, z.output)
  BY DEF Deliver, End
<1>2. ended' \in BOOLEAN
  BY <1>1 DEF IInv, ClientInv
<1>3. chunks' \in Seq(Seq(Byte))
  <2>1. chunks \in Seq(Seq(Byte)) /\ z.output \in Seq(Byte)
    BY InputIs DEF IInv, ClientInv
  <2> QED
    BY <1>1, <2>1, AppendProperties
<1> QED
  BY <1>1, <1>2, <1>3, CallerKeeps

\* What changes nothing.
LEMMA NothingKeeps == ASSUME IInv, UNCHANGED vars PROVE IInv'
<1>1. UNCHANGED <<z, st, win, call, pc, ret, history, session, pushed, flush, ended, err, chunks, calls>>
  BY DEF vars, inflateVars
<1>2. StreamInv' /\ WindowInv' /\ ClientInv' /\ StateInv' /\ LeanInv'
  BY <1>1 DEF IInv, StreamInv, WindowInv, ClientInv, StateInv, LeanInv
<1>3. FastInv'
  BY <1>1 DEF IInv, FastInv, GoOn, Have, Room
<1> QED
  BY <1>2, <1>3 DEF IInv

\* Every step keeps the invariant.
LEMMA NextKeeps == ASSUME MAXMATCH >= 258, IInv, [Next]_vars PROVE IInv'
<1>1. CASE Push
  BY <1>1, PushKeeps
<1>2. CASE CallInflate \/ SetDictionary \/ NextMember \/ Fail \/ Deliver
  BY <1>2, CallInflateKeeps, SetDictionaryKeeps, NextMemberKeeps, FailKeeps, DeliverKeeps
<1>3. CASE Inflating /\ UNCHANGED streamVars
  BY <1>3, InflatingKeeps
<1>4. CASE Finished \/ UNCHANGED vars
  BY <1>4, NothingKeeps DEF Finished
<1> QED
  BY <1>1, <1>2, <1>3, <1>4 DEF Next, Pushing

-----------------------------------------------------------------------------
(* An object as it is created, and the theorems.                           *)

\* What the options ask for.
LEMMA OptionsAre ==
  ASSUME NEW s \in Sessions
  PROVE  /\ WindowBits(s.raw, s.bits) \in -47 .. 47
         /\ WrapOf(WindowBits(s.raw, s.bits)) \in Wraps
<1> DEFINE raw == s.raw
           b == s.bits
           given == IF b = 0 THEN 15 ELSE b
           w == WindowBits(raw, b)
<1>1. raw \in BOOLEAN /\ b \in -15 .. 47
  BY SessionAssumption
<1> HIDE DEF raw, b
<1>2. given \in -15 .. 47
  BY <1>1
<1>3. w = IF raw /\ given \in 0 .. 15 THEN -given
          ELSE IF given \in 0 .. 15 /\ b = 0 THEN given + 32
          ELSE IF given \in 16 .. 47 /\ given % 16 = 0 THEN given + 15
          ELSE given
  BY DEF WindowBits
<1> HIDE DEF given, w
<1>4. given \in 16 .. 47 /\ given % 16 = 0 => given \in {16, 32}
  BY <1>2
<1>5. given \in 0 .. 15 /\ b = 0 => given + 32 \in -47 .. 47
  BY <1>2
<1>6. given \in 0 .. 15 => -given \in -47 .. 47
  BY <1>2
<1>7. given \in {16, 32} => given + 15 \in -47 .. 47
  BY <1>2
<1>8. given \in -47 .. 47
  BY <1>2
<1>9. w \in -47 .. 47
  BY <1>3, <1>4, <1>5, <1>6, <1>7, <1>8
<1>10. WrapOf(w) \in Wraps
  <2>1. CASE w < 0
    BY <2>1 DEF WrapOf, Wraps
  <2>2. CASE ~(w < 0)
    <3>1. w \div 16 \in {0, 1, 2}
      BY <1>9, <2>2
    <3> DEFINE q == w \div 16
    <3>2. WrapOf(w) = CASE q = 0 -> {"zlib"} [] q = 1 -> {"gzip"} [] q = 2 -> {"zlib", "gzip"}
      BY <2>2 DEF WrapOf
    <3> HIDE DEF q
    <3>3. q \in {0, 1, 2}
      BY <3>1 DEF q
    <3>4. WrapOf(w) \in {{"zlib"}, {"gzip"}, {"zlib", "gzip"}}
      BY <3>2, <3>3
    <3> QED
      BY <3>4 DEF Wraps
  <2> QED
    BY <2>1, <2>2
<1> QED
  BY <1>9, <1>10 DEF w, raw, b

\* A new state.
LEMMA CreatedIs ==
  ASSUME NEW s \in Sessions
  PROVE  Created(s) \in States /\ Created(s).hold = <<>> /\ Created(s).mode = "HEAD" /\ Created(s).total = 0
<1> DEFINE bits == WindowBits(s.raw, s.bits)
           wrap == WrapOf(bits)
           wbits == IF bits < 0 THEN -bits ELSE bits % 16
           new == [mode |-> "HEAD", last |-> FALSE, wrap |-> wrap, wbits |-> wbits, flags |-> Zeros(16), havedict |-> FALSE,
                   dmax |-> 32768, check |-> Zeros(32), total |-> 0, hold |-> <<>>, length |-> 0, offset |-> 0, extra |-> 0,
                   fixed |-> FALSE, lencode |-> <<>>, distcode |-> <<>>, ncode |-> 0, nlen |-> 0, ndist |-> 0, lens |-> <<>>]
<1>1. bits \in -47 .. 47 /\ wrap \in Wraps
  BY OptionsAre
<1> HIDE DEF bits
<1>2. wbits \in Nat
  BY <1>1
<1> HIDE DEF wrap, wbits
<1>3. /\ <<>> \in Seq(Bit) /\ <<>> \in LenCodes /\ <<>> \in DistCodes /\ "HEAD" \in Modes /\ <<>> \in Lengths
      /\ Zeros(16) \in Flags16 /\ Zeros(32) \in Check32
  BY NoBits, ZerosAre, EmptySeq DEF LenCodes, DistCodes, Modes, Lengths
<1>4. 0 \in Nat /\ 32768 \in Nat
  OBVIOUS
<1>5. new \in States
  BY <1>1, <1>2, <1>3, <1>4 DEF States
<1>6. Created(s) = Restarted(new)
  BY DEF Created, NewState, bits, wrap, wbits
<1> HIDE DEF new
<1>7. Restarted(new).hold = <<>> /\ Restarted(new).mode = "HEAD" /\ Restarted(new).total = 0
  BY <1>5 DEF Restarted, States
<1> QED
  BY <1>5, <1>6, <1>7, RestartedIs

\* A new window.
LEMMA NoWindowIs == NoWindow \in Windows(Byte) /\ \E written \in Seq(Byte) : Holds(NoWindow, written)
<1>1. /\ NoWindow \in [alloc : BOOLEAN, size : Nat, have : Nat, next : Nat, data : Seq(Byte)]
      /\ ~NoWindow.alloc /\ NoWindow.size = 0 /\ NoWindow.have = 0 /\ NoWindow.next = 0 /\ NoWindow.data = <<>>
  BY EmptySeq DEF NoWindow
<1>2. Len(NoWindow.data) \in Nat
  BY <1>1, EmptySeq
<1> HIDE DEF NoWindow
<1>3. Shaped(NoWindow) /\ NoWindow.size <= Len(NoWindow.data)
  BY <1>1, <1>2 DEF Shaped
<1>4. NoWindow \in Windows(Byte)
  BY <1>1, <1>3 DEF Windows
<1>5. Holds(NoWindow, <<>>) /\ <<>> \in Seq(Byte)
  BY <1>1 DEF Holds
<1> QED
  BY <1>4, <1>5

\* The invariant holds of a new object.
LEMMA InitHasIt == ASSUME Init PROVE IInv
<1> DEFINE new == Created(session)
           h == session.raw /\ session.dictionary # <<>>
           t == [new EXCEPT !.havedict = h]
<1>1. /\ session \in Sessions /\ st = t
      /\ win = IF h THEN WithDictionary(NoWindow, new, session.dictionary) ELSE NoWindow
      /\ z = [input |-> <<>>, next |-> 0, output |-> <<>>]
      /\ call = [flush |-> "NO_FLUSH", in0 |-> 0, out0 |-> 0]
      /\ pc = "idle" /\ ret = "OK" /\ history = <<>> /\ pushed = 0 /\ flush = "NO_FLUSH"
      /\ ended = FALSE /\ chunks = <<>> /\ calls = "first"
  BY DEF Init
<1>2. /\ session.raw \in BOOLEAN /\ session.dictionary \in Seq(Byte) /\ session.bytes \in Seq(Byte)
  BY <1>1, SessionAssumption
<1>3. /\ new \in States /\ new.hold = <<>> /\ new.mode = "HEAD"
  BY <1>1, CreatedIs
<1> HIDE DEF new
<1>4. h \in BOOLEAN
  BY <1>2
<1> HIDE DEF h
<1>5. t \in States /\ t.hold = <<>> /\ t.mode = "HEAD"
  BY <1>3, <1>4 DEF States
<1> HIDE DEF t
<1>6. Sound(t) /\ Lean(t)
  <2>1. Len(t.hold) < 8
    BY <1>5, NoBits
  <2>2. t.mode \notin Coding \cup {"LENLENS", "CODELENS"}
    BY <1>5 DEF Coding
  <2> QED
    BY <1>5, <2>1, <2>2, PlainIs
<1>7. StreamInv
  <2>1. <<>> \in Seq(Byte) /\ Len(<<>>) = 0 /\ 0 \in Nat
    BY EmptySeq
  <2>2. CHUNK \in Nat
    BY InflateAssumption
  <2>3. z \in Streams /\ z.next = 0 /\ z.input = <<>> /\ z.output = <<>>
    BY <1>1, <2>1 DEF Streams
  <2>4. call \in Calls
    BY <1>1, <2>1 DEF Calls, FlushModes
  <2> QED
    BY <1>1, <2>1, <2>2, <2>3, <2>4 DEF StreamInv
<1>8. WindowInv
  <2>1. new.wbits \in Nat
    BY <1>3 DEF States
  <2>2. 2^new.wbits \in Nat
    BY <2>1, PowerOf
  <2>3. NoWindow \in Windows(Byte) /\ \E written \in Seq(Byte) : Holds(NoWindow, written)
    BY NoWindowIs
  <2>4. CASE h
    <3> DEFINE u == UpdateWindow(NoWindow, 2^new.wbits, session.dictionary)
    <3>1. u \in Windows(Byte) /\ \E written \in Seq(Byte) : Holds(u, written)
      BY <1>2, <2>2, <2>3, WindowGrows
    <3>2. win = u
      BY <1>1, <2>4 DEF WithDictionary
    <3> HIDE DEF u
    <3> QED
      BY <3>1, <3>2 DEF WindowInv
  <2>5. CASE ~h
    <3>1. win = NoWindow
      BY <1>1, <2>5
    <3> HIDE DEF NoWindow
    <3> QED
      BY <2>3, <3>1 DEF WindowInv
  <2> QED
    BY <2>4, <2>5
<1>9. ClientInv
  <2>1. <<>> \in Seq(Seq(Byte))
    BY EmptySeq
  <2>2. Len(session.bytes) \in Nat
    BY <1>2, LenProperties
  <2>3. pushed \in 0 .. Len(session.bytes)
    BY <1>1, <2>2
  <2> QED
    BY <1>1, <2>1, <2>3 DEF ClientInv, FlushModes
<1>10. StateInv /\ LeanInv
  BY <1>1, <1>5, <1>6 DEF StateInv, LeanInv
<1>11. FastInv
  BY <1>1 DEF FastInv
<1> QED
  BY <1>7, <1>8, <1>9, <1>10, <1>11 DEF IInv

\* For every stream, however damaged, and every cut of it into pieces: inflate's state is always
\* one that the case it is in can go on with (the fields of InflateState that the case reads
\* are set, hold has no more bits than 32, the codes are complete), and inflate_fast has the
\* input and the room it does not ask for. IInv says so.
THEOREM InflateInvariant == ASSUME MAXMATCH >= 258 PROVE Spec => []IInv
<1>1. Init => IInv
  BY InitHasIt
<1>2. IInv /\ [Next]_vars => IInv'
  BY NextKeeps
<1> QED
  BY <1>1, <1>2, PTL DEF Spec

\* The fields of the stream, of inflate's state and of its window stay within their types:
\* hold never has more than its 32 bits, and the window never has more than its size.
THEOREM InflateTypes == ASSUME MAXMATCH >= 258 PROVE Spec => []TypeOK
<1>1. IInv => TypeOK
  <2> SUFFICES ASSUME IInv PROVE TypeOK
    OBVIOUS
  <2>1. st \in States /\ st.hold \in Seq(Bit) /\ Len(st.hold) <= 32
    BY HoldFits
  <2>2. st.mode \in Modes /\ st.check \in Check32 /\ st.flags \in Flags16
    BY <2>1 DEF States
  <2>3. Len(st.check) = 32 /\ Len(st.flags) = 16
    BY <2>2 DEF Check32, Flags16
  <2>4. \A i \in DOMAIN st.hold : st.hold[i] \in Bit
    BY <2>1, ElementOfSeq, LenProperties
  <2>5. win.have \in 0 .. win.size
    BY DEF IInv, WindowInv, Windows, Shaped
  <2> QED
    BY <2>1, <2>2, <2>3, <2>4, <2>5 DEF TypeOK, IInv, ClientInv
<1> QED
  BY <1>1, InflateInvariant, PTL

\* inflate_fast takes no byte that is not there, writes none beyond the buffer, and gives back
\* no byte that it has not taken in this call, whatever the stream.
THEOREM FastDecoderStaysInside == ASSUME MAXMATCH >= 258 PROVE Spec => []FastStaysInside
<1>1. IInv => FastStaysInside
  <2> SUFFICES ASSUME IInv PROVE FastStaysInside
    OBVIOUS
  <2>1. z.next \in Nat /\ z.next <= Len(z.input) /\ Len(z.input) \in Nat /\ Len(z.output) <= CHUNK
        /\ call.in0 \in Nat
    BY InputIs
  <2>2. pc \in {"run", "fast", "back"} => call.in0 <= z.next
    BY DEF IInv, StreamInv
  <2> QED
    BY <2>1, <2>2 DEF FastStaysInside
<1> QED
  BY <1>1, InflateInvariant, PTL

\* inflate is at work in no other places.
LEMMA InflatingInside == Inflating => pc \in {"run", "fast"}
<1>1. Pull \/ Starve \/ Done \/ Damaged => pc = "run"
  BY DEF Pull, Starve, Done, Damaged, At
<1>2. MagicOrHeader \/ Flags \/ Time \/ Os \/ ExLen => pc = "run"
  BY DEF MagicOrHeader, Flags, Time, Os, ExLen, At
<1>3. Extra \/ Name \/ Comment \/ HCrc \/ DictId \/ Dict => pc = "run"
  BY DEF Extra, Name, Comment, Text, HCrc, DictId, Dict, At
<1>4. Block \/ Stored \/ Copy \/ TableSizes \/ LenLens \/ CodeLens => pc = "run"
  BY DEF Block, Stored, Copy, TableSizes, LenLens, CodeLens, At
<1>5. LenCase \/ LenExt \/ Dist \/ DistExt \/ Match \/ Lit => pc = "run"
  BY DEF LenCase, LenExt, Dist, DistExt, Match, Lit, At
<1>6. EnterFast \/ Check \/ Length => pc = "run"
  BY DEF EnterFast, Check, Length, At
<1>7. FastLen \/ FastLenExt \/ FastDist \/ FastDistExt \/ FastLit \/ FastMatch \/ LeaveFast => pc = "fast"
  BY DEF FastLen, FastLenExt, FastDist, FastDistExt, FastLit, FastMatch, LeaveFast, Fast
<1> QED
  BY <1>1, <1>2, <1>3, <1>4, <1>5, <1>6, <1>7 DEF Inflating

\* An object that has ended is at rest.
EndInv == ended => pc = "idle"

\* An object that has ended, by the stream's end, by damage or for want of a dictionary, stays as
\* it is: push neither delivers nor reads on (Inflate.prototype.push).
THEOREM EndedIsEnded == Spec => Sticky
<1>1. Init => EndInv
  BY DEF Init, EndInv
<1>2. EndInv /\ [Next]_vars => EndInv'
  <2> SUFFICES ASSUME EndInv, [Next]_vars PROVE EndInv'
    OBVIOUS
  <2>1. CASE Push
    BY <2>1 DEF Push, Accepts, EndInv
  <2>2. CASE CallInflate \/ SetDictionary \/ NextMember \/ Fail \/ Deliver
    BY <2>2 DEF CallInflate, SetDictionary, NextMember, Fail, Deliver, End, EndInv
  <2>3. CASE Inflating /\ UNCHANGED streamVars
    <3>1. pc \in {"run", "fast"}
      BY <2>3, InflatingInside
    <3> QED
      BY <2>3, <3>1 DEF EndInv, streamVars
  <2>4. CASE Finished \/ UNCHANGED vars
    BY <2>4 DEF Finished, EndInv, vars, inflateVars
  <2> QED
    BY <2>1, <2>2, <2>3, <2>4 DEF Next, Pushing
<1>3. EndInv /\ [Next]_vars => [ended => UNCHANGED <<ended, err, chunks, history>>]_vars
  <2> SUFFICES ASSUME EndInv, ended, [Next]_vars PROVE UNCHANGED <<ended, err, chunks, history>>
    OBVIOUS
  <2>1. pc = "idle"
    BY DEF EndInv
  <2>2. ~Push
    BY DEF Push, Accepts
  <2>3. ~(CallInflate \/ SetDictionary \/ NextMember \/ Fail \/ Deliver)
    BY <2>1 DEF CallInflate, SetDictionary, NextMember, Fail, Deliver
  <2>4. ~Inflating
    BY <2>1, InflatingInside
  <2>5. Finished \/ UNCHANGED vars
    BY <2>2, <2>3, <2>4 DEF Next, Pushing
  <2> QED
    BY <2>5 DEF Finished, vars, inflateVars
<1> QED
  BY <1>1, <1>2, <1>3, PTL DEF Spec, Sticky

-----------------------------------------------------------------------------
(* What was written, and when.                                             *)

\* What is left of a sequence that has grown.
LEMMA DroppedMore ==
  ASSUME NEW S, NEW s \in Seq(S), NEW t \in Seq(S), NEW n \in 0 .. Len(s)
  PROVE  Dropped(n, s \o t) = Dropped(n, s) \o t
<1> DEFINE a == s \o t
           d == Dropped(n, s)
           e == Dropped(n, a)
           f == d \o t
           ls == Len(s)
           lt == Len(t)
<1>1. ls \in Nat /\ lt \in Nat /\ n \in Nat /\ n <= ls
  BY LenProperties
<1>2. a \in Seq(S) /\ Len(a) = ls + lt /\ \A i \in 1 .. ls + lt : a[i] = IF i <= ls THEN s[i] ELSE t[i - ls]
  BY ConcatProperties
<1>3. d \in Seq(S) /\ Len(d) = ls - n
  BY DroppedIs
<1>4. n + 1 \in Nat \ {0} /\ ls \in 0 .. Len(s)
  BY <1>1
<1>5. \A i \in 1 .. ls - n : d[i] = s[n + i]
  <2>1. \A i \in 1 .. ls - (n + 1) + 1 : d[i] = s[(n + 1) + i - 1]
    BY <1>4, PartOf DEF Dropped
  <2>2. \A i \in 1 .. ls - n : i \in 1 .. ls - (n + 1) + 1 /\ (n + 1) + i - 1 = n + i
    <3> HIDE DEF ls
    <3> QED
      BY <1>1
  <2> HIDE DEF d, ls
  <2> QED
    BY <2>1, <2>2
<1>6. n \in 0 .. Len(a)
  <2> HIDE DEF a, ls, lt
  <2> QED
    BY <1>1, <1>2
<1>7. e \in Seq(S) /\ Len(e) = Len(a) - n
  BY <1>2, <1>6, DroppedIs
<1>8. \A i \in 1 .. ls + lt - n : e[i] = a[n + i]
  <2>1. Len(a) \in 0 .. Len(a)
    <3> HIDE DEF a, ls, lt
    <3> QED
      BY <1>1, <1>2
  <2>2. \A i \in 1 .. Len(a) - (n + 1) + 1 : e[i] = a[(n + 1) + i - 1]
    BY <1>2, <1>4, <2>1, PartOf DEF Dropped
  <2>3. \A i \in 1 .. ls + lt - n : i \in 1 .. Len(a) - (n + 1) + 1 /\ (n + 1) + i - 1 = n + i
    <3> HIDE DEF a, ls, lt
    <3> QED
      BY <1>1, <1>2
  <2> HIDE DEF e, a, ls, lt
  <2> QED
    BY <2>2, <2>3
<1>9. f \in Seq(S) /\ Len(f) = Len(d) + lt /\ \A i \in 1 .. Len(d) + lt : f[i] = IF i <= Len(d) THEN d[i] ELSE t[i - Len(d)]
  BY <1>3, ConcatProperties
<1> HIDE DEF a, d, e, f, ls, lt
<1>10. Len(e) = Len(f)
  BY <1>1, <1>2, <1>3, <1>7, <1>9
<1>11. ASSUME NEW i \in 1 .. Len(e) PROVE e[i] = f[i]
  <2>1. i \in Nat /\ i \in 1 .. ls + lt - n /\ i \in 1 .. Len(d) + lt /\ n + i \in 1 .. ls + lt
    BY <1>1, <1>2, <1>3, <1>7
  <2>2. e[i] = a[n + i]
    BY <1>8, <2>1
  <2>3. f[i] = IF i <= ls - n THEN d[i] ELSE t[i - (ls - n)]
    BY <1>3, <1>9, <2>1
  <2>4. PICK j \in 1 .. ls + lt : j = n + i
    BY <2>1
  <2>5. a[j] = IF j <= ls THEN s[j] ELSE t[j - ls]
    BY <1>2
  <2>6. CASE i <= ls - n
    <3>1. i \in 1 .. ls - n /\ j <= ls
      BY <1>1, <2>1, <2>4, <2>6
    <3>2. d[i] = s[j]
      BY <1>5, <2>4, <3>1
    <3> QED
      BY <2>2, <2>3, <2>4, <2>5, <2>6, <3>1, <3>2
  <2>7. CASE ~(i <= ls - n)
    <3>1. ~(j <= ls) /\ j - ls = i - (ls - n)
      BY <1>1, <2>1, <2>4, <2>7
    <3> QED
      BY <2>2, <2>3, <2>4, <2>5, <2>7, <3>1
  <2> QED
    BY <2>6, <2>7
<1>12. e = f
  BY <1>7, <1>9, <1>10, <1>11, SeqEqual
<1> QED
  BY <1>12 DEF e, f, a, d

\* The end of a sequence, and what is before it.
LEMMA PartsOf ==
  ASSUME NEW S, NEW s \in Seq(S), NEW t \in Seq(S)
  PROVE  /\ s \o t \in Seq(S) /\ Len(s \o t) = Len(s) + Len(t) /\ Len(s) \in Nat /\ Len(t) \in Nat
         /\ SubSeq(s \o t, 1, Len(s \o t) - Len(t)) = s
         /\ LastOf(Len(t), s \o t) = t
<1> DEFINE a == s \o t
           ls == Len(s)
           lt == Len(t)
           la == Len(a)
<1>1. a \in Seq(S) /\ la = ls + lt /\ ls \in Nat /\ lt \in Nat
  BY ConcatProperties, LenProperties
<1>2. la - lt = ls /\ la - lt + 1 = ls + 1 /\ ls \in 0 .. ls
  <2> HIDE DEF a, la, ls, lt
  <2> QED
    BY <1>1
<1>3. SubSeq(a, 1, ls) = s
  OBVIOUS
<1>4. Dropped(ls, s) = <<>>
  <2>1. Dropped(ls, s) \in Seq(S) /\ Len(Dropped(ls, s)) = ls - ls
    BY <1>2, DroppedIs
  <2>2. Len(Dropped(ls, s)) = 0
    BY <1>1, <2>1
  <2> QED
    BY <2>1, <2>2, EmptySeq
<1>5. Dropped(ls, a) = <<>> \o t
  BY <1>2, <1>4, DroppedMore
<1>6. <<>> \o t = t
  BY ConcatEmptySeq
<1>7. LastOf(lt, a) = Dropped(ls, a)
  <2>1. LastOf(lt, a) = SubSeq(a, la - lt + 1, la)
    BY DEF LastOf
  <2> HIDE DEF a, la, ls, lt
  <2> QED
    BY <1>2, <2>1 DEF Dropped, la
<1>8. SubSeq(a, 1, la - lt) = s
  BY <1>2, <1>3
<1> QED
  BY <1>1, <1>5, <1>6, <1>7, <1>8

\* Inside a call of inflate.
Calling == pc \in {"run", "fast"}
Inside == Calling \/ pc = "back"

Headers == {"HEAD", "FLAGS", "TIME", "OS", "EXLEN", "EXTRA", "NAME", "COMMENT", "HCRC", "DICTID", "DICT"}
Endings == {"CHECK", "LENGTH", "DONE", "BAD"}

\* What the call in progress has written, and the dictionary that came before the output.
Latest == IF Calling THEN Written ELSE <<>>
Dictionary == IF st.havedict THEN session.dictionary ELSE <<>>

\* Everything written is older members, then total bytes of this one, then the call's.
Split(older, member) == /\ history = (older \o member) \o Latest
                        /\ Len(member) = st.total
                        /\ DataFollows => Holds(win, Dictionary \o member)

HistoryInv ==
  /\ \E older, member \in Seq(Byte) : Split(older, member)
  /\ st.mode \in Headers => st.total = 0 /\ Latest = <<>>
  /\ pc = "back" /\ ret = "NEED_DICT" => st.mode = "DICT" /\ ~st.havedict

\* A client that reads record by record has all that was written, but for what is in the buffer
\* of the call in progress; and a call that brings no progress began with an empty one.
Recorded == session.flush = "SYNC_FLUSH" /\ ~ended
RecordsInv ==
  Recorded =>
    /\ pc # "idle" => flush = "SYNC_FLUSH"
    /\ ~Inside => Concat(chunks) = history
    /\ Inside => /\ Concat(chunks) \o z.output = history
                 /\ call.flush = "SYNC_FLUSH"
                 /\ st.mode \in Headers /\ calls = "first" => call.out0 = 0
                 /\ call.out0 > 0 => call.in0 < Len(z.input)
    /\ Calling /\ st.mode = "CHECK" /\ Written # <<>> => Len(st.hold) <= 8 * (z.next - call.in0)
    /\ pc = "back" /\ ret = "BUF_ERROR" /\ Room # 0 => z.output = <<>>
    /\ pc = "back" /\ ret = "NEED_DICT" /\ calls = "first" => z.output = <<>>

-----------------------------------------------------------------------------
(* The kinds of steps that inflate makes.                                  *)

Kept == st'.total = st.total /\ st'.havedict = st.havedict

\* Nothing is written.
Working ==
  /\ Calling /\ Calling'
  /\ UNCHANGED <<win, call, history>>
  /\ z'.output = z.output /\ z'.input = z.input
  /\ Kept
  /\ st'.mode \in Headers => st.mode \in Headers
  /\ st.mode \in Endings => st'.mode \in Endings
  /\ st'.mode = "CHECK" => \/ st'.hold = <<>>
                           \/ st.mode = "CHECK" /\ Len(st'.hold) = Len(st.hold) + 8 /\ z'.next = z.next + 1

\* Bytes are written.
Writing(bytes) ==
  /\ Calling /\ UNCHANGED <<win, call, pc>>
  /\ z'.output = z.output \o bytes /\ z'.input = z.input /\ history' = history \o bytes
  /\ Kept
  /\ st.mode \notin Headers \cup Endings
  /\ st'.mode \notin Headers \cup Endings

\* The call is over.
Leaving(code) == pc = "run" /\ (code = "OK" => Stuck) /\ Leave(code)

\* A dictionary is asked for.
Asking == /\ pc = "run" /\ st.mode = "DICT" /\ ~st.havedict
          /\ ret' = "NEED_DICT" /\ pc' = "back"
          /\ UNCHANGED <<z, st, win, call, history>>

\* The check value is compared, over what the call has written.
Checking == /\ pc = "run" /\ st.mode = "CHECK" /\ Len(st.hold) = 32
            /\ st'.total = st.total + Len(Written) /\ st'.mode \in {"BAD", "LENGTH"}
            /\ st'.havedict = st.havedict
            /\ call' = [call EXCEPT !.out0 = Len(z.output)]
            /\ UNCHANGED <<z, win, pc, history>>

\* What the call has written stays as it is.
LEMMA WorkingWritten == ASSUME z'.output = z.output, call' = call PROVE Written' = Written
  BY DEF Written

\* What the call has written grows.
LEMMA WritingWritten ==
  ASSUME IInv, Calling, NEW bytes \in Seq(Byte), z'.output = z.output \o bytes, call' = call
  PROVE  Written' = Written \o bytes
<1>1. z.output \in Seq(Byte) /\ call.out0 \in 0 .. Len(z.output)
  BY InputIs DEF IInv, StreamInv, Calling
<1>2. Dropped(call.out0, z.output \o bytes) = Dropped(call.out0, z.output) \o bytes
  BY <1>1, DroppedMore
<1>3. Written = Dropped(call.out0, z.output)
  BY DEF Written, Dropped
<1>4. Written' = SubSeq(z.output \o bytes, call.out0 + 1, Len(z.output \o bytes))
  BY DEF Written
<1> QED
  BY <1>2, <1>3, <1>4 DEF Dropped

\* A call that begins has written nothing.
LEMMA CalledWritten == ASSUME call'.out0 = Len(z'.output), Len(z'.output) \in Nat PROVE Written' = <<>>
<1> DEFINE n == Len(z'.output)
<1>1. Written' = SubSeq(z'.output, call'.out0 + 1, n)
  BY DEF Written
<1>2. n + 1 \in Int /\ n \in Int /\ n < n + 1
  <2>1. n \in Nat
    OBVIOUS
  <2> HIDE DEF n
  <2> QED
    BY <2>1
<1>3. SubSeq(z'.output, n + 1, n) = <<>>
  <2> HIDE DEF n
  <2> QED
    BY <1>2, SubSeqEmpty
<1> QED
  BY <1>1, <1>3

\* A step that writes nothing.
LEMMA WorkingKeepsHistory == ASSUME IInv, HistoryInv, UNCHANGED streamVars, Working PROVE HistoryInv'
<1>1. /\ Calling /\ Calling' /\ win' = win /\ call' = call /\ history' = history /\ session' = session
      /\ z'.output = z.output /\ st'.total = st.total /\ st'.havedict = st.havedict
      /\ st'.mode \in Headers => st.mode \in Headers
      /\ st.mode \in Endings => st'.mode \in Endings
  BY DEF Working, Kept, streamVars
<1>2. Written' = Written
  BY <1>1, WorkingWritten
<1>3. Latest' = Latest
  BY <1>1, <1>2 DEF Latest
<1>4. Dictionary' = Dictionary
  BY <1>1 DEF Dictionary
<1>5. DataFollows' => DataFollows
  BY <1>1 DEF DataFollows, Endings
<1>6. PICK older \in Seq(Byte), member \in Seq(Byte) : Split(older, member)
  BY DEF HistoryInv
<1>7. Split(older, member)'
  BY <1>1, <1>3, <1>4, <1>5, <1>6 DEF Split
<1>8. st'.mode \in Headers => st'.total = 0 /\ Latest' = <<>>
  BY <1>1, <1>3 DEF HistoryInv
<1>9. ~(pc = "back")'
  BY <1>1 DEF Calling
<1> QED
  BY <1>7, <1>8, <1>9 DEF HistoryInv

\* A step that writes.
LEMMA WritingKeepsHistory ==
  ASSUME IInv, HistoryInv, UNCHANGED streamVars, NEW bytes \in Seq(Byte), Writing(bytes)
  PROVE  HistoryInv'
<1>1. /\ Calling /\ pc' = pc /\ win' = win /\ call' = call /\ history' = history \o bytes /\ session' = session
      /\ z'.output = z.output \o bytes /\ st'.total = st.total /\ st'.havedict = st.havedict
      /\ st'.mode \notin Headers \cup Endings /\ st.mode \notin Headers \cup Endings
  BY DEF Writing, Kept, streamVars
<1>2. Written' = Written \o bytes /\ Calling'
  BY <1>1, WritingWritten DEF Calling
<1>3. Latest' = Latest \o bytes /\ Latest = Written
  BY <1>1, <1>2 DEF Latest
<1>4. Dictionary' = Dictionary
  BY <1>1 DEF Dictionary
<1>5. DataFollows
  BY <1>1 DEF DataFollows, Endings
<1>6. PICK older \in Seq(Byte), member \in Seq(Byte) : Split(older, member)
  BY DEF HistoryInv
<1>7. history' = (older \o member) \o Latest'
  <2>1. older \o member \in Seq(Byte) /\ Latest \in Seq(Byte)
    <3>1. Written \in Seq(Byte)
      BY <1>1, WrittenIs DEF Calling
    <3> QED
      BY <1>3, <3>1, ConcatProperties
  <2>2. history = (older \o member) \o Latest
    BY <1>6 DEF Split
  <2> DEFINE before == older \o member
             w == Latest
  <2>3. before \in Seq(Byte) /\ w \in Seq(Byte)
    BY <2>1
  <2> HIDE DEF before, w
  <2>4. (before \o w) \o bytes = before \o (w \o bytes)
    BY <2>3, ConcatAssociative, SMTT(20)
  <2> QED
    BY <1>1, <1>3, <2>2, <2>4 DEF before, w
<1>8. Split(older, member)'
  BY <1>1, <1>4, <1>5, <1>6, <1>7 DEF Split
<1>9. ~(st'.mode \in Headers) /\ ~(pc = "back")'
  BY <1>1 DEF Calling
<1> QED
  BY <1>8, <1>9 DEF HistoryInv

\* What the window holds of a member that has grown.
LEMMA MemberGrows ==
  ASSUME IInv, HistoryInv, Calling, NEW older \in Seq(Byte), NEW member \in Seq(Byte), Split(older, member)
  PROVE  /\ Written \in Seq(Byte) /\ member \o Written \in Seq(Byte)
         /\ Len(member \o Written) = st.total + Len(Written)
         /\ history = (older \o (member \o Written)) \o <<>>
         /\ Dictionary \in Seq(Byte)
         /\ Dictionary \o (member \o Written) = (Dictionary \o member) \o Written
         /\ Dictionary \o member \in Seq(Byte)
<1>1. Written \in Seq(Byte)
  BY WrittenIs DEF Calling
<1>2. member \o Written \in Seq(Byte) /\ Len(member \o Written) = Len(member) + Len(Written)
  BY <1>1, ConcatProperties
<1>3. Len(member) = st.total /\ history = (older \o member) \o Written
  BY DEF Split, Latest
<1>4. Dictionary \in Seq(Byte)
  BY SessionIs, EmptySeq DEF Dictionary
<1>5. older \o (member \o Written) \in Seq(Byte) /\ Dictionary \o member \in Seq(Byte)
  BY <1>2, <1>4, ConcatProperties
<1> DEFINE w == Written
           d == Dictionary
<1>a. w \in Seq(Byte) /\ d \in Seq(Byte)
  BY <1>1, <1>4
<1> HIDE DEF w, d
<1>b. (older \o member) \o w = older \o (member \o w)
  BY <1>a, ConcatAssociative
<1>c. (d \o member) \o w = d \o (member \o w)
  BY <1>a, ConcatAssociative
<1>6. (older \o member) \o Written = older \o (member \o Written)
  BY <1>b DEF w
<1>7. (Dictionary \o member) \o Written = Dictionary \o (member \o Written)
  BY <1>c DEF w, d
<1>8. (older \o (member \o Written)) \o <<>> = older \o (member \o Written)
  BY <1>5, ConcatEmptySeq
<1> QED
  BY <1>1, <1>2, <1>3, <1>4, <1>5, <1>6, <1>7, <1>8

\* The way out of a call: the member and the window take in what was written.
LEMMA LeavingKeepsHistory ==
  ASSUME IInv, HistoryInv, UNCHANGED streamVars, NEW code \in {"OK", "STREAM_END", "DATA_ERROR"}, Leaving(code)
  PROVE  HistoryInv'
<1> DEFINE u == UpdateWindow(win, 2^st.wbits, Written)
<1>1. /\ pc = "run" /\ pc' = "back" /\ history' = history /\ session' = session
      /\ ret' \in {"OK", "STREAM_END", "DATA_ERROR", "BUF_ERROR"}
      /\ win' = u \/ (win' = win /\ win.size = 0)
  BY DEF Leaving, Leave, streamVars
<1>2. st \in States
  BY DEF IInv, StateInv
<1>3. st'.total = st.total + Len(Written) /\ st'.havedict = st.havedict /\ st'.mode = st.mode
  BY <1>2 DEF Leaving, Leave, States
<1>4. Calling /\ Latest' = <<>> /\ Latest = Written
  BY <1>1 DEF Calling, Latest
<1>5. Dictionary' = Dictionary
  BY <1>1, <1>3 DEF Dictionary
<1>6. DataFollows' <=> DataFollows
  BY <1>3 DEF DataFollows
<1>7. PICK older \in Seq(Byte), member \in Seq(Byte) : Split(older, member)
  BY DEF HistoryInv
<1>8. /\ Written \in Seq(Byte) /\ member \o Written \in Seq(Byte)
      /\ Len(member \o Written) = st.total + Len(Written)
      /\ history = (older \o (member \o Written)) \o <<>>
      /\ Dictionary \in Seq(Byte)
      /\ Dictionary \o (member \o Written) = (Dictionary \o member) \o Written
      /\ Dictionary \o member \in Seq(Byte)
  BY <1>4, <1>7, MemberGrows
<1>9. DataFollows => Holds(win', Dictionary \o (member \o Written))
  <2> SUFFICES ASSUME DataFollows PROVE Holds(win', (Dictionary \o member) \o Written)
    BY <1>8
  <2>1. Holds(win, Dictionary \o member) /\ win \in Windows(Byte)
    BY <1>7 DEF Split, IInv, WindowInv
  <2>2. CASE win' = u
    <3>1. st.wbits \in Nat
      BY <1>2 DEF States
    <3>2. 2^st.wbits \in Nat
      BY <3>1, PowerOf
    <3>3. 0 \in Byte
      BY DEF Byte
    <3>4. Holds(u, (Dictionary \o member) \o Written)
      BY <1>8, <2>1, <3>2, <3>3, WindowKeepsTheEnd
    <3> HIDE DEF u
    <3> QED
      BY <2>2, <3>4
  <2>3. CASE win' = win /\ win.size = 0
    <3>1. win.have = 0
      BY <2>3, WindowIs
    <3> QED
      BY <2>3, <3>1 DEF Holds
  <2> QED
    BY <1>1, <2>2, <2>3
<1>10. \E more \in Seq(Byte) : Split(older, more)'
  <2>1. PICK more \in Seq(Byte) : more = member \o Written
    BY <1>8
  <2>2. history' = (older \o more) \o Latest' /\ Len(more) = st'.total
    BY <1>1, <1>3, <1>4, <1>8, <2>1
  <2>3. DataFollows' => Holds(win', Dictionary' \o more)
    BY <1>5, <1>6, <1>9, <2>1
  <2>4. Split(older, more)'
    BY <2>2, <2>3 DEF Split
  <2> QED
    BY <2>4
<1>11. st'.mode \in Headers => st'.total = 0 /\ Latest' = <<>>
  <2> SUFFICES ASSUME st.mode \in Headers PROVE st'.total = 0
    BY <1>3, <1>4
  <2>1. st.total = 0 /\ Written = <<>>
    BY <1>4 DEF HistoryInv
  <2>2. Len(Written) = 0
    BY <2>1, EmptySeq
  <2> QED
    BY <1>3, <2>1, <2>2
<1>12. ~(ret' = "NEED_DICT")
  BY <1>1
<1> QED
  BY <1>10, <1>11, <1>12 DEF HistoryInv

\* A dictionary is asked for before anything is written.
LEMMA AskingKeepsHistory == ASSUME IInv, HistoryInv, UNCHANGED streamVars, Asking PROVE HistoryInv'
<1>1. /\ pc = "run" /\ pc' = "back" /\ st.mode = "DICT" /\ ~st.havedict
      /\ st' = st /\ win' = win /\ history' = history /\ session' = session
  BY DEF Asking, streamVars
<1>2. st.total = 0 /\ Latest = <<>>
  BY <1>1 DEF HistoryInv, Headers
<1>3. Latest' = Latest
  BY <1>1, <1>2 DEF Latest, Calling
<1>4. Dictionary' = Dictionary /\ (DataFollows' <=> DataFollows)
  BY <1>1 DEF Dictionary, DataFollows
<1>5. PICK older \in Seq(Byte), member \in Seq(Byte) : Split(older, member)
  BY DEF HistoryInv
<1>6. Split(older, member)'
  BY <1>1, <1>3, <1>4, <1>5 DEF Split
<1> QED
  BY <1>1, <1>2, <1>3, <1>6 DEF HistoryInv

\* The check value takes in what was written; no data follow.
LEMMA CheckingKeepsHistory == ASSUME IInv, HistoryInv, UNCHANGED streamVars, Checking PROVE HistoryInv'
<1>1. /\ pc = "run" /\ pc' = "run" /\ st'.total = st.total + Len(Written) /\ st'.mode \in {"BAD", "LENGTH"}
      /\ call' = [call EXCEPT !.out0 = Len(z.output)] /\ z' = z /\ history' = history
  BY DEF Checking
<1>2. call \in Calls /\ Len(z.output) \in Nat
  BY InputIs DEF IInv, StreamInv
<1>3. Written' = <<>>
  <2>1. call'.out0 = Len(z'.output) /\ Len(z'.output) \in Nat
    BY <1>1, <1>2 DEF Calls
  <2> QED
    BY <2>1, CalledWritten
<1>4. Calling /\ Latest' = <<>>
  BY <1>1, <1>3 DEF Calling, Latest
<1>5. ~DataFollows' /\ st'.mode \notin Headers
  BY <1>1 DEF DataFollows, Headers
<1>6. PICK older \in Seq(Byte), member \in Seq(Byte) : Split(older, member)
  BY DEF HistoryInv
<1>7. /\ member \o Written \in Seq(Byte)
      /\ Len(member \o Written) = st.total + Len(Written)
      /\ history = (older \o (member \o Written)) \o <<>>
  BY <1>4, <1>6, MemberGrows
<1>8. PICK more \in Seq(Byte) : more = member \o Written
  BY <1>7
<1>9. Split(older, more)'
  <2>1. history' = (older \o more) \o Latest' /\ Len(more) = st'.total
    BY <1>1, <1>4, <1>7, <1>8
  <2> QED
    BY <1>5, <2>1 DEF Split
<1> QED
  BY <1>1, <1>5, <1>9 DEF HistoryInv

\* Outside a call nothing is written.
LEMMA OutsideKeepsHistory ==
  ASSUME IInv, HistoryInv, ~Calling, ~Calling', UNCHANGED <<st, win, history, session>>, pc' # "back"
  PROVE  HistoryInv'
<1>1. st' = st /\ win' = win /\ history' = history /\ session' = session
  OBVIOUS
<1>2. Latest' = Latest
  BY DEF Latest
<1>3. Dictionary' = Dictionary /\ (DataFollows' <=> DataFollows)
  BY <1>1 DEF Dictionary, DataFollows
<1>4. PICK older \in Seq(Byte), member \in Seq(Byte) : Split(older, member)
  BY DEF HistoryInv
<1>5. Split(older, member)'
  BY <1>1, <1>2, <1>3, <1>4 DEF Split
<1> QED
  BY <1>1, <1>2, <1>5 DEF HistoryInv

\* A call begins, with what the member was, or with another member.
LEMMA CallBegins ==
  ASSUME IInv, HistoryInv, ~Calling, pc' = "run", UNCHANGED <<history, session>>,
         call'.out0 = Len(z'.output), Len(z'.output) \in Nat,
         (st' = st /\ win' = win) \/ (st'.total = 0 /\ win'.have = 0)
  PROVE  HistoryInv'
<1>1. history' = history /\ session' = session
  OBVIOUS
<1>2. Written' = <<>>
  BY CalledWritten
<1>3. Latest' = <<>> /\ Latest = <<>>
  BY <1>2 DEF Latest
<1>4. PICK older \in Seq(Byte), member \in Seq(Byte) : Split(older, member)
  BY DEF HistoryInv
<1>5. CASE st' = st /\ win' = win
  <2>1. Dictionary' = Dictionary /\ (DataFollows' <=> DataFollows)
    BY <1>1, <1>5 DEF Dictionary, DataFollows
  <2>2. Split(older, member)'
    BY <1>1, <1>3, <1>4, <1>5, <2>1 DEF Split
  <2> QED
    BY <1>3, <1>5, <2>2 DEF HistoryInv
<1>6. CASE st'.total = 0 /\ win'.have = 0
  <2>1. \A x : Holds(win', x)
    BY <1>6 DEF Holds
  <2>2. older \o member \in Seq(Byte) /\ <<>> \in Seq(Byte) /\ Len(<<>>) = 0
    BY ConcatProperties, EmptySeq
  <2>3. PICK all \in Seq(Byte) : all = older \o member
    BY <2>2
  <2>4. history' = (all \o <<>>) \o Latest'
    <3>1. history = all \o <<>>
      BY <1>3, <1>4, <2>3 DEF Split
    <3>2. all \o <<>> = all
      BY ConcatEmptySeq
    <3> QED
      BY <1>1, <1>3, <3>1, <3>2
  <2>5. Split(all, <<>>)'
    BY <1>6, <2>1, <2>2, <2>4 DEF Split
  <2> QED
    BY <1>3, <1>6, <2>2, <2>5 DEF HistoryInv
<1> QED
  BY <1>5, <1>6

\* The client's steps.
LEMMA ClientKeepsHistory ==
  ASSUME IInv, HistoryInv, Push \/ CallInflate \/ NextMember \/ Fail \/ Deliver
  PROVE  HistoryInv'
<1>1. CASE Push
  <2>1. ~Calling /\ ~Calling' /\ pc' # "back" /\ UNCHANGED <<st, win, history, session>>
    BY <1>1 DEF Push, Calling
  <2> QED
    BY <2>1, OutsideKeepsHistory
<1>2. CASE Fail
  <2>1. ~Calling /\ ~Calling' /\ pc' # "back" /\ UNCHANGED <<st, win, history, session>>
    BY <1>2 DEF Fail, End, Calling
  <2> QED
    BY <2>1, OutsideKeepsHistory
<1>3. CASE Deliver
  <2>1. ~Calling /\ ~Calling' /\ pc' # "back" /\ UNCHANGED <<st, win, history, session>>
    BY <1>3 DEF Deliver, End, Calling
  <2> QED
    BY <2>1, OutsideKeepsHistory
<1>4. CASE CallInflate
  <2>1. ~Calling /\ Called(flush) /\ UNCHANGED <<st, win, history, session>>
    BY <1>4 DEF CallInflate, Calling
  <2>2. IInv'
    BY <1>4, CallInflateKeeps
  <2>3. z' \in Streams /\ flush \in FlushModes
    BY <2>2 DEF IInv, StreamInv, ClientInv
  <2>4. pc' = "run" /\ call'.out0 = Len(z'.output) /\ Len(z'.output) \in Nat
    BY <2>1, <2>3, CalledIs
  <2>5. st' = st /\ win' = win
    BY <2>1
  <2> QED
    BY <2>1, <2>4, <2>5, CallBegins
<1>5. CASE NextMember
  <2>1. ~Calling /\ Called(flush) /\ UNCHANGED <<z, history, session>> /\ st' = Restarted(st) /\ win' = Forgotten(win)
    BY <1>5 DEF NextMember, Calling
  <2>2. z' \in Streams /\ flush \in FlushModes
    BY <2>1 DEF IInv, StreamInv, ClientInv
  <2>3. pc' = "run" /\ call'.out0 = Len(z'.output) /\ Len(z'.output) \in Nat
    BY <2>1, <2>2, CalledIs
  <2>4. st'.total = 0
    BY <2>1 DEF Restarted, IInv, StateInv, States
  <2>5. win'.have = 0
    BY <2>1 DEF Forgotten, IInv, WindowInv, Windows
  <2> QED
    BY <2>1, <2>3, <2>4, <2>5, CallBegins
<1> QED
  BY <1>1, <1>2, <1>3, <1>4, <1>5

\* A dictionary is the first that the window holds.
LEMMA DictionaryKeepsHistory == ASSUME IInv, HistoryInv, SetDictionary PROVE HistoryInv'
<1> DEFINE u == UpdateWindow(win, 2^st.wbits, session.dictionary)
<1>1. CASE Adler32(One, session.dictionary) = st.check
  <2>1. /\ pc = "back" /\ Called(flush) /\ UNCHANGED <<z, history, session>> /\ ret = "NEED_DICT"
        /\ win' = u /\ st' = [st EXCEPT !.havedict = TRUE]
    BY <1>1 DEF SetDictionary, WantsDictionary, WithDictionary
  <2>2. z' \in Streams /\ flush \in FlushModes
    BY <2>1 DEF IInv, StreamInv, ClientInv
  <2>3. pc' = "run" /\ call'.out0 = Len(z'.output) /\ Len(z'.output) \in Nat
    BY <2>1, <2>2, CalledIs
  <2>4. Written' = <<>>
    BY <2>3, CalledWritten
  <2>5. Latest' = <<>> /\ Latest = <<>>
    BY <2>1, <2>4 DEF Latest, Calling
  <2>6. st.mode = "DICT" /\ ~st.havedict /\ st.total = 0
    BY <2>1 DEF HistoryInv, Headers
  <2>7. st \in States /\ win \in Windows(Byte)
    BY DEF IInv, StateInv, WindowInv
  <2>8. st'.mode = "DICT" /\ st'.havedict /\ st'.total = 0 /\ st.wbits \in Nat
    BY <2>1, <2>6, <2>7 DEF States
  <2>9. Dictionary = <<>> /\ Dictionary' = session.dictionary /\ session.dictionary \in Seq(Byte)
    BY <2>1, <2>6, <2>8, SessionIs DEF Dictionary
  <2>10. PICK older \in Seq(Byte), member \in Seq(Byte) : Split(older, member)
    BY DEF HistoryInv
  <2>11. member = <<>>
    <3>1. Len(member) = 0
      BY <2>6, <2>10 DEF Split
    <3> QED
      BY <3>1, EmptySeq
  <2>12. Holds(win, <<>>)
    <3>1. DataFollows
      BY <2>6 DEF DataFollows
    <3>2. <<>> \o <<>> = <<>>
      BY EmptySeq, ConcatEmptySeq
    <3> QED
      BY <2>9, <2>10, <2>11, <3>1, <3>2 DEF Split
  <2>13. Holds(u, <<>> \o session.dictionary)
    <3>1. 2^st.wbits \in Nat
      BY <2>8, PowerOf
    <3>2. <<>> \in Seq(Byte)
      BY EmptySeq
    <3>3. 0 \in Byte
      BY DEF Byte
    <3> QED
      BY <2>7, <2>9, <2>12, <3>1, <3>2, <3>3, WindowKeepsTheEnd
  <2> HIDE DEF u
  <2>14. Holds(win', Dictionary' \o member)
    <3>1. <<>> \o session.dictionary = session.dictionary /\ session.dictionary \o <<>> = session.dictionary
      BY <2>9, ConcatEmptySeq
    <3> QED
      BY <2>1, <2>9, <2>11, <2>13, <3>1
  <2>15. Split(older, member)'
    <3>1. history' = (older \o member) \o Latest' /\ Len(member) = st'.total
      BY <2>1, <2>5, <2>6, <2>8, <2>10 DEF Split
    <3> QED
      BY <2>14, <3>1 DEF Split
  <2> QED
    BY <2>3, <2>5, <2>8, <2>15 DEF HistoryInv
<1>2. CASE Adler32(One, session.dictionary) # st.check
  <2>1. ~Calling /\ ~Calling' /\ pc' # "back" /\ UNCHANGED <<st, win, history, session>>
    BY <1>2 DEF SetDictionary, End, Calling
  <2> QED
    BY <2>1, OutsideKeepsHistory
<1> QED
  BY <1>1, <1>2

\* A new object.
LEMMA InitHasHistory == ASSUME Init PROVE HistoryInv
<1> DEFINE new == Created(session)
           h == session.raw /\ session.dictionary # <<>>
           u == UpdateWindow(NoWindow, 2^new.wbits, session.dictionary)
<1>1. /\ session \in Sessions /\ st = [new EXCEPT !.havedict = h]
      /\ win = (IF h THEN u ELSE NoWindow)
      /\ pc = "idle" /\ history = <<>>
  BY DEF Init, WithDictionary
<1>2. /\ session.raw \in BOOLEAN /\ session.dictionary \in Seq(Byte)
  BY <1>1, SessionAssumption
<1>3. /\ new \in States /\ new.hold = <<>> /\ new.mode = "HEAD"
  BY <1>1, CreatedIs
<1>4. st.total = 0 /\ st.mode = "HEAD" /\ st.havedict = h
  <2>1. new.total = 0
    BY <1>1, CreatedIs
  <2> HIDE DEF new, h
  <2> QED
    BY <1>1, <1>3, <2>1 DEF States
<1> HIDE DEF new
<1>5. h \in BOOLEAN
  BY <1>2
<1>6. Latest = <<>> /\ <<>> \in Seq(Byte) /\ Len(<<>>) = 0
  BY <1>1, EmptySeq DEF Latest, Calling
<1>7. Holds(NoWindow, <<>>) /\ NoWindow.have = 0
  BY DEF NoWindow, Holds
<1>8. Holds(win, Dictionary \o <<>>)
  <2>1. CASE h
    <3>1. Dictionary = session.dictionary
      BY <1>4, <2>1 DEF Dictionary
    <3>2. new.wbits \in Nat
      BY <1>3 DEF States
    <3>3. 2^new.wbits \in Nat
      BY <3>2, PowerOf
    <3>4. 0 \in Byte
      BY DEF Byte
    <3> HIDE DEF NoWindow
    <3>5. Holds(u, <<>> \o session.dictionary)
      BY <1>2, <1>6, <1>7, <3>3, <3>4, NoWindowIs, WindowKeepsTheEnd
    <3>6. <<>> \o session.dictionary = session.dictionary /\ session.dictionary \o <<>> = session.dictionary
      BY <1>2, ConcatEmptySeq
    <3>7. win = u
      BY <1>1, <2>1
    <3> HIDE DEF u
    <3> QED
      BY <3>1, <3>5, <3>6, <3>7
  <2>2. CASE ~h
    <3>1. win = NoWindow
      BY <1>1, <2>2
    <3> QED
      BY <1>7, <3>1 DEF Holds
  <2> QED
    BY <2>1, <2>2
<1>9. Split(<<>>, <<>>)
  <2>1. <<>> \o <<>> = <<>>
    BY <1>6, ConcatEmptySeq
  <2>2. history = (<<>> \o <<>>) \o Latest
    BY <1>1, <1>6, <2>1
  <2> HIDE DEF u, h
  <2> QED
    BY <1>4, <1>6, <1>8, <2>2 DEF Split
<1>10. \E older, member \in Seq(Byte) : Split(older, member)
  BY <1>6, <1>9
<1> QED
  BY <1>1, <1>4, <1>6, <1>10 DEF HistoryInv

-----------------------------------------------------------------------------
(* Reading record by record.                                               *)

\* A buffer that a call began with empty, and has written nothing to, is empty.
LEMMA StillEmpty ==
  ASSUME IInv, Calling, Written = <<>>, call.out0 = 0
  PROVE  z.output = <<>>
<1>1. z.output \in Seq(Byte) /\ Len(z.output) \in Nat
  BY InputIs
<1>2. Len(Written) = Len(z.output) - call.out0 /\ Len(Written) = 0
  BY WrittenIs, EmptySeq DEF Calling
<1> DEFINE n == Len(z.output)
<1>3. n = 0
  <2>1. n - 0 = 0 /\ n \in Nat
    BY <1>1, <1>2
  <2> HIDE DEF n
  <2> QED
    BY <2>1
<1> QED
  BY <1>1, <1>3, EmptySeq

\* A step that writes nothing.
LEMMA WorkingKeepsRecords == ASSUME IInv, IInv', RecordsInv, UNCHANGED streamVars, Working PROVE RecordsInv'
<1>1. /\ Calling /\ Calling' /\ call' = call /\ history' = history
      /\ session' = session /\ flush' = flush /\ ended' = ended /\ chunks' = chunks /\ calls' = calls
      /\ z'.output = z.output /\ z'.input = z.input
      /\ st'.mode \in Headers => st.mode \in Headers
      /\ st'.mode = "CHECK" => \/ st'.hold = <<>>
                               \/ st.mode = "CHECK" /\ Len(st'.hold) = Len(st.hold) + 8 /\ z'.next = z.next + 1
  BY DEF Working, streamVars
<1> SUFFICES ASSUME Recorded PROVE RecordsInv'
  BY <1>1 DEF RecordsInv, Recorded
<1>2. Written' = Written /\ pc # "idle" /\ Inside /\ pc' # "idle" /\ pc' # "back" /\ Inside'
  BY <1>1, WorkingWritten DEF Inside, Calling
<1>3. /\ flush = "SYNC_FLUSH" /\ Concat(chunks) \o z.output = history /\ call.flush = "SYNC_FLUSH"
      /\ st.mode \in Headers /\ calls = "first" => call.out0 = 0
      /\ call.out0 > 0 => call.in0 < Len(z.input)
      /\ st.mode = "CHECK" /\ Written # <<>> => Len(st.hold) <= 8 * (z.next - call.in0)
  BY <1>1, <1>2 DEF RecordsInv
<1>4. st'.mode = "CHECK" /\ Written' # <<>> => Len(st'.hold) <= 8 * (z'.next - call'.in0)
  <2> SUFFICES ASSUME st'.mode = "CHECK", Written' # <<>> PROVE Len(st'.hold) <= 8 * (z'.next - call.in0)
    BY <1>1
  <2> DEFINE m == z'.next
             n == z.next
             h == Len(st.hold)
             i == Len(st'.hold)
  <2>1. call.in0 \in Nat /\ n \in Nat
    BY InputIs
  <2>2. call.in0 <= m /\ m \in Nat
    BY <1>1 DEF IInv, StreamInv, Streams, Calling
  <2>3. h \in Nat
    BY HoldFits, LenProperties
  <2>4. CASE st'.hold = <<>>
    <3>1. i = 0
      BY <2>4, EmptySeq
    <3> HIDE DEF m, i
    <3> QED
      BY <2>1, <2>2, <3>1 DEF m, i
  <2>5. CASE st.mode = "CHECK" /\ Len(st'.hold) = Len(st.hold) + 8 /\ z'.next = z.next + 1
    <3>1. h <= 8 * (n - call.in0)
      BY <1>2, <1>3, <2>5
    <3>2. i = h + 8 /\ m = n + 1
      BY <2>5
    <3>3. i <= 8 * (m - call.in0)
      <4> HIDE DEF m, n, h, i
      <4> QED
        BY <2>1, <2>3, <3>1, <3>2
    <3> QED
      BY <3>3
  <2> QED
    BY <1>1, <2>4, <2>5
<1> QED
  BY <1>1, <1>2, <1>3, <1>4 DEF RecordsInv

\* A step that writes.
LEMMA WritingKeepsRecords ==
  ASSUME IInv, RecordsInv, UNCHANGED streamVars, NEW bytes \in Seq(Byte), Writing(bytes)
  PROVE  RecordsInv'
<1>1. /\ Calling /\ pc' = pc /\ call' = call /\ history' = history \o bytes
      /\ session' = session /\ flush' = flush /\ ended' = ended /\ chunks' = chunks /\ calls' = calls
      /\ z'.output = z.output \o bytes /\ z'.input = z.input
      /\ st'.mode \notin Headers /\ st'.mode # "CHECK"
  BY DEF Writing, Endings, streamVars
<1> SUFFICES ASSUME Recorded PROVE RecordsInv'
  BY <1>1 DEF RecordsInv, Recorded
<1>2. Calling' /\ pc # "idle" /\ Inside /\ pc' # "idle" /\ pc' # "back" /\ Inside'
  BY <1>1 DEF Inside, Calling
<1>3. /\ flush = "SYNC_FLUSH" /\ Concat(chunks) \o z.output = history /\ call.flush = "SYNC_FLUSH"
      /\ call.out0 > 0 => call.in0 < Len(z.input)
  BY <1>1, <1>2 DEF RecordsInv
<1>4. Concat(chunks) \in Seq(Byte) /\ z.output \in Seq(Byte)
  BY ConcatMore, InputIs DEF IInv, ClientInv
<1>5. (Concat(chunks) \o z.output) \o bytes = Concat(chunks) \o (z.output \o bytes)
  <2> DEFINE c == Concat(chunks)
             o == z.output
  <2>1. c \in Seq(Byte) /\ o \in Seq(Byte)
    BY <1>4
  <2> HIDE DEF c, o
  <2>2. (c \o o) \o bytes = c \o (o \o bytes)
    BY <2>1, ConcatAssociative
  <2> QED
    BY <2>2 DEF c, o
<1> QED
  BY <1>1, <1>2, <1>3, <1>5 DEF RecordsInv

\* A call that starves having read and written nothing began with nothing to read, and so
\* with an empty buffer.
LEMMA LeavingKeepsRecords ==
  ASSUME IInv, RecordsInv, UNCHANGED streamVars, NEW code \in {"OK", "STREAM_END", "DATA_ERROR"}, Leaving(code)
  PROVE  RecordsInv'
<1>1. /\ pc = "run" /\ pc' = "back" /\ z' = z /\ call' = call /\ history' = history
      /\ session' = session /\ flush' = flush /\ ended' = ended /\ chunks' = chunks /\ calls' = calls
      /\ code = "OK" => Stuck
      /\ ret' = IF code = "OK" /\ (call.flush = "FINISH" \/ (Written = <<>> /\ z.next = call.in0))
                  THEN "BUF_ERROR" ELSE code
  BY DEF Leaving, Leave, streamVars
<1>2. st'.mode = st.mode
  BY DEF Leaving, Leave, IInv, StateInv, States
<1> SUFFICES ASSUME Recorded PROVE RecordsInv'
  BY <1>1 DEF RecordsInv, Recorded
<1>3. Calling /\ ~Calling' /\ pc # "idle" /\ Inside /\ Inside' /\ pc' # "idle" /\ Room' = Room
  BY <1>1 DEF Inside, Calling, Room
<1>4. /\ flush = "SYNC_FLUSH" /\ Concat(chunks) \o z.output = history /\ call.flush = "SYNC_FLUSH"
      /\ st.mode \in Headers /\ calls = "first" => call.out0 = 0
      /\ call.out0 > 0 => call.in0 < Len(z.input)
  BY <1>3 DEF RecordsInv
<1>5. ret' # "NEED_DICT"
  BY <1>1
<1>6. ret' = "BUF_ERROR" /\ Room # 0 => z.output = <<>>
  <2> SUFFICES ASSUME ret' = "BUF_ERROR", Room # 0 PROVE z.output = <<>>
    OBVIOUS
  <2>1. code = "OK" /\ Written = <<>> /\ z.next = call.in0
    BY <1>1, <1>4
  <2>2. Have = 0
    BY <1>1, <2>1 DEF Stuck
  <2>3. call.out0 = 0
    <3>1. Have = Len(z.input) - z.next /\ Len(z.input) \in Nat /\ z.next \in Nat /\ call.out0 \in Nat
      BY InputIs
    <3> DEFINE n == Len(z.input)
    <3>2. call.out0 > 0 => z.next < n
      BY <1>4, <2>1
    <3>3. n - z.next = 0 /\ n \in Nat
      BY <2>2, <3>1
    <3> HIDE DEF n
    <3> QED
      BY <3>1, <3>2, <3>3
  <2> QED
    BY <1>3, <2>1, <2>3, StillEmpty
<1> QED
  BY <1>1, <1>2, <1>3, <1>4, <1>5, <1>6 DEF RecordsInv

\* A dictionary is asked for before anything is written.
LEMMA AskingKeepsRecords == ASSUME IInv, HistoryInv, RecordsInv, UNCHANGED streamVars, Asking PROVE RecordsInv'
<1>1. /\ pc = "run" /\ pc' = "back" /\ z' = z /\ call' = call /\ history' = history /\ st' = st
      /\ session' = session /\ flush' = flush /\ ended' = ended /\ chunks' = chunks /\ calls' = calls
      /\ ret' = "NEED_DICT" /\ st.mode = "DICT"
  BY DEF Asking, streamVars
<1> SUFFICES ASSUME Recorded PROVE RecordsInv'
  BY <1>1 DEF RecordsInv, Recorded
<1>2. Calling /\ ~Calling' /\ pc # "idle" /\ Inside /\ Inside' /\ pc' # "idle"
  BY <1>1 DEF Inside, Calling
<1>3. /\ flush = "SYNC_FLUSH" /\ Concat(chunks) \o z.output = history /\ call.flush = "SYNC_FLUSH"
      /\ calls = "first" => call.out0 = 0
      /\ call.out0 > 0 => call.in0 < Len(z.input)
  BY <1>1, <1>2 DEF RecordsInv, Headers
<1>4. Written = <<>>
  BY <1>1, <1>2 DEF HistoryInv, Headers, Latest
<1>5. calls = "first" => z.output = <<>>
  BY <1>2, <1>3, <1>4, StillEmpty
<1> QED
  BY <1>1, <1>2, <1>3, <1>5 DEF RecordsInv

\* The trailer of what was written in this call was read in this call.
LEMMA CheckingKeepsRecords == ASSUME IInv, RecordsInv, UNCHANGED streamVars, Checking PROVE RecordsInv'
<1>1. /\ pc = "run" /\ pc' = "run" /\ z' = z /\ history' = history
      /\ session' = session /\ flush' = flush /\ ended' = ended /\ chunks' = chunks /\ calls' = calls
      /\ call' = [call EXCEPT !.out0 = Len(z.output)]
      /\ st.mode = "CHECK" /\ Len(st.hold) = 32 /\ st'.mode \in {"BAD", "LENGTH"}
  BY DEF Checking, streamVars
<1>2. call'.out0 = Len(z.output) /\ call'.in0 = call.in0 /\ call'.flush = call.flush
  BY <1>1 DEF IInv, StreamInv, Calls
<1> SUFFICES ASSUME Recorded PROVE RecordsInv'
  BY <1>1 DEF RecordsInv, Recorded
<1>3. Calling /\ Calling' /\ pc # "idle" /\ Inside /\ Inside' /\ pc' # "idle"
  BY <1>1 DEF Inside, Calling
<1>4. /\ flush = "SYNC_FLUSH" /\ Concat(chunks) \o z.output = history /\ call.flush = "SYNC_FLUSH"
      /\ call.out0 > 0 => call.in0 < Len(z.input)
      /\ Written # <<>> => Len(st.hold) <= 8 * (z.next - call.in0)
  BY <1>1, <1>3 DEF RecordsInv
<1>5. call'.out0 > 0 => call.in0 < Len(z.input)
  <2> DEFINE o == Len(z.output)
             n == Len(z.input)
  <2>1. o \in Nat /\ n \in Nat /\ z.next \in Nat /\ z.next <= n /\ call.in0 \in Nat /\ call.out0 \in Nat
    BY InputIs
  <2>2. CASE Written = <<>>
    <3>1. Len(Written) = o - call.out0 /\ Len(Written) = 0
      BY <1>1, <2>2, WrittenIs, EmptySeq
    <3>2. o - call.out0 = 0
      BY <3>1
    <3>3. o = call.out0
      <4> HIDE DEF o
      <4> QED
        BY <2>1, <3>2
    <3> QED
      BY <1>2, <1>4, <3>3
  <2>3. CASE Written # <<>>
    <3>1. 32 <= 8 * (z.next - call.in0)
      BY <1>1, <1>4, <2>3
    <3>2. call.in0 < n
      <4> HIDE DEF n
      <4> QED
        BY <2>1, <3>1
    <3> QED
      BY <3>2
  <2> QED
    BY <2>2, <2>3
<1>6. st'.mode \notin Headers /\ st'.mode # "CHECK" /\ pc' # "back"
  BY <1>1 DEF Headers
<1> QED
  BY <1>1, <1>2, <1>3, <1>4, <1>5, <1>6 DEF RecordsInv

\* The client's steps.
LEMMA PushKeepsRecords == ASSUME IInv, RecordsInv, Push PROVE RecordsInv'
<1>1. /\ pc = "idle" /\ pc' = "loop" /\ history' = history
      /\ session' = session /\ ended' = ended /\ chunks' = chunks
      /\ session.flush = "SYNC_FLUSH" => flush' = "SYNC_FLUSH"
  BY DEF Push
<1>2. ~Inside /\ ~Inside' /\ ~Calling' /\ pc' # "back"
  BY <1>1 DEF Inside, Calling
<1> QED
  BY <1>1, <1>2 DEF RecordsInv, Recorded

\* The buffer of a client that reads record by record is a new one for each call.
LEMMA CallInflateKeepsRecords == ASSUME IInv, RecordsInv, CallInflate PROVE RecordsInv'
<1>1. /\ pc = "loop" /\ history' = history /\ Called(flush)
      /\ session' = session /\ ended' = ended /\ chunks' = chunks /\ flush' = flush
      /\ flush = "SYNC_FLUSH" => z' = [z EXCEPT !.output = <<>>]
  BY DEF CallInflate
<1> SUFFICES ASSUME Recorded PROVE RecordsInv'
  BY <1>1 DEF RecordsInv, Recorded
<1>2. ~Inside /\ pc # "idle"
  BY <1>1 DEF Inside, Calling
<1>3. flush = "SYNC_FLUSH" /\ Concat(chunks) = history
  BY <1>2 DEF RecordsInv
<1>4. IInv'
  BY CallInflateKeeps
<1>5. z' \in Streams /\ flush \in FlushModes
  BY <1>4 DEF IInv, StreamInv, ClientInv
<1>6. /\ pc' = "run" /\ call' \in Calls /\ call'.out0 = Len(z'.output) /\ Len(z'.output) \in Nat
      /\ call'.flush = flush
  BY <1>1, <1>5, CalledIs DEF Called
<1>7. z'.output = <<>>
  BY <1>1, <1>3 DEF IInv, StreamInv, Streams
<1>8. call'.out0 = 0
  BY <1>6, <1>7, EmptySeq
<1>9. Written' = <<>>
  BY <1>6, CalledWritten
<1>10. Concat(chunks) \o z'.output = history
  <2>1. Concat(chunks) \in Seq(Byte)
    BY ConcatMore, InputIs DEF IInv, ClientInv
  <2> QED
    BY <1>3, <1>7, <2>1, ConcatEmptySeq
<1> QED
  BY <1>1, <1>3, <1>6, <1>8, <1>9, <1>10 DEF RecordsInv

\* A dictionary is given before anything is written.
LEMMA SetDictionaryKeepsRecords == ASSUME IInv, RecordsInv, SetDictionary PROVE RecordsInv'
<1>1. CASE Adler32(One, session.dictionary) = st.check
  <2>1. /\ pc = "back" /\ history' = history /\ Called(flush) /\ z' = z /\ ret = "NEED_DICT" /\ calls = "first"
        /\ session' = session /\ ended' = ended /\ chunks' = chunks /\ flush' = flush /\ calls' = "again"
    BY <1>1 DEF SetDictionary, WantsDictionary
  <2> SUFFICES ASSUME Recorded PROVE RecordsInv'
    BY <2>1 DEF RecordsInv, Recorded
  <2>2. z' \in Streams /\ flush \in FlushModes
    BY <2>1 DEF IInv, StreamInv, ClientInv
  <2>3. /\ pc' = "run" /\ call'.out0 = Len(z'.output) /\ Len(z'.output) \in Nat
        /\ call'.flush = flush
    BY <2>1, <2>2, CalledIs DEF Called
  <2>4. Inside /\ pc # "idle"
    BY <2>1 DEF Inside
  <2>5. flush = "SYNC_FLUSH" /\ Concat(chunks) \o z.output = history /\ z.output = <<>>
    BY <2>1, <2>4 DEF RecordsInv
  <2>6. call'.out0 = 0
    BY <2>1, <2>3, <2>5, EmptySeq
  <2>7. Written' = <<>>
    BY <2>3, CalledWritten
  <2> QED
    BY <2>1, <2>3, <2>5, <2>6, <2>7 DEF RecordsInv
<1>2. CASE Adler32(One, session.dictionary) # st.check
  <2>1. ended' = TRUE
    BY <1>2 DEF SetDictionary, End
  <2> QED
    BY <2>1 DEF RecordsInv, Recorded
<1> QED
  BY <1>1, <1>2

\* There is more input where another member begins.
LEMMA NextMemberKeepsRecords == ASSUME IInv, RecordsInv, NextMember PROVE RecordsInv'
<1>1. /\ pc = "back" /\ history' = history /\ Called(flush) /\ z' = z /\ st' = Restarted(st) /\ Have > 0
      /\ session' = session /\ ended' = ended /\ chunks' = chunks /\ flush' = flush /\ calls' = "again"
  BY DEF NextMember, MoreFollows
<1> SUFFICES ASSUME Recorded PROVE RecordsInv'
  BY <1>1 DEF RecordsInv, Recorded
<1>2. z' \in Streams /\ flush \in FlushModes
  BY <1>1 DEF IInv, StreamInv, ClientInv
<1>3. /\ pc' = "run" /\ call'.out0 = Len(z'.output) /\ Len(z'.output) \in Nat
      /\ call'.flush = flush /\ call'.in0 = z'.next
  BY <1>1, <1>2, CalledIs DEF Called
<1>4. Inside /\ pc # "idle"
  BY <1>1 DEF Inside
<1>5. flush = "SYNC_FLUSH" /\ Concat(chunks) \o z.output = history
  BY <1>1, <1>4 DEF RecordsInv
<1>6. call'.in0 < Len(z'.input)
  <2>1. Have = Len(z.input) - z.next /\ Len(z.input) \in Nat /\ z.next \in Nat
    BY InputIs
  <2> DEFINE n == Len(z.input)
  <2>2. z.next < n
    <3>1. n - z.next > 0 /\ n \in Nat
      BY <1>1, <2>1
    <3> HIDE DEF n
    <3> QED
      BY <2>1, <3>1
  <2> QED
    BY <1>1, <1>3, <2>2
<1>7. Written' = <<>>
  BY <1>3, CalledWritten
<1>8. /\ Calling' /\ Inside' /\ pc' # "back" /\ calls' # "first"
      /\ Concat(chunks') \o z'.output = history'
  BY <1>1, <1>3, <1>5 DEF Inside, Calling
<1>9. flush' = "SYNC_FLUSH" /\ call'.flush = "SYNC_FLUSH"
  BY <1>1, <1>3, <1>5
<1> QED
  BY <1>6, <1>7, <1>8, <1>9 DEF RecordsInv

\* What is in the buffer is delivered, or it is empty.
LEMMA DeliverKeepsRecords == ASSUME IInv, RecordsInv, Deliver PROVE RecordsInv'
<1>1. /\ pc = "back" /\ ret \in {"OK", "BUF_ERROR", "STREAM_END"}
      /\ chunks' = IF z.output # <<>> /\ Due THEN Append(chunks, z.output) ELSE chunks
      /\ ret = "STREAM_END" => ended' = TRUE
      /\ ret # "STREAM_END" => (pc' \in {"loop", "idle"} /\ ended' = ended)
      /\ history' = history /\ session' = session /\ flush' = flush
  BY DEF Deliver, End
<1> SUFFICES ASSUME Recorded' PROVE RecordsInv'
  BY DEF RecordsInv
<1>0. Recorded /\ ret # "STREAM_END"
  BY <1>1 DEF Recorded
<1>2. Inside /\ pc # "idle" /\ ~Inside' /\ ~Calling' /\ pc' # "back"
  BY <1>0, <1>1 DEF Inside, Calling
<1>3. /\ flush = "SYNC_FLUSH" /\ Concat(chunks) \o z.output = history
      /\ ret = "BUF_ERROR" /\ Room # 0 => z.output = <<>>
  BY <1>0, <1>1, <1>2 DEF RecordsInv
<1>4. chunks \in Seq(Seq(Byte)) /\ z.output \in Seq(Byte)
  BY InputIs DEF IInv, ClientInv
<1>5. Concat(chunks) \in Seq(Byte) /\ Concat(Append(chunks, z.output)) = Concat(chunks) \o z.output
  BY <1>4, ConcatMore
<1>6. z.output = <<>> \/ Due
  BY <1>0, <1>1, <1>3 DEF Due
<1>7. Concat(chunks') = history
  <2>1. CASE z.output = <<>>
    BY <1>1, <1>3, <1>5, <2>1, ConcatEmptySeq
  <2>2. CASE z.output # <<>>
    BY <1>1, <1>3, <1>5, <1>6, <2>2
  <2> QED
    BY <2>1, <2>2
<1> QED
  BY <1>1, <1>2, <1>3, <1>7 DEF RecordsInv

\* An error ends the object.
LEMMA FailKeepsRecords == ASSUME Fail PROVE RecordsInv'
  BY DEF Fail, End, RecordsInv, Recorded

\* A new object.
LEMMA InitHasRecords == ASSUME Init PROVE RecordsInv
<1>1. pc = "idle" /\ chunks = <<>> /\ history = <<>>
  BY DEF Init
<1>2. ~Inside /\ ~Calling
  BY <1>1 DEF Inside, Calling
<1> QED
  BY <1>1, <1>2, ConcatNone DEF RecordsInv

-----------------------------------------------------------------------------
(* Every step of inflate is of one of these kinds.                         *)

\* A new state that differs in what a case of the switch may change.
Follows(s) ==
  /\ s.total = st.total /\ s.havedict = st.havedict
  /\ s.mode \in Headers => st.mode \in Headers
  /\ st.mode \in Endings => s.mode \in Endings
  /\ s.mode = "CHECK" => s.hold = <<>>

\* A case that changes the state only.
LEMMA BecomesWorks ==
  ASSUME Calling, NEW s, Follows(s), Becomes(s)
  PROVE  Working
  BY DEF Becomes, Working, Follows, Kept, Calling

\* The header's cases pass over bytes and set fields of the state.
LEMMA HeaderWorks ==
  ASSUME IInv, MagicOrHeader \/ Flags \/ Time \/ Os \/ ExLen \/ Extra \/ Name \/ Comment \/ HCrc \/ DictId
  PROVE  Working
<1>1. st \in States /\ z \in Streams
  BY DEF IInv, StateInv, StreamInv
<1>2. CASE MagicOrHeader
  <2>1. PICK s : /\ Becomes(s) /\ s.total = st.total /\ s.havedict = st.havedict
                 /\ s.mode \in {"TYPE", "FLAGS", "BAD", "DICTID"} /\ pc = "run" /\ st.mode = "HEAD"
    BY <1>1, <1>2 DEF MagicOrHeader, At, Bad, States
  <2>2. Follows(s) /\ Calling
    BY <2>1 DEF Follows, Headers, Endings, Calling
  <2> QED
    BY <2>1, <2>2, BecomesWorks
<1>3. CASE Flags
  <2>1. PICK s : /\ Becomes(s) /\ s.total = st.total /\ s.havedict = st.havedict
                 /\ s.mode \in {"TIME", "BAD"} /\ pc = "run" /\ st.mode = "FLAGS"
    BY <1>1, <1>3 DEF Flags, At, Bad, States
  <2>2. Follows(s) /\ Calling
    BY <2>1 DEF Follows, Headers, Endings, Calling
  <2> QED
    BY <2>1, <2>2, BecomesWorks
<1>4. CASE Time
  <2>1. PICK s : /\ Becomes(s) /\ s.total = st.total /\ s.havedict = st.havedict
                 /\ s.mode = "OS" /\ pc = "run" /\ st.mode = "TIME"
    BY <1>1, <1>4 DEF Time, At, States
  <2>2. Follows(s) /\ Calling
    BY <2>1 DEF Follows, Headers, Endings, Calling
  <2> QED
    BY <2>1, <2>2, BecomesWorks
<1>5. CASE Os
  <2>1. PICK s : /\ Becomes(s) /\ s.total = st.total /\ s.havedict = st.havedict
                 /\ s.mode = "EXLEN" /\ pc = "run" /\ st.mode = "OS"
    BY <1>1, <1>5 DEF Os, At, States
  <2>2. Follows(s) /\ Calling
    BY <2>1 DEF Follows, Headers, Endings, Calling
  <2> QED
    BY <2>1, <2>2, BecomesWorks
<1>6. CASE ExLen
  <2>1. PICK s : /\ Becomes(s) /\ s.total = st.total /\ s.havedict = st.havedict
                 /\ s.mode = "EXTRA" /\ pc = "run" /\ st.mode = "EXLEN"
    BY <1>1, <1>6 DEF ExLen, At, States
  <2>2. Follows(s) /\ Calling
    BY <2>1 DEF Follows, Headers, Endings, Calling
  <2> QED
    BY <2>1, <2>2, BecomesWorks
<1>7. CASE Extra
  <2>1. /\ pc = "run" /\ pc' = pc /\ st.mode = "EXTRA" /\ st'.mode \in {"EXTRA", "NAME"}
        /\ st'.total = st.total /\ st'.havedict = st.havedict
        /\ z'.input = z.input /\ z'.output = z.output /\ UNCHANGED <<win, call, history>>
    BY <1>1, <1>7 DEF Extra, At, Skip, Becomes, States, Streams
  <2> QED
    BY <2>1 DEF Working, Kept, Calling, Headers, Endings
<1>8. CASE Name \/ Comment
  <2>1. /\ pc = "run" /\ pc' = pc /\ st.mode \in {"NAME", "COMMENT"} /\ st'.mode \in {"NAME", "COMMENT", "HCRC"}
        /\ st'.total = st.total /\ st'.havedict = st.havedict
        /\ z'.input = z.input /\ z'.output = z.output /\ UNCHANGED <<win, call, history>>
    BY <1>1, <1>8, ZenonT(20) DEF Name, Comment, Text, At, Skip, Becomes, States, Streams
  <2> QED
    BY <2>1 DEF Working, Kept, Calling, Headers, Endings
<1>9. CASE HCrc
  <2>1. PICK s : /\ Becomes(s) /\ s.total = st.total /\ s.havedict = st.havedict
                 /\ s.mode \in {"TYPE", "BAD"} /\ pc = "run" /\ st.mode = "HCRC"
    BY <1>1, <1>9 DEF HCrc, At, Bad, States
  <2>2. Follows(s) /\ Calling
    BY <2>1 DEF Follows, Headers, Endings, Calling
  <2> QED
    BY <2>1, <2>2, BecomesWorks
<1>10. CASE DictId
  <2>1. PICK s : /\ Becomes(s) /\ s.total = st.total /\ s.havedict = st.havedict
                 /\ s.mode = "DICT" /\ pc = "run" /\ st.mode = "DICTID"
    BY <1>1, <1>10 DEF DictId, At, States
  <2>2. Follows(s) /\ Calling
    BY <2>1 DEF Follows, Headers, Endings, Calling
  <2> QED
    BY <2>1, <2>2, BecomesWorks
<1> QED
  BY <1>2, <1>3, <1>4, <1>5, <1>6, <1>7, <1>8, <1>9, <1>10

\* The last block is over with less than a byte in hand, which is given up.
LEMMA BlockWorks == ASSUME IInv, Block PROVE Working
<1>1. At("TYPE") /\ st \in States /\ pc = "run" /\ st.mode = "TYPE" /\ Calling
  BY DEF Block, At, IInv, StateInv, Calling
<1>2. CASE st.last
  <2>1. Len(st.hold) < 8
    <3>1. Len(st.hold) \in Nat /\ Len(st.hold) < Wants(st) + 8
      BY <1>1, AtFinds
    <3>2. Wants(st) = 0
      BY <1>1, <1>2, WantsIs
    <3> QED
      BY <3>1, <3>2
  <2>2. st.hold \in Seq(Bit)
    BY <1>1 DEF States
  <2>3. ToByte(st.hold) = <<>>
    BY <2>1, <2>2, ToByteIs
  <2> DEFINE e == ToByte(st.hold)
             s == [st EXCEPT !.hold = e, !.mode = "CHECK"]
  <2>4. Becomes(s)
    BY <1>2 DEF Block
  <2> HIDE DEF e
  <2>5. s.total = st.total /\ s.havedict = st.havedict /\ s.mode = "CHECK" /\ s.hold = e
    BY <1>1 DEF States
  <2> HIDE DEF s
  <2>6. Follows(s)
    BY <1>1, <2>3, <2>5 DEF Follows, Headers, Endings, e
  <2> QED
    BY <1>1, <2>4, <2>6, BecomesWorks
<1>3. CASE ~st.last
  <2> DEFINE type == Num(SubSeq(st.hold, 2, 3))
             h == Dropped(3, st.hold)
             f == ToByte(h)
             l == st.hold[1] = 1
             s == [st EXCEPT !.last = l, !.hold = h]
             s0 == [s EXCEPT !.hold = f, !.mode = "STORED"]
             s1 == [s EXCEPT !.fixed = TRUE, !.mode = "LEN"]
             s2 == [s EXCEPT !.mode = "TABLE"]
             s3 == Bad(s)
  <2>1. Becomes(CASE type = 0 -> s0 [] type = 1 -> s1 [] type = 2 -> s2 [] type = 3 -> s3)
    BY <1>3 DEF Block
  <2>2. type \in {0, 1, 2, 3}
    <3>1. Len(st.hold) \in Nat /\ Wants(st) <= Len(st.hold)
      BY <1>1, AtFinds
    <3>2. Wants(st) = 3
      BY <1>1, <1>3, WantsIs
    <3>3. 2 \in Nat \ {0} /\ 3 \in 0 .. Len(st.hold) /\ st.hold \in Seq(Bit)
      BY <1>1, <3>1, <3>2 DEF States
    <3>4. SubSeq(st.hold, 2, 3) \in Seq(Bit) /\ Len(SubSeq(st.hold, 2, 3)) = IF 2 <= 3 THEN 3 - 2 + 1 ELSE 0
      BY <3>3, PartOf
    <3>5. Len(SubSeq(st.hold, 2, 3)) = 2
      BY <3>4
    <3>6. type \in Nat /\ type < 2^2
      BY <3>4, <3>5, NumBound
    <3> HIDE DEF type
    <3> QED
      BY <3>6, SmallPowers
  <2> HIDE DEF type, h, f, l
  <2>3. /\ s0.total = st.total /\ s0.havedict = st.havedict /\ s0.mode = "STORED"
        /\ s1.total = st.total /\ s1.havedict = st.havedict /\ s1.mode = "LEN"
        /\ s2.total = st.total /\ s2.havedict = st.havedict /\ s2.mode = "TABLE"
        /\ s3.total = st.total /\ s3.havedict = st.havedict /\ s3.mode = "BAD"
    BY <1>1 DEF States, Bad
  <2> HIDE DEF s0, s1, s2, s3
  <2>4. Becomes(s0) \/ Becomes(s1) \/ Becomes(s2) \/ Becomes(s3)
    BY <2>1, <2>2
  <2>5. Follows(s0) /\ Follows(s1) /\ Follows(s2) /\ Follows(s3)
    BY <1>1, <2>3 DEF Follows, Headers, Endings
  <2> QED
    BY <1>1, <2>4, <2>5, BecomesWorks
<1> QED
  BY <1>1, <1>2, <1>3 DEF States

\* The cases of the tables.
LEMMA TableWorks == ASSUME IInv, Stored \/ TableSizes \/ LenLens \/ CodeLens PROVE Working
<1>1. st \in States
  BY DEF IInv, StateInv
<1>2. CASE Stored
  <2>1. PICK s : /\ Becomes(s) /\ s.total = st.total /\ s.havedict = st.havedict
                 /\ s.mode \in {"BAD", "COPY"} /\ pc = "run" /\ st.mode = "STORED"
    BY <1>1, <1>2 DEF Stored, At, Bad, States
  <2>2. Follows(s) /\ Calling
    BY <2>1 DEF Follows, Headers, Endings, Calling
  <2> QED
    BY <2>1, <2>2, BecomesWorks
<1>3. CASE TableSizes
  <2> DEFINE nlen == Num(SubSeq(st.hold, 1, 5)) + 257
             ndist == Num(SubSeq(st.hold, 6, 10)) + 1
             ncode == Num(SubSeq(st.hold, 11, 14)) + 4
             h == Dropped(14, st.hold)
             t == [st EXCEPT !.nlen = nlen, !.ndist = ndist, !.ncode = ncode, !.hold = h]
             b == Bad(t)
             u == [t EXCEPT !.lens = <<>>, !.mode = "LENLENS"]
  <2>0. /\ pc = "run" /\ st.mode = "TABLE"
        /\ Becomes(IF t.nlen > 286 \/ t.ndist > 30 THEN b ELSE u)
    BY <1>3 DEF TableSizes, At
  <2> HIDE DEF nlen, ndist, ncode, h
  <2>a. b.total = st.total /\ b.havedict = st.havedict /\ b.mode = "BAD"
    BY <1>1 DEF Bad, States
  <2>b. u.total = st.total /\ u.havedict = st.havedict /\ u.mode = "LENLENS"
    BY <1>1 DEF States
  <2> HIDE DEF t, b, u
  <2>1. PICK s : /\ Becomes(s) /\ s.total = st.total /\ s.havedict = st.havedict
                 /\ s.mode \in {"BAD", "LENLENS"} /\ pc = "run" /\ st.mode = "TABLE"
    BY <2>0, <2>a, <2>b
  <2>2. Follows(s) /\ Calling
    BY <2>1 DEF Follows, Headers, Endings, Calling
  <2> QED
    BY <2>1, <2>2, BecomesWorks
<1>4. CASE LenLens
  <2>1. PICK s : /\ Becomes(s) /\ s.total = st.total /\ s.havedict = st.havedict
                 /\ s.mode \in {"BAD", "LENLENS", "CODELENS"} /\ pc = "run" /\ st.mode = "LENLENS"
    BY <1>1, <1>4 DEF LenLens, At, Bad, States
  <2>2. Follows(s) /\ Calling
    BY <2>1 DEF Follows, Headers, Endings, Calling
  <2> QED
    BY <2>1, <2>2, BecomesWorks
<1>5. CASE CodeLens
  <2>1. PICK s : /\ Becomes(s) /\ s.total = st.total /\ s.havedict = st.havedict
                 /\ s.mode \in {"BAD", "CODELENS", "LEN"} /\ pc = "run" /\ st.mode = "CODELENS"
    BY <1>1, <1>5 DEF CodeLens, At, Bad, States
  <2>2. Follows(s) /\ Calling
    BY <2>1 DEF Follows, Headers, Endings, Calling
  <2> QED
    BY <2>1, <2>2, BecomesWorks
<1> QED
  BY <1>2, <1>3, <1>4, <1>5

\* What a symbol, or extra bits, make of a state that has the bits h in hand.
LEMMA SymbolsFollow ==
  ASSUME st \in States, st.mode \in Coding, NEW h, NEW w
  PROVE  LET s == [st EXCEPT !.hold = h]
         IN /\ Follows(LengthSymbol(s, w)) /\ Follows(DistSymbol(s, w))
            /\ Follows(LengthWhole(s)) /\ Follows(DistWhole(s))
<1> DEFINE s == [st EXCEPT !.hold = h]
           Plainly(r) == r.total = st.total /\ r.havedict = st.havedict
<1>1. Plainly(LengthSymbol(s, w)) /\ LengthSymbol(s, w).mode \in {"BAD", "TYPE", "LIT", "LENEXT"}
  BY DEF LengthSymbol, Bad, States
<1>2. Plainly(DistSymbol(s, w)) /\ DistSymbol(s, w).mode \in {"BAD", "DISTEXT"}
  BY DEF DistSymbol, Bad, States
<1>3. Plainly(LengthWhole(s)) /\ LengthWhole(s).mode = "DIST"
  BY DEF LengthWhole, States
<1>4. Plainly(DistWhole(s)) /\ DistWhole(s).mode \in {"BAD", "MATCH"}
  BY DEF DistWhole, Bad, States
<1> HIDE DEF s
<1>5. /\ Follows(LengthSymbol(s, w)) /\ Follows(DistSymbol(s, w))
      /\ Follows(LengthWhole(s)) /\ Follows(DistWhole(s))
  BY <1>1, <1>2, <1>3, <1>4 DEF Follows, Headers, Endings, Coding
<1> QED
  BY <1>5 DEF s

\* The decoder's cases that write nothing.
LEMMA CodingWorks == ASSUME IInv, LenCase \/ LenExt \/ Dist \/ DistExt PROVE Working
<1> DEFINE s == [st EXCEPT !.hold = st.hold]
<1>1. /\ st \in States /\ Calling /\ st.mode \in Coding
      /\ \/ Becomes(LengthSymbol(st, First(LenCode, st.hold))) \/ Becomes(LengthWhole(st))
         \/ Becomes(DistSymbol(st, First(DistCode, st.hold))) \/ Becomes(DistWhole(st))
  BY DEF IInv, StateInv, LenCase, LenExt, Dist, DistExt, At, Calling, Coding
<1>2. s = st
  BY <1>1 DEF States
<1>3. /\ Follows(LengthSymbol(s, First(LenCode, st.hold))) /\ Follows(LengthWhole(s))
      /\ Follows(DistSymbol(s, First(DistCode, st.hold))) /\ Follows(DistWhole(s))
  BY <1>1, SymbolsFollow
<1> HIDE DEF s
<1> QED
  BY <1>1, <1>2, <1>3, BecomesWorks

\* The fast loop's reading.
LEMMA ReadingWorks ==
  ASSUME IInv, Calling, NEW n, z' = [z EXCEPT !.next = z.next + n], Follows(st'), UNCHANGED <<win, call, pc, ret, history>>
  PROVE  Working
<1>1. z'.input = z.input /\ z'.output = z.output
  BY DEF IInv, StreamInv, Streams
<1> QED
  BY <1>1 DEF Working, Follows, Kept, Calling

\* The fast loop's steps that read, and going into it and out of it.
LEMMA FastWorks == ASSUME IInv, EnterFast \/ FastLen \/ FastLenExt \/ FastDist \/ FastDistExt \/ LeaveFast PROVE Working
<1>1. st \in States /\ z \in Streams
  BY DEF IInv, StateInv, StreamInv
<1> DEFINE Hold(n) == st.hold \o Concat([i \in 1 .. n |-> BitsOf(8, ByteAt(z.next + i))])
           More(n) == [st EXCEPT !.hold = Hold(n)]
           Read(n) == z' = [z EXCEPT !.next = z.next + n] /\ UNCHANGED <<win, call, pc, ret, history>>
<1>2. CASE EnterFast
  BY <1>2 DEF EnterFast, FastEligible, Working, Kept, Calling, Headers, Endings
<1>3. CASE LeaveFast
  <2>1. /\ pc = "fast" /\ pc' = "run" /\ z'.input = z.input /\ z'.output = z.output /\ UNCHANGED <<win, call, history>>
        /\ st'.mode = st.mode /\ st'.total = st.total /\ st'.havedict = st.havedict /\ st.mode \in {"TYPE", "BAD", "LEN"}
    BY <1>1, <1>3 DEF LeaveFast, States, Streams
  <2> QED
    BY <2>1 DEF Working, Kept, Calling, Headers, Endings
<1>4. CASE FastLen
  <2> DEFINE n == ForCode
             s == More(n)
             w == First(LenCode, s.hold)
  <2>1. Read(n) /\ st' = LengthSymbol(s, w) /\ pc = "fast" /\ st.mode = "LEN"
    BY <1>4 DEF FastLen, Fast, Reading
  <2> HIDE DEF n, w
  <2>2. Follows(st')
    BY <1>1, <2>1, SymbolsFollow DEF Coding
  <2> QED
    BY <2>1, <2>2, ReadingWorks DEF Calling
<1>5. CASE FastLenExt
  <2> DEFINE n == ForBits(st.extra)
             s == More(n)
  <2>1. Read(n) /\ st' = LengthWhole(s) /\ pc = "fast" /\ st.mode = "LENEXT"
    BY <1>5 DEF FastLenExt, Fast, Reading
  <2> HIDE DEF n
  <2>2. Follows(st')
    BY <1>1, <2>1, SymbolsFollow DEF Coding
  <2> QED
    BY <2>1, <2>2, ReadingWorks DEF Calling
<1>6. CASE FastDist
  <2> DEFINE n == ForCode
             s == More(n)
             w == First(DistCode, s.hold)
  <2>1. Read(n) /\ st' = DistSymbol(s, w) /\ pc = "fast" /\ st.mode = "DIST"
    BY <1>6 DEF FastDist, Fast, Reading
  <2> HIDE DEF n, w
  <2>2. Follows(st')
    BY <1>1, <2>1, SymbolsFollow DEF Coding
  <2> QED
    BY <2>1, <2>2, ReadingWorks DEF Calling
<1>7. CASE FastDistExt
  <2> DEFINE n == ForBits(st.extra)
             s == More(n)
  <2>1. Read(n) /\ st' = DistWhole(s) /\ pc = "fast" /\ st.mode = "DISTEXT"
    BY <1>7 DEF FastDistExt, Fast, Reading
  <2> HIDE DEF n
  <2>2. Follows(st')
    BY <1>1, <2>1, SymbolsFollow DEF Coding
  <2> QED
    BY <2>1, <2>2, ReadingWorks DEF Calling
<1> QED
  BY <1>2, <1>3, <1>4, <1>5, <1>6, <1>7

\* A byte more in hand; where the trailer is read, it is counted.
LEMMA PullWorks == ASSUME IInv, Pull PROVE Working
<1> DEFINE b == z.input[z.next + 1]
           h == st.hold \o BitsOf(8, b)
<1>1. st \in States /\ z \in Streams /\ st.hold \in Seq(Bit)
  BY DEF IInv, StateInv, StreamInv, States
<1>2. /\ pc = "run" /\ pc' = pc /\ st' = [st EXCEPT !.hold = h] /\ z' = [z EXCEPT !.next = z.next + 1]
      /\ UNCHANGED <<win, call, history>> /\ Have > 0
  BY DEF Pull
<1>3. b \in Byte
  <2>1. z.next + 1 \in 1 .. Len(z.input)
    BY <1>2, InputIs
  <2> QED
    BY <2>1, InputIs, ElementOfSeq
<1>4. Len(h) = Len(st.hold) + 8
  BY <1>1, <1>3, ByteMore
<1> HIDE DEF h
<1>5. /\ st'.mode = st.mode /\ st'.total = st.total /\ st'.havedict = st.havedict /\ st'.hold = h
      /\ z'.input = z.input /\ z'.output = z.output /\ z'.next = z.next + 1
  BY <1>1, <1>2 DEF States, Streams
<1> QED
  BY <1>2, <1>4, <1>5 DEF Working, Kept, Calling

\* Bytes are written: those of a stored block, a byte as it is, or a match.
LEMMA CopyWrites == ASSUME IInv, Copy PROVE Working \/ \E bytes \in Seq(Byte) : Writing(bytes)
<1>1. pc = "run" /\ st.mode = "COPY" /\ st \in States /\ z \in Streams
  BY DEF Copy, At, IInv, StateInv, StreamInv
<1>2. CASE st.length = 0
  <2> DEFINE s == [st EXCEPT !.mode = "TYPE"]
  <2>1. Becomes(s) /\ s.total = st.total /\ s.havedict = st.havedict /\ s.mode = "TYPE"
    BY <1>1, <1>2 DEF Copy, States
  <2> HIDE DEF s
  <2>2. Follows(s) /\ Calling
    BY <1>1, <2>1 DEF Follows, Headers, Endings, Calling
  <2> QED
    BY <2>1, <2>2, BecomesWorks
<1>3. CASE st.length # 0
  <2> DEFINE copy == CHOOSE n \in {st.length, Have, Room} : n <= st.length /\ n <= Have /\ n <= Room
             bytes == SubSeq(z.input, z.next + 1, z.next + copy)
  <2>1. /\ z' = [z EXCEPT !.next = z.next + copy, !.output = z.output \o bytes] /\ history' = history \o bytes
        /\ st' = [st EXCEPT !.length = st.length - copy] /\ UNCHANGED <<win, call, pc, ret>>
    BY <1>3 DEF Copy
  <2>2. bytes \in Seq(Byte)
    BY <1>1, CopyMoves
  <2> HIDE DEF bytes, copy
  <2>3. /\ z'.output = z.output \o bytes /\ z'.input = z.input
        /\ st'.total = st.total /\ st'.havedict = st.havedict /\ st'.mode = "COPY"
    BY <1>1, <2>1 DEF States, Streams
  <2>4. Writing(bytes)
    BY <1>1, <2>1, <2>3 DEF Writing, Kept, Calling, Headers, Endings
  <2> QED
    BY <2>2, <2>4
<1> QED
  BY <1>2, <1>3

\* What a step writes goes behind the output.
LEMMA OutputWrites ==
  ASSUME IInv, Calling, st.mode \in {"LIT", "MATCH"}, NEW bytes, Output(bytes), UNCHANGED <<win, call, pc, ret>>,
         NEW t, st' = t, t.total = st.total, t.havedict = st.havedict, t.mode \in {"LEN", "MATCH"}
  PROVE  Writing(bytes)
<1>1. z'.output = z.output \o bytes /\ z'.input = z.input /\ history' = history \o bytes
  BY DEF IInv, StreamInv, Streams, Output
<1> QED
  BY <1>1 DEF Writing, Kept, Headers, Endings

\* A byte as it is.
LEMMA LitWrites == ASSUME IInv, Lit \/ FastLit PROVE \E bytes \in Seq(Byte) : Writing(bytes)
<1> DEFINE bytes == <<st.length>>
           t == [st EXCEPT !.mode = "LEN"]
<1>1. /\ pc \in {"run", "fast"} /\ st.mode = "LIT" /\ Output(bytes) /\ st' = t /\ UNCHANGED <<win, call, pc, ret>>
      /\ st \in States /\ Sound(st)
  BY DEF Lit, FastLit, At, Fast, IInv, StateInv
<1>2. st.length \in Byte
  BY <1>1 DEF Sound
<1>3. bytes \in Seq(Byte)
  BY <1>2
<1> HIDE DEF bytes
<1>4. t.total = st.total /\ t.havedict = st.havedict /\ t.mode = "LEN"
  BY <1>1 DEF States
<1> HIDE DEF t
<1>5. Writing(bytes)
  BY <1>1, <1>4, OutputWrites DEF Calling
<1> QED
  BY <1>3, <1>5

\* A match that reaches farther back than the window is damage; another one is copied.
LEMMA MatchWrites == ASSUME IInv, Match \/ FastMatch PROVE Working \/ \E bytes \in Seq(Byte) : Writing(bytes)
<1> DEFINE back == st.offset - Len(Written)
           b == Bad(st)
<1>1. st \in States /\ Calling /\ st.mode = "MATCH"
  BY DEF Match, FastMatch, At, Fast, IInv, StateInv, Calling
<1>2. back \in Int /\ win.have \in Nat
  BY <1>1, MatchFinds, WindowIs DEF Calling
<1>3. CASE back > win.have
  <2>1. Becomes(b)
    BY <1>3 DEF Match, FastMatch
  <2>2. b.total = st.total /\ b.havedict = st.havedict /\ b.mode = "BAD"
    BY <1>1 DEF Bad, States
  <2> HIDE DEF b
  <2>3. Follows(b)
    BY <1>1, <2>2 DEF Follows, Headers, Endings
  <2> QED
    BY <1>1, <2>1, <2>3, BecomesWorks
<1>4. CASE ~(back > win.have) /\ Match
  <2> DEFINE piece == IF back <= 0 THEN st.length ELSE IF back > win.next THEN back - win.next ELSE back
             from  == IF back > win.next THEN win.size - (back - win.next) ELSE win.next - back
             copy  == CHOOSE n \in {piece, st.length, Room} : n <= piece /\ n <= st.length /\ n <= Room
             bytes == IF back <= 0 THEN Repeat(z.output, st.offset, copy) ELSE Segment(from, copy)
             m     == IF st.length = copy THEN "LEN" ELSE st.mode
             t     == [st EXCEPT !.length = st.length - copy, !.mode = m]
  <2>1. Output(bytes) /\ st' = t /\ UNCHANGED <<win, call, pc, ret>> /\ pc = "run"
    BY <1>4 DEF Match, At
  <2>2. back <= win.have
    <3> HIDE DEF back
    <3> QED
      BY <1>2, <1>4
  <2>3. bytes \in Seq(Byte)
    BY <1>1, <2>1, <2>2, MatchMoves
  <2> HIDE DEF bytes, copy
  <2>4. m \in {"LEN", "MATCH"}
    BY <1>1
  <2> HIDE DEF m
  <2>5. t.total = st.total /\ t.havedict = st.havedict /\ t.mode = m
    BY <1>1 DEF States
  <2> HIDE DEF t
  <2>6. Writing(bytes)
    BY <1>1, <2>1, <2>4, <2>5, OutputWrites
  <2> QED
    BY <2>3, <2>6
<1>5. CASE ~(back > win.have) /\ FastMatch
  <2> DEFINE t == [st EXCEPT !.mode = "LEN"]
  <2>1. Output(WholeMatch) /\ st' = t /\ UNCHANGED <<win, call, pc, ret>> /\ Fast("MATCH")
    BY <1>5 DEF FastMatch, WholeMatch
  <2>2. back <= win.have
    <3> HIDE DEF back
    <3> QED
      BY <1>2, <1>5
  <2>3. WholeMatch \in Seq(Byte)
    BY <2>1, <2>2, WholeMatchIs
  <2>4. t.total = st.total /\ t.havedict = st.havedict /\ t.mode = "LEN"
    BY <1>1 DEF States
  <2> HIDE DEF t
  <2>5. Writing(WholeMatch)
    BY <1>1, <2>1, <2>4, OutputWrites
  <2> QED
    BY <2>3, <2>5
<1> QED
  BY <1>3, <1>4, <1>5

\* The trailer.
LEMMA TrailerWorks == ASSUME IInv, Check \/ Length PROVE Working \/ Checking
<1>1. st \in States /\ Calling
  BY DEF Check, Length, At, IInv, StateInv, Calling
<1>2. CASE Check /\ st.wrap = {}
  <2> DEFINE s == [st EXCEPT !.mode = "LENGTH"]
  <2>1. Becomes(s) /\ s.total = st.total /\ s.havedict = st.havedict /\ s.mode = "LENGTH" /\ st.mode = "CHECK"
    BY <1>1, <1>2 DEF Check, At, States
  <2> HIDE DEF s
  <2>2. Follows(s)
    BY <2>1 DEF Follows, Headers, Endings
  <2> QED
    BY <1>1, <2>1, <2>2, BecomesWorks
<1>3. CASE Check /\ st.wrap # {}
  <2> DEFINE n == st.total + Len(Written)
             c == IF Written = <<>> THEN st.check ELSE Update(st.check, Written)
             s == [st EXCEPT !.total = n, !.check = c]
             b == Bad(s)
             t == [s EXCEPT !.hold = <<>>, !.mode = "LENGTH"]
  <2>1. /\ At("CHECK") /\ st' \in {b, t} /\ call' = [call EXCEPT !.out0 = Len(z.output)]
        /\ UNCHANGED <<z, win, pc, history>>
    BY <1>3 DEF Check
  <2>2. Len(st.hold) = 32
    <3>1. Len(st.hold) = Wants(st) /\ st.mode = "CHECK"
      BY <2>1, AtFinds DEF Aligned
    <3>2. Wants(st) = 32
      BY <1>3, <3>1, WantsIs
    <3> QED
      BY <3>1, <3>2
  <2> HIDE DEF n, c
  <2>3. /\ b.total = n /\ b.havedict = st.havedict /\ b.mode = "BAD"
        /\ t.total = n /\ t.havedict = st.havedict /\ t.mode = "LENGTH"
    BY <1>1 DEF Bad, States
  <2> HIDE DEF s, b, t
  <2>4. st'.total = n /\ st'.havedict = st.havedict /\ st'.mode \in {"BAD", "LENGTH"}
    BY <2>1, <2>3
  <2> QED
    BY <2>1, <2>2, <2>4 DEF Checking, At, n
<1>4. CASE Length
  <2>1. PICK s : /\ Becomes(s) /\ s.total = st.total /\ s.havedict = st.havedict
                 /\ s.mode \in {"BAD", "DONE"} /\ st.mode = "LENGTH"
    BY <1>1, <1>4 DEF Length, At, Bad, States
  <2>2. Follows(s)
    BY <2>1 DEF Follows, Headers, Endings
  <2> QED
    BY <1>1, <2>1, <2>2, BecomesWorks
<1> QED
  BY <1>2, <1>3, <1>4

\* A dictionary is at hand, or asked for.
LEMMA DictWorks == ASSUME IInv, Dict PROVE Working \/ Asking
<1>1. st \in States /\ pc = "run" /\ st.mode = "DICT"
  BY DEF Dict, At, IInv, StateInv
<1>2. CASE st.havedict
  <2> DEFINE s == [st EXCEPT !.check = One, !.mode = "TYPE"]
  <2>1. Becomes(s) /\ s.total = st.total /\ s.havedict = st.havedict /\ s.mode = "TYPE"
    BY <1>1, <1>2 DEF Dict, States
  <2> HIDE DEF s
  <2>2. Follows(s) /\ Calling
    BY <1>1, <2>1 DEF Follows, Headers, Endings, Calling
  <2> QED
    BY <2>1, <2>2, BecomesWorks
<1>3. CASE ~st.havedict
  BY <1>1, <1>3 DEF Dict, Asking
<1> QED
  BY <1>2, <1>3

\* The ways out of a call.
LEMMA OutLeaves ==
  ASSUME Starve \/ Done \/ Damaged
  PROVE  \E code \in {"OK", "STREAM_END", "DATA_ERROR"} : Leaving(code)
<1>1. Starve => Leaving("OK")
  BY DEF Starve, Leaving
<1>2. Done => Leaving("STREAM_END")
  BY DEF Done, At, Leaving
<1>3. Damaged => Leaving("DATA_ERROR")
  BY DEF Damaged, At, Leaving
<1> QED
  BY <1>1, <1>2, <1>3

\* What a step of inflate is.
Step == \/ Working
        \/ \E bytes \in Seq(Byte) : Writing(bytes)
        \/ \E code \in {"OK", "STREAM_END", "DATA_ERROR"} : Leaving(code)
        \/ Asking \/ Checking

\* Every step of inflate is one of them.
LEMMA InflatingSteps == ASSUME IInv, Inflating PROVE Step
<1>1. CASE Starve \/ Done \/ Damaged
  BY <1>1, OutLeaves DEF Step
<1>2. CASE MagicOrHeader \/ Flags \/ Time \/ Os \/ ExLen \/ Extra \/ Name \/ Comment \/ HCrc \/ DictId
  BY <1>2, HeaderWorks DEF Step
<1>3. CASE Dict
  BY <1>3, DictWorks DEF Step
<1>4. CASE Block
  BY <1>4, BlockWorks DEF Step
<1>5. CASE Stored \/ TableSizes \/ LenLens \/ CodeLens
  BY <1>5, TableWorks DEF Step
<1>6. CASE LenCase \/ LenExt \/ Dist \/ DistExt
  BY <1>6, CodingWorks DEF Step
<1>7. CASE EnterFast \/ FastLen \/ FastLenExt \/ FastDist \/ FastDistExt \/ LeaveFast
  BY <1>7, FastWorks DEF Step
<1>8. CASE Copy
  BY <1>8, CopyWrites DEF Step
<1>9. CASE Lit \/ FastLit
  BY <1>9, LitWrites DEF Step
<1>10. CASE Match \/ FastMatch
  BY <1>10, MatchWrites DEF Step
<1>11. CASE Check \/ Length
  BY <1>11, TrailerWorks DEF Step
<1>12. CASE Pull
  BY <1>12, PullWorks DEF Step
<1> QED
  BY <1>1, <1>2, <1>3, <1>4, <1>5, <1>6, <1>7, <1>8, <1>9, <1>10, <1>11, <1>12 DEF Inflating

-----------------------------------------------------------------------------
(* The two invariants hold.                                                *)

\* Each of them keeps what is known of the history and of the records.
LEMMA InflatingKeepsBoth ==
  ASSUME MAXMATCH >= 258, IInv, IInv', HistoryInv, RecordsInv, Inflating, UNCHANGED streamVars
  PROVE  HistoryInv' /\ RecordsInv'
<1>1. Step
  BY InflatingSteps
<1>2. CASE Working
  BY <1>2, WorkingKeepsHistory, WorkingKeepsRecords
<1>3. CASE \E bytes \in Seq(Byte) : Writing(bytes)
  <2>1. PICK bytes \in Seq(Byte) : Writing(bytes)
    BY <1>3
  <2> QED
    BY <2>1, WritingKeepsHistory, WritingKeepsRecords
<1>4. CASE \E code \in {"OK", "STREAM_END", "DATA_ERROR"} : Leaving(code)
  <2>1. PICK code \in {"OK", "STREAM_END", "DATA_ERROR"} : Leaving(code)
    BY <1>4
  <2> QED
    BY <2>1, LeavingKeepsHistory, LeavingKeepsRecords
<1>5. CASE Asking
  BY <1>5, AskingKeepsHistory, AskingKeepsRecords
<1>6. CASE Checking
  BY <1>6, CheckingKeepsHistory, CheckingKeepsRecords
<1> QED
  BY <1>1, <1>2, <1>3, <1>4, <1>5, <1>6 DEF Step

\* A step that changes nothing.
LEMMA NothingKeepsBoth == ASSUME HistoryInv, RecordsInv, UNCHANGED vars PROVE HistoryInv' /\ RecordsInv'
<1>1. /\ st' = st /\ win' = win /\ z' = z /\ call' = call /\ pc' = pc /\ ret' = ret /\ history' = history
      /\ session' = session /\ pushed' = pushed /\ flush' = flush /\ ended' = ended /\ err' = err
      /\ chunks' = chunks /\ calls' = calls
  BY DEF vars, inflateVars
<1>2. Calling' = Calling /\ Inside' = Inside /\ Written' = Written /\ Room' = Room /\ Dictionary' = Dictionary
  BY <1>1 DEF Calling, Inside, Written, Room, Dictionary
<1>3. Latest' = Latest
  BY <1>2 DEF Latest
<1>4. HistoryInv'
  <2>1. PICK older \in Seq(Byte), member \in Seq(Byte) : Split(older, member)
    BY DEF HistoryInv
  <2>2. Split(older, member)'
    BY <1>1, <1>2, <1>3, <2>1 DEF Split, DataFollows
  <2> QED
    BY <1>1, <1>3, <2>2 DEF HistoryInv
<1>5. RecordsInv'
  BY <1>1, <1>2 DEF RecordsInv, Recorded
<1> QED
  BY <1>4, <1>5

\* So does every step of the object and of its client.
LEMMA NextKeepsBoth ==
  ASSUME MAXMATCH >= 258, IInv, HistoryInv, RecordsInv, [Next]_vars
  PROVE  IInv' /\ HistoryInv' /\ RecordsInv'
<1>1. IInv'
  BY NextKeeps
<1>2. CASE Inflating /\ UNCHANGED streamVars
  BY <1>1, <1>2, InflatingKeepsBoth
<1>3. CASE Push
  BY <1>1, <1>3, ClientKeepsHistory, PushKeepsRecords
<1>4. CASE CallInflate
  BY <1>1, <1>4, ClientKeepsHistory, CallInflateKeepsRecords
<1>5. CASE SetDictionary
  BY <1>1, <1>5, DictionaryKeepsHistory, SetDictionaryKeepsRecords
<1>6. CASE NextMember
  BY <1>1, <1>6, ClientKeepsHistory, NextMemberKeepsRecords
<1>7. CASE Fail
  BY <1>1, <1>7, ClientKeepsHistory, FailKeepsRecords
<1>8. CASE Deliver
  BY <1>1, <1>8, ClientKeepsHistory, DeliverKeepsRecords
<1>9. CASE UNCHANGED vars
  BY <1>1, <1>9, NothingKeepsBoth
<1> QED
  BY <1>2, <1>3, <1>4, <1>5, <1>6, <1>7, <1>8, <1>9 DEF Next, Pushing, Finished

\* What is known of an object in any state.
Accounts == IInv /\ HistoryInv /\ RecordsInv

\* Everything that was written is accounted for, in every state: by the window, by the call in
\* progress, and by the chunks that a client who reads record by record was given.
THEOREM AccountsAreKept == ASSUME MAXMATCH >= 258 PROVE Spec => []Accounts
<1>1. Init => Accounts
  BY InitHasIt, InitHasHistory, InitHasRecords DEF Accounts
<1>2. Accounts /\ [Next]_vars => Accounts'
  BY NextKeepsBoth DEF Accounts
<1> QED
  BY <1>1, <1>2, PTL DEF Spec

\* In a call, the window's history is what the call does not account for.
LEMMA HistoryIsTheWindows == ASSUME IInv, HistoryInv PROVE WindowIsHistory
<1>1. Shaped(win)
  BY WindowIs DEF IInv, WindowInv, Windows
<1>2. ASSUME pc \in {"run", "fast"}, DataFollows
      PROVE  Holds(win, Dictionary \o LastOf(st.total, SubSeq(history, 1, Len(history) - Len(Written))))
  <2>1. PICK older \in Seq(Byte), member \in Seq(Byte) : Split(older, member)
    BY DEF HistoryInv
  <2>2. /\ history = (older \o member) \o Written /\ Len(member) = st.total
        /\ Holds(win, Dictionary \o member)
    BY <1>2, <2>1 DEF Split, Latest, Calling
  <2>3. Written \in Seq(Byte)
    BY <1>2, WrittenIs
  <2> DEFINE a == older \o member
  <2>4. a \in Seq(Byte) /\ LastOf(Len(member), a) = member
    BY PartsOf
  <2>5. SubSeq(history, 1, Len(history) - Len(Written)) = a
    <3> DEFINE w == Written
    <3>1. w \in Seq(Byte) /\ history = a \o w
      BY <2>2, <2>3
    <3> HIDE DEF a, w
    <3>2. SubSeq(a \o w, 1, Len(a \o w) - Len(w)) = a
      BY <2>4, <3>1, PartsOf
    <3> QED
      BY <3>1, <3>2 DEF w
  <2> QED
    BY <2>2, <2>4, <2>5
<1> QED
  BY <1>1, <1>2 DEF WindowIsHistory, Dictionary

\* Inside a call the window holds the end of what the member had written before, behind the
\* dictionary if there was one: a match reaches the byte that it means (updatewindow, and the
\* window's half of MATCH). It holds for any stream, any pieces and any buffer.
THEOREM WindowKeepsHistory == ASSUME MAXMATCH >= 258 PROVE Spec => []WindowIsHistory
<1>1. Accounts => WindowIsHistory
  BY HistoryIsTheWindows DEF Accounts
<1> QED
  BY <1>1, AccountsAreKept, PTL

\* A client that pushes record by record with Z_SYNC_FLUSH, as FileReader.decompress does, has
\* everything that was written when push returns: nothing is left in the buffer that the next
\* push would throw away.
THEOREM RecordsComeWhole == ASSUME MAXMATCH >= 258 PROVE Spec => []RecordsIntact
<1>1. Accounts => RecordsIntact
  BY DEF Accounts, RecordsInv, Recorded, RecordsIntact, Inside, Calling
<1> QED
  BY <1>1, AccountsAreKept, PTL
=============================================================================
