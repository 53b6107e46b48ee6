------------------------------ MODULE Checksum ------------------------------
(***************************************************************************)
(* The two check values of pako.js, as 32 bits with the lowest first.      *)
(***************************************************************************)
EXTENDS HuffmanCode

Byte == 0 .. 255

Total(n, term(_)) == LET upTo[i \in 0 .. n] == IF i = 0 THEN 0 ELSE upTo[i - 1] + term(i) IN upTo[n]

\* The sum of the bytes, and the sum of its values after each of them.
Adler32(check, bytes) ==
  LET n    == Len(bytes)
      low  == Num(SubSeq(check, 1, 16))
      high == Num(SubSeq(check, 17, 32))
  IN BitsOf(16, (low + Total(n, LAMBDA i : bytes[i])) % 65521)
     \o BitsOf(16, (high + n * low + Total(n, LAMBDA i : (n - i + 1) * bytes[i])) % 65521)

\* For the division of polynomials a word is the set of its bits that are 1.
Ones(bits) == {i \in 0 .. Len(bits) - 1 : bits[i + 1] = 1}
Word32(ones) == [i \in 1 .. 32 |-> IF i - 1 \in ones THEN 1 ELSE 0]
Xor(a, b) == {i \in 0 .. 31 : i \in a <=> i \notin b}
Polynomial == {5, 8, 9, 15, 19, 20, 21, 23, 24, 26, 27, 29, 30, 31}  \* 0xEDB88320
Divided(c) == LET shifted == {i - 1 : i \in c \ {0}}
              IN IF 0 \in c THEN Xor(Polynomial, shifted) ELSE shifted
crcTable == [byte \in Byte |-> LET upTo[n \in 0 .. 8] == IF n = 0 THEN Ones(BitsOf(8, byte)) ELSE Divided(upTo[n - 1])
                              IN upTo[8]]

Crc32(check, bytes) ==
  LET crc[n \in 0 .. Len(bytes)] ==
        IF n = 0 THEN 0 .. 31 \ Ones(check)
        ELSE UNION {Xor({i - 8 : i \in c \ 0 .. 7},
                        crcTable[Num(SubSeq(Word32(Xor(c, Ones(BitsOf(8, bytes[n])))), 1, 8))]) : c \in {crc[n - 1]}}
  IN Word32(0 .. 31 \ crc[Len(bytes)])

\* zswap32: the bytes in the opposite order.
Swapped(bits) == SubSeq(bits, 25, 32) \o SubSeq(bits, 17, 24) \o SubSeq(bits, 9, 16) \o SubSeq(bits, 1, 8)
=============================================================================
