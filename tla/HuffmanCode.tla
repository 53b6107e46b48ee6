---------------------------- MODULE HuffmanCode ----------------------------
(***************************************************************************)
(* What a list of code lengths means in the deflate format: which lists    *)
(* inflate_table (pako.js) accepts, and which symbol every accepted list   *)
(* gives to which word of bits.  HuffmanTable builds the two-level table   *)
(* the way the code does and is compared with this; Inflate decodes by it. *)
(*                                                                         *)
(* A list of lengths is a function from symbols (numbers) to 0 .. MAXBITS, *)
(* where 0 is a symbol without a code; a word is a sequence of bits in the *)
(* order in which they arrive.                                             *)
(***************************************************************************)
EXTENDS Integers, Sequences, FiniteSets

CONSTANT MAXBITS  \* the longest code, 15

ASSUME CodeAssumption == MAXBITS \in Nat \ {0}

Bit == {0, 1}

\* The number that a sequence of bits stands for, the first bit being the lowest.
Num(bits) == LET upTo[i \in 0 .. Len(bits)] ==
                   IF i = 0 THEN 0 ELSE upTo[i - 1] + bits[i] * 2^(i - 1)
             IN upTo[Len(bits)]

\* The n lowest bits of a number below 2^31, the lowest first.
BitsOf(n, x) == [i \in 1 .. n |-> IF i > 31 THEN 0 ELSE (x \div 2^(i - 1)) % 2]

-----------------------------------------------------------------------------
Coded(lens) == {s \in DOMAIN lens : lens[s] # 0}
CountOf(lens, l) == Cardinality({s \in DOMAIN lens : lens[s] = l})
Longest(lens) == CHOOSE l \in 0 .. MAXBITS : /\ l = 0 \/ CountOf(lens, l) # 0
                                             /\ \A k \in l + 1 .. MAXBITS : CountOf(lens, k) = 0
Shortest(lens) == CHOOSE l \in 1 .. MAXBITS : /\ l = Longest(lens) \/ CountOf(lens, l) # 0
                                              /\ \A k \in 1 .. l - 1 : CountOf(lens, k) = 0

\* How many words of l bits are left when all codes of up to l bits are given out.
Left(lens) == LET left[l \in 0 .. MAXBITS] ==
                    IF l = 0 THEN 1 ELSE 2 * left[l - 1] - CountOf(lens, l)
              IN left

\* Mutant of Accepted: a single code of one bit does not pass.
AcceptedComplete(type, lens) == \/ Longest(lens) = 0
                                \/ \A l \in 1 .. MAXBITS : Left(lens)[l] >= 0 /\ Left(lens)[MAXBITS] = 0

\* Too many codes are never accepted; too few only if no code is longer than a bit,
\* and not for the code of the code lengths.
Accepted(type, lens) == \/ Longest(lens) = 0
                        \/ /\ \A l \in 1 .. MAXBITS : Left(lens)[l] >= 0
                           /\ Left(lens)[MAXBITS] > 0 => type # "CODES" /\ Longest(lens) = 1

\* The first code of each length, as a number whose highest bit arrives first.
FirstCode(lens) == LET first[l \in 1 .. MAXBITS] ==
                         IF l = 1 THEN 0 ELSE 2 * (first[l - 1] + CountOf(lens, l - 1))
                   IN first

\* Codes of one length are consecutive numbers, in the order of the symbols.
Word(lens, s) == LET l == lens[s]
                     n == FirstCode(lens)[l] + Cardinality({t \in DOMAIN lens : t < s /\ lens[t] = l})
                 IN [i \in 1 .. l |-> (n \div 2^(l - i)) % 2]

\* A word of a bit that an incomplete code leaves over decodes to this.
INVALID == -1

\* The symbol of every word: no word is the beginning of another one.
CodeOf(lens) == LET spare == IF Longest(lens) = 0 THEN {<<0>>, <<1>>}
                             ELSE IF Left(lens)[MAXBITS] > 0 THEN {<<1>>} ELSE {}
                    words == {<<Word(lens, s), s>> : s \in Coded(lens)} \cup {<<w, INVALID>> : w \in spare}
                IN [w \in {p[1] : p \in words} |-> (CHOOSE p \in words : p[1] = w)[2]]

\* The words of a code that a sequence of bits begins with: one or none.
Leading(code, bits) == {SubSeq(bits, 1, n) : n \in 1 .. IF Len(bits) < MAXBITS THEN Len(bits) ELSE MAXBITS}
                       \cap DOMAIN code
=============================================================================
