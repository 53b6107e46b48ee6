---------------------------- MODULE HuffmanTable ----------------------------
(***************************************************************************)
(* inflate_table of pako.js: from a list of code lengths it fills a root   *)
(* table, indexed by the first bits of the input, and sub-tables for the   *)
(* codes that are longer.  One step enters one code in all places that it  *)
(* belongs to, increments the code backwards and, where it must, starts a  *)
(* sub-table whose size it has to guess from the lengths still to come.    *)
(***************************************************************************)
EXTENDS HuffmanCode

CONSTANTS Symbols,  \* the symbols are 0 .. Symbols - 1
          Types,    \* subset of {"CODES", "LENS", "DISTS"}
          RootBits, \* index bits the caller asks of the root table (9, 6, 7 or 5)
          ENOUGH    \* room of the table for LENS and DISTS (852, 592)

\* A list without a code takes two entries, which are written before room is asked for.
ASSUME TableAssumption == /\ Symbols \in Nat \ {0}
                          /\ Types \subseteq {"CODES", "LENS", "DISTS"}
                          /\ RootBits \in 1 .. MAXBITS
                          /\ ENOUGH \in Nat \ {0, 1}

VARIABLES type, lens,       \* the arguments
          stage, ret,
          work,             \* the symbols that have a code, by length
          count,            \* codes of each length that are not entered yet
          root, curr, drop, \* index bits of the root and of the table in hand, bits dropped
          huff, sym, len,   \* the code to enter next, its place in work (from 0), its length
          next, low, used,  \* where the table in hand starts, its root index, entries given out
          table             \* index -> entry

tableVars == <<type, lens, stage, ret, work, count, root, curr, drop, huff, sym, len, next, low, used, table>>

Entry(bits, kind, val) == [bits |-> bits, kind |-> kind, val |-> val]

\* Later settings win, as in an array.
Overlay(new, old) == [i \in DOMAIN new \cup DOMAIN old |-> IF i \in DOMAIN new THEN new[i] ELSE old[i]]

\* The symbols sorted by length, and by number within a length.
Sorted(ls) == CHOOSE w \in [1 .. Cardinality(Coded(ls)) -> Coded(ls)] :
                \A i \in DOMAIN w : \A j \in i + 1 .. Len(w) :
                   ls[w[i]] < ls[w[j]] \/ (ls[w[i]] = ls[w[j]] /\ w[i] < w[j])

TableInit == /\ type \in Types
             /\ lens \in [0 .. Symbols - 1 -> 0 .. MAXBITS]
             /\ stage = "check" /\ ret = 0
             /\ work = <<>> /\ count = [l \in 0 .. MAXBITS |-> 0]
             /\ root = 0 /\ curr = 0 /\ drop = 0
             /\ huff = 0 /\ sym = 0 /\ len = 0
             /\ next = 0 /\ low = -1 /\ used = 0
             /\ table = <<>>

LimitsTable == type \in {"LENS", "DISTS"}

-----------------------------------------------------------------------------
\* No symbol at all: a table of two invalid entries, the error is left to decoding.
NoSymbols == /\ stage = "check"
             /\ Longest(lens) = 0
             /\ table' = [i \in {0, 1} |-> Entry(1, "invalid", 0)]
             /\ root' = 1
             /\ used' = 2
             /\ stage' = "done"
             /\ UNCHANGED <<type, lens, ret, work, count, curr, drop, huff, sym, len, next, low>>

\* Over-subscribed, or incomplete where that is not allowed.
Reject == /\ stage = "check"
          /\ Longest(lens) # 0
          /\ ~Accepted(type, lens)
          /\ ret' = -1
          /\ stage' = "done"
          /\ UNCHANGED <<type, lens, work, count, root, curr, drop, huff, sym, len, next, low, used, table>>

\* The root is at least as wide as the shortest code and no wider than the longest.
RootOf(ls) == CASE RootBits > Longest(ls)  -> Longest(ls)
                [] RootBits < Shortest(ls) -> Shortest(ls)
                [] OTHER                   -> RootBits

SetUp == /\ stage = "check"
         /\ Longest(lens) # 0
         /\ Accepted(type, lens)
         /\ LET r == RootOf(lens)
            IN /\ root' = r
               /\ curr' = r
               /\ used' = 2^r
               /\ IF LimitsTable /\ 2^r > ENOUGH
                    THEN ret' = 1 /\ stage' = "done"
                    ELSE stage' = "enter" /\ UNCHANGED ret
         /\ work' = Sorted(lens)
         /\ count' = [l \in 0 .. MAXBITS |-> CountOf(lens, l)]
         /\ len' = Shortest(lens)
         /\ UNCHANGED <<type, lens, drop, huff, sym, next, low, table>>

\* Mutant of Places: the bits that the root has taken are not dropped from the code.
PlacesUndropped == {next + huff + k * 2^(len - drop) : k \in 0 .. 2^(curr - (len - drop)) - 1}

\* Mutant of Places: a code shorter than the index is entered once.
PlacesOnce == {next + huff \div 2^drop}

\* Every index of the table in hand whose low bits are the code.
Places == {next + huff \div 2^drop + k * 2^(len - drop) : k \in 0 .. 2^(curr - (len - drop)) - 1}

\* Mutant of Increment: counts from the lowest bit.
IncrementLow(h, l) == (h + 1) % 2^l

\* The code after h, whose bits are written backwards: a carry runs from the top.
Increment(h, l) == LET free == {b \in 0 .. l - 1 : (h \div 2^b) % 2 = 0}
                       top  == CHOOSE b \in free : \A c \in free : c <= b
                   IN IF free = {} THEN 0 ELSE (h % 2^top) + 2^top

\* Index bits of a sub-table: as many as it takes to hold the codes still to come.
Width(l, d, cnt) == LET max == Longest(lens)
                        room[c \in l - d .. max - d] ==
                          IF c = l - d THEN 2^c - cnt[l] ELSE 2 * room[c - 1] - cnt[c + d]
                    IN CHOOSE c \in l - d .. max - d : /\ c = max - d \/ room[c] <= 0
                                                       /\ \A b \in l - d .. c - 1 : room[b] > 0

EnterCode ==
  /\ stage = "enter"
  /\ LET left    == [count EXCEPT ![len] = @ - 1]
         last    == left[len] = 0 /\ len = Longest(lens)
         nextLen == IF left[len] = 0 /\ ~last THEN lens[work[sym + 2]] ELSE len
         h       == Increment(huff, len)
         split   == ~last /\ nextLen > root /\ h % 2^root # low
         width   == Width(nextLen, root, left)
         entered == Overlay([i \in Places |-> Entry(len - drop, "symbol", work[sym + 1])], table)
     IN /\ huff' = h
        /\ sym' = sym + 1
        /\ count' = left
        /\ len' = nextLen
        /\ IF split
             THEN /\ drop' = root
                  /\ curr' = width
                  /\ next' = next + 2^curr
                  /\ used' = used + 2^width
                  /\ IF LimitsTable /\ used + 2^width > ENOUGH
                       THEN /\ ret' = 1
                            /\ table' = entered
                            /\ UNCHANGED low
                       ELSE /\ low' = h % 2^root
                            /\ table' = Overlay([i \in {h % 2^root} |-> Entry(root, "sub", [at |-> next + 2^curr, bits |-> width])],
                                                entered)
                            /\ UNCHANGED ret
             ELSE /\ table' = entered
                  /\ UNCHANGED <<drop, curr, next, used, low, ret>>
        /\ stage' = CASE ret' = 1 -> "done" [] last -> "rest" [] OTHER -> "enter"
  /\ UNCHANGED <<type, lens, root, work>>

\* A code that is not used up leaves one entry, which is marked invalid.
FillRest == /\ stage = "rest"
            /\ table' = IF huff = 0 THEN table
                        ELSE Overlay([i \in {next + huff} |-> Entry(len - drop, "invalid", 0)], table)
            /\ stage' = "done"
            /\ UNCHANGED <<type, lens, ret, work, count, root, curr, drop, huff, sym, len, next, low, used>>

TableNext == NoSymbols \/ Reject \/ SetUp \/ EnterCode \/ FillRest

TableSpec == TableInit /\ [][TableNext]_tableVars

-----------------------------------------------------------------------------
\* What the decoder finds for the next bits: the root entry, or the sub-table's.
Lookup(bits) == LET e == table[Num(SubSeq(bits, 1, root))]
                IN IF e.kind = "sub"
                     THEN LET f == table[e.val.at + Num(SubSeq(bits, root + 1, root + e.val.bits))]
                          IN [f EXCEPT !.bits = @ + root]
                     ELSE e

\* A finished table decodes every sequence of bits to the symbol whose canonical
\* code it begins with and takes exactly that code's bits, in one or two lookups;
\* a word that is nobody's code is found invalid (inflate_table, its root table
\* and sub-tables against the definition of the code).
Decodes == stage = "done" /\ ret = 0 =>
             \A bits \in [1 .. MAXBITS -> Bit] :
               \E w \in Leading(CodeOf(lens), bits) :
                 /\ Lookup(bits).bits = Len(w)
                 /\ IF CodeOf(lens)[w] = INVALID
                      THEN Lookup(bits).kind = "invalid"
                      ELSE Lookup(bits).kind = "symbol" /\ Lookup(bits).val = CodeOf(lens)[w]

\* Sub-tables neither overlap nor leave holes: what was given out is filled when the
\* table is finished, nothing lies beyond it, and it fits the room there is.
Packed == /\ \A i \in DOMAIN table : i < used
          /\ stage = "done" /\ ret = 0 => DOMAIN table = 0 .. used - 1
          /\ ret = 1 \/ ~LimitsTable \/ used <= ENOUGH

\* What is filled stays filled, and stays what it is.
KeepsEntries == \A p \in DOMAIN table : p \in DOMAIN table' /\ table'[p] = table[p]

\* An entry that is filled is never filled again: no code, sub-table or pointer to
\* one takes the place of another.
WrittenOnce == [][KeepsEntries]_tableVars

\* The lengths refused are those whose words do not partition the input: by the
\* sum of 2^-length, and by length 1 for the one incomplete code allowed.
Weight(ls) == LET sum[s \in 0 .. Symbols] ==
                    IF s = 0 THEN 0 ELSE sum[s - 1] + IF ls[s - 1] = 0 THEN 0 ELSE 2^(MAXBITS - ls[s - 1])
              IN sum[Symbols]
RefusesRightly == stage = "done" =>
                    (ret = -1 <=> /\ Weight(lens) # 0
                                  /\ Weight(lens) # 2^MAXBITS
                                  /\ \/ type = "CODES"
                                     \/ Weight(lens) > 2^MAXBITS
                                     \/ \E s \in DOMAIN lens : lens[s] > 1)
=============================================================================
