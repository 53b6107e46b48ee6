------------------------------ MODULE Inflate ------------------------------
(***************************************************************************)
(* inflate and inflate_fast of pako.js: one call takes bytes from z.input  *)
(* and appends bytes to z.output until it lacks one or the other, comes to *)
(* the end, or finds damage.  Everything it needs to go on later is in st. *)
(*                                                                         *)
(* One action per case of the switch; a case that waits for bits pulls a   *)
(* byte at a time, as NEEDBITS does.  hold and bits are one sequence of    *)
(* bits, a decoding table is the code that it stands for (HuffmanTable     *)
(* shows that), and the gzip header's fields are passed over.  TYPE and    *)
(* TYPEDO, LEN and LEN_, COPY and COPY_ differ only for Z_BLOCK and        *)
(* Z_TREES, which no caller here asks for, and are one mode each.          *)
(***************************************************************************)
EXTENDS Checksum, SlidingWindow

CONSTANTS CHUNK,    \* chunkSize: the room of an output buffer
          MAXMATCH, \* output of a match at most, 258
          MINBITS   \* window bits of a zlib header's nibble 0, 8

ASSUME InflateAssumption == /\ MAXBITS = 15
                            /\ CHUNK \in Nat \ {0} /\ MAXMATCH \in Nat \ {0} /\ MINBITS \in Nat

VARIABLES z,      \* the stream: input, bytes of it taken, output of the buffer in hand
          st,     \* inflate's state
          win,    \* its window
          call,   \* the call in progress: flush, and where input and output began
          pc,     \* "run" and "fast" are inside inflate, "back" has ret as its result
          ret,
          history \* everything that was ever written to an output buffer

inflateVars == <<z, st, win, call, pc, ret, history>>

Have == Len(z.input) - z.next
Room == CHUNK - Len(z.output)
ByteAt(i) == IF i <= Len(z.input) THEN z.input[i] ELSE 0

Concat(ss) == LET upTo[i \in 0 .. Len(ss)] == IF i = 0 THEN <<>> ELSE upTo[i - 1] \o ss[i] IN upTo[Len(ss)]

Zeros(n) == [i \in 1 .. n |-> 0]
One == BitsOf(32, 1)

\* inflateResetKeep: all but the window and the gzip flags.
Restarted(s) == [s EXCEPT !.mode = "HEAD", !.last = FALSE, !.havedict = FALSE, !.total = 0, !.hold = <<>>,
                          !.dmax = 32768, !.fixed = FALSE, !.lencode = <<>>, !.distcode = <<>>]

\* InflateState and inflateReset2 for the kinds of wrapping that are accepted.
NewState(wrap, wbits) ==
  Restarted([mode |-> "HEAD", last |-> FALSE, wrap |-> wrap, wbits |-> wbits, flags |-> Zeros(16), havedict |-> FALSE,
             dmax |-> 32768, check |-> Zeros(32), total |-> 0, hold |-> <<>>, length |-> 0, offset |-> 0, extra |-> 0,
             fixed |-> FALSE, lencode |-> <<>>, distcode |-> <<>>, ncode |-> 0, nlen |-> 0, ndist |-> 0, lens |-> <<>>])

Gzip == st.flags # Zeros(16)
Flag(i) == st.flags[i + 1] = 1
FHCRC == Flag(9)
FEXTRA == Flag(10)
FNAME == Flag(11)
FCOMMENT == Flag(12)

BytesOf(bits) == [i \in 1 .. Len(bits) \div 8 |-> Num(SubSeq(bits, 8 * i - 7, 8 * i))]
HeaderCrc(check, bytes) == IF FHCRC THEN Crc32(check, bytes) ELSE check

\* The check value of the wrapping over what was written.
Update(check, bytes) == IF Gzip THEN Crc32(check, bytes) ELSE Adler32(check, bytes)

\* fixedtables
FixedLen == CodeOf([s \in 0 .. 287 |-> CASE s < 144 -> 8 [] s \in 144 .. 255 -> 9 [] s \in 256 .. 279 -> 7 [] OTHER -> 8])
FixedDist == CodeOf([s \in 0 .. 31 |-> 5])
LenCode == IF st.fixed THEN FixedLen ELSE st.lencode
DistCode == IF st.fixed THEN FixedDist ELSE st.distcode

\* lbase, lext, dbase and dext; the symbols beyond them are invalid.
LengthBase == <<3, 4, 5, 6, 7, 8, 9, 10, 11, 13, 15, 17, 19, 23, 27, 31,
                35, 43, 51, 59, 67, 83, 99, 115, 131, 163, 195, 227, 258>>
LengthExtra(k) == IF k < 9 \/ k = 29 THEN 0 ELSE (k - 5) \div 4
DistExtra(k) == IF k < 5 THEN 0 ELSE (k - 3) \div 2
DistBase(k) == IF k < 5 THEN k ELSE 1 + (2 + ((k - 1) % 2)) * 2^DistExtra(k)

\* The word of a code that the bits begin with; there is one when Known.
Known(code, bits) == Leading(code, bits) # {}
First(code, bits) == CHOOSE w \in Leading(code, bits) : TRUE
Dropped(n, bits) == SubSeq(bits, n + 1, Len(bits))

\* Extra bits behind a symbol of the code of the code lengths.
RepeatBits(sym) == CASE sym = 16 -> 2 [] sym = 17 -> 3 [] sym = 18 -> 7 [] OTHER -> 0

-----------------------------------------------------------------------------
\* Bits that the case of this mode waits for.
Wanted == CASE st.mode = "HEAD" /\ st.wrap # {}           -> 16
            [] st.mode \in {"FLAGS", "OS"}                -> 16
            [] st.mode \in {"TIME", "DICTID", "STORED"}   -> 32
            [] st.mode = "EXLEN" /\ FEXTRA                -> 16
            [] st.mode = "HCRC" /\ FHCRC                  -> 16
            [] st.mode = "TYPE" /\ ~st.last               -> 3
            [] st.mode = "TABLE"                          -> 14
            [] st.mode = "LENLENS" /\ Len(st.lens) < st.ncode -> 3
            [] st.mode \in {"LENEXT", "DISTEXT"}          -> st.extra
            [] st.mode = "CHECK" /\ st.wrap # {}          -> 32
            [] st.mode = "LENGTH" /\ st.wrap # {} /\ Gzip -> 32
            [] OTHER                                      -> 0

\* Where a code is read, bits are pulled until they begin with a word of it.
Ready == CASE st.mode = "LEN"      -> Known(LenCode, st.hold)
           [] st.mode = "DIST"     -> Known(DistCode, st.hold)
           [] st.mode = "CODELENS" -> \/ Len(st.lens) = st.nlen + st.ndist
                                      \/ /\ Known(st.lencode, st.hold)
                                         /\ LET w == First(st.lencode, st.hold)
                                            IN Len(st.hold) >= Len(w) + RepeatBits(st.lencode[w])
           [] OTHER                -> Len(st.hold) >= Wanted

\* Cases that move bytes, not bits.
NeedsBytes == \/ st.mode = "EXTRA" /\ FEXTRA /\ st.length > 0
              \/ st.mode = "NAME" /\ FNAME
              \/ st.mode = "COMMENT" /\ FCOMMENT
              \/ st.mode = "COPY" /\ st.length > 0
NeedsRoom == \/ st.mode \in {"LIT", "MATCH"}
             \/ st.mode = "COPY" /\ st.length > 0

Stuck == \/ Have = 0 /\ (~Ready \/ NeedsBytes)
         \/ Room = 0 /\ NeedsRoom

\* inflate_fast takes over where nothing can run out within one length and distance.
FastEligible == st.mode = "LEN" /\ Have >= 6 /\ Room >= MAXMATCH

At(mode) == pc = "run" /\ st.mode = mode /\ ~Stuck /\ Ready /\ ~FastEligible

Becomes(s) == st' = s /\ UNCHANGED <<z, win, call, pc, ret, history>>
Bad(s) == [s EXCEPT !.mode = "BAD"]

\* The bytes of this call that are in the buffer, and appending to them.
Written == SubSeq(z.output, call.out0 + 1, Len(z.output))
Output(bytes) == /\ z' = [z EXCEPT !.output = @ \o bytes]
                 /\ history' = history \o bytes

-----------------------------------------------------------------------------
\* inflate is called: output goes behind what the buffer holds already.
Called(flush) == /\ call' = [flush |-> flush, in0 |-> z'.next, out0 |-> Len(z'.output)]
                 /\ pc' = "run"

\* PULLBYTE
Pull == /\ pc = "run" /\ ~Ready /\ ~FastEligible /\ Have > 0
        /\ z' = [z EXCEPT !.next = @ + 1]
        /\ st' = [st EXCEPT !.hold = @ \o BitsOf(8, z.input[z.next + 1])]
        /\ UNCHANGED <<win, call, pc, ret, history>>

\* inf_leave: totals, check value and window take in what this call has written.
Leave(code) ==
  /\ st' = [st EXCEPT !.total = @ + Len(Written),
                      !.check = IF st.wrap # {} /\ Written # <<>> THEN Update(@, Written) ELSE @]
  /\ win' = IF \/ win.size # 0
               \/ /\ Written # <<>>
                  /\ st.mode # "BAD"
                  /\ st.mode \in {"CHECK", "LENGTH", "DONE"} => call.flush # "FINISH"
               THEN UpdateWindow(win, 2^st.wbits, Written)
               ELSE win
  /\ ret' = IF code = "OK" /\ (call.flush = "FINISH" \/ (Written = <<>> /\ z.next = call.in0)) THEN "BUF_ERROR" ELSE code
  /\ pc' = "back"
  /\ UNCHANGED <<z, call, history>>

Starve == pc = "run" /\ Stuck /\ Leave("OK")

-----------------------------------------------------------------------------
MagicOrHeader ==
  /\ At("HEAD")
  /\ LET b == BytesOf(st.hold)
         nibble == Num(SubSeq(st.hold, 5, 8)) + MINBITS
         empty == [st EXCEPT !.hold = <<>>]
     IN Becomes(
          IF st.wrap = {} THEN [st EXCEPT !.mode = "TYPE"]
          ELSE IF "gzip" \in st.wrap /\ b = <<31, 139>>
            THEN [empty EXCEPT !.check = Crc32(Zeros(32), b), !.mode = "FLAGS"]
          ELSE IF \/ "zlib" \notin st.wrap
                  \/ (b[1] * 256 + b[2]) % 31 # 0
                  \/ b[1] % 16 # 8
                  \/ st.wbits # 0 /\ nibble > st.wbits
            THEN Bad([st EXCEPT !.flags = Zeros(16)])
          ELSE LET wbits == IF st.wbits = 0 THEN nibble ELSE st.wbits
               IN [empty EXCEPT !.flags = Zeros(16), !.wbits = wbits, !.dmax = 2^wbits, !.check = One,
                                !.mode = IF st.hold[14] = 1 THEN "DICTID" ELSE "TYPE"])

Flags == /\ At("FLAGS")
         /\ LET s == [st EXCEPT !.flags = st.hold]
            IN Becomes(IF Num(SubSeq(st.hold, 1, 8)) # 8 \/ SubSeq(st.hold, 14, 16) # Zeros(3) THEN Bad(s)
                       ELSE [s EXCEPT !.check = IF st.hold[10] = 1 THEN Crc32(@, BytesOf(st.hold)) ELSE @,
                                      !.hold = <<>>, !.mode = "TIME"])

Time == At("TIME") /\ Becomes([st EXCEPT !.check = HeaderCrc(@, BytesOf(st.hold)), !.hold = <<>>, !.mode = "OS"])

Os == At("OS") /\ Becomes([st EXCEPT !.check = HeaderCrc(@, BytesOf(st.hold)), !.hold = <<>>, !.mode = "EXLEN"])

ExLen == /\ At("EXLEN")
         /\ Becomes(IF FEXTRA
                      THEN [st EXCEPT !.length = Num(st.hold), !.check = HeaderCrc(@, BytesOf(st.hold)), !.hold = <<>>,
                                      !.mode = "EXTRA"]
                      ELSE [st EXCEPT !.mode = "EXTRA"])

\* n bytes of the header are passed over.
Skip(n, s) == /\ z' = [z EXCEPT !.next = @ + n]
              /\ st' = [s EXCEPT !.check = HeaderCrc(@, SubSeq(z.input, z.next + 1, z.next + n))]
              /\ UNCHANGED <<win, call, pc, ret, history>>

Extra == /\ At("EXTRA")
         /\ IF FEXTRA /\ st.length > 0
              THEN LET copy == IF st.length > Have THEN Have ELSE st.length
                   IN Skip(copy, [st EXCEPT !.length = @ - copy])
              ELSE Becomes([st EXCEPT !.length = 0, !.mode = "NAME"])

\* Up to a zero byte, or all there is.
Text(mode, present, following) ==
  /\ At(mode)
  /\ IF present
       THEN LET ends == {i \in z.next + 1 .. Len(z.input) : z.input[i] = 0}
            IN IF ends = {} THEN Skip(Have, st)
               ELSE Skip((CHOOSE i \in ends : \A j \in ends : i <= j) - z.next,
                         [st EXCEPT !.length = 0, !.mode = following])
       ELSE Becomes([st EXCEPT !.length = 0, !.mode = following])
Name == Text("NAME", FNAME, "COMMENT")
Comment == Text("COMMENT", FCOMMENT, "HCRC")

HCrc == /\ At("HCRC")
        /\ Becomes(IF FHCRC /\ st.hold # SubSeq(st.check, 1, 16) THEN Bad(st)
                   ELSE [st EXCEPT !.hold = IF FHCRC THEN <<>> ELSE @, !.check = Zeros(32), !.mode = "TYPE"])

DictId == At("DICTID") /\ Becomes([st EXCEPT !.check = Swapped(st.hold), !.hold = <<>>, !.mode = "DICT"])

\* Without a dictionary the call returns at once, past inf_leave.
Dict == /\ At("DICT")
        /\ IF st.havedict THEN Becomes([st EXCEPT !.check = One, !.mode = "TYPE"])
           ELSE /\ ret' = "NEED_DICT"
                /\ pc' = "back"
                /\ UNCHANGED <<z, st, win, call, history>>

-----------------------------------------------------------------------------
ToByte(bits) == Dropped(Len(bits) % 8, bits)

\* TYPEDO: the last block is over, or another one begins.
Block == /\ At("TYPE")
         /\ IF st.last THEN Becomes([st EXCEPT !.hold = ToByte(@), !.mode = "CHECK"])
            ELSE LET s == [st EXCEPT !.last = st.hold[1] = 1, !.hold = Dropped(3, @)]
                     type == Num(SubSeq(st.hold, 2, 3))
                 IN Becomes(CASE type = 0 -> [s EXCEPT !.hold = ToByte(@), !.mode = "STORED"]
                              [] type = 1 -> [s EXCEPT !.fixed = TRUE, !.mode = "LEN"]
                              [] type = 2 -> [s EXCEPT !.mode = "TABLE"]
                              [] type = 3 -> Bad(s))

Stored == /\ At("STORED")
          /\ Becomes(IF SubSeq(st.hold, 1, 16) # [i \in 1 .. 16 |-> 1 - st.hold[i + 16]] THEN Bad(st)
                     ELSE [st EXCEPT !.length = Num(SubSeq(st.hold, 1, 16)), !.hold = <<>>, !.mode = "COPY"])

\* Bytes go from the input to the output as they are.
Copy == /\ At("COPY")
        /\ IF st.length = 0 THEN Becomes([st EXCEPT !.mode = "TYPE"])
           ELSE LET copy == CHOOSE n \in {st.length, Have, Room} : n <= st.length /\ n <= Have /\ n <= Room
                    bytes == SubSeq(z.input, z.next + 1, z.next + copy)
                IN /\ z' = [z EXCEPT !.next = @ + copy, !.output = @ \o bytes]
                   /\ history' = history \o bytes
                   /\ st' = [st EXCEPT !.length = @ - copy]
                   /\ UNCHANGED <<win, call, pc, ret>>

TableSizes == /\ At("TABLE")
              /\ LET s == [st EXCEPT !.nlen = Num(SubSeq(st.hold, 1, 5)) + 257,
                                     !.ndist = Num(SubSeq(st.hold, 6, 10)) + 1,
                                     !.ncode = Num(SubSeq(st.hold, 11, 14)) + 4,
                                     !.hold = Dropped(14, @)]
                 IN Becomes(IF s.nlen > 286 \/ s.ndist > 30 THEN Bad(s)
                            ELSE [s EXCEPT !.lens = <<>>, !.mode = "LENLENS"])

Order == <<16, 17, 18, 0, 8, 7, 9, 6, 10, 5, 11, 4, 12, 3, 13, 2, 14, 1, 15>>

\* The lengths of the code that the code lengths are written in.
LenLens == /\ At("LENLENS")
           /\ IF Len(st.lens) < st.ncode
                THEN Becomes([st EXCEPT !.lens = Append(@, Num(SubSeq(st.hold, 1, 3))), !.hold = Dropped(3, @)])
                ELSE LET lens == [s \in 0 .. 18 |-> IF \E i \in DOMAIN st.lens : Order[i] = s
                                                    THEN st.lens[CHOOSE i \in DOMAIN st.lens : Order[i] = s] ELSE 0]
                     IN Becomes(IF Accepted("CODES", lens)
                                  THEN [st EXCEPT !.lencode = CodeOf(lens), !.lens = <<>>, !.fixed = FALSE, !.mode = "CODELENS"]
                                  ELSE Bad([st EXCEPT !.fixed = FALSE]))

\* A length, or a repetition; with all of them there, both codes are made. A word that
\* an empty code leaves over stands for length 0.
CodeLens ==
  /\ At("CODELENS")
  /\ IF Len(st.lens) < st.nlen + st.ndist
       THEN LET w    == First(st.lencode, st.hold)
                sym  == IF st.lencode[w] = INVALID THEN 0 ELSE st.lencode[w]
                more == Num(SubSeq(st.hold, Len(w) + 1, Len(w) + RepeatBits(sym)))
                copy == IF sym = 18 THEN 11 + more ELSE IF sym > 15 THEN 3 + more ELSE 1
                s    == [st EXCEPT !.hold = Dropped(Len(w) + RepeatBits(sym), @)]
            IN Becomes(IF (sym = 16 /\ st.lens = <<>>) \/ Len(st.lens) + copy > st.nlen + st.ndist THEN Bad(s)
                       ELSE LET len == CASE sym < 16 -> sym [] sym = 16 -> st.lens[Len(st.lens)] [] sym > 16 -> 0
                            IN [s EXCEPT !.lens = @ \o [i \in 1 .. copy |-> len]])
       ELSE LET lengths == [s \in 0 .. st.nlen - 1 |-> st.lens[s + 1]]
                dists   == [s \in 0 .. st.ndist - 1 |-> st.lens[st.nlen + s + 1]]
            IN Becomes(IF lengths[256] # 0 /\ Accepted("LENS", lengths) /\ Accepted("DISTS", dists)
                         THEN [st EXCEPT !.lencode = CodeOf(lengths), !.distcode = CodeOf(dists), !.lens = <<>>,
                                         !.mode = "LEN"]
                         ELSE Bad(st))

-----------------------------------------------------------------------------
\* A symbol of the literal/length code in state s, the word w of it being dropped.
LengthSymbol(s, w) ==
  LET sym == LenCode[w]
      r   == [s EXCEPT !.hold = Dropped(Len(w), @)]
  IN CASE sym = INVALID \/ sym > 285 -> Bad(r)
       [] sym = 256                  -> [r EXCEPT !.mode = "TYPE"]
       [] sym \in 0 .. 255           -> [r EXCEPT !.length = sym, !.mode = "LIT"]
       [] OTHER                      -> [r EXCEPT !.length = LengthBase[sym - 256], !.extra = LengthExtra(sym - 256),
                                                  !.mode = "LENEXT"]

DistSymbol(s, w) ==
  LET sym == DistCode[w]
      r   == [s EXCEPT !.hold = Dropped(Len(w), @)]
  IN IF sym = INVALID \/ sym > 29 THEN Bad(r)
     ELSE [r EXCEPT !.offset = DistBase(sym + 1), !.extra = DistExtra(sym + 1), !.mode = "DISTEXT"]

\* The extra bits are added to a length or to a distance, which dmax limits.
LengthWhole(s) == [s EXCEPT !.length = @ + Num(SubSeq(s.hold, 1, s.extra)), !.hold = Dropped(s.extra, @), !.mode = "DIST"]
DistWhole(s) == LET r == [s EXCEPT !.offset = @ + Num(SubSeq(s.hold, 1, s.extra)), !.hold = Dropped(s.extra, @)]
                IN IF r.offset > r.dmax THEN Bad(r) ELSE [r EXCEPT !.mode = "MATCH"]

LenCase == At("LEN") /\ Becomes(LengthSymbol(st, First(LenCode, st.hold)))
LenExt == At("LENEXT") /\ Becomes(LengthWhole(st))
Dist == At("DIST") /\ Becomes(DistSymbol(st, First(DistCode, st.hold)))
DistExt == At("DISTEXT") /\ Becomes(DistWhole(st))

\* n bytes from dist behind the end of o, which may be among them.
Repeat(o, dist, n) == [i \in 1 .. n |-> o[Len(o) - dist + 1 + ((i - 1) % dist)]]

\* n bytes of the window.
Segment(from, n) == SubSeq(win.data, from + 1, from + n)

\* Mutant of Match: what lies in the window is taken to be older than it is after a wrap.
MatchUnwrapped ==
  /\ At("MATCH")
  /\ LET back == st.offset - Len(Written)
     IN IF back > win.have THEN Becomes(Bad(st))
        ELSE LET copy  == CHOOSE n \in {st.length, Room} : n <= st.length /\ n <= Room
                 some  == IF back > 0 /\ back < copy THEN back ELSE copy
                 from  == IF back > win.next THEN win.size - back ELSE win.next - back
                 bytes == IF back <= 0 THEN Repeat(z.output, st.offset, some) ELSE Segment(from, some)
             IN /\ Output(bytes)
                /\ st' = [st EXCEPT !.length = @ - some, !.mode = IF st.length = some THEN "LEN" ELSE @]
                /\ UNCHANGED <<win, call, pc, ret>>

\* As much of a match as there is in one piece: behind the window's start, before it, or
\* in the output of this call.
Match ==
  /\ At("MATCH")
  /\ LET back == st.offset - Len(Written)  \* how far back in the window
     IN IF back > win.have THEN Becomes(Bad(st))
        ELSE LET piece == IF back <= 0 THEN st.length ELSE IF back > win.next THEN back - win.next ELSE back
                 from  == IF back > win.next THEN win.size - (back - win.next) ELSE win.next - back
                 copy  == CHOOSE n \in {piece, st.length, Room} : n <= piece /\ n <= st.length /\ n <= Room
                 bytes == IF back <= 0 THEN Repeat(z.output, st.offset, copy) ELSE Segment(from, copy)
             IN /\ Output(bytes)
                /\ st' = [st EXCEPT !.length = @ - copy, !.mode = IF st.length = copy THEN "LEN" ELSE @]
                /\ UNCHANGED <<win, call, pc, ret>>

Lit == /\ At("LIT")
       /\ Output(<<st.length>>)
       /\ st' = [st EXCEPT !.mode = "LEN"]
       /\ UNCHANGED <<win, call, pc, ret>>

-----------------------------------------------------------------------------
\* The loop of inflate_fast reads without asking; its locals are the fields of st here.
Fast(mode) == pc = "fast" /\ st.mode = mode

\* n bytes are read into hold, before what op makes of the state.
Reading(n, op(_)) ==
  /\ z' = [z EXCEPT !.next = @ + n]
  /\ st' = op([st EXCEPT !.hold = @ \o Concat([i \in 1 .. n |-> BitsOf(8, ByteAt(z.next + i))])])
  /\ UNCHANGED <<win, call, pc, ret, history>>

\* Bytes it takes to have a whole code at hand, or so many bits.
ForCode == IF Len(st.hold) < 15 THEN 2 ELSE 0
ForBits(n) == IF Len(st.hold) >= n THEN 0 ELSE IF Len(st.hold) + 8 >= n THEN 1 ELSE 2

EnterFast == /\ pc = "run" /\ FastEligible
             /\ pc' = "fast"
             /\ UNCHANGED <<z, st, win, call, ret, history>>

\* Mutant of GoOn: one byte less of input is taken to be enough.
GoOnShort == Have >= 5 /\ Room >= MAXMATCH

\* Enough for the longest length and distance that there can be.
GoOn == Have >= 6 /\ Room >= MAXMATCH

FastLen == /\ Fast("LEN") /\ GoOn
           /\ Reading(ForCode, LAMBDA s : LengthSymbol(s, First(LenCode, s.hold)))

FastLenExt == Fast("LENEXT") /\ Reading(ForBits(st.extra), LengthWhole)

FastDist == Fast("DIST") /\ Reading(ForCode, LAMBDA s : DistSymbol(s, First(DistCode, s.hold)))

FastDistExt == Fast("DISTEXT") /\ Reading(ForBits(st.extra), DistWhole)

FastLit == /\ Fast("LIT")
           /\ Output(<<st.length>>)
           /\ st' = [st EXCEPT !.mode = "LEN"]
           /\ UNCHANGED <<win, call, pc, ret>>

\* The window's part of a match that begins back bytes before this call's output.
FromWindow(back) == IF win.next = 0 THEN Segment(win.size - back, back)
                    ELSE IF win.next < back THEN Segment(win.size + win.next - back, back - win.next) \o Segment(0, win.next)
                    ELSE Segment(win.next - back, back)

\* A whole match at once: from the window, the rest from the output.
FastMatch ==
  /\ Fast("MATCH")
  /\ LET back == st.offset - Len(Written)
     IN IF back > win.have THEN Becomes(Bad(st))
        ELSE /\ Output(IF back <= 0 THEN Repeat(z.output, st.offset, st.length)
                       ELSE IF back >= st.length THEN SubSeq(FromWindow(back), 1, st.length)
                       ELSE FromWindow(back) \o Repeat(z.output \o FromWindow(back), st.offset, st.length - back))
             /\ st' = [st EXCEPT !.mode = "LEN"]
             /\ UNCHANGED <<win, call, pc, ret>>

\* The loop is left: whole bytes that are still in hold go back to the input.
LeaveFast == /\ pc = "fast"
             /\ st.mode \in {"TYPE", "BAD"} \/ (st.mode = "LEN" /\ ~GoOn)
             /\ z' = [z EXCEPT !.next = @ - Len(st.hold) \div 8]
             /\ st' = [st EXCEPT !.hold = SubSeq(@, 1, Len(@) % 8)]
             /\ pc' = "run"
             /\ UNCHANGED <<win, call, ret, history>>

-----------------------------------------------------------------------------
\* The check value over what this call has written, against the trailer's.
Check == /\ At("CHECK")
         /\ IF st.wrap = {} THEN Becomes([st EXCEPT !.mode = "LENGTH"])
            ELSE LET s == [st EXCEPT !.total = @ + Len(Written),
                                     !.check = IF Written = <<>> THEN @ ELSE Update(@, Written)]
                 IN /\ st' = IF (IF Gzip THEN st.hold ELSE Swapped(st.hold)) # s.check THEN Bad(s)
                             ELSE [s EXCEPT !.hold = <<>>, !.mode = "LENGTH"]
                    /\ call' = [call EXCEPT !.out0 = Len(z.output)]
                    /\ UNCHANGED <<z, win, pc, ret, history>>

Length == /\ At("LENGTH")
          /\ Becomes(IF st.wrap # {} /\ Gzip /\ st.hold # BitsOf(32, st.total) THEN Bad(st)
                     ELSE [st EXCEPT !.hold = IF st.wrap # {} /\ Gzip THEN <<>> ELSE @, !.mode = "DONE"])

Done == At("DONE") /\ Leave("STREAM_END")
Damaged == At("BAD") /\ Leave("DATA_ERROR")

Inflating == \/ Pull \/ Starve
             \/ MagicOrHeader \/ Flags \/ Time \/ Os \/ ExLen \/ Extra \/ Name \/ Comment \/ HCrc \/ DictId \/ Dict
             \/ Block \/ Stored \/ Copy \/ TableSizes \/ LenLens \/ CodeLens
             \/ LenCase \/ LenExt \/ Dist \/ DistExt \/ Match \/ Lit
             \/ EnterFast \/ FastLen \/ FastLenExt \/ FastDist \/ FastDistExt \/ FastLit \/ FastMatch \/ LeaveFast
             \/ Check \/ Length \/ Done \/ Damaged
=============================================================================
