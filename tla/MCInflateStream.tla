-------------------------- MODULE MCInflateStream --------------------------
(* Model-checking instance of InflateStream. The streams are the bytes of  *)
(* real deflate, zlib and gzip streams, a window of 8 bytes being enough   *)
(* for the intact ones; bits = 3 and 35 ask for such a window, 35 for      *)
(* either wrapping. MINBITS is 3 accordingly.                              *)
EXTENDS InflateStream

Bits(raw, bits) == [raw |-> raw, bits |-> bits]
Raw == Bits(TRUE, 3)
Wrapped == Bits(FALSE, 35)

Session(options, dictionary, mode, cuts, bytes, plain, ends) ==
  [raw |-> options.raw, bits |-> options.bits, dictionary |-> dictionary, flush |-> mode, cuts |-> cuts,
   bytes |-> bytes, plain |-> plain, ends |-> ends]
Plainly(options, bytes, plain, ends) == Session(options, <<>>, "NO_FLUSH", {}, bytes, plain, ends)

\* Blocks of every kind, with matches all around the window and codes of up to 10 bits.
Blocks == Plainly(Raw,
  <<74, 76, 74, 62, 1, 66, 211, 16, 20, 144, 78, 5, 67, 0, 81, 113, 108, 36, 201, 17, 4, 65, 80, 86, 79, 48, 123,
    175, 191, 0, 209, 86, 67, 192, 60, 45, 195, 191, 243, 247, 250, 253, 111, 255, 253, 31, 111, 1, 3, 0, 252, 255,
    120, 121, 122, 3, 17, 8, 26, 0>>,
  <<97, 98, 99, 200, 98, 99, 200, 98, 150, 99, 200, 98, 99, 200, 98, 150, 99, 200, 98, 98, 99, 200, 101, 200, 101,
    200, 101, 200, 97, 106, 97, 106, 97, 106, 97, 105, 97, 106, 97, 106, 97, 105, 97, 106, 97, 104, 98, 99, 105, 97,
    106, 97, 104, 98, 99, 105, 97, 106, 97, 97, 106, 97, 120, 121, 122, 106, 97, 120, 121, 97, 120, 121, 122, 106,
    97, 120, 121, 97, 120>>,
  "end")
\* Records that end with an empty stored block; the third is longer than a chunk.
Records == Session(Raw, <<>>, "SYNC_FLUSH", {13, 45, 59, 66},
  <<74, 76, 74, 78, 1, 194, 84, 0, 0, 0, 0, 255, 255, 68, 197, 177, 145, 36, 71, 16, 4, 65, 89, 61, 193, 236, 189,
    254, 2, 68, 91, 13, 1, 243, 180, 140, 235, 191, 183, 251, 5, 0, 0, 255, 255, 66, 80, 21, 8, 12, 161, 127, 193,
    17, 0, 0, 0, 255, 255, 170, 4, 0, 0, 0, 255, 255>>,
  <<97, 98, 99, 100, 99, 100, 99, 101, 97, 98, 99, 100, 99, 106, 100, 99, 106, 100, 99, 106, 100, 99, 98, 106, 100,
    99, 106, 100, 99, 98, 106, 100, 99, 120, 106, 100, 99, 120, 106, 100, 99, 120, 106, 100, 99, 120, 106, 100, 99,
    120, 250, 99, 120, 250, 99, 120, 250, 99, 120, 250, 121>>,
  "open")
\* A zlib stream that names its dictionary, which is longer than the window.
Named == Session(Wrapped, <<104, 101, 108, 108, 111, 44, 32, 119, 111, 114, 108, 100>>, "NO_FLUSH", {},
  <<8, 60, 29, 84, 4, 137, 3, 209, 137, 96, 34, 41, 25, 0, 24, 114, 3, 236>>,
  <<111, 44, 32, 119, 97, 111, 44, 32, 119, 97, 98, 99>>,
  "end")
\* A zlib stream whose last piece is pushed with FINISH.
Whole == Session(Wrapped, <<>>, "FINISH", {},
  <<8, 29, 75, 76, 2, 193, 100, 4, 145, 130, 160, 1, 155, 67, 10, 186>>,
  <<97, 98, 97, 98, 97, 98, 99, 97, 98, 97, 98, 99, 97, 98, 97, 98, 99, 100, 98, 99, 97, 98, 97, 98, 99, 100, 98,
    99>>,
  "end")
\* Two gzip members, the first with everything that a header may have.
Members == Plainly(Wrapped,
  <<31, 139, 8, 30, 1, 2, 3, 4, 0, 3, 2, 0, 69, 88, 110, 0, 99, 99, 0, 235, 249, 75, 76, 74, 6, 35, 0, 234, 17,
    156, 75, 8, 0, 0, 0, 31, 139, 8, 0, 1, 2, 3, 4, 0, 3, 203, 200, 4, 0, 172, 42, 147, 216, 2, 0, 0, 0>>,
  <<97, 98, 99, 97, 98, 99, 97, 98, 104, 105>>,
  "end")
\* Two gzip members, the second with a match that may reach behind the call in progress.
SecondMatches == Plainly(Wrapped,
  <<31, 139, 8, 0, 1, 2, 3, 4, 0, 3, 203, 200, 4, 0, 172, 42, 147, 216, 2, 0, 0, 0, 31, 139, 8, 0, 1, 2, 3, 4, 0,
    3, 203, 200, 4, 65, 0, 184, 46, 153, 225, 6, 0, 0, 0>>,
  <<104, 105, 104, 105, 104, 105, 104, 105>>,
  "end")
\* The check values of zlib and gzip, the size, and the check value of a header do not match.
WrongAdler == Plainly(Wrapped, <<8, 29, 75, 76, 2, 0, 1, 38, 0, 192>>, <<97, 98>>, "bad")
WrongCrc == Plainly(Wrapped,
  <<31, 139, 8, 0, 1, 2, 3, 4, 0, 3, 203, 200, 4, 0, 173, 42, 147, 216, 2, 0, 0, 0>>,
  <<104, 105>>,
  "bad")
WrongSize == Plainly(Wrapped,
  <<31, 139, 8, 0, 1, 2, 3, 4, 0, 3, 203, 200, 4, 0, 172, 42, 147, 216, 3, 0, 0, 0>>,
  <<104, 105>>,
  "bad")
WrongHeaderCrc == Plainly(Wrapped,
  <<31, 139, 8, 2, 1, 2, 3, 4, 0, 3, 81, 240, 203, 200, 4, 0, 172, 42, 147, 216, 2, 0, 0, 0>>,
  <<>>,
  "bad")
\* Headers that are none: no wrapping, another method, gzip where zlib is asked for, flags
\* that are reserved, a window that is too large.
NotWrapped == Plainly(Bits(FALSE, 0), <<18, 52, 86>>, <<>>, "bad")
NotDeflate == Plainly(Wrapped, <<9, 21, 0>>, <<>>, "bad")
NotGzip == Plainly(Bits(FALSE, 3), <<31, 139, 8, 0, 0>>, <<>>, "bad")
GzipMethod == Plainly(Wrapped, <<31, 139, 9, 0, 0>>, <<>>, "bad")
GzipFlags == Plainly(Wrapped, <<31, 139, 8, 128, 0>>, <<>>, "bad")
WideWindow == Plainly(Wrapped, <<24, 25, 75, 4, 0, 0, 98, 0, 98>>, <<>>, "bad")
\* A block of no type, a stored length that does not match, distances before the start and
\* beyond the window of the header, symbols that stand for nothing.
BadType == Plainly(Raw, <<74, 76, 2, 28, 0, 0, 0, 0, 0>>, <<97, 98>>, "bad")
BadStored == Plainly(Raw, <<1, 2, 0, 253, 254, 97, 98>>, <<>>, "bad")
TooFar == Plainly(Raw, <<75, 76, 74, 6, 226, 148, 212, 180, 244, 140, 76, 0>>, <<97, 98, 99>>, "bad")
BeyondHeader == Plainly(Wrapped,
  <<8, 29, 75, 76, 74, 78, 73, 77, 75, 207, 200, 4, 50, 18, 19, 19, 19, 19, 1, 59, 181, 6, 153>>,
  <<97, 98, 99, 100, 101, 102, 103, 104, 105>>,
  "bad")
BadLength == Plainly(Raw, <<75, 28, 3, 0, 0, 0, 0, 0, 0>>, <<97>>, "bad")
BadDistance == Plainly(Raw, <<75, 76, 2, 62, 0, 0, 0, 0, 0, 0>>, <<97, 98>>, "bad")
\* Codes that cannot be: too many symbols, a code of code lengths that is over-subscribed or
\* empty, repetitions of nothing and beyond the end, no end of block, too many codes.
BadSizes == Plainly(Raw, <<245, 0, 0, 0, 0, 0>>, <<>>, "bad")
BadLengthCode == Plainly(Raw, <<5, 0, 146, 4, 0, 0, 0>>, <<>>, "bad")
NoLengthCode == Plainly(Raw,
  <<5, 0, 0, 0, 0, 0, 0, 0, 0, 0, 0, 0, 0, 0, 0, 0, 0, 0, 0, 0, 0, 0, 0, 0, 0, 0, 0, 0, 0, 0, 0, 0, 0, 0, 0, 0, 0,
    0, 0, 0, 0, 0>>,
  <<>>,
  "bad")
RepeatNothing == Plainly(Raw, <<5, 0, 130, 0, 255, 2>>, <<>>, "bad")
RepeatBeyond == Plainly(Raw, <<5, 0, 128, 228, 255, 63, 64>>, <<>>, "bad")
Endless == Plainly(Raw, <<5, 192, 129, 0, 0, 0, 0, 0, 144, 86, 255, 21, 4>>, <<>>, "bad")
Oversubscribed == Plainly(Raw, <<5, 192, 129, 0, 0, 0, 0, 0, 144, 86, 254, 35, 0>>, <<>>, "bad")
\* The one code that may be incomplete, its spare word not used and used.
OneDistance == Plainly(Raw, <<5, 192, 129, 0, 0, 0, 0, 0, 144, 86, 255, 19, 16>>, <<97, 97>>, "end")
SpareDistance == Plainly(Raw,
  <<13, 192, 129, 0, 0, 0, 0, 128, 32, 214, 253, 37, 174, 18, 0, 0, 0, 0, 0, 0>>,
  <<97, 97>>,
  "bad")
\* The dictionary is another one than the stream names, is missing, and is that of a raw stream.
WrongDictionary == Session(Wrapped, <<104, 101, 108, 108, 111>>, "NO_FLUSH", {},
  <<8, 60, 29, 84, 4, 137, 3, 209, 137, 0, 4, 143, 1, 148>>,
  <<>>,
  "dict")
NoDictionary == Plainly(Wrapped, <<8, 60, 29, 84, 4, 137, 3, 209, 137, 0, 4, 143, 1, 148>>, <<>>, "dict")
RawDictionary == Session(Raw, <<104, 101, 108, 108, 111, 44, 32, 119, 111, 114, 108, 100>>, "NO_FLUSH", {},
  <<3, 209, 137, 73, 96, 140, 160, 1>>,
  <<111, 44, 32, 119, 97, 98, 32, 119, 97, 98, 32, 119, 97, 98, 32, 119, 97, 98, 32, 119, 97>>,
  "end")
\* Streams that break off, the other one in a length and distance of 48 bits.
CutOff == Plainly(Raw,
  <<74, 76, 2, 195, 228, 20, 64, 81, 113, 108, 36, 201, 17, 4, 65, 80, 86, 79, 48, 123, 175, 191, 0, 209, 86, 67,
    192, 60, 45, 227, 223>>,
  <<97, 98, 97, 98, 97, 98, 97, 99, 100, 106>>,
  "open")
WidestPair == Plainly(Raw,
  <<213, 253, 65, 130, 36, 73, 146, 100, 89, 158, 245, 1, 18, 139, 154, 71, 86, 223, 127, 251, 175, 49, 243, 62,
    32, 177, 168, 121, 100, 245, 13, 102, 224, 255, 251, 255, 129, 255, 31, 0>>,
  <<97, 97, 97, 97, 109>>,
  "open")

-----------------------------------------------------------------------------
Intact == {Blocks, Records, Named, Whole, Members, OneDistance, WrongDictionary, NoDictionary,
           RawDictionary, CutOff, WidestPair}
Broken == {WrongAdler, WrongCrc, WrongSize, WrongHeaderCrc, NotWrapped, NotDeflate, NotGzip,
           GzipMethod, GzipFlags, WideWindow, BadType, BadStored, TooFar, BeyondHeader, BadLength,
           BadDistance, BadSizes, BadLengthCode, NoLengthCode, RepeatNothing, RepeatBeyond,
           Endless, Oversubscribed, SpareDistance}
All == Intact \cup Broken

SomePieces == {1, 7}

\* Not among All: pushed byte by byte, Told is violated by it.
TwoMembers == {SecondMatches}
=============================================================================
