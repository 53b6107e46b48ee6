----------------------------- MODULE FileReader -----------------------------
(***************************************************************************)
(* The reader of finished archives (glog_reader.js): FileReaderV3 and V4,  *)
(* which read one record at a time and, where the file is broken, go on    *)
(* behind the next sync marker.                                            *)
(*                                                                         *)
(* A file is its bytes. The search for the marker runs in the steps of     *)
(* NeedleSearch. Two conversions are what a reader can tell of them:       *)
(*   - deflate (InflateStream has it in full): a byte is a literal, a copy *)
(*     of an earlier byte of the output, the end or damage, so that a      *)
(*     record means what the records before it have left in the window;    *)
(*   - AES: each byte is shifted by a keystream that comes from the        *)
(*     record's key bytes.                                                 *)
(***************************************************************************)
EXTENDS NeedleSearch

CONSTANTS MaxLength,  \* SINGLE_LOG_CONTENT_MAX_LENGTH, 16 K
          KeyBytes,   \* initial vector and public key of a record, 80
          ChunkSize   \* of pako's output, 16 K

ASSUME ReaderAssumption == /\ Byte = 0 .. 255
                           /\ MaxLength \in Nat /\ KeyBytes \in Nat
                           /\ ChunkSize \in Nat \ {0}

VARIABLES pc,        \* "none", "opening", "ready", "recover", "returned", "thrown"
          content, position,
          version,
          zipped,    \* compressMode of a version 3 file
          inflate,
          pair       \* what read returned: n, and the data

readerVars == <<searchVars, pc, content, position, version, zipped, inflate, pair>>

MAGIC == <<27, 173, 192, 222>>
RecoveryVersion == 3
CipherVersion == 4

NewInflate == [history |-> <<>>, ended |-> FALSE]

ReaderInit == /\ SearchInit
              /\ pc = "none"
              /\ content = <<>> /\ position = 0
              /\ version = 0 /\ zipped = FALSE
              /\ inflate = NewInflate
              /\ pair = [n |-> 0, data |-> <<>>]

At(p) == content[p + 1]
U16(p) == At(p) + 256 * At(p + 1)
Slice(p, n) == SubSeq(content, p + 1, p + n)
Space(p) == IF Len(content) <= p THEN 0 ELSE Len(content) - p

\* How much of a sync marker lies at p.
MarkedAt(p) == CHOOSE k \in 0 .. Size : /\ k <= Space(p)
                                        /\ Slice(p, k) = SubSeq(Needle, 1, k)
                                        /\ k = Size \/ k = Space(p) \/ At(p + k) # Needle[k + 1]

-----------------------------------------------------------------------------
Literal(c) == c < 200
Copies(c) == c \in 200 .. 249  \* of the byte c - 199 before
Ends(c) == c = 250

\* What a push makes of data: the output so far, until the end or damage.
Inflated(history, data) ==
  LET after[k \in 0 .. Len(data)] ==
        IF k = 0 THEN [out |-> history, is |-> "open"]
        ELSE LET was == after[k - 1]
                 c   == data[k]
             IN CASE was.is # "open" -> was
                  [] Literal(c) -> [was EXCEPT !.out = Append(@, c)]
                  [] Copies(c) /\ c - 199 <= Len(was.out) -> [was EXCEPT !.out = Append(@, @[Len(@) - (c - 200)])]
                  [] Ends(c) -> [was EXCEPT !.is = "end"]
                  [] OTHER -> [was EXCEPT !.is = "damaged"]
  IN after[Len(data)]

\* The last chunk that onData was given; the ones before it are overwritten.
LastChunk(out) == LET full == Len(out) \div ChunkSize
                      from == IF Len(out) % ChunkSize = 0 /\ full > 0 THEN full - 1 ELSE full
                  IN SubSeq(out, from * ChunkSize + 1, Len(out))

\* What the object is and gives after a push that made did of what it held before.
After(before, did) ==
  [inflate |-> [history |-> did.out, ended |-> did.is # "open"],
   data    |-> IF did.is = "damaged" THEN <<>> ELSE LastChunk(SubSeq(did.out, Len(before) + 1, Len(did.out)))]

\* Mutant of Decompress: each record has an object of its own.
DecompressAlone(object, data) == After(<<>>, Inflated(<<>>, data))

\* decompress, <<>> for null: an object that has ended, with an error or without, takes no more.
Decompress(object, data) == IF object.ended THEN [inflate |-> object, data |-> <<>>]
                            ELSE After(object.history, Inflated(object.history, data))

Keystream(key) == LET shift[k \in 0 .. Len(key)] == IF k = 0 THEN 0 ELSE shift[k - 1] + k * key[k]
                  IN shift[Len(key)]
Decrypt(key, data) == [k \in 1 .. Len(data) |-> (data[k] - Keystream(key)) % 256]

-----------------------------------------------------------------------------
Throw == /\ pc' = "thrown"
         /\ UNCHANGED <<searchVars, content, position, version, zipped, inflate, pair>>

\* readHeader, up to the constructor of the version's reader: a new inflate, a new table.
Open(bytes) ==
  /\ content' = bytes
  /\ inflate' = NewInflate
  /\ IF \/ Len(bytes) < Len(MAGIC) + 1 \/ SubSeq(bytes, 1, Len(MAGIC)) # MAGIC
        \/ bytes[Len(MAGIC) + 1] \notin {RecoveryVersion, CipherVersion}
       THEN /\ pc' = "thrown"
            /\ UNCHANGED <<searchVars, position, version, zipped, pair>>
       ELSE /\ version' = bytes[Len(MAGIC) + 1]
            /\ position' = Len(MAGIC) + 1
            /\ zipped' = FALSE
            /\ pc' = "opening"
            /\ search' = "table" /\ partialMatchTable' = [q \in {0} |-> -1] /\ i' = 0 /\ j' = -1
            /\ UNCHANGED <<haystack, found, pair>>

\* readRemainHeader: the modes of version 3, the name, which is skipped, and a sync marker.
ReadHeader ==
  /\ pc = "opening" /\ search = "idle"
  /\ LET modes == IF version = RecoveryVersion THEN 1 ELSE 0
         from  == position + modes
         named == from + 2
         start == named + U16(from)
     IN IF \/ Space(position) < modes \/ (modes = 1 /\ ~(At(position) \div 16 \in 0 .. 1 /\ At(position) % 16 \in 0 .. 1))
           \/ Space(from) < 2 \/ Space(named) < U16(from) + Size
           \/ MarkedAt(start) < Size
          THEN Throw
          ELSE /\ position' = start + Size
               /\ zipped' = (modes = 1 /\ At(position) \div 16 = 1)
               /\ pc' = "ready"
               /\ UNCHANGED <<searchVars, content, version, inflate, pair>>

Give(n, data) == /\ pair' = [n |-> n, data |-> data]
                 /\ pc' = "returned"

\* tryRecover: the marker is looked for from p on.
Recover(p) == /\ position' = p
              /\ pc' = "recover"
              /\ Begin(SubSeq(content, p + 1, Len(content)))
              /\ UNCHANGED <<content, version, zipped, pair>>

\* Mutant of ResumeAt: the marker itself is not skipped.
ResumeAtMarker(sync) == position + sync

ResumeAt(sync) == position + sync + Size

Recovered == /\ pc = "recover" /\ search = "idle"
             /\ IF found = -1 THEN Give(-1, <<>>) /\ position' = position
                ELSE Give(0, <<>>) /\ position' = ResumeAt(found)
             /\ UNCHANGED <<searchVars, content, version, zipped, inflate>>

Smallest == 2 + 1 + Size

\* Too little for a record: the file has ended.
EndOfFile == /\ pc = "ready" /\ Space(position) < Smallest
             /\ Give(-1, <<>>)
             /\ UNCHANGED <<searchVars, content, position, version, zipped, inflate>>

\* The modes of a version 4 record: none, or deflate; none, or AES.
Zips == IF version = RecoveryVersion THEN zipped ELSE At(position) \div 16 = 2
Encrypts == version = CipherVersion /\ At(position) % 16 = 2
ModesLegal == version = CipherVersion => At(position) \div 16 \in 1 .. 2 /\ At(position) % 16 \in 1 .. 2

IllegalModes == /\ pc = "ready" /\ Space(position) >= Smallest
                /\ ~ModesLegal
                /\ Recover(position + 1)
                /\ UNCHANGED inflate

Reads == pc = "ready" /\ Space(position) >= Smallest /\ ModesLegal

\* Where a record's length and data are.
LengthAt == position + IF version = CipherVersion THEN 1 + (IF Encrypts THEN KeyBytes ELSE 0) ELSE 0
DataAt == LengthAt + 2
LogLength == U16(LengthAt)

NoKey == Encrypts /\ (Space(position + 1) < KeyBytes \/ Space(LengthAt) < 2)

\* Mutant of BadLength: a log of the greatest length is not read.
BadLengthEarly == LogLength = 0 \/ LogLength >= MaxLength

BadLength == LogLength = 0 \/ LogLength > MaxLength

TooLong == Space(DataAt) < LogLength + Size

\* Version 3 looks at the space first, version 4 at the length.
NoSpace == TooLong /\ (version = RecoveryVersion \/ ~BadLength)

\* "No enough space": read throws, a ReferenceError as the message names no variable.
ReadBeyond == /\ Reads
              /\ ~NoKey => NoSpace
              /\ Throw

ReadBadLength == /\ Reads /\ ~NoKey /\ ~NoSpace
                 /\ BadLength
                 /\ Recover(DataAt)
                 /\ UNCHANGED inflate

ReadsData == Reads /\ ~NoKey /\ ~NoSpace /\ ~BadLength
Data == IF Encrypts THEN Decrypt(Slice(position + 1, KeyBytes), Slice(DataAt, LogLength)) ELSE Slice(DataAt, LogLength)
MarkerAt == DataAt + LogLength

\* The data is as it should be, the marker is looked at: behind it, or from where it goes wrong.
Checked(data) == LET marked == MarkedAt(MarkerAt)
                 IN IF marked = Size
                      THEN /\ Give(Len(data), data)
                           /\ position' = MarkerAt + Size
                           /\ UNCHANGED <<searchVars, content, version, zipped>>
                      ELSE Recover(MarkerAt + marked)

ReadStored == /\ ReadsData /\ ~Zips
              /\ Checked(Data)
              /\ UNCHANGED inflate

ReadZipped == /\ ReadsData /\ Zips
              /\ LET did == Decompress(inflate, Data)
                 IN /\ inflate' = did.inflate
                    /\ IF did.data = <<>> THEN Recover(MarkerAt) ELSE Checked(did.data)

SearchStep == /\ Computing \/ Searching
              /\ UNCHANGED <<pc, content, position, version, zipped, inflate, pair>>

Reading == \/ ReadHeader \/ Recovered \/ EndOfFile \/ IllegalModes \/ ReadBeyond \/ ReadBadLength
           \/ ReadStored \/ ReadZipped \/ SearchStep
=============================================================================
