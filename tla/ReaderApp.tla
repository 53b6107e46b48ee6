----------------------------- MODULE ReaderApp -----------------------------
(***************************************************************************)
(* The desktop reader (main.js, with preload.js and renderer.js): files    *)
(* are dropped on its window, a directory is chosen, and half a second     *)
(* later all of them are parsed in one callback, each into a file of the   *)
(* directory. The event loop runs nothing else while a callback runs.      *)
(*                                                                         *)
(* A scenario says which files there are and what is dropped; of a file it *)
(* also says what was written into it, for the properties.                 *)
(***************************************************************************)
EXTENDS FileReader, LogMessage

CONSTANTS Scenarios,  \* [disk, drops, dirs]
          Absent      \* no bytes: an input file that is gone

\* A file has bytes unless it is gone; what is dropped are files that a scenario has.
ASSUME ScenarioAssumption ==
  \A s \in Scenarios : /\ \A f \in DOMAIN s.disk : s.disk[f].bytes = Absent \/ s.disk[f].bytes \in Seq(Byte)
                       /\ \A d \in s.drops : d.files \in Seq(DOMAIN s.disk)

VARIABLES scenario,
          app,       \* "idle", "file": parsing, "quit"
          coming,    \* drops that have not happened
          asking,    \* drops whose directory is asked for
          timers,    \* [drop, dir] in the order in which they were set
          job, index,
          outputs,   \* lines by <<dir, stem>>, <<>> if there is no file
          broken, failed,  \* the files that the callback reports
          loading    \* progress bars: not completed, completed

appVars == <<scenario, app, coming, asking, timers, job, index, outputs, broken, failed, loading>>
vars == <<readerVars, appVars>>

Disk == scenario.disk
Files == job.drop.files
File == Disk[Files[index]]
Output == <<job.dir, File.stem>>
NoJob == [drop |-> [files |-> <<>>, decode |-> FALSE], dir |-> Absent]

Init == /\ ReaderInit
        /\ scenario \in Scenarios
        /\ app = "idle"
        /\ coming = scenario.drops /\ asking = {}
        /\ timers = <<>> /\ job = NoJob /\ index = 0
        /\ outputs = [o \in scenario.dirs \X {Disk[f].stem : f \in DOMAIN Disk} |-> <<>>]
        /\ broken = {} /\ failed = {}
        /\ loading = [open |-> 0, done |-> 0]

-----------------------------------------------------------------------------
\* ondragover: every file must have the suffix of an archive, or nothing happens.
Drop(d) == /\ app = "idle" /\ d \in coming
           /\ coming' = coming \ {d}
           /\ asking' = IF d.files # <<>> /\ \A k \in DOMAIN d.files : Disk[d.files[k]].ext \in {".glog", ".glogmmap"}
                          THEN asking \cup {d} ELSE asking
           /\ UNCHANGED <<readerVars, scenario, app, timers, job, index, outputs, broken, failed, loading>>

\* A directory is chosen: the progress bar, and the timer.
Choose(d, dir) == /\ app = "idle" /\ d \in asking
                  /\ asking' = asking \ {d}
                  /\ timers' = Append(timers, [drop |-> d, dir |-> dir])
                  /\ loading' = [loading EXCEPT !.open = @ + 1]
                  /\ UNCHANGED <<readerVars, scenario, app, coming, job, index, outputs, broken, failed>>

Cancel(d) == /\ app = "idle" /\ d \in asking
             /\ asking' = asking \ {d}
             /\ UNCHANGED <<readerVars, scenario, app, coming, timers, job, index, outputs, broken, failed, loading>>

\* The last window is closed.
Quit == /\ app = "idle"
        /\ app' = "quit"
        /\ UNCHANGED <<readerVars, scenario, coming, asking, timers, job, index, outputs, broken, failed, loading>>

Fire == /\ app = "idle" /\ timers # <<>>
        /\ job' = Head(timers) /\ timers' = Tail(timers)
        /\ index' = 1
        /\ broken' = {} /\ failed' = {}
        /\ app' = "file"
        /\ UNCHANGED <<readerVars, scenario, coming, asking, outputs, loading>>

-----------------------------------------------------------------------------
Between == app = "file" /\ pc = "none" /\ index <= Len(Files)

\* A file that is gone: readFileSync throws, outside of any try, and the callback is over.
FileGone == /\ Between /\ File.bytes = Absent
            /\ app' = "idle"
            /\ UNCHANGED <<readerVars, scenario, coming, asking, timers, job, index, outputs, broken, failed, loading>>

\* What an earlier parse has left under the name is removed; then the reader is created.
OpenFile == /\ Between /\ File.bytes # Absent
            /\ outputs' = [outputs EXCEPT ![Output] = <<>>]
            /\ Open(File.bytes)
            /\ UNCHANGED <<scenario, app, coming, asking, timers, job, index, broken, failed, loading>>

AppendLine(line) == outputs' = [outputs EXCEPT ![Output] = Append(@, line)]

\* The names of levels 0 to 4, "Info" for any other number.
LevelName(n) == IF n \in 0 .. 4 THEN <<"Info", "Warn", "Error", "Verbose", "Debug">>[n + 1] ELSE "Info"

\* dateFormat takes the timestamp for a number, and throws if it is none.  Left out:
\* signs, fractions and exponents, which are numbers to it, and digits for more than
\* 8.64e15, which are no date.
IsNumber(text) == \A k \in DOMAIN text : text[k] \in 48 .. 57

Decoded(data) == LET message == Deserialized(data)
                 IN [ok |-> message.ok /\ IsNumber(message.fields[2]),
                     line |-> [message.fields EXCEPT ![3] = LevelName(@)]]

Line(data) == IF job.drop.decode THEN Decoded(data).line ELSE data
LineMade(data) == job.drop.decode => Decoded(data).ok

ReadOn == pc' = "ready" /\ UNCHANGED <<searchVars, content, position, version, zipped, inflate, pair>>

HasLog == app = "file" /\ pc = "returned" /\ pair.n > 0

HandleLog == /\ HasLog
             /\ IF LineMade(pair.data) THEN AppendLine(Line(pair.data)) /\ ReadOn
                ELSE Throw /\ outputs' = outputs
             /\ UNCHANGED <<scenario, app, coming, asking, timers, job, index, broken, failed, loading>>

\* A part of the file was skipped.
HandleBroken == /\ app = "file" /\ pc = "returned" /\ pair.n = 0
                /\ broken' = broken \cup {Files[index]}
                /\ ReadOn
                /\ UNCHANGED <<scenario, app, coming, asking, timers, job, index, outputs, failed, loading>>

NextFile == /\ index' = index + 1
            /\ pc' = "none"
            /\ UNCHANGED <<searchVars, content, position, version, zipped, inflate, pair>>

HandleEnd == /\ app = "file" /\ pc = "returned" /\ pair.n < 0
             /\ NextFile
             /\ UNCHANGED <<scenario, app, coming, asking, timers, job, outputs, broken, failed, loading>>

\* The catch around a file.
HandleError == /\ app = "file" /\ pc = "thrown"
               /\ failed' = failed \cup {Files[index]}
               /\ NextFile
               /\ UNCHANGED <<scenario, app, coming, asking, timers, job, outputs, broken, loading>>

\* After the last file the broken ones are reported, and the progress bar is completed.
Complete == /\ app = "file" /\ pc = "none" /\ index > Len(Files)
            /\ app' = "idle"
            /\ loading' = [loading EXCEPT !.done = @ + 1]
            /\ UNCHANGED <<readerVars, scenario, coming, asking, timers, job, index, outputs, broken, failed>>

Callback == \/ FileGone \/ OpenFile \/ HandleBroken \/ HandleEnd \/ HandleError \/ Complete
            \/ app = "file" /\ Reading /\ UNCHANGED appVars

User == \/ \E d \in coming : Drop(d)
        \/ \E d \in asking : Cancel(d) \/ \E dir \in scenario.dirs : Choose(d, dir)
        \/ Quit

Next == User \/ Fire \/ Callback \/ HandleLog

Spec == Init /\ [][Next]_vars

\* The event loop: a callback runs on to its end, and a timer fires unless the reader is
\* closed. Nothing makes the user do anything. (The formula about HandleLog is its weak
\* fairness: the step is possible wherever there is a log.)
FairSpec == /\ Spec /\ WF_vars(Fire) /\ WF_vars(Callback)
            /\ []<>~HasLog \/ []<><<HandleLog>>_vars

-----------------------------------------------------------------------------
\* What a file is that nobody has damaged: its bytes b, a header and records. Positions are
\* numbers of bytes in front.
Part(b, p, n) == SubSeq(b, p + 1, p + n)
Number(b, p) == b[p + 1] + 256 * b[p + 2]

FormatOf(b) == b[Len(MAGIC) + 1]
NameAt(b) == Len(MAGIC) + 1 + IF FormatOf(b) = RecoveryVersion THEN 1 ELSE 0
HeaderEnd(b) == NameAt(b) + 2 + Number(b, NameAt(b)) + Size

HeaderLies(b) ==
  /\ Len(b) >= Len(MAGIC) + 4 /\ Part(b, 0, Len(MAGIC)) = MAGIC
  /\ FormatOf(b) \in {RecoveryVersion, CipherVersion}
  /\ FormatOf(b) = RecoveryVersion => LET modes == b[NameAt(b)] IN modes \div 16 \in 0 .. 1 /\ modes % 16 \in 0 .. 1
  /\ HeaderEnd(b) <= Len(b) /\ Part(b, HeaderEnd(b) - Size, Size) = Needle

ZippedAt(b, p) == IF FormatOf(b) = RecoveryVersion THEN b[NameAt(b)] \div 16 = 1 ELSE b[p + 1] \div 16 = 2
CipheredAt(b, p) == FormatOf(b) = CipherVersion /\ b[p + 1] % 16 = 2
LengthIn(b, p) == p + IF FormatOf(b) = CipherVersion THEN 1 + (IF CipheredAt(b, p) THEN KeyBytes ELSE 0) ELSE 0
BodyIn(b, p) == LET at   == LengthIn(b, p)
                    body == Part(b, at + 2, Number(b, at))
                IN IF CipheredAt(b, p) THEN Decrypt(Part(b, p + 1, KeyBytes), body) ELSE body

\* The record r lies in b and means r.data, where history is what its object inflated before
\* it, and r.inflated what it has inflated behind it.
RecordLies(b, r, history) ==
  /\ r.at + Smallest <= Len(b)
  /\ FormatOf(b) = CipherVersion => b[r.at + 1] \div 16 \in 1 .. 2 /\ b[r.at + 1] % 16 \in 1 .. 2
  /\ LengthIn(b, r.at) + 2 <= Len(b)
  /\ Number(b, LengthIn(b, r.at)) \in 1 .. MaxLength
  /\ r.to = LengthIn(b, r.at) + 2 + Number(b, LengthIn(b, r.at)) + Size
  /\ r.to <= Len(b) /\ Part(b, r.to - Size, Size) = Needle
  /\ r.data \in Seq(Byte)
  /\ IF ZippedAt(b, r.at)
       THEN /\ Len(r.data) \in 1 .. ChunkSize
            /\ r.inflated = history \o r.data
            /\ Inflated(history, BodyIn(b, r.at)) = [out |-> r.inflated, is |-> "open"]
       ELSE r.data = BodyIn(b, r.at) /\ r.inflated = history

\* Where the first k records of a file end, and what they inflate to.
EndOf(file, k) == IF k = 0 THEN HeaderEnd(file.bytes) ELSE file.records[k].to
HistoryOf(file, k) == IF k = 0 THEN <<>> ELSE file.records[k].inflated

LaidOut(file) ==
  /\ HeaderLies(file.bytes)
  /\ file.records \in Seq({file.records[k] : k \in DOMAIN file.records})
  /\ \A k \in DOMAIN file.records : /\ file.records[k].at = EndOf(file, k - 1)
                                    /\ RecordLies(file.bytes, file.records[k], HistoryOf(file, k - 1))
  /\ EndOf(file, Len(file.records)) = Len(file.bytes)

ASSUME IntactAssumption ==
  \A s \in Scenarios : \A f \in DOMAIN s.disk :
    s.disk[f].damage = "none" /\ s.disk[f].bytes # Absent => LaidOut(s.disk[f])

-----------------------------------------------------------------------------
\* What was written into the file being parsed: its records, where they begin, and which
\* bytes of it are damaged.
Records == File.records
AtEndOfFile == app = "file" /\ pc = "returned" /\ pair.n < 0
Lines == outputs[Output]

\* A file that nobody has damaged is read whole, whatever its version, its modes and its
\* data, and whatever was parsed before it: a line for each record, in order, and no report,
\* if it is parsed as messages only where it has messages (FileReaderV3, FileReaderV4,
\* parseLogFiles).
ReadsWhole ==
  app = "file" /\ index <= Len(Files) /\ pc # "none" /\ File.damage = "none"
               /\ (\A k \in DOMAIN Records : LineMade(Records[k].data)) =>
    /\ pc # "thrown" /\ Files[index] \notin broken
    /\ AtEndOfFile => Lines = [k \in DOMAIN Records |-> Line(Records[k].data)]

\* The records behind the damage, and those of them that were read.
Behind == SelectSeq(Records, LAMBDA r : r.at >= File.to)
BehindData == [k \in DOMAIN Behind |-> Behind[k].data]
ReadBehind == SelectSeq(Lines, LAMBDA l : \E k \in DOMAIN Behind : Behind[k].data = l)

\* Behind damage to its records the reader falls into step once: from the first record it reads there
\* it reads all, each once and in order; at the end of the file up to the last one.
FallsIntoStep ==
  app = "file" /\ index <= Len(Files) /\ pc # "none" /\ File.stored /\ ~job.drop.decode
               /\ File.from >= Records[1].at =>
    LET n == Len(BehindData)
    IN /\ \E a \in 1 .. n + 1 : \E b \in a - 1 .. n : ReadBehind = SubSeq(BehindData, a, b)
       /\ AtEndOfFile => \E a \in 1 .. n + 1 : ReadBehind = SubSeq(BehindData, a, n)

\* Where no log holds the marker, damage to the data of one record, or to its marker, costs
\* that record, and the next one if the marker is hit; every record before and behind is read.
DamageIsLocal ==
  app = "file" /\ index <= Len(Files) /\ pc # "none" /\ File.stored /\ ~job.drop.decode
               /\ File.damage \in {"data", "marker"}
               /\ (\A k \in DOMAIN Records : \A p \in DOMAIN Records[k].data : ~Occurs(Records[k].data, p - 1)) =>
    /\ pc # "thrown"
    /\ AtEndOfFile => /\ \/ ReadBehind = BehindData
                         \/ File.damage = "marker" /\ BehindData # <<>> /\ ReadBehind = Tail(BehindData)
                      /\ \A k \in DOMAIN Records : Records[k].to <= File.from => Lines[k] = Records[k].data

\* Parsing comes to an end, whatever is in the files.
ParsingEnds == app = "file" ~> app # "file"

\* The level of a line is the one the protocol has for the number in its message (the
\* switch of parseLogFiles, the enum of Log_pb.js).
Shown == [INFO |-> "Info", DEBUG |-> "Debug", VERBOSE |-> "Verbose", WARN |-> "Warn", ERROR |-> "Error"]
LevelShown == app = "file" /\ index <= Len(Files) /\ pc # "none" /\ job.drop.decode =>
                \A k \in DOMAIN Lines : Lines[k][3] = Shown[Records[k].level]

\* Behind its header a file is given up only where no sync marker is left to go on from
\* (read, tryRecover).
SkipsDamage == app = "file" /\ pc = "thrown" /\ File.from >= Records[1].at =>
                 \A p \in position .. Len(content) - Size : ~Occurs(content, p)
=============================================================================
