---------------------- MODULE IncrementalArchive_proofs ----------------------
(***************************************************************************)
(* IncrementalArchive is a durable log for any number of write calls, of   *)
(* days, of failing system calls and of crashes, provided no reader        *)
(* deletes archives and no cache is appended that a failure has left open  *)
(* and unmapped behind its header (Cutting); without either condition it   *)
(* is not (FlushArrives, and EmptyAppendIsHarmless).  The heart of the     *)
(* inductive invariant is AppendInv: how far the copy under the archive's  *)
(* name has got at each step of appendLogFile, so that the cache is        *)
(* removed only after its records are in the archive.                      *)
(*                                                                         *)
(* Two further invariants take the copy as not yet there until the cache   *)
(* is deleted (Kept): DamageInv counts the torn files, those whose damage  *)
(* nothing has come to stand behind included, against the crashes and      *)
(* failed calls; OrderInv keeps the days apart, and their records in       *)
(* order, while nothing has failed.                                        *)
(***************************************************************************)
EXTENDS IncrementalArchive, CacheFile_lemmas

\* No call fails that could leave the cache open and unmapped.
MappingWorks == FailingCalls \cap {"mmap", "ftruncate"} = {}
Undisturbed == ~Readers /\ MappingWorks

\* appendLogFile with a cache that is not mapped though it has a header, where
\* getDataLength is 0 - m_headerSize: the archive is cut (AppendUnmapped).
Cutting == pc = "grow" /\ handle = "null" /\ cache.kind = "valid" /\ ~fresh

FilesInv == FileOK(cache) /\ \A d \in Days : FileOK(archive[d])

\* Every log in a file, what a restart may still lose included.
Held == LogsOf(cache.body) \cup Archived

\* What a step does that loses no log and adds none.
Keeps == Held' = Held /\ Archived \subseteq Archived'

Pending == job \in {"write", "writeDay"} /\ pc \notin {"idle", "down", "segv"}
BoundInv == \A l \in Held : l <= next /\ (Pending => l < next)
CallInv == /\ pc \in {"space", "put"} => job = "write"
           /\ Pending => next > 0

\* No reader is about; and unless a call has failed, a cache with a header is mapped,
\* or not open.
ReaderInv == /\ suspects = {}
             /\ pc \in {"header", "grow", "copy", "shrink"} => linked
HandleInv == (failures = 0 \/ MappingWorks) /\ handle = "null" => cache.kind # "valid"

AppendInv ==
  /\ pc \in {"grow", "copy", "shrink"} => size <= Len(Disk.body)
  /\ pc = "grow" => size = Len(Disk.body) /\ (fresh <=> Disk.kind # "valid")
  /\ pc = "copy" => LogsOf(Prefix) = LogsOf(Disk.body)
  /\ pc = "shrink" => /\ LogsOf(Disk.body) = LogsOf(Prefix) \cup LogsOf(cache.body)
                      /\ SubSeq(Disk.body, 1, size + Len(cache.body)) = Prefix \o cache.body
  /\ pc = "unlink" => LogsOf(cache.body) \subseteq LogsOf(Disk.body)

IInv == TypeOK /\ FilesInv /\ BoundInv /\ CallInv /\ ReaderInv /\ HandleInv /\ AppendInv

\* A cut adds nothing to what is stored, and takes something away perhaps.
Cut == Cutting /\ Stored' \subseteq Stored /\ UNCHANGED acked
LosesOnlyByCuts == [][Log!Next \/ Cut]_Log!vars

\* The steps that leave every file alone.
QuietStep == \/ Start /\ UNCHANGED dayVars
             \/ Write
             \/ CheckDay
             \/ (WriteRefused \/ CheckSpace \/ PutToNull) /\ UNCHANGED dayVars
             \/ (FlushCall \/ FlushNothing) /\ UNCHANGED dayVars
             \/ FlushToday
             \/ AppendHeader
             \/ AppendNothing
             \/ AfterLoad
             \/ AfterFlush
             \/ NextDay
             \/ UNCHANGED vars
-----------------------------------------------------------------------------
LEMMA InitIInv == Init => IInv
<1> SUFFICES ASSUME Init PROVE IInv
  OBVIOUS
<1> USE DEF Init, CacheInit
<1>1. Absent \in File /\ Absent.body = <<>> /\ FileOK(Absent) /\ Absent.kind = "absent"
  BY NewFiles DEF Absent
<1>2. TypeOK
  <2>1. 0 \in 0 .. MaxLog /\ 0 \in 0 .. MaxFailures /\ 0 \in 0 .. MaxCrashes
    BY CacheFileAssumption
  <2>2. 1 \in Days /\ archive \in [Days -> File] /\ wrote \in Seq(Days)
    BY <1>1, IncrementalAssumption, EmptySeq DEF Days
  <2>3. QED
    BY <1>1, <2>1, <2>2 DEF TypeOK, CacheTypeOK
<1>3. Held = {}
  BY <1>1, LogsOfEmpty DEF Held, Archived
<1>4. QED
  BY <1>1, <1>2, <1>3
     DEF IInv, FilesInv, BoundInv, CallInv, Pending, ReaderInv, HandleInv, AppendInv

LEMMA BoundStep ==
  ASSUME BoundInv, Held' \subseteq Held,
         (next' = next /\ (Pending' => Pending)) \/ next' = next + 1,
         next \in Nat, Held \subseteq Nat
  PROVE  BoundInv'
BY DEF BoundInv

LEMMA HeldAreNumbers == TypeOK => Held \subseteq Nat
<1> SUFFICES ASSUME TypeOK PROVE Held \subseteq Nat
  OBVIOUS
<1>1. cache.body \in Seq(Nat) /\ \A d \in Days : archive[d].body \in Seq(Nat)
  BY DEF TypeOK, CacheTypeOK, File
<1>2. QED
  BY <1>1, LogsOfIndexed DEF Held, Archived

\* The bodies of the files and the cut of the archive appendLogFile works on.
LEMMA Bodies ==
  ASSUME IInv
  PROVE  /\ cache \in File /\ cache.body \in Seq(Nat)
         /\ target \in Days /\ size \in Nat
         /\ Disk \in File /\ Disk.body \in Seq(Nat) /\ FileOK(Disk)
         /\ pc \in {"grow", "copy", "shrink"} =>
              Prefix \in Seq(Nat) /\ Len(Prefix) = size /\ LogsOf(Prefix) \subseteq LogsOf(Disk.body)
         /\ pc = "grow" => Prefix = Disk.body
<1>1. /\ cache \in File /\ cache.body \in Seq(Nat)
      /\ target \in Days /\ size \in Nat
      /\ Disk \in File /\ Disk.body \in Seq(Nat) /\ FileOK(Disk)
  BY DEF IInv, TypeOK, CacheTypeOK, FilesInv, File, Disk
<1>2. ASSUME pc \in {"grow", "copy", "shrink"}
      PROVE  Prefix \in Seq(Nat) /\ Len(Prefix) = size /\ LogsOf(Prefix) \subseteq LogsOf(Disk.body)
  <2>1. size \in 0 .. Len(Disk.body)
    BY <1>1, <1>2, LenProperties DEF IInv, AppendInv
  <2>2. QED
    BY <1>1, <2>1, LogsOfCut DEF Prefix
<1>3. ASSUME pc = "grow" PROVE Prefix = Disk.body
  BY <1>1, <1>3, SubSeqFull DEF IInv, AppendInv, Prefix
<1>4. QED
  BY <1>1, <1>2, <1>3

-----------------------------------------------------------------------------
(* The steps that leave every file alone.                                  *)

LEMMA QuietFrame ==
  ASSUME QuietStep
  PROVE  /\ cache' = cache /\ archive' = archive /\ acked' = acked
         /\ failures' = failures /\ crashes' = crashes
         /\ linked' = linked /\ suspects' = suspects
         /\ \/ next' = next /\ wrote' = wrote
            \/ next < MaxLog /\ next' = next + 1 /\ wrote' = Append(wrote, day)
         /\ handle' = handle \/ handle' = "closed"
         /\ num' = num \/ num' = 0
         /\ ok' = ok \/ ok' = FALSE
         /\ loaded' = loaded \/ loaded' = ok \/ loaded' = FALSE
<1>1. Write \/ (next' = next /\ wrote' = wrote)
  BY DEF QuietStep, Start, CheckDay, WriteRefused, CheckSpace, PutToNull, FlushCall, FlushNothing,
         FlushToday, AppendHeader, AppendNothing, AfterLoad, AfterFlush, NextDay, dayVars, vars
<1>2. Write => next < MaxLog /\ next' = next + 1 /\ wrote' = Append(wrote, day)
  BY DEF Write, WriteCall
<1> USE DEF QuietStep, Start, Write, WriteCall, CheckDay, WriteRefused, CheckSpace, PutToNull,
            FlushCall, FlushNothing, FlushToday, AppendHeader, AppendNothing, AfterLoad,
            AfterFlush, NextDay, AbortAppend, Return, dayVars, vars
<1>3. cache' = cache /\ archive' = archive /\ acked' = acked
  OBVIOUS
<1>4. failures' = failures /\ crashes' = crashes
  OBVIOUS
<1>5. linked' = linked /\ suspects' = suspects
  OBVIOUS
<1>6. (handle' = handle \/ handle' = "closed") /\ (num' = num \/ num' = 0)
  OBVIOUS
<1>7. ok' = ok \/ ok' = FALSE
  OBVIOUS
<1>8. loaded' = loaded \/ loaded' = ok \/ loaded' = FALSE
  OBVIOUS
<1> HIDE DEF QuietStep, Start, Write, WriteCall, CheckDay, WriteRefused, CheckSpace, PutToNull,
             FlushCall, FlushNothing, FlushToday, AppendHeader, AppendNothing, AfterLoad,
             AfterFlush, NextDay, AbortAppend, Return, dayVars, vars
<1>9. QED
  BY <1>1, <1>2, <1>3, <1>4, <1>5, <1>6, <1>7, <1>8

LEMMA QuietControl ==
  ASSUME TypeOK, CallInv, QuietStep
  PROVE  /\ job' \in {"none", "start", "startDay", "write", "writeDay", "flush"}
         /\ pc' \in {"down", "segv", "open", "map", "loaded", "idle", "space", "put", "flush",
                     "flushed", "day", "append", "header", "grow", "copy", "shrink", "unlink"}
         /\ day' \in Days /\ cacheDay' \in Days /\ target' \in Days
         /\ size' \in Nat /\ fresh' \in BOOLEAN
         /\ (next' = next /\ (Pending' => Pending)) \/ next' = next + 1
         /\ CallInv'
         /\ \/ AppendHeader
            \/ pc' = pc /\ target' = target /\ size' = size /\ fresh' = fresh
            \/ pc' \notin {"grow", "copy", "shrink", "unlink"} /\ size' = size /\ fresh' = fresh
<1> USE DEF QuietStep
<1>0. TypeOK /\ CallInv
  OBVIOUS
<1>1. /\ job' \in {"none", "start", "startDay", "write", "writeDay", "flush"}
      /\ pc' \in {"down", "segv", "open", "map", "loaded", "idle", "space", "put", "flush",
                  "flushed", "day", "append", "header", "grow", "copy", "shrink", "unlink"}
  BY <1>0 DEF TypeOK, Start, Write, WriteCall, CheckDay, WriteRefused, CheckSpace, PutToNull,
       FlushCall, FlushNothing, FlushToday, AppendHeader, AppendNothing, AfterLoad, AfterFlush,
       NextDay, AbortAppend, Return, dayVars, vars
<1>2. day' \in Days /\ cacheDay' \in Days /\ target' \in Days
  <2>1. /\ day' = day \/ (day < MaxDay /\ day' = day + 1)
        /\ cacheDay' = cacheDay
        /\ target' = target \/ target' = day \/ target' = cacheDay
    BY DEF Start, Write, WriteCall, CheckDay, WriteRefused, CheckSpace, PutToNull, FlushCall,
           FlushNothing, FlushToday, AppendHeader, AppendNothing, AfterLoad, AfterFlush, NextDay,
           dayVars, vars
  <2>2. QED
    BY <1>0, <2>1, IncrementalAssumption DEF TypeOK, Days
<1>3. \/ AppendHeader
      \/ pc' = pc /\ target' = target /\ size' = size /\ fresh' = fresh
      \/ pc' \notin {"grow", "copy", "shrink", "unlink"} /\ size' = size /\ fresh' = fresh
  BY DEF Start, Write, WriteCall, CheckDay, WriteRefused, CheckSpace, PutToNull, FlushCall,
         FlushNothing, FlushToday, AppendHeader, AppendNothing, AfterLoad, AfterFlush, NextDay,
         AbortAppend, Return, dayVars, vars
<1>5. size' \in Nat /\ fresh' \in BOOLEAN
  <2>1. CASE AppendHeader
    <3>1. size' = Len(Disk.body) /\ fresh' = (Disk.kind # "valid")
      BY <2>1 DEF AppendHeader
    <3>2. Disk.body \in Seq(Nat)
      BY DEF TypeOK, File, Disk
    <3>3. size' \in Nat
      BY <3>1, <3>2, LenProperties
    <3>4. fresh' \in BOOLEAN
      BY <3>1
    <3>5. QED
      BY <3>3, <3>4
  <2>2. CASE size' = size /\ fresh' = fresh
    BY <2>2 DEF TypeOK
  <2>3. QED
    BY <1>3, <2>1, <2>2
<1>6. \/ next' = next /\ (Pending' => Pending)
      \/ next' = next + 1
  BY DEF Pending, Start, Write, WriteCall, CheckDay, WriteRefused, CheckSpace, PutToNull,
         FlushCall, FlushNothing, FlushToday, AppendHeader, AppendNothing, AfterLoad, AfterFlush,
         NextDay, AbortAppend, Return, dayVars, vars
<1>7. CallInv'
  <2>1. pc' \in {"space", "put"} => job' = "write"
    BY <1>0 DEF CallInv, Start, Write, WriteCall, CheckDay, WriteRefused, CheckSpace, PutToNull,
         FlushCall, FlushNothing, FlushToday, AppendHeader, AppendNothing, AfterLoad, AfterFlush,
         NextDay, AbortAppend, Return, dayVars, vars
  <2>2. Pending' => next' > 0
    <3>1. next \in Nat
      BY <1>0 DEF TypeOK, CacheTypeOK
    <3>2. QED
      BY <1>0, <1>6, <3>1 DEF CallInv
  <2>3. QED
    BY <2>1, <2>2 DEF CallInv
<1>8. QED
  BY <1>1, <1>2, <1>3, <1>5, <1>6, <1>7

LEMMA QuietTypes ==
  ASSUME TypeOK, CallInv, QuietStep
  PROVE  TypeOK'
<1>2. TypeOK
  OBVIOUS
<1>3. next' \in 0 .. MaxLog /\ wrote' \in Seq(Days)
  <2>1. next \in 0 .. MaxLog /\ wrote \in Seq(Days) /\ day \in Days
    BY <1>2 DEF TypeOK, CacheTypeOK
  <2>2. Append(wrote, day) \in Seq(Days)
    BY <2>1, AppendProperties
  <2>3. QED
    BY <2>1, <2>2, QuietFrame, CacheFileAssumption
<1>4. handle' \in {"closed", "null", "mapped"} /\ num' \in Nat
  BY <1>2, QuietFrame DEF TypeOK, CacheTypeOK
<1>5. ok' \in BOOLEAN /\ loaded' \in BOOLEAN
  BY <1>2, QuietFrame, Zenon DEF TypeOK, CacheTypeOK
<1>6. CacheTypeOK'
  BY <1>2, <1>3, <1>4, <1>5, QuietFrame DEF TypeOK, CacheTypeOK
<1>7. QED
  BY <1>2, <1>3, <1>6, QuietFrame, QuietControl DEF TypeOK

\* What appendLogFile found in the header it knows from then on.
LEMMA QuietAppend ==
  ASSUME IInv, QuietStep
  PROVE  AppendInv'
<1>1. cache' = cache /\ archive' = archive
  BY QuietFrame
<1>2. CASE AppendHeader
  <2>1. /\ size' = Len(Disk.body) /\ pc' = "grow" /\ target' = target
        /\ fresh' = (Disk.kind # "valid")
    BY <1>2 DEF AppendHeader
  <2>2. Disk' = Disk
    BY <1>1, <2>1 DEF Disk
  <2>3. size' \in Nat
    BY <2>1, Bodies, LenProperties
  <2>4. size' = Len(Disk'.body) /\ (fresh' <=> Disk'.kind # "valid")
    BY <2>1, <2>2
  <2>5. size' <= Len(Disk'.body)
    BY <2>3, <2>4
  <2>6. QED
    BY <2>1, <2>4, <2>5 DEF AppendInv
<1>3. CASE pc' = pc /\ target' = target /\ size' = size /\ fresh' = fresh
  BY <1>1, <1>3 DEF IInv, AppendInv, Disk, Prefix, TypeOK
<1>4. CASE pc' \notin {"grow", "copy", "shrink", "unlink"} /\ size' = size /\ fresh' = fresh
  BY <1>4 DEF AppendInv
<1>5. QED
  BY <1>2, <1>3, <1>4, QuietControl DEF IInv

LEMMA QuietIInv ==
  ASSUME IInv, QuietStep
  PROVE  IInv' /\ Keeps /\ acked' = acked
<1>1. Keeps /\ acked' = acked
  BY QuietFrame DEF Keeps, Held, Archived
<1>2. TypeOK
  BY DEF IInv
<1>7. TypeOK' /\ CallInv'
  BY QuietTypes, QuietControl DEF IInv
<1>8. FilesInv' /\ HandleInv'
  BY QuietFrame DEF IInv, FilesInv, HandleInv
<1>9. ReaderInv'
  <2>1. pc' \in {"header", "grow", "copy", "shrink"} => pc \in {"header", "grow", "copy", "shrink"}
    BY DEF QuietStep, Start, Write, WriteCall, CheckDay, WriteRefused, CheckSpace, PutToNull,
           FlushCall, FlushNothing, FlushToday, AppendHeader, AppendNothing, AfterLoad, AfterFlush,
           NextDay, AbortAppend, Return, dayVars, vars
  <2>2. QED
    BY <2>1, QuietFrame DEF IInv, ReaderInv
<1>10. BoundInv'
  <2>1. Held \subseteq Nat /\ next \in Nat
    BY <1>2, HeldAreNumbers DEF TypeOK, CacheTypeOK
  <2>2. QED
    BY <1>1, <2>1, BoundStep, QuietControl DEF IInv, Keeps
<1>11. QED
  BY <1>1, <1>7, <1>8, <1>9, <1>10, QuietAppend DEF IInv

-----------------------------------------------------------------------------
(* The steps that change the cache.                                        *)

LEMMA LoadIInv ==
  ASSUME IInv, Load
  PROVE  IInv' /\ acked' = acked
<1>1. /\ CacheTypeOK' /\ FileOK(cache') /\ cache'.body \in Positions(cache.body)
      /\ next' = next /\ job' = job /\ acked' = acked
      /\ pc \in {"open", "map"} /\ pc' \in {"open", "map", "loaded"}
  BY LoadKeeps DEF IInv, TypeOK, FilesInv, Load, LoadStep
<1>2. /\ archive' = archive /\ day' = day /\ target' = target /\ fresh' = fresh /\ size' = size
      /\ linked' = linked /\ suspects' = suspects /\ wrote' = wrote
      /\ cacheDay' \in {day, cacheDay}
  BY DEF Load
<1>3. TypeOK'
  BY <1>1, <1>2 DEF IInv, TypeOK
<1>4. FilesInv'
  BY <1>1, <1>2 DEF IInv, FilesInv
<1>5. Pending' => Pending
  BY <1>1 DEF Pending
<1>6. BoundInv'
  <2>1. Held \subseteq Nat /\ next \in Nat
    BY HeldAreNumbers DEF IInv, TypeOK, CacheTypeOK
  <2>2. LogsOf(cache'.body) \subseteq LogsOf(cache.body)
    BY <1>1, Bodies, PositionKeeps
  <2>3. Held' \subseteq Held
    BY <1>2, <2>2 DEF Held, Archived
  <2>4. QED
    BY <1>1, <1>5, <2>1, <2>3, BoundStep DEF IInv
<1>7. CallInv' /\ ReaderInv' /\ AppendInv'
  BY <1>1, <1>2, <1>5 DEF IInv, CallInv, ReaderInv, AppendInv
<1>8. HandleInv'
  <2> SUFFICES ASSUME failures' = 0 \/ MappingWorks
               PROVE  handle' = "null" => cache'.kind # "valid"
    BY DEF HandleInv
  <2>1. ~Fails("ftruncate") /\ ~Fails("mmap")
    BY DEF MappingWorks, Fails, IInv, TypeOK, CacheTypeOK
  <2>2. handle' = "null" => cache' = Absent \/ (cache' = cache /\ cache.kind = "zeros")
    BY <2>1 DEF Load, LoadOpen, LoadDiscard, LoadMap, LoadFails
  <2>3. QED
    BY <2>2 DEF Absent
<1>9. QED
  BY <1>1, <1>3, <1>4, <1>6, <1>7, <1>8 DEF IInv

\* The cache gets a record behind the others: that of the pending call, or a torn one.
LEMMA AppendedCache ==
  ASSUME IInv, NEW x \in {Gap, next}, pc = "put", handle = "mapped", archive' = archive,
         cache' = Valid(Append(cache.body, x))
  PROVE  /\ cache' \in File /\ FilesInv'
         /\ Held' = Held \cup ({x} \ {Gap})
         /\ \A l \in Held : l < next
         /\ next \in 1 .. MaxLog
<1>1. /\ cache.body \in Seq(Nat) /\ x \in Nat /\ next \in 1 .. MaxLog
  BY CacheFileAssumption, Bodies DEF IInv, TypeOK, CacheTypeOK, Gap, CallInv, Pending
<1>2. /\ Append(cache.body, x) \in Seq(Nat)
      /\ LogsOf(Append(cache.body, x)) = LogsOf(cache.body) \cup ({x} \ {Gap})
  BY <1>1, LogsOfAppend
<1>3. cache' \in File /\ cache'.body = Append(cache.body, x) /\ FileOK(cache')
  BY <1>2, ValidFile
<1>4. \A l \in Held : l < next
  BY DEF IInv, BoundInv, CallInv, Pending
<1>5. Held' = Held \cup ({x} \ {Gap})
  BY <1>2, <1>3 DEF Held, Archived
<1>6. QED
  BY <1>1, <1>3, <1>4, <1>5 DEF IInv, FilesInv

LEMMA PutIInv ==
  ASSUME IInv, StoreRecord, PutRecord
  PROVE  IInv'
<1> USE DEF PutRecord
<1>0. /\ archive' = archive /\ day' = day /\ target' = target /\ fresh' = fresh /\ size' = size
      /\ linked' = linked /\ suspects' = suspects /\ wrote' = wrote
      /\ cacheDay' \in {day, cacheDay}
  BY DEF StoreRecord, Touched
<1>1. /\ cache' \in File /\ FilesInv'
      /\ Held' = Held \cup ({next} \ {Gap})
      /\ \A l \in Held : l < next
      /\ next \in 1 .. MaxLog
  BY <1>0, AppendedCache
<1>2. next # Gap /\ Held' = Held \cup {next}
  BY <1>1 DEF Gap
<1>3. CacheTypeOK'
  BY <1>1 DEF IInv, TypeOK, CacheTypeOK
<1>4. TypeOK'
  BY <1>0, <1>3 DEF IInv, TypeOK
<1>5. BoundInv'
  <2> SUFFICES ASSUME NEW l \in Held' PROVE l <= next
    BY DEF BoundInv, Pending
  <2>1. Held \subseteq Nat
    BY HeldAreNumbers DEF IInv
  <2>2. QED
    BY <1>1, <1>2, <2>1, CacheFileAssumption
<1>6. CallInv' /\ ReaderInv' /\ AppendInv' /\ HandleInv'
  BY <1>0 DEF IInv, CallInv, Pending, ReaderInv, AppendInv, HandleInv
<1>7. QED
  BY <1>1, <1>4, <1>5, <1>6 DEF IInv

\* The cache goes when its records are in the archive.
LEMMA UnlinkIInv ==
  ASSUME IInv, AppendUnlink
  PROVE  IInv' /\ Keeps /\ acked' = acked
<1> USE DEF AppendUnlink
<1>0. /\ UNCHANGED <<handle, loaded, num, job, next, acked, crashes>> /\ UNCHANGED dayVars
      /\ pc = "unlink" /\ pc' \in {"open", "flushed"}
  BY DEF Return
<1>1. cache' = cache \/ cache' = Absent
  OBVIOUS
<1>2. CacheTypeOK' /\ FileOK(cache')
  <2>1. cache' \in File /\ FileOK(cache')
    BY <1>1, NewFiles DEF IInv, TypeOK, CacheTypeOK, FilesInv
  <2>2. Works \/ \E call \in FailingCalls : Fails(call)
    BY DEF Fails
  <2>3. failures' \in 0 .. MaxFailures
    BY <2>2, CountedFailure DEF IInv, TypeOK
  <2>4. ok' \in BOOLEAN
    BY DEF Return, IInv, TypeOK, CacheTypeOK
  <2>5. QED
    BY <1>0, <2>1, <2>3, <2>4 DEF IInv, TypeOK, CacheTypeOK
<1>3. TypeOK' /\ FilesInv'
  BY <1>0, <1>2 DEF IInv, TypeOK, FilesInv, dayVars
<1>4. Keeps
  <2>1. CASE cache' = cache
    BY <1>0, <2>1 DEF Keeps, Held, Archived, dayVars
  <2>2. CASE cache' = Absent
    <3>1. LogsOf(cache'.body) = {}
      BY <2>2, NewFiles, LogsOfEmpty
    <3>2. LogsOf(cache.body) \subseteq LogsOf(archive[target].body) /\ target \in Days
      BY <1>0, Bodies DEF IInv, AppendInv, Disk
    <3>3. QED
      BY <1>0, <3>1, <3>2 DEF Keeps, Held, Archived, dayVars
  <2>3. QED
    BY <1>1, <2>1, <2>2
<1>5. Pending' => Pending
  BY <1>0 DEF Pending
<1>6. BoundInv'
  <2>1. Held \subseteq Nat /\ next \in Nat
    BY HeldAreNumbers DEF IInv, TypeOK, CacheTypeOK
  <2>2. QED
    BY <1>0, <1>4, <1>5, <2>1, BoundStep DEF IInv, Keeps
<1>7. CallInv' /\ ReaderInv' /\ AppendInv'
  BY <1>0, <1>5 DEF IInv, CallInv, ReaderInv, AppendInv, dayVars
<1>8. HandleInv'
  <2> HIDE DEF AppendUnlink
  <2>0. failures' = failures \/ failures' = failures + 1
    BY DEF AppendUnlink, Works, Fails
  <2>1. failures \in Nat
    BY DEF IInv, TypeOK, CacheTypeOK
  <2>2. failures' = 0 => failures = 0
    BY <2>0, <2>1
  <2>3. QED
    BY <1>0, <1>1, <2>2 DEF IInv, HandleInv, Absent
<1>9. QED
  BY <1>0, <1>3, <1>4, <1>6, <1>7, <1>8 DEF IInv

-----------------------------------------------------------------------------
(* The steps of appendLogFile that change the archive.                     *)

\* A file under the archive's name that keeps the archive's logs, and adds only
\* such as the cache holds too, changes nothing in what is stored.
LEMMA FileStep ==
  ASSUME IInv, NEW f \in File, FileOK(f), cache' = cache, target' = target,
         archive' = [archive EXCEPT ![target] = f],
         LogsOf(Disk.body) \subseteq LogsOf(f.body),
         LogsOf(f.body) \subseteq LogsOf(Disk.body) \cup LogsOf(cache.body)
  PROVE  archive' \in [Days -> File] /\ FilesInv' /\ Keeps /\ Disk' = f
<1>1. target \in Days /\ archive \in [Days -> File]
  BY DEF IInv, TypeOK
<1>2. archive' \in [Days -> File] /\ \A d \in Days : archive'[d] = IF d = target THEN f ELSE archive[d]
  BY <1>1
<1>3. Disk' = f
  BY <1>1, <1>2 DEF Disk
<1>4. FilesInv'
  BY <1>2 DEF IInv, FilesInv
<1>5. Keeps
  <2>1. \A d \in Days \ {target} : LogsOf(archive'[d].body) = LogsOf(archive[d].body)
    BY <1>2
  <2>2. archive'[target] = f
    BY <1>1, <1>2
  <2>3. QED
    BY <1>1, <2>1, <2>2 DEF Keeps, Held, Archived, Disk
<1>6. QED
  BY <1>2, <1>3, <1>4, <1>5

\* What is the same for these steps, whatever they do to the archive.
LEMMA AppendStep ==
  ASSUME IInv, cache' = cache, archive' \in [Days -> File], FilesInv', Held' \subseteq Held,
         pc \in {"append", "header", "grow", "copy", "shrink"},
         pc' \in {"append", "header", "grow", "copy", "shrink", "unlink", "flushed"},
         pc' \in {"header", "grow", "copy", "shrink"} => linked',
         linked' \in BOOLEAN, suspects' = suspects, AppendInv',
         handle' = handle \/ handle' = "closed",
         num' = num \/ num' = 0, ok' \in BOOLEAN,
         Works \/ \E call \in FailingCalls : Fails(call),
         UNCHANGED <<loaded, job, next, acked, crashes, day, cacheDay, target, fresh, size, wrote>>
  PROVE  IInv' /\ acked' = acked
<1>1. failures' \in 0 .. MaxFailures
  BY CountedFailure DEF IInv, TypeOK
<1>2. handle' \in {"closed", "null", "mapped"} /\ num' \in Nat
  BY DEF IInv, TypeOK, CacheTypeOK
<1>3. CacheTypeOK'
  BY <1>1, <1>2 DEF IInv, TypeOK, CacheTypeOK
<1>4. TypeOK'
  BY <1>3 DEF IInv, TypeOK
<1>5. Pending' => Pending
  BY DEF Pending
<1>6. BoundInv'
  <2>1. Held \subseteq Nat /\ next \in Nat
    BY HeldAreNumbers DEF IInv, TypeOK, CacheTypeOK
  <2>2. QED
    BY <1>5, <2>1, BoundStep DEF IInv
<1>7. CallInv' /\ ReaderInv' /\ HandleInv'
  <2>1. failures' = 0 => failures = 0
    BY DEF Works, Fails, IInv, TypeOK, CacheTypeOK
  <2>2. QED
    BY <1>5, <2>1 DEF IInv, CallInv, ReaderInv, HandleInv
<1>8. QED
  BY <1>4, <1>6, <1>7 DEF IInv

\* A step that fails with the archive as it was.
LEMMA AppendAborted ==
  ASSUME IInv, cache' = cache, archive' = archive,
         pc \in {"append", "header", "grow", "copy", "shrink"},
         handle' = handle \/ handle' = "closed",
         num' = num \/ num' = 0, Return(FALSE),
         Works \/ \E call \in FailingCalls : Fails(call),
         UNCHANGED <<loaded, job, next, acked, crashes, day, cacheDay, target, fresh, size, linked,
                     suspects, wrote>>
  PROVE  IInv' /\ Keeps /\ acked' = acked
<1>1. archive' \in [Days -> File] /\ FilesInv' /\ Keeps
  BY DEF IInv, TypeOK, FilesInv, Keeps, Held, Archived
<1>2. pc' = "flushed" /\ ok' \in BOOLEAN /\ linked' \in BOOLEAN
  BY DEF Return, IInv, TypeOK
<1>3. AppendInv'
  BY <1>2 DEF AppendInv
<1>4. QED
  BY <1>1, <1>2, <1>3, AppendStep DEF Keeps

LEMMA OpenIInv ==
  ASSUME IInv, AppendOpen
  PROVE  IInv' /\ Keeps /\ acked' = acked
<1> USE DEF AppendOpen
<1>1. CASE Fails("open") /\ Return(FALSE) /\ UNCHANGED <<archive, linked>>
  <2>1. Works \/ \E call \in FailingCalls : Fails(call)
    BY <1>1 DEF Fails
  <2>2. QED
    BY <1>1, <2>1, AppendAborted
<1>2. CASE /\ Works /\ linked' = TRUE /\ pc' = "header" /\ ok' = ok
           /\ archive' = IF Disk.kind = "absent" THEN [archive EXCEPT ![target] = Empty] ELSE archive
  <2>1. AppendInv'
    BY <1>2 DEF AppendInv
  <2>2. archive' \in [Days -> File] /\ FilesInv' /\ Keeps
    <3>1. CASE Disk.kind = "absent"
      <4>1. Empty \in File /\ FileOK(Empty) /\ Empty.body = <<>> /\ Disk.body = <<>>
        BY <3>1, NewFiles, Bodies DEF FileOK
      <4>2. QED
        BY <1>2, <3>1, <4>1, FileStep
    <3>2. CASE Disk.kind # "absent"
      BY <1>2, <3>2 DEF IInv, TypeOK, FilesInv, Keeps, Held, Archived
    <3>3. QED
      BY <3>1, <3>2
  <2>3. QED
    BY <1>2, <2>1, <2>2, AppendStep
       DEF IInv, TypeOK, CacheTypeOK, Keeps
<1>3. QED
  BY <1>1, <1>2

LEMMA DiscardIInv ==
  ASSUME IInv, AppendDiscard
  PROVE  IInv' /\ Keeps /\ acked' = acked
<1> USE DEF AppendDiscard
<1>1. CASE Fails("remove") /\ AbortAppend /\ UNCHANGED archive
  <2>1. Works \/ \E call \in FailingCalls : Fails(call)
    BY <1>1 DEF Fails
  <2>2. QED
    BY <1>1, <2>1, AppendAborted DEF AbortAppend
<1>2. CASE /\ Works /\ archive' = [archive EXCEPT ![target] = Absent]
           /\ pc' = "append" /\ UNCHANGED <<handle, num, ok>>
  <2>1. AppendInv'
    BY <1>2 DEF AppendInv
  <2>2. Absent \in File /\ FileOK(Absent) /\ Absent.body = <<>> /\ Disk.body = <<>>
    BY NewFiles, Bodies DEF FileOK
  <2>3. archive' \in [Days -> File] /\ FilesInv' /\ Keeps
    BY <1>2, <2>2, FileStep
  <2>4. QED
    BY <1>2, <2>1, <2>3, AppendStep
       DEF IInv, TypeOK, CacheTypeOK, Keeps
<1>3. QED
  BY <1>1, <1>2

LEMMA GrowIInv ==
  ASSUME IInv, AppendGrow
  PROVE  IInv' /\ Keeps /\ acked' = acked
<1>0. /\ pc = "grow" /\ handle = "mapped"
      /\ UNCHANGED <<cache, loaded, job, next, acked, crashes>>
      /\ UNCHANGED <<day, cacheDay, target, fresh, size, linked, suspects, wrote>>
  BY DEF AppendGrow
<1>1. CASE Fails("size archive") /\ AbortAppend /\ UNCHANGED archive
  <2>1. Works \/ \E call \in FailingCalls : Fails(call)
    BY <1>1 DEF Fails
  <2>2. QED
    BY <1>0, <1>1, <2>1, AppendAborted DEF AbortAppend
<1>2. CASE /\ Works /\ PutArchive(IF fresh THEN Zeros ELSE Valid(Append(Prefix, Gap)))
           /\ pc' = "copy" /\ UNCHANGED <<handle, num, ok>>
  <2>0. linked /\ size \in Nat /\ size = Len(Disk.body) /\ Prefix = Disk.body /\ Disk.body \in Seq(Nat)
    BY <1>0, Bodies DEF IInv, ReaderInv, AppendInv
  <2> DEFINE f == IF fresh THEN Zeros ELSE Valid(Append(Prefix, Gap))
  <2>1. /\ f \in File /\ FileOK(f) /\ f.body \in Seq(Nat)
        /\ LogsOf(f.body) = LogsOf(Disk.body)
        /\ size <= Len(f.body) /\ LogsOf(SubSeq(f.body, 1, size)) = LogsOf(Disk.body)
    <3>1. CASE fresh
      <4>1. Disk.body = <<>> /\ size = 0
        <5>1. Disk.body = <<>>
          BY <1>0, <3>1, Bodies DEF IInv, AppendInv, FileOK
        <5>2. Len(<<>>) = 0
          BY EmptySeq
        <5>3. QED
          BY <5>1, <5>2, <2>0
      <4>2. f \in File /\ FileOK(f) /\ f.body = <<>> /\ <<>> \in Seq(Nat)
        BY <3>1, NewFiles, EmptySeq
      <4> HIDE DEF f
      <4>3. size <= Len(f.body)
        BY <4>1, <4>2, NoRecords
      <4>4. LogsOf(SubSeq(f.body, 1, size)) = {} /\ LogsOf(f.body) = {} /\ LogsOf(Disk.body) = {}
        BY <4>1, <4>2, NoRecords
      <4>5. QED
        BY <4>2, <4>3, <4>4
    <3>2. CASE ~fresh
      <4>1. /\ Append(Disk.body, Gap) \in Seq(Nat)
            /\ Len(Append(Disk.body, Gap)) = Len(Disk.body) + 1
            /\ LogsOf(Append(Disk.body, Gap)) = LogsOf(Disk.body)
            /\ SubSeq(Append(Disk.body, Gap), 1, Len(Disk.body)) = Disk.body
        BY <2>0, GapBehind
      <4>2. f = Valid(Append(Disk.body, Gap))
        BY <2>0, <3>2
      <4>3. f \in File /\ FileOK(f) /\ f.body = Append(Disk.body, Gap)
        BY <4>1, <4>2, ValidFile
      <4> HIDE DEF f
      <4>4. size <= Len(f.body)
        BY <2>0, <4>1, <4>3, LenProperties
      <4>5. LogsOf(SubSeq(f.body, 1, size)) = LogsOf(Disk.body) /\ LogsOf(f.body) = LogsOf(Disk.body)
        BY <2>0, <4>1, <4>3
      <4>6. QED
        BY <4>1, <4>3, <4>4, <4>5
    <3>3. QED
      BY <3>1, <3>2
  <2>2. archive' = [archive EXCEPT ![target] = f]
    BY <1>0, <1>2, <2>0 DEF PutArchive
  <2> HIDE DEF f
  <2>3. archive' \in [Days -> File] /\ FilesInv' /\ Keeps /\ Disk' = f
    BY <1>0, <2>1, <2>2, FileStep
  <2>4. AppendInv'
    BY <1>0, <1>2, <2>1, <2>3 DEF AppendInv, Prefix
  <2>5. QED
    BY <1>0, <1>2, <2>0, <2>3, <2>4, AppendStep
       DEF IInv, TypeOK, CacheTypeOK, Keeps
<1>3. QED
  BY <1>1, <1>2 DEF AppendGrow

\* Without a mapping the archive gets zeros behind its records, or nothing, unless it is cut.
LEMMA UnmappedKinds ==
  ASSUME AppendUnmapped
  PROVE  IF Cutting THEN IF linked THEN \E f \in Zeroed : PutArchive(f) ELSE UNCHANGED archive
                    ELSE UNCHANGED archive \/ (~fresh /\ PutArchive(Valid(Append(Prefix, Gap))))
BY DEF AppendUnmapped, Cutting

LEMMA UnmappedIInv ==
  ASSUME IInv, AppendUnmapped
  PROVE  /\ IInv' /\ acked' = acked
         /\ Cutting => Archived' \subseteq Archived
         /\ ~Cutting => Keeps
<1>0. /\ pc = "grow" /\ pc' = "flushed" /\ ok' = FALSE /\ handle' = "closed" /\ num' = 0
      /\ UNCHANGED <<cache, loaded, job, next, acked, failures, crashes>>
      /\ UNCHANGED <<day, cacheDay, target, fresh, size, linked, suspects, wrote>>
  BY DEF AppendUnmapped, AbortAppend, Return
<1>1. Works \/ \E call \in FailingCalls : Fails(call)
  BY <1>0 DEF Works
<1>2. AppendInv'
  BY <1>0 DEF AppendInv
<1>3. /\ linked /\ Prefix = Disk.body /\ Disk.body \in Seq(Nat) /\ size = Len(Disk.body)
      /\ target \in Days /\ archive \in [Days -> File]
  BY <1>0, Bodies DEF IInv, TypeOK, ReaderInv, AppendInv
<1>4. ASSUME archive' \in [Days -> File], FilesInv', Held' \subseteq Held
      PROVE  IInv' /\ acked' = acked
  BY <1>0, <1>1, <1>2, <1>3, <1>4, AppendStep DEF Keeps
<1>5. CASE UNCHANGED archive
  <2>1. archive' \in [Days -> File] /\ FilesInv' /\ Keeps /\ Archived' = Archived
    BY <1>0, <1>5 DEF IInv, TypeOK, FilesInv, Keeps, Held, Archived
  <2>2. QED
    BY <1>4, <2>1 DEF Keeps
<1>6. CASE ~Cutting /\ PutArchive(Valid(Append(Prefix, Gap)))
  <2>1. /\ Append(Disk.body, Gap) \in Seq(Nat)
        /\ LogsOf(Append(Disk.body, Gap)) = LogsOf(Disk.body)
    BY <1>3, GapBehind
  <2> DEFINE f == Valid(Append(Disk.body, Gap))
  <2>2. f \in File /\ FileOK(f) /\ f.body = Append(Disk.body, Gap)
    BY <2>1, ValidFile
  <2>3. archive' = [archive EXCEPT ![target] = f]
    BY <1>3, <1>6 DEF PutArchive
  <2> HIDE DEF f
  <2>4. archive' \in [Days -> File] /\ FilesInv' /\ Keeps
    BY <1>0, <2>1, <2>2, <2>3, FileStep
  <2>5. QED
    BY <1>4, <1>6, <2>4 DEF Keeps
<1>7. CASE Cutting /\ \E f \in Zeroed : PutArchive(f)
  <2>1. PICK f \in Zeroed : PutArchive(f)
    BY <1>7
  <2>2. f \in File /\ FileOK(f) /\ LogsOf(f.body) \subseteq LogsOf(Disk.body)
    <3>1. CASE size = 0
      <4>1. f = Zeros
        BY <2>1, <3>1 DEF Zeroed
      <4>2. QED
        BY <4>1, NewFiles, LogsOfEmpty
    <3>2. CASE size # 0
      <4>1. PICK k \in {size - 1, size} : f = Valid(Append(SubSeq(Disk.body, 1, k), Gap))
        BY <2>1, <3>2 DEF Zeroed
      <4>2. k \in 0 .. Len(Disk.body)
        <5>1. size \in Nat
          BY Bodies
        <5>2. QED
          BY <1>3, <3>2, <4>1, <5>1
      <4> DEFINE c == SubSeq(Disk.body, 1, k)
      <4>3. c \in Seq(Nat) /\ LogsOf(c) \subseteq LogsOf(Disk.body)
        BY <1>3, <4>2, LogsOfCut
      <4> HIDE DEF c
      <4>4. Append(c, Gap) \in Seq(Nat) /\ LogsOf(Append(c, Gap)) = LogsOf(c)
        BY <4>3, GapBehind
      <4>5. f = Valid(Append(c, Gap))
        BY <4>1 DEF c
      <4>6. f \in File /\ FileOK(f) /\ f.body = Append(c, Gap)
        BY <4>4, <4>5, ValidFile
      <4>7. QED
        BY <4>3, <4>4, <4>6
    <3>3. QED
      BY <3>1, <3>2
  <2>3. archive' = [archive EXCEPT ![target] = f]
    BY <1>3, <2>1 DEF PutArchive
  <2>4. /\ archive' \in [Days -> File]
        /\ \A d \in Days : archive'[d] = IF d = target THEN f ELSE archive[d]
    BY <1>3, <2>2, <2>3
  <2>5. FilesInv'
    BY <1>0, <2>2, <2>4 DEF IInv, FilesInv
  <2>6. \A d \in Days : LogsOf(archive'[d].body) \subseteq LogsOf(archive[d].body)
    BY <1>3, <2>2, <2>4 DEF Disk
  <2>7. Archived' \subseteq Archived /\ Held' \subseteq Held
    BY <1>0, <2>6 DEF Held, Archived
  <2>8. QED
    BY <1>4, <1>7, <2>4, <2>5, <2>7
<1>8. QED
  BY <1>3, <1>5, <1>6, <1>7, UnmappedKinds

LEMMA CopyIInv ==
  ASSUME IInv, AppendCopy
  PROVE  IInv' /\ Keeps /\ acked' = acked
<1>0. /\ pc = "copy"
      /\ UNCHANGED <<cache, loaded, job, next, acked, crashes>>
      /\ UNCHANGED <<day, cacheDay, target, fresh, size, linked, suspects, wrote>>
  BY DEF AppendCopy
<1>1. CASE (Fails("fill archive") \/ Fails("map archive")) /\ AbortAppend /\ UNCHANGED archive
  <2>1. Works \/ \E call \in FailingCalls : Fails(call)
    BY <1>1 DEF Fails
  <2>2. QED
    BY <1>0, <1>1, <2>1, AppendAborted DEF AbortAppend
<1>2. ASSUME NEW pad \in {<<>>, <<Gap>>},
             Works, PutArchive(Valid(Prefix \o (cache.body \o pad))),
             pc' = "shrink", UNCHANGED <<handle, num, ok>>
      PROVE  IInv' /\ Keeps /\ acked' = acked
  <2>0. /\ linked /\ Prefix \in Seq(Nat) /\ Len(Prefix) = size /\ size \in Nat
        /\ LogsOf(Prefix) = LogsOf(Disk.body) /\ cache.body \in Seq(Nat)
    BY <1>0, Bodies DEF IInv, ReaderInv, AppendInv
  <2>1. pad \in Seq(Nat) /\ LogsOf(pad) = {}
    BY NoRecords
  <2> DEFINE c == cache.body \o pad
  <2>2. c \in Seq(Nat) /\ LogsOf(c) = LogsOf(cache.body)
    <3>1. c \in Seq(Nat) /\ LogsOf(c) = LogsOf(cache.body) \cup LogsOf(pad)
      BY <2>0, <2>1, LogsOfConcat
    <3> HIDE DEF c
    <3>2. QED
      BY <2>1, <3>1
  <2> HIDE DEF c
  <2> DEFINE b == Prefix \o c
             f == Valid(b)
  <2>3. b \in Seq(Nat) /\ LogsOf(b) = LogsOf(Prefix) \cup LogsOf(cache.body)
    BY <2>0, <2>2, LogsOfConcat
  <2>4. SubSeq(b, 1, size) = Prefix /\ size <= Len(b)
    <3>1. SubSeq(b, 1, size) = Prefix
      BY <2>0, <2>2, CutConcat
    <3>2. Len(b) = Len(Prefix) + Len(c) /\ Len(c) \in Nat
      BY <2>0, <2>2, ConcatProperties, LenProperties
    <3> HIDE DEF b
    <3>3. QED
      BY <2>0, <3>1, <3>2
  <2>5. /\ archive' = [archive EXCEPT ![target] = f]
        /\ SubSeq(b, 1, size + Len(cache.body)) = Prefix \o cache.body
    <3>1. archive' = [archive EXCEPT ![target] = f]
      BY <1>0, <1>2, <2>0 DEF PutArchive, c
    <3>2. b = (Prefix \o cache.body) \o pad
      <4>1. Prefix \o (cache.body \o pad) = (Prefix \o cache.body) \o pad
        BY <2>0, <2>1, ThreeParts, Zenon
      <4>2. QED
        BY <4>1, Zenon DEF c
    <3>3. Prefix \o cache.body \in Seq(Nat) /\ Len(Prefix \o cache.body) = size + Len(cache.body)
      BY <2>0, ConcatProperties
    <3>4. SubSeq((Prefix \o cache.body) \o pad, 1, Len(Prefix \o cache.body))
            = Prefix \o cache.body
      BY <2>1, <3>3, CutConcat
    <3> HIDE DEF b
    <3>5. QED
      BY <3>1, <3>2, <3>3, <3>4
  <2> HIDE DEF b
  <2>6. f \in File /\ FileOK(f) /\ f.body = b
    BY <2>3, ValidFile
  <2> HIDE DEF f
  <2>7. archive' \in [Days -> File] /\ FilesInv' /\ Keeps /\ Disk' = f
    BY <1>0, <2>0, <2>3, <2>5, <2>6, FileStep
  <2>8. Prefix' = Prefix
    BY <1>0, <2>4, <2>6, <2>7 DEF Prefix
  <2>9. AppendInv'
    BY <1>0, <1>2, <2>3, <2>4, <2>5, <2>6, <2>7, <2>8 DEF AppendInv
  <2>10. QED
    BY <1>0, <1>2, <2>0, <2>7, <2>9, AppendStep
       DEF IInv, TypeOK, CacheTypeOK, Keeps
<1>3. QED
  BY <1>1, <1>2 DEF AppendCopy

LEMMA ShrinkIInv ==
  ASSUME IInv, AppendShrink
  PROVE  IInv' /\ Keeps /\ acked' = acked
<1> USE DEF AppendShrink
<1>1. CASE Fails("size archive") /\ AbortAppend /\ UNCHANGED archive
  <2>1. Works \/ \E call \in FailingCalls : Fails(call)
    BY <1>1 DEF Fails
  <2>2. QED
    BY <1>1, <2>1, AppendAborted DEF AbortAppend
<1>2. CASE /\ Works /\ PutArchive(Valid(SubSeq(Disk.body, 1, size + Len(cache.body))))
           /\ handle' = "closed" /\ num' = 0 /\ pc' = "unlink" /\ UNCHANGED ok
  <2>0. /\ linked /\ Prefix \in Seq(Nat) /\ cache.body \in Seq(Nat)
        /\ LogsOf(Disk.body) = LogsOf(Prefix) \cup LogsOf(cache.body)
        /\ SubSeq(Disk.body, 1, size + Len(cache.body)) = Prefix \o cache.body
    BY Bodies DEF IInv, ReaderInv, AppendInv
  <2> DEFINE f == Valid(Prefix \o cache.body)
  <2>1. Prefix \o cache.body \in Seq(Nat) /\ LogsOf(Prefix \o cache.body) = LogsOf(Disk.body)
    BY <2>0, LogsOfConcat
  <2>2. f \in File /\ FileOK(f) /\ f.body = Prefix \o cache.body
    BY <2>1, ValidFile
  <2>3. archive' = [archive EXCEPT ![target] = f]
    BY <1>2, <2>0 DEF PutArchive
  <2>4. LogsOf(f.body) = LogsOf(Disk.body)
    BY <2>1, <2>2
  <2> HIDE DEF f
  <2>5. archive' \in [Days -> File] /\ FilesInv' /\ Keeps /\ Disk' = f
    BY <2>2, <2>3, <2>4, FileStep
  <2>6. AppendInv'
    BY <1>2, <2>0, <2>4, <2>5 DEF AppendInv
  <2>7. QED
    BY <1>2, <2>0, <2>5, <2>6, AppendStep
       DEF IInv, TypeOK, CacheTypeOK, Keeps
<1>3. QED
  BY <1>1, <1>2

-----------------------------------------------------------------------------
(* The death of the process.                                               *)

\* In the middle of the copy the archive holds its own records and a part of the cache's.
LEMMA CrashedCopy ==
  ASSUME IInv, CrashAppending, pc # "put"
  PROVE  /\ archive' \in [Days -> File] /\ FilesInv' /\ Keeps
         /\ CacheTypeOK' /\ cache'.body = cache.body
<1>0. /\ cache' \in CrashedCache /\ crashes' = crashes + 1 /\ crashes < MaxCrashes
      /\ UNCHANGED <<job, ok, next, acked, failures>> /\ UNCHANGED <<day, cacheDay, target>>
      /\ handle' = "closed" /\ loaded' = FALSE /\ num' = 0
      /\ archive' \in CrashedArchive
  BY DEF CrashAppending, Crash
<1>1. cache' \in File /\ FileOK(cache') /\ cache'.body = cache.body
  BY <1>0, CrashKeeps DEF IInv, TypeOK, FilesInv
<1>2. CacheTypeOK'
  <2>1. crashes' \in 0 .. MaxCrashes
    BY <1>0, CacheFileAssumption DEF IInv, TypeOK, CacheTypeOK
  <2>2. QED
    BY <1>0, <1>1, <2>1 DEF IInv, TypeOK, CacheTypeOK
<1>3. CASE archive' = archive
  BY <1>1, <1>2, <1>3 DEF IInv, TypeOK, FilesInv, Keeps, Held, Archived
<1>4. CASE archive' # archive
  <2>0. /\ pc = "copy" /\ linked
        /\ \E f \in {Disk} \cup {Valid(Prefix \o Append(SubSeq(cache.body, 1, k), Gap)) :
                                  k \in 0 .. Len(cache.body)} :
             archive' = [archive EXCEPT ![target] = f]
    BY <1>0, <1>4 DEF CrashedArchive
  <2>1. cache' = cache
    BY <1>0, <2>0 DEF CrashedCache
  <2>2. PICK f \in {Disk} \cup {Valid(Prefix \o Append(SubSeq(cache.body, 1, k), Gap)) :
                                 k \in 0 .. Len(cache.body)} :
          archive' = [archive EXCEPT ![target] = f]
    BY <2>0
  <2>3. /\ Prefix \in Seq(Nat) /\ LogsOf(Prefix) = LogsOf(Disk.body)
        /\ cache.body \in Seq(Nat) /\ Disk \in File /\ FileOK(Disk)
    BY <2>0, Bodies DEF IInv, AppendInv
  <2>4. /\ f \in File /\ FileOK(f)
        /\ LogsOf(Disk.body) \subseteq LogsOf(f.body)
        /\ LogsOf(f.body) \subseteq LogsOf(Disk.body) \cup LogsOf(cache.body)
    <3>1. CASE f = Disk
      BY <2>3, <3>1
    <3>2. ASSUME NEW k \in 0 .. Len(cache.body),
                 f = Valid(Prefix \o Append(SubSeq(cache.body, 1, k), Gap))
          PROVE  /\ f \in File /\ FileOK(f)
                 /\ LogsOf(Disk.body) \subseteq LogsOf(f.body)
                 /\ LogsOf(f.body) \subseteq LogsOf(Disk.body) \cup LogsOf(cache.body)
      <4> DEFINE c == SubSeq(cache.body, 1, k)
                 e == Append(c, Gap)
      <4>1. c \in Seq(Nat) /\ LogsOf(c) \subseteq LogsOf(cache.body)
        BY <2>3, LogsOfCut
      <4> HIDE DEF c
      <4>2. e \in Seq(Nat) /\ LogsOf(e) = LogsOf(c)
        BY <4>1, GapBehind
      <4> HIDE DEF e
      <4>3. Prefix \o e \in Seq(Nat) /\ LogsOf(Prefix \o e) = LogsOf(Prefix) \cup LogsOf(e)
        BY <2>3, <4>2, LogsOfConcat
      <4>4. f = Valid(Prefix \o e)
        BY <3>2 DEF c, e
      <4>5. f \in File /\ FileOK(f) /\ f.body = Prefix \o e
        BY <4>3, <4>4, ValidFile
      <4>6. QED
        BY <2>3, <4>1, <4>2, <4>3, <4>5
    <3>3. QED
      BY <3>1, <3>2
  <2>5. archive' \in [Days -> File] /\ FilesInv' /\ Keeps
    BY <1>0, <2>1, <2>2, <2>4, FileStep
  <2>6. QED
    BY <1>1, <1>2, <2>5
<1>5. QED
  BY <1>3, <1>4

LEMMA CrashIInv ==
  ASSUME IInv, CrashAppending
  PROVE  IInv' /\ acked' = acked
<1>0. /\ cache' \in CrashedCache /\ crashes' = crashes + 1 /\ crashes < MaxCrashes
      /\ UNCHANGED <<job, ok, next, acked, failures>>
      /\ UNCHANGED <<day, cacheDay, target, fresh, size, wrote>>
      /\ handle' = "closed" /\ loaded' = FALSE /\ num' = 0 /\ pc' = "down"
      /\ linked' = FALSE /\ suspects' = {}
      /\ archive' \in CrashedArchive
  BY DEF CrashAppending, Crash
<1>1. CallInv' /\ ReaderInv' /\ HandleInv' /\ AppendInv' /\ ~Pending'
  BY <1>0 DEF CallInv, Pending, ReaderInv, HandleInv, AppendInv
<1>2. Held \subseteq Nat /\ next \in Nat
  BY HeldAreNumbers DEF IInv, TypeOK, CacheTypeOK
<1>3. ASSUME CacheTypeOK', archive' \in [Days -> File], FilesInv',
             \A l \in Held' : l <= next
      PROVE  IInv'
  <2>1. TypeOK'
    BY <1>0, <1>3 DEF IInv, TypeOK
  <2>2. BoundInv'
    BY <1>0, <1>1, <1>3 DEF BoundInv
  <2>3. QED
    BY <1>1, <1>3, <2>1, <2>2 DEF IInv
<1>4. CASE cache'.body = cache.body /\ archive' \in [Days -> File] /\ FilesInv' /\ Keeps
           /\ CacheTypeOK'
  BY <1>0, <1>3, <1>4 DEF IInv, BoundInv, Keeps
<1>5. ASSUME NEW x \in {Gap, next}, pc = "put", handle = "mapped",
             cache' = Valid(Append(cache.body, x))
      PROVE  IInv'
  <2>0. archive' = archive
    BY <1>0, <1>5 DEF CrashedArchive
  <2>1. /\ cache' \in File /\ FilesInv'
        /\ Held' = Held \cup ({x} \ {Gap})
        /\ \A l \in Held : l < next
        /\ next \in 1 .. MaxLog
    BY <1>5, <2>0, AppendedCache
  <2>2. CacheTypeOK'
    <3>1. crashes' \in 0 .. MaxCrashes
      BY <1>0, CacheFileAssumption DEF IInv, TypeOK, CacheTypeOK
    <3>2. QED
      BY <1>0, <2>1, <3>1 DEF IInv, TypeOK, CacheTypeOK
  <2>3. \A l \in Held' : l <= next
    BY <1>2, <2>1
  <2>4. QED
    BY <1>3, <2>0, <2>1, <2>2, <2>3 DEF IInv, TypeOK
<1>6. CASE pc = "put"
  <2>1. \/ cache' \in File /\ FileOK(cache') /\ cache'.body = cache.body
        \/ /\ pc = "put" /\ handle = "mapped"
           /\ \E x \in {Gap, next} : cache' = Valid(Append(cache.body, x))
    BY <1>0, CrashKeeps DEF IInv, TypeOK, FilesInv
  <2>2. CASE cache' \in File /\ FileOK(cache') /\ cache'.body = cache.body
    <3>1. archive' = archive
      BY <1>0, <1>6 DEF CrashedArchive
    <3>2. crashes' \in 0 .. MaxCrashes
      BY <1>0, CacheFileAssumption DEF IInv, TypeOK, CacheTypeOK
    <3>3. CacheTypeOK'
      BY <1>0, <2>2, <3>2 DEF IInv, TypeOK, CacheTypeOK
    <3>4. archive' \in [Days -> File] /\ FilesInv' /\ Keeps
      BY <2>2, <3>1 DEF IInv, TypeOK, FilesInv, Keeps, Held, Archived
    <3>5. QED
      BY <1>4, <2>2, <3>3, <3>4
  <2>3. QED
    BY <1>0, <1>5, <2>1, <2>2
<1>7. CASE pc # "put"
  BY <1>4, <1>7, CrashedCopy
<1>8. QED
  BY <1>0, <1>6, <1>7

-----------------------------------------------------------------------------
\* No step is a reader's; the others leave every file alone, or change one.
LEMMA StepCases ==
  ASSUME ~Readers, IInv, [Next]_vars
  PROVE  QuietStep \/ Load \/ (StoreRecord /\ PutRecord) \/ AppendLogFile \/ CrashAppending
<1>1. CASE StoreRecord /\ ~PutRecord
  <2>1. (WriteRefused \/ CheckSpace \/ PutToNull) /\ cache' = cache
    BY <1>1 DEF StoreRecord, WriteRefused, CheckSpace, PutToNull
  <2>2. QED
    BY <1>1, <2>1 DEF StoreRecord, QuietStep, dayVars
<1>2. ASSUME NEW d \in Days, ReaderDislikes(d) \/ ReaderRemoves(d)
      PROVE  FALSE
  BY <1>2 DEF ReaderDislikes, ReaderRemoves, IInv, ReaderInv
<1>3. QED
  BY <1>1, <1>2 DEF Next, QuietStep

\* What appendLogFile does to the files, unless it cuts.
LEMMA AppendIInv ==
  ASSUME IInv, AppendLogFile
  PROVE  /\ IInv' /\ acked' = acked
         /\ Cutting => Archived' \subseteq Archived /\ cache' = cache
         /\ ~Cutting => Keeps
<1>1. AppendHeader \/ AppendNothing => QuietStep
  BY DEF QuietStep
<1>2. CASE AppendUnmapped
  <2>1. cache' = cache
    BY <1>2 DEF AppendUnmapped
  <2>2. QED
    BY <1>2, <2>1, UnmappedIInv
<1>3. CASE AppendNothing
  BY <1>1, <1>3, QuietIInv, QuietFrame DEF Archived
<1>4. CASE AppendGrow
  BY <1>4, GrowIInv DEF AppendGrow, Cutting
<1>5. CASE pc # "grow"
  <2>1. ~Cutting /\ ~AppendUnmapped
    BY <1>5 DEF Cutting, AppendUnmapped
  <2>2. QED
    BY <1>1, <2>1, QuietIInv, OpenIInv, DiscardIInv, GrowIInv, CopyIInv, ShrinkIInv, UnlinkIInv
       DEF AppendLogFile
<1>6. CASE pc = "grow"
  BY <1>2, <1>3, <1>4, <1>6
     DEF AppendLogFile, AppendOpen, AppendHeader, AppendDiscard, AppendCopy, AppendShrink, AppendUnlink
<1>7. QED
  BY <1>5, <1>6

\* One step keeps the invariant.
LEMMA StepIInv ==
  ASSUME ~Readers, IInv, [Next]_vars
  PROVE  IInv'
BY QuietIInv, LoadIInv, PutIInv, AppendIInv, CrashIInv, StepCases

LEMMA Invariance ==
  ASSUME ~Readers
  PROVE  Spec => []IInv
<1>1. IInv /\ [Next]_vars => IInv'
  BY StepIInv
<1>2. QED
  BY InitIInv, <1>1, PTL DEF Spec

-----------------------------------------------------------------------------
(* The durable log.  What is exposed is what stands in the cache behind a  *)
(* gap and in no archive.                                                  *)

Exposed == LogsOf(cache.body) \ Stored

LEMMA CacheBody ==
  ASSUME IInv
  PROVE  /\ cache.body \in Seq(Nat)
         /\ SafeOf(cache.body) \subseteq LogsOf(cache.body)
         /\ ~Torn(cache.body) => SafeOf(cache.body) = LogsOf(cache.body)
         /\ Held = Stored \cup Exposed
<1>1. cache.body \in Seq(Nat)
  BY DEF IInv, TypeOK, CacheTypeOK, File
<1>2. QED
  BY <1>1, SafeIndexed DEF Held, Stored, Exposed

\* Copying exposed logs to the archive stores them.
LEMMA CopyRefines ==
  ASSUME IInv, Keeps, cache'.body = cache.body, acked' = acked
  PROVE  [Log!Next]_Log!vars
<1> DEFINE S == Stored' \ Stored
<1>1. Stored \subseteq Stored' /\ LogsOf(cache'.body) = LogsOf(cache.body)
  BY DEF Keeps, Stored
<1>2. Stored' \subseteq Held'
  BY CacheBody DEF Stored, Held
<1>3. S \in SUBSET Exposed
  BY <1>1, <1>2, CacheBody DEF Keeps
<1>4. Stored' = Stored \cup S
  BY <1>1
<1>5. Exposed' = Exposed \ S
  BY <1>1 DEF Exposed
<1>6. Torn(cache.body)' = Torn(cache.body)
  OBVIOUS
<1>7. CASE Torn(cache.body)
  <2>1. Log!Archive(S)
    BY <1>4, <1>5, <1>6, <1>7 DEF Log!Archive, Exposed
  <2>2. QED
    BY <1>3, <2>1 DEF Log!Next, Exposed
<1>8. CASE ~Torn(cache.body)
  <2>1. Exposed = {}
    BY <1>8, CacheBody DEF Exposed, Stored
  <2>2. Stored' = Stored /\ Exposed' = Exposed
    BY <1>3, <1>4, <1>5, <2>1
  <2>3. QED
    BY <1>6, <2>2 DEF Log!vars, Exposed
<1>9. QED
  BY <1>7, <1>8

LEMMA LoadRefines ==
  ASSUME IInv, Load
  PROVE  [Log!Next]_Log!vars
<1>1. cache'.body \in Positions(cache.body) /\ acked' = acked /\ archive' = archive
  BY LoadKeeps DEF IInv, TypeOK, FilesInv, Load, LoadStep
<1>2. Archived' = Archived
  BY <1>1 DEF Archived
<1>3. CASE cache'.body = cache.body
  <2>1. Keeps
    BY <1>2, <1>3 DEF Keeps, Held
  <2>2. QED
    BY <1>1, <1>3, <2>1, CopyRefines
<1>4. CASE cache'.body # cache.body
  <2>1. /\ SafeOf(cache'.body) = SafeOf(cache.body)
        /\ Torn(cache'.body) <=> Torn(cache.body)
        /\ Torn(cache.body)
        /\ LogsOf(cache'.body) \subseteq LogsOf(cache.body)
        /\ IsFiniteSet(LogsOf(cache.body) \ LogsOf(cache'.body))
        /\ Cardinality(LogsOf(cache.body) \ LogsOf(cache'.body)) <= 2
    BY <1>1, <1>4, CacheBody, PositionKeeps
  <2>2. Stored' = Stored
    BY <1>2, <2>1 DEF Stored
  <2>3. Exposed' \subseteq Exposed /\ Exposed \ Exposed' \subseteq LogsOf(cache.body) \ LogsOf(cache'.body)
    BY <2>1, <2>2 DEF Exposed
  <2>4. IsFiniteSet(Exposed \ Exposed') /\ Cardinality(Exposed \ Exposed') <= 2
    <3>1. /\ IsFiniteSet(Exposed \ Exposed')
          /\ Cardinality(Exposed \ Exposed') <= Cardinality(LogsOf(cache.body) \ LogsOf(cache'.body))
      BY <2>1, <2>3, FS_Subset
    <3>2. /\ Cardinality(Exposed \ Exposed') \in Nat
          /\ Cardinality(LogsOf(cache.body) \ LogsOf(cache'.body)) \in Nat
      BY <2>1, <3>1, FS_CardinalityType
    <3>3. QED
      BY <2>1, <3>1, <3>2
  <2>5. Torn(cache.body)' = Torn(cache.body)
    BY <2>1, SameTruth
  <2>6. CASE Exposed \ Exposed' = {}
    <3>1. Exposed' = Exposed
      BY <2>3, <2>6
    <3>2. QED
      BY <1>1, <2>2, <2>5, <3>1, Zenon DEF Log!vars, Exposed
  <2>7. CASE Exposed \ Exposed' # {}
    <3>1. \E k, l \in Exposed : Exposed \ Exposed' \subseteq {k, l}
      BY <2>4, <2>7, Pair
    <3>2. Log!Reload
      BY <1>1, <2>1, <2>2, <2>3, <2>5, <3>1, Zenon DEF Log!Reload, Exposed
    <3>3. QED
      BY <3>2 DEF Log!Next
  <2>8. QED
    BY <2>6, <2>7
<1>5. QED
  BY <1>3, <1>4

\* A record put behind the others is found where the cache is intact, and exposed where not.
LEMMA RecordRefines ==
  ASSUME IInv, NEW x \in {Gap, next}, pc = "put", handle = "mapped", archive' = archive,
         cache' = Valid(Append(cache.body, x))
  PROVE  /\ x = Gap => Stored' = Stored /\ Exposed' = Exposed /\ Torn(cache'.body)
         /\ x # Gap => /\ x \in 1 .. MaxLog /\ Log!Put(x)
                       /\ ~Torn(cache.body) => x \in SafeOf(cache'.body)
                       /\ Torn(cache'.body) <=> Torn(cache.body)
         /\ SafeOf(cache.body) \subseteq SafeOf(cache'.body)
<1>1. /\ \A l \in Held : l < next
      /\ next \in 1 .. MaxLog
  BY AppendedCache
<1>2. cache.body \in Seq(Nat) /\ x \in Nat
  BY <1>1, CacheBody DEF Gap
<1>3. cache'.body = Append(cache.body, x) /\ Archived' = Archived
  BY DEF Valid, Archived
<1>4. /\ LogsOf(cache'.body) = LogsOf(cache.body) \cup ({x} \ {Gap})
      /\ SafeOf(cache'.body) = SafeOf(cache.body) \cup IF Torn(cache.body) \/ x = Gap THEN {} ELSE {x}
      /\ Torn(cache'.body) <=> Torn(cache.body) \/ x = Gap
  BY <1>2, <1>3, LogsOfAppend, SafeOfAppend
<1>5. CASE x = Gap
  BY <1>3, <1>4, <1>5 DEF Stored, Exposed
<1>6. CASE x # Gap
  <2>1. x = next /\ x \in 1 .. MaxLog /\ \A l \in Stored \cup Exposed : l < x
    BY <1>1, <1>6, CacheBody
  <2>2. x \notin Stored
    BY <1>2, <2>1
  <2>3. CASE Torn(cache.body)
    <3>1. Stored' = Stored /\ Exposed' = Exposed \cup {x}
      BY <1>3, <1>4, <1>6, <2>2, <2>3 DEF Stored, Exposed
    <3>2. QED
      BY <1>4, <1>6, <2>1, <2>3, <3>1 DEF Log!Put, Exposed
  <2>4. CASE ~Torn(cache.body)
    <3>1. Stored' = Stored \cup {x} /\ Exposed = {} /\ Exposed' = {}
      <4>1. Stored' = Stored \cup {x}
        BY <1>3, <1>4, <1>6, <2>4 DEF Stored
      <4>2. Exposed = {}
        BY <2>4, CacheBody DEF Exposed, Stored
      <4>3. Exposed' = {}
        BY <1>4, <4>1, <2>4, CacheBody DEF Exposed, Stored
      <4>4. QED
        BY <4>1, <4>2, <4>3
    <3>2. Torn(cache.body)' = Torn(cache.body)
      BY <1>4, <1>6, SameTruth
    <3>3. Log!Put(x)
      BY <2>1, <2>4, <3>1, <3>2 DEF Log!Put, Exposed
    <3>4. QED
      BY <1>4, <1>6, <2>1, <2>4, <3>3
  <2>5. QED
    BY <2>3, <2>4
<1>7. QED
  BY <1>5, <1>6

LEMMA PutRefines ==
  ASSUME IInv, StoreRecord, PutRecord
  PROVE  Log!Next
<1>1. archive' = archive /\ pc = "put" /\ handle = "mapped"
  BY DEF StoreRecord, PutRecord
<1>2. cache' = Valid(Append(cache.body, next)) /\ acked' = acked \cup {next}
  BY DEF PutRecord
<1>3. next # Gap
  BY <1>1, <1>2, AppendedCache DEF Gap
<1>4. next \in 1 .. MaxLog /\ Log!Write(next)
  BY <1>1, <1>2, <1>3, RecordRefines DEF Log!Write
<1>5. QED
  BY <1>4 DEF Log!Next

LEMMA CrashRefines ==
  ASSUME IInv, CrashAppending
  PROVE  [Log!Next]_Log!vars
<1>1. acked' = acked /\ cache' \in CrashedCache /\ archive' \in CrashedArchive
  BY DEF CrashAppending, Crash
<1>2. CASE pc # "put"
  BY <1>1, <1>2, CrashedCopy, CopyRefines
<1>3. CASE pc = "put"
  <2>1. archive' = archive
    BY <1>1, <1>3 DEF CrashedArchive
  <2>2. CASE cache'.body = cache.body
    <3>1. Keeps
      BY <2>1, <2>2 DEF Keeps, Held, Archived
    <3>2. QED
      BY <1>1, <2>2, <3>1, CopyRefines
  <2>3. ASSUME NEW x \in {Gap, next}, handle = "mapped", cache' = Valid(Append(cache.body, x))
        PROVE  Log!Next
    <3>1. CASE x = Gap
      <4>1. Log!Tear
        BY <1>1, <1>3, <2>1, <2>3, <3>1, RecordRefines DEF Log!Tear, Exposed
      <4>2. QED
        BY <4>1 DEF Log!Next
    <3>2. CASE x # Gap
      <4>1. x \in 1 .. MaxLog /\ Log!WriteUnacked(x)
        BY <1>1, <1>3, <2>1, <2>3, <3>2, RecordRefines DEF Log!WriteUnacked
      <4>2. QED
        BY <4>1 DEF Log!Next
    <3>3. QED
      BY <3>1, <3>2
  <2>4. QED
    BY <1>1, <1>3, <2>2, <2>3, CrashKeeps DEF IInv, TypeOK, FilesInv
<1>4. QED
  BY <1>2, <1>3

\* The archive holds all logs of the cache that is deleted.
LEMMA UnlinkRefines ==
  ASSUME IInv, AppendUnlink
  PROVE  [Log!Next]_Log!vars
<1>1. /\ acked' = acked /\ archive' = archive /\ pc = "unlink"
      /\ cache' = cache \/ cache' = Absent
  BY DEF AppendUnlink, dayVars
<1>2. Archived' = Archived
  BY <1>1 DEF Archived
<1>3. CASE cache' = cache
  <2>1. Keeps
    BY <1>2, <1>3 DEF Keeps, Held
  <2>2. QED
    BY <1>1, <1>3, <2>1, CopyRefines
<1>4. CASE cache' = Absent
  <2>1. LogsOf(cache.body) \subseteq Archived
    BY <1>1, Bodies DEF IInv, AppendInv, Disk, Archived
  <2>2. SafeOf(cache'.body) = {} /\ LogsOf(cache'.body) = {} /\ ~Torn(cache'.body)
    BY <1>4, EmptyIsSafe, LogsOfEmpty DEF Absent
  <2>3. Stored = Archived /\ Stored' = Archived /\ Exposed = {} /\ Exposed' = {}
    BY <1>2, <2>1, <2>2, CacheBody DEF Stored, Exposed
  <2>4. Log!Archive({})
    <3>1. Torn(cache.body)' = FALSE
      BY <2>2
    <3>2. Stored' = Stored \cup {} /\ Exposed' = Exposed \ {}
      BY <2>3
    <3>3. QED
      BY <1>1, <2>3, <3>1, <3>2 DEF Log!Archive, Exposed
  <2>5. {} \in SUBSET Exposed
    OBVIOUS
  <2>6. QED
    BY <2>4, <2>5 DEF Log!Next, Exposed
<1>5. QED
  BY <1>1, <1>3, <1>4

\* Each step is one of the durable log, or none, or a cut.
LEMMA StepRefines ==
  ASSUME ~Readers, IInv, [Next]_vars
  PROVE  ([Log!Next]_Log!vars \/ Cut) /\ (~Cutting => [Log!Next]_Log!vars)
<1>1. CASE QuietStep
  <2>1. Keeps /\ cache' = cache /\ acked' = acked
    BY <1>1, QuietIInv, QuietFrame
  <2>2. QED
    BY <2>1, CopyRefines
<1>2. CASE AppendLogFile
  <2>1. CASE Cutting
    <3>1. Archived' \subseteq Archived /\ cache' = cache /\ acked' = acked
      BY <1>2, <2>1, AppendIInv
    <3>2. QED
      BY <2>1, <3>1 DEF Cut, Stored
  <2>2. CASE AppendUnlink
    BY <2>2, UnlinkRefines
  <2>3. CASE ~Cutting /\ ~AppendUnlink
    <3>1. cache' = cache
      BY <1>2, <2>3 DEF AppendLogFile, AppendOpen, AppendHeader, AppendDiscard, AppendGrow,
         AppendNothing, AppendUnmapped, AppendCopy, AppendShrink
    <3>2. QED
      BY <1>2, <2>3, <3>1, AppendIInv, CopyRefines
  <2>4. QED
    BY <2>1, <2>2, <2>3
<1>3. QED
  BY <1>1, <1>2, LoadRefines, PutRefines, CrashRefines, StepCases

\* Where mmap and ftruncate work, nothing is cut.
LEMMA NothingIsCut ==
  ASSUME Undisturbed
  PROVE  Spec => []~Cutting
<1>1. IInv => ~Cutting
  BY DEF Undisturbed, IInv, HandleInv, Cutting
<1>2. QED
  BY <1>1, Invariance, PTL DEF Undisturbed

LEMMA LogBegins == Init => Log!Init
<1> SUFFICES ASSUME Init PROVE Log!Init
  OBVIOUS
<1>1. cache.body = <<>> /\ \A d \in Days : archive[d].body = <<>>
  BY DEF Init, CacheInit, Absent
<1>2. QED
  BY <1>1, LogsOfEmpty, EmptyIsSafe DEF Log!Init, Stored, Archived, Init, CacheInit

-----------------------------------------------------------------------------
\* Whatever calls fail and wherever the process dies, each step keeps the durable log's
\* promises but one: the append of a cache that is open and unmapped behind its header,
\* and that one adds nothing (appendLogFile with getDataLength = 0 - m_headerSize).
THEOREM OnlyCutsLose == ASSUME ~Readers PROVE Spec => LosesOnlyByCuts
<1>1. IInv /\ [Next]_vars => [Log!Next \/ Cut]_Log!vars
  BY StepRefines
<1>2. QED
  BY <1>1, Invariance, PTL DEF Spec, LosesOnlyByCuts

\* As long as nothing is cut, an instance is a durable log, whatever else fails, the
\* cache's mmap and ftruncate included.
THEOREM DurableUnlessCut == ASSUME ~Readers PROVE Spec /\ []~Cutting => LogSpec
<1>1. IInv /\ ~Cutting /\ [Next]_vars => [Log!Next]_Log!vars
  BY StepRefines
<1>2. QED
  BY <1>1, LogBegins, Invariance, PTL DEF Spec, LogSpec, Log!Spec

\* No append, failing system call, crash or restart loses a stored log: the cache
\* is deleted only when the archive of the day holds its records.
THEOREM IncrementalIsDurable == ASSUME Undisturbed PROVE Spec => LogSpec
  BY NothingIsCut, DurableUnlessCut, PTL DEF Undisturbed

-----------------------------------------------------------------------------
(* The values of the variables, whatever fails and whoever reads.  While   *)
(* the descriptor is the file under the name, that file is as long as      *)
(* appendLogFile takes it to be; once a reader has removed the file, what  *)
(* is written reaches no file.                                             *)

LengthInv ==
  linked => /\ pc \in {"grow", "copy", "shrink"} => size <= Len(Disk.body)
            /\ pc = "grow" /\ fresh => size = 0
            /\ pc = "shrink" => size + Len(cache.body) <= Len(Disk.body)

TypesInv == TypeOK /\ FilesInv /\ CallInv /\ LengthInv

LEMMA TypedBodies ==
  ASSUME TypesInv
  PROVE  /\ cache \in File /\ cache.body \in Seq(Nat) /\ Len(cache.body) \in Nat
         /\ target \in Days /\ size \in Nat /\ archive \in [Days -> File]
         /\ Disk \in File /\ Disk.body \in Seq(Nat) /\ Len(Disk.body) \in Nat /\ FileOK(Disk)
         /\ linked /\ pc \in {"grow", "copy", "shrink"} =>
              Prefix \in Seq(Nat) /\ Len(Prefix) = size
<1>1. /\ cache \in File /\ cache.body \in Seq(Nat) /\ Len(cache.body) \in Nat
      /\ target \in Days /\ size \in Nat /\ archive \in [Days -> File]
      /\ Disk \in File /\ Disk.body \in Seq(Nat) /\ Len(Disk.body) \in Nat /\ FileOK(Disk)
  BY LenProperties DEF TypesInv, TypeOK, CacheTypeOK, FilesInv, File, Disk
<1>2. ASSUME linked, pc \in {"grow", "copy", "shrink"}
      PROVE  Prefix \in Seq(Nat) /\ Len(Prefix) = size
  <2>1. size \in 0 .. Len(Disk.body)
    BY <1>1, <1>2 DEF TypesInv, LengthInv
  <2>2. QED
    BY <1>1, <2>1, LogsOfCut DEF Prefix
<1>3. QED
  BY <1>1, <1>2

LEMMA TypedQuiet ==
  ASSUME TypesInv, QuietStep
  PROVE  TypesInv'
<1>1. cache' = cache /\ archive' = archive /\ linked' = linked
  BY QuietFrame
<1>2. TypeOK' /\ CallInv' /\ FilesInv'
  BY <1>1, QuietTypes, QuietControl DEF TypesInv, FilesInv
<1>3. LengthInv'
  <2>1. CASE AppendHeader
    <3>1. /\ size' = Len(Disk.body) /\ pc' = "grow" /\ target' = target
          /\ fresh' = (Disk.kind # "valid")
      BY <2>1 DEF AppendHeader
    <3>2. Disk' = Disk
      BY <1>1, <3>1 DEF Disk
    <3>3. size' <= Len(Disk'.body)
      BY <3>1, <3>2, TypedBodies
    <3>4. fresh' => size' = 0
      <4>1. fresh' => Disk.body = <<>>
        BY <3>1, TypedBodies DEF FileOK
      <4>2. QED
        BY <3>1, <4>1
    <3>5. QED
      BY <3>1, <3>3, <3>4 DEF LengthInv
  <2>2. CASE pc' = pc /\ target' = target /\ size' = size /\ fresh' = fresh
    BY <1>1, <2>2 DEF TypesInv, LengthInv, Disk
  <2>3. CASE pc' \notin {"grow", "copy", "shrink", "unlink"}
    BY <2>3 DEF LengthInv
  <2>4. QED
    BY <2>1, <2>2, <2>3, QuietControl DEF TypesInv
<1>4. QED
  BY <1>2, <1>3 DEF TypesInv

LEMMA TypedLoad ==
  ASSUME TypesInv, Load
  PROVE  TypesInv'
<1>1. /\ CacheTypeOK' /\ FileOK(cache') /\ cache'.body \in Positions(cache.body)
      /\ next' = next /\ job' = job
      /\ pc \in {"open", "map"} /\ pc' \in {"open", "map", "loaded"}
  BY LoadKeeps DEF TypesInv, TypeOK, FilesInv, Load, LoadStep
<1>2. /\ archive' = archive /\ day' = day /\ target' = target /\ fresh' = fresh /\ size' = size
      /\ linked' = linked /\ suspects' = suspects /\ wrote' = wrote
      /\ cacheDay' \in {day, cacheDay}
  BY DEF Load
<1>3. TypeOK'
  BY <1>1, <1>2 DEF TypesInv, TypeOK
<1>4. FilesInv'
  BY <1>1, <1>2 DEF TypesInv, FilesInv
<1>5. CallInv' /\ LengthInv'
  BY <1>1, <1>2 DEF TypesInv, CallInv, Pending, LengthInv
<1>6. QED
  BY <1>3, <1>4, <1>5 DEF TypesInv

\* A record that is put into the cache, by a write or by one that a crash cuts off.
LEMMA TypedRecord ==
  ASSUME TypesInv, NEW x \in {Gap, next}, cache' = Valid(Append(cache.body, x))
  PROVE  cache' \in File /\ FileOK(cache')
<1>1. cache.body \in Seq(Nat) /\ x \in Nat
  BY CacheFileAssumption DEF TypesInv, TypeOK, CacheTypeOK, File, Gap
<1>2. Append(cache.body, x) \in Seq(Nat)
  BY <1>1, AppendProperties
<1>3. QED
  BY <1>2, ValidFile

LEMMA TypedPut ==
  ASSUME TypesInv, StoreRecord, PutRecord
  PROVE  TypesInv'
<1>1. /\ archive' = archive /\ day' = day /\ target' = target /\ fresh' = fresh /\ size' = size
      /\ linked' = linked /\ suspects' = suspects /\ wrote' = wrote
      /\ cacheDay' \in {day, cacheDay}
  BY DEF StoreRecord, Touched
<1>2. /\ pc = "put" /\ pc' = "idle" /\ cache' = Valid(Append(cache.body, next))
      /\ num' = num + 1 /\ acked' = acked \cup {next}
      /\ UNCHANGED <<handle, loaded, job, ok, next, failures, crashes>>
  BY DEF PutRecord
<1>3. cache' \in File /\ FileOK(cache')
  BY <1>2, TypedRecord
<1>4. next \in 1 .. MaxLog
  BY <1>2, CacheFileAssumption DEF TypesInv, TypeOK, CacheTypeOK, CallInv, Pending
<1>5. CacheTypeOK'
  BY <1>2, <1>3, <1>4 DEF TypesInv, TypeOK, CacheTypeOK
<1>6. TypeOK'
  BY <1>1, <1>2, <1>5 DEF TypesInv, TypeOK
<1>7. FilesInv'
  BY <1>1, <1>3 DEF TypesInv, FilesInv
<1>8. CallInv' /\ LengthInv'
  BY <1>2 DEF CallInv, Pending, LengthInv
<1>9. QED
  BY <1>6, <1>7, <1>8 DEF TypesInv

\* A change of an open archive.
LEMMA TypedFile ==
  ASSUME TypesInv, NEW f, linked => f \in File /\ FileOK(f), PutArchive(f)
  PROVE  /\ archive' \in [Days -> File] /\ \A d \in Days : FileOK(archive'[d])
         /\ linked /\ target' = target => Disk' = f
<1>1. archive \in [Days -> File] /\ target \in Days /\ \A d \in Days : FileOK(archive[d])
  BY TypedBodies DEF TypesInv, FilesInv
<1>2. CASE linked
  <2>1. archive' = [archive EXCEPT ![target] = f] /\ f \in File /\ FileOK(f)
    BY <1>2 DEF PutArchive
  <2>2. archive' \in [Days -> File] /\ \A d \in Days : archive'[d] = IF d = target THEN f ELSE archive[d]
    BY <1>1, <2>1
  <2>3. target' = target => Disk' = f
    BY <1>1, <2>2 DEF Disk
  <2>4. QED
    BY <1>1, <2>1, <2>2, <2>3
<1>3. CASE ~linked
  BY <1>1, <1>3 DEF PutArchive
<1>4. QED
  BY <1>2, <1>3

\* What the steps of appendLogFile have in common.
LEMMA TypedAppend ==
  ASSUME TypesInv, cache' = cache \/ cache' = Absent,
         archive' \in [Days -> File], \A d \in Days : FileOK(archive'[d]),
         pc \in {"append", "header", "grow", "copy", "shrink", "unlink"},
         pc' \in {"append", "header", "grow", "copy", "shrink", "unlink", "flushed", "open"},
         linked' \in BOOLEAN, LengthInv',
         handle' = handle \/ handle' = "closed",
         num' = num \/ num' = 0, ok' \in BOOLEAN,
         Works \/ \E call \in FailingCalls : Fails(call),
         UNCHANGED <<loaded, job, next, acked, crashes, day, cacheDay, target, fresh, size,
                     suspects, wrote>>
  PROVE  TypesInv'
<1>1. failures' \in 0 .. MaxFailures
  BY CountedFailure DEF TypesInv, TypeOK
<1>2. handle' \in {"closed", "null", "mapped"} /\ num' \in Nat
  BY DEF TypesInv, TypeOK, CacheTypeOK
<1>3. cache' \in File /\ FileOK(cache')
  BY NewFiles DEF TypesInv, TypeOK, CacheTypeOK, FilesInv
<1>4. CacheTypeOK'
  BY <1>1, <1>2, <1>3 DEF TypesInv, TypeOK, CacheTypeOK
<1>5. TypeOK'
  BY <1>4 DEF TypesInv, TypeOK
<1>6. FilesInv'
  BY <1>3 DEF FilesInv
<1>7. CallInv'
  BY DEF TypesInv, CallInv, Pending
<1>8. QED
  BY <1>5, <1>6, <1>7 DEF TypesInv

\* A step of the append that leaves the archives as they are and reads no more of them.
LEMMA TypedReturn ==
  ASSUME TypesInv, cache' = cache \/ cache' = Absent, archive' = archive, linked' = linked,
         pc \in {"append", "header", "grow", "copy", "shrink", "unlink"},
         pc' \in {"append", "header", "unlink", "flushed", "open"},
         handle' = handle \/ handle' = "closed",
         num' = num \/ num' = 0, ok' \in BOOLEAN,
         Works \/ \E call \in FailingCalls : Fails(call),
         UNCHANGED <<loaded, job, next, acked, crashes, day, cacheDay, target, fresh, size,
                     suspects, wrote>>
  PROVE  TypesInv'
<1>1. archive' \in [Days -> File] /\ \A d \in Days : FileOK(archive'[d])
  BY DEF TypesInv, TypeOK, FilesInv
<1>2. LengthInv'
  BY DEF LengthInv
<1>3. linked' \in BOOLEAN
  BY DEF TypesInv, TypeOK
<1>4. QED
  BY <1>1, <1>2, <1>3, TypedAppend

LEMMA TypedOpen ==
  ASSUME TypesInv, AppendOpen \/ AppendDiscard
  PROVE  TypesInv'
<1>1. /\ pc \in {"append", "header"} /\ UNCHANGED <<cache, loaded, job, next, acked, crashes>>
      /\ UNCHANGED <<day, cacheDay, target, fresh, size, suspects, wrote>>
      /\ pc' \in {"append", "header", "flushed"}
      /\ handle' = handle \/ handle' = "closed"
      /\ num' = num \/ num' = 0
      /\ ok' = ok \/ ok' = FALSE
      /\ linked' = linked \/ linked' = TRUE
  BY DEF AppendOpen, AppendDiscard, AbortAppend, Return
<1>2. Works \/ \E call \in FailingCalls : Fails(call)
  BY DEF AppendOpen, AppendDiscard, Fails
<1>3. \/ archive' = archive
      \/ \E f \in {Empty, Absent} : archive' = [archive EXCEPT ![target] = f]
  BY DEF AppendOpen, AppendDiscard
<1>4. archive' \in [Days -> File] /\ \A d \in Days : FileOK(archive'[d])
  <2>1. archive \in [Days -> File] /\ target \in Days /\ \A d \in Days : FileOK(archive[d])
    BY TypedBodies DEF TypesInv, FilesInv
  <2>2. CASE archive' = archive
    BY <2>1, <2>2
  <2>3. ASSUME NEW f \in {Empty, Absent}, archive' = [archive EXCEPT ![target] = f]
        PROVE  archive' \in [Days -> File] /\ \A d \in Days : FileOK(archive'[d])
    <3>1. f \in File /\ FileOK(f)
      BY NewFiles
    <3>2. archive' \in [Days -> File] /\ \A d \in Days : archive'[d] = IF d = target THEN f ELSE archive[d]
      BY <2>1, <2>3, <3>1
    <3>3. QED
      BY <2>1, <3>1, <3>2
  <2>4. QED
    BY <1>3, <2>2, <2>3
<1>5. LengthInv'
  BY <1>1 DEF LengthInv
<1>6. linked' \in BOOLEAN /\ ok' \in BOOLEAN
  BY <1>1, Zenon DEF TypesInv, TypeOK, CacheTypeOK
<1>7. QED
  BY <1>1, <1>2, <1>4, <1>5, <1>6, TypedAppend

\* A step that gives the archive another content, of which the next ones take size for granted.
LEMMA TypedWrite ==
  ASSUME TypesInv, NEW f, linked => f \in File /\ FileOK(f), PutArchive(f),
         linked' = linked, cache' = cache, Works,
         pc \in {"grow", "copy", "shrink"}, pc' \in {"copy", "shrink", "unlink", "flushed"},
         linked /\ pc' \in {"copy", "shrink"} => size <= Len(f.body),
         linked /\ pc' = "shrink" => size + Len(cache.body) <= Len(f.body),
         handle' = handle \/ handle' = "closed",
         num' = num \/ num' = 0, ok' \in BOOLEAN,
         UNCHANGED <<loaded, job, next, acked, crashes, day, cacheDay, target, fresh, size,
                     suspects, wrote>>
  PROVE  TypesInv'
<1>1. /\ archive' \in [Days -> File] /\ \A d \in Days : FileOK(archive'[d])
      /\ linked => Disk' = f
  BY TypedFile
<1>2. LengthInv'
  BY <1>1 DEF LengthInv
<1>3. linked' \in BOOLEAN
  BY DEF TypesInv, TypeOK
<1>4. QED
  BY <1>1, <1>2, <1>3, TypedAppend

LEMMA TypedGrow ==
  ASSUME TypesInv, AppendGrow
  PROVE  TypesInv'
<1>0. /\ pc = "grow" /\ UNCHANGED <<cache, loaded, job, next, acked, crashes>>
      /\ UNCHANGED <<day, cacheDay, target, fresh, size, linked, suspects, wrote>>
  BY DEF AppendGrow
<1>1. CASE Fails("size archive") /\ AbortAppend /\ UNCHANGED archive
  BY <1>0, <1>1, TypedReturn DEF AbortAppend, Return, Fails
<1>2. CASE /\ Works /\ PutArchive(IF fresh THEN Zeros ELSE Valid(Append(Prefix, Gap)))
           /\ pc' = "copy" /\ UNCHANGED <<handle, num, ok>>
  <2> DEFINE f == IF fresh THEN Zeros ELSE Valid(Append(Prefix, Gap))
  <2>1. ASSUME linked PROVE f \in File /\ FileOK(f) /\ size <= Len(f.body)
    <3>1. Prefix \in Seq(Nat) /\ Len(Prefix) = size /\ size \in Nat
      BY <1>0, <2>1, TypedBodies
    <3>2. CASE fresh
      <4>1. size = 0
        BY <1>0, <2>1, <3>2 DEF TypesInv, LengthInv
      <4>2. f \in File /\ FileOK(f) /\ f.body = <<>>
        BY <3>2, NewFiles
      <4> HIDE DEF f
      <4>3. QED
        BY <4>1, <4>2
    <3>3. CASE ~fresh
      <4>1. Append(Prefix, Gap) \in Seq(Nat) /\ Len(Append(Prefix, Gap)) = size + 1
        BY <3>1, GapBehind
      <4>2. f = Valid(Append(Prefix, Gap))
        BY <3>3
      <4> HIDE DEF f
      <4>3. f \in File /\ FileOK(f) /\ f.body = Append(Prefix, Gap)
        BY <4>1, <4>2, ValidFile
      <4>4. QED
        BY <3>1, <4>1, <4>3
    <3>4. QED
      BY <3>2, <3>3
  <2>2. PutArchive(f)
    BY <1>2
  <2> HIDE DEF f
  <2>3. ok' \in BOOLEAN
    BY <1>2 DEF TypesInv, TypeOK, CacheTypeOK
  <2>4. QED
    BY <1>0, <1>2, <2>1, <2>2, <2>3, TypedWrite
<1>3. QED
  BY <1>1, <1>2 DEF AppendGrow

LEMMA TypedUnmapped ==
  ASSUME TypesInv, AppendUnmapped
  PROVE  TypesInv'
<1>0. /\ pc = "grow" /\ pc' = "flushed" /\ ok' = FALSE /\ handle' = "closed" /\ num' = 0
      /\ UNCHANGED <<cache, loaded, job, next, acked, failures, crashes>>
      /\ UNCHANGED <<day, cacheDay, target, fresh, size, linked, suspects, wrote>>
  BY DEF AppendUnmapped, AbortAppend, Return
<1>1. Works
  BY <1>0 DEF Works
<1>2. CASE archive' = archive
  BY <1>0, <1>1, <1>2, TypedReturn
<1>3. ASSUME NEW f, linked => f \in File /\ FileOK(f), PutArchive(f)
      PROVE  TypesInv'
  BY <1>0, <1>1, <1>3, TypedWrite
<1>4. CASE ~linked
  BY <1>0, <1>2, <1>4, UnmappedKinds DEF PutArchive
<1>5. CASE linked /\ ~Cutting /\ archive' # archive
  <2>1. PutArchive(Valid(Append(Prefix, Gap)))
    BY <1>5, UnmappedKinds
  <2>2. Append(Prefix, Gap) \in Seq(Nat)
    BY <1>0, <1>5, TypedBodies, GapBehind
  <2>3. QED
    BY <1>3, <2>1, <2>2, ValidFile
<1>6. CASE linked /\ Cutting
  <2>1. PICK f \in Zeroed : PutArchive(f)
    BY <1>6, UnmappedKinds
  <2>2. size \in Nat /\ Disk.body \in Seq(Nat) /\ Len(Disk.body) \in Nat /\ size <= Len(Disk.body)
    BY <1>0, <1>6, TypedBodies DEF TypesInv, LengthInv
  <2>3. f \in File /\ FileOK(f)
    <3>1. CASE size = 0
      BY <2>1, <3>1, NewFiles DEF Zeroed
    <3>2. CASE size # 0
      <4>1. PICK k \in {size - 1, size} : f = Valid(Append(SubSeq(Disk.body, 1, k), Gap))
        BY <2>1, <3>2 DEF Zeroed
      <4>2. k \in 0 .. Len(Disk.body)
        BY <2>2, <3>2, <4>1
      <4>3. SubSeq(Disk.body, 1, k) \in Seq(Nat)
        BY <2>2, <4>2, LogsOfCut
      <4>4. Append(SubSeq(Disk.body, 1, k), Gap) \in Seq(Nat)
        BY <4>3, GapBehind
      <4>5. QED
        BY <4>1, <4>4, ValidFile
    <3>3. QED
      BY <3>1, <3>2
  <2>4. QED
    BY <1>3, <2>1, <2>3
<1>7. QED
  BY <1>2, <1>4, <1>5, <1>6

LEMMA TypedCopy ==
  ASSUME TypesInv, AppendCopy
  PROVE  TypesInv'
<1>0. /\ pc = "copy" /\ UNCHANGED <<cache, loaded, job, next, acked, crashes>>
      /\ UNCHANGED <<day, cacheDay, target, fresh, size, linked, suspects, wrote>>
  BY DEF AppendCopy
<1>1. CASE (Fails("fill archive") \/ Fails("map archive")) /\ AbortAppend /\ UNCHANGED archive
  BY <1>0, <1>1, TypedReturn DEF AbortAppend, Return, Fails
<1>2. ASSUME NEW pad \in {<<>>, <<Gap>>},
             Works, PutArchive(Valid(Prefix \o (cache.body \o pad))),
             pc' = "shrink", UNCHANGED <<handle, num, ok>>
      PROVE  TypesInv'
  <2> DEFINE c == cache.body \o pad
             b == Prefix \o c
  <2>1. cache.body \in Seq(Nat) /\ pad \in Seq(Nat) /\ Len(cache.body) \in Nat /\ size \in Nat
    BY TypedBodies, NoRecords
  <2>2. c \in Seq(Nat) /\ Len(c) = Len(cache.body) + Len(pad) /\ Len(pad) \in Nat
    BY <2>1, ConcatProperties, LenProperties
  <2> HIDE DEF c
  <2>3. ASSUME linked
        PROVE  b \in Seq(Nat) /\ size <= Len(b) /\ size + Len(cache.body) <= Len(b)
    <3>1. Prefix \in Seq(Nat) /\ Len(Prefix) = size
      BY <1>0, <2>3, TypedBodies
    <3>2. b \in Seq(Nat) /\ Len(b) = size + Len(c)
      BY <2>2, <3>1, ConcatProperties
    <3> HIDE DEF b
    <3>3. QED
      BY <2>1, <2>2, <3>2
  <2>4. PutArchive(Valid(b))
    BY <1>2 DEF c
  <2> HIDE DEF b
  <2>5. linked => Valid(b) \in File /\ FileOK(Valid(b)) /\ Valid(b).body = b
    BY <2>3, ValidFile
  <2>6. ok' \in BOOLEAN
    BY <1>2 DEF TypesInv, TypeOK, CacheTypeOK
  <2>7. QED
    BY <1>0, <1>2, <2>3, <2>4, <2>5, <2>6, TypedWrite
<1>3. QED
  BY <1>1, <1>2 DEF AppendCopy

LEMMA TypedShrink ==
  ASSUME TypesInv, AppendShrink
  PROVE  TypesInv'
<1>0. /\ pc = "shrink" /\ UNCHANGED <<cache, loaded, job, next, acked, crashes>>
      /\ UNCHANGED <<day, cacheDay, target, fresh, size, linked, suspects, wrote>>
  BY DEF AppendShrink
<1>1. CASE Fails("size archive") /\ AbortAppend /\ UNCHANGED archive
  BY <1>0, <1>1, TypedReturn DEF AbortAppend, Return, Fails
<1>2. CASE /\ Works /\ PutArchive(Valid(SubSeq(Disk.body, 1, size + Len(cache.body))))
           /\ handle' = "closed" /\ num' = 0 /\ pc' = "unlink" /\ UNCHANGED ok
  <2> DEFINE b == SubSeq(Disk.body, 1, size + Len(cache.body))
  <2>1. linked => b \in Seq(Nat)
    <3> SUFFICES ASSUME linked PROVE b \in Seq(Nat)
      OBVIOUS
    <3>1. /\ size \in Nat /\ Len(cache.body) \in Nat /\ Disk.body \in Seq(Nat)
          /\ Len(Disk.body) \in Nat
      BY TypedBodies
    <3>2. size + Len(cache.body) <= Len(Disk.body)
      BY <1>0 DEF TypesInv, LengthInv
    <3>3. size + Len(cache.body) \in 0 .. Len(Disk.body)
      BY <3>1, <3>2
    <3>4. QED
      BY <3>1, <3>3, LogsOfCut
  <2>2. PutArchive(Valid(b))
    BY <1>2
  <2> HIDE DEF b
  <2>3. linked => Valid(b) \in File /\ FileOK(Valid(b))
    BY <2>1, ValidFile
  <2>4. ok' \in BOOLEAN
    BY <1>2 DEF TypesInv, TypeOK, CacheTypeOK
  <2>5. QED
    BY <1>0, <1>2, <2>2, <2>3, <2>4, TypedWrite
<1>3. QED
  BY <1>1, <1>2 DEF AppendShrink

LEMMA TypedUnlink ==
  ASSUME TypesInv, AppendUnlink
  PROVE  TypesInv'
<1>1. Works \/ \E call \in FailingCalls : Fails(call)
  BY DEF AppendUnlink, Fails
<1>2. ok' = ok \/ ok' = FALSE
  BY DEF AppendUnlink, Return
<1>3. ok' \in BOOLEAN
  BY <1>2, Zenon DEF TypesInv, TypeOK, CacheTypeOK
<1>4. QED
  BY <1>1, <1>3, TypedReturn DEF AppendUnlink, Return, dayVars

LEMMA TypedCrash ==
  ASSUME TypesInv, CrashAppending
  PROVE  TypesInv'
<1>0. /\ cache' \in CrashedCache /\ crashes' = crashes + 1 /\ crashes < MaxCrashes
      /\ UNCHANGED <<job, ok, next, acked, failures>>
      /\ UNCHANGED <<day, cacheDay, target, fresh, size, wrote>>
      /\ handle' = "closed" /\ loaded' = FALSE /\ num' = 0 /\ pc' = "down"
      /\ linked' = FALSE /\ suspects' = {}
      /\ archive' \in CrashedArchive
  BY DEF CrashAppending, Crash
<1>1. cache' \in File /\ FileOK(cache')
  BY <1>0, CrashKeeps, TypedRecord DEF TypesInv, TypeOK, FilesInv
<1>2. crashes' \in 0 .. MaxCrashes
  BY <1>0, CacheFileAssumption DEF TypesInv, TypeOK, CacheTypeOK
<1>3. archive' \in [Days -> File] /\ \A d \in Days : FileOK(archive'[d])
  <2>0. archive \in [Days -> File] /\ target \in Days /\ \A d \in Days : FileOK(archive[d])
    BY TypedBodies DEF TypesInv, FilesInv
  <2>1. CASE archive' = archive
    BY <2>0, <2>1
  <2>2. CASE archive' # archive
    <3>1. /\ pc = "copy" /\ linked
          /\ \E f \in {Disk} \cup {Valid(Prefix \o Append(SubSeq(cache.body, 1, k), Gap)) :
                                    k \in 0 .. Len(cache.body)} :
               archive' = [archive EXCEPT ![target] = f]
      BY <1>0, <2>2 DEF CrashedArchive
    <3>2. PICK f \in {Disk} \cup {Valid(Prefix \o Append(SubSeq(cache.body, 1, k), Gap)) :
                                   k \in 0 .. Len(cache.body)} :
            archive' = [archive EXCEPT ![target] = f]
      BY <3>1
    <3>3. f \in File /\ FileOK(f)
      <4>1. CASE f = Disk
        BY <4>1, TypedBodies
      <4>2. ASSUME NEW k \in 0 .. Len(cache.body),
                   f = Valid(Prefix \o Append(SubSeq(cache.body, 1, k), Gap))
            PROVE  f \in File /\ FileOK(f)
        <5> DEFINE e == Append(SubSeq(cache.body, 1, k), Gap)
        <5>1. Prefix \in Seq(Nat) /\ cache.body \in Seq(Nat)
          BY <3>1, TypedBodies
        <5>2. e \in Seq(Nat)
          BY <5>1, LogsOfCut, GapBehind
        <5>3. f = Valid(Prefix \o e)
          BY <4>2
        <5> HIDE DEF e
        <5>4. Prefix \o e \in Seq(Nat)
          BY <5>1, <5>2, ConcatProperties
        <5>5. QED
          BY <5>3, <5>4, ValidFile
      <4>3. QED
        BY <4>1, <4>2
    <3>4. /\ archive' \in [Days -> File]
          /\ \A d \in Days : archive'[d] = IF d = target THEN f ELSE archive[d]
      BY <2>0, <3>2, <3>3
    <3>5. QED
      BY <2>0, <3>3, <3>4
  <2>3. QED
    BY <2>1, <2>2
<1>4. CacheTypeOK'
  BY <1>0, <1>1, <1>2 DEF TypesInv, TypeOK, CacheTypeOK
<1>5. TypeOK'
  BY <1>0, <1>3, <1>4 DEF TypesInv, TypeOK
<1>6. FilesInv' /\ CallInv' /\ LengthInv'
  BY <1>0, <1>1, <1>3 DEF FilesInv, CallInv, Pending, LengthInv
<1>7. QED
  BY <1>5, <1>6 DEF TypesInv

\* A reader that removes the file appendLogFile has open leaves it without a name.
LEMMA TypedReader ==
  ASSUME TypesInv, NEW d \in Days, ReaderDislikes(d) \/ ReaderRemoves(d)
  PROVE  TypesInv'
<1>0. /\ UNCHANGED <<cache, handle, loaded, num, pc, job, ok, next, acked, failures, crashes>>
      /\ UNCHANGED <<day, cacheDay, target, fresh, size, wrote>>
      /\ suspects' \subseteq suspects \cup {d}
      /\ \/ archive' = archive /\ linked' = linked
         \/ archive' = [archive EXCEPT ![d] = Absent] /\ linked' = (linked /\ d # target)
  BY DEF ReaderDislikes, ReaderRemoves
<1>1. archive \in [Days -> File] /\ target \in Days /\ \A e \in Days : FileOK(archive[e])
  BY TypedBodies DEF TypesInv, FilesInv
<1>2. /\ archive' \in [Days -> File] /\ \A e \in Days : FileOK(archive'[e])
      /\ linked' => linked /\ Disk' = Disk
      /\ linked' \in BOOLEAN
  <2>1. CASE archive' = archive /\ linked' = linked
    BY <1>0, <1>1, <2>1 DEF Disk, TypesInv, TypeOK
  <2>2. CASE archive' = [archive EXCEPT ![d] = Absent] /\ linked' = (linked /\ d # target)
    <3>1. Absent \in File /\ FileOK(Absent)
      BY NewFiles
    <3>2. /\ archive' \in [Days -> File]
          /\ \A e \in Days : archive'[e] = IF e = d THEN Absent ELSE archive[e]
      BY <1>1, <2>2, <3>1
    <3>3. linked' => Disk' = Disk
      BY <1>0, <1>1, <2>2, <3>2 DEF Disk
    <3>4. QED
      BY <1>1, <2>2, <3>1, <3>2, <3>3
  <2>3. QED
    BY <1>0, <2>1, <2>2
<1>3. TypeOK'
  BY <1>0, <1>2 DEF TypesInv, TypeOK, CacheTypeOK
<1>4. FilesInv' /\ CallInv'
  BY <1>0, <1>2 DEF TypesInv, FilesInv, CallInv, Pending
<1>5. LengthInv'
  BY <1>0, <1>2 DEF TypesInv, LengthInv
<1>6. QED
  BY <1>3, <1>4, <1>5 DEF TypesInv

LEMMA TypedStep ==
  ASSUME TypesInv, [Next]_vars
  PROVE  TypesInv'
<1>1. \/ QuietStep \/ Load \/ (StoreRecord /\ PutRecord) \/ AppendLogFile \/ CrashAppending
      \/ \E d \in Days : ReaderDislikes(d) \/ ReaderRemoves(d)
  <2>1. CASE StoreRecord /\ ~PutRecord
    <3>1. (WriteRefused \/ CheckSpace \/ PutToNull) /\ cache' = cache
      BY <2>1 DEF StoreRecord, WriteRefused, CheckSpace, PutToNull
    <3>2. QED
      BY <2>1, <3>1 DEF StoreRecord, QuietStep, dayVars
  <2>2. QED
    BY <2>1 DEF Next, QuietStep
<1>2. CASE AppendLogFile
  <2>1. AppendHeader \/ AppendNothing => QuietStep
    BY DEF QuietStep
  <2>2. QED
    BY <1>2, <2>1, TypedQuiet, TypedOpen, TypedGrow, TypedUnmapped, TypedCopy, TypedShrink,
       TypedUnlink DEF AppendLogFile
<1>3. QED
  BY <1>1, <1>2, TypedQuiet, TypedLoad, TypedPut, TypedCrash, TypedReader

\* The values of the variables, with failures of every kind, crashes, and readers that delete
\* archives while they are written.
THEOREM IncrementalTypes == Spec => []TypeOK
<1>1. Init => TypesInv
  BY InitIInv DEF IInv, TypesInv, LengthInv, Init
<1>2. TypesInv /\ [Next]_vars => TypesInv'
  BY TypedStep
<1>3. TypesInv => TypeOK
  BY DEF TypesInv
<1>4. QED
  BY <1>1, <1>2, <1>3, PTL DEF Spec

-----------------------------------------------------------------------------
(* What the control of appendLogFile and of the load guarantees, beyond    *)
(* what durability needs: a cache that is not mapped holds no counted log  *)
(* and is appended to no archive but that of its own day, one that is      *)
(* closed gets no record, and one that is open and unmapped ends the       *)
(* process that writes into it;                                            *)
(* and the copy under the archive's name is exactly what it should be.     *)

ControlInv ==
  /\ handle # "mapped" => num = 0
  /\ pc = "map" => num = 0
  /\ pc = "put" => handle # "closed"
  /\ pc \in {"copy", "shrink"} => handle = "mapped"
  /\ job = "start" => pc \in {"open", "map", "loaded", "down"} /\ ~loaded
  /\ pc = "open" /\ job # "start" => cache.kind = "absent"
  /\ pc = "map" /\ job # "start" => cache.kind = "empty"
  /\ pc \in {"loaded", "flushed"} /\ ok => handle = "mapped"
  /\ pc \in {"append", "header", "grow"} => handle = "mapped" \/ target = cacheDay
  /\ pc = "segv" => handle = "null"

Copied == Prefix \o cache.body
CopyInv == /\ Copying => size <= Len(Disk.body)
           /\ pc = "copy" => Disk.body \in {Prefix, Append(Prefix, Gap)}
           /\ pc = "shrink" => Disk.body \in {Copied, Copied \o <<Gap>>}
           /\ pc = "unlink" => Disk.body = Copied

\* The steps of the writer on the cache and its counters, with all they do to the control.
LEMMA ControlStep ==
  ASSUME ~Readers, IInv, ControlInv, [Next]_vars
  PROVE  ControlInv'
<1>1. CASE QuietStep
  <2> USE DEF ControlInv, IInv, TypeOK, CacheTypeOK, CallInv
  <2>1. CASE Start /\ UNCHANGED dayVars
    BY <2>1 DEF Start, dayVars
  <2>2. CASE Write
    BY <2>2 DEF Write, WriteCall
  <2>3. CASE CheckDay
    BY <2>3 DEF CheckDay, Return
  <2>4. CASE (WriteRefused \/ CheckSpace \/ PutToNull) /\ UNCHANGED dayVars
    BY <2>4 DEF WriteRefused, CheckSpace, PutToNull, dayVars
  <2>5. CASE (FlushCall \/ FlushNothing) /\ UNCHANGED dayVars
    BY <2>5 DEF FlushCall, FlushNothing, Return, dayVars
  <2>6. CASE FlushToday
    BY <2>6 DEF FlushToday
  <2>7. CASE AppendHeader \/ AppendNothing
    BY <2>7 DEF AppendHeader, AppendNothing, AbortAppend, Return, dayVars
  <2>8. CASE AfterLoad
    BY <2>8 DEF AfterLoad, dayVars
  <2>9. CASE AfterFlush
    BY <2>9 DEF AfterFlush, dayVars
  <2>10. CASE NextDay \/ UNCHANGED vars
    BY <2>10 DEF NextDay, vars
  <2>11. QED
    BY <1>1, <2>1, <2>2, <2>3, <2>4, <2>5, <2>6, <2>7, <2>8, <2>9, <2>10 DEF QuietStep
<1>2. CASE Load
  BY <1>2 DEF ControlInv, IInv, TypeOK, CacheTypeOK, Load, LoadOpen, LoadDiscard, LoadMap,
       LoadFails, Absent, Empty, Valid, Zeros
<1>3. CASE StoreRecord /\ PutRecord
  BY <1>3 DEF ControlInv, StoreRecord, PutRecord
<1>4. CASE AppendLogFile
  <2> USE DEF ControlInv, Return
  <2>1. CASE AppendOpen
    BY <2>1 DEF AppendOpen
  <2>2. CASE AppendHeader \/ AppendNothing
    BY <2>2 DEF AppendHeader, AppendNothing, AbortAppend, dayVars
  <2>3. CASE AppendDiscard
    BY <2>3 DEF AppendDiscard, AbortAppend
  <2>4. CASE AppendGrow
    BY <2>4 DEF AppendGrow, AbortAppend
  <2>5. CASE AppendUnmapped \/ AppendCopy
    BY <2>5 DEF AppendUnmapped, AppendCopy, AbortAppend
  <2>6. CASE AppendShrink
    BY <2>6 DEF AppendShrink, AbortAppend
  <2>7. CASE AppendUnlink
    BY <2>7 DEF AppendUnlink, dayVars, Absent
  <2>8. QED
    BY <1>4, <2>1, <2>2, <2>3, <2>4, <2>5, <2>6, <2>7 DEF AppendLogFile
<1>5. CASE CrashAppending
  BY <1>5 DEF ControlInv, CrashAppending, Crash
<1>6. QED
  BY <1>1, <1>2, <1>3, <1>4, <1>5, StepCases

\* What is to stay in each archive whatever comes of the append under way.
Kept == [d \in Days |-> IF Copying /\ d = target THEN Prefix ELSE archive[d].body]

LEMMA KeptBodies ==
  ASSUME IInv, CopyInv
  PROVE  /\ Copying => Prefix \in Seq(Nat) /\ Len(Prefix) = size /\ Copied \in Seq(Nat)
         /\ \A d \in Days : Kept[d] \in Seq(Nat)
<1>1. ASSUME Copying PROVE Prefix \in Seq(Nat) /\ Len(Prefix) = size /\ Copied \in Seq(Nat)
  <2>1. /\ Disk.body \in Seq(Nat) /\ cache.body \in Seq(Nat)
        /\ size \in 0 .. Len(Disk.body)
    BY <1>1, Bodies, LenProperties DEF CopyInv
  <2>2. Prefix \in Seq(Nat) /\ Len(Prefix) = size
    BY <2>1, LogsOfCut DEF Prefix
  <2>3. QED
    BY <2>1, <2>2, LogsOfConcat DEF Copied
<1>2. \A d \in Days : archive[d].body \in Seq(Nat)
  BY DEF IInv, TypeOK, File
<1>3. QED
  BY <1>1, <1>2 DEF Kept

LEMMA OutsideCopy ==
  ASSUME ~Copying, ~Copying', \A d \in Days : archive'[d].body = archive[d].body
  PROVE  Kept' = Kept /\ CopyInv'
BY DEF Kept, Copying, CopyInv

\* A step of the copy puts a file under the archive's name that starts with what is to stay.
LEMMA InsideCopy ==
  ASSUME IInv, CopyInv, Copying \/ pc = "grow", Copying', NEW f, target' = target, size' = size,
         archive' = [archive EXCEPT ![target] = f], SubSeq(f.body, 1, size) = Prefix
  PROVE  Kept' = Kept /\ Disk' = f /\ Prefix' = Prefix
<1>1. target \in Days /\ archive \in [Days -> File]
  BY DEF IInv, TypeOK
<1>2. \A d \in Days : archive'[d] = IF d = target THEN f ELSE archive[d]
  BY <1>1
<1>3. Disk' = f /\ Prefix' = Prefix
  BY <1>1, <1>2 DEF Disk, Prefix
<1>4. ~Copying => Prefix = archive[target].body
  BY Bodies DEF Copying, Disk
<1>5. QED
  BY <1>2, <1>3, <1>4 DEF Kept

LEMMA QuietKept ==
  ASSUME IInv, CopyInv, QuietStep
  PROVE  Kept' = Kept /\ CopyInv'
<1>1. cache' = cache /\ archive' = archive
  BY QuietFrame
<1>2. (~Copying /\ ~Copying') \/ (pc' = pc /\ target' = target /\ size' = size)
  BY DEF Copying, QuietStep, Start, Write, WriteCall, CheckDay, WriteRefused, CheckSpace, PutToNull,
         FlushCall, FlushNothing, FlushToday, AppendHeader, AppendNothing, AfterLoad, AfterFlush,
         NextDay, AbortAppend, Return, dayVars, vars
<1>3. CASE ~Copying /\ ~Copying'
  BY <1>1, <1>3, OutsideCopy
<1>4. CASE pc' = pc /\ target' = target /\ size' = size
  BY <1>1, <1>4 DEF Kept, Copying, CopyInv, Copied, Prefix, Disk
<1>5. QED
  BY <1>2, <1>3, <1>4

\* The steps of the append before the copy, and those of the copy that succeed.
LEMMA OpenKept ==
  ASSUME IInv, CopyInv, AppendOpen \/ AppendDiscard
  PROVE  Kept' = Kept /\ CopyInv'
<1>1. target \in Days /\ archive \in [Days -> File] /\ FileOK(Disk)
  BY Bodies DEF IInv, TypeOK
<1>2. \/ archive' = archive
      \/ archive' = [archive EXCEPT ![target] = Empty] /\ Disk.kind = "absent"
      \/ archive' = [archive EXCEPT ![target] = Absent] /\ Disk.kind = "zeros"
  BY DEF AppendOpen, AppendDiscard
<1>3. \A d \in Days : archive'[d].body = archive[d].body
  BY <1>1, <1>2, NewFiles DEF Disk, FileOK
<1>4. ~Copying /\ ~Copying'
  BY DEF AppendOpen, AppendDiscard, AbortAppend, Return, Copying
<1>5. QED
  BY <1>3, <1>4, OutsideCopy

LEMMA GrowKept ==
  ASSUME IInv, CopyInv, AppendGrow
  PROVE  Kept' = Kept /\ CopyInv'
<1>1. CASE UNCHANGED archive /\ AbortAppend
  BY <1>1, OutsideCopy DEF AppendGrow, AbortAppend, Return, Copying
<1>2. CASE PutArchive(IF fresh THEN Zeros ELSE Valid(Append(Prefix, Gap))) /\ pc' = "copy"
  <2> DEFINE f == IF fresh THEN Zeros ELSE Valid(Append(Prefix, Gap))
  <2>1. /\ pc = "grow" /\ linked /\ Prefix = Disk.body /\ Disk.body \in Seq(Nat)
        /\ size = Len(Disk.body) /\ UNCHANGED <<target, size>>
        /\ fresh => Disk.body = <<>>
    BY Bodies DEF AppendGrow, IInv, ReaderInv, AppendInv, FileOK
  <2>2. f.body \in {Prefix, Append(Prefix, Gap)}
    BY <2>1, NewFiles DEF Valid
  <2>3. SubSeq(f.body, 1, size) = Prefix /\ size <= Len(f.body)
    <3>1. /\ Len(Append(Disk.body, Gap)) = Len(Disk.body) + 1 /\ Len(Disk.body) \in Nat
          /\ SubSeq(Append(Disk.body, Gap), 1, Len(Disk.body)) = Disk.body
          /\ SubSeq(Disk.body, 1, Len(Disk.body)) = Disk.body
      BY <2>1, GapBehind, SubSeqFull, LenProperties
    <3> HIDE DEF f
    <3>2. CASE f.body = Prefix
      BY <2>1, <3>1, <3>2
    <3>3. CASE f.body = Append(Prefix, Gap)
      <4>1. f.body = Append(Disk.body, Gap)
        BY <2>1, <3>3
      <4>2. Len(f.body) = size + 1 /\ size \in Nat /\ SubSeq(f.body, 1, size) = Disk.body
        BY <2>1, <3>1, <4>1
      <4>3. QED
        BY <2>1, <4>2
    <3>4. QED
      BY <2>2, <3>2, <3>3
  <2>4. archive' = [archive EXCEPT ![target] = f]
    BY <1>2, <2>1 DEF PutArchive
  <2> HIDE DEF f
  <2>5. Kept' = Kept /\ Disk' = f /\ Prefix' = Prefix
    BY <1>2, <2>1, <2>3, <2>4, InsideCopy DEF Copying
  <2>6. CopyInv'
    BY <1>2, <2>1, <2>2, <2>3, <2>5 DEF CopyInv, Copying
  <2>7. QED
    BY <2>5, <2>6
<1>3. QED
  BY <1>1, <1>2 DEF AppendGrow

LEMMA CopyKept ==
  ASSUME IInv, CopyInv, AppendCopy, pc' = "shrink"
  PROVE  Kept' = Kept /\ CopyInv'
<1>1. /\ pc = "copy" /\ linked /\ UNCHANGED <<target, size, cache>>
      /\ \E pad \in {<<>>, <<Gap>>} : PutArchive(Valid(Prefix \o (cache.body \o pad)))
  BY DEF AppendCopy, AbortAppend, Return, IInv, ReaderInv
<1>2. PICK pad \in {<<>>, <<Gap>>} : PutArchive(Valid(Prefix \o (cache.body \o pad)))
  BY <1>1
<1>3. /\ Prefix \in Seq(Nat) /\ Len(Prefix) = size /\ cache.body \in Seq(Nat) /\ pad \in Seq(Nat)
      /\ Copied \in Seq(Nat) /\ size \in Nat
  BY <1>1, KeptBodies, Bodies, NoRecords DEF Copying
<1> DEFINE b == Prefix \o (cache.body \o pad)
<1>4. b = Copied \o pad
  BY <1>3, ThreeParts, Zenon DEF Copied
<1>5. Copied \o <<>> = Copied
  BY <1>3, ConcatEmptySeq
<1>6. SubSeq(b, 1, size) = Prefix /\ size <= Len(b)
  <2>1. cache.body \o pad \in Seq(Nat)
    BY <1>3, ConcatProperties
  <2>2. SubSeq(b, 1, Len(Prefix)) = Prefix
    BY <1>3, <2>1, CutConcat
  <2>3. Len(b) = Len(Prefix) + Len(cache.body \o pad) /\ Len(cache.body \o pad) \in Nat
    BY <1>3, <2>1, ConcatProperties, LenProperties
  <2> HIDE DEF b
  <2>4. QED
    BY <1>3, <2>2, <2>3
<1> HIDE DEF b
<1>7. archive' = [archive EXCEPT ![target] = Valid(b)] /\ Valid(b).body = b
  BY <1>1, <1>2 DEF PutArchive, b, Valid
<1>8. Kept' = Kept /\ Disk' = Valid(b) /\ Prefix' = Prefix
  BY <1>1, <1>6, <1>7, InsideCopy DEF Copying
<1>9. Copied' = Copied
  BY <1>1, <1>8 DEF Copied
<1>10. Disk'.body \in {Copied, Copied \o <<Gap>>}
  BY <1>4, <1>5, <1>7, <1>8
<1>11. CopyInv'
  BY <1>1, <1>6, <1>7, <1>8, <1>9, <1>10 DEF CopyInv
<1>12. QED
  BY <1>8, <1>11

LEMMA ShrinkKept ==
  ASSUME IInv, CopyInv, AppendShrink, pc' = "unlink"
  PROVE  Kept' = Kept /\ CopyInv'
<1>1. /\ pc = "shrink" /\ linked /\ UNCHANGED <<target, size, cache>>
      /\ PutArchive(Valid(SubSeq(Disk.body, 1, size + Len(cache.body))))
      /\ SubSeq(Disk.body, 1, size + Len(cache.body)) = Copied
  BY DEF AppendShrink, AbortAppend, Return, IInv, ReaderInv, AppendInv, Copied
<1>2. /\ Prefix \in Seq(Nat) /\ Len(Prefix) = size /\ cache.body \in Seq(Nat)
      /\ Copied \in Seq(Nat) /\ size \in Nat
  BY <1>1, KeptBodies, Bodies DEF Copying
<1>3. SubSeq(Copied, 1, size) = Prefix
  BY <1>2, CutConcat DEF Copied
<1>4. size <= Len(Copied)
  <2>1. Len(Copied) = Len(Prefix) + Len(cache.body) /\ Len(cache.body) \in Nat
    BY <1>2, ConcatProperties, LenProperties DEF Copied
  <2>2. QED
    BY <1>2, <2>1
<1>5. archive' = [archive EXCEPT ![target] = Valid(Copied)] /\ Valid(Copied).body = Copied
  BY <1>1 DEF PutArchive, Valid
<1>6. Kept' = Kept /\ Disk' = Valid(Copied) /\ Prefix' = Prefix
  BY <1>1, <1>3, <1>5, InsideCopy DEF Copying
<1>7. Copied' = Copied
  BY <1>1, <1>6 DEF Copied
<1>8. QED
  BY <1>1, <1>4, <1>5, <1>6, <1>7 DEF CopyInv

\* The copy is what it should be at each step, however the append ends.
LEMMA CopyStep ==
  ASSUME ~Readers, IInv, CopyInv, [Next]_vars
  PROVE  CopyInv'
<1>1. ~Copying' => CopyInv'
  BY DEF Copying, CopyInv
<1>2. CASE QuietStep
  BY <1>2, QuietKept
<1>3. CASE Load \/ (StoreRecord /\ PutRecord) \/ CrashAppending
  <2>1. ~Copying'
    BY <1>3 DEF Load, LoadOpen, LoadDiscard, LoadMap, LoadFails, PutRecord, CrashAppending, Crash, Copying
  <2>2. QED
    BY <1>1, <2>1
<1>4. CASE AppendLogFile
  <2>1. AppendHeader \/ AppendNothing => QuietStep
    BY DEF QuietStep
  <2>2. AppendUnmapped \/ AppendUnlink => ~Copying'
    BY DEF AppendUnmapped, AppendUnlink, AbortAppend, Return, Copying
  <2>3. AppendCopy => pc' = "shrink" \/ ~Copying'
    BY DEF AppendCopy, AbortAppend, Return, Copying
  <2>4. AppendShrink => pc' = "unlink" \/ ~Copying'
    BY DEF AppendShrink, AbortAppend, Return, Copying
  <2>5. QED
    BY <1>1, <1>2, <1>4, <2>1, <2>2, <2>3, <2>4, OpenKept, GrowKept, CopyKept, ShrinkKept
       DEF AppendLogFile
<1>5. QED
  BY <1>2, <1>3, <1>4, StepCases

LEMMA CopyInvariance ==
  ASSUME ~Readers
  PROVE  Spec => [](IInv /\ ControlInv /\ CopyInv)
<1>1. Init => ControlInv /\ CopyInv
  BY DEF ControlInv, CopyInv, Copying, Init, CacheInit
<1>2. IInv /\ ControlInv /\ CopyInv /\ [Next]_vars => ControlInv' /\ CopyInv'
  BY ControlStep, CopyStep
<1>3. QED
  BY <1>1, <1>2, Invariance, PTL DEF Spec

-----------------------------------------------------------------------------
(* How many files are damaged.  A crash, or a failed call, leaves a gap in *)
(* the cache or in one archive.  One gap may be uncovered: a cache that is *)
(* not mapped is appended to the archive of its day again and again, each  *)
(* time leaving a gap at the end; but it is closed then, and nothing comes *)
(* to stand behind that gap until the process has died.                    *)

TornDays == {d \in Days : Torn(Kept[d])}
TornCache == IF Torn(cache.body) THEN 1 ELSE 0
Stuck == /\ handle = "closed"
         /\ pc \in {"idle", "day", "space", "flush", "flushed", "append", "header", "grow"}
Slack == IF Stuck /\ cacheDay \in TornDays /\ ~OutOfStep(Kept[cacheDay]) THEN 1 ELSE 0

DamageInv == Cardinality(TornDays) + TornCache <= crashes + failures + Slack

\* A step that counts a crash or a failed call.
Fault == \/ crashes' = crashes + 1 /\ failures' = failures
         \/ crashes' = crashes /\ failures' = failures + 1

LEMMA DamageCounts ==
  ASSUME IInv
  PROVE  /\ IsFiniteSet(TornDays) /\ Cardinality(TornDays) \in Nat
         /\ crashes \in Nat /\ failures \in Nat
         /\ TornCache \in {0, 1} /\ Slack \in {0, 1}
<1>1. IsFiniteSet(Days)
  BY IncrementalAssumption, FS_Interval DEF Days
<1>2. TornDays \subseteq Days
  BY DEF TornDays
<1>3. IsFiniteSet(TornDays) /\ Cardinality(TornDays) \in Nat
  BY <1>1, <1>2, FS_Subset, FS_CardinalityType
<1>4. TornCache \in {0, 1} /\ Slack \in {0, 1}
  BY DEF TornCache, Slack
<1>5. QED
  BY <1>3, <1>4 DEF IInv, TypeOK, CacheTypeOK

\* A gap behind a body puts no record out of step.
LEMMA GapAtEnd ==
  ASSUME NEW b \in Seq(Nat)
  PROVE  /\ OutOfStep(Append(b, Gap)) <=> OutOfStep(b)
         /\ OutOfStep(b) => Torn(b)
         /\ Torn(Append(b, Gap)) /\ SafeOf(Append(b, Gap)) = SafeOf(b)
<1> DEFINE a == Append(b, Gap)
<1>1. /\ a \in Seq(Nat) /\ Len(a) = Len(b) + 1
      /\ \A i \in 1 .. Len(b) : a[i] = b[i]
      /\ a[Len(b) + 1] = Gap
  BY AppendProperties DEF Gap
<1>2. Torn(a) /\ SafeOf(a) = SafeOf(b)
  BY SafeOfAppend DEF Gap
<1> HIDE DEF a
<1>3. Len(b) \in Nat /\ DOMAIN b = 1 .. Len(b) /\ DOMAIN a = 1 .. Len(b) + 1
  BY <1>1, LenProperties
<1>4. OutOfStep(b) => OutOfStep(a)
  BY <1>1, <1>3 DEF OutOfStep
<1>5. ASSUME OutOfStep(a) PROVE OutOfStep(b)
  <2>1. PICK i \in DOMAIN a, j \in DOMAIN a : i < j /\ a[i] = Gap /\ a[j] # Gap
    BY <1>5 DEF OutOfStep
  <2>2. i \in 1 .. Len(b) /\ j \in 1 .. Len(b)
    BY <1>1, <1>3, <2>1
  <2>3. QED
    BY <1>1, <1>3, <2>1, <2>2 DEF OutOfStep
<1>6. OutOfStep(b) => Torn(b)
  BY DEF OutOfStep, Torn
<1>7. QED
  BY <1>2, <1>4, <1>5, <1>6 DEF a

\* A stuck process gets on only by dying.
LEMMA StuckStays ==
  ASSUME ~Readers, IInv, ControlInv, [Next]_vars, ~CrashAppending, Stuck
  PROVE  Stuck' /\ cacheDay' = cacheDay
<1> USE DEF Stuck, ControlInv
<1>1. CASE QuietStep
  <2>1. CASE Start /\ UNCHANGED dayVars
    BY <2>1 DEF Start
  <2>2. CASE Write
    BY <2>2 DEF Write, WriteCall
  <2>3. CASE CheckDay
    BY <2>3 DEF CheckDay, Return
  <2>4. CASE (WriteRefused \/ CheckSpace \/ PutToNull) /\ UNCHANGED dayVars
    BY <2>4 DEF WriteRefused, CheckSpace, PutToNull, dayVars, IInv, TypeOK, CacheTypeOK
  <2>5. CASE (FlushCall \/ FlushNothing) /\ UNCHANGED dayVars
    BY <2>5 DEF FlushCall, FlushNothing, Return, dayVars
  <2>6. CASE FlushToday
    BY <2>6 DEF FlushToday
  <2>7. CASE AppendHeader \/ AppendNothing
    BY <2>7 DEF AppendHeader, AppendNothing, AbortAppend, Return, dayVars
  <2>8. CASE AfterLoad
    BY <2>8 DEF AfterLoad, dayVars
  <2>9. CASE AfterFlush
    BY <2>9 DEF AfterFlush, dayVars
  <2>10. CASE NextDay \/ UNCHANGED vars
    BY <2>10 DEF NextDay, vars
  <2>11. QED
    BY <1>1, <2>1, <2>2, <2>3, <2>4, <2>5, <2>6, <2>7, <2>8, <2>9, <2>10 DEF QuietStep
<1>2. CASE Load
  BY <1>2 DEF Load, LoadOpen, LoadDiscard, LoadMap, LoadFails
<1>3. CASE StoreRecord /\ PutRecord
  BY <1>3 DEF PutRecord
<1>4. CASE AppendLogFile
  <2>1. CASE AppendOpen
    BY <2>1 DEF AppendOpen, Return
  <2>2. CASE AppendHeader \/ AppendNothing
    BY <2>2 DEF AppendHeader, AppendNothing, AbortAppend, Return, dayVars
  <2>3. CASE AppendDiscard
    BY <2>3 DEF AppendDiscard, AbortAppend, Return
  <2>4. CASE AppendGrow
    BY <2>4 DEF AppendGrow, AbortAppend
  <2>5. CASE AppendUnmapped \/ AppendCopy
    BY <2>5 DEF AppendUnmapped, AppendCopy, AbortAppend, Return
  <2>6. CASE AppendShrink \/ AppendUnlink
    BY <2>6 DEF AppendShrink, AppendUnlink
  <2>7. QED
    BY <1>4, <2>1, <2>2, <2>3, <2>4, <2>5, <2>6 DEF AppendLogFile
<1>5. QED
  BY <1>1, <1>2, <1>3, <1>4, StepCases

\* Nothing that is kept changes, and no record is torn.
LEMMA SameDamage ==
  ASSUME IInv, DamageInv, IInv', Kept' = Kept, Torn(cache'.body) <=> Torn(cache.body),
         \/ crashes' = crashes /\ failures' = failures /\ (Stuck => Stuck' /\ cacheDay' = cacheDay)
         \/ Fault
  PROVE  DamageInv'
<1>1. TornDays' = TornDays /\ TornCache' = TornCache
  BY DEF TornDays, TornCache
<1>2. /\ Cardinality(TornDays) \in Nat /\ crashes \in Nat /\ failures \in Nat
      /\ TornCache \in {0, 1} /\ Slack \in {0, 1}
  BY DamageCounts
<1>3. Slack' \in {0, 1}
  BY DEF Slack
<1>4. CASE Fault
  BY <1>1, <1>2, <1>3, <1>4 DEF DamageInv, Fault
<1>5. CASE crashes' = crashes /\ failures' = failures /\ (Stuck => Stuck' /\ cacheDay' = cacheDay)
  <2>1. Slack <= Slack'
    BY <1>1, <1>5 DEF Slack
  <2>2. QED
    BY <1>1, <1>2, <1>3, <1>5, <2>1 DEF DamageInv
<1>6. QED
  BY <1>4, <1>5

\* A record, or a torn one, comes to stand behind the records of the cache.
LEMMA AppendDamage ==
  ASSUME IInv, DamageInv, NEW x \in {Gap, next}, pc = "put", handle = "mapped", ~Copying',
         archive' = archive, cache' = Valid(Append(cache.body, x)), failures' = failures,
         crashes' = crashes + 1 \/ (crashes' = crashes /\ x # Gap)
  PROVE  DamageInv'
<1>1. Torn(cache'.body) => Torn(cache.body) \/ x = Gap
  BY RecordRefines
<1>2. TornDays' = TornDays
  <2>1. Kept' = Kept
    BY OutsideCopy DEF Copying
  <2>2. QED
    BY <2>1 DEF TornDays
<1>3. TornCache' <= TornCache + (IF x = Gap THEN 1 ELSE 0) /\ TornCache' \in {0, 1}
  BY <1>1 DEF TornCache
<1>4. Slack = 0 /\ Slack' \in {0, 1}
  BY DEF Slack, Stuck
<1>5. /\ Cardinality(TornDays) \in Nat /\ crashes \in Nat /\ failures \in Nat
      /\ TornCache \in {0, 1}
  BY DamageCounts
<1>6. QED
  BY <1>2, <1>3, <1>4, <1>5 DEF DamageInv

\* A failure or a crash ends the copy: the archive may hold a gap from now on.
LEMMA FaultDamage ==
  ASSUME IInv, DamageInv, Copying, ~Copying', cache'.body = cache.body,
         \A d \in Days \ {target} : archive'[d] = archive[d],
         Fault
  PROVE  DamageInv'
<1>1. TornDays' \subseteq TornDays \cup {target}
  BY DEF TornDays, Kept
<1>2. /\ IsFiniteSet(TornDays) /\ crashes \in Nat /\ failures \in Nat /\ TornCache \in {0, 1}
  BY DamageCounts
<1>3. /\ Cardinality(TornDays) \in Nat /\ Cardinality(TornDays') \in Nat
      /\ Cardinality(TornDays') <= Cardinality(TornDays) + 1
  BY <1>1, <1>2, OneMore
<1>4. Slack = 0 /\ Slack' \in {0, 1}
  BY DEF Slack, Stuck, Copying
<1>5. TornCache' = TornCache
  BY DEF TornCache
<1>6. Cardinality(TornDays) + TornCache <= crashes + failures
  BY <1>2, <1>3, <1>4 DEF DamageInv
<1>7. CASE crashes' = crashes + 1 /\ failures' = failures
  BY <1>2, <1>3, <1>4, <1>5, <1>6, <1>7 DEF DamageInv
<1>8. CASE crashes' = crashes /\ failures' = failures + 1
  BY <1>2, <1>3, <1>4, <1>5, <1>6, <1>8 DEF DamageInv
<1>9. QED
  BY <1>7, <1>8 DEF Fault

\* A cache that is not mapped goes to the archive of its own day: that is the one gap
\* uncovered, if the archive was intact.
LEMMA UnmappedDamage ==
  ASSUME IInv, ControlInv, DamageInv, IInv', AppendUnmapped, ~Cutting
  PROVE  DamageInv'
<1>1. /\ pc = "grow" /\ handle # "mapped" /\ target = cacheDay
      /\ ~Copying /\ ~Copying' /\ Stuck'
      /\ UNCHANGED <<cache, crashes, failures, target, cacheDay>>
  BY DEF AppendUnmapped, AbortAppend, Return, Copying, Stuck, ControlInv
<1>2. UNCHANGED archive \/ PutArchive(Valid(Append(Prefix, Gap)))
  BY UnmappedKinds
<1>3. CASE archive' = archive
  <2>1. Kept' = Kept
    BY <1>1, <1>3 DEF Kept
  <2>2. QED
    BY <1>1, <2>1, SameDamage
<1>4. CASE PutArchive(Valid(Append(Prefix, Gap)))
  <2>1. linked /\ Prefix = Disk.body /\ Disk.body \in Seq(Nat) /\ target \in Days
    BY <1>1, Bodies DEF IInv, ReaderInv
  <2> DEFINE b == Append(Disk.body, Gap)
  <2>2. (OutOfStep(b) <=> OutOfStep(Disk.body)) /\ (OutOfStep(Disk.body) => Torn(Disk.body)) /\ Torn(b)
    BY <2>1, GapAtEnd
  <2> HIDE DEF b
  <2>3. archive' = [archive EXCEPT ![target] = Valid(b)] /\ Valid(b).body = b
    BY <1>4, <2>1 DEF PutArchive, b, Valid
  <2>4. /\ \A d \in Days \ {target} : archive'[d] = archive[d]
        /\ archive'[target].body = b /\ archive[target].body = Disk.body
    BY <2>1, <2>3 DEF IInv, TypeOK, Disk
  <2>5. /\ \A d \in Days \ {target} : Kept'[d] = Kept[d]
        /\ Kept'[target] = b /\ Kept[target] = Disk.body
    BY <1>1, <2>1, <2>4 DEF Kept
  <2>6. TornDays' = TornDays \cup {target}
    BY <2>1, <2>2, <2>5 DEF TornDays
  <2>7. /\ IsFiniteSet(TornDays) /\ crashes \in Nat /\ failures \in Nat
        /\ TornCache \in {0, 1} /\ Slack \in {0, 1}
    BY DamageCounts
  <2>8. Cardinality(TornDays) \in Nat /\ Cardinality(TornDays') \in Nat
        /\ Cardinality(TornDays') <= Cardinality(TornDays) + 1
    BY <2>6, <2>7, OneMore
  <2>9. TornCache' = TornCache
    BY <1>1 DEF TornCache
  <2>10. CASE target \in TornDays
    <3>1. TornDays' = TornDays
      BY <2>6, <2>10
    <3>2. Slack <= Slack' /\ Slack' \in {0, 1}
      BY <1>1, <2>2, <2>5, <3>1 DEF Slack
    <3>3. QED
      BY <1>1, <2>7, <2>8, <2>9, <3>1, <3>2 DEF DamageInv
  <2>11. CASE target \notin TornDays
    <3>1. Slack = 0
      BY <1>1, <2>11 DEF Slack
    <3>2. ~OutOfStep(b)
      BY <2>1, <2>2, <2>5, <2>11 DEF TornDays
    <3>3. Slack' = 1
      BY <1>1, <2>5, <2>6, <3>2 DEF Slack
    <3>4. QED
      BY <1>1, <2>7, <2>8, <2>9, <3>1, <3>3 DEF DamageInv
  <2>12. QED
    BY <2>10, <2>11
<1>5. QED
  BY <1>2, <1>3, <1>4

\* The gap of a torn cache comes with the cache into its archive, and goes with the cache.
LEMMA UnlinkDamage ==
  ASSUME IInv, CopyInv, DamageInv, AppendUnlink, pc' = "open"
  PROVE  DamageInv'
<1>0. /\ pc = "unlink" /\ Copying /\ ~Copying' /\ ~Stuck /\ ~Stuck'
      /\ cache' = Absent /\ UNCHANGED <<archive, target, crashes, failures>>
  BY DEF AppendUnlink, Return, Copying, Stuck, dayVars, Works
<1>1. /\ target \in Days /\ Prefix \in Seq(Nat) /\ cache.body \in Seq(Nat)
      /\ archive[target].body = Copied
  BY <1>0, KeptBodies, Bodies DEF CopyInv, Disk
<1>2. Torn(Copied) <=> Torn(Prefix) \/ Torn(cache.body)
  BY <1>1, SafeOfConcat DEF Copied
<1>3. TornCache' = 0
  BY <1>0, EmptyIsSafe DEF TornCache, Absent
<1>4. TornDays' \subseteq TornDays \cup {target} /\ (~Torn(cache.body) => TornDays' \subseteq TornDays)
  <2>1. \A d \in Days \ {target} : Kept'[d] = Kept[d]
    BY <1>0 DEF Kept
  <2>2. Kept[target] = Prefix /\ Kept'[target] = Copied
    BY <1>0, <1>1 DEF Kept
  <2>3. QED
    BY <1>2, <2>1, <2>2 DEF TornDays
<1>5. /\ IsFiniteSet(TornDays) /\ crashes \in Nat /\ failures \in Nat /\ TornCache \in {0, 1}
  BY DamageCounts
<1>6. /\ Cardinality(TornDays) \in Nat /\ Cardinality(TornDays') \in Nat
      /\ Cardinality(TornDays') <= Cardinality(TornDays) + 1
      /\ TornDays' \subseteq TornDays => Cardinality(TornDays') <= Cardinality(TornDays)
  BY <1>4, <1>5, OneMore
<1>7. Slack = 0 /\ Slack' = 0
  BY <1>0 DEF Slack
<1>8. Cardinality(TornDays') <= Cardinality(TornDays) + TornCache
  BY <1>4, <1>6 DEF TornCache
<1>9. QED
  BY <1>0, <1>3, <1>5, <1>6, <1>7, <1>8 DEF DamageInv

LEMMA CrashDamage ==
  ASSUME IInv, DamageInv, CrashAppending, IInv'
  PROVE  DamageInv'
<1>0. /\ cache' \in CrashedCache /\ crashes' = crashes + 1 /\ failures' = failures
      /\ target' = target /\ pc' = "down" /\ archive' \in CrashedArchive
  BY DEF CrashAppending, Crash
<1>1. ~Copying'
  BY <1>0 DEF Copying
<1>2. ASSUME NEW x \in {Gap, next}, pc = "put", handle = "mapped",
             cache' = Valid(Append(cache.body, x))
      PROVE  DamageInv'
  BY <1>0, <1>1, <1>2, AppendDamage DEF CrashedArchive
<1>3. CASE cache'.body = cache.body /\ ~Copying
  <2>1. archive' = archive
    BY <1>0, <1>3 DEF CrashedArchive, Copying
  <2>2. Kept' = Kept
    BY <1>1, <1>3, <2>1, OutsideCopy
  <2>3. QED
    BY <1>0, <1>3, <2>2, SameDamage DEF Fault
<1>4. CASE cache'.body = cache.body /\ Copying
  <2>1. \A d \in Days \ {target} : archive'[d] = archive[d]
    BY <1>0 DEF CrashedArchive, IInv, TypeOK
  <2>2. QED
    BY <1>0, <1>1, <1>4, <2>1, FaultDamage DEF Fault
<1>5. QED
  BY <1>0, <1>2, <1>3, <1>4, CrashKeeps DEF IInv, TypeOK, FilesInv

LEMMA AppendLogFileDamage ==
  ASSUME ~Cutting, IInv, ControlInv, CopyInv, DamageInv, AppendLogFile, ~QuietStep, IInv',
         Stuck => Stuck' /\ cacheDay' = cacheDay
  PROVE  DamageInv'
<1>0. crashes' = crashes
  BY DEF AppendLogFile, AppendOpen, AppendHeader, AppendDiscard, AppendGrow, AppendNothing,
         AppendUnmapped, AppendCopy, AppendShrink, AppendUnlink
<1>1. ASSUME Kept' = Kept, cache' = cache, failures' = failures \/ failures' = failures + 1
      PROVE  DamageInv'
  BY <1>0, <1>1, SameDamage DEF Fault
<1>2. CASE AppendOpen \/ AppendDiscard
  BY <1>1, <1>2, OpenKept DEF AppendOpen, AppendDiscard, Works, Fails
<1>3. CASE AppendGrow
  BY <1>1, <1>3, GrowKept DEF AppendGrow, Works, Fails
<1>4. CASE AppendUnmapped
  BY <1>4, UnmappedDamage
<1>5. ASSUME Copying, cache' = cache, archive' = archive, failures' = failures + 1, pc' = "flushed"
      PROVE  DamageInv'
  <2>1. ~Copying'
    BY <1>5 DEF Copying
  <2>2. QED
    BY <1>0, <1>5, <2>1, FaultDamage DEF Fault
<1>6. CASE AppendCopy
  <2>1. CASE pc' = "shrink"
    BY <1>1, <1>6, <2>1, CopyKept DEF AppendCopy, AbortAppend, Return, Works
  <2>2. CASE pc' # "shrink"
    BY <1>5, <1>6, <2>2 DEF AppendCopy, AbortAppend, Return, Fails, Copying
  <2>3. QED
    BY <2>1, <2>2
<1>7. CASE AppendShrink
  <2>1. CASE pc' = "unlink"
    BY <1>1, <1>7, <2>1, ShrinkKept DEF AppendShrink, AbortAppend, Return, Works
  <2>2. CASE pc' # "unlink"
    BY <1>5, <1>7, <2>2 DEF AppendShrink, AbortAppend, Return, Fails, Copying
  <2>3. QED
    BY <2>1, <2>2
<1>8. CASE AppendUnlink
  <2>1. CASE pc' = "open"
    BY <1>8, <2>1, UnlinkDamage
  <2>2. CASE pc' # "open"
    BY <1>5, <1>8, <2>2 DEF AppendUnlink, Return, Fails, Copying, dayVars
  <2>3. QED
    BY <2>1, <2>2
<1>9. QED
  BY <1>2, <1>3, <1>4, <1>6, <1>7, <1>8 DEF AppendLogFile, QuietStep

\* What a load does to the cache.
LEMMA LoadFound ==
  ASSUME IInv, Load
  PROVE  /\ SafeOf(cache'.body) = SafeOf(cache.body)
         /\ Torn(cache'.body) <=> Torn(cache.body)
         /\ archive' = archive /\ crashes' = crashes /\ acked' = acked
         /\ ~Copying /\ ~Copying' /\ ~Stuck
<1>1. /\ cache'.body \in Positions(cache.body) /\ archive' = archive /\ crashes' = crashes
      /\ acked' = acked
      /\ pc \in {"open", "map"} /\ pc' \in {"open", "map", "loaded"}
  BY LoadKeeps DEF IInv, TypeOK, FilesInv, Load, LoadStep
<1>2. QED
  BY <1>1, CacheBody, PositionKeeps DEF Copying, Stuck

LEMMA StepDamage ==
  ASSUME ~Readers, ~Cutting, IInv, ControlInv, CopyInv, DamageInv, [Next]_vars
  PROVE  DamageInv'
<1>1. IInv'
  BY StepIInv
<1>2. crashes \in Nat /\ (CrashAppending => crashes' = crashes + 1)
  BY DEF IInv, TypeOK, CacheTypeOK, CrashAppending, Crash
<1>3. CASE QuietStep
  <2>1. crashes' = crashes /\ failures' = failures /\ cache' = cache /\ Kept' = Kept
    BY <1>3, QuietFrame, QuietKept
  <2>2. Stuck => Stuck' /\ cacheDay' = cacheDay
    BY <1>2, <2>1, StuckStays
  <2>3. QED
    BY <1>1, <2>1, <2>2, SameDamage
<1>4. CASE Load
  <2>1. failures' = failures \/ failures' = failures + 1
    BY <1>4 DEF Load, LoadOpen, LoadDiscard, LoadMap, LoadFails, Works, Fails
  <2>2. Kept' = Kept
    BY <1>4, LoadFound, OutsideCopy
  <2>3. QED
    BY <1>1, <1>4, <2>1, <2>2, LoadFound, SameDamage DEF Fault
<1>5. CASE StoreRecord /\ PutRecord
  <2>1. /\ pc = "put" /\ pc' = "idle" /\ handle = "mapped" /\ archive' = archive
        /\ cache' = Valid(Append(cache.body, next)) /\ crashes' = crashes /\ failures' = failures
    BY <1>5 DEF StoreRecord, PutRecord
  <2>2. next # Gap
    BY <2>1, AppendedCache DEF Gap
  <2>3. ~Copying'
    BY <2>1 DEF Copying
  <2>4. QED
    BY <2>1, <2>2, <2>3, AppendDamage
<1>6. CASE AppendLogFile /\ ~QuietStep
  <2>1. crashes' = crashes
    BY <1>6 DEF AppendLogFile, AppendOpen, AppendHeader, AppendDiscard, AppendGrow, AppendNothing,
         AppendUnmapped, AppendCopy, AppendShrink, AppendUnlink
  <2>2. Stuck => Stuck' /\ cacheDay' = cacheDay
    BY <1>2, <2>1, StuckStays
  <2>3. QED
    BY <1>1, <1>6, <2>2, AppendLogFileDamage
<1>7. CASE CrashAppending
  BY <1>1, <1>7, CrashDamage
<1>8. QED
  BY <1>3, <1>4, <1>5, <1>6, <1>7, StepCases

LEMMA DamageInvariance ==
  ASSUME ~Readers
  PROVE  Spec /\ []~Cutting => [](IInv /\ CopyInv /\ DamageInv)
<1>1. Init => DamageInv
  <2> SUFFICES ASSUME Init PROVE DamageInv
    OBVIOUS
  <2>1. cache.body = <<>> /\ \A d \in Days : archive[d].body = <<>>
    BY DEF Init, CacheInit, Absent
  <2>2. TornDays = {}
    BY <2>1, EmptyIsSafe DEF TornDays, Kept, Copying, Init, CacheInit
  <2>3. Cardinality({}) = 0
    BY FS_EmptySet
  <2>4. Cardinality(TornDays) = 0
    BY <2>2, <2>3, Zenon
  <2>5. TornCache = 0 /\ Slack = 0
    BY <2>1, EmptyIsSafe DEF TornCache, Slack, Stuck, Init, CacheInit
  <2>6. QED
    BY <2>4, <2>5 DEF DamageInv, Init, CacheInit
<1>2. ~Cutting /\ IInv /\ ControlInv /\ CopyInv /\ DamageInv /\ [Next]_vars => DamageInv'
  BY StepDamage
<1>3. QED
  BY <1>1, <1>2, CopyInvariance, PTL DEF Spec

\* Files out of step are torn, but for the one that is uncovered.
LEMMA DamageIsBounded ==
  ASSUME IInv, DamageInv, ~Copying
  PROVE  DamagedFiles <= crashes + failures
<1> DEFINE D == {d \in Days : OutOfStep(archive[d].body)}
           C == IF OutOfStep(cache.body) THEN 1 ELSE 0
<1>1. \A d \in Days : archive[d].body = Kept[d]
  BY DEF Kept
<1>2. D = {d \in Days : OutOfStep(Kept[d])}
  BY <1>1
<1>3. D \subseteq TornDays /\ C <= TornCache /\ C \in {0, 1}
  BY <1>2 DEF TornDays, TornCache, OutOfStep, Torn
<1>4. /\ IsFiniteSet(TornDays) /\ Cardinality(TornDays) \in Nat
      /\ crashes \in Nat /\ failures \in Nat
      /\ TornCache \in {0, 1} /\ Slack \in {0, 1}
  BY DamageCounts
<1>5. DamagedFiles = Cardinality(D) + C
  BY DEF DamagedFiles
<1> HIDE DEF D, C
<1>6. Cardinality(D) \in Nat /\ Cardinality(D) <= Cardinality(TornDays)
  BY <1>3, <1>4, FS_Subset, FS_CardinalityType
<1>7. CASE Slack = 0
  BY <1>3, <1>4, <1>5, <1>6, <1>7 DEF DamageInv
<1>8. CASE Slack = 1
  <2>1. cacheDay \in TornDays /\ cacheDay \notin D
    BY <1>2, <1>8 DEF Slack
  <2>2. /\ IsFiniteSet(TornDays \ {cacheDay})
        /\ Cardinality(TornDays \ {cacheDay}) = Cardinality(TornDays) - 1
    BY <1>4, <2>1, FS_RemoveElement
  <2>3. D \subseteq TornDays \ {cacheDay}
    BY <1>3, <2>1
  <2>4. Cardinality(D) <= Cardinality(TornDays \ {cacheDay})
    BY <2>2, <2>3, FS_Subset
  <2>5. QED
    BY <1>3, <1>4, <1>5, <1>6, <1>8, <2>2, <2>4 DEF DamageInv
<1>9. QED
  BY <1>4, <1>7, <1>8

-----------------------------------------------------------------------------
(* What is found stays found.                                              *)

Contained == /\ Found \subseteq Found' \/ (pc = "unlink" /\ Torn(Prefix))
             /\ ~Torn(cache.body) => acked' \ acked \subseteq Found'

\* A step that acknowledges nothing and changes at most the archive appendLogFile works on.
LEMMA ArchiveContained ==
  ASSUME IInv, acked' = acked, cache'.body = cache.body,
         archive' = archive \/
           \E f : archive' = [archive EXCEPT ![target] = f] /\ SafeOf(Disk.body) \subseteq SafeOf(f.body)
  PROVE  Contained
<1>1. \A d \in Days : SafeOf(archive[d].body) \subseteq SafeOf(archive'[d].body)
  BY DEF IInv, TypeOK, Disk
<1>2. QED
  BY <1>1 DEF Contained, Found

\* What the archive shows while the copy is under way.
LEMMA CopyFound ==
  ASSUME IInv, CopyInv, Copying
  PROVE  /\ Prefix \in Seq(Nat) /\ cache.body \in Seq(Nat) /\ Copied \in Seq(Nat)
         /\ SafeOf(Prefix) \subseteq SafeOf(Copied)
         /\ pc = "copy" => SafeOf(Disk.body) = SafeOf(Prefix)
         /\ pc = "shrink" => SafeOf(Disk.body) = SafeOf(Copied)
<1>1. Prefix \in Seq(Nat) /\ cache.body \in Seq(Nat) /\ Copied \in Seq(Nat)
  BY KeptBodies, Bodies
<1>2. SafeOf(Prefix) \subseteq SafeOf(Copied)
  BY <1>1, SafeOfConcat DEF Copied
<1>3. \A b \in {Prefix, Copied} : SafeOf(Append(b, Gap)) = SafeOf(b)
  BY <1>1, GapAtEnd
<1>4. Copied \o <<Gap>> = Append(Copied, Gap)
  BY <1>1, AppendIsConcat DEF Gap
<1>5. QED
  BY <1>1, <1>2, <1>3, <1>4 DEF CopyInv

LEMMA CopyContained ==
  ASSUME IInv, CopyInv, AppendCopy \/ AppendShrink
  PROVE  Contained
<1>1. acked' = acked /\ cache' = cache
  BY DEF AppendCopy, AppendShrink
<1>2. CASE archive' = archive
  BY <1>1, <1>2, ArchiveContained
<1>3. CASE archive' # archive /\ AppendCopy
  <2>1. PICK pad \in {<<>>, <<Gap>>} : PutArchive(Valid(Prefix \o (cache.body \o pad)))
    BY <1>3 DEF AppendCopy
  <2>2. pc = "copy" /\ Copying
    BY <1>3 DEF AppendCopy, Copying
  <2> DEFINE b == Prefix \o (cache.body \o pad)
  <2>3. pad \in Seq(Nat) /\ cache.body \in Seq(Nat) /\ Prefix \in Seq(Nat)
    BY <2>2, CopyFound, NoRecords
  <2>4. cache.body \o pad \in Seq(Nat)
    BY <2>3, ConcatProperties
  <2>5. SafeOf(Prefix) \subseteq SafeOf(b)
    BY <2>3, <2>4, SafeOfConcat
  <2> HIDE DEF b
  <2>6. archive' = [archive EXCEPT ![target] = Valid(b)] /\ Valid(b).body = b
    BY <1>3, <2>1 DEF PutArchive, b, Valid
  <2>7. SafeOf(Disk.body) \subseteq SafeOf(Valid(b).body)
    BY <2>2, <2>5, <2>6, CopyFound
  <2>8. QED
    BY <1>1, <2>6, <2>7, ArchiveContained
<1>4. CASE archive' # archive /\ AppendShrink
  <2>1. /\ pc = "shrink" /\ Copying
        /\ PutArchive(Valid(SubSeq(Disk.body, 1, size + Len(cache.body))))
        /\ SubSeq(Disk.body, 1, size + Len(cache.body)) = Copied
    BY <1>4 DEF AppendShrink, Copying, IInv, AppendInv, Copied
  <2>2. archive' = [archive EXCEPT ![target] = Valid(Copied)] /\ Valid(Copied).body = Copied
    BY <1>4, <2>1 DEF PutArchive, Valid
  <2>3. SafeOf(Disk.body) \subseteq SafeOf(Valid(Copied).body)
    BY <2>1, <2>2, CopyFound
  <2>4. QED
    BY <1>1, <2>2, <2>3, ArchiveContained
<1>5. QED
  BY <1>2, <1>3, <1>4

LEMMA GrowContained ==
  ASSUME IInv, AppendGrow \/ (AppendUnmapped /\ ~Cutting)
  PROVE  Contained
<1>1. acked' = acked /\ cache' = cache /\ pc = "grow"
  BY DEF AppendGrow, AppendUnmapped
<1>2. Disk.body \in Seq(Nat) /\ Prefix = Disk.body
  BY <1>1, Bodies
<1>3. CASE archive' = archive
  BY <1>1, <1>3, ArchiveContained
<1>4. CASE archive' # archive
  <2>1. \/ PutArchive(Zeros) /\ fresh
        \/ PutArchive(Valid(Append(Prefix, Gap)))
    BY <1>4, UnmappedKinds DEF AppendGrow
  <2>2. fresh => Disk.body = <<>>
    BY <1>1, Bodies DEF IInv, AppendInv, FileOK
  <2>3. SafeOf(Append(Prefix, Gap)) = SafeOf(Disk.body)
    BY <1>2, GapAtEnd
  <2>4. Zeros.body = <<>> /\ Valid(Append(Prefix, Gap)).body = Append(Prefix, Gap)
    BY DEF Zeros, Valid
  <2>5. QED
    BY <1>1, <1>4, <2>1, <2>2, <2>3, <2>4, ArchiveContained DEF PutArchive
<1>5. QED
  BY <1>3, <1>4

LEMMA UnlinkContained ==
  ASSUME IInv, CopyInv, AppendUnlink
  PROVE  Contained
<1>1. /\ acked' = acked /\ archive' = archive /\ pc = "unlink" /\ Copying
      /\ cache' = cache \/ cache' = Absent
  BY DEF AppendUnlink, dayVars, Copying
<1>2. CASE cache' = cache
  BY <1>1, <1>2, ArchiveContained
<1>3. CASE Torn(Prefix)
  BY <1>1, <1>3 DEF Contained
<1>4. CASE cache' = Absent /\ ~Torn(Prefix)
  <2>1. target \in Days /\ archive[target].body = Copied
    BY <1>1, Bodies DEF CopyInv, Disk
  <2>2. SafeOf(cache.body) \subseteq SafeOf(Copied)
    BY <1>1, <1>4, CopyFound, SafeOfConcat DEF Copied
  <2>3. Found \subseteq Found'
    BY <1>1, <2>1, <2>2 DEF Found
  <2>4. QED
    BY <1>1, <2>3 DEF Contained
<1>5. QED
  BY <1>1, <1>2, <1>3, <1>4

LEMMA CrashContained ==
  ASSUME IInv, CopyInv, CrashAppending
  PROVE  Contained
<1>1. acked' = acked /\ cache' \in CrashedCache /\ archive' \in CrashedArchive
  BY DEF CrashAppending, Crash
<1>2. CASE archive' = archive
  <2>1. SafeOf(cache.body) \subseteq SafeOf(cache'.body)
    <3>1. ASSUME NEW x \in {Gap, next}, pc = "put", handle = "mapped",
                 cache' = Valid(Append(cache.body, x))
          PROVE  SafeOf(cache.body) \subseteq SafeOf(cache'.body)
      BY <1>2, <3>1, RecordRefines
    <3>2. QED
      BY <1>1, <3>1, CrashKeeps DEF IInv, TypeOK, FilesInv
  <2>2. QED
    BY <1>1, <1>2, <2>1 DEF Contained, Found
<1>3. CASE archive' # archive
  <2>1. pc = "copy" /\ Copying
    BY <1>1, <1>3 DEF CrashedArchive, Copying
  <2>2. cache' = cache
    BY <1>1, <2>1 DEF CrashedCache
  <2>3. PICK f \in {Disk} \cup {Valid(Prefix \o Append(SubSeq(cache.body, 1, k), Gap)) :
                                 k \in 0 .. Len(cache.body)} :
          archive' = [archive EXCEPT ![target] = f]
    BY <1>1, <1>3 DEF CrashedArchive
  <2>4. SafeOf(Disk.body) \subseteq SafeOf(f.body)
    <3>1. CASE f = Disk
      BY <3>1
    <3>2. ASSUME NEW k \in 0 .. Len(cache.body),
                 f = Valid(Prefix \o Append(SubSeq(cache.body, 1, k), Gap))
          PROVE  SafeOf(Disk.body) \subseteq SafeOf(f.body)
      <4> DEFINE e == Append(SubSeq(cache.body, 1, k), Gap)
      <4>1. Prefix \in Seq(Nat) /\ cache.body \in Seq(Nat)
        BY <2>1, CopyFound
      <4>2. e \in Seq(Nat)
        BY <4>1, LogsOfCut, GapBehind
      <4> HIDE DEF e
      <4>3. SafeOf(Prefix) \subseteq SafeOf(Prefix \o e)
        BY <4>1, <4>2, SafeOfConcat
      <4>4. f.body = Prefix \o e
        BY <3>2 DEF Valid, e
      <4>5. QED
        BY <2>1, <4>3, <4>4, CopyFound
    <3>3. QED
      BY <2>3, <3>1, <3>2
  <2>5. QED
    BY <1>1, <2>2, <2>3, <2>4, ArchiveContained
<1>4. QED
  BY <1>2, <1>3

LEMMA StepContained ==
  ASSUME ~Readers, ~Cutting, IInv, CopyInv, [Next]_vars
  PROVE  Contained
<1>1. CASE QuietStep
  BY <1>1, QuietFrame, ArchiveContained
<1>2. CASE Load
  BY <1>2, LoadFound DEF Contained, Found
<1>3. CASE StoreRecord /\ PutRecord
  <2>1. /\ pc = "put" /\ handle = "mapped" /\ archive' = archive
        /\ cache' = Valid(Append(cache.body, next)) /\ acked' = acked \cup {next}
    BY <1>3 DEF StoreRecord, PutRecord
  <2>2. next # Gap
    BY <2>1, AppendedCache DEF Gap
  <2>3. /\ ~Torn(cache.body) => next \in SafeOf(cache'.body)
        /\ SafeOf(cache.body) \subseteq SafeOf(cache'.body)
    BY <2>1, <2>2, RecordRefines
  <2>4. QED
    BY <2>1, <2>3 DEF Contained, Found
<1>4. CASE AppendOpen \/ AppendDiscard
  <2>1. FileOK(Disk) /\ Empty.body = <<>> /\ Absent.body = <<>>
    BY Bodies, NewFiles
  <2>2. acked' = acked /\ cache' = cache
    BY <1>4 DEF AppendOpen, AppendDiscard
  <2>3. archive' = archive \/ (/\ Disk.body = <<>>
                               /\ \E f \in {Empty, Absent} : archive' = [archive EXCEPT ![target] = f])
    BY <1>4, <2>1 DEF AppendOpen, AppendDiscard, FileOK
  <2>4. QED
    BY <2>1, <2>2, <2>3, EmptyIsSafe, ArchiveContained
<1>5. CASE AppendLogFile
  <2>1. AppendHeader \/ AppendNothing => QuietStep
    BY DEF QuietStep
  <2>2. QED
    BY <1>1, <1>4, <1>5, <2>1, GrowContained, CopyContained, UnlinkContained DEF AppendLogFile
<1>6. QED
  BY <1>1, <1>2, <1>3, <1>5, CrashContained, StepCases

\* However often the process dies and however many calls fail, as long as no archive
\* is cut: each puts one file out of step at most, and a log that a reader is certain
\* to find it is certain to find for ever, unless the cache is appended behind damage.
THEOREM DamageUnlessCut == ASSUME ~Readers PROVE Spec /\ []~Cutting => DamageContained
<1>1. IInv /\ DamageInv => (~Copying => DamagedFiles <= crashes + failures)
  BY DamageIsBounded
<1>2. ~Cutting /\ IInv /\ CopyInv /\ [Next]_vars
        => [/\ Found \subseteq Found' \/ (pc = "unlink" /\ Torn(Prefix))
            /\ ~Torn(cache.body) => acked' \ acked \subseteq Found']_vars
  BY StepContained DEF Contained
<1>3. QED
  BY <1>1, <1>2, DamageInvariance, PTL DEF Spec, DamageContained

\* And so in general where mmap and ftruncate of the cache work.
THEOREM FaultDamageIsContained == ASSUME Undisturbed PROVE Spec => DamageContained
  BY NothingIsCut, DamageUnlessCut, PTL DEF Undisturbed

-----------------------------------------------------------------------------
(* The order of the logs while nothing has failed.  The cache is appended  *)
(* to no archive older than itself, and no archive younger than the cache  *)
(* has a log: so what is appended is newer than all before it, and older   *)
(* than all behind it.                                                     *)

NoFault == failures = 0 /\ crashes = 0

Sorted == /\ InOrder(cache.body)
          /\ \A d \in Days : /\ InOrder(Kept[d])
                             /\ \A k \in LogsOf(Kept[d]), l \in LogsOf(cache.body) : k < l
          /\ \A d, e \in Days : d < e => \A k \in LogsOf(Kept[d]), l \in LogsOf(Kept[e]) : k < l

Appending == pc \in {"append", "header", "grow", "copy", "shrink", "unlink"}
Renewing == pc = "open" /\ cache.kind = "absent"
Dated == /\ cacheDay <= day
         /\ Appending => cacheDay <= target /\ target <= day
         /\ ~Renewing => \A d \in Days : d > cacheDay => LogsOf(Kept[d]) = {}
         /\ \A d \in Days : d > day => LogsOf(Kept[d]) = {}

OrderInv == NoFault => Sorted /\ Dated

LEMMA DaysAreNumbers ==
  IInv => /\ Days \subseteq Nat
          /\ day \in Days /\ cacheDay \in Days /\ target \in Days
          /\ archive \in [Days -> File]
BY IncrementalAssumption DEF IInv, TypeOK, Days

\* No step takes a crash or a failure back, and without one none is aborted.
LEMMA FaultsStay ==
  ASSUME ~Readers, IInv, [Next]_vars, NoFault'
  PROVE  NoFault /\ ~CrashAppending /\ ~(\E call \in FailingCalls : Fails(call))
<1>1. crashes \in Nat /\ failures \in Nat /\ crashes' = 0 /\ failures' = 0
  BY DEF IInv, TypeOK, CacheTypeOK, NoFault
<1>2. ~(\E call \in FailingCalls : Fails(call))
  BY <1>1 DEF Fails
<1>3. ~CrashAppending
  BY <1>1 DEF CrashAppending, Crash
<1>4. crashes' = crashes /\ failures' = failures
  <2>1. CASE QuietStep
    BY <2>1, QuietFrame
  <2>2. CASE Load
    <3>1. crashes' = crashes
      BY <2>2 DEF Load, LoadOpen, LoadDiscard, LoadMap, LoadFails
    <3>2. failures' = failures \/ \E call \in FailingCalls : Fails(call)
      BY <2>2 DEF Load, LoadOpen, LoadDiscard, LoadMap, LoadFails, Works, Fails
    <3>3. QED
      BY <1>2, <3>1, <3>2
  <2>3. CASE StoreRecord /\ PutRecord
    BY <2>3 DEF PutRecord
  <2>4. CASE AppendLogFile
    <3>1. crashes' = crashes
      BY <2>4 DEF AppendLogFile, AppendOpen, AppendHeader, AppendDiscard, AppendGrow,
           AppendNothing, AppendUnmapped, AppendCopy, AppendShrink, AppendUnlink, dayVars
    <3>2. failures' = failures \/ \E call \in FailingCalls : Fails(call)
      BY <2>4 DEF AppendLogFile, AppendOpen, AppendHeader, AppendDiscard, AppendGrow,
           AppendNothing, AppendUnmapped, AppendCopy, AppendShrink, AppendUnlink, Works, Fails
    <3>3. QED
      BY <1>2, <3>1, <3>2
  <2>5. QED
    BY <1>3, <2>1, <2>2, <2>3, <2>4, StepCases
<1>5. QED
  BY <1>1, <1>2, <1>3, <1>4 DEF NoFault

\* A step of the append that does not fail.
LEMMA AppendWorks ==
  ASSUME AppendLogFile, ~(\E call \in FailingCalls : Fails(call))
  PROVE  /\ AppendCopy => pc' = "shrink"
         /\ AppendShrink => pc' = "unlink"
         /\ AppendUnlink => pc' = "open"
<1>1. /\ ~Fails("fill archive") /\ ~Fails("map archive") /\ ~Fails("size archive") /\ ~Fails("remove")
  BY DEF Fails
<1>2. QED
  BY <1>1 DEF AppendCopy, AppendShrink, AppendUnlink

\* Nothing that is kept changes.
LEMMA OrderKept ==
  ASSUME IInv, IInv', Sorted, Dated, Kept' = Kept, day <= day',
         LogsOf(cache'.body) \subseteq LogsOf(cache.body), InOrder(cache'.body),
         \/ cacheDay' = cacheDay /\ (Renewing => Renewing')
         \/ cacheDay' = day /\ day' = day,
         Appending' => cacheDay' <= target' /\ target' <= day'
  PROVE  Sorted' /\ Dated'
<1>1. Sorted'
  BY DEF Sorted
<1>2. /\ Days \subseteq Nat /\ day \in Days /\ cacheDay \in Days /\ day' \in Days
  BY DaysAreNumbers DEF IInv, TypeOK
<1>3. cacheDay' <= day'
  <2>1. cacheDay <= day
    BY DEF Dated
  <2>2. day \in Int /\ cacheDay \in Int /\ day' \in Int
    BY <1>2, SMTT(20)
  <2>3. CASE cacheDay' = cacheDay
    <3>1. cacheDay <= day'
      BY <2>1, <2>2, SMTT(20)
    <3> QED
      BY <2>3, <3>1, SMTT(20)
  <2>4. CASE cacheDay' = day /\ day' = day
    BY <2>2, <2>4, SMTT(20)
  <2> QED
    BY <2>3, <2>4, SMTT(20)
<1>4. \A d \in Days : d > day' => LogsOf(Kept'[d]) = {}
  BY <1>2 DEF Dated
<1>5. ~Renewing' => \A d \in Days : d > cacheDay' => LogsOf(Kept'[d]) = {}
  BY <1>2 DEF Dated
<1>6. QED
  BY <1>1, <1>3, <1>4, <1>5 DEF Dated

\* The record of the pending call is newer than all others.
LEMMA PutSorted ==
  ASSUME IInv, Sorted, Dated, IInv', StoreRecord, PutRecord
  PROVE  Sorted' /\ Dated'
<1>0. /\ pc = "put" /\ pc' = "idle" /\ handle = "mapped" /\ archive' = archive /\ day' = day
      /\ cache' = Valid(Append(cache.body, next)) /\ cacheDay' \in {cacheDay, day}
  BY DEF StoreRecord, PutRecord, Touched
<1>1. (\A l \in Held : l < next) /\ next \in 1 .. MaxLog
  BY <1>0, AppendedCache
<1>2. Kept' = Kept /\ \A d \in Days : LogsOf(Kept[d]) \subseteq Held
  BY <1>0, OutsideCopy DEF Copying, Kept, Held, Archived
<1>3. cache.body \in Seq(Nat) /\ next \in Nat /\ next # Gap
  BY <1>1, Bodies DEF Gap
<1>4. LogsOf(cache'.body) = LogsOf(cache.body) \cup {next} /\ cache'.body = Append(cache.body, next)
  BY <1>0, <1>3, LogsOfAppend DEF Valid
<1>5. InOrder(cache'.body)
  <2>1. \A l \in LogsOf(cache.body) : l < next
    BY <1>1 DEF Held
  <2>2. QED
    BY <1>3, <1>4, <2>1, AppendInOrder DEF Sorted
<1>6. Sorted'
  BY <1>1, <1>2, <1>4, <1>5 DEF Sorted
<1>7. Dated'
  <2>1. Days \subseteq Nat /\ day \in Days /\ cacheDay \in Days
    BY DaysAreNumbers
  <2>2. ~Renewing
    BY <1>0 DEF Renewing
  <2>3. cacheDay' <= day'
    BY <1>0, <2>1 DEF Dated
  <2>4. \A d \in Days : (d > cacheDay' \/ d > day') => LogsOf(Kept'[d]) = {}
    BY <1>0, <1>2, <2>1, <2>2 DEF Dated
  <2>5. ~Appending'
    BY <1>0 DEF Appending
  <2>6. QED
    BY <2>3, <2>4, <2>5 DEF Dated
<1>8. QED
  BY <1>6, <1>7

\* Without a mapping the archive gets zeros behind its records, or nothing.
LEMMA UnmappedSorted ==
  ASSUME IInv, CopyInv, NoFault, Sorted, Dated, AppendUnmapped
  PROVE  Sorted' /\ Dated'
<1>0. pc = "grow" /\ linked /\ ~Cutting
  BY DEF AppendUnmapped, Cutting, NoFault, IInv, HandleInv, ReaderInv
<1>1. /\ pc = "grow" /\ pc' = "flushed" /\ cache' = cache /\ cacheDay' = cacheDay /\ day' = day
      /\ archive' = archive \/ archive' = [archive EXCEPT ![target] = Valid(Append(Prefix, Gap))]
  BY <1>0, UnmappedKinds DEF AppendUnmapped, AbortAppend, Return, PutArchive
<1>2. /\ target \in Days /\ archive \in [Days -> File]
      /\ Prefix = Disk.body /\ Disk.body \in Seq(Nat)
  BY <1>1, Bodies, DaysAreNumbers
<1>3. /\ \A d \in Days : Kept[d] = archive[d].body
      /\ \A d \in Days : Kept'[d] = archive'[d].body
  BY <1>1 DEF Kept, Copying
<1>4. \A d \in Days : Kept'[d] = Kept[d] \/ Kept'[d] = Append(Kept[d], Gap)
  BY <1>1, <1>2, <1>3, SMTT(20) DEF Disk, Valid
<1>5. \A d \in Days : Kept[d] \in Seq(Nat)
  BY KeptBodies
<1>6. \A d \in Days : LogsOf(Kept'[d]) = LogsOf(Kept[d])
  BY <1>4, <1>5, GapBehind
<1>7. \A d \in Days : InOrder(Kept'[d])
  BY <1>4, <1>5, AppendInOrder DEF Sorted, Gap
<1>8. Sorted'
  BY <1>1, <1>6, <1>7 DEF Sorted
<1>9. ~Renewing /\ ~Appending'
  BY <1>1 DEF Renewing, Appending
<1>10. QED
  BY <1>1, <1>6, <1>8, <1>9 DEF Dated

\* The copy becomes the end of the archive.
LEMMA UnlinkSorted ==
  ASSUME IInv, CopyInv, Sorted, Dated, AppendUnlink, pc' = "open"
  PROVE  Sorted' /\ Dated'
<1>1. /\ pc = "unlink" /\ cache' = Absent /\ archive' = archive
      /\ cacheDay' = cacheDay /\ day' = day
  BY DEF AppendUnlink, Return, dayVars
<1>2. target \in Days /\ Days \subseteq Nat /\ day \in Nat /\ cacheDay \in Nat
  BY DaysAreNumbers
<1>3. /\ Kept[target] = Prefix /\ Kept[target] \in Seq(Nat) /\ cache.body \in Seq(Nat)
      /\ archive[target].body = Kept[target] \o cache.body
  BY <1>1, <1>2, KeptBodies, Bodies DEF Kept, Copying, CopyInv, Copied, Disk
<1>4. \A d \in Days : Kept'[d] = IF d = target THEN Kept[target] \o cache.body ELSE Kept[d]
  BY <1>1, <1>3 DEF Kept, Copying
<1>5. LogsOf(Kept'[target]) = LogsOf(Kept[target]) \cup LogsOf(cache.body)
  BY <1>2, <1>3, <1>4, LogsOfConcat
<1>6. /\ cacheDay <= target /\ target <= day
      /\ \A d \in Days : d > cacheDay => LogsOf(Kept[d]) = {}
      /\ \A d \in Days : d > day => LogsOf(Kept[d]) = {}
  BY <1>1 DEF Dated, Appending, Renewing
<1>7. \A d \in Days : d > target => LogsOf(Kept[d]) = {}
  BY <1>2, <1>6
<1>8. InOrder(cache'.body) /\ LogsOf(cache'.body) = {}
  BY <1>1, LogsOfEmpty DEF Absent, InOrder
<1>9. \A d \in Days : InOrder(Kept'[d])
  BY <1>2, <1>3, <1>4, ConcatInOrder DEF Sorted
<1>10. ASSUME NEW d \in Days, NEW e \in Days, d < e
       PROVE  \A k \in LogsOf(Kept'[d]), l \in LogsOf(Kept'[e]) : k < l
  <2>1. CASE d = target
    BY <1>2, <1>4, <1>7, <1>10, <2>1
  <2>2. CASE e = target
    BY <1>2, <1>4, <1>5, <1>10, <2>2 DEF Sorted
  <2>3. CASE d # target /\ e # target
    BY <1>4, <1>10, <2>3 DEF Sorted
  <2>4. QED
    BY <2>1, <2>2, <2>3
<1>11. \A d \in Days : d > day' => LogsOf(Kept'[d]) = {}
  BY <1>1, <1>2, <1>4, <1>6
<1>12. Renewing' /\ ~Appending'
  BY <1>1 DEF Renewing, Appending, Absent
<1>13. Sorted'
  BY <1>8, <1>9, <1>10 DEF Sorted
<1>14. QED
  BY <1>1, <1>2, <1>6, <1>11, <1>12, <1>13 DEF Dated

\* The steps that change nothing of what is kept, and what they do to the dates.
LEMMA QuietSorted ==
  ASSUME IInv, IInv', CopyInv, Sorted, Dated, QuietStep
  PROVE  Sorted' /\ Dated'
<1>1. Kept' = Kept /\ cache' = cache
  BY QuietKept, QuietFrame
<1>2. Days \subseteq Nat /\ day \in Nat /\ cacheDay \in Nat /\ target \in Nat
  BY DaysAreNumbers
<1>3. cacheDay' = cacheDay /\ (day' = day \/ day' = day + 1)
  BY DEF QuietStep, Start, Write, CheckDay, WriteRefused, CheckSpace, PutToNull, FlushCall,
         FlushNothing, FlushToday, AppendHeader, AppendNothing, AfterLoad, AfterFlush, NextDay,
         dayVars, vars
<1>4. Renewing => Renewing'
  BY <1>1 DEF Renewing, QuietStep, Start, Write, WriteCall, CheckDay, WriteRefused, CheckSpace,
         PutToNull, FlushCall, FlushNothing, FlushToday, AppendHeader, AppendNothing, AfterLoad,
         AfterFlush, NextDay, dayVars, vars
<1>5. Appending' => cacheDay' <= target' /\ target' <= day'
  <2> USE <1>2 DEF Appending, Dated
  <2>1. CASE CheckDay
    BY <2>1 DEF CheckDay, Return
  <2>2. CASE FlushToday
    BY <2>2 DEF FlushToday
  <2>3. CASE AppendHeader
    BY <2>3 DEF AppendHeader
  <2>4. CASE NextDay
    BY <2>4 DEF NextDay
  <2>5. CASE UNCHANGED vars
    BY <2>5 DEF vars
  <2>6. CASE Start \/ Write \/ WriteRefused \/ CheckSpace \/ PutToNull \/ FlushCall
             \/ FlushNothing \/ AppendNothing \/ AfterLoad \/ AfterFlush
    BY <2>6 DEF Start, Write, WriteCall, WriteRefused, CheckSpace, PutToNull, FlushCall,
         FlushNothing, AppendNothing, AbortAppend, Return, AfterLoad, AfterFlush
  <2>7. QED
    BY <2>1, <2>2, <2>3, <2>4, <2>5, <2>6 DEF QuietStep
<1>6. LogsOf(cache'.body) \subseteq LogsOf(cache.body) /\ InOrder(cache'.body)
  BY <1>1 DEF Sorted
<1>7. QED
  BY <1>1, <1>2, <1>3, <1>4, <1>5, <1>6, OrderKept

LEMMA LoadSorted ==
  ASSUME IInv, IInv', Sorted, Dated, Load, ~(\E call \in FailingCalls : Fails(call))
  PROVE  Sorted' /\ Dated'
<1>1. /\ cache'.body \in Positions(cache.body) /\ archive' = archive /\ day' = day
      /\ pc \in {"open", "map"} /\ pc' \in {"open", "map", "loaded"}
  BY LoadKeeps DEF IInv, TypeOK, FilesInv, Load, LoadStep, LoadOpen, LoadDiscard, LoadMap, LoadFails
<1>2. Kept' = Kept /\ ~Appending'
  BY <1>1, OutsideCopy DEF Copying, Appending
<1>3. /\ cacheDay' = cacheDay \/ cacheDay' = day
      /\ cache.kind = "absent" /\ cache'.kind # "absent" => cacheDay' = day
  BY DEF Load
<1>4. ~Fails("open") /\ ~Fails("ftruncate") /\ ~Fails("mmap") /\ ~Fails("write")
  BY DEF Fails
<1>5. Renewing => cache'.kind # "absent"
  <2>1. ~LoadFails
    BY <1>4 DEF LoadFails
  <2>2. CASE LoadOpen
    BY <1>4, <2>2 DEF LoadOpen, Renewing, Empty
  <2>3. CASE LoadDiscard \/ LoadMap
    BY <2>3 DEF LoadDiscard, LoadMap, Renewing
  <2>4. QED
    BY <2>1, <2>2, <2>3 DEF Load
<1>6. day \in Nat
  BY DaysAreNumbers
<1>7. Renewing => cacheDay' = day
  BY <1>3, <1>5 DEF Renewing
<1>8. LogsOf(cache'.body) \subseteq LogsOf(cache.body) /\ InOrder(cache'.body)
  BY <1>1, CacheBody, PositionKeeps DEF Sorted
<1>9. CASE cacheDay' = day
  BY <1>1, <1>2, <1>6, <1>8, <1>9, OrderKept
<1>10. CASE cacheDay' = cacheDay /\ ~Renewing
  BY <1>1, <1>2, <1>6, <1>8, <1>10, OrderKept
<1>11. QED
  BY <1>3, <1>7, <1>9, <1>10

\* One step, as long as it is not a failure.
LEMMA StepSorted ==
  ASSUME ~Readers, IInv, CopyInv, OrderInv, [Next]_vars
  PROVE  OrderInv'
<1> SUFFICES ASSUME NoFault' PROVE Sorted' /\ Dated'
  BY DEF OrderInv
<1>1. /\ NoFault /\ ~CrashAppending
      /\ ~(\E call \in FailingCalls : Fails(call))
  BY FaultsStay
<1>2. IInv' /\ Sorted /\ Dated
  BY <1>1, StepIInv DEF OrderInv
<1>3. CASE QuietStep
  BY <1>2, <1>3, QuietSorted
<1>4. CASE Load
  BY <1>1, <1>2, <1>4, LoadSorted
<1>5. CASE StoreRecord /\ PutRecord
  BY <1>2, <1>5, PutSorted
<1>6. CASE AppendUnmapped
  BY <1>1, <1>2, <1>6, UnmappedSorted
<1>7. CASE AppendUnlink
  <2>1. pc' = "open"
    BY <1>1, <1>7, AppendWorks DEF AppendLogFile
  <2>2. QED
    BY <1>2, <1>7, <2>1, UnlinkSorted
<1>8. CASE AppendOpen \/ AppendDiscard \/ AppendGrow \/ AppendCopy \/ AppendShrink
  <2>1. /\ AppendCopy => pc' = "shrink"
        /\ AppendShrink => pc' = "unlink"
    BY <1>1, <1>8, AppendWorks DEF AppendLogFile
  <2>2. Kept' = Kept
    BY <1>8, <2>1, OpenKept, GrowKept, CopyKept, ShrinkKept
  <2>3. /\ cache' = cache /\ UNCHANGED <<day, cacheDay, target>>
        /\ ~Renewing /\ Appending
    BY <1>8 DEF AppendOpen, AppendDiscard, AppendGrow, AppendCopy, AppendShrink, Renewing, Appending
  <2>4. /\ Days \subseteq Nat /\ day \in Nat
        /\ cacheDay <= target /\ target <= day
    BY <1>2, <2>3, DaysAreNumbers DEF Dated
  <2>5. LogsOf(cache'.body) \subseteq LogsOf(cache.body) /\ InOrder(cache'.body)
    BY <1>2, <2>3 DEF Sorted
  <2>6. QED
    BY <1>2, <2>2, <2>3, <2>4, <2>5, OrderKept
<1>9. QED
  BY <1>1, <1>3, <1>4, <1>5, <1>6, <1>7, <1>8, StepCases DEF AppendLogFile, QuietStep

\* While no call has failed and the process has not died, the archives give every
\* log once and in the order of the writes, day after day, and the cache those
\* that are newer, whenever no append is under way.
THEOREM IncrementalIsChronological == ASSUME ~Readers PROVE Spec => []Chronological
<1>1. Init => OrderInv
  <2> SUFFICES ASSUME Init PROVE Sorted /\ Dated
    BY DEF OrderInv
  <2>1. cache.body = <<>> /\ \A d \in Days : Kept[d] = <<>>
    BY DEF Init, CacheInit, Absent, Kept, Copying
  <2>2. InOrder(<<>>) /\ LogsOf(<<>>) = {}
    BY LogsOfEmpty DEF InOrder
  <2>3. Sorted
    BY <2>1, <2>2 DEF Sorted
  <2>4. Dated
    BY <2>1, <2>2 DEF Dated, Appending, Init, CacheInit
  <2>5. QED
    BY <2>3, <2>4
<1>2. OrderInv /\ IInv /\ CopyInv /\ [Next]_vars => OrderInv'
  BY StepSorted
<1>3. OrderInv => Chronological
  <2> SUFFICES ASSUME OrderInv, Settled PROVE Chronological
    BY DEF Chronological
  <2>1. Sorted /\ \A d \in Days : Kept[d] = archive[d].body
    BY DEF OrderInv, Settled, NoFault, Kept, Copying
  <2>2. QED
    BY <2>1 DEF Sorted, Chronological, Before
<1>4. QED
  BY <1>1, <1>2, <1>3, CopyInvariance, PTL DEF Spec
=============================================================================
