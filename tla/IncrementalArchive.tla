------------------------- MODULE IncrementalArchive -------------------------
(***************************************************************************)
(* Glog with incrementalArchive: Glog::appendLogFile copies the records of *)
(* the cache behind those of the archive of a day, then deletes the cache  *)
(* and starts a new one.  internalFlush appends to the archive of today;   *)
(* tryFlushAcrossDay, at construction and before a write while the daemon  *)
(* thread has the check switched on, to that of the day the cache was      *)
(* created.                                                                *)
(*                                                                         *)
(* Readers of the archives are other threads, and no lock is between them  *)
(* and the writer: GlogReader::openFile deletes, by name, a file whose     *)
(* header it does not like.                                                *)
(***************************************************************************)
EXTENDS CacheFile

CONSTANTS MaxDay,     \* bound: the days are 1 .. MaxDay
          Readers,    \* whether somebody opens archives while the writer works
          BirthTime   \* getFileCreateTime is the birth time (Apple), or ctime (Android)

ASSUME IncrementalAssumption ==
         MaxDay \in Nat \ {0} /\ Readers \in BOOLEAN /\ BirthTime \in BOOLEAN

VARIABLES archive,   \* archive[d]: the file under the name of day d
          day,       \* today
          cacheDay,  \* the day getFileCreateTime gives for the cache
          target,    \* the day whose archive appendLogFile works on
          fresh,     \* its variable recreate
          size,      \* its variable fileSize, in records
          linked,    \* whether the file it has open is still the one under the name
          suspects,  \* the days whose archive a reader is about to delete
          wrote      \* history: wrote[l] is the day of the write call of log l

dayVars == <<archive, day, cacheDay, target, fresh, size, linked, suspects, wrote>>
vars == <<cache, handle, loaded, num, pc, job, ok, next, acked, failures, crashes,
          archive, day, cacheDay, target, fresh, size, linked, suspects, wrote>>

Days == 1 .. MaxDay

Init == /\ CacheInit
        /\ archive = [d \in Days |-> Absent]
        /\ day = 1
        /\ cacheDay = 1
        /\ target = 1
        /\ fresh = FALSE
        /\ size = 0
        /\ linked = FALSE
        /\ suspects = {}
        /\ wrote = <<>>

NextDay == /\ day < MaxDay
           /\ day' = day + 1
           /\ UNCHANGED <<cache, handle, loaded, num, pc, job, ok, next, acked, failures, crashes>>
           /\ UNCHANGED <<archive, cacheDay, target, fresh, size, linked, suspects, wrote>>

-----------------------------------------------------------------------------
(* The cache file's creation time.                                         *)

\* Only the load creates the cache.
Load == /\ LoadOpen \/ LoadDiscard \/ LoadMap \/ LoadFails
        /\ cacheDay' = IF cache.kind = "absent" /\ cache'.kind # "absent" THEN day ELSE cacheDay
        /\ UNCHANGED <<archive, day, target, fresh, size, linked, suspects, wrote>>

\* A change of the file moves its ctime, at the latest when the page is written back.
Touched == IF BirthTime THEN {cacheDay} ELSE {cacheDay, day}

StoreRecord == /\ WriteRefused \/ CheckSpace \/ PutRecord \/ PutToNull
               /\ cacheDay' \in IF cache' = cache THEN {cacheDay} ELSE Touched
               /\ UNCHANGED <<archive, day, target, fresh, size, linked, suspects, wrote>>

-----------------------------------------------------------------------------
(* The calls.                                                              *)

\* m_shouldTryFlushAcrossDay, which the daemon thread sets, decides on the check.
Write == /\ WriteCall("day", "writeDay") \/ WriteCall("space", "write")
         /\ wrote' = Append(wrote, day)
         /\ UNCHANGED <<archive, day, cacheDay, target, fresh, size, linked, suspects>>

\* tryFlushAcrossDay: appends even when the cache holds no log.
CheckDay == /\ pc = "day"
            /\ IF cache.kind # "absent" /\ cacheDay # day
                 THEN pc' = "append" /\ target' = cacheDay /\ UNCHANGED ok
                 ELSE Return(FALSE) /\ UNCHANGED target
            /\ UNCHANGED <<cache, handle, loaded, num, job, next, acked, failures, crashes>>
            /\ UNCHANGED <<archive, day, cacheDay, fresh, size, linked, suspects, wrote>>

\* internalFlush
FlushToday == /\ pc = "flush"
              /\ num > 0
              /\ pc' = "append"
              /\ target' = day
              /\ UNCHANGED <<cache, handle, loaded, num, job, ok, next, acked, failures, crashes>>
              /\ UNCHANGED <<archive, day, cacheDay, fresh, size, linked, suspects, wrote>>

\* loadFromDisk returns to the constructor, or through appendLogFile.
AfterLoad == /\ pc = "loaded"
             /\ IF job = "start"
                  THEN pc' = "day" /\ loaded' = ok /\ job' = "startDay"
                  ELSE pc' = "flushed" /\ UNCHANGED <<loaded, job>>
             /\ UNCHANGED <<cache, handle, num, ok, next, acked, failures, crashes>>
             /\ UNCHANGED dayVars

\* appendLogFile returns through tryFlushAcrossDay, whose result the write
\* ignores, or through internalFlush.
AfterFlush == /\ pc = "flushed"
              /\ CASE job = "writeDay" -> pc' = "space" /\ job' = "write"
                   [] job = "write" /\ ok -> pc' = "put" /\ UNCHANGED job
                   [] OTHER -> pc' = "idle" /\ UNCHANGED job
              /\ UNCHANGED <<cache, handle, loaded, num, ok, next, acked, failures, crashes>>
              /\ UNCHANGED dayVars
-----------------------------------------------------------------------------
(* appendLogFile.                                                          *)

Disk == archive[target]
Prefix == SubSeq(Disk.body, 1, size)

\* A change through the open descriptor shows under the name while that is linked.
PutArchive(f) == archive' = IF linked THEN [archive EXCEPT ![target] = f] ELSE archive

\* The failure paths close the cache, which stays closed until the next start.
AbortAppend == handle' = "closed" /\ num' = 0 /\ Return(FALSE)

AppendOpen ==
  /\ pc = "append"
  /\ \/ /\ Works
        /\ archive' = IF Disk.kind = "absent" THEN [archive EXCEPT ![target] = Empty] ELSE archive
        /\ linked' = TRUE
        /\ pc' = "header"
        /\ UNCHANGED ok
     \/ /\ Fails("open")
        /\ Return(FALSE)
        /\ UNCHANGED <<archive, linked>>
  /\ UNCHANGED <<cache, handle, loaded, num, job, next, acked, crashes>>
  /\ UNCHANGED <<day, cacheDay, target, fresh, size, suspects, wrote>>

\* Mutant of AppendHeader: the size is one record short.
AppendHeaderShort ==
  /\ pc = "header" /\ Disk.kind # "zeros"
  /\ fresh' = (Disk.kind # "valid")
  /\ size' = Len(Disk.body) - 1
  /\ pc' = "grow"
  /\ UNCHANGED <<cache, handle, loaded, num, job, ok, next, acked, failures, crashes>>
  /\ UNCHANGED <<archive, day, cacheDay, target, linked, suspects, wrote>>

\* getFileSize goes by the name and finds nothing when that is gone.
AppendHeader ==
  /\ pc = "header"
  /\ Disk.kind # "zeros"
  /\ fresh' = (Disk.kind # "valid")
  /\ size' = Len(Disk.body)
  /\ pc' = "grow"
  /\ UNCHANGED <<cache, handle, loaded, num, job, ok, next, acked, failures, crashes>>
  /\ UNCHANGED <<archive, day, cacheDay, target, linked, suspects, wrote>>

\* Mutant of AppendDiscard: the file is not deleted, and no recursion limit stops the append.
AppendDiscardNothing ==
  /\ pc = "header" /\ Disk.kind = "zeros"
  /\ pc' = "append"
  /\ UNCHANGED <<cache, handle, loaded, num, job, ok, next, acked, failures, crashes>>
  /\ UNCHANGED dayVars

\* A file with a broken header is deleted and the append starts over.
AppendDiscard ==
  /\ pc = "header"
  /\ Disk.kind = "zeros"
  /\ \/ /\ Works
        /\ archive' = [archive EXCEPT ![target] = Absent]
        /\ pc' = "append"
        /\ UNCHANGED <<handle, num, ok>>
     \/ /\ Fails("remove")
        /\ AbortAppend
        /\ UNCHANGED archive
  /\ UNCHANGED <<cache, loaded, job, next, acked, crashes>>
  /\ UNCHANGED <<day, cacheDay, target, fresh, size, linked, suspects, wrote>>

\* ftruncate up to whole pages: zeros behind the records, or a file of zeros.
AppendGrow ==
  /\ pc = "grow"
  /\ handle = "mapped"
  /\ \/ /\ Works
        /\ PutArchive(IF fresh THEN Zeros ELSE Valid(Append(Prefix, Gap)))
        /\ pc' = "copy"
        /\ UNCHANGED <<handle, num, ok>>
     \/ /\ Fails("size archive")
        /\ AbortAppend
        /\ UNCHANGED archive
  /\ UNCHANGED <<cache, loaded, job, next, acked, crashes>>
  /\ UNCHANGED <<day, cacheDay, target, fresh, size, linked, suspects, wrote>>

\* Nothing to copy, to a file that ends on a page boundary: mmap of 0 bytes fails.
AppendNothing ==
  /\ pc = "grow"
  /\ handle = "mapped" /\ cache.body = <<>> /\ ~fresh
  /\ AbortAppend
  /\ UNCHANGED <<cache, loaded, job, next, acked, failures, crashes>>
  /\ UNCHANGED dayVars

\* Without a mapping m_position is 0.  If the load got as far as the header, that
\* makes getDataLength 0 - m_headerSize in a size_t: ftruncate cuts back to the
\* last page boundary the archive if it is past that by no more than a header
\* (here: by at most one record), and zeroFillFile runs until write fails.
\* Otherwise nothing is copied: the append fails at mmap of 0 bytes, or at the
\* test of the cache's pointer, when the archive has grown to whole pages.
Zeroed == IF size = 0 THEN {Zeros}
          ELSE {Valid(Append(SubSeq(Disk.body, 1, k), Gap)) : k \in {size - 1, size}}

AppendUnmapped ==
  /\ pc = "grow"
  /\ handle # "mapped"
  /\ AbortAppend
  /\ IF handle = "null" /\ cache.kind = "valid" /\ ~fresh
       THEN IF linked THEN \E f \in Zeroed : PutArchive(f) ELSE UNCHANGED archive
       ELSE \/ UNCHANGED archive
            \/ ~fresh /\ PutArchive(Valid(Append(Prefix, Gap)))
  /\ UNCHANGED <<cache, loaded, job, next, acked, failures, crashes>>
  /\ UNCHANGED <<day, cacheDay, target, fresh, size, linked, suspects, wrote>>

\* Mutant of AppendCopy: nothing is copied, and the zeros stay.
AppendCopyNothing ==
  /\ pc = "copy"
  /\ Works
  /\ PutArchive(Valid(Prefix \o [i \in DOMAIN cache.body |-> Gap]))
  /\ pc' = "shrink"
  /\ UNCHANGED <<cache, handle, loaded, num, job, ok, next, acked, crashes>>
  /\ UNCHANGED <<day, cacheDay, target, fresh, size, linked, suspects, wrote>>

\* zeroFillFile, mmap, memcpy; what page rounding left behind the copy is zeros.
AppendCopy ==
  /\ pc = "copy"
  /\ \/ /\ Works
        /\ \E pad \in {<<>>, <<Gap>>} : PutArchive(Valid(Prefix \o (cache.body \o pad)))
        /\ pc' = "shrink"
        /\ UNCHANGED <<handle, num, ok>>
     \/ /\ Fails("fill archive") \/ Fails("map archive")
        /\ AbortAppend
        /\ UNCHANGED archive
  /\ UNCHANGED <<cache, loaded, job, next, acked, crashes>>
  /\ UNCHANGED <<day, cacheDay, target, fresh, size, linked, suspects, wrote>>

\* Mutant of AppendShrink: the page rounding stays behind the records.
AppendShrinkNothing ==
  /\ pc = "shrink"
  /\ Works
  /\ handle' = "closed" /\ num' = 0 /\ pc' = "unlink"
  /\ UNCHANGED <<cache, loaded, job, ok, next, acked, crashes>>
  /\ UNCHANGED dayVars

\* ftruncate down to the records, then both files are closed.
AppendShrink ==
  /\ pc = "shrink"
  /\ \/ /\ Works
        /\ PutArchive(Valid(SubSeq(Disk.body, 1, size + Len(cache.body))))
        /\ handle' = "closed"
        /\ num' = 0
        /\ pc' = "unlink"
        /\ UNCHANGED ok
     \/ /\ Fails("size archive")
        /\ AbortAppend
        /\ UNCHANGED archive
  /\ UNCHANGED <<cache, loaded, job, next, acked, crashes>>
  /\ UNCHANGED <<day, cacheDay, target, fresh, size, linked, suspects, wrote>>

\* Mutant of AppendUnlink: the cache is kept and loaded again.
AppendUnlinkNothing ==
  /\ pc = "unlink"
  /\ Works
  /\ pc' = "open"
  /\ UNCHANGED <<cache, handle, loaded, num, job, ok, next, acked, crashes>>
  /\ UNCHANGED dayVars

\* remove of the cache; the load that follows makes a new one.
AppendUnlink ==
  /\ pc = "unlink"
  /\ \/ /\ Works
        /\ cache' = Absent
        /\ pc' = "open"
        /\ UNCHANGED ok
     \/ /\ Fails("remove")
        /\ Return(FALSE)
        /\ UNCHANGED cache
  /\ UNCHANGED <<handle, loaded, num, job, next, acked, crashes>>
  /\ UNCHANGED dayVars

AppendLogFile == \/ AppendOpen \/ AppendHeader \/ AppendDiscard \/ AppendGrow
                 \/ AppendNothing \/ AppendUnmapped \/ AppendCopy \/ AppendShrink
                 \/ AppendUnlink

-----------------------------------------------------------------------------
(* The death of the process inside memcpy leaves a part of the copy.       *)

CrashedArchive ==
  IF pc = "copy" /\ linked
    THEN {[archive EXCEPT ![target] = f] :
            f \in {Disk} \cup {Valid(Prefix \o Append(SubSeq(cache.body, 1, k), Gap)) :
                                k \in 0 .. Len(cache.body)}}
    ELSE {archive}

CrashAppending == /\ Crash
                  /\ archive' \in CrashedArchive
                  /\ linked' = FALSE
                  /\ suspects' = {}
                  /\ UNCHANGED <<day, cacheDay, target, fresh, size, wrote>>

-----------------------------------------------------------------------------
(* Another thread opens a reader on the archive of day d: GlogReader's     *)
(* openFile reads the header, and deletes the file if that is broken.      *)

ReaderDislikes(d) == /\ Readers
                     /\ pc \notin {"down", "segv"}
                     /\ archive[d].kind \in {"empty", "zeros"}
                     /\ suspects' = suspects \cup {d}
                     /\ UNCHANGED <<cache, handle, loaded, num, pc, job, ok, next, acked, failures, crashes>>
                     /\ UNCHANGED <<archive, day, cacheDay, target, fresh, size, linked, wrote>>

ReaderRemoves(d) == /\ pc \notin {"down", "segv"}
                    /\ d \in suspects
                    /\ suspects' = suspects \ {d}
                    /\ archive' = [archive EXCEPT ![d] = Absent]
                    /\ linked' = (linked /\ d # target)
                    /\ UNCHANGED <<cache, handle, loaded, num, pc, job, ok, next, acked, failures, crashes>>
                    /\ UNCHANGED <<day, cacheDay, target, fresh, size, wrote>>

-----------------------------------------------------------------------------
Next == \/ Start /\ UNCHANGED dayVars
        \/ Load
        \/ Write
        \/ CheckDay
        \/ StoreRecord
        \/ FlushCall /\ UNCHANGED dayVars
        \/ FlushNothing /\ UNCHANGED dayVars
        \/ FlushToday
        \/ AppendLogFile
        \/ AfterLoad
        \/ AfterFlush
        \/ CrashAppending
        \/ NextDay
        \/ \E d \in Days : ReaderDislikes(d) \/ ReaderRemoves(d)

Spec == Init /\ [][Next]_vars

\* A thread inside a call of Glog keeps running; nobody has to call, or to restart.
FairSpec == /\ Spec
            /\ WF_vars(Load) /\ WF_vars(CheckDay) /\ WF_vars(StoreRecord)
            /\ WF_vars(FlushNothing /\ UNCHANGED dayVars) /\ WF_vars(FlushToday)
            /\ WF_vars(AppendLogFile) /\ WF_vars(AfterLoad) /\ WF_vars(AfterFlush)

-----------------------------------------------------------------------------
Archived == UNION {LogsOf(archive[d].body) : d \in Days}
Stored == Archived \cup SafeOf(cache.body)
Found == SafeOf(cache.body) \cup UNION {SafeOf(archive[d].body) : d \in Days}

\* The values the variables range over.
TypeOK == /\ CacheTypeOK
          /\ pc \in {"down", "segv", "open", "map", "loaded", "idle", "space", "put", "flush",
                     "flushed", "day", "append", "header", "grow", "copy", "shrink", "unlink"}
          /\ job \in {"none", "start", "startDay", "write", "writeDay", "flush"}
          /\ archive \in [Days -> File]
          /\ day \in Days /\ cacheDay \in Days /\ target \in Days
          /\ fresh \in BOOLEAN
          /\ size \in Nat
          /\ linked \in BOOLEAN
          /\ suspects \subseteq Days
          /\ wrote \in Seq(Days)

\* Cache and archives form a durable log: the copy is complete in a file under
\* its name before the cache is deleted, whichever system calls fail and
\* wherever the process dies in between.  Only behind a torn record of the cache
\* may a restart lose logs.
Log == INSTANCE DurableLog
         WITH Logs <- 1 .. MaxLog, stored <- Stored, torn <- Torn(cache.body),
              exposed <- LogsOf(cache.body) \ Stored
LogSpec == Log!Spec

\* A crash or a failed call puts readers out of step in one file at most, counted
\* whenever no copy is under way; and in that file only what comes behind the
\* damage is uncertain.  What a reader is certain to find it finds for ever,
\* unless its cache is appended to an archive damaged before, and a log
\* acknowledged while the cache is intact it finds.
DamagedFiles == Cardinality({d \in Days : OutOfStep(archive[d].body)})
                  + (IF OutOfStep(cache.body) THEN 1 ELSE 0)
Copying == pc \in {"copy", "shrink", "unlink"}
DamageContained ==
  /\ [](~Copying => DamagedFiles <= crashes + failures)
  /\ [][/\ Found \subseteq Found' \/ (pc = "unlink" /\ Torn(Prefix))
        /\ ~Torn(cache.body) => acked' \ acked \subseteq Found']_vars

\* While nothing has failed, each archive, and the archives followed by the
\* cache, give every log once and in the order of the writes, whenever no flush
\* is under way.
Settled == pc \in {"idle", "day", "space", "put", "flush"} /\ failures = 0 /\ crashes = 0
Chronological ==
  Settled => /\ InOrder(cache.body)
             /\ \A d \in Days : InOrder(archive[d].body) /\ Before(archive[d], cache)
             /\ \A d, e \in Days : d < e => Before(archive[d], archive[e])

\* The comment of tryFlushAcrossDay: with no data in the cache the flush is
\* "for the purpose of update cache file's creation time", so an append of an
\* empty cache costs the archives no log.
EmptyAppendIsHarmless ==
  [][pc = "grow" /\ num = 0 =>
       \A d \in Days : LogsOf(archive[d].body) \subseteq LogsOf(archive'[d].body)]_vars

\* Glog.h of incrementalArchive: a flush "will flush cache to log archive of
\* today".  When appendLogFile deletes the cache, the archive has all its logs.
FlushArrives ==
  [][pc = "unlink" /\ cache'.kind = "absent" =>
       LogsOf(cache.body) \subseteq LogsOf(archive[target].body)]_vars

\* Every call returns: no failure, and no reader deleting the archive, leaves
\* the writer spinning in loadFromDisk or appendLogFile.
CallsReturn == pc \notin {"idle", "down", "segv"} ~> pc \in {"idle", "down", "segv"}

\* "Incremental archive, log within a day write to same file": the archive of a
\* day holds logs written on that day.
DayFile == \A d \in Days : \A l \in LogsOf(archive[d].body) : wrote[l] = d
=============================================================================
