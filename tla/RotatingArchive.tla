-------------------------- MODULE RotatingArchive --------------------------
(***************************************************************************)
(* Glog without incrementalArchive: Glog::internalFlush renames the cache  *)
(* to a new archive, named by the wall clock in milliseconds, and starts a *)
(* new cache.                                                              *)
(***************************************************************************)
EXTENDS CacheFile

CONSTANTS MaxStamp,   \* bound: the time stamps are 1 .. MaxStamp, in the order of the clock
          ClockSteps  \* whether the clock may repeat or go back between flushes

ASSUME RotatingAssumption == MaxStamp \in Nat /\ ClockSteps \in BOOLEAN

VARIABLE archive  \* archive[s]: the file named by stamp s

vars == <<cache, handle, loaded, num, pc, job, ok, next, acked, failures, crashes, archive>>

Stamps == 1 .. MaxStamp
UsedStamps == {s \in Stamps : archive[s].kind # "absent"}

Init == /\ CacheInit
        /\ archive = [s \in Stamps |-> Absent]

-----------------------------------------------------------------------------
\* Mutant of Truncate: reports success when ftruncate fails.
TruncateHopefully == /\ pc = "flush" /\ num > 0
                     /\ \/ /\ Works
                           /\ handle' = "closed" /\ num' = 0 /\ pc' = "rename" /\ UNCHANGED ok
                        \/ /\ Fails("ftruncate")
                           /\ Return(TRUE) /\ UNCHANGED <<handle, num>>
                     /\ UNCHANGED <<cache, job, loaded, next, acked, crashes, archive>>

\* ftruncate to the actual size, then closeFile, which resets the counters.
Truncate == /\ pc = "flush"
            /\ num > 0
            /\ \/ /\ Works
                  /\ handle' = "closed"
                  /\ num' = 0
                  /\ pc' = "rename"
                  /\ UNCHANGED ok
               \/ /\ Fails("ftruncate")
                  /\ Return(FALSE)
                  /\ UNCHANGED <<handle, num>>
            /\ UNCHANGED <<cache, job, loaded, next, acked, crashes, archive>>

\* Only the order of the stamps matters: a later reading is the next number.
ClockReads(s) == ClockSteps \/ UsedStamps = 1 .. s - 1

\* Mutant of Rename: the cache is copied and stays.
RenameByCopy(s) == /\ pc = "rename" /\ ClockReads(s)
                   /\ Works
                   /\ archive' = [archive EXCEPT ![s] = cache]
                   /\ pc' = "open"
                   /\ UNCHANGED <<cache, ok, handle, loaded, num, job, next, acked, crashes>>

\* A file that already has the new name is deleted first; after a failed rename
\* the cache stays closed.
Rename(s) == /\ pc = "rename"
             /\ ClockReads(s)
             /\ \/ /\ Works
                   /\ archive' = [archive EXCEPT ![s] = cache]
                   /\ cache' = Absent
                   /\ pc' = "open"
                   /\ UNCHANGED ok
                \/ /\ Fails("rename")
                   /\ archive' = [archive EXCEPT ![s] = Absent]
                   /\ Return(FALSE)
                   /\ UNCHANGED cache
             /\ UNCHANGED <<handle, loaded, num, job, next, acked, crashes>>

\* loadFromDisk returns to the constructor, or to internalFlush.
AfterLoad == /\ pc = "loaded"
             /\ IF job = "start"
                  THEN pc' = "idle" /\ loaded' = ok
                  ELSE pc' = "flushed" /\ UNCHANGED loaded
             /\ UNCHANGED <<cache, handle, num, job, ok, next, acked, failures, crashes, archive>>

\* internalFlush returns to flush(), or to the write that found no room.
AfterFlush == /\ pc = "flushed"
              /\ pc' = IF job = "write" /\ ok THEN "put" ELSE "idle"
              /\ UNCHANGED <<cache, handle, loaded, num, job, ok, next, acked, failures, crashes, archive>>

Write == WriteCall("space", "write") /\ UNCHANGED archive
Load == (LoadOpen \/ LoadDiscard \/ LoadMap \/ LoadFails) /\ UNCHANGED archive
StoreRecord == (WriteRefused \/ CheckSpace \/ PutRecord \/ PutToNull) /\ UNCHANGED archive
Flush == \/ FlushNothing /\ UNCHANGED archive
         \/ Truncate
         \/ \E s \in Stamps : Rename(s)
         \/ AfterLoad
         \/ AfterFlush

Next == \/ Start /\ UNCHANGED archive
        \/ Load
        \/ Write
        \/ StoreRecord
        \/ FlushCall /\ UNCHANGED archive
        \/ Flush
        \/ Crash /\ UNCHANGED archive

Spec == Init /\ [][Next]_vars

\* A thread inside a call of Glog keeps running; nobody has to call, or to restart.
FairSpec == Spec /\ WF_vars(Load) /\ WF_vars(StoreRecord) /\ WF_vars(Flush)

-----------------------------------------------------------------------------
Archived == UNION {LogsOf(archive[s].body) : s \in Stamps}
Stored == Archived \cup SafeOf(cache.body)
Found == SafeOf(cache.body) \cup UNION {SafeOf(archive[s].body) : s \in Stamps}

\* The values the variables range over.
TypeOK == /\ CacheTypeOK
          /\ pc \in {"down", "segv", "open", "map", "loaded", "idle", "space", "put",
                     "flush", "rename", "flushed"}
          /\ job \in {"none", "start", "write", "flush"}
          /\ archive \in [Stamps -> File]

\* Files form a durable log: whatever internalFlush, the failures of its system
\* calls, crashes and restarts do, no record disappears, but for those that a
\* restart may lose behind a record of the cache torn by an earlier crash, and a
\* write that returned true is on the disk.
Log == INSTANCE DurableLog
         WITH Logs <- 1 .. MaxLog, stored <- Stored, torn <- Torn(cache.body),
              exposed <- LogsOf(cache.body) \ Stored
LogSpec == Log!Spec

\* Reading the archives by name and then the cache gives the logs in the order
\* they were written, none of them twice: rename moves a log, it never copies it.
Chronological == /\ InOrder(cache.body)
                 /\ \A s \in Stamps : InOrder(archive[s].body) /\ Before(archive[s], cache)
                 /\ \A s, t \in Stamps : s < t => Before(archive[s], archive[t])

\* A crash damages one file at most, and in it only what comes behind the damage;
\* a failing system call damages none.  What a reader is certain to find it
\* finds for ever, and a log acknowledged while the cache is intact it finds.
TornFiles == Cardinality({s \in Stamps : Torn(archive[s].body)})
               + (IF Torn(cache.body) THEN 1 ELSE 0)
DamageContained ==
  [][/\ Found \subseteq Found'
     /\ ~Torn(cache.body) => acked' \ acked \subseteq Found'
     /\ TornFiles' + crashes <= TornFiles + crashes']_vars

\* When internalFlush reports success, the cache is empty and mapped: all logs
\* written before are in archives, and the next write has room.
FlushedMeansArchived == pc = "flushed" /\ ok => cache = Valid(<<>>) /\ handle = "mapped"

\* The test of m_loadFileCompleted ("fail to write log data because the file
\* loading is not completed") keeps writes away from a cache that is not mapped.
NeverWritesToNull == pc # "segv"

\* Every call returns: no failure leaves the writer spinning in loadFromDisk.
CallsReturn == pc \notin {"idle", "down", "segv"} ~> pc \in {"idle", "down", "segv"}
=============================================================================
