----------------------------- MODULE CacheFile -----------------------------
(***************************************************************************)
(* The mmap-ed cache file of a Glog instance (Core/GlogFile.cpp and the    *)
(* write path of Core/Glog_IO.cpp): how a process opens it, puts records   *)
(* into it and finds it again after a crash.  The two ways of archiving it *)
(* are RotatingArchive and IncrementalArchive, which extend this module.   *)
(*                                                                         *)
(* Writes and flushes of one instance are serial: they hold                *)
(* m_syncWriteLock in sync mode and all run on the worker in async mode,   *)
(* so one program counter does.  Every system call that may fail, and      *)
(* every point where a crash leaves a different disk, is a step.           *)
(*                                                                         *)
(* A log is the number of its write call.  A body is the sequence of       *)
(* records between the header and m_position; Gap is a run of bytes that   *)
(* is not a record: one torn by a crash at any of its bytes, or zeros.     *)
(* What follows a gap is read from a wrong place or with a wrong length    *)
(* until some sync marker puts the reader right, so nothing is said of     *)
(* when that is.  All records take the same room.  Crash means the death   *)
(* of the process: the pages of a shared mapping survive it.               *)
(***************************************************************************)
EXTENDS Naturals, Sequences, FiniteSets

CONSTANTS MaxLog,        \* bound: number of write calls
          CacheCapacity, \* how many records fit into the cache
          FailingCalls,  \* the system calls that may fail
          MaxFailures,   \* bound: number of failures of system calls
          MaxCrashes     \* bound: number of crashes

ASSUME CacheFileAssumption ==
         /\ MaxLog \in Nat
         /\ CacheCapacity \in Nat \ {0}
         /\ MaxFailures \in Nat
         /\ MaxCrashes \in Nat

ASSUME FailingCallsAssumption ==
         FailingCalls \subseteq {"open", "ftruncate", "write", "mmap", "rename", "remove",
                                "size archive", "fill archive", "map archive"}

VARIABLES cache,     \* the file under the cache name: [kind, body]
          handle,    \* m_fd/m_ptr/m_size: "closed", "mapped", or open with m_ptr null
          loaded,    \* m_loadFileCompleted
          num,       \* m_totalLogNum
          pc,        \* what the serial writer does next
          job,       \* on whose behalf
          ok,        \* the result of the last load or flush
          next,      \* number of the last write call
          acked,     \* history: logs whose write returned true
          failures,  \* how many system calls have failed
          crashes    \* how many times the process has died

Gap == 0
Kinds == {"absent", "empty", "zeros", "valid"}
File == [kind : Kinds, body : Seq(Nat)]
Absent == [kind |-> "absent", body |-> <<>>]
Empty == [kind |-> "empty", body |-> <<>>]
Zeros == [kind |-> "zeros", body |-> <<>>]
Valid(b) == [kind |-> "valid", body |-> b]

\* The logs whose records a body holds.
LogsOf(b) == {b[i] : i \in DOMAIN b} \ {Gap}

Torn(b) == \E i \in DOMAIN b : b[i] = Gap

\* Where whoever walks the records of a body is certain to find a log: before
\* any gap.  Behind a record torn before its length the next record is read as
\* a length, which may jump over any number of records; behind one torn later
\* the search for the next sync marker may miss that of a short record.
SafeAt(b) == {i \in DOMAIN b : \A j \in 1 .. i : b[j] # Gap}
SafeOf(b) == {b[i] : i \in SafeAt(b)}

\* A log lies behind a gap.
OutOfStep(b) == \E i, j \in DOMAIN b : i < j /\ b[i] = Gap /\ b[j] # Gap

\* The logs of a body are in the order of their writes, those of f before those of g.
InOrder(b) == \A i, j \in DOMAIN b : i < j /\ b[i] # Gap /\ b[j] # Gap => b[i] < b[j]
Before(f, g) == \A k \in LogsOf(f.body), l \in LogsOf(g.body) : k < l

Works == UNCHANGED failures
Fails(call) == /\ call \in FailingCalls
               /\ failures < MaxFailures
               /\ failures' = failures + 1

Return(result) == pc' = "flushed" /\ ok' = result

CacheInit == /\ cache = Absent
             /\ handle = "closed"
             /\ loaded = FALSE
             /\ num = 0
             /\ pc = "down"
             /\ job = "none"
             /\ ok = FALSE
             /\ next = 0
             /\ acked = {}
             /\ failures = 0
             /\ crashes = 0

-----------------------------------------------------------------------------
(* GlogFile::calculatePosition: the body as a load takes it.  Once a gap   *)
(* has put it out of step, the position may end behind the last record, or *)
(* beyond it, with a gap in between, or before it.  It stops before a      *)
(* record only when no sync marker lies SYNC_MARKER_LENGTH further on, so  *)
(* within the last 15 bytes, which are of two records at most; the next    *)
(* write goes over them.                                                   *)

LogsBehind(b, k) == {i \in k + 1 .. Len(b) : b[i] # Gap}

Cuts(b) == {k \in DOMAIN b : /\ \E i \in 1 .. k : i < Len(b) /\ b[i] = Gap
                            /\ Cardinality(LogsBehind(b, k)) <= 2}

Positions(b) == {b} \cup {Append(SubSeq(b, 1, k), Gap) : k \in Cuts(b)}

\* How many logs it counts on the way: those before a gap for certain.
Counts(b) == Cardinality(SafeAt(b)) .. Cardinality(LogsBehind(b, 0))

-----------------------------------------------------------------------------
(* GlogFile::loadFromDisk, called by the constructor and after a flush.    *)

Start == /\ pc \in {"down", "segv"}
         /\ pc' = "open"
         /\ job' = "start"
         /\ handle' = "closed"
         /\ loaded' = FALSE
         /\ num' = 0
         /\ UNCHANGED <<cache, ok, next, acked, failures, crashes>>

LoadOpen == /\ pc = "open"
            /\ handle' = "closed"
            /\ num' = 0
            /\ \/ /\ Works
                  /\ cache' = IF cache.kind = "absent" THEN Empty ELSE cache
                  /\ pc' = "map"
                  /\ UNCHANGED ok
               \/ /\ Fails("open")
                  /\ pc' = "loaded"
                  /\ ok' = FALSE
                  /\ UNCHANGED cache
            /\ UNCHANGED <<job, loaded, next, acked, crashes>>

\* Mutant of LoadDiscard: the file is not deleted, and no recursion limit stops the load.
DiscardNothing == /\ pc = "map" /\ cache.kind = "zeros"
                  /\ pc' = "open"
                  /\ UNCHANGED <<cache, handle, loaded, num, job, ok, next, acked, failures, crashes>>

\* A file with a broken header is deleted and the load starts over.
LoadDiscard == /\ pc = "map"
               /\ cache.kind = "zeros"
               /\ \/ /\ Works
                     /\ cache' = Absent
                     /\ pc' = "open"
                     /\ UNCHANGED <<handle, ok>>
                  \/ /\ Fails("remove")
                     /\ handle' = "null"
                     /\ pc' = "loaded"
                     /\ ok' = FALSE
                     /\ UNCHANGED cache
               /\ UNCHANGED <<job, loaded, num, next, acked, crashes>>

\* Mutant of LoadMap: the number of logs is one short.
LoadMapMiscounting == /\ pc = "map" /\ cache.kind \in {"empty", "valid"}
                      /\ Works
                      /\ \E b \in Positions(cache.body) : cache' = Valid(b)
                      /\ handle' = "mapped"
                      /\ num' = Cardinality(SafeAt(cache.body)) - 1
                      /\ pc' = "loaded" /\ ok' = TRUE
                      /\ UNCHANGED <<job, loaded, next, acked, crashes>>

\* Mutant of LoadMap: every file is a brand-new one, filled with zeros.
LoadMapAfresh == /\ pc = "map" /\ cache.kind \in {"empty", "valid"}
                 /\ Works
                 /\ cache' = Valid(<<>>)
                 /\ handle' = "mapped" /\ num' = 0
                 /\ pc' = "loaded" /\ ok' = TRUE
                 /\ UNCHANGED <<job, loaded, next, acked, crashes>>

LoadMap == /\ pc = "map"
           /\ cache.kind \in {"empty", "valid"}
           /\ Works
           /\ \E b \in Positions(cache.body) : cache' = Valid(b)
           /\ handle' = "mapped"
           /\ num' \in Counts(cache.body)
           /\ pc' = "loaded"
           /\ ok' = TRUE
           /\ UNCHANGED <<job, loaded, next, acked, crashes>>

\* What a failing call of the load leaves behind: m_size is the size of the
\* file as far as it got, and only zeroFillFile's failure closes the file again.
LoadFails == /\ pc = "map"
             /\ cache.kind \in {"empty", "valid"}
             /\ \/ /\ Fails("ftruncate")
                   /\ handle' = IF cache.kind = "empty" THEN "closed" ELSE "null"
                   /\ UNCHANGED cache
                \/ /\ Fails("mmap")
                   /\ handle' = "null"
                   /\ cache' = IF cache.kind = "empty" THEN Zeros ELSE cache
                \/ /\ cache.kind = "empty"
                   /\ Fails("write")
                   /\ handle' = "closed"
                   /\ cache' = Zeros
             /\ pc' = "loaded"
             /\ ok' = FALSE
             /\ UNCHANGED <<job, loaded, num, next, acked, crashes>>

-----------------------------------------------------------------------------
(* Glog::writeSync and GlogFile::writeLogData.                             *)

\* The write enters at "space", or first at the across-day check.
WriteCall(entry, j) == /\ pc = "idle"
                       /\ next < MaxLog
                       /\ next' = next + 1
                       /\ pc' = entry
                       /\ job' = j
                       /\ UNCHANGED <<cache, handle, loaded, num, ok, acked, failures, crashes>>

WriteRefused == /\ pc = "space"
                /\ handle = "closed" \/ ~loaded
                /\ pc' = "idle"
                /\ UNCHANGED <<cache, handle, loaded, num, job, ok, next, acked, failures, crashes>>

\* m_position of a file that is open but not mapped is 0: there is room.
HasRoom == handle = "null" \/ Len(cache.body) < CacheCapacity

CheckSpace == /\ pc = "space"
              /\ handle # "closed" /\ loaded
              /\ pc' = IF HasRoom THEN "put" ELSE "flush"
              /\ UNCHANGED <<cache, handle, loaded, num, job, ok, next, acked, failures, crashes>>

PutRecord == /\ pc = "put"
             /\ handle = "mapped"
             /\ cache' = Valid(Append(cache.body, next))
             /\ num' = num + 1
             /\ acked' = acked \cup {next}
             /\ pc' = "idle"
             /\ UNCHANGED <<handle, loaded, job, ok, next, failures, crashes>>

\* memcpy to a null mapping ends the process.
PutToNull == /\ pc = "put"
             /\ handle = "null"
             /\ pc' = "segv"
             /\ UNCHANGED <<cache, handle, loaded, num, job, ok, next, acked, failures, crashes>>

FlushCall == /\ pc = "idle"
             /\ pc' = "flush"
             /\ job' = "flush"
             /\ UNCHANGED <<cache, handle, loaded, num, ok, next, acked, failures, crashes>>

FlushNothing == /\ pc = "flush"
                /\ num = 0
                /\ Return(FALSE)
                /\ UNCHANGED <<cache, handle, loaded, num, job, next, acked, failures, crashes>>

-----------------------------------------------------------------------------
(* The death of the process.  What the disk then shows of the cache: a     *)
(* record that has not begun, is torn, at the mode byte, the length, the   *)
(* data or the marker, or is complete.                                     *)

CrashedCache ==
  CASE pc = "put" /\ handle = "mapped" ->
         {cache, Valid(Append(cache.body, Gap)), Valid(Append(cache.body, next))}
    [] pc = "map" /\ cache.kind = "empty" -> {Empty, Zeros, Valid(<<>>)}
    [] OTHER -> {cache}

Crash == /\ pc \notin {"down", "segv"}
         /\ crashes < MaxCrashes
         /\ crashes' = crashes + 1
         /\ cache' \in CrashedCache
         /\ handle' = "closed"
         /\ loaded' = FALSE
         /\ num' = 0
         /\ pc' = "down"
         /\ UNCHANGED <<job, ok, next, acked, failures>>

CacheTypeOK == /\ cache \in File
               /\ handle \in {"closed", "null", "mapped"}
               /\ loaded \in BOOLEAN
               /\ num \in Nat
               /\ ok \in BOOLEAN
               /\ next \in 0 .. MaxLog
               /\ acked \subseteq 1 .. MaxLog
               /\ failures \in 0 .. MaxFailures
               /\ crashes \in 0 .. MaxCrashes
=============================================================================
