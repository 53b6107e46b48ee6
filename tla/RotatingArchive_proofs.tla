----------------------- MODULE RotatingArchive_proofs -----------------------
(***************************************************************************)
(* RotatingArchive is a durable and chronological log for any number of    *)
(* write calls, of stamps, of failing system calls and of crashes,         *)
(* provided the clock does not repeat a stamp.  Besides the types, the     *)
(* inductive invariant says: a file without a valid header holds no        *)
(* record; no record is newer than the last write call, and none is that   *)
(* call's own record while the call is under way; and the cache that a     *)
(* flush opens is a new one.                                               *)
(***************************************************************************)
EXTENDS RotatingArchive, CacheFile_lemmas

\* What any file holds; it is what is stored and what is exposed together.
Held == LogsOf(cache.body) \cup Archived

FilesInv == FileOK(cache) /\ \A s \in Stamps : FileOK(archive[s])

Pending == job = "write" /\ pc \notin {"idle", "down", "segv"}
BoundInv == \A l \in Held : l <= next /\ (Pending => l < next)
CallInv == /\ pc \in {"space", "put"} => job = "write"
           /\ Pending => next > 0
           /\ pc \in {"flush", "rename", "flushed"} => job \in {"write", "flush"}
           /\ pc \in {"open", "map", "loaded"} => job # "none"

FreshInv == /\ job \in {"write", "flush"} /\ pc \in {"open", "map"} => cache.body = <<>>
            /\ job \in {"write", "flush"} /\ pc \in {"loaded", "flushed"} /\ ok =>
                 cache = Valid(<<>>) /\ handle = "mapped"

IInv == TypeOK /\ FilesInv /\ BoundInv /\ CallInv /\ FreshInv /\ Chronological

\* The steps that leave every file alone.
QuietStep == /\ \/ Start \/ WriteCall("space", "write") \/ WriteRefused \/ CheckSpace \/ PutToNull
                \/ FlushCall \/ FlushNothing \/ Truncate \/ AfterLoad \/ AfterFlush
                \/ UNCHANGED vars
             /\ UNCHANGED <<cache, archive>>

-----------------------------------------------------------------------------
LEMMA InitIInv == Init => IInv
<1> SUFFICES ASSUME Init PROVE IInv
  OBVIOUS
<1> USE DEF Init, CacheInit
<1>1. <<>> \in Seq(Nat)
  BY EmptySeq
<1>2. Absent \in File /\ Absent.body = <<>> /\ Absent.kind = "absent"
  BY <1>1 DEF Absent, File, Kinds
<1>3. TypeOK
  <2>1. 0 \in 0 .. MaxLog /\ 0 \in 0 .. MaxFailures /\ 0 \in 0 .. MaxCrashes
    BY CacheFileAssumption
  <2>2. archive \in [Stamps -> File]
    BY <1>2
  <2>3. QED
    BY <1>2, <2>1, <2>2 DEF TypeOK, CacheTypeOK
<1>4. Held = {}
  BY <1>2, LogsOfEmpty DEF Held, Archived
<1>5. FilesInv /\ BoundInv /\ CallInv /\ FreshInv
  BY <1>2, <1>4 DEF FilesInv, FileOK, BoundInv, CallInv, Pending, FreshInv
<1>6. Chronological
  BY <1>2, LogsOfEmpty DEF Chronological, InOrder, Before
<1>7. QED
  BY <1>3, <1>5, <1>6 DEF IInv

LEMMA NoRecordLost ==
  ASSUME cache'.body = cache.body, archive' = archive
  PROVE  Held' = Held
BY DEF Held, Archived

LEMMA BoundStep ==
  ASSUME BoundInv, Held' \subseteq Held,
         \/ next' = next /\ (Pending' => Pending)
         \/ next' = next + 1,
         next \in Nat, Held \subseteq Nat
  PROVE  BoundInv'
BY DEF BoundInv

LEMMA HeldAreNumbers == TypeOK => Held \subseteq Nat
<1> SUFFICES ASSUME TypeOK PROVE Held \subseteq Nat
  OBVIOUS
<1>1. cache.body \in Seq(Nat) /\ \A s \in Stamps : archive[s].body \in Seq(Nat)
  BY DEF TypeOK, CacheTypeOK, File
<1>2. QED
  BY <1>1, LogsOfIndexed DEF Held, Archived

LEMMA QuietIInv ==
  ASSUME IInv, QuietStep
  PROVE  IInv' /\ acked' = acked /\ crashes' = crashes
<1> USE DEF IInv, QuietStep
<1>1. TypeOK'
  <2>1. failures' \in 0 .. MaxFailures
    <3>1. Truncate => Works \/ \E call \in FailingCalls : Fails(call)
      BY DEF Truncate, Fails
    <3>2. ~Truncate => failures' = failures
      BY DEF Start, WriteCall, WriteRefused, CheckSpace, PutToNull, FlushCall, FlushNothing,
             AfterLoad, AfterFlush, vars
    <3>3. QED
      BY <3>1, <3>2, CountedFailure DEF TypeOK, CacheTypeOK
  <2>2. next' \in 0 .. MaxLog
    <3>1. next' = next \/ (next < MaxLog /\ next' = next + 1)
      BY DEF Start, WriteCall, WriteRefused, CheckSpace, PutToNull, FlushCall, FlushNothing,
             Truncate, AfterLoad, AfterFlush, vars
    <3>2. QED
      BY <3>1, CacheFileAssumption DEF TypeOK, CacheTypeOK
  <2>3. acked' = acked /\ crashes' = crashes
    BY DEF Start, WriteCall, WriteRefused, CheckSpace, PutToNull, FlushCall, FlushNothing,
           Truncate, AfterLoad, AfterFlush, vars
  <2>4. /\ handle' \in {"closed", "null", "mapped"} /\ loaded' \in BOOLEAN
        /\ ok' \in BOOLEAN /\ num' \in Nat
    <3>1. handle' = handle \/ handle' = "closed"
      BY DEF Start, WriteCall, WriteRefused, CheckSpace, PutToNull, FlushCall, FlushNothing,
             Truncate, AfterLoad, AfterFlush, vars
    <3>2. num' = num \/ num' = 0
      BY DEF Start, WriteCall, WriteRefused, CheckSpace, PutToNull, FlushCall, FlushNothing,
             Truncate, AfterLoad, AfterFlush, vars
    <3>3. ok' = ok \/ ok' = FALSE
      BY DEF Start, WriteCall, WriteRefused, CheckSpace, PutToNull, FlushCall, FlushNothing,
             Truncate, AfterLoad, AfterFlush, vars, Return
    <3>4. loaded' = loaded \/ loaded' = ok \/ loaded' = FALSE
      BY DEF Start, WriteCall, WriteRefused, CheckSpace, PutToNull, FlushCall, FlushNothing,
             Truncate, AfterLoad, AfterFlush, vars
    <3>5. handle' \in {"closed", "null", "mapped"} /\ num' \in Nat
      BY <3>1, <3>2 DEF TypeOK, CacheTypeOK
    <3>6. ok' \in BOOLEAN /\ loaded' \in BOOLEAN
      BY <3>3, <3>4, Zenon DEF TypeOK, CacheTypeOK
    <3>7. QED
      BY <3>5, <3>6
  <2>5. /\ job' \in {"none", "start", "write", "flush"}
        /\ pc' \in {"down", "segv", "open", "map", "loaded", "idle", "space", "put",
                    "flush", "rename", "flushed"}
    BY DEF TypeOK, Start, WriteCall, WriteRefused, CheckSpace, PutToNull, FlushCall,
           FlushNothing, Truncate, AfterLoad, AfterFlush, vars, Return
  <2>6. QED
    BY <2>1, <2>2, <2>3, <2>4, <2>5 DEF TypeOK, CacheTypeOK
<1>2. Held' = Held
  BY NoRecordLost
<1>3. acked' = acked /\ crashes' = crashes
  BY DEF Start, WriteCall, WriteRefused, CheckSpace, PutToNull, FlushCall, FlushNothing,
         Truncate, AfterLoad, AfterFlush, vars
<1>4. FilesInv' /\ Chronological'
  BY DEF FilesInv, FileOK, Chronological
<1>5. CallInv'
  BY DEF TypeOK, CacheTypeOK, CallInv, Pending, Start, WriteCall, WriteRefused, CheckSpace,
         PutToNull, FlushCall, FlushNothing, Truncate, AfterLoad, AfterFlush, vars, Return
<1>6. FreshInv'
  BY DEF FreshInv, CallInv, Start, WriteCall, WriteRefused, CheckSpace, PutToNull, FlushCall,
         FlushNothing, Truncate, AfterLoad, AfterFlush, vars, Return
<1>7. \/ next' = next /\ (Pending' => Pending)
      \/ next' = next + 1
  BY DEF CallInv, Pending, Start, WriteCall, WriteRefused, CheckSpace, PutToNull, FlushCall,
         FlushNothing, Truncate, AfterLoad, AfterFlush, vars, Return
<1>8. BoundInv'
  BY <1>2, <1>7, BoundStep, HeldAreNumbers DEF TypeOK, CacheTypeOK
<1>9. QED
  BY <1>1, <1>2, <1>3, <1>4, <1>5, <1>6, <1>8

LEMMA LoadIInv ==
  ASSUME IInv, LoadStep, UNCHANGED archive
  PROVE  IInv'
<1> USE DEF IInv
<1>1. /\ CacheTypeOK' /\ FileOK(cache') /\ cache'.body \in Positions(cache.body)
      /\ next' = next /\ job' = job /\ acked' = acked
      /\ pc \in {"open", "map"} /\ pc' \in {"open", "map", "loaded"}
  BY LoadKeeps DEF TypeOK, FilesInv
<1>2. TypeOK' /\ FilesInv'
  BY <1>1 DEF TypeOK, FilesInv
<1>3. /\ LogsOf(cache'.body) \subseteq LogsOf(cache.body)
      /\ InOrder(cache.body) => InOrder(cache'.body)
      /\ cache.body = <<>> => cache'.body = <<>>
  <2>1. cache.body \in Seq(Nat)
    BY DEF TypeOK, CacheTypeOK, File
  <2>2. QED
    BY <1>1, <2>1, PositionKeeps, EmptyIsSafe
<1>4. BoundInv' /\ CallInv'
  <2>1. Pending' => Pending
    BY <1>1 DEF Pending
  <2>2. Held' \subseteq Held
    BY <1>3 DEF Held, Archived
  <2>3. BoundInv'
    BY <1>1, <2>1, <2>2, BoundStep, HeldAreNumbers DEF TypeOK, CacheTypeOK
  <2>4. CallInv'
    BY <1>1, <2>1 DEF CallInv
  <2>5. QED
    BY <2>3, <2>4
<1>5. FreshInv'
  <2>1. pc' = "loaded" /\ ok' => cache' = Valid(cache'.body) /\ handle' = "mapped"
    BY DEF LoadStep, LoadOpen, LoadDiscard, LoadMap, LoadFails, Valid
  <2>2. QED
    BY <1>1, <1>3, <2>1 DEF FreshInv
<1>6. Chronological'
  BY <1>3 DEF Chronological, Before
<1>7. QED
  BY <1>1, <1>2, <1>4, <1>5, <1>6

LEMMA RenameIInv ==
  ASSUME IInv, NEW s \in Stamps, Rename(s), UNCHANGED <<handle, loaded, num, job, next, acked, crashes>>,
         ~ClockSteps
  PROVE  IInv' /\ archive[s].body = <<>>
<1> USE DEF IInv
<1>0. /\ cache \in File /\ \A t \in Stamps : archive[t] \in File
      /\ s \in Nat /\ pc = "rename" /\ job \in {"write", "flush"}
      /\ <<>> \in Seq(Nat)
  BY EmptySeq, RotatingAssumption DEF TypeOK, CacheTypeOK, CallInv, Rename, Stamps
<1>1. UsedStamps = 1 .. s - 1
  BY DEF Rename, ClockReads
<1>2. \A t \in Stamps : t >= s => archive[t].body = <<>>
  BY <1>0, <1>1, RotatingAssumption DEF UsedStamps, Stamps, FilesInv, FileOK
<1>3. archive[s].body = <<>>
  BY <1>0, <1>2
<1>4. CASE cache' = Absent /\ archive' = [archive EXCEPT ![s] = cache] /\ pc' = "open" /\ ok' = ok
            /\ failures' = failures
  <2>1. Absent \in File /\ Absent.body = <<>> /\ FileOK(Absent)
    BY <1>0 DEF Absent, File, Kinds, FileOK
  <2>2. TypeOK'
    BY <1>0, <1>4, <2>1 DEF TypeOK, CacheTypeOK
  <2>3. \A t \in Stamps : archive'[t] = IF t = s THEN cache ELSE archive[t]
    BY <1>4 DEF TypeOK
  <2>4. FilesInv'
    BY <1>4, <2>1, <2>3 DEF FilesInv
  <2>5. Held' = Held
    <3>1. LogsOf(archive[s].body) = {} /\ LogsOf(cache'.body) = {}
      BY <1>0, <1>2, <1>4, <2>1, LogsOfEmpty
    <3>2. QED
      BY <3>1, <2>3 DEF Held, Archived
  <2>6. BoundInv' /\ CallInv'
    <3>1. Pending' => Pending
      BY <1>0, <1>4 DEF Pending
    <3>2. BoundInv'
      BY <2>5, <3>1, BoundStep, HeldAreNumbers DEF TypeOK, CacheTypeOK
    <3>3. CallInv'
      BY <1>0, <1>4, <3>1 DEF CallInv
    <3>4. QED
      BY <3>2, <3>3
  <2>7. FreshInv'
    BY <1>4, <2>1 DEF FreshInv
  <2>8. Chronological'
    <3>1. InOrder(cache'.body) /\ LogsOf(cache'.body) = {}
      BY <1>4, <2>1, LogsOfEmpty DEF InOrder
    <3>2. \A t \in Stamps : InOrder(archive'[t].body) /\ Before(archive'[t], cache')
      BY <2>3, <3>1 DEF Chronological, Before
    <3>3. ASSUME NEW t \in Stamps, NEW u \in Stamps, t < u
          PROVE  Before(archive'[t], archive'[u])
      <4>1. CASE u = s
        BY <2>3, <3>3, <4>1, <1>0 DEF Chronological
      <4>2. CASE u # s /\ t # s
        BY <2>3, <3>3, <4>2 DEF Chronological
      <4>3. CASE t = s
        <5>1. archive'[u].body = <<>>
          BY <1>0, <1>2, <2>3, <3>3, <4>3 DEF Stamps
        <5>2. QED
          BY <5>1, LogsOfEmpty DEF Before
      <4>4. QED
        BY <4>1, <4>2, <4>3
    <3>4. QED
      BY <3>1, <3>2, <3>3 DEF Chronological
  <2>9. QED
    BY <1>3, <2>2, <2>4, <2>6, <2>7, <2>8
<1>5. CASE Fails("rename") /\ archive' = [archive EXCEPT ![s] = Absent] /\ Return(FALSE) /\ cache' = cache
  <2>1. Absent \in File /\ Absent.body = <<>> /\ FileOK(Absent)
    BY <1>0 DEF Absent, File, Kinds, FileOK
  <2>2. TypeOK'
    <3>1. failures' \in 0 .. MaxFailures
      BY <1>5, CountedFailure DEF TypeOK, Fails
    <3>2. QED
      BY <1>0, <1>5, <2>1, <3>1 DEF TypeOK, CacheTypeOK, Return
  <2>3. \A t \in Stamps : archive'[t].body = archive[t].body
    BY <1>0, <1>2, <1>5, <2>1 DEF TypeOK
  <2>4. FilesInv'
    BY <1>5, <2>1 DEF FilesInv, TypeOK
  <2>5. Held' = Held
    BY <1>5, <2>3 DEF Held, Archived
  <2>6. BoundInv' /\ CallInv'
    <3>1. Pending' => Pending
      BY <1>0, <1>5 DEF Pending
    <3>2. BoundInv'
      BY <2>5, <3>1, BoundStep, HeldAreNumbers DEF TypeOK, CacheTypeOK
    <3>3. CallInv'
      BY <1>0, <1>5, <3>1 DEF CallInv, Return
    <3>4. QED
      BY <3>2, <3>3
  <2>7. FreshInv'
    BY <1>5 DEF FreshInv, Return
  <2>8. Chronological'
    BY <1>5, <2>3 DEF Chronological, Before
  <2>9. QED
    BY <1>3, <2>2, <2>4, <2>6, <2>7, <2>8
<1>6. QED
  BY <1>4, <1>5 DEF Rename, Works

\* The cache gets a record behind the others: that of the pending call, or a torn one.
LEMMA AppendIInv ==
  ASSUME IInv, NEW x \in {Gap, next}, pc = "put", handle = "mapped", archive' = archive,
         cache' = Valid(Append(cache.body, x))
  PROVE  /\ cache' \in File
         /\ FilesInv'
         /\ Chronological'
         /\ Held' = Held \cup ({x} \ {Gap})
         /\ \A l \in Held : l < next
         /\ next \in 1 .. MaxLog
<1> USE DEF IInv
<1>1. /\ cache \in File /\ cache.body \in Seq(Nat)
      /\ next \in Nat /\ x \in Nat /\ next \in 1 .. MaxLog
  BY CacheFileAssumption DEF TypeOK, CacheTypeOK, File, Gap, CallInv, Pending
<1>2. /\ Append(cache.body, x) \in Seq(Nat)
      /\ LogsOf(Append(cache.body, x)) = LogsOf(cache.body) \cup ({x} \ {Gap})
  BY <1>1, LogsOfAppend
<1>3. cache' \in File /\ cache'.body = Append(cache.body, x) /\ cache'.kind = "valid"
  BY <1>2 DEF Valid, File, Kinds
<1>4. \A l \in Held : l < next
  BY DEF BoundInv, CallInv, Pending
<1>5. Held' = Held \cup ({x} \ {Gap})
  BY <1>2, <1>3 DEF Held, Archived
<1>6. InOrder(cache'.body)
  <2>1. \A l \in LogsOf(cache.body) : l < next
    BY <1>4 DEF Held
  <2>2. QED
    BY <1>1, <1>3, <2>1, AppendInOrder DEF Chronological
<1>7. \A s \in Stamps : Before(archive[s], cache')
  <2> SUFFICES ASSUME NEW s \in Stamps, NEW k \in LogsOf(archive[s].body),
                      NEW l \in LogsOf(cache.body) \cup ({x} \ {Gap})
               PROVE  k < l
    BY <1>2, <1>3 DEF Before
  <2>1. CASE l \in LogsOf(cache.body)
    BY <2>1 DEF Chronological, Before
  <2>2. CASE l \in {x} \ {Gap}
    <3>1. l = next /\ k \in Held
      BY <2>2 DEF Held, Archived
    <3>2. QED
      BY <1>4, <3>1
  <2>3. QED
    BY <2>1, <2>2
<1>8. Chronological'
  BY <1>6, <1>7 DEF Chronological
<1>9. FilesInv'
  BY <1>3 DEF FilesInv, FileOK
<1>10. QED
  BY <1>1, <1>3, <1>4, <1>5, <1>8, <1>9

LEMMA PutIInv ==
  ASSUME IInv, PutRecord, UNCHANGED archive
  PROVE  IInv'
<1> USE DEF PutRecord
<1>1. /\ cache' \in File /\ FilesInv' /\ Chronological'
      /\ Held' = Held \cup ({next} \ {Gap})
      /\ \A l \in Held : l < next
      /\ next \in 1 .. MaxLog
  BY AppendIInv
<1>2. next # Gap /\ Held' = Held \cup {next}
  BY <1>1 DEF Gap
<1>3. TypeOK'
  BY <1>1 DEF IInv, TypeOK, CacheTypeOK
<1>4. BoundInv'
  <2> SUFFICES ASSUME NEW l \in Held' PROVE l <= next
    BY DEF BoundInv, Pending
  <2>1. Held \subseteq Nat
    BY HeldAreNumbers DEF IInv
  <2>2. QED
    BY <1>1, <1>2, <2>1, CacheFileAssumption
<1>5. CallInv' /\ FreshInv'
  BY DEF CallInv, Pending, FreshInv
<1>6. QED
  BY <1>1, <1>2, <1>3, <1>4, <1>5 DEF IInv

LEMMA CrashIInv ==
  ASSUME IInv, Crash, UNCHANGED archive
  PROVE  IInv'
<1> USE DEF Crash
<1>0. TypeOK /\ next \in Nat
  BY DEF IInv, TypeOK, CacheTypeOK
<1>1. CallInv' /\ FreshInv' /\ ~Pending'
  BY DEF CallInv, Pending, FreshInv
<1>2. crashes' \in 0 .. MaxCrashes
  BY <1>0, CacheFileAssumption DEF TypeOK, CacheTypeOK
<1>3. CASE cache'.body = cache.body /\ cache' \in File /\ FileOK(cache')
  <2>1. Held' = Held
    BY <1>3, NoRecordLost
  <2>2. TypeOK'
    BY <1>2, <1>3 DEF IInv, TypeOK, CacheTypeOK
  <2>3. FilesInv' /\ Chronological'
    BY <1>3 DEF IInv, FilesInv, Chronological, Before
  <2>4. BoundInv'
    BY <1>0, <1>1, <2>1, BoundStep, HeldAreNumbers DEF IInv
  <2>5. QED
    BY <1>1, <2>1, <2>2, <2>3, <2>4 DEF IInv
<1>4. ASSUME NEW x \in {Gap, next}, pc = "put", handle = "mapped",
             cache' = Valid(Append(cache.body, x))
      PROVE  IInv'
  <2>1. /\ cache' \in File /\ FilesInv' /\ Chronological'
        /\ Held' = Held \cup ({x} \ {Gap})
        /\ \A l \in Held : l < next
        /\ next \in 1 .. MaxLog
    BY <1>4, AppendIInv
  <2>2. TypeOK'
    BY <1>2, <2>1 DEF IInv, TypeOK, CacheTypeOK
  <2>3. BoundInv'
    <3> SUFFICES ASSUME NEW l \in Held' PROVE l <= next
      BY <1>1 DEF BoundInv
    <3>1. Held \subseteq Nat
      BY HeldAreNumbers DEF IInv
    <3>2. QED
      BY <1>0, <2>1, <3>1
  <2>4. QED
    BY <1>1, <2>1, <2>2, <2>3 DEF IInv
<1>5. QED
  BY <1>3, <1>4, CrashKeeps DEF IInv, TypeOK, FilesInv

-----------------------------------------------------------------------------
LEMMA StepCases ==
  ASSUME [Next]_vars
  PROVE  \/ QuietStep
         \/ LoadStep /\ UNCHANGED archive
         \/ \E s \in Stamps : Rename(s)
         \/ PutRecord /\ UNCHANGED archive
         \/ Crash /\ UNCHANGED archive
<1>1. CASE (Start \/ FlushCall \/ FlushNothing \/ WriteRefused \/ CheckSpace \/ PutToNull
            \/ WriteCall("space", "write")) /\ UNCHANGED archive
  <2>1. cache' = cache
    BY <1>1 DEF Start, FlushCall, FlushNothing, WriteRefused, CheckSpace, PutToNull, WriteCall
  <2>2. QED
    BY <1>1, <2>1 DEF QuietStep
<1>2. CASE Truncate \/ AfterLoad \/ AfterFlush \/ UNCHANGED vars
  BY <1>2 DEF QuietStep, Truncate, AfterLoad, AfterFlush, vars
<1>3. QED
  BY <1>1, <1>2 DEF Next, Load, Write, StoreRecord, Flush, LoadStep

\* One step keeps the invariant.
LEMMA StepIInv ==
  ASSUME ~ClockSteps, IInv, [Next]_vars
  PROVE  IInv'
<1>1. ASSUME NEW s \in Stamps, Rename(s) PROVE IInv'
  <2>1. UNCHANGED <<handle, loaded, num, job, next, acked, crashes>>
    BY <1>1 DEF Rename
  <2>2. QED
    BY <1>1, <2>1, RenameIInv
<1>2. QED
  BY <1>1, QuietIInv, LoadIInv, PutIInv, CrashIInv, StepCases

LEMMA Invariance ==
  ASSUME ~ClockSteps
  PROVE  Spec => []IInv
<1>1. IInv /\ [Next]_vars => IInv'
  BY StepIInv
<1>2. QED
  BY InitIInv, <1>1, PTL DEF Spec

-----------------------------------------------------------------------------
\* The values of the variables.
THEOREM TypeCorrect == ASSUME ~ClockSteps PROVE Spec => []TypeOK
<1>1. IInv => TypeOK
  BY DEF IInv
<1>2. QED
  BY <1>1, Invariance, PTL

\* Archives by name and then the cache give every log once, in the order of the writes.
THEOREM ArchivesAreChronological == ASSUME ~ClockSteps PROVE Spec => []Chronological
<1>1. IInv => Chronological
  BY DEF IInv
<1>2. QED
  BY <1>1, Invariance, PTL

\* A flush that reports success has moved every log out of the cache.
THEOREM FlushArchives == ASSUME ~ClockSteps PROVE Spec => []FlushedMeansArchived
<1>1. IInv => FlushedMeansArchived
  BY DEF IInv, CallInv, FreshInv, FlushedMeansArchived
<1>2. QED
  BY <1>1, Invariance, PTL

-----------------------------------------------------------------------------
(* The durable log.  What is exposed is what stands in the cache behind a  *)
(* gap and in no archive.                                                  *)

Exposed == LogsOf(cache.body) \ Stored

LEMMA CacheBody ==
  ASSUME IInv
  PROVE  /\ cache.body \in Seq(Nat)
         /\ SafeOf(cache.body) \subseteq LogsOf(cache.body)
         /\ ~Torn(cache.body) => SafeOf(cache.body) = LogsOf(cache.body)
         /\ Held = Stored \cup Exposed
<1>1. cache.body \in Seq(Nat)
  BY DEF IInv, TypeOK, CacheTypeOK, File
<1>2. QED
  BY <1>1, SafeIndexed DEF Held, Stored, Exposed

LEMMA QuietRefines ==
  ASSUME archive' = archive, cache'.body = cache.body, acked' = acked
  PROVE  UNCHANGED Log!vars
BY DEF Log!vars, Stored, Archived

LEMMA LoadRefines ==
  ASSUME IInv, LoadStep, UNCHANGED archive
  PROVE  [Log!Next]_Log!vars
<1>1. cache'.body \in Positions(cache.body) /\ acked' = acked
  BY LoadKeeps DEF IInv, TypeOK, FilesInv
<1>2. CASE cache'.body = cache.body
  BY <1>1, <1>2, QuietRefines
<1>3. CASE cache'.body # cache.body
  <2>1. /\ SafeOf(cache'.body) = SafeOf(cache.body)
        /\ Torn(cache'.body) <=> Torn(cache.body)
        /\ Torn(cache.body)
        /\ LogsOf(cache'.body) \subseteq LogsOf(cache.body)
        /\ IsFiniteSet(LogsOf(cache.body) \ LogsOf(cache'.body))
        /\ Cardinality(LogsOf(cache.body) \ LogsOf(cache'.body)) <= 2
    BY <1>1, <1>3, CacheBody, PositionKeeps
  <2>2. Stored' = Stored
    BY <2>1 DEF Stored, Archived
  <2>3. Exposed' \subseteq Exposed /\ Exposed \ Exposed' \subseteq LogsOf(cache.body) \ LogsOf(cache'.body)
    BY <2>1, <2>2 DEF Exposed
  <2>4. IsFiniteSet(Exposed \ Exposed') /\ Cardinality(Exposed \ Exposed') <= 2
    <3>1. /\ IsFiniteSet(Exposed \ Exposed')
          /\ Cardinality(Exposed \ Exposed') <= Cardinality(LogsOf(cache.body) \ LogsOf(cache'.body))
      BY <2>1, <2>3, FS_Subset
    <3>2. /\ Cardinality(Exposed \ Exposed') \in Nat
          /\ Cardinality(LogsOf(cache.body) \ LogsOf(cache'.body)) \in Nat
      BY <2>1, <3>1, FS_CardinalityType
    <3>3. QED
      BY <2>1, <3>1, <3>2
  <2>5. Torn(cache.body)' = Torn(cache.body)
    BY <2>1, SameTruth
  <2>6. CASE Exposed \ Exposed' = {}
    <3>1. Exposed' = Exposed
      BY <2>3, <2>6
    <3>2. QED
      BY <1>1, <2>2, <2>5, <3>1, Zenon DEF Log!vars, Exposed
  <2>7. CASE Exposed \ Exposed' # {}
    <3>1. \E k, l \in Exposed : Exposed \ Exposed' \subseteq {k, l}
      BY <2>4, <2>7, Pair
    <3>2. Log!Reload
      BY <1>1, <2>1, <2>2, <2>3, <2>5, <3>1, Zenon DEF Log!Reload, Exposed
    <3>3. QED
      BY <3>2 DEF Log!Next
  <2>8. QED
    BY <2>6, <2>7
<1>4. QED
  BY <1>2, <1>3

LEMMA RenameRefines ==
  ASSUME ~ClockSteps, IInv, NEW s \in Stamps, Rename(s)
  PROVE  [Log!Next]_Log!vars
<1>1. acked' = acked /\ archive[s].body = <<>> /\ archive \in [Stamps -> File]
  BY RenameIInv DEF Rename, IInv, TypeOK
<1>2. Absent.body = <<>>
  BY DEF Absent
<1>3. CASE cache' = Absent /\ archive' = [archive EXCEPT ![s] = cache]
  <2>1. \A t \in Stamps : archive'[t] = IF t = s THEN cache ELSE archive[t]
    BY <1>1, <1>3
  <2>2. Archived' = Archived \cup LogsOf(cache.body)
    BY <1>1, <2>1, LogsOfEmpty DEF Archived
  <2>3. SafeOf(cache'.body) = {} /\ LogsOf(cache'.body) = {} /\ ~Torn(cache'.body)
    BY <1>2, <1>3, EmptyIsSafe, LogsOfEmpty
  <2>4. Stored' = Stored \cup Exposed
    BY <2>2, <2>3, CacheBody DEF Stored, Exposed
  <2>5. Exposed' = {}
    BY <2>3 DEF Exposed
  <2>6. Log!Archive(Exposed)
    <3>1. Exposed' = Exposed \ Exposed /\ Torn(cache.body)' = FALSE
      BY <2>3, <2>5
    <3>2. QED
      BY <1>1, <2>4, <2>5, <3>1 DEF Log!Archive, Exposed
  <2>7. QED
    BY <2>6 DEF Log!Next, Exposed
<1>4. CASE cache' = cache /\ archive' = [archive EXCEPT ![s] = Absent]
  <2>1. \A t \in Stamps : archive'[t].body = archive[t].body
    BY <1>1, <1>2, <1>4
  <2>2. Stored' = Stored
    BY <1>4, <2>1 DEF Stored, Archived
  <2>3. QED
    BY <1>1, <1>4, <2>2 DEF Log!vars
<1>5. QED
  BY <1>3, <1>4 DEF Rename

\* A record put behind the others is found where the cache is intact, and exposed where not.
LEMMA AppendRefines ==
  ASSUME IInv, NEW x \in {Gap, next}, pc = "put", handle = "mapped", archive' = archive,
         cache' = Valid(Append(cache.body, x))
  PROVE  /\ x = Gap => Stored' = Stored /\ Exposed' = Exposed /\ Torn(cache'.body)
         /\ x # Gap => /\ x \in 1 .. MaxLog /\ Log!Put(x)
                       /\ ~Torn(cache.body) => x \in SafeOf(cache'.body)
                       /\ Torn(cache'.body) <=> Torn(cache.body)
         /\ SafeOf(cache.body) \subseteq SafeOf(cache'.body)
<1>1. /\ \A l \in Held : l < next
      /\ next \in 1 .. MaxLog
  BY AppendIInv
<1>2. cache.body \in Seq(Nat) /\ x \in Nat
  BY <1>1, CacheBody DEF Gap
<1>3. cache'.body = Append(cache.body, x) /\ Archived' = Archived
  BY DEF Valid, Archived
<1>4. /\ LogsOf(cache'.body) = LogsOf(cache.body) \cup ({x} \ {Gap})
      /\ SafeOf(cache'.body) = SafeOf(cache.body) \cup IF Torn(cache.body) \/ x = Gap THEN {} ELSE {x}
      /\ Torn(cache'.body) <=> Torn(cache.body) \/ x = Gap
  BY <1>2, <1>3, LogsOfAppend, SafeOfAppend
<1>5. CASE x = Gap
  BY <1>3, <1>4, <1>5 DEF Stored, Exposed
<1>6. CASE x # Gap
  <2>1. x = next /\ x \in 1 .. MaxLog /\ \A l \in Stored \cup Exposed : l < x
    BY <1>1, <1>6, CacheBody
  <2>2. x \notin Stored
    BY <1>2, <2>1
  <2>3. CASE Torn(cache.body)
    <3>1. Stored' = Stored /\ Exposed' = Exposed \cup {x}
      BY <1>3, <1>4, <1>6, <2>2, <2>3 DEF Stored, Exposed
    <3>2. QED
      BY <1>4, <1>6, <2>1, <2>3, <3>1 DEF Log!Put, Exposed
  <2>4. CASE ~Torn(cache.body)
    <3>1. Stored' = Stored \cup {x} /\ Exposed = {} /\ Exposed' = {}
      <4>1. Stored' = Stored \cup {x}
        BY <1>3, <1>4, <1>6, <2>4 DEF Stored
      <4>2. Exposed = {}
        BY <2>4, CacheBody DEF Exposed, Stored
      <4>3. Exposed' = {}
        BY <1>4, <4>1, <2>4, CacheBody DEF Exposed, Stored
      <4>4. QED
        BY <4>1, <4>2, <4>3
    <3>2. Torn(cache.body)' = Torn(cache.body)
      BY <1>4, <1>6, SameTruth
    <3>3. Log!Put(x)
      BY <2>1, <2>4, <3>1, <3>2 DEF Log!Put, Exposed
    <3>4. QED
      BY <1>4, <1>6, <2>1, <2>4, <3>3
  <2>5. QED
    BY <2>3, <2>4
<1>7. QED
  BY <1>5, <1>6

LEMMA CrashRefines ==
  ASSUME IInv, Crash, UNCHANGED archive
  PROVE  [Log!Next]_Log!vars
<1>1. acked' = acked /\ cache' \in CrashedCache
  BY DEF Crash
<1>2. CASE cache'.body = cache.body
  BY <1>1, <1>2, QuietRefines
<1>3. ASSUME NEW x \in {Gap, next}, pc = "put", handle = "mapped",
             cache' = Valid(Append(cache.body, x))
      PROVE  Log!Next
  <2>1. CASE x = Gap
    <3>1. Log!Tear
      BY <1>1, <1>3, <2>1, AppendRefines DEF Log!Tear, Exposed
    <3>2. QED
      BY <3>1 DEF Log!Next
  <2>2. CASE x # Gap
    <3>1. x \in 1 .. MaxLog /\ Log!WriteUnacked(x)
      BY <1>1, <1>3, <2>2, AppendRefines DEF Log!WriteUnacked
    <3>2. QED
      BY <3>1 DEF Log!Next
  <2>3. QED
    BY <2>1, <2>2
<1>4. QED
  BY <1>1, <1>2, <1>3, CrashKeeps DEF IInv, TypeOK, FilesInv

LEMMA StepRefines ==
  ASSUME ~ClockSteps, IInv, [Next]_vars
  PROVE  [Log!Next]_Log!vars
<1>1. CASE QuietStep
  BY <1>1, QuietIInv, QuietRefines DEF QuietStep
<1>2. CASE PutRecord /\ UNCHANGED archive
  <2>1. next # Gap
    BY <1>2, AppendIInv DEF PutRecord, Gap
  <2>2. next \in 1 .. MaxLog /\ Log!Write(next)
    BY <1>2, <2>1, AppendRefines DEF PutRecord, Log!Write
  <2>3. QED
    BY <2>2 DEF Log!Next
<1>3. QED
  BY <1>1, <1>2, LoadRefines, RenameRefines, CrashRefines, StepCases

\* No flush, failing system call, crash or restart loses or reorders a stored
\* log, as long as the clock does not repeat a stamp; what stands in the cache
\* behind a torn record is stored when it is archived.
THEOREM RotatingIsDurable == ASSUME ~ClockSteps PROVE Spec => LogSpec
<1>1. Init => Log!Init
  <2> SUFFICES ASSUME Init PROVE Log!Init
    OBVIOUS
  <2>1. cache.body = <<>> /\ \A s \in Stamps : archive[s].body = <<>>
    BY DEF Init, CacheInit, Absent
  <2>2. QED
    BY <2>1, LogsOfEmpty, EmptyIsSafe DEF Log!Init, Stored, Archived, Init, CacheInit
<1>2. IInv /\ [Next]_vars => [Log!Next]_Log!vars
  BY StepRefines
<1>3. QED
  BY <1>1, <1>2, Invariance, PTL DEF Spec, LogSpec, Log!Spec

-----------------------------------------------------------------------------
(* How far damage goes: every step keeps what is found, and only a crash   *)
(* tears a file.                                                           *)

TornStamps == {s \in Stamps : Torn(archive[s].body)}

Contained == /\ Found \subseteq Found'
             /\ ~Torn(cache.body) => acked' \ acked \subseteq Found'
             /\ TornFiles' + crashes <= TornFiles + crashes'

LEMMA TornCount == IsFiniteSet(TornStamps) /\ Cardinality(TornStamps) \in Nat
<1>1. IsFiniteSet(Stamps)
  BY RotatingAssumption, FS_Interval DEF Stamps
<1>2. TornStamps \subseteq Stamps
  BY DEF TornStamps
<1>3. QED
  BY <1>1, <1>2, FS_Subset, FS_CardinalityType

\* A step that leaves the archives alone and puts nothing before a gap.
LEMMA CacheContained ==
  ASSUME archive' = archive, crashes \in Nat, crashes' \in Nat, crashes <= crashes',
         SafeOf(cache.body) \subseteq SafeOf(cache'.body),
         Torn(cache'.body) => Torn(cache.body) \/ crashes' = crashes + 1,
         ~Torn(cache.body) => acked' \ acked \subseteq SafeOf(cache'.body)
  PROVE  Contained
<1>1. Found \subseteq Found' /\ SafeOf(cache'.body) \subseteq Found'
  BY DEF Found
<1>2. TornStamps' = TornStamps
  BY DEF TornStamps
<1>3. /\ TornFiles = Cardinality(TornStamps) + (IF Torn(cache.body) THEN 1 ELSE 0)
      /\ TornFiles' = Cardinality(TornStamps) + (IF Torn(cache'.body) THEN 1 ELSE 0)
  BY <1>2 DEF TornFiles, TornStamps
<1>4. TornFiles' + crashes <= TornFiles + crashes'
  BY <1>3, TornCount
<1>5. QED
  BY <1>1, <1>4 DEF Contained

LEMMA RenameContained ==
  ASSUME ~ClockSteps, IInv, NEW s \in Stamps, Rename(s)
  PROVE  Contained
<1>1. /\ acked' = acked /\ crashes' = crashes /\ archive[s].body = <<>>
      /\ archive \in [Stamps -> File] /\ crashes \in Nat
  <2>1. UNCHANGED <<handle, loaded, num, job, next, acked, crashes>>
    BY DEF Rename
  <2>2. archive[s].body = <<>>
    BY <2>1, RenameIInv
  <2>3. archive \in [Stamps -> File] /\ crashes \in Nat
    BY CacheFileAssumption DEF IInv, TypeOK, CacheTypeOK
  <2>4. QED
    BY <2>1, <2>2, <2>3
<1>2. Absent.body = <<>> /\ ~Torn(<<>>) /\ SafeOf(<<>>) = {}
  BY EmptyIsSafe DEF Absent
<1>3. CASE cache' = Absent /\ archive' = [archive EXCEPT ![s] = cache]
  <2>1. \A t \in Stamps : archive'[t] = IF t = s THEN cache ELSE archive[t]
    BY <1>1, <1>3
  <2>2. Found' = Found
    BY <1>1, <1>2, <1>3, <2>1 DEF Found
  <2>3. s \notin TornStamps /\ TornStamps' = TornStamps \cup IF Torn(cache.body) THEN {s} ELSE {}
    BY <1>1, <1>2, <2>1 DEF TornStamps
  <2>4. Cardinality(TornStamps') = Cardinality(TornStamps) + (IF Torn(cache.body) THEN 1 ELSE 0)
    <3>1. Cardinality(TornStamps \cup {s}) = Cardinality(TornStamps) + 1
      BY <2>3, TornCount, FS_AddElement
    <3>2. CASE Torn(cache.body)
      BY <2>3, <3>1, <3>2
    <3>3. CASE ~Torn(cache.body)
      <4>1. TornStamps' = TornStamps
        BY <2>3, <3>3
      <4>2. QED
        BY <4>1, <3>3, TornCount
    <3>4. QED
      BY <3>2, <3>3
  <2>5. TornFiles' = TornFiles
    <3>1. ~Torn(cache'.body) /\ Cardinality(TornStamps') \in Nat
      BY <1>2, <1>3, <2>4, TornCount
    <3>2. TornFiles = Cardinality(TornStamps) + (IF Torn(cache.body) THEN 1 ELSE 0)
      BY DEF TornFiles, TornStamps
    <3>3. TornFiles' = Cardinality(TornStamps') + (IF Torn(cache'.body) THEN 1 ELSE 0)
      BY DEF TornFiles, TornStamps
    <3>4. QED
      BY <2>4, <3>1, <3>2, <3>3
  <2>6. TornFiles \in Nat
    BY TornCount DEF TornFiles, TornStamps
  <2>7. QED
    BY <1>1, <2>2, <2>5, <2>6 DEF Contained
<1>4. CASE cache' = cache /\ archive' = [archive EXCEPT ![s] = Absent]
  <2>1. \A t \in Stamps : archive'[t].body = archive[t].body
    BY <1>1, <1>2, <1>4
  <2>2. Found' = Found /\ TornFiles' = TornFiles
    BY <1>4, <2>1 DEF Found, TornFiles
  <2>3. TornFiles \in Nat
    BY TornCount DEF TornFiles, TornStamps
  <2>4. QED
    BY <1>1, <2>2, <2>3 DEF Contained
<1>5. QED
  BY <1>3, <1>4 DEF Rename

LEMMA StepContained ==
  ASSUME ~ClockSteps, IInv, [Next]_vars
  PROVE  Contained
<1>0. crashes \in Nat
  BY DEF IInv, TypeOK, CacheTypeOK
<1>1. CASE QuietStep
  BY <1>0, <1>1, QuietIInv, CacheContained DEF QuietStep
<1>2. CASE LoadStep /\ UNCHANGED archive
  <2>1. cache'.body \in Positions(cache.body) /\ acked' = acked /\ crashes' = crashes
    BY <1>2, LoadKeeps DEF IInv, TypeOK, FilesInv
  <2>2. SafeOf(cache'.body) = SafeOf(cache.body) /\ (Torn(cache'.body) <=> Torn(cache.body))
    BY <2>1, CacheBody, PositionKeeps
  <2>3. QED
    BY <1>0, <1>2, <2>1, <2>2, CacheContained
<1>3. CASE PutRecord /\ UNCHANGED archive
  <2>1. next # Gap
    BY <1>3, AppendIInv DEF PutRecord, Gap
  <2>2. /\ ~Torn(cache.body) => next \in SafeOf(cache'.body)
        /\ Torn(cache'.body) <=> Torn(cache.body)
        /\ SafeOf(cache.body) \subseteq SafeOf(cache'.body)
    BY <1>3, <2>1, AppendRefines DEF PutRecord
  <2>3. crashes' = crashes /\ acked' = acked \cup {next}
    BY <1>3 DEF PutRecord
  <2>4. QED
    BY <1>0, <1>3, <2>2, <2>3, CacheContained
<1>4. CASE Crash /\ UNCHANGED archive
  <2>1. crashes' = crashes + 1 /\ acked' = acked /\ cache' \in CrashedCache
    BY <1>4 DEF Crash
  <2>2. SafeOf(cache.body) \subseteq SafeOf(cache'.body)
    <3>1. ASSUME NEW x \in {Gap, next}, pc = "put", handle = "mapped",
                 cache' = Valid(Append(cache.body, x))
          PROVE  SafeOf(cache.body) \subseteq SafeOf(cache'.body)
      BY <1>4, <3>1, AppendRefines
    <3>2. QED
      BY <2>1, <3>1, CrashKeeps DEF IInv, TypeOK, FilesInv
  <2>3. QED
    BY <1>0, <1>4, <2>1, <2>2, CacheContained
<1>5. QED
  BY <1>1, <1>2, <1>3, <1>4, RenameContained, StepCases

\* However often the process dies, wherever in a record, and however many system
\* calls fail: a crash tears one file at most, and no log that a reader is certain
\* to find is ever lost to it, nor one that is acknowledged while the cache is
\* intact.  The clock must not repeat a stamp.
THEOREM CrashDamageIsContained == ASSUME ~ClockSteps PROVE Spec => DamageContained
<1>1. IInv /\ [Next]_vars => Contained
  BY StepContained
<1>2. QED
  BY <1>1, Invariance, PTL DEF Spec, DamageContained, Contained
=============================================================================
