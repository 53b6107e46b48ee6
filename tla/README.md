# Glog in TLA+

Glog is a logging library for Android and iOS.  A `Glog` instance appends
compressed, optionally encrypted records to an mmap-ed cache file
(`<proto>.glogmmap`) and moves the cache's contents into archive files when the
cache is full, when the application asks for a flush, or when a daemon thread
does.  What it sells is that a log written before a crash is still there after
it; a desktop reader turns the archives into text again, damaged ones included.
This directory states these promises and the smaller ones around them, checks
them with TLC on small instances, and proves the most important ones with TLAPS
for all values of the constants.

The modules are translated from `src/Core` (the writer) and
`src/Misc/Reader/Electron` (the desktop reader, with the copy of pako it ships);
file names and line numbers below refer to these two directories.
`PROJECT.json` maps every definition to the lines it stands for.

## 1. Inventory

| Component | State | Operations | Model |
|---|---|---|---|
| `MessageQueue` (`Core/MessageQueue.cpp`, `ThreadLock.cpp`) | `m_queue`, `m_running`, `m_capacity`, a worker thread, a lock, a condition variable | constructor, `enqueue`, `workerRunnable`/`loop`, `quit`, destructor | `MessageQueue`, implementing `SerialExecutor` |
| `GlogFile`, the cache (`GlogFile.cpp`, `Glog_IO.cpp`) | the file; `m_fd`, `m_ptr`, `m_size`, `m_position`, `m_headerSize`, `m_totalLogNum`, `m_loadFileCompleted`, compressor | `loadFromDisk`, `writeLogData`, `writeRawData`, `closeFile`, `calculatePosition` | `CacheFile`, in part |
| Archiving (`Glog.cpp:376-583`, `:945-980`) | the archive files; the cache's creation time | `internalFlush` by rename; by `appendLogFile`; `tryFlushAcrossDay` | `RotatingArchive`, `IncrementalArchive`, each implementing `DurableLog` |
| Archive housekeeping (`Glog.cpp:257-332`, `:666-852`) | `m_readingArchives` and its lock, expiry and size limits | `cleanupSafely`, `openReader`, `closeReader`, `removeArchiveFile`, `removeAll`, `resetExpireSeconds` | `ArchiveGuard` |
| Flush and snapshot callers (`Glog.cpp:585-664`, `:854-882`) | `m_archiveLock`, a condition and a flag per call | `flush`, `getArchiveSnapshot` | not yet |
| `GlogReader` (`GlogReader.cpp`, `Glog_IO.cpp:406-545`) | `m_fd`, `m_position` | `openFile`, `read`, `getCurrentPosition`, `seek` | what it deletes and what it is certain to find; its recovery byte by byte not yet |
| Sync-marker search (`GlogFile.cpp:283-`, `glog_reader.js`) | the failure table | `computePartialMatchTable`, `searchNeedle`; backwards; in a file by pieces | `NeedleSearch`, forwards in memory |
| Desktop reader, application (`main.js`, `renderer.js`, `preload.js`) | timers and dialogs, the list of files, output files | drop, choose, parse, report | `ReaderApp` |
| Desktop reader, archives (`glog_reader.js`) | content, position, an inflate object, the failure table | `readHeader`, `readRemainHeader`, `read`, `tryRecover`, versions 3 and 4 | `FileReader` |
| Messages (`Log_pb.js`) | none | `deserializeBinary` | `LogMessage` |
| Inflate (`pako.js`) | the stream, the state machine, the window, the chunks | `Inflate.push`, `inflate`, `inflate_fast`, `inflate_table`, `updatewindow`, `adler32`, `crc32` | `InflateStream`, `Inflate`, `HuffmanCode`, `HuffmanTable`, `SlidingWindow`, `Checksum` |
| Daemon and instance table (`Glog.cpp:20-187`, `:236-375`) | `g_instanceMap`, `g_daemonRunning`, locks | `initialize`, `maybeCreateWithConfig`, `destroy`, `destroyAll`, `daemonAction` | not yet |
| zlib wrapper, AES, ECC | stream and key state | `compress`, `encrypt` ... | no: computation on data |
| `GlogBuffer`, internal log, stop watch, JNI and Objective-C bindings, deflate (the other half of `pako.js`), server-side readers (Java), samples | - | - | no, see section 8 |

How they interact:

- In *async* mode `write`, `flush`, `removeAll` and the flushing part of
  `getArchiveSnapshot` put messages into the queue, and its one worker runs
  them.  In *sync* mode they run on the caller under `m_syncWriteLock`.  Either
  way the write and flush operations of one instance are serial.
- A write that finds no room in the cache calls `internalFlush` itself, from
  inside `writeLogData`, and goes on to write if that returned true.
- `cleanupSafely` runs on the daemon thread every two minutes and on any
  application thread that lowers the expiry.  It is *not* serial with the
  writer: it keeps out of its way by skipping the newest archive.
- Readers run on application threads.  `m_readingArchives` keeps cleanup and
  removal away from them, and nothing at all is between them and the writer,
  except that a reader deletes a file whose header is broken.
- The daemon also flushes incremental instances and switches the across-day
  check on for the minutes around midnight.
- The desktop reader is a process of its own and gets copies of archives.  Its
  window hands dropped files to the main process, which asks for a directory and,
  half a second later, parses all of them in one callback: `readHeader`, then
  `read` until the end of the file.  `read` sends compressed records, one after
  the other, through one `Inflate` object per file with `Z_SYNC_FLUSH`, and where
  a record cannot be right it searches for the next sync marker and goes on
  behind it.

What makes it hard: system calls that fail in the middle of multi-step file
operations; process death at any of their steps (the cache exists for that);
threads that share files by name without a lock; a condition variable behind an
`if`; tests before a lock that are used after it; size arithmetic in unsigned
integers; the time of day deciding where logs go.  In the reader: files broken
anywhere, with a marker that may also lie in the data; a decompressor that
suspends at every bit and resumes with another piece of input and another
output buffer; a fast path that asks neither for input nor for room.

What makes each part correct:

- *Queue*: accepted messages are executed once, in order, one at a time; no
  wakeup is lost; the destructor returns.
- *Cache and archives*: no stored log disappears, whatever fails; a write that
  returned true is stored; logs keep their order; a crash damages one
  file, and nothing before the damage; every call returns.
- *Housekeeping*: deletes the oldest first, within the limits, and nothing that
  is being read.
- *Flush callers*: `flush()` returns after the flush, or after its timeout.
- *Reader and search*: from any position the next intact record is found; an
  intact file is read whole; damage costs what it touches, not what is behind it.
- *Inflate*: what comes out is the plain text and nothing else, however it was
  cut into pieces; every malformed stream is recognised; `push` returns.
- *Life cycle*: no instance is used after it has been deleted.

The hazards this list comes from are in `PROJECT.json`, each at its line, with
the properties that would catch it or the reason why none does yet.

## 2. Modules

```
SerialExecutor   <-- implements --  MessageQueue
DurableLog       <-- implements --  RotatingArchive     -- extends --> CacheFile
                 <-- implements --  IncrementalArchive  -- extends --> CacheFile
ArchiveGuard

ReaderApp     -- extends --> FileReader -- extends --> NeedleSearch
              -- extends --> LogMessage
InflateStream -- extends --> Inflate    -- extends --> Checksum -- extends --> HuffmanCode
                                        -- extends --> SlidingWindow
HuffmanTable  -- extends --> HuffmanCode
```

`MC*` modules hold the model values and sets of the TLC instances, `*_proofs`
and `*_lemmas` the proofs.  Definitions marked *Mutant of* are not part
of a specification: each is the way a plausible bug would change the
definition they name, and violates one of the properties.

### MessageQueue

A region under `m_queueLock` is one step.  What the code does outside it is a
step of its own: the store of `m_running` after `pthread_create`
(`PublishRunning`), the test of `m_running` before `enqueue` takes the lock
(`TestRunning`, against `Accept` and `Refuse`), the callback (`Execute`).
`m_running` has no initialiser, so `Init` leaves it open.  `Await` releases the
lock and sleeps; `Signalled` is what `signal()` does to the worker, the only
thread that ever waits.  `SpuriousWakeup` is `pthread_cond_wait` returning without
a signal, as POSIX allows.  Either leads to `Pop` or `Exit` without a second look
at the condition, as the `if` of `loop()` does, and `PopEmpty` is the undefined
behaviour that may follow: nothing is said of the worker after it.  The model
tells the two wakeups apart (`woken`, `roused`), so that it can be said which one
the `if` is safe for.  One message is one call of `enqueue`; `accepted` and
`executed` are history.  The destructor is `Quit` and `JoinAndClear`.

### CacheFile

The state shared by both ways of archiving.  Because operations of an instance
are serial, one program counter `pc` with a return address `job` does for all of
them.  `cache` is the file: absent, empty, zeros, or with a valid header and a
body, a sequence of log numbers and `Gap`s.  A `Gap` is a run of bytes that is not
a record: one torn at any of its bytes, or zeros.  `handle` abstracts
`m_fd`/`m_ptr`: closed, mapped, or open with a null mapping, which is what
`loadFromDisk` leaves when `mmap` fails.  Each system call that may fail is a
disjunct with `Fails("call")`, and does to file and handle what that call's
failure path does.  `Crash` is the death of the process: pages of a shared
mapping survive it, so the disk shows the last state, or one of those inside the
`memcpy`s that were under way (`CrashedCache`).

*Behind a gap.*  The next start appends right behind a torn record.  If that was
torn after its mode byte, iv or key and before its length (`Glog_IO.cpp:369-385`),
whoever walks the file takes bytes of the next record for a length and may jump
over any number of records; if later, the search for a sync marker starts
`SYNC_MARKER_LENGTH` too far on when the record's data is shorter than five bytes
(`:272`, `:540`); and in Zlib mode the piece of a record upsets the one inflate
of the reader (`:502-507`).  The model therefore says nothing of what is found
behind a gap.  `SafeAt` is what is found for certain, the records before any gap,
and a body with a record behind a gap is `OutOfStep`.  (Found means that the
reader arrives at the record's bytes; what it makes of them is section 6.)

`calculatePosition` walks the cache in the same way when it is loaded, so its
position may be wrong too (`Positions`).  It may come to rest behind the last
record or beyond it: the body is as it was, with a gap in between.  Or before it:
the loop ends for want of a marker within the last 15 bytes, which belong to two
records at most, and the next write goes over them.  Which of these happens is a
choice of the model, as is how many records have been counted on the way
(`Counts`); a count of zero makes `internalFlush` refuse to flush
(`Glog.cpp:540`).  The choice is wider than the bytes allow: it is made anew by
each load, and what a write would overwrite is gone at the load already.

### RotatingArchive

`internalFlush` without `incrementalArchive`: `ftruncate` the cache to its
contents and close it (`Truncate`), rename it to a name made of the wall clock in
milliseconds, deleting a file that already has this name (`Rename`), and load a
new cache.  Stamps are numbers; `ClockReads` gives the next one, or any one with
`ClockSteps`.

### IncrementalArchive

`appendLogFile` step by step: open (and maybe create) the archive of a day, read
its header, discard it if broken and start over, `ftruncate` it up to whole
pages, copy the cache's records behind its own, `ftruncate` it down, delete the
cache, load a new one.  Three callers differ in the day: `internalFlush` takes
today (`FlushToday`); `tryFlushAcrossDay`, at construction and before a write
while the check is switched on, takes the day of the cache's creation time
(`CheckDay`), which on Android is the inode change time (`Touched`).  `linked`
says whether the descriptor still is the file under the name, since
`ReaderDislikes` and `ReaderRemoves` are `GlogReader::openFile` on another
thread, deciding on a header and deleting by name later.  `AppendUnmapped` is
`appendLogFile` with a cache that is open but not mapped, where
`getDataLength()` is `0 - m_headerSize` in a `size_t`.

### DurableLog and SerialExecutor

`DurableLog` has the logs that are `stored` for good, the logs whose write returned
true, and, for a cache that a crash has torn, those `exposed` behind the tear.
`stored` never shrinks and grows by the newest log, or by exposed ones that come
into an archive; each restart may lose the last two exposed logs, as long as the
tear is there.  `RotatingArchive` and `IncrementalArchive` implement it under
`stored <- Stored`, all logs of archives and those before any gap of the cache.
`SerialExecutor` has three
growing sequences, accepted, started and finished, and `MessageQueue` implements
it under `started <- executed \o hand`.

### ArchiveGuard

Archives are numbered by creation time, which is the order `collectArchives`
sorts by.  `cleanupSafely` is `Collect` (without the lock), `Lock`, then per
archive `Visit` (look it up in `m_readingArchives`) and one of `Shrink` (removed
for the size), `Retire` (for its age), `Keep`; then `LimitNumber` per archive
removed for the number, and `Unlock`.  The lock is a set, `holder`, because it is
held over many steps; the other regions under it are single steps.  `reader[r]`
remembers who removed the file a reader has open.  `OpenThrows` is the
constructor of `GlogReader` refusing a key after `openReader` entered the name.
The clock and the expiry are open: `Lock` picks any number of archives, oldest
first, that are overdue.

### NeedleSearch

The two loops of the failure-table search, one action per branch of the loop
body: `TableForward`, `TableBack` and `TableDone` are `computePartialMatchTable`,
which runs once when a file is opened; `Begin`, `Forward`, `Back` and `Return`
are `searchNeedle`.  `GlogFile.cpp` and `glog_reader.js` have the same two loops.
`FindsFirst` compares what a search returns with the definition of a first
occurrence.

### FileReader

A file is its bytes, and `read` of `FileReaderV3` and `FileReaderV4` is split by
what it finds: `EndOfFile`, `IllegalModes`, `ReadBeyond`, `ReadBadLength`,
`ReadStored`, `ReadZipped`.  Each ends by giving a pair (`Give`), by throwing
(`Throw`), or by looking for a marker (`Recover`), which takes the steps of
`NeedleSearch` and continues in `Recovered`.  `Open` and `ReadHeader` are
`readHeader` and `readRemainHeader`.  Two conversions are reduced to what a
reader can tell of them.  Of deflate: a byte is a literal, a copy of an earlier
byte of the output, the end, or damage, so that a record means what the ones
before it left in the window; a push gives its last chunk; an object that has
ended gives no more.  Of AES: a shift by a keystream from the record's key.

### LogMessage

The wire format of protobuf as `Log_pb.js` reads it with its library: varints,
lengths, fields that are repeated, unknown or out of order, and groups.

### ReaderApp

`Drop`, `Cancel`, `Choose` and `Quit` are the user's, `Fire` is the timer, and
the callback is the rest: it opens each file (`OpenFile`, or `FileGone`), handles
what `read` returned (`HandleLog`, `HandleBroken`, `HandleEnd`) or threw
(`HandleError`), and completes the progress bar.  As in the event loop, nothing
of the user's happens while a callback runs.  A file in a scenario carries, for
the properties only, the records that were written into it and where it is
damaged; `LaidOut` says how the records of a file without damage lie in it.

### Inflate, InflateStream

One action per case of the switch of `inflate`, and one per step of
`inflate_fast`'s loop body.  `hold` and `bits` are one sequence of bits; `Pull`
adds a byte where a case waits for bits, `Starve` leaves where there is none, or
no room, and the next call resumes there.  A pair of code tables is the code it
stands for (`CodeOf`).  `InflateStream` is the class around it: the constructor's
arithmetic on `windowBits` (`WindowBits`, `WrapOf`), `push` and its loop
(`CallInflate`, `SetDictionary`, `NextMember`, `Fail`, `Deliver`).  A session is
a stream with the options to read it; the client is free in the sizes of the
pieces it pushes.

### HuffmanCode, HuffmanTable

`HuffmanCode` is the reference: which lists of lengths are codes, and which
symbol each word stands for.  `HuffmanTable` is `inflate_table`, one action per
code entered, with the backwards increment, the replication of short entries, and
the sub-tables whose sizes it guesses.  `Decodes` compares one with the other, so
that `Inflate` may decode by the reference.

### SlidingWindow, Checksum

Operators only: `updatewindow` in its three cases (`Replace`, `Wrap`, `Extend`),
and the two check values, on 32 bits.

## 3. Runs

| Run | Checks | Instance |
|---|---|---|
| `mq` | `TypeOK`, `FifoOrder`, `NoLostWakeup`, `SignalledFindsWork`, `CapacityRespected`, `ExecutorSpec`, `AcceptedIsExecuted`, `DestructorEnds` | 4 calls of `enqueue`, capacity 2, spurious wakeups, fair threads |
| `mq_spurious` | `NeverPopsEmpty` is **violated** | 3 calls, capacity 2, spurious wakeups |
| `rot` | `TypeOK`, `Chronological`, `FlushedMeansArchived`, `LogSpec`, `DamageContained`, `CallsReturn` | 4 writes, room for 2, 4 archives, 2 failing calls, 2 crashes, fair threads |
| `rot_null` | `NeverWritesToNull` is **violated** | 3 writes, 1 failing call |
| `inc_safety` | `TypeOK`, `Chronological`, `LogSpec`, `DamageContained` | 3 writes, room for 2, 2 days, 1 failing call other than `mmap`/`ftruncate` of the cache, 2 crashes, creation time moves |
| `inc_liveness` | `CallsReturn` | 2 writes, room for 1, 2 days, 1 failing call of any kind, 1 crash, readers, fair threads |
| `inc_reader` | `FlushArrives` is **violated** | readers, no failures |
| `guard` | `TypeOK`, `SparesReader`, `WithinLimit`, `OldestFirst` | 3 archives of size 1 or 2, size limit 3, number limit 1, 1 cleanup, 1 reader |
| `guard_reading` | `SparesReaders` is **violated** | 3 archives, 2 readers, 1 cleanup, number limit 1 |
| `table` | `Decodes`, `Packed`, `RefusesRightly`, `WrittenOnce` | every list of 6 lengths up to 5 as `CODES` and as `LENS`, 2 root bits, room 10 |
| `inflate` | `TypeOK`, `Faithful`, `Told`, `RecordsIntact`, `WindowIsHistory`, `FastStaysInside`, `Sticky`, `Returns` | 35 streams, 11 intact and 24 broken, pushed in pieces of 1, of 7, or whole, in any mixture; chunks of 20, a window of 8 |
| `reader` | `ReadsWhole`, `FallsIntoStep`, `DamageIsLocal`, `FindsFirst`, `ParsingEnds` | 6 intact archives; of 5 of them every byte set to 6 values, every cut, zeroed pages; one session of 4 drops and 2 directories |

What they show.

*The queue* repeats and reorders nothing it has accepted, never lets the worker
sleep on pending work, and executes every message that is queued while the worker
is in its loop, also when a quit arrives; the destructor's join returns.  One
accepted message can be lost: with `TestRunning`, `Quit`, the worker's `Exit`,
`Accept`, `JoinAndClear` it is appended after the worker has left and goes with
the queue.  `AcceptedIsExecuted` excludes that by `worker \in LoopStates`, and
`SerialExecutor` allows it: it promises order, not execution.  The unguarded pop
after `await` is safe for waits that end by a signal (`SignalledFindsWork`), and
for those only: `mq_spurious` is the trace of a wait that ends without one and of
`front()` of an empty list.  The two liveness properties and the deadlock check
make an exception for what follows such a pop.

*A renaming instance* is a durable log under every single and double failure and
crash TLC can place.  A crash tears one file at most, a failing system call none;
what lies before the damage is found for ever, and only what is appended to a torn
cache is at stake, two logs of it at each restart, the rest when readers come to
it (`DamageContained`, `LogSpec`).  A flush that reports success has emptied the
cache.  No call spins.  What fails is afterwards: a reload that dies at `mmap`
leaves an instance whose next write goes to a null pointer.

*An appending instance* is a durable log too, provided readers keep away and no
failure leaves the cache unmapped behind its header (proved more sharply in section
5: it takes an append of such a cache).  Both provisos are needed:
`inc_reader` shows a reader deleting the archive that is just being created, and
section 6 has the underflow that cuts an archive.  An interrupted append can
leave logs twice (`Chronological` is therefore stated for undisturbed
histories), never not at all.  Each crash or failed call puts readers out of step in
one file at most.  What stood in the cache before any damage can come to stand
behind some: when the cache is appended to an archive that an earlier fault has
left with a gap at its end, which is the one exception of `DamageContained`.

*Housekeeping*: the size and age limits never take an archive from under its
reader, however the cleanup, `removeAll` and readers interleave, and take the
oldest first (for any number of concurrent cleanups this is proved, section 5);
the number limit does not look whether anybody is reading.

*Inflate* lets nothing out but the plain text, by either decoder and whatever
the sizes of pieces, chunks and window; says of a stream what is true of it, for
each of the errors it knows; hands a record over whole when `push` returns; and
returns.  The decoding tables decode as the canonical code does, are packed, and
no entry is ever written twice; what is refused is exactly what is no code.

*The desktop reader* reads intact archives whole and in order.  Behind damage it
falls into step once and then loses nothing more; damage to a stored record's
data or marker costs that record and at most the next; parsing ends whatever the
files hold, and the search always finds the first marker.  Two limits are the
code's: a record that throws instead of being recovered (section 6), and that all
compressed records behind a damaged one are lost with it, since they share one
inflate (`DamageIsLocal` is stated for stored records).

The four findings are the violated runs; `PROJECT.json` quotes the comment or
message each one contradicts.

### Why the bounds are enough

- *Queue*: capacity 2 with four callers has a full queue with two callers past
  the first test, a queue of one, and messages left when the quit comes.
- *Archives*: with room for 2 and 3 or 4 writes there is a write into an empty
  cache, one into a partly filled one, one that must flush first, and a second
  flush.  Two crashes allow a torn record, a restart that appends behind it, a
  restart that finds the wrong place, and a second tear; two failures allow a failing flush inside a failing load.
- *Days*: two, so that "yesterday" and "today" differ while the cache, its
  creation time and the flush disagree on them.
- *Guard*: three archives are one that is skipped and two that can be told apart
  by age; sizes 1 and 2 against a limit of 3 make three archives that are within
  the limit, and two that are not; number limit 1 makes the last loop run.

- *Tables*: with a root of 2 bits and lengths up to 5, codes have up to two
  sub-tables of up to 3 bits, entries are replicated in root and sub-tables, and a
  sub-table is widened past the shortest length in it; of all 6^6 lists some are
  over-subscribed, some incomplete, and the room of 10 is exceeded by some.
- *Inflate*: `CHUNK`, `MAXMATCH` and `MINBITS` are the code's 16384, 258 and 8
  made small: a chunk of 20 is filled in the middle of matches and stored blocks,
  with `MAXMATCH` 10 both decoders alternate within a stream, and a window of 8
  (`MINBITS` 3) is wrapped, replaced and extended.  The intact streams hold all
  kinds of blocks, codes longer than the root table's index would be, a dictionary
  longer than the window, gzip headers with and without optional fields, two
  members, and the longest pair of length and distance; each broken one ends in
  another of inflate's errors.  Pieces of 1 stop at every byte, pieces of 7 just
  above the 6 that the fast decoder asks for.
- *Reader*: the marker `<<183, 183, 219>>` overlaps itself and begins in some
  logs' data, where a search may be misled; `MaxLength` 6 and `ChunkSize` 6 make
  a record of the greatest length exactly a chunk; `KeyBytes` 2 shortens the key of
  a record.  The bytes a damaged place is set to include lengths that are zero,
  legal, too great and beyond the file, legal modes, and the marker's first.

The bounds `MaxLog`, `MaxFailures`, `MaxCrashes`, `MaxStamp`, `MaxDay`,
`MaxArchive` and `MaxSize` only limit how often environment actions are enabled;
the theorems of section 5 hold for all of their values.

Deadlock is checked in all runs but four: `mq` and `mq_spurious`, where a worker that took
the front of an empty list is beyond the model and the destructor would wait for
it; `table`, a function that returns; and `reader`, where the user may close the
application.

## 4. Fairness

`MessageQueue!FairSpec` is weakly fair to the constructor, the worker and the
destructor's join: these are threads, and the operating system runs them.
Callers are not obliged to call, nor anyone to destroy the queue.
`RotatingArchive!FairSpec` and `IncrementalArchive!FairSpec` are weakly fair to
the steps inside a call, which is one thread running.  There is none for starting
a write, a flush, a crash, a restart, a new day or a reader, so `CallsReturn`
says that a call ends without any of these having to happen; a crash counts as
its end.
`InflateStream!FairSpec` is weakly fair to `Pushing`, a call of `push` running on
in its thread; no client is obliged to push.  It is written out as
`[]<>(pc = "idle") \/ []<><<Pushing>>_vars`, which is weak fairness because
`Pushing` is enabled wherever `pc` is not idle, as the deadlock check confirms.
`ReaderApp!FairSpec` is weakly fair to the timer and to the steps of the callback,
which is the event loop of one process; users may do nothing, cancel or quit.

## 5. Proofs

All theorems are proved by TLAPS without omitted steps, for every value of the
constants that satisfies the modules' assumptions.

*`MessageQueue_proofs`*: `TypeCorrect`, `QueueIsFifo`, `WakeupsAreNotLost`,
`QueueIsBounded`, `SignalsAreJustified` and `ImplementsExecutor`, for any set of
callers and any capacity, spurious wakeups included.  The checked
properties are not inductive by themselves: the invariant adds that the hand is
full exactly while a callback runs (`HandInv`, `ExecutingInv`), that the worker
lives between constructor and join (`LifeInv`), that only accepted calls are in
the line (`CallInv`, for "at most once"), and that a worker which a signal has
woken finds a message or a quit (`WokenInv`).

*`RotatingArchive_proofs`*: `TypeCorrect`, `RotatingIsDurable`,
`ArchivesAreChronological`, `FlushArchives` and `CrashDamageIsContained`, all
assuming `~ClockSteps`.  The
invariant adds to the types and the order of the archives that every stored
number is at most `next`, and below it while a write is pending, so that the
next record is the newest (`BoundInv`); that a file without a valid header holds
no record (`FilesInv`); and that the cache a flush opens is a new one
(`FreshInv`).  The assumption is needed: with a clock that repeats,
`Rename` deletes an archive, which the code does too.  That a load of a damaged
cache is a step of the durable log is `PositionKeeps` (below).  For
`CrashDamageIsContained` every step is shown to keep what stands before a gap, or
to carry it into an archive as it is (`StepContained`); the number of torn files
grows with a crash inside a record, and a rename takes a tear along.

*`IncrementalArchive_proofs`*: `IncrementalTypes` assumes nothing: any call may
fail, the process may die anywhere, and readers may delete archives while they are
written.  It rests on `LengthInv`: while the archive's name still leads to the open
file, the copy never reaches beyond that file's end.  The other theorems assume
`~Readers`.
`OnlyCutsLose` says that each step is one of the durable log's, whichever calls
fail, except one (`LosesOnlyByCuts`): the append of a cache that is open, has a
header and is not mapped (`Cutting`), which cuts the archive (section 6); it adds
nothing, and writes are acknowledged by others.  So an instance implements the
durable log as long as that does not happen (`DurableUnlessCut`, with the hypothesis
`[]~Cutting`), and then damage stays within a file for each crash or failed call,
and behind it (`DamageUnlessCut`).  Where `mmap` and `ftruncate` of the cache work it never
happens (`NothingIsCut`), which gives `IncrementalIsDurable` and
`FaultDamageIsContained` for
`Undisturbed == ~Readers /\ FailingCalls \cap {"mmap", "ftruncate"} = {}`; these
are the two that `inc_safety` checks.  `IncrementalIsChronological` is about
histories without failures and needs only `~Readers`, because a cache with a header
is mapped until a call has failed (`HandleInv`).
The heart is `AppendInv`: at `grow` the copied prefix is the archive's whole
body, at `shrink` the archive holds prefix and cache, at `unlink` it has every
log of the cache.  So deleting the cache loses nothing, and each failure or
crash in between leaves either the old archive and the cache, or both copies.
The theorems cover every number of days, failures and crashes, and both meanings
of the creation time.

Damage and order need to know more than durability does.  `ControlInv` says when
the cache is mapped and which day's archive a cache that is not mapped goes to,
and `CopyInv` what exactly stands under the archive's name during the copy.  With
these, the archive can be taken to hold its old records until the cache is deleted
(`Kept`).  `DamageInv` counts, against crashes *and* failed calls, the torn files:
the cache and the days' archives, those included whose damage has nothing behind
it yet, since the next append may put something there without any further fault.
An interrupted append leaves its gap in the archive and does not touch the cache.
One gap may be uncovered for a while (`Slack`): a cache that is not mapped can be
appended again and again to the archive of its day, each time leaving zeros
behind, but nothing is written until the process has died, which is a crash to
count.  During the copy the bound would not hold (the archive has its zeros
already, and the cache may be torn), which is why it is stated for the rest of the
time.
`OrderInv` is for histories without failures: within a day
and between days the records ascend, the cache's are newer than all of them, and
no archive is of a later day than the cache (`Dated`), which is why appending the
cache to the day of the *flush* keeps the order although it is the wrong day.

*`CacheFile_lemmas`* are facts about bodies (`LogsOf`, `SafeOf` and `Torn` of
`Append`, of concatenations and prefixes; order under `Append`) and about the steps
all instances share: that a load keeps everything before a gap, and of the rest all
but two logs (`PositionKeeps`, `LoadKeeps`), and that a crash keeps the logs of the
cache (`CrashKeeps`).

*`ArchiveGuard_proofs`*: for any number of archives, readers, cleanups and any
limits.  `GuardTypes`, `CleanupWithinLimit` and `CleanupOldestFirst` rest on
`LimitInv`, of which `Accounted` is the sum: the total in hand is at least what was
listed for the archives still to be looked at, kept or skipped, so subtracting
the size of one of them cannot wrap around (`Glog.cpp:764`, `:791`), and what is
kept without being read was kept when the total was within the limit, below which
it only sinks.  The sizes are those listed, while the files may grow meanwhile.
The total is a fold (`SumFunction`); that taking one archive away takes its size
away is proved by induction over finite sets, see below.  For the order: whatever
was kept is older than what is still to be looked at, so an archive that is too
old leaves only older ones behind it that are being read (`OlderAreRead`).

`LoopsAreExclusive` needs no assumption, `CleanupSparesReader` assumes
`~SharedReading`.  The invariant says that every reader's name is in `m_readingArchives`
from before the open to the close (`Entered`), that a cleanup inside its loops
holds the lock (`Locked`), and that what it looked up is still so when it
disposes of the archive (`Current`).  The assumption is needed:
`m_readingArchives` is a set, and the first of two readers to close takes out
the name of both.

*`Reader_proofs`*, second part: `SearchFindsFirst`, for every needle and every haystack
over any alphabet.  The invariant says of the table that an entry is the longest
border of the needle's beginning that another element follows, or -1; and of a
search that the needle's first `j` elements lie before
`i` and that it lies nowhere earlier.  The second half is why the optimised entry
(`MatchEntry`: take over the entry of the place that would only meet the same element
again) loses no match.

*`Reader_proofs`*, third part: the application, for every set of files, intact or
not, every sequence of drops and answers, and every marker, version and length.

- `ReaderInvariant` is the inductive invariant (`ReaderInv`).  `JobInv` says whose
  file is being parsed; `PlaceInv` that the position lies in the file and that the
  reader is in a state that goes with the search's, which runs exactly while the
  reader recovers.  So a step inside a search is a step of `NeedleSearch`, its invariant
  is one of the application, and `FindsFirst` holds here too
  (`ReaderFindsFirst`), whichever file is searched and from wherever.
- Every step of reading is of one of five kinds (`ReadKinds`): it opens, gives,
  throws, loses its way, or searches.  From it come two action properties.
  `ResumesBehindMarker`: where the reader recovers, it goes on right behind the first
  marker at or behind the place it looked from, or gives the file up if there is no
  marker.  `Advances`: no step goes back or beyond the end, and no call of `read`
  stays where it is unless it reports the end, which is why a file is parsed in
  finitely many calls (that they are made is `ParsingEnds`, checked by TLC).
- `StaysInStep` (`ReaderStaysInStep`): when a reader stands before a record whose
  bytes are as they were written, and the window is what the records before left if it is
  compressed, then `read` gives the record's data and stops right behind it, whatever
  the rest of the file looks like.  A reader that has
  fallen into step therefore stays in step up to the next damage.  The argument is
  that what lies at the position decides the step (`RecordSeen`), given that the reader
  goes by the header of the file it is in (`HeaderInv`).
- `ReaderReadsWhole` is the run's `ReadsWhole` for files of any length.  In a file
  without damage the reader is always behind one of the first records, with their
  lines made and their data in the window (`OnTheWay`).  What a file without damage
  is, is the definition `LaidOut`: a header, then one record right behind the
  other up to the end of the file, each with its mode, length, data and marker.
  `IntactAssumption` says that the files marked as undamaged are laid out so; TLC
  evaluates it on the run's files.

`ResumesBehindMarker`, `Advances` and `StaysInStep` are stated in the proof
module.

*`HuffmanCode_lemmas`*: `CodesRead`, every list
of lengths that `inflate_table` accepts is a code that can be read; as soon as
there are as many bits as the longest code has, exactly one word begins them.  Its
core is that `left`, counted length by length, is what the words so far leave
uncovered (`CoveredOn`, `CoveredAt`), so that a list which is neither
over-subscribed nor incomplete covers all sequences of 15 bits, each by one word.
It is what lets a lookup loop stop: pulling bits ends with a code in hand.

*`Reader_proofs`*, first part: all that the run `table` checks, for every number of
symbols, every longest code, every width of the root and every room of two entries
or more.  `TableInvariant` is the inductive invariant (`TableInv`), and it is about
numbers: a code of `l` bits is a number below `2^l`, its index the same bits
backwards (`Reversed`), and codes follow each other by adding 1 and appending
zeros (`Follows`).

- While codes are entered (`Entering`), the filled part of the table in hand is a
  *front*: the places of all numbers below the code's, filled up to the table's
  width, bits reversed (`Front`).  Before it lie the root's front
  and whole sub-tables without holes (`Behind`).  So a code's places are free and
  carry the front on by as much as it has places (`PlacesFree`), and the backwards
  increment with its carry from the top is the next number (`IncrementIs`).
- A sub-table is begun when the code's first bits change (`SplitsRoot`,
  `SplitsAgain`); the front of the one before is then complete.  What `Width` guesses is
  enough: a sub-table that ends before the longest code is used up by
  the codes that fit in it (`WidthIs`), so no later code begins with the
  same bits (`NotBeyond`).
- All inputs below the code's are read already (`ReadsBelow`): a lookup, or two,
  finds the symbol whose number they begin with and takes its bits (`RootFinds`,
  `SubFinds`).

At the end the front is the table and every input is below the number that
comes next, which gives `TablePacked` and, with `CodesRead`, `TableDecodes`; the single code of
one bit and the list without any are cases of their own (`OneBit`, `NoCode`).
`TableWrittenOnce` is what `TableSteps` says of each step.  `TableRefusesRightly` needs no
table: the sum of 2^-length is what `left` counts down from (`WeightIs`), and once
negative `left` stays so.  The room of at least two entries is assumed because
the list without a code takes two without asking; the code has 852 and 592.

*`InflateStream_proofs`*: for every session, intact or broken, every cut of it
into pieces, and every size of buffer and window.

- `WindowKeepsTheEnd`: when a window of the right shape holds the end
  of what was written, `UpdateWindow` leaves one that holds the end of what is
  written now, whatever the window's size and the piece's.
- `InflateInvariant` is the inductive invariant of the decoder (`IInv`).
  `StateInv` says for each mode that the fields which it reads are sound: that
  the announced numbers of lengths are legal and not exceeded, that code tables are
  codes in the sense above, those of fixed blocks included (`FixedLenIs`,
  `FixedDistIs`), that a length is at most 258 and a distance at least 1.  `LeanInv` says that no more
  bits are in hand than the mode has asked for, so that the bytes that
  `inflate_fast` gives back are bytes it took.
- `FastDecoderStaysInside`: `inflate_fast` tests input and room once per round, for
  6 bytes and 258 places, and then runs on.  `FastInv` says at each of its steps
  that what is left covers the rest of the round, in bits for the input (33 before the
  extra bits of a length, 28 before a distance's code, 13 before its extra bits) and in
  places for the output.  `InflateTypes` is a consequence of `IInv` as well.
- `WindowKeepsHistory` and `RecordsComeWhole` rest on accounts of everything ever
  written.  `HistoryInv` cuts `history` into older members, the `total` bytes that
  this member wrote before the call, and what the call has written so far; the
  window holds the end of the second, the dictionary in front of it.  `RecordsInv`
  says for a client that reads record by record that chunks and buffer together
  are the history, that a call without progress began with an empty buffer (why
  `Z_BUF_ERROR` throws nothing away), and that the check value is asked for only
  when the bytes in hand came with this call.  Neither is preserved action by
  action: each step of the decoder is of one of five kinds to them (it works,
  writes, leaves, asks for the dictionary, or compares the check value), and
  `InflatingSteps` shows that there is no other.
- `EndedIsEnded` is about the class around the decoder and takes no more than that
  no call is in progress once it has ended.

All but `EndedIsEnded` assume `MAXMATCH >= 258`, which is the code's own number:
the longest match is 258.  The run's instance has 10, with streams
whose matches are that short, so that both decoders take turns within a small chunk.
`InflateAssumption` fixes `MAXBITS` at 15, the number on which the fixed
codes and the 48 bits of a round depend, and `SessionAssumption` says what
a session is: bytes, options within the range the constructor takes, and, where
records are pushed one by one, where they end.

### Induction

The provers cannot instantiate the libraries' induction theorems, which take an
operator.  Induction is proved here where it is needed, about *sets*: the
smallest element of a set of counterexamples (`WFMin`) over subsets of a finite
set (`SetInduction`) and over numbers, and from it that a recursive function
over an interval exists and is the only one (`Recursion`).  The sums of
`ArchiveGuard`, the numbers, powers, codes and check values of inflate and the
concatenation of its chunks are reasoned about in that way.  No module with
theorems has a RECURSIVE operator.

### Only model-checked

- Liveness (`AcceptedIsExecuted`, `DestructorEnds`, `CallsReturn`, `Returns`,
  `ParsingEnds`): the prover has no rules for fairness and ENABLED.
- `Faithful` and `Told` of `InflateStream`: each compares what is let out with the
  plain text that a session names, and that the one is the other's compressed form
  is a fact about 35 given streams.  A theorem would need a definition of
  deflate to compare with.  What the proofs give instead are the properties
  that hold whatever the stream says.
- `FallsIntoStep` and `DamageIsLocal` of `ReaderApp`: they compare lines by what they
  say, and would be false for arbitrary files, where a damaged record may happen to
  read as another's data and a marker may lie in it.  What holds for all
  files is said by position, in `ResumesBehindMarker` and `StaysInStep`.

## 6. Abstractions to keep in mind

- All records take the same room, and a record's bytes are not modelled.  A record
  may be torn at any of them; what is found behind it is left open, and so is where
  a load ends that comes to it (section 2).  A bogus length may
  put the position beyond the last record by any amount, up to behind the mapping;
  then there is no room, and the write that would have found some flushes first, as
  if somebody had called `flush` before it.  Behind the mapping the `memcpy` of an
  appending flush runs off it and the process may die, which `Crash` covers at
  `copy`.
- Compression and encryption are left out: *found* means that a reader comes to a
  record's bytes.  What it makes of them also depends on the compressor's dictionary
  across records, flushes and refused writes (`Glog_IO.cpp:313`), which is not in
  the model.
- A crash is the death of the process, not of the device: nothing is said about
  pages that had not reached the disk.
- No graceful destruction of an instance between writes; a restart follows a
  crash.
- In `RotatingArchive` the clock does not repeat in any listed run.  With
  `ClockSteps = TRUE`, two flushes in one millisecond, or a clock set back, make
  `Rename` delete an archive.
- `collectArchives` is one step in `ArchiveGuard`, and its writer works on the
  newest archive only.
- `Inflate` does not tell apart the modes that differ only for `Z_BLOCK` and
  `Z_TREES`, passes over the fields of a gzip header without keeping them, and
  decodes by `CodeOf` instead of by tables; `TableDecodes` justifies the last for
  all lengths.  Shifting and masking of `hold` are operations on a sequence.
- `FileReader` has its own small deflate and cipher, described in section 2; the
  curve that derives a record's key is the library's.  A varint of a message is
  capped at 2^23, above every length and number that occurs.
- `main.js:116` always passes a key, so a reader without one does not occur.
- In `ReaderApp` output files are written without failing, and the order in which
  dialogs are answered is the user's.

### Observations beyond the runs

Statements the modules contain and the code does not keep.  They are in no listed
run; adding the line to the configuration shows the counterexample.

- `INVARIANT LooperStarted` in `mq.cfg`: the constructor stores
  `m_running = true` (`MessageQueue.cpp:24`) after `pthread_create` (`:19`); the new
  thread tests it once (`:52`), may see false and exit, and the queue accepts
  messages forever after.  The comment at `:16` says "start looper immediately".
- `PROPERTY EmptyAppendIsHarmless` in `inc_liveness.cfg`: a `loadFromDisk` that
  fails after `readHeader` leaves the cache open and unmapped, where
  `getDataLength` (`GlogFile.h:71`) is `0 - m_headerSize` in a `size_t`; the
  `ftruncate` of `appendLogFile` (`Glog.cpp:450`), reached by `tryFlushAcrossDay`,
  then cuts the archive.  The comment at `Glog.cpp:965` takes flushing a cache
  without data for harmless: "still need flush for the purpose of update cache
  file's creation time".
- `INVARIANT DayFile` in `inc_liveness.cfg`: `internalFlush` (`Glog.cpp:551`)
  appends to the archive of the day of the flush, which need not be that of the
  logs; `src/README.md:102` says "log within a day write to same file".
- `INVARIANT LevelShown` in `reader.cfg`: `main.js:143-159` calls the levels 1 to 4
  Warn, Error, Verbose, Debug; in `Log_pb.js:227-233` they are DEBUG, VERBOSE,
  WARN, ERROR.
- `INVARIANT SkipsDamage` in `reader.cfg`: where a record's length reaches beyond
  the file, `read` builds its message from a variable that does not exist
  (`glog_reader.js:186`, `:305`, `:325`), and the ReferenceError ends the file's
  parsing before any recovery; `src/README.md:26` speaks of the sync mark "to
  support fault-tolerant".
- `Sessions <- TwoMembers` in `inflate.cfg` violates `Told`: `inflateReset`
  forgets the window's size but keeps its array (`pako.js:4831`), `updatewindow`
  sets the size only where there is no array, and a match of the second gzip
  member that reaches behind the call in progress is refused.  Glog's own archives
  are raw deflate and have no members.

## 7. Plan

Done, in this order: `SerialExecutor`/`MessageQueue`, `DurableLog`,
`CacheFile`/`RotatingArchive`, `IncrementalArchive`, `ArchiveGuard`, each with
its proofs; then the reading side: `HuffmanCode`/`HuffmanTable`,
`Inflate`/`InflateStream` with `SlidingWindow`, `NeedleSearch`, `FileReader` and
`ReaderApp`, with proofs about the search, the decoding tables, the window and the
state of inflate, and about what the reader makes of files, intact and damaged.
Next:

1. `FlushHandshake`: `flush()` and `getArchiveSnapshot` against the worker:
   `m_archiveLock`, condition and flag, the three-second timeout, a refused
   message, and the snapshot that takes `m_syncWriteLock` while the worker holds
   `m_archiveLock`.  Properties: `flush()` returns; when it returns before its
   timeout the logs written earlier are in archives; the snapshot's list is
   consistent.  Composed with `SerialExecutor` as the queue, so that the theorem
   about `MessageQueue` carries over.
2. `RecordLog`: the writer's side of records, byte by byte (mode, key, length, body,
   marker), `calculatePosition` and `GlogReader::read` with their searches, also
   backwards and by pieces, the compressor's dictionary.  It would say what
   `CacheFile` leaves open: which records behind a torn one are found, and where a
   load ends.
3. `Lifecycle`: instance table, daemon, `destroy`, `destroyAll`, handles of the
   bindings; no use after destruction, the daemon ends; `removeAll` with
   `reloadCache`.

## 8. Not modelled

Ciphers and elliptic curves are vendored, and the C++ zlib wrapper calls a
library; they compute on data without control of their own.  Of `pako.js` the
deflate half is not modelled: nothing in the repository calls it
(`FileReader.compress` has no caller), like `serializeBinary` of `Log_pb.js`.
The JNI and Objective-C bindings convert arguments; their handles belong to
`Lifecycle`.  The readers in Java repeat the loop of the desktop reader for a
server.  `GlogBuffer`, the internal log and the stop watch have no state another
component depends on.  Samples, demos and generated code other than `Log_pb.js`
are left out.

## 9. Running

```
tlc -config rot.cfg MCRotatingArchive
tlapm RotatingArchive_proofs.tla
```

The longest runs, `guard` and `inc_safety`, visit 1.8 and 1.5 million states and take
about a minute on two workers; the others end in half a minute or less.
