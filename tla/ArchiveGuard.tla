---------------------------- MODULE ArchiveGuard ----------------------------
(***************************************************************************)
(* Who may delete an archive: Glog::cleanupSafely, called by the daemon    *)
(* thread and by resetExpireSeconds, Glog::removeAll on the writer, and    *)
(* Glog::removeArchiveFile, against the readers that Glog::openReader      *)
(* enters in m_readingArchives.                                            *)
(*                                                                         *)
(* Archives are numbered in the order of their creation times.  A region   *)
(* under m_readingArchivesLock is one step, except in cleanupSafely, which *)
(* keeps the lock over its two loops and so has a step per archive.        *)
(***************************************************************************)
EXTENDS Naturals, FiniteSets, Functions

CONSTANTS MaxArchive,     \* bound: number of archives ever made
          MaxSize,        \* bound: size of an archive
          SizeLimit,      \* m_totalArchiveSizeLimit
          NumLimit,       \* DEFAULT_TOTAL_ARCHIVE_NUM_LIMIT
          Readers,        \* the readers applications open
          Cleaners,       \* the threads that call cleanupSafely
          SharedReading   \* whether two readers may be open on one archive

ASSUME GuardAssumption ==
         /\ MaxArchive \in Nat /\ MaxSize \in Nat \ {0}
         /\ SizeLimit \in Nat /\ NumLimit \in Nat
         /\ SharedReading \in BOOLEAN

VARIABLES size,      \* size[a]: the size of archive a, 0 if there is no such file
          made,      \* the archives 1 .. made have been created
          reading,   \* m_readingArchives
          holder,    \* who holds m_readingArchivesLock over several steps: {} or {c}
          reader,    \* reader[r]: its archive and what became of it
          cleaner,   \* cleaner[c]: progress of a call of cleanupSafely
          removal    \* progress of doRemoveAll

vars == <<size, made, reading, holder, reader, cleaner, removal>>

Archives == 1 .. MaxArchive
Present == {a \in Archives : size[a] > 0}

Newest(S) == CHOOSE a \in S : \A b \in S : b <= a

\* Mutant of Oldest: the listing is sorted the other way round.
OldestLast(S) == Newest(S)

Oldest(S) == CHOOSE a \in S : \A b \in S : a <= b

NoReader == [file |-> 0, state |-> "none"]
Idle == [pc |-> "idle", todo |-> {}, kept |-> {}, sizes |-> [a \in Archives |-> 0],
         total |-> 0, due |-> 0, spared |-> FALSE]
NoRemoval == [pc |-> "idle", todo |-> {}, forced |-> FALSE]

Init == /\ size = [a \in Archives |-> 0]
        /\ made = 0
        /\ reading = {}
        /\ holder = {}
        /\ reader = [r \in Readers |-> NoReader]
        /\ cleaner = [c \in Cleaners |-> Idle]
        /\ removal = NoRemoval

\* The file goes away under its name; whoever reads it is left with an unlinked
\* file.  how says who removed it.
Remove(a, how) ==
  /\ size' = [size EXCEPT ![a] = 0]
  /\ reader' = [r \in Readers |->
                  IF reader[r] = [file |-> a, state |-> "open"]
                    THEN [reader[r] EXCEPT !.state = how] ELSE reader[r]]

-----------------------------------------------------------------------------
(* The writer.  doRemoveAll runs on the same thread or under the same lock. *)

\* A flush that makes a new archive.
NewArchive == /\ removal.pc = "idle"
              /\ made < MaxArchive
              /\ made' = made + 1
              /\ \E n \in 1 .. MaxSize : size' = [size EXCEPT ![made + 1] = n]
              /\ UNCHANGED <<reading, holder, reader, cleaner, removal>>

\* A flush that appends to the archive of today, or creates it again.
AppendArchive == /\ removal.pc = "idle"
                 /\ made > 0 /\ size[made] < MaxSize
                 /\ size' = [size EXCEPT ![made] = @ + 1]
                 /\ UNCHANGED <<made, reading, holder, reader, cleaner, removal>>

-----------------------------------------------------------------------------
(* Readers.  openReader enters the name, then GlogReader opens the file.   *)

SoleReader(r, a) == \A s \in Readers \ {r} : reader[s].file # a

\* Mutant of Register: the name is entered without the lock.
RegisterUnlocked(r, a) ==
  /\ reader[r] = NoReader /\ a <= made
  /\ SharedReading \/ SoleReader(r, a)
  /\ reading' = reading \cup {a}
  /\ reader' = [reader EXCEPT ![r] = [file |-> a, state |-> "registered"]]
  /\ UNCHANGED <<size, made, holder, cleaner, removal>>

Register(r, a) == /\ reader[r] = NoReader /\ holder = {}
                  /\ a <= made
                  /\ SharedReading \/ SoleReader(r, a)
                  /\ reading' = reading \cup {a}
                  /\ reader' = [reader EXCEPT ![r] = [file |-> a, state |-> "registered"]]
                  /\ UNCHANGED <<size, made, holder, cleaner, removal>>

\* The constructor of GlogReader throws at a malformed key: there is no reader to
\* close, and the name stays.
OpenThrows(r) == /\ reader[r].state = "registered"
                 /\ reader' = [reader EXCEPT ![r] = NoReader]
                 /\ UNCHANGED <<size, made, reading, holder, cleaner, removal>>

\* A file with a broken header is deleted before the open fails: that is
\* RemoveReadFile and then this.
OpenFile(r) == /\ reader[r].state = "registered"
               /\ reader' = [reader EXCEPT ![r].state =
                               IF size[reader[r].file] > 0 THEN "open" ELSE "unreadable"]
               /\ UNCHANGED <<size, made, reading, holder, cleaner, removal>>

\* closeReader takes the name out, whoever else reads that archive.
CloseReader(r) == /\ reader[r].state \notin {"none", "registered"} /\ holder = {}
                  /\ reading' = reading \ {reader[r].file}
                  /\ reader' = [reader EXCEPT ![r] = NoReader]
                  /\ UNCHANGED <<size, made, holder, cleaner, removal>>

-----------------------------------------------------------------------------
(* cleanupSafely.                                                          *)

Step(c, pc) == cleaner[c].pc = pc

\* collectArchives, without the lock; one archive or none is left alone, and of
\* several the newest.
Collect(c) ==
  /\ Step(c, "idle")
  /\ Cardinality(Present) > 1
  /\ cleaner' = [cleaner EXCEPT ![c] =
       [Idle EXCEPT !.pc = "listed", !.todo = Present \ {Newest(Present)},
                    !.sizes = size, !.total = SumFunction(size)]]
  /\ UNCHANGED <<size, made, reading, holder, reader, removal>>

\* The clock and m_expireSeconds are read once: which archives are overdue
\* depends on both, and is open here.  Then the lock is taken.
Lock(c) == /\ Step(c, "listed") /\ holder = {}
           /\ holder' = {c}
           /\ \E d \in 0 .. made :
                cleaner' = [cleaner EXCEPT ![c].pc = "visit", ![c].due = d]
           /\ UNCHANGED <<size, made, reading, reader, removal>>

\* Is the oldest archive left being read?
Visit(c) == /\ Step(c, "visit") /\ cleaner[c].todo # {}
            /\ cleaner' = [cleaner EXCEPT ![c].pc = "dispose",
                             ![c].spared = Oldest(cleaner[c].todo) \in reading]
            /\ UNCHANGED <<size, made, reading, holder, reader, removal>>

Oversize(c) == cleaner[c].total > SizeLimit
Overdue(c) == Oldest(cleaner[c].todo) <= cleaner[c].due

\* Mutant of Shrink: the total becomes the room left, which is negative.
ShrinkWrongWay(c) ==
  /\ Step(c, "dispose") /\ ~cleaner[c].spared /\ Oversize(c)
  /\ LET a == Oldest(cleaner[c].todo) IN
       /\ Remove(a, "cleaned")
       /\ cleaner' = [cleaner EXCEPT ![c].pc = "visit", ![c].todo = @ \ {a},
                        ![c].total = SizeLimit - @]
  /\ UNCHANGED <<made, reading, holder, removal>>

\* Removed for the size, which shrinks as if the removal always succeeded, ...
Shrink(c) == /\ Step(c, "dispose") /\ ~cleaner[c].spared /\ Oversize(c)
             /\ LET a == Oldest(cleaner[c].todo) IN
                  /\ Remove(a, "cleaned")
                  /\ cleaner' = [cleaner EXCEPT ![c].pc = "visit", ![c].todo = @ \ {a},
                                   ![c].total = @ - cleaner[c].sizes[a]]
             /\ UNCHANGED <<made, reading, holder, removal>>

\* ... or for its age, which leaves the total, ...
Retire(c) == /\ Step(c, "dispose") /\ ~cleaner[c].spared /\ ~Oversize(c) /\ Overdue(c)
             /\ LET a == Oldest(cleaner[c].todo) IN
                  /\ Remove(a, "cleaned")
                  /\ cleaner' = [cleaner EXCEPT ![c].pc = "visit", ![c].todo = @ \ {a}]
             /\ UNCHANGED <<made, reading, holder, removal>>

\* Mutant of Keep: the total shrinks by what is kept.
KeepShrinking(c) ==
  /\ Step(c, "dispose")
  /\ cleaner[c].spared \/ (~Oversize(c) /\ ~Overdue(c))
  /\ LET a == Oldest(cleaner[c].todo) IN
       cleaner' = [cleaner EXCEPT ![c].pc = "visit", ![c].todo = @ \ {a}, ![c].kept = @ \cup {a},
                     ![c].total = IF @ > 0 THEN @ - 1 ELSE 0, ![c].spared = FALSE]
  /\ UNCHANGED <<size, made, reading, holder, reader, removal>>

\* ... or kept.
Keep(c) == /\ Step(c, "dispose")
           /\ cleaner[c].spared \/ (~Oversize(c) /\ ~Overdue(c))
           /\ LET a == Oldest(cleaner[c].todo) IN
                cleaner' = [cleaner EXCEPT ![c].pc = "visit", ![c].todo = @ \ {a},
                              ![c].kept = @ \cup {a}, ![c].spared = FALSE]
           /\ UNCHANGED <<size, made, reading, holder, reader, removal>>

\* The second loop: the oldest ones go, whoever reads them.
LimitNumber(c) == /\ Step(c, "visit") /\ cleaner[c].todo = {}
                  /\ Cardinality(cleaner[c].kept) > NumLimit
                  /\ LET a == Oldest(cleaner[c].kept) IN
                       /\ Remove(a, "limited")
                       /\ cleaner' = [cleaner EXCEPT ![c].kept = @ \ {a}]
                  /\ UNCHANGED <<made, reading, holder, removal>>

Unlock(c) == /\ Step(c, "visit") /\ cleaner[c].todo = {}
             /\ Cardinality(cleaner[c].kept) <= NumLimit
             /\ cleaner' = [cleaner EXCEPT ![c] = Idle]
             /\ holder' = {}
             /\ UNCHANGED <<size, made, reading, reader, removal>>

-----------------------------------------------------------------------------
(* removeArchiveFile, and doRemoveAll on the writer.                       *)

RemoveFile(a) == /\ holder = {} /\ a \notin reading
                 /\ Remove(a, "removed")
                 /\ UNCHANGED <<made, reading, holder, cleaner, removal>>

RemoveReadFile(a) == /\ Remove(a, "removed")
                     /\ UNCHANGED <<made, reading, holder, cleaner, removal>>

\* With no archive it returns at once, whatever reloadCache says.
RemoveAll == /\ removal.pc = "idle" /\ Present # {}
             /\ \E forced \in BOOLEAN :
                  removal' = [pc |-> "removing", todo |-> Present, forced |-> forced]
             /\ UNCHANGED <<size, made, reading, holder, reader, cleaner>>

RemoveNext(a) == /\ removal.pc = "removing" /\ a \in removal.todo
                 /\ removal.forced \/ holder = {}
                 /\ IF removal.forced \/ a \notin reading
                      THEN Remove(a, "removed") ELSE UNCHANGED <<size, reader>>
                 /\ removal' = [removal EXCEPT !.todo = @ \ {a}]
                 /\ UNCHANGED <<made, reading, holder, cleaner>>

\* What reloadCache does to the cache file is no concern of the archives.
RemovedAll == /\ removal.pc = "removing" /\ removal.todo = {}
              /\ removal' = NoRemoval
              /\ UNCHANGED <<size, made, reading, holder, reader, cleaner>>

-----------------------------------------------------------------------------
Writer == NewArchive \/ AppendArchive
Reader(r) == (\E a \in Archives : Register(r, a)) \/ OpenThrows(r) \/ OpenFile(r)
             \/ CloseReader(r)
Cleanup(c) == Collect(c) \/ Lock(c) \/ Visit(c) \/ Shrink(c) \/ Retire(c) \/ Keep(c)
              \/ LimitNumber(c) \/ Unlock(c)
Removal == \/ \E a \in Archives : RemoveFile(a) \/ RemoveReadFile(a) \/ RemoveNext(a)
           \/ RemoveAll
           \/ RemovedAll

Next == \/ Writer
        \/ \E r \in Readers : Reader(r)
        \/ \E c \in Cleaners : Cleanup(c)
        \/ Removal

Spec == Init /\ [][Next]_vars

-----------------------------------------------------------------------------
\* The values the variables range over.
TypeOK == /\ size \in [Archives -> 0 .. MaxSize]
          /\ made \in 0 .. MaxArchive
          /\ reading \subseteq Archives
          /\ holder \in {{}} \cup {{c} : c \in Cleaners}
          /\ reader \in [Readers -> [file : 0 .. MaxArchive,
                                     state : {"none", "registered", "open", "unreadable",
                                              "cleaned", "limited", "removed"}]]
          /\ cleaner \in [Cleaners -> [pc : {"idle", "listed", "visit", "dispose"},
                                       todo : SUBSET Archives, kept : SUBSET Archives,
                                       sizes : [Archives -> 0 .. MaxSize], total : Nat,
                                       due : 0 .. MaxArchive, spared : BOOLEAN]]
          /\ removal \in [pc : {"idle", "removing"}, todo : SUBSET Archives, forced : BOOLEAN]

\* The size and age limits of cleanupSafely leave an archive alone while its one reader
\* has it open, however old the listing is and whenever the reader came: the
\* name is entered before the file is opened, and looked up under the lock.
SparesReader == \A r \in Readers : reader[r].state # "cleaned"

\* Glog.h on cleanupSafely: "this action will NOT delete files which is being
\* read".
SparesReaders == \A r \in Readers : reader[r].state \notin {"cleaned", "limited"}

\* cleanupSafely removes the oldest archives first: it removes one for its size
\* or its age only if each older one it kept is being read.
OldestFirst ==
  [][\A c \in Cleaners :
       Step(c, "dispose") /\ cleaner'[c].pc = "visit" /\ cleaner'[c].kept = cleaner[c].kept
         => cleaner[c].kept \subseteq reading]_vars

\* Once its first loop is through, the archives cleanupSafely kept and the one
\* it skipped are together within the size limit, by the sizes it listed,
\* unless readers hold all it kept.
Skipped(c) == Newest({a \in Archives : cleaner[c].sizes[a] > 0})
WithinLimit ==
  \A c \in Cleaners :
    Step(c, "visit") /\ cleaner[c].todo = {}
      => \/ SumFunctionOnSet(cleaner[c].sizes, cleaner[c].kept \cup {Skipped(c)}) <= SizeLimit
         \/ cleaner[c].kept \subseteq reading
=============================================================================
