---------------------------- MODULE NeedleSearch ----------------------------
(***************************************************************************)
(* The search for the sync marker (searchNeedle, computePartialMatchTable  *)
(* of glog_reader.js; GlogFile.cpp has the same two loops): the table is   *)
(* computed once, when a file is opened, and a search is a run through the *)
(* haystack that never goes back in it.                                    *)
(* Indices count from 0 as in the code, so needle[q] is Needle[q + 1].     *)
(***************************************************************************)
EXTENDS Integers, Sequences

CONSTANT Byte,
         Needle  \* SYNC_MARKER

ASSUME NeedleAssumption == Needle \in Seq(Byte) /\ Needle # <<>>

VARIABLES search,    \* "table": the table is not complete; "idle"; "run": a search goes on
          partialMatchTable, \* defined from 0 to i while it is computed
          haystack,
          i, j,
          found      \* what the last search returned

searchVars == <<search, partialMatchTable, haystack, i, j, found>>

SearchInit == /\ search = "table"
              /\ partialMatchTable = [q \in {0} |-> -1]
              /\ haystack = <<>>
              /\ i = 0 /\ j = -1
              /\ found = -1

Size == Len(Needle)

\* The needle's own beginning goes on at i.
Goes == j >= 0 => Needle[i + 1] = Needle[j + 1]

\* Mutants of MatchEntry: what has matched is forgotten, or counted once too often.
MatchEntryForgotten(at, k) == IF Needle[at + 1] # Needle[k + 1] THEN 0 ELSE partialMatchTable[k]
MatchEntryPlain(at, k) == k + 1

\* A place that would only meet the same element again takes over its table entry.
MatchEntry(at, k) == IF Needle[at + 1] # Needle[k + 1] THEN k ELSE partialMatchTable[k]

TableForward == /\ search = "table" /\ i < Size - 1
                /\ Goes
                /\ i' = i + 1 /\ j' = j + 1
                /\ partialMatchTable' = [q \in 0 .. i + 1 |-> IF q = i + 1 THEN MatchEntry(i + 1, j + 1)
                                                              ELSE partialMatchTable[q]]
                /\ UNCHANGED <<search, haystack, found>>

TableBack == /\ search = "table" /\ i < Size - 1
             /\ ~Goes
             /\ j' = partialMatchTable[j]
             /\ UNCHANGED <<search, partialMatchTable, haystack, i, found>>

TableDone == /\ search = "table" /\ i >= Size - 1
             /\ search' = "idle"
             /\ UNCHANGED <<partialMatchTable, haystack, i, j, found>>

\* searchNeedle is called with a haystack.
Begin(h) == /\ search = "idle"
            /\ haystack' = h
            /\ i' = 0 /\ j' = 0
            /\ search' = "run"
            /\ UNCHANGED <<partialMatchTable, found>>

Looking == search = "run" /\ i < Len(haystack) /\ j < Size
Fits == j >= 0 => haystack[i + 1] = Needle[j + 1]

Forward == /\ Looking /\ Fits
           /\ i' = i + 1 /\ j' = j + 1
           /\ UNCHANGED <<search, partialMatchTable, haystack, found>>

Back == /\ Looking /\ ~Fits
        /\ j' = partialMatchTable[j]
        /\ UNCHANGED <<search, partialMatchTable, haystack, i, found>>

\* The loop has ended, behind the needle or at the haystack's end.
Return == /\ search = "run" /\ ~Looking
          /\ found' = IF j = Size THEN i - j ELSE -1
          /\ search' = "idle"
          /\ UNCHANGED <<partialMatchTable, haystack, i, j>>

Computing == TableForward \/ TableBack \/ TableDone
Searching == Forward \/ Back \/ Return

SearchNext == Computing \/ Searching \/ \E h \in Seq(Byte) : Begin(h)

SearchSpec == SearchInit /\ [][SearchNext]_searchVars

-----------------------------------------------------------------------------
\* The needle lies in h behind its first at elements.
Occurs(h, at) == at + Size <= Len(h) /\ \A k \in 1 .. Size : h[at + k] = Needle[k]

IsFirst(h, at) == IF at = -1 THEN \A b \in 0 .. Len(h) : ~Occurs(h, b)
                  ELSE /\ at \in 0 .. Len(h) /\ Occurs(h, at)
                       /\ \A b \in 0 .. at - 1 : ~Occurs(h, b)

\* A search returns the first place where the marker lies in the rest of the file, and -1
\* only if it lies nowhere in it (searchNeedle).
FindsFirst == [][search = "run" /\ search' = "idle" => IsFirst(haystack, found')]_searchVars
=============================================================================
