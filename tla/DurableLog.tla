----------------------------- MODULE DurableLog -----------------------------
(***************************************************************************)
(* What Glog's files promise to whoever writes logs: a log that reached    *)
(* the disk stays there, through flushes, failing system calls, crashes    *)
(* and restarts, and a write reported as successful is on the disk.  The   *)
(* promise has one exception: when a crash has torn a record of the cache, *)
(* the logs written behind the tear are exposed until they are archived,   *)
(* and each restart may lose the last two of them.  Logs are numbered in   *)
(* the order of the write calls; nothing that was refused or lost turns up *)
(* later among newer logs.                                                 *)
(***************************************************************************)
EXTENDS Naturals

CONSTANT Logs  \* the numbers of the write calls

VARIABLES stored,   \* the logs some file holds for good
          exposed,  \* the logs behind a torn record of the cache
          torn,     \* whether a record of the cache is torn
          acked     \* the logs whose write returned true

vars == <<stored, exposed, torn, acked>>

Init == /\ stored = {} /\ exposed = {} /\ acked = {}
        /\ torn = FALSE

Put(l) == /\ \A k \in stored \cup exposed : k < l
          /\ IF torn THEN exposed' = exposed \cup {l} /\ UNCHANGED stored
                     ELSE stored' = stored \cup {l} /\ UNCHANGED exposed
          /\ UNCHANGED torn

Write(l) == Put(l) /\ acked' = acked \cup {l}

\* The process dies after the record is complete and before the caller hears of it.
WriteUnacked(l) == Put(l) /\ UNCHANGED acked

\* The process dies inside a record.
Tear == /\ torn' = TRUE
        /\ UNCHANGED <<stored, exposed, acked>>

\* A restart finds its place in a torn cache and may put it before the last records.
Reload == /\ torn
          /\ exposed' \subseteq exposed
          /\ \E k, l \in exposed : exposed \ exposed' \subseteq {k, l}
          /\ UNCHANGED <<stored, torn, acked>>

\* Logs of the cache come into an archive; the tear goes when the cache does.
Archive(S) == /\ stored' = stored \cup S
              /\ exposed' = exposed \ S
              /\ torn' \in {torn, FALSE}
              /\ torn' \/ exposed' = {}
              /\ UNCHANGED acked

Next == \/ \E l \in Logs : Write(l) \/ WriteUnacked(l)
        \/ Tear
        \/ Reload
        \/ \E S \in SUBSET exposed : Archive(S)

Spec == Init /\ [][Next]_vars
=============================================================================
