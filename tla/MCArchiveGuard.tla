--------------------------- MODULE MCArchiveGuard ---------------------------
(* Model-checking instances of ArchiveGuard.                               *)
EXTENDS ArchiveGuard

CONSTANTS r1, r2, c1

OneReader == {r1}
TwoReaders == {r1, r2}
OneCleaner == {c1}
=============================================================================
