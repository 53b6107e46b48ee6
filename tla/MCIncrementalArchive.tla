------------------------ MODULE MCIncrementalArchive ------------------------
(* Model-checking instances of IncrementalArchive.                         *)
EXTENDS IncrementalArchive

\* The calls whose failure leaves a cache unmapped behind its header.
LoadCalls == {"ftruncate", "mmap"}
OtherCalls == {"open", "write", "remove", "size archive", "fill archive", "map archive"}
AllCalls == LoadCalls \cup OtherCalls
=============================================================================
