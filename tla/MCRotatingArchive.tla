------------------------- MODULE MCRotatingArchive -------------------------
(* Model-checking instances of RotatingArchive.                            *)
EXTENDS RotatingArchive

AllCalls == {"open", "ftruncate", "write", "mmap", "rename", "remove"}
=============================================================================
