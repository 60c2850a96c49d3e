--------------------------- MODULE MCArchiveCache ---------------------------
(* Instances of ArchiveCache for TLC.                                      *)
EXTENDS ArchiveCache, TLC

\* Processes are interchangeable, and so are the bodies a source may serve.
Symmetry == Permutations(Procs) \cup Permutations(Bodies)
=============================================================================
