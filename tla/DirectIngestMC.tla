--------------------------- MODULE DirectIngestMC ---------------------------
(***************************************************************************)
(* DirectIngest for TLC: runs and texts are interchangeable.               *)
(***************************************************************************)
EXTENDS DirectIngest

Symmetry == Permutations(Runs) \cup Permutations(Texts)
=============================================================================
