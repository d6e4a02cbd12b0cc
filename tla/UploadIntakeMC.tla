--------------------------- MODULE UploadIntakeMC ---------------------------
(***************************************************************************)
(* UploadIntake for TLC: requests and contents are interchangeable.        *)
(***************************************************************************)
EXTENDS UploadIntake

Symmetry == Permutations(Uploads) \cup Permutations(Contents)
=============================================================================
