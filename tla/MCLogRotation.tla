--------------------------- MODULE MCLogRotation ---------------------------
(***************************************************************************)
(* A small instance of LogRotation for TLC: the processes are alike.       *)
(***************************************************************************)
EXTENDS LogRotation, TLC

Symmetry == Permutations(Writers)
=============================================================================
