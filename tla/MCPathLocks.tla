---------------------------- MODULE MCPathLocks ----------------------------
(* PathLocks for TLC: interchangeable tasks and paths.                     *)
EXTENDS PathLocks, TLC

Symmetry == Permutations(Tasks) \cup Permutations(Paths)
=============================================================================
