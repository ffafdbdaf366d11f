------------------------------ MODULE MCFiles ------------------------------
(* Instances of FileAccess for TLC. *)
EXTENDS FileAccess, TLC

Symmetry == Permutations(Procs)
=============================================================================
