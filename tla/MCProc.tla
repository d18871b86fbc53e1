------------------------------- MODULE MCProc -------------------------------
(* The process table with a few slots and CPUs, for TLC. *)
EXTENDS Proc, TLC

Symmetry == Permutations(CPU)
=============================================================================
