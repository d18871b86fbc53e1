------------------------------- MODULE MCPipe -------------------------------
(* A pipe of two bytes whose counters wrap at four, for TLC. *)
EXTENDS Pipe, TLC

Symmetry == Permutations(Val)
=============================================================================
