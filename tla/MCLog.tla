------------------------------- MODULE MCLog -------------------------------
(* The log with a few processes and blocks, for TLC. *)
EXTENDS Log, TLC

\* Processes, and blocks, are interchangeable; the values are not (Zero).
Symmetry == Permutations(Proc) \cup Permutations(Block)
=============================================================================
