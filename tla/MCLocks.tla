------------------------------ MODULE MCLocks -------------------------------
(* The three layers of locks that share no state, each checked by itself:   *)
(* spin-locks, the locks of inodes under the system calls on names, and     *)
(* file locks.  `part` says which one a behaviour is about.                 *)
EXTENDS Flock, Spinlock, Names, TLC

CONSTANT Part

VARIABLE part

MCPath == {<<"a">>, <<"a", "b">>}

Symmetry == Permutations(Proc) \cup Permutations(Inum) \cup Permutations(User)

MCInit == part \in Part /\ Init /\ SpinInit /\ NamesInit

MCNext ==
  /\ part' = part
  /\ \/ part = "flock" /\ Next /\ UNCHANGED <<spinVars, nsVars>>
     \/ part = "spin" /\ SpinNext /\ UNCHANGED <<vars, nsVars>>
     \/ part = "names" /\ NamesNext /\ UNCHANGED <<vars, spinVars>>

MCSpec == MCInit /\ [][MCNext]_<<part, vars, spinVars, nsVars>>
=============================================================================
