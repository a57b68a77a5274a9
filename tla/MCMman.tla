------------------------------- MODULE MCMman -------------------------------
(* Instances of Mman *)
EXTENDS Mman, TLC

CONSTANTS p1, p2
ProcSymmetry == Permutations(Procs)
=============================================================================
