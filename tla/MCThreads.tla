------------------------------ MODULE MCThreads ------------------------------
(* Instances of Threads for TLC. *)
EXTENDS Threads, TLC
CONSTANTS t1, t2, p1, p2, c1, e1
Symmetry == Permutations(ThreadIds) \cup Permutations(Patches)
=============================================================================
