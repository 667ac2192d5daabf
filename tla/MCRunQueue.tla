----------------------------- MODULE MCRunQueue -----------------------------
(* Instances of RunQueue for TLC. *)
EXTENDS RunQueue
CONSTANTS r1, r2, w1, w2, c1
=============================================================================
