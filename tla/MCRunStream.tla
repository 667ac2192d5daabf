----------------------------- MODULE MCRunStream -----------------------------
(* Instances of RunStream for TLC. *)
EXTENDS RunStream
CONSTANTS r1, r2, w1, w2, s1, s2
=============================================================================
