---------------------------- MODULE MCThreadRuns ----------------------------
(* Instances of ThreadRuns for TLC. *)
EXTENDS ThreadRuns
CONSTANTS r1, r2, r3, w1, t1, p1, p2
=============================================================================
