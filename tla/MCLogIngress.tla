---------------------------- MODULE MCLogIngress ----------------------------
(* Instances of LogIngress for TLC. *)
EXTENDS LogIngress, TLC

RequestSymmetry == Permutations(Requests)
=============================================================================
