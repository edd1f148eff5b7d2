---------------------------- MODULE MCEndpoints ----------------------------
(* Instances of Endpoints for TLC. *)
EXTENDS Endpoints, TLC

Symmetry == Permutations(Pages) \cup Permutations(Requests)
=============================================================================
