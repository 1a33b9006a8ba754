-------------------------- MODULE MCRolloutService --------------------------
(* Instances of RolloutService for TLC.  Requests are interchangeable. *)
EXTENDS RolloutService, TLC

Symmetry == Permutations(Requests)
=============================================================================
