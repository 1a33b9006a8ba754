-------------------------- MODULE MCSequentialRun --------------------------
(* Instances of SequentialRun for TLC.  Episodes are interchangeable. *)
EXTENDS SequentialRun, TLC

Symmetry == Permutations(Episodes)
=============================================================================
