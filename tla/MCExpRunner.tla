---------------------------- MODULE MCExpRunner ----------------------------
(***************************************************************************)
(* TLC instances of ExpRunner.  Episodes are interchangeable model values. *)
(***************************************************************************)
EXTENDS ExpRunner, TLC

Symmetry == Permutations(Episodes)
============================================================================
