---------------------------- MODULE MCMultiAgent ----------------------------
(* Instances of MultiAgent for TLC. *)
EXTENDS MultiAgent
=============================================================================
