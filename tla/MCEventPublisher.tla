-------------------------- MODULE MCEventPublisher --------------------------
(* Instances of EventPublisher for TLC. *)
EXTENDS EventPublisher

MCProposals == {-1, 1}
MCTypes     == {"llm_call"}
=============================================================================
