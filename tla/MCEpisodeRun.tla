---------------------------- MODULE MCEpisodeRun ----------------------------
(* Instances of EpisodeRun for TLC. *)
EXTENDS EpisodeRun
=============================================================================
