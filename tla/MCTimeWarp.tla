----------------------------- MODULE MCTimeWarp -----------------------------
(* Instances of TimeWarpServers for TLC. *)
EXTENDS TimeWarpServers, TLC

CONSTANTS wiki, p1, p2

\* One process has a second round; the user's server, when there is one, is at
\* the lowest port.
MCMaxCalls == p1 :> 2 @@ p2 :> 1
MCUserURLs == wiki :> 1
=============================================================================
