-------------------------- MODULE EpisodeLifecycle --------------------------
(***************************************************************************)
(* What the status files promise to whoever resumes an experiment, said    *)
(* without drivers, workers, Ray or clocks: an episode is unstarted, in    *)
(* flight, over but worth another attempt, or finished for good; an        *)
(* attempt that is over is only ever followed by a new one while retries   *)
(* are left; and no attempt is claimed with a retry count above the        *)
(* budget.                                                                 *)
(*                                                                         *)
(* Two things end that promise.  An attempt that is executed again where   *)
(* nobody decided it may go through any phase again until its executor is  *)
(* gone, each execution adding at most one to its retry count; and a plan  *)
(* laid over old attempts starts from whatever they left.                  *)
(*                                                                         *)
(* Several episodes may change in one step (a sweep settles many).         *)
(***************************************************************************)
EXTENDS Naturals

CONSTANTS Episodes, MaxRetries

VARIABLES
  phase,     \* the phase of each episode
  retries,   \* the retry count its live directory shows
  redone,    \* how often its current attempt was executed again
  replanned  \* a plan was laid over old attempts

Phase == {"unstarted", "inflight", "retriable", "finished"}

Init ==
  /\ phase = [e \in Episodes |-> "unstarted"]
  /\ retries = [e \in Episodes |-> 0]
  /\ redone = [e \in Episodes |-> 0]
  /\ replanned = FALSE

\* A new attempt is claimed, within the budget.
Start(e) ==
  /\ phase[e] = "unstarted" /\ phase'[e] = "inflight"
  /\ retries'[e] \in 0..MaxRetries

\* The attempt ends, on its own or because somebody declares it dead.
Settle(e) ==
  /\ phase[e] = "inflight" /\ phase'[e] \in {"retriable", "finished"}
  /\ retries'[e] = retries[e]

\* An attempt that is over makes room for the next one, if one is left.
Retry(e) ==
  /\ phase[e] = "retriable" /\ phase'[e] = "unstarted"
  /\ retries[e] < MaxRetries /\ retries'[e] = 0

\* A re-execution takes the attempt back to where it likes.
Redo(e) ==
  /\ redone[e] > 0
  /\ phase'[e] \in Phase
  /\ retries'[e] <= MaxRetries + redone[e]

\* An attempt that was once claimed is executed again, or its executor is gone.
Executor(e) ==
  /\ phase'[e] = phase[e] /\ retries'[e] = retries[e]
  /\ \/ redone'[e] = 0
     \/ redone'[e] = redone[e] + 1 /\ (redone[e] > 0 \/ phase[e] # "unstarted")

Stays(e) == phase'[e] = phase[e] /\ retries'[e] = retries[e]

Next ==
  /\ \/ replanned'
     \/ \A e \in Episodes :
          \/ Executor(e)
          \/ /\ redone'[e] = redone[e]
             /\ Start(e) \/ Settle(e) \/ Retry(e) \/ Redo(e) \/ Stays(e)
  /\ replanned => replanned'
  /\ phase' = [e \in Episodes |-> phase'[e]]
  /\ retries' = [e \in Episodes |-> retries'[e]]
  /\ redone' = [e \in Episodes |-> redone'[e]]

Spec == Init /\ [][Next]_<<phase, retries, redone, replanned>>
=============================================================================
