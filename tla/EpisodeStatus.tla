--------------------------- MODULE EpisodeStatus ---------------------------
(***************************************************************************)
(* The vocabulary of status.json, the control-plane file every episode     *)
(* directory carries, and the pure decisions the runner takes from it:     *)
(* what a new attempt's retry_count is, when a RUNNING entry is declared   *)
(* dead, when a QUEUED one is, and which episodes resume picks up.         *)
(***************************************************************************)
EXTENDS Naturals

\* Status, episode_status.py.  Absent stands for "no readable status.json":
\* EpisodeStatus.read returns None for a missing and for a corrupt file alike.
Absent == "ABSENT"

InFlightStatuses  == {"QUEUED", "RUNNING"}
TerminalStatuses  == {"COMPLETED", "FAILED", "CANCELLED", "STALE",
                      "MAX_STEPS_REACHED", "INVALID_CONFIG"}
RetriableStatuses == {"FAILED", "CANCELLED", "STALE"}

\* The terminal statuses resume never picks up again.
FinishedStatuses  == TerminalStatuses \ RetriableStatuses

Status == InFlightStatuses \cup TerminalStatuses

\* Slips for the mutation runs: the cap lost, the selection too wide.
RelaunchUncapped(st, retryCount, maxRetries) ==
  st = Absent \/ st \in RetriableStatuses

RelaunchFinished(st, retryCount, maxRetries) ==
  st = Absent \/ (st \in TerminalStatuses /\ retryCount < maxRetries)

\* retry_count of the attempt that follows a prior status (Absent: none).
NextRetryCount(prior, retryCount) ==
  CASE prior = Absent              -> 0
    [] prior \in InFlightStatuses  -> retryCount
    [] prior \in TerminalStatuses  -> retryCount + 1

\* A RUNNING entry's worker is declared dead: its heartbeat was written before
\* the sweeping process started (fresh is FALSE), or is older than
\* step_timeout_s + cancel_grace_s (the limit).
ShouldSweepRunningToStale(fresh, age, limit) == ~fresh \/ age > limit

\* sweep_stale_statuses' verdict on one entry: RUNNING by the predicate above,
\* QUEUED when it was written more than orphan_threshold_s ago.
ShouldSweep(st, fresh, age, stepLimit, orphanLimit) ==
  \/ st = "RUNNING" /\ ShouldSweepRunningToStale(fresh, age, stepLimit)
  \/ st = "QUEUED"  /\ age > orphanLimit

\* resume=True re-runs an episode that never started and a retriable one whose
\* retry budget is not used up.
ShouldRelaunch(st, retryCount, maxRetries) ==
  \/ st = Absent
  \/ st \in RetriableStatuses /\ retryCount < maxRetries

\* The phase of EpisodeLifecycle a status stands for.
PhaseOf(st) ==
  CASE st = Absent               -> "unstarted"
    [] st \in InFlightStatuses  -> "inflight"
    [] st \in RetriableStatuses -> "retriable"
    [] st \in FinishedStatuses  -> "finished"
============================================================================
