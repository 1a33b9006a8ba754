----------------------------- MODULE ExpRunner -----------------------------
(***************************************************************************)
(* One experiment run on Ray: the driver (run_with_ray and its auto-retry  *)
(* rounds), the Ray tasks it submits, the workers that execute episodes    *)
(* and the status.json files through which all of them coordinate.         *)
(*                                                                         *)
(* The file system and the Ray scheduler are shared; every file write of   *)
(* one actor can fall between two file reads of another.  Time is counted  *)
(* in ticks: age[e] is the number of ticks since status.json of e was last *)
(* stamped, saturating at MaxAge, and the limits already include           *)
(* cancel_grace_s.                                                         *)
(***************************************************************************)
EXTENDS Naturals, FiniteSets, EpisodeStatus

CONSTANTS
  Episodes,        \* the planned episodes (trajectory ids)
  NoEpisode,       \* a value that is not an episode
  NCpus,           \* n_cpus: Ray worker slots
  MaxRetries,      \* Experiment.max_retries
  MaxRetryRounds,  \* max_retry_rounds
  StepLimit,       \* step_timeout_s  + cancel_grace_s, in ticks
  SetupLimit,      \* setup_timeout_s + cancel_grace_s, in ticks
  OrphanLimit,     \* orphan_threshold_s, in ticks
  MaxAge,          \* where an age saturates: above every limit
  TaskRetries,     \* how often Ray re-executes a task whose worker died
  MaxLaunches,     \* bound: how often the operator starts the driver
  LaunchModes,     \* values of Experiment.resume the operator may launch with
  AccurateTimeouts, \* TRUE: what a timeout declares stuck really is stuck
  FinalWriteSucceeds \* bound: TRUE leaves out failing last writes of status.json

ASSUME EpisodesAssumption ==
  /\ IsFiniteSet(Episodes)
  /\ NoEpisode \notin Episodes

ASSUME BoundsAssumption ==
  /\ NCpus \in Nat \ {0}
  /\ {MaxRetries, MaxRetryRounds, TaskRetries, MaxLaunches} \subseteq Nat
  /\ LaunchModes \subseteq BOOLEAN
  /\ {AccurateTimeouts, FinalWriteSucceeds} \subseteq BOOLEAN

ASSUME LimitsAssumption ==
  /\ {StepLimit, SetupLimit, OrphanLimit, MaxAge} \subseteq Nat
  /\ StepLimit <= SetupLimit
  /\ SetupLimit < MaxAge
  /\ OrphanLimit < MaxAge

VARIABLES
  \* The episode directories on disk.
  status,      \* status.json: its status, or Absent
  retry,       \* its retry_count
  age,         \* ticks since it was stamped, while it is in flight
  fresh,       \* its heartbeat was written since this round's process_start_s
  meta,        \* episode.metadata.json exists in the live directory
  config,      \* episode_config.json exists in the live directory
  \* The driver.
  pc,          \* where it is; "down" when no driver process exists
  launches,    \* how many times it was started
  resume,      \* exp.resume
  roundNum,    \* round_num of _run_with_retries
  outcome,     \* how the launch ended: "none" yet, "returned" or "aborted"
  todo,        \* episodes not yet pre-claimed, in the claim loop
  overwrite,   \* Episode.allow_overwrite of the episodes being run
  refs,        \* episodes_in_progress: refs the poll loop still waits for
  scan,        \* refs _kill_stale_workers has still to look at
  cur,         \* the episode the driver is working on
  held,        \* the retry_count of the status object it holds
  seen,        \* the status of the object it holds
  idleFor,     \* ticks since idle_capacity_since, or NotIdle
  roundTrajs, roundFails,   \* this round's ExpResult
  trajs, fails,             \* the aggregated ExpResult
  \* Ray and the workers.
  task,        \* state of the episode's Ray task
  tries,       \* executions of the task that Ray has started again
  cancelled,   \* ray.cancel(force=True) was accepted for the task
  wpc,         \* where its worker is
  wretry,      \* retry_count of the worker's own status object
  \* History.
  finishedOnce, \* episodes that ever wrote a finished status
  redone,       \* episodes Ray executed again although their status was finished
  unwritten,    \* episodes whose worker ever failed to write its last status
  replanned     \* a plan from scratch was laid over attempts already on disk

disk    == <<status, retry, age, fresh, meta, config>>
session == <<launches, resume, roundNum, outcome>>
batch   == <<todo, overwrite, refs, scan>>
hand    == <<cur, held, seen>>
results == <<roundTrajs, roundFails, trajs, fails>>
driver  == <<pc, session, batch, hand, idleFor, results>>
ray     == <<task, tries, cancelled, wpc, wretry>>
history == <<finishedOnce, redone, unwritten, replanned>>
vars    == <<disk, driver, ray, history>>

NotIdle == MaxAge + 1

DriverPC == {"down", "start", "plan", "claim", "renamed", "restored", "wait", "scan",
             "cancel", "stamp", "shutdown", "endsweep", "decide"}
PollLoop == {"wait", "scan", "cancel", "stamp"}
TaskState   == {"none", "pending", "running", "ok", "err"}
WorkerPC    == {"none", "archiving", "archived", "opening", "setup",
                "rearchived", "loop", "closing", "failing"}
Outcome     == {"COMPLETED", "MAX_STEPS_REACHED", "FAILED", "INVALID_CONFIG",
                "RUNNING"}

TypeOK ==
  /\ status \in [Episodes -> Status \cup {Absent}]
  /\ retry \in [Episodes -> Nat]
  /\ age \in [Episodes -> 0..MaxAge]
  /\ fresh \in [Episodes -> BOOLEAN]
  /\ meta \in [Episodes -> BOOLEAN]
  /\ config \in [Episodes -> BOOLEAN]
  /\ pc \in DriverPC
  /\ launches \in 0..MaxLaunches
  /\ resume \in BOOLEAN
  /\ roundNum \in 0..MaxRetryRounds
  /\ outcome \in {"none", "returned", "aborted"}
  /\ todo \in SUBSET Episodes
  /\ refs \in SUBSET Episodes
  /\ scan \in SUBSET Episodes
  /\ overwrite \in [Episodes -> BOOLEAN]
  /\ cur \in Episodes \cup {NoEpisode}
  /\ pc \in {"renamed", "restored", "cancel", "stamp"} => cur \in Episodes
  /\ held \in Nat
  /\ seen \in InFlightStatuses \cup {Absent}
  /\ idleFor \in 0..NotIdle
  /\ roundTrajs \in SUBSET Episodes
  /\ roundFails \in SUBSET Episodes
  /\ trajs \in SUBSET Episodes
  /\ fails \in SUBSET Episodes
  /\ task \in [Episodes -> TaskState]
  /\ tries \in [Episodes -> 0..TaskRetries]
  /\ cancelled \in [Episodes -> BOOLEAN]
  /\ wpc \in [Episodes -> WorkerPC]
  /\ wretry \in [Episodes -> Nat]
  /\ finishedOnce \in SUBSET Episodes
  /\ redone \in SUBSET Episodes
  /\ unwritten \in SUBSET Episodes
  /\ replanned \in BOOLEAN

\* An output directory nobody has used yet, and no driver.
Init ==
  /\ status = [e \in Episodes |-> Absent]
  /\ retry = [e \in Episodes |-> 0]
  /\ age = [e \in Episodes |-> 0]
  /\ fresh = [e \in Episodes |-> FALSE]
  /\ meta = [e \in Episodes |-> FALSE]
  /\ config = [e \in Episodes |-> FALSE]
  /\ pc = "down" /\ launches = 0 /\ resume = FALSE
  /\ roundNum = 0 /\ outcome = "none"
  /\ todo = {} /\ refs = {} /\ scan = {}
  /\ overwrite = [e \in Episodes |-> FALSE]
  /\ cur = NoEpisode /\ held = 0 /\ seen = Absent
  /\ idleFor = NotIdle
  /\ roundTrajs = {} /\ roundFails = {} /\ trajs = {} /\ fails = {}
  /\ task = [e \in Episodes |-> "none"]
  /\ tries = [e \in Episodes |-> 0]
  /\ cancelled = [e \in Episodes |-> FALSE]
  /\ wpc = [e \in Episodes |-> "none"]
  /\ wretry = [e \in Episodes |-> 0]
  /\ finishedOnce = {} /\ redone = {} /\ unwritten = {} /\ replanned = FALSE

-----------------------------------------------------------------------------
\* EpisodeStatus.write: one atomic replacement of status.json.  Only an
\* in-flight entry's age and only a RUNNING entry's freshness are ever read.
WriteStatus(e, st, rc) ==
  /\ status' = [status EXCEPT ![e] = st]
  /\ retry' = [retry EXCEPT ![e] = rc]
  /\ age' = [age EXCEPT ![e] = 0]
  /\ fresh' = [fresh EXCEPT ![e] = st = "RUNNING"]
  /\ finishedOnce' = IF st \in FinishedStatuses
                     THEN finishedOnce \cup {e} ELSE finishedOnce

\* FileStorage._archive_episode renames the directory away: whatever was in it
\* is gone from the live one.
RenameAway(e) ==
  /\ status' = [status EXCEPT ![e] = Absent]
  /\ retry' = [retry EXCEPT ![e] = 0]
  /\ age' = [age EXCEPT ![e] = 0]
  /\ fresh' = [fresh EXCEPT ![e] = FALSE]
  /\ meta' = [meta EXCEPT ![e] = FALSE]

\* Slip: the sweep forgets which statuses it is about.
SweptAnyStatus(e, fr) == config[e] /\ ~fr[e]

\* list_episode_statuses sees only directories that hold a config.
Swept(e, fr) ==
  /\ config[e]
  /\ ShouldSweep(status[e], fr[e], age[e], StepLimit, OrphanLimit)

\* sweep_stale_statuses, with fr the freshness against its process_start_s.
\* It runs only while no worker is alive, so its writes are one step here.
StatusAfterSweep(fr) ==
  [e \in Episodes |-> IF Swept(e, fr) THEN "STALE" ELSE status[e]]

Sweep(fr) ==
  /\ status' = StatusAfterSweep(fr)
  /\ age' = [e \in Episodes |-> IF Swept(e, fr) THEN 0 ELSE age[e]]
  /\ fresh' = [e \in Episodes |-> fr[e] /\ ~Swept(e, fr)]

\* Slip: only FAILED counts as retriable.
HasFailed ==
  \E e \in Episodes : config[e] /\ status[e] = "FAILED" /\ retry[e] < MaxRetries

\* _has_retriable_episodes.
HasRetriable ==
  \E e \in Episodes : /\ config[e]
                      /\ status[e] \in RetriableStatuses
                      /\ retry[e] < MaxRetries

HasIdleCapacity == Cardinality({e \in Episodes : task[e] = "running"}) < NCpus

\* Slips: the driver never gives up on a queued task, or on one in setup.
NeverOrphaned(e) == FALSE
NeverStalled(e)  == status[e] = "RUNNING" /\ age[e] > MaxAge

\* _kill_stale_workers' two verdicts on a ref.  status.current_step is written
\* once, as 0, so the budget of a RUNNING entry is always setup_timeout_s.
Orphaned(e) == /\ status[e] = "QUEUED"
               /\ idleFor # NotIdle
               /\ idleFor > OrphanLimit
               /\ age[e] > OrphanLimit
Stalled(e)  == status[e] = "RUNNING" /\ age[e] > SetupLimit

\* The environment assumption AccurateTimeouts: what the driver would declare
\* orphaned or stalled, and what it has cancelled, never moves again (and no
\* cancel raises).
Stuck(e) == AccurateTimeouts /\ (Orphaned(e) \/ Stalled(e) \/ cancelled[e])

-----------------------------------------------------------------------------
\* The driver.

\* The operator starts the program (again) on the output directory.
Launch(mode) ==
  /\ pc = "down" /\ launches < MaxLaunches
  /\ pc' = "start" /\ launches' = launches + 1
  /\ resume' = mode /\ roundNum' = 0 /\ outcome' = "none"
  /\ trajs' = {} /\ fails' = {}
  /\ UNCHANGED <<disk, ray, history, batch, hand, idleFor, roundTrajs,
                 roundFails>>

\* process_start_s := time.time(): every heartbeat on disk now predates it.
NoneFresh == [e \in Episodes |-> FALSE]

\* get_episodes_to_run without resume, or in a directory with no config: every
\* episode is planned anew, whatever status its directory holds.
FromScratch ==
  /\ ~resume \/ \A e \in Episodes : ~config[e]
  /\ fresh' = NoneFresh
  /\ replanned' = (replanned \/ \E e \in Episodes : status[e] # Absent)
  /\ pc' = "plan" /\ todo' = {} /\ overwrite' = [e \in Episodes |-> FALSE]
  /\ UNCHANGED <<status, age>>

\* get_episodes_to_run with resume: sweep, then select by status.
FromStatuses ==
  /\ resume /\ \E e \in Episodes : config[e]
  /\ Sweep(NoneFresh)
  /\ todo' = {e \in Episodes : config[e] /\ ShouldRelaunch(status'[e], retry[e], MaxRetries)}
  /\ overwrite' = [e \in Episodes |-> status'[e] # Absent]
  /\ pc' = "claim" /\ UNCHANGED replanned

StartRound ==
  /\ pc = "start"
  /\ FromScratch \/ FromStatuses
  /\ refs' = todo'
  /\ roundTrajs' = {} /\ roundFails' = {} /\ idleFor' = NotIdle
  /\ UNCHANGED <<retry, meta, config, session, scan, hand, trajs, fails, ray,
                 finishedOnce, redone, unwritten>>

\* _create_all_episodes saves the configs one by one; the driver can die between
\* two of them.
SavesConfig(e) ==
  /\ pc = "plan" /\ ~config[e]
  /\ config' = [config EXCEPT ![e] = TRUE]
  /\ UNCHANGED <<status, retry, age, fresh, meta, driver, ray, history>>

Planned ==
  /\ pc = "plan" /\ \A e \in Episodes : config[e]
  /\ todo' = Episodes /\ refs' = Episodes /\ pc' = "claim"
  /\ UNCHANGED <<disk, session, overwrite, scan, hand, idleFor, results, ray,
                 history>>

\* _pre_claim of an episode with no terminal status: write QUEUED.
PreClaim(e) ==
  /\ pc = "claim" /\ e \in todo
  /\ status[e] \notin TerminalStatuses
  /\ WriteStatus(e, "QUEUED", NextRetryCount(status[e], retry[e]))
  /\ todo' = todo \ {e}
  /\ UNCHANGED <<meta, config, pc, session, overwrite, refs, scan, hand,
                 idleFor, results, ray, redone, unwritten, replanned>>

\* _pre_claim of an episode with a terminal status: the directory is renamed,
\* then recreated with its config, then QUEUED is written; the driver can die
\* between any two of the three.
ArchiveRename(e) ==
  /\ pc = "claim" /\ e \in todo
  /\ status[e] \in TerminalStatuses
  /\ held' = NextRetryCount(status[e], retry[e])
  /\ RenameAway(e) /\ config' = [config EXCEPT ![e] = FALSE]
  /\ cur' = e /\ pc' = "renamed"
  /\ UNCHANGED <<session, batch, seen, idleFor, results, ray, history>>

ArchiveRestore ==
  /\ pc = "renamed"
  /\ config' = [config EXCEPT ![cur] = TRUE]
  /\ pc' = "restored"
  /\ UNCHANGED <<status, retry, age, fresh, meta, session, batch, hand,
                 idleFor, results, ray, history>>

ArchivedClaim ==
  /\ pc = "restored"
  /\ WriteStatus(cur, "QUEUED", held)
  /\ todo' = todo \ {cur}
  /\ cur' = NoEpisode /\ held' = 0 /\ pc' = "claim"
  /\ UNCHANGED <<meta, config, session, overwrite, refs, scan, seen, idleFor,
                 results, ray, redone, unwritten, replanned>>

\* run_episode.remote for every claimed episode.
Submit ==
  /\ pc = "claim" /\ todo = {}
  /\ task' = [e \in Episodes |-> IF e \in refs THEN "pending" ELSE "none"]
  /\ pc' = "wait"
  /\ UNCHANGED <<disk, session, batch, hand, idleFor, results, tries,
                 cancelled, wpc, wretry, history>>

\* One turn of _poll_ray: collect what is done, sample idle capacity, then
\* look for workers to kill.
Poll ==
  /\ pc = "wait" /\ refs # {}
  /\ roundTrajs' = roundTrajs \cup {e \in refs : task[e] = "ok"}
  /\ roundFails' = roundFails \cup {e \in refs : task[e] = "err"}
  /\ refs' = {e \in refs : task[e] \notin {"ok", "err"}}
  /\ scan' = refs'
  /\ idleFor' = IF ~HasIdleCapacity THEN NotIdle
                ELSE IF idleFor = NotIdle THEN 0 ELSE idleFor
  /\ pc' = "scan"
  /\ UNCHANGED <<disk, session, todo, overwrite, hand, trajs, fails, ray,
                 history>>

ScanSkip(e) ==
  /\ pc = "scan" /\ e \in scan
  /\ ~Orphaned(e) /\ ~Stalled(e)
  /\ scan' = scan \ {e}
  /\ UNCHANGED <<disk, pc, session, todo, overwrite, refs, hand, idleFor,
                 results, ray, history>>

\* Slip: the task is declared dead but not cancelled.
CancelForgotten(e) == UNCHANGED cancelled

\* ray.cancel(ref, force=True).  A cancel that raises is only logged, and the
\* task goes on.
CancelRef(e) ==
  \/ cancelled' = [cancelled EXCEPT ![e] = TRUE]
  \/ ~AccurateTimeouts /\ UNCHANGED cancelled

\* The first read of status.json finds the ref orphaned or stalled.
ScanCancel(e) ==
  /\ pc = "scan" /\ e \in scan
  /\ Orphaned(e) \/ Stalled(e)
  /\ cur' = e /\ held' = retry[e] /\ seen' = status[e]
  /\ CancelRef(e)
  /\ pc' = "cancel"
  /\ UNCHANGED <<disk, session, batch, idleFor, results, task, tries, wpc,
                 wretry, history>>

\* Slip: the ref is passed over but still waited for.
DropScanOnly ==
  /\ scan' = scan \ {cur} /\ UNCHANGED refs
  /\ cur' = NoEpisode /\ held' = 0 /\ seen' = Absent

DropRef ==
  /\ refs' = refs \ {cur} /\ scan' = scan \ {cur}
  /\ cur' = NoEpisode /\ held' = 0 /\ seen' = Absent

\* The second read finds another status: leave it, stop waiting for the ref.
ReReadChanged ==
  /\ pc = "cancel"
  /\ status[cur] \notin {Absent, seen}
  /\ DropRef /\ pc' = "scan"
  /\ UNCHANGED <<disk, session, todo, overwrite, idleFor, results, ray,
                 history>>

ReReadSame ==
  /\ pc = "cancel"
  /\ status[cur] \in {Absent, seen}
  /\ pc' = "stamp"
  /\ UNCHANGED <<disk, session, batch, hand, idleFor, results, ray,
                 history>>

\* The write that follows the second read: the object of the first read, with
\* status CANCELLED.
StampCancelled ==
  /\ pc = "stamp"
  /\ WriteStatus(cur, "CANCELLED", held)
  /\ roundFails' = roundFails \cup {cur}
  /\ DropRef /\ pc' = "scan"
  /\ UNCHANGED <<meta, config, session, todo, overwrite, idleFor, roundTrajs,
                 trajs, fails, ray, redone, unwritten, replanned>>

ScanDone ==
  /\ pc = "scan" /\ scan = {}
  /\ pc' = "wait"
  /\ UNCHANGED <<disk, session, batch, hand, idleFor, results, ray,
                 history>>

PollDone ==
  /\ pc = "wait" /\ refs = {}
  /\ pc' = "shutdown"
  /\ UNCHANGED <<disk, session, batch, hand, idleFor, results, ray,
                 history>>

\* Every task and every worker of this Ray instance is gone.
RayGone ==
  /\ task' = [e \in Episodes |-> "none"]
  /\ tries' = [e \in Episodes |-> 0]
  /\ cancelled' = [e \in Episodes |-> FALSE]
  /\ wpc' = [e \in Episodes |-> "none"]
  /\ wretry' = [e \in Episodes |-> 0]

LocalsGone ==
  /\ todo' = {} /\ refs' = {} /\ scan' = {}
  /\ cur' = NoEpisode /\ held' = 0 /\ seen' = Absent /\ idleFor' = NotIdle
  /\ overwrite' = [e \in Episodes |-> FALSE]

\* ray.shutdown() in the round's finally block.
Shutdown ==
  /\ pc = "shutdown"
  /\ RayGone /\ LocalsGone
  /\ pc' = "endsweep"
  /\ UNCHANGED <<disk, session, results, history>>

\* The end-of-run sweep, with the process_start_s of this round.
EndSweep ==
  /\ pc = "endsweep"
  /\ Sweep(fresh)
  /\ pc' = IF outcome = "aborted" THEN "down" ELSE "decide"
  /\ UNCHANGED <<retry, meta, config, session, batch, hand, idleFor, results,
                 ray, history>>

\* Slip: an earlier round's failure outlives a later success.
FailsPiledUp == fails \cup roundFails

\* The failures of all rounds so far: a later success takes one back.
FailsAfterRound == (fails \cup roundFails) \ roundTrajs

\* _run_with_retries after a round: aggregate, then another round or return.
Decide ==
  /\ pc = "decide"
  /\ trajs' = trajs \cup roundTrajs
  /\ fails' = FailsAfterRound
  /\ roundTrajs' = {} /\ roundFails' = {}
  /\ IF HasRetriable /\ roundNum < MaxRetryRounds
     THEN pc' = "start" /\ roundNum' = roundNum + 1 /\ resume' = TRUE
          /\ UNCHANGED outcome
     ELSE pc' = "down" /\ outcome' = "returned" /\ UNCHANGED <<roundNum, resume>>
  /\ UNCHANGED <<disk, launches, batch, hand, idleFor, ray, history>>

\* An exception, KeyboardInterrupt or SIGTERM's SystemExit unwinds the round:
\* its finally block runs, the launch does not go on.
Interrupt ==
  /\ pc \in {"plan", "claim", "renamed", "restored", "wait", "scan", "cancel",
             "stamp"}
  /\ pc' = "shutdown" /\ outcome' = "aborted"
  /\ UNCHANGED <<disk, launches, resume, roundNum, batch, hand, idleFor,
                 results, ray, history>>

\* The driver process dies; its local Ray instance dies with it.
Crash ==
  /\ pc # "down"
  /\ RayGone /\ LocalsGone
  /\ pc' = "down" /\ outcome' = "aborted"
  /\ roundTrajs' = {} /\ roundFails' = {}
  /\ UNCHANGED <<disk, launches, resume, roundNum, trajs, fails, history>>

-----------------------------------------------------------------------------
\* Ray.

\* A worker slot takes the task up; the first thing the worker does is to read
\* status.json (_open_status).
TaskStarts(e) ==
  /\ task[e] = "pending" /\ HasIdleCapacity /\ ~Stuck(e)
  /\ task' = [task EXCEPT ![e] = "running"]
  /\ wretry' = [wretry EXCEPT ![e] = NextRetryCount(status[e], retry[e])]
  /\ wpc' = [wpc EXCEPT ![e] = IF status[e] \in TerminalStatuses /\ overwrite[e]
                               THEN "archiving" ELSE "opening"]
  /\ UNCHANGED <<disk, driver, tries, cancelled, history>>

\* The worker process dies (out of memory, node loss).  Ray executes the task
\* again, up to its own limit: run_episode is a bare @ray.remote.
WorkerDies(e) ==
  /\ task[e] = "running"
  /\ wpc' = [wpc EXCEPT ![e] = "none"]
  /\ IF tries[e] < TaskRetries /\ ~cancelled[e]
     THEN /\ task' = [task EXCEPT ![e] = "pending"]
          /\ tries' = [tries EXCEPT ![e] = @ + 1]
          /\ redone' = IF status[e] \in FinishedStatuses THEN redone \cup {e}
                       ELSE redone
     ELSE task' = [task EXCEPT ![e] = "err"] /\ UNCHANGED <<tries, redone>>
  /\ UNCHANGED <<disk, driver, cancelled, wretry, finishedOnce, unwritten,
                 replanned>>

\* ray.cancel takes effect, some time after the call.
TaskKilled(e) ==
  /\ cancelled[e] /\ task[e] \in {"pending", "running"}
  /\ task' = [task EXCEPT ![e] = "err"]
  /\ wpc' = [wpc EXCEPT ![e] = "none"]
  /\ UNCHANGED <<disk, driver, tries, cancelled, wretry, history>>

-----------------------------------------------------------------------------
\* The worker: Episode.run.

\* _open_status archives a terminal attempt it was allowed to overwrite: as in
\* the driver, the directory is renamed and then recreated with its config, if
\* it had one.
WorkerArchives(e) ==
  /\ wpc[e] = "archiving" /\ ~Stuck(e)
  /\ RenameAway(e) /\ config' = [config EXCEPT ![e] = FALSE]
  /\ wpc' = [wpc EXCEPT ![e] = IF config[e] THEN "archived" ELSE "opening"]
  /\ UNCHANGED <<driver, task, tries, cancelled, wretry, history>>

WorkerRestores(e) ==
  /\ wpc[e] \in {"archived", "rearchived"} /\ ~Stuck(e)
  /\ config' = [config EXCEPT ![e] = TRUE]
  /\ wpc' = [wpc EXCEPT ![e] = IF wpc[e] = "archived" THEN "opening" ELSE "setup"]
  /\ UNCHANGED <<status, retry, age, fresh, meta, driver, task, tries, cancelled,
                 wretry, history>>

\* _open_status writes RUNNING with a heartbeat: the only one until the end.
WorkerOpens(e) ==
  /\ wpc[e] = "opening" /\ ~Stuck(e)
  /\ WriteStatus(e, "RUNNING", wretry[e])
  /\ wpc' = [wpc EXCEPT ![e] = "setup"]
  /\ UNCHANGED <<meta, config, driver, task, tries, cancelled, wretry, redone,
                 unwritten, replanned>>

\* An exception in _open_status leaves status.json as it is.
OpenFails(e) ==
  /\ wpc[e] \in {"archiving", "archived", "opening"} /\ ~Stuck(e)
  /\ task' = [task EXCEPT ![e] = "err"]
  /\ wpc' = [wpc EXCEPT ![e] = "none"]
  /\ UNCHANGED <<disk, driver, tries, cancelled, wretry, history>>

\* save_metadata finds the metadata of an earlier execution of this attempt and
\* archives it, the RUNNING status.json with it.  Without allow_overwrite it
\* raises instead (Concludes).
ArchivesLeftover(e) ==
  /\ wpc[e] = "setup" /\ ~Stuck(e) /\ meta[e] /\ overwrite[e]
  /\ RenameAway(e) /\ config' = [config EXCEPT ![e] = FALSE]
  /\ wpc' = [wpc EXCEPT ![e] = IF config[e] THEN "rearchived" ELSE "setup"]
  /\ UNCHANGED <<driver, task, tries, cancelled, wretry, history>>

\* Setup succeeded: save_metadata and save_episode_config.
SavesMetadata(e) ==
  /\ wpc[e] = "setup" /\ ~meta[e] /\ ~Stuck(e)
  /\ meta' = [meta EXCEPT ![e] = TRUE]
  /\ config' = [config EXCEPT ![e] = TRUE]
  /\ wpc' = [wpc EXCEPT ![e] = "loop"]
  /\ UNCHANGED <<status, retry, age, fresh, driver, task, tries, cancelled, wretry,
                 history>>

\* The finally block writes the attempt's status; a write that raises is only
\* logged.  A BaseException that is not an Exception (SystemExit,
\* KeyboardInterrupt) leaves the status at RUNNING.
Concludes(e, st) ==
  /\ \/ wpc[e] = "loop"
     \/ wpc[e] \in {"setup", "rearchived"} /\ st \notin {"COMPLETED", "MAX_STEPS_REACHED"}
  /\ ~Stuck(e)
  /\ \/ WriteStatus(e, st, wretry[e]) /\ UNCHANGED unwritten
     \/ /\ ~FinalWriteSucceeds
        /\ unwritten' = unwritten \cup {e}
        /\ UNCHANGED <<status, retry, age, fresh, finishedOnce>>
  /\ wpc' = [wpc EXCEPT ![e] = IF st \in {"COMPLETED", "MAX_STEPS_REACHED"}
                               THEN "closing" ELSE "failing"]
  /\ UNCHANGED <<meta, config, driver, task, tries, cancelled, wretry, redone,
                 replanned>>

\* task.close() and load_episode return; the latter may raise.
Returns(e) ==
  /\ wpc[e] \in {"closing", "failing"} /\ ~Stuck(e)
  /\ \/ task' = [task EXCEPT ![e] = "err"]
     \/ wpc[e] = "closing" /\ task' = [task EXCEPT ![e] = "ok"]
  /\ wpc' = [wpc EXCEPT ![e] = "none"]
  /\ UNCHANGED <<disk, driver, tries, cancelled, wretry, history>>

-----------------------------------------------------------------------------
\* A tick, while the driver sits in ray.wait or no driver runs: elsewhere it
\* works with a "now" it has already taken.
TimePasses ==
  /\ pc \in {"wait", "down"}
  /\ age' = [e \in Episodes |-> IF status[e] \in InFlightStatuses /\ age[e] < MaxAge
                                THEN age[e] + 1 ELSE age[e]]
  /\ idleFor' = IF idleFor < MaxAge THEN idleFor + 1 ELSE idleFor
  /\ UNCHANGED <<status, retry, fresh, meta, config, pc, session, batch, hand,
                 results, ray, history>>

DriverStep ==
  \/ StartRound \/ Planned
  \/ \E e \in Episodes : SavesConfig(e) \/ PreClaim(e) \/ ArchiveRename(e)
  \/ ArchiveRestore \/ ArchivedClaim \/ Submit
  \/ Poll
  \/ \E e \in Episodes : ScanSkip(e) \/ ScanCancel(e)
  \/ ReReadChanged \/ ReReadSame \/ StampCancelled \/ ScanDone
  \/ PollDone \/ Shutdown \/ EndSweep \/ Decide

WorkerStep(e) ==
  \/ WorkerArchives(e) \/ WorkerRestores(e) \/ WorkerOpens(e) \/ OpenFails(e)
  \/ ArchivesLeftover(e) \/ SavesMetadata(e)
  \/ \E st \in Outcome : Concludes(e, st)
  \/ Returns(e)

RayStep(e) == TaskStarts(e) \/ WorkerDies(e) \/ TaskKilled(e)

Next ==
  \/ \E mode \in LaunchModes : Launch(mode)
  \/ DriverStep
  \/ Interrupt
  \/ Crash
  \/ \E e \in Episodes : RayStep(e) \/ WorkerStep(e)
  \/ TimePasses

Spec == Init /\ [][Next]_vars

\* Fairness.  The driver's own steps are a program that keeps running; the
\* clock advances while ray.wait blocks, however often the driver leaves it
\* (hence SF); Ray acts on a cancellation; a worker's first file operations
\* finish.  Nothing is assumed of setup, of the agent loop, of an operator, or
\* of Ray ever scheduling a task.
Fairness ==
  /\ WF_vars(DriverStep)
  /\ SF_vars(TimePasses)
  /\ \A e \in Episodes : WF_vars(TaskKilled(e))
  /\ \A e \in Episodes :
       WF_vars(WorkerArchives(e) \/ WorkerRestores(e) \/ WorkerOpens(e))

LiveSpec == Spec /\ Fairness

-----------------------------------------------------------------------------
\* Safety.

\* A trajectory the run reports is finished on disk, and stays so for as long
\* as it is reported: no retry round, late worker, sweep or cancellation turns
\* the status.json of a reported result into anything else (exp_runner.py,
\* _poll_ray and _run_with_retries against every writer of status.json).  Only
\* where a worker could not write its last status is the report all there is.
TrajectoriesFinished ==
  \A e \in (trajs \cup roundTrajs) \ unwritten :
    status[e] \in {"COMPLETED", "MAX_STEPS_REACHED"}

\* A round reports an episode as a trajectory or as a failure, never as both,
\* and so does the launch, whatever rounds the episode failed in before (the
\* aggregation of _run_with_retries); what was reported without a written
\* status may be run again, and fail.
ResultsDisjoint ==
  /\ roundTrajs \cap roundFails = {}
  /\ trajs \cap fails \subseteq unwritten

\* retry_count never exceeds max_retries by more than the executions that no
\* relaunch decided: Ray's own re-executions, and a worker that starts on a
\* status the driver has just cancelled (next_retry_count is applied by
\* _pre_claim and again by _open_status).  A plan from scratch laid over old
\* attempts (_create_all_episodes) looks at no budget.
RetryBound ==
  ~replanned => \A e \in Episodes : retry[e] <= MaxRetries + TaskRetries + 1

\* While a task can still start or is executing its episode, status.json shows
\* the episode as in flight, so that a second runner on the same directory
\* leaves it alone (_pre_claim before submission, _open_status after).  Where
\* Ray executes a task again this begins only with _open_status, and ends when
\* save_metadata archives the RUNNING status of the execution that died.
WorkersVisible ==
  \A e \in Episodes :
    /\ task[e] \in {"pending", "running"} /\ ~cancelled[e]
    /\ IF tries[e] = 0 THEN wpc[e] \notin {"closing", "failing"}
       ELSE wpc[e] \in {"setup", "loop"}
    => \/ status[e] \in InFlightStatuses
       \/ tries[e] > 0 /\ overwrite[e] /\ status[e] = Absent

\* At a normal return no episode is lost: each is finished, or has used up its
\* retries (or the rounds have run out), or is reported as a failure, or as a
\* trajectory whose last status could not be written.  Only a resumed launch
\* passes episodes over: those it finds in flight and too young to sweep, and
\* those whose config was never written or went with a cut archive_episode.
NothingLost ==
  outcome = "returned" /\ pc = "down" =>
    \A e \in Episodes :
      \/ status[e] \in FinishedStatuses
      \/ /\ status[e] \in RetriableStatuses
         /\ retry[e] >= MaxRetries \/ roundNum = MaxRetryRounds
      \/ e \in fails \/ e \in trajs \cap unwritten
      \/ launches > 1 /\ (status[e] \in InFlightStatuses \/ ~config[e])

\* An episode that once wrote COMPLETED, MAX_STEPS_REACHED or INVALID_CONFIG
\* never enters the agent loop again (the resume table: always skipped): no
\* launch, retry round, sweep or cancellation brings it back.  Only two things
\* do, Ray's re-execution of a worker that died after that write, and a plan
\* from scratch over the old attempts.
FinishedNeverRerun ==
  [][\A e \in finishedOnce \ redone :
       wpc[e] # "loop" /\ wpc'[e] = "loop" => replanned]_vars

\* A terminal status.json leaves the live directory only by being archived (the
\* archives of _open_status and _pre_claim, and _kill_stale_workers' re-read).
\* It is overwritten in place in one case: Ray executes again a task that wrote
\* it, and the episode has no allow_overwrite.
TerminalOnlyArchived ==
  [][\A e \in Episodes :
       status[e] \in TerminalStatuses /\ status'[e] # status[e] =>
         \/ status'[e] = Absent
         \/ /\ tries[e] > 0 /\ wpc[e] = "opening" /\ ~overwrite[e]
            /\ status'[e] = "RUNNING"]_vars

-----------------------------------------------------------------------------
\* The bookkeeping every other strengthening below rests on.

\* Tasks exist only between Submit and Shutdown, workers only inside tasks.
TasksInv ==
  /\ pc \notin {"wait", "scan", "cancel", "stamp", "shutdown"} =>
       \A e \in Episodes : task[e] = "none"
  /\ \A e \in Episodes : wpc[e] # "none" => task[e] = "running"
  /\ \A e \in Episodes : wpc[e] = "rearchived" => ~meta[e]

\* What the driver works on comes from the refs it waits for, and each of them
\* has its config until it is submitted, unless an archive is under way.
BatchInv ==
  /\ todo \subseteq refs /\ scan \subseteq refs
  /\ pc \in {"down", "start", "plan", "endsweep", "decide"} => refs = {}
  /\ pc \in {"wait", "scan", "cancel", "stamp"} => todo = {}
  /\ pc \in {"cancel", "stamp"} => cur \in refs
  /\ pc \in {"renamed", "restored"} => cur \in todo
  /\ pc \in {"plan", "claim", "renamed", "restored"} => roundTrajs = {}
  /\ pc = "plan" => roundFails = {}
  /\ pc \in {"claim", "renamed", "restored"} =>
       \A e \in refs : config[e] \/ (e = cur /\ pc = "renamed")

DriverInv == TasksInv /\ BatchInv

\* The strengthening that makes TrajectoriesFinished and ResultsDisjoint
\* inductive.

\* No episode is waited for and reported at once, or reported twice.
DisjointInv ==
  /\ refs \cap trajs \subseteq unwritten /\ refs \cap roundTrajs = {}
  /\ refs \cap roundFails = {} /\ trajs \cap roundFails \subseteq unwritten
  /\ pc = "plan" => trajs \subseteq unwritten
  /\ ResultsDisjoint

\* A reported episode has no task any more and is never selected again.
ReportedInv ==
  /\ TrajectoriesFinished
  /\ \A e \in (trajs \cup roundTrajs) \ unwritten :
       task[e] \notin {"pending", "running"} /\ config[e]
  /\ trajs # {} /\ pc # "down" => resume

\* A ref that is about to deliver its trajectory has its final status on disk.
DeliveryInv ==
  /\ \A e \in Episodes : wpc[e] = "loop" => config[e]
  /\ \A e \in refs \ unwritten :
       task[e] = "ok" \/ wpc[e] = "closing" =>
         status[e] \in {"COMPLETED", "MAX_STEPS_REACHED"} /\ config[e]

ReportInv == DisjointInv /\ ReportedInv /\ DeliveryInv

\* The strengthening that makes RetryBound inductive.
\* An attempt is claimed within the budget; each execution of its task adds at
\* most one, in _open_status.
AttemptBound(e) ==
  MaxRetries + tries[e] + (IF task[e] = "pending" THEN 0 ELSE 1)

RetryInv ==
  /\ RetryBound
  /\ ~replanned =>
       /\ \A e \in Episodes :
            /\ task[e] # "none" => retry[e] <= AttemptBound(e)
            /\ wpc[e] # "none" => wretry[e] <= MaxRetries + tries[e] + 1
       /\ pc \in {"cancel", "stamp"} => held <= AttemptBound(cur)
       /\ pc = "plan" => \A e \in Episodes : status[e] = Absent
       /\ pc \in {"claim", "renamed", "restored"} =>
            /\ \A e \in refs \ todo : retry[e] <= MaxRetries
            /\ \A e \in todo : status[e] = Absent \/ (/\ status[e] \in TerminalStatuses
                                                     /\ retry[e] < MaxRetries)
       /\ pc \in {"renamed", "restored"} => held <= MaxRetries
  /\ pc \in {"wait", "scan", "cancel", "stamp"} => \A e \in refs : task[e] # "none"

-----------------------------------------------------------------------------
\* Refinement.

Lifecycle == INSTANCE EpisodeLifecycle
  WITH phase <- [e \in Episodes |-> PhaseOf(status[e])], retries <- retry,
       redone <- tries

\* The runner implements the episode lifecycle: whatever the driver, its
\* workers and a crash do to the status files, every episode moves through its
\* attempts within the retry budget (get_episodes_to_run, _pre_claim,
\* Episode._open_status and the sweeps together).
ImplementsLifecycle == Lifecycle!Spec

-----------------------------------------------------------------------------
\* A statement of a comment that the code does not keep.

\* "any RUNNING entries whose worker just got killed by ray.shutdown() get
\* marked STALE so the next round can retry them"
EndSweepLeavesNoRunning ==
  [][EndSweep => \A e \in Episodes : status'[e] # "RUNNING"]_vars

-----------------------------------------------------------------------------
\* Liveness.

\* "Two stall classes are handled so the poll loop can't hang on a ref
\* forever": the driver gets out of the poll loop, again and again, unless it
\* waits for ever for a ref whose status.json is neither QUEUED nor RUNNING.
\* Those _kill_stale_workers passes over: a worker that hangs in task.close()
\* after its last write, one that archived its own status, and a task Ray has
\* still to execute again over a terminal one.
PollReturns ==
  \/ []<>(pc \notin PollLoop)
  \/ <>[](\E e \in refs : status[e] \notin InFlightStatuses)

\* Every launch ends, over all its retry rounds, with the same exception.
LaunchEnds ==
  \/ []<>(pc = "down")
  \/ <>[](pc \in PollLoop /\ \E e \in refs : status[e] \notin InFlightStatuses)
=============================================================================
