--------------------------- MODULE SequentialRun ---------------------------
(***************************************************************************)
(* An experiment run in one process (run_sequentially), and the two tools  *)
(* that write the same status.json files from outside: the viewer, which   *)
(* promotes ghosts to STALE, and ch-reset-episodes.  The driver is the     *)
(* worker; experiment_status.json carries its heartbeat.                   *)
(*                                                                         *)
(* Time is counted in ticks, as in ExpRunner; the limits include           *)
(* cancel_grace_s, and a pass of a tool is short against a tick.           *)
(***************************************************************************)
EXTENDS Naturals, FiniteSets, EpisodeStatus

CONSTANTS
  Episodes,        \* the planned episodes
  NoEpisode,       \* a value that is not an episode
  MaxRetries,      \* Experiment.max_retries
  MaxRetryRounds,  \* max_retry_rounds
  StepLimit,       \* step_timeout_s + cancel_grace_s, which is GHOST_TIMEOUT
  OrphanLimit,     \* orphan_threshold_s
  MaxAge,          \* where an age saturates: above every limit
  MaxLaunches,     \* bound: how often the operator starts the program
  LaunchModes,     \* values of Experiment.resume the operator may launch with
  Tools,           \* the tools somebody may use: "viewer", "reset"
  MaxPasses,       \* bound: passes of the tools
  MaxKills,        \* bound: drivers that die without unwinding
  MaxCutOffs       \* bound: attempts of one episode that are cut off between
                   \* summary and status

ASSUME SequentialAssumption ==
  /\ IsFiniteSet(Episodes) /\ NoEpisode \notin Episodes
  /\ {MaxRetries, MaxRetryRounds, MaxLaunches, MaxPasses, MaxKills, MaxCutOffs} \subseteq Nat
  /\ {StepLimit, OrphanLimit, MaxAge} \subseteq Nat
  /\ StepLimit < MaxAge /\ OrphanLimit < MaxAge
  /\ Tools \subseteq {"viewer", "reset"} /\ LaunchModes \subseteq BOOLEAN

VARIABLES
  \* The episode directories.
  status, retry, age, meta, config,   \* as in ExpRunner
  dir,       \* the live directory exists
  counted,   \* how often experiment_summary.json counts the episode
  \* experiment_status.json.
  exp,       \* its status, "none" while there is no file
  beat,      \* ticks since its last heartbeat
  \* The driver.
  pc, resume, roundNum, launches, kills,
  outcome,   \* how the launch ended
  todo,      \* episodes still to be given a config or, after that, to pre-claim
  queue,     \* episodes still to run
  overwrite, \* Episode.allow_overwrite
  cur,       \* the episode it works on
  held,      \* the retry_count of the status object it is about to write
  job,       \* whose status write is under way: _pre_claim's or _open_status'
  verdict,   \* the status _run_episode will write in its finally block
  \* A tool: the viewer or ch-reset-episodes.
  tool,      \* which one is at work
  tpc, ttodo, tcur, theld,
  dead,      \* driver_dead, as the viewer computed it
  passes,
  \* History.
  touched,   \* status.json files written since the tool read them
  finished,  \* episodes that ever wrote a finished status
  excused,   \* episodes whose status a tool has overwritten or reset, or that were
             \* launched from scratch over an earlier attempt
  cut,       \* episodes whose archiving was cut short
  unwritten, \* episodes without a config since a launch was cut short in its plan
  halfdone   \* how often an attempt was cut off between summary and status

disk    == <<status, retry, age, meta, config, dir>>
expfile == <<exp, beat>>
session == <<resume, roundNum, launches, kills, outcome>>
work    == <<todo, queue, overwrite, cur, held, job, verdict>>
outside == <<tool, tpc, ttodo, tcur, theld, dead, passes>>
losses  == <<cut, unwritten, halfdone>>
history == <<touched, finished, excused, losses>>
vars    == <<disk, counted, expfile, pc, session, work, outside, history>>

PCs == {"down", "start", "plan", "claim", "move", "moved", "write", "next", "setup",
        "loop", "summed", "close", "decide"}
Verdicts == {"COMPLETED", "FAILED", "INVALID_CONFIG", "RUNNING"}

DiskOK ==
  /\ status \in [Episodes -> Status \cup {Absent}]
  /\ retry \in [Episodes -> Nat] /\ age \in [Episodes -> 0 .. MaxAge]
  /\ meta \in [Episodes -> BOOLEAN] /\ config \in [Episodes -> BOOLEAN]
  /\ dir \in [Episodes -> BOOLEAN] /\ counted \in [Episodes -> Nat]

DriverOK ==
  /\ exp \in {"none", "RUNNING", "COMPLETED", "INTERRUPTED"} /\ beat \in 0 .. MaxAge
  /\ pc \in PCs /\ resume \in BOOLEAN /\ roundNum \in 0 .. MaxRetryRounds
  /\ launches \in Nat /\ kills \in Nat /\ held \in Nat
  /\ outcome \in {"none", "returned", "aborted"}
  /\ todo \in SUBSET Episodes /\ queue \in SUBSET Episodes
  /\ overwrite \in [Episodes -> BOOLEAN] /\ cur \in Episodes \cup {NoEpisode}
  /\ job \in {"claim", "open"} /\ verdict \in Verdicts

ToolOK ==
  /\ tool \in {"viewer", "reset"} /\ tpc \in {"idle", "look", "write"}
  /\ ttodo \in SUBSET Episodes /\ tcur \in Episodes \cup {NoEpisode}
  /\ theld \in Nat /\ passes \in Nat /\ dead \in BOOLEAN

HistoryOK ==
  /\ touched \in SUBSET Episodes /\ finished \in SUBSET Episodes
  /\ excused \in SUBSET Episodes /\ cut \in SUBSET Episodes
  /\ unwritten \in SUBSET Episodes /\ halfdone \in [Episodes -> Nat]

\* Who is at work on an episode has one.
BusyOK ==
  /\ cur \in Episodes <=> pc \in {"move", "moved", "write", "setup", "loop", "summed", "close"}
  /\ tcur \in Episodes <=> tpc = "write"

TypeOK == DiskOK /\ DriverOK /\ ToolOK /\ HistoryOK /\ BusyOK

Init ==
  /\ status = [e \in Episodes |-> Absent] /\ retry = [e \in Episodes |-> 0]
  /\ age = [e \in Episodes |-> 0] /\ counted = [e \in Episodes |-> 0]
  /\ meta = [e \in Episodes |-> FALSE] /\ config = meta /\ dir = meta /\ overwrite = meta
  /\ exp = "none" /\ beat = 0
  /\ pc = "down" /\ resume = FALSE /\ roundNum = 0 /\ launches = 0 /\ kills = 0
  /\ outcome = "none" /\ todo = {} /\ queue = {}
  /\ cur = NoEpisode /\ held = 0 /\ job = "claim" /\ verdict = "RUNNING"
  /\ tool = "viewer" /\ tpc = "idle" /\ ttodo = {} /\ tcur = NoEpisode /\ theld = 0
  /\ dead = FALSE /\ passes = 0
  /\ touched = {} /\ finished = {} /\ excused = {}
  /\ cut = {} /\ unwritten = {} /\ halfdone = [e \in Episodes |-> 0]

-----------------------------------------------------------------------------
(* Files *)

\* EpisodeStatus.write: makes the directory when it is not there.
WriteStatus(e, st, rc) ==
  /\ status' = [status EXCEPT ![e] = st]
  /\ retry' = [retry EXCEPT ![e] = rc]
  /\ age' = [age EXCEPT ![e] = 0]
  /\ dir' = [dir EXCEPT ![e] = TRUE]
  /\ touched' = touched \cup {e}

Finish(e, st) ==
  finished' = IF st \in FinishedStatuses THEN finished \cup {e} ELSE finished

\* ExperimentStatus.heartbeat, written best-effort.
Heartbeat == beat' = 0 /\ UNCHANGED exp

-----------------------------------------------------------------------------
(* Launch, rounds and the lifecycle context *)

\* _experiment_lifecycle's entry.  From scratch every episode runs again.
Launch(mode) ==
  /\ pc = "down" /\ launches < MaxLaunches
  /\ launches' = launches + 1 /\ resume' = mode /\ roundNum' = 0 /\ outcome' = "none"
  /\ exp' = "RUNNING" /\ beat' = 0
  /\ pc' = "start"
  /\ UNCHANGED <<disk, counted, kills, work, outside, history>>

\* sweep_stale_statuses with a process_start_s that every heartbeat predates.
Swept(e) ==
  /\ config[e]
  /\ ShouldSweep(status[e], FALSE, age[e], StepLimit, OrphanLimit)

\* _create_all_episodes: every episode is planned.
FromScratch ==
  /\ ~resume \/ \A e \in Episodes : ~config[e]
  /\ todo' = Episodes /\ queue' = Episodes /\ pc' = "plan"
  /\ overwrite' = [e \in Episodes |-> FALSE]
  /\ excused' = excused \cup {e \in Episodes : dir[e]}
  /\ UNCHANGED <<status, touched>>

FromStatuses ==
  /\ resume /\ \E e \in Episodes : config[e]
  /\ status' = [e \in Episodes |-> IF Swept(e) THEN "STALE" ELSE status[e]]
  /\ touched' = touched \cup {e \in Episodes : Swept(e)}
  /\ todo' = {e \in Episodes : config[e] /\ ShouldRelaunch(status'[e], retry[e], MaxRetries)}
  /\ queue' = todo' /\ pc' = "claim"
  /\ overwrite' = [e \in Episodes |-> status'[e] # Absent]
  /\ UNCHANGED excused

\* _run_sequentially_impl: the benchmark is made, then the episodes are selected.
StartRound ==
  /\ pc = "start"
  /\ FromScratch \/ FromStatuses
  /\ UNCHANGED <<retry, age, meta, config, dir, counted, expfile, session, cur, held, job,
                 verdict, outside, finished, losses>>

\* save_episode_config, one episode after the other.
SavesConfig(e) ==
  /\ pc = "plan" /\ e \in todo
  /\ config' = [config EXCEPT ![e] = TRUE] /\ dir' = [dir EXCEPT ![e] = TRUE]
  /\ todo' = todo \ {e} /\ unwritten' = unwritten \ {e}
  /\ UNCHANGED <<status, retry, age, meta, counted, expfile, pc, session, queue, overwrite,
                 cur, held, job, verdict, outside, touched, finished, excused, cut, halfdone>>

\* The plan is complete, and every episode of it is to be claimed.
Planned ==
  /\ pc = "plan" /\ todo = {}
  /\ todo' = queue /\ pc' = "claim"
  /\ UNCHANGED <<disk, counted, expfile, session, queue, overwrite, cur, held, job, verdict,
                 outside, history>>

\* Every claim is made: the heartbeat before the loop.
Claimed ==
  /\ pc = "claim" /\ todo = {}
  /\ Heartbeat /\ pc' = "next"
  /\ UNCHANGED <<disk, counted, session, work, outside, history>>

RoundEnds ==
  /\ pc = "next" /\ queue = {}
  /\ Heartbeat /\ pc' = "decide"
  /\ UNCHANGED <<disk, counted, session, work, outside, history>>

\* Slip: only FAILED counts as retriable.
HasFailed ==
  \E e \in Episodes : config[e] /\ status[e] = "FAILED" /\ retry[e] < MaxRetries

HasRetriable ==
  \E e \in Episodes : config[e] /\ status[e] \in RetriableStatuses /\ retry[e] < MaxRetries

\* The process ends; its locals are gone.
Ends(how) ==
  /\ pc' = "down" /\ outcome' = how
  /\ todo' = {} /\ queue' = {} /\ cur' = NoEpisode /\ held' = 0
  /\ overwrite' = [e \in Episodes |-> FALSE] /\ verdict' = "RUNNING"

\* _experiment_lifecycle's finally block.
Leaves(how) ==
  /\ exp' = (IF how = "returned" THEN "COMPLETED" ELSE "INTERRUPTED") /\ beat' = 0
  /\ Ends(how)

\* _run_sequentially_with_retries after a round.
Decide ==
  /\ pc = "decide"
  /\ IF HasRetriable /\ roundNum < MaxRetryRounds
     THEN /\ pc' = "start" /\ roundNum' = roundNum + 1 /\ resume' = TRUE
          /\ UNCHANGED <<outcome, expfile, todo, queue, cur, held, overwrite, verdict>>
     ELSE Leaves("returned") /\ UNCHANGED <<roundNum, resume>>
  /\ UNCHANGED <<disk, counted, launches, kills, job, outside, history>>

\* The summary has the episode, its status not yet.
AheadOfStatus == pc = "summed" \/ (pc = "close" /\ verdict = "COMPLETED")

CutsOff ==
  \/ ~AheadOfStatus /\ UNCHANGED halfdone
  \/ /\ AheadOfStatus /\ halfdone[cur] < MaxCutOffs
     /\ halfdone' = [halfdone EXCEPT ![cur] = @ + 1]

\* What a launch leaves undone that ends where it is.
Forsakes ==
  /\ cut' = IF pc = "moved" THEN cut \cup {cur} ELSE cut
  /\ unwritten' = IF pc = "plan" THEN unwritten \cup {e \in todo : ~config[e]} ELSE unwritten
  /\ CutsOff

\* KeyboardInterrupt or SystemExit outside an episode's body, its finally block included.
Interrupt ==
  /\ pc \in PCs \ {"down", "setup", "loop", "summed"}
  /\ Leaves("aborted") /\ Forsakes
  /\ UNCHANGED <<disk, counted, resume, roundNum, launches, kills, job, outside,
                 touched, finished, excused>>

\* The process dies: experiment_status.json goes on saying RUNNING.
Kill ==
  /\ pc # "down" /\ kills < MaxKills
  /\ kills' = kills + 1
  /\ Ends("aborted") /\ Forsakes
  /\ UNCHANGED <<disk, counted, expfile, resume, roundNum, launches, job, outside,
                 touched, finished, excused>>

-----------------------------------------------------------------------------
(* _pre_claim and _open_status: read the prior status, archive a terminal  *)
(* attempt, write the new one.  A tool may write between any two of these. *)

\* Slip: an attempt somebody declared dead is not archived.
EndedItself(e) == status[e] \in TerminalStatuses \ {"STALE"}

Terminal(e) == status[e] \in TerminalStatuses

ReadPrior(e, archives) ==
  /\ cur' = e /\ held' = NextRetryCount(status[e], retry[e])
  /\ pc' = IF archives THEN "move" ELSE "write"

Claim(e) ==
  /\ pc = "claim" /\ e \in todo
  /\ ReadPrior(e, Terminal(e)) /\ job' = "claim"
  /\ UNCHANGED <<disk, counted, expfile, session, todo, queue, overwrite, verdict, outside,
                 history>>

\* Heartbeat of the driver, then Episode.run.
Run(e) ==
  /\ pc = "next" /\ e \in queue
  /\ queue' = queue \ {e} /\ Heartbeat
  /\ ReadPrior(e, Terminal(e) /\ overwrite[e]) /\ job' = "open"
  /\ UNCHANGED <<disk, counted, session, todo, overwrite, verdict, outside, history>>

\* _archive_episode: the whole directory is renamed.
Move ==
  /\ pc = "move" /\ pc' = "moved"
  /\ status' = [status EXCEPT ![cur] = Absent] /\ retry' = [retry EXCEPT ![cur] = 0]
  /\ age' = [age EXCEPT ![cur] = 0]
  /\ meta' = [meta EXCEPT ![cur] = FALSE] /\ config' = [config EXCEPT ![cur] = FALSE]
  /\ dir' = [dir EXCEPT ![cur] = FALSE]
  /\ touched' = touched \cup {cur}
  /\ UNCHANGED <<counted, expfile, session, work, outside, finished, excused, losses>>

\* Slip: the config is not written back.
BackWithoutConfig ==
  /\ pc = "moved" /\ ~dir[cur] /\ pc' = "write"
  /\ dir' = [dir EXCEPT ![cur] = TRUE]
  /\ UNCHANGED <<status, retry, age, meta, config, counted, expfile, session,
                 work, outside, history>>

\* mkdir and the config's bytes.
Restore ==
  /\ pc = "moved" /\ ~dir[cur] /\ pc' = "write"
  /\ dir' = [dir EXCEPT ![cur] = TRUE] /\ config' = [config EXCEPT ![cur] = TRUE]
  /\ UNCHANGED <<status, retry, age, meta, counted, expfile, session, work,
                 outside, history>>

\* mkdir finds that the directory is there again and raises FileExistsError: a
\* claim takes the launch with it, an _open_status only its episode.
RestoreFails ==
  /\ pc = "moved" /\ dir[cur]
  /\ \/ job = "claim" /\ Leaves("aborted")
     \/ /\ job = "open" /\ pc' = "next" /\ cur' = NoEpisode /\ held' = 0
        /\ UNCHANGED <<expfile, outcome, todo, queue, overwrite, verdict>>
  /\ UNCHANGED <<disk, counted, resume, roundNum, launches, kills, job, outside, history>>

Write ==
  /\ pc = "write"
  /\ \/ /\ job = "claim" /\ WriteStatus(cur, "QUEUED", held)
        /\ todo' = todo \ {cur} /\ cur' = NoEpisode /\ pc' = "claim"
     \/ /\ job = "open" /\ WriteStatus(cur, "RUNNING", held)
        /\ UNCHANGED <<todo, cur>> /\ pc' = "setup"
  /\ held' = IF job = "open" THEN held ELSE 0
  /\ UNCHANGED <<meta, config, counted, expfile, session, queue, overwrite, job,
                 verdict, outside, finished, excused, losses>>

-----------------------------------------------------------------------------
(* The body of Episode.run *)

\* Setup succeeded and no earlier attempt left metadata: save_metadata and
\* save_episode_config.
SavesMetadata ==
  /\ pc = "setup" /\ ~meta[cur] /\ pc' = "loop"
  /\ meta' = [meta EXCEPT ![cur] = TRUE] /\ config' = [config EXCEPT ![cur] = TRUE]
  /\ dir' = [dir EXCEPT ![cur] = TRUE]
  /\ UNCHANGED <<status, retry, age, counted, expfile, session, work, outside,
                 history>>

\* Slip: the summary is updated before what may still raise.
CountedThenRaises(st) ==
  /\ pc = "loop" /\ st # "COMPLETED"
  /\ counted' = [counted EXCEPT ![cur] = @ + 1]
  /\ verdict' = st /\ pc' = "close"
  /\ UNCHANGED <<disk, expfile, session, todo, queue, overwrite, cur, held, job, outside,
                 history>>

\* Setup, the agent, evaluate, finalize or what comes after it raises, the
\* FileExistsError of save_metadata included; an interrupt leaves the status as it is.
Raises(st) ==
  /\ pc \in {"setup", "loop", "summed"} /\ st # "COMPLETED"
  /\ verdict' = st /\ pc' = "close" /\ CutsOff
  /\ UNCHANGED <<disk, counted, expfile, session, todo, queue, overwrite, cur, held, job,
                 outside, touched, finished, excused, cut, unwritten>>

\* finalize_episode and update_experiment_summary.
Finalize ==
  /\ pc = "loop" /\ pc' = "summed"
  /\ counted' = [counted EXCEPT ![cur] = @ + 1]
  /\ UNCHANGED <<disk, expfile, session, work, outside, history>>

\* The result stands.  COMPLETED stands for MAX_STEPS_REACHED as well.
Concludes ==
  /\ pc = "summed" /\ pc' = "close"
  /\ verdict' = "COMPLETED"
  /\ UNCHANGED <<disk, counted, expfile, session, todo, queue, overwrite, cur, held, job,
                 outside, history>>

\* The last write of status.json; KeyboardInterrupt and SystemExit go on from there.
Close ==
  /\ pc = "close"
  /\ WriteStatus(cur, verdict, held) /\ Finish(cur, verdict)
  /\ \/ /\ verdict # "RUNNING"
        /\ pc' = "next" /\ cur' = NoEpisode /\ held' = 0 /\ verdict' = "RUNNING"
        /\ UNCHANGED <<expfile, outcome, todo, queue, overwrite>>
     \/ verdict = "RUNNING" /\ Leaves("aborted")
  /\ UNCHANGED <<meta, config, counted, resume, roundNum, launches, kills, job,
                 outside, excused, losses>>

-----------------------------------------------------------------------------
(* The tools *)

\* is_driver_alive for a sequential run (no file: it is taken to be alive).
DriverAlive ==
  \/ exp = "none"
  \/ exp = "RUNNING" /\ beat <= StepLimit
  \/ exp = "RUNNING" /\ \E e \in Episodes : status[e] = "RUNNING" /\ age[e] <= StepLimit

\* _promote_ghost_episodes begins: the driver is judged once, for every entry.
ViewerLooks ==
  /\ "viewer" \in Tools /\ tpc = "idle" /\ passes < MaxPasses
  /\ tool' = "viewer" /\ dead' = ~DriverAlive
  /\ ttodo' = {e \in Episodes : dir[e]} /\ tpc' = "look" /\ passes' = passes + 1
  /\ UNCHANGED <<disk, counted, expfile, pc, session, work, tcur, theld, history>>

\* reset_episodes begins, for some of the tasks.
ResetStarts(tasks) ==
  /\ "reset" \in Tools /\ tpc = "idle" /\ passes < MaxPasses
  /\ tool' = "reset" /\ dead' = FALSE
  /\ ttodo' = {e \in tasks : dir[e]} /\ tpc' = "look" /\ passes' = passes + 1
  /\ UNCHANGED <<disk, counted, expfile, pc, session, work, tcur, theld, history>>

\* Driver and worker are one process: with it dead every RUNNING entry is a ghost.
Ghost(e) ==
  \/ status[e] = "RUNNING" /\ (dead \/ ShouldSweepRunningToStale(TRUE, age[e], StepLimit))
  \/ status[e] = "QUEUED" /\ dead

\* A COMPLETED episode is reset unless its reward is 1, or always with --force.
MayReset(e) == status[e] \in Status \ RetriableStatuses
MustReset(e) == MayReset(e) /\ status[e] # "COMPLETED"

ToolReads(e) ==
  /\ tpc = "look" /\ e \in ttodo
  /\ tool = "viewer" => Ghost(e)
  /\ tool = "reset" => MayReset(e)
  /\ tcur' = e /\ theld' = IF tool = "reset" THEN 0 ELSE retry[e]
  /\ tpc' = "write"
  /\ touched' = touched \ {e}
  /\ UNCHANGED <<disk, counted, expfile, pc, session, work, tool, ttodo, dead, passes,
                 finished, excused, losses>>

ToolSkips(e) ==
  /\ tpc = "look" /\ e \in ttodo
  /\ tool = "viewer" => ~Ghost(e)
  /\ tool = "reset" => ~MustReset(e)
  /\ ttodo' = ttodo \ {e}
  /\ UNCHANGED <<disk, counted, expfile, pc, session, work, tool, tpc, tcur, theld, dead,
                 passes, history>>

\* The object that was read, with another status, replaces what is there now.
ToolWrites ==
  /\ tpc = "write" /\ tpc' = "look"
  /\ WriteStatus(tcur, IF tool = "reset" THEN "FAILED" ELSE "STALE", theld)
  /\ excused' = IF tool = "reset" \/ tcur \in touched THEN excused \cup {tcur} ELSE excused
  /\ ttodo' = ttodo \ {tcur} /\ tcur' = NoEpisode /\ theld' = 0
  /\ UNCHANGED <<meta, config, counted, expfile, pc, session, work, tool, dead,
                 passes, finished, losses>>

ToolDone ==
  /\ tpc = "look" /\ ttodo = {}
  /\ tpc' = "idle" /\ dead' = FALSE /\ tool' = "viewer"
  /\ UNCHANGED <<disk, counted, expfile, pc, session, work, ttodo, tcur, theld, passes,
                 history>>

-----------------------------------------------------------------------------
Older(n) == IF n < MaxAge THEN n + 1 ELSE n

\* A tick: while the benchmark is made, while an episode runs, or with nobody there.
TimePasses ==
  /\ pc \in {"down", "start", "setup", "loop"} /\ tpc = "idle"
  /\ age' = [e \in Episodes |-> IF status[e] \in InFlightStatuses THEN Older(age[e]) ELSE age[e]]
  /\ beat' = Older(beat)
  /\ UNCHANGED <<status, retry, meta, config, dir, counted, exp, pc, session,
                 work, outside, history>>

Driver ==
  \/ StartRound \/ Planned \/ Claimed \/ RoundEnds \/ Decide
  \/ \E e \in Episodes : SavesConfig(e) \/ Claim(e) \/ Run(e)
  \/ Move \/ Restore \/ RestoreFails \/ Write
  \/ SavesMetadata \/ (\E st \in Verdicts : Raises(st)) \/ Finalize \/ Concludes \/ Close

Tool ==
  \/ ViewerLooks \/ (\E tasks \in SUBSET Episodes \ {{}} : ResetStarts(tasks))
  \/ (\E e \in Episodes : ToolReads(e) \/ ToolSkips(e)) \/ ToolWrites \/ ToolDone

Next ==
  \/ \E mode \in LaunchModes : Launch(mode)
  \/ Driver \/ Interrupt \/ Kill \/ Tool \/ TimePasses

Spec == Init /\ [][Next]_vars

-----------------------------------------------------------------------------
\* A retry starts in a directory without metadata: save_metadata never archives
\* the attempt that is calling it, with its own status.json.
NoSelfArchive == pc = "setup" /\ meta[cur] => ~overwrite[cur]

\* A finished episode runs again only after a launch from scratch, a reset or a
\* status that a tool wrote over one it had not read.
FinishedNeverRerun == pc = "loop" /\ cur \in finished => cur \in excused

\* experiment_summary.json counts an episode once, however often it was retried, and
\* once more for every time an attempt was cut off after it was counted and before its
\* status said so; every episode shown as completed is counted, with the exceptions
\* of FinishedNeverRerun.
SummaryIsExact ==
  \A e \in Episodes \ excused :
    /\ counted[e] <= 1 + halfdone[e]
    /\ status[e] = "COMPLETED" => counted[e] = 1 + halfdone[e]

\* Every episode of a plan is found again by a resumed launch: its config survives
\* every archive that is not cut short, unless a tool put a status where the directory
\* had just been.  Only what a plan that was cut short had not written yet is missing.
ConfigsSurvive ==
  (\E d \in Episodes : config[d] \/ cur = d) =>
    \A e \in Episodes :
      \/ config[e] \/ (pc = "moved" /\ e = cur) \/ (pc = "plan" /\ e \in todo)
      \/ e \in cut \cup excused \cup unwritten

\* When a launch returns each episode is finished or has used up its retries, or
\* is one of those a resumed launch passes over, or one it cannot know of.
NothingLost ==
  [][Decide /\ outcome' = "returned" =>
       \A e \in Episodes \ (excused \cup cut \cup unwritten) :
         \/ status[e] \in FinishedStatuses
         \/ /\ status[e] \in RetriableStatuses
            /\ retry[e] >= MaxRetries \/ roundNum = MaxRetryRounds
         \/ launches > 1 /\ status[e] \in InFlightStatuses]_vars

Lifecycle == INSTANCE EpisodeLifecycle
  WITH phase <- [e \in Episodes |-> PhaseOf(status[e])], retries <- retry,
       redone <- [e \in Episodes |-> 0], replanned <- FALSE

\* After the first launch the operator resumes.
OnlyResumes == [][launches > 0 /\ launches' # launches => resume']_vars

\* Run, resumed and killed as often as one likes, the episodes of a sequential run
\* keep the promise those of a Ray run keep, when no tool writes their statuses and
\* no launch starts from scratch over them.
ImplementsLifecycle == Lifecycle!Spec

\* "best-effort: race with runner archiving the dir is harmless": no planned
\* episode is lost to the next launch, when no archive and no plan was cut short.
PromotionIsHarmless ==
  pc = "down" /\ (\E d \in Episodes : config[d]) =>
    \A e \in Episodes \ (cut \cup unwritten) : config[e]
=============================================================================
