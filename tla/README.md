# A verification project for cube-harness

cube-harness runs AI agents on benchmark tasks ("cubes"). An *experiment* is a
set of *episodes*; an episode lets one agent act on one task and is stored in a
directory of its own. A second entry point serves *rollouts* (single episodes)
to a reinforcement-learning trainer over HTTP.

This directory holds TLA+ models of the parts of the harness whose correctness
depends on the order in which several actors do things, TLC configurations that
check them, and TLAPS proofs about all of them. Source paths below are relative
to `src/src/cube_harness/`, those of the TimeWarp cube to
`src/cubes/timewarp/src/timewarp_cube/`.

Contents: [Inventory](#1-inventory) - [Modules](#2-modules) -
[Correspondence](#3-correspondence-with-the-code) - [Runs](#4-runs) -
[Assumptions and fairness](#5-assumptions-and-fairness) -
[Findings](#6-findings) - [Proofs](#7-proofs) -
[Limits](#8-what-is-only-model-checked-and-what-is-not-modelled) -
[Plan](#9-plan)

## 1. Inventory

### Experiment side

| Component | State it keeps | Operations | Talks to |
|---|---|---|---|
| Experiment (`experiment.py`) | planned episodes, `resume`, `max_retries` | `get_episodes_to_run`, `_should_relaunch`, `sweep_stale_statuses` | storage (status files) |
| Ray runner (`exp_runner.py`) | `episodes_in_progress`, `ExpResult`, round number, idle clock | `run_with_ray`, `_run_with_retries`, `_pre_claim`, `_poll_ray`, `_kill_stale_workers` | Ray (submit, wait, cancel, shutdown), status files |
| Sequential runner (`exp_runner.py`) | the same, in one process | `run_sequentially` | the episode, called directly |
| Episode status (`episode_status.py`) | `status.json`: status, retry_count, heartbeat, current_step | `write` (atomic replace), `read`, `next_retry_count`, sweep predicates | - |
| Episode body (`episode.py`) | task, agent, streamer, its status object | `run`: `_open_status`, setup, agent loop, evaluation, terminal status, `close` | storage, streamer, agent |
| Agent loop (`agent.py`), tools (`tool.py`), budget (`budget.py`), streamer (`streamer.py`) | counters, pending evaluation, event ids | `step`, `execute_action`, `async_execute_action`, `bump_*`, `on_step`, `on_llm_call` | event sinks |
| Multi-agent scheduler (`multi_agent.py`) | seats, rounds | `run_turn_based` | monitored tools |
| Storage (`storage.py`) | episode directories, event files, the summary file | `save_*`, `_archive_episode`, `save_event`, `update_experiment_summary` | file system, flock |
| Experiment status (`experiment_status.py`), viewer (`analyze/xray_utils.py`), reset tool (`analyze/reset_episodes.py`) | driver heartbeat; both tools rewrite `status.json` | `is_driver_alive`, `_promote_ghost_episodes`, `reset_episodes` | status files |

What is hard: `status.json` is the only channel between driver and workers, it
has several writers and no lock; a worker can be killed, can wake up after it
was declared dead, or can be executed again by Ray; the driver can die between
any two file operations and be started again; timeouts judge by heartbeats
that nothing refreshes during an episode.

Correct means: nothing finished is run again or lost; what a launch reports is
true of the disk and reported once; retries are bounded and every launch ends;
no running worker is invisible; a cancelled episode is not a clobbered success.

Inside an episode what is hard is the ways it can end: `AgentStop`,
`BudgetExceeded`, an error, an interrupt, a sink that raises, from the agent's
step, a model call or one of several tools running in threads; each leaves
through other handlers and must still leave a record that agrees with the
status and with what the trainer is told. Correct means: what was done is
recorded; caps are not passed unnoticed; nothing changes the task while it is
scored; status, metadata and terminal event agree; the task is closed.

### Rollout side

| Component | State it keeps | Operations | Talks to |
|---|---|---|---|
| Event publisher (`rl/event_publisher.py`) | bounded hot log, offsets, acks, terminals, next index, JSONL spill | `publish_payload`, `ack`, `wait_for_events`, `has_terminal` | readers by offset |
| Engine (`rl/engine.py`) | accepted ids | `submit`, `cancel`, `events`, `publish_accepted`, `publish_terminal` | executor, publisher |
| Ray executor (`rl/executor.py`) | accepted, cancelled, terminal, refs, monitor task | `submit`, `cancel`, `_monitor_workers` | Ray, publisher actor |
| Local executor (`rl/executor.py`) | the same, one rollout at a time | `submit`, `cancel` | the runner, in a thread |
| Worker (`rl/task_runner.py`, `rl/trajectory_sink.py`) | sink: index, terminal emitted | an episode whose sink publishes every event | publisher actor |
| HTTP service (`rl/service.py`), actor wrapper (`rl/ray_runtime.py`) | - | `/rollouts`, `/cancel`, `/ack`, `/events` | engine |

What is hard: a submit, any number of cancels, the monitor and the worker race
to end one request; each looks for a terminal event and publishes one in two
separate calls; every call awaits and may raise before or after taking effect;
`ray.cancel` may raise as well, which is taken for a task that has ended;
a cancel can come while a task is being handed to Ray; the log forgets events.

Correct means: one terminal event per request, whoever writes it; `accepted`
first; a per-request index that grows; every gap in what a reader sees has a
known cause; no cancelled rollout keeps running untracked without a cause that
is known; every accepted request ends.

### TimeWarp cube

| Component | State it keeps | Operations | Talks to |
|---|---|---|---|
| Provisioning (`provisioning.py`) | a checkout shared by all processes of a host, its commit, what `setup.sh` made | `ensure_provisioned`, `_provision_lock`, `_sync_checkout`, `is_provisioned`, `_run_setup_sh` | git, the upstream `setup.sh`, flock |
| Servers (`provisioning.py`) | the Flask processes of one run, their ports | `start_servers`, `_wait_until_healthy`, `TimeWarpServers.stop` | the operating system |
| Benchmark (`benchmark.py`) | `_servers`, the exported `TW_*` variables | `_setup_auto`, `close` | both |

What is hard: several runs share one directory that a script takes an hour to
fill, and one range of ports; everything can be interrupted, overrun its time or
be killed; a process may launch a second time with what its first run exported.

Correct means: one `setup.sh` at a time; a tree that is called ready is whole;
what a run labels with its UI version was read from its own servers; no server
survives its run; nobody waits for ever.

### The rest

The LLM client, metrics and tracing, evaluation logs and results, the
reproducibility journal, the viewer, the investigator, the agents, the MCP
adapter, recipes and the other cubes are listed in `PROJECT.json` with the reason
each is left out: they are sequential conversions, user interface, or calls to
outside services.

## 2. Modules

| Module | Kind | What it is |
|---|---|---|
| `EpisodeStatus` | pure | the status sets and the decisions that only look at one status |
| `EpisodeLifecycle` | abstract | what a resumable run promises of each episode: phases and a retry budget |
| `ExpRunner` | detailed | one experiment directory: driver, Ray tasks, workers, crashes |
| `MCExpRunner`, `ExpRunner_proofs`, `ExpRunnerResume_proofs` | TLC, TLAPS | instances and proofs of `ExpRunner` |
| `Trajectory` | abstract | what a reader relies on: events in causal order and a verdict that agrees with them |
| `EpisodeRun` | detailed | one run of an episode: body, agent loop, tools, budget, streamer, RL sink |
| `MCEpisodeRun`, `EpisodeRun_proofs` | TLC, TLAPS | instances and proofs of `EpisodeRun` |
| `EventStream` | abstract | an append-only stream: one terminal per request, growing index |
| `EventPublisher` | detailed | hot log, spill, acks, readers, retrying callers |
| `MCEventPublisher`, `EventPublisher_proofs` | TLC, TLAPS | instances and proofs of `EventPublisher` |
| `RolloutService` | detailed | engine, Ray executor, monitor, worker, and the publisher as an actor |
| `MCRolloutService`, `RolloutService_proofs` | TLC, TLAPS | instances and proofs of `RolloutService` |
| `SequentialRun` | detailed | one experiment directory: the one-process runner, the viewer and the reset tool |
| `MCSequentialRun`, `SequentialRun_proofs` | TLC, TLAPS | instances and proofs of `SequentialRun` |
| `MultiAgent` | detailed | the turn-based arena under a joint budget |
| `MCMultiAgent`, `MultiAgent_proofs` | TLC, TLAPS | instances and proofs of `MultiAgent` |
| `TimeWarpProvisioning` | detailed | the checkout, its lock, git and `setup.sh` |
| `TimeWarpServers` | detailed, composes | benchmarks that provision, launch servers, run and close |
| `MCTimeWarp`, `TimeWarp_proofs` | TLC, TLAPS | instances and proofs of both |

`ExpRunner` uses `EpisodeStatus` and refines `EpisodeLifecycle`; `EpisodeRun`
is the worker phase `loop` of `ExpRunner` opened up, and refines `Trajectory`;
`EventPublisher` refines `EventStream`. `RolloutService` keeps of the publisher
what its callers can tell: a list of events per request, where a second terminal
is not appended - the promise `EventStream` states, which `EventPublisher` keeps
for the whole log and `RolloutService` for the client of each request (section 7).
`SequentialRun` is the other driver over the same `EpisodeStatus`; there a
launch has one process, so its file operations are cut finer and the tools that
write from outside are added. Without those tools it refines `EpisodeLifecycle`
too. Both runners read an episode's phase from its status by `PhaseOf` of
`EpisodeStatus`. `TimeWarpServers` extends `TimeWarpProvisioning`:
a benchmark's launch is a call of `ensure_provisioned` and what follows it.

## 3. Correspondence with the code

`PROJECT.json` maps every definition to the lines it stands for. The granularity:

* **ExpRunner.** Every read or atomic write of `status.json` that another actor
  could act between is a step. The driver's `pc` follows `_run_with_ray_impl`:
  `start` (select and sweep), `plan` (`_create_all_episodes` saves the configs
  one by one), `claim` / `renamed` / `restored` (`_pre_claim` and the two halves
  of `_archive_episode`), `wait` / `scan` (`_poll_ray` and
  `_kill_stale_workers`), `cancel` / `stamp` (between the cancel, the re-read
  and the write), `shutdown`, `endsweep`, `decide` (`_run_with_retries`). A
  worker's `wpc` follows `Episode._run_episode`: `archiving` / `archived` and
  `opening` (`_open_status`), `setup`, `rearchived` (`save_metadata` has
  archived what an execution before it left), `loop`, `closing` or `failing`.
  `redone`, `unwritten` and `replanned` are history: the finished episodes Ray
  executed again, the workers whose last write failed, a plan over old attempts.
  Sweeps run while no worker is alive and are one step. Time is a counter per
  in-flight status (`age`) that saturates above every limit; `fresh` says
  whether a heartbeat is younger than `process_start_s`; limits include
  `cancel_grace_s`.
* **EpisodeRun.** `pc` follows `_run_episode`: `opening`, `setup`, `reset`, the
  agent loop (`step` while the agent thinks, `calls` while its turn is
  dispatched, `join` while `asyncio.run` waits for threads), `left` (an outcome,
  kept in `raised`, on its way to the except clauses), `evaluate`, `finalize`,
  `finally`, `closing`. `slot[s]` is the s-th tool call of the turn; in a
  parallel turn calls interleave at the points where they really can: the start
  of the coroutine (`Dispatch`), the end of the tool in its thread
  (`ToolReturns`), and the rest on the event loop, which has no await
  (`RecordCall`). Whether an exception stops the loop at once or has to wait for
  the gather is `LeaveCall` and `Unwind`. `log` is what
  `EventStreamer.emit` folded; `sink` keeps of `RLEventSink` whether it holds
  an error and which terminal events it sent. An observation, an action and a
  prompt do not appear. `faults` counts publications and writes that raised.
  Two errors no event records (`unrecorded`): one of `agent.attach_recorder`
  (`RecordReset`) and one of `float(reward)` in `record_evaluation`
  (`ScoreUnusable`).
* **EventPublisher.** Each method holds one condition variable, so an attempt
  to publish, an acknowledgement and a read are one step each; the retry loop
  of `publish_payload` is several. A spill that raises has already recorded its
  event and lost the popped one (`SpillFails`, `AckFails`). `stream`,
  `received` and `evicted` are history.
* **RolloutService.** Asyncio code: what runs between two awaits is one step;
  calls to Ray or to the publisher are steps of their own, and may raise
  (`CallRaises`: before or after taking effect). `job[a]` is the
  `_publish_terminal_status` call that actor `a` is in: look, publish, mark.
  `submit` holds `_submit_lock` to its end, as the engine does. `doomed` are the
  tasks Ray has been told to kill and will (`RayKills`); `spared` those whose
  `ray.cancel` raised, which `_cancel_ref` swallows.
* **SequentialRun.** Driver and worker are one process, so its `pc` runs through
  the round (`start`, `plan`, `claim`, `next`, `decide`) and through one episode
  (`move` / `moved` / `write` for `_archive_episode` and the status write,
  `setup`, `loop`, `summed` between the summary and the verdict, `close` before
  the last status write). `plan` saves the configs one by one; `unwritten`
  remembers which of them a cut plan never wrote, `halfdone` how many attempts
  were cut off after the summary had counted them. `job` tells whose archive it
  is, `_pre_claim`'s or `_open_status`'; an exception in one ends the launch, in
  the other the episode. A tool reads a status in one step (`ToolReads`) and
  writes it back in a later one (`ToolWrites`); `touched` remembers whether the
  file changed in between. `exp` and `beat` are `experiment_status.json`.
  `COMPLETED` stands for `MAX_STEPS_REACHED` as well: the code treats them
  alike. The phases of the episode itself are `EpisodeRun`'s.
* **MultiAgent.** `pc` follows `MultiAgentEpisode.run` and, inside it, one seat's
  body in `run_turn_based`: `step` (the agent thinks), `act` (its actions are
  dispatched one by one). What a seat does is one of the outcomes the body tells
  apart: an action, none, an error, `AgentStop`, `BudgetExceeded`, an exception.
  `late` is the wallclock cap, which may pass between any two looks.
* **TimeWarp.** The checkout is the commit it is at (`head`), whether it has
  local edits, and for each piece `setup.sh` makes whether it is missing,
  partial, of another commit or whole. `setup.sh` writes pieces one at a time
  and in any order, and skips what exists: that is what `ensure_provisioned`'s
  docstring says of it. An interrupt kills the whole process group; a killed
  process leaves its `setup.sh` running and its lock free. An advance or a clone
  may be cut short after HEAD has moved to the pin. A port is probed in one step
  and bound in a later one.

## 4. Runs

All runs are exhaustive. Bounds are named in the modules' CONSTANTS.

| Run | Bounds | What it shows |
|---|---|---|
| `exp_runner_accurate` | 2 episodes, 1 slot, 1 retry, 2 launches, 1 Ray re-execution, timeouts right | a working task is visible as in flight; nothing finished runs again; terminal statuses leave only by archive; refines `EpisodeLifecycle` |
| `exp_runner_hostile` | 1 episode, 3 launches, 3 retry rounds, 1 re-execution, timeouts wrong, cancels and last writes may fail | what is reported is finished on disk and reported once; retry counts stay bounded |
| `exp_runner_live` | 1 episode, 2 launches, 2 retry rounds, 1 re-execution, timeouts right; the last write may fail | nothing lost at a normal return; the poll loop is left and the launch ends, whatever hangs in setup, in the loop or in Ray's queue, unless a ref whose status is neither QUEUED nor RUNNING never ends |
| `episode_run` | 3 agent steps, cost cap 2, turns of up to 2 calls, 2 model calls per step, 1 fault, 1 interrupt; sequential and parallel, with and without step-wise evaluation | a completed turn is recorded; caps; a quiet evaluation; one terminal for the trainer; a finished status has its reward; the run ends and closes its task; refines `Trajectory` |
| `event_publisher` | 1 request, 2 publishers, 2 readers, log of 1, 3 calls, 1 failing spill | files + hot log = history, gaps explained, delivery to a reading trainer, refines `EventStream` (one terminal, growing index) |
| `rollout` | 1 request, 2 cancels, 1 event before the end, worker deaths, 2 publisher calls that raise, any `ray.cancel` that raises | accepted first, one terminal event; without faults: what a cancel matched has ended and does not run on, no stray task (but where `ray.cancel` raised), the request ends, the books close |
| `timewarp` | 2 processes, one with 2 launches, 1 site, 3 ports, 2 pieces, 1 failure, 1 kill, 1 server exit | one `setup.sh`, ready is whole, labels are true, no server leaks, every launch returns |
| `multi_agent` | 3 seats, 4 rounds, 10 steps, 8 calls, 2 actions per output | fair turns, seats retire for a cause, the result is explained |
| `sequential_run` | 2 episodes, 2 launches, `resume` set, 1 retry round, 1 pass of a tool, 1 kill, 1 attempt of an episode cut off between summary and status | no attempt archives itself; nothing finished runs again; the summary counts what it should; configs survive; nothing lost |
| `end_sweep_zombie`, `pin_advance`, `ghost_promotion` | smallest | the findings of section 6 |

Why the bounds are enough to be interesting: with one worker slot and two
episodes one task always waits behind another, so orphan detection, idle
capacity and the retry of one episode while the other is finished all occur;
two launches give crash and resume, three let retry counts grow across
launches; one retry is the smallest count that can run out. A log of one event
overflows on the second publication, and a failing spill makes a retry that
appends a third; a second request would only add streams that do not touch each
other's index and terminal, and the proofs cover any number. Two cancels, a
submit, a monitor and a worker are every kind of actor that can end a request,
with two of the same kind; a request's events do not depend on other requests
except through a group cancel and the monitor's list of refs, and there too the
proofs hold for any number of requests and cancels. In `timewarp` two processes
meet at the lock, in the tree and at the ports; the one with two launches comes
back to what it exported; three ports let one be the user's and two collide or
not. Three seats are needed for one to stop between two that go on; the caps end
a round in its middle. In `sequential_run` two launches give the second one what
the first left, one retry round lets an episode be retried beside one that is
not, and one pass of a tool covers all entries it can hit. Its launches resume: a
launch without resume excuses every episode it finds on disk, so that there is
little left to check of it. One attempt of each episode may be cut off between
summary and status (`MaxCutOffs`). The proofs hold for launches of both kinds and
any number of cuts.

In `episode_run` three steps allow two complete turns before the one the step
cap ends; two calls in a turn let one raise while the other runs, has returned
or is recorded; two model calls with a cost cap of two let the cap be reached
inside a step and between steps, and one fault can fall on exactly the event
that reaches it.

Deadlock checking is off: every model stops legitimately when its bound on
launches or calls is used up and all work is done. Whether the system ends what
it began is a liveness property instead. Symmetry (episodes) is used only in
`exp_runner_accurate` and `sequential_run`, which check no liveness. Every
property of a passing run has a mutant in `PROJECT.json`, a plausible slip in a
mapped definition that makes TLC refute it; the operators marked "Slip" in the
modules are used for nothing else.

## 5. Assumptions and fairness

Environment assumptions are CONSTANTS, so that a run or a theorem names them.

* `AccurateTimeouts`: what a timeout declares stuck never moves again, and a
  cancel does not raise. True where resume guarantees are checked, false in
  `exp_runner_hostile`. Without it a slow worker and its successor both write.
* `TaskRetries`: how often Ray executes a task again by itself. `run_episode`
  is a bare `@ray.remote`, so Ray's default applies; all runs allow one
  re-execution, the proofs any number. What a re-execution does by itself is
  named in the properties and is all they except. A worker that dies after its
  COMPLETED and before it returns is executed again (`redone` in
  `FinishedNeverRerun`); without `allow_overwrite` its RUNNING replaces the
  terminal status in place (`TerminalOnlyArchived`); with it, `save_metadata`
  finds the metadata of the execution that died and archives the RUNNING
  `status.json` as well (`WorkersVisible`). `EpisodeLifecycle` has `Redo` for it.
* `FinalWriteSucceeds`: whether the runs leave out a failing last status write.
  It is in a try whose except only logs; when it fails the driver reports a
  trajectory whose file says RUNNING. `exp_runner_hostile` and `exp_runner_live`
  let it fail, and no theorem assumes it: what is said of reported episodes
  excepts those it failed for (`unwritten`).
* `LaunchModes` (of both runners): all passing runs resume (`{TRUE}`); a launch
  without resume runs everything again by design. The proofs cover it, by
  `replanned` in `ExpRunner` and `excused` in `SequentialRun`.
* Driver crash ends its local Ray instance and the workers with it.

Fairness of `ExpRunner`: the driver's steps are weakly fair (a running
program). Time is strongly fair, because the driver leaves and re-enters
`ray.wait` and each wait lasts. Ray acts on a cancellation, and a worker's
first file operations end. Nothing is assumed of setup, of the agent loop, or
of Ray starting a queued task: those are what the timeouts are for. Nor is
anything assumed of `task.close()`: nothing in the code bounds it, and a worker
that hangs in it is passed over by every scan. `PollReturns` and `LaunchEnds`
say so: either the loop is left, or it waits for ever for a ref whose status is
neither QUEUED nor RUNNING.

Assumptions of `EpisodeRun`: a successful model call costs one unit. The agent
may catch what its model call raises and go on, but not `BudgetExceeded`, which
is a `BaseException`. `JoinTimesOut`: `asyncio.run` waits five minutes for tool
threads (the project requires Python 3.12), then goes on. Errors of best-effort
sinks (the event files) are swallowed by `emit` and not kept. One interrupt may
come, before the `finally` block and not during the join. `attach_recorder` and
`float(reward)` may raise without a fault. `MonitoredTool` returns observations
only, so the loop's `StepError` branches are dead. `AgentView`, of an external
package, hands over a step-wise evaluation and returns without an await in
between.

Fairness of `EpisodeRun`: weak fairness of `Next` - the worker process keeps
running, and every model call, tool, write and publication returns or raises.
A call that hangs is the runner's business (`ExpRunner`). The agent needs no
fairness: its steps are bounded by the budget and `MaxLLM`.

Fairness of `EventPublisher`: a publisher's loop and a reader's loop run on.
Acks, reconnects and giving up are not forced. Fairness of `RolloutService`:
the event loop runs ready coroutines, publisher and Ray calls return or raise, Ray
schedules what it queued, and the episode's budget ends a worker (`MaxSteps`
and weak fairness of the worker). A worker's death, a cancel and the kill that
follows it are not forced.

Assumptions of `SequentialRun`: nothing else starts a second driver on the
directory. A tool's pass is short against a tick of time. What a tool's write
does to the episode it hits is excused (`excused`: a reset, which is meant to
run it again, or a STALE over a status the viewer had not read); likewise an
episode whose archive a kill or an interrupt cuts short (`cut`, the crash window
of `_archive_episode`), and one whose config a cut plan had not written
(`unwritten`, until a later plan writes it). `SummaryIsExact` allows one count
more per attempt cut off between summary and status (`halfdone`). The properties
say that nothing else goes wrong.
Everything checked of it is safety, so it needs no fairness.

Assumptions of `MultiAgent`: the budget caps steps, tool calls and the wallclock
(`late`, which may pass between any two looks); the cost and token caps are left
unset, as model usage is part of no property here. Safety only.

Assumptions of TimeWarp: git and `setup.sh` do what `provisioning.py` says of
them. `SetupExclusive` excludes kills (a flock does not survive its holder, a
process group does), `ReadyIsWhole` failures and kills, and `LabelIsTrue` two
launches that are given one port before either binds it (`clash`) and servers
that exit. Fairness: each process runs its own code, every subprocess call has a
time-out in the code, so it ends, and the wait for the servers ends by success
or by `AbortLaunch`. Nothing forces interrupts, kills or exits.

## 6. Findings

Each is a violation run; `PROJECT.json` quotes the sentence it contradicts.

* `end_sweep_zombie`: the end-of-run sweep passes this round's
  `process_start_s`, so a worker killed a moment ago by `ray.shutdown()` looks
  alive and its RUNNING entry stays.
* `pin_advance`: a `setup.sh` that fails or is interrupted after the pin
  advanced is not run again. At the next launch HEAD is at the pin and the old
  pieces are there, so the tree counts as provisioned.
* `ghost_promotion`: the viewer's STALE, written between `_archive_episode`'s
  rename and its `mkdir`, recreates the directory. `mkdir` raises, the launch
  ends, and the episode has lost its config.

Met while modelling, without a run of their own.

In the runners and the storage:

* A worker may write COMPLETED between the driver's re-read and its write of
  CANCELLED (`exp_runner.py:655-664`, under a comment that says "Don't clobber
  it").
* Between the rename of a directory and the rewrite of `episode_config.json` a
  crash leaves an episode that resume cannot see (`storage.py:912`).
* A worker hanging in `task.close()` is neither RUNNING nor QUEUED; the poll loop
  waits for it for ever (`exp_runner.py:609`), although the docstring at line 583
  says "so the poll loop can't hang on a ref forever". `PollReturns` and
  `LaunchEnds` have this wait as their second way.
* Ray executes a task again whose worker died after COMPLETED: the episode is run
  a second time, and where it has no `allow_overwrite` its terminal status is
  overwritten in place (`episode.py:168`).
* An execution that Ray started again finds the metadata of the one that died;
  `save_metadata` then archives the directory with its own RUNNING `status.json`,
  and the running episode has no status until it ends (`storage.py:946`).
* A worker that dies inside `_archive_episode` takes the config with it, as the
  driver does (`storage.py:912`).
* A plan from scratch that is cut short between two configs leaves episodes no
  resumed launch knows of: it finds the configs that are there, runs those and
  returns normally (`experiment.py:224`).
* An attempt that is interrupted between `update_experiment_summary` and the last
  status write is run again and counted again (`episode.py:358-375`).
* `current_step` is never advanced, so every RUNNING entry gets the setup budget
  and none the step budget (`exp_runner.py:639`;
  `openspec/specs/experiment/spec.md:104` promises "episodes inside the agent
  loop get the full `step_timeout_s`").
* A QUEUED orphan that starts between `ray.cancel` and the re-read stays RUNNING
  until the next sweep (`exp_runner.py:625`); the launch may return with it
  (`NothingLost` fails where timeouts are wrong).
* A sequential run sends no heartbeat between `_open_status` and the end of an
  episode. While the driver lives its own heartbeat is never older than the
  episode's, so the fall-back of `is_driver_alive` (`experiment_status.py:126`)
  cannot help, and a long episode, with the ones queued behind it, is promoted
  to STALE while it runs.
* A launch without resume over a RUNNING entry that a killed driver left does not
  archive it; `save_metadata` then raises `FileExistsError` and the episode is
  FAILED once.
* `avg_reward` divides the rewards of all episodes, the errored ones included, by
  the number of completed ones (`storage.py:1473`).

In an episode:

* The docstring of `_run_episode` says "The `finally` block always runs evaluate
  + finalize" (`episode.py:211`), but an error of `agent.run` is recorded and
  raised without an evaluation (`RunFails`).
* An interrupt passes both except clauses, so the last status written is RUNNING
  (`Interrupt`, `Finally`).
* A publication that raises in `on_llm_call` comes before the budget check, so an
  agent that swallows it exceeds `max_cost_usd` by one more call
  (`SpendingBounded` counts them).
* An `agent.attach_recorder` that raises (`episode.py:301`) or a reward that
  `float()` cannot convert (`streamer.py:328`) ends the run with FAILED and no
  event for the error: the sink sends no terminal event, and the trainer learns of
  it only as the executor's `ray_error`.
* In the arena `max_rounds` leaves seats active although the comment at
  `multi_agent.py:94` says that the end of an episode retires all; an exception
  that is neither a stop nor a budget leaves the task unevaluated.

In the rollout service and the TimeWarp cube:

* One publisher call that raises ends the monitor task; its accepted request
  never ends unless another submit comes (`rl/executor.py:233`).
* A group cancel whose publish raises leaves the remaining matches marked
  cancelled, untracked and running (`rl/executor.py:87-98`; `NoStrayTask` fails
  with two requests and one fault, which is why it is stated for runs without).
* A `ray.cancel` that raises is logged as "already complete" and swallowed
  (`rl/executor.py:136-140`): `cancelled` is published and the ref dropped while
  the task may run to its end. `NoStrayTask` and `CancelIsEffective` fail without
  the exception they make for it (`spared`).
* `publish_accepted` that raises leaves the request id remembered, so the retry
  is refused as a duplicate of a request that never started
  (`rl/engine.py:125`).
* The health check takes whatever answers at a port for the server it started;
  with two launches given one port the second run may label the first run's
  answers (`provisioning.py:15-18` says that a loser "fails the launch loudly
  rather than silently sharing a port"). `LabelIsTrue` excludes it by `clash`.

## 7. Proofs

The eight proof modules are checked to the last leaf, with no bound on episodes,
launches, requests, callers, log size, seats, processes, turns, calls or faults.

**ExpRunner_proofs**, from `EpisodesAssumption`, `BoundsAssumption` and
`LimitsAssumption`:

* `TypeCorrect`: `Spec => []TypeOK`.
* `ReportedTrajectoriesFinished` and `ReportedOnce`: `TrajectoriesFinished`
  and `ResultsDisjoint`. Neither is inductive.
  `DriverInv` ties tasks and refs to the driver's phase: tasks exist only
  between submission and shutdown, and everything the driver works on is a ref
  it waits for. `ReportInv` adds that a reported episode has no ref and no
  live task (so no late worker and no stamp can touch it), that later rounds
  resume (so it is not selected again), and that a ref about to deliver a
  trajectory already has its final status on disk - each but for `unwritten`
  episodes. They hold whatever timeouts, cancels, writes and Ray do.
* `RetriesBounded`: `RetryBound`, which speaks of directories no plan from scratch
  was laid over. `RetryInv` bounds the
  count of every holder separately - the file, the worker's own object, the
  driver's object between rename and claim - by `MaxRetries` plus one per
  execution of the task; a claim is made only below `MaxRetries`.

**ExpRunnerResume_proofs**, from the same assumptions and from
`AccurateTimeouts` alone: Ray may execute tasks again, last writes may fail and
launches may plan from scratch. What hostile timing breaks, right timeouts keep:

* `CancelInv`: a task the driver has cancelled or no longer waits for never moves
  again, so what the driver read before the cancel is still there when it stamps.
* `AttemptInv`: from its claim on, an attempt's file follows the first execution -
  QUEUED while the task waits or opens, RUNNING in setup and in the loop, with the
  worker's own retry count - and holds no metadata before setup ends. A later
  execution has archived whatever it may overwrite, and its count is within what
  the executions so far add (`FileFollows`, `CountFollows`). Hence `Visible`
  (`WorkersVisible`).
* `StatusMoves` lists all that one step can do to a status file. `OnlyArchived`
  (`TerminalOnlyArchived`), `NeverRerun` (`FinishedNeverRerun`) and
  `LifecycleImplemented` (`ImplementsLifecycle`: every step is a step of
  `EpisodeLifecycle` or a stutter) read it off.
* `NoneLost` (`NothingLost`), by `KeptInv` and, for what is reported, `ReportInv`:
  whoever the driver does not wait for is over, reported, or not this launch's.
* `PollCannotHang`, the safety half of `PollReturns` ("the poll loop can't hang on a
  ref forever"). As long as the driver stays in the loop, each step lowers a
  well-founded rank (`PollAdvances`, `NoInfiniteDescent` in `ExpRunner_proofs`: the
  refs, the steps of a verdict, the work left in the tasks, the ticks until every
  clock has run out) or is a look at the refs that finds nothing new. Once the clocks
  have run out (`Expired`), some ref has a way out (`NoHang`): a result, a verdict, a
  cancellation under way, or a worker whose next file operation is due. `NoHang`
  supposes that every ref's status is QUEUED or RUNNING, as the docstring tacitly
  does: a worker about to close is no way out.

**EpisodeRun_proofs**, from `EpisodeRunAssumption`. None of the properties
is inductive; each has its own strengthening, over the type invariant
(`TypeCorrect`):

* `CallsAreRecorded` (`NoCallForgotten`), by `CallInv`: while nothing has ended
  the run, each call of the turn is either unrecorded and still in its slot, or
  recorded; the turn ends only when every slot is. Once something has raised,
  the agent never gets another turn.
* `SpendingIsBounded` (`SpendingBounded`), by `SpendInv`: while the agent acts
  the cost is strictly below the cap plus the faults so far, and a turn is only
  dispatched below the cap on steps.
* `EvaluationIsQuiet` (`QuietEvaluation`), by `QuietInv`: a sequential agent has
  one busy call at a time, so an exception leaves none; `Unwind` turns running
  calls into adrift threads and the join waits for those.
* `TrainerIsTold` (`TrainerToldOnce`) and `FinishedEpisodesAreWhole`
  (`FinishedIsWhole`), by `TellInv`: no terminal event leaves the sink before
  the last event of the run, which an exhausted budget is not. That there is one
  excepts faults, the interrupt and the two errors that no event records.
* `TrajectoryImplemented` (`ImplementsTrajectory`), by `TrajInv`: where the episode
  stands says which events it has recorded; a recorded call belongs to an earlier
  turn or to a slot that is done, so none is recorded twice; and a finished status
  agrees with a record that does not grow any more. `Appended` states once what one
  more event does to a record.
* `RunIsBounded`, the safety half of `Ends`: every step lowers `Rank`, seven
  natural numbers in lexicographic order - where the run is, the agent steps,
  turns and model calls left, and what its calls and writes still have to do.
  `NoInfiniteRun` shows that the order is well-founded, so no run goes on for
  ever. `CountInv` says how many slots of a turn are in which state; `ClosedInv`
  adds that a run that is done has closed the task it reset.

**EventPublisher_proofs**, from `PublisherAssumption`:

* `OneTerminal` (`TerminalOnce`) and `IndicesGrow` (`IndexIncreasing`). The
  publisher decides from two tables, not from the stream; the strengthening
  says that the tables know at least as much: every terminal in the stream is
  in `terminals`, every index of a request lies below its `nextIndex`. A retry
  after a failed spill goes through the same tables, hence does no harm.
* `PublisherImplements` (`ImplementsEventStream`): every step maps to one
  `Publish` of `EventStream` or to a stutter.
* `NothingUnspilled` (`SpillComplete`): what an attempt pops, or an
  acknowledgement covers, is exactly what it writes, by facts about heads,
  tails and sub-sequences of the log.
* `Gaps` (`GapsExplained`), by `GapInv`: the offsets in the hot log are
  consecutive and end at `_next_offset` (`HotConsecutive`), so an offset below
  the log was evicted or is covered by the acknowledgement (`BelowGone`); and the
  trainer has been given every offset up to what it acknowledged that was not
  evicted. `CoveredPrefix` shows that what an acknowledgement covers is a prefix.
* `NothingHidden`, the safety half of `Delivered`, from the same invariant: an event
  the trainer is still owed is in the log at or after its cursor, so its next read
  is enabled and returns it, and nothing but that read or an overflow settles it.

**RolloutService_proofs**, from `ServiceAssumption`. The look for a terminal
event, its publication and the mark are separate steps of five kinds of actor:

* `FirstAccepted` and `OneTerminal` (`AcceptedFirst`, `TerminalOnce`), by
  `AnnouncedInv` - whoever could publish for a request does so after its
  accepted event is in the stream - and `StreamInv`: the publisher drops a
  second terminal.
* `Marked` (`MarkedIsTerminal`: later cancels skip nothing that has not ended), by
  `MarkInv`: an actor that is about to mark has seen or published the terminal
  event, and terminal events stay. The next three rest on it.
* `NoneStrays` (`NoStrayTask`), by `StrayInv`: a live task without a ref is one
  that `submit` is about to register or to cancel, one that some cancel still
  has on its list, or one for which `ray.cancel` was called: Ray is to kill it, or
  the call raised.
* `CancelsTakeEffect` (`CancelIsEffective`), by `CancelInv`: what a cancel has
  matched is on some call's list until it has been ended and `ray.cancel` called
  for it, and is never tracked again; a submit that registers late finds the
  mark and kills its task.
* `Remembered` and `MonitorStays`, the safety halves of `Terminates` and
  `BooksClose`, by `OwnInv`: every request that was announced and has not ended has
  an owner - a submit, a cancel, or the monitor that tracks its ref - and ownership
  only passes from one to the next; the monitor leaves only when nothing is tracked.
* `ClientServed`: for each request, the events of its stream are an `EventStream`,
  step by step.

**SequentialRun_proofs**, from `SequentialAssumption`. All five properties
follow from one inductive invariant, `RunInv`. Its parts: where the driver is
says what is still to be claimed and run, and that the current episode has left
the queue (`QueueInv`); a status lives in a directory, and one that is there
again after the rename is a tool's doing (`DirInv`); only the episode being
archived and those a plan has still to write are without a config, unless an
archive or a plan was cut short (`ConfigInv`); an episode that may overwrite has
no metadata once it is claimed (`OverwriteInv`); a finished episode keeps a
finished status and is nobody's work unless excused (`FinishedInv`); an episode
is counted once if it is finished or between the summary and its last write, and
once more per attempt cut off there (`CountInv`); a launch still has before it
every episode without a status, and the first launch every one in flight
(`LaunchInv`). Beyond them:

* `LaunchIsBounded`: every step of a launch lowers a rank of six natural numbers -
  rounds, claims, runs and the steps of one run that are left - in a well-founded
  order (`NoInfiniteLaunch`), and a tool's write or the passing of time leaves it.
  Only a new launch starts afresh.
* `LifecycleImplemented` (`ImplementsLifecycle`), by `LifeInv`: the phase the
  lifecycle gives an episode agrees with where the driver is in its attempt,
  also between the rename and the claim, when there is no status. It assumes
  `Tools = {}`, as a reset or a STALE is meant to break the lifecycle, and
  `OnlyResumes`, as a first launch may select what a resumed one passes over. No
  run checks it.


**MultiAgent_proofs**, from `ArenaAssumption`: `Fair`, `ForCause` and
`ReturnExplained` for the checked properties; `Joint` and `Noticed` state that
the seats together stay within the caps of one agent and that a seat acts at most
once on a task that is over. Fairness of the turns needs the position in the
round: seats before the one whose turn it is have had theirs. `ArenaIsBounded`:
every step lowers a rank of rounds, seats and actions left.

**TimeWarp_proofs**, from `ProvisioningAssumption` and `ServersAssumption`:

* `Exclusive` (`SetupExclusive`), by `ExclusionInv`: inside the critical section
  is the lock's holder, and a running `setup.sh` has its process waiting inside.
* `ReadyWhole` (`ReadyIsWhole`), by `TreeInv`: a tree at the pin is whole unless
  some process is on its way to run `setup.sh`; a piece is partial only while a
  running `setup.sh` works on it; what is ready stays so, since nobody is on the
  way any more.
* `NoLeak` (`NoServerLeaks`) by `LeakInv`, and `LabelsTrue` (`LabelIsTrue`) by
  `LabelInv`: no two live servers have one port, none has the user's, and a site
  that is no longer pending is up.
* `LockComesBack`, the core of `LaunchReturns`, for a finite set of pieces: the
  holder of the lock is inside the with block (`HolderInv`), a `setup.sh` it waits
  for runs (`WaitInv`) and lists what it works on (`TodoInv`), so somebody can
  always move; `Left` counts the steps the holder still needs, and no step of
  anybody raises it.

The theorems `TypeCorrect` state the type invariant of each module;
`Exclusion`, `Leaks` and `RunCorrect` the inductive invariants themselves.
Invariants over an operator that holds a quantifier are given to the prover
expanded, and sequences by facts about their length and elements: the lemmas
named `...Typed`, `Extended`, `Shortened` do that once.

## 8. What is only model-checked and what is not modelled

Only model-checked: all liveness (`PollReturns`, `LaunchEnds`, `Ends`,
`Delivered`, `Terminates`, `BooksClose`, `LaunchReturns`), since the prover does
not handle fairness and ENABLED. Every other property of a passing run, the three
refinements included, is also a theorem. Of the liveness properties, what is safety
is proved where it could be stated: that a run, a launch of the sequential runner
and the arena cannot take infinitely many steps (their ranks), that what is
awaited is in the hands of somebody who can move (`Remembered`, `MonitorStays`,
`LockComesBack`), and that one step then settles it (`NothingHidden`). What is left
to TLC is that the step is enabled in every such state and, being fair, taken. The
ranks count down from the models' bounds (`MaxLLM`, the caps, the launches), which
the theorems leave arbitrary. For the poll loop of `ExpRunner`, which only clocks
end, both halves are in `PollCannotHang`; there is no such theorem for the wait for
servers of `TimeWarp`.

Not modelled, in the parts that are:

* Runners: two drivers on one directory; `debug_limit`; an exception of the
  driver between rounds (a crash in `ExpRunner`); disk errors other than the last
  status write; sweeps and directory listings as more than one step; the archived
  directories themselves; in `SequentialRun` a failing last status write and the
  Ray mode of `is_driver_alive`. Every write of `status.json` is one atomic
  replacement, although two writers that are at it at the same moment share one
  temporary file (`episode_status.py:106`): two writes that overlap so closely may
  lose one of them or raise.
* Episode: agents that replace `_run` or `_arun`; profiling; the eval log.
* Storage: event files and their numbering, which only a predecessor that was
  declared dead could disturb; the two older layouts; the lazy views.
* Rollouts: `LocalRolloutExecutor`, whose one lock around every operation leaves
  no interleaving; `close()` of engine, executor and publisher; readers'
  time-outs; the actor's pool of 64 concurrent calls; HTTP.
* TimeWarp: manual mode; a partly set environment, which raises; the pruning of
  logs; hosts without file locks, where `_provision_lock` goes on unlocked
  (`provisioning.py:370-392`) and no property of the lock holds.

Not modelled at all, by far the largest part of the repository: the graders,
getters and task data of the cubes, the viewer's pages, the analysis and
reproducibility tools, agents' prompts and parsers. They are functions from
files or strings to values, without state that anybody shares; a model of them
would either be the program again or leave out what they do. The models cover
the lines that decide who does what, and when.

## 9. Plan

What is left, in this order:

1. An `EpisodeStore` with event numbering and a late predecessor that writes
   next to its successor.
2. `close()` of engine, executor and publisher in `RolloutService`.
3. For the wait for servers of TimeWarp, what `PollCannotHang` is for the poll loop:
   the polls it has left, and that each answers (`LaunchReturns`).
