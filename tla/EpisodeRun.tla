----------------------------- MODULE EpisodeRun -----------------------------
(***************************************************************************)
(* Episode._run_episode from the RUNNING status to task.close(), with the  *)
(* agent loop it drives (agent.py), the MonitoredTool every action goes    *)
(* through (tool.py), the Budget both consult and the EventStreamer that   *)
(* records what happens, with RLEventSink as its second sink.              *)
(*                                                                         *)
(* Sequential agents call one tool after another on the calling thread.    *)
(* Parallel agents gather the calls of a turn: the tools run in threads,   *)
(* what follows a tool's return runs on the event loop and is one step.    *)
(***************************************************************************)
EXTENDS Integers, Sequences, FiniteSets, EpisodeStatus

CONSTANTS
  MaxSteps,   \* max_agent_steps
  MaxCost,    \* max_cost_usd, in calls: a successful LLM call costs 1
  MaxCalls,   \* bound: actions an agent returns in one step
  MaxLLM,     \* bound: LLM calls of one step
  MaxFaults   \* bound: writes and publications that raise

ASSUME EpisodeRunAssumption ==
  /\ {MaxSteps, MaxCost} \subseteq Nat \ {0}
  /\ {MaxCalls, MaxLLM, MaxFaults} \subseteq Nat

VARIABLES
  pc,          \* where the episode stands
  parallel,    \* AgentConfig.parallel_actions
  perStep,     \* task.validate_per_step
  steps,       \* budget.agent_steps
  cost,        \* budget.cost_usd
  llm,         \* LLM calls of the current step
  slot,        \* the tool calls of the current turn
  raised,      \* what leaves agent.run, or "none"
  over,        \* max_steps_reached
  log,         \* the events folded by EventStreamer.emit, in order
  sink,        \* RLEventSink: an error seen, the terminal events published
  reached,     \* what setup built: "none", "task", "meta" or "streamer"
  filled,      \* meta.summary_stats is set
  meta,        \* episode.metadata.json: "none", "stub", "stats" or "complete"
  status,      \* ep_status.status
  stored,      \* status.json
  closed,      \* task.close() was called
  interrupted, \* history: a KeyboardInterrupt or a cancellation was raised
  straggling,  \* history: the join of the tool threads timed out
  unrecorded,  \* history: an error that no event records ended the run
  executed,    \* history: the calls whose tool was entered
  faults       \* history: writes and publications that raised

config  == <<parallel, perStep>>
budget  == <<steps, cost>>
loop    == <<llm, slot, raised, executed>>
record  == <<log, sink>>
files   == <<meta, stored>>
ending  == <<over, status, filled>>
history == <<interrupted, straggling, unrecorded>>
vars    == <<pc, config, budget, loop, record, reached, files, ending, closed, history, faults>>

Slots == 1 .. MaxCalls

PCs == {"opening", "setup", "reset", "step", "calls", "join", "left",
        "evaluate", "finalize", "finally", "closing", "done"}

SlotState == {"idle", "ready", "running", "returned", "recorded", "adrift", "over"}

Event == [kind : {"reset", "llm", "tool", "eval", "budget", "error", "final"},
          call : Nat \X Nat]

NoCall     == <<0, 0>>
Of(kind)   == [kind |-> kind, call |-> NoCall]
NoSlots    == [s \in Slots |-> "idle"]

Init ==
  /\ pc = "opening"
  /\ parallel \in BOOLEAN /\ perStep \in BOOLEAN
  /\ steps = 0 /\ cost = 0 /\ llm = 0 /\ slot = NoSlots
  /\ raised = "none" /\ over = FALSE
  /\ log = <<>> /\ sink = [error |-> FALSE, terminals |-> <<>>]
  /\ reached = "none" /\ filled = FALSE /\ meta = "none"
  /\ status = "QUEUED" /\ stored = "QUEUED" /\ closed = FALSE
  /\ interrupted = FALSE /\ straggling = FALSE /\ unrecorded = FALSE
  /\ executed = {} /\ faults = 0

-----------------------------------------------------------------------------
(* Budget, EventStreamer and RLEventSink *)

\* Slip: the cap on the cost is left out.
StepsOnly(st, c) == st >= MaxSteps

\* Budget.exhausted with the two caps an Episode sets.
Exhausted(st, c) == st >= MaxSteps \/ c >= MaxCost

\* Slips: an exhausted budget is published as a failure, a failure is left to an
\* evaluation that never comes.
BudgetIsTerminal(sent, failed, e) ==
  CASE sent # <<>>                     -> sent
    [] e.kind \in {"error", "budget"}  -> <<[reward |-> FALSE, valid |-> FALSE]>>
    [] e.kind = "final"                -> <<[reward |-> TRUE, valid |-> ~ failed]>>
    [] OTHER                           -> sent

ScoreIsTerminal(sent, failed, e) ==
  IF sent = <<>> /\ e.kind = "final"
  THEN <<[reward |-> TRUE, valid |-> ~ failed]>> ELSE sent

\* The terminal events sent once e has been published.  A budget that ran out is
\* not an end: the evaluation that follows carries the reward.
Terminals(sent, failed, e) ==
  CASE sent # <<>>        -> sent
    [] e.kind = "error"   -> <<[reward |-> FALSE, valid |-> FALSE]>>
    [] e.kind = "final"   -> <<[reward |-> TRUE, valid |-> ~ failed]>>
    [] OTHER              -> sent

\* RLEventSink.save_event: a failed call (bad), one without its training data or a
\* failed agent is remembered, and so is a publication that raised (ok = FALSE),
\* which also withholds the terminal.
Published(s, e, bad, ok) ==
  LET failed == s.error \/ bad \/ ~ ok \/ e.kind = "error"
  IN  [error     |-> failed,
       terminals |-> IF ok THEN Terminals(s.terminals, failed, e) ELSE s.terminals]

\* EventStreamer.emit: the event is folded into the stats first and then goes to
\* the sinks; an error of RLEventSink is raised to the caller (ok = FALSE).
Emit(e, bad, ok) ==
  /\ log' = Append(log, e)
  /\ sink' = Published(sink, e, bad, ok)
  /\ faults' = IF ok THEN faults ELSE faults + 1
  /\ ok \/ faults < MaxFaults

-----------------------------------------------------------------------------
(* Setup *)

\* _open_status, outside the try: an error ends the run as it began.
OpenStatus ==
  /\ pc = "opening"
  /\ \/ pc' = "setup" /\ status' = "RUNNING" /\ stored' = "RUNNING" /\ UNCHANGED faults
     \/ pc' = "done" /\ faults < MaxFaults /\ faults' = faults + 1 /\ UNCHANGED <<status, stored>>
  /\ UNCHANGED <<config, budget, loop, record, reached, over, filled, meta, closed, history>>

\* The outer except: a permanent provider error or an incompatible
\* infrastructure is not worth a retry.
RaiseOut ==
  /\ pc' = "finally"
  /\ status' \in {"FAILED", "INVALID_CONFIG"}

\* task_config.make, agent_config.make, task.reset, save_metadata,
\* save_episode_config, build_agent_tools.
Setup ==
  /\ pc = "setup" /\ pc' = "reset"
  /\ reached' = "streamer" /\ meta' = "stub"
  /\ UNCHANGED <<config, budget, loop, record, stored, ending, closed, history, faults>>

\* One of them raises, or an interrupt comes, which no except clause handles.
SetupFails ==
  /\ pc = "setup"
  /\ \/ RaiseOut /\ UNCHANGED interrupted
     \/ pc' = "finally" /\ interrupted' = TRUE /\ UNCHANGED status
  /\ reached' \in {"none", "task", "meta", "streamer"}
  /\ meta' = IF reached' \in {"meta", "streamer"} THEN "stub" ELSE meta
  /\ UNCHANGED <<config, budget, loop, record, stored, over, filled, closed,
                 straggling, unrecorded, faults>>

\* streamer.record_reset and agent.attach_recorder, outside the inner try: an
\* error here is not recorded in the trajectory.
RecordReset ==
  /\ pc = "reset"
  /\ \E ok, attached \in BOOLEAN :
       /\ Emit(Of("reset"), FALSE, ok)
       /\ IF ok /\ attached THEN pc' = "step" /\ UNCHANGED status ELSE RaiseOut
       /\ unrecorded' = (ok /\ ~ attached)
  /\ UNCHANGED <<config, budget, loop, reached, files, over, filled, closed, interrupted,
                 straggling>>

-----------------------------------------------------------------------------
(* The agent loop *)

\* An exception leaves agent.run.
LeaveRun(x) == pc' = "left" /\ raised' = x

\* LLM.call and on_llm_call: usage is added before the event is emitted and the
\* caps are looked at after it.  A call to train on may lack its token data.  The
\* agent may catch an Exception (a failed call, a failed publication) and go on;
\* it cannot catch BudgetExceeded.
LLMCall ==
  /\ pc = "step" /\ llm < MaxLLM
  /\ llm' = llm + 1
  /\ \E failed, untrainable, ok \in BOOLEAN :
       /\ cost' = IF failed THEN cost ELSE cost + 1
       /\ Emit(Of("llm"), failed \/ untrainable, ok)
       /\ IF ok /\ Exhausted(steps, cost')
          THEN LeaveRun("budget")
          ELSE \/ UNCHANGED <<pc, raised>>
               \/ (failed \/ ~ ok) /\ LeaveRun("error")
  /\ UNCHANGED <<config, steps, slot, executed, reached, files, ending, closed, history>>

\* agent.step raises an error of its own.
StepRaises ==
  /\ pc = "step" /\ LeaveRun("error")
  /\ UNCHANGED <<config, budget, llm, slot, executed, record, reached, files, ending, closed,
                 history, faults>>

Gathered(n) == [s \in Slots |-> IF s <= n THEN "ready" ELSE "idle"]

\* on_step counts the step before anything of it is dispatched.
StepEnds(n, err) ==
  IF Exhausted(steps + 1, cost) \/ err \/ n = 0
  THEN /\ UNCHANGED slot
       /\ LeaveRun(IF Exhausted(steps + 1, cost) THEN "budget" ELSE IF err THEN "error" ELSE "none")
  ELSE pc' = "calls" /\ slot' = Gathered(n) /\ UNCHANGED raised

\* agent.step returns n actions, or an error.
StepReturns ==
  /\ pc = "step"
  /\ steps' = steps + 1 /\ llm' = 0
  /\ \E n \in 0 .. MaxCalls, err \in BOOLEAN : StepEnds(n, err)
  /\ UNCHANGED <<config, cost, executed, record, reached, files, ending, closed, history, faults>>

-----------------------------------------------------------------------------
(* MonitoredTool: one slot per action of the turn *)

Call(s) == [kind |-> "tool", call |-> <<steps, s>>]
Eval(s) == [kind |-> "eval", call |-> <<steps, s>>]

\* Actions are taken up in order; a sequential agent waits for each to end.
Upcoming(s) ==
  /\ slot[s] = "ready"
  /\ \A t \in Slots : t < s => slot[t] # "ready"
  /\ ~ parallel => \A t \in Slots : slot[t] \notin {"running", "returned"}

\* An exception leaves the call in slot s.  A sequential agent is left at once;
\* gather keeps the first exception and the other calls go on.
LeaveCall(s, x) ==
  /\ slot' = [slot EXCEPT ![s] = "over"]
  /\ raised' = IF raised = "none" THEN x ELSE raised
  /\ pc' = IF parallel THEN pc ELSE "left"

\* execute_action up to the dispatch: the budget is looked at first.
Dispatch(s) ==
  /\ pc = "calls" /\ Upcoming(s)
  /\ IF Exhausted(steps, cost)
     THEN LeaveCall(s, "budget") /\ UNCHANGED executed
     ELSE /\ slot' = [slot EXCEPT ![s] = "running"]
          /\ executed' = executed \cup {<<steps, s>>}
          /\ UNCHANGED <<pc, raised>>
  /\ UNCHANGED <<config, budget, llm, record, reached, files, ending, closed, history, faults>>

\* The tool is done, on the calling thread or in a worker thread.  Nobody waits
\* for a thread whose call was cancelled.
ToolReturns(s) ==
  /\ slot[s] \in {"running", "adrift"}
  /\ slot' = [slot EXCEPT ![s] = IF @ = "adrift" THEN "over" ELSE "returned"]
  /\ UNCHANGED <<pc, config, budget, llm, raised, executed, record, reached, files, ending,
                 closed, history, faults>>

\* AgentView raises: AgentStop for the STOP action, or an error of the task.
ViewRaises(s) ==
  /\ pc = "calls" /\ slot[s] = "returned"
  /\ \E x \in {"stop", "error"} : LeaveCall(s, x)
  /\ UNCHANGED <<config, budget, llm, executed, record, reached, files, ending, closed, history,
                 faults>>

\* _record_tool_call, then the score of a task that validates every step, if an
\* event can be made of it.
ShowCall(s, bad, called, both, scored) ==
  LET shown == Published(sink, Call(s), bad, called)
  IN  /\ log' = log \o (IF both THEN <<Call(s), Eval(s)>> ELSE <<Call(s)>>)
      /\ sink' = IF both THEN Published(shown, Eval(s), FALSE, scored) ELSE shown
      /\ faults' = IF called /\ scored THEN faults ELSE faults + 1
      /\ (called /\ scored) \/ faults < MaxFaults

\* The call is over: the agent has its result, or finished() says so or raises, or
\* what came before raised.
SettleCall(s, done) ==
  \/ done /\ slot' = [slot EXCEPT ![s] = "recorded"] /\ UNCHANGED <<pc, raised>>
  \/ done /\ LeaveCall(s, "stop")
  \/ LeaveCall(s, "error")

\* _record_tool_call and _post_action, without an await between them.
RecordCall(s) ==
  /\ pc = "calls" /\ slot[s] = "returned"
  /\ \E bad, called, usable, scored \in BOOLEAN :
       /\ (called /\ perStep /\ usable) \/ scored
       /\ perStep \/ usable
       /\ ShowCall(s, bad, called, called /\ perStep /\ usable, scored)
       /\ SettleCall(s, called /\ usable /\ scored)
  /\ UNCHANGED <<config, budget, llm, executed, reached, files, ending, closed, history>>

\* Slip: the gather returns its exceptions and the loop goes on.
TurnEndsAnyway ==
  /\ pc = "calls"
  /\ \A s \in Slots : slot[s] \in {"idle", "recorded", "over"}
  /\ pc' = "step" /\ slot' = NoSlots /\ raised' = "none"
  /\ UNCHANGED <<config, budget, llm, executed, record, reached, files, ending, closed,
                 history, faults>>

\* Every call of the turn has been recorded; the agent takes its next step.
TurnEnds ==
  /\ pc = "calls" /\ raised = "none"
  /\ \A s \in Slots : slot[s] \in {"idle", "recorded"}
  /\ pc' = "step" /\ slot' = NoSlots
  /\ UNCHANGED <<config, budget, llm, raised, executed, record, reached, files, ending, closed,
                 history, faults>>

\* Slip: the calls that are still running are left alone.
LeftRunning(state) == state

\* What asyncio.run does to a call that has not ended when the gather raises: its
\* task is cancelled, its thread cannot be.
Cancelled(state) ==
  IF state = "running" THEN "adrift"
  ELSE IF state \in {"ready", "returned"} THEN "over" ELSE state

\* Every task of the gather has begun before an exception of one is seen; an
\* interrupt can come earlier.
Unwind ==
  /\ pc = "calls" /\ parallel /\ raised # "none"
  /\ raised = "interrupt" \/ \A s \in Slots : slot[s] # "ready"
  /\ slot' = [s \in Slots |-> Cancelled(slot[s])]
  /\ pc' = "join"
  /\ UNCHANGED <<config, budget, llm, raised, executed, record, reached, files, ending, closed,
                 history, faults>>

\* asyncio.run joins the tool threads before it returns, but not for ever.
Join ==
  /\ pc = "join" /\ pc' = "left"
  /\ \A s \in Slots : slot[s] # "adrift"
  /\ UNCHANGED <<config, budget, loop, record, reached, files, ending, closed, history, faults>>

JoinTimesOut ==
  /\ pc = "join" /\ pc' = "left"
  /\ \E s \in Slots : slot[s] = "adrift"
  /\ straggling' = TRUE
  /\ UNCHANGED <<config, budget, loop, record, reached, files, ending, closed, interrupted,
                 unrecorded, faults>>

-----------------------------------------------------------------------------
(* The rest of _run_episode *)

\* The agent returned, or AgentStop was caught.
RunEnds ==
  /\ pc = "left" /\ raised \in {"none", "stop"}
  /\ pc' = "evaluate"
  /\ UNCHANGED <<config, budget, loop, record, reached, files, ending, closed, history, faults>>

\* except BudgetExceeded: recorded, and the episode is still evaluated.
BudgetEnds ==
  /\ pc = "left" /\ raised = "budget"
  /\ \E ok \in BOOLEAN :
       /\ Emit(Of("budget"), FALSE, ok)
       /\ IF ok THEN pc' = "evaluate" /\ over' = TRUE /\ UNCHANGED status
                ELSE RaiseOut /\ UNCHANGED over
  /\ UNCHANGED <<config, budget, loop, reached, files, filled, closed, history>>

\* except Exception: recorded and raised again, without an evaluation.
RunFails ==
  /\ pc = "left" /\ raised = "error"
  /\ \E ok \in BOOLEAN : Emit(Of("error"), FALSE, ok)
  /\ RaiseOut
  /\ UNCHANGED <<config, budget, loop, reached, files, over, filled, closed, history>>

Evaluate ==
  /\ pc = "evaluate"
  /\ \E ok \in BOOLEAN :
       /\ Emit(Of("final"), FALSE, ok)
       /\ IF ok THEN pc' = "finalize" /\ UNCHANGED status ELSE RaiseOut
  /\ UNCHANGED <<config, budget, loop, reached, files, over, filled, closed, history>>

\* record_evaluation cannot make an event of what task.evaluate returned.
ScoreUnusable ==
  /\ pc = "evaluate" /\ RaiseOut /\ unrecorded' = TRUE
  /\ UNCHANGED <<config, budget, loop, record, reached, files, over, filled, closed,
                 interrupted, straggling, faults>>

\* task.evaluate raises.
EvaluateFails ==
  /\ pc = "evaluate"
  /\ \E ok \in BOOLEAN : Emit(Of("error"), FALSE, ok)
  /\ RaiseOut
  /\ UNCHANGED <<config, budget, loop, reached, files, over, filled, closed, history>>

\* Slip: an exhausted budget is forgotten at the end.
StatusPlain == "COMPLETED"

FinalStatus == IF over THEN "MAX_STEPS_REACHED" ELSE "COMPLETED"

\* finalize_episode, then update_experiment_summary.
Finalize ==
  /\ pc = "finalize" /\ pc' = "finally"
  /\ filled' = TRUE /\ meta' = "complete" /\ status' = FinalStatus
  /\ UNCHANGED <<config, budget, loop, record, reached, over, stored, closed, history, faults>>

\* How far that got when it was cut short.
PartlyFinalized ==
  /\ filled' \in BOOLEAN
  /\ meta' \in (IF filled' THEN {meta, "complete"} ELSE {meta})

\* The stats cannot be computed, or one of the two calls raises.
FinalizeFails ==
  /\ pc = "finalize" /\ faults < MaxFaults /\ faults' = faults + 1
  /\ RaiseOut /\ PartlyFinalized
  /\ UNCHANGED <<config, budget, loop, record, reached, over, stored, closed, history>>

\* KeyboardInterrupt: no except clause of the episode handles it.  asyncio.run
\* cancels the gather and raises it again.
Interrupt ==
  /\ ~ interrupted /\ interrupted' = TRUE
  /\ \/ /\ pc \in {"reset", "step", "left", "evaluate"}
        /\ pc' = "finally" /\ UNCHANGED <<slot, raised, filled, meta>>
     \/ /\ pc = "finalize" /\ pc' = "finally"
        /\ PartlyFinalized /\ UNCHANGED <<slot, raised>>
     \/ /\ pc = "calls" /\ ~ parallel
        /\ pc' = "finally" /\ UNCHANGED <<raised, filled, meta>>
        /\ slot' = [s \in Slots |-> IF slot[s] = "running" THEN "over" ELSE slot[s]]
     \/ /\ pc = "calls" /\ parallel /\ raised = "none"
        /\ raised' = "interrupt" /\ UNCHANGED <<pc, slot, filled, meta>>
  /\ UNCHANGED <<config, budget, llm, executed, record, reached, stored, over, status, closed,
                 straggling, unrecorded, faults>>

InterruptEnds ==
  /\ pc = "left" /\ raised = "interrupt" /\ pc' = "finally"
  /\ UNCHANGED <<config, budget, loop, record, reached, files, ending, closed, history, faults>>

LacksStats == reached = "streamer" /\ ~ filled

\* finally: the stats of a failed run and the last status.  Errors are logged.
Finally ==
  /\ pc = "finally" /\ pc' = "closing"
  /\ \E kept, written \in BOOLEAN :
       /\ meta' = IF LacksStats /\ kept THEN "stats" ELSE meta
       /\ stored' = IF written THEN status ELSE stored
       /\ faults' = IF kept /\ written THEN faults ELSE faults + 1
       /\ (kept /\ written) \/ faults < MaxFaults
       /\ LacksStats \/ kept
  /\ UNCHANGED <<config, budget, loop, record, reached, ending, closed, history>>

\* Slip: only an episode that got as far as its agent closes its task.
CloseAfterRun ==
  /\ pc = "closing" /\ pc' = "done"
  /\ closed' = (reached = "streamer")
  /\ UNCHANGED <<config, budget, loop, record, reached, files, ending, history, faults>>

\* task.close(), errors logged, if there is a task.
Close ==
  /\ pc = "closing" /\ pc' = "done"
  /\ closed' = (reached # "none")
  /\ UNCHANGED <<config, budget, loop, record, reached, files, ending, history, faults>>

Next ==
  \/ OpenStatus \/ Setup \/ SetupFails \/ RecordReset
  \/ LLMCall \/ StepRaises \/ StepReturns
  \/ \E s \in Slots : Dispatch(s) \/ ToolReturns(s) \/ ViewRaises(s) \/ RecordCall(s)
  \/ TurnEnds \/ Unwind \/ Join \/ JoinTimesOut
  \/ RunEnds \/ BudgetEnds \/ RunFails
  \/ Evaluate \/ ScoreUnusable \/ EvaluateFails \/ Finalize \/ FinalizeFails
  \/ Interrupt \/ InterruptEnds \/ Finally \/ Close

Spec == Init /\ [][Next]_vars

\* The worker keeps running and every call it makes returns or raises.
LiveSpec == Spec /\ WF_vars(Next)

-----------------------------------------------------------------------------
(* Properties *)

\* Every variable has its type (the locals of _run_episode and the fields of the
\* Budget, EventStreamer and RLEventSink it builds).
TypeOK ==
  /\ pc \in PCs /\ config \in BOOLEAN \X BOOLEAN
  /\ {steps, cost, llm, faults} \subseteq Nat
  /\ slot \in [Slots -> SlotState]
  /\ raised \in {"none", "budget", "stop", "error", "interrupt"}
  /\ log \in Seq(Event) /\ executed \subseteq Nat \X Nat
  /\ sink \in [error : BOOLEAN, terminals : Seq([reward : BOOLEAN, valid : BOOLEAN])]
  /\ reached \in {"none", "task", "meta", "streamer"}
  /\ meta \in {"none", "stub", "stats", "complete"}
  /\ {status, stored} \subseteq Status
  /\ {over, filled, closed, interrupted, straggling, unrecorded} \subseteq BOOLEAN

Recorded == {log[i].call : i \in {j \in DOMAIN log : log[j].kind = "tool"}}

\* Before the agent sees another turn every tool it called, in sequence or in
\* parallel, is in the trajectory: only the turn in which the run ended can have
\* calls that ran without a record.
NoCallForgotten ==
  \A c \in executed : c[1] < steps \/ (c[1] = steps /\ pc = "step") => c \in Recorded

\* A cap is passed by the call that crosses it and by nothing else: no tool runs
\* in the step that reaches max_agent_steps, and the cost stays below the cap
\* plus one call for every publication that raised in place of BudgetExceeded.
SpendingBounded ==
  /\ \A c \in executed : c[1] < MaxSteps
  /\ cost <= MaxCost + faults

\* The terminal evaluation never scores a task that one of the agent's tools is
\* still changing, unless the join of the tool threads gave up.
QuietEvaluation ==
  pc \in {"evaluate", "finalize"} /\ ~ straggling =>
    \A s \in Slots : slot[s] \notin {"running", "returned", "adrift"}

\* The trainer is told exactly once how a rollout ended that was recorded at all,
\* whatever ended it, except an interrupt, an error of the sink itself, or one of
\* the two errors that no event records: attach_recorder's, and a reward that
\* record_evaluation cannot convert.  It is never told twice.
TrainerToldOnce ==
  /\ Len(sink.terminals) <= 1
  /\ pc = "done" /\ log # <<>> /\ ~ interrupted /\ ~ unrecorded /\ faults = 0 =>
       Len(sink.terminals) = 1

\* An episode whose status counts as finished has its reward everywhere a reader
\* looks for it: complete metadata, and a terminal event with the reward.
FinishedIsWhole ==
  stored \in {"COMPLETED", "MAX_STEPS_REACHED"} =>
    /\ meta = "complete"
    /\ Len(sink.terminals) = 1 /\ sink.terminals[1].reward

\* Every run ends, however it went, and no task it made is left open.
Ends == <>(pc = "done" /\ (reached # "none" => closed))

Abs == INSTANCE Trajectory WITH
         events  <- log,
         verdict <- IF pc = "done" THEN stored ELSE "open"

\* The record of an episode is the trajectory its readers rely on.
ImplementsTrajectory == Abs!Spec
=============================================================================
