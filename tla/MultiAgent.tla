----------------------------- MODULE MultiAgent -----------------------------
(***************************************************************************)
(* The turn-based arena (multi_agent.py): MultiAgentEpisode.run drives one *)
(* agent per seat over one shared task, in rounds, under one Budget that   *)
(* every seat's MonitoredTool and the shared EventStreamer consult.        *)
(***************************************************************************)
EXTENDS Integers, Sequences, FiniteSets

CONSTANTS
  N,          \* seats, in the order of build_agent_tools
  MaxRounds,  \* max_rounds, the runaway guard
  MaxSteps,   \* Budget.max_agent_steps
  MaxTools,   \* Budget.max_tool_calls
  MaxActs     \* bound: actions of one agent output

ASSUME ArenaAssumption ==
  /\ {N, MaxRounds, MaxSteps, MaxTools} \subseteq Nat \ {0}
  /\ MaxActs \in Nat

Seats == 1 .. N

VARIABLES
  pc,        \* where run stands
  active,    \* Seat.active
  rounds,
  turn,      \* the seat whose body runs; 0 outside the for loop
  acts,      \* actions of its output still to dispatch
  steps, tools,  \* budget.agent_steps and budget.tool_calls
  late,      \* budget.max_wallclock_s has passed
  finished,  \* task.finished()
  exhausted, \* budget_exhausted as run_turn_based returns it
  closed,    \* task.close() was called
  turns,     \* history: steps each seat has taken
  stopped,   \* history: seats that stopped or failed by themselves
  afters     \* history: actions a seat performed on a finished task

budget  == <<steps, tools, late>>
history == <<turns, stopped, afters>>
vars    == <<pc, active, rounds, turn, acts, budget, finished, exhausted,
             closed, history>>

PCs == {"setup", "loop", "step", "act", "return", "evaluate", "close", "done", "raised"}

TypeOK ==
  /\ pc \in PCs /\ active \in [Seats -> BOOLEAN] /\ rounds \in 0 .. MaxRounds
  /\ turn \in 0 .. N /\ acts \in 0 .. MaxActs
  /\ steps \in Nat /\ tools \in Nat /\ late \in BOOLEAN
  /\ finished \in BOOLEAN
  /\ exhausted \in BOOLEAN /\ closed \in BOOLEAN
  /\ turns \in [Seats -> Nat] /\ stopped \in SUBSET Seats
  /\ afters \in [Seats -> Nat]

Init ==
  /\ pc = "setup" /\ active = [i \in Seats |-> TRUE] /\ rounds = 0
  /\ turn = 0 /\ acts = 0 /\ steps = 0 /\ tools = 0 /\ late = FALSE
  /\ finished = FALSE /\ exhausted = FALSE /\ closed = FALSE
  /\ turns = [i \in Seats |-> 0] /\ stopped = {}
  /\ afters = [i \in Seats |-> 0]

Active == {i \in Seats : active[i]}

\* Budget.exhausted, with st agent steps and n tool calls.
Exhausted(st, n) == st >= MaxSteps \/ n >= MaxTools \/ late

-----------------------------------------------------------------------------
(* MultiAgentEpisode.run *)

\* task_config.make, the tools, reset, record_reset and an agent per seat.
Setup ==
  /\ pc = "setup" /\ pc' \in {"loop", "raised"}
  /\ UNCHANGED <<active, rounds, turn, acts, budget, finished, exhausted, closed, history>>

\* An error of the scheduler's callees, of evaluate or of a sink: nothing between
\* here and the caller handles it, and close is not reached.
Raises ==
  /\ pc \in {"step", "act", "evaluate"}
  /\ pc' = "raised"
  /\ UNCHANGED <<active, rounds, turn, acts, budget, finished, exhausted, closed, history>>

\* task.evaluate and the terminal event; the rewards are read from its info.
Evaluate ==
  /\ pc = "evaluate" /\ pc' = "close"
  /\ UNCHANGED <<active, rounds, turn, acts, budget, finished, exhausted, closed, history>>

\* An error of task.close is logged.
Close ==
  /\ pc = "close" /\ pc' = "done" /\ closed' = TRUE
  /\ UNCHANGED <<active, rounds, turn, acts, budget, finished, exhausted, history>>

-----------------------------------------------------------------------------
(* run_turn_based *)

\* The first active seat after seat i, or 0 when the for loop is done.
Later(i, on) == {j \in Seats : j > i /\ on[j]}

\* Slip: a seat that has acted starts the for loop over, while it is active.
FromTheTop(i, on) ==
  IF i > 1 /\ on[1] THEN 1
  ELSE IF Later(i, on) = {} THEN 0
  ELSE CHOOSE j \in Later(i, on) : \A k \in Later(i, on) : j <= k

After(i, on) == IF Later(i, on) = {} THEN 0
                ELSE CHOOSE j \in Later(i, on) : \A k \in Later(i, on) : j <= k

\* The body of the loop is done with seat i; on says who is active now.
Proceed(i, on) ==
  /\ active' = on /\ acts' = 0 /\ turn' = After(i, on)
  /\ pc' = IF After(i, on) = 0 THEN "loop" ELSE "step"

\* Slip: one agent's STOP ends the episode for every seat.
RetireAll(i) ==
  /\ stopped' = stopped \cup {i}
  /\ Proceed(i, [j \in Seats |-> FALSE])

Retire(i) ==
  /\ stopped' = stopped \cup {i}
  /\ Proceed(i, [active EXCEPT ![i] = FALSE])

\* BudgetExceeded: every seat retires and the scheduler returns.
JointStop ==
  /\ active' = [i \in Seats |-> FALSE] /\ exhausted' = TRUE
  /\ pc' = "evaluate" /\ acts' = 0 /\ turn' = 0

Round ==
  /\ pc = "loop"
  /\ Active # {} /\ ~Exhausted(steps, tools) /\ rounds < MaxRounds
  /\ rounds' = rounds + 1
  /\ turn' = After(0, active) /\ pc' = "step"
  /\ UNCHANGED <<active, acts, budget, finished, exhausted, closed, history>>

\* Slip: the seats are left as they are when the guard of the loop stops it.
LeftActive == active

RetiredIfExhausted ==
  IF Exhausted(steps, tools) THEN [i \in Seats |-> FALSE] ELSE active

\* The while condition fails, or the statement after the loop is reached.
LoopEnds ==
  /\ pc = "loop"
  /\ Active = {} \/ Exhausted(steps, tools) \/ rounds = MaxRounds
  /\ active' = RetiredIfExhausted
  /\ pc' = "return"
  /\ UNCHANGED <<rounds, turn, acts, budget, finished, exhausted, closed, history>>

\* The budget is asked once more for the value that is returned.
Return ==
  /\ pc = "return" /\ pc' = "evaluate"
  /\ exhausted' = Exhausted(steps, tools)
  /\ UNCHANGED <<active, rounds, turn, acts, budget, finished, closed, history>>

\* agent.step, with or without an LLM call, then on_step: each looks at the budget
\* when it has counted.
Step ==
  /\ pc = "step"
  /\ turns' = [turns EXCEPT ![turn] = @ + 1]
  /\ \E called, failed \in BOOLEAN, n \in 0 .. MaxActs :
       /\ steps' = IF called /\ Exhausted(steps, tools) THEN steps ELSE steps + 1
       /\ IF (called /\ Exhausted(steps, tools)) \/ Exhausted(steps + 1, tools)
          THEN JointStop /\ UNCHANGED stopped
          ELSE /\ UNCHANGED exhausted
               /\ IF failed \/ n = 0
                  THEN Retire(turn)
                  ELSE pc' = "act" /\ acts' = n /\ UNCHANGED <<active, turn, stopped>>
  /\ UNCHANGED <<rounds, tools, late, finished, closed, afters>>

\* execute_action finds the joint budget used up.
Refused ==
  /\ pc = "act" /\ Exhausted(steps, tools) /\ JointStop
  /\ UNCHANGED <<rounds, budget, finished, closed, history>>

\* The STOP action: AgentStop before anything is recorded.
Stop ==
  /\ pc = "act" /\ ~Exhausted(steps, tools)
  /\ Retire(turn)
  /\ UNCHANGED <<rounds, budget, finished, exhausted, closed, turns, afters>>

\* Any other action: the call is recorded under the current LLM call and counted,
\* then task.finished() is asked.
Act ==
  /\ pc = "act" /\ ~Exhausted(steps, tools)
  /\ tools' = tools + 1
  /\ afters' = IF finished THEN [afters EXCEPT ![turn] = @ + 1] ELSE afters
  /\ \E over \in BOOLEAN :
       /\ (finished => over) /\ finished' = over
       /\ IF over THEN Retire(turn)
          ELSE /\ UNCHANGED stopped
               /\ IF acts = 1 THEN Proceed(turn, active)
                  ELSE acts' = acts - 1 /\ UNCHANGED <<pc, active, turn>>
  /\ UNCHANGED <<rounds, steps, late, exhausted, closed, turns>>

\* Time passes; a budget may have a wallclock cap.
Late ==
  /\ ~late /\ late' = TRUE
  /\ UNCHANGED <<pc, active, rounds, turn, acts, steps, tools, finished, exhausted,
                 closed, history>>

Run == Setup \/ Round \/ LoopEnds \/ Return \/ Step \/ Refused \/ Stop \/ Act
       \/ Evaluate \/ Close

Next == Run \/ Raises \/ Late

Spec == Init /\ [][Next]_vars

-----------------------------------------------------------------------------
\* The budget is joint: the seats together dispatch no more calls and take no more
\* steps than one agent alone would be given.
JointBudget == tools <= MaxTools /\ steps <= MaxSteps

\* One agent step per seat per round: no seat that is still active is more than one
\* step ahead of another, and none is ahead of an earlier one.
TurnsAreFair ==
  \A i, j \in Active : i < j => turns[i] - turns[j] \in {0, 1}

\* A seat retires for a reason of its own or because the joint budget is used up:
\* a STOP of one seat does not end the episode for the others.
RetiredForCause ==
  \A i \in Seats : ~active[i] => i \in stopped \/ Exhausted(steps, tools)

\* A seat notices that the task is over at the latest after one more action, even
\* when its output holds several.
FinishedIsNoticed == \A i \in Seats : afters[i] <= 1

\* The scheduler returns because every seat is retired, because the budget is used
\* up, or because max_rounds was reached; an exhausted result means that no seat is
\* active, unless the wallclock ran out between the last two looks at the budget.
ReturnIsExplained ==
  pc = "evaluate" =>
    /\ Active = {} \/ rounds = MaxRounds
    /\ exhausted => Active = {} \/ late
=============================================================================
