------------------------- MODULE EpisodeRun_proofs -------------------------
(***************************************************************************)
(* Proofs about EpisodeRun, for every cap, every number of calls and every *)
(* number of faults: typing, the record of the calls, the budget, the quiet*)
(* evaluation and what the trainer and the files say of the end.           *)
(***************************************************************************)
EXTENDS EpisodeRun, SequenceTheorems, FiniteSetTheorems, WellFoundedInduction, TLAPS

SinkType == [error : BOOLEAN, terminals : Seq([reward : BOOLEAN, valid : BOOLEAN])]

LEMMA ConstantsAreNaturals ==
  /\ MaxSteps \in Nat /\ MaxSteps > 0 /\ MaxCost \in Nat /\ MaxCost > 0
  /\ MaxCalls \in Nat /\ MaxLLM \in Nat /\ MaxFaults \in Nat
BY EpisodeRunAssumption

LEMMA PublishedType ==
  ASSUME NEW s \in SinkType, NEW e, NEW bad \in BOOLEAN, NEW ok \in BOOLEAN
  PROVE  Published(s, e, bad, ok) \in SinkType
<1>1. ASSUME NEW failed \in BOOLEAN
      PROVE  Terminals(s.terminals, failed, e) \in Seq([reward : BOOLEAN, valid : BOOLEAN])
  <2>1. /\ <<[reward |-> FALSE, valid |-> FALSE]>> \in Seq([reward : BOOLEAN, valid : BOOLEAN])
        /\ <<[reward |-> TRUE, valid |-> ~ failed]>> \in Seq([reward : BOOLEAN, valid : BOOLEAN])
    OBVIOUS
  <2>2. s.terminals \in Seq([reward : BOOLEAN, valid : BOOLEAN])
    BY DEF SinkType
  <2> QED BY <2>1, <2>2, Zenon DEF Terminals
<1>2. s.terminals \in Seq([reward : BOOLEAN, valid : BOOLEAN]) /\ s.error \in BOOLEAN
  BY DEF SinkType
<1> DEFINE failed == s.error \/ bad \/ ~ ok \/ e.kind = "error"
<1>3. failed \in BOOLEAN
  OBVIOUS
<1> HIDE DEF failed
<1>4. (IF ok THEN Terminals(s.terminals, failed, e) ELSE s.terminals)
        \in Seq([reward : BOOLEAN, valid : BOOLEAN])
  BY <1>1, <1>2, <1>3, Zenon
<1>5. [error |-> failed, terminals |-> IF ok THEN Terminals(s.terminals, failed, e) ELSE s.terminals]
        \in SinkType
  BY <1>3, <1>4, Zenon DEF SinkType
<1> QED BY <1>5, Zenon DEF Published, failed

LEMMA EventTypes ==
  ASSUME NEW kind \in {"reset", "llm", "budget", "error", "final"}
  PROVE  Of(kind) \in Event
BY DEF Of, NoCall, Event

LEMMA CallTypes ==
  ASSUME TypeOK, NEW s \in Slots
  PROVE  Call(s) \in Event /\ Eval(s) \in Event
BY ConstantsAreNaturals DEF TypeOK, Slots, Call, Eval, Event

\* What emit does to the record of a well-typed state.
LEMMA EmitType ==
  ASSUME TypeOK, NEW kind \in {"reset", "llm", "budget", "error", "final"},
         NEW bad \in BOOLEAN, NEW ok \in BOOLEAN, Emit(Of(kind), bad, ok)
  PROVE  log' \in Seq(Event) /\ sink' \in SinkType /\ faults' \in Nat
<1>1. log \in Seq(Event) /\ sink \in SinkType /\ faults \in Nat
  BY DEF TypeOK, SinkType
<1>2. Of(kind) \in Event
  BY EventTypes
<1>3. log' \in Seq(Event)
  BY <1>1, <1>2 DEF Emit
<1>4. sink' \in SinkType
  BY <1>1, PublishedType DEF Emit
<1>5. faults' \in Nat
  BY <1>1 DEF Emit
<1> QED BY <1>3, <1>4, <1>5

\* What recording a call does to the record and to the slot of the call.
LEMMA RecordsACall ==
  ASSUME NEW s \in Slots, RecordCall(s)
  PROVE  \E bad, called, both, scored \in BOOLEAN : ShowCall(s, bad, called, both, scored)
<1>1. PICK bad \in BOOLEAN, called \in BOOLEAN, usable \in BOOLEAN, scored \in BOOLEAN :
        ShowCall(s, bad, called, called /\ perStep /\ usable, scored)
  BY Zenon DEF RecordCall
<1>2. (called /\ perStep /\ usable) \in BOOLEAN
  OBVIOUS
<1> QED BY <1>1, <1>2, Zenon

LEMMA CallSettles ==
  ASSUME NEW s \in Slots, RecordCall(s)
  PROVE  /\ pc = "calls" /\ slot[s] = "returned"
         /\ \/ slot' = [slot EXCEPT ![s] = "recorded"] /\ UNCHANGED <<pc, raised>>
            \/ \E x \in {"stop", "error"} : LeaveCall(s, x)
<1>1. PICK done \in BOOLEAN : SettleCall(s, done)
  <2>1. PICK called \in BOOLEAN, usable \in BOOLEAN, scored \in BOOLEAN :
          SettleCall(s, called /\ usable /\ scored)
    BY Zenon DEF RecordCall
  <2>2. (called /\ usable /\ scored) \in BOOLEAN
    OBVIOUS
  <2> QED BY <2>1, <2>2, Zenon
<1>2. pc = "calls" /\ slot[s] = "returned"
  BY DEF RecordCall
<1> QED BY <1>1, <1>2, Zenon DEF SettleCall

-----------------------------------------------------------------------------
\* Type correctness.

LEMMA InitTypeOK == Init => TypeOK
<1> SUFFICES ASSUME Init PROVE TypeOK
  OBVIOUS
<1>1. sink \in [error : BOOLEAN, terminals : Seq([reward : BOOLEAN, valid : BOOLEAN])]
  <2>1. <<>> \in Seq([reward : BOOLEAN, valid : BOOLEAN])
    OBVIOUS
  <2> QED BY <2>1, Zenon DEF Init
<1>2. slot \in [Slots -> SlotState]
  BY DEF Init, NoSlots, SlotState
<1>3. log \in Seq(Event) /\ executed \subseteq Nat \X Nat
  BY DEF Init
<1>4. pc \in PCs /\ config \in BOOLEAN \X BOOLEAN /\ {status, stored} \subseteq Status
  BY DEF Init, PCs, config, Status, InFlightStatuses, TerminalStatuses
<1>5. {steps, cost, llm, faults} \subseteq Nat
  BY DEF Init
<1>7. {over, filled, closed, interrupted, straggling, unrecorded} \subseteq BOOLEAN
  <2>1. /\ over = FALSE
        /\ filled = FALSE
        /\ closed = FALSE
        /\ interrupted = FALSE
        /\ straggling = FALSE
        /\ unrecorded = FALSE
    BY DEF Init
  <2> QED BY <2>1
<1>6. /\ raised \in {"none", "budget", "stop", "error", "interrupt"}
      /\ reached \in {"none", "task", "meta", "streamer"}
      /\ meta \in {"none", "stub", "stats", "complete"}
  BY DEF Init
<1> QED BY <1>1, <1>2, <1>3, <1>4, <1>5, <1>6, <1>7, Zenon DEF TypeOK

LEMMA StepTypeOK == TypeOK /\ [Next]_vars => TypeOK'
<1> SUFFICES ASSUME TypeOK, [Next]_vars PROVE TypeOK'
  OBVIOUS
<1> USE ConstantsAreNaturals
<1> USE DEF TypeOK, PCs, SlotState, Status, InFlightStatuses, TerminalStatuses, config,
     budget, loop, record, files, ending, history
<1>1. CASE OpenStatus
  BY <1>1 DEF OpenStatus
<1>2. CASE Setup
  BY <1>2 DEF Setup
<1>3. CASE SetupFails
  BY <1>3 DEF SetupFails, RaiseOut
<1>4. CASE RecordReset
  <2>1. PICK ok \in BOOLEAN, attached \in BOOLEAN :
          Emit(Of("reset"), FALSE, ok) /\ unrecorded' = (ok /\ ~ attached)
    BY <1>4 DEF RecordReset
  <2>2. log' \in Seq(Event) /\ sink' \in SinkType /\ faults' \in Nat /\ unrecorded' \in BOOLEAN
    BY <2>1, EmitType
  <2>3. pc' \in {"step", "finally"} /\ status' \in {status, "FAILED", "INVALID_CONFIG"}
    BY <1>4 DEF RecordReset, RaiseOut
  <2> QED BY <1>4, <2>2, <2>3 DEF RecordReset, SinkType
<1>5. CASE LLMCall
  <2>1. PICK failed \in BOOLEAN, untrainable \in BOOLEAN, ok \in BOOLEAN :
          /\ cost' = (IF failed THEN cost ELSE cost + 1)
          /\ Emit(Of("llm"), failed \/ untrainable, ok)
    BY <1>5 DEF LLMCall
  <2>2. log' \in Seq(Event) /\ sink' \in SinkType /\ faults' \in Nat
    BY <2>1, EmitType
  <2>3. cost' \in Nat
    BY <2>1
  <2>4. pc' \in PCs /\ raised' \in {"none", "budget", "stop", "error", "interrupt"}
    BY <1>5 DEF LLMCall, LeaveRun
  <2>5. /\ llm' \in Nat
        /\ UNCHANGED <<config, steps, slot, executed, reached, files, ending, closed, history>>
    BY <1>5 DEF LLMCall
  <2> QED BY <2>2, <2>3, <2>4, <2>5 DEF SinkType
<1>6. CASE StepRaises
  BY <1>6 DEF StepRaises, LeaveRun
<1>7. CASE StepReturns
  BY <1>7 DEF StepReturns, StepEnds, LeaveRun, Gathered
<1>8. ASSUME NEW s \in Slots, Dispatch(s) PROVE TypeOK'
  BY <1>8 DEF Dispatch, LeaveCall, Slots
<1>9. ASSUME NEW s \in Slots, ToolReturns(s) PROVE TypeOK'
  BY <1>9 DEF ToolReturns
<1>10. ASSUME NEW s \in Slots, ViewRaises(s) PROVE TypeOK'
  BY <1>10 DEF ViewRaises, LeaveCall
<1>11. ASSUME NEW s \in Slots, RecordCall(s) PROVE TypeOK'
  <2>1. PICK bad \in BOOLEAN, called \in BOOLEAN, both \in BOOLEAN, scored \in BOOLEAN :
          ShowCall(s, bad, called, both, scored)
    BY <1>11, RecordsACall, Zenon
  <2>2. log' \in Seq(Event)
    BY <2>1, <1>11, CallTypes DEF ShowCall
  <2>3. Published(sink, Call(s), bad, called) \in SinkType
    BY PublishedType DEF SinkType
  <2>4. sink' \in SinkType
    BY <2>1, <2>3, PublishedType, Zenon DEF ShowCall
  <2>5. /\ faults' \in Nat
        /\ UNCHANGED <<config, budget, llm, executed, reached, files, ending, closed, history>>
    BY <2>1, <1>11 DEF RecordCall, ShowCall
  <2>6. /\ slot' \in [Slots -> SlotState] /\ pc' \in PCs
        /\ raised' \in {"none", "budget", "stop", "error", "interrupt"}
    BY <1>11, CallSettles DEF LeaveCall
  <2> QED BY <2>2, <2>4, <2>5, <2>6 DEF SinkType
<1>12. CASE TurnEnds
  BY <1>12 DEF TurnEnds, NoSlots
<1>13. CASE Unwind
  BY <1>13 DEF Unwind, Cancelled
<1>14. CASE Join
  BY <1>14 DEF Join
<1>15. CASE JoinTimesOut
  BY <1>15 DEF JoinTimesOut
<1>16. CASE RunEnds
  BY <1>16 DEF RunEnds
<1>17. CASE BudgetEnds
  BY <1>17, EmitType DEF BudgetEnds, RaiseOut, SinkType
<1>18. CASE RunFails
  BY <1>18, EmitType DEF RunFails, RaiseOut, SinkType
<1>19. CASE Evaluate
  BY <1>19, EmitType DEF Evaluate, RaiseOut, SinkType
<1>20. CASE EvaluateFails \/ ScoreUnusable
  BY <1>20, EmitType DEF EvaluateFails, ScoreUnusable, RaiseOut, SinkType
<1>21. CASE Finalize
  BY <1>21 DEF Finalize, FinalStatus
<1>22. CASE FinalizeFails
  BY <1>22 DEF FinalizeFails, PartlyFinalized, RaiseOut
<1>23. CASE Interrupt
  BY <1>23 DEF Interrupt, PartlyFinalized
<1>24. CASE InterruptEnds
  BY <1>24 DEF InterruptEnds
<1>25. CASE Finally
  BY <1>25 DEF Finally
<1>26. CASE Close
  BY <1>26 DEF Close
<1>27. CASE UNCHANGED vars
  BY <1>27 DEF vars
<1> QED
  BY <1>1, <1>2, <1>3, <1>4, <1>5, <1>6, <1>7, <1>8, <1>9, <1>10, <1>11, <1>12, <1>13,
     <1>14, <1>15, <1>16, <1>17, <1>18, <1>19, <1>20, <1>21, <1>22, <1>23, <1>24, <1>25,
     <1>26, <1>27 DEF Next

\* Every variable of a reachable state has its type.
THEOREM TypeCorrect == Spec => []TypeOK
BY InitTypeOK, StepTypeOK, PTL DEF Spec

-----------------------------------------------------------------------------
\* The budget.

\* While the agent still acts the cost is strictly below the cap, but for what
\* failed publications let through, and a turn is only dispatched below the cap
\* on steps.
SpendInv ==
  /\ cost <= MaxCost + faults
  /\ pc \in {"opening", "setup", "reset", "step", "calls"} => cost < MaxCost + faults
  /\ pc = "calls" => steps < MaxSteps
  /\ \A c \in executed : c[1] < MaxSteps

\* A bound survives what counts a fault.
LEMMA BoundGrows ==
  ASSUME NEW c \in Nat, NEW f \in Nat, NEW g \in Nat, g \in {f, f + 1}
  PROVE  /\ c <= MaxCost + f => c <= MaxCost + g
         /\ c < MaxCost + f => c < MaxCost + g
BY ConstantsAreNaturals

\* A step that records something and lets nobody act or run again.
LEMMA RecordingKeepsSpendInv ==
  ASSUME TypeOK, SpendInv, faults' \in {faults, faults + 1}, UNCHANGED <<steps, cost, executed>>,
         pc' \in {"opening", "setup", "reset", "step", "calls"} =>
           pc \in {"opening", "setup", "reset", "step", "calls"},
         pc' = "calls" => pc = "calls"
  PROVE  SpendInv'
<1>1. cost \in Nat /\ faults \in Nat /\ faults' \in Nat
  BY DEF TypeOK
<1>2. cost' = cost /\ steps' = steps /\ executed' = executed
  OBVIOUS
<1>3. /\ cost <= MaxCost + faults'
      /\ cost < MaxCost + faults => cost < MaxCost + faults'
  BY <1>1, BoundGrows, Zenon DEF SpendInv
<1> QED BY <1>2, <1>3 DEF SpendInv

LEMMA SpendInvStep == TypeOK /\ SpendInv /\ [Next]_vars => SpendInv'
<1> SUFFICES ASSUME TypeOK, SpendInv, [Next]_vars PROVE SpendInv'
  OBVIOUS
<1> USE ConstantsAreNaturals
<1> USE DEF SpendInv, config, budget, loop, record, files, ending, history
<1>0. /\ cost \in Nat /\ steps \in Nat /\ faults \in Nat
  BY DEF TypeOK
<1>1. CASE OpenStatus \/ Setup \/ SetupFails
  BY <1>0, <1>1 DEF OpenStatus, Setup, SetupFails, RaiseOut
<1>2. CASE RecordReset \/ BudgetEnds \/ RunFails \/ Evaluate \/ EvaluateFails
  <2>1. faults' \in {faults, faults + 1} /\ UNCHANGED <<steps, cost, executed>>
    BY <1>2 DEF RecordReset, BudgetEnds, RunFails, Evaluate, EvaluateFails, Emit
  <2>2. pc' \in {"step", "evaluate", "finalize", "finally"} /\ (pc' = "step" => pc = "reset")
    BY <1>2 DEF RecordReset, BudgetEnds, RunFails, Evaluate, EvaluateFails, RaiseOut
  <2> QED BY <1>0, <2>1, <2>2, RecordingKeepsSpendInv
<1>3. CASE LLMCall
  <2>1. PICK failed \in BOOLEAN, untrainable \in BOOLEAN, ok \in BOOLEAN :
          /\ cost' = (IF failed THEN cost ELSE cost + 1)
          /\ Emit(Of("llm"), failed \/ untrainable, ok)
          /\ ok /\ Exhausted(steps, cost') => LeaveRun("budget")
    BY <1>3 DEF LLMCall
  <2>2. pc = "step" /\ pc' \in {"step", "left"} /\ UNCHANGED <<steps, executed>>
    BY <1>3 DEF LLMCall, LeaveRun
  <2>3. CASE ok
    BY <1>0, <2>1, <2>2, <2>3 DEF Emit, Exhausted, LeaveRun
  <2>4. CASE ~ ok
    BY <1>0, <2>1, <2>2, <2>4 DEF Emit
  <2> QED BY <2>3, <2>4
<1>4. CASE StepRaises \/ StepReturns
  BY <1>0, <1>4 DEF StepRaises, StepReturns, StepEnds, LeaveRun, Exhausted
<1>5. ASSUME NEW s \in Slots, Dispatch(s) PROVE SpendInv'
  BY <1>0, <1>5 DEF Dispatch, LeaveCall
<1>6. ASSUME NEW s \in Slots, ToolReturns(s) \/ ViewRaises(s) \/ RecordCall(s) PROVE SpendInv'
  <2>1. faults' \in {faults, faults + 1} /\ UNCHANGED <<steps, cost, executed>>
    BY <1>6 DEF ToolReturns, ViewRaises, RecordCall, ShowCall
  <2>2. pc' \in {pc, "left"}
    BY <1>6, CallSettles DEF ToolReturns, ViewRaises, LeaveCall
  <2> QED BY <1>0, <2>1, <2>2, RecordingKeepsSpendInv
<1>7. CASE TurnEnds \/ Unwind \/ Join \/ JoinTimesOut \/ RunEnds
  BY <1>0, <1>7 DEF TurnEnds, Unwind, Join, JoinTimesOut, RunEnds
<1>8. CASE Finalize \/ FinalizeFails \/ ScoreUnusable \/ Finally \/ Close
  BY <1>0, <1>8 DEF Finalize, FinalizeFails, ScoreUnusable, Finally, Close, RaiseOut
<1>9. CASE Interrupt \/ InterruptEnds
  BY <1>0, <1>9 DEF Interrupt, InterruptEnds
<1>10. CASE UNCHANGED vars
  BY <1>10 DEF vars
<1> QED
  BY <1>1, <1>2, <1>3, <1>4, <1>5, <1>6, <1>7, <1>8, <1>9, <1>10 DEF Next

\* No tool runs in the step that reaches max_agent_steps; the cost passes its cap
\* by at most one call for every publication that raised.
THEOREM SpendingIsBounded == Spec => []SpendingBounded
<1>1. Init => SpendInv
  BY ConstantsAreNaturals DEF Init, SpendInv
<1>2. SpendInv => SpendingBounded
  BY DEF SpendInv, SpendingBounded
<1> QED BY <1>1, <1>2, SpendInvStep, TypeCorrect, PTL DEF Spec

-----------------------------------------------------------------------------
\* The tools and the evaluation.

\* Who may be busy when.  A sequential agent has one call at a time, so an
\* exception leaves nothing behind; a parallel one leaves threads adrift, which
\* asyncio.run joins before anything else happens.
QuietInv ==
  /\ pc \in {"opening", "setup", "reset", "step"} =>
       \A s \in Slots : slot[s] \notin {"running", "returned", "adrift"}
  /\ pc = "calls" => \A s \in Slots : slot[s] # "adrift"
  /\ pc = "calls" /\ ~ parallel =>
       \A s, t \in Slots : {slot[s], slot[t]} \subseteq {"running", "returned"} => s = t
  /\ pc \in {"join", "left", "evaluate", "finalize"} =>
       \A s \in Slots : slot[s] \notin {"running", "returned"}
  /\ pc \in {"left", "evaluate", "finalize"} /\ ~ straggling =>
       \A s \in Slots : slot[s] # "adrift"

LEMMA QuietInvStep == TypeOK /\ QuietInv /\ [Next]_vars => QuietInv'
<1> SUFFICES ASSUME TypeOK, QuietInv, [Next]_vars PROVE QuietInv'
  OBVIOUS
<1> USE DEF QuietInv, config, budget, loop, record, files, ending, history
<1>0. slot \in [Slots -> SlotState]
  BY DEF TypeOK
<1>1. CASE OpenStatus \/ Setup \/ SetupFails \/ RecordReset \/ LLMCall \/ StepRaises
  BY <1>1 DEF OpenStatus, Setup, SetupFails, RecordReset, LLMCall, StepRaises, RaiseOut, LeaveRun
<1>2. CASE StepReturns
  BY <1>2 DEF StepReturns, StepEnds, LeaveRun, Gathered
<1>3. ASSUME NEW s \in Slots, Dispatch(s) PROVE QuietInv'
  BY <1>0, <1>3 DEF Dispatch, LeaveCall, Upcoming
<1>4. ASSUME NEW s \in Slots, ToolReturns(s) PROVE QuietInv'
  BY <1>0, <1>4 DEF ToolReturns
<1>5. ASSUME NEW s \in Slots, ViewRaises(s) PROVE QuietInv'
  BY <1>0, <1>5 DEF ViewRaises, LeaveCall
<1>6. ASSUME NEW s \in Slots, RecordCall(s) PROVE QuietInv'
  <2>1. UNCHANGED <<parallel, straggling>>
    BY <1>6 DEF RecordCall
  <2> QED BY <1>0, <1>6, <2>1, CallSettles DEF LeaveCall
<1>7. CASE TurnEnds
  BY <1>7 DEF TurnEnds, NoSlots
<1>8. CASE Unwind
  BY <1>0, <1>8 DEF Unwind, Cancelled
<1>9. CASE Join \/ JoinTimesOut
  BY <1>9 DEF Join, JoinTimesOut
<1>10. CASE RunEnds \/ BudgetEnds \/ RunFails \/ Evaluate \/ EvaluateFails
  BY <1>10 DEF RunEnds, BudgetEnds, RunFails, Evaluate, EvaluateFails, RaiseOut
<1>11. CASE Finalize \/ FinalizeFails \/ ScoreUnusable \/ InterruptEnds \/ Finally \/ Close
  BY <1>11 DEF Finalize, FinalizeFails, ScoreUnusable, InterruptEnds, Finally, Close, RaiseOut
<1>12. CASE Interrupt
  BY <1>12 DEF Interrupt
<1>13. CASE UNCHANGED vars
  BY <1>13 DEF vars
<1> QED
  BY <1>1, <1>2, <1>3, <1>4, <1>5, <1>6, <1>7, <1>8, <1>9, <1>10, <1>11, <1>12, <1>13 DEF Next

\* The terminal evaluation starts with every tool at rest, unless the join of the
\* tool threads timed out.
THEOREM EvaluationIsQuiet == Spec => []QuietEvaluation
<1>1. Init => QuietInv
  BY DEF Init, NoSlots, QuietInv
<1>2. QuietInv => QuietEvaluation
  BY DEF QuietInv, QuietEvaluation
<1> QED BY <1>1, <1>2, QuietInvStep, TypeCorrect, PTL DEF Spec

-----------------------------------------------------------------------------
\* The record of the calls.

LEMMA RecordedStays ==
  ASSUME TypeOK, NEW added \in Seq(Event), log' = log \o added
  PROVE  Recorded \subseteq Recorded'
<1>1. log \in Seq(Event)
  BY DEF TypeOK
<1>2. \A i \in DOMAIN log : i \in DOMAIN log' /\ log'[i] = log[i]
  BY <1>1
<1> QED BY <1>2 DEF Recorded

LEMMA EmitKeepsRecorded ==
  ASSUME TypeOK, NEW kind \in {"reset", "llm", "budget", "error", "final"},
         NEW bad, NEW ok, Emit(Of(kind), bad, ok)
  PROVE  Recorded \subseteq Recorded'
<1>1. log \in Seq(Event) /\ <<Of(kind)>> \in Seq(Event)
  BY EventTypes DEF TypeOK
<1>2. log' = log \o <<Of(kind)>>
  BY <1>1 DEF Emit
<1> QED BY <1>1, <1>2, RecordedStays

\* As long as nothing has ended the run, a call of the current turn is recorded
\* when its slot says so, and a call of an earlier turn is recorded anyway.
CallInv ==
  /\ pc \in {"opening", "setup", "reset", "step"} => raised = "none"
  /\ pc \in {"opening", "setup", "reset"} => executed = {}
  /\ \A c \in executed :
       /\ c[1] <= steps
       /\ c[1] < steps => c \in Recorded
       /\ c[1] = steps /\ pc = "step" => c \in Recorded
       /\ c[1] = steps /\ pc = "calls" /\ raised = "none" =>
            /\ c[2] \in Slots /\ slot[c[2]] \notin {"idle", "ready"}
            /\ slot[c[2]] = "recorded" => c \in Recorded

LEMMA CallInvStep == TypeOK /\ CallInv /\ [Next]_vars => CallInv'
<1> SUFFICES ASSUME TypeOK, CallInv, [Next]_vars PROVE CallInv'
  OBVIOUS
<1> USE DEF CallInv, config, budget, loop, record, files, ending, history
<1>0. slot \in [Slots -> SlotState] /\ steps \in Nat /\ executed \subseteq Nat \X Nat
  BY DEF TypeOK
<1>1. CASE OpenStatus \/ Setup \/ SetupFails \/ StepRaises
  BY <1>1 DEF OpenStatus, Setup, SetupFails, StepRaises, RaiseOut, LeaveRun, Recorded
<1>2. CASE RecordReset \/ BudgetEnds \/ RunFails \/ Evaluate \/ EvaluateFails
  <2>1. Recorded \subseteq Recorded' /\ UNCHANGED <<steps, executed>>
    BY <1>2, EmitKeepsRecorded
       DEF RecordReset, BudgetEnds, RunFails, Evaluate, EvaluateFails
  <2>2. pc' \in {"step", "evaluate", "finalize", "finally"}
    BY <1>2 DEF RecordReset, BudgetEnds, RunFails, Evaluate, EvaluateFails, RaiseOut
  <2>3. pc' = "step" => pc = "reset" /\ raised' = raised
    BY <1>2 DEF RecordReset, BudgetEnds, RunFails, Evaluate, EvaluateFails, RaiseOut
  <2> QED BY <2>1, <2>2, <2>3
<1>3. CASE LLMCall
  <2>1. Recorded \subseteq Recorded'
    BY <1>3, EmitKeepsRecorded DEF LLMCall
  <2> QED BY <1>3, <2>1 DEF LLMCall, LeaveRun
<1>4. CASE StepReturns
  <2>1. Recorded' = Recorded /\ executed' = executed /\ steps' = steps + 1 /\ pc = "step"
    BY <1>4 DEF StepReturns, Recorded
  <2>2. \A c \in executed' : c[1] <= steps' /\ c[1] < steps' /\ c \in Recorded'
    BY <1>0, <2>1
  <2>3. pc' \in {"left", "calls"}
    BY <1>4 DEF StepReturns, StepEnds, LeaveRun
  <2> QED BY <1>0, <2>1, <2>2, <2>3
<1>5. ASSUME NEW s \in Slots, Dispatch(s) PROVE CallInv'
  BY <1>0, <1>5 DEF Dispatch, LeaveCall, Upcoming, Recorded
<1>6. ASSUME NEW s \in Slots, ToolReturns(s) \/ ViewRaises(s) PROVE CallInv'
  BY <1>0, <1>6 DEF ToolReturns, ViewRaises, LeaveCall, Recorded
<1>7. ASSUME NEW s \in Slots, RecordCall(s) PROVE CallInv'
  <2>1. PICK added \in {<<Call(s)>>, <<Call(s), Eval(s)>>} : log' = log \o added
    BY <1>7, RecordsACall DEF ShowCall
  <2>2. log \in Seq(Event) /\ added \in Seq(Event) /\ Len(added) >= 1 /\ added[1] = Call(s)
    <3>1. log \in Seq(Event) /\ Call(s) \in Event /\ Eval(s) \in Event
      BY CallTypes DEF TypeOK
    <3>2. CASE added = <<Call(s)>>
      BY <3>1, <3>2
    <3>3. CASE added = <<Call(s), Eval(s)>>
      BY <3>1, <3>3
    <3> QED BY <3>2, <3>3
  <2>3. Recorded \subseteq Recorded'
    BY <2>1, <2>2, RecordedStays
  <2>4. <<steps, s>> \in Recorded'
    <3>1. Len(log) + 1 \in DOMAIN log' /\ log'[Len(log) + 1] = Call(s)
      BY <2>1, <2>2
    <3> QED BY <3>1 DEF Recorded, Call
  <2>5. /\ UNCHANGED <<steps, executed>> /\ pc = "calls"
        /\ pc' \in {"calls", "left"}
        /\ raised' = "none" => raised = "none" /\ slot' = [slot EXCEPT ![s] = "recorded"]
    <3>1. UNCHANGED <<steps, executed>>
      BY <1>7 DEF RecordCall
    <3> QED BY <1>7, <3>1, CallSettles DEF LeaveCall
  <2> QED BY <1>0, <2>3, <2>4, <2>5
<1>8. CASE TurnEnds
  BY <1>0, <1>8 DEF TurnEnds, Recorded
<1>9. CASE Unwind \/ Join \/ JoinTimesOut \/ RunEnds
  BY <1>9 DEF Unwind, Join, JoinTimesOut, RunEnds, Recorded
<1>10. CASE Finalize \/ FinalizeFails \/ ScoreUnusable \/ InterruptEnds \/ Finally \/ Close
  BY <1>10 DEF Finalize, FinalizeFails, ScoreUnusable, InterruptEnds, Finally, Close, RaiseOut,
     Recorded
<1>11. CASE Interrupt
  BY <1>11 DEF Interrupt, Recorded
<1>12. CASE UNCHANGED vars
  BY <1>12 DEF vars, Recorded
<1> QED
  BY <1>1, <1>2, <1>3, <1>4, <1>5, <1>6, <1>7, <1>8, <1>9, <1>10, <1>11, <1>12 DEF Next

\* Before the agent sees another turn every tool it called is in the trajectory.
THEOREM CallsAreRecorded == Spec => []NoCallForgotten
<1>1. Init => CallInv
  BY DEF Init, CallInv
<1>2. CallInv => NoCallForgotten
  BY DEF CallInv, NoCallForgotten
<1> QED BY <1>1, <1>2, CallInvStep, TypeCorrect, PTL DEF Spec

-----------------------------------------------------------------------------
\* What the trainer and the files say of the end.

Finished == {"COMPLETED", "MAX_STEPS_REACHED"}
Past     == {"finally", "closing", "done"}
Scored   == Len(sink.terminals) = 1 /\ sink.terminals[1].reward

\* What one published event does to the terminals.
LEMMA PublishedTells ==
  ASSUME NEW s \in SinkType, NEW e, NEW bad \in BOOLEAN, NEW ok \in BOOLEAN
  PROVE  /\ ~ ok \/ e.kind \notin {"error", "final"} =>
              Published(s, e, bad, ok).terminals = s.terminals
         /\ s.terminals = <<>> /\ ok /\ e.kind \in {"error", "final"} =>
              /\ Len(Published(s, e, bad, ok).terminals) = 1
              /\ e.kind = "final" => Published(s, e, bad, ok).terminals[1].reward
<1> DEFINE failed == s.error \/ bad \/ ~ ok \/ e.kind = "error"
           told   == IF ok THEN Terminals(s.terminals, failed, e) ELSE s.terminals
<1>1. Published(s, e, bad, ok).terminals = told
  BY Zenon DEF Published
<1>2. ~ ok \/ e.kind \notin {"error", "final"} => told = s.terminals
  BY Zenon DEF Terminals
<1>3. ASSUME s.terminals = <<>>, ok, e.kind = "error"
      PROVE  told = <<[reward |-> FALSE, valid |-> FALSE]>>
  BY <1>3, Zenon DEF Terminals
<1>4. ASSUME s.terminals = <<>>, ok, e.kind = "final"
      PROVE  told = <<[reward |-> TRUE, valid |-> ~ failed]>>
  <2>1. "final" # "error"
    OBVIOUS
  <2> QED BY <1>4, <2>1, Zenon DEF Terminals
<1> HIDE DEF failed, told
<1>5. ASSUME s.terminals = <<>>, ok, e.kind \in {"error", "final"}
      PROVE  Len(told) = 1 /\ (e.kind = "final" => told[1].reward)
  <2>1. CASE e.kind = "error"
    <3>1. told = <<[reward |-> FALSE, valid |-> FALSE]>>
      BY <1>3, <1>5, <2>1
    <3>2. Len(told) = 1
      BY <3>1
    <3> QED BY <2>1, <3>2
  <2>2. CASE e.kind = "final"
    <3>1. PICK v : told = <<[reward |-> TRUE, valid |-> v]>>
      BY <1>4, <1>5, <2>2
    <3>2. Len(told) = 1 /\ told[1].reward = TRUE
      BY <3>1
    <3> QED BY <2>2, <3>2
  <2> QED BY <1>5, <2>1, <2>2
<1> QED BY <1>1, <1>2, <1>5

\* The same for emit.
LEMMA EmitTells ==
  ASSUME TypeOK, NEW kind \in {"reset", "llm", "budget", "error", "final"},
         NEW bad \in BOOLEAN, NEW ok \in BOOLEAN, Emit(Of(kind), bad, ok)
  PROVE  /\ log' # <<>>
         /\ ~ ok => faults' # 0
         /\ ~ ok \/ kind \notin {"error", "final"} => sink'.terminals = sink.terminals
         /\ sink.terminals = <<>> /\ ok /\ kind \in {"error", "final"} =>
              Len(sink'.terminals) = 1 /\ (kind = "final" => sink'.terminals[1].reward)
<1>1. sink \in SinkType /\ log \in Seq(Event) /\ faults \in Nat
  BY DEF TypeOK, SinkType
<1>2. Of(kind).kind = kind /\ Of(kind) \in Event
  BY EventTypes DEF Of
<1>3. sink' = Published(sink, Of(kind), bad, ok)
  BY DEF Emit
<1>4. log' # <<>>
  BY <1>1, <1>2 DEF Emit
<1>5. ~ ok => faults' # 0
  BY <1>1 DEF Emit
<1> QED BY <1>1, <1>2, <1>3, <1>4, <1>5, PublishedTells

\* No terminal is sent before the run is past its last chance to go on; then one
\* is, unless an interrupt, a fault or an error without a record came in between.
\* A finished status implies the score and the metadata.
TellInv ==
  /\ pc \in {"opening", "setup", "reset"} => log = <<>>
  /\ pc \notin Past \cup {"finalize"} => sink.terminals = <<>>
  /\ pc = "finalize" => Scored
  /\ Len(sink.terminals) \in {0, 1}
  /\ pc \in Past /\ log # <<>> /\ ~ interrupted /\ ~ unrecorded /\ faults = 0 =>
       Len(sink.terminals) = 1
  /\ raised = "interrupt" => interrupted
  /\ status \in Finished => pc \in Past /\ filled /\ meta = "complete" /\ Scored
  /\ stored \in Finished => status \in Finished

LEMMA TellInvStep == TypeOK /\ TellInv /\ [Next]_vars => TellInv'
<1> SUFFICES ASSUME TypeOK, TellInv, [Next]_vars PROVE TellInv'
  OBVIOUS
<1> USE DEF TellInv, Past, Finished, Scored, config, budget, loop, record, files, ending, history
<1>0. faults \in Nat /\ sink \in SinkType /\ Len(<<>>) = 0
  BY DEF TypeOK, SinkType
<1>1. CASE OpenStatus \/ Setup \/ SetupFails
  BY <1>0, <1>1 DEF OpenStatus, Setup, SetupFails, RaiseOut
<1>2. CASE RecordReset
  BY <1>0, <1>2, EmitTells DEF RecordReset, RaiseOut
<1>3. CASE LLMCall
  <2>1. sink'.terminals = sink.terminals
    BY <1>3, EmitTells DEF LLMCall
  <2> QED BY <1>3, <2>1 DEF LLMCall, LeaveRun
<1>4. CASE StepRaises \/ StepReturns
  BY <1>4 DEF StepRaises, StepReturns, StepEnds, LeaveRun
<1>5. ASSUME NEW s \in Slots, Dispatch(s) \/ ToolReturns(s) \/ ViewRaises(s) PROVE TellInv'
  BY <1>5 DEF Dispatch, ToolReturns, ViewRaises, LeaveCall
<1>6. ASSUME NEW s \in Slots, RecordCall(s) PROVE TellInv'
  <2>1. PICK bad \in BOOLEAN, called \in BOOLEAN, both \in BOOLEAN, scored \in BOOLEAN :
          ShowCall(s, bad, called, both, scored)
    BY <1>6, RecordsACall, Zenon
  <2>2. Call(s).kind = "tool" /\ Eval(s).kind = "eval"
    BY DEF Call, Eval
  <2> DEFINE shown == Published(sink, Call(s), bad, called)
  <2>3. shown \in SinkType /\ shown.terminals = sink.terminals
    BY <1>0, <2>2, PublishedType, PublishedTells
  <2>4. sink'.terminals = sink.terminals
    <3>1. sink' = (IF both THEN Published(shown, Eval(s), FALSE, scored) ELSE shown)
      BY <2>1, Zenon DEF ShowCall
    <3>2. \A p \in SinkType : Published(p, Eval(s), FALSE, scored).terminals = p.terminals
      BY <2>2, PublishedTells
    <3> HIDE DEF shown
    <3> QED BY <2>3, <3>1, <3>2, Zenon
  <2>5. /\ pc = "calls" /\ pc' \in {"calls", "left"}
        /\ UNCHANGED <<files, ending, interrupted, unrecorded>>
    <3>1. UNCHANGED <<files, ending, interrupted, unrecorded>>
      BY <1>6 DEF RecordCall
    <3> QED BY <1>6, <3>1, CallSettles DEF LeaveCall
  <2>6. raised' \in {raised, "stop", "error"}
    BY <1>6, CallSettles DEF LeaveCall
  <2> QED BY <1>0, <2>4, <2>5, <2>6
<1>7. CASE TurnEnds \/ Unwind \/ Join \/ JoinTimesOut \/ RunEnds
  BY <1>7 DEF TurnEnds, Unwind, Join, JoinTimesOut, RunEnds
<1>8. CASE BudgetEnds
  BY <1>0, <1>8, EmitTells DEF BudgetEnds, RaiseOut
<1>9. CASE RunFails \/ EvaluateFails
  <2>1. PICK ok \in BOOLEAN : Emit(Of("error"), FALSE, ok)
    BY <1>9 DEF RunFails, EvaluateFails
  <2>2. /\ log' # <<>> /\ (~ ok => faults' # 0 /\ sink'.terminals = sink.terminals)
        /\ ok => Len(sink'.terminals) = 1
    BY <1>9, <2>1, EmitTells DEF RunFails, EvaluateFails
  <2>3. /\ pc \in {"left", "evaluate"} /\ pc' = "finally"
        /\ status' \in {"FAILED", "INVALID_CONFIG"}
        /\ UNCHANGED <<raised, files, interrupted, unrecorded>>
    BY <1>9 DEF RunFails, EvaluateFails, RaiseOut
  <2> QED BY <1>0, <2>2, <2>3
<1>10. CASE Evaluate
  BY <1>0, <1>10, EmitTells DEF Evaluate, RaiseOut
<1>11. CASE Finalize \/ FinalizeFails \/ ScoreUnusable
  BY <1>0, <1>11 DEF Finalize, FinalizeFails, ScoreUnusable, FinalStatus, RaiseOut
<1>12. CASE Interrupt \/ InterruptEnds
  BY <1>0, <1>12 DEF Interrupt, InterruptEnds, PartlyFinalized
<1>13. CASE Finally \/ Close
  BY <1>0, <1>13 DEF Finally, Close, LacksStats
<1>14. CASE UNCHANGED vars
  BY <1>14 DEF vars
<1> QED
  BY <1>1, <1>2, <1>3, <1>4, <1>5, <1>6, <1>7, <1>8, <1>9, <1>10, <1>11, <1>12, <1>13, <1>14
     DEF Next

LEMMA InitTellInv == Init => TellInv
BY DEF Init, TellInv, Past, Finished

\* The trainer never gets two terminal events, and it gets one unless an interrupt,
\* a fault, or one of the two errors that no event records ended the run.
THEOREM TrainerIsTold == Spec => []TrainerToldOnce
<1>1. TellInv => TrainerToldOnce
  <2>1. ASSUME NEW n \in {0, 1} PROVE n <= 1
    OBVIOUS
  <2> QED BY <2>1, Zenon DEF TellInv, Past, TrainerToldOnce
<1> QED BY <1>1, InitTellInv, TellInvStep, TypeCorrect, PTL DEF Spec

\* A status that counts as finished has its reward in the metadata and in the
\* terminal event.
THEOREM FinishedEpisodesAreWhole == Spec => []FinishedIsWhole
<1>1. TellInv => FinishedIsWhole
  BY DEF TellInv, Finished, Scored, FinishedIsWhole
<1> QED BY <1>1, InitTellInv, TellInvStep, TypeCorrect, PTL DEF Spec
-----------------------------------------------------------------------------
\* The trajectory.

Early  == {"opening", "setup", "reset"}
Acting == {"step", "calls", "join", "left"}
Over   == {"finally", "closing", "done"}

\* A recorded call belongs to an earlier turn or to a slot that is done.
Placed(c) ==
  /\ c[1] <= steps
  /\ pc = "calls" /\ c[1] = steps => c[2] \in Slots /\ slot[c[2]] \in {"recorded", "over"}

\* How far the record is says where the episode is; a finished status agrees
\* with the record, which does not grow any more.
TrajInv ==
  /\ pc \in Early => log = <<>>
  /\ pc \in Acting \cup {"evaluate", "finalize"} => log # <<>>
  /\ pc \in Early \cup Acting => ~ over /\ Abs!Kinds(log) \cap {"budget", "error", "final"} = {}
  /\ pc = "evaluate" => Abs!Kinds(log) \cap {"error", "final"} = {}
  /\ pc \in {"evaluate", "finalize"} => (over <=> "budget" \in Abs!Kinds(log))
  /\ pc = "finalize" => "final" \in Abs!Kinds(log)
  /\ pc \in {"step", "calls"} =>
       \A i \in DOMAIN log : log[i].kind = "tool" => Placed(log[i].call)
  /\ pc \notin Over => {status, stored} \cap {"COMPLETED", "MAX_STEPS_REACHED"} = {}
  /\ Abs!Agrees(status, log) /\ Abs!Agrees(stored, log)

\* What one more event does to a record.
LEMMA Appended ==
  ASSUME NEW s \in Seq(Event), NEW e \in Event
  PROVE  /\ Append(s, e) \in Seq(Event) /\ Append(s, e) # <<>>
         /\ Len(Append(s, e)) = Len(s) + 1 /\ Len(s) \in Nat
         /\ SubSeq(Append(s, e), 1, Len(s)) = s
         /\ DOMAIN Append(s, e) = DOMAIN s \cup {Len(s) + 1}
         /\ Append(s, e)[Len(s) + 1] = e
         /\ \A i \in DOMAIN s : Append(s, e)[i] = s[i]
         /\ Abs!Kinds(Append(s, e)) = Abs!Kinds(s) \cup {e.kind}
<1>1. /\ Append(s, e) \in Seq(Event) /\ Len(Append(s, e)) = Len(s) + 1 /\ Len(s) \in Nat
      /\ DOMAIN s = 1 .. Len(s) /\ DOMAIN Append(s, e) = 1 .. Len(s) + 1
      /\ Append(s, e)[Len(s) + 1] = e /\ \A i \in DOMAIN s : Append(s, e)[i] = s[i]
  OBVIOUS
<1>2. SubSeq(Append(s, e), 1, Len(s)) = s
  OBVIOUS
<1>3. DOMAIN Append(s, e) = DOMAIN s \cup {Len(s) + 1}
  BY <1>1
<1>4. Abs!Kinds(Append(s, e)) = Abs!Kinds(s) \cup {e.kind}
  BY <1>1, <1>3 DEF Abs!Kinds
<1> QED
  BY <1>1, <1>2, <1>3, <1>4

LEMMA RecordsOne ==
  ASSUME NEW e \in Event, log \in Seq(Event), log' = Append(log, e), Abs!Fits(log, e),
         pc # "done", pc' # "done"
  PROVE  Abs!Record
<1>1. /\ Len(log') = Len(log) + 1 /\ Len(log) \in Nat
      /\ SubSeq(log', 1, Len(log)) = log /\ log'[Len(log) + 1] = e
  BY Appended
<1>2. \A i \in Len(log) + 1 .. Len(log') : i = Len(log) + 1 /\ i - 1 = Len(log)
  BY <1>1
<1>3. \A i \in Len(log) + 1 .. Len(log') : Abs!Fits(SubSeq(log', 1, i - 1), log'[i])
  BY <1>1, <1>2, Zenon
<1>4. Len(log') \in Len(log) + 1 .. Len(log) + 2
  BY <1>1
<1> QED
  BY <1>1, <1>3, <1>4 DEF Abs!Record

LEMMA RecordsTwo ==
  ASSUME NEW a \in Event, NEW b \in Event, log \in Seq(Event), log' = Append(Append(log, a), b),
         Abs!Fits(log, a), Abs!Fits(Append(log, a), b), pc # "done", pc' # "done"
  PROVE  Abs!Record
<1> DEFINE once == Append(log, a)
<1>1. /\ once \in Seq(Event) /\ Len(once) = Len(log) + 1 /\ Len(log) \in Nat
      /\ SubSeq(once, 1, Len(log)) = log /\ once[Len(log) + 1] = a
      /\ Len(log) + 1 \in DOMAIN once
  BY Appended
<1>2. /\ Len(log') = Len(log) + 2 /\ SubSeq(log', 1, Len(log) + 1) = once
      /\ log'[Len(log) + 2] = b /\ log'[Len(log) + 1] = a
  <2>1. /\ Len(log') = Len(once) + 1 /\ SubSeq(log', 1, Len(once)) = once
        /\ log'[Len(once) + 1] = b /\ \A i \in DOMAIN once : log'[i] = once[i]
    BY <1>1, Appended
  <2> QED
    BY <1>1, <2>1
<1>3. SubSeq(log', 1, Len(log)) = log
  BY <1>1
<1>4. \A i \in Len(log) + 1 .. Len(log') :
        \/ i = Len(log) + 1 /\ i - 1 = Len(log)
        \/ i = Len(log) + 2 /\ i - 1 = Len(log) + 1
  BY <1>1, <1>2
<1>5. \A i \in Len(log) + 1 .. Len(log') : Abs!Fits(SubSeq(log', 1, i - 1), log'[i])
  BY <1>2, <1>3, <1>4, Zenon
<1>6. Len(log') \in Len(log) + 1 .. Len(log) + 2
  BY <1>1, <1>2
<1> QED
  BY <1>3, <1>5, <1>6 DEF Abs!Record

\* What one event does to the record, when the episode goes on.
LEMMA EmitRecords ==
  ASSUME TypeOK, TrajInv, NEW kind \in {"reset", "llm", "budget", "error", "final"},
         NEW bad, NEW ok, Emit(Of(kind), bad, ok), pc \notin Over, pc' # "done",
         kind = "reset" <=> pc \in Early,
         pc \in Early \cup Acting \/ (pc = "evaluate" /\ kind \in {"error", "final"})
  PROVE  /\ Abs!Record /\ log' # <<>>
         /\ Abs!Kinds(log') = Abs!Kinds(log) \cup {kind}
         /\ \A i \in DOMAIN log' : log'[i].kind = "tool" => i \in DOMAIN log /\ log'[i] = log[i]
<1>1. Of(kind) \in Event /\ Of(kind).kind = kind
  BY EventTypes DEF Of
<1>2. log' = Append(log, Of(kind)) /\ log \in Seq(Event)
  BY DEF Emit, TypeOK
<1>3. /\ log' # <<>> /\ Abs!Kinds(log') = Abs!Kinds(log) \cup {kind}
      /\ DOMAIN log' = DOMAIN log \cup {Len(log) + 1} /\ log'[Len(log) + 1] = Of(kind)
      /\ \A i \in DOMAIN log : log'[i] = log[i]
  BY <1>1, <1>2, Appended
<1>4. (log = <<>>) <=> (kind = "reset")
  BY DEF TrajInv, Early, Acting
<1>5. /\ Abs!Kinds(log) \cap {"error", "final"} = {}
      /\ "budget" \in Abs!Kinds(log) => kind \in {"error", "final"}
  BY DEF TrajInv
<1>6. Abs!Fits(log, Of(kind))
  BY <1>1, <1>4, <1>5 DEF Abs!Fits
<1>7. Abs!Record
  BY <1>1, <1>2, <1>6, RecordsOne DEF Over
<1> QED
  BY <1>1, <1>3, <1>7

\* A call that is recorded, alone or with its score.
LEMMA CallRecords ==
  ASSUME TypeOK, TrajInv, NEW s \in Slots, RecordCall(s)
  PROVE  /\ Abs!Record /\ log' # <<>>
         /\ Abs!Kinds(log') \subseteq Abs!Kinds(log) \cup {"tool", "eval"}
         /\ \A i \in DOMAIN log' : log'[i].kind = "tool" =>
              (i \in DOMAIN log /\ log'[i] = log[i]) \/ log'[i].call = <<steps, s>>
<1>1. /\ Call(s) \in Event /\ Call(s).kind = "tool" /\ Call(s).call = <<steps, s>>
      /\ Eval(s) \in Event /\ Eval(s).kind = "eval" /\ Eval(s).call = <<steps, s>>
  BY CallTypes DEF Call, Eval
<1>2. pc = "calls" /\ slot[s] = "returned" /\ pc' # "done" /\ log \in Seq(Event)
  BY CallSettles DEF LeaveCall, TypeOK
<1> DEFINE once == Append(log, Call(s))
<1>3. /\ once \in Seq(Event) /\ once # <<>> /\ Len(once) = Len(log) + 1 /\ Len(log) \in Nat
      /\ DOMAIN once = DOMAIN log \cup {Len(log) + 1} /\ once[Len(log) + 1] = Call(s)
      /\ \A i \in DOMAIN log : once[i] = log[i]
      /\ Abs!Kinds(once) = Abs!Kinds(log) \cup {"tool"}
  BY <1>1, <1>2, Appended
<1>4. /\ log # <<>> /\ Abs!Kinds(log) \cap {"budget", "error", "final"} = {}
      /\ \A i \in DOMAIN log : log[i].kind = "tool" => Placed(log[i].call)
  BY <1>2 DEF TrajInv, Acting
<1>5. \A i \in DOMAIN log : log[i].kind = "tool" => log[i].call # <<steps, s>>
  BY <1>2, <1>4 DEF Placed
<1>6. Abs!Fits(log, Call(s))
  BY <1>1, <1>4, <1>5 DEF Abs!Fits
<1> HIDE DEF once
<1>7. Abs!Fits(once, Eval(s))
  BY <1>1, <1>3, <1>4 DEF Abs!Fits
<1>8. log' = once \/ log' = Append(once, Eval(s))
  <2>1. log' = log \o <<Call(s), Eval(s)>> \/ log' = log \o <<Call(s)>>
    BY RecordsACall DEF ShowCall
  <2>2. log \o <<Call(s)>> = once
    BY <1>1, <1>2 DEF once
  <2>3. log \o <<Call(s), Eval(s)>> = Append(once, Eval(s))
    BY <1>1, <1>2 DEF once
  <2> QED
    BY <2>1, <2>2, <2>3
<1>9. CASE log' = once
  <2>1. Abs!Record
    BY <1>1, <1>2, <1>6, <1>9, RecordsOne DEF once
  <2> QED
    BY <1>1, <1>3, <1>9, <2>1
<1>10. CASE log' = Append(once, Eval(s))
  <2>1. Abs!Record
    BY <1>1, <1>2, <1>6, <1>7, <1>10, RecordsTwo DEF once
  <2>2. /\ log' # <<>> /\ DOMAIN log' = DOMAIN once \cup {Len(once) + 1}
        /\ log'[Len(once) + 1] = Eval(s) /\ \A i \in DOMAIN once : log'[i] = once[i]
        /\ Abs!Kinds(log') = Abs!Kinds(once) \cup {"eval"}
    BY <1>1, <1>3, <1>10, Appended
  <2> QED
    BY <1>1, <1>3, <2>1, <2>2
<1> QED
  BY <1>8, <1>9, <1>10

verdict == IF pc = "done" THEN stored ELSE "open"

\* A step is a step of the trajectory, and leaves it in order.
Keeps == TrajInv' /\ [Abs!Record \/ Abs!Close]_<<log, verdict>>

\* A step that records nothing and ends nothing.
LEMMA SilentKeeps ==
  ASSUME UNCHANGED <<log, stored>>, pc' = "done" <=> pc = "done", TrajInv'
  PROVE  Keeps
BY DEF Keeps, verdict

\* The record and the files, in one place: the status agrees with the record.
LEMMA OtherStatus ==
  ASSUME NEW v, NEW t, v \notin {"COMPLETED", "MAX_STEPS_REACHED"}
  PROVE  Abs!Agrees(v, t)
BY DEF Abs!Agrees

LEMMA TrajStep ==
  ASSUME TypeOK, TrajInv, [Next]_vars
  PROVE  Keeps
<1> USE DEF Early, Acting, Over, config, budget, loop, record, files, ending, history
<1>0. log \in Seq(Event) /\ slot \in [Slots -> SlotState] /\ steps \in Nat
  BY DEF TypeOK
<1>1. CASE OpenStatus
  <2>1. TrajInv'
    BY <1>1, OtherStatus DEF OpenStatus, TrajInv
  <2>2. CASE pc' = "done"
    <3>1. verdict = "open" /\ verdict' = stored /\ log' = log /\ stored = stored'
      BY <1>1, <2>2 DEF OpenStatus, verdict
    <3>2. stored # "open" /\ Abs!Agrees(stored, log)
      BY DEF TypeOK, Status, InFlightStatuses, TerminalStatuses, TrajInv
    <3> QED
      BY <1>1, <2>1, <2>2, <3>1, <3>2 DEF Keeps, verdict, Abs!Close, OpenStatus
  <2>3. CASE pc' # "done"
    BY <1>1, <2>1, <2>3 DEF Keeps, verdict, OpenStatus
  <2> QED
    BY <2>2, <2>3
<1>2. CASE Setup \/ SetupFails
  <2>1. TrajInv'
    BY <1>2, OtherStatus DEF Setup, SetupFails, RaiseOut, TrajInv
  <2> QED
    BY <1>2, <2>1, SilentKeeps DEF Setup, SetupFails, RaiseOut
<1>3. CASE RecordReset
  <2>1. PICK ok \in BOOLEAN, attached \in BOOLEAN :
          /\ Emit(Of("reset"), FALSE, ok)
          /\ IF ok /\ attached THEN pc' = "step" /\ UNCHANGED status ELSE RaiseOut
    BY <1>3 DEF RecordReset
  <2>2. /\ Abs!Record /\ log' # <<>> /\ Abs!Kinds(log') = Abs!Kinds(log) \cup {"reset"}
        /\ \A i \in DOMAIN log' : log'[i].kind = "tool" => i \in DOMAIN log /\ log'[i] = log[i]
    BY <1>3, <2>1, EmitRecords DEF RecordReset, RaiseOut
  <2>3. TrajInv'
    <3>1. \A i \in DOMAIN log' : log'[i].kind # "tool"
      <4>1. log = <<>>
        BY <1>3 DEF RecordReset, TrajInv
      <4>2. DOMAIN log = {}
        BY <4>1
      <4> QED
        BY <2>2, <4>2
    <3>2. pc = "reset" /\ pc' \in {"step", "finally"} /\ UNCHANGED <<over, stored>>
      BY <1>3, <2>1 DEF RecordReset, RaiseOut
    <3>3. status' = status \/ (pc' = "finally" /\ status' \in {"FAILED", "INVALID_CONFIG"})
      BY <2>1 DEF RaiseOut
    <3> QED
      BY <2>2, <3>1, <3>2, <3>3, OtherStatus DEF TrajInv
  <2> QED
    BY <2>2, <2>3 DEF Keeps, verdict
<1>4. CASE LLMCall
  <2>1. PICK bad \in BOOLEAN, ok \in BOOLEAN : Emit(Of("llm"), bad, ok)
    BY <1>4 DEF LLMCall
  <2>5. pc = "step" /\ pc' \in {"step", "left"} /\ UNCHANGED <<steps, slot, over, status, stored>>
    BY <1>4 DEF LLMCall, LeaveRun
  <2>2. /\ Abs!Record /\ log' # <<>> /\ Abs!Kinds(log') = Abs!Kinds(log) \cup {"llm"}
        /\ \A i \in DOMAIN log' : log'[i].kind = "tool" => i \in DOMAIN log /\ log'[i] = log[i]
    BY <2>1, <2>5, EmitRecords
  <2>3. TrajInv'
    BY <2>2, <2>5, OtherStatus DEF TrajInv, Placed
  <2> QED
    BY <2>2, <2>3 DEF Keeps, verdict
<1>5. CASE StepRaises \/ StepReturns
  <2>1. /\ UNCHANGED <<log, over, status, stored>> /\ pc = "step"
        /\ pc' \in {"left", "calls"} /\ steps' \in {steps, steps + 1}
        /\ pc' = "calls" => steps' = steps + 1
    BY <1>5 DEF StepRaises, StepReturns, StepEnds, LeaveRun
  <2>2. \A i \in DOMAIN log : log[i].kind = "tool" => log[i].call[1] <= steps
    BY <2>1 DEF TrajInv, Placed
  <2>3. \A i \in DOMAIN log : log[i].kind = "tool" => log[i].call[1] \in Nat
    <3>1. \A i \in DOMAIN log : log[i] \in Event
      BY <1>0
    <3> QED
      BY <3>1 DEF Event
  <2>4. pc' = "calls" => \A i \in DOMAIN log : log[i].kind = "tool" => Placed(log[i].call)'
    BY <1>0, <2>1, <2>2, <2>3 DEF Placed
  <2>5. TrajInv'
    BY <2>1, <2>4 DEF TrajInv
  <2> QED
    BY <2>1, <2>5, SilentKeeps
<1>6. ASSUME NEW s \in Slots, Dispatch(s) \/ ToolReturns(s) \/ ViewRaises(s) PROVE Keeps
  <2>1. /\ UNCHANGED <<log, over, status, stored, steps>>
        /\ pc' = pc \/ (pc = "calls" /\ pc' = "left")
    BY <1>6 DEF Dispatch, ToolReturns, ViewRaises, LeaveCall
  <2>2. \A t \in Slots :
          pc = "calls" /\ slot[t] \in {"recorded", "over"} => slot'[t] = slot[t] \/ t = s
    BY <1>0, <1>6 DEF Dispatch, ToolReturns, ViewRaises, LeaveCall
  <2>3. slot[s] \notin {"recorded", "over"}
    BY <1>6 DEF Dispatch, Upcoming, ToolReturns, ViewRaises
  <2>4. TrajInv'
    BY <2>1, <2>2, <2>3 DEF TrajInv, Placed
  <2> QED
    BY <2>1, <2>4, SilentKeeps
<1>7. ASSUME NEW s \in Slots, RecordCall(s) PROVE Keeps
  <2>1. /\ UNCHANGED <<over, status, stored, steps>> /\ pc = "calls" /\ pc' \in {"calls", "left"}
        /\ \A t \in Slots \ {s} : slot'[t] = slot[t]
        /\ slot'[s] \in {"recorded", "over"} /\ slot[s] = "returned"
    <3>1. UNCHANGED <<over, status, stored, steps>>
      BY <1>7 DEF RecordCall
    <3> QED BY <1>0, <1>7, <3>1, CallSettles DEF LeaveCall
  <2>2. /\ Abs!Record /\ log' # <<>>
        /\ Abs!Kinds(log') \subseteq Abs!Kinds(log) \cup {"tool", "eval"}
        /\ \A i \in DOMAIN log' : log'[i].kind = "tool" =>
             (i \in DOMAIN log /\ log'[i] = log[i]) \/ log'[i].call = <<steps, s>>
    BY <1>7, CallRecords
  <2>3. \A i \in DOMAIN log' : log'[i].kind = "tool" => Placed(log[i].call)'
    <3> SUFFICES ASSUME NEW i \in DOMAIN log', log'[i].kind = "tool"
                 PROVE  Placed(log[i].call)'
      OBVIOUS
    <3>1. CASE log'[i].call = <<steps, s>>
      BY <1>0, <2>1, <3>1 DEF Placed
    <3>2. CASE i \in DOMAIN log /\ log'[i] = log[i]
      <4>1. Placed(log[i].call)
        BY <2>1, <3>2 DEF TrajInv
      <4> QED
        BY <2>1, <3>2, <4>1 DEF Placed
    <3> QED
      BY <2>2, <3>1, <3>2
  <2>4. TrajInv'
    BY <2>1, <2>2, <2>3, OtherStatus DEF TrajInv
  <2> QED
    BY <2>1, <2>2, <2>4 DEF Keeps, verdict
<1>8. CASE TurnEnds \/ Unwind \/ Join \/ JoinTimesOut \/ RunEnds
  <2>1. /\ UNCHANGED <<log, over, status, stored, steps>>
        /\ pc' = "step" => pc = "calls"
        /\ pc \in Acting /\ pc' \in {"step", "join", "left", "evaluate"}
    BY <1>8 DEF TurnEnds, Unwind, Join, JoinTimesOut, RunEnds
  <2>2. TrajInv'
    BY <2>1 DEF TrajInv, Placed
  <2> QED
    BY <2>1, <2>2, SilentKeeps
<1>9. CASE BudgetEnds
  <2>1. PICK ok \in BOOLEAN :
          /\ Emit(Of("budget"), FALSE, ok)
          /\ IF ok THEN pc' = "evaluate" /\ over' = TRUE /\ UNCHANGED status
                   ELSE RaiseOut /\ UNCHANGED over
    BY <1>9 DEF BudgetEnds
  <2>2. pc = "left" /\ stored' = stored /\ pc' \in {"evaluate", "finally"}
    BY <1>9, <2>1 DEF BudgetEnds, RaiseOut
  <2>3. Abs!Record /\ log' # <<>> /\ Abs!Kinds(log') = Abs!Kinds(log) \cup {"budget"}
    BY <2>1, <2>2, EmitRecords
  <2>4. TrajInv'
    BY <2>1, <2>2, <2>3, OtherStatus DEF TrajInv, RaiseOut
  <2> QED
    BY <2>2, <2>3, <2>4 DEF Keeps, verdict
<1>10. CASE RunFails \/ EvaluateFails
  <2>1. PICK ok \in BOOLEAN : Emit(Of("error"), FALSE, ok)
    BY <1>10 DEF RunFails, EvaluateFails
  <2>2. /\ pc \in {"left", "evaluate"} /\ stored' = stored /\ pc' = "finally"
        /\ status' \in {"FAILED", "INVALID_CONFIG"}
    BY <1>10 DEF RunFails, EvaluateFails, RaiseOut
  <2>3. Abs!Record /\ log' # <<>>
    BY <2>1, <2>2, EmitRecords
  <2>4. TrajInv'
    BY <2>2, <2>3, OtherStatus DEF TrajInv
  <2> QED
    BY <2>2, <2>3, <2>4 DEF Keeps, verdict
<1>11. CASE Evaluate
  <2>1. PICK ok \in BOOLEAN :
          /\ Emit(Of("final"), FALSE, ok)
          /\ IF ok THEN pc' = "finalize" /\ UNCHANGED status ELSE RaiseOut
    BY <1>11 DEF Evaluate
  <2>2. pc = "evaluate" /\ stored' = stored /\ over' = over /\ pc' \in {"finalize", "finally"}
    BY <1>11, <2>1 DEF Evaluate, RaiseOut
  <2>3. Abs!Record /\ log' # <<>> /\ Abs!Kinds(log') = Abs!Kinds(log) \cup {"final"}
    BY <2>1, <2>2, EmitRecords
  <2>4. TrajInv'
    BY <2>1, <2>2, <2>3, OtherStatus DEF TrajInv, RaiseOut
  <2> QED
    BY <2>2, <2>3, <2>4 DEF Keeps, verdict
<1>12. CASE Finalize
  <2>1. /\ UNCHANGED <<log, stored>> /\ pc = "finalize" /\ pc' = "finally"
        /\ status' = (IF over THEN "MAX_STEPS_REACHED" ELSE "COMPLETED")
    BY <1>12 DEF Finalize, FinalStatus
  <2>2. Abs!Agrees(status', log)
    BY <2>1 DEF TrajInv, Abs!Agrees
  <2>3. TrajInv'
    BY <2>1, <2>2 DEF TrajInv
  <2> QED
    BY <2>1, <2>3, SilentKeeps
<1>13. CASE FinalizeFails \/ ScoreUnusable
  <2>1. TrajInv'
    BY <1>13, OtherStatus DEF FinalizeFails, ScoreUnusable, RaiseOut, TrajInv
  <2> QED
    BY <1>13, <2>1, SilentKeeps DEF FinalizeFails, ScoreUnusable, RaiseOut
<1>14. CASE Interrupt \/ InterruptEnds
  <2>1. /\ UNCHANGED <<log, over, status, stored, steps>> /\ pc \notin Over
        /\ pc' = "finally" \/ (pc' = pc /\ slot' = slot)
    BY <1>14 DEF Interrupt, InterruptEnds
  <2>2. TrajInv'
    BY <2>1 DEF TrajInv, Placed
  <2> QED
    BY <2>1, <2>2, SilentKeeps
<1>15. CASE Finally
  <2>1. /\ UNCHANGED <<log, status>> /\ stored' \in {stored, status}
        /\ pc = "finally" /\ pc' = "closing"
    BY <1>15 DEF Finally
  <2>2. TrajInv'
    BY <2>1 DEF TrajInv
  <2> QED
    BY <2>1, <2>2 DEF Keeps, verdict
<1>16. CASE Close
  <2>1. UNCHANGED <<log, status, stored>> /\ pc = "closing" /\ pc' = "done"
    BY <1>16 DEF Close
  <2>2. TrajInv'
    BY <2>1 DEF TrajInv
  <2>3. stored # "open" /\ Abs!Agrees(stored, log)
    BY DEF TypeOK, Status, InFlightStatuses, TerminalStatuses, TrajInv
  <2> QED
    BY <2>1, <2>2, <2>3 DEF Keeps, verdict, Abs!Close
<1>17. CASE UNCHANGED vars
  <2>1. UNCHANGED <<pc, log, over, status, stored, steps, slot>>
    BY <1>17 DEF vars
  <2>2. TrajInv'
    BY <2>1 DEF TrajInv, Placed
  <2> QED
    BY <2>1, <2>2, SilentKeeps
<1> QED
  BY <1>1, <1>2, <1>3, <1>4, <1>5, <1>6, <1>7, <1>8, <1>9, <1>10, <1>11, <1>12, <1>13,
     <1>14, <1>15, <1>16, <1>17 DEF Next

\* What an episode records, in whatever order its calls end and whatever raises,
\* is a trajectory its readers can rely on.
THEOREM TrajectoryImplemented == Spec => ImplementsTrajectory
<1>1. Init => TrajInv /\ Abs!Init
  <2> SUFFICES ASSUME Init PROVE TrajInv /\ Abs!Init
    OBVIOUS
  <2>1. /\ pc = "opening" /\ log = <<>> /\ over = FALSE
        /\ status = "QUEUED" /\ stored = "QUEUED"
    BY DEF Init
  <2>2. Abs!Kinds(log) = {}
    BY <2>1 DEF Abs!Kinds
  <2> QED
    BY <2>1, <2>2, OtherStatus DEF TrajInv, Early, Acting, Over, Abs!Init
<1>2. TypeOK /\ TrajInv /\ [Next]_vars => TrajInv' /\ [Abs!Record \/ Abs!Close]_<<log, verdict>>
  BY TrajStep DEF Keeps
<1> QED
  BY <1>1, <1>2, TypeCorrect, PTL DEF Spec, ImplementsTrajectory, Abs!Spec, verdict

-----------------------------------------------------------------------------
(* A run is bounded *)

In(states) == {s \in Slots : slot[s] \in states}

\* How far the episode is from its end, outside the agent loop.
Phase ==
  CASE pc = "opening"  -> 11
    [] pc = "setup"    -> 10
    [] pc = "reset"    -> 9
    [] pc = "calls"    -> 8
    [] pc = "step"     -> 7
    [] pc = "join"     -> 6
    [] pc = "left"     -> 5
    [] pc = "evaluate" -> 4
    [] pc = "finalize" -> 3
    [] pc = "finally"  -> 2
    [] pc = "closing"  -> 1
    [] OTHER           -> 0

\* What is left to do, the weightiest first: agent steps, phases, LLM calls of the
\* step, calls to dispatch, tools to return, returned calls to record, and the one
\* interrupt.
Rank ==
  <<MaxSteps - steps, Phase, MaxLLM - llm, Cardinality(In({"ready"})),
    Cardinality(In({"running", "adrift"})), Cardinality(In({"returned"})),
    IF interrupted THEN 0 ELSE 1>>

Ranks == [1 .. 7 -> Nat]
Smaller == {p \in Nat \X Nat : p[1] < p[2]}
Lower == LexProductOrdering(Smaller, Nat, 7)

\* No infinite descent: a run whose every step lowers its rank is finite.
LEMMA NoInfiniteRun == IsWellFoundedOn(Lower, Ranks)
<1>1. Smaller = OpToRel(<, Nat)
  BY DEF Smaller, OpToRel
<1>2. IsWellFoundedOn(Smaller, Nat)
  BY <1>1, NatLessThanWellFounded, Zenon
<1> QED
  BY <1>2, WFLexProductOrdering, Zenon DEF Lower, Ranks

CountInv ==
  /\ steps \in 0 .. MaxSteps /\ llm \in 0 .. MaxLLM
  /\ pc \in {"opening", "setup", "reset", "step", "calls"} => steps < MaxSteps

LEMMA CountInvStep == TypeOK /\ CountInv /\ [Next]_vars => CountInv'
<1> SUFFICES ASSUME TypeOK, CountInv, [Next]_vars PROVE CountInv'
  OBVIOUS
<1> USE ConstantsAreNaturals
<1> USE DEF CountInv, budget, loop
<1>0. steps \in Nat /\ llm \in Nat
  BY DEF TypeOK
<1>1. CASE OpenStatus \/ Setup \/ SetupFails \/ RecordReset
  BY <1>0, <1>1 DEF OpenStatus, Setup, SetupFails, RecordReset, RaiseOut
<1>2. CASE LLMCall
  BY <1>0, <1>2 DEF LLMCall, LeaveRun
<1>3. CASE StepRaises \/ StepReturns
  BY <1>0, <1>3 DEF StepRaises, StepReturns, StepEnds, LeaveRun, Exhausted
<1>4. ASSUME NEW s \in Slots, Dispatch(s) \/ ToolReturns(s) \/ ViewRaises(s) \/ RecordCall(s)
      PROVE  CountInv'
  <2>1. pc' = pc \/ (pc = "calls" /\ pc' = "left")
    BY <1>4, CallSettles DEF Dispatch, ToolReturns, ViewRaises, LeaveCall
  <2>2. UNCHANGED <<steps, llm>>
    BY <1>4 DEF Dispatch, ToolReturns, ViewRaises, RecordCall
  <2> QED BY <1>0, <2>1, <2>2
<1>5. CASE TurnEnds \/ Unwind \/ Join \/ JoinTimesOut \/ RunEnds
  BY <1>0, <1>5 DEF TurnEnds, Unwind, Join, JoinTimesOut, RunEnds
<1>6. CASE BudgetEnds \/ RunFails \/ Evaluate \/ ScoreUnusable \/ EvaluateFails
  BY <1>0, <1>6 DEF BudgetEnds, RunFails, Evaluate, ScoreUnusable, EvaluateFails, RaiseOut
<1>7. CASE Finalize \/ FinalizeFails \/ Finally \/ Close
  BY <1>0, <1>7 DEF Finalize, FinalizeFails, Finally, Close, RaiseOut
<1>8. CASE Interrupt \/ InterruptEnds
  BY <1>0, <1>8 DEF Interrupt, InterruptEnds
<1>9. CASE UNCHANGED vars
  BY <1>9 DEF vars
<1> QED
  BY <1>1, <1>2, <1>3, <1>4, <1>5, <1>6, <1>7, <1>8, <1>9 DEF Next

LEMMA SlotCounts ==
  ASSUME NEW states
  PROVE  IsFiniteSet(In(states)) /\ Cardinality(In(states)) \in Nat
<1>1. IsFiniteSet(Slots)
  BY ConstantsAreNaturals, FS_Interval DEF Slots
<1> QED
  BY <1>1, FS_Subset, FS_CardinalityType DEF In

\* A call that leaves some states for another lowers their count and no other.
LEMMA SlotMoves ==
  ASSUME TypeOK, NEW s \in Slots, NEW x, slot' = [slot EXCEPT ![s] = x], NEW states, x \notin states
  PROVE  /\ slot[s] \in states => Cardinality(In(states)') < Cardinality(In(states))
         /\ slot[s] \notin states => In(states)' = In(states)
<1>1. In(states)' = In(states) \ {s}
  BY DEF In, TypeOK
<1>2. CASE slot[s] \in states
  <2>1. s \in In(states)
    BY <1>2 DEF In
  <2>2. Cardinality(In(states) \ {s}) = Cardinality(In(states)) - 1
    BY <2>1, SlotCounts, FS_RemoveElement
  <2> QED
    BY <1>1, <1>2, <2>2, SlotCounts
<1>3. CASE slot[s] \notin states
  BY <1>1, <1>3 DEF In
<1> QED
  BY <1>2, <1>3

LEMMA RankType == TypeOK /\ CountInv => Rank \in Ranks
<1> SUFFICES ASSUME TypeOK, CountInv PROVE Rank \in Ranks
  OBVIOUS
<1>1. MaxSteps - steps \in Nat /\ MaxLLM - llm \in Nat
  BY ConstantsAreNaturals DEF CountInv
<1>2. Phase \in Nat
  BY DEF Phase
<1>3. (IF interrupted THEN 0 ELSE 1) \in Nat
  OBVIOUS
<1> QED
  BY <1>1, <1>2, <1>3, SlotCounts DEF Rank, Ranks

\* Lower, spelled out.
Descends ==
  \/ MaxSteps - steps' < MaxSteps - steps
  \/ /\ steps' = steps
     /\ \/ Phase' < Phase
        \/ /\ Phase' = Phase
           /\ \/ MaxLLM - llm' < MaxLLM - llm
              \/ /\ llm' = llm
                 /\ \/ Cardinality(In({"ready"})') < Cardinality(In({"ready"}))
                    \/ /\ In({"ready"})' = In({"ready"})
                       /\ \/ Cardinality(In({"running", "adrift"})') <
                               Cardinality(In({"running", "adrift"}))
                          \/ /\ In({"running", "adrift"})' = In({"running", "adrift"})
                             /\ \/ Cardinality(In({"returned"})') < Cardinality(In({"returned"}))
                                \/ /\ In({"returned"})' = In({"returned"})
                                   /\ ~ interrupted /\ interrupted'

LEMMA DescentLowers ==
  ASSUME Rank \in Ranks, Rank' \in Ranks, Descends
  PROVE  <<Rank', Rank>> \in Lower
<1>1. /\ \A i \in 1 .. 7 : Rank[i] \in Nat /\ Rank'[i] \in Nat
      /\ <<Rank', Rank>> \in Ranks \X Ranks
  BY DEF Ranks
<1>2. SUFFICES \E j \in 1 .. 7 : /\ \A i \in 1 .. (j - 1) : Rank'[i] = Rank[i]
                                 /\ Rank'[j] < Rank[j]
  <2>1. PICK j \in 1 .. 7 : /\ \A i \in 1 .. (j - 1) : Rank'[i] = Rank[i]
                            /\ Rank'[j] < Rank[j]
    BY <1>2
  <2>2. <<Rank'[j], Rank[j]>> \in Smaller
    BY <1>1, <2>1 DEF Smaller
  <2> QED
    BY <1>1, <2>1, <2>2, Zenon DEF Lower, LexProductOrdering, Ranks
<1>3. /\ Rank[1] = MaxSteps - steps /\ Rank'[1] = MaxSteps - steps'
      /\ Rank[2] = Phase /\ Rank'[2] = Phase'
      /\ Rank[3] = MaxLLM - llm /\ Rank'[3] = MaxLLM - llm'
      /\ Rank[4] = Cardinality(In({"ready"})) /\ Rank'[4] = Cardinality(In({"ready"})')
      /\ Rank[5] = Cardinality(In({"running", "adrift"}))
      /\ Rank'[5] = Cardinality(In({"running", "adrift"})')
      /\ Rank[6] = Cardinality(In({"returned"})) /\ Rank'[6] = Cardinality(In({"returned"})')
      /\ Rank[7] = (IF interrupted THEN 0 ELSE 1) /\ Rank'[7] = (IF interrupted' THEN 0 ELSE 1)
  BY DEF Rank
<1> HIDE DEF Rank
<1>4. \/ Rank'[1] < Rank[1]
      \/ /\ Rank'[1] = Rank[1]
         /\ \/ Rank'[2] < Rank[2]
            \/ /\ Rank'[2] = Rank[2]
               /\ \/ Rank'[3] < Rank[3]
                  \/ /\ Rank'[3] = Rank[3]
                     /\ \/ Rank'[4] < Rank[4]
                        \/ /\ Rank'[4] = Rank[4]
                           /\ \/ Rank'[5] < Rank[5]
                              \/ /\ Rank'[5] = Rank[5]
                                 /\ \/ Rank'[6] < Rank[6]
                                    \/ Rank'[6] = Rank[6] /\ Rank'[7] < Rank[7]
  BY <1>3 DEF Descends
<1> QED
  BY <1>4

LEMMA StepDescends ==
  ASSUME TypeOK, CountInv, CountInv', Next
  PROVE  Descends
<1> USE ConstantsAreNaturals
<1> USE DEF budget, loop, history, Phase
<1>0. /\ steps \in 0 .. MaxSteps /\ llm \in 0 .. MaxLLM /\ steps' \in 0 .. MaxSteps
      /\ pc \in PCs
  BY DEF CountInv, TypeOK
<1>1. CASE OpenStatus \/ Setup \/ SetupFails \/ RecordReset
  <2>1. Phase' < Phase
    <3>1. \/ pc = "opening" /\ pc' \in {"setup", "done"}
          \/ pc = "setup" /\ pc' \in {"reset", "finally"}
          \/ pc = "reset" /\ pc' \in {"step", "finally"}
      BY <1>1, Zenon DEF OpenStatus, Setup, SetupFails, RecordReset, RaiseOut
    <3> QED
      BY <3>1
  <2>2. steps' = steps
    BY <1>1 DEF OpenStatus, Setup, SetupFails, RecordReset
  <2> QED
    BY <2>1, <2>2 DEF Descends
<1>2. CASE LLMCall
  BY <1>0, <1>2 DEF Descends, LLMCall, LeaveRun
<1>3. CASE StepRaises
  BY <1>0, <1>3 DEF Descends, StepRaises, LeaveRun
<1>4. CASE StepReturns
  BY <1>0, <1>4 DEF Descends, StepReturns
<1>5. ASSUME NEW s \in Slots, Dispatch(s)
      PROVE  Descends
  <2>1. slot[s] = "ready" /\ UNCHANGED <<steps, llm>>
    BY <1>5 DEF Dispatch, Upcoming
  <2>2. Phase' < Phase \/ Phase' = Phase
    BY <1>5 DEF Dispatch, LeaveCall
  <2>3. PICK x \in {"running", "over"} : slot' = [slot EXCEPT ![s] = x]
    BY <1>5 DEF Dispatch, LeaveCall
  <2>4. Cardinality(In({"ready"})') < Cardinality(In({"ready"}))
    BY <2>1, <2>3, SlotMoves
  <2> HIDE DEF Phase
  <2> QED
    BY <2>1, <2>2, <2>4 DEF Descends
<1>6. ASSUME NEW s \in Slots, ToolReturns(s)
      PROVE  Descends
  <2>1. slot[s] \in {"running", "adrift"} /\ UNCHANGED <<pc, steps, llm>>
    BY <1>6 DEF ToolReturns
  <2>2. PICK x \in {"returned", "over"} : slot' = [slot EXCEPT ![s] = x]
    BY <1>6 DEF ToolReturns
  <2>3. /\ In({"ready"})' = In({"ready"})
        /\ Cardinality(In({"running", "adrift"})') < Cardinality(In({"running", "adrift"}))
    BY <2>1, <2>2, SlotMoves
  <2> QED
    BY <2>1, <2>3 DEF Descends
<1>7. ASSUME NEW s \in Slots, ViewRaises(s) \/ RecordCall(s)
      PROVE  Descends
  <2>1. pc = "calls" /\ slot[s] = "returned" /\ UNCHANGED <<steps, llm>>
    BY <1>7 DEF ViewRaises, RecordCall
  <2>2. Phase' < Phase \/ Phase' = Phase
    <3>1. pc' \in {pc, "left"}
      BY <1>7, CallSettles DEF ViewRaises, LeaveCall
    <3> QED
      BY <2>1, <3>1
  <2>3. PICK x \in {"recorded", "over"} : slot' = [slot EXCEPT ![s] = x]
    BY <1>7, CallSettles DEF ViewRaises, LeaveCall
  <2>4. /\ In({"ready"})' = In({"ready"})
        /\ In({"running", "adrift"})' = In({"running", "adrift"})
        /\ Cardinality(In({"returned"})') < Cardinality(In({"returned"}))
    BY <2>1, <2>3, SlotMoves
  <2> HIDE DEF Phase
  <2> QED
    BY <2>1, <2>2, <2>4 DEF Descends
<1>8. CASE TurnEnds \/ Unwind \/ Join \/ JoinTimesOut \/ RunEnds
  BY <1>0, <1>8 DEF Descends, TurnEnds, Unwind, Join, JoinTimesOut, RunEnds
<1>9. CASE BudgetEnds \/ RunFails \/ Evaluate \/ ScoreUnusable \/ EvaluateFails
  <2>1. Phase' < Phase
    <3>1. \/ pc = "left" /\ pc' \in {"evaluate", "finally"}
          \/ pc = "evaluate" /\ pc' \in {"finalize", "finally"}
      BY <1>9, Zenon DEF BudgetEnds, RunFails, Evaluate, ScoreUnusable, EvaluateFails, RaiseOut
    <3> QED
      BY <3>1
  <2>2. steps' = steps
    BY <1>9 DEF BudgetEnds, RunFails, Evaluate, ScoreUnusable, EvaluateFails
  <2> QED
    BY <2>1, <2>2 DEF Descends
<1>10. CASE Finalize \/ FinalizeFails \/ InterruptEnds \/ Finally \/ Close
  <2>1. Phase' < Phase
    BY <1>10 DEF Finalize, FinalizeFails, InterruptEnds, Finally, Close, RaiseOut
  <2>2. steps' = steps
    BY <1>10 DEF Finalize, FinalizeFails, InterruptEnds, Finally, Close
  <2> QED
    BY <2>1, <2>2 DEF Descends
<1>11. CASE Interrupt
  <2>1. CASE pc' = "finally" /\ pc \in {"reset", "step", "left", "evaluate", "finalize", "calls"}
    BY <1>0, <1>11, <2>1 DEF Descends, Interrupt
  <2>2. CASE ~ interrupted /\ interrupted' = TRUE /\ UNCHANGED <<pc, slot, steps, llm>>
    BY <2>2 DEF Descends, In
  <2> QED
    BY <1>11, <2>1, <2>2 DEF Interrupt
<1> QED
  BY <1>1, <1>2, <1>3, <1>4, <1>5, <1>6, <1>7, <1>8, <1>9, <1>10, <1>11 DEF Next

LEMMA CountInvariance == Spec => []CountInv
<1>1. Init => CountInv
  BY ConstantsAreNaturals DEF Init, CountInv
<1> QED
  BY <1>1, CountInvStep, TypeCorrect, PTL DEF Spec

\* A run that is over has closed the task it made.
ClosedInv ==
  /\ pc = "opening" => reached = "none"
  /\ pc = "done" /\ reached # "none" => closed

LEMMA ClosedInvStep == TypeOK /\ ClosedInv /\ [Next]_vars => ClosedInv'
<1> SUFFICES ASSUME TypeOK, ClosedInv, [Next]_vars PROVE ClosedInv'
  OBVIOUS
<1> USE DEF ClosedInv
<1>1. CASE OpenStatus
  BY <1>1, Zenon DEF OpenStatus
<1>2. CASE Close
  BY <1>2, Zenon DEF Close
<1>3. ASSUME NEW s \in Slots, Dispatch(s) \/ ToolReturns(s) \/ ViewRaises(s) \/ RecordCall(s)
      PROVE  ClosedInv'
  <2>1. pc' = pc \/ (pc = "calls" /\ pc' = "left")
    BY <1>3, CallSettles DEF Dispatch, ToolReturns, ViewRaises, LeaveCall
  <2>2. UNCHANGED <<reached, closed>>
    BY <1>3 DEF Dispatch, ToolReturns, ViewRaises, RecordCall
  <2> QED BY <2>1, <2>2
<1>4. CASE Setup \/ SetupFails \/ RecordReset \/ LLMCall \/ StepRaises \/ StepReturns
  <2>1. pc' \in {"reset", "finally", "step", "left", "calls"}
    BY <1>4 DEF Setup, SetupFails, RecordReset, LLMCall, StepRaises, StepReturns, StepEnds,
       RaiseOut, LeaveRun
  <2> QED
    BY <2>1
<1>5. CASE TurnEnds \/ Unwind \/ Join \/ JoinTimesOut \/ RunEnds \/ BudgetEnds \/ RunFails
  <2>1. pc' \in {"step", "join", "left", "evaluate", "finally"}
    BY <1>5 DEF TurnEnds, Unwind, Join, JoinTimesOut, RunEnds, BudgetEnds, RunFails, RaiseOut
  <2> QED
    BY <2>1
<1>6. CASE \/ Evaluate \/ ScoreUnusable \/ EvaluateFails \/ Finalize \/ FinalizeFails
           \/ InterruptEnds \/ Finally
  <2>1. pc' \in {"finalize", "finally", "closing"}
    BY <1>6 DEF Evaluate, ScoreUnusable, EvaluateFails, Finalize, FinalizeFails, InterruptEnds,
       Finally, RaiseOut
  <2> QED
    BY <2>1
<1>7. CASE Interrupt
  <2>1. pc' = "finally" \/ (pc' = "calls")
    BY <1>7 DEF Interrupt
  <2> QED
    BY <2>1
<1>8. CASE UNCHANGED vars
  BY <1>8 DEF vars, files
<1> QED
  BY <1>1, <1>2, <1>3, <1>4, <1>5, <1>6, <1>7, <1>8 DEF Next

\* Whatever the agent returns, the tools do and whichever write raises, every step
\* of a run uses something up, so that it cannot go on for ever; and where it is
\* done no task is left open.
THEOREM RunIsBounded ==
  Spec => /\ [][(<<Rank', Rank>> \in Lower)]_vars
          /\ [](pc = "done" /\ reached # "none" => closed)
<1>1. TypeOK /\ TypeOK' /\ CountInv /\ CountInv' /\ [Next]_vars =>
        [(<<Rank', Rank>> \in Lower)]_vars
  <2> SUFFICES ASSUME TypeOK, TypeOK', CountInv, CountInv', Next
               PROVE  <<Rank', Rank>> \in Lower
    OBVIOUS
  <2>1. Rank' \in Ranks
    <3>1. (TypeOK /\ CountInv => Rank \in Ranks)'
      BY RankType, PTL
    <3> QED
      BY <3>1 DEF Ranks
  <2> QED
    BY <2>1, RankType, StepDescends, DescentLowers
<1>2. Init => ClosedInv
  BY DEF Init, ClosedInv
<1>3. ClosedInv => (pc = "done" /\ reached # "none" => closed)
  BY DEF ClosedInv
<1> QED
  BY <1>1, <1>2, <1>3, ClosedInvStep, CountInvariance, TypeCorrect, PTL DEF Spec
=============================================================================
