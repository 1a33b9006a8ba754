-------------------------- MODULE MultiAgent_proofs --------------------------
(***************************************************************************)
(* Proofs about MultiAgent, for any number of seats and any budget.        *)
(***************************************************************************)
EXTENDS MultiAgent, WellFoundedInduction, TLAPS

-----------------------------------------------------------------------------
(* The order of the seats *)

\* A set of numbers that is not empty has a least one.
LEMMA Least ==
  ASSUME NEW S \in SUBSET Nat, S # {}
  PROVE  \E j \in S : \A k \in S : j <= k
<1>1. \E x \in S : \A y \in S : ~(<<y, x>> \in OpToRel(<, Nat))
  BY NatLessThanWellFounded, WFMin
<1>2. PICK x \in S : \A y \in S : ~(<<y, x>> \in OpToRel(<, Nat))
  BY <1>1
<1>3. \A y \in S : ~(y < x)
  BY <1>2 DEF OpToRel
<1> QED
  BY <1>3

\* The for loop skips nobody: between a seat and the one that acts after it no
\* seat is active.
LEMMA NextSeat ==
  ASSUME NEW i \in 0 .. N, NEW on \in [Seats -> BOOLEAN]
  PROVE  \/ After(i, on) = 0 /\ \A j \in Seats : j > i => ~on[j]
         \/ /\ After(i, on) \in Seats /\ After(i, on) > i /\ on[After(i, on)]
            /\ \A j \in Seats : j > i /\ j < After(i, on) => ~on[j]
<1>0. N \in Nat
  BY ArenaAssumption
<1>1. CASE Later(i, on) = {}
  BY <1>1 DEF After, Later
<1>2. CASE Later(i, on) # {}
  <2>1. Later(i, on) \in SUBSET Nat
    BY <1>0 DEF Later, Seats
  <2>2. \E j \in Later(i, on) : \A k \in Later(i, on) : j <= k
    BY <1>2, <2>1, Least
  <2>3. After(i, on) = CHOOSE j \in Later(i, on) : \A k \in Later(i, on) : j <= k
    BY <1>2 DEF After
  <2>4. After(i, on) \in Later(i, on) /\ \A k \in Later(i, on) : After(i, on) <= k
    BY <2>2, <2>3
  <2>5. \A k \in Seats : k > i /\ on[k] => After(i, on) <= k
    BY <2>4 DEF Later
  <2> QED
    BY <1>0, <2>4, <2>5 DEF Later, Seats
<1> QED
  BY <1>1, <1>2

-----------------------------------------------------------------------------
(* Types *)

\* Whose turn it is, when it is somebody's, and that an action is left to dispatch.
TurnOK ==
  /\ pc \in {"step", "act"} => turn \in Seats /\ active[turn]
  /\ pc = "act" => acts # 0

LEMMA ProceedTypes ==
  ASSUME TypeOK, NEW on \in [Seats -> BOOLEAN], Proceed(turn, on)
  PROVE  /\ pc' \in PCs /\ turn' \in 0 .. N /\ acts' \in 0 .. MaxActs
         /\ active' \in [Seats -> BOOLEAN] /\ TurnOK'
<1>1. N \in Nat /\ MaxActs \in Nat
  BY ArenaAssumption
<1>2. turn \in 0 .. N
  BY DEF TypeOK
<1>3. After(turn, on) = 0 \/ (After(turn, on) \in Seats /\ on[After(turn, on)])
  BY <1>2, NextSeat
<1>4. 0 \notin Seats
  BY <1>1 DEF Seats
<1> QED
  BY <1>1, <1>3, <1>4 DEF Proceed, TurnOK, PCs, Seats

\* Counting for one seat.
LEMMA CountOne ==
  ASSUME NEW f \in [Seats -> Nat], NEW i \in Seats
  PROVE  [f EXCEPT ![i] = @ + 1] \in [Seats -> Nat]
OBVIOUS

LEMMA NextTypes ==
  ASSUME TypeOK, TurnOK, [Next]_vars
  PROVE  TypeOK' /\ TurnOK'
<1>0. N \in Nat /\ MaxActs \in Nat /\ MaxRounds \in Nat
  BY ArenaAssumption
<1>1. CASE UNCHANGED vars
  BY <1>1 DEF TypeOK, TurnOK, vars, budget, history
<1>2. CASE Setup \/ Raises \/ Evaluate \/ Close
  BY <1>2 DEF TypeOK, TurnOK, Setup, Raises, Evaluate, Close, PCs, budget, history
<1>3. CASE LoopEnds \/ Return
  BY <1>3 DEF TypeOK, TurnOK, LoopEnds, Return, RetiredIfExhausted, Exhausted, PCs, budget, history
<1>4. CASE Round
  <2>1. After(0, active) \in Seats /\ active[After(0, active)]
    <3>1. active \in [Seats -> BOOLEAN] /\ 0 \in 0 .. N
      BY <1>0 DEF TypeOK
    <3>2. \E j \in Seats : j > 0 /\ active[j]
      BY <1>0, <1>4 DEF Round, Active, Seats
    <3> QED
      BY <3>1, <3>2, NextSeat
  <2> QED
    BY <1>0, <1>4, <2>1 DEF TypeOK, TurnOK, Round, PCs, Seats, budget, history
<1>5. ASSUME Retire(turn) \/ Proceed(turn, active), turn \in Seats
      PROVE  /\ pc' \in PCs /\ turn' \in 0 .. N /\ acts' \in 0 .. MaxActs
             /\ active' \in [Seats -> BOOLEAN] /\ TurnOK'
  <2>1. [active EXCEPT ![turn] = FALSE] \in [Seats -> BOOLEAN] /\ active \in [Seats -> BOOLEAN]
    BY DEF TypeOK
  <2> QED
    BY <1>5, <2>1, ProceedTypes DEF Retire
<1>6. ASSUME Retire(turn), turn \in Seats PROVE stopped' \in SUBSET Seats
  BY <1>6 DEF Retire, TypeOK
<1>7. ASSUME JointStop
      PROVE  /\ pc' \in PCs /\ turn' \in 0 .. N /\ acts' \in 0 .. MaxActs
             /\ active' \in [Seats -> BOOLEAN] /\ TurnOK' /\ exhausted' = TRUE
  BY <1>0, <1>7 DEF JointStop, PCs, TurnOK
<1>8. CASE Step
  <2>1. turn \in Seats
    BY <1>8 DEF Step, TurnOK
  <2>t. turns \in [Seats -> Nat] /\ turns' = [turns EXCEPT ![turn] = @ + 1]
    BY <1>8 DEF Step, TypeOK
  <2>2. turns' \in [Seats -> Nat] /\ UNCHANGED <<rounds, tools, late, finished, closed, afters>>
    BY <1>8, <2>1, <2>t, CountOne DEF Step
  <2>s. PICK called, failed \in BOOLEAN, n \in 0 .. MaxActs :
          /\ steps' = IF called /\ Exhausted(steps, tools) THEN steps ELSE steps + 1
          /\ IF (called /\ Exhausted(steps, tools)) \/ Exhausted(steps + 1, tools)
             THEN JointStop /\ UNCHANGED stopped
             ELSE /\ UNCHANGED exhausted
                  /\ IF failed \/ n = 0
                     THEN Retire(turn)
                     ELSE pc' = "act" /\ acts' = n /\ UNCHANGED <<active, turn, stopped>>
    BY <1>8 DEF Step
  <2>n. steps \in Nat /\ steps + 1 \in Nat
    BY DEF TypeOK
  <2>3. steps' \in Nat
    BY <2>s, <2>n
  <2>4. \/ JointStop /\ UNCHANGED stopped
        \/ Retire(turn) /\ UNCHANGED exhausted
        \/ /\ pc' = "act" /\ acts' \in 0 .. MaxActs /\ acts' # 0
           /\ UNCHANGED <<active, turn, stopped, exhausted>>
    BY <2>s
  <2> QED
    BY <1>5, <1>6, <1>7, <2>1, <2>2, <2>3, <2>4, <1>8 DEF TypeOK, TurnOK, PCs, Step
<1>9. CASE Refused
  BY <1>7, <1>9 DEF TypeOK, Refused, budget, history
<1>10. CASE Stop
  BY <1>5, <1>6, <1>10 DEF TypeOK, TurnOK, Stop, budget
<1>11. CASE Act
  <2>1. turn \in Seats
    BY <1>11 DEF Act, TurnOK
  <2>a. /\ afters \in [Seats -> Nat]
        /\ afters' = afters \/ afters' = [afters EXCEPT ![turn] = @ + 1]
    BY <1>11 DEF Act, TypeOK
  <2>b. afters' \in [Seats -> Nat]
    BY <2>1, <2>a, CountOne
  <2>c. tools + 1 \in Nat /\ tools' = tools + 1
    BY <1>11 DEF Act, TypeOK
  <2>2. tools' \in Nat /\ finished' \in BOOLEAN
    BY <1>11, <2>c DEF Act
  <2>3. UNCHANGED <<rounds, steps, late, exhausted, closed, turns>>
    BY <1>11 DEF Act
  <2>4. \/ Retire(turn)
        \/ Proceed(turn, active) /\ UNCHANGED stopped
        \/ /\ acts' \in 0 .. MaxActs /\ acts' # 0
           /\ UNCHANGED <<pc, active, turn, stopped>>
    <3>1. acts # 1 => acts - 1 \in 0 .. MaxActs /\ acts - 1 # 0
      BY <1>0, <1>11 DEF Act, TurnOK, TypeOK
    <3> QED
      BY <1>11, <3>1 DEF Act
  <2> QED
    BY <1>0, <1>5, <1>6, <2>1, <2>b, <2>2, <2>3, <2>4 DEF TypeOK, TurnOK
<1>12. CASE Late
  BY <1>12 DEF TypeOK, TurnOK, Late, history
<1> QED
  BY <1>1, <1>2, <1>3, <1>4, <1>8, <1>9, <1>10, <1>11, <1>12 DEF Next, Run

TypeInv == TypeOK /\ TurnOK

\* Every variable keeps its type.
THEOREM TypeCorrect == Spec => []TypeInv
<1>1. Init => TypeInv
  <2>1. N \in Nat /\ MaxActs \in Nat /\ MaxRounds \in Nat
    BY ArenaAssumption
  <2>2. ASSUME Init PROVE TypeOK
    <3>1. /\ active \in [Seats -> BOOLEAN] /\ turns \in [Seats -> Nat]
          /\ afters \in [Seats -> Nat] /\ stopped \in SUBSET Seats
      BY <2>2 DEF Init
    <3>2. rounds \in 0 .. MaxRounds /\ turn \in 0 .. N /\ acts \in 0 .. MaxActs
      BY <2>1, <2>2 DEF Init
    <3> QED
      BY <2>2, <3>1, <3>2 DEF Init, TypeOK, PCs
  <2>3. Init => TurnOK
    BY DEF Init, TurnOK
  <2> QED
    BY <2>2, <2>3 DEF TypeInv
<1>2. TypeInv /\ [Next]_vars => TypeInv'
  BY NextTypes DEF TypeInv
<1> QED
  BY <1>1, <1>2, PTL DEF Spec

-----------------------------------------------------------------------------
(* Steps *)

\* Counting never gives a spent budget back.
LEMMA StaysExhausted ==
  ASSUME NEW a \in Nat, NEW b \in Nat, NEW c \in Nat, NEW d \in Nat,
         a <= c, b <= d, Exhausted(a, b)
  PROVE  Exhausted(c, d)
BY ArenaAssumption DEF Exhausted

\* The three ways an agent step goes on.
LEMMA StepCases ==
  ASSUME TypeInv, Step
  PROVE  /\ pc = "step" /\ turn \in Seats /\ active[turn]
         /\ turns' = [turns EXCEPT ![turn] = @ + 1]
         /\ UNCHANGED <<rounds, tools, late, finished, closed, afters>>
         /\ \E st \in {steps, steps + 1} :
              /\ steps' = st
              /\ \/ JointStop /\ Exhausted(st, tools) /\ UNCHANGED stopped
                 \/ /\ ~Exhausted(st, tools)
                    /\ \/ Retire(turn) /\ UNCHANGED exhausted
                       \/ pc' = "act" /\ UNCHANGED <<active, turn, stopped, exhausted>>
<1>1. PICK called, failed \in BOOLEAN, n \in 0 .. MaxActs :
          /\ steps' = IF called /\ Exhausted(steps, tools) THEN steps ELSE steps + 1
          /\ IF (called /\ Exhausted(steps, tools)) \/ Exhausted(steps + 1, tools)
             THEN JointStop /\ UNCHANGED stopped
             ELSE /\ UNCHANGED exhausted
                  /\ IF failed \/ n = 0
                     THEN Retire(turn)
                     ELSE pc' = "act" /\ acts' = n /\ UNCHANGED <<active, turn, stopped>>
  BY DEF Step
<1>2. pc = "step" /\ turn \in Seats /\ active[turn]
  BY DEF Step, TypeInv, TurnOK
<1>3. CASE called /\ Exhausted(steps, tools)
  BY <1>1, <1>2, <1>3 DEF Step
<1>4. CASE ~(called /\ Exhausted(steps, tools))
  <2>1. steps' = steps + 1
    BY <1>1, <1>4
  <2>2. \/ JointStop /\ Exhausted(steps + 1, tools) /\ UNCHANGED stopped
        \/ /\ ~Exhausted(steps + 1, tools)
           /\ \/ Retire(turn) /\ UNCHANGED exhausted
              \/ pc' = "act" /\ UNCHANGED <<active, turn, stopped, exhausted>>
    BY <1>1, <1>4
  <2> QED
    BY <1>2, <2>1, <2>2 DEF Step
<1> QED
  BY <1>3, <1>4

\* The three ways an action goes on.
LEMMA ActCases ==
  ASSUME TypeInv, Act
  PROVE  /\ pc = "act" /\ turn \in Seats /\ active[turn] /\ ~Exhausted(steps, tools)
         /\ tools' = tools + 1
         /\ UNCHANGED <<rounds, steps, late, exhausted, closed, turns>>
         /\ afters' = IF finished THEN [afters EXCEPT ![turn] = @ + 1] ELSE afters
         /\ (finished => Retire(turn))
         /\ \/ Retire(turn)
            \/ Proceed(turn, active) /\ UNCHANGED stopped
            \/ UNCHANGED <<pc, active, turn, stopped>>
<1>1. pc = "act" /\ turn \in Seats /\ active[turn]
  BY DEF Act, TypeInv, TurnOK
<1>2. PICK over \in BOOLEAN :
       /\ (finished => over) /\ finished' = over
       /\ IF over THEN Retire(turn)
          ELSE /\ UNCHANGED stopped
               /\ IF acts = 1 THEN Proceed(turn, active)
                  ELSE acts' = acts - 1 /\ UNCHANGED <<pc, active, turn>>
  BY DEF Act
<1>3. /\ (finished => Retire(turn))
      /\ \/ Retire(turn)
         \/ Proceed(turn, active) /\ UNCHANGED stopped
         \/ UNCHANGED <<pc, active, turn, stopped>>
  BY <1>2
<1> QED
  BY <1>1, <1>3 DEF Act

\* Every step that is neither an agent step nor an action leaves the counts alone.
Quiet == Setup \/ Raises \/ Round \/ LoopEnds \/ Return \/ Refused \/ Stop \/ Evaluate
         \/ Close \/ Late \/ UNCHANGED vars

LEMMA StepKinds ==
  ASSUME [Next]_vars
  PROVE  /\ Step \/ Act \/ Quiet
         /\ Quiet => UNCHANGED <<steps, tools, turns, afters>>
<1>1. Step \/ Act \/ Quiet
  BY DEF Next, Run, Quiet
<1>2. Quiet => UNCHANGED <<steps, tools, turns, afters>>
  BY DEF Quiet, Setup, Raises, Round, LoopEnds, Return, Refused, Stop, Evaluate, Close, Late,
         vars, budget, history
<1> QED
  BY <1>1, <1>2

-----------------------------------------------------------------------------
(* The joint budget *)

BudgetOK == JointBudget /\ (pc \in {"step", "act"} => steps < MaxSteps)

\* However many seats share it, the budget is what one agent would be given.
THEOREM Joint == Spec => []JointBudget
<1>0. MaxSteps \in Nat \ {0} /\ MaxTools \in Nat \ {0}
  BY ArenaAssumption
<1>1. Init => BudgetOK
  BY <1>0 DEF Init, BudgetOK, JointBudget
<1>2. TypeInv /\ BudgetOK /\ [Next]_vars => BudgetOK'
  <2> SUFFICES ASSUME TypeInv, BudgetOK, [Next]_vars PROVE BudgetOK'
    OBVIOUS
  <2>t. steps \in Nat /\ tools \in Nat
    BY DEF TypeInv, TypeOK
  <2>1. CASE Step
    <3>1. PICK st \in {steps, steps + 1} :
            /\ steps' = st
            /\ \/ JointStop /\ Exhausted(st, tools) /\ UNCHANGED stopped
               \/ ~Exhausted(st, tools)
      BY <2>1, StepCases
    <3>2. tools' = tools /\ pc = "step"
      BY <2>1, StepCases
    <3>3. st \in Nat /\ st <= MaxSteps
      BY <1>0, <2>t, <3>2 DEF BudgetOK
    <3>4. CASE JointStop
      BY <3>1, <3>2, <3>3, <3>4 DEF JointStop, BudgetOK, JointBudget
    <3>5. CASE ~Exhausted(st, tools)
      <4>1. st < MaxSteps
        BY <1>0, <3>3, <3>5 DEF Exhausted
      <4> QED
        BY <3>1, <3>2, <3>3, <4>1 DEF BudgetOK, JointBudget
    <3> QED
      BY <3>1, <3>4, <3>5
  <2>2. CASE Act
    <3>1. tools + 1 <= MaxTools
      BY <1>0, <2>2, <2>t DEF Act, Exhausted
    <3>2. tools' = tools + 1 /\ steps' = steps /\ pc = "act"
      BY <2>2, ActCases
    <3> QED
      BY <3>1, <3>2 DEF BudgetOK, JointBudget
  <2>3. CASE Round
    <3>1. steps < MaxSteps /\ UNCHANGED <<steps, tools>>
      BY <1>0, <2>3, <2>t DEF Round, Exhausted, budget
    <3> QED
      BY <3>1 DEF BudgetOK, JointBudget
  <2>4. CASE Quiet /\ ~Round
    <3>1. UNCHANGED <<steps, tools>>
      BY <2>4, StepKinds
    <3>2. pc' \in {"step", "act"} => pc \in {"step", "act"}
      BY <2>4 DEF Quiet, Setup, Raises, LoopEnds, Return, Refused, JointStop, Stop, Evaluate,
         Close, Late, vars
    <3> QED
      BY <3>1, <3>2 DEF BudgetOK, JointBudget
  <2> QED
    BY <2>1, <2>2, <2>3, <2>4, StepKinds
<1>3. BudgetOK => JointBudget
  BY DEF BudgetOK
<1> QED
  BY <1>1, <1>2, <1>3, TypeCorrect, PTL DEF Spec

-----------------------------------------------------------------------------
(* Retirement *)

\* A budget that is used up stays so.
LEMMA BudgetSpent ==
  ASSUME TypeInv, [Next]_vars, Exhausted(steps, tools)
  PROVE  Exhausted(steps, tools)'
<1>t. steps \in Nat /\ tools \in Nat
  BY DEF TypeInv, TypeOK
<1>1. CASE Step
  <2>1. tools' = tools /\ late' = late /\ \E st \in {steps, steps + 1} : steps' = st
    BY <1>1, StepCases
  <2>2. PICK st \in {steps, steps + 1} : steps' = st
    BY <2>1
  <2>3. Exhausted(st, tools)
    BY <1>t, StaysExhausted
  <2> QED
    BY <2>1, <2>2, <2>3 DEF Exhausted
<1>2. CASE ~Step /\ ~Act /\ ~Late
  <2>1. UNCHANGED <<steps, tools, late>>
    BY <1>2 DEF Next, Run, Setup, Raises, Round, LoopEnds, Return, Refused, Stop, Evaluate, Close,
         vars, budget, history
  <2> QED
    BY <2>1 DEF Exhausted
<1>3. CASE Act
  BY <1>3 DEF Act
<1>4. CASE Late
  BY <1>4 DEF Late, Exhausted
<1> QED
  BY <1>1, <1>2, <1>3, <1>4

\* What retiring the seat whose turn it is does, and what a stop of all does.
LEMMA OneRetires ==
  ASSUME TypeInv, turn \in Seats, Retire(turn)
  PROVE  stopped' = stopped \cup {turn} /\ active' = [active EXCEPT ![turn] = FALSE]
BY DEF Retire, Proceed

\* A seat retires for its own reason, or because the joint budget is used up.
THEOREM ForCause == Spec => []RetiredForCause
<1>1. Init => RetiredForCause
  BY DEF Init, RetiredForCause
<1>2. TypeInv /\ RetiredForCause /\ [Next]_vars => RetiredForCause'
  <2> SUFFICES ASSUME TypeInv, RetiredForCause, [Next]_vars PROVE RetiredForCause'
    OBVIOUS
  <2>t. active \in [Seats -> BOOLEAN] /\ stopped \in SUBSET Seats /\ steps \in Nat /\ tools \in Nat
    BY DEF TypeInv, TypeOK
  <2>a. ASSUME Exhausted(steps, tools)' PROVE RetiredForCause'
    BY <2>a DEF RetiredForCause
  <2>b. ASSUME Retire(turn), turn \in Seats PROVE RetiredForCause'
    BY <2>b, <2>t, OneRetires, BudgetSpent DEF RetiredForCause
  <2>c. ASSUME UNCHANGED <<active, stopped>> PROVE RetiredForCause'
    BY <2>c, BudgetSpent DEF RetiredForCause
  <2>1. CASE Step
    <3>1. PICK st \in {steps, steps + 1} :
            /\ steps' = st
            /\ \/ Exhausted(st, tools)
               \/ Retire(turn)
               \/ UNCHANGED <<active, stopped>>
      BY <2>1, StepCases
    <3>2. turn \in Seats /\ UNCHANGED <<tools, late>>
      BY <2>1, StepCases
    <3>3. Exhausted(st, tools) => Exhausted(steps, tools)'
      BY <3>1, <3>2 DEF Exhausted
    <3> QED
      BY <2>a, <2>b, <2>c, <3>1, <3>2, <3>3
  <2>2. CASE Act
    <3>1. /\ turn \in Seats
          /\ \/ Retire(turn)
             \/ Proceed(turn, active) /\ UNCHANGED stopped
             \/ UNCHANGED <<pc, active, turn, stopped>>
      BY <2>2, ActCases
    <3> QED
      BY <2>b, <2>c, <3>1 DEF Proceed
  <2>3. CASE Stop
    BY <2>3, <2>b DEF Stop, TypeInv, TurnOK
  <2>4. CASE Refused
    BY <2>4, <2>a, BudgetSpent DEF Refused
  <2>5. CASE LoopEnds
    <3>1. Exhausted(steps, tools) \/ active' = active
      BY <2>5 DEF LoopEnds, RetiredIfExhausted
    <3> QED
      BY <2>5, <2>a, <2>c, <3>1, BudgetSpent DEF LoopEnds, history
  <2>6. CASE Quiet /\ ~Stop /\ ~Refused /\ ~LoopEnds
    BY <2>6, <2>c DEF Quiet, Setup, Raises, Round, Return, Evaluate, Close, Late, vars, history
  <2> QED
    BY <2>1, <2>2, <2>3, <2>4, <2>5, <2>6, StepKinds DEF Quiet
<1> QED
  BY <1>1, <1>2, TypeCorrect, PTL DEF Spec

-----------------------------------------------------------------------------
(* Noticing the end of the task *)

\* A seat that has acted on a finished task is not active any more.
NoticedInv == FinishedIsNoticed /\ \A i \in Seats : active[i] => afters[i] = 0

LEMMA OnlyRetire ==
  ASSUME TypeInv, [Next]_vars
  PROVE  \A i \in Seats : active'[i] => active[i]
<1>t. active \in [Seats -> BOOLEAN]
  BY DEF TypeInv, TypeOK
<1>1. CASE Step
  BY <1>t, <1>1, StepCases, OneRetires DEF JointStop
<1>2. CASE Act
  BY <1>t, <1>2, ActCases, OneRetires DEF Proceed
<1>3. CASE Stop
  BY <1>t, <1>3, OneRetires DEF Stop, TypeInv, TurnOK
<1>4. CASE Quiet /\ ~Stop
  BY <1>t, <1>4 DEF Quiet, Setup, Raises, Round, Return, LoopEnds, RetiredIfExhausted, Refused,
     JointStop, Evaluate, Close, Late, vars, history
<1> QED
  BY <1>1, <1>2, <1>3, <1>4, StepKinds

\* However many actions an output holds, a seat acts at most once on a task that
\* is over.
THEOREM Noticed == Spec => []FinishedIsNoticed
<1>1. Init => NoticedInv
  BY DEF Init, NoticedInv, FinishedIsNoticed
<1>2. TypeInv /\ NoticedInv /\ [Next]_vars => NoticedInv'
  <2> SUFFICES ASSUME TypeInv, NoticedInv, [Next]_vars PROVE NoticedInv'
    OBVIOUS
  <2>t. active \in [Seats -> BOOLEAN] /\ afters \in [Seats -> Nat]
    BY DEF TypeInv, TypeOK
  <2>1. CASE UNCHANGED afters
    BY <2>1, OnlyRetire DEF NoticedInv, FinishedIsNoticed
  <2>2. CASE Act /\ finished
    <3>1. turn \in Seats /\ active[turn] /\ Retire(turn)
      BY <2>2, ActCases
    <3>2. afters' = [afters EXCEPT ![turn] = @ + 1]
      BY <2>2, ActCases
    <3>3. afters[turn] = 0
      BY <3>1 DEF NoticedInv
    <3>4. afters'[turn] = 1 /\ \A i \in Seats : i # turn => afters'[i] = afters[i]
      BY <2>t, <3>1, <3>2, <3>3
    <3>5. active' = [active EXCEPT ![turn] = FALSE]
      BY <3>1, OneRetires
    <3> QED
      BY <2>t, <3>4, <3>5 DEF NoticedInv, FinishedIsNoticed
  <2>3. Act /\ ~finished => UNCHANGED afters
    BY ActCases
  <2>4. Step => UNCHANGED afters
    BY StepCases
  <2> QED
    BY <2>1, <2>2, <2>3, <2>4, StepKinds
<1>3. NoticedInv => FinishedIsNoticed
  BY DEF NoticedInv
<1> QED
  BY <1>1, <1>2, <1>3, TypeCorrect, PTL DEF Spec

-----------------------------------------------------------------------------
(* What the scheduler returns *)

\* Between the loop and the last look at the budget nothing but the clock can use
\* it up.
ReturnInv ==
  /\ ReturnIsExplained
  /\ pc = "return" => /\ Active = {} \/ rounds = MaxRounds
                      /\ Exhausted(steps, tools) => Active = {} \/ late

LEMMA NobodyLeft ==
  ASSUME active' = [i \in Seats |-> FALSE]
  PROVE  Active' = {}
BY DEF Active

\* The scheduler returns for a reason, and calls a budget exhausted only when it
\* has retired every seat or the time ran out after its last round.
THEOREM ReturnExplained == Spec => []ReturnIsExplained
<1>1. Init => ReturnInv
  BY DEF Init, ReturnInv, ReturnIsExplained
<1>2. TypeInv /\ ReturnInv /\ [Next]_vars => ReturnInv'
  <2> SUFFICES ASSUME TypeInv, ReturnInv, [Next]_vars PROVE ReturnInv'
    OBVIOUS
  <2>a. ASSUME pc' \notin {"return", "evaluate"} PROVE ReturnInv'
    BY <2>a DEF ReturnInv, ReturnIsExplained
  <2>b. ASSUME JointStop PROVE ReturnInv'
    BY <2>b, NobodyLeft DEF JointStop, ReturnInv, ReturnIsExplained
  <2>c. ASSUME Proceed(turn, active) \/ Retire(turn) PROVE pc' \in {"loop", "step"}
    BY <2>c DEF Proceed, Retire
  <2>1. CASE Step
    <3>1. JointStop \/ Retire(turn) \/ pc' = "act"
      BY <2>1, StepCases
    <3> QED
      BY <2>a, <2>b, <2>c, <3>1
  <2>2. CASE Act
    <3>1. pc = "act" /\ (Retire(turn) \/ Proceed(turn, active) \/ pc' = pc)
      BY <2>2, ActCases
    <3> QED
      BY <2>a, <2>c, <3>1
  <2>3. CASE Refused \/ Stop
    BY <2>3, <2>a, <2>b, <2>c DEF Refused, Stop
  <2>4. CASE LoopEnds
    <3>1. /\ pc' = "return" /\ UNCHANGED <<rounds, steps, tools, late>>
          /\ Active = {} \/ Exhausted(steps, tools) \/ rounds = MaxRounds
          /\ active' = RetiredIfExhausted
      BY <2>4 DEF LoopEnds, budget
    <3>2. Exhausted(steps, tools)' <=> Exhausted(steps, tools)
      BY <3>1 DEF Exhausted
    <3>3. CASE Exhausted(steps, tools)
      <4>1. Active' = {}
        BY <3>1, <3>3, NobodyLeft DEF RetiredIfExhausted
      <4> QED
        BY <3>1, <4>1 DEF ReturnInv, ReturnIsExplained
    <3>4. CASE ~Exhausted(steps, tools)
      <4>1. Active' = Active
        BY <3>1, <3>4 DEF RetiredIfExhausted, Active
      <4> QED
        BY <3>1, <3>2, <3>4, <4>1 DEF ReturnInv, ReturnIsExplained
    <3> QED
      BY <3>3, <3>4
  <2>5. CASE Return
    <3>1. /\ pc = "return" /\ pc' = "evaluate" /\ UNCHANGED <<active, rounds, late>>
          /\ exhausted' = Exhausted(steps, tools)
      BY <2>5 DEF Return, budget
    <3>2. exhausted' => Exhausted(steps, tools)
      BY <3>1, Zenon
    <3>3. Active' = Active
      BY <3>1 DEF Active
    <3> QED
      BY <3>1, <3>2, <3>3 DEF ReturnInv, ReturnIsExplained
  <2>6. CASE Late
    <3>1. late' = TRUE /\ UNCHANGED <<pc, active, rounds, exhausted>>
      BY <2>6 DEF Late
    <3>2. Active' = Active
      BY <3>1 DEF Active
    <3> QED
      BY <3>1, <3>2 DEF ReturnInv, ReturnIsExplained
  <2>7. CASE Quiet /\ ~Refused /\ ~Stop /\ ~LoopEnds /\ ~Return /\ ~Late /\ pc' # pc
    BY <2>7, <2>a DEF Quiet, Setup, Raises, Round, Evaluate, Close, vars
  <2>8. CASE UNCHANGED vars
    <3>1. UNCHANGED <<pc, active, rounds, steps, tools, late, exhausted>>
      BY <2>8 DEF vars, budget
    <3> QED
      BY <3>1 DEF ReturnInv, ReturnIsExplained, Active, Exhausted
  <2>9. CASE Quiet /\ pc' = pc /\ ~Late /\ ~UNCHANGED vars
    BY <2>9, <2>a DEF Quiet, Setup, Raises, Round, LoopEnds, Return, Refused, JointStop, Stop,
       Retire, Proceed, Evaluate, Close
  <2> QED
    BY <2>1, <2>2, <2>3, <2>4, <2>5, <2>6, <2>7, <2>8, <2>9, StepKinds
<1>3. ReturnInv => ReturnIsExplained
  BY DEF ReturnInv
<1> QED
  BY <1>1, <1>2, <1>3, TypeCorrect, PTL DEF Spec

-----------------------------------------------------------------------------
(* Fairness of the turns *)

\* Who has had its turn in the round that is going on.
Had(i) == \/ pc = "step" /\ i < turn
          \/ pc = "act" /\ i <= turn
          \/ pc \in {"setup", "loop"}

\* An active seat has taken one step in every round before this one, and one in
\* this round when its turn has come.  Once the scheduler has returned, or has
\* raised, nobody takes a step.
InRounds ==
  pc \in {"setup", "loop", "step", "act"} =>
    \A i \in Seats : active[i] => turns[i] = IF Had(i) THEN rounds ELSE rounds - 1
FairInv == TurnsAreFair /\ InRounds

\* Within a round and between rounds the turns are fair.
LEMMA RoundsFair ==
  ASSUME TypeInv, InRounds, pc \in {"setup", "loop", "step", "act"}
  PROVE  TurnsAreFair
<1>1. SUFFICES ASSUME NEW i \in Active, NEW j \in Active, i < j
      PROVE turns[i] - turns[j] \in {0, 1}
  BY DEF TurnsAreFair
<1>2. i \in Seats /\ j \in Seats /\ active[i] /\ active[j]
  BY DEF Active
<1>3. /\ i \in Int /\ j \in Int /\ rounds \in Nat /\ turn \in Int
  BY <1>2, ArenaAssumption DEF Seats, TypeInv, TypeOK
<1>4. Had(j) => Had(i)
  BY <1>1, <1>3 DEF Had
<1>5. /\ turns[i] = IF Had(i) THEN rounds ELSE rounds - 1
      /\ turns[j] = IF Had(j) THEN rounds ELSE rounds - 1
  BY <1>2 DEF InRounds
<1> QED
  BY <1>3, <1>4, <1>5

LEMMA NextRoundsFair ==
  TypeInv' /\ InRounds' /\ (pc \in {"setup", "loop", "step", "act"})' => TurnsAreFair'
<1>1. TypeInv /\ InRounds /\ (pc \in {"setup", "loop", "step", "act"}) => TurnsAreFair
  BY RoundsFair
<1> QED
  BY <1>1, PTL

\* The next seat takes over: everyone up to the last one has had its turn.
LEMMA TakesOver ==
  ASSUME NEW i \in Seats, NEW on \in [Seats -> BOOLEAN], NEW t, NEW r \in Nat,
         \A j \in Seats : on[j] => t[j] = IF j <= i THEN r ELSE r - 1
  PROVE  \A j \in Seats : on[j] =>
           t[j] = IF After(i, on) = 0 \/ j < After(i, on) THEN r ELSE r - 1
<1>0. N \in Nat /\ i \in 0 .. N
  BY ArenaAssumption DEF Seats
<1>1. SUFFICES ASSUME NEW j \in Seats, on[j]
      PROVE  t[j] = IF After(i, on) = 0 \/ j < After(i, on) THEN r ELSE r - 1
  OBVIOUS
<1>2. j \in Nat \ {0} /\ i \in Nat
  BY <1>0 DEF Seats
<1>3. CASE After(i, on) = 0 /\ \A k \in Seats : k > i => ~on[k]
  <2>1. j <= i
    BY <1>1, <1>2, <1>3
  <2> QED
    BY <1>1, <1>3, <2>1
<1>4. CASE /\ After(i, on) \in Seats /\ After(i, on) > i
           /\ \A k \in Seats : k > i /\ k < After(i, on) => ~on[k]
  <2>1. After(i, on) \in Nat \ {0}
    BY <1>0, <1>4 DEF Seats
  <2>2. j <= i <=> j < After(i, on)
    BY <1>1, <1>2, <1>4, <2>1
  <2> QED
    BY <1>1, <2>1, <2>2
<1> QED
  BY <1>0, <1>3, <1>4, NextSeat

LEMMA ProceedRounds ==
  ASSUME TypeInv, TypeInv', turn \in Seats, NEW on \in [Seats -> BOOLEAN], Proceed(turn, on),
         rounds' = rounds,
         \A j \in Seats : on[j] => turns'[j] = IF j <= turn THEN rounds ELSE rounds - 1
  PROVE  InRounds'
<1>1. rounds \in Nat
  BY ArenaAssumption DEF TypeInv, TypeOK
<1>2. \A j \in Seats : on[j] =>
        turns'[j] = IF After(turn, on) = 0 \/ j < After(turn, on) THEN rounds ELSE rounds - 1
  BY <1>1, TakesOver
<1>3. /\ active' = on /\ turn' = After(turn, on)
      /\ pc' = IF After(turn, on) = 0 THEN "loop" ELSE "step"
  BY DEF Proceed
<1> QED
  BY <1>2, <1>3 DEF InRounds, Had

\* Leaving somebody out keeps the others' turns fair.
LEMMA FewerFair ==
  ASSUME TurnsAreFair, UNCHANGED turns, \A i \in Seats : active'[i] => active[i]
  PROVE  TurnsAreFair'
BY DEF TurnsAreFair, Active

\* No active seat is ever more than one step ahead of another, and only an earlier
\* seat is.
THEOREM Fair == Spec => []TurnsAreFair
<1>1. Init => FairInv
  <2> SUFFICES ASSUME Init PROVE FairInv
    OBVIOUS
  <2>1. \A i \in Seats : turns[i] = 0
    BY DEF Init
  <2>2. TurnsAreFair
    BY <2>1 DEF TurnsAreFair, Active
  <2>3. InRounds
    BY <2>1 DEF Init, InRounds, Had
  <2> QED
    BY <2>2, <2>3 DEF FairInv
<1>2. TypeInv /\ FairInv /\ [Next]_vars => FairInv'
  <2> SUFFICES ASSUME TypeInv, FairInv, [Next]_vars PROVE FairInv'
    OBVIOUS
  <2>t. TypeInv'
    BY NextTypes DEF TypeInv
  <2>n. /\ N \in Nat /\ rounds \in Nat /\ turns \in [Seats -> Nat]
        /\ active \in [Seats -> BOOLEAN] /\ turn \in Int
    BY ArenaAssumption DEF TypeInv, TypeOK
  <2>i. Seats \subseteq Int
    BY <2>n DEF Seats
  <2>a. ASSUME InRounds', pc' \in {"setup", "loop", "step", "act"} PROVE FairInv'
    BY <2>a, <2>t, NextRoundsFair DEF FairInv
  <2>b. ASSUME UNCHANGED turns, pc' \notin {"setup", "loop", "step", "act"} PROVE FairInv'
    BY <2>b, OnlyRetire, FewerFair DEF FairInv, InRounds
  <2>c. ASSUME JointStop PROVE FairInv'
    <3>1. Active' = {}
      BY <2>c, NobodyLeft DEF JointStop
    <3> QED
      BY <2>c, <3>1 DEF JointStop, FairInv, TurnsAreFair, InRounds
  <2>d. ASSUME turn \in Seats, rounds' = rounds, Retire(turn),
               \A j \in Seats : active[j] /\ j # turn =>
                 turns'[j] = IF j <= turn THEN rounds ELSE rounds - 1
        PROVE  FairInv'
    <3>1. [active EXCEPT ![turn] = FALSE] \in [Seats -> BOOLEAN]
      BY <2>n
    <3>2. Proceed(turn, [active EXCEPT ![turn] = FALSE])
      BY <2>d DEF Retire
    <3>3. \A j \in Seats : [active EXCEPT ![turn] = FALSE][j] => active[j] /\ j # turn
      BY <2>n, <2>d
    <3>4. InRounds'
      BY <2>d, <2>t, <3>1, <3>2, <3>3, ProceedRounds
    <3> QED
      BY <2>a, <3>2, <3>4 DEF Proceed
  <2>1. CASE Step
    <3>1. /\ pc = "step" /\ turn \in Seats /\ active[turn] /\ UNCHANGED rounds
          /\ turns' = [turns EXCEPT ![turn] = @ + 1]
          /\ JointStop \/ Retire(turn) \/ (pc' = "act" /\ UNCHANGED <<active, turn>>)
      BY <2>1, StepCases
    <3>2. turns[turn] = rounds - 1
      BY <2>n, <3>1 DEF FairInv, InRounds, Had
    <3>3. \A j \in Seats : turns'[j] = IF j = turn THEN rounds ELSE turns[j]
      BY <2>n, <3>1, <3>2
    <3>4. \A j \in Seats : active[j] => turns'[j] = IF j <= turn THEN rounds ELSE rounds - 1
      BY <2>n, <2>i, <3>1, <3>3 DEF FairInv, InRounds, Had
    <3>5. CASE pc' = "act" /\ UNCHANGED <<active, turn>>
      <4>1. InRounds'
        BY <3>1, <3>4, <3>5 DEF InRounds, Had
      <4> QED
        BY <2>a, <3>5, <4>1
    <3> QED
      BY <2>c, <2>d, <3>1, <3>4, <3>5
  <2>2. CASE Act \/ Stop
    <3>1. /\ pc = "act" /\ turn \in Seats /\ UNCHANGED <<rounds, turns>>
          /\ \/ Retire(turn) \/ Proceed(turn, active) \/ UNCHANGED <<pc, active, turn>>
      BY <2>2, ActCases DEF Stop, TypeInv, TurnOK
    <3>2. \A j \in Seats : active[j] => turns'[j] = IF j <= turn THEN rounds ELSE rounds - 1
      BY <3>1 DEF FairInv, InRounds, Had
    <3>3. CASE Proceed(turn, active)
      <4>1. InRounds'
        BY <2>n, <2>t, <3>1, <3>2, <3>3, ProceedRounds
      <4> QED
        BY <2>a, <3>3, <4>1 DEF Proceed
    <3>4. CASE UNCHANGED <<pc, active, turn>>
      <4>1. InRounds'
        BY <3>1, <3>4 DEF FairInv, InRounds, Had
      <4> QED
        BY <2>a, <3>1, <3>4, <4>1
    <3> QED
      BY <2>d, <3>1, <3>2, <3>3, <3>4
  <2>3. CASE Refused
    BY <2>3, <2>c DEF Refused
  <2>4. CASE Round
    <3>1. /\ pc = "loop" /\ pc' = "step" /\ rounds' = rounds + 1
          /\ turn' = After(0, active) /\ UNCHANGED <<active, turns>>
          /\ Active # {}
      BY <2>4 DEF Round, history
    <3>2. \E j \in Seats : j > 0 /\ active[j]
      BY <2>n, <3>1 DEF Active, Seats
    <3>3. /\ After(0, active) \in Seats
          /\ \A j \in Seats : j > 0 /\ j < After(0, active) => ~active[j]
      BY <2>n, <3>2, NextSeat
    <3>4. \A j \in Seats : active[j] => turns[j] = rounds
      BY <3>1 DEF FairInv, InRounds, Had
    <3>5. \A j \in Seats : j > 0
      BY <2>n DEF Seats
    <3>6. rounds = (rounds + 1) - 1
      BY <2>n
    <3>7. \A j \in Seats : active[j] =>
            turns[j] = IF j < After(0, active) THEN rounds + 1 ELSE (rounds + 1) - 1
      BY <3>3, <3>4, <3>5, <3>6
    <3>8. InRounds'
      BY <3>1, <3>7 DEF InRounds, Had
    <3> QED
      BY <2>a, <3>1, <3>8
  <2>5. CASE Setup /\ pc' = "loop"
    <3>1. InRounds'
      BY <2>5 DEF Setup, FairInv, InRounds, Had, history
    <3> QED
      BY <2>5, <2>a, <3>1
  <2>6. CASE Late \/ UNCHANGED vars
    <3>1. UNCHANGED <<pc, active, turn, rounds, turns>>
      BY <2>6 DEF Late, vars, history
    <3> QED
      BY <3>1 DEF FairInv, TurnsAreFair, InRounds, Active, Had
  <2>7. CASE LoopEnds \/ Return \/ Evaluate \/ Close \/ Raises \/ (Setup /\ pc' # "loop")
    BY <2>7, <2>b DEF LoopEnds, Return, Evaluate, Close, Raises, Setup, history
  <2> QED
    BY <2>1, <2>2, <2>3, <2>4, <2>5, <2>6, <2>7 DEF Next, Run
<1>3. FairInv => TurnsAreFair
  BY DEF FairInv
<1> QED
  BY <1>1, <1>2, <1>3, TypeCorrect, PTL DEF Spec

-----------------------------------------------------------------------------
(* The arena comes to an end *)

Stage ==
  CASE pc = "setup"                   -> 5
    [] pc \in {"loop", "step", "act"} -> 4
    [] pc = "return"                  -> 3
    [] pc = "evaluate"                -> 2
    [] pc = "close"                   -> 1
    [] OTHER                          -> 0

\* The seats whose turn of this round is not over.
SeatsLeft == IF pc \in {"step", "act"} THEN N + 1 - turn ELSE 0

\* What is left to do, the weightiest first: stages, rounds, turns of the round, the
\* step of the seat, its actions, and the one time the wallclock runs out.
Rank ==
  <<Stage, MaxRounds - rounds, SeatsLeft, IF pc = "step" THEN 1 ELSE 0, acts,
    IF late THEN 0 ELSE 1>>

Ranks == [1 .. 6 -> Nat]
Smaller == {p \in Nat \X Nat : p[1] < p[2]}
Lower == LexProductOrdering(Smaller, Nat, 6)

\* No infinite descent: an arena whose every step lowers its rank comes to an end.
LEMMA NoInfiniteRun == IsWellFoundedOn(Lower, Ranks)
<1>1. Smaller = OpToRel(<, Nat)
  BY DEF Smaller, OpToRel
<1>2. IsWellFoundedOn(Smaller, Nat)
  BY <1>1, NatLessThanWellFounded, Zenon
<1> QED
  BY <1>2, WFLexProductOrdering, Zenon DEF Lower, Ranks

LEMMA RankType == TypeInv => Rank \in Ranks
<1> SUFFICES ASSUME TypeInv PROVE Rank \in Ranks
  OBVIOUS
<1>1. N \in Nat /\ MaxRounds \in Nat /\ MaxActs \in Nat
  BY ArenaAssumption
<1>2. Stage \in Nat /\ MaxRounds - rounds \in Nat /\ acts \in Nat
  BY <1>1 DEF TypeInv, TypeOK, Stage
<1>3. SeatsLeft \in Nat
  BY <1>1 DEF TypeInv, TypeOK, SeatsLeft
<1>4. (IF pc = "step" THEN 1 ELSE 0) \in Nat /\ (IF late THEN 0 ELSE 1) \in Nat
  OBVIOUS
<1> QED
  BY <1>2, <1>3, <1>4 DEF Rank, Ranks

\* Lower, spelled out.
Descends ==
  \/ Stage' < Stage
  \/ /\ Stage' = Stage
     /\ \/ MaxRounds - rounds' < MaxRounds - rounds
        \/ /\ rounds' = rounds
           /\ \/ SeatsLeft' < SeatsLeft
              \/ /\ SeatsLeft' = SeatsLeft
                 /\ \/ pc = "step" /\ pc' # "step"
                    \/ /\ pc' = pc
                       /\ acts' < acts \/ (acts' = acts /\ ~ late /\ late')

LEMMA DescentLowers ==
  ASSUME Rank \in Ranks, Rank' \in Ranks, Descends
  PROVE  <<Rank', Rank>> \in Lower
<1>1. /\ \A i \in 1 .. 6 : Rank[i] \in Nat /\ Rank'[i] \in Nat
      /\ <<Rank', Rank>> \in Ranks \X Ranks
  BY DEF Ranks
<1>2. SUFFICES \E j \in 1 .. 6 : /\ \A i \in 1 .. (j - 1) : Rank'[i] = Rank[i]
                                 /\ Rank'[j] < Rank[j]
  <2>1. PICK j \in 1 .. 6 : /\ \A i \in 1 .. (j - 1) : Rank'[i] = Rank[i]
                            /\ Rank'[j] < Rank[j]
    BY <1>2
  <2>2. <<Rank'[j], Rank[j]>> \in Smaller
    BY <1>1, <2>1 DEF Smaller
  <2> QED
    BY <1>1, <2>1, <2>2, Zenon DEF Lower, LexProductOrdering, Ranks
<1>3. /\ Rank[1] = Stage /\ Rank'[1] = Stage'
      /\ Rank[2] = MaxRounds - rounds /\ Rank'[2] = MaxRounds - rounds'
      /\ Rank[3] = SeatsLeft /\ Rank'[3] = SeatsLeft'
      /\ Rank[4] = (IF pc = "step" THEN 1 ELSE 0) /\ Rank'[4] = (IF pc' = "step" THEN 1 ELSE 0)
      /\ Rank[5] = acts /\ Rank'[5] = acts'
      /\ Rank[6] = (IF late THEN 0 ELSE 1) /\ Rank'[6] = (IF late' THEN 0 ELSE 1)
  BY DEF Rank
<1> HIDE DEF Rank
<1>4. \/ Rank'[1] < Rank[1]
      \/ /\ Rank'[1] = Rank[1]
         /\ \/ Rank'[2] < Rank[2]
            \/ /\ Rank'[2] = Rank[2]
               /\ \/ Rank'[3] < Rank[3]
                  \/ /\ Rank'[3] = Rank[3]
                     /\ \/ Rank'[4] < Rank[4]
                        \/ /\ Rank'[4] = Rank[4]
                           /\ \/ Rank'[5] < Rank[5]
                              \/ Rank'[5] = Rank[5] /\ Rank'[6] < Rank[6]
  BY <1>3 DEF Descends
<1> QED
  BY <1>4

\* The for loop moves on to a later seat or leaves the round.
LEMMA ProceedDescends ==
  ASSUME TypeInv, pc \in {"step", "act"}, NEW on \in [Seats -> BOOLEAN], Proceed(turn, on),
         rounds' = rounds
  PROVE  Descends
<1>1. N \in Nat /\ turn \in 1 .. N
  BY ArenaAssumption DEF TypeInv, TurnOK, Seats
<1>2. \/ pc' = "loop"
      \/ pc' = "step" /\ turn' \in Seats /\ turn' > turn
  BY <1>1, NextSeat DEF Proceed, Seats
<1>3. Stage' = Stage
  BY <1>2 DEF Stage
<1>4. SeatsLeft' < SeatsLeft
  BY <1>1, <1>2 DEF SeatsLeft, Seats
<1> QED
  BY <1>3, <1>4 DEF Descends

LEMMA RetireDescends ==
  ASSUME TypeInv, pc \in {"step", "act"}, Retire(turn), rounds' = rounds
  PROVE  Descends
<1>1. [active EXCEPT ![turn] = FALSE] \in [Seats -> BOOLEAN]
  BY DEF TypeInv, TypeOK
<1> QED
  BY <1>1, ProceedDescends DEF Retire

LEMMA StepDescends ==
  ASSUME TypeInv, TypeInv', Next
  PROVE  Descends
<1>0. /\ rounds \in Nat /\ rounds' \in Nat /\ MaxRounds \in Nat
      /\ acts \in Nat
  BY ArenaAssumption DEF TypeInv, TypeOK
<1>1. CASE Setup \/ Raises \/ LoopEnds \/ Return \/ Evaluate \/ Close
  <2>1. Stage' < Stage
    BY <1>1 DEF Setup, Raises, LoopEnds, Return, Evaluate, Close, Stage
  <2> QED
    BY <2>1 DEF Descends
<1>2. CASE Round
  <2>1. pc = "loop" /\ pc' = "step" /\ rounds' = rounds + 1
    BY <1>2 DEF Round
  <2> QED
    BY <1>0, <2>1 DEF Descends, Stage
<1>3. CASE Step
  <2>1. pc = "step" /\ rounds' = rounds
    BY <1>3 DEF Step
  <2>2. CASE JointStop
    BY <2>1, <2>2 DEF JointStop, Descends, Stage
  <2>3. CASE Retire(turn)
    BY <2>1, <2>3, RetireDescends
  <2>4. CASE pc' = "act" /\ turn' = turn
    BY <2>1, <2>4 DEF Descends, Stage, SeatsLeft
  <2> QED
    BY <1>3, <2>2, <2>3, <2>4, StepCases
<1>4. CASE Refused
  BY <1>4 DEF Refused, JointStop, Descends, Stage
<1>5. CASE Stop
  BY <1>5, RetireDescends DEF Stop
<1>6. CASE Act
  <2>1. pc = "act" /\ rounds' = rounds /\ active \in [Seats -> BOOLEAN]
    BY <1>6 DEF Act, TypeInv, TypeOK
  <2>2. CASE Retire(turn)
    BY <2>1, <2>2, RetireDescends
  <2>3. CASE Proceed(turn, active)
    BY <2>1, <2>3, ProceedDescends
  <2>4. CASE acts' = acts - 1 /\ UNCHANGED <<pc, turn>>
    BY <1>0, <2>1, <2>4 DEF Descends, Stage, SeatsLeft
  <2> QED
    BY <1>6, <2>2, <2>3, <2>4 DEF Act
<1>7. CASE Late
  BY <1>7 DEF Late, Descends, Stage, SeatsLeft
<1> QED
  BY <1>1, <1>2, <1>3, <1>4, <1>5, <1>6, <1>7 DEF Next, Run

\* Whatever the seats return and the task says, every step of the arena uses
\* something up: it cannot go round for ever, even if no seat ever retires.
THEOREM ArenaIsBounded == Spec => [][(<<Rank', Rank>> \in Lower)]_vars
<1>1. TypeInv /\ TypeInv' /\ [Next]_vars => [(<<Rank', Rank>> \in Lower)]_vars
  <2> SUFFICES ASSUME TypeInv, TypeInv', Next
               PROVE  <<Rank', Rank>> \in Lower
    OBVIOUS
  <2>1. Rank' \in Ranks
    <3>1. (TypeInv => Rank \in Ranks)'
      BY RankType, PTL
    <3> QED
      BY <3>1 DEF Ranks
  <2> QED
    BY <2>1, RankType, StepDescends, DescentLowers
<1> QED
  BY <1>1, TypeCorrect, PTL DEF Spec
=============================================================================
