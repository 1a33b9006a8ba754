----------------------- MODULE RolloutService_proofs -----------------------
(***************************************************************************)
(* Proofs about RolloutService.  What a client sees is the events of a     *)
(* request; every property rests on who may append to them and on what     *)
(* the books (accepted, refs, todo, job) say about them.                   *)
(***************************************************************************)
EXTENDS RolloutService, TLAPS

\* The requests that ray.cancel was called for are part of Ray's state.
USE DEF kills

-----------------------------------------------------------------------------
(* Types *)

LEMMA PublishedTyped ==
  ASSUME NEW r \in Requests, NEW e \in Event, events \in [Requests -> Seq(Event)]
  PROVE  [events EXCEPT ![r] = Published(r, e)] \in [Requests -> Seq(Event)]
<1>1. events[r] \in Seq(Event) /\ Append(events[r], e) \in Seq(Event)
  OBVIOUS
<1> QED
  BY <1>1 DEF Published

LEMMA CallTyped ==
  ASSUME TypeOK, NEW r \in Requests, NEW e \in Event,
         Append1(r, e) \/ CallRaises(r, e)
  PROVE  events' \in [Requests -> Seq(Event)] /\ faults' \in 0 .. MaxFaults
<1>1. events \in [Requests -> Seq(Event)] /\ faults \in 0 .. MaxFaults
  BY DEF TypeOK
<1>2. [events EXCEPT ![r] = Published(r, e)] \in [Requests -> Seq(Event)]
  BY <1>1, PublishedTyped
<1>3. CASE Append1(r, e)
  BY <1>1, <1>2, <1>3 DEF Append1
<1>4. CASE CallRaises(r, e)
  <2>1. faults' \in 0 .. MaxFaults
    BY <1>1, <1>4, ServiceAssumption DEF CallRaises
  <2>2. events' = events \/ events' = [events EXCEPT ![r] = Published(r, e)]
    BY <1>4, Zenon DEF CallRaises
  <2> QED
    BY <1>1, <1>2, <2>1, <2>2
<1> QED
  BY <1>3, <1>4

\* What the job of an actor is: nothing, or a publish call for a request.
LEMMA JobShape ==
  ASSUME TypeOK, NEW a \in Actors, job[a].step # "none"
  PROVE  /\ job[a].req \in Requests /\ job[a].status \in TerminalStatus
         /\ job[a].step \in JobSteps
<1>1. job[a] \in Jobs
  BY DEF TypeOK
<1> QED
  BY <1>1 DEF Jobs, NoJob

LEMMA JobTyped ==
  ASSUME TypeOK, NEW a \in Actors
  PROVE  /\ Finish(a) => job' \in [Actors -> Jobs]
         /\ \A r \in Requests, s \in TerminalStatus :
              Start(a, r, s) => job' \in [Actors -> Jobs]
         /\ \A step \in JobSteps :
              job[a].step # "none" /\ Goto(a, step) => job' \in [Actors -> Jobs]
<1>1. job \in [Actors -> Jobs]
  BY DEF TypeOK
<1>2. Finish(a) => job' \in [Actors -> Jobs]
  BY <1>1 DEF Finish, Jobs
<1>3. ASSUME NEW r \in Requests, NEW s \in TerminalStatus, Start(a, r, s)
      PROVE  job' \in [Actors -> Jobs]
  <2>1. [step |-> "check", req |-> r, status |-> s] \in Jobs
    BY DEF Jobs, JobSteps
  <2> QED
    BY <1>1, <1>3, <2>1 DEF Start
<1>4. ASSUME NEW step \in JobSteps, job[a].step # "none", Goto(a, step)
      PROVE  job' \in [Actors -> Jobs]
  <2>1. job[a] \in [step : JobSteps, req : Requests, status : TerminalStatus]
    BY <1>1, <1>4 DEF Jobs, NoJob
  <2>2. [job[a] EXCEPT !.step = step] \in Jobs
    BY <2>1 DEF Jobs
  <2> QED
    BY <1>1, <1>4, <2>2 DEF Goto
<1> QED
  BY <1>2, <1>3, <1>4

LEMMA TypeInit == Init => TypeOK
  BY ServiceAssumption
  DEF Init, TypeOK, SubmitPC, Jobs, MonitorPC, TaskState

LEMMA TypeJob ==
  ASSUME TypeOK, NEW a \in Actors, JobStep(a)
  PROVE  TypeOK'
<1> USE DEF At
<1>1. job[a].step # "none"
  BY DEF JobStep, CheckTerminal, CheckRaises, PublishTerminal, PublishRaises, MarkTerminal
<1>2. /\ job[a].req \in Requests /\ job[a].status \in TerminalStatus
      /\ job[a].status \in Event
  BY <1>1, JobShape DEF Event
<1>3. {"mark", "publish", "raised", "done"} \subseteq JobSteps
  BY DEF JobSteps
<1>4. job' \in [Actors -> Jobs]
  BY <1>1, <1>3, JobTyped
  DEF JobStep, CheckTerminal, CheckRaises, PublishTerminal, PublishRaises, MarkTerminal
<1>5. CASE CheckTerminal(a)
  BY <1>4, <1>5 DEF CheckTerminal, TypeOK, engine, books, monitor, canceler, ray, stream
<1>6. CASE CheckRaises(a)
  BY <1>4, <1>6, ServiceAssumption DEF CheckRaises, TypeOK, engine, books, monitor, canceler, ray
<1>7. CASE PublishTerminal(a)
  <2>1. events' \in [Requests -> Seq(Event)] /\ faults' \in 0 .. MaxFaults
    BY <1>2, <1>7, CallTyped DEF PublishTerminal
  <2> QED
    BY <1>4, <1>7, <2>1 DEF PublishTerminal, TypeOK, engine, books, monitor, canceler, ray
<1>8. CASE PublishRaises(a)
  <2>1. events' \in [Requests -> Seq(Event)] /\ faults' \in 0 .. MaxFaults
    BY <1>2, <1>8, CallTyped DEF PublishRaises
  <2> QED
    BY <1>4, <1>8, <2>1 DEF PublishRaises, TypeOK, engine, books, monitor, canceler, ray
<1>9. CASE MarkTerminal(a)
  <2>1. terminal' \subseteq Requests
    BY <1>2, <1>9 DEF MarkTerminal, TypeOK
  <2> QED
    BY <1>4, <1>9, <2>1 DEF MarkTerminal, TypeOK, engine, monitor, canceler, ray, stream
<1> QED
  BY <1>5, <1>6, <1>7, <1>8, <1>9 DEF JobStep

\* The other actions leave most variables alone: one group changes at a time.
LEMMA TypeSubmit ==
  ASSUME TypeOK, NEW r \in Requests, Submit(r) \/ SubmitStep(r)
  PROVE  TypeOK'
<1>1. r \in Actors
  BY DEF Actors
<1>2. {"accepted", "ray_error"} \subseteq Event /\ "cancelled" \in TerminalStatus
  BY DEF Event, TerminalStatus
<1>3. CASE Submit(r)
  BY <1>3 DEF Submit, Step, TypeOK, SubmitPC, books, monitor, canceler, ray, stream
<1>4. CASE PublishAccepted(r)
  <2>1. events' \in [Requests -> Seq(Event)] /\ faults' \in 0 .. MaxFaults
    BY <1>2, <1>4, CallTyped DEF PublishAccepted
  <2> QED
    BY <1>4, <2>1 DEF PublishAccepted, Step, TypeOK, SubmitPC, books, monitor, canceler, ray
<1>5. CASE AcceptedRaises(r)
  <2>1. events' \in [Requests -> Seq(Event)] /\ faults' \in 0 .. MaxFaults
    BY <1>2, <1>5, CallTyped DEF AcceptedRaises
  <2> QED
    BY <1>5, <2>1 DEF AcceptedRaises, Leaves, TypeOK, SubmitPC, books, monitor, canceler, ray
<1>6. CASE Register(r)
  BY <1>6 DEF Register, Step, TypeOK, SubmitPC, monitor, canceler, ray, stream
<1>7. CASE StartRequest(r)
  BY <1>7 DEF StartRequest, Step, TypeOK, SubmitPC, TaskState, books, monitor, canceler, stream
<1>8. CASE StartFails(r)
  BY <1>8 DEF StartFails, Step, TypeOK, SubmitPC, books, monitor, canceler, ray, stream
<1>9. CASE Unregister(r)
  BY <1>9 DEF Unregister, Step, TypeOK, SubmitPC, monitor, canceler, ray, stream
<1>10. CASE Report(r)
  <2>1. events' \in [Requests -> Seq(Event)] /\ faults' \in 0 .. MaxFaults
    BY <1>2, <1>10, CallTyped DEF Report
  <2> QED
    BY <1>10, <2>1 DEF Report, Leaves, TypeOK, SubmitPC, books, monitor, canceler, ray
<1>11. CASE Record(r)
  BY <1>11 DEF Record, Leaves, EnsureMonitor, TypeOK, SubmitPC, MonitorPC, canceler, ray, stream
<1>12. CASE RecordCancelled(r)
  BY <1>12 DEF RecordCancelled, Step, TypeOK, SubmitPC, books, monitor, canceler, ray, stream
<1>13. CASE SubmitCancels(r)
  <2>1. job' \in [Actors -> Jobs]
    BY <1>1, <1>2, <1>13, JobTyped DEF SubmitCancels
  <2>2. task' \in [Requests -> TaskState]
    BY <1>13 DEF SubmitCancels, RayCancel, TypeOK, TaskState
  <2> QED
    BY <1>13, <2>1, <2>2 DEF SubmitCancels, RayCancel, Step, TypeOK, SubmitPC, books,
         monitor, canceler, stream
<1>14. CASE SubmitSettled(r)
  <2>1. job' \in [Actors -> Jobs]
    BY <1>1, <1>14, JobTyped DEF SubmitSettled
  <2> QED
    BY <1>14, <2>1 DEF SubmitSettled, Leaves, TypeOK, SubmitPC, books, monitor, canceler,
         ray, stream
<1>15. CASE SubmitRaised(r)
  <2>1. job' \in [Actors -> Jobs]
    BY <1>1, <1>15, JobTyped DEF SubmitRaised
  <2> QED
    BY <1>15, <2>1 DEF SubmitRaised, Step, TypeOK, SubmitPC, books, monitor, canceler, ray, stream
<1> QED
  BY <1>3, <1>4, <1>5, <1>6, <1>7, <1>8, <1>9, <1>10, <1>11, <1>12, <1>13, <1>14, <1>15
  DEF SubmitStep

LEMMA TypeCancel ==
  ASSUME TypeOK, NEW k \in Cancellers,
         \/ \E which \in {Requests} \cup {{r} : r \in Requests} : Cancel(k, which)
         \/ CancelStep(k)
  PROVE  TypeOK'
<1>1. k \in Actors
  BY DEF Actors
<1>2. "cancelled" \in TerminalStatus
  BY DEF TerminalStatus
<1>3. CASE \E which \in {Requests} \cup {{r} : r \in Requests} : Cancel(k, which)
  <2>1. PICK which \in {Requests} \cup {{r} : r \in Requests} : Cancel(k, which)
    BY <1>3
  <2>2. Matches(which) \subseteq Requests
    BY DEF Matches, TypeOK
  <2>3. /\ todo' \in [Cancellers -> SUBSET Requests]
        /\ cancelled' \subseteq Requests /\ withRef' \subseteq Requests
        /\ refs' \subseteq Requests
    BY <2>1, <2>2 DEF Cancel, TypeOK
  <2>4. cancels' \in 0 .. MaxCancels
    BY <2>1, ServiceAssumption DEF Cancel, TypeOK
  <2> QED
    BY <2>1, <2>3, <2>4 DEF Cancel, TypeOK, engine, monitor, ray, stream
<1>4. CASE CancelNext(k)
  <2>1. PICK r \in todo[k] :
          /\ cur' = [cur EXCEPT ![k] = r]
          /\ todo' = [todo EXCEPT ![k] = @ \ {r}]
          /\ IF r \in withRef THEN RayCancel(r) ELSE UNCHANGED ray
          /\ withRef' = withRef \ {r}
          /\ Start(k, r, "cancelled")
          /\ UNCHANGED <<engine, books, monitor, cancels, stream>>
    BY <1>4 DEF CancelNext
  <2>2. r \in Requests
    BY DEF TypeOK
  <2>3. job' \in [Actors -> Jobs]
    BY <1>1, <1>2, <2>1, <2>2, JobTyped
  <2>4. UNCHANGED <<task, sent, inflight, ending>> /\ {doomed', spared'} \subseteq SUBSET Requests
    BY <2>1, <2>2 DEF RayCancel, TypeOK, ray
  <2>5. /\ cur' \in [Cancellers -> Requests \cup {NoRequest}]
        /\ todo' \in [Cancellers -> SUBSET Requests]
        /\ withRef' \subseteq Requests
    BY <2>1, <2>2 DEF TypeOK
  <2> QED
    BY <2>1, <2>3, <2>4, <2>5 DEF TypeOK, engine, books, monitor, stream
<1>5. CASE CancelSettled(k)
  <2>1. job' \in [Actors -> Jobs]
    BY <1>1, <1>5, JobTyped DEF CancelSettled
  <2> QED
    BY <1>5, <2>1 DEF CancelSettled, TypeOK, engine, books, monitor, ray, stream
<1>6. CASE CancelRaised(k)
  <2>1. job' \in [Actors -> Jobs]
    BY <1>1, <1>6, JobTyped DEF CancelRaised
  <2> QED
    BY <1>6, <2>1 DEF CancelRaised, TypeOK, engine, books, monitor, ray, stream
<1> QED
  BY <1>3, <1>4, <1>5, <1>6 DEF CancelStep

\* The monitor task handles a ref between ray.wait and the end of
\* _finish_request.
HandlesRef == mpc \in {"look", "get", "settle", "retire"} => mref \in Requests

TypeInv == TypeOK /\ HandlesRef

LEMMA TypeMonitor ==
  ASSUME TypeInv, MonitorStep
  PROVE  TypeInv'
<1> USE DEF TypeInv
<1>1. Monitor \in Actors
  BY DEF Actors
<1>2. {"event_error", "ray_error"} \subseteq TerminalStatus
  BY DEF TerminalStatus
<1>3. CASE MonitorTop
  BY <1>3 DEF MonitorTop, TypeOK, HandlesRef, MonitorPC, engine, books, canceler, ray, stream
<1>4. CASE MonitorWait
  <2>1. /\ mpc' \in MonitorPC /\ mref' \in Requests \cup {NoRequest}
        /\ HandlesRef'
    BY <1>4 DEF MonitorWait, TypeOK, HandlesRef, MonitorPC
  <2> QED
    BY <1>4, <2>1 DEF MonitorWait, TypeOK, engine, books, canceler, ray, stream
<1>5. CASE MonitorLook
  BY <1>5 DEF MonitorLook, TypeOK, HandlesRef, MonitorPC, engine, books, canceler, ray, stream
<1>6. CASE MonitorGet
  <2>1. mpc' \in MonitorPC /\ mref \in Requests /\ mref' = mref
    BY <1>6 DEF MonitorGet, MonitorPC, HandlesRef
  <2>2. \/ job' = job
        \/ Start(Monitor, mref, "event_error") \/ Start(Monitor, mref, "ray_error")
    BY <1>6 DEF MonitorGet
  <2>3. job' \in [Actors -> Jobs]
    BY <1>1, <1>2, <2>1, <2>2, JobTyped DEF TypeOK
  <2> QED
    BY <1>6, <2>1, <2>3 DEF MonitorGet, TypeOK, HandlesRef, engine, books, canceler, ray, stream
<1>7. CASE MonitorSettled
  <2>1. job' \in [Actors -> Jobs]
    BY <1>1, <1>7, JobTyped DEF MonitorSettled
  <2> QED
    BY <1>7, <2>1
    DEF MonitorSettled, MStep, TypeOK, HandlesRef, MonitorPC, engine, books, canceler, ray, stream
<1>8. CASE MonitorRaised
  <2>1. job' \in [Actors -> Jobs]
    BY <1>1, <1>8, JobTyped DEF MonitorRaised
  <2> QED
    BY <1>8, <2>1
    DEF MonitorRaised, MStep, TypeOK, HandlesRef, MonitorPC, engine, books, canceler, ray, stream
<1>9. CASE MonitorLookRaises
  <2>1. faults' \in 0 .. MaxFaults
    BY <1>9, ServiceAssumption DEF MonitorLookRaises, TypeOK
  <2> QED
    BY <1>9, <2>1
    DEF MonitorLookRaises, TypeOK, HandlesRef, MonitorPC, engine, books, canceler, ray
<1>10. CASE MonitorRetire
  <2>1. terminal' \subseteq Requests /\ refs' \subseteq Requests
    BY <1>10 DEF MonitorRetire, MStep, TypeOK, HandlesRef
  <2> QED
    BY <1>10, <2>1
    DEF MonitorRetire, MStep, TypeOK, HandlesRef, MonitorPC, engine, canceler, ray, stream
<1> QED
  BY <1>3, <1>4, <1>5, <1>6, <1>7, <1>8, <1>9, <1>10 DEF MonitorStep

LEMMA TypeWorker ==
  ASSUME TypeOK, NEW r \in Requests,
         RayMoves(r)
  PROVE  TypeOK'
<1>1. inflight[r] # NoEvent => inflight[r] \in Event
  BY DEF TypeOK, Event, TerminalStatus
<1>2. CASE RayStarts(r)
  BY <1>2 DEF RayStarts, TypeOK, TaskState, engine, books, monitor, canceler, stream
<1>3. CASE WorkerStep(r)
  <2>1. sent' \in [Requests -> 0 .. MaxSteps]
    BY <1>3, ServiceAssumption DEF WorkerStep, TypeOK
  <2> QED
    BY <1>3, <2>1 DEF WorkerStep, Sends, TypeOK, engine, books, monitor, canceler, stream
<1>4. CASE \E e \in WorkerEnd : WorkerEnds(r, e)
  BY <1>4 DEF WorkerEnds, Sends, TypeOK, engine, books, monitor, canceler, stream
<1>5. CASE Delivered(r)
  <2>1. events' \in [Requests -> Seq(Event)] /\ faults' \in 0 .. MaxFaults
    BY <1>1, <1>5, CallTyped DEF Delivered
  <2>2. /\ inflight' \in [Requests -> WorkerEnd \cup {"step", NoEvent}]
        /\ ending' \in [Requests -> WorkerEnd \cup {NoEvent}]
    BY <1>5 DEF Delivered, TypeOK
  <2> QED
    BY <1>5, <2>1, <2>2 DEF Delivered, TypeOK, engine, books, monitor, canceler
<1>6. CASE WorkerPublishRaises(r)
  <2>1. events' \in [Requests -> Seq(Event)] /\ faults' \in 0 .. MaxFaults
    BY <1>1, <1>6, CallTyped DEF WorkerPublishRaises
  <2>2. /\ inflight' \in [Requests -> WorkerEnd \cup {"step", NoEvent}]
        /\ task' \in [Requests -> TaskState]
    BY <1>6 DEF WorkerPublishRaises, TypeOK, WorkerEnd, TaskState
  <2> QED
    BY <1>6, <2>1, <2>2 DEF WorkerPublishRaises, TypeOK, engine, books, monitor, canceler
<1>7. CASE WorkerReturns(r)
  BY <1>7 DEF WorkerReturns, TypeOK, TaskState, engine, books, monitor, canceler, stream
<1>8. CASE Lost(r)
  BY <1>8 DEF Lost, TypeOK, engine, books, monitor, canceler, stream
<1>9. CASE WorkerDies(r)
  BY <1>9 DEF WorkerDies, TypeOK, TaskState, engine, books, monitor, canceler, stream
<1>10. CASE RayKills(r)
  BY <1>10 DEF RayKills, TypeOK, TaskState, engine, books, monitor, canceler, stream
<1> QED
  BY <1>2, <1>3, <1>4, <1>5, <1>6, <1>7, <1>8, <1>9, <1>10 DEF RayMoves, WorkerMoves

\* Nobody but the monitor and a submit that starts it moves the monitor.
LEMMA MonitorAlone ==
  ASSUME TypeOK, [Next]_vars, ~ MonitorStep
  PROVE  mref' = mref /\ waiting' = waiting /\ (mpc' = mpc \/ mpc' = "top")
<1> USE DEF monitor
<1>1. ASSUME NEW r \in Requests, Submit(r) \/ SubmitStep(r)
      PROVE  mref' = mref /\ waiting' = waiting /\ (mpc' = mpc \/ mpc' = "top")
  BY <1>1 DEF Submit, SubmitStep, PublishAccepted, AcceptedRaises, Register, StartRequest,
     StartFails, Unregister, Report, Record, EnsureMonitor, RecordCancelled,
     SubmitCancels, SubmitSettled, SubmitRaised
<1>2. ASSUME NEW k \in Cancellers,
             CancelStep(k) \/ \E which \in {Requests} \cup {{r} : r \in Requests} : Cancel(k, which)
      PROVE  UNCHANGED monitor
  BY <1>2 DEF CancelStep, CancelNext, CancelSettled, CancelRaised, Cancel
<1>3. ASSUME NEW a \in Actors, JobStep(a)
      PROVE  UNCHANGED monitor
  BY <1>3 DEF JobStep, CheckTerminal, CheckRaises, PublishTerminal, PublishRaises, MarkTerminal
<1>4. ASSUME NEW r \in Requests, RayMoves(r)
      PROVE  UNCHANGED monitor
  BY <1>4 DEF RayMoves, RayStarts, RayKills, WorkerMoves, WorkerStep, WorkerEnds, Delivered, WorkerPublishRaises,
     WorkerReturns, Lost, WorkerDies
<1>5. ASSUME UNCHANGED vars
      PROVE  UNCHANGED monitor
  BY <1>5 DEF vars
<1> QED
  BY <1>1, <1>2, <1>3, <1>4, <1>5 DEF Next

LEMMA TypeStep == TypeInv /\ [Next]_vars => TypeInv'
<1> SUFFICES ASSUME TypeInv, [Next]_vars PROVE TypeInv'
  OBVIOUS
<1>1. CASE MonitorStep
  BY <1>1, TypeMonitor
<1>2. CASE ~ MonitorStep
  <2>1. HandlesRef'
    <3>1. TypeOK
      BY DEF TypeInv
    <3>2. mref' = mref /\ (mpc' = mpc \/ mpc' = "top")
      BY <1>2, <3>1, MonitorAlone
    <3> QED
      BY <3>2 DEF HandlesRef, TypeInv
  <2>2. CASE UNCHANGED vars
    BY <2>1, <2>2 DEF TypeInv, TypeOK, vars, engine, books, monitor, canceler, ray, stream
  <2>3. CASE Next
    <3>1. TypeOK'
      <4>1. TypeOK
        BY DEF TypeInv
      <4> QED
        BY <1>2, <2>3, <4>1, TypeSubmit, TypeCancel, TypeJob, TypeWorker DEF Next
    <3> QED
      BY <2>1, <3>1 DEF TypeInv
  <2> QED
    BY <2>1, <2>2, <2>3 DEF TypeInv
<1> QED
  BY <1>1, <1>2

LEMMA TypeInvariance == Spec => []TypeInv
<1>1. Init => TypeInv
  BY TypeInit DEF TypeInv, HandlesRef, Init
<1> QED
  BY <1>1, TypeStep, PTL DEF Spec

\* The fields of the engine and the executor keep their types.
THEOREM TypeCorrect == Spec => []TypeOK
<1>1. TypeInv => TypeOK
  BY DEF TypeInv
<1> QED
  BY <1>1, TypeInvariance, PTL

-----------------------------------------------------------------------------
(* What may be appended *)

Announced(r) == events[r] # <<>>

\* Whatever the service knows of a request, its stream has begun.
AnnouncedInv ==
  /\ \A r \in Requests : sub[r] \notin {"none", "accept", "refused"} => Announced(r)
  /\ \A r \in accepted \cup refs \cup waiting : Announced(r)
  /\ \A k \in Cancellers : \A r \in todo[k] : Announced(r)
  /\ mpc \in {"look", "get", "settle", "retire"} => Announced(mref)
  /\ \A a \in Actors : job[a].step # "none" => Announced(job[a].req)
  /\ \A r \in Requests : inflight[r] # NoEvent \/ task[r] # "none" => Announced(r)

\* A step appends at most one event, through the publisher; the first event
\* of a request is its accepted event.
Growth ==
  \/ events' = events
  \/ \E r \in Requests, e \in Event :
       /\ events' = [events EXCEPT ![r] = Published(r, e)]
       /\ Announced(r) \/ e = "accepted"

LEMMA CallGrows ==
  ASSUME NEW r \in Requests, NEW e \in Event, Append1(r, e) \/ CallRaises(r, e),
         Announced(r) \/ e = "accepted"
  PROVE  Growth
<1>1. events' = events \/ events' = [events EXCEPT ![r] = Published(r, e)]
  BY Zenon DEF Append1, CallRaises
<1> QED
  BY <1>1, Zenon DEF Growth

LEMMA EventsGrow ==
  ASSUME TypeInv, AnnouncedInv, [Next]_vars
  PROVE  Growth
<1>1. TypeOK
  BY DEF TypeInv
<1>2. ASSUME NEW r \in Requests, Submit(r) \/ SubmitStep(r)
      PROVE  Growth
  <2>1. {"accepted", "ray_error"} \subseteq Event
    BY DEF Event, TerminalStatus
  <2>2. CASE PublishAccepted(r) \/ AcceptedRaises(r)
    <3>1. Append1(r, "accepted") \/ CallRaises(r, "accepted")
      BY <2>2 DEF PublishAccepted, AcceptedRaises
    <3> QED
      BY <2>1, <3>1, CallGrows
  <2>3. CASE Report(r)
    <3>1. Append1(r, "ray_error") \/ CallRaises(r, "ray_error")
      BY <2>3 DEF Report
    <3>2. Announced(r)
      BY <2>3 DEF Report, AnnouncedInv
    <3> QED
      BY <2>1, <3>1, <3>2, CallGrows
  <2>4. ASSUME Submit(r) \/ Register(r) \/ StartRequest(r) \/ StartFails(r) \/ Unregister(r)
               \/ Record(r) \/ RecordCancelled(r) \/ SubmitCancels(r) \/ SubmitSettled(r)
               \/ SubmitRaised(r)
        PROVE  events' = events
    BY <2>4 DEF Submit, Register, StartRequest, StartFails, Unregister, Record,
       RecordCancelled, SubmitCancels, SubmitSettled, SubmitRaised, stream
  <2> QED
    BY <1>2, <2>2, <2>3, <2>4 DEF SubmitStep, Growth
<1>3. ASSUME NEW k \in Cancellers,
             CancelStep(k) \/ \E which \in {Requests} \cup {{r} : r \in Requests} : Cancel(k, which)
      PROVE  events' = events
  BY <1>3 DEF CancelStep, CancelNext, CancelSettled, CancelRaised, Cancel, stream
<1>4. ASSUME NEW a \in Actors, JobStep(a)
      PROVE  Growth
  <2>1. CASE PublishTerminal(a) \/ PublishRaises(a)
    <3>1. job[a].step = "publish"
      BY <2>1 DEF PublishTerminal, PublishRaises, At
    <3>2. job[a].req \in Requests /\ job[a].status \in Event
      BY <1>1, <3>1, JobShape DEF Event
    <3>3. Append1(job[a].req, job[a].status) \/ CallRaises(job[a].req, job[a].status)
      BY <2>1 DEF PublishTerminal, PublishRaises
    <3>4. Announced(job[a].req)
      BY <3>1 DEF AnnouncedInv
    <3> QED
      BY <3>2, <3>3, <3>4, CallGrows
  <2>2. ASSUME CheckTerminal(a) \/ CheckRaises(a) \/ MarkTerminal(a)
        PROVE  events' = events
    BY <2>2 DEF CheckTerminal, CheckRaises, MarkTerminal, stream
  <2> QED
    BY <1>4, <2>1, <2>2 DEF JobStep, Growth
<1>5. ASSUME MonitorStep
      PROVE  events' = events
  BY <1>5 DEF MonitorStep, MonitorTop, MonitorWait, MonitorLook, MonitorGet,
     MonitorSettled, MonitorRaised, MonitorLookRaises, MonitorRetire, stream
<1>6. ASSUME NEW r \in Requests, RayMoves(r)
      PROVE  Growth
  <2>1. CASE Delivered(r) \/ WorkerPublishRaises(r)
    <3>1. inflight[r] # NoEvent
      BY <2>1 DEF Delivered, WorkerPublishRaises
    <3>2. inflight[r] \in Event /\ Announced(r)
      BY <1>1, <3>1 DEF TypeOK, Event, TerminalStatus, AnnouncedInv
    <3>3. Append1(r, inflight[r]) \/ CallRaises(r, inflight[r])
      BY <2>1 DEF Delivered, WorkerPublishRaises
    <3> QED
      BY <3>2, <3>3, CallGrows
  <2>2. ASSUME RayStarts(r) \/ WorkerStep(r) \/ (\E e \in WorkerEnd : WorkerEnds(r, e))
               \/ WorkerReturns(r) \/ Lost(r) \/ WorkerDies(r) \/ RayKills(r)
        PROVE  events' = events
    BY <2>2 DEF RayStarts, RayKills, WorkerStep, WorkerEnds, WorkerReturns, Lost, WorkerDies,
       stream
  <2> QED
    BY <1>6, <2>1, <2>2 DEF RayMoves, WorkerMoves, Growth
<1>7. ASSUME UNCHANGED vars
      PROVE  events' = events
  BY <1>7 DEF vars, stream
<1> QED
  BY <1>2, <1>3, <1>4, <1>5, <1>6, <1>7 DEF Next, Growth

\* What one call to the publisher does to the events of its request.
LEMMA PublishedShape ==
  ASSUME TypeOK, NEW r \in Requests, NEW e \in Event
  PROVE  /\ Announced(r) => Published(r, e) # <<>>
         /\ Len(Published(r, e)) \in {Len(events[r]), Len(events[r]) + 1}
         /\ \A i \in DOMAIN events[r] :
              i \in DOMAIN Published(r, e) /\ Published(r, e)[i] = events[r][i]
         /\ Len(Published(r, e)) = Len(events[r]) + 1 =>
              /\ Published(r, e)[Len(events[r]) + 1] = e
              /\ e \in TerminalStatus => ~ HasTerminal(r)
         /\ DOMAIN Published(r, e) = 1 .. Len(Published(r, e))
         /\ DOMAIN events[r] = 1 .. Len(events[r])
<1> USE DEF Announced
<1>1. events[r] \in Seq(Event) /\ Len(events[r]) \in Nat
  BY DEF TypeOK
<1>2. CASE e \in TerminalStatus /\ HasTerminal(r)
  BY <1>1, <1>2 DEF Published
<1>3. CASE ~ (e \in TerminalStatus /\ HasTerminal(r))
  <2>1. Published(r, e) = Append(events[r], e)
    BY <1>3 DEF Published
  <2> QED
    BY <1>1, <1>3, <2>1
<1> QED
  BY <1>2, <1>3

\* Events stay, so a stream that has begun or ended stays so.
LEMMA EventsStay ==
  ASSUME TypeInv, AnnouncedInv, [Next]_vars
  PROVE  \A r \in Requests :
           /\ Announced(r) => Announced(r)'
           /\ HasTerminal(r) => HasTerminal(r)'
<1>1. TypeOK
  BY DEF TypeInv
<1>2. Growth
  BY EventsGrow
<1>3. CASE events' = events
  BY <1>3 DEF Announced, HasTerminal
<1>4. CASE events' # events
  <2>1. PICK q \in Requests, e \in Event : events' = [events EXCEPT ![q] = Published(q, e)]
    BY <1>2, <1>4 DEF Growth
  <2>2. \A r \in Requests : r # q => events'[r] = events[r]
    BY <1>1, <2>1 DEF TypeOK
  <2>3. events'[q] = Published(q, e)
    BY <1>1, <2>1 DEF TypeOK
  <2>4. Announced(q) => Announced(q)'
    BY <1>1, <2>3, PublishedShape DEF Announced
  <2>5. HasTerminal(q) => HasTerminal(q)'
    <3> SUFFICES ASSUME NEW i \in DOMAIN events[q], events[q][i] \in TerminalStatus
                 PROVE  \E j \in DOMAIN events'[q] : events'[q][j] \in TerminalStatus
      BY DEF HasTerminal
    <3>1. i \in DOMAIN Published(q, e) /\ Published(q, e)[i] = events[q][i]
      BY <1>1, PublishedShape
    <3> QED
      BY <2>3, <3>1
  <2>6. ASSUME NEW r \in Requests, r # q
        PROVE  /\ Announced(r) => Announced(r)'
               /\ HasTerminal(r) => HasTerminal(r)'
    BY <2>2, <2>6 DEF Announced, HasTerminal
  <2> QED
    BY <2>4, <2>5, <2>6
<1> QED
  BY <1>3, <1>4

-----------------------------------------------------------------------------
(* The stream of a request has begun before anybody else knows of it *)

LEMMA StillAnnounced ==
  ASSUME TypeInv, AnnouncedInv, \A q \in Requests : Announced(q) => Announced(q)'
  PROVE  /\ \A r \in Requests : sub[r] \notin {"none", "accept", "refused"} => Announced(r)'
         /\ \A r \in accepted \cup refs \cup waiting : Announced(r)'
         /\ \A k \in Cancellers : \A r \in todo[k] : Announced(r)'
         /\ mpc \in {"look", "get", "settle", "retire"} => events'[mref] # <<>>
         /\ \A a \in Actors : job[a].step # "none" => events'[job[a].req] # <<>>
         /\ \A r \in Requests : inflight[r] # NoEvent \/ task[r] # "none" => Announced(r)'
<1> USE DEF Announced
<1>1. TypeOK /\ HandlesRef
  BY DEF TypeInv
<1>2. \A a \in Actors : job[a].step # "none" => job[a].req \in Requests
  BY <1>1, JobShape
<1>3. /\ accepted \subseteq Requests /\ refs \subseteq Requests /\ waiting \subseteq Requests
      /\ \A k \in Cancellers : todo[k] \subseteq Requests
  BY <1>1 DEF TypeOK
<1> QED
  BY <1>1, <1>2, <1>3 DEF AnnouncedInv, HandlesRef

LEMMA AnnouncedSubmit ==
  ASSUME TypeInv, AnnouncedInv, \A q \in Requests : Announced(q) => Announced(q)',
         NEW r \in Requests, Submit(r) \/ SubmitStep(r)
  PROVE  AnnouncedInv'
<1> USE DEF Announced, engine, books, monitor, canceler, ray, stream
<1>1. TypeOK /\ r \in Actors
  BY DEF TypeInv, Actors
<1>2. CASE Submit(r)
  BY <1>1, <1>2, StillAnnounced DEF Submit, Step, AnnouncedInv, TypeOK
<1>3. CASE AcceptedRaises(r)
  BY <1>1, <1>3, StillAnnounced DEF AcceptedRaises, Leaves, AnnouncedInv, TypeOK
<1>4. CASE Register(r)
  BY <1>1, <1>4, StillAnnounced DEF Register, Step, AnnouncedInv, TypeOK
<1>5. CASE StartRequest(r)
  BY <1>1, <1>5, StillAnnounced DEF StartRequest, Step, AnnouncedInv, TypeOK
<1>6. CASE StartFails(r)
  BY <1>1, <1>6, StillAnnounced DEF StartFails, Step, AnnouncedInv, TypeOK
<1>7. CASE Unregister(r)
  BY <1>1, <1>7, StillAnnounced DEF Unregister, Step, AnnouncedInv, TypeOK
<1>8. CASE Report(r)
  BY <1>1, <1>8, StillAnnounced DEF Report, Leaves, AnnouncedInv, TypeOK
<1>9. CASE Record(r)
  BY <1>1, <1>9, StillAnnounced DEF Record, Leaves, EnsureMonitor, AnnouncedInv, TypeOK
<1>10. CASE RecordCancelled(r)
  BY <1>1, <1>10, StillAnnounced DEF RecordCancelled, Step, AnnouncedInv, TypeOK
<1>11. CASE SubmitCancels(r)
  BY <1>1, <1>11, StillAnnounced DEF SubmitCancels, RayCancel, Start, Step, AnnouncedInv,
       TypeOK
<1>12. CASE SubmitSettled(r)
  BY <1>1, <1>12, StillAnnounced DEF SubmitSettled, Finish, NoJob, Leaves, AnnouncedInv, TypeOK
<1>13. CASE SubmitRaised(r)
  BY <1>1, <1>13, StillAnnounced DEF SubmitRaised, Finish, NoJob, Step, AnnouncedInv, TypeOK
<1>14. CASE PublishAccepted(r)
  <2>1. events'[r] # <<>>
    <3>1. events[r] \in Seq(Event)
      BY <1>1 DEF TypeOK
    <3>2. Published(r, "accepted") = Append(events[r], "accepted")
      BY DEF Published, TerminalStatus, WorkerEnd
    <3>3. events'[r] = Append(events[r], "accepted")
      BY <1>1, <1>14, <3>2 DEF PublishAccepted, Append1, TypeOK
    <3> QED
      BY <3>1, <3>3
  <2> QED
    BY <1>1, <1>14, <2>1, StillAnnounced DEF PublishAccepted, Step, AnnouncedInv, TypeOK
<1> QED
  BY <1>2, <1>3, <1>4, <1>5, <1>6, <1>7, <1>8, <1>9, <1>10, <1>11, <1>12, <1>13, <1>14
       DEF SubmitStep

LEMMA AnnouncedMonitor ==
  ASSUME TypeInv, AnnouncedInv, \A q \in Requests : Announced(q) => Announced(q)',
         MonitorStep
  PROVE  AnnouncedInv'
<1> USE DEF Announced, engine, books, monitor, canceler, ray, stream
<1>1. TypeOK /\ HandlesRef /\ Monitor \in Actors
  BY DEF TypeInv, Actors
<1>2. CASE MonitorTop
  BY <1>1, <1>2, StillAnnounced DEF MonitorTop, AnnouncedInv, TypeOK, HandlesRef
<1>3. CASE MonitorWait
  BY <1>1, <1>3, StillAnnounced DEF MonitorWait, AnnouncedInv, TypeOK, HandlesRef
<1>4. CASE MonitorLook
  BY <1>1, <1>4, StillAnnounced DEF MonitorLook, AnnouncedInv, TypeOK, HandlesRef
<1>5. CASE MonitorGet
  <2>1. events'[mref] # <<>> /\ mref' = mref /\ mref \in Requests
    BY <1>1, <1>5, StillAnnounced DEF MonitorGet, HandlesRef
  <2>2. \/ job' = job
        \/ \E s \in {"event_error", "ray_error"} :
             job' = [job EXCEPT ![Monitor] = [step |-> "check", req |-> mref, status |-> s]]
    BY <1>5, Zenon DEF MonitorGet, Start
  <2>3. \A a \in Actors : job'[a].step # "none" => events'[job'[a].req] # <<>>
    <3>1. CASE job' = job
      BY <3>1, StillAnnounced
    <3>2. CASE job' # job
      <4>1. PICK s \in {"event_error", "ray_error"} :
              job' = [job EXCEPT ![Monitor] = [step |-> "check", req |-> mref, status |-> s]]
        BY <2>2, <3>2
      <4>2. \A a \in Actors : job'[a].req = mref \/ job'[a] = job[a]
        BY <1>1, <4>1 DEF TypeOK
      <4> QED
        BY <2>1, <4>2, StillAnnounced
    <3> QED
      BY <3>1, <3>2
  <2>4. /\ mpc' \in {"settle", "retire"}
        /\ UNCHANGED <<engine, books, mref, waiting, canceler, ray, stream>>
    BY <1>5, Zenon DEF MonitorGet
  <2> QED
    BY <1>1, <2>1, <2>3, <2>4, StillAnnounced
    DEF AnnouncedInv, engine, books, canceler, ray, stream
<1>6. CASE MonitorSettled
  BY <1>1, <1>6, StillAnnounced DEF MonitorSettled, MStep, Finish, NoJob, AnnouncedInv,
       TypeOK, HandlesRef
<1>7. CASE MonitorRaised
  BY <1>1, <1>7, StillAnnounced DEF MonitorRaised, MStep, Finish, NoJob, AnnouncedInv,
       TypeOK, HandlesRef
<1>8. CASE MonitorLookRaises
  BY <1>1, <1>8, StillAnnounced DEF MonitorLookRaises, AnnouncedInv, TypeOK, HandlesRef
<1>9. CASE MonitorRetire
  BY <1>1, <1>9, StillAnnounced DEF MonitorRetire, MStep, AnnouncedInv, TypeOK, HandlesRef
<1> QED
  BY <1>2, <1>3, <1>4, <1>5, <1>6, <1>7, <1>8, <1>9 DEF MonitorStep

LEMMA AnnouncedWorker ==
  ASSUME TypeInv, AnnouncedInv, \A q \in Requests : Announced(q) => Announced(q)',
         NEW r \in Requests, RayMoves(r)
  PROVE  AnnouncedInv'
<1> USE DEF Announced, engine, books, monitor, canceler, ray, stream
<1>1. TypeOK
  BY DEF TypeInv
<1>2. CASE RayStarts(r)
  BY <1>1, <1>2, StillAnnounced DEF RayStarts, AnnouncedInv, TypeOK
<1>3. CASE WorkerStep(r)
  BY <1>1, <1>3, StillAnnounced DEF WorkerStep, Sends, AnnouncedInv, TypeOK
<1>4. CASE \E e \in WorkerEnd : WorkerEnds(r, e)
  BY <1>1, <1>4, StillAnnounced DEF WorkerEnds, Sends, AnnouncedInv, TypeOK
<1>5. CASE Delivered(r)
  BY <1>1, <1>5, StillAnnounced DEF Delivered, AnnouncedInv, TypeOK
<1>6. CASE WorkerPublishRaises(r)
  BY <1>1, <1>6, StillAnnounced DEF WorkerPublishRaises, AnnouncedInv, TypeOK
<1>7. CASE WorkerReturns(r)
  BY <1>1, <1>7, StillAnnounced DEF WorkerReturns, AnnouncedInv, TypeOK
<1>8. CASE Lost(r)
  BY <1>1, <1>8, StillAnnounced DEF Lost, AnnouncedInv, TypeOK
<1>9. CASE WorkerDies(r)
  BY <1>1, <1>9, StillAnnounced DEF WorkerDies, AnnouncedInv, TypeOK
<1>10. CASE RayKills(r)
  BY <1>1, <1>10, StillAnnounced DEF RayKills, Live, AnnouncedInv, TypeOK
<1> QED
  BY <1>2, <1>3, <1>4, <1>5, <1>6, <1>7, <1>8, <1>9, <1>10 DEF RayMoves, WorkerMoves

LEMMA AnnouncedJob ==
  ASSUME TypeInv, AnnouncedInv, \A q \in Requests : Announced(q) => Announced(q)',
         NEW a \in Actors, JobStep(a)
  PROVE  AnnouncedInv'
<1> USE DEF Announced, engine, books, monitor, canceler, ray, stream
<1>1. TypeOK /\ (job[a].step # "none" => job[a].req \in Requests)
  BY JobShape DEF TypeInv
<1>2. CASE CheckTerminal(a)
  BY <1>1, <1>2, StillAnnounced DEF CheckTerminal, Goto, At, AnnouncedInv, TypeOK
<1>3. CASE CheckRaises(a)
  BY <1>1, <1>3, StillAnnounced DEF CheckRaises, Goto, At, AnnouncedInv, TypeOK
<1>4. CASE PublishTerminal(a)
  BY <1>1, <1>4, StillAnnounced DEF PublishTerminal, Goto, At, AnnouncedInv, TypeOK
<1>5. CASE PublishRaises(a)
  BY <1>1, <1>5, StillAnnounced DEF PublishRaises, Goto, At, AnnouncedInv, TypeOK
<1>6. CASE MarkTerminal(a)
  BY <1>1, <1>6, StillAnnounced DEF MarkTerminal, Goto, At, AnnouncedInv, TypeOK
<1> QED
  BY <1>2, <1>3, <1>4, <1>5, <1>6 DEF JobStep

LEMMA AnnouncedCancel ==
  ASSUME TypeInv, AnnouncedInv, \A q \in Requests : Announced(q) => Announced(q)',
         NEW k \in Cancellers,
         \/ \E which \in {Requests} \cup {{r} : r \in Requests} : Cancel(k, which)
         \/ CancelStep(k)
  PROVE  AnnouncedInv'
<1> USE DEF Announced
<1>1. TypeOK /\ k \in Actors
  BY DEF TypeInv, Actors
<1>2. CASE \E which \in {Requests} \cup {{r} : r \in Requests} : Cancel(k, which)
  <2>1. PICK which \in {Requests} \cup {{r} : r \in Requests} : Cancel(k, which)
    BY <1>2
  <2>2. Matches(which) \subseteq accepted
    BY DEF Matches
  <2> QED
    BY <1>1, <2>1, <2>2, StillAnnounced
    DEF Cancel, AnnouncedInv, TypeOK, engine, books, monitor, canceler, ray, stream
<1>3. CASE CancelNext(k)
  <2>1. PICK r \in todo[k] :
          /\ todo' = [todo EXCEPT ![k] = @ \ {r}]
          /\ UNCHANGED <<task, sent, inflight, ending>>
          /\ Start(k, r, "cancelled")
          /\ UNCHANGED <<engine, books, monitor, cancels, stream>>
    BY <1>3 DEF CancelNext, RayCancel, ray
  <2>2. r \in Requests /\ events'[r] # <<>>
    BY <1>1, StillAnnounced DEF TypeOK
  <2>4. \A a \in Actors : job'[a].step # "none" => events'[job'[a].req] # <<>>
    BY <1>1, <2>1, <2>2, StillAnnounced DEF Start, TypeOK
  <2>5. \A q \in Cancellers : \A x \in todo'[q] : events'[x] # <<>>
    BY <1>1, <2>1, StillAnnounced DEF TypeOK
  <2> QED
    BY <1>1, <2>1, <2>4, <2>5, StillAnnounced
    DEF AnnouncedInv, engine, books, monitor, stream
<1>4. CASE CancelSettled(k)
  BY <1>1, <1>4, StillAnnounced
  DEF CancelSettled, Finish, NoJob, AnnouncedInv, TypeOK, engine, books, monitor, canceler, ray, stream
<1>5. CASE CancelRaised(k)
  BY <1>1, <1>5, StillAnnounced
  DEF CancelRaised, Finish, NoJob, AnnouncedInv, TypeOK, engine, books, monitor, canceler, ray, stream
<1> QED
  BY <1>2, <1>3, <1>4, <1>5 DEF CancelStep

LEMMA AnnouncedStep == TypeInv /\ AnnouncedInv /\ [Next]_vars => AnnouncedInv'
<1> SUFFICES ASSUME TypeInv, AnnouncedInv, [Next]_vars PROVE AnnouncedInv'
  OBVIOUS
<1>1. \A q \in Requests : Announced(q) => Announced(q)'
  BY EventsStay
<1>2. CASE UNCHANGED vars
  BY <1>2 DEF AnnouncedInv, Announced, vars, engine, books, monitor, canceler, ray, stream
<1>3. CASE Next
  BY <1>1, <1>3, AnnouncedSubmit, AnnouncedMonitor, AnnouncedWorker, AnnouncedJob, AnnouncedCancel
  DEF Next
<1> QED
  BY <1>2, <1>3

LEMMA AnnouncedInvariance == Spec => [](TypeInv /\ AnnouncedInv)
<1>1. Init => AnnouncedInv
  BY DEF Init, AnnouncedInv, NoJob
<1>2. Init => TypeInv
  BY TypeInit DEF TypeInv, HandlesRef, Init
<1> QED
  BY <1>1, <1>2, TypeStep, AnnouncedStep, PTL DEF Spec

-----------------------------------------------------------------------------
(* What the client sees *)

\* The invariant about the streams themselves.
StreamInv == TerminalOnce /\ AcceptedFirst

LEMMA StreamStep ==
  ASSUME TypeInv, AnnouncedInv, StreamInv, [Next]_vars
  PROVE  StreamInv'
<1>1. TypeOK
  BY DEF TypeInv
<1>2. Growth
  BY EventsGrow
<1>3. CASE events' = events
  BY <1>3 DEF StreamInv, TerminalOnce, AcceptedFirst
<1>4. CASE events' # events
  <2>1. PICK q \in Requests, e \in Event :
          /\ events' = [events EXCEPT ![q] = Published(q, e)]
          /\ Announced(q) \/ e = "accepted"
    BY <1>2, <1>4 DEF Growth
  <2> DEFINE s == events[q]
             t == Published(q, e)
             n == Len(s)
             m == Len(t)
  <2>2. \A r \in Requests : r # q => events'[r] = events[r]
    BY <1>1, <2>1 DEF TypeOK
  <2>3. events'[q] = t
    BY <1>1, <2>1 DEF TypeOK
  <2>4. /\ s \in Seq(Event) /\ n \in Nat
        /\ DOMAIN s = 1 .. n /\ DOMAIN t = 1 .. m
        /\ m \in {n, n + 1}
        /\ \A i \in 1 .. n : t[i] = s[i]
        /\ m = n + 1 =>
             t[n + 1] = e /\ (e \in TerminalStatus => ~ HasTerminal(q))
    BY <1>1, PublishedShape DEF TypeOK
  <2> HIDE DEF t, s, n, m
  <2>5. ASSUME NEW i \in DOMAIN t, NEW j \in DOMAIN t, i < j,
               t[i] \in TerminalStatus, t[j] \in TerminalStatus
        PROVE  FALSE
    <3>0. i \in 1 .. m /\ j \in 1 .. m
      BY <2>4, Zenon
    <3>1. i \in 1 .. n /\ t[i] = s[i]
      BY <2>4, <2>5, <3>0
    <3>2. CASE j \in 1 .. n
      <4>1. t[j] = s[j]
        BY <2>4, <3>2
      <4>2. s[i] \in TerminalStatus /\ s[j] \in TerminalStatus
        BY <2>5, <3>1, <4>1
      <4>3. i \in DOMAIN events[q] /\ j \in DOMAIN events[q]
        BY <2>4, <3>1, <3>2 DEF s
      <4>4. i = j
        BY <4>2, <4>3 DEF StreamInv, TerminalOnce, s
      <4> QED
        BY <2>4, <2>5, <3>0, <4>4
    <3>3. CASE j \notin 1 .. n
      <4>1. j = n + 1 /\ m = n + 1
        BY <2>4, <3>0, <3>3
      <4>2. ~ HasTerminal(q)
        BY <2>4, <2>5, <4>1
      <4> QED
        BY <2>4, <2>5, <3>1, <4>2 DEF HasTerminal, s
    <3> QED
      BY <3>2, <3>3
  <2>6. TerminalOnce'
    <3> SUFFICES ASSUME NEW r \in Requests, NEW i \in DOMAIN events'[r], NEW j \in DOMAIN events'[r],
                        events'[r][i] \in TerminalStatus, events'[r][j] \in TerminalStatus
                 PROVE  i = j
      BY DEF TerminalOnce
    <3>1. CASE r # q
      BY <2>2, <3>1 DEF StreamInv, TerminalOnce
    <3>2. CASE r = q
      <4>1. i \in DOMAIN t /\ j \in DOMAIN t /\ i \in Nat /\ j \in Nat
        BY <2>3, <2>4, <3>2
      <4> QED
        BY <2>3, <2>5, <3>2, <4>1
    <3> QED
      BY <3>1, <3>2
  <2>7. AcceptedFirst'
    <3> SUFFICES ASSUME NEW r \in Requests, events'[r] # <<>>
                 PROVE  events'[r][1] = "accepted"
      BY DEF AcceptedFirst
    <3>1. CASE r # q
      BY <2>2, <3>1 DEF StreamInv, AcceptedFirst
    <3>2. CASE r = q /\ s # <<>>
      <4>0. s \in Seq(Event) /\ s # <<>> /\ n = Len(s)
        BY <2>4, <3>2 DEF n
      <4>1. 1 \in 1 .. n
        BY <4>0
      <4>2. s[1] = "accepted"
        BY <3>2 DEF StreamInv, AcceptedFirst, s
      <4> QED
        BY <2>3, <2>4, <3>2, <4>1, <4>2
    <3>3. CASE r = q /\ s = <<>>
      <4>1. e = "accepted"
        BY <2>1, <3>3 DEF Announced, s
      <4>2. t = Append(<<>>, e)
        BY <3>3, <4>1 DEF t, s, Published, TerminalStatus, WorkerEnd
      <4> QED
        BY <2>3, <3>3, <4>1, <4>2
    <3> QED
      BY <3>1, <3>2, <3>3
  <2> QED
    BY <2>6, <2>7 DEF StreamInv
<1> QED
  BY <1>3, <1>4

LEMMA StreamInvariance == Spec => []StreamInv
<1>1. Init => StreamInv
  BY DEF Init, StreamInv, TerminalOnce, AcceptedFirst
<1> QED
  BY <1>1, AnnouncedInvariance, StreamStep, PTL DEF Spec

\* Submits, cancels, the monitor and the worker race to end a request, and
\* its client sees one end, for any number of them and of failing calls.
THEOREM OneTerminal == Spec => []TerminalOnce
<1>1. StreamInv => TerminalOnce
  BY DEF StreamInv
<1> QED
  BY <1>1, StreamInvariance, PTL

\* The first event of a request is its accepted event.
THEOREM FirstAccepted == Spec => []AcceptedFirst
<1>1. StreamInv => AcceptedFirst
  BY DEF StreamInv
<1> QED
  BY <1>1, StreamInvariance, PTL

-----------------------------------------------------------------------------
(* What the executor calls terminal *)

\* The requests whose stream has ended.
Over == {r \in Requests : HasTerminal(r)}

\* A request is marked after its terminal was seen or published.
MarkInv ==
  /\ terminal \subseteq Over
  /\ \A a \in Actors : job[a].step \in {"mark", "done"} => job[a].req \in Over

LEMMA AppendEnds ==
  ASSUME NEW s \in Seq(Event), NEW e \in TerminalStatus
  PROVE  \E i \in DOMAIN Append(s, e) : Append(s, e)[i] \in TerminalStatus
<1>1. e \in Event
  BY DEF Event
<1>2. /\ Len(s) \in Nat /\ DOMAIN Append(s, e) = 1 .. Len(s) + 1
      /\ Append(s, e)[Len(s) + 1] = e
  BY <1>1
<1>3. Len(s) + 1 \in 1 .. Len(s) + 1
  BY <1>2
<1> QED
  BY <1>2, <1>3

LEMMA MarkJob ==
  ASSUME TypeInv, MarkInv, Over \subseteq Over', NEW a \in Actors, JobStep(a)
  PROVE  MarkInv'
<1> HIDE DEF Over
<1>1. TypeOK /\ job \in [Actors -> Jobs]
  BY DEF TypeInv, TypeOK
<1>2. job[a].step # "none"
  BY DEF JobStep, CheckTerminal, CheckRaises, PublishTerminal, PublishRaises, MarkTerminal, At
<1>3. job[a].req \in Requests /\ job[a].status \in TerminalStatus /\ job[a].status \in Event
  BY <1>1, <1>2, JobShape DEF Event
<1>4. CASE CheckTerminal(a)
  <2>1. HasTerminal(job[a].req) => job[a].req \in Over'
    BY <1>3 DEF Over
  <2>2. \/ HasTerminal(job[a].req) /\ job' = [job EXCEPT ![a].step = "mark"]
        \/ job' = [job EXCEPT ![a].step = "publish"]
    BY <1>4, Zenon DEF CheckTerminal, Goto
  <2>3. terminal' = terminal
    BY <1>4 DEF CheckTerminal, books
  <2>4. CASE job' = [job EXCEPT ![a].step = "publish"]
    <3>1. \A b \in Actors : job'[b] = job[b] \/ job'[b].step = "publish"
      BY <1>1, <2>4
    <3> QED
      BY <2>3, <3>1 DEF MarkInv
  <2>5. CASE HasTerminal(job[a].req) /\ job' = [job EXCEPT ![a].step = "mark"]
    <3>1. \A b \in Actors : job'[b] = job[b] \/ (b = a /\ job'[b].req = job[a].req)
      BY <1>1, <2>5
    <3> QED
      BY <2>1, <2>3, <2>5, <3>1 DEF MarkInv
  <2> QED
    BY <2>2, <2>4, <2>5
<1>5. CASE CheckRaises(a) \/ PublishRaises(a)
  <2>1. job' = [job EXCEPT ![a].step = "raised"] /\ terminal' = terminal
    BY <1>5 DEF CheckRaises, PublishRaises, Goto, books
  <2> QED
    BY <1>1, <2>1 DEF MarkInv
<1>6. CASE PublishTerminal(a)
  <2>1. job' = [job EXCEPT ![a].step = "mark"] /\ terminal' = terminal
    BY <1>6 DEF PublishTerminal, Goto, books
  <2>2. job[a].req \in Over'
    <3>a. PICK r \in Requests : r = job[a].req
      BY <1>3
    <3>b. PICK e \in TerminalStatus : e = job[a].status
      BY <1>3
    <3>1. events'[r] = Published(r, e)
      BY <1>1, <1>6, <3>a, <3>b DEF PublishTerminal, Append1, TypeOK
    <3>2. CASE HasTerminal(r)
      BY <3>2, <3>a DEF Over
    <3>3. CASE ~ HasTerminal(r)
      <4>1. events[r] \in Seq(Event) /\ Len(events[r]) + 1 \in Nat
        BY <1>1 DEF TypeOK
      <4>2. events'[r] = Append(events[r], e)
        BY <3>1, <3>3 DEF Published
      <4>3. \E i \in DOMAIN Append(events[r], e) : Append(events[r], e)[i] \in TerminalStatus
        BY <4>1, AppendEnds, Zenon
      <4>4. HasTerminal(r)'
        BY <4>2, <4>3 DEF HasTerminal
      <4> QED
        BY <3>a, <4>4 DEF Over
    <3> QED
      BY <3>2, <3>3
  <2> QED
    BY <1>1, <2>1, <2>2 DEF MarkInv
<1>7. CASE MarkTerminal(a)
  <2>1. /\ job' = [job EXCEPT ![a].step = "done"] /\ terminal' = terminal \cup {job[a].req}
        /\ job[a].step = "mark"
    BY <1>7 DEF MarkTerminal, Goto, At
  <2> QED
    BY <1>1, <2>1 DEF MarkInv
<1> QED
  BY <1>4, <1>5, <1>6, <1>7 DEF JobStep

\* Every other step starts a job at its check, ends one or leaves all alone.
LEMMA MarkRest ==
  ASSUME TypeInv, MarkInv, Over \subseteq Over', NEW a \in Actors,
         job' = job \/ Finish(a) \/ (\E r, s : Start(a, r, s)),
         terminal' \subseteq terminal \cup Over
  PROVE  MarkInv'
<1>1. job \in [Actors -> Jobs]
  BY DEF TypeInv, TypeOK
<1>2. \A b \in Actors : job'[b] = job[b] \/ job'[b].step \in {"none", "check"}
  <2>1. CASE Finish(a)
    BY <1>1, <2>1 DEF Finish, NoJob
  <2>2. ASSUME NEW r, NEW s, Start(a, r, s)
        PROVE  \A b \in Actors : job'[b] = job[b] \/ job'[b].step \in {"none", "check"}
    BY <1>1, <2>2 DEF Start
  <2> QED
    BY <2>1, <2>2
<1>3. terminal' \subseteq Over'
  BY DEF MarkInv
<1> QED
  BY <1>2, <1>3 DEF MarkInv

LEMMA MarkStep ==
  ASSUME TypeInv, AnnouncedInv, MarkInv, [Next]_vars
  PROVE  MarkInv'
<1>1. Over \subseteq Over'
  BY EventsStay DEF Over
<1>2. ASSUME NEW r \in Requests, Submit(r) \/ SubmitStep(r)
      PROVE  MarkInv'
  <2>1. r \in Actors /\ terminal' = terminal
    BY <1>2 DEF Actors, Submit, SubmitStep, PublishAccepted, AcceptedRaises, Register, StartRequest,
       StartFails, Unregister, Report, Record, RecordCancelled, SubmitCancels,
       SubmitSettled, SubmitRaised, books
  <2>2. job' = job \/ Finish(r) \/ Start(r, r, "cancelled")
    BY <1>2 DEF Submit, SubmitStep, PublishAccepted, AcceptedRaises, Register, StartRequest,
       StartFails, Unregister, Report, Record, RecordCancelled, SubmitCancels,
       SubmitSettled, SubmitRaised
  <2> QED
    BY <1>1, <2>1, <2>2, MarkRest
<1>3. ASSUME NEW k \in Cancellers,
             CancelStep(k) \/ \E which \in {Requests} \cup {{r} : r \in Requests} : Cancel(k, which)
      PROVE  MarkInv'
  <2>1. k \in Actors /\ terminal' = terminal
    BY <1>3 DEF Actors, CancelStep, CancelNext, CancelSettled, CancelRaised, Cancel, books
  <2>2. job' = job \/ Finish(k) \/ \E r, s : Start(k, r, s)
    BY <1>3 DEF CancelStep, CancelNext, CancelSettled, CancelRaised, Cancel
  <2> QED
    BY <1>1, <2>1, <2>2, MarkRest
<1>4. ASSUME MonitorStep
      PROVE  MarkInv'
  <2>1. Monitor \in Actors
    BY DEF Actors
  <2>2. job' = job \/ Finish(Monitor) \/ \E r, s : Start(Monitor, r, s)
    BY <1>4 DEF MonitorStep, MonitorTop, MonitorWait, MonitorLook, MonitorGet,
       MonitorSettled, MonitorRaised, MonitorLookRaises, MonitorRetire
  <2>3. terminal' \subseteq terminal \cup Over
    <3>1. CASE MonitorRetire
      BY <3>1 DEF MonitorRetire, MStep, Over, TypeInv, HandlesRef
    <3>2. CASE ~ MonitorRetire
      BY <1>4, <3>2 DEF MonitorStep, MonitorTop, MonitorWait, MonitorLook, MonitorGet,
         MonitorSettled, MonitorRaised, MonitorLookRaises, books
    <3> QED
      BY <3>1, <3>2
  <2> QED
    BY <1>1, <2>1, <2>2, <2>3, MarkRest
<1>5. ASSUME NEW r \in Requests, RayMoves(r)
      PROVE  MarkInv'
  <2>1. job' = job /\ terminal' = terminal
    BY <1>5 DEF RayMoves, RayStarts, RayKills, WorkerMoves, WorkerStep, WorkerEnds, Delivered, WorkerPublishRaises,
       WorkerReturns, Lost, WorkerDies, books
  <2> QED
    BY <1>1, <2>1 DEF MarkInv
<1>6. ASSUME NEW a \in Actors, JobStep(a)
      PROVE  MarkInv'
  BY <1>1, <1>6, MarkJob
<1>7. ASSUME UNCHANGED vars
      PROVE  MarkInv'
  <2>1. job' = job /\ terminal' = terminal
    BY <1>7 DEF vars, books
  <2> QED
    BY <1>1, <2>1 DEF MarkInv
<1> QED
  BY <1>2, <1>3, <1>4, <1>5, <1>6, <1>7 DEF Next

LEMMA MarkInvariance == Spec => []MarkInv
<1>1. Init => MarkInv
  BY DEF Init, MarkInv, NoJob
<1> QED
  BY <1>1, AnnouncedInvariance, MarkStep, PTL DEF Spec

\* A request that cancel skips as terminal has a terminal event, whoever
\* published it and whichever call to the publisher failed.
THEOREM Marked == Spec => []MarkedIsTerminal
<1>1. MarkInv => MarkedIsTerminal
  BY DEF MarkInv, MarkedIsTerminal, Over
<1> QED
  BY <1>1, MarkInvariance, PTL

-----------------------------------------------------------------------------
(* Cancelled work does not run on *)

\* Only submit starts the task of a request, and once.
StartedBySubmit ==
  \A r \in Requests : task[r] # "none" =>
    sub[r] \in {"record", "rayCancel", "settle", "report", "accepted", "refused"}

\* What a cancel call has matched, a submit finds cancelled.
TodoCancelled == \A k \in Cancellers : todo[k] \subseteq cancelled

\* The monitor handles tasks that have ended.
HandlesEnded == mpc \in {"look", "get", "settle", "retire"} => Ended(mref)

RaisedIsFault == \A a \in Actors : job[a].step = "raised" => faults > 0

\* A match that had no ref when it was marked is running only while its submit
\* has still to look at _cancelled, or after Ray was asked to kill it.
SubmitWillCancel ==
  faults = 0 => \A k \in Cancellers : \A r \in todo[k] \ withRef :
    Live(r) => sub[r] \in {"record", "rayCancel"} \/ r \in doomed \cup spared

StrayInv ==
  /\ StartedBySubmit /\ TodoCancelled /\ HandlesEnded /\ RaisedIsFault
  /\ SubmitWillCancel /\ NoStrayTask

\* The publisher calls only count failures.
LEMMA FaultsGrow ==
  ASSUME TypeOK, NEW r, NEW e, Append1(r, e) \/ CallRaises(r, e)
  PROVE  faults' \in Nat /\ faults <= faults' /\ (CallRaises(r, e) => faults' > 0)
  BY ServiceAssumption DEF TypeOK, Append1, CallRaises

\* Steps that leave the books alone and start nothing.
LEMMA StrayFrame ==
  ASSUME TypeInv, StrayInv,
         \A r \in Requests :
           \/ task'[r] = task[r]
           \/ Live(r) /\ (Live(r)' \/ Ended(r)'),
         UNCHANGED <<sub, refs, cancelled, todo, withRef, mpc, mref, doomed, spared>>,
         faults' \in Nat, faults <= faults',
         \A a \in Actors : job'[a].step = "raised" => job[a].step = "raised" \/ faults' > 0
  PROVE  StrayInv'
<1>1. TypeOK /\ HandlesRef /\ faults \in Nat
  BY DEF TypeInv, TypeOK
<1>2. StartedBySubmit' /\ TodoCancelled' /\ HandlesEnded' /\ RaisedIsFault'
  BY <1>1 DEF StrayInv, StartedBySubmit, TodoCancelled, HandlesEnded, RaisedIsFault,
       HandlesRef, Live, Ended
<1>3. SubmitWillCancel' /\ NoStrayTask'
  <2>1. faults' = 0 => faults = 0
    BY <1>1
  <2>2. \A r \in Requests : Live(r)' => Live(r)
    BY DEF Live
  <2>3. \A k \in Cancellers : todo[k] \subseteq Requests
    BY <1>1 DEF TypeOK
  <2> QED
    BY <2>1, <2>2, <2>3 DEF StrayInv, SubmitWillCancel, NoStrayTask, Handled
<1> QED
  BY <1>2, <1>3 DEF StrayInv

LEMMA StraySubmit ==
  ASSUME TypeInv, StrayInv, NEW r \in Requests, Submit(r) \/ SubmitStep(r)
  PROVE  StrayInv'
<1> USE DEF engine, books, monitor, canceler, ray, stream,
            StrayInv, StartedBySubmit, TodoCancelled, HandlesEnded, RaisedIsFault,
            SubmitWillCancel, NoStrayTask, Handled, Live, Ended, TypeOK
<1>1. TypeOK /\ HandlesRef /\ r \in Actors
  BY DEF TypeInv, Actors
<1>2. CASE Submit(r)
  BY <1>1, <1>2
  DEF Submit, Step
<1>3. CASE Register(r)
  BY <1>1, <1>3
  DEF Register, Step
<1>4. CASE StartRequest(r)
  BY <1>1, <1>4
  DEF StartRequest, HandlesRef, Step
<1>5. CASE StartFails(r)
  BY <1>1, <1>5
  DEF StartFails, Step
<1>6. CASE Unregister(r)
  BY <1>1, <1>6
  DEF Unregister, Step
<1>7. CASE Record(r)
  BY <1>1, <1>7
  DEF Record, Leaves, EnsureMonitor
<1>8. CASE RecordCancelled(r)
  BY <1>1, <1>8
  DEF RecordCancelled, Step
<1>9. CASE SubmitCancels(r)
  BY <1>1, <1>9
  DEF SubmitCancels, RayCancel, Start, Step
<1>10. CASE SubmitSettled(r)
  BY <1>1, <1>10
  DEF SubmitSettled, Finish, NoJob, Leaves
<1>11. CASE SubmitRaised(r)
  BY <1>1, <1>11
  DEF SubmitRaised, Finish, NoJob, Step
<1>12. CASE PublishAccepted(r)
  BY <1>1, <1>12
  DEF PublishAccepted, Append1, Step
<1>13. CASE AcceptedRaises(r)
  <2>1. (faults > 0 => faults' > 0) /\ (faults' = 0 => faults = 0)
    <3>1. Append1(r, "accepted") \/ CallRaises(r, "accepted")
      BY <1>13 DEF AcceptedRaises
    <3>2. faults' \in Nat /\ faults <= faults' /\ faults \in Nat
      BY <1>1, <3>1, FaultsGrow DEF TypeOK
    <3> QED
      BY <3>2
  <2>2. /\ sub[r] \in {"accept", "report"} /\ sub' = [sub EXCEPT ![r] = "refused"]
        /\ UNCHANGED <<books, job, monitor, canceler, ray>>
    BY <1>13 DEF AcceptedRaises, Leaves
  <2>3. StartedBySubmit' /\ TodoCancelled' /\ HandlesEnded'
    BY <1>1, <2>2
    DEF StrayInv, StartedBySubmit, TodoCancelled, HandlesEnded, Ended, TypeOK, books, monitor, canceler, ray
  <2>4. RaisedIsFault'
    BY <2>1, <2>2 DEF StrayInv, RaisedIsFault
  <2>5. SubmitWillCancel' /\ NoStrayTask'
    BY <1>1, <2>1, <2>2
    DEF StrayInv, SubmitWillCancel, NoStrayTask, Handled, Live, TypeOK, books, canceler, ray
  <2> QED
    BY <2>3, <2>4, <2>5 DEF StrayInv
<1>14. CASE Report(r)
  <2>1. (faults > 0 => faults' > 0) /\ (faults' = 0 => faults = 0)
    <3>1. Append1(r, "ray_error") \/ CallRaises(r, "ray_error")
      BY <1>14 DEF Report
    <3>2. faults' \in Nat /\ faults <= faults' /\ faults \in Nat
      BY <1>1, <3>1, FaultsGrow DEF TypeOK
    <3> QED
      BY <3>2
  <2>2. /\ sub[r] \in {"accept", "report"} /\ sub' = [sub EXCEPT ![r] = "refused"]
        /\ UNCHANGED <<books, job, monitor, canceler, ray>>
    BY <1>14 DEF Report, Leaves
  <2>3. StartedBySubmit' /\ TodoCancelled' /\ HandlesEnded'
    BY <1>1, <2>2
    DEF StrayInv, StartedBySubmit, TodoCancelled, HandlesEnded, Ended, TypeOK, books, monitor, canceler, ray
  <2>4. RaisedIsFault'
    BY <2>1, <2>2 DEF StrayInv, RaisedIsFault
  <2>5. SubmitWillCancel' /\ NoStrayTask'
    BY <1>1, <2>1, <2>2
    DEF StrayInv, SubmitWillCancel, NoStrayTask, Handled, Live, TypeOK, books, canceler, ray
  <2> QED
    BY <2>3, <2>4, <2>5 DEF StrayInv
<1> QED
  BY <1>2, <1>3, <1>4, <1>5, <1>6, <1>7, <1>8, <1>9, <1>10, <1>11, <1>12, <1>13, <1>14
       DEF SubmitStep

LEMMA StrayMonitor ==
  ASSUME TypeInv, StrayInv, MonitorStep
  PROVE  StrayInv'
<1> USE DEF engine, books, monitor, canceler, ray, stream,
            StrayInv, StartedBySubmit, TodoCancelled, HandlesEnded, RaisedIsFault,
            SubmitWillCancel, NoStrayTask, Handled, Live, Ended, TypeOK
<1>1. TypeOK /\ HandlesRef /\ Monitor \in Actors
  BY DEF TypeInv, Actors
<1>2. CASE MonitorTop
  BY <1>1, <1>2
  DEF MonitorTop
<1>3. CASE MonitorWait
  BY <1>1, <1>3
  DEF MonitorWait
<1>4. CASE MonitorLook
  BY <1>1, <1>4
  DEF MonitorLook
<1>5. CASE MonitorGet
  <2>1. /\ mpc = "get" /\ mpc' \in {"settle", "retire"}
        /\ UNCHANGED <<engine, books, mref, waiting, canceler, ray, stream>>
        /\ job' = job \/ \E s : Start(Monitor, mref, s)
    BY <1>5, Zenon DEF MonitorGet
  <2>2. \A a \in Actors : job'[a] = job[a] \/ job'[a].step = "check"
    <3>1. CASE job' = job
      BY <3>1
    <3>2. ASSUME NEW s, Start(Monitor, mref, s)
          PROVE  \A a \in Actors : job'[a] = job[a] \/ job'[a].step = "check"
      BY <1>1, <3>2 DEF Start, TypeOK
    <3> QED
      BY <2>1, <3>1, <3>2
  <2> QED
    BY <1>1, <2>1, <2>2
    DEF StrayInv, StartedBySubmit, TodoCancelled, HandlesEnded, RaisedIsFault, SubmitWillCancel,
        NoStrayTask, Handled, Live, Ended, engine, books, canceler, ray, stream
<1>6. CASE MonitorSettled
  BY <1>1, <1>6
  DEF MonitorSettled, MStep, Finish, NoJob
<1>7. CASE MonitorRaised
  BY <1>1, <1>7
  DEF MonitorRaised, MStep, Finish, NoJob
<1>8. CASE MonitorLookRaises
  BY <1>1, <1>8
  DEF MonitorLookRaises
<1>9. CASE MonitorRetire
  BY <1>1, <1>9
  DEF MonitorRetire, MStep
<1> QED
  BY <1>2, <1>3, <1>4, <1>5, <1>6, <1>7, <1>8, <1>9 DEF MonitorStep

LEMMA StrayCancel ==
  ASSUME TypeInv, StrayInv, NEW k \in Cancellers,
         \/ \E which \in {Requests} \cup {{r} : r \in Requests} : Cancel(k, which)
         \/ CancelStep(k)
  PROVE  StrayInv'
<1>1. TypeOK /\ HandlesRef /\ k \in Actors
  BY DEF TypeInv, Actors
<1>2. CASE \E which \in {Requests} \cup {{r} : r \in Requests} : Cancel(k, which)
  <2>1. PICK which \in {Requests} \cup {{r} : r \in Requests} : Cancel(k, which)
    BY <1>2
  <2>2. /\ todo[k] = {} /\ todo' = [todo EXCEPT ![k] = Matches(which)]
        /\ cancelled' = cancelled \cup Matches(which)
        /\ withRef' = withRef \cup (refs \cap Matches(which))
        /\ refs' = refs \ Matches(which)
        /\ UNCHANGED <<sub, task, mpc, mref, job, faults, doomed, spared>>
    BY <2>1 DEF Cancel, engine, monitor, ray, stream
  <2>3. Matches(which) \cap cancelled = {} /\ Matches(which) \subseteq Requests
    BY <1>1 DEF Matches, TypeOK
  <2>4. StartedBySubmit' /\ HandlesEnded' /\ RaisedIsFault'
    BY <2>2 DEF StrayInv, StartedBySubmit, HandlesEnded, RaisedIsFault, Ended
  <2>5. TodoCancelled'
    BY <1>1, <2>2 DEF StrayInv, TodoCancelled, TypeOK
  <2>6. ASSUME faults = 0, NEW r \in Matches(which), Live(r), r \notin refs
        PROVE  sub[r] \in {"record", "rayCancel"} \/ r \in doomed \cup spared
    <3>1. Handled(r) \/ r \in doomed \cup spared
      BY <2>3, <2>6 DEF StrayInv, NoStrayTask
    <3>2. \A q \in Cancellers : r \notin todo[q]
      BY <2>3 DEF StrayInv, TodoCancelled
    <3> QED
      BY <2>6, <3>1, <3>2 DEF Handled
  <2>7. SubmitWillCancel'
    <3> SUFFICES ASSUME faults = 0, NEW q \in Cancellers, NEW r \in todo'[q], r \notin withRef', Live(r)
                 PROVE  sub[r] \in {"record", "rayCancel"} \/ r \in doomed \cup spared
      BY <2>2 DEF SubmitWillCancel, Live
    <3>1. CASE q = k
      BY <1>1, <2>2, <2>6, <3>1 DEF TypeOK
    <3>2. CASE q # k
      BY <1>1, <2>2, <3>2 DEF StrayInv, SubmitWillCancel, TypeOK
    <3> QED
      BY <3>1, <3>2
  <2>8. NoStrayTask'
    BY <1>1, <2>2 DEF StrayInv, NoStrayTask, Handled, Live, TypeOK
  <2> QED
    BY <2>4, <2>5, <2>7, <2>8 DEF StrayInv
<1>3. CASE CancelNext(k)
  <2>1. PICK r \in todo[k] :
          /\ todo' = [todo EXCEPT ![k] = @ \ {r}]
          /\ IF r \in withRef THEN RayCancel(r) ELSE UNCHANGED ray
          /\ withRef' = withRef \ {r}
          /\ Start(k, r, "cancelled")
          /\ UNCHANGED <<engine, books, monitor, cancels, stream>>
    BY <1>3 DEF CancelNext
  <2>2. r \in Requests
    BY <1>1 DEF TypeOK
  <2>3. /\ UNCHANGED <<sub, task, refs, cancelled, mpc, mref, faults>>
        /\ doomed \cup spared \subseteq doomed' \cup spared'
        /\ r \in withRef => r \in doomed' \cup spared'
    BY <2>1 DEF RayCancel, engine, books, monitor, ray, stream
  <2>4. \A q \in Requests : (Live(q) <=> Live(q)') /\ (Ended(q) <=> Ended(q)')
    BY <2>3 DEF Live, Ended
  <2>5. StartedBySubmit' /\ HandlesEnded'
    BY <1>1, <2>3 DEF StrayInv, StartedBySubmit, HandlesEnded, HandlesRef, Ended
  <2>6. RaisedIsFault'
    BY <1>1, <2>1, <2>3 DEF StrayInv, RaisedIsFault, Start, TypeOK
  <2>7. \A q \in Cancellers : todo'[q] \subseteq todo[q] /\ todo[q] \ {r} \subseteq todo'[q]
    BY <1>1, <2>1 DEF TypeOK
  <2>8. TodoCancelled'
    BY <2>3, <2>7 DEF StrayInv, TodoCancelled
  <2>9. ASSUME faults = 0, NEW q \in Cancellers, NEW x \in todo[q], x \notin withRef', Live(x)
        PROVE  sub[x] \in {"record", "rayCancel"} \/ x \in doomed' \cup spared'
    <3>1. CASE x \in withRef
      BY <2>1, <2>3, <2>9, <3>1
    <3>2. CASE x \notin withRef
      BY <2>3, <2>9, <3>2 DEF StrayInv, SubmitWillCancel
    <3> QED
      BY <3>1, <3>2
  <2>10. SubmitWillCancel'
    <3> SUFFICES ASSUME faults = 0, NEW q \in Cancellers, NEW x \in todo'[q], x \notin withRef', Live(x)'
                 PROVE  sub[x] \in {"record", "rayCancel"} \/ x \in doomed' \cup spared'
      BY <2>3 DEF SubmitWillCancel
    <3>1. x \in todo[q] /\ x \in Requests /\ Live(x)
      BY <1>1, <2>4, <2>7 DEF TypeOK
    <3> QED
      BY <2>9, <3>1
  <2>11. NoStrayTask'
    <3> SUFFICES ASSUME faults = 0, NEW x \in Requests, Live(x)'
                 PROVE  Handled(x)' \/ x \in doomed' \cup spared'
      BY <2>3 DEF NoStrayTask
    <3>1. Live(x) /\ (Handled(x) \/ x \in doomed \cup spared)
      BY <2>4 DEF StrayInv, NoStrayTask
    <3>2. CASE x = r
      <4>1. sub[r] \in {"record", "rayCancel"} \/ r \in doomed' \cup spared'
        BY <2>1, <2>9, <3>1, <3>2
      <4> QED
        BY <2>3, <3>2, <4>1 DEF Handled
    <3>3. CASE x # r
      BY <2>3, <2>7, <3>1, <3>3 DEF Handled
    <3> QED
      BY <3>2, <3>3
  <2> QED
    BY <2>5, <2>6, <2>8, <2>10, <2>11 DEF StrayInv
<1>4. CASE CancelSettled(k)
  <2>1. UNCHANGED <<sub, task, refs, cancelled, todo, withRef, mpc, mref, faults, doomed, spared>>
    BY <1>4 DEF CancelSettled, engine, books, monitor, ray, stream
  <2>2. \A a \in Actors : job'[a].step = "raised" => job[a].step = "raised"
    BY <1>1, <1>4 DEF CancelSettled, Finish, NoJob, TypeOK
  <2> QED
    BY <1>1, <2>1, <2>2, StrayFrame DEF TypeOK
<1>5. CASE CancelRaised(k)
  <2>1. /\ UNCHANGED <<sub, task, refs, cancelled, withRef, mpc, mref, faults, doomed, spared>>
        /\ todo' = [todo EXCEPT ![k] = {}] /\ job[k].step = "raised"
        /\ Finish(k)
    BY <1>5 DEF CancelRaised, At, engine, books, monitor, ray, stream
  <2>2. faults > 0 /\ faults \in Nat
    BY <1>1, <2>1 DEF StrayInv, RaisedIsFault, TypeOK
  <2> QED
    BY <1>1, <2>1, <2>2
    DEF StrayInv, StartedBySubmit, TodoCancelled, HandlesEnded, RaisedIsFault, SubmitWillCancel,
        NoStrayTask, Ended, Finish, NoJob, TypeOK
<1> QED
  BY <1>2, <1>3, <1>4, <1>5 DEF CancelStep

LEMMA StrayJob ==
  ASSUME TypeInv, StrayInv, NEW a \in Actors, JobStep(a)
  PROVE  StrayInv'
<1>1. TypeOK /\ job \in [Actors -> Jobs] /\ faults \in Nat
  BY DEF TypeInv, TypeOK
<1>2. UNCHANGED <<sub, task, refs, cancelled, todo, withRef, mpc, mref, doomed, spared>>
  BY DEF JobStep, CheckTerminal, CheckRaises, PublishTerminal, PublishRaises, MarkTerminal,
     engine, books, monitor, canceler, ray
<1>3. CASE CheckTerminal(a) \/ MarkTerminal(a) \/ PublishTerminal(a)
  <2>1. faults' = faults
    BY <1>3 DEF CheckTerminal, MarkTerminal, PublishTerminal, Append1, stream
  <2>2. PICK step \in {"mark", "publish", "done"} : job' = [job EXCEPT ![a].step = step]
    BY <1>3, Zenon DEF CheckTerminal, MarkTerminal, PublishTerminal, Goto
  <2>3. \A b \in Actors : job'[b] = job[b] \/ job'[b].step = step
    BY <1>1, <2>2
  <2> QED
    BY <1>1, <1>2, <2>1, <2>3, StrayFrame
<1>4. CASE CheckRaises(a) \/ PublishRaises(a)
  <2>1. faults' \in Nat /\ faults <= faults' /\ faults' > 0
    BY <1>1, <1>4 DEF CheckRaises, PublishRaises, CallRaises
  <2> QED
    BY <1>1, <1>2, <2>1, StrayFrame
<1> QED
  BY <1>3, <1>4 DEF JobStep

LEMMA StrayWorker ==
  ASSUME TypeInv, StrayInv, NEW r \in Requests,
         RayMoves(r)
  PROVE  StrayInv'
<1>1. TypeOK /\ faults \in Nat
  BY DEF TypeInv, TypeOK
<1>2. UNCHANGED <<sub, refs, cancelled, todo, withRef, mpc, mref, job, doomed, spared>>
  BY DEF RayMoves, RayStarts, RayKills, WorkerMoves, WorkerStep, WorkerEnds, Delivered, WorkerPublishRaises,
     WorkerReturns, Lost, WorkerDies, engine, books, monitor, canceler
<1>3. faults' \in Nat /\ faults <= faults'
  <2>1. CASE WorkerPublishRaises(r)
    BY <1>1, <2>1 DEF WorkerPublishRaises, CallRaises
  <2>2. CASE ~ WorkerPublishRaises(r)
    BY <1>1, <2>2 DEF RayMoves, RayStarts, RayKills, WorkerMoves, WorkerStep, WorkerEnds, Delivered, Append1,
       WorkerReturns, Lost, WorkerDies, stream
  <2> QED
    BY <2>1, <2>2
<1>4. \A q \in Requests : task'[q] = task[q] \/ (Live(q) /\ (Live(q)' \/ Ended(q)'))
  BY <1>1 DEF RayMoves, RayStarts, RayKills, WorkerMoves, WorkerStep, WorkerEnds, Delivered, WorkerPublishRaises,
     WorkerReturns, Lost, WorkerDies, Live, Ended, TypeOK
<1> QED
  BY <1>2, <1>3, <1>4, StrayFrame

LEMMA StrayStep == TypeInv /\ StrayInv /\ [Next]_vars => StrayInv'
<1> SUFFICES ASSUME TypeInv, StrayInv, [Next]_vars PROVE StrayInv'
  OBVIOUS
<1>1. CASE UNCHANGED vars
  <2>1. UNCHANGED <<sub, task, refs, cancelled, todo, withRef, mpc, mref, job, faults, doomed,
                    spared>>
    BY <1>1 DEF vars, engine, books, monitor, canceler, ray, stream
  <2>2. faults \in Nat
    BY DEF TypeInv, TypeOK
  <2> QED
    BY <2>1, <2>2, StrayFrame
<1>2. CASE Next
  BY <1>2, StraySubmit, StrayMonitor, StrayCancel, StrayJob, StrayWorker DEF Next
<1> QED
  BY <1>1, <1>2

LEMMA StrayInvariance == Spec => []StrayInv
<1>1. Init => StrayInv
  BY DEF Init, StrayInv, StartedBySubmit, TodoCancelled, HandlesEnded, RaisedIsFault,
     SubmitWillCancel, NoStrayTask, Live, NoJob
<1> QED
  BY <1>1, TypeInvariance, StrayStep, PTL DEF Spec

\* While calls to the publisher succeed, no rollout runs on that is neither tracked,
\* about to be, nor one Ray is still to kill, except where ray.cancel raised: not when
\* a cancel falls between the two locked stretches of submit, nor when several cancels
\* match overlapping groups.
THEOREM NoneStrays == Spec => []NoStrayTask
<1>1. StrayInv => NoStrayTask
  BY DEF StrayInv
<1> QED
  BY <1>1, StrayInvariance, PTL

-----------------------------------------------------------------------------
(* Nobody is forgotten: the safety half of Terminates and BooksClose.      *)

\* Who is in a _publish_terminal_status call, and for whom.
JobsPlaced ==
  /\ \A r \in Requests : job[r].step # "none" => sub[r] = "settle"
  /\ \A k \in Cancellers : job[k].step # "none" => cur[k] # NoRequest
  /\ job[Monitor].step # "none" => mpc = "settle" /\ job[Monitor].req = mref

LEMMA PlacedSubmit ==
  ASSUME TypeInv, JobsPlaced, NEW r \in Requests, Submit(r) \/ SubmitStep(r)
  PROVE  JobsPlaced'
<1>1. /\ job \in [Actors -> Jobs] /\ sub \in [Requests -> SubmitPC] /\ r \in Actors
      /\ r \notin Cancellers /\ r # Monitor
  BY ServiceAssumption DEF TypeInv, TypeOK, Actors
<1>2. /\ UNCHANGED <<cur, mref>> /\ (mpc' = mpc \/ mpc = "off")
      /\ \A q \in Requests : q # r => sub'[q] = sub[q]
      /\ job' = job \/ Finish(r) \/ (Start(r, r, "cancelled") /\ sub'[r] = "settle")
      /\ sub[r] = "settle" => Finish(r)
  BY <1>1 DEF Submit, SubmitStep, PublishAccepted, AcceptedRaises, Register, StartRequest,
     StartFails, Unregister, Report, Record, RecordCancelled, SubmitCancels, SubmitSettled,
     SubmitRaised, Leaves, Step, EnsureMonitor, monitor, canceler
<1>3. /\ \A a \in Actors : a # r => job'[a] = job[a]
      /\ job'[r].step # "none" => sub'[r] = "settle"
  <2>1. CASE job' = job
    BY <1>1, <1>2, <2>1 DEF JobsPlaced, Finish, NoJob
  <2>2. CASE Finish(r)
    BY <1>1, <2>2 DEF Finish, NoJob
  <2>3. CASE Start(r, r, "cancelled") /\ sub'[r] = "settle"
    BY <1>1, <2>3 DEF Start
  <2> QED
    BY <1>2, <2>1, <2>2, <2>3
<1> QED
  BY <1>1, <1>2, <1>3 DEF JobsPlaced, Actors

LEMMA PlacedCancel ==
  ASSUME TypeInv, JobsPlaced, NEW k \in Cancellers,
         \/ \E which \in {Requests} \cup {{r} : r \in Requests} : Cancel(k, which)
         \/ CancelStep(k)
  PROVE  JobsPlaced'
<1>1. /\ job \in [Actors -> Jobs] /\ cur \in [Cancellers -> Requests \cup {NoRequest}]
      /\ k \in Actors /\ k \notin Requests /\ k # Monitor /\ NoRequest \notin Requests
      /\ \A q \in Cancellers : todo[q] \subseteq Requests
  BY ServiceAssumption DEF TypeInv, TypeOK, Actors
<1>2. UNCHANGED <<sub, mpc, mref>>
  BY DEF Cancel, CancelStep, CancelNext, CancelSettled, CancelRaised, engine, monitor
<1>3. /\ \A a \in Actors : a # k => job'[a] = job[a]
      /\ \A q \in Cancellers : q # k => cur'[q] = cur[q]
      /\ job'[k].step # "none" => cur'[k] # NoRequest
  <2>1. CASE \E which \in {Requests} \cup {{r} : r \in Requests} : Cancel(k, which)
    BY <2>1 DEF Cancel, JobsPlaced
  <2>2. CASE CancelNext(k)
    BY <1>1, <2>2 DEF CancelNext, Start
  <2>3. CASE CancelSettled(k) \/ CancelRaised(k)
    BY <1>1, <2>3 DEF CancelSettled, CancelRaised, Finish, NoJob
  <2> QED
    BY <2>1, <2>2, <2>3 DEF CancelStep
<1> QED
  BY <1>1, <1>2, <1>3 DEF JobsPlaced, Actors

LEMMA PlacedMonitor ==
  ASSUME TypeInv, JobsPlaced, MonitorStep
  PROVE  JobsPlaced'
<1>1. /\ job \in [Actors -> Jobs] /\ Monitor \in Actors
      /\ Monitor \notin Requests \cup Cancellers
  BY ServiceAssumption DEF TypeInv, TypeOK, Actors
<1>2. UNCHANGED <<sub, cur>>
  BY DEF MonitorStep, MonitorTop, MonitorWait, MonitorLook, MonitorGet, MonitorSettled,
     MonitorRaised, MonitorLookRaises, MonitorRetire, engine, canceler
<1>3. /\ \A a \in Actors : a # Monitor => job'[a] = job[a]
      /\ job'[Monitor].step # "none" => mpc' = "settle" /\ job'[Monitor].req = mref'
  <2>1. CASE MonitorTop \/ MonitorWait \/ MonitorLook \/ MonitorLookRaises \/ MonitorRetire
    BY <2>1 DEF MonitorTop, MonitorWait, MonitorLook, MonitorLookRaises, MonitorRetire, MStep,
       JobsPlaced
  <2>2. CASE MonitorGet
    <3>1. PICK s \in {"event_error", "ray_error"} :
            \/ job' = job /\ mpc = "get"
            \/ Start(Monitor, mref, s) /\ mpc' = "settle" /\ mref' = mref
      BY <2>2, Zenon DEF MonitorGet
    <3> QED
      BY <1>1, <3>1 DEF Start, JobsPlaced
  <2>3. CASE MonitorSettled \/ MonitorRaised
    BY <1>1, <2>3 DEF MonitorSettled, MonitorRaised, Finish, NoJob
  <2> QED
    BY <2>1, <2>2, <2>3 DEF MonitorStep
<1> QED
  BY <1>1, <1>2, <1>3 DEF JobsPlaced, Actors

LEMMA PlacedStep ==
  ASSUME TypeInv, JobsPlaced, [Next]_vars
  PROVE  JobsPlaced'
<1>1. job \in [Actors -> Jobs]
  BY DEF TypeInv, TypeOK
<1>2. ASSUME NEW a \in Actors, JobStep(a)
      PROVE  JobsPlaced'
  <2>1. job[a].step # "none" /\ UNCHANGED <<sub, cur, mpc, mref>>
    BY <1>2 DEF JobStep, CheckTerminal, CheckRaises, PublishTerminal, PublishRaises, MarkTerminal,
       At, engine, canceler, monitor
  <2>2. PICK step : job' = [job EXCEPT ![a].step = step]
    BY <1>2 DEF JobStep, CheckTerminal, CheckRaises, PublishTerminal, PublishRaises, MarkTerminal,
       Goto
  <2>3. \A b \in Actors : /\ job'[b].req = job[b].req
                          /\ job'[b].step # "none" => job[b].step # "none"
    <3>1. job[a] \in [step : JobSteps, req : Requests, status : TerminalStatus]
      BY <1>1, <2>1 DEF Jobs, NoJob
    <3> QED
      BY <1>1, <2>1, <2>2, <3>1
  <2> QED
    BY <2>1, <2>3 DEF JobsPlaced, Actors
<1>3. ASSUME NEW r \in Requests, RayMoves(r)
      PROVE  JobsPlaced'
  <2>1. UNCHANGED <<job, sub, cur, mpc, mref>>
    BY <1>3 DEF RayMoves, RayStarts, RayKills, WorkerMoves, WorkerStep, WorkerEnds, Delivered, WorkerPublishRaises,
       WorkerReturns, Lost, WorkerDies, engine, canceler, monitor
  <2> QED
    BY <2>1 DEF JobsPlaced
<1>4. CASE UNCHANGED vars
  BY <1>4 DEF JobsPlaced, vars, engine, canceler, monitor
<1> QED
  BY <1>2, <1>3, <1>4, PlacedSubmit, PlacedCancel, PlacedMonitor DEF Next

\* A job that is on its way to publish either goes on or gets past publishing.
LEMMA JobMoves ==
  ASSUME TypeInv, JobsPlaced, [Next]_vars, NEW a \in Actors,
         job[a].step \in {"check", "publish"}
  PROVE  job'[a].req = job[a].req /\ job'[a].step \in JobSteps
<1>1. /\ job \in [Actors -> Jobs] /\ job[a].step \in JobSteps
      /\ job[a] \in [step : JobSteps, req : Requests, status : TerminalStatus]
  BY DEF TypeInv, TypeOK, JobSteps, Jobs, NoJob
<1>2. SUFFICES job'[a] = job[a] \/ \E step \in JobSteps : Goto(a, step)
  BY <1>1 DEF Goto
<1>3. ASSUME NEW r \in Requests, Submit(r) \/ SubmitStep(r)
      PROVE  job'[a] = job[a]
  <2>1. job' = job \/ (Finish(r) /\ job[r].step \in {"done", "raised"})
                   \/ (Start(r, r, "cancelled") /\ sub[r] = "rayCancel")
    BY <1>3 DEF Submit, SubmitStep, PublishAccepted, AcceptedRaises, Register, StartRequest,
       StartFails, Unregister, Report, Record, RecordCancelled, SubmitCancels, SubmitSettled,
       SubmitRaised, Step, At
  <2>2. sub[r] = "rayCancel" => job[r].step = "none"
    BY DEF JobsPlaced
  <2>3. job' = job \/ a # r
    BY <2>1, <2>2
  <2> QED
    BY <1>1, <2>1, <2>3 DEF Finish, Start
<1>4. ASSUME NEW k \in Cancellers,
             CancelStep(k) \/ \E which \in {Requests} \cup {{r} : r \in Requests} : Cancel(k, which)
      PROVE  job'[a] = job[a]
  <2>1. job' = job \/ (Finish(k) /\ job[k].step \in {"done", "raised"})
                   \/ (cur[k] = NoRequest /\ \E r : Start(k, r, "cancelled"))
    BY <1>4 DEF CancelStep, CancelNext, CancelSettled, CancelRaised, Cancel, At
  <2>2. cur[k] = NoRequest => job[k].step = "none"
    BY DEF JobsPlaced
  <2>3. job' = job \/ a # k
    BY <2>1, <2>2
  <2> QED
    BY <1>1, <2>1, <2>3 DEF Finish, Start
<1>5. ASSUME MonitorStep
      PROVE  job'[a] = job[a]
  <2>1. job' = job \/ (Finish(Monitor) /\ job[Monitor].step \in {"done", "raised"})
                   \/ (mpc = "get" /\ \E r, s : Start(Monitor, r, s))
    BY <1>5 DEF MonitorStep, MonitorTop, MonitorWait, MonitorLook, MonitorGet, MonitorSettled,
       MonitorRaised, MonitorLookRaises, MonitorRetire, At
  <2>2. mpc = "get" => job[Monitor].step = "none"
    BY DEF JobsPlaced
  <2>3. job' = job \/ a # Monitor
    BY <2>1, <2>2
  <2> QED
    BY <1>1, <2>1, <2>3 DEF Finish, Start
<1>6. ASSUME NEW b \in Actors, JobStep(b)
      PROVE  job'[a] = job[a] \/ \E step \in JobSteps : Goto(a, step)
  <2>1. PICK step \in JobSteps : Goto(b, step)
    BY <1>6, Zenon DEF JobStep, CheckTerminal, CheckRaises, PublishTerminal, PublishRaises,
       MarkTerminal, JobSteps
  <2>2. CASE b # a
    BY <1>1, <2>1, <2>2 DEF Goto
  <2> QED
    BY <2>1, <2>2
<1>7. ASSUME NEW r \in Requests, RayMoves(r)
      PROVE  job' = job
  BY <1>7 DEF RayMoves, RayStarts, RayKills, WorkerMoves, WorkerStep, WorkerEnds, Delivered, WorkerPublishRaises,
     WorkerReturns, Lost, WorkerDies
<1>8. ASSUME UNCHANGED vars
      PROVE  job' = job
  BY <1>8 DEF vars
<1> QED
  BY <1>3, <1>4, <1>5, <1>6, <1>7, <1>8 DEF Next

\* No step takes back a failure.
LEMMA FaultsStay ==
  ASSUME TypeInv, [Next]_vars, faults' = 0
  PROVE  faults = 0
<1>1. faults \in Nat
  BY DEF TypeInv, TypeOK
<1>2. faults' = faults \/ faults' = faults + 1
  <2>1. ASSUME NEW r \in Requests, Submit(r) \/ SubmitStep(r)
        PROVE  faults' = faults \/ faults' = faults + 1
    BY <2>1 DEF Submit, SubmitStep, PublishAccepted, AcceptedRaises, Register, StartRequest,
       StartFails, Unregister, Report, Record, RecordCancelled, SubmitCancels, SubmitSettled,
       SubmitRaised, Append1, CallRaises, stream
  <2>2. ASSUME NEW k \in Cancellers,
               CancelStep(k) \/ \E which \in {Requests} \cup {{r} : r \in Requests} : Cancel(k, which)
        PROVE  faults' = faults
    BY <2>2 DEF CancelStep, CancelNext, CancelSettled, CancelRaised, Cancel, stream
  <2>3. ASSUME MonitorStep
        PROVE  faults' = faults \/ faults' = faults + 1
    BY <2>3 DEF MonitorStep, MonitorTop, MonitorWait, MonitorLook, MonitorGet, MonitorSettled,
       MonitorRaised, MonitorLookRaises, MonitorRetire, stream
  <2>4. ASSUME NEW a \in Actors, JobStep(a)
        PROVE  faults' = faults \/ faults' = faults + 1
    BY <2>4 DEF JobStep, CheckTerminal, CheckRaises, PublishTerminal, PublishRaises, MarkTerminal,
       Append1, CallRaises, stream
  <2>5. ASSUME NEW r \in Requests, RayMoves(r)
        PROVE  faults' = faults \/ faults' = faults + 1
    BY <2>5 DEF RayMoves, RayStarts, RayKills, WorkerMoves, WorkerStep, WorkerEnds, Delivered, WorkerPublishRaises,
       WorkerReturns, Lost, WorkerDies, Append1, CallRaises, stream
  <2>6. CASE UNCHANGED vars
    BY <2>6 DEF vars, stream
  <2> QED
    BY <2>1, <2>2, <2>3, <2>4, <2>5, <2>6 DEF Next
<1> QED
  BY <1>1, <1>2

\* While calls to the publisher succeed, a request that a call is pledged to end
\* stays pledged until its terminal event is there.
LEMMA PledgeKept ==
  ASSUME TypeInv, JobsPlaced, RaisedIsFault, RaisedIsFault', MarkInv', [Next]_vars,
         faults' = 0, NEW r \in Requests, Pledged(r)
  PROVE  Pledged(r)' \/ HasTerminal(r)'
<1>1. faults = 0
  BY FaultsStay
<1>2. ASSUME NEW a \in Actors, job[a].step \in {"check", "publish"}, job[a].req = r
      PROVE  Pledged(r)' \/ HasTerminal(r)'
  <2>1. job'[a].req = r /\ job'[a].step \in JobSteps
    BY <1>2, JobMoves
  <2>2. job'[a].step # "raised"
    BY DEF RaisedIsFault
  <2>3. CASE job'[a].step \in {"check", "publish"}
    BY <2>1, <2>3 DEF Pledged
  <2>4. CASE job'[a].step \in {"mark", "done"}
    <3>1. job'[a].req \in Over'
      BY <2>4 DEF MarkInv
    <3> QED
      BY <2>1, <3>1 DEF Over
  <2> QED
    BY <2>1, <2>2, <2>3, <2>4 DEF JobSteps
<1>3. ASSUME NEW k \in Cancellers, r \in todo[k]
      PROVE  Pledged(r)'
  <2>1. /\ todo \in [Cancellers -> SUBSET Requests] /\ job \in [Actors -> Jobs]
        /\ Cancellers \subseteq Actors
    BY DEF TypeInv, TypeOK, Actors
  <2>2. ASSUME NEW q \in Cancellers, NEW which, Cancel(q, which)
        PROVE  r \in todo'[k]
    BY <1>3, <2>1, <2>2 DEF Cancel
  <2>3. ASSUME NEW q \in Cancellers, CancelNext(q)
        PROVE  Pledged(r)'
    <3>1. PICK x \in todo[q] : /\ todo' = [todo EXCEPT ![q] = @ \ {x}]
                               /\ Start(q, x, "cancelled")
      BY <2>3 DEF CancelNext
    <3>2. job'[q].step = "check" /\ job'[q].req = x
      BY <2>1, <3>1 DEF Start
    <3>3. CASE q = k /\ x = r
      BY <2>1, <3>2, <3>3 DEF Pledged
    <3>4. CASE q # k \/ x # r
      BY <1>3, <2>1, <3>1, <3>4 DEF Pledged
    <3> QED
      BY <3>3, <3>4
  <2>4. ASSUME NEW q \in Cancellers, CancelRaised(q)
        PROVE  FALSE
    BY <1>1, <2>1, <2>4 DEF CancelRaised, At, RaisedIsFault
  <2>5. ASSUME NEW q \in Cancellers, CancelSettled(q)
        PROVE  todo' = todo
    BY <2>5 DEF CancelSettled
  <2>6. ASSUME NEW q \in Requests, Submit(q) \/ SubmitStep(q)
        PROVE  todo' = todo
    BY <2>6 DEF Submit, SubmitStep, PublishAccepted, AcceptedRaises, Register, StartRequest,
       StartFails, Unregister, Report, Record, RecordCancelled, SubmitCancels, SubmitSettled,
       SubmitRaised, canceler
  <2>7. ASSUME MonitorStep
        PROVE  todo' = todo
    BY <2>7 DEF MonitorStep, MonitorTop, MonitorWait, MonitorLook, MonitorGet, MonitorSettled,
       MonitorRaised, MonitorLookRaises, MonitorRetire, canceler
  <2>8. ASSUME NEW a \in Actors, JobStep(a)
        PROVE  todo' = todo
    BY <2>8 DEF JobStep, CheckTerminal, CheckRaises, PublishTerminal, PublishRaises, MarkTerminal,
       canceler
  <2>9. ASSUME NEW q \in Requests, RayMoves(q)
        PROVE  todo' = todo
    BY <2>9 DEF RayMoves, RayStarts, RayKills, WorkerMoves, WorkerStep, WorkerEnds, Delivered, WorkerPublishRaises,
       WorkerReturns, Lost, WorkerDies, canceler
  <2>10. ASSUME UNCHANGED vars
         PROVE  todo' = todo
    BY <2>10 DEF vars, canceler
  <2> QED
    BY <1>3, <2>2, <2>3, <2>4, <2>5, <2>6, <2>7, <2>8, <2>9, <2>10 DEF Next, CancelStep, Pledged
<1> QED
  BY <1>2, <1>3 DEF Pledged


\* An accepted request whose stream has not ended.
Unended(r) == Announced(r) /\ ~ HasTerminal(r)

\* While no call to the publisher has raised: whatever the client was told is
\* accepted has somebody who is going to end it - its submit, the monitor, or a
\* call that publishes its terminal event or has it on its list.
NobodyForgotten ==
  faults = 0 => \A r \in Requests : Unended(r) =>
    Submitting(r) \/ Pledged(r) \/ (r \in refs /\ mpc # "off")

\* What is tracked has a monitor.
RefsWatched == faults = 0 /\ refs # {} => mpc # "off"

\* The monitor lets go of what has ended.
RetiresEnded == faults = 0 /\ mpc = "retire" => HasTerminal(mref)

OwnInv == JobsPlaced /\ NobodyForgotten /\ RefsWatched /\ RetiresEnded

\* A stream begins with the accepted event its submit publishes.
LEMMA Announcer ==
  ASSUME TypeInv, AnnouncedInv, [Next]_vars, faults' = 0, NEW r \in Requests,
         ~ Announced(r), Announced(r)'
  PROVE  sub'[r] = "register"
<1>1. /\ events \in [Requests -> Seq(Event)] /\ sub \in [Requests -> SubmitPC]
      /\ faults \in Nat /\ events'[r] # events[r]
  BY DEF TypeInv, TypeOK, Announced
<1>2. ASSUME NEW q \in Requests, NEW e, Append1(q, e) \/ CallRaises(q, e)
      PROVE  q = r
  <2>1. events' = events \/ events' = [events EXCEPT ![q] = Published(q, e)]
    BY <1>2, Zenon DEF Append1, CallRaises
  <2> QED
    BY <1>1, <2>1
<1>3. ASSUME NEW q \in Requests, Submit(q) \/ SubmitStep(q)
      PROVE  sub'[r] = "register"
  <2>1. CASE PublishAccepted(q)
    <3>1. q = r
      BY <1>2, <2>1 DEF PublishAccepted
    <3> QED
      BY <1>1, <2>1, <3>1 DEF PublishAccepted, Step
  <2>2. CASE AcceptedRaises(q)
    BY <1>1, <2>2 DEF AcceptedRaises, CallRaises
  <2>3. CASE Report(q)
    <3>1. q = r
      BY <1>2, <2>3 DEF Report
    <3> QED
      BY <2>3, <3>1 DEF Report, AnnouncedInv
  <2>4. ASSUME Submit(q) \/ Register(q) \/ StartRequest(q) \/ StartFails(q) \/ Unregister(q)
               \/ Record(q) \/ RecordCancelled(q) \/ SubmitCancels(q) \/ SubmitSettled(q)
               \/ SubmitRaised(q)
        PROVE  events' = events
    BY <2>4 DEF Submit, Register, StartRequest, StartFails, Unregister, Record,
       RecordCancelled, SubmitCancels, SubmitSettled, SubmitRaised, stream
  <2> QED
    BY <1>1, <1>3, <2>1, <2>2, <2>3, <2>4 DEF SubmitStep
<1>4. ASSUME NEW k \in Cancellers,
             CancelStep(k) \/ \E which \in {Requests} \cup {{q} : q \in Requests} : Cancel(k, which)
      PROVE  events' = events
  BY <1>4 DEF CancelStep, CancelNext, CancelSettled, CancelRaised, Cancel, stream
<1>5. ASSUME MonitorStep
      PROVE  events' = events
  BY <1>5 DEF MonitorStep, MonitorTop, MonitorWait, MonitorLook, MonitorGet,
     MonitorSettled, MonitorRaised, MonitorLookRaises, MonitorRetire, stream
<1>6. ASSUME NEW a \in Actors, JobStep(a)
      PROVE  FALSE
  <2>1. CASE PublishTerminal(a) \/ PublishRaises(a)
    <3>1. job[a].step = "publish"
      BY <2>1 DEF PublishTerminal, PublishRaises, At
    <3>2. job[a].req \in Requests /\ Announced(job[a].req)
      BY <3>1, JobShape DEF TypeInv, AnnouncedInv
    <3>3. job[a].req = r
      BY <1>2, <2>1, <3>2 DEF PublishTerminal, PublishRaises
    <3> QED
      BY <3>2, <3>3
  <2>2. ASSUME CheckTerminal(a) \/ CheckRaises(a) \/ MarkTerminal(a)
        PROVE  events' = events
    BY <2>2 DEF CheckTerminal, CheckRaises, MarkTerminal, stream
  <2> QED
    BY <1>1, <1>6, <2>1, <2>2 DEF JobStep
<1>7. ASSUME NEW q \in Requests, RayMoves(q)
      PROVE  FALSE
  <2>1. CASE Delivered(q) \/ WorkerPublishRaises(q)
    <3>1. inflight[q] # NoEvent /\ Announced(q)
      BY <2>1 DEF Delivered, WorkerPublishRaises, AnnouncedInv
    <3>2. q = r
      BY <1>2, <2>1 DEF Delivered, WorkerPublishRaises
    <3> QED
      BY <3>1, <3>2
  <2>2. ASSUME RayStarts(q) \/ WorkerStep(q) \/ (\E e \in WorkerEnd : WorkerEnds(q, e))
               \/ WorkerReturns(q) \/ Lost(q) \/ WorkerDies(q) \/ RayKills(q)
        PROVE  events' = events
    BY <2>2 DEF RayStarts, RayKills, WorkerStep, WorkerEnds, WorkerReturns, Lost, WorkerDies,
       stream
  <2> QED
    BY <1>1, <1>7, <2>1, <2>2 DEF RayMoves, WorkerMoves
<1>8. ASSUME UNCHANGED vars
      PROVE  events' = events
  BY <1>8 DEF vars, stream
<1> QED
  BY <1>1, <1>3, <1>4, <1>5, <1>6, <1>7, <1>8 DEF Next

\* A publication of a terminal event that does not raise leaves one behind.
LEMMA AppendedEnds ==
  ASSUME TypeInv, NEW r \in Requests, NEW e \in TerminalStatus, Append1(r, e)
  PROVE  HasTerminal(r)'
<1>1. events \in [Requests -> Seq(Event)] /\ events'[r] = Published(r, e)
  BY DEF TypeInv, TypeOK, Append1
<1>2. CASE HasTerminal(r)
  BY <1>1, <1>2 DEF Published, HasTerminal
<1>3. CASE ~ HasTerminal(r)
  <2>1. events'[r] = Append(events[r], e)
    BY <1>1, <1>3 DEF Published
  <2>2. \E i \in DOMAIN Append(events[r], e) : Append(events[r], e)[i] \in TerminalStatus
    BY <1>1, AppendEnds, Zenon
  <2> QED
    BY <2>1, <2>2 DEF HasTerminal
<1> QED
  BY <1>2, <1>3

\* What a submit call leaves it leaves to somebody else, or ended.
LEMMA SubmitHandsOver ==
  ASSUME TypeInv, [Next]_vars, faults' = 0, NEW r \in Requests, Submitting(r)
  PROVE  Submitting(r)' \/ Pledged(r)' \/ HasTerminal(r)' \/ (r \in refs' /\ mpc' # "off")
<1>1. /\ sub \in [Requests -> SubmitPC] /\ job \in [Actors -> Jobs] /\ r \in Actors
      /\ mpc \in MonitorPC /\ faults \in Nat
  BY DEF TypeInv, TypeOK, Actors
<1>2. ASSUME sub'[r] = sub[r]
      PROVE  Submitting(r)'
  BY <1>2 DEF Submitting
<1>3. ASSUME NEW q \in Requests, Submit(q) \/ SubmitStep(q), q # r
      PROVE  sub'[r] = sub[r]
  BY <1>1, <1>3 DEF Submit, SubmitStep, PublishAccepted, AcceptedRaises, Register, StartRequest,
     StartFails, Unregister, Report, Record, RecordCancelled, SubmitCancels, SubmitSettled,
     SubmitRaised, Leaves, Step
<1>4. ASSUME Submit(r) \/ SubmitStep(r)
      PROVE  Submitting(r)' \/ Pledged(r)' \/ HasTerminal(r)' \/ (r \in refs' /\ mpc' # "off")
  <2>1. CASE Submit(r) \/ PublishAccepted(r) \/ AcceptedRaises(r) \/ SubmitSettled(r)
             \/ SubmitRaised(r)
    BY <1>1, <2>1 DEF Submit, PublishAccepted, AcceptedRaises, SubmitSettled, SubmitRaised, Step,
       Submitting
  <2>2. CASE Register(r) \/ StartRequest(r) \/ StartFails(r) \/ Unregister(r) \/ RecordCancelled(r)
    BY <1>1, <2>2 DEF Register, StartRequest, StartFails, Unregister, RecordCancelled, Step,
       Submitting
  <2>3. CASE Report(r)
    <3>1. Append1(r, "ray_error")
      BY <1>1, <2>3 DEF Report, CallRaises
    <3> QED
      BY <3>1, AppendedEnds DEF TerminalStatus
  <2>4. CASE Record(r)
    BY <1>1, <2>4 DEF Record, EnsureMonitor
  <2>5. CASE SubmitCancels(r)
    <3>1. job'[r].step = "check" /\ job'[r].req = r
      BY <1>1, <2>5 DEF SubmitCancels, Start
    <3> QED
      BY <1>1, <3>1 DEF Pledged
  <2> QED
    BY <1>4, <2>1, <2>2, <2>3, <2>4, <2>5 DEF SubmitStep
<1>5. ASSUME NEW k \in Cancellers,
             CancelStep(k) \/ \E which \in {Requests} \cup {{q} : q \in Requests} : Cancel(k, which)
      PROVE  sub'[r] = sub[r]
  BY <1>5 DEF CancelStep, CancelNext, CancelSettled, CancelRaised, Cancel, engine
<1>6. ASSUME MonitorStep
      PROVE  sub'[r] = sub[r]
  BY <1>6 DEF MonitorStep, MonitorTop, MonitorWait, MonitorLook, MonitorGet,
     MonitorSettled, MonitorRaised, MonitorLookRaises, MonitorRetire, engine
<1>7. ASSUME NEW a \in Actors, JobStep(a)
      PROVE  sub'[r] = sub[r]
  BY <1>7 DEF JobStep, CheckTerminal, CheckRaises, PublishTerminal, PublishRaises, MarkTerminal,
     engine
<1>8. ASSUME NEW q \in Requests, RayMoves(q)
      PROVE  sub'[r] = sub[r]
  BY <1>8 DEF RayMoves, RayStarts, RayKills, WorkerMoves, WorkerStep, WorkerEnds, Delivered, WorkerPublishRaises,
     WorkerReturns, Lost, WorkerDies, engine
<1>9. ASSUME UNCHANGED vars
      PROVE  sub'[r] = sub[r]
  BY <1>9 DEF vars, engine
<1> QED
  BY <1>2, <1>3, <1>4, <1>5, <1>6, <1>7, <1>8, <1>9 DEF Next

\* What is tracked stays so until somebody has pledged to end it or it has ended.
LEMMA RefKept ==
  ASSUME TypeInv, RetiresEnded, [Next]_vars, faults' = 0, NEW r \in refs
  PROVE  r \in refs' \/ Pledged(r)' \/ HasTerminal(r)'
<1>1. faults = 0 /\ todo \in [Cancellers -> SUBSET Requests]
  BY FaultsStay DEF TypeInv, TypeOK
<1>2. ASSUME NEW q \in Requests, Submit(q) \/ SubmitStep(q)
      PROVE  r \in refs'
  BY <1>2 DEF Submit, SubmitStep, PublishAccepted, AcceptedRaises, Register, StartRequest,
     StartFails, Unregister, Report, Record, RecordCancelled, SubmitCancels, SubmitSettled,
     SubmitRaised, books
<1>3. ASSUME NEW k \in Cancellers, NEW which, Cancel(k, which)
      PROVE  r \in refs' \/ Pledged(r)'
  <2>1. refs' = refs \ Matches(which) /\ todo' = [todo EXCEPT ![k] = Matches(which)]
    BY <1>3 DEF Cancel
  <2>2. r \in Matches(which) => r \in todo'[k]
    BY <1>1, <2>1
  <2> QED
    BY <2>1, <2>2 DEF Pledged
<1>4. ASSUME NEW k \in Cancellers, CancelStep(k)
      PROVE  r \in refs'
  BY <1>4 DEF CancelStep, CancelNext, CancelSettled, CancelRaised, books
<1>5. CASE MonitorRetire
  <2>1. r = mref \/ r \in refs'
    BY <1>5 DEF MonitorRetire
  <2>2. HasTerminal(mref) /\ events' = events
    BY <1>1, <1>5 DEF MonitorRetire, MStep, RetiresEnded, stream
  <2> QED
    BY <2>1, <2>2 DEF HasTerminal
<1>6. ASSUME MonitorStep, ~ MonitorRetire
      PROVE  r \in refs'
  BY <1>6 DEF MonitorStep, MonitorTop, MonitorWait, MonitorLook, MonitorGet,
     MonitorSettled, MonitorRaised, MonitorLookRaises, books
<1>7. ASSUME NEW a \in Actors, JobStep(a)
      PROVE  r \in refs'
  BY <1>7 DEF JobStep, CheckTerminal, CheckRaises, PublishTerminal, PublishRaises, MarkTerminal,
     books
<1>8. ASSUME NEW q \in Requests, RayMoves(q)
      PROVE  r \in refs'
  BY <1>8 DEF RayMoves, RayStarts, RayKills, WorkerMoves, WorkerStep, WorkerEnds, Delivered, WorkerPublishRaises,
     WorkerReturns, Lost, WorkerDies, books
<1>9. ASSUME UNCHANGED vars
      PROVE  r \in refs'
  BY <1>9 DEF vars, books
<1> QED
  BY <1>2, <1>3, <1>4, <1>5, <1>6, <1>7, <1>8, <1>9 DEF Next

\* The monitor leaves only when there is nothing to watch.
LEMMA WatchKept ==
  ASSUME TypeInv, RefsWatched, RaisedIsFault, [Next]_vars
  PROVE  RefsWatched'
<1> SUFFICES ASSUME faults' = 0, refs' # {} PROVE mpc' # "off"
  BY DEF RefsWatched
<1>1. faults = 0 /\ mpc \in MonitorPC /\ Monitor \in Actors
  BY FaultsStay DEF TypeInv, TypeOK, Actors
<1>2. ASSUME NEW q \in Requests, Submit(q) \/ SubmitStep(q)
      PROVE  mpc' # "off"
  <2>1. CASE Record(q)
    BY <2>1 DEF Record, EnsureMonitor
  <2>2. CASE ~ Record(q)
    <3>1. UNCHANGED <<mpc, refs>>
      BY <1>2, <2>2 DEF Submit, SubmitStep, PublishAccepted, AcceptedRaises, Register,
         StartRequest, StartFails, Unregister, Report, RecordCancelled, SubmitCancels,
         SubmitSettled, SubmitRaised, books, monitor
    <3> QED
      BY <1>1, <3>1 DEF RefsWatched
  <2> QED
    BY <2>1, <2>2
<1>3. ASSUME refs' \subseteq refs, mpc' = mpc
      PROVE  mpc' # "off"
  BY <1>1, <1>3 DEF RefsWatched
<1>4. ASSUME NEW k \in Cancellers,
             CancelStep(k) \/ \E which \in {Requests} \cup {{q} : q \in Requests} : Cancel(k, which)
      PROVE  refs' \subseteq refs /\ mpc' = mpc
  BY <1>4 DEF CancelStep, CancelNext, CancelSettled, CancelRaised, Cancel, books, monitor
<1>5. ASSUME MonitorStep
      PROVE  mpc' # "off"
  <2>1. CASE MonitorTop
    BY <2>1 DEF MonitorTop, books
  <2>2. CASE MonitorRaised
    BY <1>1, <2>2 DEF MonitorRaised, At, RaisedIsFault
  <2>3. CASE MonitorLookRaises
    BY <1>1, <2>3 DEF MonitorLookRaises
  <2>4. CASE MonitorWait \/ MonitorLook \/ MonitorGet \/ MonitorSettled \/ MonitorRetire
    BY <2>4 DEF MonitorWait, MonitorLook, MonitorGet, MonitorSettled, MonitorRetire, MStep
  <2> QED
    BY <1>5, <2>1, <2>2, <2>3, <2>4 DEF MonitorStep
<1>6. ASSUME NEW a \in Actors, JobStep(a)
      PROVE  refs' \subseteq refs /\ mpc' = mpc
  BY <1>6 DEF JobStep, CheckTerminal, CheckRaises, PublishTerminal, PublishRaises, MarkTerminal,
     books, monitor
<1>7. ASSUME NEW q \in Requests, RayMoves(q)
      PROVE  refs' \subseteq refs /\ mpc' = mpc
  BY <1>7 DEF RayMoves, RayStarts, RayKills, WorkerMoves, WorkerStep, WorkerEnds, Delivered, WorkerPublishRaises,
     WorkerReturns, Lost, WorkerDies, books, monitor
<1>8. ASSUME UNCHANGED vars
      PROVE  refs' \subseteq refs /\ mpc' = mpc
  BY <1>8 DEF vars, books, monitor
<1> QED
  BY <1>2, <1>3, <1>4, <1>5, <1>6, <1>7, <1>8 DEF Next

\* The monitor retires a ref when its request has ended, whoever ended it.
LEMMA RetireKept ==
  ASSUME TypeInv, JobsPlaced, MarkInv, RaisedIsFault, RetiresEnded, [Next]_vars,
         \A r \in Requests : HasTerminal(r) => HasTerminal(r)'
  PROVE  RetiresEnded'
<1> SUFFICES ASSUME faults' = 0, mpc' = "retire" PROVE HasTerminal(mref)'
  BY DEF RetiresEnded
<1>1. faults = 0 /\ Monitor \in Actors /\ (mpc \in {"look", "get", "settle", "retire"} => mref \in Requests)
  BY FaultsStay DEF TypeInv, HandlesRef, Actors
<1>2. SUFFICES HasTerminal(mref) /\ mref' = mref /\ mref \in Requests
  <2>1. \E i \in DOMAIN events'[mref] : events'[mref][i] \in TerminalStatus
    BY <1>2 DEF HasTerminal
  <2> QED
    BY <1>2, <2>1 DEF HasTerminal
<1>3. CASE ~ MonitorStep
  <2>1. mref' = mref /\ mpc = "retire"
    BY <1>3, MonitorAlone DEF TypeInv
  <2> QED
    BY <1>1, <2>1 DEF RetiresEnded
<1>4. CASE MonitorStep
  <2>1. \/ MonitorGet \/ MonitorSettled
    BY <1>4 DEF MonitorStep, MonitorTop, MonitorWait, MonitorLook, MonitorRaised,
       MonitorLookRaises, MonitorRetire, MStep
  <2>2. CASE MonitorGet
    BY <1>1, <2>2 DEF MonitorGet
  <2>3. CASE MonitorSettled
    <3>1. job[Monitor].step = "done" /\ mpc = "settle" /\ mref' = mref
      BY <2>3 DEF MonitorSettled, MStep, At
    <3>2. job[Monitor].req = mref /\ job[Monitor].req \in Over
      BY <1>1, <3>1 DEF JobsPlaced, MarkInv
    <3> QED
      BY <1>1, <3>1, <3>2 DEF Over
  <2> QED
    BY <2>1, <2>2, <2>3
<1> QED
  BY <1>3, <1>4

LEMMA OwnStep ==
  ASSUME TypeInv, AnnouncedInv, MarkInv, MarkInv', RaisedIsFault, RaisedIsFault', OwnInv,
         [Next]_vars
  PROVE  OwnInv'
<1>1. \A r \in Requests : HasTerminal(r) => HasTerminal(r)'
  BY EventsStay
<1>2. JobsPlaced /\ NobodyForgotten /\ RefsWatched /\ RetiresEnded
  BY DEF OwnInv
<1>3. JobsPlaced' /\ RefsWatched' /\ RetiresEnded'
  BY <1>1, <1>2, PlacedStep, WatchKept, RetireKept
<1>4. NobodyForgotten'
  <2> SUFFICES ASSUME faults' = 0, NEW r \in Requests, Announced(r)', ~ HasTerminal(r)'
               PROVE  Submitting(r)' \/ Pledged(r)' \/ (r \in refs' /\ mpc' # "off")
    BY DEF NobodyForgotten, Unended
  <2>1. faults = 0 /\ ~ HasTerminal(r)
    BY <1>1, FaultsStay
  <2>2. CASE ~ Announced(r)
    BY <2>2, Announcer DEF Submitting
  <2>3. CASE Announced(r) /\ Submitting(r)
    BY <2>3, SubmitHandsOver
  <2>4. CASE Announced(r) /\ Pledged(r)
    BY <1>2, <2>4, PledgeKept
  <2>5. CASE Announced(r) /\ r \in refs /\ mpc # "off"
    BY <1>2, <1>3, <2>5, RefKept DEF RefsWatched
  <2> QED
    BY <1>2, <2>1, <2>2, <2>3, <2>4, <2>5 DEF NobodyForgotten, Unended
<1> QED
  BY <1>3, <1>4 DEF OwnInv

LEMMA OwnInvariance == Spec => []OwnInv
<1>1. Init => OwnInv
  BY DEF Init, OwnInv, JobsPlaced, NobodyForgotten, RefsWatched, RetiresEnded, Unended, Announced,
     NoJob, Actors
<1>2. StrayInv => RaisedIsFault
  BY DEF StrayInv
<1>3. StrayInv' => RaisedIsFault'
  BY DEF StrayInv
<1>4. TypeInv /\ AnnouncedInv /\ MarkInv /\ MarkInv' /\ StrayInv /\ StrayInv' /\ OwnInv /\ [Next]_vars
        => OwnInv'
  BY <1>2, <1>3, OwnStep
<1> QED
  BY <1>1, <1>4, AnnouncedInvariance, MarkInvariance, StrayInvariance, PTL DEF Spec

\* Nobody is forgotten while no call to the publisher has raised: a request that
\* was accepted and has not ended is always in somebody's hands, whatever cancels
\* take from the monitor and whoever gets to which lock first.
THEOREM Remembered == Spec => []NobodyForgotten
<1>1. OwnInv => NobodyForgotten
  BY DEF OwnInv
<1> QED
  BY <1>1, OwnInvariance, PTL

\* The monitor task never leaves a tracked ref behind, and never lets go of one
\* whose request has not ended, while no call to the publisher has raised.
THEOREM MonitorStays == Spec => [](RefsWatched /\ RetiresEnded)
<1>1. OwnInv => RefsWatched /\ RetiresEnded
  BY DEF OwnInv
<1> QED
  BY <1>1, OwnInvariance, PTL

-----------------------------------------------------------------------------
(* A cancel takes effect *)

\* What a cancel has matched is ended or pledged, and no ref is kept for it.
CancelInv ==
  /\ faults = 0 => \A r \in cancelled : HasTerminal(r) \/ Pledged(r)
  /\ refs \cap cancelled = {}

\* What is cancelled: the matches of a cancel call, each on its list.
LEMMA CancelledGrows ==
  ASSUME TypeInv, CancelInv, [Next]_vars
  PROVE  /\ \A r \in cancelled' \ cancelled : Pledged(r)'
         /\ refs' \cap cancelled' = {}
<1>1. todo \in [Cancellers -> SUBSET Requests] /\ refs \cap cancelled = {}
  BY DEF TypeInv, TypeOK, CancelInv
<1>2. ASSUME NEW q \in Requests, Submit(q) \/ SubmitStep(q)
      PROVE  cancelled' = cancelled /\ refs' \cap cancelled = {}
  <2>1. CASE Record(q)
    BY <1>1, <2>1 DEF Record
  <2>2. CASE ~ Record(q)
    BY <1>1, <1>2, <2>2 DEF Submit, SubmitStep, PublishAccepted, AcceptedRaises, Register,
       StartRequest, StartFails, Unregister, Report, RecordCancelled, SubmitCancels,
       SubmitSettled, SubmitRaised, books
  <2> QED
    BY <2>1, <2>2
<1>3. ASSUME NEW k \in Cancellers, NEW which, Cancel(k, which)
      PROVE  /\ \A r \in cancelled' \ cancelled : Pledged(r)'
             /\ refs' \cap cancelled' = {}
  <2>1. /\ refs' = refs \ Matches(which) /\ todo' = [todo EXCEPT ![k] = Matches(which)]
        /\ cancelled' = cancelled \cup Matches(which)
    BY <1>3 DEF Cancel
  <2>2. \A r \in Matches(which) : r \in todo'[k]
    BY <1>1, <2>1
  <2> QED
    BY <1>1, <2>1, <2>2 DEF Pledged
<1>4. ASSUME NEW k \in Cancellers, CancelStep(k)
      PROVE  UNCHANGED <<cancelled, refs>>
  BY <1>4 DEF CancelStep, CancelNext, CancelSettled, CancelRaised, books
<1>5. ASSUME MonitorStep
      PROVE  cancelled' = cancelled /\ refs' \subseteq refs
  BY <1>5 DEF MonitorStep, MonitorTop, MonitorWait, MonitorLook, MonitorGet,
     MonitorSettled, MonitorRaised, MonitorLookRaises, MonitorRetire, books
<1>6. ASSUME NEW a \in Actors, JobStep(a)
      PROVE  UNCHANGED <<cancelled, refs>>
  BY <1>6 DEF JobStep, CheckTerminal, CheckRaises, PublishTerminal, PublishRaises, MarkTerminal,
     books
<1>7. ASSUME NEW q \in Requests, RayMoves(q)
      PROVE  UNCHANGED <<cancelled, refs>>
  BY <1>7 DEF RayMoves, RayStarts, RayKills, WorkerMoves, WorkerStep, WorkerEnds, Delivered, WorkerPublishRaises,
     WorkerReturns, Lost, WorkerDies, books
<1>8. ASSUME UNCHANGED vars
      PROVE  UNCHANGED <<cancelled, refs>>
  BY <1>8 DEF vars, books
<1> QED
  BY <1>1, <1>2, <1>3, <1>4, <1>5, <1>6, <1>7, <1>8 DEF Next

LEMMA CancelStepKeeps ==
  ASSUME TypeInv, AnnouncedInv, JobsPlaced, RaisedIsFault, RaisedIsFault', MarkInv', CancelInv,
         [Next]_vars
  PROVE  CancelInv'
<1>1. \A r \in cancelled : r \in Requests
  BY DEF TypeInv, TypeOK
<1>2. \A r \in Requests : HasTerminal(r) => HasTerminal(r)'
  BY EventsStay
<1>3. ASSUME faults' = 0, NEW r \in cancelled'
      PROVE  HasTerminal(r)' \/ Pledged(r)'
  <2>1. CASE r \notin cancelled
    BY <1>3, <2>1, CancelledGrows
  <2>2. CASE r \in cancelled
    <3>1. HasTerminal(r) \/ Pledged(r)
      BY <1>3, <2>2, FaultsStay DEF CancelInv
    <3> QED
      BY <1>1, <1>2, <1>3, <2>2, <3>1, PledgeKept
  <2> QED
    BY <2>1, <2>2
<1>4. refs' \cap cancelled' = {}
  BY CancelledGrows
<1> QED
  BY <1>3, <1>4 DEF CancelInv

\* A cancel takes effect, for any number of requests, groups and cancels: what one has
\* matched has ended, and runs only where Ray is still to kill it or ray.cancel raised,
\* once no call is at work on it.
THEOREM CancelsTakeEffect == Spec => []CancelIsEffective
<1>1. Init => CancelInv
  BY DEF Init, CancelInv
<1>2. StrayInv => RaisedIsFault
  BY DEF StrayInv
<1>3. StrayInv' => RaisedIsFault'
  BY DEF StrayInv
<1>4. OwnInv => JobsPlaced
  BY DEF OwnInv
<1>5. TypeInv /\ AnnouncedInv /\ MarkInv' /\ StrayInv /\ StrayInv' /\ OwnInv /\ CancelInv
        /\ [Next]_vars => CancelInv'
  BY <1>2, <1>3, <1>4, CancelStepKeeps
<1>6. TypeInv /\ StrayInv /\ CancelInv => CancelIsEffective
  <2> SUFFICES ASSUME TypeInv, StrayInv, CancelInv, faults = 0, NEW r \in cancelled
               PROVE  \/ HasTerminal(r) /\ (Live(r) => r \in doomed \cup spared)
                      \/ Submitting(r) \/ Pledged(r)
    BY DEF CancelIsEffective
  <2>1. r \in Requests /\ r \notin refs
    BY DEF TypeInv, TypeOK, CancelInv
  <2>2. Live(r) => Submitting(r) \/ Pledged(r) \/ r \in doomed \cup spared
    BY <2>1 DEF StrayInv, NoStrayTask, Handled, Submitting, Pledged
  <2> QED
    BY <2>2 DEF CancelInv
<1> QED
  BY <1>1, <1>5, <1>6, AnnouncedInvariance, MarkInvariance, StrayInvariance, OwnInvariance, PTL DEF Spec

-----------------------------------------------------------------------------
(* What the client of a request sees *)

\* The events of r as the stream of EventStream: the publisher numbers them in
\* the order in which it appends them.
ClientStream(r) ==
  [i \in DOMAIN events[r] |->
     [req   |-> r,
      type  |-> IF events[r][i] \in TerminalStatus THEN "terminal" ELSE events[r][i],
      index |-> i]]

Client(r) == INSTANCE EventStream WITH
  Requests <- {r}, Types <- {"accepted", "step"}, stream <- ClientStream(r)

LEMMA ClientStep ==
  ASSUME TypeInv, AnnouncedInv, [Next]_vars, NEW r \in Requests
  PROVE  Client(r)!Publish \/ UNCHANGED ClientStream(r)
<1>1. TypeOK
  BY DEF TypeInv
<1>2. Growth
  BY EventsGrow
<1>3. CASE events'[r] = events[r]
  BY <1>3 DEF ClientStream
<1>4. CASE events'[r] # events[r]
  <2> DEFINE s == events[r]
             t == events'[r]
             n == Len(s)
  <2>1. PICK q \in Requests, e \in Event : events' = [events EXCEPT ![q] = Published(q, e)]
    BY <1>2, <1>4 DEF Growth
  <2>2. q = r /\ t = Published(r, e)
    BY <1>1, <1>4, <2>1 DEF TypeOK
  <2>3. s \in Seq(Event) /\ n \in Nat /\ DOMAIN s = 1 .. n
    BY <1>1, PublishedShape DEF TypeOK
  <2>4. t # s => Len(t) = n + 1
    <3>1. CASE e \in TerminalStatus /\ HasTerminal(r)
      BY <2>2, <3>1 DEF Published
    <3>2. CASE ~ (e \in TerminalStatus /\ HasTerminal(r))
      BY <2>2, <2>3, <3>2 DEF Published
    <3> QED
      BY <3>1, <3>2
  <2>5. /\ Len(t) = n + 1 /\ DOMAIN t = 1 .. (n + 1)
        /\ \A i \in 1 .. n : t[i] = s[i]
        /\ t[n + 1] = e
        /\ e \in TerminalStatus => ~ HasTerminal(r)
    BY <1>1, <1>4, <2>2, <2>3, <2>4, PublishedShape
  <2> DEFINE S == ClientStream(r)
             T == [i \in 1 .. (n + 1) |->
                    [req   |-> r,
                     type  |-> IF t[i] \in TerminalStatus THEN "terminal" ELSE t[i],
                     index |-> i]]
  <2>6. S' = T
    BY <2>5 DEF ClientStream
  <2>7. Len(S) = n /\ DOMAIN S = 1 .. n
    BY <2>3 DEF ClientStream
  <2>8. Len(T) = n + 1
    BY <2>3
  <2>9. \A i \in 1 .. n : T[i] = S[i]
    BY <2>3, <2>5 DEF ClientStream
  <2>10. Client(r)!Fits(S, T[n + 1])
    <3>1. T[n + 1] = [req |-> r, index |-> n + 1,
                      type |-> IF e \in TerminalStatus THEN "terminal" ELSE e]
      BY <2>3, <2>5
    <3>2. T[n + 1] \in Client(r)!Event
      BY <2>3, <3>1 DEF Client!Event, Event
    <3>3. T[n + 1].type = "terminal" => ~ Client(r)!HasTerminal(S, T[n + 1].req)
      <4>1. T[n + 1].type = "terminal" => e \in TerminalStatus
        BY <3>1 DEF Event
      <4>2. \A i \in 1 .. n : S[i].type = "terminal" => s[i] \in TerminalStatus
        BY <2>3 DEF ClientStream, Event
      <4> QED
        BY <2>3, <2>5, <2>7, <4>1, <4>2 DEF Client!HasTerminal, HasTerminal
    <3>4. \A i \in 1 .. n : S[i].index < n + 1
      BY <2>3 DEF ClientStream
    <3> QED
      BY <2>7, <3>1, <3>2, <3>3, <3>4 DEF Client!Fits
  <2> QED
    BY <2>6, <2>7, <2>8, <2>9, <2>10 DEF Client!Publish
<1> QED
  BY <1>3, <1>4

\* The client of a request is given one EventStream, whoever races to end it and
\* whichever calls to the publisher raise.
THEOREM ClientServed ==
  ASSUME NEW r \in Requests
  PROVE  Spec => Client(r)!Spec
<1>1. Init => Client(r)!Init
  BY DEF Init, Client!Init, ClientStream
<1>2. TypeInv /\ AnnouncedInv /\ [Next]_vars => [Client(r)!Publish]_(ClientStream(r))
  BY ClientStep
<1> QED
  BY <1>1, <1>2, AnnouncedInvariance, PTL DEF Spec, Client!Spec
=============================================================================
