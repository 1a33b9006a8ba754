--------------------------- MODULE RolloutService ---------------------------
(***************************************************************************)
(* The RL rollout service in Ray mode: RolloutEngine.submit and cancel,    *)
(* RayRolloutExecutor with its monitor task, the rollout workers, and the  *)
(* event publisher actor they all talk to.                                 *)
(*                                                                         *)
(* The executor is asyncio code: what runs between two awaits is one step, *)
(* and its lock protects only such stretches.  Every call to the publisher *)
(* or to Ray is awaited in a thread, so it is a step of its own.           *)
(***************************************************************************)
EXTENDS Naturals, Sequences, FiniteSets

CONSTANTS
  Requests,     \* request ids
  Cancellers,   \* concurrent /cancel calls
  Monitor,      \* the monitor task
  NoRequest,    \* a value that is not a request
  MaxSteps,     \* bound: trajectory events a worker publishes
  MaxCancels,   \* bound: cancel calls
  MaxFaults     \* bound: publisher calls that raise

ASSUME ServiceAssumption ==
  /\ NoRequest \notin Requests
  /\ Requests \cap Cancellers = {}
  /\ Monitor \notin Requests \cup Cancellers
  /\ {MaxSteps, MaxCancels, MaxFaults} \subseteq Nat

\* Whoever runs _publish_terminal_status: a submit call, named by its request,
\* a cancel call or the monitor.
Actors == Requests \cup Cancellers \cup {Monitor}

VARIABLES
  \* RolloutEngine.
  acceptedIds,  \* _accepted_request_ids
  submitLock,   \* the request whose submit holds _submit_lock, or NoRequest
  sub,          \* where the submit call of a request is
  \* RayRolloutExecutor.
  accepted,     \* _accepted_requests
  cancelled,    \* _cancelled
  terminal,     \* _terminal
  refs,         \* _ref_to_request: the requests whose ref is tracked
  job,          \* the _publish_terminal_status call an actor is in
  mpc, mref,    \* the monitor task and the ref it handles
  waiting,      \* the refs it gave to ray.wait
  todo,         \* what a cancel call has matched and not handled yet
  cur,          \* the request it is handling
  withRef,      \* requests a cancel call found with a ref
  cancels,      \* cancel calls so far
  \* Ray and the workers.
  task,         \* the Ray task of a request
  sent,         \* trajectory events its worker has published
  inflight,     \* the event its worker is waiting to see published
  ending,       \* the terminal status its RLEventSink emitted
  doomed,       \* requests whose ray.cancel was accepted
  spared,       \* history: requests whose ray.cancel raised
  \* The publisher.
  events,       \* the published events of a request, in order
  faults        \* publisher calls that raised

engine   == <<acceptedIds, submitLock, sub>>
books    == <<accepted, cancelled, terminal, refs>>
monitor  == <<mpc, mref, waiting>>
canceler == <<todo, cur, withRef, cancels>>
kills    == <<doomed, spared>>
ray      == <<task, sent, inflight, ending, kills>>
stream   == <<events, faults>>
vars     == <<engine, books, job, monitor, canceler, ray, stream>>

SubmitPC == {"none", "accept", "register", "start", "record", "rayCancel",
             "settle", "unregister", "report", "accepted", "refused"}
MonitorPC == {"off", "top", "wait", "look", "get", "settle", "retire"}
TaskState == {"none", "queued", "running", "ok", "error", "killed"}

WorkerEnd == {"completed", "agent_error"}
TerminalStatus == WorkerEnd \cup {"cancelled", "ray_error", "event_error"}
Event == TerminalStatus \cup {"accepted", "step"}

NoEvent == "nothing"
NoJob   == [step |-> "none", req |-> NoRequest, status |-> NoEvent]
JobSteps == {"check", "publish", "mark", "done", "raised"}
Jobs    == {NoJob} \cup
           [step : JobSteps, req : Requests, status : TerminalStatus]

Live(r) == task[r] \in {"queued", "running"}
Ended(r) == task[r] \in {"ok", "error", "killed"}

Init ==
  /\ acceptedIds = {} /\ submitLock = NoRequest
  /\ sub = [r \in Requests |-> "none"]
  /\ accepted = {} /\ cancelled = {} /\ terminal = {} /\ refs = {}
  /\ job = [a \in Actors |-> NoJob]
  /\ mpc = "off" /\ mref = NoRequest /\ waiting = {}
  /\ todo = [k \in Cancellers |-> {}] /\ cur = [k \in Cancellers |-> NoRequest]
  /\ withRef = {} /\ cancels = 0
  /\ task = [r \in Requests |-> "none"] /\ sent = [r \in Requests |-> 0]
  /\ inflight = [r \in Requests |-> NoEvent]
  /\ ending = [r \in Requests |-> NoEvent]
  /\ doomed = {} /\ spared = {}
  /\ events = [r \in Requests |-> <<>>] /\ faults = 0

-----------------------------------------------------------------------------
(* The publisher actor *)

HasTerminal(r) == \E i \in DOMAIN events[r] : events[r][i] \in TerminalStatus

\* Slip: the publisher trusts its callers' has_terminal.
PublishedAgain(r, e) == Append(events[r], e)

\* A second terminal of a request is not appended.
Published(r, e) ==
  IF e \in TerminalStatus /\ HasTerminal(r)
  THEN events[r] ELSE Append(events[r], e)

Append1(r, e) ==
  /\ events' = [events EXCEPT ![r] = Published(r, e)]
  /\ UNCHANGED faults

\* A call to the actor raises, before or after it took effect.
CallRaises(r, e) ==
  /\ faults < MaxFaults
  /\ faults' = faults + 1
  /\ \/ UNCHANGED events
     \/ events' = [events EXCEPT ![r] = Published(r, e)]

-----------------------------------------------------------------------------
(* _publish_terminal_status: look for a terminal, publish one, note it.    *)

Start(a, r, s) == job' = [job EXCEPT ![a] = [step |-> "check", req |-> r, status |-> s]]
Finish(a) == job' = [job EXCEPT ![a] = NoJob]
At(a, step) == job[a].step = step
Goto(a, step) == job' = [job EXCEPT ![a].step = step]

CheckTerminal(a) ==
  /\ At(a, "check")
  /\ Goto(a, IF HasTerminal(job[a].req) THEN "mark" ELSE "publish")
  /\ UNCHANGED <<engine, books, monitor, canceler, ray, stream>>

CheckRaises(a) ==
  /\ At(a, "check") /\ faults < MaxFaults
  /\ faults' = faults + 1
  /\ Goto(a, "raised")
  /\ UNCHANGED <<engine, books, monitor, canceler, ray, events>>

\* RolloutEngine.publish_terminal, whose own look changes nothing the
\* publisher does not decide again.
PublishTerminal(a) ==
  /\ At(a, "publish")
  /\ Append1(job[a].req, job[a].status)
  /\ Goto(a, "mark")
  /\ UNCHANGED <<engine, books, monitor, canceler, ray>>

PublishRaises(a) ==
  /\ At(a, "publish")
  /\ CallRaises(job[a].req, job[a].status)
  /\ Goto(a, "raised")
  /\ UNCHANGED <<engine, books, monitor, canceler, ray>>

MarkTerminal(a) ==
  /\ At(a, "mark")
  /\ terminal' = terminal \cup {job[a].req}
  /\ Goto(a, "done")
  /\ UNCHANGED <<engine, accepted, cancelled, refs, monitor, canceler, ray, stream>>

-----------------------------------------------------------------------------
(* ray.cancel(force=True).  Ray kills the task later, if it has not ended *)
(* by then; a call that raises kills nothing, and its error is only logged.*)

RayCancel(r) ==
  /\ \/ doomed' = doomed \cup {r} /\ UNCHANGED spared
     \/ spared' = spared \cup {r} /\ UNCHANGED doomed
  /\ UNCHANGED <<task, sent, inflight, ending>>

RayKills(r) ==
  /\ r \in doomed /\ Live(r)
  /\ task' = [task EXCEPT ![r] = "killed"]
  /\ UNCHANGED <<engine, books, job, monitor, canceler, sent, inflight, ending, kills, stream>>

-----------------------------------------------------------------------------
(* RolloutEngine.submit and RayRolloutExecutor.submit.  A request id that  *)
(* was accepted once is refused without any effect.                        *)

Step(r, from, to) == sub[r] = from /\ sub' = [sub EXCEPT ![r] = to]

\* Slip: the worker is started with no accepted event before it.
SubmitUnannounced(r) ==
  /\ submitLock = NoRequest /\ r \notin acceptedIds
  /\ Step(r, "none", "register")
  /\ submitLock' = r
  /\ acceptedIds' = acceptedIds \cup {r}
  /\ UNCHANGED <<books, job, monitor, canceler, ray, stream>>

\* async with _submit_lock: check and record the id.
Submit(r) ==
  /\ submitLock = NoRequest /\ r \notin acceptedIds
  /\ Step(r, "none", "accept")
  /\ submitLock' = r
  /\ acceptedIds' = acceptedIds \cup {r}
  /\ UNCHANGED <<books, job, monitor, canceler, ray, stream>>

Leaves(r, to) == submitLock' = NoRequest /\ sub' = [sub EXCEPT ![r] = to]

PublishAccepted(r) ==
  /\ Step(r, "accept", "register")
  /\ Append1(r, "accepted")
  /\ UNCHANGED <<acceptedIds, submitLock, books, job, monitor, canceler, ray>>

AcceptedRaises(r) ==
  /\ sub[r] = "accept" /\ Leaves(r, "refused")
  /\ CallRaises(r, "accepted")
  /\ UNCHANGED <<acceptedIds, books, job, monitor, canceler, ray>>

Register(r) ==
  /\ Step(r, "register", "start")
  /\ accepted' = accepted \cup {r}
  /\ UNCHANGED <<acceptedIds, submitLock, cancelled, terminal, refs, job,
                 monitor, canceler, ray, stream>>

\* _start_request: the payload is built and the task handed to Ray.
StartRequest(r) ==
  /\ Step(r, "start", "record")
  /\ task' = [task EXCEPT ![r] = "queued"]
  /\ UNCHANGED <<acceptedIds, submitLock, books, job, monitor, canceler,
                 sent, inflight, ending, kills, stream>>

StartFails(r) ==
  /\ Step(r, "start", "unregister")
  /\ UNCHANGED <<acceptedIds, submitLock, books, job, monitor, canceler, ray, stream>>

\* The executor forgets the request, the engine reports ray_error.  Its
\* publish_terminal is the "publish" step of a job without a "mark".
Unregister(r) ==
  /\ Step(r, "unregister", "report")
  /\ accepted' = accepted \ {r}
  /\ UNCHANGED <<acceptedIds, submitLock, cancelled, terminal, refs, job,
                 monitor, canceler, ray, stream>>

Report(r) ==
  /\ sub[r] = "report" /\ Leaves(r, "refused")
  /\ \/ Append1(r, "ray_error")
     \/ CallRaises(r, "ray_error")
  /\ UNCHANGED <<acceptedIds, books, job, monitor, canceler, ray>>

EnsureMonitor == mpc' = IF mpc = "off" THEN "top" ELSE mpc

Record(r) ==
  /\ sub[r] = "record" /\ r \notin cancelled
  /\ Leaves(r, "accepted")
  /\ refs' = refs \cup {r}
  /\ EnsureMonitor
  /\ UNCHANGED <<acceptedIds, accepted, cancelled, terminal, job, mref, waiting,
                 canceler, ray, stream>>

RecordCancelled(r) ==
  /\ r \in cancelled
  /\ Step(r, "record", "rayCancel")
  /\ UNCHANGED <<acceptedIds, submitLock, books, job, monitor, canceler, ray, stream>>

\* Slip: the terminal is published, the task is left alone.
SubmitReportsOnly(r) ==
  /\ Step(r, "rayCancel", "settle")
  /\ Start(r, r, "cancelled")
  /\ UNCHANGED <<acceptedIds, submitLock, books, monitor, canceler, ray, stream>>

\* _cancel_ref
SubmitCancels(r) ==
  /\ Step(r, "rayCancel", "settle")
  /\ RayCancel(r)
  /\ Start(r, r, "cancelled")
  /\ UNCHANGED <<acceptedIds, submitLock, books, monitor, canceler, stream>>

SubmitSettled(r) ==
  /\ sub[r] = "settle" /\ At(r, "done")
  /\ Finish(r)
  /\ Leaves(r, "accepted")
  /\ UNCHANGED <<acceptedIds, books, monitor, canceler, ray, stream>>

SubmitRaised(r) ==
  /\ At(r, "raised")
  /\ Finish(r)
  /\ Step(r, "settle", "report")
  /\ UNCHANGED <<acceptedIds, submitLock, books, monitor, canceler, ray, stream>>

-----------------------------------------------------------------------------
(* RayRolloutExecutor.cancel, by request or by group *)

Matches(which) == {r \in accepted \cap which : r \notin terminal \cup cancelled}

\* One locked stretch marks every match cancelled and drops its ref.
Cancel(k, which) ==
  /\ todo[k] = {} /\ cur[k] = NoRequest /\ cancels < MaxCancels
  /\ cancels' = cancels + 1
  /\ todo' = [todo EXCEPT ![k] = Matches(which)]
  /\ cancelled' = cancelled \cup Matches(which)
  /\ withRef' = withRef \cup (refs \cap Matches(which))
  /\ refs' = refs \ Matches(which)
  /\ UNCHANGED <<engine, accepted, terminal, job, monitor, cur, ray, stream>>

\* Slip: a killed task is left to report itself.
CancelKillsOnly(k) ==
  \E r \in todo[k] :
    /\ cur[k] = NoRequest
    /\ todo' = [todo EXCEPT ![k] = @ \ {r}]
    /\ IF r \in withRef
       THEN RayCancel(r) /\ UNCHANGED <<cur, job>>
       ELSE UNCHANGED ray /\ cur' = [cur EXCEPT ![k] = r] /\ Start(k, r, "cancelled")
    /\ withRef' = withRef \ {r}
    /\ UNCHANGED <<engine, books, monitor, cancels, stream>>

\* The next match: one that had a ref is cancelled in Ray first.
CancelNext(k) ==
  \E r \in todo[k] :
    /\ cur[k] = NoRequest
    /\ cur' = [cur EXCEPT ![k] = r]
    /\ todo' = [todo EXCEPT ![k] = @ \ {r}]
    /\ IF r \in withRef THEN RayCancel(r) ELSE UNCHANGED ray
    /\ withRef' = withRef \ {r}
    /\ Start(k, r, "cancelled")
    /\ UNCHANGED <<engine, books, monitor, cancels, stream>>

CancelSettled(k) ==
  /\ At(k, "done")
  /\ Finish(k)
  /\ cur' = [cur EXCEPT ![k] = NoRequest]
  /\ UNCHANGED <<engine, books, monitor, todo, withRef, cancels, ray, stream>>

\* The exception leaves the loop: the matches after it are not handled.
CancelRaised(k) ==
  /\ At(k, "raised")
  /\ Finish(k)
  /\ cur' = [cur EXCEPT ![k] = NoRequest]
  /\ todo' = [todo EXCEPT ![k] = {}]
  /\ UNCHANGED <<engine, books, monitor, withRef, cancels, ray, stream>>

-----------------------------------------------------------------------------
(* The monitor task *)

MStep(from, to) == mpc = from /\ mpc' = to

\* No refs: the task returns, and the next submit starts another.
MonitorTop ==
  /\ mpc = "top"
  /\ mpc' = IF refs = {} THEN "off" ELSE "wait"
  /\ waiting' = refs
  /\ UNCHANGED <<engine, books, job, mref, canceler, ray, stream>>

\* ray.wait returns one finished ref of those it was given, or times out.
MonitorWait ==
  /\ mpc = "wait" /\ waiting' = {}
  /\ \/ \E r \in waiting : Ended(r) /\ mref' = r /\ mpc' = "look"
     \/ /\ \A r \in waiting : ~ Ended(r)
        /\ mpc' = "top" /\ UNCHANGED mref
  /\ UNCHANGED <<engine, books, job, canceler, ray, stream>>

\* _handle_completed_ref: a ref that a cancel dropped is not ours any more.
MonitorLook ==
  /\ mpc = "look"
  /\ IF mref \in refs
       THEN mpc' = "get" /\ UNCHANGED mref
       ELSE mpc' = "top" /\ mref' = NoRequest
  /\ UNCHANGED <<engine, books, job, waiting, canceler, ray, stream>>

\* Slip: a task that raised is taken to have reported itself.
GetTrusts ==
  /\ mpc = "get"
  /\ IF HasTerminal(mref) \/ task[mref] # "ok"
       THEN mpc' = "retire" /\ UNCHANGED job
       ELSE mpc' = "settle" /\ Start(Monitor, mref, "event_error")
  /\ UNCHANGED <<engine, books, mref, waiting, canceler, ray, stream>>

\* _finish_request: ray.get, then a terminal if the worker left none.
MonitorGet ==
  /\ mpc = "get"
  /\ IF HasTerminal(mref)
       THEN mpc' = "retire" /\ UNCHANGED job
       ELSE /\ mpc' = "settle"
            /\ Start(Monitor, mref, IF task[mref] = "ok" THEN "event_error" ELSE "ray_error")
  /\ UNCHANGED <<engine, books, mref, waiting, canceler, ray, stream>>

MonitorSettled ==
  /\ At(Monitor, "done")
  /\ Finish(Monitor)
  /\ MStep("settle", "retire")
  /\ UNCHANGED <<engine, books, mref, waiting, canceler, ray, stream>>

\* The exception ends the monitor task; every ref stays tracked.
MonitorRaised ==
  /\ At(Monitor, "raised")
  /\ Finish(Monitor)
  /\ MStep("settle", "off")
  /\ mref' = NoRequest
  /\ UNCHANGED <<engine, books, waiting, canceler, ray, stream>>

\* A failing has_terminal of the monitor's own ends it in the same way.
MonitorLookRaises ==
  /\ mpc \in {"get", "retire"} /\ faults < MaxFaults
  /\ faults' = faults + 1
  /\ mpc' = "off" /\ mref' = NoRequest
  /\ UNCHANGED <<engine, books, job, waiting, canceler, ray, events>>

\* Slip: a ref whose request was marked terminal elsewhere stays tracked.
RetireKeepsRef ==
  /\ MStep("retire", "top")
  /\ mref' = NoRequest
  /\ refs' = IF mref \in terminal THEN refs ELSE refs \ {mref}
  /\ terminal' = IF HasTerminal(mref) THEN terminal \cup {mref} ELSE terminal
  /\ UNCHANGED <<engine, accepted, cancelled, job, waiting, canceler, ray, stream>>

MonitorRetire ==
  /\ MStep("retire", "top")
  /\ mref' = NoRequest
  /\ refs' = refs \ {mref}
  /\ terminal' = IF HasTerminal(mref) THEN terminal \cup {mref} ELSE terminal
  /\ UNCHANGED <<engine, accepted, cancelled, job, waiting, canceler, ray, stream>>

-----------------------------------------------------------------------------
(* Ray and the rollout workers.  A worker blocks on every event it sends;  *)
(* a kill does not call back an event that is already on its way.          *)

RayStarts(r) ==
  /\ task[r] = "queued"
  /\ task' = [task EXCEPT ![r] = "running"]
  /\ UNCHANGED <<engine, books, job, monitor, canceler, sent, inflight, ending, kills, stream>>

Sends(r, e) ==
  /\ task[r] = "running" /\ inflight[r] = NoEvent /\ ending[r] = NoEvent
  /\ inflight' = [inflight EXCEPT ![r] = e]

\* RLEventSink: an LLM call, a tool call or an evaluation.
WorkerStep(r) ==
  /\ sent[r] < MaxSteps
  /\ Sends(r, "step")
  /\ sent' = [sent EXCEPT ![r] = @ + 1]
  /\ UNCHANGED <<engine, books, job, monitor, canceler, task, ending, kills, stream>>

\* The terminal evaluation, or an agent error that is not a budget stop.
WorkerEnds(r, e) ==
  /\ Sends(r, e)
  /\ UNCHANGED <<engine, books, job, monitor, canceler, task, sent, ending, kills, stream>>

Delivered(r) ==
  /\ inflight[r] # NoEvent
  /\ Append1(r, inflight[r])
  /\ inflight' = [inflight EXCEPT ![r] = NoEvent]
  /\ ending' = IF inflight[r] \in WorkerEnd
               THEN [ending EXCEPT ![r] = inflight[r]] ELSE ending
  /\ UNCHANGED <<engine, books, job, monitor, canceler, task, sent, kills>>

\* The event of a killed worker may never arrive.
Lost(r) ==
  /\ inflight[r] # NoEvent /\ ~ Live(r)
  /\ inflight' = [inflight EXCEPT ![r] = NoEvent]
  /\ UNCHANGED <<engine, books, job, monitor, canceler, task, sent, ending, kills, stream>>

\* raise_on_emit_error: the exception fails the episode.  One raised in the
\* agent loop is recorded first, as the agent error that ends the rollout.
WorkerPublishRaises(r) ==
  /\ task[r] = "running" /\ inflight[r] # NoEvent
  /\ CallRaises(r, inflight[r])
  /\ \/ /\ inflight[r] = "step"
        /\ inflight' = [inflight EXCEPT ![r] = "agent_error"]
        /\ UNCHANGED task
     \/ /\ inflight' = [inflight EXCEPT ![r] = NoEvent]
        /\ task' = [task EXCEPT ![r] = "error"]
  /\ UNCHANGED <<engine, books, job, monitor, canceler, sent, ending, kills>>

\* After the terminal: Episode.run returns, or re-raises the agent's error.
WorkerReturns(r) ==
  /\ task[r] = "running" /\ ending[r] # NoEvent
  /\ task' = [task EXCEPT ![r] = IF ending[r] = "completed" THEN "ok" ELSE "error"]
  /\ UNCHANGED <<engine, books, job, monitor, canceler, sent, inflight, ending, kills, stream>>

\* The worker process dies; max_retries is 0.
WorkerDies(r) ==
  /\ task[r] = "running"
  /\ task' = [task EXCEPT ![r] = "error"]
  /\ UNCHANGED <<engine, books, job, monitor, canceler, sent, inflight, ending, kills, stream>>

-----------------------------------------------------------------------------
JobStep(a) ==
  \/ CheckTerminal(a) \/ CheckRaises(a)
  \/ PublishTerminal(a) \/ PublishRaises(a) \/ MarkTerminal(a)

SubmitStep(r) ==
  \/ PublishAccepted(r) \/ AcceptedRaises(r) \/ Register(r)
  \/ StartRequest(r) \/ StartFails(r) \/ Unregister(r) \/ Report(r)
  \/ Record(r) \/ RecordCancelled(r) \/ SubmitCancels(r)
  \/ SubmitSettled(r) \/ SubmitRaised(r)

CancelStep(k) == CancelNext(k) \/ CancelSettled(k) \/ CancelRaised(k)

MonitorStep ==
  \/ MonitorTop \/ MonitorWait \/ MonitorLook \/ MonitorGet
  \/ MonitorSettled \/ MonitorRaised \/ MonitorLookRaises \/ MonitorRetire

WorkerMoves(r) ==
  \/ WorkerStep(r) \/ (\E e \in WorkerEnd : WorkerEnds(r, e))
  \/ Delivered(r) \/ WorkerPublishRaises(r) \/ WorkerReturns(r)

RayMoves(r) ==
  RayStarts(r) \/ RayKills(r) \/ WorkerMoves(r) \/ Lost(r) \/ WorkerDies(r)

Next ==
  \/ \E r \in Requests : Submit(r) \/ SubmitStep(r)
  \/ \E k \in Cancellers :
       \/ \E which \in {Requests} \cup {{r} : r \in Requests} : Cancel(k, which)
       \/ CancelStep(k)
  \/ \E a \in Actors : JobStep(a)
  \/ MonitorStep
  \/ \E r \in Requests : RayMoves(r)

\* The event loop runs every ready coroutine, calls to the publisher and to
\* Ray return, Ray schedules what it queued and an episode's budget ends it.
Fairness ==
  /\ \A r \in Requests :
       WF_vars(SubmitStep(r)) /\ WF_vars(RayStarts(r)) /\ WF_vars(WorkerMoves(r))
  /\ \A k \in Cancellers : WF_vars(CancelStep(k))
  /\ \A a \in Actors : WF_vars(JobStep(a))
  /\ WF_vars(MonitorStep)

Spec == Init /\ [][Next]_vars

LiveSpec == Spec /\ Fairness

-----------------------------------------------------------------------------
(* Properties *)

\* Every variable has its type (the fields of the engine and the executor).
TypeOK ==
  /\ {acceptedIds, accepted, cancelled, terminal, refs, waiting, withRef} \subseteq SUBSET Requests
  /\ {doomed, spared} \subseteq SUBSET Requests
  /\ submitLock \in Requests \cup {NoRequest}
  /\ sub \in [Requests -> SubmitPC]
  /\ job \in [Actors -> Jobs]
  /\ mpc \in MonitorPC /\ mref \in Requests \cup {NoRequest}
  /\ todo \in [Cancellers -> SUBSET Requests]
  /\ cur \in [Cancellers -> Requests \cup {NoRequest}]
  /\ task \in [Requests -> TaskState] /\ sent \in [Requests -> 0 .. MaxSteps]
  /\ inflight \in [Requests -> WorkerEnd \cup {"step", NoEvent}]
  /\ ending \in [Requests -> WorkerEnd \cup {NoEvent}]
  /\ events \in [Requests -> Seq(Event)]
  /\ cancels \in 0 .. MaxCancels /\ faults \in 0 .. MaxFaults

\* A submit, a cancel, the monitor and the worker race to end a request, and
\* the client sees one terminal event.
TerminalOnce ==
  \A r \in Requests : \A i, j \in DOMAIN events[r] :
    {events[r][i], events[r][j]} \subseteq TerminalStatus => i = j

\* No event of a request precedes its accepted event.
AcceptedFirst ==
  \A r \in Requests : events[r] # <<>> => events[r][1] = "accepted"

\* What the executor calls terminal has a terminal event, so that cancel may
\* skip it.
MarkedIsTerminal == \A r \in terminal : HasTerminal(r)

\* Somebody still has to deal with the task of r.
Handled(r) ==
  \/ r \in refs
  \/ sub[r] \in {"record", "rayCancel"}
  \/ \E k \in Cancellers : r \in todo[k]

\* While calls to the publisher succeed, a rollout that is queued or running is
\* tracked, or a call in progress is about to track or to cancel it, or Ray has
\* been told to kill it: cancelled work never runs on unnoticed, except where
\* ray.cancel raised, which the executor takes for a task that has ended.
NoStrayTask ==
  faults = 0 => \A r \in Requests : Live(r) => Handled(r) \/ r \in doomed \cup spared

\* A call is on its way to end r in the stream, or a cancel has r on its list.
Pledged(r) ==
  \/ \E a \in Actors : job[a].step \in {"check", "publish"} /\ job[a].req = r
  \/ \E k \in Cancellers : r \in todo[k]

\* The submit of r is at work between its accepted event and its return.
Submitting(r) ==
  sub[r] \in {"register", "start", "record", "rayCancel", "unregister", "report"}

\* While calls to the publisher succeed, a request that a cancel has matched is
\* over when no call is at work on it: its stream has ended, and its task does not
\* run unless Ray is still to kill it or ray.cancel raised, though the cancel may
\* have come before the task had a ref, or the submit and a second cancel may each
\* have taken the other for the one that acts.
CancelIsEffective ==
  faults = 0 => \A r \in cancelled :
    \/ HasTerminal(r) /\ (Live(r) => r \in doomed \cup spared)
    \/ Submitting(r) \/ Pledged(r)

\* Every request the stream has announced ends in the stream, unless a call to
\* the publisher raises: one that raises in the monitor ends the monitor task.
Terminates == \A r \in Requests : events[r] # <<>> ~> HasTerminal(r) \/ faults > 0

\* The executor's books are closed as well, with the same exception: nothing
\* stays tracked.
BooksClose == \A r \in Requests : r \in refs ~> r \notin refs \/ faults > 0
=============================================================================
