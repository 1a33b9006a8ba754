--------------------------- MODULE EventPublisher ---------------------------
(***************************************************************************)
(* rl/event_publisher.py: the bounded hot log of rollout events, its JSONL *)
(* spill and the clients that read it by offset.                           *)
(*                                                                         *)
(* Every method runs under self._condition, so an attempt to publish, an   *)
(* acknowledgement and a read are one step each.  What interleaves is what *)
(* happens between them: the retry loop of publish_payload, acks and reads.*)
(***************************************************************************)
EXTENDS Integers, Sequences, FiniteSets

CONSTANTS
  Requests,     \* request ids; RL uses the request id as trajectory_id too
  Types,        \* event types other than "terminal"
  Callers,      \* threads and actor calls that publish
  Readers,      \* open event streams
  Trainer,      \* the reader that acknowledges
  MaxHot,       \* max_hot_events
  Persist,      \* persist_events_dir is set
  Proposals,    \* the event_index values callers propose
  MaxCalls,     \* bound: calls of publish_payload
  MaxFaults     \* bound: spill writes that may fail

ASSUME PublisherAssumption ==
  /\ Trainer \in Readers
  /\ MaxHot \in Nat \ {0}
  /\ Persist \in BOOLEAN
  /\ Proposals \subseteq Int
  /\ {MaxCalls, MaxFaults} \subseteq Nat
  /\ "terminal" \notin Types

VARIABLES
  hot,          \* _events
  nextOffset,   \* _next_offset
  ackOffset,    \* _ack_offset
  terminals,    \* the keys of _terminal_events
  nextIndex,    \* _request_next_event_index
  written,      \* the events in the JSONL files, in the order they were written
  dropped,      \* _dropped_event_count
  call,         \* the payload a caller is publishing, or Idle
  tried,        \* an attempt of that call has raised
  cursor,       \* next_offset of every reader
  stream,       \* history: every event appended, in order
  received,     \* history: the offsets a reader was given
  evicted,      \* history: the offsets an overflow removed
  calls, faults \* history: publish calls begun, spill writes that failed

log     == <<hot, nextOffset, terminals, nextIndex, stream, evicted>>
spill   == <<written, dropped, faults>>
callers == <<call, tried, calls>>
readers == <<cursor, received>>
vars    == <<log, ackOffset, spill, callers, readers>>

Idle == [type |-> "idle"]

AllTypes == Types \cup {"terminal"}
Payload  == [req : Requests, type : AllTypes, index : Proposals]
Entry    == [req : Requests, type : AllTypes, index : Int, offset : Nat]

Init ==
  /\ hot = <<>> /\ nextOffset = 0 /\ ackOffset = -1
  /\ terminals = {} /\ nextIndex = [r \in Requests |-> 0]
  /\ written = <<>> /\ dropped = 0
  /\ call = [c \in Callers |-> Idle] /\ tried = [c \in Callers |-> FALSE]
  /\ cursor = [d \in Readers |-> 0]
  /\ stream = <<>> /\ received = [d \in Readers |-> {}] /\ evicted = {}
  /\ calls = 0 /\ faults = 0

-----------------------------------------------------------------------------
(* publish_payload *)

Begin(c, p) ==
  /\ call[c] = Idle /\ calls < MaxCalls
  /\ call' = [call EXCEPT ![c] = p]
  /\ tried' = [tried EXCEPT ![c] = FALSE]
  /\ calls' = calls + 1
  /\ UNCHANGED <<log, ackOffset, spill, readers>>

Return(c) ==
  /\ call' = [call EXCEPT ![c] = Idle]
  /\ UNCHANGED <<tried, calls>>

AlreadyTerminal(p) == p.type = "terminal" /\ p.req \in terminals

\* A second terminal of a request returns the first.
ReturnExisting(c) ==
  /\ call[c] # Idle
  /\ AlreadyTerminal(call[c])
  /\ Return(c)
  /\ UNCHANGED <<log, ackOffset, spill, readers>>

\* Slip: the proposed index is taken as it comes.
StampedAsProposed(p) ==
  [req |-> p.req, type |-> p.type, index |-> p.index, offset |-> nextOffset]

Stamped(p) ==
  [req    |-> p.req,
   type   |-> p.type,
   index  |-> IF p.index >= nextIndex[p.req] THEN p.index ELSE nextIndex[p.req],
   offset |-> nextOffset]

Overflows == Len(hot) + 1 > MaxHot

Recorded(e) ==
  /\ nextIndex' = [nextIndex EXCEPT ![e.req] = e.index + 1]
  /\ nextOffset' = nextOffset + 1
  /\ terminals' = IF e.type = "terminal" THEN terminals \cup {e.req} ELSE terminals
  /\ stream' = Append(stream, e)
  /\ IF Overflows
       THEN /\ hot' = Tail(Append(hot, e))
            /\ evicted' = evicted \cup {Head(Append(hot, e)).offset}
       ELSE /\ hot' = Append(hot, e)
            /\ UNCHANGED evicted

\* One locked attempt that appends the event.
Attempt(c) ==
  /\ call[c] # Idle
  /\ ~ AlreadyTerminal(call[c])
  /\ Recorded(Stamped(call[c]))
  /\ UNCHANGED <<ackOffset, readers>>

\* _spill of the events in s: each to the file of its trajectory, or nowhere.
Spilled(s) ==
  IF Persist
  THEN written' = written \o s /\ UNCHANGED dropped
  ELSE dropped' = dropped + Len(s) /\ UNCHANGED written

\* Slip: the new event is spilled instead of the oldest.
PoppedNewest(c) == IF Overflows THEN <<Stamped(call[c])>> ELSE <<>>

Popped(c) ==
  IF Overflows THEN <<Head(Append(hot, Stamped(call[c])))>> ELSE <<>>

PublishOnce(c) ==
  /\ Attempt(c)
  /\ Spilled(Popped(c))
  /\ UNCHANGED faults
  /\ Return(c)

SpillCanFail == Persist /\ faults < MaxFaults

\* The write of the popped event raises: the attempt has appended its event,
\* the popped one is gone, and the loop will try the same payload again.
SpillFails(c) ==
  /\ Attempt(c)
  /\ Overflows /\ SpillCanFail
  /\ faults' = faults + 1
  /\ tried' = [tried EXCEPT ![c] = TRUE]
  /\ UNCHANGED <<written, dropped, call, calls>>

\* event_publish_timeout_s is over when an attempt raises.
GiveUp(c) ==
  /\ call[c] # Idle /\ tried[c]
  /\ Return(c)
  /\ UNCHANGED <<log, ackOffset, spill, readers>>

-----------------------------------------------------------------------------
(* ack: the cursor only grows, and _compact_locked spills what it covers.  *)

Larger(a, b) == IF a >= b THEN a ELSE b

\* Slip: the acknowledged offset is read as the next one to send.
CoveredNext(o) == Cardinality({i \in DOMAIN hot : hot[i].offset <= o + 1})

\* How many events at the head of the log the acknowledgement o covers.
Covered(o) == Cardinality({i \in DOMAIN hot : hot[i].offset <= o})

Compact(n) ==
  /\ hot' = SubSeq(hot, n + 1, Len(hot))
  /\ UNCHANGED <<nextOffset, terminals, nextIndex, stream, evicted>>

Ack(o) ==
  /\ ackOffset' = Larger(ackOffset, o)
  /\ Compact(Covered(ackOffset'))
  /\ Spilled(SubSeq(hot, 1, Covered(ackOffset')))
  /\ UNCHANGED <<faults, callers, readers>>

\* The n-th write raises: the events before it are on disk, it is nowhere,
\* the rest stays hot.
AckFails(o, n) ==
  /\ SpillCanFail
  /\ ackOffset' = Larger(ackOffset, o)
  /\ n \in 1 .. Covered(ackOffset')
  /\ Compact(n)
  /\ Spilled(SubSeq(hot, 1, n - 1))
  /\ faults' = faults + 1
  /\ UNCHANGED <<callers, readers>>

-----------------------------------------------------------------------------
(* wait_for_events and the loop around it *)

\* Slip: the cursor is read as the last offset seen.
BatchAfter(d) == {i \in DOMAIN hot : hot[i].offset > cursor[d]}

\* Where the events a reader is given are in the hot log.
Batch(d) == {i \in DOMAIN hot : hot[i].offset >= cursor[d]}

Read(d) ==
  /\ Batch(d) # {}
  /\ received' = [received EXCEPT ![d] = @ \cup {hot[i].offset : i \in Batch(d)}]
  /\ cursor' = [cursor EXCEPT ![d] = hot[Len(hot)].offset + 1]
  /\ UNCHANGED <<log, ackOffset, spill, callers>>

\* The trainer reconnects at the offset after the last one it acknowledged.
Resume ==
  /\ cursor[Trainer] # ackOffset + 1
  /\ cursor' = [cursor EXCEPT ![Trainer] = ackOffset + 1]
  /\ UNCHANGED <<log, ackOffset, spill, callers, received>>

Next ==
  \/ \E c \in Callers, p \in Payload : Begin(c, p)
  \/ \E c \in Callers :
       ReturnExisting(c) \/ PublishOnce(c) \/ SpillFails(c) \/ GiveUp(c)
  \/ \E o \in received[Trainer] : Ack(o)
  \/ \E o \in received[Trainer], n \in 1 .. MaxHot : AckFails(o, n)
  \/ \E d \in Readers : Read(d)
  \/ Resume

\* publish_payload and the readers are loops of live threads.
Fairness ==
  /\ \A c \in Callers : WF_vars(PublishOnce(c) \/ ReturnExisting(c))
  /\ \A d \in Readers : WF_vars(Read(d))

Spec == Init /\ [][Next]_vars

LiveSpec == Spec /\ Fairness

-----------------------------------------------------------------------------
(* Properties *)

\* Every variable has its type (the fields of EventPublisher.__init__).
TypeOK ==
  /\ hot \in Seq(Entry) /\ stream \in Seq(Entry)
  /\ nextOffset \in Nat /\ ackOffset \in Int
  /\ terminals \subseteq Requests
  /\ nextIndex \in [Requests -> Int]
  /\ written \in Seq(Entry) /\ dropped \in Nat
  /\ call \in [Callers -> Payload \cup {Idle}]
  /\ tried \in [Callers -> BOOLEAN]
  /\ cursor \in [Readers -> Int]
  /\ received \in [Readers -> SUBSET Nat] /\ evicted \subseteq Nat
  /\ calls \in Nat /\ faults \in Nat

\* However many callers publish a terminal event of a request, and however
\* often an attempt is repeated after a failed spill, the stream holds one.
TerminalOnce ==
  \A i, j \in DOMAIN stream :
    /\ stream[i].type = "terminal" /\ stream[j].type = "terminal"
    /\ stream[i].req = stream[j].req
    => i = j

\* Two events of a request never carry the same event_index, and the later
\* one carries the larger, whatever the callers proposed.
IndexIncreasing ==
  \A i, j \in DOMAIN stream :
    i < j /\ stream[i].req = stream[j].req => stream[i].index < stream[j].index

\* While no spill write failed, the files followed by the hot log are the whole
\* stream: nothing lost, repeated or out of order.
SpillComplete == Persist /\ faults = 0 => written \o hot = stream

\* A reader has been given every offset it has moved past, but for what an
\* overflow evicted and, for a reader that is not the acknowledging trainer,
\* what the server-global acknowledgement removed.
GapsExplained ==
  \A d \in Readers : \A o \in 0 .. cursor[d] - 1 :
    o \in received[d] \cup evicted \cup (IF d = Trainer THEN {} ELSE 0 .. ackOffset)

\* Every event reaches the trainer unless an overflow evicts it first.
Delivered ==
  \A o \in 0 .. MaxCalls :
    nextOffset > o ~> o \in received[Trainer] \cup evicted

\* The stream of published events, without offsets.
Abstract(s) ==
  [i \in DOMAIN s |-> [req |-> s[i].req, type |-> s[i].type, index |-> s[i].index]]

Abs == INSTANCE EventStream WITH
         stream <- Abstract(stream)

\* The publisher implements the stream a client relies on.
ImplementsEventStream == Abs!Spec
=============================================================================
