----------------------- MODULE EventPublisher_proofs -----------------------
(***************************************************************************)
(* Proofs about EventPublisher.  All of them rest on one fact: the two     *)
(* tables of the publisher, terminals and nextIndex, know at least as much *)
(* about the stream as its events do.  An attempt decides by the tables,   *)
(* the properties speak of the stream.                                     *)
(***************************************************************************)
EXTENDS EventPublisher, TLAPS, SequenceTheorems, FiniteSetTheorems

\* The types of what an attempt reads and appends to.
CoreType ==
  /\ stream \in Seq(Entry)
  /\ nextOffset \in Nat
  /\ nextIndex \in [Requests -> Int]
  /\ call \in [Callers -> Payload \cup {Idle}]

\* Every terminal event of the stream is in _terminal_events.
TerminalsKnown ==
  \A i \in DOMAIN stream :
    stream[i].type = "terminal" => stream[i].req \in terminals

\* Every event_index of the stream lies below the next one of its request.
IndexBelowNext ==
  \A i \in DOMAIN stream : stream[i].index < nextIndex[stream[i].req]

Inv ==
  CoreType /\ TerminalsKnown /\ IndexBelowNext /\ TerminalOnce /\ IndexIncreasing

-----------------------------------------------------------------------------
(* What is appended *)

\* The stamped event of a payload is an entry, and its index is not below
\* the next one of its request.
LEMMA StampedEntry ==
  ASSUME CoreType, NEW p \in Payload
  PROVE  /\ Stamped(p) \in Entry
         /\ Stamped(p).req = p.req /\ Stamped(p).type = p.type
         /\ Stamped(p).index >= nextIndex[p.req]
<1>1. p.req \in Requests /\ p.type \in AllTypes /\ p.index \in Int
  BY PublisherAssumption DEF Payload
<1>2. nextIndex[p.req] \in Int /\ nextOffset \in Nat
  BY <1>1 DEF CoreType
<1> QED
  BY <1>1, <1>2 DEF Stamped, Entry

\* A step appends one stamped payload that may still be appended, or it
\* leaves the stream, the tables and the offset alone.
LEMMA StepsOfStream ==
  ASSUME CoreType, [Next]_vars
  PROVE  \/ UNCHANGED <<stream, terminals, nextIndex, nextOffset>>
         \/ \E p \in Payload : ~ AlreadyTerminal(p) /\ Recorded(Stamped(p))
<1>1. ASSUME NEW c \in Callers, Attempt(c)
      PROVE  \E p \in Payload : ~ AlreadyTerminal(p) /\ Recorded(Stamped(p))
  <2>1. call[c] \in Payload
    BY <1>1 DEF Attempt, CoreType
  <2> QED
    BY <1>1, <2>1 DEF Attempt
<1>2. ASSUME NEW c \in Callers,
             PublishOnce(c) \/ SpillFails(c)
      PROVE  \E p \in Payload : ~ AlreadyTerminal(p) /\ Recorded(Stamped(p))
  BY <1>1, <1>2 DEF PublishOnce, SpillFails
<1>3. ASSUME NEW c \in Callers, ReturnExisting(c) \/ GiveUp(c)
      PROVE  UNCHANGED <<stream, terminals, nextIndex, nextOffset>>
  BY <1>3 DEF ReturnExisting, GiveUp, log
<1>4. ASSUME NEW c \in Callers, NEW p \in Payload, Begin(c, p)
      PROVE  UNCHANGED <<stream, terminals, nextIndex, nextOffset>>
  BY <1>4 DEF Begin, log
<1>5. ASSUME NEW o, Ack(o) \/ \E n \in 1 .. MaxHot : AckFails(o, n)
      PROVE  UNCHANGED <<stream, terminals, nextIndex, nextOffset>>
  BY <1>5 DEF Ack, AckFails, Compact
<1>6. ASSUME Resume \/ \E d \in Readers : Read(d)
      PROVE  UNCHANGED <<stream, terminals, nextIndex, nextOffset>>
  BY <1>6 DEF Resume, Read, log
<1>7. ASSUME UNCHANGED vars
      PROVE  UNCHANGED <<stream, terminals, nextIndex, nextOffset>>
  BY <1>7 DEF vars, log
<1> QED
  BY <1>2, <1>3, <1>4, <1>5, <1>6, <1>7 DEF Next

\* Calls keep their type.
LEMMA CallsTyped ==
  ASSUME CoreType, [Next]_vars
  PROVE  call' \in [Callers -> Payload \cup {Idle}]
<1>1. ASSUME NEW c \in Callers, NEW p \in Payload, Begin(c, p)
      PROVE  call' \in [Callers -> Payload \cup {Idle}]
  BY <1>1 DEF Begin, CoreType
<1>2. ASSUME NEW c \in Callers, Return(c)
      PROVE  call' \in [Callers -> Payload \cup {Idle}]
  BY <1>2 DEF Return, CoreType
<1>3. ASSUME NEW c \in Callers, ReturnExisting(c) \/ PublishOnce(c) \/ GiveUp(c)
      PROVE  call' \in [Callers -> Payload \cup {Idle}]
  BY <1>2, <1>3 DEF ReturnExisting, PublishOnce, GiveUp
<1>4. ASSUME NEW c \in Callers, SpillFails(c)
      PROVE  call' = call
  BY <1>4 DEF SpillFails
<1>5. ASSUME NEW o, Ack(o) \/ \E n \in 1 .. MaxHot : AckFails(o, n)
      PROVE  call' = call
  BY <1>5 DEF Ack, AckFails, callers
<1>6. ASSUME Resume \/ \E d \in Readers : Read(d)
      PROVE  call' = call
  BY <1>6 DEF Resume, Read, callers
<1>7. ASSUME UNCHANGED vars
      PROVE  call' = call
  BY <1>7 DEF vars, callers
<1> QED
  BY <1>1, <1>3, <1>4, <1>5, <1>6, <1>7 DEF Next, CoreType

-----------------------------------------------------------------------------
(* The invariant *)

LEMMA InvInit == Init => Inv
<1> SUFFICES ASSUME Init PROVE Inv
  OBVIOUS
<1>1. stream = <<>> /\ DOMAIN stream = {}
  BY DEF Init
<1>2. CoreType
  BY <1>1 DEF Init, CoreType
<1> QED
  BY <1>1, <1>2 DEF Inv, TerminalsKnown, IndexBelowNext, TerminalOnce, IndexIncreasing

\* The step that matters: a stamped payload at the end of the stream.
LEMMA InvAppend ==
  ASSUME Inv, NEW p \in Payload, ~ AlreadyTerminal(p), Recorded(Stamped(p)),
         call' \in [Callers -> Payload \cup {Idle}]
  PROVE  Inv'
<1> DEFINE e == Stamped(p)
           n == Len(stream) + 1
<1>1. CoreType
  BY DEF Inv
<1>2. /\ e \in Entry /\ e.req = p.req /\ e.type = p.type
      /\ e.index >= nextIndex[p.req]
  BY <1>1, StampedEntry
<1>3. e.req \in Requests /\ e.index \in Int
  BY <1>2 DEF Entry
<1>4. stream \in Seq(Entry) /\ Len(stream) \in Nat /\ nextIndex \in [Requests -> Int]
  BY <1>1 DEF CoreType
<1>5. /\ stream' = Append(stream, e)
      /\ nextIndex' = [nextIndex EXCEPT ![e.req] = e.index + 1]
      /\ nextOffset' = nextOffset + 1
      /\ terminals' = IF e.type = "terminal" THEN terminals \cup {e.req} ELSE terminals
  BY DEF Recorded
<1>6. /\ stream' \in Seq(Entry)
      /\ DOMAIN stream' = 1 .. n /\ DOMAIN stream = 1 .. n - 1
      /\ stream'[n] = e
      /\ \A i \in 1 .. n - 1 : stream'[i] = stream[i] /\ stream[i] \in Entry
  BY <1>2, <1>4, <1>5
<1>7. CoreType'
  BY <1>1, <1>3, <1>5, <1>6 DEF CoreType
<1>8. TerminalsKnown'
  <2>1. \A i \in 1 .. n - 1 : stream[i].type = "terminal" => stream[i].req \in terminals
    BY <1>6 DEF Inv, TerminalsKnown
  <2> QED
    BY <1>4, <1>5, <1>6, <2>1 DEF TerminalsKnown
<1>9. \A i \in 1 .. n - 1 :
        /\ stream[i].req \in Requests /\ stream[i].index \in Int
        /\ stream[i].index < nextIndex[stream[i].req]
  BY <1>6 DEF Inv, IndexBelowNext, Entry
<1>10. IndexBelowNext'
  <2> SUFFICES ASSUME NEW i \in 1 .. n
               PROVE  stream'[i].index < nextIndex'[stream'[i].req]
    BY <1>6 DEF IndexBelowNext
  <2>1. CASE i = n
    BY <1>3, <1>4, <1>5, <1>6, <2>1
  <2>2. CASE i # n
    <3>1. i \in 1 .. n - 1
      BY <1>4, <2>2
    <3>2. CASE stream[i].req = e.req
      BY <1>2, <1>3, <1>4, <1>5, <1>6, <1>9, <3>1, <3>2
    <3>3. CASE stream[i].req # e.req
      BY <1>4, <1>5, <1>6, <1>9, <3>1, <3>3
    <3> QED
      BY <3>2, <3>3
  <2> QED
    BY <2>1, <2>2
<1>11. TerminalOnce'
  <2>1. ASSUME NEW i \in 1 .. n - 1, stream[i].type = "terminal",
               stream[i].req = e.req, e.type = "terminal"
        PROVE  FALSE
    BY <1>2, <1>6, <2>1 DEF Inv, TerminalsKnown, AlreadyTerminal
  <2>2. \A i, j \in 1 .. n - 1 :
          /\ stream[i].type = "terminal" /\ stream[j].type = "terminal"
          /\ stream[i].req = stream[j].req
          => i = j
    BY <1>6 DEF Inv, TerminalOnce
  <2> SUFFICES ASSUME NEW i \in 1 .. n, NEW j \in 1 .. n,
                      stream'[i].type = "terminal", stream'[j].type = "terminal",
                      stream'[i].req = stream'[j].req
               PROVE  i = j
    BY <1>6 DEF TerminalOnce
  <2>3. CASE i # n /\ j # n
    BY <1>4, <1>6, <2>2, <2>3
  <2>4. CASE i = n /\ j # n
    BY <1>4, <1>6, <2>1, <2>4
  <2>5. CASE i # n /\ j = n
    BY <1>4, <1>6, <2>1, <2>5
  <2> QED
    BY <2>3, <2>4, <2>5
<1>12. IndexIncreasing'
  <2>1. \A i, j \in 1 .. n - 1 :
          i < j /\ stream[i].req = stream[j].req => stream[i].index < stream[j].index
    BY <1>6 DEF Inv, IndexIncreasing
  <2> SUFFICES ASSUME NEW i \in 1 .. n, NEW j \in 1 .. n,
                      i < j, stream'[i].req = stream'[j].req
               PROVE  stream'[i].index < stream'[j].index
    BY <1>6 DEF IndexIncreasing
  <2>2. i \in 1 .. n - 1
    BY <1>4
  <2>3. CASE j = n
    BY <1>2, <1>3, <1>4, <1>6, <1>9, <2>2, <2>3
  <2>4. CASE j # n
    BY <1>4, <1>6, <2>1, <2>2, <2>4
  <2> QED
    BY <2>3, <2>4
<1> QED
  BY <1>7, <1>8, <1>10, <1>11, <1>12 DEF Inv

LEMMA InvStep == Inv /\ [Next]_vars => Inv'
<1> SUFFICES ASSUME Inv, [Next]_vars PROVE Inv'
  OBVIOUS
<1>1. CoreType
  BY DEF Inv
<1>2. call' \in [Callers -> Payload \cup {Idle}]
  BY <1>1, CallsTyped
<1>3. CASE UNCHANGED <<stream, terminals, nextIndex, nextOffset>>
  <2>1. stream' = stream /\ terminals' = terminals /\ nextIndex' = nextIndex
    BY <1>3
  <2>2. CoreType'
    BY <1>1, <1>2, <1>3 DEF CoreType
  <2> QED
    BY <2>1, <2>2
    DEF Inv, TerminalsKnown, IndexBelowNext, TerminalOnce, IndexIncreasing
<1>4. CASE \E p \in Payload : ~ AlreadyTerminal(p) /\ Recorded(Stamped(p))
  BY <1>2, <1>4, InvAppend
<1> QED
  BY <1>1, <1>3, <1>4, StepsOfStream

\* Every reachable state satisfies the invariant.
LEMMA Invariance == Spec => []Inv
  BY InvInit, InvStep, PTL DEF Spec

\* One terminal per request, whatever callers race and however often a spill
\* fails and the attempt is repeated, for any log size and any set of callers.
THEOREM OneTerminal == Spec => []TerminalOnce
<1>1. Inv => TerminalOnce
  BY DEF Inv
<1> QED
  BY <1>1, Invariance, PTL

\* The event_index of a request grows along the stream.
THEOREM IndicesGrow == Spec => []IndexIncreasing
<1>1. Inv => IndexIncreasing
  BY DEF Inv
<1> QED
  BY <1>1, Invariance, PTL
-----------------------------------------------------------------------------
(* The publisher implements EventStream *)

\* What Abstract does to a sequence of entries.
LEMMA AbstractSeq ==
  ASSUME NEW s \in Seq(Entry)
  PROVE  /\ Abstract(s) \in Seq(Abs!Event)
         /\ Len(Abstract(s)) = Len(s)
         /\ DOMAIN Abstract(s) = DOMAIN s
         /\ \A i \in DOMAIN s :
              /\ Abstract(s)[i].req = s[i].req
              /\ Abstract(s)[i].type = s[i].type
              /\ Abstract(s)[i].index = s[i].index
<1>1. Len(s) \in Nat /\ DOMAIN s = 1 .. Len(s) /\ \A i \in DOMAIN s : s[i] \in Entry
  OBVIOUS
<1>2. \A i \in DOMAIN s :
        [req |-> s[i].req, type |-> s[i].type, index |-> s[i].index] \in Abs!Event
  BY <1>1 DEF Entry, AllTypes, Abs!Event
<1>3. Abstract(s) \in [1 .. Len(s) -> Abs!Event]
  BY <1>1, <1>2 DEF Abstract
<1>4. Abstract(s) \in Seq(Abs!Event) /\ Len(Abstract(s)) = Len(s)
  BY <1>1, <1>3
<1> QED
  BY <1>1, <1>4 DEF Abstract

LEMMA RefinesInit == Init => Abs!Init
<1> SUFFICES ASSUME Init PROVE Abstract(stream) = <<>>
  BY DEF Abs!Init
<1>1. stream = <<>>
  BY DEF Init
<1>2. stream \in Seq(Entry) /\ Len(stream) = 0
  BY <1>1
<1> QED
  <2>1. Abstract(stream) \in Seq(Abs!Event) /\ Len(Abstract(stream)) = 0
    BY <1>2, AbstractSeq
  <2> QED
    BY <2>1, EmptySeq

\* An attempt that appends is the abstract Publish.
LEMMA RefinesAppend ==
  ASSUME Inv, NEW p \in Payload, ~ AlreadyTerminal(p), Recorded(Stamped(p))
  PROVE  Abs!Publish
<1> DEFINE e == Stamped(p)
           n == Len(stream) + 1
           a == Abstract(stream)
           b == Abstract(stream')
<1>1. CoreType
  BY DEF Inv
<1>2. /\ e \in Entry /\ e.req = p.req /\ e.type = p.type
      /\ e.index >= nextIndex[p.req]
  BY <1>1, StampedEntry
<1>3. stream \in Seq(Entry) /\ Len(stream) \in Nat /\ nextIndex \in [Requests -> Int]
  BY <1>1 DEF CoreType
<1>4. stream' = Append(stream, e)
  BY DEF Recorded
<1>5. /\ stream' \in Seq(Entry) /\ Len(stream') = n
      /\ DOMAIN stream' = 1 .. n /\ DOMAIN stream = 1 .. n - 1
      /\ stream'[n] = e
      /\ \A i \in 1 .. n - 1 : stream'[i] = stream[i] /\ stream[i] \in Entry
  BY <1>2, <1>3, <1>4
<1>6. /\ Len(a) = n - 1 /\ DOMAIN a = 1 .. n - 1
      /\ Len(b) = n /\ DOMAIN b = 1 .. n
      /\ b \in Seq(Abs!Event)
  BY <1>3, <1>5, AbstractSeq
<1>7. \A i \in 1 .. n - 1 : b[i] = a[i]
  BY <1>3, <1>5 DEF Abstract
<1>8. \A i \in 1 .. n - 1 :
        a[i].req = stream[i].req /\ a[i].type = stream[i].type /\ a[i].index = stream[i].index
  BY <1>3, <1>5, AbstractSeq
<1>9. b[n].req = e.req /\ b[n].type = e.type /\ b[n].index = e.index /\ b[n] \in Abs!Event
  <2>1. n \in DOMAIN stream'
    BY <1>3, <1>5
  <2> QED
    BY <1>5, <1>6, <2>1, AbstractSeq
<1>10. b[n].type = "terminal" => ~ Abs!HasTerminal(a, b[n].req)
  <2> SUFFICES ASSUME e.type = "terminal", NEW i \in 1 .. n - 1,
                      stream[i].req = e.req, stream[i].type = "terminal"
               PROVE  FALSE
    BY <1>6, <1>8, <1>9 DEF Abs!HasTerminal
  <2>1. stream[i].req \in terminals
    BY <1>5 DEF Inv, TerminalsKnown
  <2> QED
    BY <1>2, <2>1 DEF AlreadyTerminal
<1>11. \A i \in 1 .. n - 1 : a[i].req = b[n].req => a[i].index < b[n].index
  <2> SUFFICES ASSUME NEW i \in 1 .. n - 1, stream[i].req = e.req
               PROVE  stream[i].index < e.index
    BY <1>8, <1>9
  <2>1. stream[i].index < nextIndex[stream[i].req]
    BY <1>5 DEF Inv, IndexBelowNext
  <2>2. stream[i].index \in Int /\ e.index \in Int /\ nextIndex[e.req] \in Int
    BY <1>2, <1>3, <1>5 DEF Entry
  <2> QED
    BY <1>2, <2>1, <2>2
<1>12. Abs!Fits(a, b[n])
  BY <1>6, <1>9, <1>10, <1>11 DEF Abs!Fits
<1> QED
  BY <1>3, <1>6, <1>7, <1>12 DEF Abs!Publish

LEMMA RefinesStep == Inv /\ [Next]_vars => [Abs!Publish]_(Abstract(stream))
<1> SUFFICES ASSUME Inv, [Next]_vars
             PROVE  Abs!Publish \/ Abstract(stream') = Abstract(stream)
  OBVIOUS
<1>1. CoreType
  BY DEF Inv
<1>2. CASE stream' = stream
  BY <1>2
<1>3. CASE \E p \in Payload : ~ AlreadyTerminal(p) /\ Recorded(Stamped(p))
  BY <1>3, RefinesAppend
<1> QED
  BY <1>1, <1>2, <1>3, StepsOfStream

\* The hot log, the spill, acknowledgements and retries are invisible: what
\* clients can ever be given is one EventStream.
THEOREM PublisherImplements == Spec => ImplementsEventStream
  BY RefinesInit, RefinesStep, Invariance, PTL
  DEF Spec, ImplementsEventStream, Abs!Spec

-----------------------------------------------------------------------------
(* Types *)

\* Covered counts the events of the log an acknowledgement covers.
LEMMA CoveredBound ==
  ASSUME TypeOK, NEW o
  PROVE  Covered(o) \in Nat /\ Covered(o) <= Len(hot)
<1>1. Len(hot) \in Nat /\ DOMAIN hot = 1 .. Len(hot)
  BY DEF TypeOK
<1>2. IsFiniteSet(1 .. Len(hot)) /\ Cardinality(1 .. Len(hot)) = Len(hot)
  <2>1. \A n \in Nat : IsFiniteSet(1 .. n) /\ Cardinality(1 .. n) = n
    <3> SUFFICES ASSUME NEW n \in Nat
                 PROVE  IsFiniteSet(1 .. n) /\ Cardinality(1 .. n) = n
      OBVIOUS
    <3>1. /\ IsFiniteSet(1 .. n)
          /\ Cardinality(1 .. n) = IF 1 > n THEN 0 ELSE n - 1 + 1
      BY FS_Interval
    <3>2. (IF 1 > n THEN 0 ELSE n - 1 + 1) = n
      OBVIOUS
    <3> QED
      BY <3>1, <3>2
  <2> QED
    BY <1>1, <2>1
<1>3. {i \in DOMAIN hot : hot[i].offset <= o} \subseteq 1 .. Len(hot)
  BY <1>1
<1> QED
  BY <1>1, <1>2, <1>3, FS_Subset, FS_CardinalityType DEF Covered

\* What the log is after its first n events are gone.
LEMMA Shortened ==
  ASSUME TypeOK, NEW n \in 0 .. Len(hot)
  PROVE  /\ SubSeq(hot, n + 1, Len(hot)) \in Seq(Entry)
         /\ Len(SubSeq(hot, n + 1, Len(hot))) = Len(hot) - n
         /\ \A i \in 1 .. Len(hot) - n : SubSeq(hot, n + 1, Len(hot))[i] = hot[n + i]
         /\ SubSeq(hot, 1, n) \in Seq(Entry)
         /\ Len(SubSeq(hot, 1, n)) = n
         /\ \A i \in 1 .. n : SubSeq(hot, 1, n)[i] = hot[i]
<1>1. hot \in Seq(Entry) /\ Len(hot) \in Nat /\ n \in Nat
  BY DEF TypeOK
<1> QED
  BY <1>1, SubSeqProperties

\* What the log is after an event.
LEMMA Extended ==
  ASSUME TypeOK, NEW e \in Entry
  PROVE  /\ Append(hot, e) \in Seq(Entry) /\ Len(Append(hot, e)) = Len(hot) + 1
         /\ \A i \in 1 .. Len(hot) : Append(hot, e)[i] = hot[i]
         /\ Append(hot, e)[Len(hot) + 1] = e
         /\ Tail(Append(hot, e)) \in Seq(Entry) /\ Len(Tail(Append(hot, e))) = Len(hot)
         /\ \A i \in 1 .. Len(hot) : Tail(Append(hot, e))[i] = Append(hot, e)[i + 1]
         /\ Head(Append(hot, e)) = Append(hot, e)[1]
         /\ Head(Append(hot, e)) \in Entry
<1>1. hot \in Seq(Entry) /\ Len(hot) \in Nat
  BY DEF TypeOK
<1>2. /\ Append(hot, e) \in Seq(Entry) /\ Len(Append(hot, e)) = Len(hot) + 1
      /\ \A i \in 1 .. Len(hot) : Append(hot, e)[i] = hot[i]
      /\ Append(hot, e)[Len(hot) + 1] = e
  BY <1>1, AppendProperties
<1>3. Append(hot, e) # <<>>
  BY <1>1, <1>2
<1> QED
  BY <1>1, <1>2, <1>3, HeadTailProperties

\* What a step does to the log: nothing, one more event, or the n oldest leave.
Adds(p) == p \in Payload /\ Recorded(Stamped(p)) /\ UNCHANGED ackOffset

Removes(o, n) ==
  /\ ackOffset' = Larger(ackOffset, o)
  /\ n \in 0 .. Covered(ackOffset')
  /\ Compact(n)

Keeps == UNCHANGED <<log, ackOffset>>

\* What a step does to the files.
WritesPopped(p) ==
  \/ Spilled(IF Overflows THEN <<Head(Append(hot, Stamped(p)))>> ELSE <<>>) /\ UNCHANGED faults
  \/ faults' = faults + 1 /\ UNCHANGED <<written, dropped>>

WritesHead(n) ==
  \/ Spilled(SubSeq(hot, 1, n)) /\ UNCHANGED faults
  \/ n > 0 /\ faults' = faults + 1 /\ Spilled(SubSeq(hot, 1, n - 1))

LEMMA StepsOfLog ==
  ASSUME TypeOK, [Next]_vars
  PROVE  \/ Keeps /\ UNCHANGED spill
         \/ \E p \in Payload : Adds(p) /\ WritesPopped(p) /\ UNCHANGED readers
         \/ \E o \in received[Trainer] : \E n \in Nat :
              Removes(o, n) /\ WritesHead(n) /\ UNCHANGED readers
<1>1. ASSUME NEW c \in Callers, PublishOnce(c) \/ SpillFails(c)
      PROVE  \E p \in Payload : Adds(p) /\ WritesPopped(p) /\ UNCHANGED readers
  <2>1. call[c] \in Payload
    BY <1>1 DEF PublishOnce, SpillFails, Attempt, TypeOK
  <2>2. Adds(call[c]) /\ UNCHANGED readers
    BY <1>1, <2>1 DEF PublishOnce, SpillFails, Attempt, Adds
  <2>3. WritesPopped(call[c])
    <3>1. CASE PublishOnce(c)
      BY <3>1, Zenon DEF PublishOnce, Popped, WritesPopped
    <3>2. CASE SpillFails(c)
      BY <3>2 DEF SpillFails, WritesPopped
    <3> QED
      BY <1>1, <3>1, <3>2
  <2> QED
    BY <2>1, <2>2, <2>3
<1>2. ASSUME NEW c \in Callers, ReturnExisting(c) \/ GiveUp(c)
      PROVE  Keeps /\ UNCHANGED spill
  BY <1>2 DEF ReturnExisting, GiveUp, Keeps
<1>3. ASSUME NEW c \in Callers, NEW p \in Payload, Begin(c, p)
      PROVE  Keeps /\ UNCHANGED spill
  BY <1>3 DEF Begin, Keeps
<1>4. ASSUME NEW o \in received[Trainer], Ack(o)
      PROVE  \E n \in Nat : Removes(o, n) /\ WritesHead(n) /\ UNCHANGED readers
  <2>1. /\ ackOffset' = Larger(ackOffset, o) /\ Compact(Covered(ackOffset'))
        /\ Spilled(SubSeq(hot, 1, Covered(ackOffset')))
        /\ UNCHANGED <<faults, callers, readers>>
    BY <1>4 DEF Ack
  <2>2. PICK n \in Nat : n = Covered(ackOffset')
    BY CoveredBound
  <2>3. Removes(o, n)
    BY <2>1, <2>2 DEF Removes
  <2>4. WritesHead(n)
    BY <2>1, <2>2 DEF WritesHead
  <2> QED
    BY <2>1, <2>3, <2>4
<1>5. ASSUME NEW o \in received[Trainer], NEW n \in 1 .. MaxHot, AckFails(o, n)
      PROVE  \E m \in Nat : Removes(o, m) /\ WritesHead(m) /\ UNCHANGED readers
  <2>1. /\ ackOffset' = Larger(ackOffset, o) /\ n \in 1 .. Covered(ackOffset')
        /\ Compact(n) /\ Spilled(SubSeq(hot, 1, n - 1)) /\ faults' = faults + 1
        /\ UNCHANGED <<callers, readers>>
    BY <1>5 DEF AckFails
  <2>2. Removes(o, n)
    BY <2>1 DEF Removes
  <2>3. WritesHead(n)
    BY <2>1 DEF WritesHead
  <2> QED
    BY <2>1, <2>2, <2>3
<1>6. ASSUME Resume \/ (\E d \in Readers : Read(d)) \/ UNCHANGED vars
      PROVE  Keeps /\ UNCHANGED spill
  BY <1>6 DEF Resume, Read, Keeps, vars
<1> QED
  BY <1>1, <1>2, <1>3, <1>4, <1>5, <1>6 DEF Next

\* Readers move only in Read and Resume.
LEMMA StepsOfReaders ==
  ASSUME [Next]_vars
  PROVE  UNCHANGED readers \/ Resume \/ \E d \in Readers : Read(d)
  BY DEF Next, Begin, ReturnExisting, PublishOnce, SpillFails, Attempt, GiveUp, Ack, AckFails, vars

LEMMA TypeInit == Init => TypeOK
  BY PublisherAssumption DEF Init, TypeOK

\* The stamped event of a payload is an entry with the next offset.
LEMMA StampedTyped ==
  ASSUME TypeOK, NEW p \in Payload
  PROVE  Stamped(p) \in Entry /\ Stamped(p).offset = nextOffset
<1>1. CoreType
  BY DEF TypeOK, CoreType
<1> QED
  BY <1>1, StampedEntry DEF Stamped

LEMMA SpilledTyped ==
  ASSUME TypeOK, NEW s \in Seq(Entry), Spilled(s)
  PROVE  written' \in Seq(Entry) /\ dropped' \in Nat
<1>1. written \in Seq(Entry) /\ dropped \in Nat /\ Len(s) \in Nat
  BY DEF TypeOK
<1>2. written \o s \in Seq(Entry)
  BY <1>1, ConcatProperties
<1>3. CASE Persist
  BY <1>1, <1>2, <1>3 DEF Spilled
<1>4. CASE ~ Persist
  BY <1>1, <1>4 DEF Spilled
<1> QED
  BY <1>3, <1>4

LEMMA LogTyped ==
  ASSUME TypeOK, [Next]_vars
  PROVE  /\ hot' \in Seq(Entry) /\ stream' \in Seq(Entry)
         /\ nextOffset' \in Nat /\ ackOffset' \in Int
         /\ terminals' \subseteq Requests /\ nextIndex' \in [Requests -> Int]
         /\ evicted' \subseteq Nat
         /\ written' \in Seq(Entry) /\ dropped' \in Nat /\ faults' \in Nat
<1>1. CASE Keeps /\ UNCHANGED spill
  BY <1>1 DEF Keeps, TypeOK, log, spill
<1>2. ASSUME NEW p \in Payload, Adds(p), WritesPopped(p)
      PROVE  /\ hot' \in Seq(Entry) /\ stream' \in Seq(Entry)
             /\ nextOffset' \in Nat /\ ackOffset' \in Int
             /\ terminals' \subseteq Requests /\ nextIndex' \in [Requests -> Int]
             /\ evicted' \subseteq Nat
             /\ written' \in Seq(Entry) /\ dropped' \in Nat /\ faults' \in Nat
  <2> DEFINE e == Stamped(p)
  <2>1. e \in Entry
    BY StampedTyped
  <2>2. e.req \in Requests /\ e.index \in Int
    BY <2>1 DEF Entry
  <2>3. /\ Append(hot, e) \in Seq(Entry) /\ Tail(Append(hot, e)) \in Seq(Entry)
        /\ Head(Append(hot, e)) \in Entry
    BY <2>1, Extended
  <2>4. Head(Append(hot, e)).offset \in Nat
    BY <2>3 DEF Entry
  <2> HIDE DEF e
  <2>5. Recorded(e) /\ ackOffset' = ackOffset
    BY <1>2 DEF Adds, e
  <2>6. hot' \in Seq(Entry) /\ evicted' \subseteq Nat
    BY <2>3, <2>4, <2>5 DEF Recorded, TypeOK
  <2>7. stream' \in Seq(Entry)
    BY <2>1, <2>5, AppendProperties DEF Recorded, TypeOK
  <2>8. nextIndex' \in [Requests -> Int] /\ nextOffset' \in Nat /\ ackOffset' \in Int
    BY <2>2, <2>5 DEF Recorded, TypeOK
  <2>9. terminals' \subseteq Requests
    BY <2>2, <2>5 DEF Recorded, TypeOK
  <2>10. written' \in Seq(Entry) /\ dropped' \in Nat /\ faults' \in Nat
    <3>1. CASE faults' = faults + 1 /\ UNCHANGED <<written, dropped>>
      BY <3>1 DEF TypeOK
    <3>2. CASE Spilled(IF Overflows THEN <<Head(Append(hot, e))>> ELSE <<>>) /\ UNCHANGED faults
      <4>1. (IF Overflows THEN <<Head(Append(hot, e))>> ELSE <<>>) \in Seq(Entry)
        BY <2>3
      <4> QED
        BY <3>2, <4>1, SpilledTyped DEF TypeOK
    <3> QED
      BY <1>2, <3>1, <3>2 DEF WritesPopped, e
  <2> QED
    BY <2>6, <2>7, <2>8, <2>9, <2>10
<1>3. ASSUME NEW o \in received[Trainer], NEW n \in Nat, Removes(o, n), WritesHead(n)
      PROVE  /\ hot' \in Seq(Entry) /\ stream' \in Seq(Entry)
             /\ nextOffset' \in Nat /\ ackOffset' \in Int
             /\ terminals' \subseteq Requests /\ nextIndex' \in [Requests -> Int]
             /\ evicted' \subseteq Nat
             /\ written' \in Seq(Entry) /\ dropped' \in Nat /\ faults' \in Nat
  <2>1. o \in Nat /\ ackOffset' \in Int
    BY <1>3, PublisherAssumption DEF Removes, Larger, TypeOK
  <2>2. n \in 0 .. Len(hot)
    <3>1. Covered(ackOffset') <= Len(hot) /\ Covered(ackOffset') \in Nat /\ Len(hot) \in Nat
      BY CoveredBound DEF TypeOK
    <3> QED
      BY <1>3, <3>1 DEF Removes
  <2>3. hot' \in Seq(Entry)
    BY <1>3, <2>2, Shortened DEF Removes, Compact
  <2>4. UNCHANGED <<nextOffset, terminals, nextIndex, stream, evicted>>
    BY <1>3 DEF Removes, Compact
  <2>5. written' \in Seq(Entry) /\ dropped' \in Nat /\ faults' \in Nat
    <3>1. CASE Spilled(SubSeq(hot, 1, n)) /\ UNCHANGED faults
      <4>1. SubSeq(hot, 1, n) \in Seq(Entry)
        BY <2>2, Shortened
      <4> QED
        BY <3>1, <4>1, SpilledTyped DEF TypeOK
    <3>2. CASE n > 0 /\ faults' = faults + 1 /\ Spilled(SubSeq(hot, 1, n - 1))
      <4>1. n - 1 \in 0 .. Len(hot)
        BY <2>2, <3>2
      <4>2. SubSeq(hot, 1, n - 1) \in Seq(Entry)
        BY <4>1, Shortened
      <4>3. faults' \in Nat
        BY <3>2 DEF TypeOK
      <4> QED
        BY <3>2, <4>2, <4>3, SpilledTyped
    <3> QED
      BY <1>3, <3>1, <3>2 DEF WritesHead
  <2> QED
    BY <2>1, <2>3, <2>4, <2>5 DEF TypeOK
<1> QED
  BY <1>1, <1>2, <1>3, StepsOfLog

LEMMA ReadersTyped ==
  ASSUME TypeOK, [Next]_vars
  PROVE  cursor' \in [Readers -> Int] /\ received' \in [Readers -> SUBSET Nat]
<1>1. CASE UNCHANGED readers
  BY <1>1 DEF readers, TypeOK
<1>2. CASE Resume
  <2>1. cursor \in [Readers -> Int] /\ ackOffset + 1 \in Int /\ received \in [Readers -> SUBSET Nat]
    BY DEF TypeOK
  <2>2. cursor' = [cursor EXCEPT ![Trainer] = ackOffset + 1] /\ received' = received
    BY <1>2 DEF Resume
  <2> QED
    BY <2>1, <2>2
<1>3. ASSUME NEW d \in Readers, Read(d)
      PROVE  cursor' \in [Readers -> Int] /\ received' \in [Readers -> SUBSET Nat]
  <2>1. hot \in Seq(Entry) /\ Len(hot) \in Nat /\ DOMAIN hot = 1 .. Len(hot)
    BY DEF TypeOK
  <2>0. \A i \in DOMAIN hot : hot[i].offset \in Nat
    <3>1. \A i \in DOMAIN hot : hot[i] \in Entry
      BY <2>1
    <3> QED
      BY <3>1 DEF Entry
  <2>2. Len(hot) \in DOMAIN hot
    BY <1>3, <2>1 DEF Read, Batch
  <2>3. {hot[i].offset : i \in Batch(d)} \subseteq Nat
    BY <2>0 DEF Batch
  <2>4. hot[Len(hot)].offset + 1 \in Int
    BY <2>0, <2>2
  <2> QED
    BY <1>3, <2>3, <2>4 DEF Read, TypeOK
<1> QED
  BY <1>1, <1>2, <1>3, StepsOfReaders

LEMMA CallersTyped ==
  ASSUME TypeOK, [Next]_vars
  PROVE  tried' \in [Callers -> BOOLEAN] /\ calls' \in Nat
<1>1. ASSUME NEW c \in Callers, NEW p \in Payload, Begin(c, p)
      PROVE  tried' \in [Callers -> BOOLEAN] /\ calls' \in Nat
  BY <1>1 DEF Begin, TypeOK
<1>2. ASSUME NEW c \in Callers, SpillFails(c)
      PROVE  tried' \in [Callers -> BOOLEAN] /\ calls' \in Nat
  BY <1>2 DEF SpillFails, TypeOK
<1>3. ASSUME NEW c \in Callers, ReturnExisting(c) \/ PublishOnce(c) \/ GiveUp(c)
      PROVE  UNCHANGED <<tried, calls>>
  BY <1>3 DEF ReturnExisting, PublishOnce, GiveUp, Return
<1>4. ASSUME \/ \E o \in received[Trainer] : Ack(o) \/ \E n \in 1 .. MaxHot : AckFails(o, n)
             \/ \E d \in Readers : Read(d)
             \/ Resume \/ UNCHANGED vars
      PROVE  UNCHANGED <<tried, calls>>
  BY <1>4 DEF Ack, AckFails, Read, Resume, vars, callers
<1> QED
  BY <1>1, <1>2, <1>3, <1>4 DEF Next, TypeOK

LEMMA TypeStep == TypeOK /\ [Next]_vars => TypeOK'
<1> SUFFICES ASSUME TypeOK, [Next]_vars PROVE TypeOK'
  OBVIOUS
<1>1. call' \in [Callers -> Payload \cup {Idle}]
  <2>1. CoreType
    BY DEF TypeOK, CoreType
  <2> QED
    BY <2>1, CallsTyped
<1> QED
  BY <1>1, LogTyped, ReadersTyped, CallersTyped DEF TypeOK

\* The fields of EventPublisher keep their types.
THEOREM TypeCorrect == Spec => []TypeOK
  BY TypeInit, TypeStep, PTL DEF Spec

-----------------------------------------------------------------------------
(* The spill *)

\* While no spill write failed, what _spill wrote followed by the hot log is
\* the whole stream, whatever overflows and acknowledgements moved it there.
LEMMA SpillStep ==
  ASSUME TypeOK, SpillComplete, [Next]_vars
  PROVE  SpillComplete'
<1> SUFFICES ASSUME Persist, faults' = 0 PROVE written' \o hot' = stream'
  BY DEF SpillComplete
<1>0. /\ hot \in Seq(Entry) /\ written \in Seq(Entry) /\ faults \in Nat
      /\ Len(hot) \in Nat
  BY DEF TypeOK
<1>1. CASE Keeps /\ UNCHANGED spill
  BY <1>1 DEF Keeps, log, spill, SpillComplete
<1>2. ASSUME NEW p \in Payload, Adds(p), WritesPopped(p)
      PROVE  written' \o hot' = stream'
  <2> DEFINE e == Stamped(p)
             h == Append(hot, e)
  <2>1. e \in Entry
    BY StampedTyped
  <2>2. h \in Seq(Entry) /\ h # <<>> /\ h = hot \o <<e>> /\ <<e>> \in Seq(Entry)
    BY <1>0, <2>1, AppendProperties, AppendIsConcat
  <2>3. /\ stream' = Append(stream, e)
        /\ hot' = IF Overflows THEN Tail(h) ELSE h
    BY <1>2 DEF Adds, Recorded
  <2>4. faults = 0 /\ written' = written \o (IF Overflows THEN <<Head(h)>> ELSE <<>>)
    BY <1>0, <1>2 DEF WritesPopped, Spilled
  <2>5. stream = written \o hot
    BY <2>4 DEF SpillComplete
  <2>6. stream' = written \o h
    <3>1. written \o hot \in Seq(Entry)
      BY <1>0, ConcatProperties
    <3>2. stream' = (written \o hot) \o <<e>>
      BY <2>1, <2>3, <2>5, <3>1, AppendIsConcat
    <3> QED
      BY <1>0, <2>2, <3>2, ConcatAssociative
  <2> HIDE DEF h
  <2>7. CASE Overflows
    <3>1. Head(h) \in Entry /\ Tail(h) \in Seq(Entry) /\ h = <<Head(h)>> \o Tail(h)
      BY <2>2, HeadTailProperties
    <3>2. <<Head(h)>> \in Seq(Entry)
      BY <3>1
    <3>3. (written \o <<Head(h)>>) \o Tail(h) = written \o (<<Head(h)>> \o Tail(h))
      BY <1>0, <3>1, <3>2, ConcatAssociative
    <3> QED
      BY <2>3, <2>4, <2>6, <2>7, <3>1, <3>3
  <2>8. CASE ~ Overflows
    BY <1>0, <2>3, <2>4, <2>6, <2>8, ConcatEmptySeq
  <2> QED
    BY <2>7, <2>8
<1>3. ASSUME NEW o \in received[Trainer], NEW n \in Nat, Removes(o, n), WritesHead(n)
      PROVE  written' \o hot' = stream'
  <2>1. n \in 0 .. Len(hot)
    <3>1. Covered(ackOffset') <= Len(hot) /\ Covered(ackOffset') \in Nat
      BY CoveredBound
    <3> QED
      BY <1>0, <1>3, <3>1 DEF Removes
  <2> DEFINE a == SubSeq(hot, 1, n)
             b == SubSeq(hot, n + 1, Len(hot))
  <2>2. /\ a \in Seq(Entry) /\ Len(a) = n /\ \A i \in 1 .. n : a[i] = hot[i]
        /\ b \in Seq(Entry) /\ Len(b) = Len(hot) - n
        /\ \A i \in 1 .. Len(hot) - n : b[i] = hot[n + i]
    BY <2>1, Shortened
  <2>3. /\ faults = 0 /\ written' = written \o a /\ hot' = b /\ stream' = stream
    BY <1>0, <1>3 DEF WritesHead, Spilled, Removes, Compact
  <2> HIDE DEF a, b
  <2>4. a \o b = hot
    <3>1. /\ a \o b \in Seq(Entry) /\ Len(a \o b) = Len(a) + Len(b)
          /\ \A i \in 1 .. Len(a) + Len(b) :
               (a \o b)[i] = IF i <= Len(a) THEN a[i] ELSE b[i - Len(a)]
      BY <2>2, ConcatProperties
    <3>2. Len(a \o b) = Len(hot)
      BY <1>0, <2>1, <2>2, <3>1
    <3>3. ASSUME NEW i \in 1 .. Len(hot)
          PROVE  (a \o b)[i] = hot[i]
      <4>1. CASE i <= n
        BY <1>0, <2>1, <2>2, <3>1, <4>1
      <4>2. CASE ~ i <= n
        <5>1. i - n \in 1 .. Len(hot) - n /\ n + (i - n) = i
          BY <1>0, <2>1, <4>2
        <5> QED
          BY <1>0, <2>1, <2>2, <3>1, <4>2, <5>1
      <4> QED
        BY <4>1, <4>2
    <3> QED
      BY <1>0, <3>1, <3>2, <3>3, SeqEqual
  <2>5. (written \o a) \o b = written \o (a \o b)
    <3>1. a \in Seq(Entry) /\ b \in Seq(Entry) /\ written \in Seq(Entry)
      BY <1>0, <2>2
    <3> QED
      BY <3>1, ConcatAssociative
  <2> QED
    BY <2>3, <2>4, <2>5 DEF SpillComplete
<1> QED
  BY <1>1, <1>2, <1>3, StepsOfLog

\* As long as no write failed, spill files and hot log together are the stream.
THEOREM NothingUnspilled == Spec => []SpillComplete
<1>1. Init => SpillComplete
  BY ConcatEmptySeq DEF Init, SpillComplete
<1> QED
  BY <1>1, TypeInit, TypeStep, SpillStep, PTL DEF Spec

-----------------------------------------------------------------------------
(* What readers are given *)

\* The offset of the oldest event of the hot log.
Base == nextOffset - Len(hot)

\* The log holds the events from Base on, without a gap.
HotConsecutive ==
  Len(hot) <= nextOffset /\ \A i \in DOMAIN hot : hot[i].offset = Base + i - 1

\* An event left the log because it overflowed or was acknowledged.
BelowGone == \A x \in 0 .. Base - 1 : x \in evicted \cup 0 .. ackOffset

\* Readers are given events that exist.
GivenExist == \A d \in Readers : \A o \in received[d] : o < nextOffset

\* The trainer was given everything before an event it was given, but for what
\* an overflow evicted.
TrainerClosed ==
  \A o \in received[Trainer] : \A x \in 0 .. o : x \in received[Trainer] \cup evicted

\* So was it before the offset it acknowledged.
AckGiven == \A x \in 0 .. ackOffset : x \in received[Trainer] \cup evicted

GapInv ==
  HotConsecutive /\ BelowGone /\ GivenExist /\ TrainerClosed /\ AckGiven /\ GapsExplained

LEMMA GapsInit == Init => GapInv
  BY PublisherAssumption
  DEF Init, GapInv, HotConsecutive, BelowGone, GivenExist, TrainerClosed, AckGiven,
      GapsExplained, Base

\* An acknowledgement covers a prefix of the log.
LEMMA CoveredPrefix ==
  ASSUME TypeOK, HotConsecutive, NEW a \in Int, NEW i \in 1 .. Covered(a)
  PROVE  Base + i - 1 <= a
<1>1. /\ Len(hot) \in Nat /\ DOMAIN hot = 1 .. Len(hot) /\ nextOffset \in Nat
      /\ Covered(a) \in Nat /\ Covered(a) <= Len(hot)
  BY CoveredBound DEF TypeOK
<1> DEFINE S == {j \in DOMAIN hot : hot[j].offset <= a}
<1> SUFFICES ASSUME ~ Base + i - 1 <= a PROVE FALSE
  OBVIOUS
<1>2. i \in Int /\ 1 <= i /\ i <= Covered(a) /\ Base \in Int
  BY <1>1 DEF Base
<1>3. S \subseteq 1 .. i - 1
  <2> SUFFICES ASSUME NEW j \in S PROVE j \in 1 .. i - 1
    OBVIOUS
  <2>1. j \in 1 .. Len(hot) /\ hot[j].offset = Base + j - 1 /\ hot[j].offset <= a
    BY <1>1 DEF HotConsecutive
  <2> QED
    BY <1>1, <1>2, <2>1
<1>4. IsFiniteSet(1 .. i - 1) /\ Cardinality(1 .. i - 1) = i - 1
  <2>1. i - 1 \in Int /\ (IF 1 > i - 1 THEN 0 ELSE (i - 1) - 1 + 1) = i - 1
    BY <1>2
  <2>2. /\ IsFiniteSet(1 .. i - 1)
        /\ Cardinality(1 .. i - 1) = IF 1 > i - 1 THEN 0 ELSE (i - 1) - 1 + 1
    BY <2>1, FS_Interval
  <2> QED
    BY <2>1, <2>2
<1>5. Cardinality(S) <= i - 1
  BY <1>3, <1>4, FS_Subset
<1> QED
  BY <1>1, <1>2, <1>5 DEF Covered

LEMMA LogMoves ==
  ASSUME TypeOK, GapInv, [Next]_vars
  PROVE  /\ HotConsecutive' /\ BelowGone'
         /\ nextOffset <= nextOffset' /\ evicted \subseteq evicted'
         /\ ackOffset <= ackOffset'
         /\ \/ ackOffset' = ackOffset
            \/ ackOffset' \in received[Trainer] /\ UNCHANGED readers
<1>0. /\ nextOffset \in Nat /\ ackOffset \in Int /\ Len(hot) \in Nat
      /\ DOMAIN hot = 1 .. Len(hot) /\ hot \in Seq(Entry)
      /\ HotConsecutive /\ BelowGone
  BY DEF TypeOK, GapInv
<1>1. CASE Keeps
  <2>1. UNCHANGED <<hot, nextOffset, evicted, ackOffset>>
    BY <1>1 DEF Keeps, log
  <2> QED
    BY <1>0, <2>1 DEF HotConsecutive, BelowGone, Base
<1>2. ASSUME NEW p \in Payload, Adds(p)
      PROVE  /\ HotConsecutive' /\ BelowGone'
             /\ nextOffset <= nextOffset' /\ evicted \subseteq evicted'
             /\ ackOffset' = ackOffset
  <2> DEFINE e == Stamped(p)
             h == Append(hot, e)
  <2>1. e \in Entry /\ e.offset = nextOffset
    BY StampedTyped
  <2>2. /\ Len(h) = Len(hot) + 1 /\ h \in Seq(Entry)
        /\ \A i \in 1 .. Len(hot) : h[i] = hot[i]
        /\ h[Len(hot) + 1] = e /\ Head(h) = h[1]
        /\ Tail(h) \in Seq(Entry) /\ Len(Tail(h)) = Len(hot)
        /\ \A i \in 1 .. Len(hot) : Tail(h)[i] = h[i + 1]
    BY <2>1, Extended
  <2>3. /\ nextOffset' = nextOffset + 1 /\ ackOffset' = ackOffset
        /\ hot' = IF Overflows THEN Tail(h) ELSE h
        /\ evicted' = IF Overflows THEN evicted \cup {Head(h).offset} ELSE evicted
    BY <1>2 DEF Adds, Recorded
  <2>4. \A i \in 1 .. Len(hot) + 1 : h[i].offset = Base + i - 1
    <3> SUFFICES ASSUME NEW i \in 1 .. Len(hot) + 1
                 PROVE  h[i].offset = Base + i - 1
      OBVIOUS
    <3>1. CASE i \in 1 .. Len(hot)
      BY <1>0, <2>2, <3>1 DEF HotConsecutive
    <3>2. CASE i \notin 1 .. Len(hot)
      <4>1. i = Len(hot) + 1
        BY <1>0, <3>2
      <4>2. Base + i - 1 = nextOffset
        BY <1>0, <4>1 DEF Base
      <4> QED
        BY <2>1, <2>2, <4>1, <4>2
    <3> QED
      BY <3>1, <3>2
  <2> HIDE DEF h, e
  <2>5. Head(h).offset = Base
    BY <1>0, <2>2, <2>4 DEF Base
  <2>6. Len(hot') = (IF Overflows THEN Len(hot) ELSE Len(hot) + 1) /\ Len(hot) <= nextOffset
    BY <1>0, <2>2, <2>3 DEF HotConsecutive
  <2>7. CASE Overflows
    <3>0. hot' = Tail(h) /\ Len(hot') = Len(hot)
      BY <2>2, <2>3, <2>7
    <3>1. Base' = Base + 1 /\ Len(hot') = Len(hot) /\ hot' = Tail(h)
      <4>1. (nextOffset + 1) - Len(hot) = (nextOffset - Len(hot)) + 1
        BY <1>0
      <4>2. nextOffset' - Len(hot') = (nextOffset + 1) - Len(hot)
        BY <2>3, <3>0, Zenon
      <4>3. Base' = Base + 1
        BY <4>1, <4>2, Zenon DEF Base
      <4> QED
        BY <3>0, <4>3
    <3>2. DOMAIN hot' = 1 .. Len(hot)
      BY <1>0, <2>2, <3>1
    <3>3. \A i \in 1 .. Len(hot) : hot'[i].offset = Base + i
      <4> SUFFICES ASSUME NEW i \in 1 .. Len(hot) PROVE hot'[i].offset = Base + i
        OBVIOUS
      <4>1. i + 1 \in 1 .. Len(hot) + 1 /\ hot'[i] = h[i + 1] /\ Base \in Int
        BY <1>0, <2>2, <3>1 DEF Base
      <4>2. h[i + 1].offset = Base + (i + 1) - 1
        BY <2>4, <4>1
      <4> QED
        BY <1>0, <4>1, <4>2
    <3>4. HotConsecutive'
      <4>1. \A i \in 1 .. Len(hot) : hot'[i].offset = Base' + i - 1
        BY <1>0, <3>1, <3>3 DEF Base
      <4>2. Len(hot') <= nextOffset'
        BY <1>0, <2>3, <2>6, <3>1
      <4> QED
        BY <3>2, <4>1, <4>2 DEF HotConsecutive
    <3>5. BelowGone'
      <4>1. Base' - 1 = Base
        BY <1>0, <3>1 DEF Base
      <4> SUFFICES ASSUME NEW x \in 0 .. Base PROVE x \in evicted' \cup 0 .. ackOffset
        BY <2>3, <4>1 DEF BelowGone
      <4> QED
        BY <1>0, <2>3, <2>5, <2>7 DEF BelowGone, Base
    <3> QED
      BY <1>0, <2>3, <3>4, <3>5
  <2>8. CASE ~ Overflows
    <3>1. Base' = Base /\ Len(hot') = Len(hot) + 1 /\ hot' = h /\ evicted' = evicted
      BY <1>0, <2>3, <2>6, <2>8 DEF Base
    <3>2. DOMAIN hot' = 1 .. Len(hot) + 1
      BY <1>0, <2>2, <3>1
    <3>3. HotConsecutive'
      BY <1>0, <2>3, <2>4, <2>6, <3>1, <3>2 DEF HotConsecutive
    <3>4. BelowGone'
      BY <1>0, <2>3, <3>1 DEF BelowGone
    <3> QED
      BY <1>0, <2>3, <3>1, <3>3, <3>4
  <2> QED
    BY <2>7, <2>8
<1>3. ASSUME NEW o \in received[Trainer], NEW n \in Nat, Removes(o, n)
      PROVE  /\ HotConsecutive' /\ BelowGone'
             /\ nextOffset' = nextOffset /\ evicted' = evicted
             /\ ackOffset <= ackOffset' /\ ackOffset' \in {ackOffset, o}
  <2>1. /\ nextOffset' = nextOffset /\ evicted' = evicted
        /\ hot' = SubSeq(hot, n + 1, Len(hot))
        /\ ackOffset' = Larger(ackOffset, o) /\ n <= Covered(ackOffset')
    BY <1>3, CoveredBound DEF Removes, Compact
  <2>2. o \in Nat
    BY PublisherAssumption DEF TypeOK
  <2>3. PICK a \in Int : a = ackOffset' /\ ackOffset <= a /\ a \in {ackOffset, o}
    BY <1>0, <2>1, <2>2 DEF Larger
  <2>4. n \in 0 .. Len(hot) /\ Covered(a) \in Nat /\ n <= Covered(a)
    BY <1>0, <2>1, <2>3, CoveredBound
  <2>5. /\ Len(hot') = Len(hot) - n /\ hot' \in Seq(Entry)
        /\ \A i \in 1 .. Len(hot) - n : hot'[i] = hot[n + i]
    BY <2>1, <2>4, Shortened
  <2>6. Base' = Base + n /\ DOMAIN hot' = 1 .. Len(hot) - n /\ Base \in Int
    <3>1. nextOffset - (Len(hot) - n) = (nextOffset - Len(hot)) + n
      BY <1>0
    <3>4. nextOffset' - Len(hot') = nextOffset - (Len(hot) - n)
      BY <2>1, <2>5, Zenon
    <3>5. Base' = Base + n
      BY <3>1, <3>4, Zenon DEF Base
    <3>6. Base \in Int
      BY <1>0 DEF Base
    <3>2. DOMAIN hot' = 1 .. Len(hot')
      BY <2>5
    <3>3. DOMAIN hot' = 1 .. Len(hot) - n
      BY <2>5, <3>2
    <3> QED
      BY <3>3, <3>5, <3>6
  <2>7. HotConsecutive'
    <3>1. ASSUME NEW i \in 1 .. Len(hot) - n
          PROVE  hot'[i].offset = Base + n + i - 1
      <4>1. n + i \in DOMAIN hot
        BY <1>0, <2>4
      <4>2. hot[n + i].offset = Base + (n + i) - 1
        BY <1>0, <4>1 DEF HotConsecutive
      <4> QED
        BY <1>0, <2>4, <2>5, <2>6, <4>2
    <3>2. Len(hot') <= nextOffset'
      BY <1>0, <2>1, <2>4, <2>5 DEF HotConsecutive
    <3> QED
      BY <2>6, <3>1, <3>2 DEF HotConsecutive
  <2>8. BelowGone'
    <3> SUFFICES ASSUME NEW x \in 0 .. Base + n - 1
                 PROVE  x \in evicted \cup 0 .. a
      BY <2>1, <2>3, <2>6 DEF BelowGone
    <3>1. CASE x \in 0 .. Base - 1
      BY <1>0, <2>3, <3>1 DEF BelowGone
    <3>2. CASE x \notin 0 .. Base - 1
      <4>1. x - Base + 1 \in 1 .. Covered(a)
        BY <2>4, <2>6, <3>2
      <4>2. Base + (x - Base + 1) - 1 <= a
        BY <1>0, <4>1, CoveredPrefix
      <4> QED
        BY <2>6, <4>2
    <3> QED
      BY <3>1, <3>2
  <2> QED
    BY <2>1, <2>3, <2>7, <2>8
<1>4. \/ Keeps
      \/ \E p \in Payload : Adds(p)
      \/ \E o \in received[Trainer] : \E n \in Nat : Removes(o, n) /\ UNCHANGED readers
  BY StepsOfLog
<1>5. Keeps => ackOffset' = ackOffset
  BY DEF Keeps
<1> QED
  BY <1>0, <1>1, <1>2, <1>3, <1>4, <1>5 DEF Keeps, log

LEMMA GapsStep ==
  ASSUME TypeOK, GapInv, [Next]_vars
  PROVE  GapInv'
<1>1. /\ nextOffset \in Nat /\ ackOffset \in Int /\ Trainer \in Readers
      /\ cursor \in [Readers -> Int] /\ received \in [Readers -> SUBSET Nat]
  BY PublisherAssumption DEF TypeOK
<1>2. /\ nextOffset' \in Nat /\ ackOffset' \in Int
  BY LogTyped
<1>3. /\ HotConsecutive' /\ BelowGone'
      /\ nextOffset <= nextOffset' /\ evicted \subseteq evicted' /\ ackOffset <= ackOffset'
      /\ \/ ackOffset' = ackOffset
         \/ ackOffset' \in received[Trainer] /\ UNCHANGED readers
  BY LogMoves
<1>4. AckGiven'
  <2>1. \A d \in Readers : received[d] \subseteq received'[d]
    BY <1>1, StepsOfReaders DEF readers, Resume, Read
  <2>2. \A x \in 0 .. ackOffset' : x \in received[Trainer] \cup evicted
    <3>1. CASE ackOffset' = ackOffset
      BY <3>1 DEF GapInv, AckGiven
    <3>2. CASE ackOffset' \in received[Trainer]
      BY <3>2 DEF GapInv, TrainerClosed
    <3> QED
      BY <1>3, <3>1, <3>2
  <2> QED
    BY <1>1, <1>3, <2>1, <2>2 DEF AckGiven
<1>5. CASE UNCHANGED readers
  <2>1. cursor' = cursor /\ received' = received
    BY <1>5 DEF readers
  <2>2. GivenExist'
    BY <1>1, <1>2, <1>3, <2>1 DEF GapInv, GivenExist
  <2>3. TrainerClosed'
    BY <1>3, <2>1 DEF GapInv, TrainerClosed
  <2>4. GapsExplained'
    <3> SUFFICES ASSUME NEW d \in Readers, NEW o \in 0 .. cursor[d] - 1
                 PROVE  o \in received[d] \cup evicted' \cup
                              (IF d = Trainer THEN {} ELSE 0 .. ackOffset')
      BY <2>1 DEF GapsExplained
    <3>1. o \in received[d] \cup evicted \cup (IF d = Trainer THEN {} ELSE 0 .. ackOffset)
      BY DEF GapInv, GapsExplained
    <3>2. 0 .. ackOffset \subseteq 0 .. ackOffset'
      BY <1>1, <1>2, <1>3
    <3> QED
      BY <1>3, <3>1, <3>2
  <2> QED
    BY <1>3, <1>4, <2>2, <2>3, <2>4 DEF GapInv
<1>6. CASE Resume
  <2>1. /\ cursor' = [cursor EXCEPT ![Trainer] = ackOffset + 1] /\ received' = received
        /\ evicted' = evicted /\ nextOffset' = nextOffset /\ ackOffset' = ackOffset
    BY <1>6 DEF Resume, log
  <2>2. GivenExist' /\ TrainerClosed'
    BY <2>1 DEF GapInv, GivenExist, TrainerClosed
  <2>3. GapsExplained'
    <3> SUFFICES ASSUME NEW d \in Readers, NEW o \in 0 .. cursor'[d] - 1
                 PROVE  o \in received[d] \cup evicted \cup
                              (IF d = Trainer THEN {} ELSE 0 .. ackOffset)
      BY <2>1 DEF GapsExplained
    <3>1. CASE d = Trainer
      <4>1. o \in 0 .. ackOffset
        BY <1>1, <2>1, <3>1
      <4> QED
        BY <3>1, <4>1 DEF GapInv, AckGiven
    <3>2. CASE d # Trainer
      <4>1. cursor'[d] = cursor[d]
        BY <1>1, <2>1, <3>2
      <4> QED
        BY <4>1 DEF GapInv, GapsExplained
    <3> QED
      BY <3>1, <3>2
  <2> QED
    BY <1>3, <1>4, <2>2, <2>3 DEF GapInv
<1>7. ASSUME NEW d \in Readers, Read(d)
      PROVE  GapInv'
  <2>1. /\ UNCHANGED <<hot, nextOffset, evicted, ackOffset>> /\ Batch(d) # {}
        /\ received' = [received EXCEPT ![d] = @ \cup {hot[i].offset : i \in Batch(d)}]
        /\ cursor' = [cursor EXCEPT ![d] = hot[Len(hot)].offset + 1]
    BY <1>7 DEF Read, log
  <2>2. /\ Len(hot) \in Nat /\ DOMAIN hot = 1 .. Len(hot) /\ Base \in Int
        /\ HotConsecutive /\ BelowGone
    BY <1>1 DEF TypeOK, GapInv, Base
  <2>3. hot[Len(hot)].offset + 1 = nextOffset
    <3>1. Len(hot) \in DOMAIN hot
      BY <2>1, <2>2 DEF Batch
    <3>2. hot[Len(hot)].offset = Base + Len(hot) - 1
      BY <2>2, <3>1 DEF HotConsecutive
    <3> QED
      BY <1>1, <2>2, <3>2 DEF Base
  <2>4. cursor'[d] = nextOffset /\ \A x \in Readers : x # d => cursor'[x] = cursor[x]
    BY <1>1, <2>1, <2>3
  <2>5. /\ received'[d] = received[d] \cup {hot[i].offset : i \in Batch(d)}
        /\ \A x \in Readers : x # d => received'[x] = received[x]
    BY <1>1, <2>1
  <2>6. \A i \in DOMAIN hot : hot[i].offset < nextOffset
    BY <1>1, <2>2 DEF HotConsecutive, Base
  <2>7. GivenExist'
    <3>1. \A o \in received'[d] : o < nextOffset
      BY <2>5, <2>6 DEF GapInv, GivenExist, Batch
    <3> QED
      BY <2>1, <2>5, <3>1 DEF GapInv, GivenExist
  <2>8. \A o \in 0 .. nextOffset - 1 :
          o \in received'[d] \cup evicted \cup (IF d = Trainer THEN {} ELSE 0 .. ackOffset)
    <3> SUFFICES ASSUME NEW o \in 0 .. nextOffset - 1
                 PROVE  o \in received'[d] \cup evicted \cup (IF d = Trainer THEN {} ELSE 0 .. ackOffset)
      OBVIOUS
    <3>0. cursor[d] \in Int
      BY <1>1
    <3>1. CASE o < cursor[d]
      <4>1. o \in 0 .. cursor[d] - 1
        BY <3>0, <3>1
      <4>2. o \in received[d] \cup evicted \cup (IF d = Trainer THEN {} ELSE 0 .. ackOffset)
        BY <4>1 DEF GapInv, GapsExplained
      <4> QED
        BY <2>5, <4>2
    <3>2. CASE ~ o < cursor[d] /\ o < Base
      <4>1. o \in evicted \cup 0 .. ackOffset
        BY <2>2, <3>2 DEF BelowGone
      <4>2. CASE d = Trainer
        <5>1. o \in received[Trainer] \cup evicted
          BY <4>1 DEF GapInv, AckGiven
        <5> QED
          BY <2>5, <4>2, <5>1
      <4>3. CASE d # Trainer
        BY <4>1, <4>3
      <4> QED
        BY <4>2, <4>3
    <3>3. CASE ~ o < cursor[d] /\ ~ o < Base
      <4>1. o - Base + 1 \in DOMAIN hot
        BY <1>1, <2>2, <3>3 DEF Base
      <4>2. hot[o - Base + 1].offset = o
        <5>1. hot[o - Base + 1].offset = Base + (o - Base + 1) - 1
          BY <2>2, <4>1 DEF HotConsecutive
        <5> QED
          BY <2>2, <5>1
      <4>3. o - Base + 1 \in Batch(d)
        BY <3>0, <3>3, <4>1, <4>2 DEF Batch
      <4> QED
        BY <2>5, <4>2, <4>3
    <3> QED
      BY <3>1, <3>2, <3>3
  <2>9. GapsExplained'
    <3> SUFFICES ASSUME NEW x \in Readers, NEW o \in 0 .. cursor'[x] - 1
                 PROVE  o \in received'[x] \cup evicted \cup
                              (IF x = Trainer THEN {} ELSE 0 .. ackOffset)
      BY <2>1 DEF GapsExplained
    <3>1. CASE x = d
      BY <2>4, <2>8, <3>1
    <3>2. CASE x # d
      BY <2>4, <2>5, <3>2 DEF GapInv, GapsExplained
    <3> QED
      BY <3>1, <3>2
  <2>10. TrainerClosed'
    <3>1. CASE d = Trainer
      <4> SUFFICES ASSUME NEW o \in received'[Trainer], NEW x \in 0 .. o
                   PROVE  x \in received'[Trainer] \cup evicted
        BY <2>1 DEF TrainerClosed
      <4>1. o < nextOffset
        BY <1>1, <2>1, <2>7 DEF GivenExist
      <4>2. o \in Nat
        BY <1>1, ReadersTyped
      <4>3. x \in 0 .. nextOffset - 1
        BY <1>1, <4>1, <4>2
      <4> QED
        BY <2>8, <3>1, <4>3
    <3>2. CASE d # Trainer
      BY <1>1, <2>1, <2>5, <3>2 DEF GapInv, TrainerClosed
    <3> QED
      BY <3>1, <3>2
  <2> QED
    BY <1>3, <1>4, <2>7, <2>9, <2>10 DEF GapInv
<1> QED
  BY <1>5, <1>6, <1>7, StepsOfReaders

\* No reader passes an event silently: what it was not given was evicted by an
\* overflow or removed by the trainer's acknowledgement, for any number of
\* readers, reconnections and failed writes.
THEOREM Gaps == Spec => []GapsExplained
<1>1. GapInv => GapsExplained
  BY DEF GapInv
<1> QED
  BY <1>1, TypeInit, TypeStep, GapsInit, GapsStep, PTL DEF Spec

-----------------------------------------------------------------------------
(* What the trainer is still owed *)

\* An event that exists and that the trainer has neither been given nor lost to
\* an overflow.
Owed == (0 .. nextOffset - 1) \ (received[Trainer] \cup evicted)

\* Where the events are that the trainer's next read returns.
Readable == {hot[i].offset : i \in Batch(Trainer)}

LEMMA OwedReadable ==
  ASSUME TypeOK, GapInv
  PROVE  Owed \subseteq Readable
<1> SUFFICES ASSUME NEW o \in Owed PROVE o \in Readable
  OBVIOUS
<1>1. /\ nextOffset \in Nat /\ ackOffset \in Int /\ Len(hot) \in Nat
      /\ DOMAIN hot = 1 .. Len(hot) /\ Len(hot) <= nextOffset
      /\ Trainer \in Readers /\ cursor[Trainer] \in Int
  BY PublisherAssumption DEF TypeOK, GapInv, HotConsecutive
<1>2. o \in Nat /\ o < nextOffset /\ o \notin received[Trainer] \cup evicted
  BY <1>1 DEF Owed
<1>3. ~ o \in 0 .. ackOffset /\ ~ o \in 0 .. cursor[Trainer] - 1
  BY <1>1, <1>2 DEF GapInv, AckGiven, GapsExplained
<1>4. o >= Base /\ o >= cursor[Trainer]
  BY <1>1, <1>2, <1>3 DEF GapInv, BelowGone, Base
<1> DEFINE i == o - Base + 1
<1>5. i \in DOMAIN hot
  BY <1>1, <1>2, <1>4 DEF Base
<1>6. hot[i].offset = o
  <2>1. hot[i].offset = Base + i - 1
    BY <1>5 DEF GapInv, HotConsecutive
  <2> QED
    BY <1>1, <1>2, <2>1 DEF Base
<1>7. i \in Batch(Trainer)
  BY <1>4, <1>5, <1>6 DEF Batch
<1> QED
  BY <1>6, <1>7 DEF Readable

\* An event is owed no more only when the trainer reads or the log overflows,
\* and one read gives the trainer all of them.
OneReadSuffices ==
  /\ Read(Trainer) => Owed' = {}
  /\ \A o \in Owed : o \in Owed' \/ o \in evicted' \/ Read(Trainer)

LEMMA LongerRange ==
  ASSUME NEW m \in Nat, NEW n \in Nat, m <= n, NEW x \in 0 .. m - 1
  PROVE  x \in 0 .. n - 1
OBVIOUS

LEMMA ReadGives ==
  ASSUME TypeOK, GapInv, [Next]_vars
  PROVE  OneReadSuffices
<1>0. Trainer \in Readers
  BY PublisherAssumption
<1>1. Read(Trainer) => Owed' = {}
  <2> SUFFICES ASSUME Read(Trainer), NEW o \in Owed' PROVE FALSE
    OBVIOUS
  <2>1. /\ received'[Trainer] = received[Trainer] \cup Readable
        /\ nextOffset' = nextOffset /\ evicted' = evicted
    BY <1>0 DEF Read, Readable, TypeOK, log
  <2>2. o \in Owed /\ o \notin Readable
    BY <2>1 DEF Owed
  <2> QED
    BY <2>2, OwedReadable
<1>2. ASSUME NEW o \in Owed PROVE o \in Owed' \/ o \in evicted' \/ Read(Trainer)
  <2>1. nextOffset \in Nat /\ nextOffset' \in Nat /\ nextOffset <= nextOffset'
    BY LogMoves, LogTyped DEF TypeOK
  <2>2. o \in 0 .. nextOffset' - 1
    <3>1. o \in 0 .. nextOffset - 1
      BY DEF Owed
    <3> QED
      BY <2>1, <3>1, LongerRange
  <2>3. received'[Trainer] = received[Trainer] \/ Read(Trainer)
    BY <1>0, StepsOfReaders DEF TypeOK, readers, Resume, Read
  <2> QED
    BY <2>2, <2>3 DEF Owed
<1> QED
  BY <1>1, <1>2 DEF OneReadSuffices

\* Nothing is hidden from the trainer: while an event is owed to it, its next
\* read is enabled and returns that event, whatever the trainer reconnected at,
\* acknowledged or missed.  This is the safety half of Delivered; that the read
\* is taken is its fairness.
THEOREM NothingHidden ==
  Spec => [](Owed \subseteq Readable) /\ [][OneReadSuffices]_vars
<1>1. TypeOK /\ GapInv => Owed \subseteq Readable
  BY OwedReadable
<1>2. TypeOK /\ GapInv /\ [Next]_vars => OneReadSuffices
  BY ReadGives
<1> QED
  BY <1>1, <1>2, TypeInit, TypeStep, GapsInit, GapsStep, PTL DEF Spec
=============================================================================
