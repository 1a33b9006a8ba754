---------------------------- MODULE EventStream ----------------------------
(***************************************************************************)
(* What a rollout client relies on: one append-only stream of events.  A   *)
(* request ends at most once, and the event_index of a request only grows. *)
(***************************************************************************)
EXTENDS Integers, Sequences

CONSTANTS
  Requests,  \* request ids
  Types      \* event types other than "terminal"

VARIABLE stream

Event == [req : Requests, type : Types \cup {"terminal"}, index : Int]

HasTerminal(s, r) == \E i \in DOMAIN s : s[i].req = r /\ s[i].type = "terminal"

\* e may follow the stream s.
Fits(s, e) ==
  /\ e \in Event
  /\ e.type = "terminal" => ~ HasTerminal(s, e.req)
  /\ \A i \in DOMAIN s : s[i].req = e.req => s[i].index < e.index

Init == stream = <<>>

\* One more event at the end.
Publish ==
  /\ Len(stream') = Len(stream) + 1
  /\ \A i \in DOMAIN stream : stream'[i] = stream[i]
  /\ Fits(stream, stream'[Len(stream')])

Spec == Init /\ [][Publish]_stream
=============================================================================
