----------------------------- MODULE Trajectory -----------------------------
(***************************************************************************)
(* What a reader of a finished episode relies on: the events of one run,   *)
(* in causal order, and a last status that agrees with them.               *)
(***************************************************************************)
EXTENDS Integers, Sequences

VARIABLES
  events,   \* the recorded events, each with its kind and its tool call
  verdict   \* the status of the closed episode, or "open"

Kinds(s) == {s[i].kind : i \in DOMAIN s}

\* e may follow the events s: the reset comes first, a call is recorded once, an
\* evaluation follows the call it scores, an exhausted budget leaves only the
\* final score or a failure to record, and those two end the record.
Fits(s, e) ==
  /\ (s = <<>>) <=> (e.kind = "reset")
  /\ Kinds(s) \cap {"error", "final"} = {}
  /\ "budget" \in Kinds(s) => e.kind \in {"error", "final"}
  /\ e.kind = "tool" => \A i \in DOMAIN s : s[i].kind = "tool" => s[i].call # e.call
  /\ e.kind = "eval" => s[Len(s)].kind = "tool" /\ s[Len(s)].call = e.call

Init == events = <<>> /\ verdict = "open"

\* One call adds its own event and perhaps its score.
Record ==
  /\ verdict = "open" /\ UNCHANGED verdict
  /\ Len(events') \in Len(events) + 1 .. Len(events) + 2
  /\ SubSeq(events', 1, Len(events)) = events
  /\ \A i \in Len(events) + 1 .. Len(events') : Fits(SubSeq(events', 1, i - 1), events'[i])

\* A finished episode was scored, and its status says whether the budget ran out.
Agrees(v, s) ==
  v \in {"COMPLETED", "MAX_STEPS_REACHED"} =>
    /\ "final" \in Kinds(s)
    /\ (v = "MAX_STEPS_REACHED") <=> ("budget" \in Kinds(s))

Close ==
  /\ verdict = "open" /\ UNCHANGED events
  /\ verdict' # "open" /\ Agrees(verdict', events)

Spec == Init /\ [][Record \/ Close]_<<events, verdict>>
=============================================================================
