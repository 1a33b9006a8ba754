------------------------ MODULE TimeWarpProvisioning ------------------------
(***************************************************************************)
(* The slow half of the TimeWarp cube's launch (cubes/timewarp,            *)
(* provisioning.py): processes that share one checkout directory call      *)
(* ensure_provisioned, which under a file lock moves the checkout to the   *)
(* pinned commit and runs the upstream setup.sh when it is needed.         *)
(*                                                                         *)
(* The directory is abstracted to the commit it is at and to the state of  *)
(* each piece setup.sh makes (index files, data, conda env).  setup.sh is  *)
(* external: it is modelled by what this code says of it.                  *)
(***************************************************************************)
EXTENDS Naturals, FiniteSets

CONSTANTS
  Procs,       \* processes that share the checkout directory
  Nobody,      \* a value that is not a process
  Pieces,      \* what setup.sh makes and _missing_components looks for
  MaxCalls,    \* bound: how often each process may call ensure_provisioned
  MaxBreaks,   \* bound: git or setup.sh runs that fail, overrun or are interrupted
  MaxKills     \* bound: processes that die without running their handlers

ASSUME ProvisioningAssumption ==
  /\ Nobody \notin Procs
  /\ MaxCalls \in [Procs -> Nat]
  /\ {MaxBreaks, MaxKills} \subseteq Nat

VARIABLES
  lock,     \* who holds the flock of _provision_lock
  head,     \* the commit of the checkout
  dirty,    \* tracked files differ from it
  piece,    \* what is on disk of each piece
  pc,       \* where the call of a process is
  updated,  \* what _sync_checkout returned to it
  job,      \* the setup.sh it started: [running, todo, now]
  calls, breaks, kills

l1 == <<lock, head, dirty, piece, pc, updated, job, calls, breaks, kills>>

\* "debris" is a directory without setup.sh that an interrupted clone left.
Heads  == {"none", "debris", "old", "pin"}
\* "empty" stands for absent as well; "part" is non-empty and malformed;
\* "old" is complete for another commit than the pinned one.
States == {"empty", "part", "old", "full"}
Inside == {"sync", "check", "setup", "verify"}
PC     == {"out", "lock", "ready", "failed", "dead"} \cup Inside

Jobs  == [running : BOOLEAN, todo : SUBSET Pieces, now : SUBSET Pieces]
NoJob == [running |-> FALSE, todo |-> {}, now |-> {}]

TypeOK ==
  /\ lock \in Procs \cup {Nobody} /\ head \in Heads /\ dirty \in BOOLEAN
  /\ piece \in [Pieces -> States] /\ pc \in [Procs -> PC]
  /\ updated \in [Procs -> BOOLEAN] /\ job \in [Procs -> Jobs]
  /\ calls \in [Procs -> Nat] /\ breaks \in Nat /\ kills \in Nat

\* A fresh machine, one whose cache was deleted (a conda env may have stayed), a
\* tree of an earlier pin, perhaps with local edits, or a tree of this pin.
Init ==
  /\ \/ head = "none" /\ piece \in [Pieces -> {"empty", "old", "full"}]
        /\ \E c \in Pieces : piece[c] = "empty"
     \/ head = "old" /\ piece = [c \in Pieces |-> "old"]
     \/ head = "pin" /\ piece = [c \in Pieces |-> "full"]
  /\ dirty \in BOOLEAN /\ (dirty => head = "old")
  /\ lock = Nobody /\ pc = [p \in Procs |-> "out"]
  /\ updated = [p \in Procs |-> FALSE] /\ job = [p \in Procs |-> NoJob]
  /\ calls = [p \in Procs |-> 0] /\ breaks = 0 /\ kills = 0

tree == <<head, dirty, piece>>

\* The setup.sh of a process has the pieces "todo" before it and writes "now".
JobAt(p, todo, now) ==
  job' = [job EXCEPT ![p] = [running |-> TRUE, todo |-> todo, now |-> now]]

Break == breaks < MaxBreaks /\ breaks' = breaks + 1

-----------------------------------------------------------------------------
(* ensure_provisioned *)

Call(p) ==
  /\ pc[p] = "out" /\ calls[p] < MaxCalls[p]
  /\ pc' = [pc EXCEPT ![p] = "lock"]
  /\ calls' = [calls EXCEPT ![p] = @ + 1]
  /\ UNCHANGED <<tree, lock, updated, job, breaks, kills>>

Acquire(p) ==
  /\ pc[p] = "lock" /\ lock = Nobody
  /\ lock' = p /\ pc' = [pc EXCEPT ![p] = "sync"]
  /\ UNCHANGED <<tree, updated, job, calls, breaks, kills>>

\* Leaving the with block, by a return or by an exception, closes the handle.
Release == lock' = Nobody

\* Slip: the early return leaks the lock.
ReturnsHolding(p) == UNCHANGED lock /\ pc' = [pc EXCEPT ![p] = "ready"]

Returns(p) == Release /\ pc' = [pc EXCEPT ![p] = "ready"]
Raises(p)  == Release /\ pc' = [pc EXCEPT ![p] = "failed"]

Synced(p, moved) ==
  /\ pc' = [pc EXCEPT ![p] = "check"]
  /\ updated' = [updated EXCEPT ![p] = moved]
  /\ UNCHANGED lock

\* _clone_repo.  A clone that is cut short leaves a directory the next clone
\* refuses; one cut short between clone and checkout is at the branch tip, one cut
\* short after it at the pin.
Clone(p) ==
  /\ pc[p] = "sync" /\ head \in {"none", "debris"}
  /\ \/ head = "none" /\ head' = "pin" /\ Synced(p, TRUE) /\ UNCHANGED breaks
     \/ /\ head = "none" /\ Break
        /\ head' \in {"none", "debris", "old", "pin"} /\ Raises(p) /\ UNCHANGED updated
     \/ /\ head = "debris" /\ Raises(p) /\ UNCHANGED <<head, updated, breaks>>
  /\ UNCHANGED <<dirty, piece, job, calls, kills>>

\* The rest of _sync_checkout on an existing checkout: advance to the pin, unless
\* tracked files are modified; git fetch or git checkout may fail or be cut short,
\* the checkout before or after it moved HEAD.
Advance(p) ==
  /\ pc[p] = "sync" /\ head = "old"
  /\ \/ ~dirty /\ head' = "pin" /\ Synced(p, TRUE) /\ UNCHANGED <<dirty, breaks>>
     \/ dirty /\ Raises(p) /\ UNCHANGED <<head, dirty, updated, breaks>>
     \/ /\ ~dirty /\ Break
        /\ dirty' \in BOOLEAN /\ Raises(p) /\ UNCHANGED <<head, updated>>
     \/ /\ ~dirty /\ Break
        /\ head' = "pin" /\ Raises(p) /\ UNCHANGED <<dirty, updated>>
  /\ UNCHANGED <<piece, job, calls, kills>>

AlreadyPinned(p) ==
  /\ pc[p] = "sync" /\ head = "pin" /\ Synced(p, FALSE)
  /\ UNCHANGED <<tree, job, calls, breaks, kills>>

Provisioned == \A c \in Pieces : piece[c] # "empty"

\* Slip: a complete tree is enough, whatever _sync_checkout did.
LooksComplete(p) == Provisioned

SkipSetup(p) == ~updated[p] /\ Provisioned

Check(p) ==
  /\ pc[p] = "check"
  /\ \/ SkipSetup(p) /\ Returns(p) /\ UNCHANGED job
     \/ /\ ~SkipSetup(p)
        /\ pc' = [pc EXCEPT ![p] = "setup"]
        /\ JobAt(p, Pieces, {})
        /\ UNCHANGED lock
  /\ UNCHANGED <<tree, updated, calls, breaks, kills>>

Verify(p) ==
  /\ pc[p] = "verify"
  /\ IF Provisioned THEN Returns(p) ELSE Raises(p)
  /\ UNCHANGED <<tree, updated, job, calls, breaks, kills>>

-----------------------------------------------------------------------------
(* setup.sh, in its own session: it outlives a process that is killed *)

\* What exists and is not of an older commit is skipped, whatever is in it.
SetupSkips(p, c) ==
  /\ job[p].running /\ job[p].now = {} /\ c \in job[p].todo
  /\ piece[c] \in {"part", "full"}
  /\ JobAt(p, job[p].todo \ {c}, {})
  /\ UNCHANGED <<tree, lock, pc, updated, calls, breaks, kills>>

SetupBegins(p, c) ==
  /\ job[p].running /\ job[p].now = {} /\ c \in job[p].todo
  /\ piece[c] \in {"empty", "old"}
  /\ piece' = [piece EXCEPT ![c] = "part"]
  /\ JobAt(p, job[p].todo, {c})
  /\ UNCHANGED <<head, dirty, lock, pc, updated, calls, breaks, kills>>

SetupFinishes(p, c) ==
  /\ job[p].running /\ c \in job[p].now
  /\ piece' = [piece EXCEPT ![c] = "full"]
  /\ JobAt(p, job[p].todo \ {c}, {})
  /\ UNCHANGED <<head, dirty, lock, pc, updated, calls, breaks, kills>>

\* Exit status 0; the process that waits for it, when it is still alive, goes on.
SetupEnds(p) ==
  /\ job[p].running /\ job[p].todo = {}
  /\ job' = [job EXCEPT ![p] = NoJob]
  /\ pc' = [pc EXCEPT ![p] = IF @ = "setup" THEN "verify" ELSE @]
  /\ UNCHANGED <<tree, lock, updated, calls, breaks, kills>>

\* What an unfinished piece looks like when its writer stops.
LeftBehind(p) ==
  \/ UNCHANGED piece
  \/ piece' = [c \in Pieces |-> IF c \in job[p].now THEN "empty" ELSE piece[c]]

SetupFails(p) ==
  /\ job[p].running /\ Break
  /\ LeftBehind(p) /\ job' = [job EXCEPT ![p] = NoJob]
  /\ IF pc[p] = "setup" THEN Raises(p) ELSE UNCHANGED <<lock, pc>>
  /\ UNCHANGED <<head, dirty, updated, calls, kills>>

\* Slip: bash is killed and its descendants are not.
OnlyBashDies(p) ==
  /\ pc[p] = "setup" /\ Break /\ Raises(p)
  /\ UNCHANGED <<tree, job, updated, calls, kills>>

\* The wait overruns, or is interrupted: the process group is killed first.
Interrupt(p) ==
  /\ pc[p] = "setup" /\ job[p].running /\ Break
  /\ LeftBehind(p) /\ job' = [job EXCEPT ![p] = NoJob] /\ Raises(p)
  /\ UNCHANGED <<head, dirty, updated, calls, kills>>

\* The process is killed: the kernel releases its flock, setup.sh goes on.
Kill(p) ==
  /\ pc[p] \notin {"out", "dead"} /\ kills < MaxKills
  /\ kills' = kills + 1
  /\ pc' = [pc EXCEPT ![p] = "dead"]
  /\ lock' = IF lock = p THEN Nobody ELSE lock
  /\ UNCHANGED <<tree, updated, job, calls, breaks>>

Setup(p) ==
  \/ \E c \in Pieces : SetupSkips(p, c) \/ SetupBegins(p, c) \/ SetupFinishes(p, c)
  \/ SetupEnds(p)

Ensure(p) ==
  \/ Acquire(p) \/ Clone(p) \/ Advance(p) \/ AlreadyPinned(p) \/ Check(p) \/ Verify(p)

Faults(p) == SetupFails(p) \/ Interrupt(p) \/ Kill(p)

-----------------------------------------------------------------------------
Running == {p \in Procs : job[p].running}

\* Two setup.sh never write one tree, whatever fails or is interrupted, as long
\* as no process is killed outright (which the lock does not survive).
SetupExclusive == kills = 0 => Cardinality(Running) <= 1

\* ensure_provisioned does not return before the tree is at the pinned commit and
\* whole for it, and nobody rewrites it afterwards, when no step has failed: two
\* processes that start together, an older tree and a half-deleted cache included.
ReadyIsWhole ==
  breaks = 0 /\ kills = 0 =>
    \A p \in Procs : pc[p] = "ready" =>
      head = "pin" /\ (\A c \in Pieces : piece[c] = "full") /\ Running = {}

=============================================================================
