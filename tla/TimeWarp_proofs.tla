--------------------------- MODULE TimeWarp_proofs ---------------------------
(***************************************************************************)
(* Proofs about TimeWarpProvisioning and TimeWarpServers: for any number   *)
(* of processes, sites, ports and pieces, and for any number of faults.    *)
(***************************************************************************)
EXTENDS TimeWarpServers, FiniteSetTheorems, TLAPS

-----------------------------------------------------------------------------
(* Types *)

LEMMA RunningJob ==
  ASSUME NEW todo \in SUBSET Pieces, NEW now \in SUBSET Pieces
  PROVE  [running |-> TRUE, todo |-> todo, now |-> now] \in Jobs
BY DEF Jobs

\* A call of ensure_provisioned keeps the types of what it works on.
LEMMA ProvisionTypes ==
  ASSUME TypeOK, NEW p \in Procs, Ensure(p) \/ Setup(p) \/ Faults(p)
  PROVE  TypeOK'
<1>1. CASE Acquire(p)
  BY <1>1 DEF TypeOK, Acquire, tree, PC, Inside
<1>2. CASE AlreadyPinned(p)
  BY <1>2 DEF TypeOK, AlreadyPinned, Synced, tree, PC, Inside
<1>3. CASE Verify(p)
  BY <1>3 DEF TypeOK, Verify, Returns, Raises, Release, tree, PC
<1>4. CASE Kill(p)
  BY <1>4 DEF TypeOK, Kill, tree, PC
<1>5. CASE Clone(p)
  <2>1. UNCHANGED <<dirty, piece, job, calls, kills>> /\ head' \in Heads
    BY <1>5 DEF Clone, Heads, TypeOK
  <2>2. pc' \in [Procs -> PC] /\ updated' \in [Procs -> BOOLEAN]
    BY <1>5 DEF TypeOK, Clone, Synced, Raises, PC, Inside
  <2>3. lock' \in Procs \cup {Nobody} /\ breaks' \in Nat
    BY <1>5 DEF TypeOK, Clone, Synced, Raises, Release, Break
  <2> QED
    BY <2>1, <2>2, <2>3 DEF TypeOK
<1>6. CASE Advance(p)
  <2>1. UNCHANGED <<piece, job, calls, kills>> /\ head' \in Heads /\ dirty' \in BOOLEAN
    BY <1>6 DEF Advance, Heads, TypeOK
  <2>2. pc' \in [Procs -> PC] /\ updated' \in [Procs -> BOOLEAN]
    BY <1>6 DEF TypeOK, Advance, Synced, Raises, PC, Inside
  <2>3. lock' \in Procs \cup {Nobody} /\ breaks' \in Nat
    BY <1>6 DEF TypeOK, Advance, Synced, Raises, Release, Break
  <2> QED
    BY <2>1, <2>2, <2>3 DEF TypeOK
<1>7. CASE Check(p)
  <2>1. job' \in [Procs -> Jobs]
    BY <1>7, RunningJob DEF TypeOK, Check, JobAt
  <2> QED
    BY <1>7, <2>1 DEF TypeOK, Check, Returns, Release, tree, PC, Inside
<1>8. CASE \E c \in Pieces : SetupSkips(p, c) \/ SetupBegins(p, c) \/ SetupFinishes(p, c)
  <2>1. PICK c \in Pieces : SetupSkips(p, c) \/ SetupBegins(p, c) \/ SetupFinishes(p, c)
    BY <1>8
  <2>2. job[p].todo \in SUBSET Pieces
    BY DEF TypeOK, Jobs
  <2>3. job[p].todo \ {c} \in SUBSET Pieces /\ {c} \in SUBSET Pieces /\ {} \in SUBSET Pieces
    BY <2>2
  <2>4. job' \in [Procs -> Jobs]
    BY <2>1, <2>2, <2>3, RunningJob
    DEF TypeOK, SetupSkips, SetupBegins, SetupFinishes, JobAt
  <2> QED
    BY <2>1, <2>4 DEF TypeOK, SetupSkips, SetupBegins, SetupFinishes, States, tree
<1>9. NoJob \in Jobs
  BY DEF NoJob, Jobs
<1>10. CASE SetupEnds(p)
  BY <1>9, <1>10 DEF TypeOK, SetupEnds, PC, Inside, tree
<1>11. CASE SetupFails(p) \/ Interrupt(p)
  <2>1. piece' \in [Pieces -> States]
    BY <1>11 DEF TypeOK, SetupFails, Interrupt, LeftBehind, States
  <2> QED
    BY <1>9, <1>11, <2>1 DEF TypeOK, SetupFails, Interrupt, Raises, Release, Break, PC
<1> QED
  BY <1>1, <1>2, <1>3, <1>4, <1>5, <1>6, <1>7, <1>8, <1>10, <1>11 DEF Ensure, Setup, Faults

\* What a benchmark does around such a call keeps them too.
LEMMA BenchmarkTypes ==
  ASSUME ServersTypeOK, NEW p \in Procs,
         Benchmark(p) \/ AbortLaunch(p) \/ Servers(p)
  PROVE  ServersTypeOK'
<1>1. CASE Reuse(p)
  BY <1>1 DEF ServersTypeOK, TypeOK, Reuse, l1, Stage
<1>2. CASE Launch(p)
  BY <1>2 DEF ServersTypeOK, TypeOK, Launch, Call, tree, Stage, PC
<1>3. CASE GiveUp(p)
  BY <1>3 DEF ServersTypeOK, TypeOK, GiveUp, tree, Stage, PC
<1>4. CASE StartServers(p)
  <2>1. port' \in [Procs -> AllPorts]
    <3>1. PICK pick \in [Sites -> {n \in Ports : ~Bound(n)}] : port' = [port EXCEPT ![p] = pick]
      BY <1>4 DEF StartServers
    <3>2. pick \in AllPorts
      BY <3>1 DEF AllPorts
    <3> QED
      BY <3>1, <3>2 DEF ServersTypeOK
  <2>2. clash' \in BOOLEAN
    <3>1. PICK pick \in [Sites -> {n \in Ports : ~Bound(n)}] :
            clash' = (clash \/ \E s \in Sites : Picked(pick[s]))
      BY <1>4 DEF StartServers
    <3> QED
      BY <3>1, Zenon
  <2>3. server' \in [Procs -> [Sites -> ServerState]]
    BY <1>4 DEF ServersTypeOK, StartServers, ServerState
  <2>4. pending' \in [Procs -> SUBSET Sites] /\ stage' \in [Procs -> Stage]
    BY <1>4 DEF ServersTypeOK, StartServers, Stage
  <2> QED
    BY <1>4, <2>1, <2>2, <2>3, <2>4 DEF ServersTypeOK, TypeOK, StartServers, l1
<1>5. CASE AbortLaunch(p) \/ Close(p) \/ (Poll(p) /\ Back(p))
  <2>1. server' \in [Procs -> [Sites -> ServerState]]
    BY <1>5 DEF ServersTypeOK, AbortLaunch, Close, Poll, Stopped, ServerState, l1
  <2>2. env' \in [Procs -> AllPorts] /\ own' \in [Procs -> BOOLEAN]
    <3>1. NoPorts \in AllPorts
      BY DEF NoPorts, AllPorts
    <3> QED
      BY <1>5, <3>1 DEF ServersTypeOK, AbortLaunch, Close, Poll, l1
  <2>3. Back(p)
    BY <1>5 DEF AbortLaunch, Close
  <2> QED
    BY <2>1, <2>2, <2>3 DEF ServersTypeOK, TypeOK, Back, tree, PC, Stage
<1>6. CASE Poll(p) /\ ~Back(p)
  BY <1>6 DEF ServersTypeOK, TypeOK, Poll, l1, Stage
<1>7. CASE Probe(p)
  <2>1. Unreachable(p) \in SUBSET Sites
    BY DEF ServersTypeOK, Unreachable
  <2>2. env' \in [Procs -> AllPorts] /\ own' \in [Procs -> BOOLEAN] /\ stage' \in [Procs -> Stage]
    BY <1>7 DEF ServersTypeOK, Probe, Stage
  <2> QED
    BY <1>7, <2>1, <2>2 DEF ServersTypeOK, TypeOK, Probe, l1
<1>8. CASE Servers(p)
  <2>1. PICK s \in Sites : Bind(p, s) \/ Exit(p, s)
    BY <1>8 DEF Servers
  <2>2. server' \in [Procs -> [Sites -> ServerState]]
    <3>1. PICK new \in {"exited", "up"} : server' = [server EXCEPT ![p][s] = new]
      BY <2>1, Zenon DEF Bind, Exit
    <3>2. new \in ServerState
      BY DEF ServerState
    <3> QED
      BY <3>1, <3>2 DEF ServersTypeOK
  <2> QED
    BY <2>1, <2>2 DEF ServersTypeOK, TypeOK, Bind, Exit, l1
<1> QED
  BY <1>1, <1>2, <1>3, <1>4, <1>5, <1>6, <1>7, <1>8 DEF Benchmark

\* Every variable keeps its type.
THEOREM TypeCorrect == Spec => []ServersTypeOK
<1>1. ServersInit => ServersTypeOK
  <2> SUFFICES ASSUME ServersInit PROVE ServersTypeOK
    OBVIOUS
  <2>1. TypeOK
    <3>1. [p \in Procs |-> NoJob] \in [Procs -> Jobs]
      BY DEF NoJob, Jobs
    <3> QED
      BY <3>1 DEF ServersInit, Init, TypeOK, Heads, States, PC
  <2>2. NoPorts \in AllPorts /\ UserURLs \in AllPorts
    BY ServersAssumption DEF NoPorts, AllPorts
  <2> QED
    BY <2>1, <2>2 DEF ServersInit, ServersTypeOK, Stage, ServerState
<1>2. ServersTypeOK /\ [Next]_vars => ServersTypeOK'
  <2> SUFFICES ASSUME ServersTypeOK, [Next]_vars PROVE ServersTypeOK'
    OBVIOUS
  <2>1. CASE UNCHANGED vars
    BY <2>1 DEF ServersTypeOK, TypeOK, vars, l1, l2
  <2>2. ASSUME NEW p \in Procs, Provision(p) PROVE ServersTypeOK'
    BY <2>2, ProvisionTypes DEF Provision, ServersTypeOK, l2
  <2>3. ASSUME NEW p \in Procs, Benchmark(p) \/ AbortLaunch(p) \/ Servers(p)
        PROVE  ServersTypeOK'
    BY <2>3, BenchmarkTypes
  <2> QED
    BY <2>1, <2>2, <2>3 DEF Next
<1> QED
  BY <1>1, <1>2, PTL DEF Spec

-----------------------------------------------------------------------------
(* One setup.sh at a time *)

\* Only the holder of the lock is inside ensure_provisioned; the benchmark's own
\* code leaves a call alone until it has come back; and a setup.sh whose process
\* was not killed has that process waiting for it.
LockInv  == \A p \in Procs : pc[p] \in Inside => lock = p
StageInv ==
  \A p \in Procs :
    /\ stage[p] = "closed" => pc[p] = "out"
    /\ stage[p] \in {"poll", "probe"} => pc[p] \in {"ready", "dead"}
    /\ stage[p] = "active" => pc[p] \in {"ready", "out", "dead"}
JobInv   == kills = 0 => \A p \in Procs : job[p].running => pc[p] = "setup"

ExclusionInv == ServersTypeOK /\ LockInv /\ StageInv /\ JobInv

LEMMA ProvisionExclusion ==
  ASSUME ExclusionInv, NEW p \in Procs, Provision(p)
  PROVE  LockInv' /\ StageInv' /\ JobInv'
<1> USE DEF ExclusionInv, ServersTypeOK
<1>0. UNCHANGED l2
  BY DEF Provision
<1>n. NoJob.running = FALSE
  BY DEF NoJob
<1>1. CASE Acquire(p)
  BY <1>0, <1>1, ProvisioningAssumption
  DEF TypeOK, LockInv, StageInv, JobInv, Acquire, tree, Inside, l2
<1>2. CASE AlreadyPinned(p) \/ Clone(p) \/ Advance(p)
  <2>1. pc[p] = "sync" /\ UNCHANGED <<job, kills>>
    BY <1>2 DEF AlreadyPinned, Clone, Advance
  <2>2. \/ pc' = [pc EXCEPT ![p] = "check"] /\ UNCHANGED lock
        \/ pc' = [pc EXCEPT ![p] = "failed"] /\ lock' = Nobody
    BY <1>2 DEF AlreadyPinned, Clone, Advance, Synced, Raises, Release
  <2> QED
    BY <1>0, <2>1, <2>2, ProvisioningAssumption DEF TypeOK, LockInv, StageInv, JobInv, Inside, l2
<1>3. CASE Check(p)
  BY <1>0, <1>3, ProvisioningAssumption
  DEF TypeOK, LockInv, StageInv, JobInv, Check, Returns, Release, JobAt, tree, Inside, l2
<1>4. CASE Verify(p)
  <2>1. pc[p] = "verify" /\ lock' = Nobody /\ UNCHANGED <<job, kills>>
    BY <1>4 DEF Verify, Returns, Raises, Release
  <2>2. \E to \in {"ready", "failed"} : pc' = [pc EXCEPT ![p] = to]
    BY <1>4 DEF Verify, Returns, Raises
  <2> QED
    BY <1>0, <2>1, <2>2, ProvisioningAssumption DEF TypeOK, LockInv, StageInv, JobInv, Inside, l2
<1>5. CASE \E c \in Pieces : SetupSkips(p, c) \/ SetupBegins(p, c) \/ SetupFinishes(p, c)
  <2>1. UNCHANGED <<lock, pc, kills>> /\ job[p].running
    BY <1>5 DEF SetupSkips, SetupBegins, SetupFinishes, tree
  <2>2. \A q \in Procs : q # p => job'[q] = job[q]
    BY <1>5 DEF TypeOK, SetupSkips, SetupBegins, SetupFinishes, JobAt
  <2> QED
    BY <1>0, <2>1, <2>2 DEF TypeOK, LockInv, StageInv, JobInv, l2
<1>6. CASE SetupEnds(p)
  BY <1>0, <1>6, <1>n DEF TypeOK, LockInv, StageInv, JobInv, SetupEnds, tree, Inside, l2
<1>7. CASE SetupFails(p) \/ Interrupt(p)
  <2>1. job' = [job EXCEPT ![p] = NoJob] /\ UNCHANGED kills
    BY <1>7 DEF SetupFails, Interrupt
  <2>2. \/ pc[p] = "setup" /\ pc' = [pc EXCEPT ![p] = "failed"] /\ lock' = Nobody
        \/ pc[p] # "setup" /\ UNCHANGED <<lock, pc>>
    BY <1>7 DEF SetupFails, Interrupt, Raises, Release
  <2> QED
    BY <1>0, <1>n, <2>1, <2>2, ProvisioningAssumption
    DEF TypeOK, LockInv, StageInv, JobInv, Inside, l2
<1>8. CASE Kill(p)
  BY <1>0, <1>8 DEF TypeOK, LockInv, StageInv, JobInv, Kill, tree, Inside, l2
<1> QED
  BY <1>1, <1>2, <1>3, <1>4, <1>5, <1>6, <1>7, <1>8
  DEF Provision, Ensure, Setup, Faults

LEMMA BenchmarkExclusion ==
  ASSUME ExclusionInv, NEW p \in Procs,
         Benchmark(p) \/ AbortLaunch(p) \/ Servers(p)
  PROVE  LockInv' /\ StageInv' /\ JobInv'
<1> USE DEF ExclusionInv, ServersTypeOK
<1>1. CASE Reuse(p)
  BY <1>1 DEF LockInv, StageInv, JobInv, Reuse, l1
<1>2. CASE Launch(p)
  BY <1>2 DEF TypeOK, LockInv, StageInv, JobInv, Launch, Call, tree, Inside
<1>3. CASE GiveUp(p)
  BY <1>3 DEF TypeOK, LockInv, StageInv, JobInv, GiveUp, tree, Inside
<1>4. CASE StartServers(p)
  BY <1>4 DEF LockInv, StageInv, JobInv, StartServers, l1
<1>5. CASE AbortLaunch(p) \/ Close(p) \/ (Poll(p) /\ Back(p))
  <2>1. Back(p) /\ At(p, {"poll", "probe", "active"})
    BY <1>5 DEF AbortLaunch, Close, Poll, At
  <2>2. pc[p] \notin Inside
    BY <2>1 DEF At, StageInv, Inside
  <2> QED
    BY <2>1, <2>2 DEF TypeOK, Back, LockInv, StageInv, JobInv, tree, Inside
<1>6. CASE Poll(p) /\ ~Back(p)
  BY <1>6 DEF LockInv, StageInv, JobInv, Poll, At, l1
<1>7. CASE Probe(p)
  BY <1>7 DEF LockInv, StageInv, JobInv, Probe, At, l1
<1>8. CASE Servers(p)
  BY <1>8 DEF LockInv, StageInv, JobInv, Servers, Bind, Exit, l1
<1> QED
  BY <1>1, <1>2, <1>3, <1>4, <1>5, <1>6, <1>7, <1>8 DEF Benchmark

\* The lock has one holder, a process is inside exactly while it holds it, and a
\* setup.sh runs only while the process that started it waits for it.
THEOREM Exclusion == Spec => []ExclusionInv
<1>1. ServersInit => LockInv /\ StageInv /\ JobInv
  BY DEF ServersInit, Init, LockInv, StageInv, JobInv, Inside, NoJob
<1>2. ExclusionInv /\ [Next]_vars => LockInv' /\ StageInv' /\ JobInv'
  <2> SUFFICES ASSUME ExclusionInv, [Next]_vars PROVE LockInv' /\ StageInv' /\ JobInv'
    OBVIOUS
  <2>1. CASE UNCHANGED vars
    BY <2>1 DEF ExclusionInv, LockInv, StageInv, JobInv, vars, l1, l2
  <2>2. ASSUME NEW p \in Procs, Provision(p) PROVE LockInv' /\ StageInv' /\ JobInv'
    BY <2>2, ProvisionExclusion
  <2>3. ASSUME NEW p \in Procs, Benchmark(p) \/ AbortLaunch(p) \/ Servers(p)
        PROVE  LockInv' /\ StageInv' /\ JobInv'
    BY <2>3, BenchmarkExclusion
  <2> QED
    BY <2>1, <2>2, <2>3 DEF Next
<1> QED
  BY <1>1, <1>2, TypeCorrect, PTL DEF Spec, ExclusionInv

LEMMA OneHolder == ASSUME ExclusionInv PROVE SetupExclusive
<1> SUFFICES ASSUME kills = 0 PROVE Cardinality(Running) <= 1
  BY DEF SetupExclusive
<1>1. Running \subseteq {lock}
  BY DEF ExclusionInv, JobInv, LockInv, Running, Inside
<1>2. IsFiniteSet({lock}) /\ Cardinality({lock}) = 1
  BY FS_Singleton
<1>3. IsFiniteSet(Running) /\ Cardinality(Running) <= Cardinality({lock})
  BY <1>1, <1>2, FS_Subset
<1> QED
  BY <1>2, <1>3

\* Two setup.sh never write one tree, however many processes launch, as long as
\* none is killed outright.
THEOREM Exclusive == Spec => []SetupExclusive
BY Exclusion, OneHolder, PTL

-----------------------------------------------------------------------------
(* What is ready is whole *)

Good == \A c \in Pieces : piece[c] = "full"

\* While nothing has failed: the pieces a setup.sh has passed are full and it
\* holds the only unfinished one; at the pinned commit, the pieces are whole or
\* somebody is on the way to make them so; and once a process has been told that
\* the tree is ready, nobody is.
JobWorks(p) ==
  job[p].running =>
    /\ \A c \in Pieces : c \notin job[p].todo => piece[c] = "full"
    /\ job[p].now \subseteq job[p].todo
    /\ \A c \in job[p].now : job[p].now = {c}
Mover(p) == pc[p] = "setup" \/ (pc[p] = "check" /\ updated[p])

TreeFacts ==
  /\ head # "debris"
  /\ \A p \in Procs :
       /\ JobWorks(p)
       /\ pc[p] \in {"check", "setup", "verify"} => head = "pin"
       /\ pc[p] = "setup" => job[p].running
       /\ pc[p] = "verify" => Good
       /\ pc[p] = "ready" => head = "pin" /\ Good /\ \A q \in Procs : ~Mover(q)
  /\ \A c \in Pieces : piece[c] = "part" => \E p \in Procs : job[p].running /\ c \in job[p].now
  /\ head = "pin" => Good \/ \E p \in Procs : Mover(p)
TreeInv == breaks = 0 /\ kills = 0 => TreeFacts

\* With the lock, only one process is ever on the way.
LEMMA OneMover ==
  ASSUME ExclusionInv, NEW p \in Procs, NEW q \in Procs,
         pc[p] \in Inside, q # p
  PROVE  pc[q] \notin Inside /\ ~Mover(q) /\ (kills = 0 => ~job[q].running)
BY DEF ExclusionInv, LockInv, JobInv, Mover, Inside

LEMMA ProvisionTree ==
  ASSUME ExclusionInv, TreeInv, NEW p \in Procs, Provision(p)
  PROVE  TreeInv'
<1> SUFFICES ASSUME breaks' = 0, kills' = 0 PROVE TreeFacts'
  BY DEF TreeInv
<1> USE DEF ExclusionInv, ServersTypeOK
<1>a. breaks + 1 # 0 /\ kills + 1 # 0
  BY DEF TypeOK
<1>b. ~Break /\ kills' # kills + 1
  <2>1. breaks' # breaks + 1 /\ kills' # kills + 1
    BY <1>a, Zenon
  <2> QED
    BY <2>1 DEF Break
<1>c. ~Faults(p)
  BY <1>b DEF Faults, SetupFails, Interrupt, Kill
<1>d. ASSUME Ensure(p) PROVE UNCHANGED <<breaks, kills>>
  BY <1>b, <1>d DEF Ensure, Acquire, Clone, Advance, AlreadyPinned, Check, Verify
<1>e. ASSUME Setup(p) PROVE UNCHANGED <<breaks, kills>>
  BY <1>e DEF Setup, SetupSkips, SetupBegins, SetupFinishes, SetupEnds
<1>0. breaks = 0 /\ kills = 0 /\ ~Faults(p)
  BY <1>c, <1>d, <1>e DEF Provision
<1>f. TreeFacts
  BY <1>0 DEF TreeInv
<1>n. NoJob.running = FALSE
  BY DEF NoJob
<1>1. CASE Acquire(p)
  BY <1>f, <1>1 DEF TypeOK, TreeFacts, JobWorks, Mover, Good, Acquire, tree
<1>2. CASE AlreadyPinned(p) \/ Clone(p) \/ Advance(p)
  <2>1. pc[p] = "sync" /\ UNCHANGED <<job, piece>>
    BY <1>2 DEF AlreadyPinned, Clone, Advance, tree
  <2>2. \A q \in Procs : q # p => ~Mover(q) /\ pc[q] \notin Inside
    BY <2>1, OneMover DEF Inside
  <2>3. \/ /\ pc' = [pc EXCEPT ![p] = "check"] /\ head' = "pin"
           /\ updated' = [updated EXCEPT ![p] = FALSE] /\ head = "pin"
        \/ /\ pc' = [pc EXCEPT ![p] = "check"] /\ head' = "pin"
           /\ updated' = [updated EXCEPT ![p] = TRUE] /\ head # "pin"
        \/ pc' = [pc EXCEPT ![p] = "failed"] /\ UNCHANGED <<head, updated>>
    BY <1>0, <1>2, <1>f DEF AlreadyPinned, Clone, Advance, Synced, Raises, TreeFacts, tree,
         Break, TypeOK
  <2> QED
    BY <1>f, <2>1, <2>2, <2>3 DEF TypeOK, TreeFacts, JobWorks, Mover, Good, Inside
<1>3. CASE Check(p)
  <2>1. \A q \in Procs : q # p => ~Mover(q) /\ pc[q] \notin Inside /\ ~job[q].running
    BY <1>0, <1>3, OneMover DEF Check, Inside
  <2>2. ~job[p].running
    BY <1>0, <1>3 DEF Check, JobInv
  <2>3. \A c \in Pieces : piece[c] # "part"
    BY <1>f, <2>1, <2>2 DEF TreeFacts
  <2>4. CASE SkipSetup(p) /\ Returns(p) /\ UNCHANGED job
    <3>1. Good
      BY <1>f, <1>3, <2>1, <2>4 DEF TreeFacts, Mover, Check, SkipSetup
    <3> QED
      BY <1>f, <1>3, <2>1, <2>4, <3>1
      DEF TypeOK, TreeFacts, JobWorks, Mover, Good, Check, Returns, tree, Inside
  <2>5. CASE pc' = [pc EXCEPT ![p] = "setup"] /\ JobAt(p, Pieces, {}) /\ ~SkipSetup(p)
    <3>1. \A q \in Procs : pc[q] # "ready"
      BY <1>f, <1>3, <2>5 DEF TreeFacts, Good, Check, Mover, SkipSetup, Provisioned
    <3>2. job'[p] = [running |-> TRUE, todo |-> Pieces, now |-> {}]
      BY <2>5 DEF JobAt, TypeOK
    <3>3. job'[p].running /\ job'[p].todo = Pieces /\ job'[p].now = {}
      BY <3>2
    <3> QED
      BY <1>f, <1>3, <2>1, <2>3, <2>5, <3>1, <3>3
      DEF TypeOK, TreeFacts, JobWorks, Mover, Good, Check, tree, Inside, JobAt
  <2> QED
    BY <1>3, <2>4, <2>5 DEF Check
<1>4. CASE Verify(p)
  <2>1. \A q \in Procs : q # p => ~Mover(q) /\ pc[q] \notin Inside
    BY <1>4, OneMover DEF Verify, Inside
  <2>2. pc[p] = "verify" /\ UNCHANGED <<head, piece, job, updated>>
    BY <1>4 DEF Verify, tree
  <2>3. \E to \in {"ready", "failed"} : pc' = [pc EXCEPT ![p] = to]
    BY <1>4 DEF Verify, Returns, Raises
  <2> QED
    BY <1>f, <2>1, <2>2, <2>3 DEF TypeOK, TreeFacts, JobWorks, Mover, Good, Inside
<1>5. CASE \E c \in Pieces : SetupSkips(p, c) \/ SetupBegins(p, c) \/ SetupFinishes(p, c)
  <2>1. PICK c \in Pieces : SetupSkips(p, c) \/ SetupBegins(p, c) \/ SetupFinishes(p, c)
    BY <1>5
  <2>2. job[p].running /\ pc[p] = "setup" /\ UNCHANGED <<head, pc, updated>>
    BY <1>0, <2>1 DEF SetupSkips, SetupBegins, SetupFinishes, JobInv, tree
  <2>3. \A q \in Procs : q # p => ~job[q].running /\ pc[q] \notin Inside
    BY <1>0, <2>2, OneMover DEF Inside
  <2>4. \A q \in Procs : pc[q] # "ready"
    BY <1>f, <2>2 DEF TreeFacts, Mover
  <2>5. \A q \in Procs : q # p => job'[q] = job[q]
    BY <2>1 DEF SetupSkips, SetupBegins, SetupFinishes, JobAt, TypeOK
  <2>6. JobWorks(p)
    BY <1>f DEF TreeFacts
  <2>7. job[p].todo \subseteq Pieces /\ job[p].now \subseteq Pieces
    BY DEF TypeOK, Jobs
  <2>8. /\ job'[p].running /\ JobWorks(p)'
        /\ \A d \in Pieces : piece'[d] = "part" => d \in job'[p].now
    <3>1. CASE SetupSkips(p, c)
      <4>1. job'[p] = [running |-> TRUE, todo |-> job[p].todo \ {c}, now |-> {}]
        BY <3>1 DEF SetupSkips, JobAt, TypeOK
      <4>2. job'[p].running /\ job'[p].todo = job[p].todo \ {c} /\ job'[p].now = {}
        BY <4>1
      <4>3. \A d \in Pieces : piece[d] # "part"
        BY <1>f, <2>3, <3>1 DEF TreeFacts, SetupSkips
      <4>4. piece' = piece /\ piece[c] = "full"
        BY <3>1, <4>3 DEF SetupSkips, tree
      <4> QED
        BY <2>2, <2>6, <4>2, <4>3, <4>4 DEF JobWorks
    <3>2. CASE SetupBegins(p, c)
      <4>1. job'[p] = [running |-> TRUE, todo |-> job[p].todo, now |-> {c}]
        BY <3>2 DEF SetupBegins, JobAt, TypeOK
      <4>2. job'[p].running /\ job'[p].todo = job[p].todo /\ job'[p].now = {c}
        BY <4>1
      <4>3. \A d \in Pieces : piece[d] # "part"
        BY <1>f, <2>3, <3>2 DEF TreeFacts, SetupBegins
      <4>4. c \in job[p].todo /\ piece' = [piece EXCEPT ![c] = "part"]
        BY <3>2 DEF SetupBegins
      <4> QED
        BY <2>2, <2>6, <4>2, <4>3, <4>4 DEF JobWorks, TypeOK
    <3>3. CASE SetupFinishes(p, c)
      <4>1. job'[p] = [running |-> TRUE, todo |-> job[p].todo \ {c}, now |-> {}]
        BY <3>3 DEF SetupFinishes, JobAt, TypeOK
      <4>2. job'[p].running /\ job'[p].todo = job[p].todo \ {c} /\ job'[p].now = {}
        BY <4>1
      <4>3. c \in job[p].now /\ piece' = [piece EXCEPT ![c] = "full"]
        BY <3>3 DEF SetupFinishes
      <4>4. \A d \in Pieces : piece[d] = "part" => d = c
        BY <1>f, <2>2, <2>3, <2>6, <4>3 DEF TreeFacts, JobWorks
      <4> QED
        BY <2>2, <2>6, <4>2, <4>3, <4>4 DEF JobWorks, TypeOK
    <3> QED
      BY <2>1, <3>1, <3>2, <3>3
  <2> QED
    BY <1>f, <2>2, <2>3, <2>4, <2>5, <2>8 DEF TreeFacts, JobWorks, Mover, Inside
<1>6. CASE SetupEnds(p)
  <2>1. pc[p] = "setup" /\ Good
    BY <1>0, <1>f, <1>6 DEF SetupEnds, JobInv, TreeFacts, JobWorks, Good
  <2>2. \A q \in Procs : q # p => ~job[q].running /\ pc[q] \notin Inside
    BY <1>0, <2>1, OneMover DEF Inside
  <2>3. \A q \in Procs : pc[q] # "ready"
    BY <1>f, <2>1 DEF TreeFacts, Mover
  <2> QED
    BY <1>f, <1>n, <1>6, <2>1, <2>2, <2>3
    DEF TypeOK, TreeFacts, JobWorks, Mover, Good, SetupEnds, tree, Inside
<1> QED
  BY <1>0, <1>1, <1>2, <1>3, <1>4, <1>5, <1>6 DEF Provision, Ensure, Setup

LEMMA BenchmarkTree ==
  ASSUME ExclusionInv, TreeInv, NEW p \in Procs,
         Benchmark(p) \/ AbortLaunch(p) \/ Servers(p)
  PROVE  TreeInv'
<1> USE DEF ExclusionInv, ServersTypeOK
<1>1. UNCHANGED <<head, piece, job, updated, breaks, kills>>
  BY DEF Benchmark, AbortLaunch, Servers, Reuse, Launch, Call, GiveUp, StartServers, Back, Poll,
         Probe, Close, Bind, Exit, l1, tree
<1>2. \/ UNCHANGED pc
      \/ pc[p] \notin Inside /\ \E to \in {"lock", "out"} : pc' = [pc EXCEPT ![p] = to]
  <2>1. CASE Back(p) /\ At(p, {"poll", "probe", "active"})
    BY <2>1 DEF Back, At, StageInv, Inside
  <2>2. CASE Launch(p) \/ GiveUp(p)
    BY <2>2 DEF Launch, Call, GiveUp, Inside
  <2> QED
    BY <2>1, <2>2 DEF Benchmark, AbortLaunch, Servers, Reuse, StartServers, Poll,
         Probe, Close, Bind, Exit, l1, At
<1> QED
  BY <1>1, <1>2 DEF TypeOK, TreeInv, TreeFacts, JobWorks, Mover, Good, Inside

\* A process is told that the tree is ready only when it is at the pinned commit
\* and whole for it, as long as no step has failed.
THEOREM ReadyWhole == Spec => []ReadyIsWhole
<1>1. ServersInit => TreeInv
  BY DEF ServersInit, Init, TreeInv, TreeFacts, JobWorks, Mover, Good, NoJob
<1>2. ExclusionInv /\ TreeInv /\ [Next]_vars => TreeInv'
  <2> SUFFICES ASSUME ExclusionInv, TreeInv, [Next]_vars PROVE TreeInv'
    OBVIOUS
  <2>1. CASE UNCHANGED vars
    BY <2>1 DEF TreeInv, TreeFacts, JobWorks, Mover, Good, vars, l1
  <2>2. ASSUME NEW p \in Procs, Provision(p) PROVE TreeInv'
    BY <2>2, ProvisionTree
  <2>3. ASSUME NEW p \in Procs, Benchmark(p) \/ AbortLaunch(p) \/ Servers(p) PROVE TreeInv'
    BY <2>3, BenchmarkTree
  <2> QED
    BY <2>1, <2>2, <2>3 DEF Next
<1>3. ExclusionInv /\ TreeInv => ReadyIsWhole
  BY DEF ExclusionInv, JobInv, TreeInv, TreeFacts, Good, Mover, ReadyIsWhole, Running
<1> QED
  BY <1>1, <1>2, <1>3, Exclusion, PTL DEF Spec

-----------------------------------------------------------------------------
(* The servers of a process *)

\* What a benchmark owns it owns only while it runs; outside a launch and a run
\* nothing of it is alive; and what it exported it takes back.
LeakInv ==
  \A p \in Procs :
    /\ own[p] => stage[p] = "active"
    /\ stage[p] \in {"closed", "provision"} \/ (stage[p] = "active" /\ ~own[p]) =>
         \A s \in Sites : server[p][s] \notin {"starting", "up"}
    /\ ~own[p] => env[p] \in {NoPorts, UserURLs}
    /\ stage[p] = "active" /\ ~own[p] => env[p] = UserURLs

ServersInv == ServersTypeOK /\ LeakInv

LEMMA BenchmarkLeaks ==
  ASSUME ServersInv, NEW p \in Procs, Benchmark(p) \/ AbortLaunch(p) \/ Servers(p)
  PROVE  LeakInv'
<1> USE DEF ServersInv, ServersTypeOK
<1>1. CASE Reuse(p) \/ Launch(p) \/ GiveUp(p)
  <2>1. UNCHANGED <<server, env, own>>
    BY <1>1 DEF Reuse, Launch, GiveUp
  <2>2. /\ stage[p] \in {"closed", "provision"}
        /\ \E to \in Stage :
             /\ stage' = [stage EXCEPT ![p] = to]
             /\ to = "active" => env[p] # NoPorts
    BY <1>1 DEF Reuse, Launch, GiveUp, Stage
  <2> QED
    BY <2>1, <2>2 DEF LeakInv
<1>2. CASE StartServers(p)
  BY <1>2 DEF LeakInv, StartServers
<1>3. CASE AbortLaunch(p) \/ Close(p) \/ (Poll(p) /\ Back(p))
  <2>1. Back(p) /\ At(p, {"poll", "probe", "active"})
    BY <1>3 DEF AbortLaunch, Close, Poll, At
  <2>2. stage' = [stage EXCEPT ![p] = "closed"]
    BY <2>1 DEF Back
  <2>3. CASE own[p] /\ Close(p)
    <3>1. /\ server' = [server EXCEPT ![p] = [s \in Sites |-> "none"]]
          /\ env' = [env EXCEPT ![p] = NoPorts] /\ own' = [own EXCEPT ![p] = FALSE]
      BY <2>3 DEF Close, Stopped
    <3> QED
      BY <2>2, <3>1 DEF LeakInv
  <2>4. CASE ~own[p] /\ Close(p)
    BY <2>1, <2>2, <2>4 DEF LeakInv, Close, At
  <2>5. CASE ~Close(p)
    <3>1. stage[p] \in {"poll", "probe"} /\ UNCHANGED <<env, own>>
      BY <1>3, <2>5 DEF AbortLaunch, Poll, At, l1
    <3>2. \/ server' = [server EXCEPT ![p] = [s \in Sites |-> "none"]]
          \/ stage' = [stage EXCEPT ![p] = "probe"]
      BY <1>3, <2>5 DEF AbortLaunch, Poll, Stopped
    <3> QED
      BY <2>2, <3>1, <3>2 DEF LeakInv
  <2> QED
    BY <2>3, <2>4, <2>5
<1>4. CASE Poll(p) /\ ~Back(p)
  BY <1>4 DEF LeakInv, Poll, At
<1>5. CASE Probe(p)
  <2>1. stage[p] = "probe" /\ UNCHANGED server
    BY <1>5 DEF Probe, At
  <2>2. \/ /\ stage' = [stage EXCEPT ![p] = "active"] /\ own' = [own EXCEPT ![p] = TRUE]
           /\ env' = [env EXCEPT ![p] = port[p]]
        \/ stage' = [stage EXCEPT ![p] = "poll"] /\ UNCHANGED <<env, own>>
    BY <1>5 DEF Probe
  <2> QED
    BY <2>1, <2>2 DEF LeakInv
<1>6. CASE Servers(p)
  <2>1. PICK s \in Sites : Bind(p, s) \/ Exit(p, s)
    BY <1>6 DEF Servers
  <2>2. server[p][s] \in {"starting", "up"} /\ UNCHANGED <<stage, env, own>>
    BY <2>1 DEF Bind, Exit, Alive
  <2>3. \A q \in Procs : q # p => server'[q] = server[q]
    BY <2>1 DEF Bind, Exit
  <2> QED
    BY <2>2, <2>3 DEF LeakInv
<1> QED
  BY <1>1, <1>2, <1>3, <1>4, <1>5, <1>6 DEF Benchmark

\* Servers that start or run belong to a process that is launching or active.
THEOREM Leaks == Spec => []ServersInv
<1>1. ServersInit => LeakInv
  BY DEF ServersInit, LeakInv
<1>2. ServersInv /\ [Next]_vars => LeakInv'
  <2> SUFFICES ASSUME ServersInv, [Next]_vars PROVE LeakInv'
    OBVIOUS
  <2>1. CASE UNCHANGED vars
    BY <2>1 DEF ServersInv, LeakInv, vars, l2
  <2>2. ASSUME NEW p \in Procs, Provision(p) PROVE LeakInv'
    BY <2>2 DEF Provision, ServersInv, LeakInv, l2
  <2>3. ASSUME NEW p \in Procs, Benchmark(p) \/ AbortLaunch(p) \/ Servers(p) PROVE LeakInv'
    BY <2>3, BenchmarkLeaks
  <2> QED
    BY <2>1, <2>2, <2>3 DEF Next
<1> QED
  BY <1>1, <1>2, TypeCorrect, PTL DEF Spec, ServersInv

\* No server outlives the launch or the run it was started for.
THEOREM NoLeak == Spec => []NoServerLeaks
<1>1. ServersInv => NoServerLeaks
  BY DEF ServersInv, LeakInv, NoServerLeaks, Alive
<1> QED
  BY <1>1, Leaks, PTL

-----------------------------------------------------------------------------
(* Whose servers answer *)

Live(p, s) == server[p][s] \in {"starting", "up"}

\* Unless a probe was answered too early or a server has exited: ports in use are
\* distinct, so a URL that answers is answered by the server it was given to.
LabelFacts ==
  /\ \A p \in Procs, s \in Sites : server[p][s] # "exited"
  /\ \A p, q \in Procs, s, t \in Sites :
       Live(p, s) /\ Live(q, t) /\ port[p][s] = port[q][t] => p = q /\ s = t
  /\ user => \A p \in Procs, s, t \in Sites : Live(p, s) => port[p][s] # UserURLs[t]
  /\ \A p \in Procs : stage[p] \in {"poll", "probe"} =>
       \A s \in Sites : Live(p, s) /\ (s \notin pending[p] => server[p][s] = "up")
  /\ \A p \in Procs : stage[p] = "active" /\ own[p] =>
       \A s \in Sites : server[p][s] = "up" /\ env[p][s] = port[p][s]
LabelInv == ~clash /\ crashes = 0 => LabelFacts

\* Stopping one's servers takes nothing from the others.
LEMMA StopLabels ==
  ASSUME ServersInv, LabelFacts, NEW p \in Procs, Back(p),
         \/ Stopped(p) /\ UNCHANGED <<env, own>>
         \/ Stopped(p) /\ env' = [env EXCEPT ![p] = NoPorts] /\ own' = [own EXCEPT ![p] = FALSE]
         \/ UNCHANGED <<server, env, own>>
  PROVE  LabelFacts'
<1> USE DEF ServersInv, ServersTypeOK
<1>1. UNCHANGED <<port, user>> /\ stage' = [stage EXCEPT ![p] = "closed"]
  BY DEF Back
<1>2. \A q \in Procs, s \in Sites :
        /\ q # p => server'[q][s] = server[q][s] /\ env'[q] = env[q] /\ own'[q] = own[q]
        /\ server'[p][s] \in {server[p][s], "none"}
  BY DEF Stopped
<1>3. \A q \in Procs : q # p => pending'[q] = pending[q]
  BY DEF Back
<1>4. \A q \in Procs, s \in Sites : Live(q, s)' => Live(q, s)
  BY <1>2 DEF Live
<1>5. stage'[p] = "closed" /\ \A q \in Procs : q # p => stage'[q] = stage[q]
  BY <1>1
<1>6. \A q \in Procs, s \in Sites : q # p /\ Live(q, s) => Live(q, s)'
  BY <1>2 DEF Live
<1>7. \A q \in Procs, s \in Sites : server'[q][s] # "exited"
  BY <1>2 DEF LabelFacts
<1> QED
  BY <1>1, <1>2, <1>3, <1>4, <1>5, <1>6, <1>7 DEF LabelFacts

LEMMA BenchmarkLabels ==
  ASSUME ServersInv, LabelInv, NEW p \in Procs,
         Benchmark(p) \/ AbortLaunch(p) \/ Servers(p)
  PROVE  LabelInv'
<1> USE DEF ServersInv, ServersTypeOK
<1>1. CASE Reuse(p) \/ Launch(p) \/ GiveUp(p)
  <2>1. UNCHANGED <<server, port, env, own, user, clash, crashes, pending>>
    BY <1>1 DEF Reuse, Launch, GiveUp
  <2>2. /\ stage[p] \in {"closed", "provision"} /\ ~own[p]
        /\ \E to \in {"active", "provision", "closed"} : stage' = [stage EXCEPT ![p] = to]
    BY <1>1 DEF Reuse, Launch, GiveUp, LeakInv
  <2> QED
    BY <2>1, <2>2 DEF LabelInv, LabelFacts, Live
<1>2. CASE StartServers(p)
  <2>1. PICK pick \in [Sites -> {n \in Ports : ~Bound(n)}] :
          /\ \A s, t \in Sites : pick[s] = pick[t] => s = t
          /\ port' = [port EXCEPT ![p] = pick]
          /\ clash' = (clash \/ \E s \in Sites : Picked(pick[s]))
    BY <1>2 DEF StartServers
  <2>2. SUFFICES ASSUME ~clash', crashes' = 0 PROVE LabelFacts'
    BY DEF LabelInv
  <2>3. ~clash /\ \A s \in Sites : ~Picked(pick[s])
    <3>1. clash' = (clash \/ \E s \in Sites : Picked(pick[s]))
      BY <2>1
    <3> HIDE DEF ServersInv, ServersTypeOK
    <3>2. ~(clash \/ \E s \in Sites : Picked(pick[s]))
      BY <2>2, <3>1, Zenon
    <3> QED
      BY <3>2, Zenon
  <2>4. crashes = 0 /\ LabelFacts
    BY <1>2, <2>2, <2>3 DEF StartServers, LabelInv
  <2>5. \A s \in Sites : ~Bound(pick[s])
    BY <2>1
  <2>6. /\ server' = [server EXCEPT ![p] = [s \in Sites |-> "starting"]]
        /\ pending' = [pending EXCEPT ![p] = Sites]
        /\ stage' = [stage EXCEPT ![p] = "poll"] /\ stage[p] = "provision"
        /\ UNCHANGED <<env, own, user>>
    BY <1>2 DEF StartServers
  <2>7. \A q \in Procs, s, t \in Sites : q # p /\ Live(q, t) => port[q][t] # pick[s]
    BY <2>3, <2>5 DEF Live, Picked, Bound
  <2>8. user => \A s, t \in Sites : pick[s] # UserURLs[t]
    BY <2>5 DEF Bound
  <2>9. \A q \in Procs, s \in Sites :
          /\ port'[q][s] = IF q = p THEN pick[s] ELSE port[q][s]
          /\ server'[q][s] = IF q = p THEN "starting" ELSE server[q][s]
    BY <2>1, <2>6
  <2>10. \A q \in Procs, s \in Sites : Live(q, s)' <=> q = p \/ Live(q, s)
    BY <2>9 DEF Live
  <2>11. /\ \A q, r \in Procs, s, t \in Sites :
              Live(q, s)' /\ Live(r, t)' /\ port'[q][s] = port'[r][t] => q = r /\ s = t
         /\ user' => \A q \in Procs, s, t \in Sites : Live(q, s)' => port'[q][s] # UserURLs[t]
    BY <2>1, <2>4, <2>6, <2>7, <2>8, <2>9, <2>10 DEF LabelFacts
  <2>12. \A q \in Procs : stage'[q] \in {"poll", "probe"} =>
           \A s \in Sites : Live(q, s)' /\ (s \notin pending'[q] => server'[q][s] = "up")
    BY <2>4, <2>6, <2>9, <2>10 DEF LabelFacts
  <2>13. \A q \in Procs : stage'[q] = "active" /\ own'[q] =>
           \A s \in Sites : server'[q][s] = "up" /\ env'[q][s] = port'[q][s]
    BY <2>4, <2>6, <2>9 DEF LabelFacts
  <2>14. \A q \in Procs, s \in Sites : server'[q][s] # "exited"
    BY <2>4, <2>9 DEF LabelFacts
  <2> QED
    BY <2>11, <2>12, <2>13, <2>14 DEF LabelFacts, Live
<1>3. CASE AbortLaunch(p) \/ Close(p) \/ (Poll(p) /\ Back(p))
  <2>1. Back(p) /\ UNCHANGED <<clash, crashes>>
    BY <1>3 DEF AbortLaunch, Close, Back
  <2>2. \/ Stopped(p) /\ UNCHANGED <<env, own>>
        \/ Stopped(p) /\ env' = [env EXCEPT ![p] = NoPorts] /\ own' = [own EXCEPT ![p] = FALSE]
        \/ UNCHANGED <<server, env, own>>
    BY <1>3 DEF AbortLaunch, Close, Poll
  <2> QED
    BY <2>1, <2>2, StopLabels DEF LabelInv
<1>4. CASE Poll(p) /\ ~Back(p)
  <2>1. /\ stage' = [stage EXCEPT ![p] = "probe"] /\ stage[p] = "poll"
        /\ UNCHANGED <<port, server, pending, env, own, user, clash, crashes>>
    BY <1>4 DEF Poll, At
  <2> QED
    BY <2>1 DEF LabelInv, LabelFacts, Live
<1>5. CASE Probe(p)
  <2>1. SUFFICES ASSUME ~clash', crashes' = 0 PROVE LabelFacts'
    BY DEF LabelInv
  <2>2. /\ stage[p] = "probe" /\ UNCHANGED <<port, server, user, clash, crashes>>
        /\ pending' = [pending EXCEPT ![p] = Unreachable(p)]
    BY <1>5 DEF Probe, At
  <2>3. LabelFacts
    BY <2>1, <2>2 DEF LabelInv
  <2>4. \A s \in Sites : Bound(port[p][s]) => server[p][s] = "up"
    BY <2>2, <2>3 DEF LabelFacts, Live, Bound
  <2>5. \A s \in Sites : s \notin Unreachable(p) => server[p][s] = "up"
    BY <2>2, <2>3, <2>4 DEF LabelFacts, Unreachable
  <2>6. \/ /\ Unreachable(p) = {} /\ stage' = [stage EXCEPT ![p] = "active"]
           /\ env' = [env EXCEPT ![p] = port[p]] /\ own' = [own EXCEPT ![p] = TRUE]
        \/ stage' = [stage EXCEPT ![p] = "poll"] /\ UNCHANGED <<env, own>>
    BY <1>5 DEF Probe
  <2>8. \A q \in Procs, s \in Sites : Live(q, s)' <=> Live(q, s)
    BY <2>2 DEF Live
  <2>9. /\ \A q \in Procs, s \in Sites : server'[q][s] # "exited"
        /\ \A q, r \in Procs, s, t \in Sites :
             Live(q, s)' /\ Live(r, t)' /\ port'[q][s] = port'[r][t] => q = r /\ s = t
        /\ user' => \A q \in Procs, s, t \in Sites : Live(q, s)' => port'[q][s] # UserURLs[t]
    BY <2>2, <2>3, <2>8 DEF LabelFacts
  <2>10. \A q \in Procs : stage'[q] \in {"poll", "probe"} =>
           stage[q] \in {"poll", "probe"}
    BY <2>2, <2>6
  <2>11. \A q \in Procs, s \in Sites : s \notin pending'[q] /\ stage[q] \in {"poll", "probe"} =>
           server[q][s] = "up"
    BY <2>2, <2>3, <2>5 DEF LabelFacts
  <2>12. \A q \in Procs : stage'[q] \in {"poll", "probe"} =>
           \A s \in Sites : Live(q, s)' /\ (s \notin pending'[q] => server'[q][s] = "up")
    BY <2>2, <2>3, <2>8, <2>10, <2>11 DEF LabelFacts
  <2>13. \A q \in Procs : stage'[q] = "active" /\ own'[q] =>
           \A s \in Sites : server'[q][s] = "up" /\ env'[q][s] = port'[q][s]
    <3>1. CASE stage'[p] = "active"
      <4>1. /\ Unreachable(p) = {} /\ env' = [env EXCEPT ![p] = port[p]]
            /\ own' = [own EXCEPT ![p] = TRUE] /\ stage' = [stage EXCEPT ![p] = "active"]
        BY <2>6, <3>1
      <4>2. \A s \in Sites : server'[p][s] = "up" /\ env'[p][s] = port'[p][s]
        BY <2>2, <2>5, <4>1
      <4> QED
        BY <2>2, <2>3, <4>1, <4>2 DEF LabelFacts
    <3>2. CASE stage'[p] # "active"
      <4>1. UNCHANGED <<env, own>> /\ stage' = [stage EXCEPT ![p] = "poll"]
        BY <2>6, <3>2
      <4> QED
        BY <2>2, <2>3, <4>1 DEF LabelFacts
    <3> QED
      BY <3>1, <3>2
  <2> QED
    BY <2>9, <2>12, <2>13 DEF LabelFacts, Live
<1>6. CASE \E s \in Sites : Exit(p, s)
  <2>1. crashes' = crashes + 1
    BY <1>6 DEF Exit
  <2>2. crashes + 1 # 0
    OBVIOUS
  <2>3. crashes' # 0
    BY <2>1, <2>2, Zenon
  <2> QED
    BY <2>3 DEF LabelInv
<1>7. CASE \E s \in Sites : Bind(p, s)
  <2>1. PICK s \in Sites : Bind(p, s)
    BY <1>7
  <2>2. /\ server[p][s] = "starting"
        /\ UNCHANGED <<stage, port, pending, env, own, user, clash, crashes>>
    BY <2>1 DEF Bind
  <2>3. SUFFICES ASSUME LabelFacts PROVE LabelFacts'
    BY <2>2 DEF LabelInv
  <2>4. ~Bound(port[p][s])
    BY <2>2, <2>3 DEF LabelFacts, Live, Bound
  <2>5. server' = [server EXCEPT ![p][s] = "up"]
    BY <2>1, <2>4, Zenon DEF Bind
  <2>6. \A q \in Procs, t \in Sites :
          server'[q][t] = IF q = p /\ t = s THEN "up" ELSE server[q][t]
    BY <2>5
  <2>7. \A q \in Procs, t \in Sites : Live(q, t)' <=> Live(q, t)
    BY <2>2, <2>6 DEF Live
  <2>8. /\ \A q, r \in Procs, t, u \in Sites :
             Live(q, t)' /\ Live(r, u)' /\ port'[q][t] = port'[r][u] => q = r /\ t = u
        /\ user' => \A q \in Procs, t, u \in Sites : Live(q, t)' => port'[q][t] # UserURLs[u]
    BY <2>2, <2>3, <2>7 DEF LabelFacts
  <2> QED
    BY <2>2, <2>3, <2>6, <2>7, <2>8 DEF LabelFacts
<1> QED
  BY <1>1, <1>2, <1>3, <1>4, <1>5, <1>6, <1>7 DEF Benchmark, Servers

\* The results a run labels with its ui_version come from its own servers, unless
\* a probe was answered too early or a server has exited.
THEOREM LabelsTrue == Spec => []LabelIsTrue
<1>1. ServersInit => LabelInv
  BY DEF ServersInit, LabelInv, LabelFacts, Live
<1>2. ServersInv /\ LabelInv /\ [Next]_vars => LabelInv'
  <2> SUFFICES ASSUME ServersInv, LabelInv, [Next]_vars PROVE LabelInv'
    OBVIOUS
  <2>1. CASE UNCHANGED l2
    BY <2>1 DEF LabelInv, LabelFacts, Live, l2
  <2>2. ASSUME NEW p \in Procs, Benchmark(p) \/ AbortLaunch(p) \/ Servers(p) PROVE LabelInv'
    BY <2>2, BenchmarkLabels
  <2> QED
    BY <2>1, <2>2 DEF Next, Provision, vars
<1>3. ServersInv /\ LabelInv => LabelIsTrue
  BY DEF ServersInv, LeakInv, LabelInv, LabelFacts, LabelIsTrue
<1> QED
  BY <1>1, <1>2, <1>3, Leaks, PTL DEF Spec

-----------------------------------------------------------------------------
(* The lock comes back *)

\* Whoever holds the lock is alive and inside the with block, and a setup.sh it
\* waits for is running, as is the one of a process killed in its wait; setup.sh
\* writes a piece it has not done.
HolderInv == lock # Nobody => pc[lock] \in Inside
WaitInv ==
  \A p \in Procs :
    /\ pc[p] = "setup" => job[p].running
    /\ job[p].running => pc[p] \in {"setup", "dead"}
TodoInv   == \A p \in Procs : job[p].now \subseteq job[p].todo

HeldInv == HolderInv /\ WaitInv /\ TodoInv

\* A setup.sh that has been started keeps its process waiting and its piece listed.
LEMMA JobHeld ==
  ASSUME TypeOK, HeldInv, NEW p \in Procs, NEW new, new.running, new.now \subseteq new.todo,
         job' = [job EXCEPT ![p] = new], UNCHANGED lock,
         \/ UNCHANGED pc /\ job[p].running
         \/ pc' = [pc EXCEPT ![p] = "setup"]
  PROVE  HeldInv'
<1>1. job'[p] = new /\ \A q \in Procs : q # p => job'[q] = job[q]
  BY DEF TypeOK
<1>2. /\ \A q \in Procs : q # p => pc'[q] = pc[q]
      /\ (pc'[p] = pc[p] /\ job[p].running) \/ pc'[p] = "setup"
  BY DEF TypeOK
<1>3. HolderInv'
  BY DEF TypeOK, HeldInv, HolderInv, Inside
<1>4. WaitInv' /\ TodoInv'
  BY <1>1, <1>2 DEF HeldInv, WaitInv, TodoInv
<1> QED
  BY <1>3, <1>4 DEF HeldInv

LEMMA ProvisionHeld ==
  ASSUME ExclusionInv, HeldInv, NEW p \in Procs, Provision(p)
  PROVE  HeldInv'
<1> USE DEF ExclusionInv, ServersTypeOK
<1>n. NoJob.now = {} /\ NoJob.todo = {} /\ NoJob.running = FALSE
  BY DEF NoJob
<1>1. CASE Acquire(p)
  BY <1>1, ProvisioningAssumption
  DEF TypeOK, LockInv, HeldInv, HolderInv, WaitInv, TodoInv, Acquire, tree, Inside
<1>2. CASE AlreadyPinned(p) \/ Clone(p) \/ Advance(p)
  <2>1. pc[p] = "sync" /\ UNCHANGED job
    BY <1>2 DEF AlreadyPinned, Clone, Advance
  <2>2. \/ pc' = [pc EXCEPT ![p] = "check"] /\ UNCHANGED lock
        \/ pc' = [pc EXCEPT ![p] = "failed"] /\ lock' = Nobody
    BY <1>2 DEF AlreadyPinned, Clone, Advance, Synced, Raises, Release
  <2> QED
    BY <2>1, <2>2 DEF TypeOK, HeldInv, HolderInv, WaitInv, TodoInv, Inside
<1>3. CASE Check(p)
  <2> DEFINE new == [running |-> TRUE, todo |-> Pieces, now |-> {}]
  <2>1. CASE pc' = [pc EXCEPT ![p] = "ready"] /\ lock' = Nobody /\ UNCHANGED job
    BY <1>3, <2>1 DEF Check, TypeOK, HeldInv, HolderInv, WaitInv, TodoInv
  <2>2. CASE /\ pc' = [pc EXCEPT ![p] = "setup"] /\ UNCHANGED lock
             /\ job' = [job EXCEPT ![p] = new]
    <3>1. new.running /\ new.now \subseteq new.todo
      OBVIOUS
    <3> HIDE DEF new
    <3> QED
      BY <2>2, <3>1, JobHeld
  <2> QED
    BY <1>3, <2>1, <2>2 DEF Check, Returns, Release, JobAt
<1>4. CASE Verify(p)
  <2>1. pc[p] = "verify" /\ lock' = Nobody /\ UNCHANGED job
    BY <1>4 DEF Verify, Returns, Raises, Release
  <2>2. \E to \in {"ready", "failed"} : pc' = [pc EXCEPT ![p] = to]
    BY <1>4 DEF Verify, Returns, Raises
  <2> QED
    BY <2>1, <2>2 DEF TypeOK, HeldInv, HolderInv, WaitInv, TodoInv
<1>5. CASE \E c \in Pieces : SetupSkips(p, c) \/ SetupBegins(p, c) \/ SetupFinishes(p, c)
  <2>1. UNCHANGED <<lock, pc>> /\ job[p].running
    BY <1>5 DEF SetupSkips, SetupBegins, SetupFinishes, tree
  <2>2. PICK c \in Pieces : SetupSkips(p, c) \/ SetupBegins(p, c) \/ SetupFinishes(p, c)
    BY <1>5
  <2> DEFINE skip  == [running |-> TRUE, todo |-> job[p].todo \ {c}, now |-> {}]
             begin == [running |-> TRUE, todo |-> job[p].todo, now |-> {c}]
  <2>3. \/ job' = [job EXCEPT ![p] = skip]
        \/ job' = [job EXCEPT ![p] = begin] /\ c \in job[p].todo
    BY <2>2 DEF SetupSkips, SetupBegins, SetupFinishes, JobAt
  <2>4. /\ skip.running /\ skip.now \subseteq skip.todo
        /\ begin.running /\ (c \in job[p].todo => begin.now \subseteq begin.todo)
    OBVIOUS
  <2> HIDE DEF skip, begin
  <2> QED
    BY <2>1, <2>3, <2>4, JobHeld
<1>6. CASE SetupEnds(p)
  BY <1>6, <1>n DEF TypeOK, HeldInv, HolderInv, WaitInv, TodoInv, SetupEnds, tree, Inside
<1>7. CASE SetupFails(p) \/ Interrupt(p)
  <2>1. job' = [job EXCEPT ![p] = NoJob]
    BY <1>7 DEF SetupFails, Interrupt
  <2>2. \/ pc[p] = "setup" /\ pc' = [pc EXCEPT ![p] = "failed"] /\ lock' = Nobody
        \/ pc[p] # "setup" /\ UNCHANGED <<lock, pc>>
    BY <1>7 DEF SetupFails, Interrupt, Raises, Release
  <2> QED
    BY <1>n, <2>1, <2>2 DEF TypeOK, HeldInv, HolderInv, WaitInv, TodoInv
<1>8. CASE Kill(p)
  BY <1>8 DEF TypeOK, HeldInv, HolderInv, WaitInv, TodoInv, Kill, tree
<1> QED
  BY <1>1, <1>2, <1>3, <1>4, <1>5, <1>6, <1>7, <1>8
  DEF Provision, Ensure, Setup, Faults

\* What a benchmark does to the call of its process, and to nothing of the lock.
LEMMA BenchmarkCalls ==
  ASSUME ExclusionInv, NEW p \in Procs,
         Benchmark(p) \/ AbortLaunch(p) \/ Servers(p)
  PROVE  /\ UNCHANGED <<lock, job>>
         /\ \/ UNCHANGED pc
            \/ /\ pc[p] \notin Inside \cup {"dead"}
               /\ \E to \in {"lock", "out"} : pc' = [pc EXCEPT ![p] = to]
<1>1. CASE Reuse(p) \/ StartServers(p) \/ Probe(p) \/ Servers(p)
  BY <1>1 DEF Reuse, StartServers, Probe, Servers, Bind, Exit, l1
<1>2. CASE Launch(p) \/ GiveUp(p)
  BY <1>2 DEF Launch, Call, GiveUp, tree, Inside
<1>3. CASE AbortLaunch(p) \/ Close(p) \/ (Poll(p) /\ Back(p))
  <2>1. Back(p) /\ At(p, {"poll", "probe", "active"})
    BY <1>3 DEF AbortLaunch, Close, Poll, At
  <2>2. pc[p] \notin Inside \cup {"dead"}
    BY <2>1 DEF At, ExclusionInv, StageInv, Inside
  <2> QED
    BY <2>1, <2>2 DEF Back, tree
<1>4. CASE Poll(p) /\ ~Back(p)
  BY <1>4 DEF Poll, l1
<1> QED
  BY <1>1, <1>2, <1>3, <1>4 DEF Benchmark

LEMMA HeldStep ==
  ASSUME ExclusionInv, HeldInv, [Next]_vars
  PROVE  HeldInv'
<1>1. CASE UNCHANGED vars
  BY <1>1 DEF HeldInv, HolderInv, WaitInv, TodoInv, vars, l1
<1>2. ASSUME NEW p \in Procs, Provision(p) PROVE HeldInv'
  BY <1>2, ProvisionHeld
<1>3. ASSUME NEW p \in Procs, Benchmark(p) \/ AbortLaunch(p) \/ Servers(p)
      PROVE  HeldInv'
  <2>1. UNCHANGED <<lock, job>>
    BY <1>3, BenchmarkCalls
  <2>2. CASE UNCHANGED pc
    BY <2>1, <2>2 DEF HeldInv, HolderInv, WaitInv, TodoInv
  <2>3. ASSUME NEW to \in {"lock", "out"}, pc[p] \notin Inside \cup {"dead"},
               pc' = [pc EXCEPT ![p] = to]
        PROVE  HeldInv'
    <3>1. pc'[p] = to /\ \A q \in Procs : q # p => pc'[q] = pc[q]
      BY <2>3 DEF ExclusionInv, ServersTypeOK, TypeOK
    <3>2. ~job[p].running
      BY <2>3 DEF HeldInv, WaitInv, Inside
    <3>3. HolderInv'
      BY <2>1, <2>3, <3>1 DEF HeldInv, HolderInv, ExclusionInv, ServersTypeOK, TypeOK
    <3>4. WaitInv' /\ TodoInv'
      BY <2>1, <3>1, <3>2 DEF HeldInv, WaitInv, TodoInv
    <3> QED
      BY <3>3, <3>4 DEF HeldInv
  <2> QED
    BY <1>3, <2>2, <2>3, BenchmarkCalls
<1> QED
  BY <1>1, <1>2, <1>3 DEF Next

-----------------------------------------------------------------------------
(* How long it can be held *)

\* The steps a holder, and the setup.sh it waits for, can take before it lets go.
Left(p) ==
  CASE pc[p] = "sync"   -> 2 * Cardinality(Pieces) + 4
    [] pc[p] = "check"  -> 2 * Cardinality(Pieces) + 3
    [] pc[p] = "setup"  -> 2 * Cardinality(job[p].todo) + (IF job[p].now = {} THEN 2 ELSE 1)
    [] pc[p] = "verify" -> 1

\* The holder lets go after so many steps of its own.
HolderIsNear ==
  lock # Nobody => Left(lock) \in 1 .. 2 * Cardinality(Pieces) + 4

\* What the holder waits for is there: a step of ensure_provisioned whose guard
\* holds, or a setup.sh that can go on or end.
HolderCanMove ==
  lock # Nobody =>
    \/ pc[lock] = "sync" /\ head \in Heads
    \/ pc[lock] \in {"check", "verify"}
    \/ /\ pc[lock] = "setup" /\ job[lock].running
       /\ \/ job[lock].todo = {}
          \/ job[lock].now # {} /\ job[lock].now \subseteq Pieces
          \/ \E c \in job[lock].todo : job[lock].now = {} /\ piece[c] \in States

\* A step of anybody leaves a holder where it is or brings it nearer to letting
\* go, and a step of its own, or of its setup.sh, always brings it nearer.
HolderAdvances ==
  \A p \in Procs :
    lock = p /\ lock' = p =>
      /\ UNCHANGED <<pc[p], job[p]>> \/ Left(p)' < Left(p)
      /\ Ensure(p) \/ Setup(p) => Left(p)' < Left(p)

LEMMA LeftType ==
  ASSUME IsFiniteSet(Pieces), ExclusionInv, NEW p \in Procs, pc[p] \in Inside
  PROVE  /\ Left(p) \in Nat /\ 1 <= Left(p) /\ Left(p) <= 2 * Cardinality(Pieces) + 4
         /\ IsFiniteSet(job[p].todo) /\ Cardinality(job[p].todo) \in Nat
<1>1. job[p].todo \subseteq Pieces
  BY DEF ExclusionInv, ServersTypeOK, TypeOK, Jobs
<1>2. /\ Cardinality(Pieces) \in Nat /\ Cardinality(job[p].todo) \in Nat
      /\ Cardinality(job[p].todo) <= Cardinality(Pieces) /\ IsFiniteSet(job[p].todo)
  BY <1>1, FS_Subset, FS_CardinalityType
<1>3. pc[p] \in {"sync", "check", "setup", "verify"}
  BY DEF Inside
<1> QED
  BY <1>2, <1>3 DEF Left

LEMMA OneDone ==
  ASSUME NEW S, IsFiniteSet(S), NEW c \in S
  PROVE  Cardinality(S \ {c}) = Cardinality(S) - 1
BY FS_RemoveElement


LEMMA HolderReady == ASSUME ExclusionInv, HeldInv PROVE HolderCanMove
<1> SUFFICES ASSUME lock # Nobody PROVE HolderCanMove
  BY DEF HolderCanMove
<1>1. lock \in Procs /\ pc[lock] \in Inside /\ head \in Heads
  BY DEF ExclusionInv, ServersTypeOK, TypeOK, HeldInv, HolderInv
<1>2. /\ job[lock].todo \subseteq Pieces /\ job[lock].now \subseteq job[lock].todo
      /\ \A c \in Pieces : piece[c] \in States
  BY <1>1 DEF ExclusionInv, ServersTypeOK, TypeOK, Jobs, HeldInv, TodoInv
<1>3. pc[lock] = "setup" => job[lock].running
  BY <1>1 DEF HeldInv, WaitInv
<1> QED
  BY <1>1, <1>2, <1>3 DEF HolderCanMove, Inside

\* A step of the process that holds the lock, or of its setup.sh.
LEMMA OwnStep ==
  ASSUME IsFiniteSet(Pieces), ExclusionInv, HeldInv, NEW p \in Procs,
         Ensure(p) \/ Setup(p) \/ Faults(p),
         lock = p, lock' = p, Left(p) \in Nat
  PROVE  Left(p)' < Left(p)
<1> DEFINE N == Cardinality(Pieces)
<1> USE DEF ExclusionInv, ServersTypeOK
<1>0. /\ p # Nobody /\ pc[p] \in Inside /\ N \in Nat
      /\ IsFiniteSet(job[p].todo) /\ Cardinality(job[p].todo) \in Nat
      /\ job[p].now \subseteq job[p].todo /\ pc[p] # "dead"
      /\ job[p].running => pc[p] = "setup"
  BY LeftType, FS_CardinalityType, ProvisioningAssumption DEF HeldInv, HolderInv, WaitInv, TodoInv, Inside
<1>1. pc \in [Procs -> PC] /\ job \in [Procs -> Jobs]
  BY DEF TypeOK
<1>2. CASE Acquire(p)
  BY <1>0, <1>2 DEF Acquire
<1>3. CASE AlreadyPinned(p) \/ Clone(p) \/ Advance(p)
  <2>1. pc[p] = "sync" /\ pc'[p] = "check"
    BY <1>0, <1>1, <1>3 DEF AlreadyPinned, Clone, Advance, Synced, Raises, Release
  <2> QED
    BY <1>0, <2>1 DEF Left
<1>4. CASE Check(p)
  <2>1. /\ pc[p] = "check" /\ pc'[p] = "setup"
        /\ job'[p] = [running |-> TRUE, todo |-> Pieces, now |-> {}]
    BY <1>0, <1>1, <1>4 DEF Check, Returns, Release, JobAt
  <2>2. job'[p].todo = Pieces /\ job'[p].now = {}
    BY <2>1
  <2>3. Left(p) = 2 * N + 3 /\ Left(p)' = 2 * N + 2
    BY <2>1, <2>2 DEF Left
  <2> QED
    BY <1>0, <2>3
<1>5. CASE Verify(p)
  BY <1>0, <1>5 DEF Verify, Returns, Raises, Release
<1>6. CASE SetupEnds(p)
  <2>1. pc[p] = "setup" /\ pc'[p] = "verify" /\ job[p].now = {}
    BY <1>0, <1>1, <1>6 DEF SetupEnds
  <2>2. Left(p) = 2 * Cardinality(job[p].todo) + 2 /\ Left(p)' = 1
    BY <2>1 DEF Left
  <2> QED
    BY <1>0, <2>2
<1>7. CASE SetupFails(p) \/ Interrupt(p) \/ Kill(p)
  BY <1>0, <1>7 DEF SetupFails, Interrupt, Kill, Raises, Release
<1>8. ASSUME NEW c \in Pieces, SetupSkips(p, c) \/ SetupBegins(p, c) \/ SetupFinishes(p, c)
      PROVE  Left(p)' < Left(p)
  <2>1. UNCHANGED pc /\ c \in job[p].todo /\ job[p].running
    BY <1>0, <1>8 DEF SetupSkips, SetupBegins, SetupFinishes, tree
  <2>2. \/ /\ job'[p].todo = job[p].todo \ {c} /\ job'[p].now = {}
        \/ /\ job'[p].todo = job[p].todo /\ job[p].now = {} /\ job'[p].now = {c}
    BY <1>1, <1>8 DEF SetupSkips, SetupBegins, SetupFinishes, JobAt
  <2>3. Cardinality(job[p].todo \ {c}) = Cardinality(job[p].todo) - 1
    BY <1>0, <2>1, OneDone
  <2> DEFINE n == Cardinality(job[p].todo)
  <2>4. pc[p] = "setup" /\ pc'[p] = "setup"
    BY <1>0, <2>1
  <2>5. Left(p) \in {2 * n + 1, 2 * n + 2} /\ (job[p].now = {} => Left(p) = 2 * n + 2)
    BY <2>4 DEF Left
  <2>6. CASE job'[p].todo = job[p].todo \ {c} /\ job'[p].now = {}
    <3>1. Left(p)' = 2 * (n - 1) + 2
      BY <2>3, <2>4, <2>6 DEF Left
    <3> QED
      BY <1>0, <2>5, <3>1
  <2>7. CASE job'[p].todo = job[p].todo /\ job[p].now = {} /\ job'[p].now = {c}
    <3>1. Left(p)' = 2 * n + 1
      BY <2>4, <2>7 DEF Left
    <3> QED
      BY <1>0, <2>5, <2>7, <3>1
  <2> QED
    BY <2>2, <2>6, <2>7
<1> QED
  BY <1>2, <1>3, <1>4, <1>5, <1>6, <1>7, <1>8 DEF Ensure, Setup, Faults

\* What the call of one process does to those of the others.
LEMMA StepsElsewhere ==
  ASSUME TypeOK, NEW q \in Procs, NEW p \in Procs, p # q, Provision(q)
  PROVE  pc'[p] = pc[p] /\ job'[p] = job[p]
<1>1. CASE Ensure(q)
  BY <1>1 DEF TypeOK, Ensure, Acquire, Clone, Advance, AlreadyPinned, Check, Verify,
              Synced, Returns, Raises, JobAt
<1>2. CASE Setup(q)
  BY <1>2 DEF TypeOK, Setup, SetupSkips, SetupBegins, SetupFinishes, SetupEnds, JobAt, tree
<1>3. CASE Faults(q)
  BY <1>3 DEF TypeOK, Faults, SetupFails, Interrupt, Kill, Raises
<1> QED
  BY <1>1, <1>2, <1>3 DEF Provision

LEMMA HolderClose ==
  ASSUME IsFiniteSet(Pieces), ExclusionInv, HeldInv
  PROVE  HolderIsNear
BY LeftType DEF HolderIsNear, HeldInv, HolderInv, ExclusionInv, ServersTypeOK, TypeOK

LEMMA HolderStep ==
  ASSUME IsFiniteSet(Pieces), ExclusionInv, HeldInv, [Next]_vars
  PROVE  HolderAdvances
<1> SUFFICES ASSUME NEW p \in Procs, lock = p, lock' = p
             PROVE  /\ UNCHANGED <<pc[p], job[p]>> \/ Left(p)' < Left(p)
                    /\ Ensure(p) \/ Setup(p) => Left(p)' < Left(p)
  BY DEF HolderAdvances
<1>1. p # Nobody /\ pc[p] \in Inside /\ Left(p) \in Nat
  BY ProvisioningAssumption, LeftType DEF HeldInv, HolderInv
<1>2. Ensure(p) \/ Setup(p) \/ Faults(p) => Left(p)' < Left(p)
  BY <1>1, OwnStep
<1>3. ASSUME NEW q \in Procs, q # p, Provision(q)
      PROVE  pc'[p] = pc[p] /\ job'[p] = job[p]
  BY <1>3, StepsElsewhere DEF ExclusionInv, ServersTypeOK
<1>4. ASSUME NEW q \in Procs, Benchmark(q) \/ AbortLaunch(q) \/ Servers(q)
      PROVE  pc'[p] = pc[p] /\ job'[p] = job[p]
  <2>1. UNCHANGED job
    BY <1>4, BenchmarkCalls
  <2>2. pc'[p] = pc[p]
    <3>1. CASE UNCHANGED pc
      BY <3>1
    <3>2. ASSUME NEW to, pc[q] \notin Inside, pc' = [pc EXCEPT ![q] = to]
          PROVE  pc'[p] = pc[p]
      BY <1>1, <3>2 DEF ExclusionInv, ServersTypeOK, TypeOK
    <3> QED
      BY <1>4, <3>1, <3>2, BenchmarkCalls
  <2> QED
    BY <2>1, <2>2
<1>5. (UNCHANGED <<pc[p], job[p]>>) \/ Ensure(p) \/ Setup(p) \/ Faults(p)
  <2>1. CASE UNCHANGED vars
    BY <2>1 DEF vars, l1
  <2> QED
    BY <1>3, <1>4, <2>1 DEF Next, Provision
<1> QED
  BY <1>2, <1>5

\* Nobody waits for a lock that will not come back: whoever holds it is alive,
\* inside ensure_provisioned and can move, or waits for a setup.sh that can; each
\* of its steps brings it nearer to letting go, no step takes it further away, and
\* it is never more than two steps for each piece and four away, whatever fails,
\* is killed or is launched meanwhile.  That the steps are taken is the fairness of LaunchReturns.
THEOREM LockComesBack ==
  ASSUME IsFiniteSet(Pieces)
  PROVE  Spec => [](HolderCanMove /\ HolderIsNear) /\ [][HolderAdvances]_vars
<1>1. ServersInit => HeldInv
  BY DEF ServersInit, Init, HeldInv, HolderInv, WaitInv, TodoInv, NoJob
<1>2. ExclusionInv /\ HeldInv /\ [Next]_vars => HeldInv'
  BY HeldStep
<1>3. ExclusionInv /\ HeldInv => HolderCanMove /\ HolderIsNear
  BY HolderReady, HolderClose
<1>4. ExclusionInv /\ HeldInv /\ [Next]_vars => HolderAdvances
  BY HolderStep
<1> QED
  BY <1>1, <1>2, <1>3, <1>4, Exclusion, PTL DEF Spec
=============================================================================
