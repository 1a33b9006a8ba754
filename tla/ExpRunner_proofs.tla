-------------------------- MODULE ExpRunner_proofs --------------------------
(***************************************************************************)
(* Theorems about ExpRunner, for every value of its constants.             *)
(***************************************************************************)
EXTENDS ExpRunner, FiniteSetTheorems, WellFoundedInduction, TLAPS

USE DEF Absent, InFlightStatuses, TerminalStatuses, RetriableStatuses,
        FinishedStatuses, Status

\* The assumptions on the numeric constants, one by one.
LEMMA Bounds ==
  /\ NCpus \in Nat /\ MaxRetries \in Nat /\ MaxRetryRounds \in Nat
  /\ TaskRetries \in Nat /\ MaxLaunches \in Nat /\ MaxAge \in Nat
  /\ LaunchModes \subseteq BOOLEAN
  /\ 0 \in 0..MaxRetryRounds /\ 0 \in 0..TaskRetries /\ 0 \in 0..MaxLaunches
  /\ 0 \in 0..MaxAge /\ 0 \in 0..NotIdle /\ NotIdle \in 0..NotIdle
  BY BoundsAssumption, LimitsAssumption DEF NotIdle

-----------------------------------------------------------------------------
\* Facts about the pure decisions.

\* A retry count computed from a status file is a natural number.
LEMMA NextRetryCountNat ==
  ASSUME NEW st \in Status \cup {Absent}, NEW n \in Nat
  PROVE  NextRetryCount(st, n) \in {0, n, n + 1}
  BY DEF NextRetryCount

\* A sweep only ever turns in-flight statuses into STALE.
LEMMA SweepSpares ==
  ASSUME NEW e \in Episodes, NEW fr
  PROVE  /\ Swept(e, fr) => status[e] \in InFlightStatuses
         /\ StatusAfterSweep(fr)[e] \in {status[e], "STALE"}
         /\ status[e] \notin InFlightStatuses => StatusAfterSweep(fr)[e] = status[e]
  BY DEF StatusAfterSweep, Swept, ShouldSweep

-----------------------------------------------------------------------------
\* Type correctness.

LEMMA InitTypeOK == Init => TypeOK
<1> SUFFICES ASSUME Init PROVE TypeOK
  OBVIOUS
<1>1. /\ status \in [Episodes -> Status \cup {Absent}]
      /\ retry \in [Episodes -> Nat] /\ age \in [Episodes -> 0..MaxAge]
      /\ wretry \in [Episodes -> Nat] /\ tries \in [Episodes -> 0..TaskRetries]
  BY Bounds DEF Init
<1>2. /\ fresh \in [Episodes -> BOOLEAN] /\ meta \in [Episodes -> BOOLEAN]
      /\ config \in [Episodes -> BOOLEAN] /\ overwrite \in [Episodes -> BOOLEAN]
      /\ cancelled \in [Episodes -> BOOLEAN]
      /\ task \in [Episodes -> TaskState] /\ wpc \in [Episodes -> WorkerPC]
  BY DEF Init, TaskState, WorkerPC
<1>3. /\ launches \in 0..MaxLaunches /\ roundNum \in 0..MaxRetryRounds
      /\ idleFor \in 0..NotIdle /\ held \in Nat
  BY Bounds DEF Init
<1> QED BY <1>1, <1>2, <1>3 DEF Init, TypeOK, DriverPC

LEMMA StepTypeOK == TypeOK /\ [Next]_vars => TypeOK'
<1> SUFFICES ASSUME TypeOK, [Next]_vars PROVE TypeOK'
  OBVIOUS
<1> USE Bounds
<1> USE DEF TypeOK, DriverPC, TaskState, WorkerPC, vars, disk, driver,
            session, batch, hand, results, ray, history
<1>1. CASE \E mode \in LaunchModes : Launch(mode)
  BY <1>1 DEF Launch
<1>2. CASE StartRound
  <2>1. fresh' \in [Episodes -> BOOLEAN] /\ status' \in [Episodes -> Status \cup {Absent}]
    <3>1. CASE FromScratch
      BY <3>1 DEF FromScratch, NoneFresh
    <3>2. CASE FromStatuses
      BY <3>2 DEF FromStatuses, NoneFresh, Sweep, StatusAfterSweep
    <3> QED BY <1>2, <3>1, <3>2 DEF StartRound
  <2>2. age' \in [Episodes -> 0..MaxAge] /\ replanned' \in BOOLEAN
    <3>1. CASE FromScratch
      BY <3>1 DEF FromScratch
    <3>2. CASE FromStatuses
      BY <3>2 DEF FromStatuses, Sweep
    <3> QED BY <1>2, <3>1, <3>2 DEF StartRound
  <2>3. /\ todo' \in SUBSET Episodes /\ overwrite' \in [Episodes -> BOOLEAN]
        /\ pc' \in {"plan", "claim"}
    BY <1>2 DEF StartRound, FromScratch, FromStatuses
  <2> QED BY <1>2, <2>1, <2>2, <2>3 DEF StartRound
<1>32. ASSUME NEW e \in Episodes, SavesConfig(e) PROVE TypeOK'
  BY <1>32 DEF SavesConfig
<1>33. CASE Planned
  BY <1>33 DEF Planned
<1>3. ASSUME NEW e \in Episodes, PreClaim(e) PROVE TypeOK'
  <2>1. NextRetryCount(status[e], retry[e]) \in Nat
    BY NextRetryCountNat
  <2> QED BY <1>3, <2>1 DEF PreClaim, WriteStatus
<1>4. ASSUME NEW e \in Episodes, ArchiveRename(e) PROVE TypeOK'
  <2>1. NextRetryCount(status[e], retry[e]) \in Nat
    BY NextRetryCountNat
  <2> QED BY <1>4, <2>1 DEF ArchiveRename, RenameAway
<1>5. CASE ArchiveRestore
  BY <1>5 DEF ArchiveRestore
<1>6. CASE ArchivedClaim
  BY <1>6 DEF ArchivedClaim, WriteStatus
<1>7. CASE Submit
  BY <1>7 DEF Submit
<1>8. CASE Poll
  BY <1>8 DEF Poll
<1>9. ASSUME NEW e \in Episodes, ScanSkip(e) PROVE TypeOK'
  BY <1>9 DEF ScanSkip
<1>10. ASSUME NEW e \in Episodes, ScanCancel(e) PROVE TypeOK'
  BY <1>10 DEF ScanCancel, CancelRef, Orphaned, Stalled
<1>11. CASE ReReadChanged
  BY <1>11 DEF ReReadChanged, DropRef
<1>12. CASE ReReadSame
  BY <1>12 DEF ReReadSame
<1>13. CASE StampCancelled
  BY <1>13 DEF StampCancelled, WriteStatus, DropRef
<1>14. CASE ScanDone
  BY <1>14 DEF ScanDone
<1>15. CASE PollDone
  BY <1>15 DEF PollDone
<1>16. CASE Shutdown
  BY <1>16 DEF Shutdown, RayGone, LocalsGone
<1>17. CASE EndSweep
  BY <1>17 DEF EndSweep, Sweep, StatusAfterSweep
<1>18. CASE Decide
  <2>1. pc' \in DriverPC /\ pc' \notin {"renamed", "restored", "cancel", "stamp"}
    BY <1>18 DEF Decide, FailsAfterRound
  <2>2. /\ trajs' \in SUBSET Episodes /\ fails' \in SUBSET Episodes
        /\ roundTrajs' \in SUBSET Episodes /\ roundFails' \in SUBSET Episodes
    BY <1>18 DEF Decide, FailsAfterRound
  <2>3. roundNum' \in 0..MaxRetryRounds
    BY <1>18 DEF Decide, FailsAfterRound
  <2>4. resume' \in BOOLEAN /\ outcome' \in {"none", "returned", "aborted"}
    BY <1>18 DEF Decide, FailsAfterRound
  <2> QED BY <1>18, <2>1, <2>2, <2>3, <2>4 DEF Decide, FailsAfterRound
<1>19. CASE Interrupt
  BY <1>19 DEF Interrupt
<1>20. CASE Crash
  BY <1>20 DEF Crash, RayGone, LocalsGone
<1>21. ASSUME NEW e \in Episodes, RayStep(e) PROVE TypeOK'
  <2>1. CASE TaskStarts(e)
    <3>1. NextRetryCount(status[e], retry[e]) \in Nat
      BY NextRetryCountNat
    <3> QED BY <2>1, <3>1 DEF TaskStarts
  <2>2. CASE WorkerDies(e)
    BY <2>2 DEF WorkerDies
  <2>3. CASE TaskKilled(e)
    BY <2>3 DEF TaskKilled
  <2> QED BY <1>21, <2>1, <2>2, <2>3 DEF RayStep
<1>22. ASSUME NEW e \in Episodes, WorkerStep(e) PROVE TypeOK'
  <2>1. CASE WorkerArchives(e)
    BY <2>1 DEF WorkerArchives, RenameAway
  <2>6. CASE OpenFails(e)
    BY <2>6 DEF OpenFails
  <2>2. CASE WorkerOpens(e)
    BY <2>2 DEF WorkerOpens, WriteStatus
  <2>3. CASE SavesMetadata(e)
    BY <2>3 DEF SavesMetadata
  <2>7. CASE ArchivesLeftover(e)
    BY <2>7 DEF ArchivesLeftover, RenameAway
  <2>8. CASE WorkerRestores(e)
    BY <2>8 DEF WorkerRestores
  <2>4. ASSUME NEW st \in Outcome, Concludes(e, st) PROVE TypeOK'
    <3>1. /\ status' \in [Episodes -> Status \cup {Absent}]
          /\ retry' \in [Episodes -> Nat] /\ age' \in [Episodes -> 0..MaxAge]
          /\ fresh' \in [Episodes -> BOOLEAN] /\ finishedOnce' \in SUBSET Episodes
          /\ unwritten' \in SUBSET Episodes
      <4>1. CASE WriteStatus(e, st, wretry[e]) /\ UNCHANGED unwritten
        BY <2>4, <4>1 DEF WriteStatus, Outcome
      <4>2. CASE /\ unwritten' = unwritten \cup {e}
                 /\ UNCHANGED <<status, retry, age, fresh, finishedOnce>>
        BY <4>2
      <4> QED BY <2>4, <4>1, <4>2 DEF Concludes
    <3>2. wpc' \in [Episodes -> WorkerPC]
      BY <2>4 DEF Concludes
    <3>3. UNCHANGED <<meta, config, driver, task, tries, cancelled, wretry, redone, replanned>>
      BY <2>4 DEF Concludes
    <3> HIDE <2>4
    <3> QED BY <3>1, <3>2, <3>3
  <2>5. CASE Returns(e)
    BY <2>5 DEF Returns
  <2> QED BY <1>22, <2>1, <2>2, <2>3, <2>4, <2>5, <2>6, <2>7, <2>8 DEF WorkerStep
<1>23. CASE TimePasses
  BY <1>23 DEF TimePasses, NotIdle
<1>24. CASE UNCHANGED vars
  BY <1>24
<1> QED
  BY <1>1, <1>2, <1>3, <1>4, <1>5, <1>6, <1>7, <1>8, <1>9, <1>10, <1>11, <1>12,
     <1>13, <1>14, <1>15, <1>16, <1>17, <1>18, <1>19, <1>20, <1>21, <1>22, <1>23,
     <1>24, <1>32, <1>33 DEF Next, DriverStep

\* Every reachable state is well typed.
THEOREM TypeCorrect == Spec => []TypeOK
  BY InitTypeOK, StepTypeOK, PTL DEF Spec

-----------------------------------------------------------------------------
\* The driver's bookkeeping.

LEMMA InitDriverInv == Init => DriverInv
  BY DEF Init, DriverInv, TasksInv, BatchInv

LEMMA StepDriverInv == TypeOK /\ DriverInv /\ [Next]_vars => DriverInv'
<1> SUFFICES ASSUME TypeOK, DriverInv, [Next]_vars PROVE DriverInv'
  OBVIOUS
<1> USE DEF TypeOK, DriverInv, TasksInv, BatchInv, vars, disk, driver, session,
            batch, hand, results, ray, history
<1>1. CASE \E mode \in LaunchModes : Launch(mode)
  BY <1>1 DEF Launch
<1>2. CASE StartRound
  BY <1>2 DEF StartRound, FromScratch, FromStatuses
<1>32. ASSUME NEW e \in Episodes, SavesConfig(e) PROVE DriverInv'
  BY <1>32 DEF SavesConfig
<1>33. CASE Planned
  BY <1>33 DEF Planned
<1>3. ASSUME NEW e \in Episodes, PreClaim(e) PROVE DriverInv'
  BY <1>3 DEF PreClaim, WriteStatus
<1>4. ASSUME NEW e \in Episodes, ArchiveRename(e) PROVE DriverInv'
  BY <1>4 DEF ArchiveRename, RenameAway
<1>5. CASE ArchiveRestore
  BY <1>5 DEF ArchiveRestore
<1>6. CASE ArchivedClaim
  BY <1>6 DEF ArchivedClaim, WriteStatus
<1>7. CASE Submit
  BY <1>7 DEF Submit
<1>8. CASE Poll
  BY <1>8 DEF Poll
<1>9. ASSUME NEW e \in Episodes, ScanSkip(e) PROVE DriverInv'
  BY <1>9 DEF ScanSkip
<1>10. ASSUME NEW e \in Episodes, ScanCancel(e) PROVE DriverInv'
  BY <1>10 DEF ScanCancel, CancelRef
<1>11. CASE ReReadChanged
  BY <1>11 DEF ReReadChanged, DropRef
<1>12. CASE ReReadSame
  BY <1>12 DEF ReReadSame
<1>13. CASE StampCancelled
  BY <1>13 DEF StampCancelled, WriteStatus, DropRef
<1>14. CASE ScanDone
  BY <1>14 DEF ScanDone
<1>15. CASE PollDone
  BY <1>15 DEF PollDone
<1>16. CASE Shutdown
  BY <1>16 DEF Shutdown, RayGone, LocalsGone
<1>17. CASE EndSweep
  BY <1>17 DEF EndSweep, Sweep
<1>18. CASE Decide
  BY <1>18 DEF Decide, FailsAfterRound
<1>19. CASE Interrupt
  BY <1>19 DEF Interrupt
<1>20. CASE Crash
  BY <1>20 DEF Crash, RayGone, LocalsGone
<1>21. ASSUME NEW e \in Episodes, TaskStarts(e) PROVE DriverInv'
  BY <1>21 DEF TaskStarts
<1>22. ASSUME NEW e \in Episodes, WorkerDies(e) PROVE DriverInv'
  BY <1>22 DEF WorkerDies
<1>23. ASSUME NEW e \in Episodes, TaskKilled(e) PROVE DriverInv'
  BY <1>23 DEF TaskKilled
<1>24. ASSUME NEW e \in Episodes, WorkerArchives(e) PROVE DriverInv'
  BY <1>24 DEF WorkerArchives, RenameAway
<1>34. ASSUME NEW e \in Episodes, WorkerRestores(e) PROVE DriverInv'
  BY <1>34 DEF WorkerRestores
<1>35. ASSUME NEW e \in Episodes, ArchivesLeftover(e) PROVE DriverInv'
  BY <1>35 DEF ArchivesLeftover, RenameAway
<1>25. ASSUME NEW e \in Episodes, WorkerOpens(e) PROVE DriverInv'
  BY <1>25 DEF WorkerOpens, WriteStatus
<1>26. ASSUME NEW e \in Episodes, SavesMetadata(e) PROVE DriverInv'
  BY <1>26 DEF SavesMetadata
<1>27. ASSUME NEW e \in Episodes, \E st \in Outcome : Concludes(e, st) PROVE DriverInv'
  BY <1>27 DEF Concludes, WriteStatus, Outcome
<1>28. ASSUME NEW e \in Episodes, Returns(e) PROVE DriverInv'
  BY <1>28 DEF Returns
<1>29. CASE TimePasses
  BY <1>29 DEF TimePasses
<1>30. ASSUME NEW e \in Episodes, OpenFails(e) PROVE DriverInv'
  BY <1>30 DEF OpenFails
<1>31. CASE UNCHANGED vars
  BY <1>31
<1> QED
  BY <1>1, <1>2, <1>3, <1>4, <1>5, <1>6, <1>7, <1>8, <1>9, <1>10, <1>11, <1>12, <1>13,
       <1>14, <1>15, <1>16, <1>17, <1>18, <1>19, <1>20, <1>21, <1>22, <1>23, <1>24, <1>25,
       <1>26, <1>27, <1>28, <1>29, <1>30, <1>31, <1>32, <1>33, <1>34, <1>35
     DEF Next, DriverStep, RayStep, WorkerStep

-----------------------------------------------------------------------------
\* Reported results.

LEMMA InitReportInv == Init => ReportInv
  BY DEF Init, ReportInv, DisjointInv, ReportedInv, DeliveryInv, ResultsDisjoint,
         TrajectoriesFinished

LEMMA StepReportInv ==
  ASSUME TypeOK, DriverInv, ReportInv, [Next]_vars
  PROVE  ReportInv'
<1> USE DEF TypeOK, DriverInv, TasksInv, BatchInv, ReportInv, DisjointInv,
            ReportedInv, DeliveryInv, ResultsDisjoint, TrajectoriesFinished, vars, disk, driver,
            session, batch, hand, results, ray, history
<1>1. CASE \E mode \in LaunchModes : Launch(mode)
  BY <1>1 DEF Launch
<1>2. CASE StartRound
  <2>1. /\ roundTrajs' = {} /\ roundFails' = {} /\ refs' = todo'
        /\ UNCHANGED <<trajs, fails, task, wpc, config, resume, scan, unwritten>>
    BY <1>2 DEF StartRound
  <2>2. \A e \in trajs \ unwritten : status'[e] = status[e] /\ e \notin todo'
    <3>1. CASE FromScratch
      BY <1>2, <3>1 DEF StartRound, FromScratch
    <3>2. CASE FromStatuses
      <4> SUFFICES ASSUME NEW e \in trajs \ unwritten
                   PROVE  status'[e] = status[e] /\ e \notin todo'
        OBVIOUS
      <4>1. status'[e] = status[e]
        BY <3>2, SweepSpares DEF FromStatuses, Sweep
      <4>2. e \notin todo'
        BY <3>2, <4>1 DEF FromStatuses, ShouldRelaunch
      <4> QED BY <4>1, <4>2
    <3> QED BY <1>2, <3>1, <3>2 DEF StartRound
  <2>3. pc' = "plan" => trajs \subseteq unwritten
    <3>1. pc' = "plan" => FromScratch
      BY <1>2 DEF StartRound, FromStatuses
    <3>2. trajs # {} => resume
      BY <1>2 DEF StartRound
    <3>3. \A e \in trajs \ unwritten : e \in Episodes /\ config[e]
      OBVIOUS
    <3> QED BY <3>1, <3>2, <3>3 DEF FromScratch
  <2>4. \A e \in Episodes : task[e] = "none" /\ wpc[e] = "none"
    BY <1>2 DEF StartRound
  <2>5. todo' \subseteq Episodes /\ scan = {} /\ pc # "down"
    BY <1>2 DEF StartRound, FromScratch, FromStatuses
  <2>6. DisjointInv'
    BY <2>1, <2>2, <2>3, <2>4, <2>5
  <2>7. ReportedInv'
    <3>1. trajs # {} => resume
      BY <1>2 DEF StartRound
    <3>2. /\ trajs' = trajs /\ roundTrajs' = {} /\ task' = task /\ resume' = resume
          /\ unwritten' = unwritten /\ config' = config
      BY <2>1
    <3>3. TrajectoriesFinished'
      BY <2>2, <3>2
    <3>4. \A e \in trajs \ unwritten : config[e]
      OBVIOUS
    <3> QED BY <2>4, <3>1, <3>2, <3>3, <3>4
  <2>8. DeliveryInv'
    BY <2>1, <2>4, <2>5
  <2> QED BY <2>6, <2>7, <2>8
<1>32. ASSUME NEW e \in Episodes, SavesConfig(e) PROVE ReportInv'
  BY <1>32 DEF SavesConfig
<1>33. CASE Planned
  BY <1>33 DEF Planned
<1>3. ASSUME NEW e \in Episodes, PreClaim(e) PROVE ReportInv'
  BY <1>3 DEF PreClaim, WriteStatus
<1>4. ASSUME NEW e \in Episodes, ArchiveRename(e) PROVE ReportInv'
  BY <1>4 DEF ArchiveRename, RenameAway
<1>5. CASE ArchiveRestore
  BY <1>5 DEF ArchiveRestore
<1>6. CASE ArchivedClaim
  BY <1>6 DEF ArchivedClaim, WriteStatus
<1>7. CASE Submit
  BY <1>7 DEF Submit
<1>8. CASE Poll
  BY <1>8 DEF Poll
<1>9. ASSUME NEW e \in Episodes, ScanSkip(e) PROVE ReportInv'
  BY <1>9 DEF ScanSkip
<1>10. ASSUME NEW e \in Episodes, ScanCancel(e) PROVE ReportInv'
  BY <1>10 DEF ScanCancel, CancelRef
<1>11. CASE ReReadChanged
  BY <1>11 DEF ReReadChanged, DropRef
<1>12. CASE ReReadSame
  BY <1>12 DEF ReReadSame
<1>13. CASE StampCancelled
  BY <1>13 DEF StampCancelled, WriteStatus, DropRef
<1>14. CASE ScanDone
  BY <1>14 DEF ScanDone
<1>15. CASE PollDone
  BY <1>15 DEF PollDone
<1>16. CASE Shutdown
  BY <1>16 DEF Shutdown, RayGone, LocalsGone
<1>17. CASE EndSweep
  <2>1. \A e \in (trajs \cup roundTrajs) \ unwritten : status'[e] = status[e]
    BY <1>17, SweepSpares DEF EndSweep, Sweep
  <2> QED BY <1>17, <2>1 DEF EndSweep
<1>18. CASE Decide
  BY <1>18 DEF Decide, FailsAfterRound
<1>19. CASE Interrupt
  BY <1>19 DEF Interrupt
<1>20. CASE Crash
  BY <1>20 DEF Crash, RayGone, LocalsGone
<1>21. ASSUME NEW e \in Episodes, TaskStarts(e) PROVE ReportInv'
  BY <1>21 DEF TaskStarts
<1>22. ASSUME NEW e \in Episodes, WorkerDies(e) PROVE ReportInv'
  BY <1>22 DEF WorkerDies
<1>23. ASSUME NEW e \in Episodes, TaskKilled(e) PROVE ReportInv'
  BY <1>23 DEF TaskKilled
<1>24. ASSUME NEW e \in Episodes, WorkerArchives(e) PROVE ReportInv'
  BY <1>24 DEF WorkerArchives, RenameAway
<1>34. ASSUME NEW e \in Episodes, WorkerRestores(e) PROVE ReportInv'
  BY <1>34 DEF WorkerRestores
<1>35. ASSUME NEW e \in Episodes, ArchivesLeftover(e) PROVE ReportInv'
  BY <1>35 DEF ArchivesLeftover, RenameAway
<1>25. ASSUME NEW e \in Episodes, WorkerOpens(e) PROVE ReportInv'
  BY <1>25 DEF WorkerOpens, WriteStatus
<1>26. ASSUME NEW e \in Episodes, SavesMetadata(e) PROVE ReportInv'
  BY <1>26 DEF SavesMetadata
<1>27. ASSUME NEW e \in Episodes, \E st \in Outcome : Concludes(e, st) PROVE ReportInv'
  BY <1>27 DEF Concludes, WriteStatus, Outcome
<1>28. ASSUME NEW e \in Episodes, Returns(e) PROVE ReportInv'
  BY <1>28 DEF Returns
<1>29. CASE TimePasses
  BY <1>29 DEF TimePasses
<1>30. ASSUME NEW e \in Episodes, OpenFails(e) PROVE ReportInv'
  BY <1>30 DEF OpenFails
<1>31. CASE UNCHANGED vars
  BY <1>31
<1> QED
  BY <1>1, <1>2, <1>3, <1>4, <1>5, <1>6, <1>7, <1>8, <1>9, <1>10, <1>11, <1>12, <1>13,
       <1>14, <1>15, <1>16, <1>17, <1>18, <1>19, <1>20, <1>21, <1>22, <1>23, <1>24, <1>25,
       <1>26, <1>27, <1>28, <1>29, <1>30, <1>31, <1>32, <1>33, <1>34, <1>35
     DEF Next, DriverStep, RayStep, WorkerStep

\* What a launch reports is true: a reported trajectory is finished on disk and
\* stays so, unless a worker of that episode could not write its last status.
\* No clock, cancellation race, worker death, retry round, interrupt or crash is
\* assumed away.
THEOREM ReportedTrajectoriesFinished == Spec => []TrajectoriesFinished
<1>1. TypeOK /\ DriverInv /\ ReportInv /\ [Next]_vars => ReportInv'
  BY StepReportInv
<1>2. ReportInv => TrajectoriesFinished
  BY DEF ReportInv, ReportedInv
<1> QED
  BY <1>1, <1>2, InitTypeOK, StepTypeOK, InitDriverInv, StepDriverInv,
     InitReportInv, PTL DEF Spec

\* No round reports an episode both as a trajectory and as a failure, and neither
\* does the launch, except where a worker of that episode could not write its last
\* status.
THEOREM ReportedOnce == Spec => []ResultsDisjoint
<1>1. TypeOK /\ DriverInv /\ ReportInv /\ [Next]_vars => ReportInv'
  BY StepReportInv
<1>2. ReportInv => ResultsDisjoint
  BY DEF ReportInv, DisjointInv
<1> QED
  BY <1>1, <1>2, InitTypeOK, StepTypeOK, InitDriverInv, StepDriverInv,
     InitReportInv, PTL DEF Spec

-----------------------------------------------------------------------------
\* Retry budgets.

LEMMA InitRetryInv == Init => RetryInv
  BY Bounds DEF Init, RetryInv, RetryBound

LEMMA StepRetryInv ==
  ASSUME TypeOK, DriverInv, RetryInv, [Next]_vars
  PROVE  RetryInv'
<1> USE Bounds
<1> USE DEF TypeOK, DriverInv, TasksInv, BatchInv, RetryInv, RetryBound,
            AttemptBound, vars, disk, driver, session, batch, hand, results, ray, history
<1>1. CASE \E mode \in LaunchModes : Launch(mode)
  BY <1>1 DEF Launch
<1>2. CASE StartRound
  <2>1. /\ refs' = todo' /\ pc' \in {"plan", "claim"}
        /\ UNCHANGED <<retry, task, tries, wpc, wretry>>
        /\ \A e \in Episodes : task[e] = "none" /\ wpc[e] = "none"
    BY <1>2 DEF StartRound, FromScratch, FromStatuses
  <2>2. CASE FromScratch
    <3>1. /\ pc' = "plan" /\ UNCHANGED status
          /\ ~replanned' => ~replanned /\ \A e \in Episodes : status[e] = Absent
      BY <2>2 DEF FromScratch
    <3> QED BY <2>1, <3>1
  <2>3. CASE FromStatuses
    <3>1. pc' = "claim" /\ replanned' = replanned
      BY <2>3 DEF FromStatuses
    <3>2. \A e \in todo' :
             status'[e] # Absent => /\ status'[e] \in TerminalStatuses
                                    /\ retry[e] < MaxRetries
      BY <2>3 DEF FromStatuses, ShouldRelaunch
    <3> QED BY <2>1, <3>1, <3>2
  <2> QED BY <1>2, <2>2, <2>3 DEF StartRound
<1>32. ASSUME NEW e \in Episodes, SavesConfig(e) PROVE RetryInv'
  BY <1>32 DEF SavesConfig
<1>33. CASE Planned
  BY <1>33 DEF Planned
<1>3. ASSUME NEW e \in Episodes, PreClaim(e) PROVE RetryInv'
  <2>1. e \in refs /\ (~replanned => status[e] = Absent)
    BY <1>3 DEF PreClaim
  <2>2. ~replanned => NextRetryCount(status[e], retry[e]) = 0
    BY <2>1 DEF NextRetryCount
  <2> QED BY <1>3, <2>1, <2>2 DEF PreClaim, WriteStatus
<1>4. ASSUME NEW e \in Episodes, ArchiveRename(e) PROVE RetryInv'
  BY <1>4 DEF ArchiveRename, RenameAway, NextRetryCount
<1>5. CASE ArchiveRestore
  BY <1>5 DEF ArchiveRestore
<1>6. CASE ArchivedClaim
  <2>1. cur \in refs /\ config[cur]
    BY <1>6 DEF ArchivedClaim
  <2> QED BY <1>6, <2>1 DEF ArchivedClaim, WriteStatus
<1>7. CASE Submit
  BY <1>7 DEF Submit
<1>8. CASE Poll
  BY <1>8 DEF Poll
<1>9. ASSUME NEW e \in Episodes, ScanSkip(e) PROVE RetryInv'
  BY <1>9 DEF ScanSkip
<1>10. ASSUME NEW e \in Episodes, ScanCancel(e) PROVE RetryInv'
  BY <1>10 DEF ScanCancel, CancelRef
<1>11. CASE ReReadChanged
  BY <1>11 DEF ReReadChanged, DropRef
<1>12. CASE ReReadSame
  BY <1>12 DEF ReReadSame
<1>13. CASE StampCancelled
  BY <1>13 DEF StampCancelled, WriteStatus, DropRef
<1>14. CASE ScanDone
  BY <1>14 DEF ScanDone
<1>15. CASE PollDone
  BY <1>15 DEF PollDone
<1>16. CASE Shutdown
  BY <1>16 DEF Shutdown, RayGone, LocalsGone
<1>17. CASE EndSweep
  BY <1>17 DEF EndSweep
<1>18. CASE Decide
  BY <1>18 DEF Decide, FailsAfterRound
<1>19. CASE Interrupt
  BY <1>19 DEF Interrupt
<1>20. CASE Crash
  BY <1>20 DEF Crash, RayGone, LocalsGone
<1>21. ASSUME NEW e \in Episodes, TaskStarts(e) PROVE RetryInv'
  BY <1>21 DEF TaskStarts, NextRetryCount
<1>22. ASSUME NEW e \in Episodes, WorkerDies(e) PROVE RetryInv'
  BY <1>22 DEF WorkerDies
<1>23. ASSUME NEW e \in Episodes, TaskKilled(e) PROVE RetryInv'
  BY <1>23 DEF TaskKilled
<1>24. ASSUME NEW e \in Episodes, WorkerArchives(e) PROVE RetryInv'
  BY <1>24 DEF WorkerArchives, RenameAway
<1>34. ASSUME NEW e \in Episodes, WorkerRestores(e) PROVE RetryInv'
  BY <1>34 DEF WorkerRestores
<1>35. ASSUME NEW e \in Episodes, ArchivesLeftover(e) PROVE RetryInv'
  BY <1>35 DEF ArchivesLeftover, RenameAway
<1>25. ASSUME NEW e \in Episodes, WorkerOpens(e) PROVE RetryInv'
  BY <1>25 DEF WorkerOpens, WriteStatus
<1>26. ASSUME NEW e \in Episodes, SavesMetadata(e) PROVE RetryInv'
  BY <1>26 DEF SavesMetadata
<1>27. ASSUME NEW e \in Episodes, \E st \in Outcome : Concludes(e, st) PROVE RetryInv'
  BY <1>27 DEF Concludes, WriteStatus, Outcome
<1>28. ASSUME NEW e \in Episodes, Returns(e) PROVE RetryInv'
  BY <1>28 DEF Returns
<1>29. CASE TimePasses
  BY <1>29 DEF TimePasses
<1>30. ASSUME NEW e \in Episodes, OpenFails(e) PROVE RetryInv'
  BY <1>30 DEF OpenFails
<1>31. CASE UNCHANGED vars
  BY <1>31
<1> QED
  BY <1>1, <1>2, <1>3, <1>4, <1>5, <1>6, <1>7, <1>8, <1>9, <1>10, <1>11, <1>12, <1>13,
       <1>14, <1>15, <1>16, <1>17, <1>18, <1>19, <1>20, <1>21, <1>22, <1>23, <1>24, <1>25,
       <1>26, <1>27, <1>28, <1>29, <1>30, <1>31, <1>32, <1>33, <1>34, <1>35
     DEF Next, DriverStep, RayStep, WorkerStep

\* retry_count exceeds max_retries by at most one for each execution of a task, in a
\* directory no plan from scratch was laid over.
THEOREM RetriesBounded == Spec => []RetryBound
<1>1. TypeOK /\ DriverInv /\ RetryInv /\ [Next]_vars => RetryInv'
  BY StepRetryInv
<1>2. RetryInv => RetryBound
  BY DEF RetryInv
<1> QED
  BY <1>1, <1>2, InitTypeOK, StepTypeOK, InitDriverInv, StepDriverInv,
     InitRetryInv, PTL DEF Spec

-----------------------------------------------------------------------------
\* How long the poll loop can go on.

\* How far a task is from its end, and the executions Ray may still start.
Place(e) ==
  IF task[e] = "pending" THEN 10
  ELSE IF task[e] # "running" THEN 0
  ELSE IF wpc[e] = "setup" THEN (IF meta[e] THEN 6 ELSE 4)
  ELSE CASE wpc[e] = "archiving"  -> 9
         [] wpc[e] = "archived"   -> 8
         [] wpc[e] = "opening"    -> 7
         [] wpc[e] = "rearchived" -> 5
         [] wpc[e] = "loop"       -> 3
         [] OTHER                 -> 2

WorkLeft(e) == 11 * (TaskRetries - tries[e]) + Place(e)

\* Sums over the episodes, as sets of units: the work of their tasks, and the ticks
\* until their heartbeats are as old as they get.
Units == Episodes \X (1 .. 11 * TaskRetries + 10)
Ticks == Episodes \X (1 .. MaxAge)
Work  == {u \in Units : u[2] <= WorkLeft(u[1])}
Young == {u \in Ticks : status[u[1]] \in InFlightStatuses /\ age[u[1]] < u[2]}

Verdict == CASE pc = "stamp" -> 0 [] pc = "cancel" -> 1 [] OTHER -> 2

IdleLeft ==
  IF ~HasIdleCapacity THEN NotIdle - idleFor
  ELSE IF idleFor = NotIdle THEN NotIdle ELSE MaxAge - idleFor

\* What the loop has before it, the weightiest first: refs to wait for, the steps of
\* a verdict on one, the work of the tasks, and time.
Rank == <<Cardinality(refs), Verdict, Cardinality(Work), IdleLeft, Cardinality(Young)>>

Ranks == [1 .. 5 -> Nat]
Smaller == {p \in Nat \X Nat : p[1] < p[2]}
Lower == LexProductOrdering(Smaller, Nat, 5)

\* No infinite descent: the rank is lowered finitely often.
LEMMA NoInfiniteDescent == IsWellFoundedOn(Lower, Ranks)
<1>1. Smaller = OpToRel(<, Nat)
  BY DEF Smaller, OpToRel
<1>2. IsWellFoundedOn(Smaller, Nat)
  BY <1>1, NatLessThanWellFounded, Zenon
<1> QED
  BY <1>2, WFLexProductOrdering, Zenon DEF Lower, Ranks

LEMMA FiniteUnits ==
  /\ IsFiniteSet(Units) /\ IsFiniteSet(Ticks)
  /\ 11 * TaskRetries + 10 \in Nat
<1>1. 1 \in Int /\ 11 * TaskRetries + 10 \in Nat /\ MaxAge \in Int
  BY Bounds
<1>2. IsFiniteSet(1 .. 11 * TaskRetries + 10) /\ IsFiniteSet(1 .. MaxAge)
  BY <1>1, FS_Interval
<1> QED
  BY <1>1, <1>2, EpisodesAssumption, FS_Product DEF Units, Ticks

WorkLeftInRange == \A e \in Episodes : WorkLeft(e) \in 0 .. 11 * TaskRetries + 10

LEMMA WorkLeftType == TypeOK => WorkLeftInRange
<1> SUFFICES ASSUME TypeOK, NEW e \in Episodes
             PROVE  WorkLeft(e) \in 0 .. 11 * TaskRetries + 10
  BY DEF WorkLeftInRange
<1>1. tries[e] \in 0 .. TaskRetries /\ TaskRetries \in Nat
  BY Bounds DEF TypeOK
<1>2. Place(e) \in 0 .. 10
  BY DEF Place
<1> QED
  BY <1>1, <1>2 DEF WorkLeft

LEMMA RankType == TypeOK => Rank \in Ranks
<1> SUFFICES ASSUME TypeOK PROVE Rank \in Ranks
  OBVIOUS
<1>1. IsFiniteSet(refs) /\ IsFiniteSet(Work) /\ IsFiniteSet(Young)
  BY FiniteUnits, EpisodesAssumption, FS_Subset DEF TypeOK, Work, Young
<1>2. Cardinality(refs) \in Nat /\ Cardinality(Work) \in Nat /\ Cardinality(Young) \in Nat
  BY <1>1, FS_CardinalityType
<1>3. Verdict \in Nat
  BY DEF Verdict
<1>4. IdleLeft \in Nat
  <2>1. idleFor \in 0 .. NotIdle /\ MaxAge \in Nat /\ NotIdle = MaxAge + 1
    BY Bounds DEF TypeOK, NotIdle
  <2> QED
    BY <2>1 DEF IdleLeft
<1> QED
  BY <1>2, <1>3, <1>4 DEF Rank, Ranks

\* T is S without some of its members.
Shrinks(T, S) == T \subseteq S /\ T # S

\* Lower, spelled out.
Descends ==
  \/ Shrinks(refs', refs)
  \/ /\ refs' = refs
     /\ \/ Verdict' < Verdict
        \/ /\ Verdict' = Verdict
           /\ \/ Shrinks(Work', Work)
              \/ /\ Work' = Work
                 /\ \/ IdleLeft' < IdleLeft
                    \/ IdleLeft' = IdleLeft /\ Shrinks(Young', Young)

LEMMA FewerMembers ==
  ASSUME NEW S, IsFiniteSet(S), NEW T, Shrinks(T, S)
  PROVE  Cardinality(T) < Cardinality(S)
<1>1. /\ IsFiniteSet(T) /\ Cardinality(T) <= Cardinality(S)
      /\ Cardinality(S) = Cardinality(T) => S = T
  BY FS_Subset DEF Shrinks
<1>2. Cardinality(S) \in Nat /\ Cardinality(T) \in Nat
  BY <1>1, FS_CardinalityType
<1> QED
  BY <1>1, <1>2 DEF Shrinks

LEMMA DescentLowers ==
  ASSUME TypeOK, TypeOK', Descends
  PROVE  <<Rank', Rank>> \in Lower
<1>0. Rank \in Ranks /\ Rank' \in Ranks
  <2>1. (TypeOK => Rank \in Ranks)'
    BY RankType, PTL
  <2> QED
    BY <2>1, RankType DEF Ranks
<1>1. /\ \A i \in 1 .. 5 : Rank[i] \in Nat /\ Rank'[i] \in Nat
      /\ <<Rank', Rank>> \in Ranks \X Ranks
  BY <1>0 DEF Ranks
<1>2. SUFFICES \E j \in 1 .. 5 : /\ \A i \in 1 .. (j - 1) : Rank'[i] = Rank[i]
                                 /\ Rank'[j] < Rank[j]
  <2>1. PICK j \in 1 .. 5 : /\ \A i \in 1 .. (j - 1) : Rank'[i] = Rank[i]
                            /\ Rank'[j] < Rank[j]
    BY <1>2
  <2>2. <<Rank'[j], Rank[j]>> \in Smaller
    BY <1>1, <2>1 DEF Smaller
  <2> QED
    BY <1>1, <2>1, <2>2, Zenon DEF Lower, LexProductOrdering, Ranks
<1>3. /\ Rank[1] = Cardinality(refs) /\ Rank'[1] = Cardinality(refs')
      /\ Rank[2] = Verdict /\ Rank'[2] = Verdict'
      /\ Rank[3] = Cardinality(Work) /\ Rank'[3] = Cardinality(Work')
      /\ Rank[4] = IdleLeft /\ Rank'[4] = IdleLeft'
      /\ Rank[5] = Cardinality(Young) /\ Rank'[5] = Cardinality(Young')
  BY DEF Rank
<1>4. IsFiniteSet(refs) /\ IsFiniteSet(Work) /\ IsFiniteSet(Young)
  BY FiniteUnits, EpisodesAssumption, FS_Subset DEF TypeOK, Work, Young
<1>5. /\ Shrinks(refs', refs) => Rank'[1] < Rank[1]
      /\ Shrinks(Work', Work) => Rank'[3] < Rank[3]
      /\ Shrinks(Young', Young) => Rank'[5] < Rank[5]
  BY <1>3, <1>4, FewerMembers
<1> HIDE DEF Rank
<1>6. \/ Rank'[1] < Rank[1]
      \/ /\ Rank'[1] = Rank[1]
         /\ \/ Rank'[2] < Rank[2]
            \/ /\ Rank'[2] = Rank[2]
               /\ \/ Rank'[3] < Rank[3]
                  \/ /\ Rank'[3] = Rank[3]
                     /\ \/ Rank'[4] < Rank[4]
                        \/ Rank'[4] = Rank[4] /\ Rank'[5] < Rank[5]
  <2>1. CASE Shrinks(refs', refs)
    BY <1>5, <2>1
  <2>2. CASE refs' = refs /\ Verdict' < Verdict
    BY <1>3, <2>2
  <2>3. CASE refs' = refs /\ Verdict' = Verdict /\ Shrinks(Work', Work)
    BY <1>3, <1>5, <2>3
  <2>4. CASE /\ refs' = refs /\ Verdict' = Verdict /\ Work' = Work
             /\ IdleLeft' < IdleLeft \/ (IdleLeft' = IdleLeft /\ Shrinks(Young', Young))
    BY <1>3, <1>5, <2>4
  <2> QED
    BY <2>1, <2>2, <2>3, <2>4 DEF Descends
<1>7. 1 \in 1 .. 5 /\ 2 \in 1 .. 5 /\ 3 \in 1 .. 5 /\ 4 \in 1 .. 5 /\ 5 \in 1 .. 5
  OBVIOUS
<1> QED
  BY <1>6, <1>7


\* The arithmetic of WorkLeft: one execution more outweighs every place in it.
LEMMA WorkLeftArithmetic ==
  ASSUME NEW R \in Nat, NEW t \in 0 .. R, NEW u \in 0 .. R,
         NEW p \in 0 .. 10, NEW q \in 0 .. 10
  PROVE  /\ u = t /\ q < p => 11 * (R - u) + q < 11 * (R - t) + p
         /\ u = t + 1 /\ 1 < p => 11 * (R - u) + q < 11 * (R - t) + p
<1>1. PICK a \in Int : a = R - t
  OBVIOUS
<1>2. u = t => R - u = a
  BY <1>1
<1>3. u = t + 1 => R - u = a - 1
  BY <1>1
<1>4. 11 * (a - 1) = 11 * a - 11
  OBVIOUS
<1> QED
  BY <1>1, <1>2, <1>3, <1>4

LEMMA Lighter ==
  ASSUME NEW e \in Episodes, TaskRetries \in Nat,
         tries[e] \in 0 .. TaskRetries, tries'[e] \in 0 .. TaskRetries,
         Place(e) \in 0 .. 10, Place(e)' \in 0 .. 10,
         \/ tries'[e] = tries[e] /\ Place(e)' < Place(e)
         \/ tries'[e] = tries[e] + 1 /\ 1 < Place(e)
  PROVE  WorkLeft(e)' < WorkLeft(e)
<1> DEFINE t == tries[e]
           u == tries'[e]
           p == Place(e)
           q == Place(e)'
<1>1. WorkLeft(e) = 11 * (TaskRetries - t) + p /\ WorkLeft(e)' = 11 * (TaskRetries - u) + q
  BY DEF WorkLeft
<1>2. t \in 0 .. TaskRetries /\ u \in 0 .. TaskRetries /\ p \in 0 .. 10 /\ q \in 0 .. 10
  OBVIOUS
<1>3. (u = t /\ q < p) \/ (u = t + 1 /\ 1 < p)
  OBVIOUS
<1> HIDE DEF t, u, p, q
<1>4. 11 * (TaskRetries - u) + q < 11 * (TaskRetries - t) + p
  BY <1>2, <1>3, WorkLeftArithmetic
<1> QED
  BY <1>1, <1>4

\* A step of Ray or of a worker uses up some of the work of its task.
LEMMA TaskAdvances ==
  ASSUME TypeOK, TypeOK', TasksInv, NEW e \in Episodes, RayStep(e) \/ WorkerStep(e)
  PROVE  /\ UNCHANGED driver
         /\ WorkLeft(e)' < WorkLeft(e)
         /\ \A f \in Episodes : f # e => WorkLeft(f)' = WorkLeft(f)
<1> USE DEF TasksInv
<1>0. /\ tries[e] \in 0 .. TaskRetries /\ tries'[e] \in 0 .. TaskRetries
      /\ TaskRetries \in Nat
      /\ wpc[e] # "none" => task[e] = "running"
  BY Bounds DEF TypeOK
<1>t. /\ task \in [Episodes -> TaskState] /\ wpc \in [Episodes -> WorkerPC]
      /\ meta \in [Episodes -> BOOLEAN]
  BY DEF TypeOK
<1>i. tries \in [Episodes -> 0 .. TaskRetries]
  BY DEF TypeOK
<1>1. UNCHANGED driver
  BY DEF RayStep, WorkerStep, TaskStarts, WorkerDies, TaskKilled, WorkerArchives, WorkerOpens,
         WorkerRestores, ArchivesLeftover, OpenFails, SavesMetadata, Concludes, Returns
<1>2. \A f \in Episodes :
        f # e => /\ task'[f] = task[f] /\ wpc'[f] = wpc[f] /\ tries'[f] = tries[f]
                 /\ meta'[f] = meta[f]
  <2>1. CASE RayStep(e)
    BY <2>1, <1>t, <1>i DEF RayStep, TaskStarts, WorkerDies, TaskKilled, disk
  <2>2. CASE \/ WorkerArchives(e) \/ WorkerRestores(e) \/ WorkerOpens(e) \/ OpenFails(e)
             \/ ArchivesLeftover(e) \/ SavesMetadata(e) \/ Returns(e)
    BY <2>2, <1>t, <1>i DEF WorkerArchives, WorkerRestores, WorkerOpens, OpenFails,
       ArchivesLeftover, SavesMetadata, Returns, RenameAway, disk
  <2>3. CASE \E st \in Outcome : Concludes(e, st)
    BY <2>3, <1>t, <1>i DEF Concludes
  <2> QED BY <2>1, <2>2, <2>3 DEF WorkerStep
<1>3. \A f \in Episodes : f # e => WorkLeft(f)' = WorkLeft(f)
  BY <1>2 DEF WorkLeft, Place
<1>4. ASSUME tries'[e] = tries[e] PROVE WorkLeft(e)' < WorkLeft(e)
  <2>1. Place(e)' < Place(e)
    <3>1. CASE TaskStarts(e)
      BY <1>t, <3>1 DEF TaskStarts, Place
    <3>2. CASE WorkerDies(e)
      <4>1. task[e] = "running" /\ task'[e] = "err"
        BY <1>0, <1>t, <1>i, <1>4, <3>2 DEF WorkerDies
      <4> QED
        BY <4>1 DEF Place
    <3>3. CASE TaskKilled(e)
      BY <1>t, <3>3 DEF TaskKilled, Place
    <3>4. CASE WorkerArchives(e)
      BY <1>0, <1>t, <3>4 DEF WorkerArchives, Place
    <3>5. CASE WorkerOpens(e)
      BY <1>0, <1>t, <3>5 DEF WorkerOpens, Place
    <3>6. CASE OpenFails(e)
      BY <1>0, <1>t, <3>6 DEF OpenFails, Place
    <3>7. CASE SavesMetadata(e)
      BY <1>0, <1>t, <3>7 DEF SavesMetadata, Place
    <3>8. ASSUME NEW st \in Outcome, Concludes(e, st) PROVE Place(e)' < Place(e)
      <4>1. /\ task[e] = "running" /\ task'[e] = "running"
            /\ wpc[e] \in {"setup", "rearchived", "loop"}
            /\ wpc'[e] \in {"closing", "failing"}
        BY <1>0, <1>t, <3>8 DEF Concludes
      <4> QED
        BY <4>1 DEF Place
    <3>10. CASE WorkerRestores(e)
      BY <1>0, <1>t, <3>10 DEF WorkerRestores, Place
    <3>11. CASE ArchivesLeftover(e)
      BY <1>0, <1>t, <3>11 DEF ArchivesLeftover, RenameAway, Place
    <3>9. CASE Returns(e)
      <4>1. task[e] = "running" /\ task'[e] \in {"ok", "err"}
        BY <1>0, <1>t, <3>9 DEF Returns
      <4> QED
        BY <4>1 DEF Place
    <3> QED
      BY <3>1, <3>2, <3>3, <3>4, <3>5, <3>6, <3>7, <3>8, <3>9, <3>10, <3>11 DEF RayStep, WorkerStep
  <2>2. Place(e) \in 0 .. 10 /\ Place(e)' \in 0 .. 10
    BY DEF Place
  <2> QED
    BY <1>0, <1>4, <2>1, <2>2, Lighter
<1>5. ASSUME tries'[e] # tries[e] PROVE WorkLeft(e)' < WorkLeft(e)
  <2>1. task[e] = "running" /\ task'[e] = "pending" /\ tries'[e] = tries[e] + 1
    BY <1>0, <1>t, <1>i, <1>5
    DEF RayStep, WorkerStep, TaskStarts, WorkerDies, TaskKilled, WorkerArchives,
        WorkerRestores, ArchivesLeftover, WorkerOpens, OpenFails, SavesMetadata, Concludes, Returns
  <2>2. Place(e) \in 2 .. 10 /\ Place(e)' = 10
    BY <2>1 DEF Place
  <2>3. 1 < Place(e) /\ Place(e) \in 0 .. 10 /\ 10 \in 0 .. 10
    BY <2>2
  <2> QED
    BY <1>0, <2>1, <2>2, <2>3, Lighter
<1> QED
  BY <1>1, <1>3, <1>4, <1>5

LEMMA WorkDescends ==
  ASSUME TypeOK, TypeOK', TasksInv, NEW e \in Episodes, RayStep(e) \/ WorkerStep(e)
  PROVE  Descends
<1>1. /\ WorkLeft(e)' < WorkLeft(e)
      /\ \A f \in Episodes : f # e => WorkLeft(f)' = WorkLeft(f)
      /\ refs' = refs /\ Verdict' = Verdict
  BY TaskAdvances DEF driver, batch, Verdict
<1>2. \A f \in Episodes : WorkLeft(f) \in 0 .. 11 * TaskRetries + 10
  BY WorkLeftType DEF WorkLeftInRange
<1>3. \A f \in Episodes : WorkLeft(f)' \in 0 .. 11 * TaskRetries + 10
  <2>1. (TypeOK => WorkLeftInRange)'
    BY WorkLeftType, PTL
  <2> QED
    BY <2>1 DEF WorkLeftInRange
<1>4. 11 * TaskRetries + 10 \in Nat
  BY FiniteUnits
<1>5. Work' \subseteq Work
  <2> SUFFICES ASSUME NEW u \in Units, u[2] <= WorkLeft(u[1])' PROVE u[2] <= WorkLeft(u[1])
    BY DEF Work
  <2>1. u[1] \in Episodes /\ u[2] \in 1 .. 11 * TaskRetries + 10
    BY DEF Units
  <2>2. WorkLeft(u[1])' <= WorkLeft(u[1])
    BY <1>1, <1>2, <1>3, <1>4, <2>1
  <2> QED
    BY <1>2, <1>3, <1>4, <2>1, <2>2
<1>6. <<e, WorkLeft(e)>> \in Work /\ <<e, WorkLeft(e)>> \notin Work'
  <2> DEFINE n == WorkLeft(e)
             m == WorkLeft(e)'
  <2>1. n \in 1 .. 11 * TaskRetries + 10 /\ n \in Nat /\ m \in Nat /\ m < n
    BY <1>1, <1>2, <1>3, <1>4
  <2>2. n <= n /\ ~ n <= m
    BY <2>1
  <2> HIDE DEF m
  <2>3. <<e, n>> \in Units
    BY <2>1 DEF Units
  <2> QED
    BY <2>2, <2>3 DEF Work, m
<1> QED
  BY <1>1, <1>5, <1>6 DEF Descends, Shrinks

\* A tick makes what is in flight older, or the driver's idle clock advance.
LEMMA TickDescends ==
  ASSUME TypeOK, TypeOK', pc = "wait", TimePasses, ~ UNCHANGED vars
  PROVE  Descends
<1>1. /\ MaxAge \in Nat /\ NotIdle = MaxAge + 1 /\ idleFor \in 0 .. NotIdle
      /\ age \in [Episodes -> 0 .. MaxAge] /\ age' \in [Episodes -> 0 .. MaxAge]
  BY Bounds DEF TypeOK, NotIdle
<1>2. /\ UNCHANGED <<refs, pc, status, task, tries, wpc>>
      /\ UNCHANGED <<retry, fresh, meta, config, session, batch, hand, results, ray, history>>
  BY DEF TimePasses, ray, batch
<1>3. refs' = refs /\ Verdict' = Verdict /\ Work' = Work
  BY <1>2 DEF Verdict, Work, WorkLeft, Place
<1>4. HasIdleCapacity' = HasIdleCapacity
  BY <1>2 DEF HasIdleCapacity
<1>5. CASE idleFor < MaxAge
  <2>1. idleFor' = idleFor + 1
    BY <1>5 DEF TimePasses
  <2>2. IdleLeft' < IdleLeft
    BY <1>1, <1>4, <1>5, <2>1 DEF IdleLeft
  <2> QED
    BY <1>3, <2>2 DEF Descends
<1>6. CASE ~ idleFor < MaxAge
  <2>1. idleFor' = idleFor /\ IdleLeft' = IdleLeft
    BY <1>4, <1>6 DEF TimePasses, IdleLeft
  <2>2. PICK e \in Episodes : age'[e] # age[e]
    <3>1. age' # age
      BY <1>2, <2>1 DEF vars, disk, driver
    <3> QED
      BY <1>1, <3>1
  <2>3. /\ status[e] \in InFlightStatuses /\ age[e] < MaxAge /\ age'[e] = age[e] + 1
        /\ \A f \in Episodes : age[f] <= age'[f]
    BY <1>1, <2>2 DEF TimePasses
  <2>4. Young' \subseteq Young
    <3> SUFFICES ASSUME NEW u \in Ticks, status[u[1]] \in InFlightStatuses, age'[u[1]] < u[2]
                 PROVE  age[u[1]] < u[2]
      BY <1>2 DEF Young
    <3>1. u[1] \in Episodes /\ u[2] \in 1 .. MaxAge
      BY DEF Ticks
    <3> QED
      BY <1>1, <2>3, <3>1
  <2>5. <<e, age[e] + 1>> \in Ticks
    <3>1. age[e] + 1 \in 1 .. MaxAge
      BY <1>1, <2>3
    <3> QED
      BY <3>1 DEF Ticks
  <2>6. <<e, age[e] + 1>> \in Young /\ <<e, age[e] + 1>> \notin Young'
    BY <1>1, <1>2, <2>3, <2>5 DEF Young
  <2> QED
    BY <1>3, <2>1, <2>4, <2>6 DEF Descends, Shrinks
<1> QED
  BY <1>5, <1>6

\* What the driver does when a look at its refs finds nothing new.
LooksAgain ==
  /\ Poll \/ ScanDone \/ \E e \in Episodes : ScanSkip(e)
  /\ UNCHANGED <<disk, ray, refs, idleFor>>

LEMMA LoopDescends ==
  ASSUME TypeOK, TypeOK', DriverInv, pc \in PollLoop, pc' \in PollLoop, DriverStep
  PROVE  Descends \/ LooksAgain
<1> USE DEF PollLoop
<1>1. CASE Poll
  <2>1. /\ refs' \subseteq refs /\ pc = "wait" /\ pc' = "scan"
        /\ UNCHANGED <<disk, ray>>
    BY <1>1 DEF Poll
  <2>2. Verdict' = Verdict /\ Work' = Work /\ HasIdleCapacity' = HasIdleCapacity
    BY <2>1 DEF Verdict, Work, WorkLeft, Place, HasIdleCapacity, ray, disk
  <2>3. idleFor' = idleFor \/ IdleLeft' < IdleLeft
    <3>1. MaxAge \in Nat /\ NotIdle = MaxAge + 1 /\ idleFor \in 0 .. NotIdle
      BY Bounds DEF TypeOK, NotIdle
    <3> QED
      BY <1>1, <2>2, <3>1 DEF Poll, IdleLeft
  <2> QED
    BY <1>1, <2>1, <2>2, <2>3 DEF Descends, Shrinks, LooksAgain
<1>2. CASE ScanDone \/ \E e \in Episodes : ScanSkip(e)
  BY <1>2 DEF ScanDone, ScanSkip, LooksAgain, batch
<1>3. ASSUME NEW e \in Episodes, ScanCancel(e) PROVE Descends
  <2>1. refs' = refs /\ pc = "scan" /\ pc' = "cancel"
    BY <1>3 DEF ScanCancel, batch
  <2> QED
    BY <2>1 DEF Descends, Verdict
<1>4. CASE ReReadSame
  <2>1. refs' = refs /\ pc = "cancel" /\ pc' = "stamp"
    BY <1>4 DEF ReReadSame, batch
  <2> QED
    BY <2>1 DEF Descends, Verdict
<1>5. CASE ReReadChanged \/ StampCancelled
  <2>1. refs' = refs \ {cur} /\ cur \in refs
    BY <1>5 DEF ReReadChanged, StampCancelled, DropRef, DriverInv, BatchInv
  <2> QED
    BY <2>1 DEF Descends, Shrinks
<1>6. CASE \/ StartRound \/ Planned \/ ArchiveRestore \/ ArchivedClaim \/ Submit \/ PollDone
           \/ Shutdown \/ EndSweep \/ Decide
           \/ \E e \in Episodes : SavesConfig(e) \/ PreClaim(e) \/ ArchiveRename(e)
  BY <1>6 DEF StartRound, Planned, SavesConfig, driver, ArchiveRestore, ArchivedClaim, Submit, PollDone, Shutdown,
              EndSweep, Decide, PreClaim, ArchiveRename
<1> QED
  BY <1>1, <1>2, <1>3, <1>4, <1>5, <1>6 DEF DriverStep

\* A step within the poll loop brings its end nearer, or is one of the driver's looks
\* at its refs that finds nothing new.
PollAdvances ==
  pc \in PollLoop /\ pc' \in PollLoop => <<Rank', Rank>> \in Lower \/ LooksAgain

LEMMA StepAdvances ==
  ASSUME TypeOK, TypeOK', DriverInv, [Next]_vars
  PROVE  [PollAdvances]_vars
<1> SUFFICES ASSUME Next, ~ UNCHANGED vars, pc \in PollLoop, pc' \in PollLoop
             PROVE  Descends \/ LooksAgain
  BY DescentLowers DEF PollAdvances
<1>1. CASE \E mode \in LaunchModes : Launch(mode)
  BY <1>1 DEF Launch, PollLoop
<1>2. CASE DriverStep
  BY <1>2, LoopDescends
<1>3. CASE Interrupt \/ Crash
  BY <1>3 DEF Interrupt, Crash, PollLoop
<1>4. ASSUME NEW e \in Episodes, RayStep(e) \/ WorkerStep(e) PROVE Descends
  BY <1>4, WorkDescends DEF DriverInv
<1>5. CASE TimePasses
  BY <1>5, TickDescends DEF TimePasses, PollLoop
<1> QED
  BY <1>1, <1>2, <1>3, <1>4, <1>5 DEF Next
=============================================================================
