----------------------- MODULE ExpRunnerResume_proofs -----------------------
(***************************************************************************)
(* What resume promises, for every value of the remaining constants, where *)
(* timeouts are right: the driver never declares a working task dead.  Ray *)
(* may re-execute tasks, workers may fail to write their last status, and  *)
(* launches may resume or plan from scratch.                               *)
(***************************************************************************)
EXTENDS ExpRunner_proofs

USE DEF Absent, InFlightStatuses, TerminalStatuses, RetriableStatuses,
        FinishedStatuses, Status

\* A task the driver has cancelled, or is about to stamp, never moves again;
\* what it does not wait for has ended or is cancelled.
CancelInv ==
  /\ pc \in {"cancel", "stamp"} =>
       cancelled[cur] /\ seen = status[cur] /\ held = retry[cur] /\ seen \in InFlightStatuses
  /\ \A e \in Episodes \ refs : task[e] \in {"none", "ok", "err"} \/ cancelled[e]

\* One attempt, from its claim to its last write.  The status file follows the
\* first execution, with the worker's own retry count; an execution that Ray
\* started again has archived whatever it was allowed to overwrite.
FileFollows(e) ==
  /\ wpc[e] = "opening" =>
       IF tries[e] = 0 THEN status[e] = "QUEUED" /\ wretry[e] = retry[e]
       ELSE overwrite[e] => status[e] \notin TerminalStatuses
  /\ wpc[e] \in {"archiving", "archived", "rearchived"} => tries[e] > 0
  /\ wpc[e] = "rearchived" => overwrite[e]
  /\ wpc[e] \in {"archived", "rearchived"} => status[e] = Absent
  /\ wpc[e] \in {"setup", "loop"} =>
       \/ status[e] = "RUNNING" /\ wretry[e] = retry[e]
       \/ status[e] = Absent /\ tries[e] > 0 /\ overwrite[e]
  /\ wpc[e] \in {"closing", "failing"} =>
       status[e] # "QUEUED" /\ (tries[e] = 0 => status[e] # Absent)

\* The retry count is within the budget and what the executions so far add.
CountFollows(e) ==
  /\ task[e] = "pending" /\ tries[e] = 0 => retry[e] <= MaxRetries
  /\ task[e] = "pending" /\ tries[e] > 0 => retry[e] + 1 <= MaxRetries + tries[e]
  /\ task[e] = "running" => /\ retry[e] <= MaxRetries + tries[e]
                             /\ wretry[e] <= MaxRetries + tries[e]

\* An attempt that can still write is not of a finished episode.
NotOver(e) ==
  \/ task[e] = "pending"
  \/ wpc[e] \notin {"none", "closing", "failing"}
  => e \notin finishedOnce \ redone

AttemptOK(e) ==
  /\ task[e] = "running" => wpc[e] # "none"
  /\ ~cancelled[e] =>
       /\ task[e] = "pending" /\ tries[e] = 0 => status[e] = "QUEUED"
       /\ FileFollows(e)
       /\ tries[e] = 0 /\ overwrite[e] =>
            (task[e] = "pending" \/ wpc[e] \in {"opening", "setup"} => ~meta[e])
       /\ ~replanned => CountFollows(e) /\ NotOver(e)
  /\ ~replanned /\ e \in finishedOnce \ redone => status[e] \in FinishedStatuses

\* Between claim and submission the driver has the directories to itself.
ClaimInv ==
  /\ pc \in {"claim", "renamed", "restored"} =>
       /\ \A e \in refs \ todo : status[e] = "QUEUED" /\ (overwrite[e] => ~meta[e])
       /\ \A e \in todo :
            /\ ~replanned => status[e] \in {Absent} \cup RetriableStatuses
            /\ overwrite[e] =>
                 \/ status[e] \in RetriableStatuses
                 \/ pc # "claim" /\ e = cur /\ ~meta[e]
  /\ pc \in {"renamed", "restored"} => status[cur] = Absent
  /\ pc = "plan" => \A e \in Episodes : ~overwrite[e]

AttemptInv == ClaimInv /\ \A e \in Episodes : AttemptOK(e)

\* An episode that nobody works on is accounted for, in the launch that ends as in
\* the one that goes on.
Settled(e) ==
  \/ status[e] \in FinishedStatuses
  \/ status[e] \in RetriableStatuses /\ config[e]
  \/ e \in fails \/ e \in trajs \cap unwritten

Kept(e) ==
  \/ Settled(e)
  \/ e \in roundFails \/ e \in roundTrajs \cap unwritten
  \/ launches > 1 /\ (status[e] \in InFlightStatuses \/ ~config[e])

KeptInv ==
  /\ NothingLost
  /\ launches = 0 => pc = "down" /\ \A e \in Episodes : ~config[e]
  /\ pc \notin {"down", "shutdown", "endsweep"} => outcome = "none"
  /\ pc # "down" => outcome # "returned"
  /\ pc = "shutdown" /\ outcome = "none" => refs = {}
  /\ launches = 1 /\ pc = "start" =>
       (\A e \in Episodes : ~config[e]) \/ (\A e \in Episodes : Settled(e))
  /\ outcome = "none" /\ pc \notin {"down", "start", "plan"} =>
       \A e \in Episodes \ refs : Kept(e)

-----------------------------------------------------------------------------
\* Cancelled tasks.

LEMMA StepCancelInv ==
  ASSUME AccurateTimeouts, TypeOK, DriverInv, CancelInv, [Next]_vars
  PROVE  CancelInv'
<1> USE DEF TypeOK, DriverInv, TasksInv, BatchInv, CancelInv, vars, disk, driver, session, batch,
            hand, results, ray, history
<1>1. CASE \E mode \in LaunchModes : Launch(mode)
  BY <1>1 DEF Launch
<1>2. CASE StartRound
  BY <1>2 DEF StartRound, FromScratch, FromStatuses
<1>32. ASSUME NEW e \in Episodes, SavesConfig(e) PROVE CancelInv'
  BY <1>32 DEF SavesConfig
<1>33. CASE Planned
  BY <1>33 DEF Planned
<1>3. ASSUME NEW e \in Episodes, PreClaim(e) PROVE CancelInv'
  BY <1>3 DEF PreClaim, WriteStatus
<1>4. ASSUME NEW e \in Episodes, ArchiveRename(e) PROVE CancelInv'
  BY <1>4 DEF ArchiveRename, RenameAway
<1>5. CASE ArchiveRestore
  BY <1>5 DEF ArchiveRestore
<1>6. CASE ArchivedClaim
  BY <1>6 DEF ArchivedClaim, WriteStatus
<1>7. CASE Submit
  BY <1>7 DEF Submit
<1>8. CASE Poll
  BY <1>8 DEF Poll
<1>9. ASSUME NEW e \in Episodes, ScanSkip(e) PROVE CancelInv'
  BY <1>9 DEF ScanSkip
<1>10. ASSUME NEW e \in Episodes, ScanCancel(e) PROVE CancelInv'
  BY <1>10 DEF ScanCancel, CancelRef, Orphaned, Stalled
<1>11. CASE ReReadChanged
  BY <1>11 DEF ReReadChanged, DropRef
<1>12. CASE ReReadSame
  BY <1>12 DEF ReReadSame
<1>13. CASE StampCancelled
  BY <1>13 DEF StampCancelled, WriteStatus, DropRef
<1>14. CASE ScanDone
  BY <1>14 DEF ScanDone
<1>15. CASE PollDone
  BY <1>15 DEF PollDone
<1>16. CASE Shutdown
  BY <1>16 DEF Shutdown, RayGone, LocalsGone
<1>17. CASE EndSweep
  BY <1>17 DEF EndSweep, Sweep
<1>18. CASE Decide
  BY <1>18 DEF Decide, FailsAfterRound
<1>19. CASE Interrupt
  BY <1>19 DEF Interrupt
<1>20. CASE Crash
  BY <1>20 DEF Crash, RayGone, LocalsGone
<1>21. ASSUME NEW e \in Episodes, TaskStarts(e) PROVE CancelInv'
  BY <1>21 DEF TaskStarts, Stuck
<1>22. ASSUME NEW e \in Episodes, WorkerDies(e) PROVE CancelInv'
  BY <1>22 DEF WorkerDies
<1>23. ASSUME NEW e \in Episodes, TaskKilled(e) PROVE CancelInv'
  BY <1>23 DEF TaskKilled
<1>24. ASSUME NEW e \in Episodes, WorkerArchives(e) PROVE CancelInv'
  BY <1>24 DEF WorkerArchives, RenameAway, Stuck
<1>34. ASSUME NEW e \in Episodes, WorkerRestores(e) PROVE CancelInv'
  BY <1>34 DEF WorkerRestores, Stuck
<1>35. ASSUME NEW e \in Episodes, ArchivesLeftover(e) PROVE CancelInv'
  BY <1>35 DEF ArchivesLeftover, RenameAway, Stuck
<1>25. ASSUME NEW e \in Episodes, WorkerOpens(e) PROVE CancelInv'
  BY <1>25 DEF WorkerOpens, WriteStatus, Stuck
<1>26. ASSUME NEW e \in Episodes, SavesMetadata(e) PROVE CancelInv'
  BY <1>26 DEF SavesMetadata, Stuck
<1>27. ASSUME NEW e \in Episodes, \E st \in Outcome : Concludes(e, st) PROVE CancelInv'
  BY <1>27 DEF Concludes, WriteStatus, Outcome, Stuck
<1>28. ASSUME NEW e \in Episodes, Returns(e) PROVE CancelInv'
  BY <1>28 DEF Returns, Stuck
<1>29. CASE TimePasses
  BY <1>29 DEF TimePasses
<1>30. ASSUME NEW e \in Episodes, OpenFails(e) PROVE CancelInv'
  BY <1>30 DEF OpenFails, Stuck
<1>31. CASE UNCHANGED vars
  BY <1>31
<1> QED
  BY <1>1, <1>2, <1>3, <1>4, <1>5, <1>6, <1>7, <1>8, <1>9, <1>10, <1>11, <1>12, <1>13,
     <1>14, <1>15, <1>16, <1>17, <1>18, <1>19, <1>20, <1>21, <1>22, <1>23, <1>24, <1>25,
     <1>26, <1>27, <1>28, <1>29, <1>30, <1>31, <1>32, <1>33, <1>34, <1>35
  DEF Next, DriverStep, RayStep, WorkerStep

-----------------------------------------------------------------------------
\* Attempts.

LEMMA StepClaimInv ==
  ASSUME AccurateTimeouts, TypeOK, DriverInv, CancelInv, ClaimInv, RetryInv, [Next]_vars
  PROVE  ClaimInv'
<1> USE DEF TypeOK, DriverInv, TasksInv, BatchInv, ClaimInv, vars, disk, driver, session, batch,
            hand, results, ray, history
<1>1. CASE \E mode \in LaunchModes : Launch(mode)
  BY <1>1 DEF Launch
<1>2. CASE StartRound
  <2>1. CASE FromScratch
    BY <1>2, <2>1 DEF StartRound, FromScratch
  <2>2. CASE FromStatuses
    <3>1. refs' = todo' /\ pc' = "claim"
      BY <1>2, <2>2 DEF StartRound, FromStatuses
    <3>2. \A e \in todo' :
            /\ status'[e] \in {Absent} \cup RetriableStatuses
            /\ overwrite'[e] => status'[e] \in RetriableStatuses
      BY <2>2 DEF FromStatuses, ShouldRelaunch
    <3> QED
      BY <3>1, <3>2
  <2> QED
    BY <1>2, <2>1, <2>2 DEF StartRound
<1>32. ASSUME NEW e \in Episodes, SavesConfig(e) PROVE ClaimInv'
  BY <1>32 DEF SavesConfig
<1>33. CASE Planned
  BY <1>33 DEF Planned, RetryInv
<1>3. ASSUME NEW e \in Episodes, PreClaim(e) PROVE ClaimInv'
  BY <1>3 DEF PreClaim, WriteStatus
<1>4. ASSUME NEW e \in Episodes, ArchiveRename(e) PROVE ClaimInv'
  BY <1>4 DEF ArchiveRename, RenameAway
<1>5. CASE ArchiveRestore
  BY <1>5 DEF ArchiveRestore
<1>6. CASE ArchivedClaim
  BY <1>6 DEF ArchivedClaim, WriteStatus
<1>7. CASE Submit
  BY <1>7 DEF Submit
<1>8. CASE Poll
  BY <1>8 DEF Poll
<1>9. ASSUME NEW e \in Episodes, ScanSkip(e) PROVE ClaimInv'
  BY <1>9 DEF ScanSkip
<1>10. ASSUME NEW e \in Episodes, ScanCancel(e) PROVE ClaimInv'
  BY <1>10 DEF ScanCancel, CancelRef, Orphaned, Stalled
<1>11. CASE ReReadChanged
  BY <1>11 DEF ReReadChanged, DropRef
<1>12. CASE ReReadSame
  BY <1>12 DEF ReReadSame
<1>13. CASE StampCancelled
  BY <1>13 DEF StampCancelled, WriteStatus, DropRef
<1>14. CASE ScanDone
  BY <1>14 DEF ScanDone
<1>15. CASE PollDone
  BY <1>15 DEF PollDone
<1>16. CASE Shutdown
  BY <1>16 DEF Shutdown, RayGone, LocalsGone
<1>17. CASE EndSweep
  BY <1>17 DEF EndSweep, Sweep
<1>18. CASE Decide
  BY <1>18 DEF Decide, FailsAfterRound
<1>19. CASE Interrupt
  BY <1>19 DEF Interrupt
<1>20. CASE Crash
  BY <1>20 DEF Crash, RayGone, LocalsGone
<1>21. ASSUME NEW e \in Episodes, TaskStarts(e) PROVE ClaimInv'
  BY <1>21 DEF TaskStarts, Stuck
<1>22. ASSUME NEW e \in Episodes, WorkerDies(e) PROVE ClaimInv'
  BY <1>22 DEF WorkerDies
<1>23. ASSUME NEW e \in Episodes, TaskKilled(e) PROVE ClaimInv'
  BY <1>23 DEF TaskKilled
<1>24. ASSUME NEW e \in Episodes, WorkerArchives(e) PROVE ClaimInv'
  BY <1>24 DEF WorkerArchives, RenameAway, Stuck
<1>34. ASSUME NEW e \in Episodes, WorkerRestores(e) PROVE ClaimInv'
  BY <1>34 DEF WorkerRestores, Stuck
<1>35. ASSUME NEW e \in Episodes, ArchivesLeftover(e) PROVE ClaimInv'
  BY <1>35 DEF ArchivesLeftover, RenameAway, Stuck
<1>25. ASSUME NEW e \in Episodes, WorkerOpens(e) PROVE ClaimInv'
  BY <1>25 DEF WorkerOpens, WriteStatus, Stuck
<1>26. ASSUME NEW e \in Episodes, SavesMetadata(e) PROVE ClaimInv'
  BY <1>26 DEF SavesMetadata, Stuck
<1>27. ASSUME NEW e \in Episodes, \E st \in Outcome : Concludes(e, st) PROVE ClaimInv'
  BY <1>27 DEF Concludes, WriteStatus, Outcome, Stuck
<1>28. ASSUME NEW e \in Episodes, Returns(e) PROVE ClaimInv'
  BY <1>28 DEF Returns, Stuck
<1>29. CASE TimePasses
  BY <1>29 DEF TimePasses
<1>30. ASSUME NEW e \in Episodes, OpenFails(e) PROVE ClaimInv'
  BY <1>30 DEF OpenFails, Stuck
<1>31. CASE UNCHANGED vars
  BY <1>31
<1> QED
  BY <1>1, <1>2, <1>3, <1>4, <1>5, <1>6, <1>7, <1>8, <1>9, <1>10, <1>11, <1>12, <1>13,
     <1>14, <1>15, <1>16, <1>17, <1>18, <1>19, <1>20, <1>21, <1>22, <1>23, <1>24, <1>25,
     <1>26, <1>27, <1>28, <1>29, <1>30, <1>31, <1>32, <1>33, <1>34, <1>35
  DEF Next, DriverStep, RayStep, WorkerStep

AttemptsOK == \A e \in Episodes : AttemptOK(e)

LEMMA StepAttemptsOK ==
  ASSUME AccurateTimeouts, TypeOK, DriverInv, RetryInv, CancelInv, ClaimInv, AttemptsOK, [Next]_vars
  PROVE  AttemptsOK'
<1> USE Bounds
<1> USE DEF TypeOK, DriverInv, TasksInv, BatchInv, CancelInv, ClaimInv, AttemptsOK, AttemptOK,
            FileFollows, CountFollows, NotOver,
            vars, disk, driver, session, batch,
            hand, results, ray, history
<1>1. CASE \E mode \in LaunchModes : Launch(mode)
  BY <1>1 DEF Launch
<1>2. CASE StartRound
  <2>1. /\ \A e \in Episodes : task[e] = "none" /\ wpc[e] = "none"
        /\ UNCHANGED <<task, wpc, finishedOnce, redone>> /\ (replanned => replanned')
    BY <1>2 DEF StartRound, FromScratch, FromStatuses
  <2>2. \A e \in Episodes :
          status'[e] = status[e] \/ (status[e] \in InFlightStatuses /\ status'[e] = "STALE")
    BY <1>2, SweepSpares DEF StartRound, FromScratch, FromStatuses, Sweep
  <2> QED
    BY <2>1, <2>2
<1>32. ASSUME NEW e \in Episodes, SavesConfig(e) PROVE AttemptsOK'
  BY <1>32 DEF SavesConfig
<1>33. CASE Planned
  BY <1>33 DEF Planned
<1>3. ASSUME NEW e \in Episodes, PreClaim(e) PROVE AttemptsOK'
  BY <1>3 DEF PreClaim, WriteStatus
<1>4. ASSUME NEW e \in Episodes, ArchiveRename(e) PROVE AttemptsOK'
  BY <1>4 DEF ArchiveRename, RenameAway
<1>5. CASE ArchiveRestore
  BY <1>5 DEF ArchiveRestore
<1>6. CASE ArchivedClaim
  BY <1>6 DEF ArchivedClaim, WriteStatus
<1>7. CASE Submit
  <2> SUFFICES ASSUME NEW e \in Episodes PROVE AttemptOK(e)'
    OBVIOUS
  <2>1. /\ wpc[e] = "none" /\ task'[e] = (IF e \in refs THEN "pending" ELSE "none")
        /\ UNCHANGED <<disk, cancelled, tries, wpc, wretry, overwrite, history>>
        /\ e \in refs => /\ status[e] = "QUEUED" /\ (overwrite[e] => ~meta[e])
                         /\ ~replanned => retry[e] <= MaxRetries
    BY <1>7 DEF Submit, RetryInv
  <2>2. e \in finishedOnce \ redone /\ ~replanned => status[e] \in FinishedStatuses
    OBVIOUS
  <2>3. /\ tries[e] \in Nat /\ retry[e] \in Nat
        /\ tries[e] > 0 /\ retry[e] <= MaxRetries => retry[e] + 1 <= MaxRetries + tries[e]
    OBVIOUS
  <2> QED
    BY <2>1, <2>2, <2>3
<1>8. CASE Poll
  BY <1>8 DEF Poll
<1>9. ASSUME NEW e \in Episodes, ScanSkip(e) PROVE AttemptsOK'
  BY <1>9 DEF ScanSkip
<1>10. ASSUME NEW e \in Episodes, ScanCancel(e) PROVE AttemptsOK'
  BY <1>10 DEF ScanCancel, CancelRef, Orphaned, Stalled
<1>11. CASE ReReadChanged
  BY <1>11 DEF ReReadChanged, DropRef
<1>12. CASE ReReadSame
  BY <1>12 DEF ReReadSame
<1>13. CASE StampCancelled
  BY <1>13 DEF StampCancelled, WriteStatus, DropRef
<1>14. CASE ScanDone
  BY <1>14 DEF ScanDone
<1>15. CASE PollDone
  BY <1>15 DEF PollDone
<1>16. CASE Shutdown
  BY <1>16 DEF Shutdown, RayGone, LocalsGone
<1>17. CASE EndSweep
  <2>1. /\ \A e \in Episodes : task[e] = "none" /\ wpc[e] = "none"
        /\ UNCHANGED <<task, wpc, finishedOnce, redone, replanned>>
    BY <1>17 DEF EndSweep
  <2>2. \A e \in Episodes :
          status'[e] = status[e] \/ (status[e] \in InFlightStatuses /\ status'[e] = "STALE")
    BY <1>17, SweepSpares DEF EndSweep, Sweep
  <2> QED
    BY <2>1, <2>2
<1>18. CASE Decide
  BY <1>18 DEF Decide, FailsAfterRound
<1>19. CASE Interrupt
  BY <1>19 DEF Interrupt
<1>20. CASE Crash
  BY <1>20 DEF Crash, RayGone, LocalsGone
<1>21. ASSUME NEW e \in Episodes, TaskStarts(e) PROVE AttemptsOK'
  <2>1. /\ task[e] = "pending" /\ ~cancelled[e] /\ task'[e] = "running"
        /\ wretry'[e] = NextRetryCount(status[e], retry[e])
        /\ wpc'[e] = (IF status[e] \in TerminalStatuses /\ overwrite[e]
                      THEN "archiving" ELSE "opening")
        /\ UNCHANGED <<disk, cancelled, tries, overwrite, history>>
    BY <1>21 DEF TaskStarts, Stuck
  <2>2. CASE tries[e] = 0
    <3>1. status[e] = "QUEUED" /\ NextRetryCount(status[e], retry[e]) = retry[e]
      BY <2>1, <2>2 DEF NextRetryCount
    <3> QED
      BY <1>21, <2>1, <2>2, <3>1 DEF TaskStarts
  <2>3. CASE tries[e] # 0
    <3>1. wretry'[e] \in {0, retry[e], retry[e] + 1} /\ tries[e] > 0
      BY <2>1, <2>3, NextRetryCountNat
    <3>2. ~replanned => retry[e] <= MaxRetries + tries[e] /\ wretry'[e] <= MaxRetries + tries[e]
      BY <2>1, <3>1
    <3>3. AttemptOK(e)'
      BY <2>1, <2>3, <3>1, <3>2
    <3>4. \A f \in Episodes \ {e} : AttemptOK(f)'
      BY <1>21 DEF TaskStarts
    <3> QED
      BY <3>3, <3>4
  <2> QED
    BY <2>2, <2>3
<1>22. ASSUME NEW e \in Episodes, WorkerDies(e) PROVE AttemptsOK'
  <2>1. /\ task[e] = "running" /\ wpc'[e] = "none"
        /\ UNCHANGED <<disk, cancelled, overwrite, wretry, finishedOnce, replanned>>
    BY <1>22 DEF WorkerDies
  <2>2. CASE task'[e] = "err"
    BY <1>22, <2>1, <2>2 DEF WorkerDies
  <2>3. CASE task'[e] # "err"
    <3>1. /\ task'[e] = "pending" /\ tries'[e] = tries[e] + 1
          /\ redone' = IF status[e] \in FinishedStatuses THEN redone \cup {e} ELSE redone
      BY <1>22, <2>3 DEF WorkerDies
    <3>2. ~replanned => e \notin finishedOnce \ redone'
      BY <3>1
    <3>3. ~replanned /\ ~cancelled[e] => retry[e] + 1 <= MaxRetries + tries'[e]
      BY <2>1, <3>1
    <3>4. AttemptOK(e)'
      BY <2>1, <3>1, <3>2, <3>3
    <3>5. \A f \in Episodes \ {e} : AttemptOK(f)'
      BY <1>22 DEF WorkerDies
    <3> QED
      BY <3>4, <3>5
  <2> QED
    BY <2>2, <2>3
<1>23. ASSUME NEW e \in Episodes, TaskKilled(e) PROVE AttemptsOK'
  BY <1>23 DEF TaskKilled
<1>24. ASSUME NEW e \in Episodes, WorkerArchives(e) PROVE AttemptsOK'
  <2>1. /\ wpc[e] = "archiving" /\ task[e] = "running" /\ ~cancelled[e] /\ tries[e] > 0
        /\ status'[e] = Absent /\ retry'[e] = 0 /\ wpc'[e] \in {"archived", "opening"}
        /\ ~replanned => e \notin finishedOnce \ redone
    BY <1>24 DEF WorkerArchives, RenameAway, Stuck
  <2>2. AttemptOK(e)'
    BY <1>24, <2>1 DEF WorkerArchives, RenameAway
  <2>3. \A f \in Episodes \ {e} : AttemptOK(f)'
    BY <1>24 DEF WorkerArchives, RenameAway
  <2> QED
    BY <2>2, <2>3
<1>34. ASSUME NEW e \in Episodes, WorkerRestores(e) PROVE AttemptsOK'
  <2>1. /\ wpc[e] \in {"archived", "rearchived"} /\ task[e] = "running" /\ ~cancelled[e]
        /\ tries[e] > 0 /\ status[e] = Absent
        /\ wpc'[e] = IF wpc[e] = "archived" THEN "opening" ELSE "setup"
    BY <1>34 DEF WorkerRestores, Stuck
  <2>2. AttemptOK(e)'
    BY <1>34, <2>1 DEF WorkerRestores
  <2>3. \A f \in Episodes \ {e} : AttemptOK(f)'
    BY <1>34 DEF WorkerRestores
  <2> QED
    BY <2>2, <2>3
<1>35. ASSUME NEW e \in Episodes, ArchivesLeftover(e) PROVE AttemptsOK'
  <2>1. /\ wpc[e] = "setup" /\ task[e] = "running" /\ ~cancelled[e] /\ overwrite[e] /\ tries[e] > 0
        /\ status'[e] = Absent /\ retry'[e] = 0 /\ wpc'[e] \in {"rearchived", "setup"}
        /\ ~replanned => e \notin finishedOnce \ redone
    BY <1>35 DEF ArchivesLeftover, RenameAway, Stuck
  <2>2. AttemptOK(e)'
    BY <1>35, <2>1 DEF ArchivesLeftover, RenameAway
  <2>3. \A f \in Episodes \ {e} : AttemptOK(f)'
    BY <1>35 DEF ArchivesLeftover, RenameAway
  <2> QED
    BY <2>2, <2>3
<1>25. ASSUME NEW e \in Episodes, WorkerOpens(e) PROVE AttemptsOK'
  BY <1>25 DEF WorkerOpens, WriteStatus, Stuck
<1>26. ASSUME NEW e \in Episodes, SavesMetadata(e) PROVE AttemptsOK'
  BY <1>26 DEF SavesMetadata, Stuck
<1>27. ASSUME NEW e \in Episodes, \E st \in Outcome : Concludes(e, st) PROVE AttemptsOK'
  BY <1>27 DEF Concludes, WriteStatus, Outcome, Stuck
<1>28. ASSUME NEW e \in Episodes, Returns(e) PROVE AttemptsOK'
  BY <1>28 DEF Returns, Stuck
<1>29. CASE TimePasses
  BY <1>29 DEF TimePasses
<1>30. ASSUME NEW e \in Episodes, OpenFails(e) PROVE AttemptsOK'
  BY <1>30 DEF OpenFails, Stuck
<1>31. CASE UNCHANGED vars
  BY <1>31
<1> HIDE DEF TypeOK, AttemptsOK, AttemptOK, FileFollows, CountFollows, NotOver
<1> QED
  BY <1>1, <1>2, <1>3, <1>4, <1>5, <1>6, <1>7, <1>8, <1>9, <1>10, <1>11, <1>12, <1>13,
     <1>14, <1>15, <1>16, <1>17, <1>18, <1>19, <1>20, <1>21, <1>22, <1>23, <1>24, <1>25,
     <1>26, <1>27, <1>28, <1>29, <1>30, <1>31, <1>32, <1>33, <1>34, <1>35
  DEF Next, DriverStep, RayStep, WorkerStep

-----------------------------------------------------------------------------
\* What one step can do to one status file, and to the executions of its task.
StatusMoves(e) ==
  \/ /\ status'[e] = status[e] /\ retry'[e] = retry[e]
     /\ \/ tries'[e] \in {tries[e], 0}
        \/ tries'[e] = tries[e] + 1 /\ (tries[e] > 0 \/ status[e] # Absent)
  \/ /\ tries'[e] = tries[e]
     /\ \/ status[e] = Absent /\ status'[e] = "QUEUED" /\ retry'[e] \in 0 .. MaxRetries
        \/ status[e] \in InFlightStatuses /\ status'[e] \in Status /\ retry'[e] = retry[e]
        \/ /\ status[e] \in RetriableStatuses /\ retry[e] < MaxRetries
           /\ status'[e] = Absent /\ retry'[e] = 0
        \/ /\ tries[e] > 0 /\ status'[e] \in Status \cup {Absent}
           /\ retry'[e] <= MaxRetries + tries[e]

\* A terminal status goes only into an archive, or is executed again.
TerminalMoves(e) ==
  status[e] \in TerminalStatuses /\ status'[e] # status[e] =>
    \/ status'[e] = Absent
    \/ tries[e] > 0 /\ wpc[e] = "opening" /\ ~overwrite[e] /\ status'[e] = "RUNNING"

Moves(e) == TerminalMoves(e) /\ (~replanned' => StatusMoves(e))
AllMove == \A e \in Episodes : Moves(e)

LEMMA StepMoves ==
  ASSUME AccurateTimeouts, TypeOK, DriverInv, RetryInv, CancelInv, ClaimInv, AttemptsOK,
         [Next]_vars
  PROVE  AllMove
<1> USE Bounds
<1> USE DEF TypeOK, DriverInv, TasksInv, BatchInv, CancelInv, ClaimInv, AttemptsOK, AttemptOK,
            FileFollows, CountFollows, NotOver,
            AllMove, Moves, TerminalMoves, StatusMoves, vars, disk, driver, session, batch,
            hand, results, ray, history
<1>1. CASE \E mode \in LaunchModes : Launch(mode)
  BY <1>1 DEF Launch
<1>2. CASE StartRound
  BY <1>2, SweepSpares DEF StartRound, FromScratch, FromStatuses, Sweep
<1>32. ASSUME NEW e \in Episodes, SavesConfig(e) PROVE AllMove
  BY <1>32 DEF SavesConfig
<1>33. CASE Planned
  BY <1>33 DEF Planned
<1>3. ASSUME NEW e \in Episodes, PreClaim(e) PROVE AllMove
  <2>1. status[e] \notin TerminalStatuses /\ (~replanned => status[e] = Absent)
    BY <1>3 DEF PreClaim, RetryInv
  <2>2. ~replanned => NextRetryCount(status[e], retry[e]) = 0 /\ 0 \in 0 .. MaxRetries
    BY <2>1 DEF NextRetryCount
  <2> QED
    BY <1>3, <2>1, <2>2 DEF PreClaim, WriteStatus
<1>4. ASSUME NEW e \in Episodes, ArchiveRename(e) PROVE AllMove
  BY <1>4 DEF ArchiveRename, RenameAway, RetryInv
<1>5. CASE ArchiveRestore
  BY <1>5 DEF ArchiveRestore
<1>6. CASE ArchivedClaim
  <2>1. ~replanned => held \in 0 .. MaxRetries
    BY <1>6 DEF ArchivedClaim, RetryInv
  <2> QED
    BY <1>6, <2>1 DEF ArchivedClaim, WriteStatus
<1>7. CASE Submit
  BY <1>7 DEF Submit
<1>8. CASE Poll
  BY <1>8 DEF Poll
<1>9. ASSUME NEW e \in Episodes, ScanSkip(e) PROVE AllMove
  BY <1>9 DEF ScanSkip
<1>10. ASSUME NEW e \in Episodes, ScanCancel(e) PROVE AllMove
  BY <1>10 DEF ScanCancel, CancelRef, Orphaned, Stalled
<1>11. CASE ReReadChanged
  BY <1>11 DEF ReReadChanged, DropRef
<1>12. CASE ReReadSame
  BY <1>12 DEF ReReadSame
<1>13. CASE StampCancelled
  BY <1>13 DEF StampCancelled, WriteStatus, DropRef
<1>14. CASE ScanDone
  BY <1>14 DEF ScanDone
<1>15. CASE PollDone
  BY <1>15 DEF PollDone
<1>16. CASE Shutdown
  BY <1>16 DEF Shutdown, RayGone, LocalsGone
<1>17. CASE EndSweep
  BY <1>17, SweepSpares DEF EndSweep, Sweep
<1>18. CASE Decide
  BY <1>18 DEF Decide, FailsAfterRound
<1>19. CASE Interrupt
  BY <1>19 DEF Interrupt
<1>20. CASE Crash
  BY <1>20 DEF Crash, RayGone, LocalsGone
<1>21. ASSUME NEW e \in Episodes, TaskStarts(e) PROVE AllMove
  BY <1>21 DEF TaskStarts, Stuck
<1>22. ASSUME NEW e \in Episodes, WorkerDies(e) PROVE AllMove
  <2>1. tries'[e] # tries[e] =>
          /\ tries'[e] = tries[e] + 1 /\ ~cancelled[e] /\ task[e] = "running"
    BY <1>22 DEF WorkerDies
  <2>2. task[e] = "running" /\ ~cancelled[e] => tries[e] > 0 \/ status[e] # Absent
    BY DEF WorkerPC
  <2>3. StatusMoves(e) /\ UNCHANGED status
    BY <1>22, <2>1, <2>2 DEF WorkerDies
  <2>4. \A f \in Episodes \ {e} : StatusMoves(f)
    BY <1>22 DEF WorkerDies
  <2> QED
    BY <2>3, <2>4
<1>23. ASSUME NEW e \in Episodes, TaskKilled(e) PROVE AllMove
  BY <1>23 DEF TaskKilled
<1>24. ASSUME NEW e \in Episodes, WorkerArchives(e) PROVE AllMove
  BY <1>24 DEF WorkerArchives, RenameAway, Stuck
<1>34. ASSUME NEW e \in Episodes, WorkerRestores(e) PROVE AllMove
  BY <1>34 DEF WorkerRestores, Stuck
<1>35. ASSUME NEW e \in Episodes, ArchivesLeftover(e) PROVE AllMove
  BY <1>35 DEF ArchivesLeftover, RenameAway, Stuck
<1>25. ASSUME NEW e \in Episodes, WorkerOpens(e) PROVE AllMove
  BY <1>25 DEF WorkerOpens, WriteStatus, Stuck
<1>26. ASSUME NEW e \in Episodes, SavesMetadata(e) PROVE AllMove
  BY <1>26 DEF SavesMetadata, Stuck
<1>27. ASSUME NEW e \in Episodes, \E st \in Outcome : Concludes(e, st) PROVE AllMove
  BY <1>27 DEF Concludes, WriteStatus, Outcome, Stuck
<1>28. ASSUME NEW e \in Episodes, Returns(e) PROVE AllMove
  BY <1>28 DEF Returns, Stuck
<1>29. CASE TimePasses
  BY <1>29 DEF TimePasses
<1>30. ASSUME NEW e \in Episodes, OpenFails(e) PROVE AllMove
  BY <1>30 DEF OpenFails, Stuck
<1>31. CASE UNCHANGED vars
  BY <1>31
<1> QED
  BY <1>1, <1>2, <1>3, <1>4, <1>5, <1>6, <1>7, <1>8, <1>9, <1>10, <1>11, <1>12, <1>13,
     <1>14, <1>15, <1>16, <1>17, <1>18, <1>19, <1>20, <1>21, <1>22, <1>23, <1>24, <1>25,
     <1>26, <1>27, <1>28, <1>29, <1>30, <1>31, <1>32, <1>33, <1>34, <1>35
  DEF Next, DriverStep, RayStep, WorkerStep

\* Only an attempt that is not cancelled enters the agent loop, and only from setup.
Enters(e) == wpc[e] # "loop" /\ wpc'[e] = "loop" => wpc[e] = "setup" /\ ~cancelled[e]
OnlyFromSetup == \A e \in Episodes : Enters(e)

LEMMA StepEnters ==
  ASSUME AccurateTimeouts, TypeOK, [Next]_vars
  PROVE  OnlyFromSetup
<1> USE DEF TypeOK, Enters, OnlyFromSetup, vars, disk, driver, session, batch,
            hand, results, ray, history
<1>1. CASE \E mode \in LaunchModes : Launch(mode)
  BY <1>1 DEF Launch
<1>2. CASE StartRound
  BY <1>2 DEF StartRound, FromScratch, FromStatuses
<1>32. ASSUME NEW e \in Episodes, SavesConfig(e) PROVE OnlyFromSetup
  BY <1>32 DEF SavesConfig
<1>33. CASE Planned
  BY <1>33 DEF Planned
<1>3. ASSUME NEW e \in Episodes, PreClaim(e) PROVE OnlyFromSetup
  BY <1>3 DEF PreClaim, WriteStatus
<1>4. ASSUME NEW e \in Episodes, ArchiveRename(e) PROVE OnlyFromSetup
  BY <1>4 DEF ArchiveRename, RenameAway
<1>5. CASE ArchiveRestore
  BY <1>5 DEF ArchiveRestore
<1>6. CASE ArchivedClaim
  BY <1>6 DEF ArchivedClaim, WriteStatus
<1>7. CASE Submit
  BY <1>7 DEF Submit
<1>8. CASE Poll
  BY <1>8 DEF Poll
<1>9. ASSUME NEW e \in Episodes, ScanSkip(e) PROVE OnlyFromSetup
  BY <1>9 DEF ScanSkip
<1>10. ASSUME NEW e \in Episodes, ScanCancel(e) PROVE OnlyFromSetup
  BY <1>10 DEF ScanCancel, CancelRef, Orphaned, Stalled
<1>11. CASE ReReadChanged
  BY <1>11 DEF ReReadChanged, DropRef
<1>12. CASE ReReadSame
  BY <1>12 DEF ReReadSame
<1>13. CASE StampCancelled
  BY <1>13 DEF StampCancelled, WriteStatus, DropRef
<1>14. CASE ScanDone
  BY <1>14 DEF ScanDone
<1>15. CASE PollDone
  BY <1>15 DEF PollDone
<1>16. CASE Shutdown
  BY <1>16 DEF Shutdown, RayGone, LocalsGone
<1>17. CASE EndSweep
  BY <1>17 DEF EndSweep, Sweep
<1>18. CASE Decide
  BY <1>18 DEF Decide, FailsAfterRound
<1>19. CASE Interrupt
  BY <1>19 DEF Interrupt
<1>20. CASE Crash
  BY <1>20 DEF Crash, RayGone, LocalsGone
<1>21. ASSUME NEW e \in Episodes, TaskStarts(e) PROVE OnlyFromSetup
  BY <1>21 DEF TaskStarts, Stuck
<1>22. ASSUME NEW e \in Episodes, WorkerDies(e) PROVE OnlyFromSetup
  BY <1>22 DEF WorkerDies
<1>23. ASSUME NEW e \in Episodes, TaskKilled(e) PROVE OnlyFromSetup
  BY <1>23 DEF TaskKilled
<1>24. ASSUME NEW e \in Episodes, WorkerArchives(e) PROVE OnlyFromSetup
  BY <1>24 DEF WorkerArchives, RenameAway, Stuck
<1>34. ASSUME NEW e \in Episodes, WorkerRestores(e) PROVE OnlyFromSetup
  BY <1>34 DEF WorkerRestores, Stuck
<1>35. ASSUME NEW e \in Episodes, ArchivesLeftover(e) PROVE OnlyFromSetup
  BY <1>35 DEF ArchivesLeftover, RenameAway, Stuck
<1>25. ASSUME NEW e \in Episodes, WorkerOpens(e) PROVE OnlyFromSetup
  BY <1>25 DEF WorkerOpens, WriteStatus, Stuck
<1>26. ASSUME NEW e \in Episodes, SavesMetadata(e) PROVE OnlyFromSetup
  BY <1>26 DEF SavesMetadata, Stuck
<1>27. ASSUME NEW e \in Episodes, \E st \in Outcome : Concludes(e, st) PROVE OnlyFromSetup
  BY <1>27 DEF Concludes, WriteStatus, Outcome, Stuck
<1>28. ASSUME NEW e \in Episodes, Returns(e) PROVE OnlyFromSetup
  BY <1>28 DEF Returns, Stuck
<1>29. CASE TimePasses
  BY <1>29 DEF TimePasses
<1>30. ASSUME NEW e \in Episodes, OpenFails(e) PROVE OnlyFromSetup
  BY <1>30 DEF OpenFails, Stuck
<1>31. CASE UNCHANGED vars
  BY <1>31
<1> QED
  BY <1>1, <1>2, <1>3, <1>4, <1>5, <1>6, <1>7, <1>8, <1>9, <1>10, <1>11, <1>12, <1>13,
     <1>14, <1>15, <1>16, <1>17, <1>18, <1>19, <1>20, <1>21, <1>22, <1>23, <1>24, <1>25,
     <1>26, <1>27, <1>28, <1>29, <1>30, <1>31, <1>32, <1>33, <1>34, <1>35
  DEF Next, DriverStep, RayStep, WorkerStep

-----------------------------------------------------------------------------
\* Accounting.

LEMMA StepKeptInv ==
  ASSUME AccurateTimeouts, TypeOK, DriverInv, ReportInv, CancelInv, KeptInv,
         [Next]_vars
  PROVE  KeptInv'
<1> USE DEF TypeOK, DriverInv, TasksInv, BatchInv, CancelInv, Settled, Kept, KeptInv, NothingLost,
            vars, disk, driver, session, batch,
            hand, results, ray, history
<1>1. CASE \E mode \in LaunchModes : Launch(mode)
  BY <1>1 DEF Launch
<1>2. CASE StartRound
  <2>1. /\ pc = "start" /\ refs' = todo' /\ roundFails' = {} /\ roundTrajs' = {}
        /\ UNCHANGED <<session, trajs, fails, retry, config, unwritten>> /\ outcome = "none"
    BY <1>2 DEF StartRound
  <2>2. launches # 0 /\ todo' \subseteq Episodes
    BY <1>2, <2>1 DEF StartRound, FromScratch, FromStatuses
  <2>3. CASE FromScratch
    <3>1. pc' = "plan"
      BY <2>3 DEF FromScratch
    <3> QED
      BY <2>1, <2>2, <3>1
  <2>4. CASE FromStatuses
    <3>1. pc' = "claim" /\ \E e \in Episodes : config[e]
      BY <2>4 DEF FromStatuses
    <3>2. \A e \in Episodes : \/ status'[e] = status[e]
                              \/ config[e] /\ status'[e] = "STALE" /\ status[e] \in InFlightStatuses
      BY <2>4, SweepSpares DEF FromStatuses, Sweep, StatusAfterSweep, Swept
    <3>3. \A e \in Episodes \ todo' : config[e] => status'[e] # Absent
      BY <2>4 DEF FromStatuses, ShouldRelaunch
    <3>5. launches = 1 => \A e \in Episodes : Settled(e)
      BY <2>1, <3>1
    <3>6. ASSUME NEW e \in Episodes \ todo' PROVE Kept(e)'
      <4>1. CASE launches = 1
        BY <4>1, <2>1, <3>2, <3>5
      <4>2. CASE launches > 1
        BY <4>2, <2>1, <3>2, <3>3
      <4> QED
        BY <4>1, <4>2, <2>2
    <3> QED
      BY <2>1, <2>2, <3>1, <3>6
  <2> QED
    BY <1>2, <2>3, <2>4 DEF StartRound
<1>32. ASSUME NEW e \in Episodes, SavesConfig(e) PROVE KeptInv'
  BY <1>32 DEF SavesConfig
<1>33. CASE Planned
  BY <1>33 DEF Planned
<1>3. ASSUME NEW e \in Episodes, PreClaim(e) PROVE KeptInv'
  BY <1>3 DEF PreClaim, WriteStatus
<1>4. ASSUME NEW e \in Episodes, ArchiveRename(e) PROVE KeptInv'
  BY <1>4 DEF ArchiveRename, RenameAway
<1>5. CASE ArchiveRestore
  BY <1>5 DEF ArchiveRestore
<1>6. CASE ArchivedClaim
  BY <1>6 DEF ArchivedClaim, WriteStatus
<1>7. CASE Submit
  BY <1>7 DEF Submit
<1>8. CASE Poll
  <2>1. \A e \in refs : task[e] = "ok" => status[e] \in FinishedStatuses \/ e \in unwritten
    BY DEF ReportInv, DeliveryInv
  <2>2. \A e \in Episodes \ refs' : Kept(e)'
    BY <1>8, <2>1 DEF Poll
  <2> QED
    BY <1>8, <2>2 DEF Poll
<1>9. ASSUME NEW e \in Episodes, ScanSkip(e) PROVE KeptInv'
  BY <1>9 DEF ScanSkip
<1>10. ASSUME NEW e \in Episodes, ScanCancel(e) PROVE KeptInv'
  BY <1>10 DEF ScanCancel, CancelRef, Orphaned, Stalled
<1>11. CASE ReReadChanged
  BY <1>11 DEF ReReadChanged, DropRef
<1>12. CASE ReReadSame
  BY <1>12 DEF ReReadSame
<1>13. CASE StampCancelled
  BY <1>13 DEF StampCancelled, WriteStatus, DropRef
<1>14. CASE ScanDone
  BY <1>14 DEF ScanDone
<1>15. CASE PollDone
  BY <1>15 DEF PollDone
<1>16. CASE Shutdown
  BY <1>16 DEF Shutdown, LocalsGone
<1>17. CASE EndSweep
  <2>1. /\ pc = "endsweep" /\ pc' = IF outcome = "aborted" THEN "down" ELSE "decide"
        /\ UNCHANGED <<config, session, batch, hand, results, unwritten>> /\ refs = {}
    BY <1>17 DEF EndSweep
  <2>2. \A e \in Episodes : \/ status'[e] = status[e]
                            \/ config[e] /\ status'[e] = "STALE" /\ status[e] \in InFlightStatuses
    BY <1>17, SweepSpares DEF EndSweep, Sweep, StatusAfterSweep, Swept
  <2> QED
    BY <2>1, <2>2
<1>18. CASE Decide
  <2>1. /\ pc = "decide" /\ outcome = "none" /\ refs = {} /\ launches # 0
        /\ roundFails' = {} /\ roundTrajs' = {} /\ trajs' = trajs \cup roundTrajs
        /\ fails' = (fails \cup roundFails) \ roundTrajs
        /\ UNCHANGED <<disk, launches, refs, unwritten>>
    BY <1>18 DEF Decide, FailsAfterRound
  <2>2. \A e \in roundTrajs \ unwritten : status[e] \in FinishedStatuses
    BY DEF ReportInv, ReportedInv, TrajectoriesFinished
  <2>3. \A e \in Episodes :
          \/ Settled(e)'
          \/ launches > 1 /\ (status[e] \in InFlightStatuses \/ ~config[e])
    BY <2>1, <2>2
  <2>5. CASE HasRetriable /\ roundNum < MaxRetryRounds
    <3>1. pc' = "start" /\ outcome' = "none"
      BY <1>18, <2>5, <2>1 DEF Decide
    <3> QED
      BY <2>1, <2>3, <3>1
  <2>6. CASE ~(HasRetriable /\ roundNum < MaxRetryRounds)
    <3>1. pc' = "down" /\ outcome' = "returned" /\ roundNum' = roundNum
      BY <1>18, <2>6 DEF Decide
    <3>2. \A e \in Episodes : config[e] /\ status[e] \in RetriableStatuses =>
            retry[e] >= MaxRetries \/ roundNum = MaxRetryRounds
      BY <2>6, Bounds DEF HasRetriable
    <3>3. NothingLost'
      BY <2>1, <2>3, <3>1, <3>2
    <3> QED
      BY <2>1, <3>1, <3>3
  <2> QED
    BY <2>5, <2>6
<1>19. CASE Interrupt
  BY <1>19 DEF Interrupt
<1>20. CASE Crash
  BY <1>20 DEF Crash, RayGone, LocalsGone
<1>21. ASSUME NEW e \in Episodes, TaskStarts(e) PROVE KeptInv'
  BY <1>21 DEF TaskStarts, Stuck
<1>22. ASSUME NEW e \in Episodes, WorkerDies(e) PROVE KeptInv'
  BY <1>22 DEF WorkerDies
<1>23. ASSUME NEW e \in Episodes, TaskKilled(e) PROVE KeptInv'
  BY <1>23 DEF TaskKilled
<1>24. ASSUME NEW e \in Episodes, WorkerArchives(e) PROVE KeptInv'
  BY <1>24 DEF WorkerArchives, RenameAway, Stuck
<1>34. ASSUME NEW e \in Episodes, WorkerRestores(e) PROVE KeptInv'
  BY <1>34 DEF WorkerRestores, Stuck
<1>35. ASSUME NEW e \in Episodes, ArchivesLeftover(e) PROVE KeptInv'
  BY <1>35 DEF ArchivesLeftover, RenameAway, Stuck
<1>25. ASSUME NEW e \in Episodes, WorkerOpens(e) PROVE KeptInv'
  BY <1>25 DEF WorkerOpens, WriteStatus, Stuck
<1>26. ASSUME NEW e \in Episodes, SavesMetadata(e) PROVE KeptInv'
  BY <1>26 DEF SavesMetadata, Stuck
<1>27. ASSUME NEW e \in Episodes, \E st \in Outcome : Concludes(e, st) PROVE KeptInv'
  BY <1>27 DEF Concludes, WriteStatus, Outcome, Stuck
<1>28. ASSUME NEW e \in Episodes, Returns(e) PROVE KeptInv'
  BY <1>28 DEF Returns, Stuck
<1>29. CASE TimePasses
  BY <1>29 DEF TimePasses
<1>30. ASSUME NEW e \in Episodes, OpenFails(e) PROVE KeptInv'
  BY <1>30 DEF OpenFails, Stuck
<1>31. CASE UNCHANGED vars
  BY <1>31
<1> QED
  BY <1>1, <1>2, <1>3, <1>4, <1>5, <1>6, <1>7, <1>8, <1>9, <1>10, <1>11, <1>12, <1>13,
     <1>14, <1>15, <1>16, <1>17, <1>18, <1>19, <1>20, <1>21, <1>22, <1>23, <1>24, <1>25,
     <1>26, <1>27, <1>28, <1>29, <1>30, <1>31, <1>32, <1>33, <1>34, <1>35
  DEF Next, DriverStep, RayStep, WorkerStep

-----------------------------------------------------------------------------
\* The invariants together, where no timeout declares a working task dead.
ResumeInv == TypeOK /\ DriverInv /\ RetryInv /\ CancelInv /\ AttemptInv

LEMMA InitResumeInv == Init => ResumeInv
<1>1. Init => CancelInv /\ AttemptInv
  BY DEF Init, CancelInv, AttemptInv, ClaimInv, AttemptOK, FileFollows, CountFollows, NotOver
<1> QED
  BY <1>1, InitTypeOK, InitDriverInv, InitRetryInv DEF ResumeInv

LEMMA StepResumeInv ==
  ASSUME AccurateTimeouts, ResumeInv, [Next]_vars
  PROVE  ResumeInv'
<1>1. TypeOK /\ DriverInv /\ RetryInv /\ CancelInv /\ ClaimInv /\ AttemptsOK
  BY DEF ResumeInv, AttemptInv, AttemptsOK
<1>2. TypeOK' /\ DriverInv'
  BY <1>1, StepTypeOK, StepDriverInv
<1>3. RetryInv' /\ CancelInv'
  BY <1>1, StepRetryInv, StepCancelInv
<1>4. ClaimInv' /\ AttemptsOK'
  BY <1>1, StepClaimInv, StepAttemptsOK
<1> QED
  BY <1>2, <1>3, <1>4 DEF ResumeInv, AttemptInv, AttemptsOK

\* Where timeouts are right every attempt stays in step with its status file.
THEOREM Resumable == ASSUME AccurateTimeouts PROVE Spec => []ResumeInv
<1>1. ResumeInv /\ [Next]_vars => ResumeInv'
  BY StepResumeInv
<1> QED
  BY <1>1, InitResumeInv, PTL DEF Spec

\* A task that can still start or is executing its episode shows in status.json
\* (_pre_claim before submission, _open_status after it).
THEOREM Visible == ASSUME AccurateTimeouts PROVE Spec => []WorkersVisible
<1>1. ResumeInv => WorkersVisible
  <2> SUFFICES ASSUME ResumeInv, NEW e \in Episodes,
                      task[e] \in {"pending", "running"}, ~cancelled[e],
                      IF tries[e] = 0 THEN wpc[e] \notin {"closing", "failing"}
                      ELSE wpc[e] \in {"setup", "loop"}
               PROVE  \/ status[e] \in InFlightStatuses
                      \/ tries[e] > 0 /\ overwrite[e] /\ status[e] = Absent
    BY DEF WorkersVisible
  <2>1. AttemptOK(e) /\ (wpc[e] # "none" => task[e] = "running") /\ wpc[e] \in WorkerPC
        /\ (tries[e] > 0 => tries[e] # 0)
    BY DEF ResumeInv, AttemptInv, DriverInv, TasksInv, TypeOK
  <2>2. CASE wpc[e] \in {"setup", "loop"}
    BY <2>1, <2>2 DEF AttemptOK, FileFollows
  <2>3. CASE tries[e] = 0 /\ wpc[e] \notin {"setup", "loop"}
    <3>1. wpc[e] \in {"none", "opening"}
      BY <2>1, <2>3 DEF AttemptOK, FileFollows, WorkerPC
    <3> QED
      BY <2>1, <2>3, <3>1 DEF AttemptOK, FileFollows
  <2> QED
    BY <2>2, <2>3
<1> QED
  BY <1>1, Resumable, PTL

-----------------------------------------------------------------------------
\* What a step does to a status file.

LEMMA ResumeStep ==
  ASSUME AccurateTimeouts, ResumeInv, [Next]_vars
  PROVE  AllMove /\ OnlyFromSetup
<1>1. TypeOK /\ DriverInv /\ RetryInv /\ CancelInv /\ ClaimInv /\ AttemptsOK
  BY DEF ResumeInv, AttemptInv, AttemptsOK
<1> QED
  BY <1>1, StepMoves, StepEnters

\* A finished episode never enters the agent loop again, over any number of
\* launches and retry rounds (the resume table of get_episodes_to_run), unless Ray
\* executes its task again or a plan from scratch was laid over it.
THEOREM NeverRerun == ASSUME AccurateTimeouts PROVE Spec => FinishedNeverRerun
<1>1. ASSUME ResumeInv, [Next]_vars
      PROVE  [\A e \in finishedOnce \ redone :
                wpc[e] # "loop" /\ wpc'[e] = "loop" => replanned]_vars
  <2> SUFFICES ASSUME NEW e \in finishedOnce \ redone, wpc[e] # "loop", wpc'[e] = "loop"
               PROVE  replanned
    OBVIOUS
  <2>1. e \in Episodes /\ replanned \in BOOLEAN
    BY <1>1 DEF ResumeInv, TypeOK
  <2>2. wpc[e] = "setup" /\ ~cancelled[e] /\ AttemptOK(e)
    BY <1>1, <2>1, ResumeStep DEF OnlyFromSetup, Enters, ResumeInv, AttemptInv
  <2> QED
    BY <2>1, <2>2 DEF AttemptOK, NotOver
<1> QED
  BY <1>1, Resumable, PTL DEF Spec, FinishedNeverRerun

\* A terminal status is archived, never overwritten in place, whatever the order
\* of driver, workers and cancellations (_pre_claim and _kill_stale_workers); only
\* an execution that Ray started again writes over it.
THEOREM OnlyArchived == ASSUME AccurateTimeouts PROVE Spec => TerminalOnlyArchived
<1>1. ASSUME ResumeInv, [Next]_vars
      PROVE  [\A e \in Episodes :
               status[e] \in TerminalStatuses /\ status'[e] # status[e] =>
                 \/ status'[e] = Absent
                 \/ /\ tries[e] > 0 /\ wpc[e] = "opening" /\ ~overwrite[e]
                    /\ status'[e] = "RUNNING"]_vars
  BY <1>1, ResumeStep DEF AllMove, Moves, TerminalMoves
<1> QED
  BY <1>1, Resumable, PTL DEF Spec, TerminalOnlyArchived

-----------------------------------------------------------------------------
\* Refinement of the episode lifecycle.

LEMMA Phases ==
  /\ PhaseOf(Absent) = "unstarted"
  /\ \A st \in InFlightStatuses : PhaseOf(st) = "inflight"
  /\ \A st \in RetriableStatuses : PhaseOf(st) = "retriable"
  /\ \A st \in FinishedStatuses : PhaseOf(st) = "finished"
<1>1. /\ Absent \notin InFlightStatuses \cup RetriableStatuses \cup FinishedStatuses
      /\ InFlightStatuses \cap RetriableStatuses = {}
      /\ InFlightStatuses \cap FinishedStatuses = {}
      /\ RetriableStatuses \cap FinishedStatuses = {}
  OBVIOUS
<1> HIDE DEF Absent, InFlightStatuses, RetriableStatuses, FinishedStatuses
<1> QED
  BY <1>1, Zenon DEF PhaseOf

phases == [e \in Episodes |-> PhaseOf(status[e])]

LEMMA LifecycleInit == Init => Lifecycle!Init
  BY Phases DEF Init, Lifecycle!Init

\* A plan from scratch over old attempts is never undone.
LEMMA StepReplanned == ASSUME [Next]_vars PROVE replanned => replanned'
<1>1. CASE StartRound
  BY <1>1 DEF StartRound, FromScratch, FromStatuses
<1>2. CASE UNCHANGED vars
  BY <1>2 DEF vars, history
<1>3. ASSUME NEW e \in Episodes, RayStep(e) \/ WorkerStep(e) PROVE replanned' = replanned
  BY <1>3 DEF RayStep, WorkerStep, TaskStarts, WorkerDies, TaskKilled, WorkerArchives,
     WorkerRestores, WorkerOpens, OpenFails, ArchivesLeftover, SavesMetadata, Concludes,
     Returns, history
<1>4. CASE (\E mode \in LaunchModes : Launch(mode)) \/ Interrupt \/ Crash \/ TimePasses
  BY <1>4 DEF Launch, Interrupt, Crash, TimePasses, history
<1>5. CASE DriverStep /\ ~StartRound
  BY <1>5 DEF DriverStep, Planned, SavesConfig, PreClaim, ArchiveRename, ArchiveRestore,
     ArchivedClaim, Submit, Poll, ScanSkip, ScanCancel, ReReadChanged, ReReadSame,
     StampCancelled, ScanDone, PollDone, Shutdown, EndSweep, Decide, history
<1> QED
  BY <1>1, <1>2, <1>3, <1>4, <1>5 DEF Next

LEMMA LifecycleStep ==
  ASSUME AccurateTimeouts, ResumeInv, ResumeInv', [Next]_vars
  PROVE  [Lifecycle!Next]_<<phases, retry, tries, replanned>>
<1>1. /\ status \in [Episodes -> Status \cup {Absent}] /\ retry \in [Episodes -> Nat]
      /\ status' \in [Episodes -> Status \cup {Absent}] /\ retry' \in [Episodes -> Nat]
      /\ tries' \in [Episodes -> 0 .. TaskRetries]
  BY DEF ResumeInv, TypeOK
<1>2. ASSUME ~replanned', NEW e \in Episodes
      PROVE  \/ Lifecycle!Executor(e)
             \/ /\ tries'[e] = tries[e]
                /\ \/ Lifecycle!Start(e) \/ Lifecycle!Settle(e) \/ Lifecycle!Retry(e)
                   \/ Lifecycle!Redo(e) \/ Lifecycle!Stays(e)
  <2>1. StatusMoves(e)
    BY <1>2, ResumeStep DEF AllMove, Moves
  <2>2. phases[e] = PhaseOf(status[e]) /\ phases'[e] = PhaseOf(status'[e])
    BY DEF phases
  <2>3. CASE /\ status'[e] = status[e] /\ retry'[e] = retry[e]
             /\ tries'[e] = 0 \/ (tries'[e] = tries[e] + 1 /\ (tries[e] > 0 \/ status[e] # Absent))
    <3>1. status[e] # Absent => PhaseOf(status[e]) # "unstarted"
      BY <1>1, Phases
    <3> QED
      BY <2>2, <2>3, <3>1 DEF Lifecycle!Executor, phases
  <2>7. CASE status'[e] = status[e] /\ retry'[e] = retry[e] /\ tries'[e] = tries[e]
    BY <2>2, <2>7 DEF Lifecycle!Stays, phases
  <2>4. CASE /\ status[e] = Absent /\ status'[e] = "QUEUED" /\ retry'[e] \in 0 .. MaxRetries
             /\ tries'[e] = tries[e]
    BY <2>2, <2>4, Phases DEF Lifecycle!Start, phases
  <2>5. CASE /\ status[e] \in InFlightStatuses /\ status'[e] \in Status
             /\ retry'[e] = retry[e] /\ tries'[e] = tries[e]
    BY <2>2, <2>5, Phases DEF Lifecycle!Settle, Lifecycle!Stays, phases
  <2>6. CASE /\ status[e] \in RetriableStatuses /\ retry[e] < MaxRetries
             /\ status'[e] = Absent /\ retry'[e] = 0 /\ tries'[e] = tries[e]
    BY <2>2, <2>6, Phases DEF Lifecycle!Retry, phases
  <2>8. CASE /\ tries[e] > 0 /\ status'[e] \in Status \cup {Absent}
             /\ retry'[e] <= MaxRetries + tries[e] /\ tries'[e] = tries[e]
    <3>1. PhaseOf(status'[e]) \in Lifecycle!Phase
      BY <2>8, Phases DEF Lifecycle!Phase
    <3> QED
      BY <2>2, <2>8, <3>1 DEF Lifecycle!Redo, phases
  <2> QED
    BY <2>1, <2>3, <2>4, <2>5, <2>6, <2>7, <2>8 DEF StatusMoves
<1>3. /\ phases' = [e \in Episodes |-> phases'[e]] /\ retry' = [e \in Episodes |-> retry'[e]]
      /\ tries' = [e \in Episodes |-> tries'[e]]
  BY <1>1 DEF phases
<1>4. replanned => replanned'
  BY <1>1, StepReplanned DEF ResumeInv
<1> QED
  BY <1>2, <1>3, <1>4 DEF Lifecycle!Next, phases

\* The runner implements the episode lifecycle: driver, workers and crashes move an
\* episode only through its attempts, within the retry budget, except where Ray
\* executes a task again or a plan from scratch is laid over old attempts.
THEOREM LifecycleImplemented == ASSUME AccurateTimeouts PROVE Spec => ImplementsLifecycle
<1>1. ResumeInv /\ ResumeInv' /\ [Next]_vars =>
        [Lifecycle!Next]_<<phases, retry, tries, replanned>>
  BY LifecycleStep
<1> QED
  BY <1>1, LifecycleInit, Resumable, PTL
  DEF Spec, ImplementsLifecycle, Lifecycle!Spec, phases

-----------------------------------------------------------------------------
\* At a normal return every episode is accounted for: finished, out of retries or
\* rounds, reported as a failure, or as a trajectory without a last status, or, in a
\* later launch, left to its owner or without the config that would name it.
THEOREM NoneLost ==
  ASSUME AccurateTimeouts
  PROVE  Spec => []NothingLost
<1> DEFINE Inv == TypeOK /\ DriverInv /\ ReportInv /\ CancelInv /\ KeptInv
<1>1. Init => Inv
  <2>1. Init => CancelInv /\ KeptInv
    BY DEF Init, CancelInv, KeptInv, NothingLost, Kept, Settled
  <2> QED
    BY <2>1, InitTypeOK, InitDriverInv, InitReportInv
<1>2. Inv /\ [Next]_vars => Inv'
  BY StepTypeOK, StepDriverInv, StepReportInv, StepCancelInv, StepKeptInv
<1>3. Inv => NothingLost
  BY DEF KeptInv
<1> QED
  BY <1>1, <1>2, <1>3, PTL DEF Spec

-----------------------------------------------------------------------------
\* The poll loop comes to an end.

\* Every deadline has passed: nothing in flight is younger, and the idle clock runs
\* when a slot is free.
Expired ==
  /\ \A e \in refs : status[e] \in InFlightStatuses => age[e] = MaxAge
  /\ HasIdleCapacity => idleFor = MaxAge

\* What then takes a ref out of the loop, or works towards it: a result to collect, a
\* verdict to pass, a cancellation Ray has still to carry out, or a worker that is
\* about to write its status.
WayOut ==
  \/ refs = {}
  \/ \E e \in refs : task[e] \in {"ok", "err"} \/ Orphaned(e) \/ Stalled(e)
  \/ \E e \in Episodes : cancelled[e] /\ task[e] \in {"pending", "running"}
  \/ \E e \in refs : wpc[e] \in {"archiving", "archived", "opening"} /\ ~Stuck(e)

\* Nothing is promised for a ref whose status.json is neither QUEUED nor RUNNING:
\* _kill_stale_workers passes it over.
NoHang ==
  pc = "wait" /\ Expired /\ (\A e \in refs : status[e] \in InFlightStatuses) => WayOut

LEMMA RunningHasWayOut ==
  ASSUME ResumeInv, Expired, \A e \in refs : status[e] \in InFlightStatuses,
         NEW e \in Episodes, task[e] = "running"
  PROVE  WayOut
<1>1. CASE cancelled[e]
  BY <1>1 DEF WayOut
<1>2. CASE ~ cancelled[e]
  <2>1. e \in refs /\ wpc[e] \in WorkerPC \ {"none"} /\ FileFollows(e)
    BY <1>2 DEF ResumeInv, CancelInv, AttemptInv, AttemptOK, TypeOK, WorkerPC
  <2>2. CASE status[e] = "RUNNING"
    <3>1. age[e] = MaxAge
      BY <2>1, <2>2 DEF Expired
    <3>2. Stalled(e)
      BY <2>2, <3>1, LimitsAssumption DEF Stalled
    <3> QED
      BY <2>1, <3>2 DEF WayOut
  <2>3. CASE status[e] = "QUEUED"
    <3>1. wpc[e] \in {"archiving", "archived", "opening"}
      BY <2>1, <2>3 DEF FileFollows, WorkerPC
    <3> QED
      BY <1>2, <2>1, <3>1 DEF WayOut, Stuck
  <2> QED
    BY <2>1, <2>2, <2>3
<1> QED
  BY <1>1, <1>2

LEMMA ExpiryHasWayOut == ResumeInv => NoHang
<1> SUFFICES ASSUME ResumeInv, pc = "wait", Expired, refs # {},
                    \A e \in refs : status[e] \in InFlightStatuses
             PROVE  WayOut
  BY DEF NoHang, WayOut
<1>1. PICK e \in refs : TRUE
  OBVIOUS
<1>2. e \in Episodes /\ task[e] \in {"pending", "running", "ok", "err"}
  BY <1>1 DEF ResumeInv, RetryInv, TypeOK, TaskState
<1>3. CASE ~ HasIdleCapacity
  <2>1. {f \in Episodes : task[f] = "running"} # {}
    BY <1>3, BoundsAssumption, FS_EmptySet DEF HasIdleCapacity
  <2> QED
    BY <2>1, RunningHasWayOut
<1>4. CASE HasIdleCapacity
  <2>1. CASE task[e] \in {"ok", "err"}
    BY <1>1, <2>1 DEF WayOut
  <2>2. CASE task[e] = "running"
    BY <1>2, <2>2, RunningHasWayOut
  <2>3. CASE task[e] = "pending"
    <3>1. status[e] \in InFlightStatuses /\ age[e] = MaxAge /\ idleFor = MaxAge
      BY <1>1, <1>4 DEF Expired
    <3>2. Orphaned(e) \/ Stalled(e)
      BY <3>1, LimitsAssumption DEF Orphaned, Stalled, NotIdle
    <3> QED
      BY <1>1, <3>2 DEF WayOut
  <2> QED
    BY <1>2, <2>1, <2>2, <2>3
<1> QED
  BY <1>3, <1>4

\* "Two stall classes are handled so the poll loop can't hang on a ref forever": as long
\* as the driver stays in the loop, every step lowers a well-founded rank
\* (NoInfiniteDescent) or is one of its looks that finds nothing new; and once every
\* deadline has passed there is a way out of the loop for some ref, as long as no ref's
\* status.json has left QUEUED and RUNNING (_poll_ray and _kill_stale_workers; a worker
\* that hangs in task.close() is not QUEUED or RUNNING any more).
THEOREM PollCannotHang ==
  ASSUME AccurateTimeouts
  PROVE  Spec => [][PollAdvances]_vars /\ []NoHang
<1>1. ResumeInv /\ ResumeInv' /\ [Next]_vars => [PollAdvances]_vars
  BY StepAdvances DEF ResumeInv
<1> QED
  BY <1>1, ExpiryHasWayOut, Resumable, PTL DEF Spec
=============================================================================
