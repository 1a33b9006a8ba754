------------------------ MODULE SequentialRun_proofs ------------------------
(***************************************************************************)
(* Proofs about SequentialRun, for any number of episodes, launches, kills *)
(* and passes of the tools, and for any limits.                            *)
(***************************************************************************)
EXTENDS SequentialRun, FiniteSetTheorems, WellFoundedInduction, TLAPS

USE DEF InFlightStatuses, TerminalStatuses, RetriableStatuses, FinishedStatuses, Status, Absent
USE DEF losses

-----------------------------------------------------------------------------
(* Types *)

LEMMA WriteTypes ==
  ASSUME TypeOK, NEW e \in Episodes, NEW st \in Status, NEW rc \in Nat, WriteStatus(e, st, rc)
  PROVE  /\ status' \in [Episodes -> Status \cup {Absent}] /\ retry' \in [Episodes -> Nat]
         /\ age' \in [Episodes -> 0 .. MaxAge] /\ dir' \in [Episodes -> BOOLEAN]
         /\ touched' \in SUBSET Episodes
<1>1. 0 \in 0 .. MaxAge
  BY SequentialAssumption
<1> QED
  BY <1>1 DEF TypeOK, DiskOK, HistoryOK, WriteStatus

\* The retry_count of an attempt is a number.
LEMMA RetryIsNat ==
  ASSUME NEW st \in Status \cup {Absent}, NEW n \in Nat
  PROVE  NextRetryCount(st, n) \in Nat
<1>1. CASE st = Absent
  BY <1>1 DEF NextRetryCount
<1>2. CASE st \in InFlightStatuses
  BY <1>2 DEF NextRetryCount
<1>3. CASE st \in TerminalStatuses
  BY <1>3 DEF NextRetryCount
<1> QED
  BY <1>1, <1>2, <1>3

LEMMA OlderTypes == ASSUME NEW n \in 0 .. MaxAge PROVE Older(n) \in 0 .. MaxAge
BY SequentialAssumption DEF Older

LEMMA DiskTypes == ASSUME TypeOK, [Next]_vars PROVE DiskOK'
<1> USE DEF TypeOK, DiskOK
<1>1. CASE StartRound
  <2>1. UNCHANGED <<retry, age, meta, config, dir, counted>> /\ (FromScratch \/ FromStatuses)
    BY <1>1 DEF StartRound
  <2>2. status' \in [Episodes -> Status \cup {Absent}]
    BY <2>1 DEF FromScratch, FromStatuses
  <2> QED
    BY <2>1, <2>2
<1>2. CASE Move
  <2>1. cur \in Episodes /\ 0 \in 0 .. MaxAge
    BY <1>2, SequentialAssumption DEF Move, BusyOK
  <2> QED
    BY <1>2, <2>1 DEF Move
<1>3. CASE Restore \/ SavesMetadata \/ (\E e \in Episodes : SavesConfig(e))
  BY <1>3 DEF Restore, SavesMetadata, SavesConfig
<1>4. CASE Write \/ Close
  <2>1. cur \in Episodes /\ held \in Nat
    BY <1>4 DEF Write, Close, BusyOK, DriverOK
  <2>2. \E st \in Status : WriteStatus(cur, st, held)
    BY <1>4 DEF Write, Close, DriverOK, Verdicts
  <2> QED
    BY <1>4, <2>1, <2>2, WriteTypes DEF Write, Close
<1>5. CASE Finalize
  <2>1. cur \in Episodes
    BY <1>5 DEF Finalize, BusyOK
  <2>2. counted[cur] + 1 \in Nat
    BY <2>1
  <2> QED
    BY <1>5, <2>2 DEF Finalize, disk
<1>6. CASE ToolWrites
  <2>1. tcur \in Episodes /\ theld \in Nat
    BY <1>6 DEF ToolWrites, BusyOK, ToolOK
  <2>2. \E st \in Status : WriteStatus(tcur, st, theld)
    BY <1>6 DEF ToolWrites
  <2> QED
    BY <1>6, <2>1, <2>2, WriteTypes DEF ToolWrites
<1>7. CASE TimePasses
  <2>1. age' \in [Episodes -> 0 .. MaxAge]
    BY <1>7, OlderTypes DEF TimePasses
  <2> QED
    BY <1>7, <2>1 DEF TimePasses
<1>8. CASE UNCHANGED <<disk, counted>>
  BY <1>8 DEF disk
<1>9. CASE Interrupt \/ Kill \/ (\E mode \in LaunchModes : Launch(mode)) \/ Claimed \/ RoundEnds \/ Decide
           \/ RestoreFails \/ (\E st \in Verdicts : Raises(st)) \/ ViewerLooks \/ ToolDone
           \/ Planned \/ Concludes
  BY <1>8, <1>9 DEF Interrupt, Kill, Launch, Claimed, RoundEnds, Decide, RestoreFails, Raises,
     ViewerLooks, ToolDone, Planned, Concludes
<1>10. CASE (\E e \in Episodes : Claim(e) \/ Run(e) \/ ToolReads(e) \/ ToolSkips(e))
            \/ (\E tasks \in SUBSET Episodes : ResetStarts(tasks)) \/ UNCHANGED vars
  BY <1>8, <1>10 DEF Claim, Run, ToolReads, ToolSkips, ResetStarts, vars
<1> QED
  BY <1>1, <1>2, <1>3, <1>4, <1>5, <1>6, <1>7, <1>9, <1>10 DEF Next, Driver, Tool

LEMMA EndsTypes ==
  ASSUME TypeOK, NEW how \in {"returned", "aborted"}, Ends(how)
  PROVE  /\ pc' \in PCs /\ outcome' \in {"none", "returned", "aborted"}
         /\ todo' \in SUBSET Episodes /\ queue' \in SUBSET Episodes
         /\ cur' = NoEpisode /\ held' \in Nat /\ pc' = "down"
         /\ overwrite' \in [Episodes -> BOOLEAN] /\ verdict' \in Verdicts
BY DEF Ends, PCs, Verdicts

LEMMA DriverTypes == ASSUME TypeOK, [Next]_vars PROVE DriverOK'
<1> USE DEF TypeOK, DriverOK
<1>0. 0 \in 0 .. MaxAge /\ 0 \in 0 .. MaxRetryRounds /\ MaxRetryRounds \in Nat
  BY SequentialAssumption
<1>1. ASSUME NEW mode \in LaunchModes, Launch(mode) PROVE DriverOK'
  BY <1>0, <1>1, SequentialAssumption DEF Launch, PCs, work
<1>2. CASE StartRound
  <2>1. /\ todo' \in SUBSET Episodes /\ queue' \in SUBSET Episodes /\ pc' \in PCs
        /\ overwrite' \in [Episodes -> BOOLEAN]
    BY <1>2 DEF StartRound, FromScratch, FromStatuses, PCs
  <2> QED
    BY <1>2, <2>1 DEF StartRound, expfile, session
<1>p. CASE Planned \/ (\E e \in Episodes : SavesConfig(e))
  BY <1>p DEF Planned, SavesConfig, PCs, expfile, session
<1>3. CASE Claimed \/ RoundEnds
  BY <1>0, <1>3 DEF Claimed, RoundEnds, Heartbeat, PCs, session, work
<1>4. CASE Leaves("aborted") /\ UNCHANGED <<resume, roundNum, launches, kills, job>>
  BY <1>0, <1>4, EndsTypes DEF Leaves
<1>5. CASE Interrupt
  BY <1>4, <1>5 DEF Interrupt
<1>6. CASE Kill
  <2>1. kills' \in Nat
    BY <1>6 DEF Kill
  <2> QED
    BY <1>6, <2>1, EndsTypes DEF Kill, expfile
<1>7. CASE Decide
  <2>1. CASE pc' = "down"
    BY <1>0, <1>7, <2>1, EndsTypes DEF Decide, Leaves
  <2>2. CASE pc' # "down"
    <3>1. /\ roundNum < MaxRetryRounds /\ roundNum' = roundNum + 1
          /\ pc' = "start" /\ resume' = TRUE
          /\ UNCHANGED <<outcome, exp, beat, todo, queue, cur, held, overwrite, verdict>>
      BY <1>7, <2>2 DEF Decide, Leaves, Ends, expfile
    <3>2. roundNum + 1 \in 0 .. MaxRetryRounds
      BY <1>0, <3>1
    <3> QED
      BY <1>7, <3>1, <3>2 DEF Decide, PCs
  <2> QED
    BY <2>1, <2>2
<1>8. ASSUME NEW e \in Episodes, Claim(e) \/ Run(e) PROVE DriverOK'
  <2>1. NextRetryCount(status[e], retry[e]) \in Nat
    BY RetryIsNat DEF DiskOK
  <2> QED
    BY <1>0, <1>8, <2>1 DEF Claim, Run, ReadPrior, Heartbeat, PCs, expfile, session
<1>9. CASE Move \/ Restore \/ SavesMetadata
  BY <1>9 DEF Move, Restore, SavesMetadata, PCs, expfile, session, work
<1>10. CASE RestoreFails
  <2>1. CASE job = "claim"
    BY <1>4, <1>10, <2>1 DEF RestoreFails
  <2>2. CASE job = "open"
    BY <1>10, <2>2 DEF RestoreFails, PCs, expfile
  <2> QED
    BY <2>1, <2>2
<1>11. CASE Write
  BY <1>11 DEF Write, PCs, expfile, session
<1>12. ASSUME NEW st \in Verdicts, Raises(st) PROVE DriverOK'
  BY <1>12 DEF Raises, PCs, expfile, session
<1>13. CASE Finalize \/ Concludes
  BY <1>13 DEF Finalize, Concludes, PCs, Verdicts, expfile, session, work
<1>14. CASE Close
  <2>1. CASE verdict # "RUNNING"
    BY <1>14, <2>1 DEF Close, PCs, Verdicts, expfile
  <2>2. CASE verdict = "RUNNING"
    BY <1>4, <1>14, <2>2 DEF Close
  <2> QED
    BY <2>1, <2>2
<1>15. CASE TimePasses
  BY <1>15, OlderTypes DEF TimePasses, session, work
<1>16. CASE UNCHANGED <<expfile, pc, session, work>>
  BY <1>16 DEF expfile, session, work
<1>17. CASE Tool \/ UNCHANGED vars
  BY <1>16, <1>17 DEF Tool, ViewerLooks, ToolDone, ToolReads, ToolSkips, ResetStarts,
       ToolWrites, vars
<1> QED
  BY <1>1, <1>2, <1>p, <1>3, <1>5, <1>6, <1>7, <1>8, <1>9, <1>10, <1>11, <1>12, <1>13, <1>14, <1>15, <1>17
  DEF Next, Driver

LEMMA ToolTypes == ASSUME TypeOK, [Next]_vars PROVE ToolOK'
<1> USE DEF TypeOK, ToolOK
<1>1. CASE ViewerLooks
  <2>1. dead' = ~DriverAlive
    BY <1>1 DEF ViewerLooks
  <2>2. dead' \in BOOLEAN
    BY <2>1, Zenon
  <2>3. ttodo' \in SUBSET Episodes /\ passes' = passes + 1
    BY <1>1 DEF ViewerLooks
  <2> QED
    BY <1>1, <2>2, <2>3 DEF ViewerLooks
<1>2. ASSUME NEW tasks \in SUBSET Episodes, ResetStarts(tasks) PROVE ToolOK'
  <2>1. dead' \in BOOLEAN
    BY <1>2, Zenon DEF ResetStarts
  <2>2. ttodo' \in SUBSET Episodes /\ passes' \in Nat
    BY <1>2 DEF ResetStarts
  <2> QED
    BY <1>2, <2>1, <2>2 DEF ResetStarts
<1>3. ASSUME NEW e \in Episodes, ToolReads(e) \/ ToolSkips(e) PROVE ToolOK'
  <2>1. CASE ToolReads(e)
    <3>1. theld' = (IF tool = "reset" THEN 0 ELSE retry[e]) /\ retry[e] \in Nat
      BY <2>1 DEF ToolReads, DiskOK
    <3>2. theld' \in Nat
      BY <3>1
    <3> QED
      BY <2>1, <3>2 DEF ToolReads
  <2>2. CASE ToolSkips(e)
    BY <2>2 DEF ToolSkips
  <2> QED
    BY <1>3, <2>1, <2>2
<1>4. CASE ToolWrites \/ ToolDone
  <2>1. dead' \in BOOLEAN
    <3>1. dead' = dead \/ dead' = FALSE
      BY <1>4, Zenon DEF ToolWrites, ToolDone
    <3> QED
      BY <3>1, Zenon
  <2> QED
    BY <1>4, <2>1 DEF ToolWrites, ToolDone
<1>5. CASE UNCHANGED outside
  BY <1>5 DEF outside
<1>6. CASE Driver \/ Interrupt \/ Kill \/ TimePasses \/ (\E mode \in LaunchModes : Launch(mode)) \/ UNCHANGED vars
  BY <1>5, <1>6 DEF Driver, Interrupt, Kill, TimePasses, Launch, vars, StartRound, Claimed,
       RoundEnds,
     Decide, Claim, Run, Move, Restore, RestoreFails, Write, SavesMetadata, Raises, Finalize, Close,
     Planned, SavesConfig, Concludes
<1> QED
  BY <1>1, <1>2, <1>3, <1>4, <1>6 DEF Next, Tool

LEMMA HistoryTypes == ASSUME TypeOK, [Next]_vars PROVE HistoryOK'
<1> USE DEF TypeOK, HistoryOK
<1>1. CASE StartRound
  BY <1>1 DEF StartRound, FromScratch, FromStatuses
<1>c. CutsOff => halfdone' \in [Episodes -> Nat]
  <2>1. AheadOfStatus => cur \in Episodes
    BY DEF BusyOK, AheadOfStatus
  <2>2. AheadOfStatus => halfdone[cur] + 1 \in Nat
    BY <2>1
  <2> QED
    BY <2>1, <2>2 DEF CutsOff
<1>2. CASE Interrupt \/ Kill
  <2>1. cur \in Episodes \/ pc # "moved"
    BY DEF BusyOK
  <2>2. Forsakes /\ UNCHANGED <<touched, finished, excused>>
    BY <1>2 DEF Interrupt, Kill
  <2> QED
    BY <1>c, <2>1, <2>2 DEF Forsakes, DriverOK
<1>p. ASSUME NEW e \in Episodes, SavesConfig(e) PROVE HistoryOK'
  BY <1>p DEF SavesConfig
<1>r. ASSUME NEW st \in Verdicts, Raises(st) PROVE HistoryOK'
  BY <1>c, <1>r DEF Raises
<1>3. CASE Move
  BY <1>3 DEF Move, BusyOK
<1>4. CASE Write \/ Close
  BY <1>4 DEF Write, Close, WriteStatus, Finish, BusyOK
<1>5. ASSUME NEW e \in Episodes, ToolReads(e) \/ ToolSkips(e) PROVE HistoryOK'
  BY <1>5 DEF ToolReads, ToolSkips, history
<1>6. CASE ToolWrites
  BY <1>6 DEF ToolWrites, WriteStatus, BusyOK
<1>7. CASE UNCHANGED history
  BY <1>7 DEF history
<1>8. CASE TimePasses \/ (\E mode \in LaunchModes : Launch(mode)) \/ UNCHANGED vars
  BY <1>7, <1>8 DEF TimePasses, Launch, vars
<1>9. CASE Claimed \/ RoundEnds \/ Decide \/ (\E e \in Episodes : Claim(e) \/ Run(e)) \/ Restore
           \/ RestoreFails \/ SavesMetadata \/ Finalize \/ Planned \/ Concludes
           \/ ViewerLooks \/ ToolDone \/ (\E tasks \in SUBSET Episodes : ResetStarts(tasks))
  BY <1>7, <1>9 DEF Claimed, RoundEnds, Decide, Claim, Run, Restore, RestoreFails, SavesMetadata,
     Planned, Concludes, Finalize, ViewerLooks, ToolDone, ResetStarts
<1> QED
  BY <1>1, <1>2, <1>p, <1>r, <1>3, <1>4, <1>5, <1>6, <1>8, <1>9 DEF Next, Tool, Driver

LEMMA BusyTypes == ASSUME TypeOK, [Next]_vars PROVE BusyOK'
<1> USE DEF TypeOK, BusyOK
<1>0. NoEpisode \notin Episodes
  BY SequentialAssumption
<1>1. CASE UNCHANGED <<tcur, tpc>> /\ pc' = "down" /\ cur' = NoEpisode
  BY <1>0, <1>1
<1>2. CASE Interrupt \/ Kill
  BY <1>1, <1>2 DEF Interrupt, Kill, Leaves, Ends, outside
<1>3. CASE Decide
  BY <1>0, <1>3 DEF Decide, Leaves, Ends, outside
<1>4. CASE (\E mode \in LaunchModes : Launch(mode)) \/ Claimed \/ RoundEnds \/ Planned
           \/ (\E e \in Episodes : SavesConfig(e))
  BY <1>4 DEF Launch, Claimed, RoundEnds, Planned, SavesConfig, outside, work
<1>s. CASE StartRound
  BY <1>s DEF StartRound, FromScratch, FromStatuses, outside
<1>5. CASE \E e \in Episodes : Claim(e) \/ Run(e)
  BY <1>5 DEF Claim, Run, ReadPrior, outside
<1>6. CASE Move \/ Restore \/ SavesMetadata \/ (\E st \in Verdicts : Raises(st)) \/ Finalize
           \/ Concludes
  BY <1>6 DEF Move, Restore, SavesMetadata, Raises, Finalize, Concludes, outside, work
<1>7. CASE RestoreFails \/ Write \/ Close
  BY <1>0, <1>7 DEF RestoreFails, Write, Close, Leaves, Ends, outside
<1>8. CASE TimePasses \/ UNCHANGED vars
  BY <1>8 DEF TimePasses, vars, outside, work
<1>9. CASE UNCHANGED <<cur, pc, tcur, tpc>> \/ (UNCHANGED <<cur, pc, tcur>> /\ {tpc, tpc'} \subseteq {"idle", "look"})
  BY <1>9
<1>10. CASE ViewerLooks \/ ToolDone \/ (\E tasks \in SUBSET Episodes : ResetStarts(tasks))
  BY <1>9, <1>10 DEF ViewerLooks, ToolDone, ResetStarts, work
<1>11. CASE \E e \in Episodes : ToolReads(e) \/ ToolSkips(e)
  BY <1>11 DEF ToolReads, ToolSkips, work
<1>12. CASE ToolWrites
  BY <1>0, <1>12 DEF ToolWrites, work
<1> QED
  BY <1>2, <1>3, <1>4, <1>s, <1>5, <1>6, <1>7, <1>8, <1>10, <1>11, <1>12 DEF Next, Tool, Driver

\* Every variable keeps its type.
THEOREM TypeCorrect == Spec => []TypeOK
<1>1. Init => TypeOK
  <2> SUFFICES ASSUME Init PROVE TypeOK
    OBVIOUS
  <2>1. 0 \in 0 .. MaxAge /\ 0 \in 0 .. MaxRetryRounds /\ NoEpisode \notin Episodes
    BY SequentialAssumption
  <2>2. DiskOK
    BY <2>1 DEF Init, DiskOK
  <2>3. DriverOK
    BY <2>1 DEF Init, DriverOK, PCs, Verdicts
  <2>4. ToolOK /\ HistoryOK /\ BusyOK
    BY <2>1 DEF Init, ToolOK, HistoryOK, BusyOK
  <2> QED
    BY <2>2, <2>3, <2>4 DEF TypeOK
<1>2. TypeOK /\ [Next]_vars => TypeOK'
  BY DiskTypes, DriverTypes, ToolTypes, HistoryTypes, BusyTypes DEF TypeOK
<1> QED
  BY <1>1, <1>2, PTL DEF Spec

-----------------------------------------------------------------------------
(* What the driver works through *)

\* What the driver has before it: plan and claims are a part of the queue, and whoever
\* is being run is in neither.
QueueInv ==
  /\ todo \subseteq queue
  /\ pc \in {"down", "start", "decide"} => queue = {}
  /\ pc = "plan" => queue = Episodes
  /\ pc = "next" => todo = {}
  /\ pc \in {"move", "moved", "write"} /\ job = "claim" => cur \in todo
  /\ pc \in {"move", "moved", "write"} /\ job = "open" => todo = {} /\ cur \notin queue
  /\ pc \in {"setup", "loop", "summed", "close"} => job = "open" /\ todo = {} /\ cur \notin queue

\* What a tool, a tick and a stutter leave alone; and how a driver ends.
Aside  == Tool \/ TimePasses \/ UNCHANGED vars
Ending == Interrupt \/ Kill

LEMMA AsideKeeps ==
  ASSUME Aside
  PROVE  UNCHANGED <<pc, session, work, config, meta, counted, losses, finished>>
BY DEF Aside, Tool, TimePasses, vars, ViewerLooks, ToolDone, ToolReads, ToolSkips, ResetStarts,
   ToolWrites, disk, history

LEMMA EndingEnds ==
  ASSUME Ending
  PROVE  /\ Ends("aborted") /\ pc # "down"
         /\ UNCHANGED <<disk, counted, resume, roundNum, launches, job, outside, touched, finished,
                       excused>>
        /\ Forsakes
BY DEF Ending, Interrupt, Kill, Leaves

LEMMA NextQueue == ASSUME TypeOK, QueueInv, [Next]_vars PROVE QueueInv'
<1> USE DEF TypeOK, QueueInv
<1>a. ASSUME pc' = "down", queue' = {}, todo' = {} PROVE QueueInv'
  BY <1>a
<1>1. CASE Aside
  <2>1. UNCHANGED <<pc, todo, queue, job, cur>>
    BY <1>1, AsideKeeps DEF work
  <2> QED
    BY <2>1
<1>2. CASE Ending
  BY <1>2, <1>a, EndingEnds DEF Ends
<1>3. CASE (\E mode \in LaunchModes : Launch(mode)) \/ Claimed \/ RoundEnds
  BY <1>3 DEF Launch, Claimed, RoundEnds, work
<1>4. CASE StartRound
  BY <1>4 DEF StartRound, FromScratch, FromStatuses
<1>p. CASE Planned \/ (\E e \in Episodes : SavesConfig(e))
  BY <1>p DEF Planned, SavesConfig
<1>5. CASE Decide
  BY <1>5, <1>a DEF Decide, Leaves, Ends
<1>6. ASSUME NEW e \in Episodes, Claim(e) \/ Run(e) PROVE QueueInv'
  <2>1. CASE Claim(e)
    BY <2>1 DEF Claim, ReadPrior
  <2>2. CASE Run(e)
    BY <2>2 DEF Run, ReadPrior
  <2> QED
    BY <1>6, <2>1, <2>2
<1>7. CASE Move \/ Restore \/ SavesMetadata
  BY <1>7 DEF Move, Restore, SavesMetadata, work
<1>8. CASE RestoreFails
  BY <1>8, <1>a DEF RestoreFails, Leaves, Ends
<1>9. CASE Write
  <2>1. CASE job = "claim"
    BY <1>9, <2>1 DEF Write
  <2>2. CASE job = "open"
    BY <1>9, <2>2 DEF Write
  <2> QED
    BY <2>1, <2>2 DEF DriverOK
<1>10. CASE Finalize \/ Concludes \/ (\E st \in Verdicts : Raises(st))
  BY <1>10 DEF Finalize, Concludes, Raises, work
<1>11. CASE Close
  BY <1>11, <1>a DEF Close, Leaves, Ends
<1> QED
  BY <1>1, <1>2, <1>3, <1>4, <1>p, <1>5, <1>6, <1>7, <1>8, <1>9, <1>10, <1>11 DEF Next, Driver,
       Aside, Ending

-----------------------------------------------------------------------------
(* Directories and configs *)

\* A status lives in a directory, and a directory that is there again after it was
\* renamed is a tool's doing.
DirInv ==
  /\ \A e \in Episodes : status[e] # Absent => dir[e]
  /\ pc = "moved" /\ dir[cur] => cur \in excused
  /\ pc = "moved" /\ tpc = "write" /\ tcur = cur => cur \in touched \cup excused

\* A config is on disk, or it is in the driver's hands, or an archive or a plan was cut
\* short.
HasConfig(e) ==
  \/ config[e] \/ (pc = "moved" /\ e = cur) \/ (pc = "plan" /\ e \in todo)
  \/ e \in cut \cup excused \cup unwritten
ConfigInv ==
  pc \notin {"down", "start"} \/ (\E d \in Episodes : config[d]) =>
    \A e \in Episodes : HasConfig(e)

LEMMA NextDir == ASSUME TypeOK, DirInv, [Next]_vars PROVE DirInv'
<1> USE DEF TypeOK, DirInv, DiskOK
<1>a. ASSUME UNCHANGED <<status, dir>>, pc' # "moved" PROVE DirInv'
  BY <1>a
<1>b. ASSUME NEW e \in Episodes, NEW st \in Status, NEW rc \in Nat, WriteStatus(e, st, rc)
      PROVE  \A d \in Episodes : status'[d] # Absent => dir'[d]
  BY <1>b DEF WriteStatus
<1>1. CASE ToolWrites
  <2>1. tcur \in Episodes /\ theld \in Nat
    BY <1>1 DEF ToolWrites, BusyOK, ToolOK
  <2>2. PICK st \in Status : WriteStatus(tcur, st, theld)
    BY <1>1 DEF ToolWrites
  <2>3. dir' = [dir EXCEPT ![tcur] = TRUE] /\ touched' = touched \cup {tcur}
    BY <2>2 DEF WriteStatus
  <2>4. /\ UNCHANGED <<pc, cur>> /\ tpc = "write" /\ tpc' = "look"
        /\ (tcur \in touched => tcur \in excused') /\ excused \subseteq excused'
    BY <1>1 DEF ToolWrites, work
  <2> QED
    BY <1>b, <2>1, <2>2, <2>3, <2>4
<1>2. ASSUME NEW e \in Episodes, ToolReads(e) PROVE DirInv'
  <2>1. /\ UNCHANGED <<status, dir, pc, cur, excused>> /\ tcur' = e
        /\ touched' = touched \ {e}
    BY <1>2 DEF ToolReads, disk, work
  <2>2. status[e] # Absent
    BY <1>2 DEF ToolReads, Ghost, MayReset, ToolOK
  <2>3. pc = "moved" /\ cur = e => cur \in excused
    BY <2>2
  <2> QED
    BY <2>1, <2>3
<1>3. CASE Aside /\ ~ToolWrites /\ (\A e \in Episodes : ~ToolReads(e))
  <2>1. UNCHANGED <<status, dir, pc, cur, excused, touched, tcur>> /\ (tpc' = "write" => tpc = "write")
    BY <1>3 DEF Aside, Tool, TimePasses, vars, ViewerLooks, ToolDone, ToolSkips, ResetStarts, disk,
       work, history, outside
  <2> QED
    BY <2>1
<1>4. CASE Ending \/ (\E mode \in LaunchModes : Launch(mode)) \/ Claimed \/ RoundEnds \/ Decide
  BY <1>4, <1>a, EndingEnds DEF Ends, Launch, Claimed, RoundEnds, Decide, Leaves, disk
<1>5. CASE StartRound
  BY <1>5 DEF StartRound, FromScratch, FromStatuses, Swept, ShouldSweep
<1>p. CASE Planned \/ (\E e \in Episodes : SavesConfig(e))
  BY <1>p DEF Planned, SavesConfig, disk
<1>6. CASE \E e \in Episodes : Claim(e) \/ Run(e)
  BY <1>6, <1>a DEF Claim, Run, ReadPrior, disk
<1>7. CASE Move
  BY <1>7 DEF Move, BusyOK, work, outside
<1>8. CASE Restore \/ SavesMetadata
  BY <1>8 DEF Restore, SavesMetadata
<1>9. CASE RestoreFails
  BY <1>9, <1>a DEF RestoreFails, Leaves, Ends, disk
<1>10. CASE Write \/ Close
  <2>1. cur \in Episodes /\ held \in Nat /\ pc' # "moved"
    BY <1>10 DEF Write, Close, BusyOK, DriverOK, Leaves, Ends
  <2>2. \E st \in Status : WriteStatus(cur, st, held)
    BY <1>10 DEF Write, Close, DriverOK, Verdicts
  <2> QED
    BY <1>b, <2>1, <2>2
<1>11. CASE Finalize \/ Concludes \/ (\E st \in Verdicts : Raises(st))
  BY <1>11, <1>a DEF Finalize, Concludes, Raises, disk
<1> QED
  BY <1>1, <1>2, <1>3, <1>4, <1>5, <1>p, <1>6, <1>7, <1>8, <1>9, <1>10, <1>11 DEF Next, Driver,
       Aside, Ending

\* Excuses are never taken back.
LEMMA ExcusesStay == ASSUME [Next]_vars PROVE excused \subseteq excused' /\ cut \subseteq cut'
BY DEF Next, Driver, Tool, Launch, Interrupt, Kill, TimePasses, StartRound, FromScratch,
     FromStatuses,
   Claimed, RoundEnds, Decide, Claim, Run, Move, Restore, RestoreFails, Write, SavesMetadata, Raises,
   Finalize, Close, ViewerLooks, ResetStarts, ToolReads, ToolSkips, ToolWrites, ToolDone, history, vars,
   Planned, SavesConfig, Concludes, Forsakes

\* Only a plan writes what an earlier one has left out.
LEMMA UnwrittenStays ==
  ASSUME [Next]_vars, pc # "plan"
  PROVE  unwritten \subseteq unwritten'
BY DEF Next, Driver, Tool, Launch, Interrupt, Kill, TimePasses, StartRound, FromScratch,
     FromStatuses,
   Claimed, RoundEnds, Decide, Claim, Run, Move, Restore, RestoreFails, Write, SavesMetadata, Raises,
   Finalize, Close, ViewerLooks, ResetStarts, ToolReads, ToolSkips, ToolWrites, ToolDone, history, vars,
   Planned, SavesConfig, Concludes, Forsakes

LEMMA NextConfig == ASSUME TypeOK, DirInv, ConfigInv, [Next]_vars PROVE ConfigInv'
<1> USE DEF TypeOK, ConfigInv, HasConfig
<1>a. ASSUME UNCHANGED <<config, cur, todo>>, (pc = "moved" <=> pc' = "moved"),
             unwritten \subseteq unwritten', (pc = "plan" <=> pc' = "plan"),
             pc' \in {"down", "start"} \/ pc \notin {"down", "start"}
      PROVE  ConfigInv'
  BY <1>a, ExcusesStay
<1>1. CASE Aside
  BY <1>1, <1>a, AsideKeeps DEF work
<1>2. CASE Ending
  <2>1. UNCHANGED config /\ pc' = "down" /\ pc # "down"
    BY <1>2, EndingEnds DEF Ends, disk
  <2>2. /\ pc = "moved" => cur \in cut'
        /\ pc = "plan" => \A e \in todo : config[e] \/ e \in unwritten'
        /\ unwritten \subseteq unwritten'
    <3>1. Forsakes
      BY <1>2, EndingEnds
    <3> QED
      BY <3>1 DEF Forsakes, DriverOK
  <2>3. CASE pc = "start" 
    BY <2>1, <2>2, <2>3, ExcusesStay
  <2>4. CASE pc # "start" 
    BY <2>1, <2>2, <2>4, ExcusesStay
  <2> QED
    BY <2>3, <2>4
<1>3. CASE (\E mode \in LaunchModes : Launch(mode)) \/ Claimed \/ RoundEnds
  <2>1. pc # "plan" /\ UNCHANGED <<config, cur, todo>>
    BY <1>3 DEF Launch, Claimed, RoundEnds, work, disk
  <2> QED
    BY <1>3, <1>a, <2>1, UnwrittenStays DEF Launch, Claimed, RoundEnds
<1>p. CASE Planned
  <2>1. UNCHANGED <<config, cut, excused, unwritten>> /\ pc = "plan" /\ todo = {} /\ pc' = "claim"
    BY <1>p DEF Planned, disk, history
  <2> QED
    BY <2>1
<1>s. ASSUME NEW d \in Episodes, SavesConfig(d) PROVE ConfigInv'
  <2>1. /\ UNCHANGED <<pc, cur, cut, excused>> /\ pc = "plan" /\ todo' = todo \ {d}
        /\ unwritten' = unwritten \ {d} /\ config' = [config EXCEPT ![d] = TRUE]
    BY <1>s DEF SavesConfig
  <2> QED
    BY <2>1 DEF DiskOK
<1>4. CASE StartRound
  <2>1. UNCHANGED <<cut, cur, unwritten, config>> /\ pc = "start"
    BY <1>4 DEF StartRound
  <2>2. CASE FromScratch
    BY <2>1, <2>2 DEF FromScratch
  <2>3. CASE FromStatuses
    BY <2>1, <2>3 DEF FromStatuses
  <2> QED
    BY <1>4, <2>2, <2>3 DEF StartRound
<1>5. CASE Decide
  <2>1. UNCHANGED config /\ pc = "decide" /\ pc' \in {"down", "start"}
    BY <1>5 DEF Decide, Leaves, Ends, disk
  <2> QED
    BY <2>1, ExcusesStay, UnwrittenStays
<1>6. CASE \E e \in Episodes : Claim(e) \/ Run(e)
  <2>1. UNCHANGED config /\ pc \in {"claim", "next"} /\ pc' \in {"move", "write"}
    BY <1>6 DEF Claim, Run, ReadPrior, disk
  <2> QED
    BY <2>1, ExcusesStay, UnwrittenStays
<1>7. CASE Move
  <2>1. /\ pc = "move" /\ pc' = "moved" /\ cur' = cur /\ cur \in Episodes
        /\ config' = [config EXCEPT ![cur] = FALSE]
    BY <1>7 DEF Move, work, BusyOK
  <2> QED
    BY <2>1, ExcusesStay, UnwrittenStays DEF DiskOK
<1>8. CASE Restore \/ SavesMetadata
  <2>1. /\ pc \in {"moved", "setup"} /\ pc' \in {"write", "loop"} /\ cur' = cur /\ cur \in Episodes
        /\ config' = [config EXCEPT ![cur] = TRUE]
    BY <1>8 DEF Restore, SavesMetadata, work, BusyOK
  <2> QED
    BY <2>1, ExcusesStay, UnwrittenStays DEF DiskOK
<1>9. CASE RestoreFails
  <2>1. pc = "moved" /\ cur \in excused /\ UNCHANGED config /\ pc' \in {"down", "next"}
    BY <1>9 DEF RestoreFails, DirInv, Leaves, Ends, disk
  <2> QED
    BY <2>1, ExcusesStay, UnwrittenStays
<1>10. CASE Write \/ Close \/ Finalize \/ Concludes \/ (\E st \in Verdicts : Raises(st))
  <2>1. /\ UNCHANGED config /\ pc \in {"write", "close", "loop", "summed", "setup"}
        /\ pc' \in {"claim", "setup", "summed", "close", "next", "down"}
    BY <1>10 DEF Write, Close, Finalize, Concludes, Raises, Leaves, Ends, disk
  <2> QED
    BY <2>1, ExcusesStay, UnwrittenStays
<1> QED
  BY <1>1, <1>2, <1>3, <1>p, <1>s, <1>4, <1>5, <1>6, <1>7, <1>8, <1>9, <1>10 DEF Next, Driver, Aside, Ending

-----------------------------------------------------------------------------
(* Attempts and archives *)

\* An episode that may archive its earlier attempt has done so before it runs.
OverwriteInv ==
  /\ \A e \in todo : overwrite[e] /\ e # cur => Terminal(e)
  /\ \A e \in queue \ todo : overwrite[e] => ~meta[e]
  /\ pc \in {"moved", "write", "setup"} => (overwrite[cur] => ~meta[cur])
  /\ pc = "plan" => \A e \in Episodes : ~overwrite[e]

LEMMA NextOverwrite == ASSUME TypeOK, QueueInv, OverwriteInv, [Next]_vars PROVE OverwriteInv'
<1> USE DEF TypeOK, DiskOK, DriverOK, OverwriteInv, Terminal
<1>0. NoEpisode \notin Episodes
  BY SequentialAssumption
<1>a. ASSUME pc' = "down", queue' = {}, todo' = {} PROVE OverwriteInv'
  BY <1>a
<1>1. CASE Aside
  <2>1. UNCHANGED <<pc, todo, queue, overwrite, cur, meta>>
    BY <1>1, AsideKeeps DEF work
  <2>2. \A e \in Episodes : Terminal(e) => status'[e] \in TerminalStatuses
    <3>1. CASE ToolWrites
      BY <3>1 DEF ToolWrites, WriteStatus
    <3>2. CASE Aside /\ ~ToolWrites
      <4>1. UNCHANGED status
        BY <3>2 DEF Aside, Tool, TimePasses, vars, ViewerLooks, ToolDone, ToolReads, ToolSkips,
           ResetStarts, disk
      <4> QED
        BY <4>1
    <3> QED
      BY <1>1, <3>1, <3>2
  <2> QED
    BY <2>1, <2>2
<1>2. CASE Ending
  BY <1>2, <1>a, EndingEnds DEF Ends
<1>3. CASE (\E mode \in LaunchModes : Launch(mode)) \/ Claimed \/ RoundEnds
  <2>1. UNCHANGED <<status, meta, todo, queue, overwrite, cur>> /\ pc' \notin {"moved", "write", "setup", "plan"}
    BY <1>3 DEF Launch, Claimed, RoundEnds, work, disk
  <2> QED
    BY <2>1
<1>4. CASE StartRound
  <2>1. pc' \in {"plan", "claim"} /\ queue' = todo'
    BY <1>4 DEF StartRound, FromScratch, FromStatuses
  <2>2. \A e \in todo' : overwrite'[e] => status'[e] \in TerminalStatuses
    BY <1>4 DEF StartRound, FromScratch, FromStatuses, ShouldRelaunch
  <2>3. pc' = "plan" => \A e \in Episodes : ~overwrite'[e]
    BY <1>4 DEF StartRound, FromScratch, FromStatuses
  <2> QED
    BY <2>1, <2>2, <2>3
<1>p. CASE Planned \/ (\E e \in Episodes : SavesConfig(e))
  <2>1. UNCHANGED <<overwrite, queue>> /\ pc = "plan" /\ pc' \in {"plan", "claim"}
    BY <1>p DEF Planned, SavesConfig
  <2>2. todo' \subseteq Episodes
    BY <1>p DEF Planned, SavesConfig
  <2> QED
    BY <2>1, <2>2
<1>5. CASE Decide
  <2>1. todo' = {} /\ queue' = {} /\ pc' \in {"down", "start"}
    BY <1>5 DEF Decide, Leaves, Ends, QueueInv
  <2> QED
    BY <2>1
<1>6. ASSUME NEW e \in Episodes, Claim(e) PROVE OverwriteInv'
  <2>1. /\ UNCHANGED <<status, meta, todo, queue, overwrite>> /\ cur' = e /\ e \in todo
        /\ pc' = IF Terminal(e) THEN "move" ELSE "write"
    BY <1>6 DEF Claim, ReadPrior, disk
  <2>2. cur = NoEpisode
    BY <1>6 DEF Claim, BusyOK
  <2>3. overwrite[e] => Terminal(e)
    BY <1>0, <2>1, <2>2
  <2> QED
    BY <1>0, <2>1, <2>2, <2>3
<1>7. ASSUME NEW e \in Episodes, Run(e) PROVE OverwriteInv'
  <2>1. /\ UNCHANGED <<status, meta, todo, overwrite>> /\ cur' = e /\ e \in queue
        /\ queue' = queue \ {e} /\ todo = {} /\ pc' \in {"move", "write"}
    BY <1>7 DEF Run, ReadPrior, disk, QueueInv
  <2> QED
    BY <2>1
<1>8. CASE Move
  <2>1. /\ cur \in Episodes /\ UNCHANGED <<todo, queue, overwrite, cur>> /\ pc' = "moved"
        /\ status' = [status EXCEPT ![cur] = Absent] /\ meta' = [meta EXCEPT ![cur] = FALSE]
    BY <1>8 DEF Move, BusyOK, work
  <2> QED
    BY <2>1
<1>9. CASE Restore
  BY <1>9 DEF Restore, work
<1>10. CASE RestoreFails
  <2>1. CASE job = "claim"
    BY <1>10, <1>a, <2>1 DEF RestoreFails, Leaves, Ends
  <2>2. CASE job = "open"
    <3>1. /\ todo = {} /\ UNCHANGED <<status, meta, todo, queue, overwrite>> /\ pc' = "next"
      BY <1>10, <2>2 DEF RestoreFails, QueueInv, disk
    <3> QED
      BY <3>1
  <2> QED
    BY <2>1, <2>2
<1>11. CASE Write
  <2>1. /\ cur \in Episodes /\ UNCHANGED <<meta, queue, overwrite>> /\ pc = "write"
        /\ \E st \in Status : status' = [status EXCEPT ![cur] = st]
    BY <1>11 DEF Write, WriteStatus, BusyOK
  <2>2. CASE job = "claim"
    <3>1. todo' = todo \ {cur} /\ cur' = NoEpisode /\ pc' = "claim"
      BY <1>11, <2>2 DEF Write
    <3> QED
      BY <1>0, <2>1, <3>1
  <2>3. CASE job = "open"
    <3>1. todo = {} /\ UNCHANGED <<todo, cur>> /\ pc' = "setup"
      BY <1>11, <2>3 DEF Write, QueueInv
    <3> QED
      BY <2>1, <3>1
  <2> QED
    BY <2>2, <2>3
<1>12. CASE SavesMetadata
  <2>1. /\ todo = {} /\ cur \notin queue /\ UNCHANGED <<todo, queue, overwrite>> /\ pc' = "loop"
        /\ meta' = [meta EXCEPT ![cur] = TRUE]
    BY <1>12 DEF SavesMetadata, QueueInv, work
  <2> QED
    BY <2>1
<1>13. CASE Finalize \/ Concludes \/ (\E st \in Verdicts : Raises(st))
  <2>1. UNCHANGED <<todo, queue, overwrite, meta>> /\ pc' \in {"summed", "close"} /\ todo = {}
    BY <1>13 DEF Finalize, Concludes, Raises, disk, work, QueueInv
  <2> QED
    BY <2>1
<1>14. CASE Close
  <2>1. UNCHANGED meta /\ pc' \in {"next", "down"} /\ todo = {}
    BY <1>14 DEF Close, Leaves, Ends, QueueInv
  <2>2. (UNCHANGED <<todo, queue, overwrite>>) \/ (todo' = {} /\ queue' = {})
    BY <1>14 DEF Close, Leaves, Ends
  <2> QED
    BY <2>1, <2>2
<1> QED
  BY <1>1, <1>2, <1>3, <1>4, <1>p, <1>5, <1>6, <1>7, <1>8, <1>9, <1>10, <1>11, <1>12, <1>13, <1>14
  DEF Next, Driver, Aside, Ending

-----------------------------------------------------------------------------
(* What is finished *)

\* What is finished stays so and is nobody's work, unless it is excused; and what
\* the viewer is about to write over is in flight or has been written since.
FinishedInv ==
  /\ \A e \in finished \ excused :
       status[e] \in FinishedStatuses /\ e \notin queue /\ e # cur
  /\ tpc = "write" /\ tool = "viewer" /\ tcur \notin touched => status[tcur] \in InFlightStatuses

LEMMA NextFinished ==
  ASSUME TypeOK, QueueInv, DirInv, FinishedInv, [Next]_vars
  PROVE  FinishedInv'
<1> USE DEF TypeOK, FinishedInv
<1>0. NoEpisode \notin Episodes
  BY SequentialAssumption
<1>t. /\ finished \in SUBSET Episodes /\ status \in [Episodes -> Status \cup {Absent}]
      /\ touched \in SUBSET Episodes
  BY DEF HistoryOK, DiskOK
<1>a. ASSUME \A e \in finished' \ excused' : e \in finished \ excused,
             UNCHANGED <<status, touched, outside>>,
             queue' \subseteq queue, cur' \in {cur, NoEpisode}
      PROVE  FinishedInv'
  BY <1>0, <1>t, <1>a DEF outside
<1>1. CASE ToolWrites
  <2>1. /\ tcur \in Episodes /\ tpc' = "look" /\ UNCHANGED <<queue, cur, finished>>
        /\ excused' = IF tool = "reset" \/ tcur \in touched THEN excused \cup {tcur} ELSE excused
    BY <1>1 DEF ToolWrites, BusyOK, work
  <2>2. \E st \in Status : status' = [status EXCEPT ![tcur] = st]
    BY <1>1 DEF ToolWrites, WriteStatus
  <2>3. tcur \notin excused' => tcur \notin finished
    <3>1. CASE tcur \in excused' \/ tcur \in excused
      BY <3>1, <2>1
    <3>2. CASE tcur \notin excused' /\ tcur \notin excused
      <4>1. tool = "viewer" /\ tcur \notin touched
        BY <2>1, <3>2 DEF ToolOK
      <4>2. status[tcur] \in InFlightStatuses
        BY <1>1, <4>1 DEF ToolWrites
      <4> QED
        BY <3>2, <4>2
    <3> QED
      BY <3>1, <3>2
  <2>4. excused \subseteq excused'
    BY <2>1
  <2> QED
    BY <1>t, <2>1, <2>2, <2>3, <2>4
<1>2. ASSUME NEW e \in Episodes, ToolReads(e) PROVE FinishedInv'
  <2>1. /\ UNCHANGED <<status, queue, cur, finished, excused>> /\ tcur' = e /\ tool' = tool
    BY <1>2 DEF ToolReads, disk, work
  <2>2. tool = "viewer" => status[e] \in InFlightStatuses
    BY <1>2 DEF ToolReads, Ghost
  <2> QED
    BY <2>1, <2>2
<1>3. CASE Aside /\ ~ToolWrites /\ (\A e \in Episodes : ~ToolReads(e))
  <2>1. UNCHANGED <<status, queue, cur, finished, excused, touched, tcur>>
    BY <1>3 DEF Aside, Tool, TimePasses, vars, ViewerLooks, ToolDone, ToolSkips, ResetStarts, disk,
       work, history, outside
  <2>2. tpc' = "write" => tpc = "write" /\ tool' = tool
    BY <1>3 DEF Aside, Tool, TimePasses, vars, ViewerLooks, ToolDone, ToolSkips,
         ResetStarts, outside
  <2> QED
    BY <2>1, <2>2
<1>4. CASE Ending
  <2>1. /\ UNCHANGED <<status, touched, outside, finished>> /\ queue' = {} /\ cur' = NoEpisode
    BY <1>4, EndingEnds DEF Ends, disk
  <2> QED
    BY <1>a, <2>1, ExcusesStay
<1>5. CASE (\E mode \in LaunchModes : Launch(mode)) \/ Claimed \/ RoundEnds \/ Restore \/ SavesMetadata
           \/ Finalize \/ Concludes \/ (\E st \in Verdicts : Raises(st))
           \/ (\E e \in Episodes : SavesConfig(e)) \/ Planned
  <2>1. UNCHANGED <<status, touched, outside, finished, queue, cur, excused>>
    BY <1>5 DEF Launch, Claimed, RoundEnds, Restore, SavesMetadata, Finalize, Concludes, Raises,
         SavesConfig, Planned, work, disk, history
  <2> QED
    BY <1>a, <2>1
<1>6. CASE StartRound
  <2>1. UNCHANGED <<finished, cur, outside>> /\ queue' = todo' /\ excused \subseteq excused'
    BY <1>6, ExcusesStay DEF StartRound, FromScratch, FromStatuses
  <2>2. CASE FromScratch
    <3>1. \A e \in finished : e \in excused'
      BY <2>2, <1>t DEF FromScratch, DirInv
    <3> QED
      BY <2>1, <2>2, <3>1 DEF FromScratch, outside
  <2>3. CASE FromStatuses
    <3>1. \A e \in finished \ excused : status'[e] = status[e] /\ e \notin todo'
      BY <2>3, <1>t DEF FromStatuses, Swept, ShouldSweep, ShouldRelaunch
    <3>2. \A e \in Episodes : e \notin touched' => status'[e] = status[e] /\ e \notin touched
      BY <2>3, <1>t DEF FromStatuses
    <3> QED
      BY <1>t, <2>1, <3>1, <3>2 DEF outside, BusyOK
  <2> QED
    BY <1>6, <2>2, <2>3 DEF StartRound
<1>7. CASE Decide
  <2>1. /\ UNCHANGED <<status, touched, outside, finished, excused>>
        /\ queue' \subseteq queue /\ cur' \in {cur, NoEpisode}
    BY <1>7 DEF Decide, Leaves, Ends, disk, history
  <2> QED
    BY <1>a, <2>1
<1>8. ASSUME NEW e \in Episodes, Claim(e) \/ Run(e) PROVE FinishedInv'
  <2>1. /\ UNCHANGED <<status, touched, outside, finished, excused>> /\ cur' = e /\ e \in queue
        /\ queue' \subseteq queue
    BY <1>8 DEF Claim, Run, ReadPrior, disk, history, QueueInv
  <2> QED
    BY <2>1 DEF outside
<1>9. CASE Move \/ Write
  <2>1. /\ UNCHANGED <<finished, excused, queue, outside>> /\ cur' \in {cur, NoEpisode}
        /\ cur \in Episodes /\ touched' = touched \cup {cur}
    BY <1>9 DEF Move, Write, WriteStatus, BusyOK, work
  <2>2. \A e \in Episodes : e # cur => status'[e] = status[e]
    BY <1>9, <1>t DEF Move, Write, WriteStatus
  <2> QED
    BY <1>0, <1>t, <2>1, <2>2 DEF outside, BusyOK
<1>10. CASE RestoreFails
  <2>1. /\ UNCHANGED <<status, touched, outside, finished, excused>>
        /\ queue' \subseteq queue /\ cur' \in {cur, NoEpisode}
    BY <1>10 DEF RestoreFails, Leaves, Ends, disk, history
  <2> QED
    BY <1>a, <2>1
<1>11. CASE Close
  <2>1. /\ UNCHANGED <<outside, excused>> /\ cur \in Episodes /\ cur \notin queue
        /\ queue' \subseteq queue /\ cur' = NoEpisode
        /\ touched' = touched \cup {cur} /\ status' = [status EXCEPT ![cur] = verdict]
    BY <1>11 DEF Close, WriteStatus, BusyOK, QueueInv, Leaves, Ends
  <2>2. finished' = finished \/ (finished' = finished \cup {cur} /\ verdict \in FinishedStatuses)
    BY <1>11 DEF Close, Finish
  <2> QED
    BY <1>0, <1>t, <2>1, <2>2 DEF outside, BusyOK
<1> QED
  BY <1>1, <1>2, <1>3, <1>4, <1>5, <1>6, <1>7, <1>8, <1>9, <1>10, <1>11 DEF Next, Driver,
       Aside, Ending

-----------------------------------------------------------------------------
(* What is counted *)

\* The summary counts e as completed, and its status does not say so yet.
Ahead(e) == AheadOfStatus /\ cur = e

\* The summary and the statuses agree but for the episode that is being closed and
\* for the attempts that were cut off there.
CountInv ==
  /\ \A e \in Episodes : status[e] = "COMPLETED" => e \in finished
  /\ \A e \in Episodes \ excused :
       /\ counted[e] = halfdone[e] \/ counted[e] = 1 + halfdone[e]
       /\ counted[e] # halfdone[e] => e \in finished \/ Ahead(e)
       /\ Ahead(e) => counted[e] # halfdone[e]
       /\ status[e] = "COMPLETED" => counted[e] # halfdone[e]

LEMMA NextCount ==
  ASSUME TypeOK, QueueInv, FinishedInv, CountInv, [Next]_vars
  PROVE  CountInv'
<1> USE DEF TypeOK, CountInv
<1>t. /\ status \in [Episodes -> Status \cup {Absent}] /\ counted \in [Episodes -> Nat]
      /\ halfdone \in [Episodes -> Nat] /\ excused \subseteq excused'
  BY ExcusesStay DEF DiskOK, HistoryOK
\* Nobody's count changes, no status becomes COMPLETED, and nothing is being closed.
<1>a. ASSUME UNCHANGED <<counted, finished, halfdone>>, ~AheadOfStatus, ~AheadOfStatus',
             \A e \in Episodes : status'[e] = "COMPLETED" => status[e] = "COMPLETED"
      PROVE  CountInv'
  BY <1>a, <1>t DEF Ahead
\* What is being closed is cut off.
<1>c. ASSUME UNCHANGED <<counted, finished, status, excused>>, CutsOff, ~AheadOfStatus'
      PROVE  CountInv'
  <2>1. CASE ~AheadOfStatus /\ UNCHANGED halfdone
    BY <1>a, <1>c, <2>1
  <2>2. CASE AheadOfStatus /\ halfdone' = [halfdone EXCEPT ![cur] = @ + 1]
    <3>1. cur \in Episodes /\ cur \notin finished \ excused
      BY <2>2 DEF AheadOfStatus, BusyOK, FinishedInv
    <3>2. SUFFICES ASSUME NEW e \in Episodes \ excused
          PROVE  /\ counted[e] = halfdone'[e] \/ counted[e] = 1 + halfdone'[e]
                 /\ counted[e] # halfdone'[e] => e \in finished
                 /\ status[e] = "COMPLETED" => counted[e] # halfdone'[e]
      BY <1>c DEF Ahead
    <3>3. CASE e = cur
      <4>1. counted[e] = 1 + halfdone[e] /\ halfdone'[e] = halfdone[e] + 1
        BY <1>t, <2>2, <3>1, <3>3 DEF Ahead
      <4>2. halfdone[e] \in Nat
        BY <1>t
      <4>3. status[e] # "COMPLETED"
        BY <3>1, <3>3
      <4> QED
        BY <4>1, <4>2, <4>3
    <3>4. CASE e # cur
      BY <1>t, <2>2, <3>4 DEF Ahead
    <3> QED
      BY <3>3, <3>4
  <2> QED
    BY <1>c, <2>1, <2>2 DEF CutsOff
<1>1. CASE Aside
  <2>1. UNCHANGED <<counted, finished, halfdone, pc, cur, verdict>>
    BY <1>1, AsideKeeps DEF work
  <2>2. \A e \in Episodes : status'[e] = "COMPLETED" => status[e] = "COMPLETED"
    <3>1. CASE ToolWrites
      BY <1>t, <3>1 DEF ToolWrites, WriteStatus
    <3>2. CASE Aside /\ ~ToolWrites
      BY <3>2 DEF Aside, Tool, TimePasses, vars, ViewerLooks, ToolDone, ToolReads, ToolSkips,
         ResetStarts, disk
    <3> QED
      BY <1>1, <3>1, <3>2
  <2>3. \A e \in Episodes : Ahead(e)' <=> Ahead(e)
    BY <2>1 DEF Ahead, AheadOfStatus
  <2> QED
    BY <1>t, <2>1, <2>2, <2>3
<1>2. CASE Ending
  <2>1. /\ UNCHANGED <<counted, finished, status, excused>> /\ pc' = "down" /\ CutsOff
    BY <1>2, EndingEnds DEF Ends, Forsakes, disk
  <2> QED
    BY <1>c, <2>1 DEF AheadOfStatus
<1>4. CASE (\E mode \in LaunchModes : Launch(mode)) \/ Claimed \/ RoundEnds \/ Restore \/ SavesMetadata
           \/ Decide \/ RestoreFails \/ (\E e \in Episodes : Claim(e) \/ Run(e)) \/ Planned
           \/ (\E e \in Episodes : SavesConfig(e))
  <2>1. UNCHANGED <<counted, finished, halfdone, status>> /\ ~AheadOfStatus /\ ~AheadOfStatus'
    BY <1>4 DEF Launch, Claimed, RoundEnds, Restore, SavesMetadata, Decide, RestoreFails,
         Claim, Run, Planned, SavesConfig, AheadOfStatus,
       ReadPrior, Leaves, Ends, disk, history
  <2> QED
    BY <1>a, <2>1
<1>5. CASE StartRound
  <2>1. UNCHANGED <<counted, finished, halfdone>> /\ ~AheadOfStatus /\ ~AheadOfStatus'
    BY <1>5 DEF StartRound, FromScratch, FromStatuses, AheadOfStatus
  <2>2. \A e \in Episodes : status'[e] = "COMPLETED" => status[e] = "COMPLETED"
    BY <1>5, <1>t DEF StartRound, FromScratch, FromStatuses
  <2> QED
    BY <1>a, <2>1, <2>2
<1>6. CASE Move \/ Write
  <2>1. UNCHANGED <<counted, finished, halfdone>> /\ ~AheadOfStatus /\ ~AheadOfStatus'
    BY <1>6 DEF Move, Write, AheadOfStatus
  <2>2. \A e \in Episodes : status'[e] = "COMPLETED" => status[e] = "COMPLETED"
    BY <1>6, <1>t DEF Move, Write, WriteStatus
  <2> QED
    BY <1>a, <2>1, <2>2
<1>7. ASSUME NEW st \in Verdicts, Raises(st) PROVE CountInv'
  <2>1. /\ UNCHANGED <<counted, finished, status, excused>> /\ CutsOff
        /\ verdict' # "COMPLETED" /\ pc' = "close"
    BY <1>7 DEF Raises, disk
  <2> QED
    BY <1>c, <2>1 DEF AheadOfStatus
<1>8. CASE Finalize
  <2>1. /\ pc = "loop" /\ pc' = "summed" /\ cur \in Episodes
        /\ UNCHANGED <<finished, status, cur, excused, halfdone>>
        /\ counted' = [counted EXCEPT ![cur] = @ + 1]
    BY <1>8 DEF Finalize, BusyOK, disk, work, history
  <2>2. /\ \A e \in Episodes : ~Ahead(e) /\ (Ahead(e)' <=> e = cur)
        /\ cur \notin finished \ excused
    BY <2>1 DEF FinishedInv, Ahead, AheadOfStatus
  <2>3. cur \notin excused => counted[cur] = halfdone[cur] /\ counted'[cur] = halfdone[cur] + 1
    BY <1>t, <2>1, <2>2
  <2>4. \A e \in Episodes : e # cur => counted'[e] = counted[e]
    BY <1>t, <2>1
  <2>5. halfdone[cur] \in Nat
    BY <1>t, <2>1
  <2> QED
    BY <2>1, <2>2, <2>3, <2>4, <2>5
<1>10. CASE Concludes
  <2>1. UNCHANGED <<counted, finished, status, cur, excused, halfdone>>
    BY <1>10 DEF Concludes, disk, history
  <2>2. AheadOfStatus /\ AheadOfStatus'
    BY <1>10 DEF Concludes, AheadOfStatus
  <2> QED
    BY <2>1, <2>2 DEF Ahead
<1>9. CASE Close
  <2>1. /\ pc = "close" /\ pc' # "close" /\ pc' # "summed" /\ cur \in Episodes
        /\ UNCHANGED <<counted, excused, halfdone>>
        /\ status' = [status EXCEPT ![cur] = verdict]
    BY <1>9 DEF Close, WriteStatus, BusyOK, Leaves, Ends
  <2>2. /\ finished \subseteq finished'
        /\ verdict = "COMPLETED" => cur \in finished'
    BY <1>9 DEF Close, Finish
  <2>3. /\ \A e \in Episodes : ~Ahead(e)' /\ (Ahead(e) <=> e = cur /\ verdict = "COMPLETED")
    BY <2>1 DEF Ahead, AheadOfStatus
  <2> QED
    BY <1>t, <2>1, <2>2, <2>3
<1> QED
  BY <1>1, <1>2, <1>4, <1>5, <1>6, <1>7, <1>8, <1>9, <1>10 DEF Next, Driver, Aside, Ending

-----------------------------------------------------------------------------
(* What a launch leaves *)

\* A launch has every episode without a status before it, and the first launch
\* every episode in flight.
LaunchInv ==
  /\ launches = 0 => pc = "down" /\ tpc # "write" /\ ttodo = {} /\ \A e \in Episodes : ~dir[e]
  /\ pc # "down" => outcome = "none"
  /\ pc # "down" => \A e \in Episodes \ (excused \cup cut \cup unwritten) :
       /\ pc \notin {"start", "plan"} /\ status[e] = Absent => e \in todo \/ (e = cur /\ pc \in {"moved", "write"})
       /\ launches = 1 /\ status[e] \in InFlightStatuses => e \in queue \/ e = cur

LEMMA NextLaunch ==
  ASSUME TypeOK, QueueInv, DirInv, ConfigInv, LaunchInv, [Next]_vars
  PROVE  LaunchInv'
<1> USE DEF TypeOK, LaunchInv
<1>0. NoEpisode \notin Episodes
  BY SequentialAssumption
<1>t. /\ status \in [Episodes -> Status \cup {Absent}] /\ launches \in Nat
      /\ pc # "plan" => \A e \in Episodes : e \notin excused' \cup cut' \cup unwritten' =>
                                            e \notin excused \cup cut \cup unwritten
  BY ExcusesStay, UnwrittenStays DEF DiskOK, DriverOK
<1>1. ASSUME NEW mode \in LaunchModes, Launch(mode) PROVE LaunchInv'
  <2>1. launches + 1 # 0 /\ (launches + 1 = 1 => launches = 0)
    BY <1>t
  <2>2. launches' # 0 /\ (launches' = 1 => launches = 0)
    <3>1. launches' = launches + 1
      BY <1>1 DEF Launch
    <3> QED
      BY <2>1, <3>1
  <2>3. UNCHANGED status /\ pc' = "start" /\ outcome' = "none"
    BY <1>1 DEF Launch, disk
  <2>4. launches = 0 => \A e \in Episodes : status[e] = Absent
    BY DEF DirInv
  <2> QED
    BY <2>2, <2>3, <2>4
<1>2. CASE UNCHANGED launches /\ launches # 0 /\ pc' = "down"
  BY <1>2
<1>3. CASE Ending
  BY <1>2, <1>3, EndingEnds DEF Ends
<1>4. CASE ToolWrites
  <2>1. /\ UNCHANGED <<pc, launches, outcome, todo, queue, cur, losses>> /\ tpc = "write"
        /\ excused \subseteq excused'
        /\ \E st \in TerminalStatuses : status' = [status EXCEPT ![tcur] = st]
    BY <1>4 DEF ToolWrites, WriteStatus, session, work
  <2> QED
    BY <1>t, <2>1
<1>5. CASE Aside /\ ~ToolWrites
  <2>1. UNCHANGED <<status, dir, pc, launches, outcome, todo, queue, cur, excused, losses>>
    BY <1>5 DEF Aside, Tool, TimePasses, vars, ViewerLooks, ToolDone, ToolReads, ToolSkips,
       ResetStarts, disk, work, session, history
  <2>2. launches = 0 => tpc' # "write" /\ ttodo' = {}
    BY <1>5 DEF Aside, Tool, TimePasses, vars, ViewerLooks, ToolDone, ToolReads, ToolSkips,
       ResetStarts, outside
  <2> QED
    BY <2>1, <2>2
<1>6. CASE Claimed \/ RoundEnds \/ Restore \/ SavesMetadata \/ Finalize \/ Concludes
           \/ (\E st \in Verdicts : Raises(st))
  <2>1. /\ UNCHANGED <<status, launches, outcome, todo, queue, cur, excused, cut, unwritten>>
        /\ pc \notin {"down", "start", "plan"} /\ (pc = "moved" => pc' = "write") /\ pc # "write"
    BY <1>6 DEF Claimed, RoundEnds, Restore, SavesMetadata, Finalize, Concludes, Raises, disk, session,
         work, history
  <2> QED
    BY <2>1
<1>p. CASE Planned \/ (\E e \in Episodes : SavesConfig(e))
  <2>1. /\ UNCHANGED <<status, launches, outcome, queue, cur>> /\ pc = "plan" /\ queue = Episodes
    BY <1>p DEF Planned, SavesConfig, disk, session, QueueInv
  <2>2. pc' = "plan" \/ (pc' = "claim" /\ todo' = Episodes)
    BY <1>p, <2>1 DEF Planned, SavesConfig
  <2> QED
    BY <2>1, <2>2
<1>7. CASE StartRound
  <2>1. /\ UNCHANGED <<launches, outcome, losses, cur, config>> /\ pc = "start"
        /\ pc' \in {"plan", "claim"}
        /\ queue' = todo' /\ cur = NoEpisode /\ queue = {}
    BY <1>7 DEF StartRound, FromScratch, FromStatuses, session, BusyOK, DriverOK, QueueInv
  <2>2. CASE FromScratch
    BY <2>1, <2>2 DEF FromScratch
  <2>3. CASE FromStatuses
    <3>1. \A e \in Episodes \ (excused' \cup cut' \cup unwritten') : config[e]
      BY <1>t, <2>1, <2>3 DEF FromStatuses, ConfigInv, HasConfig
    <3>2. \A e \in Episodes : status'[e] = Absent /\ config[e] => e \in todo'
      BY <1>t, <2>3 DEF FromStatuses, ShouldRelaunch
    <3>3. \A e \in Episodes : status'[e] \in InFlightStatuses => status[e] = status'[e]
      BY <1>t, <2>3 DEF FromStatuses
    <3> QED
      BY <1>0, <1>t, <2>1, <3>1, <3>2, <3>3
  <2> QED
    BY <1>7, <2>2, <2>3 DEF StartRound
<1>8. CASE Decide
  <2>1. CASE pc' = "down"
    BY <1>2, <1>8, <2>1 DEF Decide
  <2>2. CASE pc' # "down"
    <3>1. /\ pc = "decide"
          /\ UNCHANGED <<status, launches, outcome, queue, cur, excused, losses>>
          /\ pc' = "start"
      BY <1>8, <2>2 DEF Decide, Leaves, Ends, disk, history
    <3> QED
      BY <3>1
  <2> QED
    BY <2>1, <2>2
<1>9. ASSUME NEW e \in Episodes, Claim(e) PROVE LaunchInv'
  <2>1. /\ UNCHANGED <<status, launches, outcome, todo, queue, excused, losses>> /\ pc = "claim"
        /\ cur' = e /\ cur = NoEpisode /\ pc' \in {"move", "write"}
    BY <1>9 DEF Claim, ReadPrior, disk, session, history, BusyOK, DriverOK
  <2> QED
    BY <1>0, <2>1
<1>10. ASSUME NEW e \in Episodes, Run(e) PROVE LaunchInv'
  <2>1. /\ UNCHANGED <<status, launches, outcome, todo, excused, losses>> /\ pc = "next"
        /\ cur' = e /\ cur = NoEpisode /\ pc' \in {"move", "write"} /\ queue' = queue \ {e}
    BY <1>10 DEF Run, ReadPrior, disk, session, history, BusyOK, DriverOK
  <2> QED
    BY <1>0, <2>1
<1>11. CASE Move
  <2>1. /\ /\ UNCHANGED <<launches, outcome, todo, queue, cur, excused, losses>>
        /\ pc = "move"
        /\ pc' = "moved"
        /\ cur \in Episodes /\ status' = [status EXCEPT ![cur] = Absent]
    BY <1>11 DEF Move, work, session, BusyOK
  <2> QED
    BY <1>t, <2>1
<1>12. CASE RestoreFails
  <2>1. CASE job = "claim"
    BY <1>2, <1>12, <2>1 DEF RestoreFails, Leaves, Ends
  <2>2. CASE job = "open"
    <3>1. /\ pc = "moved" /\ cur \in excused /\ pc' = "next"
          /\ UNCHANGED <<status, launches, outcome, todo, queue, excused, losses>>
      BY <1>12, <2>2 DEF RestoreFails, DirInv, disk, history
    <3> QED
      BY <3>1
  <2> QED
    BY <2>1, <2>2 DEF DriverOK
<1>13. CASE Write
  <2>1. /\ UNCHANGED <<launches, outcome, queue, excused, losses>> /\ pc = "write"
        /\ cur \in Episodes /\ pc' \in {"claim", "setup"}
    BY <1>13 DEF Write, session, BusyOK
  <2>2. CASE job = "claim"
    <3>1. status' = [status EXCEPT ![cur] = "QUEUED"] /\ todo' = todo \ {cur} /\ cur \in queue
      BY <1>13, <2>2 DEF Write, WriteStatus, QueueInv
    <3> QED
      BY <1>t, <2>1, <3>1
  <2>3. CASE job = "open"
    <3>1. status' = [status EXCEPT ![cur] = "RUNNING"] /\ UNCHANGED <<todo, cur>>
      BY <1>13, <2>3 DEF Write, WriteStatus
    <3> QED
      BY <1>t, <2>1, <3>1
  <2> QED
    BY <2>2, <2>3 DEF DriverOK
<1>14. CASE Close
  <2>1. CASE verdict = "RUNNING"
    BY <1>2, <1>14, <2>1 DEF Close, Leaves, Ends
  <2>2. CASE verdict # "RUNNING"
    <3>1. /\ /\ UNCHANGED <<launches, outcome, todo, queue, excused, losses>>
          /\ pc = "close"
          /\ pc' = "next"
          /\ cur \in Episodes /\ status' = [status EXCEPT ![cur] = verdict]
          /\ verdict \in TerminalStatuses
      BY <1>14, <2>2 DEF Close, WriteStatus, BusyOK, DriverOK, Verdicts
    <3> QED
      BY <1>t, <3>1
  <2> QED
    BY <2>1, <2>2
<1> QED
  BY <1>1, <1>3, <1>4, <1>5, <1>6, <1>p, <1>7, <1>8, <1>9, <1>10, <1>11, <1>12, <1>13, <1>14
  DEF Next, Driver, Aside, Ending

-----------------------------------------------------------------------------
(* The theorems *)

RunInv ==
  /\ TypeOK /\ QueueInv /\ DirInv /\ ConfigInv /\ OverwriteInv
  /\ FinishedInv /\ CountInv /\ LaunchInv

\* Every reachable state of a sequential run, of the viewer and of the reset tool
\* satisfies the inductive invariant the theorems below follow from.
THEOREM RunCorrect == Spec => []RunInv
<1>1. Init => QueueInv /\ DirInv /\ ConfigInv /\ OverwriteInv /\ FinishedInv /\ CountInv /\ LaunchInv
  <2> SUFFICES ASSUME Init
               PROVE  QueueInv /\ DirInv /\ ConfigInv /\ OverwriteInv /\ FinishedInv /\ CountInv /\ LaunchInv
    OBVIOUS
  <2>1. CountInv
    BY DEF Init, CountInv, Ahead, AheadOfStatus
  <2> QED
    BY <2>1 DEF Init, QueueInv, DirInv, ConfigInv, OverwriteInv, FinishedInv, LaunchInv
<1>2. RunInv /\ [Next]_vars =>
        (QueueInv /\ DirInv /\ ConfigInv /\ OverwriteInv /\ FinishedInv /\ CountInv /\ LaunchInv)'
  BY NextQueue, NextDir, NextConfig, NextOverwrite, NextFinished, NextCount, NextLaunch DEF RunInv
<1> QED
  BY <1>1, <1>2, TypeCorrect, PTL DEF Spec, RunInv

\* No attempt archives itself, with its own status, when it saves its metadata.
THEOREM SelfArchiveFree == Spec => []NoSelfArchive
<1>1. RunInv => NoSelfArchive
  BY DEF RunInv, OverwriteInv, NoSelfArchive
<1> QED
  BY <1>1, RunCorrect, PTL

\* What is finished never runs again, the excuses of FinishedNeverRerun aside.
THEOREM NeverRerun == Spec => []FinishedNeverRerun
<1>1. RunInv => FinishedNeverRerun
  BY DEF RunInv, FinishedInv, FinishedNeverRerun
<1> QED
  BY <1>1, RunCorrect, PTL

\* The summary counts an episode once.
THEOREM SummaryExact == Spec => []SummaryIsExact
<1>1. RunInv => SummaryIsExact
  <2> SUFFICES ASSUME RunInv, NEW e \in Episodes \ excused
               PROVE  /\ counted[e] <= 1 + halfdone[e]
                      /\ status[e] = "COMPLETED" => counted[e] = 1 + halfdone[e]
    BY DEF SummaryIsExact
  <2>1. counted[e] \in Nat /\ halfdone[e] \in Nat
    BY DEF RunInv, TypeOK, DiskOK, HistoryOK
  <2> QED
    BY <2>1 DEF RunInv, CountInv
<1> QED
  BY <1>1, RunCorrect, PTL

\* Every config survives every archive that is not cut short.
THEOREM ConfigSurvives == Spec => []ConfigsSurvive
<1>1. RunInv => ConfigsSurvive
  BY SequentialAssumption DEF RunInv, TypeOK, DriverOK, BusyOK, ConfigInv, HasConfig, ConfigsSurvive
<1> QED
  BY <1>1, RunCorrect, PTL

\* A launch that returns leaves no episode it was responsible for.
THEOREM NoneLost == Spec => NothingLost
<1>1. RunInv /\ [Next]_vars =>
        [Decide /\ outcome' = "returned" =>
           \A e \in Episodes \ (excused \cup cut \cup unwritten) :
             \/ status[e] \in FinishedStatuses
             \/ /\ status[e] \in RetriableStatuses
                /\ retry[e] >= MaxRetries \/ roundNum = MaxRetryRounds
             \/ launches > 1 /\ status[e] \in InFlightStatuses]_vars
  <2> SUFFICES ASSUME RunInv, [Next]_vars, Decide, outcome' = "returned",
                      NEW e \in Episodes \ (excused \cup cut \cup unwritten)
               PROVE  \/ status[e] \in FinishedStatuses
                      \/ /\ status[e] \in RetriableStatuses
                         /\ retry[e] >= MaxRetries \/ roundNum = MaxRetryRounds
                      \/ launches > 1 /\ status[e] \in InFlightStatuses
    OBVIOUS
  <2>1. pc = "decide" /\ outcome = "none"
    BY DEF Decide, RunInv, LaunchInv
  <2>2. todo = {} /\ queue = {} /\ cur \notin Episodes
    BY <2>1 DEF RunInv, QueueInv, TypeOK, BusyOK
  <2>3. status[e] \in Status
    BY <2>1, <2>2 DEF RunInv, LaunchInv, TypeOK, DiskOK
  <2>4. ~(HasRetriable /\ roundNum < MaxRetryRounds)
    BY <2>1 DEF Decide
  <2>5. config[e]
    BY <2>1 DEF RunInv, ConfigInv, HasConfig
  <2>6. status[e] \in InFlightStatuses => launches > 1
    <3>1. launches \in Nat /\ launches # 0
      BY <2>1 DEF RunInv, LaunchInv, TypeOK, DriverOK
    <3>2. status[e] \in InFlightStatuses => launches # 1
      BY <2>1, <2>2 DEF RunInv, LaunchInv
    <3> QED
      BY <3>1, <3>2
  <2>7. status[e] \in RetriableStatuses => retry[e] >= MaxRetries \/ roundNum = MaxRetryRounds
    <3>1. /\ retry[e] \in Nat /\ roundNum \in 0 .. MaxRetryRounds
          /\ MaxRetries \in Nat /\ MaxRetryRounds \in Nat
      BY SequentialAssumption DEF RunInv, TypeOK, DiskOK, DriverOK
    <3> QED
      BY <2>4, <2>5, <3>1 DEF HasRetriable
  <2> QED
    BY <2>3, <2>6, <2>7
<1> QED
  BY <1>1, RunCorrect, PTL DEF Spec, NothingLost

-----------------------------------------------------------------------------
(* A launch comes to an end *)

Claiming == pc = "claim" \/ (pc \in {"move", "moved", "write"} /\ job = "claim")

\* Where the round stands, and where the driver is with one episode.
Stage ==
  CASE pc = "start"  -> 5
    [] pc = "plan"   -> 4
    [] Claiming      -> 3
    [] pc = "decide" -> 1
    [] pc = "down"   -> 0
    [] OTHER         -> 2

Place ==
  CASE pc = "claim"  -> 9
    [] pc = "move"   -> 8
    [] pc = "moved"  -> 7
    [] pc = "write"  -> 6
    [] pc = "setup"  -> 5
    [] pc = "loop"   -> 4
    [] pc = "summed" -> 3
    [] pc = "close"  -> 2
    [] pc = "next"   -> 1
    [] OTHER         -> 0

\* What a launch has left to do, the weightiest first: retry rounds, the stages of
\* the round, configs or claims, episodes to run, and the steps of the one at hand.
Rank ==
  <<IF pc = "down" THEN 0 ELSE 1, MaxRetryRounds - roundNum, Stage,
    Cardinality(todo), Cardinality(queue), Place>>

Ranks == [1 .. 6 -> Nat]
Smaller == {p \in Nat \X Nat : p[1] < p[2]}
Lower == LexProductOrdering(Smaller, Nat, 6)

\* No infinite descent: a launch whose every step lowers its rank comes to an end.
LEMMA NoInfiniteLaunch == IsWellFoundedOn(Lower, Ranks)
<1>1. Smaller = OpToRel(<, Nat)
  BY DEF Smaller, OpToRel
<1>2. IsWellFoundedOn(Smaller, Nat)
  BY <1>1, NatLessThanWellFounded, Zenon
<1> QED
  BY <1>2, WFLexProductOrdering, Zenon DEF Lower, Ranks

LEMMA RankType == TypeOK => Rank \in Ranks
<1> SUFFICES ASSUME TypeOK PROVE Rank \in Ranks
  OBVIOUS
<1>1. Cardinality(todo) \in Nat /\ Cardinality(queue) \in Nat
  BY SequentialAssumption, FS_Subset, FS_CardinalityType DEF TypeOK, DriverOK
<1>2. MaxRetryRounds - roundNum \in Nat
  BY SequentialAssumption DEF TypeOK, DriverOK
<1>3. Stage \in Nat /\ Place \in Nat /\ (IF pc = "down" THEN 0 ELSE 1) \in Nat
  BY DEF Stage, Place
<1> QED
  BY <1>1, <1>2, <1>3 DEF Rank, Ranks

\* Lower, spelled out.
Descends ==
  \/ pc # "down" /\ pc' = "down"
  \/ /\ pc # "down" /\ pc' # "down"
     /\ \/ MaxRetryRounds - roundNum' < MaxRetryRounds - roundNum
        \/ /\ roundNum' = roundNum
           /\ \/ Stage' < Stage
              \/ /\ Stage' = Stage
                 /\ \/ Cardinality(todo') < Cardinality(todo)
                    \/ /\ todo' = todo
                       /\ \/ Cardinality(queue') < Cardinality(queue)
                          \/ queue' = queue /\ Place' < Place

LEMMA DescentLowers ==
  ASSUME Rank \in Ranks, Rank' \in Ranks, Descends
  PROVE  <<Rank', Rank>> \in Lower
<1>1. /\ \A i \in 1 .. 6 : Rank[i] \in Nat /\ Rank'[i] \in Nat
      /\ <<Rank', Rank>> \in Ranks \X Ranks
  BY DEF Ranks
<1>2. SUFFICES \E j \in 1 .. 6 : /\ \A i \in 1 .. (j - 1) : Rank'[i] = Rank[i]
                                 /\ Rank'[j] < Rank[j]
  <2>1. PICK j \in 1 .. 6 : /\ \A i \in 1 .. (j - 1) : Rank'[i] = Rank[i]
                            /\ Rank'[j] < Rank[j]
    BY <1>2
  <2>2. <<Rank'[j], Rank[j]>> \in Smaller
    BY <1>1, <2>1 DEF Smaller
  <2> QED
    BY <1>1, <2>1, <2>2, Zenon DEF Lower, LexProductOrdering, Ranks
<1>3. /\ Rank[1] = (IF pc = "down" THEN 0 ELSE 1) /\ Rank'[1] = (IF pc' = "down" THEN 0 ELSE 1)
      /\ Rank[2] = MaxRetryRounds - roundNum /\ Rank'[2] = MaxRetryRounds - roundNum'
      /\ Rank[3] = Stage /\ Rank'[3] = Stage'
      /\ Rank[4] = Cardinality(todo) /\ Rank'[4] = Cardinality(todo')
      /\ Rank[5] = Cardinality(queue) /\ Rank'[5] = Cardinality(queue')
      /\ Rank[6] = Place /\ Rank'[6] = Place'
  BY DEF Rank
<1> HIDE DEF Rank
<1>4. \/ Rank'[1] < Rank[1]
      \/ /\ Rank'[1] = Rank[1]
         /\ \/ Rank'[2] < Rank[2]
            \/ /\ Rank'[2] = Rank[2]
               /\ \/ Rank'[3] < Rank[3]
                  \/ /\ Rank'[3] = Rank[3]
                     /\ \/ Rank'[4] < Rank[4]
                        \/ /\ Rank'[4] = Rank[4]
                           /\ \/ Rank'[5] < Rank[5]
                              \/ Rank'[5] = Rank[5] /\ Rank'[6] < Rank[6]
  BY <1>3 DEF Descends
<1> QED
  BY <1>4

\* One episode fewer.
LEMMA OneFewer ==
  ASSUME NEW S \in SUBSET Episodes, NEW e \in S
  PROVE  Cardinality(S \ {e}) < Cardinality(S)
<1>1. IsFiniteSet(S)
  BY SequentialAssumption, FS_Subset
<1>2. Cardinality(S \ {e}) = Cardinality(S) - 1 /\ Cardinality(S) \in Nat
  BY <1>1, FS_RemoveElement, FS_CardinalityType, Zenon
<1> QED
  BY <1>2

LEMMA DriverDescends ==
  ASSUME TypeOK, QueueInv, Driver \/ Interrupt \/ Kill
  PROVE  Descends
<1>0. /\ pc \in PCs /\ roundNum \in 0 .. MaxRetryRounds /\ MaxRetryRounds \in Nat
      /\ todo \in SUBSET Episodes /\ queue \in SUBSET Episodes
  BY SequentialAssumption DEF TypeOK, DriverOK
<1> USE DEF session, work
<1>p. ASSUME NEW e \in Episodes, SavesConfig(e)
      PROVE  Descends
  <2>1. pc = "plan" /\ pc' = pc /\ e \in todo /\ todo' = todo \ {e} /\ roundNum' = roundNum
    BY <1>p DEF SavesConfig
  <2>2. Cardinality(todo') < Cardinality(todo)
    BY <1>0, <2>1, OneFewer
  <2> QED
    BY <2>1, <2>2 DEF Descends, Stage, Claiming
<1>1. CASE StartRound \/ Planned \/ Claimed \/ RoundEnds
  <2>1. roundNum' = roundNum
    BY <1>1 DEF StartRound, Planned, Claimed, RoundEnds
  <2>2. \/ pc = "start" /\ pc' \in {"plan", "claim"}
        \/ pc = "plan" /\ pc' = "claim"
        \/ pc = "claim" /\ pc' = "next"
        \/ pc = "next" /\ pc' = "decide"
    BY <1>1 DEF StartRound, FromScratch, FromStatuses, Planned, Claimed, RoundEnds
  <2>3. Stage' < Stage
    BY <2>2 DEF Stage, Claiming
  <2> QED
    BY <2>1, <2>2, <2>3 DEF Descends
<1>2. CASE Decide
  <2>1. CASE pc' = "start" /\ roundNum' = roundNum + 1
    BY <1>0, <1>2, <2>1 DEF Decide, Descends
  <2>2. CASE pc' = "down"
    BY <1>2, <2>2 DEF Decide, Descends
  <2> QED
    BY <1>2, <2>1, <2>2 DEF Decide, Leaves, Ends
<1>3. ASSUME NEW e \in Episodes, Claim(e)
      PROVE  Descends
  <2>1. pc = "claim" /\ pc' \in {"move", "write"} /\ job' = "claim"
    BY <1>3 DEF Claim, ReadPrior
  <2>2. UNCHANGED <<roundNum, todo, queue>>
    BY <1>3 DEF Claim
  <2> QED
    BY <2>1, <2>2 DEF Descends, Stage, Claiming, Place
<1>4. ASSUME NEW e \in Episodes, Run(e)
      PROVE  Descends
  <2>1. pc = "next" /\ pc' \in {"move", "write"} /\ job' = "open"
    BY <1>4 DEF Run, ReadPrior
  <2>2. UNCHANGED <<roundNum, todo>> /\ e \in queue /\ queue' = queue \ {e}
    BY <1>4 DEF Run
  <2>3. Cardinality(queue') < Cardinality(queue)
    BY <1>0, <2>2, OneFewer
  <2>4. Stage' = Stage
    BY <2>1 DEF Stage, Claiming
  <2> QED
    BY <2>1, <2>2, <2>3, <2>4 DEF Descends
<1>5. ASSUME Move \/ Restore
      PROVE  Descends
  <2>1. UNCHANGED <<roundNum, todo, queue, job>>
    BY <1>5 DEF Move, Restore
  <2>2. CASE Move
    <3>1. pc = "move" /\ pc' = "moved"
      BY <2>2 DEF Move
    <3> QED
      BY <2>1, <3>1 DEF Descends, Stage, Claiming, Place
  <2>3. CASE Restore
    <3>1. pc = "moved" /\ pc' = "write"
      BY <2>3 DEF Restore
    <3> QED
      BY <2>1, <3>1 DEF Descends, Stage, Claiming, Place
  <2> QED
    BY <1>5, <2>2, <2>3
<1>6. CASE RestoreFails
  <2>1. pc = "moved" /\ roundNum' = roundNum
    BY <1>6 DEF RestoreFails
  <2>2. CASE pc' = "down"
    BY <2>1, <2>2 DEF Descends
  <2>3. CASE pc' = "next" /\ job = "open" /\ UNCHANGED <<todo, queue>>
    BY <2>1, <2>3 DEF Descends, Stage, Claiming, Place
  <2> QED
    BY <1>6, <2>2, <2>3 DEF RestoreFails, Leaves, Ends
<1>7. CASE Write
  <2>1. pc = "write" /\ UNCHANGED <<roundNum, queue, job>>
    BY <1>7 DEF Write
  <2>2. CASE job = "claim" /\ todo' = todo \ {cur} /\ pc' = "claim"
    <3>1. Cardinality(todo') < Cardinality(todo)
      BY <1>0, <2>1, <2>2, OneFewer DEF QueueInv
    <3>2. Stage' = Stage
      BY <2>1, <2>2 DEF Stage, Claiming
    <3> QED
      BY <2>1, <2>2, <3>1, <3>2 DEF Descends
  <2>3. CASE job = "open" /\ todo' = todo /\ pc' = "setup"
    BY <2>1, <2>3 DEF Descends, Stage, Claiming, Place
  <2> QED
    BY <1>7, <2>2, <2>3 DEF Write
<1>8. CASE SavesMetadata \/ Finalize \/ Concludes \/ \E st \in Verdicts : Raises(st)
  <2>1. UNCHANGED <<roundNum, todo, queue>>
    BY <1>8 DEF SavesMetadata, Finalize, Concludes, Raises
  <2>2. \/ pc = "setup" /\ pc' \in {"loop", "close"}
        \/ pc = "loop" /\ pc' \in {"summed", "close"}
        \/ pc = "summed" /\ pc' = "close"
    BY <1>8 DEF SavesMetadata, Finalize, Concludes, Raises
  <2> QED
    BY <2>1, <2>2 DEF Descends, Stage, Claiming, Place
<1>9. CASE Close
  <2>1. pc = "close" /\ roundNum' = roundNum
    BY <1>9 DEF Close
  <2>2. CASE pc' = "next" /\ UNCHANGED <<todo, queue>>
    BY <2>1, <2>2 DEF Descends, Stage, Claiming, Place
  <2>3. CASE pc' = "down"
    BY <2>1, <2>3 DEF Descends
  <2> QED
    BY <1>9, <2>2, <2>3 DEF Close, Leaves, Ends
<1>10. CASE Interrupt \/ Kill
  <2>1. pc # "down" /\ pc' = "down"
    BY <1>10, EndingEnds DEF Ending, Ends
  <2> QED
    BY <2>1 DEF Descends
<1> QED
  BY <1>p, <1>1, <1>2, <1>3, <1>4, <1>5, <1>6, <1>7, <1>8, <1>9, <1>10 DEF Driver

\* However often the viewer and the reset tool write into its episodes, every step
\* of the driver uses up some of its rounds, claims, runs or one run's steps, and
\* nothing else gives them back: it cannot retry for ever.
THEOREM LaunchIsBounded ==
  Spec => [][\/ pc = "down" /\ \E mode \in LaunchModes : Launch(mode)
             \/ <<Rank', Rank>> \in Lower
             \/ (Tool \/ TimePasses) /\ Rank' = Rank]_vars
<1>1. TypeOK /\ TypeOK' /\ QueueInv /\ [Next]_vars =>
        [\/ pc = "down" /\ \E mode \in LaunchModes : Launch(mode)
         \/ <<Rank', Rank>> \in Lower
         \/ (Tool \/ TimePasses) /\ Rank' = Rank]_vars
  <2> SUFFICES ASSUME TypeOK, TypeOK', QueueInv, Next
               PROVE  \/ pc = "down" /\ \E mode \in LaunchModes : Launch(mode)
                      \/ <<Rank', Rank>> \in Lower
                      \/ (Tool \/ TimePasses) /\ Rank' = Rank
    OBVIOUS
  <2>1. CASE \E mode \in LaunchModes : Launch(mode)
    BY <2>1 DEF Launch
  <2>2. CASE Driver \/ Interrupt \/ Kill
    <3>1. Rank' \in Ranks
      <4>1. (TypeOK => Rank \in Ranks)'
        BY RankType, PTL
      <4> QED
        BY <4>1 DEF Ranks
    <3> QED
      BY <2>2, <3>1, RankType, DriverDescends, DescentLowers
  <2>3. CASE Tool \/ TimePasses
    <3>1. UNCHANGED <<pc, session, work>>
      BY <2>3, AsideKeeps DEF Aside
    <3> QED
      BY <2>3, <3>1 DEF session, work, Rank, Stage, Claiming, Place
  <2> QED
    BY <2>1, <2>2, <2>3 DEF Next
<1>2. RunInv => TypeOK /\ QueueInv
  BY DEF RunInv
<1> QED
  BY <1>1, <1>2, RunCorrect, PTL DEF Spec

-----------------------------------------------------------------------------
(* A run that is only resumed, without tools, implements EpisodeLifecycle *)

LEMMA Phases ==
  /\ PhaseOf(Absent) = "unstarted"
  /\ \A st \in InFlightStatuses : PhaseOf(st) = "inflight"
  /\ \A st \in RetriableStatuses : PhaseOf(st) = "retriable"
  /\ \A st \in FinishedStatuses : PhaseOf(st) = "finished"
<1>1. /\ Absent \notin InFlightStatuses \cup RetriableStatuses \cup FinishedStatuses
      /\ InFlightStatuses \cap RetriableStatuses = {}
      /\ InFlightStatuses \cap FinishedStatuses = {}
      /\ RetriableStatuses \cap FinishedStatuses = {}
  OBVIOUS
<1> HIDE DEF Absent, InFlightStatuses, RetriableStatuses, FinishedStatuses
<1> QED
  BY <1>1, Zenon DEF PhaseOf

\* A claim is due to e.
Due(e) ==
  /\ config[e]
  /\ status[e] = Absent \/ (status[e] \in RetriableStatuses /\ retry[e] < MaxRetries)

Working == {"claim", "move", "moved", "write", "next", "setup", "loop", "summed", "close"}

\* What the driver has read of the episode at hand is what its status says.
HeldOK ==
  /\ pc = "move" => /\ job = "claim" /\ held = retry[cur] + 1
                    /\ status[cur] \in RetriableStatuses /\ retry[cur] < MaxRetries
  /\ pc = "moved" => job = "claim" /\ status[cur] = Absent /\ ~dir[cur] /\ held <= MaxRetries
  /\ pc = "write" => /\ held <= MaxRetries /\ config[cur]
                     /\ job = "claim" => status[cur] = Absent
                     /\ job = "open" => status[cur] = "QUEUED" /\ held = retry[cur]
  /\ pc \in {"setup", "loop", "summed", "close"} => status[cur] = "RUNNING" /\ held = retry[cur]

LifeInv ==
  /\ tpc = "idle"
  /\ \A e \in Episodes : retry[e] <= MaxRetries /\ (status[e] # Absent => config[e])
  /\ launches = 0 => pc = "down"
  /\ launches = 0 \/ (pc = "start" /\ ~resume) => \A e \in Episodes : status[e] = Absent
  /\ pc = "plan" => \A e \in Episodes : status[e] = Absent /\ (config[e] \/ e \in todo)
  /\ pc \in Working => /\ \A e \in todo : e # cur => Due(e)
                       /\ \A e \in queue \ todo : e # cur => status[e] = "QUEUED"
  /\ HeldOK

\* How the status of an episode may change.
StatusMoves(e) ==
  \/ status'[e] = status[e] /\ retry'[e] = retry[e]
  \/ status[e] = Absent /\ status'[e] = "QUEUED" /\ retry'[e] \in 0 .. MaxRetries
  \/ status[e] \in InFlightStatuses /\ status'[e] \in Status /\ retry'[e] = retry[e]
  \/ /\ status[e] \in RetriableStatuses /\ retry[e] < MaxRetries
     /\ status'[e] = Absent /\ retry'[e] = 0

Moves == LifeInv' /\ \A e \in Episodes : StatusMoves(e)

\* A step that touches no file.
LEMMA QuietMoves ==
  ASSUME TypeOK', LifeInv, UNCHANGED <<status, retry>>, \A e \in Episodes : config[e] => config'[e],
         tpc' = "idle", launches' = 0 => pc' = "down",
         pc' = "plan" => \A e \in Episodes : status[e] = Absent /\ (config'[e] \/ e \in todo'),
         launches' = 0 \/ (pc' = "start" /\ ~resume') => \A e \in Episodes : status[e] = Absent,
         pc' \in Working => /\ \A e \in todo' : e # cur' => Due(e)
                            /\ \A e \in queue' \ todo' : e # cur' => status[e] = "QUEUED",
         HeldOK'
  PROVE  Moves
<1>1. todo' \subseteq Episodes
  BY DEF TypeOK, DriverOK
<1>2. \A e \in todo' : Due(e) => Due(e)'
  BY <1>1 DEF Due
<1>3. \A e \in Episodes : retry'[e] <= MaxRetries /\ (status'[e] # Absent => config'[e])
  BY DEF LifeInv
<1>4. \A e \in Episodes : StatusMoves(e)
  BY DEF StatusMoves
<1> QED
  BY <1>2, <1>3, <1>4 DEF LifeInv, Moves

LEMMA LifeStep ==
  ASSUME Tools = {}, TypeOK, TypeOK', QueueInv, LifeInv, [Next]_vars,
         launches > 0 /\ launches' # launches => resume'
  PROVE  Moves
<1>0. /\ status \in [Episodes -> Status \cup {Absent}] /\ retry \in [Episodes -> Nat]
      /\ config \in [Episodes -> BOOLEAN] /\ dir \in [Episodes -> BOOLEAN]
      /\ launches \in Nat /\ held \in Nat /\ pc \in PCs /\ MaxRetries \in Nat
      /\ todo \in SUBSET Episodes /\ queue \in SUBSET Episodes /\ job \in {"claim", "open"}
      /\ NoEpisode \notin Episodes
  BY SequentialAssumption DEF TypeOK, DiskOK, DriverOK
<1>b. cur \in Episodes <=> pc \in {"move", "moved", "write", "setup", "loop", "summed", "close"}
  BY DEF TypeOK, BusyOK
<1>d. LifeInv
  OBVIOUS
<1>1. CASE Aside
  <2>1. ~ Tool
    BY <1>d DEF LifeInv, Tool, ViewerLooks, ResetStarts, ToolReads, ToolSkips, ToolWrites, ToolDone
  <2>2. UNCHANGED <<status, retry, config, dir, pc, session, work, tpc>>
    BY <1>1, <2>1 DEF Aside, TimePasses, vars, disk, outside
  <2> QED
    BY <1>d, <2>2, QuietMoves DEF LifeInv, HeldOK, session, work, Due
<1>2. CASE Ending
  <2>1. UNCHANGED <<status, retry, config, launches, tpc>> /\ pc' = "down" /\ pc # "down"
    BY <1>2, EndingEnds DEF Ends, disk, outside
  <2> QED
    BY <1>d, <2>1, QuietMoves DEF LifeInv, HeldOK, Working
<1>3. ASSUME NEW mode \in LaunchModes, Launch(mode)
      PROVE  Moves
  <2>1. /\ UNCHANGED <<status, retry, config, tpc>> /\ pc' = "start" /\ launches' = launches + 1
        /\ launches' > 0
    BY <1>0, <1>3 DEF Launch, disk, outside
  <2>2. ~ resume' => \A e \in Episodes : status[e] = Absent
    BY <1>0, <1>d, <2>1 DEF LifeInv
  <2> QED
    BY <1>0, <1>d, <2>1, <2>2, QuietMoves DEF LifeInv, HeldOK, Working
<1>p. CASE Planned
  <2>1. /\ pc = "plan" /\ todo = {} /\ todo' = Episodes /\ queue' = Episodes /\ pc' = "claim"
        /\ UNCHANGED <<status, retry, config, tpc, launches>>
    BY <1>p DEF Planned, QueueInv, disk, outside, session
  <2>2. \A e \in Episodes : Due(e)
    BY <1>d, <2>1 DEF LifeInv, Due
  <2> QED
    BY <1>d, <2>1, <2>2, QuietMoves DEF LifeInv, HeldOK
<1>s. ASSUME NEW e \in Episodes, SavesConfig(e)
      PROVE  Moves
  <2>1. /\ pc = "plan" /\ pc' = "plan" /\ todo' = todo \ {e}
        /\ config' = [config EXCEPT ![e] = TRUE]
        /\ UNCHANGED <<status, retry, tpc, launches, resume>>
    BY <1>s DEF SavesConfig, outside, session
  <2> QED
    BY <1>0, <1>d, <2>1, QuietMoves DEF LifeInv, HeldOK, Working
<1>4. CASE StartRound
  <2>1. /\ pc = "start" /\ UNCHANGED <<retry, config, launches, tpc>>
    BY <1>4 DEF StartRound, session, outside
  <2>2. CASE FromScratch
    <3>1. \A e \in Episodes : status[e] = Absent
      BY <1>d, <2>1, <2>2 DEF LifeInv, FromScratch
    <3>2. UNCHANGED status /\ pc' = "plan" /\ todo' = Episodes
      BY <2>2 DEF FromScratch
    <3> QED
      BY <1>d, <2>1, <3>1, <3>2, QuietMoves DEF LifeInv, HeldOK, Working
  <2>3. CASE FromStatuses
    <3>1. /\ status' = [e \in Episodes |-> IF Swept(e) THEN "STALE" ELSE status[e]]
          /\ queue' = todo' /\ pc' = "claim"
          /\ todo' = {e \in Episodes : config[e] /\ ShouldRelaunch(status'[e], retry[e], MaxRetries)}
          /\ config' = config
      BY <2>1, <2>3 DEF FromStatuses
    <3>2. \A e \in Episodes : Swept(e) => status[e] \in InFlightStatuses /\ config[e]
      BY DEF Swept, ShouldSweep
    <3>3. ASSUME NEW e \in Episodes
          PROVE  StatusMoves(e)
      <4>1. CASE Swept(e)
        <5>1. status[e] \in InFlightStatuses /\ status'[e] = "STALE" /\ retry'[e] = retry[e]
          BY <2>1, <3>1, <3>2, <4>1
        <5> QED
          BY <5>1 DEF StatusMoves
      <4>2. CASE ~ Swept(e)
        BY <2>1, <3>1, <4>2 DEF StatusMoves
      <4> QED
        BY <4>1, <4>2
    <3>4. \A e \in todo' : Due(e)'
      BY <2>1, <3>1 DEF ShouldRelaunch, Due
    <3> QED
      BY <1>d, <2>1, <3>1, <3>2, <3>3, <3>4 DEF Moves, LifeInv, HeldOK
  <2> QED
    BY <1>4, <2>2, <2>3 DEF StartRound
<1>5. CASE Claimed \/ RoundEnds
  <2>1. /\ UNCHANGED <<status, retry, config, launches, tpc, todo, queue, cur>>
        /\ pc' \in {"next", "decide"} /\ pc \in {"claim", "next"}
    BY <1>5 DEF Claimed, RoundEnds, session, disk, outside, work
  <2> QED
    BY <1>d, <2>1, QuietMoves DEF LifeInv, HeldOK, Working
<1>6. CASE Decide
  <2>1. /\ UNCHANGED <<status, retry, config, launches, tpc>> /\ pc = "decide"
        /\ pc' = "down" \/ (pc' = "start" /\ resume')
    BY <1>6 DEF Decide, disk, outside, Leaves, Ends
  <2> QED
    BY <1>d, <2>1, QuietMoves DEF LifeInv, HeldOK, Working
<1>7. ASSUME NEW e \in Episodes, Claim(e)
      PROVE  Moves
  <2>1. /\ pc = "claim" /\ e \in todo /\ cur' = e /\ job' = "claim"
        /\ held' = NextRetryCount(status[e], retry[e])
        /\ pc' = IF Terminal(e) THEN "move" ELSE "write"
        /\ UNCHANGED <<status, retry, config, launches, tpc, todo, queue>>
    BY <1>7 DEF Claim, ReadPrior, disk, session, outside
  <2>2. cur \notin Episodes
    BY <1>b, <2>1
  <2>3. Due(e)
    BY <1>d, <2>1, <2>2 DEF LifeInv, Working
  <2>4. HeldOK'
    BY <1>0, <2>1, <2>3 DEF HeldOK, Due, Terminal, NextRetryCount
  <2>5. /\ \A d \in todo : Due(d)
        /\ \A d \in queue \ todo : status[d] = "QUEUED"
    BY <1>0, <1>d, <2>1, <2>2 DEF LifeInv, Working
  <2> QED
    BY <1>d, <2>1, <2>4, <2>5, QuietMoves DEF LifeInv
<1>8. ASSUME NEW e \in Episodes, Run(e)
      PROVE  Moves
  <2>1. /\ pc = "next" /\ e \in queue /\ queue' = queue \ {e} /\ cur' = e /\ job' = "open"
        /\ held' = NextRetryCount(status[e], retry[e])
        /\ pc' = IF Terminal(e) /\ overwrite[e] THEN "move" ELSE "write"
        /\ UNCHANGED <<status, retry, config, launches, tpc, todo>>
    BY <1>8 DEF Run, ReadPrior, disk, session, outside
  <2>2. cur \notin Episodes /\ todo = {}
    BY <1>b, <2>1 DEF QueueInv
  <2>3. \A d \in queue : status[d] = "QUEUED"
    BY <1>0, <1>d, <2>1, <2>2 DEF LifeInv, Working
  <2>4. pc' = "write" /\ held' = retry[e] /\ retry[e] <= MaxRetries /\ config[e]
    BY <1>d, <2>1, <2>3 DEF Terminal, NextRetryCount, LifeInv
  <2>5. HeldOK'
    BY <2>1, <2>3, <2>4 DEF HeldOK
  <2> QED
    BY <1>d, <2>1, <2>2, <2>3, <2>4, <2>5, QuietMoves DEF LifeInv
<1>9. CASE Move
  <2>1. /\ pc = "move" /\ pc' = "moved" /\ cur \in Episodes /\ job = "claim"
        /\ status[cur] \in RetriableStatuses /\ retry[cur] < MaxRetries /\ held = retry[cur] + 1
    BY <1>9, <1>b, <1>d DEF Move, LifeInv, HeldOK
  <2>2. /\ status' = [status EXCEPT ![cur] = Absent] /\ retry' = [retry EXCEPT ![cur] = 0]
        /\ config' = [config EXCEPT ![cur] = FALSE] /\ dir' = [dir EXCEPT ![cur] = FALSE]
        /\ UNCHANGED <<launches, tpc, todo, queue, cur, held, job, resume>>
    BY <1>9 DEF Move, session, outside, work
  <2>3. \A e \in Episodes : StatusMoves(e)
    BY <1>0, <2>1, <2>2 DEF StatusMoves
  <2>4. HeldOK'
    BY <1>0, <2>1, <2>2 DEF HeldOK
  <2>5. \A e \in Episodes : e # cur =>
          status'[e] = status[e] /\ retry'[e] = retry[e] /\ config'[e] = config[e]
    BY <1>0, <2>2
  <2>6. status'[cur] = Absent /\ retry'[cur] = 0
    BY <1>0, <2>1, <2>2
  <2>7. \A e \in Episodes : retry'[e] <= MaxRetries /\ (status'[e] # Absent => config'[e])
    BY <1>0, <1>d, <2>5, <2>6 DEF LifeInv
  <2>8. /\ \A e \in todo : e # cur => Due(e)'
        /\ \A e \in queue \ todo : e # cur => status'[e] = "QUEUED"
    BY <1>0, <1>d, <2>1, <2>5 DEF LifeInv, Working, Due
  <2> QED
    BY <1>d, <2>1, <2>2, <2>3, <2>4, <2>7, <2>8 DEF Moves, LifeInv
<1>10. CASE Restore
  <2>1. /\ pc = "moved" /\ pc' = "write" /\ config' = [config EXCEPT ![cur] = TRUE]
        /\ UNCHANGED <<status, retry, launches, tpc, todo, queue, cur, held, job, resume>>
    BY <1>10 DEF Restore, session, outside, work
  <2>2. HeldOK'
    BY <1>0, <1>b, <1>d, <2>1 DEF LifeInv, HeldOK
  <2> QED
    BY <1>0, <1>d, <2>1, <2>2, QuietMoves DEF LifeInv, Working
<1>11. ~ RestoreFails
  BY <1>d DEF RestoreFails, LifeInv, HeldOK
<1>12. CASE Write
  <2>1. pc = "write" /\ cur \in Episodes /\ held <= MaxRetries /\ config[cur]
    BY <1>12, <1>b, <1>d DEF Write, LifeInv, HeldOK
  <2>2. UNCHANGED <<config, launches, tpc, queue, job, resume>> /\ launches # 0 /\ tpc = "idle"
    BY <1>12, <1>d, <2>1 DEF Write, session, outside, LifeInv
  <2>3. \A e \in Episodes : retry[e] <= MaxRetries /\ (status[e] # Absent => config[e])
    BY <1>d DEF LifeInv
  <2>4. /\ \A e \in todo : e # cur => Due(e)
        /\ \A e \in queue \ todo : e # cur => status[e] = "QUEUED"
    BY <1>d, <2>1 DEF LifeInv, Working
  <2>5. CASE job = "claim"
    <3>1. /\ status' = [status EXCEPT ![cur] = "QUEUED"] /\ retry' = [retry EXCEPT ![cur] = held]
          /\ todo' = todo \ {cur} /\ cur' = NoEpisode /\ pc' = "claim"
      BY <1>12, <2>5 DEF Write, WriteStatus
    <3>2. status[cur] = Absent
      BY <1>d, <2>1, <2>5 DEF LifeInv, HeldOK
    <3>3. \A e \in Episodes : StatusMoves(e)
      BY <1>0, <2>1, <3>1, <3>2 DEF StatusMoves
    <3>4. HeldOK'
      BY <3>1 DEF HeldOK
    <3>5. \A e \in Episodes : retry'[e] <= MaxRetries /\ (status'[e] # Absent => config'[e])
      BY <1>0, <2>1, <2>2, <2>3, <3>1
    <3>6. /\ \A e \in todo' : Due(e)'
          /\ \A e \in queue' \ todo' : status'[e] = "QUEUED"
      BY <1>0, <2>1, <2>2, <2>4, <3>1 DEF Due
    <3> QED
      BY <2>2, <3>1, <3>3, <3>4, <3>5, <3>6 DEF Moves, LifeInv
  <2>6. CASE job = "open"
    <3>1. /\ status' = [status EXCEPT ![cur] = "RUNNING"] /\ retry' = [retry EXCEPT ![cur] = held]
          /\ todo' = todo /\ cur' = cur /\ pc' = "setup" /\ held' = held
      BY <1>12, <2>6 DEF Write, WriteStatus
    <3>2. status[cur] = "QUEUED" /\ held = retry[cur]
      BY <1>d, <2>1, <2>6 DEF LifeInv, HeldOK
    <3>3. \A e \in Episodes : StatusMoves(e)
      BY <1>0, <2>1, <3>1, <3>2 DEF StatusMoves
    <3>4. HeldOK'
      BY <1>0, <2>1, <3>1 DEF HeldOK
    <3>5. \A e \in Episodes : retry'[e] <= MaxRetries /\ (status'[e] # Absent => config'[e])
      BY <1>0, <2>1, <2>2, <2>3, <3>1
    <3>6. /\ \A e \in todo' : e # cur => Due(e)'
          /\ \A e \in queue' \ todo' : e # cur => status'[e] = "QUEUED"
      BY <1>0, <2>1, <2>2, <2>4, <3>1 DEF Due
    <3> QED
      BY <2>2, <3>1, <3>3, <3>4, <3>5, <3>6 DEF Moves, LifeInv
  <2> QED
    BY <1>0, <2>5, <2>6
<1>13. CASE SavesMetadata
  <2>1. /\ pc = "setup" /\ pc' = "loop" /\ config' = [config EXCEPT ![cur] = TRUE]
        /\ UNCHANGED <<status, retry, launches, tpc, todo, queue, cur, held, job, resume>>
    BY <1>13 DEF SavesMetadata, session, outside, work
  <2>2. HeldOK'
    BY <1>d, <2>1 DEF LifeInv, HeldOK
  <2> QED
    BY <1>0, <1>d, <2>1, <2>2, QuietMoves DEF LifeInv, Working
<1>14. CASE Finalize \/ Concludes \/ \E st \in Verdicts : Raises(st)
  <2>1. /\ pc \in {"setup", "loop", "summed"} /\ pc' \in {"summed", "close"}
        /\ UNCHANGED <<status, retry, config, launches, tpc, todo, queue, cur, held, job, resume>>
    BY <1>14 DEF Finalize, Concludes, Raises, disk, session, outside, work
  <2>2. HeldOK'
    BY <1>d, <2>1 DEF LifeInv, HeldOK
  <2> QED
    BY <1>0, <1>d, <2>1, <2>2, QuietMoves DEF LifeInv, Working
<1>15. CASE Close
  <2>1. /\ pc = "close" /\ cur \in Episodes /\ status[cur] = "RUNNING" /\ held = retry[cur]
        /\ verdict \in Status
    BY <1>15, <1>b, <1>d DEF Close, LifeInv, HeldOK, TypeOK, DriverOK, Verdicts
  <2>2. /\ status' = [status EXCEPT ![cur] = verdict] /\ retry' = [retry EXCEPT ![cur] = held]
        /\ UNCHANGED <<config, launches, tpc, job, resume>>
    BY <1>15 DEF Close, WriteStatus, outside
  <2>3. \A e \in Episodes : StatusMoves(e)
    BY <1>0, <2>1, <2>2 DEF StatusMoves
  <2>4. \/ pc' = "next" /\ cur' = NoEpisode /\ UNCHANGED <<todo, queue>>
        \/ pc' = "down"
    BY <1>15 DEF Close, Leaves, Ends
  <2>5. HeldOK'
    BY <2>4 DEF HeldOK
  <2>6. \A e \in Episodes : retry'[e] <= MaxRetries /\ (status'[e] # Absent => config'[e])
    BY <1>0, <1>d, <2>1, <2>2 DEF LifeInv
  <2>7. cur \notin queue /\ todo = {}
    BY <2>1 DEF QueueInv
  <2>8. pc' = "next" => \A e \in queue' \ todo' : status'[e] = "QUEUED"
    BY <1>0, <1>d, <2>1, <2>2, <2>4, <2>7 DEF LifeInv, Working
  <2>9. tpc' = "idle" /\ launches' # 0
    BY <1>d, <2>1, <2>2 DEF LifeInv
  <2> QED
    BY <2>3, <2>4, <2>5, <2>6, <2>7, <2>8, <2>9 DEF Moves, LifeInv, Working
<1> QED
  BY <1>1, <1>2, <1>3, <1>p, <1>s, <1>4, <1>5, <1>6, <1>7, <1>8, <1>9, <1>10, <1>11, <1>12, <1>13, <1>14,
     <1>15 DEF Next, Driver, Aside, Ending

phases == [e \in Episodes |-> PhaseOf(status[e])]
quiet  == [e \in Episodes |-> 0]

LEMMA LifecycleStep ==
  ASSUME TypeOK, TypeOK', Moves
  PROVE  [Lifecycle!Next]_<<phases, retry, quiet, FALSE>>
<1>1. /\ status \in [Episodes -> Status \cup {Absent}] /\ retry \in [Episodes -> Nat]
      /\ status' \in [Episodes -> Status \cup {Absent}] /\ retry' \in [Episodes -> Nat]
  BY DEF TypeOK, DiskOK
<1>2. ASSUME NEW e \in Episodes
      PROVE  Lifecycle!Start(e) \/ Lifecycle!Settle(e) \/ Lifecycle!Retry(e) \/ Lifecycle!Stays(e)
  <2>1. StatusMoves(e)
    BY DEF Moves
  <2>2. phases[e] = PhaseOf(status[e]) /\ phases'[e] = PhaseOf(status'[e])
    BY DEF phases
  <2>3. CASE status'[e] = status[e] /\ retry'[e] = retry[e]
    BY <2>2, <2>3 DEF Lifecycle!Stays, phases
  <2>4. CASE status[e] = Absent /\ status'[e] = "QUEUED" /\ retry'[e] \in 0 .. MaxRetries
    BY <2>2, <2>4, Phases DEF Lifecycle!Start, phases
  <2>5. CASE status[e] \in InFlightStatuses /\ status'[e] \in Status /\ retry'[e] = retry[e]
    BY <2>2, <2>5, Phases DEF Lifecycle!Settle, Lifecycle!Stays, phases
  <2>6. CASE /\ status[e] \in RetriableStatuses /\ retry[e] < MaxRetries
             /\ status'[e] = Absent /\ retry'[e] = 0
    BY <2>2, <2>6, Phases DEF Lifecycle!Retry, phases
  <2> QED
    BY <2>1, <2>3, <2>4, <2>5, <2>6 DEF StatusMoves
<1>3. phases' = [e \in Episodes |-> phases'[e]] /\ retry' = [e \in Episodes |-> retry'[e]]
  BY <1>1 DEF phases
<1> QED
  BY <1>2, <1>3 DEF Lifecycle!Next, phases

\* Without tools, and resumed after its first launch, a sequential run moves its
\* episodes only through their attempts, within the retry budget, however often it is
\* interrupted and killed.
THEOREM LifecycleImplemented ==
  ASSUME Tools = {}
  PROVE  Spec /\ OnlyResumes => ImplementsLifecycle
<1>1. Init => LifeInv
  BY SequentialAssumption DEF Init, LifeInv, HeldOK, Working
<1>2. Init => Lifecycle!Init
  BY Phases DEF Init, Lifecycle!Init
<1>3. TypeOK /\ TypeOK' /\ QueueInv /\ LifeInv /\ [Next]_vars
        /\ [launches > 0 /\ launches' # launches => resume']_vars => Moves
  <2>1. UNCHANGED vars => (launches > 0 /\ launches' # launches => resume')
    BY DEF vars, session
  <2> QED
    BY <2>1, LifeStep
<1>4. TypeOK /\ TypeOK' /\ Moves => LifeInv' /\ [Lifecycle!Next]_<<phases, retry, quiet, FALSE>>
  BY LifecycleStep DEF Moves
<1>5. RunInv => TypeOK /\ QueueInv
  BY DEF RunInv
<1> QED
  BY <1>1, <1>2, <1>3, <1>4, <1>5, RunCorrect, PTL
  DEF Spec, OnlyResumes, ImplementsLifecycle, Lifecycle!Spec, phases, quiet
=============================================================================
