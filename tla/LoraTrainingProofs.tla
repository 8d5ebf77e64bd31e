-------------------------- MODULE LoraTrainingProofs --------------------------
(***************************************************************************)
(* Proofs about training runs, for any number of runs, retries, killed      *)
(* supervisors and messages delivered again.                                *)
(***************************************************************************)
EXTENDS LoraTrainingProperties, TLAPS

\* A supervisor between taking the message and its last commit about the run.
Working == {"admitted", "locked", "setup", "training"}

\* The lane has a run exactly while its task is at work on it; a run that is
\* worked on was created and is not done, and is not queued once it was started.
SlotInv ==
  /\ slot = NoRun <=> at = "idle"
  /\ at \in Working => run[slot] \notin {"done", "absent"}
  /\ at \in {"setup", "training"} => run[slot] # "queued"

\* A run that was given up or is being given up, and that nobody works on.
GivenUp(r) ==
  /\ run[r] \in {"cancelled", "failed", "stopping"}
  /\ ~(slot = r /\ at \in Working)
JobInv == \A r \in Run : job[r] = "failed" => GivenUp(r)

\* What stays true of a run between the read of a request and its commit.
RequestInv ==
  \A r \in Run :
    /\ request[r].kind = "create" => run[r] = "absent"
    /\ request[r].kind = "retry" =>
         request[r].row = "failed" /\ retries[r] < MaxRetries /\ GivenUp(r)
    /\ request[r].kind = "watchdog" =>
         run[r] # "done" /\ ~(slot = r /\ at = "training" /\ outcome = "ok")

\* A supervisor's own container is one of those that run.
OwnInv == outcome = "running" => at \in {"training", "ending"} /\ trainers[slot] > 0

IInv ==
  /\ TypeOK /\ SlotInv /\ JobInv /\ RequestInv /\ OwnInv
  /\ TrainersAreReaped /\ SupervisedGpuIsTaken

-----------------------------------------------------------------------------

\* Every step keeps the types.
LEMMA StepTypes ==
  ASSUME TypeOK, SlotInv, RequestInv, OwnInv, [Next]_vars
  PROVE  TypeOK'
<1>1. ASSUME NEW r \in Run, CreateRun(r) PROVE TypeOK'
  BY <1>1 DEF TypeOK, Request, CreateRun, Asks, Send, Put, rowVars, laneVars,
     redisVars, trainerVars
<1>2. ASSUME NEW r \in Run, RetryJob(r) PROVE TypeOK'
  BY <1>2 DEF TypeOK, Request, RetryJob, Asks, Send, Put, rowVars, laneVars,
     redisVars, trainerVars
<1>3. ASSUME NEW r \in Run, StopRun(r) PROVE TypeOK'
  <2>1. request' \in [Run -> Request]
    <3>1. PICK kind \in {"cancel", "stop"}, row \in JobStatus \cup {Gone} :
            Asks(r, kind, row)
      BY <1>3 DEF TypeOK, StopRun
    <3>2. [kind |-> kind, row |-> row] \in Request
      BY DEF Request
    <3> QED
      BY <3>1, <3>2 DEF TypeOK, Asks, Put
  <2>2. revoked' \subseteq Run
    BY <1>3 DEF TypeOK, StopRun, Revokes
  <2>3. UNCHANGED <<rowVars, messages, lost, laneVars, trainerVars, redisVars,
     faults>>
    BY <1>3 DEF StopRun
  <2> QED
    BY <2>1, <2>2, <2>3 DEF TypeOK, rowVars, laneVars, trainerVars, redisVars
<1>4. ASSUME NEW r \in Run, CancelJob(r) PROVE TypeOK'
  BY <1>4 DEF TypeOK, Request, CancelJob, Asks, Put, rowVars, queueVars, laneVars,
     redisVars, trainerVars, Revokes
<1>5. ASSUME NEW r \in Run, Watchdog(r) PROVE TypeOK'
  BY <1>5 DEF TypeOK, Request, Watchdog, Asks, Put, rowVars, queueVars, laneVars,
     redisVars, trainerVars
<1>6. ASSUME NEW r \in Run, Commit(r) PROVE TypeOK'
  <2>1. run' \in [Run -> RunStatus]
    BY <1>6 DEF TypeOK, Commit, RunAfter, RunStatus, Put, rowVars
  <2>2. job' \in [Run -> JobStatus \cup {Gone}]
    BY <1>6 DEF TypeOK, Commit, JobAfter, JobStatus, Put, rowVars
  <2>3. retries' \in [Run -> 0..MaxRetries]
    BY <1>6, TrainingAssumption DEF TypeOK, RequestInv, Commit, Put, rowVars
  <2>4. request' \in [Run -> Request] /\ flag' \subseteq Run
    BY <1>6 DEF TypeOK, Commit, NoRequest, Request, Put
  <2>5. UNCHANGED <<queueVars, laneVars, trainerVars, lock, heartbeat, faults>>
    BY <1>6 DEF Commit
  <2> QED
    BY <2>1, <2>2, <2>3, <2>4, <2>5 DEF TypeOK, queueVars, laneVars, trainerVars
<1>7. ASSUME NEW r \in Run, EnterEnded(r) PROVE TypeOK'
  BY <1>7 DEF TypeOK, JobStatus, EnterEnded, Take, MarkFinal, Ended, Put, laneVars,
     redisVars, trainerVars
<1>8. ASSUME NEW r \in Run, EnterStopping(r) PROVE TypeOK'
  BY <1>8 DEF TypeOK, RunStatus, JobStatus, EnterStopping, Take, MarkFinal, Ended,
     Put, laneVars, redisVars, trainerVars
<1>9. ASSUME NEW r \in Run, EnterIgnored(r) PROVE TypeOK'
  BY <1>9 DEF TypeOK, EnterIgnored, Take, Put, laneVars, redisVars, trainerVars
<1>10. ASSUME NEW r \in Run, Enter(r) PROVE TypeOK'
  <2>1. held' \in BOOLEAN
    BY <1>10, Zenon DEF Enter, Take, TypeOK, laneVars
  <2>2. /\ run' \in [Run -> RunStatus]
        /\ job' \in [Run -> JobStatus \cup {Gone}]
    BY <1>10 DEF TypeOK, Enter, Take, MarkFinal, RunStatus, JobStatus, Put
  <2>3. slot' \in Run \cup {NoRun} /\ at' \in Stage /\ outcome' \in Outcome
    BY <1>10 DEF TypeOK, Enter, Take, Stage, laneVars
  <2>4. messages' \in [Run -> Nat]
    BY <1>10 DEF TypeOK, Enter, Take, Put
  <2>5. UNCHANGED <<retries, request, lost, revoked, trainerVars, redisVars, faults>>
    BY <1>10 DEF Enter, Take
  <2> QED
    BY <2>1, <2>2, <2>3, <2>4, <2>5 DEF TypeOK, trainerVars, redisVars
<1>11. ASSUME NEW r \in Run, Discard(r) PROVE TypeOK'
  BY <1>11 DEF TypeOK, Discard, Put, rowVars, laneVars, trainerVars, redisVars
<1>12. ASSUME NEW r \in Run, TrainerExits(r) PROVE TypeOK'
  <2>1. outcome' \in Outcome /\ trainers[r] > 0
    BY <1>12 DEF TypeOK, OwnInv, Outcome, TrainerExits, Own
  <2>2. trainers' \in [Run -> Nat] /\ refused' \in [Run -> 0..RefusalBound]
    BY <1>12, <2>1, TrainingAssumption DEF TypeOK, TrainerExits, OneLess, Put
  <2>3. UNCHANGED <<rowVars, request, queueVars, slot, at, held, redisVars, faults>>
    BY <1>12 DEF TrainerExits
  <2> QED
    BY <2>1, <2>2, <2>3 DEF TypeOK, rowVars, queueVars, redisVars
<1>13. ASSUME NEW r \in Run, RestoreLost(r) PROVE TypeOK'
  BY <1>13 DEF TypeOK, RestoreLost, Send, Put, rowVars, laneVars, redisVars,
     trainerVars
<1>14. ASSUME NEW r \in Run, HeartbeatExpires(r) PROVE TypeOK'
  BY <1>14 DEF TypeOK, HeartbeatExpires, Renewed, rowVars, queueVars, laneVars,
     trainerVars
<1>15. CASE BulkCancelPending
  BY <1>15 DEF TypeOK, JobStatus, BulkCancelPending, BulkCancel, PENDING_STATUSES,
     queueVars, laneVars, redisVars, trainerVars
<1>16. CASE CleanupTerminalJobs
  BY <1>16 DEF TypeOK, CleanupTerminalJobs, Cleanup, CLEANUP_STATUSES, queueVars,
     laneVars, redisVars, trainerVars
<1>17. CASE AcquireLock
  BY <1>17 DEF TypeOK, Stage, SlotInv, AcquireLock, LockBusy, rowVars, queueVars,
     trainerVars
<1>18. CASE RequeueBusy
  <2>1. held' \in BOOLEAN
    BY <1>18, Zenon DEF RequeueBusy, Leave, laneVars
  <2> QED
    BY <1>18, <2>1 DEF TypeOK, JobStatus, Stage, Outcome, SlotInv, RequeueBusy,
       LockBusy, MarkUnlessFinal, Send, Leave, Put, redisVars, trainerVars
<1>19. CASE StartRun
  BY <1>19 DEF TypeOK, RunStatus, JobStatus, Stage, StartRun, MarkUnlessFinal, Put,
     queueVars, redisVars, trainerVars
<1>20. CASE StartTrainer
  <2>1. PICK n \in 0..RefusalBound : /\ trainers' = Put(trainers, slot, n + 1)
                                     /\ refused' = Put(refused, slot, n)
    BY <1>20 DEF StartTrainer, Reap
  <2>2. n + 1 \in Nat
    BY TrainingAssumption
  <2>3. trainers' \in [Run -> Nat] /\ refused' \in [Run -> 0..RefusalBound]
    BY <2>1, <2>2 DEF TypeOK, Put
  <2> QED
    BY <1>20, <2>3 DEF TypeOK, Stage, Outcome, StartTrainer, rowVars, queueVars,
       redisVars
<1>21. CASE Finalize
  BY <1>21 DEF TypeOK, RunStatus, JobStatus, Stage, Finalize, Ends, MarkFinal,
     Asked, Put, queueVars, redisVars, trainerVars
<1>22. CASE Release
  <2>1. /\ trainers' \in [Run -> Nat] /\ refused' \in [Run -> 0..RefusalBound]
        /\ faults' \in 0..FaultBound
    <3>1. slot \in Run /\ (Own(slot) => trainers[slot] > 0)
      BY <1>22 DEF Release, Own, OwnInv, SlotInv, TypeOK
    <3> QED
      BY <1>22, <3>1, TrainingAssumption DEF TypeOK, Release, OneLess, Put,
         trainerVars
  <2>2. held' \in BOOLEAN
    BY <1>22, Zenon DEF Release, Leave
  <2> QED
    BY <1>22, <2>1, <2>2 DEF TypeOK, Stage, Outcome, Release, Leave, rowVars,
       queueVars
<1>23. CASE StopTrainer
  <2>1. slot \in Run /\ trainers[slot] > 0
    BY <1>23 DEF StopTrainer, OwnInv, SlotInv, TypeOK
  <2>2. trainers' \in [Run -> Nat] /\ refused' \in [Run -> 0..RefusalBound]
    BY <1>23, <2>1, TrainingAssumption DEF TypeOK, StopTrainer, OneLess, Put
  <2> QED
    BY <1>23, <2>2 DEF TypeOK, Outcome, StopTrainer, rowVars, queueVars, redisVars
<1>24. CASE SetupFails
  <2>1. held' \in BOOLEAN
    BY <1>24, Zenon DEF SetupFails, Leave, laneVars
  <2> QED
    BY <1>24, <2>1, TrainingAssumption DEF TypeOK, Stage, Outcome, SetupFails,
       Leave, rowVars, queueVars, redisVars, trainerVars
<1>25. CASE Break
  BY <1>25 DEF TypeOK, RunStatus, JobStatus, Stage, Break, Ends, MarkFinal, Put,
     queueVars, redisVars, trainerVars
<1>26. CASE Crash
  <2>1. held' \in BOOLEAN
    BY <1>26, Zenon DEF Crash, Leave, laneVars
  <2> QED
    BY <1>26, <2>1, TrainingAssumption DEF TypeOK, Stage, Outcome, Crash, Leave,
       Put, rowVars, redisVars, trainerVars
<1>27. CASE RestoreHeld
  <2>1. held' \in BOOLEAN
    BY <1>27, Zenon DEF RestoreHeld, laneVars
  <2> QED
    BY <1>27, <2>1, TrainingAssumption DEF TypeOK, SlotInv, RestoreHeld, Send, Put,
       rowVars, redisVars, trainerVars
<1>28. CASE LockExpires
  BY <1>28 DEF TypeOK, LockExpires, Expired, Renewed, rowVars, queueVars, laneVars,
     trainerVars
<1>29. CASE UNCHANGED vars
  BY <1>29 DEF TypeOK, vars, rowVars, queueVars, laneVars, redisVars, trainerVars
<1> QED
  BY <1>1, <1>2, <1>3, <1>4, <1>5, <1>6, <1>7, <1>8, <1>9, <1>10, <1>11, <1>12,
     <1>13, <1>14, <1>15, <1>16, <1>17, <1>18, <1>19, <1>20, <1>21, <1>22, <1>23,
     <1>24, <1>25, <1>26, <1>27, <1>28, <1>29 DEF Next, Api, Entering, Supervises

\* Every step keeps the lane in order.
LEMMA StepSlot ==
  ASSUME TypeOK, SlotInv, RequestInv, [Next]_vars
  PROVE  SlotInv'
<1>1. ASSUME NEW r \in Run, CreateRun(r) PROVE SlotInv'
  BY <1>1 DEF SlotInv, CreateRun, Asks, Send, rowVars, laneVars, redisVars
<1>2. ASSUME NEW r \in Run, RetryJob(r) PROVE SlotInv'
  BY <1>2 DEF SlotInv, RetryJob, Asks, Send, rowVars, laneVars, redisVars
<1>3. ASSUME NEW r \in Run, StopRun(r) PROVE SlotInv'
  BY <1>3 DEF SlotInv, StopRun, Asks, Send, rowVars, queueVars, laneVars, redisVars
<1>4. ASSUME NEW r \in Run, CancelJob(r) PROVE SlotInv'
  BY <1>4 DEF SlotInv, CancelJob, Asks, rowVars, queueVars, laneVars, redisVars
<1>5. ASSUME NEW r \in Run, Watchdog(r) PROVE SlotInv'
  BY <1>5 DEF SlotInv, Watchdog, Asks, rowVars, queueVars, laneVars, redisVars
<1>6. ASSUME NEW r \in Run, Commit(r) PROVE SlotInv'
  BY <1>6 DEF TypeOK, SlotInv, Working, RequestInv, GivenUp, Commit, RunAfter,
     JobAfter, NoRequest, Put, rowVars, queueVars, laneVars
<1>7. ASSUME NEW r \in Run, EnterEnded(r) PROVE SlotInv'
  BY <1>7 DEF SlotInv, EnterEnded, Take, MarkFinal, Ended, laneVars, redisVars
<1>8. ASSUME NEW r \in Run, EnterStopping(r) PROVE SlotInv'
  BY <1>8 DEF SlotInv, EnterStopping, Take, MarkFinal, Ended, Put, laneVars,
     redisVars
<1>9. ASSUME NEW r \in Run, EnterIgnored(r) PROVE SlotInv'
  BY <1>9 DEF SlotInv, EnterIgnored, Take, laneVars, redisVars
<1>10. ASSUME NEW r \in Run, Enter(r) PROVE SlotInv'
  BY <1>10, TrainingAssumption DEF SlotInv, Working, Enter, Take, MarkFinal,
     Ended, laneVars, redisVars
<1>11. ASSUME NEW r \in Run, Discard(r) PROVE SlotInv'
  BY <1>11 DEF SlotInv, Discard, Put, rowVars, laneVars, trainerVars, redisVars
<1>12. ASSUME NEW r \in Run, TrainerExits(r) PROVE SlotInv'
  BY <1>12 DEF SlotInv, TrainerExits, NoRequest, rowVars, queueVars, redisVars
<1>13. ASSUME NEW r \in Run, RestoreLost(r) PROVE SlotInv'
  BY <1>13 DEF SlotInv, RestoreLost, Send, rowVars, laneVars, redisVars
<1>14. ASSUME NEW r \in Run, HeartbeatExpires(r) PROVE SlotInv'
  BY <1>14 DEF SlotInv, HeartbeatExpires, Renewed, rowVars, queueVars, laneVars
<1>15. CASE BulkCancelPending
  BY <1>15 DEF SlotInv, BulkCancelPending, BulkCancel, PENDING_STATUSES,
     queueVars, laneVars, redisVars
<1>16. CASE CleanupTerminalJobs
  BY <1>16 DEF SlotInv, CleanupTerminalJobs, Cleanup, CLEANUP_STATUSES, queueVars,
     laneVars, redisVars
<1>17. CASE AcquireLock
  BY <1>17 DEF SlotInv, Working, AcquireLock, LockBusy, rowVars, queueVars
<1>18. CASE RequeueBusy
  BY <1>18 DEF SlotInv, Working, RequeueBusy, LockBusy, MarkUnlessFinal, Send,
     Leave, redisVars
<1>19. CASE StartRun
  BY <1>19 DEF TypeOK, SlotInv, StartRun, MarkUnlessFinal, Put, queueVars, redisVars
<1>20. CASE StartTrainer
  BY <1>20 DEF SlotInv, Working, StartTrainer, Reap, rowVars, queueVars, redisVars
<1>21. CASE Finalize
  BY <1>21 DEF SlotInv, Working, Finalize, Ends, MarkFinal, Asked, queueVars,
     redisVars
<1>22. CASE Release
  BY <1>22 DEF SlotInv, Working, Release, Leave, rowVars, queueVars
<1>23. CASE StopTrainer
  BY <1>23 DEF SlotInv, StopTrainer, Asked, rowVars, queueVars, redisVars
<1>24. CASE SetupFails
  BY <1>24 DEF SlotInv, Working, SetupFails, Leave, rowVars, queueVars, redisVars
<1>25. CASE Break
  BY <1>25 DEF TypeOK, SlotInv, Break, Ends, MarkFinal, Put, queueVars, redisVars
<1>26. CASE Crash
  BY <1>26 DEF SlotInv, Working, Crash, Leave, rowVars, redisVars
<1>27. CASE RestoreHeld
  BY <1>27 DEF SlotInv, RestoreHeld, Send, rowVars, redisVars
<1>28. CASE LockExpires
  BY <1>28 DEF SlotInv, LockExpires, Expired, Renewed, rowVars, queueVars, laneVars
<1>29. CASE UNCHANGED vars
  BY <1>29 DEF SlotInv, vars, rowVars, queueVars, laneVars, redisVars
<1> QED
  BY <1>1, <1>2, <1>3, <1>4, <1>5, <1>6, <1>7, <1>8, <1>9, <1>10, <1>11, <1>12,
     <1>13, <1>14, <1>15, <1>16, <1>17, <1>18, <1>19, <1>20, <1>21, <1>22, <1>23,
     <1>24, <1>25, <1>26, <1>27, <1>28, <1>29 DEF Next, Api, Entering, Supervises

\* A job fails with its run, and nobody works on the run then.
LEMMA StepJob ==
  ASSUME TypeOK, SlotInv, JobInv, RequestInv, [Next]_vars
  PROVE  JobInv'
<1>1. ASSUME NEW r \in Run, CreateRun(r) PROVE JobInv'
  BY <1>1 DEF JobInv, GivenUp, CreateRun, Asks, Send, rowVars, laneVars, redisVars
<1>2. ASSUME NEW r \in Run, RetryJob(r) PROVE JobInv'
  BY <1>2 DEF JobInv, GivenUp, RetryJob, Asks, Send, rowVars, laneVars, redisVars
<1>3. ASSUME NEW r \in Run, StopRun(r) PROVE JobInv'
  BY <1>3 DEF JobInv, GivenUp, StopRun, Asks, Send, rowVars, queueVars, laneVars,
     redisVars
<1>4. ASSUME NEW r \in Run, CancelJob(r) PROVE JobInv'
  BY <1>4 DEF JobInv, GivenUp, CancelJob, Asks, rowVars, queueVars, laneVars,
     redisVars
<1>5. ASSUME NEW r \in Run, Watchdog(r) PROVE JobInv'
  BY <1>5 DEF JobInv, GivenUp, Watchdog, Asks, rowVars, queueVars, laneVars,
     redisVars
<1>6. ASSUME NEW r \in Run, Commit(r) PROVE JobInv'
  BY <1>6 DEF TypeOK, Gone, JobInv, RequestInv, GivenUp, Commit, RunAfter,
     JobAfter, NoRequest, Put, rowVars, queueVars, laneVars
<1>7. ASSUME NEW r \in Run, EnterEnded(r) PROVE JobInv'
  BY <1>7 DEF SlotInv, Working, JobInv, GivenUp, EnterEnded, Take, MarkFinal,
     Ended, Put, laneVars, redisVars
<1>8. ASSUME NEW r \in Run, EnterStopping(r) PROVE JobInv'
  BY <1>8 DEF JobInv, GivenUp, EnterStopping, Take, MarkFinal, Ended, Put,
     laneVars, redisVars
<1>9. ASSUME NEW r \in Run, EnterIgnored(r) PROVE JobInv'
  BY <1>9 DEF JobInv, GivenUp, EnterIgnored, Take, laneVars, redisVars
<1>10. ASSUME NEW r \in Run, Enter(r) PROVE JobInv'
  BY <1>10 DEF TypeOK, SlotInv, Working, JobInv, GivenUp, Enter, Take, MarkFinal,
     Ended, Put, laneVars, redisVars
<1>11. ASSUME NEW r \in Run, Discard(r) PROVE JobInv'
  BY <1>11 DEF JobInv, GivenUp, Discard, Put, rowVars, laneVars, trainerVars,
     redisVars
<1>12. ASSUME NEW r \in Run, TrainerExits(r) PROVE JobInv'
  BY <1>12 DEF JobInv, GivenUp, TrainerExits, NoRequest, rowVars, queueVars,
     redisVars
<1>13. ASSUME NEW r \in Run, RestoreLost(r) PROVE JobInv'
  BY <1>13 DEF JobInv, GivenUp, RestoreLost, Send, rowVars, laneVars, redisVars
<1>14. ASSUME NEW r \in Run, HeartbeatExpires(r) PROVE JobInv'
  BY <1>14 DEF JobInv, GivenUp, HeartbeatExpires, Renewed, rowVars, queueVars,
     laneVars
<1>15. CASE BulkCancelPending
  BY <1>15 DEF TypeOK, JobInv, GivenUp, BulkCancelPending, BulkCancel,
     PENDING_STATUSES, queueVars, laneVars, redisVars
<1>16. CASE CleanupTerminalJobs
  BY <1>16 DEF TypeOK, Gone, JobInv, GivenUp, CleanupTerminalJobs, Cleanup,
     CLEANUP_STATUSES, queueVars, laneVars, redisVars
<1>17. CASE AcquireLock
  BY <1>17 DEF Working, JobInv, GivenUp, AcquireLock, LockBusy, rowVars, queueVars
<1>18. CASE RequeueBusy
  BY <1>18 DEF Working, JobInv, GivenUp, RequeueBusy, LockBusy, MarkUnlessFinal,
     Send, Leave, Put, redisVars
<1>19. CASE StartRun
  BY <1>19 DEF Working, JobInv, GivenUp, StartRun, MarkUnlessFinal, Put,
     queueVars, redisVars
<1>20. CASE StartTrainer
  BY <1>20 DEF Working, JobInv, GivenUp, StartTrainer, Reap, rowVars, queueVars,
     redisVars
<1>21. CASE Finalize
  BY <1>21 DEF TypeOK, Working, JobInv, GivenUp, Finalize, Ends, MarkFinal, Asked,
     Put, queueVars, redisVars
<1>22. CASE Release
  BY <1>22 DEF Working, JobInv, GivenUp, Release, Leave, rowVars, queueVars
<1>23. CASE StopTrainer
  BY <1>23 DEF JobInv, GivenUp, StopTrainer, Asked, rowVars, queueVars, redisVars
<1>24. CASE SetupFails
  BY <1>24 DEF Working, JobInv, GivenUp, SetupFails, Leave, rowVars, queueVars,
     redisVars
<1>25. CASE Break
  BY <1>25 DEF TypeOK, Working, JobInv, GivenUp, Break, Ends, MarkFinal, Put,
     queueVars, redisVars
<1>26. CASE Crash
  BY <1>26 DEF Working, JobInv, GivenUp, Crash, Leave, rowVars, redisVars
<1>27. CASE RestoreHeld
  BY <1>27 DEF JobInv, GivenUp, RestoreHeld, Send, rowVars, redisVars
<1>28. CASE LockExpires
  BY <1>28 DEF JobInv, GivenUp, LockExpires, Expired, Renewed, rowVars, queueVars,
     laneVars
<1>29. CASE UNCHANGED vars
  BY <1>29 DEF JobInv, GivenUp, vars, rowVars, queueVars, laneVars, redisVars
<1> QED
  BY <1>1, <1>2, <1>3, <1>4, <1>5, <1>6, <1>7, <1>8, <1>9, <1>10, <1>11, <1>12,
     <1>13, <1>14, <1>15, <1>16, <1>17, <1>18, <1>19, <1>20, <1>21, <1>22, <1>23,
     <1>24, <1>25, <1>26, <1>27, <1>28, <1>29 DEF Next, Api, Entering, Supervises

\* A request finds its run, when it commits, in a state like the one it read.
LEMMA StepRequest ==
  ASSUME TypeOK, SlotInv, JobInv, RequestInv, [Next]_vars
  PROVE  RequestInv'
<1>1. ASSUME NEW r \in Run, CreateRun(r) PROVE RequestInv'
  BY <1>1 DEF RequestInv, GivenUp, CreateRun, Asks, Send, Put, rowVars, laneVars,
     redisVars
<1>2. ASSUME NEW r \in Run, RetryJob(r) PROVE RequestInv'
  BY <1>2 DEF JobInv, RequestInv, GivenUp, RetryJob, Asks, Send, Put, rowVars,
     laneVars, redisVars
<1>3. ASSUME NEW r \in Run, StopRun(r) PROVE RequestInv'
  BY <1>3 DEF TypeOK, RequestInv, GivenUp, StopRun, Asks, Send, Put, rowVars,
     queueVars, laneVars, redisVars
<1>4. ASSUME NEW r \in Run, CancelJob(r) PROVE RequestInv'
  BY <1>4 DEF RequestInv, GivenUp, CancelJob, Asks, Put, rowVars, queueVars,
     laneVars, redisVars
<1>5. ASSUME NEW r \in Run, Watchdog(r) PROVE RequestInv'
  BY <1>5 DEF SlotInv, RequestInv, GivenUp, Watchdog, Asks, Put, rowVars,
     queueVars, laneVars, redisVars
<1>6. ASSUME NEW r \in Run, Commit(r) PROVE RequestInv'
  BY <1>6 DEF TypeOK, RequestInv, GivenUp, Commit, RunAfter, JobAfter, NoRequest,
     Put, rowVars, queueVars, laneVars
<1>7. ASSUME NEW r \in Run, EnterEnded(r) PROVE RequestInv'
  BY <1>7 DEF RequestInv, GivenUp, EnterEnded, Take, MarkFinal, Ended, laneVars,
     redisVars
<1>8. ASSUME NEW r \in Run, EnterStopping(r) PROVE RequestInv'
  BY <1>8 DEF RequestInv, GivenUp, EnterStopping, Take, MarkFinal, Ended, Put,
     laneVars, redisVars
<1>9. ASSUME NEW r \in Run, EnterIgnored(r) PROVE RequestInv'
  BY <1>9 DEF RequestInv, GivenUp, EnterIgnored, Take, laneVars, redisVars
<1>10. ASSUME NEW r \in Run, Enter(r) PROVE RequestInv'
  BY <1>10 DEF TypeOK, RequestInv, GivenUp, Enter, Take, MarkFinal, Ended, Put,
     laneVars, redisVars
<1>11. ASSUME NEW r \in Run, Discard(r) PROVE RequestInv'
  BY <1>11 DEF RequestInv, GivenUp, Discard, Put, rowVars, laneVars, trainerVars,
     redisVars
<1>12. ASSUME NEW r \in Run, TrainerExits(r) PROVE RequestInv'
  BY <1>12 DEF RequestInv, GivenUp, TrainerExits, NoRequest, rowVars, queueVars,
     redisVars, Own
<1>13. ASSUME NEW r \in Run, RestoreLost(r) PROVE RequestInv'
  BY <1>13 DEF RequestInv, GivenUp, RestoreLost, Send, rowVars, laneVars, redisVars
<1>14. ASSUME NEW r \in Run, HeartbeatExpires(r) PROVE RequestInv'
  BY <1>14 DEF RequestInv, GivenUp, HeartbeatExpires, Renewed, rowVars, queueVars,
     laneVars
<1>15. CASE BulkCancelPending
  BY <1>15 DEF RequestInv, GivenUp, BulkCancelPending, BulkCancel,
     PENDING_STATUSES, queueVars, laneVars, redisVars
<1>16. CASE CleanupTerminalJobs
  BY <1>16 DEF RequestInv, GivenUp, CleanupTerminalJobs, Cleanup,
     CLEANUP_STATUSES, queueVars, laneVars, redisVars
<1>17. CASE AcquireLock
  BY <1>17 DEF Working, RequestInv, GivenUp, AcquireLock, LockBusy, rowVars,
     queueVars
<1>18. CASE RequeueBusy
  BY <1>18 DEF Working, RequestInv, GivenUp, RequeueBusy, LockBusy,
     MarkUnlessFinal, Send, Leave, redisVars
<1>19. CASE StartRun
  BY <1>19 DEF SlotInv, Working, RequestInv, GivenUp, StartRun, MarkUnlessFinal,
     Put, queueVars, redisVars
<1>20. CASE StartTrainer
  BY <1>20 DEF Working, RequestInv, GivenUp, StartTrainer, Reap, rowVars,
     queueVars, redisVars
<1>21. CASE Finalize
  BY <1>21 DEF SlotInv, Working, RequestInv, GivenUp, Finalize, Ends, MarkFinal,
     Asked, Put, queueVars, redisVars
<1>22. CASE Release
  BY <1>22 DEF Working, RequestInv, GivenUp, Release, Leave, rowVars, queueVars
<1>23. CASE StopTrainer
  BY <1>23 DEF RequestInv, GivenUp, StopTrainer, Asked, rowVars, queueVars,
     redisVars
<1>24. CASE SetupFails
  BY <1>24 DEF Working, RequestInv, GivenUp, SetupFails, Leave, rowVars,
     queueVars, redisVars
<1>25. CASE Break
  BY <1>25 DEF SlotInv, Working, RequestInv, GivenUp, Break, Ends, MarkFinal, Put,
     queueVars, redisVars
<1>26. CASE Crash
  BY <1>26 DEF Working, RequestInv, GivenUp, Crash, Leave, rowVars, redisVars
<1>27. CASE RestoreHeld
  BY <1>27 DEF RequestInv, GivenUp, RestoreHeld, Send, rowVars, redisVars
<1>28. CASE LockExpires
  BY <1>28 DEF RequestInv, GivenUp, LockExpires, Expired, Renewed, rowVars,
     queueVars, laneVars
<1>29. CASE UNCHANGED vars
  BY <1>29 DEF RequestInv, GivenUp, vars, rowVars, queueVars, laneVars, redisVars
<1> QED
  BY <1>1, <1>2, <1>3, <1>4, <1>5, <1>6, <1>7, <1>8, <1>9, <1>10, <1>11, <1>12,
     <1>13, <1>14, <1>15, <1>16, <1>17, <1>18, <1>19, <1>20, <1>21, <1>22, <1>23,
     <1>24, <1>25, <1>26, <1>27, <1>28, <1>29 DEF Next, Api, Entering, Supervises

\* A supervisor knows when its container has ended.
LEMMA StepOwn ==
  ASSUME TypeOK, SlotInv, OwnInv, [Next]_vars
  PROVE  OwnInv'
<1>1. ASSUME NEW r \in Run, CreateRun(r) PROVE OwnInv'
  BY <1>1 DEF OwnInv, CreateRun, laneVars, trainerVars
<1>2. ASSUME NEW r \in Run, RetryJob(r) PROVE OwnInv'
  BY <1>2 DEF OwnInv, RetryJob, laneVars, trainerVars
<1>3. ASSUME NEW r \in Run, StopRun(r) PROVE OwnInv'
  BY <1>3 DEF OwnInv, StopRun, laneVars, trainerVars
<1>4. ASSUME NEW r \in Run, CancelJob(r) PROVE OwnInv'
  BY <1>4 DEF OwnInv, CancelJob, laneVars, trainerVars
<1>5. ASSUME NEW r \in Run, Watchdog(r) PROVE OwnInv'
  BY <1>5 DEF OwnInv, Watchdog, laneVars, trainerVars
<1>6. ASSUME NEW r \in Run, Commit(r) PROVE OwnInv'
  BY <1>6 DEF OwnInv, Commit, laneVars, trainerVars
<1>7. ASSUME NEW r \in Run, EnterEnded(r) PROVE OwnInv'
  BY <1>7 DEF OwnInv, EnterEnded, Take, laneVars, trainerVars
<1>8. ASSUME NEW r \in Run, EnterStopping(r) PROVE OwnInv'
  BY <1>8 DEF OwnInv, EnterStopping, Take, laneVars, trainerVars
<1>9. ASSUME NEW r \in Run, EnterIgnored(r) PROVE OwnInv'
  BY <1>9 DEF OwnInv, EnterIgnored, Take, laneVars, trainerVars
<1>10. ASSUME NEW r \in Run, Enter(r) PROVE OwnInv'
  BY <1>10, TrainingAssumption DEF OwnInv, SlotInv, Enter, Take, laneVars, trainerVars
<1>11. ASSUME NEW r \in Run, Discard(r) PROVE OwnInv'
  BY <1>11 DEF OwnInv, Discard, laneVars, trainerVars
<1>12. ASSUME NEW r \in Run, TrainerExits(r) PROVE OwnInv'
  BY <1>12 DEF TypeOK, SlotInv, OwnInv, TrainerExits, Own, OneLess, Put
<1>13. ASSUME NEW r \in Run, RestoreLost(r) PROVE OwnInv'
  BY <1>13 DEF OwnInv, RestoreLost, laneVars, trainerVars
<1>14. ASSUME NEW r \in Run, HeartbeatExpires(r) PROVE OwnInv'
  BY <1>14 DEF OwnInv, HeartbeatExpires, laneVars, trainerVars
<1>15. CASE BulkCancelPending
  BY <1>15 DEF OwnInv, BulkCancelPending, laneVars, trainerVars
<1>16. CASE CleanupTerminalJobs
  BY <1>16 DEF OwnInv, CleanupTerminalJobs, laneVars, trainerVars
<1>17. CASE AcquireLock
  BY <1>17 DEF OwnInv, AcquireLock, laneVars, trainerVars
<1>18. CASE RequeueBusy
  BY <1>18 DEF OwnInv, RequeueBusy, Leave
<1>19. CASE StartRun
  BY <1>19 DEF OwnInv, StartRun, laneVars, trainerVars
<1>20. CASE StartTrainer
  BY <1>20 DEF TypeOK, SlotInv, OwnInv, StartTrainer, Reap, Put
<1>21. CASE Finalize
  BY <1>21 DEF OwnInv, Finalize, Ends, trainerVars
<1>22. CASE Release
  BY <1>22 DEF OwnInv, Release, Leave
<1>23. CASE StopTrainer
  BY <1>23 DEF OwnInv, StopTrainer
<1>24. CASE SetupFails
  BY <1>24 DEF OwnInv, SetupFails, Leave
<1>25. CASE Break
  BY <1>25 DEF OwnInv, Break, Ends, trainerVars
<1>26. CASE Crash
  BY <1>26 DEF OwnInv, Crash, Leave
<1>27. CASE RestoreHeld
  BY <1>27 DEF OwnInv, RestoreHeld, trainerVars
<1>28. CASE LockExpires
  BY <1>28 DEF OwnInv, LockExpires, laneVars, trainerVars
<1>29. CASE UNCHANGED vars
  BY <1>29 DEF OwnInv, vars, laneVars, trainerVars
<1> QED
  BY <1>1, <1>2, <1>3, <1>4, <1>5, <1>6, <1>7, <1>8, <1>9, <1>10, <1>11, <1>12,
     <1>13, <1>14, <1>15, <1>16, <1>17, <1>18, <1>19, <1>20, <1>21, <1>22, <1>23,
     <1>24, <1>25, <1>26, <1>27, <1>28, <1>29 DEF Next, Api, Entering, Supervises

\* A trainer is started when its run has no other than those refused.
LEMMA StepTrainers ==
  ASSUME TypeOK, TrainersAreReaped, [Next]_vars
  PROVE  TrainersAreReaped'
<1>1. ASSUME NEW r \in Run, CreateRun(r) PROVE TrainersAreReaped'
  BY <1>1 DEF TrainersAreReaped, CreateRun, Asks, Send, rowVars, laneVars,
     redisVars, trainerVars
<1>2. ASSUME NEW r \in Run, RetryJob(r) PROVE TrainersAreReaped'
  BY <1>2 DEF TrainersAreReaped, RetryJob, Asks, Send, rowVars, laneVars,
     redisVars, trainerVars
<1>3. ASSUME NEW r \in Run, StopRun(r) PROVE TrainersAreReaped'
  BY <1>3 DEF TrainersAreReaped, StopRun, Asks, Send, rowVars, queueVars, laneVars,
     redisVars, trainerVars
<1>4. ASSUME NEW r \in Run, CancelJob(r) PROVE TrainersAreReaped'
  BY <1>4 DEF TrainersAreReaped, CancelJob, Asks, rowVars, queueVars, laneVars,
     redisVars, trainerVars
<1>5. ASSUME NEW r \in Run, Watchdog(r) PROVE TrainersAreReaped'
  BY <1>5 DEF TrainersAreReaped, Watchdog, Asks, rowVars, queueVars, laneVars,
     redisVars, trainerVars
<1>6. ASSUME NEW r \in Run, Commit(r) PROVE TrainersAreReaped'
  BY <1>6 DEF TrainersAreReaped, Commit, RunAfter, JobAfter, NoRequest, rowVars,
     queueVars, laneVars, trainerVars
<1>7. ASSUME NEW r \in Run, EnterEnded(r) PROVE TrainersAreReaped'
  BY <1>7 DEF TrainersAreReaped, EnterEnded, Take, MarkFinal, Ended, laneVars,
     redisVars, trainerVars
<1>8. ASSUME NEW r \in Run, EnterStopping(r) PROVE TrainersAreReaped'
  BY <1>8 DEF TrainersAreReaped, EnterStopping, Take, MarkFinal, Ended, laneVars,
     redisVars, trainerVars
<1>9. ASSUME NEW r \in Run, EnterIgnored(r) PROVE TrainersAreReaped'
  BY <1>9 DEF TrainersAreReaped, EnterIgnored, Take, laneVars, redisVars, trainerVars
<1>10. ASSUME NEW r \in Run, Enter(r) PROVE TrainersAreReaped'
  BY <1>10 DEF TrainersAreReaped, Enter, Take, trainerVars
<1>11. ASSUME NEW r \in Run, Discard(r) PROVE TrainersAreReaped'
  BY <1>11 DEF TrainersAreReaped, Discard, Put, rowVars, laneVars, trainerVars,
     redisVars
<1>12. ASSUME NEW r \in Run, TrainerExits(r) PROVE TrainersAreReaped'
  BY <1>12 DEF TypeOK, TrainersAreReaped, TrainerExits, OneLess, Put
<1>13. ASSUME NEW r \in Run, RestoreLost(r) PROVE TrainersAreReaped'
  BY <1>13 DEF TrainersAreReaped, RestoreLost, Send, rowVars, laneVars, redisVars,
     trainerVars
<1>14. ASSUME NEW r \in Run, HeartbeatExpires(r) PROVE TrainersAreReaped'
  BY <1>14 DEF TrainersAreReaped, HeartbeatExpires, Renewed, rowVars, queueVars,
     laneVars, trainerVars
<1>15. CASE BulkCancelPending
  BY <1>15 DEF TrainersAreReaped, BulkCancelPending, BulkCancel, PENDING_STATUSES,
     queueVars, laneVars, redisVars, trainerVars
<1>16. CASE CleanupTerminalJobs
  BY <1>16 DEF TrainersAreReaped, CleanupTerminalJobs, Cleanup, CLEANUP_STATUSES,
     queueVars, laneVars, redisVars, trainerVars
<1>17. CASE AcquireLock
  BY <1>17 DEF TrainersAreReaped, AcquireLock, LockBusy, rowVars, queueVars,
     trainerVars
<1>18. CASE RequeueBusy
  BY <1>18 DEF TrainersAreReaped, RequeueBusy, LockBusy, MarkUnlessFinal, Send,
     Leave, redisVars, trainerVars
<1>19. CASE StartRun
  BY <1>19 DEF TrainersAreReaped, StartRun, MarkUnlessFinal, queueVars, redisVars,
     trainerVars
<1>20. CASE StartTrainer
  BY <1>20, TrainingAssumption DEF TypeOK, TrainersAreReaped, StartTrainer, Reap, Put
<1>21. CASE Finalize
  BY <1>21 DEF TrainersAreReaped, Finalize, Ends, MarkFinal, Asked, queueVars,
     redisVars, trainerVars
<1>22. CASE Release
  BY <1>22 DEF TypeOK, TrainersAreReaped, Release, OneLess, Put, trainerVars
<1>23. CASE StopTrainer
  BY <1>23 DEF TypeOK, TrainersAreReaped, StopTrainer, OneLess, Put
<1>24. CASE SetupFails
  BY <1>24 DEF TrainersAreReaped, SetupFails, Leave, rowVars, queueVars, redisVars,
     trainerVars
<1>25. CASE Break
  BY <1>25 DEF TrainersAreReaped, Break, Ends, MarkFinal, queueVars, redisVars,
     trainerVars
<1>26. CASE Crash
  BY <1>26 DEF TrainersAreReaped, Crash, Leave, rowVars, redisVars, trainerVars
<1>27. CASE RestoreHeld
  BY <1>27 DEF TrainersAreReaped, RestoreHeld, Send, rowVars, redisVars, trainerVars
<1>28. CASE LockExpires
  BY <1>28 DEF TrainersAreReaped, LockExpires, Expired, Renewed, rowVars,
     queueVars, laneVars, trainerVars
<1>29. CASE UNCHANGED vars
  BY <1>29 DEF TrainersAreReaped, vars, rowVars, queueVars, laneVars, redisVars,
     trainerVars
<1> QED
  BY <1>1, <1>2, <1>3, <1>4, <1>5, <1>6, <1>7, <1>8, <1>9, <1>10, <1>11, <1>12,
     <1>13, <1>14, <1>15, <1>16, <1>17, <1>18, <1>19, <1>20, <1>21, <1>22, <1>23,
     <1>24, <1>25, <1>26, <1>27, <1>28, <1>29 DEF Next, Api, Entering, Supervises

\* Nobody takes the lock and the heartbeat from a supervisor.
LEMMA StepLock ==
  ASSUME TypeOK, SlotInv, SupervisedGpuIsTaken, [Next]_vars
  PROVE  SupervisedGpuIsTaken'
<1>1. ASSUME NEW r \in Run, CreateRun(r) PROVE SupervisedGpuIsTaken'
  BY <1>1 DEF SupervisedGpuIsTaken, CreateRun, Asks, Send, rowVars, laneVars,
     redisVars
<1>2. ASSUME NEW r \in Run, RetryJob(r) PROVE SupervisedGpuIsTaken'
  BY <1>2 DEF SupervisedGpuIsTaken, RetryJob, Asks, Send, rowVars, laneVars,
     redisVars
<1>3. ASSUME NEW r \in Run, StopRun(r) PROVE SupervisedGpuIsTaken'
  BY <1>3 DEF SupervisedGpuIsTaken, StopRun, Asks, Send, rowVars, queueVars,
     laneVars, redisVars
<1>4. ASSUME NEW r \in Run, CancelJob(r) PROVE SupervisedGpuIsTaken'
  BY <1>4 DEF SupervisedGpuIsTaken, CancelJob, Asks, rowVars, queueVars, laneVars,
     redisVars
<1>5. ASSUME NEW r \in Run, Watchdog(r) PROVE SupervisedGpuIsTaken'
  BY <1>5 DEF SupervisedGpuIsTaken, Watchdog, Asks, rowVars, queueVars, laneVars,
     redisVars
<1>6. ASSUME NEW r \in Run, Commit(r) PROVE SupervisedGpuIsTaken'
  BY <1>6 DEF SupervisedGpuIsTaken, Commit, RunAfter, JobAfter, NoRequest,
     rowVars, queueVars, laneVars
<1>7. ASSUME NEW r \in Run, EnterEnded(r) PROVE SupervisedGpuIsTaken'
  BY <1>7 DEF SupervisedGpuIsTaken, EnterEnded, Take, MarkFinal, Ended, laneVars,
     redisVars
<1>8. ASSUME NEW r \in Run, EnterStopping(r) PROVE SupervisedGpuIsTaken'
  BY <1>8 DEF SupervisedGpuIsTaken, EnterStopping, Take, MarkFinal, Ended,
     laneVars, redisVars
<1>9. ASSUME NEW r \in Run, EnterIgnored(r) PROVE SupervisedGpuIsTaken'
  BY <1>9 DEF SupervisedGpuIsTaken, EnterIgnored, Take, laneVars, redisVars
<1>10. ASSUME NEW r \in Run, Enter(r) PROVE SupervisedGpuIsTaken'
  BY <1>10 DEF SupervisedGpuIsTaken, Enter, Take, MarkFinal, Ended, laneVars,
     redisVars
<1>11. ASSUME NEW r \in Run, Discard(r) PROVE SupervisedGpuIsTaken'
  BY <1>11 DEF SupervisedGpuIsTaken, Discard, Put, rowVars, laneVars, trainerVars,
     redisVars
<1>12. ASSUME NEW r \in Run, TrainerExits(r) PROVE SupervisedGpuIsTaken'
  BY <1>12 DEF SupervisedGpuIsTaken, TrainerExits, NoRequest, rowVars, queueVars,
     redisVars
<1>13. ASSUME NEW r \in Run, RestoreLost(r) PROVE SupervisedGpuIsTaken'
  BY <1>13 DEF SupervisedGpuIsTaken, RestoreLost, Send, rowVars, laneVars, redisVars
<1>14. ASSUME NEW r \in Run, HeartbeatExpires(r) PROVE SupervisedGpuIsTaken'
  BY <1>14 DEF SupervisedGpuIsTaken, HeartbeatExpires, Renewed, rowVars,
     queueVars, laneVars
<1>15. CASE BulkCancelPending
  BY <1>15 DEF SupervisedGpuIsTaken, BulkCancelPending, BulkCancel,
     PENDING_STATUSES, queueVars, laneVars, redisVars
<1>16. CASE CleanupTerminalJobs
  BY <1>16 DEF SupervisedGpuIsTaken, CleanupTerminalJobs, Cleanup,
     CLEANUP_STATUSES, queueVars, laneVars, redisVars
<1>17. CASE AcquireLock
  BY <1>17 DEF SupervisedGpuIsTaken, AcquireLock, LockBusy, rowVars, queueVars
<1>18. CASE RequeueBusy
  BY <1>18 DEF SupervisedGpuIsTaken, RequeueBusy, LockBusy, MarkUnlessFinal, Send,
     Leave, redisVars
<1>19. CASE StartRun
  BY <1>19 DEF SupervisedGpuIsTaken, StartRun, MarkUnlessFinal, queueVars, redisVars
<1>20. CASE StartTrainer
  BY <1>20 DEF SupervisedGpuIsTaken, StartTrainer, Reap, rowVars, queueVars,
     redisVars
<1>21. CASE Finalize
  BY <1>21 DEF SupervisedGpuIsTaken, Finalize, Ends, MarkFinal, Asked, queueVars,
     redisVars
<1>22. CASE Release
  BY <1>22 DEF SupervisedGpuIsTaken, Release, Leave, rowVars, queueVars
<1>23. CASE StopTrainer
  BY <1>23 DEF SupervisedGpuIsTaken, StopTrainer, Asked, rowVars, queueVars,
     redisVars
<1>24. CASE SetupFails
  BY <1>24 DEF SupervisedGpuIsTaken, SetupFails, Leave, rowVars, queueVars,
     redisVars
<1>25. CASE Break
  BY <1>25 DEF SupervisedGpuIsTaken, Break, Ends, MarkFinal, queueVars, redisVars
<1>26. CASE Crash
  BY <1>26 DEF SupervisedGpuIsTaken, Crash, Leave, rowVars, redisVars
<1>27. CASE RestoreHeld
  BY <1>27 DEF SupervisedGpuIsTaken, RestoreHeld, Send, rowVars, redisVars
<1>28. CASE LockExpires
  BY <1>28 DEF SupervisedGpuIsTaken, LockExpires, Expired, Renewed, rowVars,
     queueVars, laneVars
<1>29. CASE UNCHANGED vars
  BY <1>29 DEF SupervisedGpuIsTaken, vars, rowVars, queueVars, laneVars, redisVars
<1> QED
  BY <1>1, <1>2, <1>3, <1>4, <1>5, <1>6, <1>7, <1>8, <1>9, <1>10, <1>11, <1>12,
     <1>13, <1>14, <1>15, <1>16, <1>17, <1>18, <1>19, <1>20, <1>21, <1>22, <1>23,
     <1>24, <1>25, <1>26, <1>27, <1>28, <1>29 DEF Next, Api, Entering, Supervises

\* A step that starts no run that is done.
NoLateTraining ==
  \A q \in Run : run[q] = "done" => run'[q] \in {"done", "stopping", "cancelled"}

\* What a step may do to a run that is done.
LEMMA StepDone ==
  ASSUME TypeOK, SlotInv, JobInv, RequestInv, [Next]_vars
  PROVE  NoLateTraining
<1>1. ASSUME NEW r \in Run, CreateRun(r) PROVE NoLateTraining
  BY <1>1 DEF NoLateTraining, CreateRun, Asks, Send, rowVars, laneVars, redisVars
<1>2. ASSUME NEW r \in Run, RetryJob(r) PROVE NoLateTraining
  BY <1>2 DEF NoLateTraining, RetryJob, Asks, Send, rowVars, laneVars, redisVars
<1>3. ASSUME NEW r \in Run, StopRun(r) PROVE NoLateTraining
  BY <1>3 DEF NoLateTraining, StopRun, Asks, Send, rowVars, queueVars, laneVars,
     redisVars
<1>4. ASSUME NEW r \in Run, CancelJob(r) PROVE NoLateTraining
  BY <1>4 DEF NoLateTraining, CancelJob, Asks, rowVars, queueVars, laneVars, redisVars
<1>5. ASSUME NEW r \in Run, Watchdog(r) PROVE NoLateTraining
  BY <1>5 DEF NoLateTraining, Watchdog, Asks, rowVars, queueVars, laneVars, redisVars
<1>6. ASSUME NEW r \in Run, Commit(r) PROVE NoLateTraining
  BY <1>6 DEF NoLateTraining, TypeOK, RequestInv, GivenUp, Commit, RunAfter,
     JobAfter, NoRequest,
     Put, rowVars, queueVars, laneVars
<1>7. ASSUME NEW r \in Run, EnterEnded(r) PROVE NoLateTraining
  BY <1>7 DEF NoLateTraining, EnterEnded, Take, MarkFinal, Ended, laneVars, redisVars
<1>8. ASSUME NEW r \in Run, EnterStopping(r) PROVE NoLateTraining
  BY <1>8 DEF NoLateTraining, EnterStopping, Take, MarkFinal, Ended, Put, laneVars,
     redisVars
<1>9. ASSUME NEW r \in Run, EnterIgnored(r) PROVE NoLateTraining
  BY <1>9 DEF NoLateTraining, EnterIgnored, Take, laneVars, redisVars
<1>10. ASSUME NEW r \in Run, Enter(r) PROVE NoLateTraining
  BY <1>10 DEF NoLateTraining, TypeOK, Enter, Take, MarkFinal, Ended, Put,
     laneVars, redisVars
<1>11. ASSUME NEW r \in Run, Discard(r) PROVE NoLateTraining
  BY <1>11 DEF NoLateTraining, Discard, Put, rowVars, laneVars, trainerVars, redisVars
<1>12. ASSUME NEW r \in Run, TrainerExits(r) PROVE NoLateTraining
  BY <1>12 DEF NoLateTraining, TrainerExits, NoRequest, rowVars, queueVars, redisVars
<1>13. ASSUME NEW r \in Run, RestoreLost(r) PROVE NoLateTraining
  BY <1>13 DEF NoLateTraining, RestoreLost, Send, rowVars, laneVars, redisVars
<1>14. ASSUME NEW r \in Run, HeartbeatExpires(r) PROVE NoLateTraining
  BY <1>14 DEF NoLateTraining, HeartbeatExpires, Renewed, rowVars, queueVars, laneVars
<1>15. CASE BulkCancelPending
  BY <1>15 DEF NoLateTraining, BulkCancelPending, BulkCancel, PENDING_STATUSES,
     queueVars,
     laneVars, redisVars
<1>16. CASE CleanupTerminalJobs
  BY <1>16 DEF NoLateTraining, CleanupTerminalJobs, Cleanup, CLEANUP_STATUSES,
     queueVars,
     laneVars, redisVars
<1>17. CASE AcquireLock
  BY <1>17 DEF NoLateTraining, AcquireLock, LockBusy, rowVars, queueVars
<1>18. CASE RequeueBusy
  BY <1>18 DEF NoLateTraining, RequeueBusy, LockBusy, MarkUnlessFinal, Send, Leave,
     redisVars
<1>19. CASE StartRun
  BY <1>19 DEF NoLateTraining, SlotInv, Working, StartRun, MarkUnlessFinal, Put,
     queueVars,
     redisVars
<1>20. CASE StartTrainer
  BY <1>20 DEF NoLateTraining, StartTrainer, Reap, rowVars, queueVars, redisVars
<1>21. CASE Finalize
  BY <1>21 DEF NoLateTraining, SlotInv, Working, Finalize, Ends, MarkFinal, Asked,
     Put, queueVars,
     redisVars
<1>22. CASE Release
  BY <1>22 DEF NoLateTraining, Release, Leave, rowVars, queueVars
<1>23. CASE StopTrainer
  BY <1>23 DEF NoLateTraining, StopTrainer, Asked, rowVars, queueVars, redisVars
<1>24. CASE SetupFails
  BY <1>24 DEF NoLateTraining, SetupFails, Leave, rowVars, queueVars, redisVars
<1>25. CASE Break
  BY <1>25 DEF NoLateTraining, SlotInv, Working, Break, Ends, MarkFinal, Put,
     queueVars, redisVars
<1>26. CASE Crash
  BY <1>26 DEF NoLateTraining, Crash, Leave, rowVars, redisVars
<1>27. CASE RestoreHeld
  BY <1>27 DEF NoLateTraining, RestoreHeld, Send, rowVars, redisVars
<1>28. CASE LockExpires
  BY <1>28 DEF NoLateTraining, LockExpires, Expired, Renewed, rowVars, queueVars,
     laneVars
<1>29. CASE UNCHANGED vars
  BY <1>29 DEF NoLateTraining, vars, rowVars, queueVars, laneVars, redisVars
<1> QED
  BY <1>1, <1>2, <1>3, <1>4, <1>5, <1>6, <1>7, <1>8, <1>9, <1>10, <1>11, <1>12,
     <1>13, <1>14, <1>15, <1>16, <1>17, <1>18, <1>19, <1>20, <1>21, <1>22, <1>23,
     <1>24, <1>25, <1>26, <1>27, <1>28, <1>29 DEF Next, Api, Entering, Supervises

-----------------------------------------------------------------------------

LEMMA Invariance == TrainingSpec => []IInv
<1>1. Init => IInv
  <2> SUFFICES ASSUME Init PROVE IInv
    OBVIOUS
  <2>1. TypeOK
    <3>1. held \in BOOLEAN
      BY Zenon DEF Init
    <3>2. request \in [Run -> Request]
      BY DEF Init, Request, NoRequest
    <3> QED
      BY <3>1, <3>2, TrainingAssumption DEF Init, TypeOK, RunStatus, JobStatus,
         Stage, Outcome
  <2>2. SlotInv /\ JobInv /\ RequestInv /\ OwnInv
    BY DEF Init, SlotInv, JobInv, RequestInv, OwnInv, Working, NoRequest, Gone
  <2>3. TrainersAreReaped /\ SupervisedGpuIsTaken
    BY DEF Init, TrainersAreReaped, SupervisedGpuIsTaken
  <2> QED  BY <2>1, <2>2, <2>3 DEF IInv
<1>2. IInv /\ [Next]_vars => IInv'
  BY StepTypes, StepSlot, StepJob, StepRequest, StepOwn, StepTrainers,
     StepLock DEF IInv
<1> QED  BY <1>1, <1>2, PTL DEF TrainingSpec

\* Every variable keeps its type; retries never exceed their limit.
THEOREM TypeCorrect == TrainingSpec => []TypeOK
<1>1. IInv => TypeOK
  BY DEF IInv
<1> QED  BY <1>1, Invariance, PTL

\* However many supervisors of a run were killed and however often its message was
\* delivered, it has no trainers beside its own but those Docker would not remove.
THEOREM TrainersAreReapedAtStart == TrainingSpec => []TrainersAreReaped
<1>1. IInv => TrainersAreReaped
  BY DEF IInv
<1> QED  BY <1>1, Invariance, PTL

\* A supervisor at work has the lock and its heartbeat.
THEOREM SupervisorsHaveTheLock == TrainingSpec => []SupervisedGpuIsTaken
<1>1. IInv => SupervisedGpuIsTaken
  BY DEF IInv
<1> QED  BY <1>1, Invariance, PTL

\* What may be retried is not being worked on.
THEOREM FailedJobsAreIdle == TrainingSpec => []FailedJobIsIdle
<1>1. IInv => FailedJobIsIdle
  BY DEF IInv, JobInv, GivenUp, Working, FailedJobIsIdle
<1> QED  BY <1>1, Invariance, PTL

\* A run that is done is never started again.
THEOREM DoneRunsRest == TrainingSpec => DoneIsNotTrainedAgain
<1>1. IInv /\ [Next]_vars =>
        [\A r \in Run : run[r] = "done" => run'[r] \in {"done", "stopping",
           "cancelled"}]_vars
  BY StepDone DEF IInv, NoLateTraining
<1> QED  BY <1>1, Invariance, PTL DEF TrainingSpec, DoneIsNotTrainedAgain
=============================================================================
