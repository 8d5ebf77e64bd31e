---------------------------- MODULE ScriptRunProofs ----------------------------
(***************************************************************************)
(* Proofs about script runs, for any number of attempts, overtaken workers  *)
(* and restarts of the supervisor.                                         *)
(***************************************************************************)
EXTENDS ScriptRunProperties, TLAPS

\* Whoever says that the run succeeded says so because a job ended well: the
\* supervisor, a worker with its answer, the row, a worker that settles, the
\* step.
TruthInv ==
  /\ entry = "succeeded" => finished
  /\ \A a \in Attempt :
       /\ worker[a].at = "recording" /\ worker[a].knows = "succeeded" => finished
       /\ worker[a].at = "settling" /\ worker[a].knows = "success" => finished
  /\ run = "succeeded" => finished
  /\ SuccessIsReal

\* A run the supervisor has no record of was not started in its present life,
\* and neither was one whose thread has not come to that; a cancellation that
\* was taken up leaves a record.
SupervisorInv ==
  /\ job # "none" => entry # "none"
  /\ entry = "none" \/ job \in {"accepted", "created", "checked"} => starts <= restarts
  /\ kill \in {"entered", "scanned", "done"} => entry # "none"
  /\ StartedOncePerLife

IInv == TypeOK /\ TruthInv /\ SupervisorInv

-----------------------------------------------------------------------------

\* Every step keeps the types.
LEMMA StepTypes ==
  ASSUME TypeOK, [Next]_vars
  PROVE  TypeOK'
<1>1. CASE Claim
  BY <1>1, ScriptAssumption DEF TypeOK, Attempt, RunStatus, Stage, Claim, Goes,
     AttemptsLeft, runVars, superVars
<1>2. CASE ExpireLease
  <2>1. lease' \in BOOLEAN
    BY <1>2, Zenon DEF ExpireLease
  <2>2. UNCHANGED <<order, step, n, runVars, worker, inflight, superVars, kill, restarts>>
    BY <1>2 DEF ExpireLease
  <2> QED
    BY <2>1, <2>2 DEF TypeOK, runVars, superVars
<1>3. CASE Reclaim
  BY <1>3 DEF TypeOK, EndedStep, Reclaim, AttemptsLeft, runVars, superVars
<1>4. ASSUME NEW a \in Attempt, Intend(a) PROVE TypeOK'
  BY <1>4 DEF TypeOK, RunStatus, Outcome, Stage, Intend, Goes, Finish, stepVars,
     superVars
<1>5. ASSUME NEW a \in Attempt, AskSupervisor(a) PROVE TypeOK'
  BY <1>5 DEF TypeOK, RunStatus, Outcome, Stage, AskSupervisor, Goes, stepVars,
     runVars, superVars
<1>6. ASSUME NEW a \in Attempt, MarkRunning(a) PROVE TypeOK'
  BY <1>6 DEF TypeOK, RunStatus, FINISHED, Stage, MarkRunning, Goes, stepVars,
     superVars
<1>7. ASSUME NEW a \in Attempt, Submit(a) PROVE TypeOK'
  <2>1. inflight' \subseteq Attempt
    BY <1>7 DEF TypeOK, Submit
  <2>2. worker' \in [Attempt -> [at : Stage, knows : RunStatus \cup Outcome]]
    BY <1>7 DEF TypeOK, Submit, Goes, Stage, RunStatus, Outcome
  <2>3. UNCHANGED <<stepVars, runVars, superVars, kill, restarts>>
    BY <1>7 DEF Submit
  <2> QED
    BY <2>1, <2>2, <2>3 DEF TypeOK, stepVars, runVars, superVars
<1>8. ASSUME NEW a \in Attempt, SupervisorUnavailable(a) PROVE TypeOK'
  BY <1>8 DEF TypeOK, RunStatus, FINISHED, Stage, SupervisorUnavailable, Goes,
     stepVars, runVars, superVars
<1>9. ASSUME NEW a \in Attempt, Record(a) PROVE TypeOK'
  BY <1>9 DEF TypeOK, RunStatus, Outcome, Stage, Record, Goes, Finish, Recorded,
     stepVars, runVars, superVars
<1>10. ASSUME NEW a \in Attempt, Settle(a) PROVE TypeOK'
  <2>1. worker' \in [Attempt -> [at : Stage, knows : RunStatus \cup Outcome]]
    BY <1>10 DEF TypeOK, Settle, Goes, Stage, RunStatus
  <2>2. lease' \in BOOLEAN
    BY <1>10, Zenon DEF TypeOK, Settle
  <2>3. step' \in {"ready", "running"} \cup EndedStep
    BY <1>10 DEF TypeOK, Settle, StepAfter, EndedStep
  <2>4. UNCHANGED <<order, n, runVars, inflight, superVars, kill, restarts>>
    BY <1>10 DEF Settle
  <2> QED
    BY <2>1, <2>2, <2>3, <2>4 DEF TypeOK, runVars, superVars
<1>11. ASSUME NEW a \in Attempt, Crash(a) PROVE TypeOK'
  BY <1>11 DEF TypeOK, RunStatus, Stage, Crash, Goes, stepVars, runVars, superVars
<1>12. ASSUME NEW a \in Attempt, Accept(a) PROVE TypeOK'
  <2>1. worker' \in [Attempt -> [at : Stage, knows : RunStatus \cup Outcome]]
    BY <1>12 DEF TypeOK, Accept, Answer, Goes, Stage, RunStatus, superVars
  <2>2. flagged' \in BOOLEAN
    BY <1>12, Zenon DEF TypeOK, Accept, superVars
  <2>3. /\ inflight' \subseteq Attempt
        /\ entry' \in {"none", "running"} \cup FINISHED
        /\ job' \in Job /\ serves' \in 0..MaxAttempts
    BY <1>12 DEF TypeOK, Accept, Job, Attempt, superVars
  <2>4. UNCHANGED <<stepVars, runVars, container, starts, finished, kill, restarts>>
    BY <1>12 DEF Accept, superVars
  <2> QED
    BY <2>1, <2>2, <2>3, <2>4 DEF TypeOK, stepVars, runVars
<1>13. ASSUME NEW a \in Attempt, DropRequest(a) PROVE TypeOK'
  BY <1>13 DEF TypeOK, DropRequest, stepVars, runVars, superVars
<1>14. CASE Create
  <2>1. worker' \in [Attempt -> [at : Stage, knows : RunStatus \cup Outcome]]
    BY <1>14 DEF TypeOK, Create, Ends, Answer, Goes, Stage, RunStatus, FINISHED
  <2>2. /\ entry' \in {"none", "running"} \cup FINISHED
        /\ job' \in Job /\ serves' \in 0..MaxAttempts
        /\ container' \in {"none", "created", "running", "killed"}
    BY <1>14, ScriptAssumption DEF TypeOK, Create, Ends, Job, FINISHED
  <2>3. UNCHANGED <<stepVars, runVars, inflight, flagged, starts, finished, kill, restarts>>
    BY <1>14 DEF Create, Ends
  <2> QED
    BY <2>1, <2>2, <2>3 DEF TypeOK, stepVars, runVars
<1>15. CASE CheckCreated
  BY <1>15, ScriptAssumption DEF TypeOK, RunStatus, FINISHED, Stage, Job,
     EndedStep, CheckCreated, Ends, Answer, Goes, stepVars, runVars
<1>16. CASE Start
  BY <1>16 DEF TypeOK, Job, Start, stepVars, runVars
<1>17. CASE CheckStarted
  BY <1>17 DEF TypeOK, Job, CheckStarted, stepVars, runVars
<1>18. CASE Exit
  <2>1. worker' \in [Attempt -> [at : Stage, knows : RunStatus \cup Outcome]]
    BY <1>18 DEF TypeOK, Exit, Ends, Answer, Goes, Stage, RunStatus, FINISHED
  <2>2. /\ entry' \in {"none", "running"} \cup FINISHED
        /\ job' \in Job /\ serves' \in 0..MaxAttempts
        /\ container' \in {"none", "created", "running", "killed"}
    BY <1>18, ScriptAssumption DEF Exit, Ends, Job, FINISHED
  <2>3. finished' \in BOOLEAN
    BY <1>18, Zenon DEF TypeOK, Exit
  <2>4. UNCHANGED <<stepVars, runVars, inflight, flagged, starts, kill, restarts>>
    BY <1>18 DEF Exit, Ends
  <2> QED
    BY <2>1, <2>2, <2>3, <2>4 DEF TypeOK, stepVars, runVars
<1>19. CASE Raises
  BY <1>19, ScriptAssumption DEF TypeOK, RunStatus, FINISHED, Stage, Job, Raises,
     Answer, Goes, stepVars, runVars
<1>20. CASE Restart
  <2>1. flagged' \in BOOLEAN
    BY <1>20, Zenon DEF Restart
  <2>2. restarts' \in 0..RestartBound
    BY <1>20, ScriptAssumption DEF TypeOK, Restart
  <2>3. /\ entry' = "none" /\ job' = "none" /\ serves' = 0 /\ container' = "none"
        /\ kill' \in {kill, "lost"}
        /\ UNCHANGED <<stepVars, runVars, worker, inflight, starts, finished>>
    BY <1>20 DEF Restart
  <2> QED
    BY <2>1, <2>2, <2>3, ScriptAssumption DEF TypeOK, Job, stepVars, runVars
<1>21. CASE CancelOrder
  BY <1>21 DEF TypeOK, RunStatus, FINISHED, EndedStep, CancelOrder, superVars
<1>22. CASE KillLost
  BY <1>22 DEF TypeOK, KillLost, stepVars, runVars, superVars
<1>23. CASE KillEnters
  BY <1>23 DEF TypeOK, FINISHED, KillEnters, Tombstone, stepVars, runVars
<1>24. CASE KillScans
  BY <1>24 DEF TypeOK, KillScans, stepVars, runVars
<1>25. CASE KillFlags
  BY <1>25 DEF TypeOK, FINISHED, KillFlags, stepVars, runVars
<1>26. CASE UNCHANGED vars
  BY <1>26 DEF TypeOK, vars, stepVars, runVars, superVars
<1> QED
  BY <1>1, <1>2, <1>3, <1>4, <1>5, <1>6, <1>7, <1>8, <1>9, <1>10, <1>11, <1>12,
     <1>13, <1>14, <1>15, <1>16, <1>17, <1>18, <1>19, <1>20, <1>21, <1>22, <1>23,
     <1>24, <1>25, <1>26 DEF Next, Executes, Supervises, Kills

\* Success is told from one to the next by those who know.
LEMMA StepTruth ==
  ASSUME TypeOK, TruthInv, [Next]_vars
  PROVE  TruthInv'
<1>1. CASE Claim
  BY <1>1 DEF TruthInv, SuccessIsReal, Claim, Goes, AttemptsLeft, runVars, superVars
<1>2. CASE ExpireLease
  BY <1>2 DEF TruthInv, SuccessIsReal, ExpireLease, runVars, superVars
<1>3. CASE Reclaim
  BY <1>3 DEF TruthInv, SuccessIsReal, Reclaim, AttemptsLeft, runVars, superVars
<1>4. ASSUME NEW a \in Attempt, Intend(a) PROVE TruthInv'
  BY <1>4 DEF TypeOK, TruthInv, SuccessIsReal, Intend, Goes, Finish, stepVars,
     superVars
<1>5. ASSUME NEW a \in Attempt, AskSupervisor(a) PROVE TruthInv'
  BY <1>5 DEF TypeOK, TruthInv, SuccessIsReal, AskSupervisor, Goes, stepVars,
     runVars, superVars
<1>6. ASSUME NEW a \in Attempt, MarkRunning(a) PROVE TruthInv'
  BY <1>6 DEF TypeOK, TruthInv, SuccessIsReal, MarkRunning, Goes, stepVars,
     superVars
<1>7. ASSUME NEW a \in Attempt, Submit(a) PROVE TruthInv'
  BY <1>7 DEF TypeOK, TruthInv, SuccessIsReal, Submit, Goes, stepVars, runVars,
     superVars
<1>8. ASSUME NEW a \in Attempt, SupervisorUnavailable(a) PROVE TruthInv'
  BY <1>8 DEF TruthInv, SuccessIsReal, SupervisorUnavailable, Goes, stepVars,
     runVars, superVars
<1>9. ASSUME NEW a \in Attempt, Record(a) PROVE TruthInv'
  BY <1>9 DEF TypeOK, TruthInv, SuccessIsReal, Record, Goes, Finish, Recorded,
     stepVars, runVars, superVars
<1>10. ASSUME NEW a \in Attempt, Settle(a) PROVE TruthInv'
  BY <1>10 DEF TruthInv, SuccessIsReal, Settle, Goes, StepAfter, AttemptsLeft,
     runVars, superVars
<1>11. ASSUME NEW a \in Attempt, Crash(a) PROVE TruthInv'
  BY <1>11 DEF TruthInv, SuccessIsReal, Crash, Goes, stepVars, runVars, superVars
<1>12. ASSUME NEW a \in Attempt, Accept(a) PROVE TruthInv'
  BY <1>12 DEF TypeOK, TruthInv, SuccessIsReal, Accept, Known, Answer, Goes,
     stepVars, runVars, superVars
<1>13. ASSUME NEW a \in Attempt, DropRequest(a) PROVE TruthInv'
  BY <1>13 DEF TruthInv, SuccessIsReal, DropRequest, stepVars, runVars, superVars
<1>14. CASE Create
  BY <1>14 DEF TypeOK, TruthInv, SuccessIsReal, Create, Ends, Answer, Goes,
     stepVars, runVars
<1>15. CASE CheckCreated
  BY <1>15 DEF TypeOK, TruthInv, SuccessIsReal, CheckCreated, Ends, Answer, Goes,
     stepVars, runVars
<1>16. CASE Start
  BY <1>16 DEF TruthInv, SuccessIsReal, Start, stepVars, runVars
<1>17. CASE CheckStarted
  BY <1>17 DEF TruthInv, SuccessIsReal, CheckStarted, stepVars, runVars
<1>18. CASE Exit
  BY <1>18 DEF TypeOK, TruthInv, SuccessIsReal, Exit, Ends, Answer, Goes,
     stepVars, runVars
<1>19. CASE Raises
  BY <1>19 DEF TypeOK, TruthInv, SuccessIsReal, Raises, Answer, Goes, stepVars,
     runVars
<1>20. CASE Restart
  BY <1>20 DEF TruthInv, SuccessIsReal, Restart, stepVars, runVars
<1>21. CASE CancelOrder
  BY <1>21 DEF TruthInv, SuccessIsReal, CancelOrder, superVars
<1>22. CASE KillLost
  BY <1>22 DEF TruthInv, SuccessIsReal, KillLost, stepVars, runVars, superVars
<1>23. CASE KillEnters
  BY <1>23 DEF TruthInv, SuccessIsReal, KillEnters, Tombstone, stepVars, runVars
<1>24. CASE KillScans
  BY <1>24 DEF TruthInv, SuccessIsReal, KillScans, stepVars, runVars
<1>25. CASE KillFlags
  BY <1>25 DEF TruthInv, SuccessIsReal, KillFlags, stepVars, runVars
<1>26. CASE UNCHANGED vars
  BY <1>26 DEF TruthInv, SuccessIsReal, vars, stepVars, runVars, superVars
<1> QED
  BY <1>1, <1>2, <1>3, <1>4, <1>5, <1>6, <1>7, <1>8, <1>9, <1>10, <1>11, <1>12,
     <1>13, <1>14, <1>15, <1>16, <1>17, <1>18, <1>19, <1>20, <1>21, <1>22, <1>23,
     <1>24, <1>25, <1>26 DEF Next, Executes, Supervises, Kills

\* The supervisor's record of the run guards its thread.
LEMMA StepSupervisor ==
  ASSUME TypeOK, SupervisorInv, [Next]_vars
  PROVE  SupervisorInv'
<1>1. CASE Claim
  BY <1>1 DEF SupervisorInv, StartedOncePerLife, Claim, Goes, AttemptsLeft,
     runVars, superVars
<1>2. CASE ExpireLease
  BY <1>2 DEF SupervisorInv, StartedOncePerLife, ExpireLease, runVars, superVars
<1>3. CASE Reclaim
  BY <1>3 DEF SupervisorInv, StartedOncePerLife, Reclaim, AttemptsLeft, runVars,
     superVars
<1>4. ASSUME NEW a \in Attempt, Intend(a) PROVE SupervisorInv'
  BY <1>4 DEF SupervisorInv, StartedOncePerLife, Intend, Goes, Finish, superVars
<1>5. ASSUME NEW a \in Attempt, AskSupervisor(a) PROVE SupervisorInv'
  BY <1>5 DEF SupervisorInv, StartedOncePerLife, AskSupervisor, Goes, runVars,
     superVars
<1>6. ASSUME NEW a \in Attempt, MarkRunning(a) PROVE SupervisorInv'
  BY <1>6 DEF SupervisorInv, StartedOncePerLife, MarkRunning, Goes, superVars
<1>7. ASSUME NEW a \in Attempt, Submit(a) PROVE SupervisorInv'
  BY <1>7 DEF SupervisorInv, StartedOncePerLife, Submit, Goes, runVars, superVars
<1>8. ASSUME NEW a \in Attempt, SupervisorUnavailable(a) PROVE SupervisorInv'
  BY <1>8 DEF SupervisorInv, StartedOncePerLife, SupervisorUnavailable, Goes,
     runVars, superVars
<1>9. ASSUME NEW a \in Attempt, Record(a) PROVE SupervisorInv'
  BY <1>9 DEF SupervisorInv, StartedOncePerLife, Record, Goes, Finish, Recorded,
     runVars, superVars
<1>10. ASSUME NEW a \in Attempt, Settle(a) PROVE SupervisorInv'
  BY <1>10 DEF SupervisorInv, StartedOncePerLife, Settle, Goes, StepAfter,
     AttemptsLeft, runVars, superVars
<1>11. ASSUME NEW a \in Attempt, Crash(a) PROVE SupervisorInv'
  BY <1>11 DEF SupervisorInv, StartedOncePerLife, Crash, Goes, runVars, superVars
<1>12. ASSUME NEW a \in Attempt, Accept(a) PROVE SupervisorInv'
  BY <1>12 DEF SupervisorInv, StartedOncePerLife, Accept, Known, Answer, Goes,
     runVars, superVars
<1>13. ASSUME NEW a \in Attempt, DropRequest(a) PROVE SupervisorInv'
  BY <1>13 DEF SupervisorInv, StartedOncePerLife, DropRequest, runVars, superVars
<1>14. CASE Create
  BY <1>14 DEF SupervisorInv, StartedOncePerLife, Create, Ends, Answer, Goes,
     runVars
<1>15. CASE CheckCreated
  BY <1>15 DEF SupervisorInv, StartedOncePerLife, CheckCreated, Ends, Answer,
     Goes, runVars
<1>16. CASE Start
  BY <1>16 DEF TypeOK, SupervisorInv, StartedOncePerLife, Start, runVars
<1>17. CASE CheckStarted
  BY <1>17 DEF SupervisorInv, StartedOncePerLife, CheckStarted, runVars
<1>18. CASE Exit
  BY <1>18 DEF SupervisorInv, StartedOncePerLife, Exit, Ends, Answer, Goes, runVars
<1>19. CASE Raises
  BY <1>19 DEF SupervisorInv, StartedOncePerLife, Raises, Answer, Goes, runVars
<1>20. CASE Restart
  BY <1>20 DEF TypeOK, SupervisorInv, StartedOncePerLife, Restart, runVars
<1>21. CASE CancelOrder
  BY <1>21 DEF SupervisorInv, StartedOncePerLife, CancelOrder, superVars
<1>22. CASE KillLost
  BY <1>22 DEF SupervisorInv, StartedOncePerLife, KillLost, runVars, superVars
<1>23. CASE KillEnters
  BY <1>23 DEF SupervisorInv, StartedOncePerLife, KillEnters, Tombstone, runVars
<1>24. CASE KillScans
  BY <1>24 DEF SupervisorInv, StartedOncePerLife, KillScans, runVars
<1>25. CASE KillFlags
  BY <1>25 DEF SupervisorInv, StartedOncePerLife, KillFlags, runVars
<1>26. CASE UNCHANGED vars
  BY <1>26 DEF SupervisorInv, StartedOncePerLife, vars, runVars, superVars
<1> QED
  BY <1>1, <1>2, <1>3, <1>4, <1>5, <1>6, <1>7, <1>8, <1>9, <1>10, <1>11, <1>12,
     <1>13, <1>14, <1>15, <1>16, <1>17, <1>18, <1>19, <1>20, <1>21, <1>22, <1>23,
     <1>24, <1>25, <1>26 DEF Next, Executes, Supervises, Kills

-----------------------------------------------------------------------------
(* The theorems.                                                           *)

\* The invariant the other theorems follow from.
THEOREM Invariance == ScriptSpec => []IInv
<1>1. Init => IInv
  <2> SUFFICES ASSUME Init PROVE IInv
    OBVIOUS
  <2>1. lease \in BOOLEAN /\ flagged \in BOOLEAN /\ finished \in BOOLEAN
    BY Zenon DEF Init
  <2>2. worker \in [Attempt -> [at : Stage, knows : RunStatus \cup Outcome]]
    BY DEF Init, Idle, Stage, RunStatus
  <2>3. TypeOK
    <3>1. /\ order = "running" /\ step = "ready" /\ n = 0 /\ run = "none" /\ published = 0
          /\ inflight = {} /\ entry = "none" /\ job = "none" /\ serves = 0
          /\ container = "none" /\ kill = "none" /\ starts = 0 /\ restarts = 0
      BY DEF Init
    <3> QED
      BY <2>1, <2>2, <3>1, ScriptAssumption DEF TypeOK, RunStatus, Job
  <2>4. TruthInv /\ SupervisorInv
    BY DEF Init, Idle, TruthInv, SupervisorInv, SuccessIsReal, StartedOncePerLife
  <2> QED
    BY <2>3, <2>4 DEF IInv
<1>2. IInv /\ [Next]_vars => IInv'
  BY StepTypes, StepTruth, StepSupervisor DEF IInv
<1> QED
  BY <1>1, <1>2, PTL DEF ScriptSpec

\* Every reachable state of the step, the run, its workers and its supervisor is
\* well typed: attempts never pass their limit.
THEOREM TypeCorrect == ScriptSpec => []TypeOK
<1>1. IInv => TypeOK
  BY DEF IInv
<1> QED
  BY <1>1, Invariance, PTL

\* The code is started once in each life of the supervisor at most, however many
\* attempts submit it (Supervisor.run).
THEOREM CodeStartsOncePerLife == ScriptSpec => []StartedOncePerLife
<1>1. IInv => StartedOncePerLife
  BY DEF IInv, SupervisorInv
<1> QED
  BY <1>1, Invariance, PTL

\* No step is reported as succeeded on a job that did not end well (_record,
\* _finish).
THEOREM SuccessesAreReal == ScriptSpec => []SuccessIsReal
<1>1. IInv => SuccessIsReal
  BY DEF IInv, TruthInv
<1> QED
  BY <1>1, Invariance, PTL

\* After an answered cancellation no request starts the run
\* (Supervisor.cancel's tombstone).
THEOREM TombstonesHold == ScriptSpec => CancelPreventsTheRun
<1> DEFINE Held == kill = "done" /\ job = "none" /\ restarts' = restarts
                     => job' = "none"
<1>1. IInv /\ [Next]_vars => Held
  <2> SUFFICES ASSUME IInv, [Next]_vars, kill = "done", job = "none"
               PROVE  job' = "none"
    OBVIOUS
  <2>1. entry # "none"
    BY DEF IInv, SupervisorInv
  <2>2. ASSUME NEW a \in Attempt, Accept(a) PROVE job' = "none"
    BY <2>1, <2>2 DEF Accept, Known, superVars
  <2>3. ASSUME NEW a \in Attempt, Executes(a) \/ Crash(a) \/ DropRequest(a)
        PROVE  job' = "none"
    BY <2>3 DEF Executes, Intend, AskSupervisor, MarkRunning, Submit,
       SupervisorUnavailable, Record, Settle, Crash, DropRequest, superVars
  <2>4. CASE Supervises
    BY <2>4 DEF Supervises, Create, CheckCreated, Start, CheckStarted, Exit
  <2>5. CASE Raises \/ Restart \/ CancelOrder \/ Kills
    BY <2>5 DEF Raises, Restart, CancelOrder, Kills, KillLost, KillEnters,
       KillScans, KillFlags, superVars
  <2>6. CASE Claim \/ ExpireLease \/ Reclaim
    BY <2>6 DEF Claim, ExpireLease, Reclaim, superVars
  <2>7. CASE UNCHANGED vars
    BY <2>7 DEF vars, superVars
  <2> QED
    BY <2>2, <2>3, <2>4, <2>5, <2>6, <2>7 DEF Next
<1> QED
  BY <1>1, Invariance, PTL DEF ScriptSpec, CancelPreventsTheRun
=============================================================================
