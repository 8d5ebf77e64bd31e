--------------------------- MODULE WorkOrderProofs ---------------------------
(***************************************************************************)
(* Theorems about the work-order runtime for every value of its constants: *)
(* any plans, any number of revisions, attempts, criteria and faults.      *)
(* IInv below is inductive; the properties follow from it.                 *)
(***************************************************************************)
EXTENDS WorkOrderProperties, FiniteSetTheorems, TLAPS

-----------------------------------------------------------------------------
(* The inductive invariant.                                                *)

\* A paused order remembers where it was paused.
PausedRemembers == status = "paused" => pause \in PAUSE_ACK_STATUSES

\* An attempt that was not claimed yet has left no trace.
UnclaimedIsBlank ==
  \A a \in Attempt : a[2] > count[a[1]] =>
    /\ attempt[a] = "none" /\ call[a] = "none"
    /\ worker[a] = "idle" /\ request[a] = "none"

\* While an attempt is open, its call was at most started.
OpenAttemptOpenCall ==
  \A a \in Attempt : attempt[a] = "running" =>
    call[a] \in {"none", "prepared", "running"}

\* A request leaves only after its call was marked running.
RequestAfterStart ==
  \A a \in Attempt : request[a] # "none" \/ worker[a] = "started" =>
    call[a] \notin {"none", "prepared"}

\* Revisions that were not planned yet have no steps.
FutureIsAbsent == \A s \in Step : s[1] > rev => step[s] = "absent"

\* No effect is unresolved where a plan may be made, nor where a resumed
\* pause leads to such a status.
PlanningIsResolved ==
  \/ status \in PLANNABLE_STATUSES
  \/ status = "paused" /\ RESUME_TARGET[pause] \in PLANNABLE_STATUSES
  => Unresolved(call) = {}

\* The part about attempts and their calls.
ExecutionInv ==
  /\ UnclaimedIsBlank /\ RunningStepHasItsAttempt
  /\ OpenAttemptOpenCall /\ RequestAfterStart /\ FutureIsAbsent
  /\ SettledAttemptClosesItsCall /\ AbandonedReceiptIsFinal

\* The part about the order's status.
StatusInv == PausedMeansQuiet /\ PlanningIsResolved

TypeInv == TypeOK /\ PausedRemembers

IInv == TypeInv /\ ExecutionInv /\ StatusInv

-----------------------------------------------------------------------------
(* Facts about rows and statuses.                                          *)

\* An attempt row is a step row and a number, and the other way round.
LEMMA AttemptParts ==
  /\ \A a \in Attempt : a[1] \in Step /\ a[2] \in 1..AttemptBound /\ a = <<a[1], a[2]>>
  /\ \A s \in Step, n \in 1..AttemptBound : <<s, n>> \in Attempt
  BY DEF Attempt

LEMMA StepParts ==
  \A s \in Step : s[1] \in Revision /\ s[2] \in Key
  BY DEF Step

\* Every move of the table leads to a status.
LEMMA MovesToStatus ==
  /\ \A s \in WorkStatus : WORK_TRANSITIONS[s] \subseteq WorkStatus
  /\ \A s \in PAUSE_ACK_STATUSES : RESUME_TARGET[s] \in WorkStatus
  BY DEF WorkStatus, WORK_TRANSITIONS, PAUSE_ACK_STATUSES, RESUME_TARGET

LEMMA FinalTargets ==
  \A calls : FinalTarget(calls) \in {"blocked", "replanning"}
  BY DEF FinalTarget, FailureTarget

\* The planner's digest of a well-typed order is an authority.
LEMMA AuthorityTyped == TypeOK => Authority \in AuthoritySet
  BY DEF TypeOK, Authority, AuthoritySet

LEMMA InitTypeInv == Init => TypeInv
<1> SUFFICES ASSUME Init PROVE TypeInv
  OBVIOUS
<1>1. /\ status \in WorkStatus /\ rev \in 0..RevisionBound /\ blocker \in Blocker
      /\ pause \in Pause /\ instructions \in 0..InstructionBound
      /\ streak \in 0..PlannerStreak /\ charged \subseteq Nat
  BY BoundsAssumption DEF Init, WorkStatus, Blocker, Pause
<1>2. /\ step \in [Step -> StepState] /\ count \in [Step -> 0..AttemptBound]
      /\ lease \in [Step -> Lease] /\ approval \in [Step -> Approval]
  BY BoundsAssumption DEF Init, StepState, Lease, Approval
<1>3. /\ attempt \in [Attempt -> AttemptStatus] /\ call \in [Attempt -> CallStatus]
      /\ worker \in [Attempt -> WorkerPhase] /\ request \in [Attempt -> RequestState]
  BY DEF Init, AttemptStatus, CallStatus, WorkerPhase, RequestState
<1>4. /\ criterion \in [Criterion -> {"pending", "passed", "failed"}]
      /\ judged \in Step \cup {NoStep} /\ candidate \in BOOLEAN
      /\ planner \subseteq AuthoritySet /\ crossed \subseteq AuthoritySet
  BY DEF Init
<1>5. verifier \in 0..(RevisionBound + 1)
  BY BoundsAssumption DEF Init, Idle
<1>6. PausedRemembers
  BY DEF Init, PausedRemembers
<1> QED
  BY <1>1, <1>2, <1>3, <1>4, <1>5, <1>6 DEF TypeInv, TypeOK

LEMMA ClaimTyped ==
  ASSUME TypeInv, NEW s \in Step, ClaimReadyStep(s)
  PROVE  TypeInv'
  BY BoundsAssumption, AttemptParts DEF TypeInv, TypeOK, PausedRemembers, ClaimReadyStep,
     NextAttempt, checkVars, taskVars, planVars, WorkStatus, StepState, Lease, AttemptStatus, WorkerPhase

\* The failure helpers keep the order row typed and do not pause it.
LEMMA FailureTyped ==
  ASSUME TypeInv, NEW calls, ReplanOrBlock(calls) \/ ReplanOrBlockGuarded(calls)
  PROVE  /\ status' \in WorkStatus /\ charged' \subseteq Nat
         /\ status' = status \/ status' \in {"blocked", "replanning"}
<1>1. CASE ReplanOrBlock(calls)
  BY <1>1, FinalTargets, BoundsAssumption DEF ReplanOrBlock, TypeInv, TypeOK, WorkStatus
<1>2. CASE ReplanOrBlockGuarded(calls)
  BY <1>1, <1>2 DEF ReplanOrBlockGuarded, TypeInv, TypeOK
<1> QED
  BY <1>1, <1>2

LEMMA FailAttemptTyped ==
  ASSUME TypeInv, NEW a \in Attempt, NEW retryable, FailAttempt(a, retryable)
  PROVE  /\ status' \in WorkStatus /\ charged' \subseteq Nat /\ blocker' \in Blocker
         /\ status' # "paused" \/ status' = status
         /\ attempt' \in [Attempt -> AttemptStatus]
         /\ step' \in [Step -> StepState] /\ lease' \in [Step -> Lease]
<1>1. /\ attempt' \in [Attempt -> AttemptStatus]
      /\ step' \in [Step -> StepState] /\ lease' \in [Step -> Lease]
      /\ blocker' \in Blocker
  BY AttemptParts DEF FailAttempt, TypeInv, TypeOK, AttemptStatus, StepState, Lease, Blocker
<1>2. /\ status' \in WorkStatus /\ charged' \subseteq Nat
      /\ status' # "paused" \/ status' = status
  BY FailureTyped DEF FailAttempt, TypeInv, TypeOK, WorkStatus
<1> QED
  BY <1>1, <1>2

LEMMA ExecuteTyped ==
  ASSUME TypeInv, NEW a \in Attempt, Execute(a) \/ CommitEffect(a) \/ Crash(a)
  PROVE  TypeInv'
<1> USE DEF TypeInv, TypeOK, PausedRemembers, checkVars, taskVars, planVars
<1>1. CASE PrepareCall(a) \/ StartCall(a)
  BY <1>1 DEF PrepareCall, StartCall, CallStatus, WorkerPhase, orderVars, stepVars
<1>2. CASE SendCall(a) \/ StopBeforeSend(a)
  BY <1>2 DEF SendCall, StopBeforeSend, WorkerPhase, AllOutcomes, RequestState,
     orderVars, stepVars, rowVars
<1>3. CASE \E o \in AllOutcomes : Answer(a, o)
  BY <1>3 DEF Answer, WorkerPhase, RequestState, orderVars, stepVars, rowVars
<1>4. CASE CommitEffect(a)
  BY <1>4 DEF CommitEffect, RequestState, orderVars, stepVars, rowVars
<1>5. CASE Crash(a) \/ SettleNothing(a)
  BY <1>5 DEF Crash, SettleNothing, WorkerPhase, orderVars, stepVars, rowVars
<1>6. CASE PrepareDataflowError(a)
  BY <1>6, FailAttemptTyped DEF PrepareDataflowError, WorkerPhase
<1>7. CASE SettleFailure(a)
  BY <1>7, FailAttemptTyped DEF SettleFailure, WorkerPhase, CallStatus
<1>8. CASE SettleSuccess(a)
  BY <1>8, AttemptParts DEF SettleSuccess, AttemptStatus, CallStatus, StepState, Lease,
     WorkerPhase, orderVars
<1>9. CASE SettleApprovalRequired(a)
  BY <1>9, AttemptParts DEF SettleApprovalRequired, AttemptStatus, CallStatus, StepState,
     Approval, WorkStatus, WorkerPhase
<1>10. CASE SettleNonterminal(a)
  BY <1>10, AttemptParts DEF SettleNonterminal, UNRESOLVED_EFFECT_STATUSES, AttemptStatus,
     CallStatus, StepState, Lease, WorkStatus, Blocker, WorkerPhase
<1>11. CASE SettleBudgetStop(a)
  <2>1. attempt' \in [Attempt -> AttemptStatus] /\ call' \in [Attempt -> CallStatus]
        /\ worker' \in [Attempt -> WorkerPhase]
    BY <1>11 DEF SettleBudgetStop, AttemptStatus, CallStatus, WorkerPhase
  <2>2. step' \in [Step -> StepState] /\ lease' \in [Step -> Lease]
    BY <1>11, AttemptParts DEF SettleBudgetStop, StepState, Lease
  <2>3. /\ status' \in WorkStatus /\ blocker' \in Blocker
        /\ status' = status \/ status' = "blocked"
    BY <1>11 DEF SettleBudgetStop, WorkStatus, Blocker
  <2> QED
    BY <1>11, <2>1, <2>2, <2>3 DEF SettleBudgetStop
<1>12. CASE PrepareHeadless(a)
  BY <1>12, AttemptParts DEF PrepareHeadless, AttemptStatus, StepState, WorkStatus, Blocker,
     WorkerPhase
<1> QED
  BY <1>1, <1>2, <1>3, <1>4, <1>5, <1>6, <1>7, <1>8, <1>9, <1>10, <1>11, <1>12 DEF Execute

LEMMA TickTyped ==
  ASSUME TypeInv, Tick \/ \E s \in Step : ExpireLease(s)
  PROVE  TypeInv'
<1> USE DEF TypeInv, TypeOK, PausedRemembers, checkVars, taskVars, planVars, execVars, rowVars
<1>1. ASSUME NEW s \in Step, ReclaimExpiredLease(s)
      PROVE  TypeInv'
  <2> DEFINE a == Current(s)
  <2>1. /\ attempt' \in [Attempt -> AttemptStatus] /\ lease' \in [Step -> Lease]
        /\ step' \in [Step -> StepState] /\ blocker' \in Blocker
    BY <1>1 DEF ReclaimExpiredLease, AttemptStatus, Lease, StepState, Blocker
  <2>2. a \in Attempt => AbandonedCall(a) \in CallStatus
    BY DEF AbandonedCall, CallStatus
  <2>3. call' \in [Attempt -> CallStatus]
    BY <1>1, <2>2 DEF ReclaimExpiredLease
  <2>4. /\ status' \in WorkStatus /\ charged' \subseteq Nat
        /\ status' # "paused" \/ status' = status
    BY <1>1, FailureTyped DEF ReclaimExpiredLease, WorkStatus
  <2> QED
    BY <1>1, <2>1, <2>3, <2>4 DEF ReclaimExpiredLease
<1>2. CASE \E s \in Step : ExpireLease(s)
  BY <1>2 DEF ExpireLease, Lease, orderVars
<1>3. CASE EnforceBudgetsRead \/ EnforceBudgetsWrite
  BY <1>3 DEF EnforceBudgetsRead, EnforceBudgetsWrite, WorkStatus, Blocker, orderVars, stepVars
<1>4. CASE AcknowledgePause
  BY <1>4 DEF AcknowledgePause, PauseIsSafe, Pause, WorkStatus, stepVars
<1>5. CASE Unstick
  BY <1>5 DEF Unstick, WorkStatus, stepVars
<1> QED
  BY <1>1, <1>2, <1>3, <1>4, <1>5 DEF Tick

LEMMA VerifyTyped ==
  ASSUME TypeInv, Verify
  PROVE  TypeInv'
<1> USE DEF TypeInv, TypeOK, PausedRemembers, taskVars, planVars, execVars, rowVars
<1>1. ASSUME NEW s \in Step, PromoteDependents(s)
      PROVE  TypeInv'
  BY <1>1 DEF PromoteDependents, Promoted, StepState, WorkStatus, checkVars
<1>2. ASSUME NEW s \in Step, NEW ok \in BOOLEAN, VerifyResult(s, ok)
      PROVE  TypeInv'
  <2>1. /\ criterion' \in [Criterion -> {"pending", "passed", "failed"}]
        /\ judged' \in Step \cup {NoStep}
    BY <1>2 DEF VerifyResult
  <2>2. status' \in WorkStatus /\ status' # "paused" /\ blocker' \in Blocker
    BY <1>2, FinalTargets DEF VerifyResult, WorkStatus, Blocker
  <2>3. charged' = charged \/ charged' = charged \cup {rev}
    BY <1>2 DEF VerifyResult
  <2>4. charged' \subseteq Nat
    <3>1. rev \in Nat /\ charged \subseteq Nat
      BY BoundsAssumption
    <3> QED
      BY <2>3, <3>1
  <2>5. verifier' \in 0..(RevisionBound + 1)
    BY <1>2, BoundsAssumption DEF VerifyResult, Due
  <2> QED
    BY <1>2, <2>1, <2>2, <2>4, <2>5 DEF VerifyResult, stepVars
<1>3. CASE VerifierRead \/ VerifierStale \/ VerifierStop
  <2>1. verifier' \in 0..(RevisionBound + 1) /\ blocker' \in Blocker
    BY <1>3, BoundsAssumption DEF VerifierRead, VerifierStale, VerifierStop, Idle, Blocker,
       orderVars
  <2> QED
    BY <1>3, <2>1 DEF VerifierRead, VerifierStale, VerifierStop, orderVars, stepVars, checkVars
<1>4. ASSUME NEW V \in SUBSET (1..SemCount), VerifierRecord(V)
      PROVE  TypeInv'
  <2>1. /\ criterion' \in [Criterion -> {"pending", "passed", "failed"}]
        /\ verifier' \in 0..(RevisionBound + 1) /\ blocker' \in Blocker
    BY <1>4, BoundsAssumption DEF VerifierRecord, Idle, Blocker, Criterion
  <2>2. /\ status' \in WorkStatus /\ charged' \subseteq Nat
        /\ status' # "paused" \/ status' = status
    BY <1>4, FailureTyped DEF VerifierRecord, WorkStatus
  <2> QED
    BY <1>4, <2>1, <2>2 DEF VerifierRecord, stepVars
<1>5. QED
  BY <1>1, <1>2, <1>3, <1>4 DEF Verify

LEMMA PlanTyped ==
  ASSUME TypeInv, Plan
  PROVE  TypeInv'
<1> USE DEF TypeInv, TypeOK, PausedRemembers, checkVars, execVars, rowVars
<1>1. CASE PlannerDispatch
  BY <1>1, AuthorityTyped DEF PlannerDispatch, orderVars, stepVars
<1>2. ASSUME NEW p \in planner, PlannerStale(p) \/ PlannerCrash(p)
      PROVE  TypeInv'
  BY <1>2 DEF PlannerStale, PlannerCrash, PlannerReturns, orderVars, stepVars
<1>3. ASSUME NEW p \in planner, PlannerFails(p) \/ PlannerStops(p)
      PROVE  TypeInv'
  <2>1. streak' \in 0..PlannerStreak
    BY <1>3, BoundsAssumption DEF PlannerFails, PlannerStops
  <2>2. /\ (status' \in WorkStatus /\ status' # "paused") \/ status' = status
        /\ blocker' \in Blocker
    BY <1>3 DEF PlannerFails, PlannerStops, WorkStatus, Blocker
  <2>3. planner' \subseteq AuthoritySet /\ crossed' \subseteq AuthoritySet
    BY <1>3 DEF PlannerFails, PlannerStops, PlannerReturns
  <2> QED
    BY <1>3, <2>1, <2>2, <2>3 DEF PlannerFails, PlannerStops, stepVars
<1>4. ASSUME NEW p \in planner, NEW K \in Plans, PlannerApply(p, K)
      PROVE  TypeInv'
  <2>1. /\ step' \in [Step -> StepState] /\ lease' \in [Step -> Lease]
        /\ approval' \in [Step -> Approval]
    BY <1>4 DEF PlannerApply, StepState, Lease, Approval
  <2>2. rev' \in 0..RevisionBound /\ streak' \in 0..PlannerStreak
    BY <1>4, BoundsAssumption DEF PlannerApply
  <2>3. planner' \subseteq AuthoritySet /\ crossed' \subseteq AuthoritySet
    BY <1>4 DEF PlannerApply, PlannerReturns
  <2>4. status' \in WorkStatus /\ status' # "paused" /\ blocker' \in Blocker
    BY <1>4 DEF PlannerApply, WorkStatus, Blocker
  <2> QED
    BY <1>4, <2>1, <2>2, <2>3, <2>4 DEF PlannerApply
<1> QED
  BY <1>1, <1>2, <1>3, <1>4 DEF Plan

LEMMA PeopleTyped ==
  ASSUME TypeInv, People
  PROVE  TypeInv'
<1> USE DEF TypeInv, TypeOK, PausedRemembers, taskVars, planVars, execVars
<1>1. CASE AddInstruction
  BY <1>1, BoundsAssumption DEF AddInstruction, WorkStatus, stepVars, rowVars, checkVars
<1>2. CASE RequestPause
  BY <1>2 DEF RequestPause, PauseIsSafe, Pause, WorkStatus, stepVars, rowVars, checkVars
<1>3. CASE Unpause
  BY <1>3, MovesToStatus DEF Unpause, Pause, RESUME_TARGET, stepVars, rowVars, checkVars,
     PAUSE_ACK_STATUSES
<1>4. CASE CancelOrder
  BY <1>4 DEF CancelOrder, WorkStatus, StepState, Lease, rowVars, checkVars
<1>5. ASSUME NEW s \in Step, OwnerGate(s) \/ \E approved \in BOOLEAN : Decide(s, approved)
      PROVE  TypeInv'
  <2>1. CASE OwnerGate(s)
    BY <2>1 DEF OwnerGate, WorkStatus, StepState, Approval, checkVars
  <2>2. ASSUME NEW approved \in BOOLEAN, Decide(s, approved)  PROVE TypeInv'
    <3>1. step' \in [Step -> StepState] /\ approval' \in [Step -> Approval]
      BY <2>2 DEF Decide, StepState, Approval
    <3>2. lease' \in [Step -> Lease]
      BY <2>2 DEF Decide, Lease
    <3>3. status' \in {"ready", "blocked"} /\ blocker' \in Blocker
      BY <2>2 DEF Decide, Blocker
    <3> QED
      BY <2>2, <3>1, <3>2, <3>3 DEF Decide, WorkStatus, checkVars
  <2> QED
    BY <1>5, <2>1, <2>2
<1>6. ASSUME NEW a \in Attempt,
             NEW outcome \in {"reconciled_happened", "reconciled_not_happened"},
             Reconcile(a, outcome)
      PROVE  TypeInv'
  BY <1>6 DEF Reconcile, CallStatus, orderVars, stepVars, checkVars
<1>7. ASSUME NEW c \in Criterion, NEW ok \in BOOLEAN, ManagerVerdict(c, ok)
      PROVE  TypeInv'
  <2>1. criterion' \in [Criterion -> {"pending", "passed", "failed"}] /\ blocker' \in Blocker
    BY <1>7 DEF ManagerVerdict, Blocker
  <2>2. /\ status' \in WorkStatus /\ charged' \subseteq Nat
        /\ status' # "paused" \/ status' = status
    BY <1>7, FailureTyped DEF ManagerVerdict, WorkStatus
  <2> QED
    BY <1>7, <2>1, <2>2 DEF ManagerVerdict, stepVars, rowVars
<1> QED
  BY <1>1, <1>2, <1>3, <1>4, <1>5, <1>6, <1>7 DEF People

LEMMA NextTyped == TypeInv /\ [Next]_vars => TypeInv'
<1> SUFFICES ASSUME TypeInv, [Next]_vars PROVE TypeInv'
  OBVIOUS
<1>1. CASE Work
  BY <1>1, ExecuteTyped, ClaimTyped DEF Work
<1>2. CASE Environment
  BY <1>2, ExecuteTyped, TickTyped DEF Environment
<1>3. CASE UNCHANGED vars
  BY <1>3 DEF vars, orderVars, stepVars, rowVars, checkVars, execVars, taskVars, planVars,
     TypeInv, TypeOK, PausedRemembers
<1> QED
  BY <1>1, <1>2, <1>3, TickTyped, VerifyTyped, PlanTyped, PeopleTyped DEF Next

\* Every reachable state is well typed: no handler leaves a status outside
\* its table, resumes to nowhere, or counts past a bound.
THEOREM TypeCorrect == Spec => []TypeOK
<1>1. Spec => []TypeInv
  BY InitTypeInv, NextTyped, PTL DEF Spec
<1>2. TypeInv => TypeOK
  BY DEF TypeInv
<1> QED
  BY <1>1, <1>2, PTL

-----------------------------------------------------------------------------
(* Attempts and their calls.                                               *)

LEMMA InitExecutionInv == Init => ExecutionInv
  BY BoundsAssumption DEF Init, ExecutionInv, UnclaimedIsBlank, RunningStepHasItsAttempt,
     Executing, OpenAttemptOpenCall, RequestAfterStart, FutureIsAbsent,
     SettledAttemptClosesItsCall, Settled, AbandonedReceiptIsFinal

\* Handlers that touch no attempt, call or executor, start no step, and leave
\* failed and unplanned steps as they are.
Undisturbed ==
  /\ UNCHANGED <<rev, count, attempt, call, worker, request>>
  /\ \A s \in Step : /\ step'[s] = "running" => step[s] = "running"
                     /\ step[s] \in {"failed", "absent"} => step'[s] = step[s]

LEMMA UndisturbedKeeps == ExecutionInv /\ Undisturbed => ExecutionInv'
<1> SUFFICES ASSUME ExecutionInv, Undisturbed PROVE ExecutionInv'
  OBVIOUS
<1> USE DEF ExecutionInv, Undisturbed
<1>1. UnclaimedIsBlank' /\ OpenAttemptOpenCall' /\ RequestAfterStart'
      /\ SettledAttemptClosesItsCall'
  BY DEF UnclaimedIsBlank, OpenAttemptOpenCall, RequestAfterStart,
     SettledAttemptClosesItsCall, Settled
<1>2. RunningStepHasItsAttempt'
  BY DEF RunningStepHasItsAttempt, Executing, Current
<1>3. FutureIsAbsent' /\ AbandonedReceiptIsFinal'
  BY AttemptParts DEF FutureIsAbsent, AbandonedReceiptIsFinal
<1> QED
  BY <1>1, <1>2, <1>3

\* A worker that still owns its lease ends its attempt, its call and its step
\* in one transaction.
LEMMA SettlementKeeps ==
  ASSUME TypeInv, ExecutionInv, NEW a \in Attempt, OwnsLease(a),
         NEW ended \in AttemptStatus \ {"none", "running", "abandoned"},
         NEW answer \in CallStatus \ {"prepared", "running"},
         answer = "none" => call[a] = "none",
         NEW next \in StepState \ {"running", "absent"},
         attempt' = [attempt EXCEPT ![a] = ended],
         call' = [call EXCEPT ![a] = answer],
         step' = [step EXCEPT ![a[1]] = next],
         worker' = [worker EXCEPT ![a] = "done"],
         UNCHANGED <<rev, count, request>>
  PROVE  ExecutionInv'
<1> USE AttemptParts DEF TypeInv, TypeOK, ExecutionInv, OwnsLease
<1>1. UnclaimedIsBlank'
  BY DEF UnclaimedIsBlank
<1>2. RunningStepHasItsAttempt'
  BY DEF RunningStepHasItsAttempt, Executing, Current
<1>3. OpenAttemptOpenCall' /\ SettledAttemptClosesItsCall'
  BY DEF OpenAttemptOpenCall, SettledAttemptClosesItsCall, Settled
<1>4. RequestAfterStart'
  BY DEF RequestAfterStart
<1>5. FutureIsAbsent'
  BY DEF FutureIsAbsent
<1>6. AbandonedReceiptIsFinal'
  BY DEF AbandonedReceiptIsFinal
<1> QED
  BY <1>1, <1>2, <1>3, <1>4, <1>5, <1>6

LEMMA ClaimKeeps ==
  ASSUME TypeInv, ExecutionInv, NEW s \in Step, ClaimReadyStep(s)
  PROVE  ExecutionInv'
<1> DEFINE a == NextAttempt(s)
<1> USE AttemptParts DEF TypeInv, TypeOK, ExecutionInv, ClaimReadyStep, NextAttempt
<1>0. a \in Attempt /\ a[1] = s /\ a[2] = count[s] + 1
  BY BoundsAssumption
<1>1. UnclaimedIsBlank'
  BY <1>0, BoundsAssumption DEF UnclaimedIsBlank
<1>2. RunningStepHasItsAttempt'
  BY <1>0, BoundsAssumption DEF RunningStepHasItsAttempt, Executing, Current
<1>3. OpenAttemptOpenCall' /\ SettledAttemptClosesItsCall' /\ RequestAfterStart'
  BY <1>0, BoundsAssumption DEF UnclaimedIsBlank, OpenAttemptOpenCall, SettledAttemptClosesItsCall, Settled,
     RequestAfterStart
<1>4. FutureIsAbsent'
  BY DEF FutureIsAbsent
<1>5. AbandonedReceiptIsFinal'
  BY <1>0 DEF AbandonedReceiptIsFinal
<1> QED
  BY <1>1, <1>2, <1>3, <1>4, <1>5

\* Steps of a worker before it settles, and of its request.
LEMMA DispatchKeeps ==
  ASSUME TypeInv, ExecutionInv, NEW a \in Attempt,
         \/ PrepareCall(a) \/ StartCall(a) \/ SendCall(a) \/ StopBeforeSend(a)
         \/ \E o \in AllOutcomes : Answer(a, o)
         \/ CommitEffect(a) \/ Crash(a) \/ SettleNothing(a)
  PROVE  ExecutionInv'
<1> USE AttemptParts DEF TypeInv, TypeOK, ExecutionInv, OwnsLease, AllOutcomes
<1> USE DEF PrepareCall, StartCall, SendCall, StopBeforeSend, Answer, CommitEffect, Crash,
            SettleNothing, FenceAdmits
<1>1. UNCHANGED <<rev, step, count, attempt>>
  BY DEF orderVars, stepVars, rowVars
<1>2. UnclaimedIsBlank'
  BY <1>1 DEF UnclaimedIsBlank, rowVars
<1>3. RunningStepHasItsAttempt' /\ FutureIsAbsent'
  BY <1>1 DEF RunningStepHasItsAttempt, Executing, Current, FutureIsAbsent
<1>4. OpenAttemptOpenCall' /\ SettledAttemptClosesItsCall'
  BY <1>1 DEF OpenAttemptOpenCall, SettledAttemptClosesItsCall, Settled, rowVars
<1>5. RequestAfterStart'
  BY <1>1 DEF RequestAfterStart, rowVars
<1>6. AbandonedReceiptIsFinal'
  BY <1>1 DEF AbandonedReceiptIsFinal, rowVars
<1> QED
  BY <1>2, <1>3, <1>4, <1>5, <1>6

LEMMA SettleKeeps ==
  ASSUME TypeInv, ExecutionInv, NEW a \in Attempt,
         \/ PrepareDataflowError(a) \/ PrepareHeadless(a)
         \/ SettleSuccess(a) \/ SettleFailure(a)
         \/ SettleApprovalRequired(a) \/ SettleNonterminal(a) \/ SettleBudgetStop(a)
  PROVE  ExecutionInv'
<1> USE DEF AttemptStatus, CallStatus, StepState
<1>1. ASSUME NEW retryable, FailAttempt(a, retryable)
      PROVE  /\ attempt' = [attempt EXCEPT ![a] = "failed"]
             /\ \E next \in {"failed", "retry_wait"} : step' = [step EXCEPT ![a[1]] = next]
  BY <1>1 DEF FailAttempt
<1>2. CASE PrepareDataflowError(a)
  <2>1. call' = [call EXCEPT ![a] = "none"] /\ call[a] = "none"
    BY <1>2 DEF PrepareDataflowError, TypeInv, TypeOK
  <2>2. /\ OwnsLease(a) /\ FailAttempt(a, FALSE)
        /\ worker' = [worker EXCEPT ![a] = "done"]
        /\ UNCHANGED <<rev, count, request>>
    BY <1>2 DEF PrepareDataflowError
  <2>3. PICK next \in {"failed", "retry_wait"} : step' = [step EXCEPT ![a[1]] = next]
    BY <1>1, <2>2
  <2>4. attempt' = [attempt EXCEPT ![a] = "failed"]
    BY <1>1, <2>2
  <2> QED
    BY <2>1, <2>2, <2>3, <2>4, SettlementKeeps
<1>3. CASE SettleSuccess(a)
  BY <1>3, SettlementKeeps DEF SettleSuccess, orderVars
<1>4. CASE SettleFailure(a)
  BY <1>1, <1>4, SettlementKeeps DEF SettleFailure
<1>5. CASE SettleApprovalRequired(a)
  BY <1>5, SettlementKeeps DEF SettleApprovalRequired
<1>6. CASE SettleNonterminal(a)
  BY <1>6, SettlementKeeps DEF SettleNonterminal, UNRESOLVED_EFFECT_STATUSES
<1>7. CASE SettleBudgetStop(a)
  BY <1>7, SettlementKeeps DEF SettleBudgetStop
<1>8. CASE PrepareHeadless(a)
  <2>1. call' = [call EXCEPT ![a] = "none"] /\ call[a] = "none"
    BY <1>8 DEF PrepareHeadless, TypeInv, TypeOK
  <2> QED
    BY <1>8, <2>1, SettlementKeeps DEF PrepareHeadless
<1> QED
  BY <1>2, <1>3, <1>4, <1>5, <1>6, <1>7, <1>8

\* Reclaim abandons the current attempt of a step whose lease ran out.
LEMMA ReclaimKeeps ==
  ASSUME TypeInv, ExecutionInv, NEW s \in Step, ReclaimExpiredLease(s)
  PROVE  ExecutionInv'
<1> DEFINE a == Current(s)
<1> USE AttemptParts DEF TypeInv, TypeOK, ExecutionInv
<1>1. /\ a \in Attempt /\ a[1] = s /\ a[2] = count[s] /\ attempt[a] = "running"
      /\ call[a] \in {"none", "prepared", "running"}
  BY BoundsAssumption DEF ReclaimExpiredLease, RunningStepHasItsAttempt, Executing, Current,
     OpenAttemptOpenCall
<1>2. /\ attempt' = [attempt EXCEPT ![a] = "abandoned"]
      /\ call' = [call EXCEPT ![a] = AbandonedCall(a)]
      /\ \E next \in {"failed", "retry_wait"} : step' = [step EXCEPT ![s] = next]
      /\ UNCHANGED <<rev, count, worker, request>>
  BY DEF ReclaimExpiredLease, execVars
<1>3. /\ AbandonedCall(a) \notin {"prepared", "running"}
      /\ AbandonedCall(a) = "none" => call[a] = "none"
  BY DEF AbandonedCall
<1>4. UnclaimedIsBlank'
  BY <1>1, <1>2 DEF UnclaimedIsBlank
<1>5. RunningStepHasItsAttempt'
  BY <1>1, <1>2 DEF RunningStepHasItsAttempt, Executing, Current
<1>6. OpenAttemptOpenCall' /\ SettledAttemptClosesItsCall'
  BY <1>1, <1>2, <1>3 DEF OpenAttemptOpenCall, SettledAttemptClosesItsCall, Settled
<1>7. RequestAfterStart'
  BY <1>1, <1>2, <1>3 DEF RequestAfterStart
<1>8. FutureIsAbsent'
  BY <1>2, StepParts DEF FutureIsAbsent, ReclaimExpiredLease
<1>9. AbandonedReceiptIsFinal'
  <2> SUFFICES ASSUME NEW b \in Attempt, attempt'[b] = "abandoned", request'[b] = "committed"
               PROVE  call'[b] = "reconciled_happened" /\ count'[b[1]] = b[2]
                      /\ step'[b[1]] = "failed"
    BY DEF AbandonedReceiptIsFinal
  <2>1. CASE b = a
    <3>1. call[a] = "running"
      BY <1>1, <1>2, <2>1 DEF RequestAfterStart
    <3>2. AbandonedCall(a) = "reconciled_happened"
      BY <1>2, <2>1, <3>1 DEF AbandonedCall
    <3>3. step' = [step EXCEPT ![s] = "failed"]
      BY <1>1, <3>1, <3>2 DEF ReclaimExpiredLease
    <3> QED
      BY <1>1, <1>2, <2>1, <3>2, <3>3
  <2>2. CASE b # a
    <3>1. b[1] # s
      BY <1>1, <1>2, <2>2 DEF AbandonedReceiptIsFinal, ReclaimExpiredLease
    <3> QED
      BY <1>1, <1>2, <2>2, <3>1 DEF AbandonedReceiptIsFinal
  <2> QED
    BY <2>1, <2>2
<1> QED
  BY <1>4, <1>5, <1>6, <1>7, <1>8, <1>9

LEMMA PlannerApplyKeeps ==
  ASSUME TypeInv, ExecutionInv, NEW p \in planner, NEW K \in Plans, PlannerApply(p, K)
  PROVE  ExecutionInv'
<1> USE DEF TypeInv, TypeOK, ExecutionInv
<1>1. /\ rev' = rev + 1 /\ rev \in Nat
      /\ UNCHANGED <<count, attempt, call, worker, request>>
  BY BoundsAssumption DEF PlannerApply, execVars
<1>2. \A s \in Step :
        /\ step'[s] = "running" => step[s] = "running"
        /\ step[s] = "failed" => step'[s] = "failed"
        /\ s[1] > rev + 1 => step'[s] = "absent"
  <2>1. \A s \in Step : s[1] \in Nat /\ (s[1] > rev => step[s] = "absent")
    BY StepParts, BoundsAssumption DEF FutureIsAbsent, Revision
  <2> QED
    BY <1>1, <2>1 DEF PlannerApply, Retired, PlanSteps, RETIRABLE_STEP_STATES
<1>3. UnclaimedIsBlank' /\ OpenAttemptOpenCall' /\ RequestAfterStart'
      /\ SettledAttemptClosesItsCall'
  BY <1>1 DEF UnclaimedIsBlank, OpenAttemptOpenCall, RequestAfterStart,
     SettledAttemptClosesItsCall, Settled
<1>4. RunningStepHasItsAttempt'
  BY <1>1, <1>2 DEF RunningStepHasItsAttempt, Executing, Current
<1>5. FutureIsAbsent'
  BY <1>1, <1>2 DEF FutureIsAbsent
<1>6. AbandonedReceiptIsFinal'
  BY <1>1, <1>2, AttemptParts DEF AbandonedReceiptIsFinal
<1> QED
  BY <1>3, <1>4, <1>5, <1>6

LEMMA ReconcileKeeps ==
  ASSUME TypeInv, ExecutionInv, NEW a \in Attempt,
         NEW outcome \in {"reconciled_happened", "reconciled_not_happened"},
         Reconcile(a, outcome)
  PROVE  ExecutionInv'
<1> USE DEF TypeInv, TypeOK, ExecutionInv, Reconcile, orderVars, stepVars, execVars,
            UNRESOLVED_EFFECT_STATUSES
<1>1. /\ UNCHANGED <<rev, step, count, attempt, worker, request>>
      /\ call[a] \in {"outcome_unknown", "partial"} /\ call' = [call EXCEPT ![a] = outcome]
  BY DEF Reconcile
<1>2. UnclaimedIsBlank'
  BY <1>1 DEF UnclaimedIsBlank
<1>3. RunningStepHasItsAttempt' /\ FutureIsAbsent'
  BY <1>1 DEF RunningStepHasItsAttempt, Executing, Current, FutureIsAbsent
<1>4. OpenAttemptOpenCall' /\ SettledAttemptClosesItsCall' /\ RequestAfterStart'
  BY <1>1 DEF OpenAttemptOpenCall, SettledAttemptClosesItsCall, Settled, RequestAfterStart
<1>5. AbandonedReceiptIsFinal'
  BY <1>1 DEF AbandonedReceiptIsFinal
<1> QED
  BY <1>2, <1>3, <1>4, <1>5

LEMMA NextExecutionInv == TypeInv /\ ExecutionInv /\ [Next]_vars => ExecutionInv'
<1> SUFFICES ASSUME TypeInv, ExecutionInv, [Next]_vars PROVE ExecutionInv'
  OBVIOUS
<1>1. CASE Work
  BY <1>1, ClaimKeeps, DispatchKeeps, SettleKeeps DEF Work, Execute
<1>2. CASE Environment
  <2>1. ASSUME NEW s \in Step, ExpireLease(s) PROVE Undisturbed
    BY <2>1 DEF ExpireLease, Undisturbed, orderVars, rowVars, execVars
  <2> QED
    BY <1>2, <2>1, DispatchKeeps, UndisturbedKeeps DEF Environment
<1>3. CASE Tick
  <2>1. CASE EnforceBudgetsRead \/ EnforceBudgetsWrite \/ AcknowledgePause \/ Unstick
    BY <2>1 , UndisturbedKeeps DEF EnforceBudgetsRead, EnforceBudgetsWrite, AcknowledgePause,
       Unstick, Undisturbed, orderVars, stepVars, rowVars, execVars
  <2> QED
    BY <1>3, <2>1, ReclaimKeeps DEF Tick
<1>4. CASE Verify
  <2>1. ASSUME NEW s \in Step, PromoteDependents(s) PROVE Undisturbed
    BY <2>1 DEF PromoteDependents, Promoted, Undisturbed, rowVars, execVars, TypeInv, TypeOK
  <2>2. ASSUME NEW s \in Step, NEW ok \in BOOLEAN, VerifyResult(s, ok) PROVE Undisturbed
    BY <2>2 DEF VerifyResult, Undisturbed, stepVars, rowVars, execVars
  <2>3. CASE VerifierRead \/ VerifierStale \/ VerifierStop
    BY <2>3, UndisturbedKeeps DEF VerifierRead, VerifierStale, VerifierStop, Undisturbed,
       orderVars, stepVars, rowVars, execVars
  <2>4. ASSUME NEW V \in SUBSET (1..SemCount), VerifierRecord(V) PROVE Undisturbed
    BY <2>4 DEF VerifierRecord, Undisturbed, stepVars, rowVars, execVars
  <2> QED
    BY <1>4, <2>1, <2>2, <2>3, <2>4, UndisturbedKeeps DEF Verify
<1>5. CASE Plan
  <2>1. CASE PlannerDispatch
    BY <2>1, UndisturbedKeeps DEF PlannerDispatch, Undisturbed, orderVars, stepVars, rowVars,
       execVars
  <2>2. ASSUME NEW p \in planner,
               PlannerStale(p) \/ PlannerFails(p) \/ PlannerStops(p) \/ PlannerCrash(p)
        PROVE  Undisturbed
    BY <2>2 DEF PlannerStale, PlannerFails, PlannerStops, PlannerCrash, Undisturbed,
       orderVars, stepVars, rowVars, execVars
  <2> QED
    BY <1>5, <2>1, <2>2, PlannerApplyKeeps, UndisturbedKeeps DEF Plan
<1>6. CASE People
  <2>1. CASE AddInstruction \/ RequestPause \/ Unpause
    BY <2>1, UndisturbedKeeps DEF AddInstruction, RequestPause, Unpause, Undisturbed, stepVars,
       rowVars, execVars
  <2>2. CASE CancelOrder
    BY <2>2, UndisturbedKeeps DEF CancelOrder, Undisturbed, RETIRABLE_STEP_STATES, rowVars,
       execVars
  <2>3. ASSUME NEW s \in Step, OwnerGate(s) \/ \E approved \in BOOLEAN : Decide(s, approved)
        PROVE  Undisturbed
    BY <2>3 DEF OwnerGate, Decide, Undisturbed, execVars, TypeInv, TypeOK
  <2>4. ASSUME NEW c \in Criterion, NEW ok \in BOOLEAN, ManagerVerdict(c, ok)
        PROVE  Undisturbed
    BY <2>4 DEF ManagerVerdict, Undisturbed, stepVars, rowVars, execVars
  <2> QED
    BY <1>6, <2>1, <2>2, <2>3, <2>4, UndisturbedKeeps, ReconcileKeeps DEF People
<1>7. CASE UNCHANGED vars
  BY <1>7, UndisturbedKeeps DEF vars, orderVars, stepVars, rowVars, execVars, Undisturbed
<1> QED
  BY <1>1, <1>2, <1>3, <1>4, <1>5, <1>6, <1>7 DEF Next

-----------------------------------------------------------------------------
(* The order's status.                                                     *)

LEMMA InitStatusInv == Init => StatusInv
  BY DEF Init, StatusInv, PausedMeansQuiet, Executing, PlanningIsResolved, Unresolved,
     UNRESOLVED_EFFECT_STATUSES

\* Handlers that start no step, and either stay where they are and make no
\* effect unresolved, or move to a status where nothing needs to be known, or
\* where everything is.
Calm ==
  /\ Executing' \subseteq Executing
  /\ \/ /\ status' = status /\ (pause' = pause \/ status # "paused")
        /\ Unresolved(call) = {} => Unresolved(call') = {}
     \/ status' \notin PLANNABLE_STATUSES \cup {"paused"}
     \/ status' \in PLANNABLE_STATUSES /\ Unresolved(call') = {}

LEMMA CalmKeeps == StatusInv /\ Calm => StatusInv'
  BY DEF StatusInv, Calm, PausedMeansQuiet, PlanningIsResolved, PLANNABLE_STATUSES

LEMMA FailureMoves ==
  ASSUME NEW calls, ReplanOrBlock(calls) \/ ReplanOrBlockGuarded(calls)
  PROVE  \/ status' = status
         \/ status' = "blocked"
         \/ status' = "replanning" /\ Unresolved(calls) = {}
  BY DEF ReplanOrBlock, ReplanOrBlockGuarded, FinalTarget, FailureTarget

\* A call that gets no unresolved status makes nothing unresolved.
LEMMA CallStaysResolved ==
  ASSUME TypeInv, NEW a, NEW answer, answer \notin UNRESOLVED_EFFECT_STATUSES,
         call' = [call EXCEPT ![a] = answer]
  PROVE  Unresolved(call) = {} => Unresolved(call') = {}
  BY DEF Unresolved, TypeInv, TypeOK

LEMMA ExecuteCalm ==
  ASSUME TypeInv, NEW a \in Attempt, Execute(a) \/ CommitEffect(a) \/ Crash(a)
  PROVE  Calm
<1> USE DEF UNRESOLVED_EFFECT_STATUSES, PLANNABLE_STATUSES, Executing
<1>0. a[1] \in Step /\ step \in [Step -> StepState] /\ call \in [Attempt -> CallStatus]
  BY AttemptParts DEF TypeInv, TypeOK
<1>1. CASE \/ PrepareCall(a) \/ StartCall(a) \/ SendCall(a) \/ StopBeforeSend(a)
           \/ \E o \in AllOutcomes : Answer(a, o)
           \/ CommitEffect(a) \/ Crash(a) \/ SettleNothing(a)
  <2>1. /\ UNCHANGED <<status, pause, step>>
        /\ \/ UNCHANGED call
           \/ call' = [call EXCEPT ![a] = "prepared"]
           \/ call' = [call EXCEPT ![a] = "running"]
    BY <1>1 DEF PrepareCall, StartCall, SendCall, StopBeforeSend, Answer, CommitEffect, Crash,
       SettleNothing, orderVars, stepVars, rowVars
  <2> QED
    BY <2>1, CallStaysResolved DEF Calm
<1>2. ASSUME NEW retryable, FailAttempt(a, retryable), UNCHANGED pause,
             Unresolved(call) = {} => Unresolved(call') = {}
      PROVE  Calm
  <2>1. Executing' \subseteq Executing
    BY <1>0, <1>2 DEF FailAttempt
  <2>2. \/ status' = status \/ status' \in {"ready", "blocked"}
        \/ status' = "replanning" /\ Unresolved(call) = {}
    BY <1>2, FailureMoves DEF FailAttempt
  <2> QED
    BY <1>2, <2>1, <2>2 DEF Calm
<1>3. CASE PrepareDataflowError(a)
  BY <1>2, <1>3 DEF PrepareDataflowError
<1>4. CASE SettleFailure(a)
  <2>1. Unresolved(call) = {} => Unresolved(call') = {}
    BY <1>4, CallStaysResolved DEF SettleFailure
  <2> QED
    BY <1>2, <1>4, <2>1 DEF SettleFailure
<1>5. CASE SettleSuccess(a)
  <2>1. Unresolved(call) = {} => Unresolved(call') = {}
    BY <1>5, CallStaysResolved DEF SettleSuccess
  <2>2. Executing' \subseteq Executing /\ UNCHANGED <<pause, status>>
    BY <1>0, <1>5 DEF SettleSuccess, orderVars
  <2> QED
    BY <2>1, <2>2 DEF Calm
<1>6. CASE SettleNonterminal(a) \/ SettleApprovalRequired(a) \/ PrepareHeadless(a)
  BY <1>0, <1>6 DEF SettleNonterminal, SettleApprovalRequired, PrepareHeadless, Calm
<1>7. CASE SettleBudgetStop(a)
  <2>1. Executing' \subseteq Executing /\ pause' = pause
    BY <1>0, <1>7 DEF SettleBudgetStop
  <2>2. CASE Preempted(a) /\ status' = status
    \* Preempted before anything was sent: the call failed, nothing is unknown.
    BY <1>7, <2>1, <2>2, CallStaysResolved DEF SettleBudgetStop, Preempted, Calm
  <2>3. CASE status' = "blocked"
    BY <2>1, <2>3 DEF Calm
  <2> QED
    BY <1>7, <2>2, <2>3 DEF SettleBudgetStop
<1> QED
  BY <1>1, <1>3, <1>4, <1>5, <1>6, <1>7 DEF Execute

LEMMA ReclaimCalm ==
  ASSUME TypeInv, ExecutionInv, StatusInv, NEW s \in Step, ReclaimExpiredLease(s)
  PROVE  Calm
<1> DEFINE a == Current(s)
<1> USE DEF TypeInv, TypeOK
<1>1. call[a] \in {"none", "prepared", "running"}
  BY AttemptParts, BoundsAssumption DEF ReclaimExpiredLease, ExecutionInv, RunningStepHasItsAttempt,
     Executing, Current, OpenAttemptOpenCall
<1>2. Executing' \subseteq Executing /\ status # "paused" /\ pause' = pause
  BY DEF ReclaimExpiredLease, Executing, StatusInv, PausedMeansQuiet
<1>3. call' = [call EXCEPT ![a] = AbandonedCall(a)]
  BY DEF ReclaimExpiredLease
<1>4. CASE ReplanOrBlockGuarded(call')
  <2>1. CASE Unresolved(call') = {}
    BY <1>2, <1>4, <2>1, FailureMoves DEF Calm, PLANNABLE_STATUSES
  <2>2. CASE Unresolved(call') # {}
    <3>1. FailureTarget(call') = "blocked" /\ FinalTarget(call') = "blocked"
      BY <2>2 DEF FailureTarget, FinalTarget
    <3>2. status \in PLANNABLE_STATUSES => "blocked" \in WORK_TRANSITIONS[status]
      BY DEF PLANNABLE_STATUSES, WORK_TRANSITIONS, WorkStatus
    <3> QED
      BY <1>2, <1>4, <3>1, <3>2 DEF ReplanOrBlockGuarded, ReplanOrBlock, Calm, PLANNABLE_STATUSES
  <2> QED
    BY <2>1, <2>2
<1>5. CASE ~ReplanOrBlockGuarded(call')
  <2>1. /\ ~(/\ call[a] \in {"prepared", "running"}
             /\ AbandonedCall(a) \in {"reconciled_happened", "outcome_unknown"})
        /\ status' \in {"ready", status}
    BY <1>5 DEF ReclaimExpiredLease
  <2>2. AbandonedCall(a) \notin UNRESOLVED_EFFECT_STATUSES
    BY <1>1, <2>1 DEF AbandonedCall, UNRESOLVED_EFFECT_STATUSES
  <2> QED
    BY <1>2, <1>3, <2>1, <2>2, CallStaysResolved DEF Calm, PLANNABLE_STATUSES
<1> QED
  BY <1>4, <1>5

LEMMA NextStatusInv == TypeInv /\ ExecutionInv /\ StatusInv /\ [Next]_vars => StatusInv'
<1> SUFFICES ASSUME TypeInv, ExecutionInv, StatusInv, [Next]_vars PROVE StatusInv'
  OBVIOUS
<1> USE DEF PLANNABLE_STATUSES, Executing
<1>1. CASE Work
  <2>1. ASSUME NEW s \in Step, ClaimReadyStep(s) PROVE StatusInv'
    BY <2>1 DEF ClaimReadyStep, StatusInv, PausedMeansQuiet, PlanningIsResolved
  <2> QED
    BY <1>1, <2>1, ExecuteCalm, CalmKeeps DEF Work
<1>2. CASE Environment
  <2>1. ASSUME NEW s \in Step, ExpireLease(s) PROVE Calm
    BY <2>1 DEF ExpireLease, Calm, orderVars, rowVars
  <2> QED
    BY <1>2, <2>1, ExecuteCalm, CalmKeeps DEF Environment
<1>3. CASE Tick
  <2>1. CASE EnforceBudgetsRead \/ EnforceBudgetsWrite \/ Unstick
    BY <2>1, CalmKeeps DEF EnforceBudgetsRead, EnforceBudgetsWrite, Unstick, Calm, orderVars,
       stepVars, rowVars
  <2>2. CASE AcknowledgePause
    BY <2>2 DEF AcknowledgePause, PauseIsSafe, StatusInv, PausedMeansQuiet, PlanningIsResolved,
       PAUSE_ACK_STATUSES, RESUME_TARGET, stepVars, rowVars
  <2> QED
    BY <1>3, <2>1, <2>2, ReclaimCalm, CalmKeeps DEF Tick
<1>4. CASE Verify
  <2>1. ASSUME NEW s \in Step, PromoteDependents(s) PROVE Calm
    BY <2>1 DEF PromoteDependents, Promoted, Calm, rowVars
  <2>2. ASSUME NEW s \in Step, NEW ok \in BOOLEAN, VerifyResult(s, ok) PROVE Calm
    BY <2>2 DEF VerifyResult, Calm, FinalTarget, FailureTarget, stepVars, rowVars
  <2>3. CASE VerifierRead \/ VerifierStale \/ VerifierStop
    BY <2>3, CalmKeeps DEF VerifierRead, VerifierStale, VerifierStop, Calm, orderVars, stepVars,
       rowVars
  <2>4. ASSUME NEW V \in SUBSET (1..SemCount), VerifierRecord(V) PROVE Calm
    BY <2>4, FailureMoves DEF VerifierRecord, Calm, stepVars, rowVars
  <2> QED
    BY <1>4, <2>1, <2>2, <2>3, <2>4, CalmKeeps DEF Verify
<1>5. CASE Plan
  <2>1. CASE PlannerDispatch
    BY <2>1, CalmKeeps DEF PlannerDispatch, Calm, orderVars, stepVars, rowVars
  <2>2. ASSUME NEW p \in planner,
               PlannerStale(p) \/ PlannerFails(p) \/ PlannerStops(p) \/ PlannerCrash(p)
        PROVE  Calm
    BY <2>2 DEF PlannerStale, PlannerFails, PlannerStops, PlannerCrash, Calm, orderVars,
       stepVars, rowVars
  <2>3. ASSUME NEW p \in planner, NEW K \in Plans, PlannerApply(p, K) PROVE Calm
    BY <2>3, PlannerApplyKeeps DEF PlannerApply, Calm, PlannerCurrent, Retired
  <2> QED
    BY <1>5, <2>1, <2>2, <2>3, CalmKeeps DEF Plan
<1>6. CASE People
  <2>1. CASE AddInstruction
    BY <2>1, CalmKeeps DEF AddInstruction, Calm, stepVars, rowVars
  <2>2. CASE RequestPause
    BY <2>2 DEF RequestPause, PauseIsSafe, StatusInv, PausedMeansQuiet, PlanningIsResolved,
       PAUSE_ACK_STATUSES, RESUME_TARGET, stepVars, rowVars
  <2>3. CASE Unpause
    BY <2>3 DEF Unpause, StatusInv, PausedMeansQuiet, PlanningIsResolved, TypeInv,
       PausedRemembers, PAUSE_ACK_STATUSES, RESUME_TARGET, stepVars, rowVars
  <2>4. CASE CancelOrder
    BY <2>4, CalmKeeps DEF CancelOrder, Calm, RETIRABLE_STEP_STATES, rowVars
  <2>5. ASSUME NEW s \in Step, OwnerGate(s) \/ \E approved \in BOOLEAN : Decide(s, approved)
        PROVE  Calm
    BY <2>5 DEF OwnerGate, Decide, Calm, TypeInv, TypeOK
  <2>6. ASSUME NEW c \in Criterion, NEW ok \in BOOLEAN, ManagerVerdict(c, ok) PROVE Calm
    BY <2>6, FailureMoves DEF ManagerVerdict, Calm, stepVars, rowVars
  <2>7. ASSUME NEW a \in Attempt,
               NEW outcome \in {"reconciled_happened", "reconciled_not_happened"},
               Reconcile(a, outcome)
        PROVE  Calm
    <3>1. Unresolved(call) = {} => Unresolved(call') = {}
      BY <2>7, CallStaysResolved DEF Reconcile, UNRESOLVED_EFFECT_STATUSES
    <3> QED
      BY <2>7, <3>1 DEF Reconcile, Calm, orderVars, stepVars
  <2> QED
    BY <1>6, <2>1, <2>2, <2>3, <2>4, <2>5, <2>6, <2>7, CalmKeeps DEF People
<1>7. CASE UNCHANGED vars
  BY <1>7, CalmKeeps DEF vars, orderVars, stepVars, rowVars, Calm
<1> QED
  BY <1>1, <1>2, <1>3, <1>4, <1>5, <1>6, <1>7 DEF Next

-----------------------------------------------------------------------------
(* The theorems.                                                           *)

\* The conjunction is inductive: each part needs the ones before it.
THEOREM Invariance == Spec => []IInv
<1>1. Init => IInv
  BY InitTypeInv, InitExecutionInv, InitStatusInv DEF IInv
<1>2. IInv /\ [Next]_vars => IInv'
  BY NextTyped, NextExecutionInv, NextStatusInv DEF IInv
<1> QED
  BY <1>1, <1>2, PTL DEF Spec

\* E25: an effect on record of an abandoned attempt is known as happened and
\* its step is never claimed again (_settle_abandoned_calls).
THEOREM ReceiptsAreFinal == Spec => []AbandonedReceiptIsFinal
<1>1. IInv => AbandonedReceiptIsFinal
  BY DEF IInv, ExecutionInv
<1> QED
  BY <1>1, Invariance, PTL

\* A running step is run by its latest attempt, whose row is open
\* (claim_ready_step, reclaim_expired_leases).
THEOREM RunningStepsHaveAttempts == Spec => []RunningStepHasItsAttempt
<1>1. IInv => RunningStepHasItsAttempt
  BY DEF IInv, ExecutionInv
<1> QED
  BY <1>1, Invariance, PTL

\* No attempt is settled with its tool call left open (complete_attempt,
\* fail_attempt, stop_attempt_for_nonterminal_tool_result, reclaim).
THEOREM SettledAttemptsCloseCalls == Spec => []SettledAttemptClosesItsCall
<1>1. IInv => SettledAttemptClosesItsCall
  BY DEF IInv, ExecutionInv
<1> QED
  BY <1>1, Invariance, PTL

\* E22: an acknowledged pause means nothing executes.
THEOREM PauseIsQuiet == Spec => []PausedMeansQuiet
<1>1. IInv => PausedMeansQuiet
  BY DEF IInv, StatusInv
<1> QED
  BY <1>1, Invariance, PTL

\* A settled attempt is never rewritten, whatever its late worker does
\* (attempt_owns_lease).
THEOREM SettledAttemptsAreFinal == Spec => SettledAttemptIsFinal
<1>1. ASSUME IInv, [Next]_vars, NEW a \in Settled
      PROVE  attempt'[a] = attempt[a]
  <2> USE AttemptParts DEF IInv, TypeInv, TypeOK, ExecutionInv, Settled
  <2>1. ASSUME NEW s \in Step, ClaimReadyStep(s) PROVE attempt'[a] = attempt[a]
    BY <2>1, <1>1, BoundsAssumption DEF ClaimReadyStep, NextAttempt, UnclaimedIsBlank
  <2>2. ASSUME NEW b \in Attempt, Execute(b) PROVE attempt'[a] = attempt[a]
    <3>1. \/ UNCHANGED attempt
          \/ OwnsLease(b) /\ \E ended : attempt' = [attempt EXCEPT ![b] = ended]
      BY <2>2 DEF Execute, PrepareCall, PrepareDataflowError, PrepareHeadless,
         StartCall, SendCall, StopBeforeSend, Answer, SettleSuccess, SettleFailure, SettleApprovalRequired,
         SettleNonterminal, SettleBudgetStop, SettleNothing, FailAttempt, rowVars
    <3> QED
      BY <1>1, <3>1 DEF OwnsLease
  <2>3. ASSUME NEW s \in Step, ReclaimExpiredLease(s) PROVE attempt'[a] = attempt[a]
    BY <1>1, <2>3, BoundsAssumption DEF ReclaimExpiredLease, RunningStepHasItsAttempt, Executing,
       Current
  <2>4. CASE UNCHANGED attempt
    BY <2>4
  <2>5. \/ \E s \in Step : ClaimReadyStep(s) \/ ReclaimExpiredLease(s)
        \/ \E b \in Attempt : Execute(b)
        \/ UNCHANGED attempt
    <3>1. CASE Environment \/ Work
      BY <3>1 DEF Environment, Work, CommitEffect, Crash, ExpireLease, rowVars
    <3>2. CASE Tick
      BY <3>2 DEF Tick, EnforceBudgetsRead, EnforceBudgetsWrite, AcknowledgePause, Unstick,
         rowVars
    <3>3. CASE Verify
      BY <3>3 DEF Verify, PromoteDependents, VerifyResult, VerifierRead, VerifierStale,
         VerifierStop, VerifierRecord, rowVars
    <3>4. CASE Plan
      BY <3>4 DEF Plan, PlannerDispatch, PlannerStale, PlannerFails, PlannerStops, PlannerCrash,
         PlannerApply, rowVars
    <3>5. CASE People
      BY <3>5 DEF People, AddInstruction, RequestPause, Unpause, CancelOrder, OwnerGate, Decide,
         Reconcile, ManagerVerdict, rowVars
    <3>6. CASE UNCHANGED vars
      BY <3>6 DEF vars, rowVars
    <3> QED
      BY <1>1, <3>1, <3>2, <3>3, <3>4, <3>5, <3>6 DEF Next
  <2> QED
    BY <2>1, <2>2, <2>3, <2>4, <2>5
<1>2. IInv /\ [Next]_vars => [\A a \in Settled : attempt'[a] = attempt[a]]_vars
  BY <1>1
<1> QED
  BY <1>2, Invariance, PTL DEF Spec, SettledAttemptIsFinal

\* E23a: no plan revision is made while some effect's outcome is unknown
\* (unresolved_effect_call_ids, the planner's snapshot).
THEOREM PlansKnowTheirEffects == Spec => NoPlanOverUnknownEffect
<1>1. ASSUME IInv, [Next]_vars, rev' # rev
      PROVE  Unresolved(call) = {}
  <2>1. \E p \in planner, K \in Plans : PlannerApply(p, K)
    <3>1. CASE Environment
      BY <1>1, <3>1 DEF Environment, CommitEffect, Crash, ExpireLease, orderVars
    <3>2. CASE Work
      BY <1>1, <3>2 DEF Work, ClaimReadyStep, Execute, PrepareCall, PrepareDataflowError,
         PrepareHeadless, StartCall, SendCall, StopBeforeSend, Answer, SettleSuccess, SettleFailure,
         SettleApprovalRequired, SettleNonterminal, SettleBudgetStop, SettleNothing, orderVars
    <3>3. CASE Tick
      BY <1>1, <3>3 DEF Tick, ReclaimExpiredLease, EnforceBudgetsRead, EnforceBudgetsWrite,
         AcknowledgePause, Unstick, orderVars
    <3>4. CASE Verify
      BY <1>1, <3>4 DEF Verify, PromoteDependents, VerifyResult, VerifierRead, VerifierStale,
         VerifierStop, VerifierRecord, orderVars
    <3>5. CASE Plan
      BY <1>1, <3>5 DEF Plan, PlannerDispatch, PlannerStale, PlannerFails, PlannerStops,
         PlannerCrash, orderVars
    <3>6. CASE People
      BY <1>1, <3>6 DEF People, AddInstruction, RequestPause, Unpause, CancelOrder, OwnerGate,
         Decide, Reconcile, ManagerVerdict, orderVars
    <3>7. CASE UNCHANGED vars
      BY <1>1, <3>7 DEF vars, orderVars
    <3> QED
      BY <1>1, <3>1, <3>2, <3>3, <3>4, <3>5, <3>6, <3>7 DEF Next
  <2> QED
    BY <1>1, <2>1 DEF IInv, StatusInv, PlanningIsResolved, PlannerApply, PlannerCurrent
<1>2. IInv /\ [Next]_vars => [rev' # rev => Unresolved(call) = {}]_vars
  BY <1>1
<1> QED
  BY <1>2, Invariance, PTL DEF Spec, NoPlanOverUnknownEffect

-----------------------------------------------------------------------------
(* The plan's steps: what every handler but create_work_plan keeps of them. *)

\* A step that has ended, or that no plan has made yet.
Closed == {"absent", "succeeded", "failed", "canceled"}

\* A step whose dependencies have been met.
Released == {"ready", "retry_wait", "running", "waiting_approval"}

\* The dependencies of a step that was released, or ever claimed, succeeded.
ReleasedInOrder ==
  \A s \in Step : step[s] \in Released \/ count[s] > 0 =>
    \A d \in DepsOf(s) : step[d] = "succeeded"

AbsentIsUnclaimed == \A s \in Step : step[s] = "absent" => count[s] = 0

\* No handler skips a step: the state is in the table only.
NothingIsSkipped == \A s \in Step : step[s] # "skipped"

\* The step half of SupersededPlanIsQuiet.
SupersededStepsAreClosed ==
  \A s \in Step : s[1] < rev => step[s] \in Closed

PlanInv ==
  /\ ReleasedInOrder /\ AbsentIsUnclaimed /\ NothingIsSkipped
  /\ SupersededStepsAreClosed

\* A revision is made by create_work_plan alone; everything else leaves ended
\* and unplanned steps as they are, plans and skips none, and releases a step
\* only after its dependencies.
Steady ==
  /\ rev' = rev
  /\ \A s \in Step :
       /\ step[s] \in Closed => step'[s] = step[s]
       /\ step'[s] \in {"absent", "skipped"} => step'[s] = step[s]
       /\ step'[s] \in Released =>
            \/ step[s] \in Released
            \/ \A d \in DepsOf(s) : step[d] = "succeeded"
       /\ count'[s] = count[s] \/ step[s] \in Released

\* What one handler does to one step.
LEMMA OneStepSteady ==
  ASSUME TypeInv, NEW s \in Step, step[s] \in Released,
         NEW next \in StepState \ {"absent", "skipped"},
         step' = [step EXCEPT ![s] = next], UNCHANGED <<rev, count>>
  PROVE  Steady
<1>1. step \in [Step -> StepState]
  BY DEF TypeInv, TypeOK
<1> QED
  BY <1>1 DEF Steady, Released, Closed

LEMMA StepsUntouched == UNCHANGED <<rev, stepVars>> => Steady
  BY DEF Steady, stepVars

LEMMA ExecuteSteady ==
  ASSUME TypeInv, NEW a \in Attempt, Execute(a) \/ CommitEffect(a) \/ Crash(a)
  PROVE  Steady
<1>0. a[1] \in Step
  BY AttemptParts
<1>1. CASE \/ PrepareCall(a) \/ StartCall(a) \/ SendCall(a) \/ StopBeforeSend(a)
           \/ \E o \in AllOutcomes : Answer(a, o)
           \/ CommitEffect(a) \/ Crash(a) \/ SettleNothing(a)
  BY <1>1, StepsUntouched DEF PrepareCall, StartCall, SendCall, StopBeforeSend, Answer,
     CommitEffect, Crash, SettleNothing, orderVars
<1>2. CASE \/ PrepareDataflowError(a) \/ PrepareHeadless(a) \/ SettleSuccess(a)
           \/ SettleFailure(a) \/ SettleApprovalRequired(a)
           \/ SettleNonterminal(a) \/ SettleBudgetStop(a)
  <2>1. /\ OwnsLease(a) /\ UNCHANGED <<rev, count>>
        /\ \E next \in {"failed", "succeeded", "retry_wait", "waiting_approval"} :
             step' = [step EXCEPT ![a[1]] = next]
    BY <1>2 DEF PrepareDataflowError, PrepareHeadless, SettleSuccess, SettleFailure,
       SettleApprovalRequired, SettleNonterminal, SettleBudgetStop, FailAttempt, orderVars
  <2> QED
    BY <1>0, <2>1, OneStepSteady DEF OwnsLease, Released, StepState
<1> QED
  BY <1>1, <1>2 DEF Execute

LEMMA ClaimSteady ==
  ASSUME TypeInv, NEW s \in Step, ClaimReadyStep(s)
  PROVE  Steady
  BY DEF TypeInv, TypeOK, ClaimReadyStep, Steady, Released, Closed

LEMMA TickSteady ==
  ASSUME TypeInv, Tick \/ \E s \in Step : ExpireLease(s)
  PROVE  Steady
<1>1. ASSUME NEW s \in Step, ReclaimExpiredLease(s) PROVE Steady
  BY <1>1, OneStepSteady DEF ReclaimExpiredLease, Released, StepState
<1>2. CASE EnforceBudgetsRead \/ EnforceBudgetsWrite \/ AcknowledgePause \/ Unstick
  BY <1>2, StepsUntouched DEF EnforceBudgetsRead, EnforceBudgetsWrite, AcknowledgePause, Unstick,
     orderVars
<1>3. ASSUME NEW s \in Step, ExpireLease(s) PROVE Steady
  BY <1>3 DEF ExpireLease, Steady, orderVars
<1> QED
  BY <1>1, <1>2, <1>3 DEF Tick

LEMMA VerifySteady ==
  ASSUME TypeInv, Verify
  PROVE  Steady
<1>1. ASSUME NEW s \in Step, PromoteDependents(s) PROVE Steady
  BY <1>1 DEF PromoteDependents, Promoted, Steady, Released, Closed
<1>2. CASE UNCHANGED <<rev, stepVars>>
  BY <1>2, StepsUntouched
<1> QED
  BY <1>1, <1>2 DEF Verify, VerifyResult, VerifierRead, VerifierStale, VerifierStop,
     VerifierRecord, orderVars

LEMMA PeopleSteady ==
  ASSUME TypeInv, People
  PROVE  Steady
<1>1. CASE CancelOrder
  BY <1>1 DEF CancelOrder, Steady, RETIRABLE_STEP_STATES, Released, Closed, TypeInv, TypeOK
<1>2. ASSUME NEW s \in Step, OwnerGate(s) \/ \E approved \in BOOLEAN : Decide(s, approved)
      PROVE  Steady
  BY <1>2, OneStepSteady DEF OwnerGate, Decide, Released, StepState
<1>3. CASE UNCHANGED <<rev, stepVars>>
  BY <1>3, StepsUntouched
<1> QED
  BY <1>1, <1>2, <1>3 DEF People, AddInstruction, RequestPause, Unpause, Reconcile,
     ManagerVerdict, orderVars

LEMMA NextSteady ==
  TypeInv /\ [Next]_vars => Steady \/ \E p \in planner, K \in Plans : PlannerApply(p, K)
<1> SUFFICES ASSUME TypeInv, [Next]_vars,
                    ~ \E p \in planner, K \in Plans : PlannerApply(p, K)
             PROVE  Steady
  OBVIOUS
<1>1. CASE Plan
  BY <1>1, StepsUntouched DEF Plan, PlannerDispatch, PlannerStale, PlannerFails, PlannerStops,
     PlannerCrash, orderVars
<1>2. CASE Work
  BY <1>2, ClaimSteady, ExecuteSteady DEF Work
<1>3. CASE Environment
  BY <1>3, ExecuteSteady, TickSteady DEF Environment
<1>4. CASE UNCHANGED vars
  BY <1>4, StepsUntouched DEF vars, orderVars
<1> QED
  BY <1>1, <1>2, <1>3, <1>4, TickSteady, VerifySteady, PeopleSteady DEF Next
\* Under Steady the dependencies of a step are the same rows, and those that
\* had succeeded still do.
LEMMA SteadyDependencies ==
  ASSUME TypeInv, Steady, NEW s \in Step,
         \A d \in DepsOf(s) : step[d] = "succeeded"
  PROVE  \A d \in DepsOf(s)' : step'[d] = "succeeded"
<1> SUFFICES ASSUME NEW d \in DepsOf(s)' PROVE step'[d] = "succeeded"
  OBVIOUS
<1>1. PICK k \in Deps[s[2]] : d = <<s[1], k>> /\ step'[d] # "absent"
  BY DEF DepsOf
<1>2. d \in Step
  BY <1>1, PlanAssumption DEF Step
<1>3. step[d] # "absent"
  BY <1>1, <1>2 DEF Steady, Closed
<1>4. d \in DepsOf(s)
  BY <1>1, <1>3 DEF DepsOf
<1> QED
  BY <1>2, <1>4 DEF Steady, Closed

LEMMA SteadyKeeps == TypeInv /\ PlanInv /\ Steady => PlanInv'
<1> SUFFICES ASSUME TypeInv, PlanInv, Steady PROVE PlanInv'
  OBVIOUS
<1>1. ReleasedInOrder'
  <2> SUFFICES ASSUME NEW s \in Step, step'[s] \in Released \/ count'[s] > 0
               PROVE  \A d \in DepsOf(s)' : step'[d] = "succeeded"
    BY DEF ReleasedInOrder
  <2>1. \A d \in DepsOf(s) : step[d] = "succeeded"
    BY DEF Steady, PlanInv, ReleasedInOrder
  <2> QED
    BY <2>1, SteadyDependencies
<1>2. AbsentIsUnclaimed'
  BY DEF Steady, PlanInv, AbsentIsUnclaimed, Released
<1>3. NothingIsSkipped' /\ SupersededStepsAreClosed'
  BY DEF PlanInv, NothingIsSkipped, SupersededStepsAreClosed, Steady
<1> QED
  BY <1>1, <1>2, <1>3 DEF PlanInv
\* A new revision retires what its predecessor left unfinished, and nothing of
\* it executes; the steps of the new one wait for their dependencies.
LEMMA PlannerApplyPlan ==
  ASSUME TypeInv, FutureIsAbsent, PlanInv, NEW p \in planner, NEW K \in Plans,
         PlannerApply(p, K)
  PROVE  PlanInv'
<1> DEFINE new == {s \in Step : s[1] = rev + 1 /\ s[2] \in K}
<1> USE DEF TypeInv, TypeOK, PlanInv
<1>1. /\ rev' = rev + 1 /\ rev \in Nat /\ count' = count
      /\ \A s \in Step : s[1] \in Nat
  BY BoundsAssumption, StepParts DEF PlannerApply, Revision
<1>2. \A s \in new : /\ step[s] = "absent" /\ s \notin Retired
                     /\ step'[s] = IF Deps[s[2]] \cap K = {} THEN "ready" ELSE "pending"
  BY <1>1 DEF PlannerApply, Retired, PlanSteps, FutureIsAbsent, RETIRABLE_STEP_STATES
<1>3. \A s \in Step \ new : step'[s] = IF s \in Retired THEN "canceled" ELSE step[s]
  BY DEF PlannerApply
<1>4. \A s \in Step : step[s] \in Closed => s \notin Retired
  BY DEF Retired, Closed, RETIRABLE_STEP_STATES
<1>5. \A s \in Retired : step[s] # "absent"
  BY DEF Retired, PlanSteps
<1>6. ReleasedInOrder'
  <2> SUFFICES ASSUME NEW s \in Step, step'[s] \in Released \/ count'[s] > 0,
                      NEW d \in DepsOf(s)'
               PROVE  step'[d] = "succeeded"
    BY DEF ReleasedInOrder
  <2>1. PICK k \in Deps[s[2]] : d = <<s[1], k>> /\ step'[d] # "absent"
    BY DEF DepsOf
  <2>2. d \in Step /\ d[1] = s[1] /\ d[2] = k
    BY <2>1, PlanAssumption DEF Step
  <2>3. CASE s \in new
    <3>1. count[s] = 0 /\ step'[s] = "ready" /\ Deps[s[2]] \cap K = {}
      BY <1>1, <1>2, <2>3 DEF AbsentIsUnclaimed, Released
    <3>2. d \notin new /\ step[d] = "absent"
      BY <1>1, <2>1, <2>2, <2>3, <3>1 DEF FutureIsAbsent
    <3> QED
      BY <1>3, <1>4, <2>1, <2>2, <3>2 DEF Closed
  <2>4. CASE s \notin new
    <3>1. step[s] \in Released \/ count[s] > 0
      BY <1>1, <1>3, <2>4 DEF Released
    <3>2. s[1] # rev + 1
      BY <1>1, <3>1 DEF FutureIsAbsent, AbsentIsUnclaimed, Released
    <3>3. d \notin new /\ step[d] # "absent"
      BY <1>1, <1>3, <1>5, <2>1, <2>2, <3>2
    <3>4. d \in DepsOf(s)
      BY <2>1, <3>3 DEF DepsOf
    <3>5. step[d] = "succeeded"
      BY <3>1, <3>4 DEF ReleasedInOrder
    <3> QED
      BY <1>3, <1>4, <2>2, <3>3, <3>5 DEF Closed
  <2> QED
    BY <2>3, <2>4
<1>7. AbsentIsUnclaimed' /\ NothingIsSkipped'
  BY <1>1, <1>2, <1>3 DEF AbsentIsUnclaimed, NothingIsSkipped
<1>8. SupersededStepsAreClosed'
  <2> SUFFICES ASSUME NEW s \in Step, s[1] < rev + 1 PROVE step'[s] \in Closed
    BY <1>1 DEF SupersededStepsAreClosed
  <2>1. step'[s] = IF s \in Retired THEN "canceled" ELSE step[s]
    BY <1>1, <1>3
  <2>2. CASE s[1] < rev
    BY <2>1, <2>2 DEF SupersededStepsAreClosed, Closed
  <2>3. CASE s[1] = rev
    <3>1. step[s] # "running" /\ step[s] # "skipped" /\ step[s] \in StepState
      BY DEF PlannerApply, PlannerCurrent, Executing, NothingIsSkipped
    <3>2. step[s] \in RETIRABLE_STEP_STATES => s \in Retired
      BY <2>3 DEF Retired, PlanSteps, RETIRABLE_STEP_STATES
    <3> QED
      BY <2>1, <3>1, <3>2 DEF StepState, RETIRABLE_STEP_STATES, Closed
  <2> QED
    BY <1>1, <2>2, <2>3
<1> QED
  BY <1>6, <1>7, <1>8

\* The plan's part is inductive, relative to IInv.
LEMMA PlanInvariance == Spec => []PlanInv
<1>1. Init => PlanInv
  BY BoundsAssumption, StepParts DEF Init, PlanInv, ReleasedInOrder, AbsentIsUnclaimed,
     NothingIsSkipped, SupersededStepsAreClosed, Revision, Released, Closed
<1>2. IInv /\ PlanInv /\ [Next]_vars => PlanInv'
  BY NextSteady, SteadyKeeps, PlannerApplyPlan DEF IInv, ExecutionInv
<1> QED
  BY <1>1, <1>2, Invariance, PTL DEF Spec

\* A step is claimed only after everything it depends on has succeeded, and no
\* dependency is taken back (promote_ready_dependents, create_work_plan).
THEOREM DependenciesAreFirst == Spec => []DependenciesComeFirst
<1>1. PlanInv => DependenciesComeFirst
  BY DEF PlanInv, ReleasedInOrder, DependenciesComeFirst
<1> QED
  BY <1>1, PlanInvariance, PTL

-----------------------------------------------------------------------------
(* Completion.                                                             *)

\* An order becomes completed only by a handler that has just found it whole;
\* a completed one keeps its criteria, its plan and its steps.
MovesToCompleted ==
  \/ status' # "completed"
  \/ UNCHANGED <<rev, step>> /\ Whole(criterion')
  \/ status = "completed" /\ UNCHANGED criterion

LEMMA FailureCompletesNothing ==
  ASSUME NEW calls, ReplanOrBlock(calls) \/ ReplanOrBlockGuarded(calls)
  PROVE  status' = "completed" => status = "completed"
  BY FailureMoves

LEMMA NextMovesToCompleted == TypeInv /\ [Next]_vars => MovesToCompleted
<1> SUFFICES ASSUME TypeInv, [Next]_vars, status' = "completed",
                    ~(status = "completed" /\ UNCHANGED criterion)
             PROVE  UNCHANGED <<rev, step>> /\ Whole(criterion')
  BY DEF MovesToCompleted
<1>1. CASE Verify
  <2>1. ASSUME NEW s \in Step, NEW ok \in BOOLEAN, VerifyResult(s, ok)
        PROVE  UNCHANGED <<rev, step>> /\ Whole(criterion')
    <3>1. SemCount = 0 /\ ok
      BY <1>1, <2>1, FinalTargets DEF VerifyResult
    <3>2. Criterion = {0}
      BY <3>1 DEF Criterion
    <3> QED
      BY <2>1, <3>1, <3>2 DEF VerifyResult, Whole, stepVars
  <2>2. ASSUME NEW V \in SUBSET (1..SemCount), VerifierRecord(V)
        PROVE  UNCHANGED <<rev, step>> /\ Whole(criterion')
    BY <1>1, <2>2, FailureCompletesNothing DEF VerifierRecord, AwaitsVerifier, stepVars
  <2> QED
    BY <1>1, <2>1, <2>2 DEF Verify, PromoteDependents, VerifierRead, VerifierStale,
       VerifierStop, orderVars, checkVars
<1>2. CASE People
  <2>1. ASSUME NEW c \in Criterion, NEW ok \in BOOLEAN, ManagerVerdict(c, ok)
        PROVE  UNCHANGED <<rev, step>> /\ Whole(criterion')
    BY <1>2, <2>1, FailureCompletesNothing DEF ManagerVerdict, stepVars
  <2>2. \A s \in PAUSE_ACK_STATUSES : RESUME_TARGET[s] # "completed"
    BY DEF PAUSE_ACK_STATUSES, RESUME_TARGET
  <2>3. CASE Unpause
    BY <1>2, <2>2, <2>3 DEF Unpause, TypeInv, PausedRemembers, checkVars
  <2> QED
    BY <1>2, <2>1, <2>3 DEF People, AddInstruction, RequestPause, CancelOrder, OwnerGate,
       Decide, Reconcile, orderVars, checkVars
<1>3. CASE Tick
  BY <1>3, FailureCompletesNothing DEF Tick, ReclaimExpiredLease, EnforceBudgetsRead,
     EnforceBudgetsWrite, AcknowledgePause, Unstick, orderVars, checkVars
<1>4. CASE Plan
  BY <1>4 DEF Plan, PlannerDispatch, PlannerStale, PlannerFails, PlannerStops, PlannerCrash,
     PlannerApply, orderVars, checkVars
<1>5. ASSUME NEW a \in Attempt, Execute(a) \/ CommitEffect(a) \/ Crash(a)
      PROVE  (status' = "completed" => status = "completed") /\ UNCHANGED criterion
  BY <1>5, FailureCompletesNothing DEF Execute, PrepareCall, PrepareDataflowError, PrepareHeadless, StartCall,
     SendCall, StopBeforeSend, Answer, SettleSuccess, SettleFailure, SettleApprovalRequired,
     SettleNonterminal, SettleBudgetStop, SettleNothing, FailAttempt, CommitEffect, Crash,
     orderVars, checkVars
<1>6. CASE Work \/ Environment
  BY <1>5, <1>6 DEF Work, Environment, ClaimReadyStep, ExpireLease, orderVars, checkVars
<1>7. CASE UNCHANGED vars
  BY <1>7 DEF vars, orderVars, checkVars
<1> QED
  BY <1>1, <1>2, <1>3, <1>4, <1>6, <1>7 DEF Next

\* A completed order passed every required criterion and finished every step
\* of its active plan, whichever verifier, manager or late worker came last
\* (assert_completion_allowed).
THEOREM CompletedOrdersAreWhole == Spec => []CompletedIsWhole
<1>1. Init => CompletedIsWhole
  BY DEF Init, CompletedIsWhole
<1>2. IInv /\ CompletedIsWhole /\ [Next]_vars => CompletedIsWhole'
  <2> SUFFICES ASSUME IInv, CompletedIsWhole, [Next]_vars, status' = "completed"
               PROVE  /\ \A c \in Criterion : criterion'[c] = "passed"
                      /\ \A s \in PlanSteps' : step'[s] = "succeeded"
    BY DEF CompletedIsWhole
  <2>1. CASE UNCHANGED <<rev, step>> /\ Whole(criterion')
    BY <2>1 DEF Whole, PlanSteps
  <2>2. CASE status = "completed" /\ UNCHANGED criterion
    <3>1. Steady
      BY <2>2, NextSteady DEF IInv, PlannerApply
    <3> QED
      BY <2>2, <3>1 DEF CompletedIsWhole, PlanSteps, Steady, Closed
  <2> QED
    BY <2>1, <2>2, NextMovesToCompleted DEF IInv, MovesToCompleted
<1> QED
  BY <1>1, <1>2, Invariance, PTL DEF Spec
-----------------------------------------------------------------------------
(* Superseded plans.                                                       *)

\* E23b, the steps: none of a superseded revision is left to run or to resume,
\* whatever its worker or the housekeeping still do (_retire_superseded_steps).
THEOREM SupersededStepsStayClosed == Spec => []SupersededStepsAreClosed
<1>1. PlanInv => SupersededStepsAreClosed
  BY DEF PlanInv
<1> QED
  BY <1>1, PlanInvariance, PTL

\* The one write that does not look at the status it overwrites is the budget
\* pass's; it has nothing to write where no wall clock runs out.
NoStaleBudgetWrite == candidate = FALSE

LEMMA NoBudgetNoCandidate ==
  ASSUME "wall_clock" \notin Faults
  PROVE  NoStaleBudgetWrite /\ [Next]_vars => NoStaleBudgetWrite'
<1> SUFFICES ASSUME NoStaleBudgetWrite, [Next]_vars PROVE candidate' = candidate
  BY DEF NoStaleBudgetWrite
<1>1. CASE Tick
  BY <1>1 DEF NoStaleBudgetWrite, Tick, ReclaimExpiredLease, EnforceBudgetsRead,
     EnforceBudgetsWrite, AcknowledgePause, Unstick, taskVars
<1>2. CASE Verify
  BY <1>2 DEF Verify, PromoteDependents, VerifyResult, VerifierRead, VerifierStale,
     VerifierStop, VerifierRecord, taskVars
<1>3. CASE Plan
  BY <1>3 DEF Plan, PlannerDispatch, PlannerStale, PlannerFails, PlannerStops, PlannerCrash,
     PlannerApply, taskVars
<1>4. CASE People
  BY <1>4 DEF People, AddInstruction, RequestPause, Unpause, CancelOrder, OwnerGate, Decide,
     Reconcile, ManagerVerdict, taskVars
<1>5. CASE Work
  BY <1>5 DEF Work, ClaimReadyStep, Execute, PrepareCall, PrepareDataflowError,
     PrepareHeadless, StartCall, SendCall, StopBeforeSend, Answer, SettleSuccess, SettleFailure,
     SettleApprovalRequired, SettleNonterminal, SettleBudgetStop, SettleNothing, taskVars
<1>6. CASE Environment
  BY <1>6 DEF Environment, CommitEffect, Crash, ExpireLease, taskVars
<1>7. CASE UNCHANGED vars
  BY <1>7 DEF vars, taskVars
<1> QED
  BY <1>1, <1>2, <1>3, <1>4, <1>5, <1>6, <1>7 DEF Next

LEMMA FailureEndsNothing ==
  ASSUME NEW calls, ReplanOrBlock(calls) \/ ReplanOrBlockGuarded(calls),
         status \in {"completed", "canceled"}
  PROVE  status' = status
<1>1. WORK_TRANSITIONS[status] = {}
  BY DEF WORK_TRANSITIONS, WorkStatus
<1> QED
  BY <1>1 DEF ReplanOrBlock, ReplanOrBlockGuarded, CanMove

LEMMA TerminalStep ==
  ASSUME TypeInv, [Next]_vars, status \in {"completed", "canceled"}
  PROVE  status' = status \/ EnforceBudgetsWrite
<1>0. WORK_TRANSITIONS[status] = {}
  BY DEF WORK_TRANSITIONS, WorkStatus
<1>1. CASE Tick
  BY <1>0, <1>1, FailureEndsNothing DEF Tick, ReclaimExpiredLease, EnforceBudgetsRead,
     AcknowledgePause, PauseIsSafe, PAUSE_ACK_STATUSES, Unstick, orderVars
<1>2. CASE Verify
  BY <1>2, FailureEndsNothing DEF Verify, PromoteDependents, VerifyResult, VerifierRead,
     VerifierStale, VerifierStop, VerifierRecord, AwaitsVerifier, orderVars
<1>3. CASE Plan
  BY <1>3 DEF Plan, PlannerDispatch, PlannerStale, PlannerFails, PlannerStops, PlannerCrash,
     PlannerApply, PlannerCurrent, PLANNABLE_STATUSES, orderVars
<1>4. CASE People
  BY <1>4 DEF People, AddInstruction, RequestPause, PauseIsSafe, PAUSE_ACK_STATUSES, Unpause,
     CancelOrder, OwnerGate, Decide, Reconcile, ManagerVerdict, TERMINAL_WORK_STATUSES, orderVars
<1>5. ASSUME NEW a \in Attempt, NEW retryable, FailAttempt(a, retryable)
      PROVE  status' = status
  BY <1>0, <1>5, FailureEndsNothing DEF FailAttempt, CanMove
<1>6. CASE Work
  BY <1>0, <1>5, <1>6 DEF Work, ClaimReadyStep, Execute, PrepareCall, PrepareDataflowError,
     PrepareHeadless, StartCall, SendCall, StopBeforeSend, Answer, SettleSuccess, SettleFailure,
     SettleApprovalRequired, SettleNonterminal, SettleBudgetStop, SettleNothing, CanMove, orderVars
<1>7. CASE Environment
  BY <1>7 DEF Environment, CommitEffect, Crash, ExpireLease, orderVars
<1>8. CASE UNCHANGED vars
  BY <1>8 DEF vars, orderVars
<1> QED
  BY <1>1, <1>2, <1>3, <1>4, <1>6, <1>7, <1>8 DEF Next

\* Of all that happens to an ended order, only the budget pass's stale write
\* changes its status (transition_work_order, enforce_budgets).
THEOREM EndedOrdersAreLeft == Spec => OnlyStaleBudgetReopens
<1>1. IInv /\ [Next]_vars
        => [(status \in {"completed", "canceled"}) /\ status' # status
              => candidate /\ ~candidate' /\ status' = "blocked"]_vars
  <2> SUFFICES ASSUME IInv, [Next]_vars, status \in {"completed", "canceled"}, status' # status
               PROVE  candidate /\ ~candidate' /\ status' = "blocked"
    OBVIOUS
  <2>1. EnforceBudgetsWrite
    BY TerminalStep DEF IInv
  <2> QED
    BY <2>1 DEF EnforceBudgetsWrite
<1> QED
  BY <1>1, Invariance, PTL DEF Spec, OnlyStaleBudgetReopens

\* The operator guide's word that completed and canceled orders stay so is
\* broken by the budget pass's stale write alone: without it nothing, no late
\* worker, planner or verifier, moves an ended order (transition_work_order).
THEOREM TerminalStatusesAreFinal ==
  ASSUME "wall_clock" \notin Faults
  PROVE  Spec => TerminalStatusIsFinal
<1>1. Init => NoStaleBudgetWrite
  BY DEF Init, NoStaleBudgetWrite
<1>2. IInv /\ NoStaleBudgetWrite /\ [Next]_vars
        => [(status \in {"completed", "canceled"}) => status' = status]_vars
  BY TerminalStep DEF IInv, EnforceBudgetsWrite, NoStaleBudgetWrite
<1> QED
  BY <1>1, <1>2, NoBudgetNoCandidate, Invariance, PTL DEF Spec, TerminalStatusIsFinal

\* A pending approval's step waits for it, or its order was canceled: only a
\* cancellation leaves approvals pending behind the steps it cancels.
PendingApprovalsWait ==
  \A s \in Step : approval[s] = "pending" =>
    \/ step[s] = "waiting_approval"
    \/ step[s] = "canceled" /\ status = "canceled"

\* What every handler but create_work_plan keeps of approvals.
SteadyApprovals ==
  \A s \in Step : approval'[s] = "pending" =>
    \/ step'[s] = "waiting_approval"
    \/ /\ approval[s] = "pending"
       /\ step'[s] = step[s] \/ (step'[s] = "canceled" /\ status' = "canceled")

\* A step that a worker runs has no pending approval.
LEMMA ExecuteApprovals ==
  ASSUME TypeInv, PendingApprovalsWait, NEW a \in Attempt,
         Execute(a) \/ CommitEffect(a) \/ Crash(a)
  PROVE  SteadyApprovals
<1>0. a[1] \in Step /\ step \in [Step -> StepState] /\ approval \in [Step -> Approval]
  BY AttemptParts DEF TypeInv, TypeOK
<1>1. CASE UNCHANGED <<step, approval>>
  BY <1>1 DEF SteadyApprovals
<1>2. CASE SettleApprovalRequired(a)
  BY <1>0, <1>2 DEF SettleApprovalRequired, SteadyApprovals
<1>3. CASE /\ OwnsLease(a) /\ approval' = approval
           /\ \E next \in {"failed", "succeeded", "retry_wait"} : step' = [step EXCEPT ![a[1]] = next]
  BY <1>0, <1>3 DEF OwnsLease, PendingApprovalsWait, SteadyApprovals
<1>4. CASE \/ PrepareDataflowError(a) \/ PrepareHeadless(a) \/ SettleSuccess(a)
           \/ SettleFailure(a) \/ SettleNonterminal(a) \/ SettleBudgetStop(a)
  BY <1>3, <1>4 DEF PrepareDataflowError, PrepareHeadless, SettleSuccess,
     SettleFailure, SettleNonterminal, SettleBudgetStop, FailAttempt
<1> QED
  BY <1>1, <1>2, <1>4 DEF Execute, PrepareCall, StartCall, SendCall, StopBeforeSend, Answer,
     SettleNothing, CommitEffect, Crash, stepVars, rowVars

LEMMA NextApprovals ==
  ASSUME TypeInv, PendingApprovalsWait, [Next]_vars
  PROVE  SteadyApprovals \/ \E p \in planner, K \in Plans : PlannerApply(p, K)
<1> USE DEF SteadyApprovals
<1>0. step \in [Step -> StepState] /\ approval \in [Step -> Approval]
  BY DEF TypeInv, TypeOK
<1>1. CASE UNCHANGED <<step, approval>>
  BY <1>1
<1>2. ASSUME NEW s \in Step, ReclaimExpiredLease(s) PROVE SteadyApprovals
  BY <1>0, <1>2 DEF ReclaimExpiredLease, PendingApprovalsWait
<1>3. ASSUME NEW s \in Step, ClaimReadyStep(s) PROVE SteadyApprovals
  BY <1>0, <1>3 DEF ClaimReadyStep, PendingApprovalsWait
<1>4. ASSUME NEW s \in Step, PromoteDependents(s) PROVE SteadyApprovals
  BY <1>0, <1>4 DEF PromoteDependents, Promoted, PendingApprovalsWait, rowVars
<1>5. CASE CancelOrder
  BY <1>0, <1>5 DEF CancelOrder, RETIRABLE_STEP_STATES, PendingApprovalsWait, rowVars
<1>6. ASSUME NEW s \in Step, OwnerGate(s) \/ \E approved \in BOOLEAN : Decide(s, approved)
      PROVE  SteadyApprovals
  BY <1>0, <1>6 DEF OwnerGate, Decide, PendingApprovalsWait
<1>7. CASE Work \/ Environment
  BY <1>1, <1>3, <1>7, ExecuteApprovals DEF Work, Environment, ExpireLease, rowVars
<1>8. CASE Tick
  BY <1>1, <1>2, <1>8 DEF Tick, EnforceBudgetsRead, EnforceBudgetsWrite, AcknowledgePause,
     Unstick, stepVars, rowVars
<1>9. CASE Verify
  BY <1>1, <1>4, <1>9 DEF Verify, VerifyResult, VerifierRead, VerifierStale, VerifierStop,
     VerifierRecord, stepVars, rowVars
<1>10. CASE People
  BY <1>1, <1>5, <1>6, <1>10 DEF People, AddInstruction, RequestPause, Unpause, Reconcile,
     ManagerVerdict, stepVars, rowVars
<1>11. CASE Plan
  BY <1>1, <1>11 DEF Plan, PlannerDispatch, PlannerStale, PlannerFails, PlannerStops,
     PlannerCrash, stepVars, rowVars
<1>12. CASE UNCHANGED vars
  BY <1>1, <1>12 DEF vars, stepVars, rowVars
<1> QED
  BY <1>7, <1>8, <1>9, <1>10, <1>11, <1>12 DEF Next

LEMMA PlannerApplyApprovals ==
  ASSUME TypeInv, FutureIsAbsent, PlanInv, PendingApprovalsWait,
         NEW p \in planner, NEW K \in Plans, PlannerApply(p, K)
  PROVE  \A s \in Step : approval'[s] # "pending"
<1> SUFFICES ASSUME NEW s \in Step, approval'[s] = "pending" PROVE FALSE
  OBVIOUS
<1>1. approval[s] = "pending" /\ s \notin Retired
  BY DEF PlannerApply
<1>2. status # "canceled"
  BY DEF PlannerApply, PlannerCurrent, PLANNABLE_STATUSES
<1>3. step[s] = "waiting_approval"
  BY <1>1, <1>2 DEF PendingApprovalsWait
<1>4. s[1] = rev
  BY <1>3, StepParts, BoundsAssumption DEF PlanInv, SupersededStepsAreClosed, FutureIsAbsent, Closed, Revision, TypeInv, TypeOK
<1> QED
  BY <1>1, <1>3, <1>4 DEF Retired, PlanSteps, RETIRABLE_STEP_STATES

\* E23b whole: while the budget pass overwrites nothing, no step of a superseded
\* revision runs, resumes, or waits for a decision.  With a wall clock that
\* runs out the approvals' half is not true: see the README's findings.
THEOREM SupersededPlansAreQuiet ==
  ASSUME "wall_clock" \notin Faults
  PROVE  Spec => []SupersededPlanIsQuiet
<1>1. Init => NoStaleBudgetWrite /\ PendingApprovalsWait /\ SupersededPlanIsQuiet
  BY DEF Init, NoStaleBudgetWrite, PendingApprovalsWait, SupersededPlanIsQuiet
<1>2. /\ IInv /\ PlanInv /\ NoStaleBudgetWrite /\ PendingApprovalsWait
      /\ SupersededPlanIsQuiet /\ [Next]_vars /\ PlanInv'
      => PendingApprovalsWait' /\ SupersededPlanIsQuiet'
  <2> SUFFICES ASSUME IInv, PlanInv, NoStaleBudgetWrite, PendingApprovalsWait,
                      SupersededPlanIsQuiet, [Next]_vars, PlanInv'
               PROVE  PendingApprovalsWait' /\ SupersededPlanIsQuiet'
    OBVIOUS
  <2>1. CASE \E p \in planner, K \in Plans : PlannerApply(p, K)
    BY <2>1, PlannerApplyApprovals DEF IInv, ExecutionInv, PendingApprovalsWait, PlanInv,
       SupersededPlanIsQuiet, SupersededStepsAreClosed, Closed
  <2>2. CASE SteadyApprovals /\ ~ \E p \in planner, K \in Plans : PlannerApply(p, K)
    <3>1. PendingApprovalsWait'
      BY <2>2, TerminalStep DEF PendingApprovalsWait, SteadyApprovals, IInv,
         NoStaleBudgetWrite, EnforceBudgetsWrite
    <3>2. rev' = rev
      BY <2>2, NextSteady DEF IInv, Steady
    <3> QED
      BY <2>2, <3>1, <3>2 DEF PlanInv, SupersededPlanIsQuiet, SupersededStepsAreClosed, Closed,
         SteadyApprovals
  <2> QED
    BY <2>1, <2>2, NextApprovals DEF IInv
<1> QED
  BY <1>1, <1>2, NoBudgetNoCandidate, PlanInvariance, Invariance, PTL DEF Spec
-----------------------------------------------------------------------------
(* Revisions and what pays for them.                                       *)

\* A revision may be made now, or once the order is resumed.
PlansAhead ==
  \/ status \in PLANNABLE_STATUSES
  \/ status = "paused" /\ RESUME_TARGET[pause] \in PLANNABLE_STATUSES

\* The next revision is paid for already.
NextIsPaid == rev <= Cardinality(charged) + instructions

PaymentInv ==
  /\ RevisionsArePaidFor
  /\ charged \subseteq 0..rev
  /\ PlansAhead \/ rev \in charged => NextIsPaid

\* Every handler but create_work_plan: it charges the current revision within
\* both limits or nothing, and opens the way to a plan only with a charge or
\* an instruction.
Accounts ==
  /\ rev' = rev
  /\ \/ charged' = charged
     \/ charged' = charged \cup {rev} /\ CanCharge /\ rev <= MaxReplans
  /\ \/ instructions' = instructions /\ (PlansAhead' => PlansAhead \/ rev \in charged')
     \/ instructions' = instructions + 1

LEMMA ChargesAreFinite ==
  ASSUME rev \in Nat, charged \subseteq 0..rev
  PROVE  IsFiniteSet(charged) /\ Cardinality(charged) \in Nat
<1>1. IsFiniteSet(0..rev)
  BY FS_Interval
<1>2. IsFiniteSet(charged)
  BY <1>1, FS_Subset
<1> QED
  BY <1>2, FS_CardinalityType

LEMMA AccountsKeep == TypeInv /\ PaymentInv /\ Accounts => PaymentInv'
<1> SUFFICES ASSUME TypeInv, PaymentInv, Accounts PROVE PaymentInv'
  OBVIOUS
<1> USE DEF PaymentInv, RevisionsArePaidFor, NextIsPaid
<1>1. rev \in Nat /\ instructions \in Nat /\ rev' = rev /\ instructions' \in Nat
  BY BoundsAssumption DEF TypeInv, TypeOK, Accounts
<1>2. IsFiniteSet(charged) /\ Cardinality(charged) \in Nat
  BY <1>1, ChargesAreFinite
<1>3. CASE charged' = charged
  BY <1>1, <1>2, <1>3 DEF Accounts
<1>4. CASE rev \in charged /\ charged' = charged \cup {rev}
  <2>1. charged' = charged
    BY <1>4
  <2> QED
    BY <1>3, <2>1
<1>5. CASE /\ rev \notin charged /\ charged' = charged \cup {rev}
           /\ CanCharge /\ rev <= MaxReplans
  <2>1. Cardinality(charged') = Cardinality(charged) + 1
    BY <1>2, <1>5, FS_AddElement
  <2>2. Cardinality(charged) < LedgerReplans
    BY <1>5 DEF CanCharge
  <2>3. RevisionsArePaidFor' /\ NextIsPaid'
    BY <1>1, <1>2, <1>5, <2>1, <2>2, BoundsAssumption DEF Accounts
  <2> QED
    BY <1>1, <1>5, <2>3
<1> QED
  BY <1>3, <1>4, <1>5 DEF Accounts

LEMMA FailureAccounts ==
  ASSUME TypeInv, NEW calls, ReplanOrBlock(calls) \/ ReplanOrBlockGuarded(calls),
         UNCHANGED <<rev, instructions, pause>>
  PROVE  Accounts
<1>1. FinalTarget(calls) = "replanning" => CanCharge /\ rev <= MaxReplans
  BY BoundsAssumption DEF FinalTarget, FailureTarget, TypeInv, TypeOK
<1> QED
  BY <1>1, FinalTargets DEF ReplanOrBlock, ReplanOrBlockGuarded, Accounts, PlansAhead, PLANNABLE_STATUSES

\* Handlers that charge nothing and open no way to a plan.
LEMMA NothingAhead ==
  ASSUME UNCHANGED <<rev, charged, instructions>>,
         \/ UNCHANGED <<status, pause>>
         \/ status' \notin PLANNABLE_STATUSES \cup {"paused"}
         \/ PlansAhead' => PlansAhead
  PROVE  Accounts
  BY DEF Accounts, PlansAhead

LEMMA NextAccounts ==
  TypeInv /\ [Next]_vars => Accounts \/ \E p \in planner, K \in Plans : PlannerApply(p, K)
<1> SUFFICES ASSUME TypeInv, [Next]_vars,
                    ~ \E p \in planner, K \in Plans : PlannerApply(p, K)
             PROVE  Accounts
  OBVIOUS
<1> USE DEF PLANNABLE_STATUSES
<1>1. ASSUME NEW a \in Attempt, Execute(a) \/ CommitEffect(a) \/ Crash(a)
      PROVE  Accounts
  <2>1. ASSUME NEW retryable, FailAttempt(a, retryable), UNCHANGED <<rev, instructions, pause>>
        PROVE  Accounts
    BY <2>1, FailureAccounts, NothingAhead DEF FailAttempt
  <2>2. CASE PrepareDataflowError(a) \/ SettleFailure(a)
    BY <2>1, <2>2 DEF PrepareDataflowError, SettleFailure
  <2>3. CASE UNCHANGED orderVars
    BY <2>3, NothingAhead DEF orderVars
  <2>4. CASE SettleApprovalRequired(a) \/ SettleNonterminal(a) \/ SettleBudgetStop(a)
             \/ PrepareHeadless(a)
    BY <2>4, NothingAhead DEF SettleApprovalRequired, SettleNonterminal, SettleBudgetStop,
       PrepareHeadless
  <2> QED
    BY <1>1, <2>2, <2>3, <2>4 DEF Execute, PrepareCall, StartCall, SendCall, StopBeforeSend,
       Answer, SettleSuccess, SettleNothing, CommitEffect, Crash
<1>2. CASE Work \/ Environment
  <2>1. ASSUME NEW s \in Step, ClaimReadyStep(s) PROVE Accounts
    BY <2>1, NothingAhead DEF ClaimReadyStep
  <2> QED
    BY <1>1, <1>2, <2>1, NothingAhead DEF Work, Environment, ExpireLease, orderVars
<1>3. CASE Tick
  <2>1. ASSUME NEW s \in Step, ReclaimExpiredLease(s) PROVE Accounts
    BY <2>1, FailureAccounts, NothingAhead DEF ReclaimExpiredLease
  <2>2. CASE AcknowledgePause
    BY <2>2, NothingAhead DEF AcknowledgePause, PauseIsSafe, PlansAhead, PAUSE_ACK_STATUSES,
       RESUME_TARGET
  <2> QED
    BY <1>3, <2>1, <2>2, NothingAhead DEF Tick, EnforceBudgetsRead, EnforceBudgetsWrite, Unstick,
       orderVars
<1>4. CASE Verify
  <2>1. ASSUME NEW s \in Step, NEW ok \in BOOLEAN, VerifyResult(s, ok) PROVE Accounts
    <3>1. FinalTarget(call) = "replanning" => CanCharge /\ rev <= MaxReplans
      BY BoundsAssumption DEF FinalTarget, FailureTarget, TypeInv, TypeOK
    <3> QED
      BY <2>1, <3>1, FinalTargets DEF VerifyResult, Accounts, PlansAhead
  <2>2. ASSUME NEW V \in SUBSET (1..SemCount), VerifierRecord(V) PROVE Accounts
    BY <2>2, FailureAccounts, NothingAhead DEF VerifierRecord
  <2> QED
    BY <1>4, <2>1, <2>2, NothingAhead DEF Verify, PromoteDependents, VerifierRead,
       VerifierStale, VerifierStop, orderVars
<1>5. CASE Plan
  BY <1>5, NothingAhead DEF Plan, PlannerDispatch, PlannerStale, PlannerFails, PlannerStops,
     PlannerCrash, orderVars
<1>6. CASE People
  <2>1. CASE AddInstruction
    BY <2>1 DEF AddInstruction, Accounts
  <2>2. CASE RequestPause
    BY <2>2, NothingAhead DEF RequestPause, PauseIsSafe, PlansAhead, PAUSE_ACK_STATUSES,
       RESUME_TARGET
  <2>3. CASE Unpause
    <3>1. status' # "paused"
      BY <2>3 DEF Unpause, TypeInv, PausedRemembers, PAUSE_ACK_STATUSES, RESUME_TARGET
    <3>2. PlansAhead' => PlansAhead
      BY <2>3, <3>1 DEF Unpause, PlansAhead
    <3> QED
      BY <2>3, <3>2, NothingAhead DEF Unpause
  <2>4. ASSUME NEW c \in Criterion, NEW ok \in BOOLEAN, ManagerVerdict(c, ok) PROVE Accounts
    BY <2>4, FailureAccounts, NothingAhead DEF ManagerVerdict, taskVars
  <2> QED
    BY <1>6, <2>1, <2>2, <2>3, <2>4, NothingAhead DEF People, CancelOrder, OwnerGate, Decide,
       Reconcile, orderVars
<1>7. CASE UNCHANGED vars
  BY <1>7, NothingAhead DEF vars, orderVars
<1> QED
  BY <1>2, <1>3, <1>4, <1>5, <1>6, <1>7 DEF Next

\* Every revision after the first was paid for: by a replan within the order's
\* limit and the shared ledger's, or by an owner's instruction, however pauses,
\* verdicts and stale plans come between (_replan_or_block, add_instruction).
THEOREM RevisionsAreBought == Spec => []RevisionsArePaidFor
<1>1. Init => PaymentInv
  BY FS_EmptySet, BoundsAssumption DEF Init, PaymentInv, RevisionsArePaidFor, NextIsPaid
<1>2. IInv /\ PaymentInv /\ [Next]_vars => PaymentInv'
  <2> SUFFICES ASSUME IInv, PaymentInv, NEW p \in planner, NEW K \in Plans, PlannerApply(p, K)
               PROVE  PaymentInv'
    BY NextAccounts, AccountsKeep DEF IInv
  <2>1. /\ NextIsPaid /\ rev' = rev + 1 /\ rev \in Nat
        /\ charged' = charged /\ instructions' = instructions /\ status' = "ready"
    BY BoundsAssumption DEF PlannerApply, PlannerCurrent, PaymentInv, PlansAhead, IInv, TypeInv,
       TypeOK
  <2>2. instructions \in Nat /\ Cardinality(charged) \in Nat
    BY <2>1, BoundsAssumption, ChargesAreFinite DEF PaymentInv, IInv, TypeInv, TypeOK
  <2> QED
    BY <2>1, <2>2 DEF PaymentInv, RevisionsArePaidFor, NextIsPaid, PlansAhead,
       PLANNABLE_STATUSES
<1>3. PaymentInv => RevisionsArePaidFor
  BY DEF PaymentInv
<1> QED
  BY <1>1, <1>2, <1>3, Invariance, PTL DEF Spec
-----------------------------------------------------------------------------
(* The effects: the order implements EffectPromise.  What IInv and PlanInv  *)
(* do not say, the rows must: which claims were made, what workers have     *)
(* seen, what a settled call may be, and that a step that can be claimed    *)
(* again may be repeated.                                                   *)

\* Every claim made an attempt row.
ClaimsAreRecorded == \A a \in Attempt : a[2] <= count[a[1]] => attempt[a] # "none"

\* What a worker reports, it has seen.
WorkersReportTruly ==
  \A a \in Attempt :
    /\ worker[a] \in {"idle", "claimed", "prepared", "started"} => request[a] = "none"
    /\ worker[a] = "ok" => request[a] \in Effective
    /\ a[1][2] \in Fenced => request[a] # "unrecorded"
    /\ worker[a] = "gate" \/ attempt[a] = "waiting_approval" => request[a] = "refused"

\* What the call of a settled attempt may be.
SettledCallsAreKnown ==
  \A a \in Attempt :
    /\ attempt[a] = "succeeded" => call[a] = "succeeded"
    /\ attempt[a] = "abandoned" =>
         call[a] \in IF request[a] = "committed" THEN {"reconciled_happened"}
                     ELSE IF a[1][2] \in Fenced THEN {"none", "failed"}
                     ELSE {"none"} \cup UNRESOLVED_EFFECT_STATUSES
                          \cup {"reconciled_happened", "reconciled_not_happened"}

\* A step that may be claimed, now or later.
Claimable == {"pending", "ready", "retry_wait", "waiting_approval"}
\* It is not claimed again over an effect on record or unknown.
ClaimableMayRepeat ==
  \A s \in Step : step[s] \in Claimable /\ count[s] > 0 =>
    Told[Current(s)] \in {"absent", "answered", "withdrawn"}

EffectInv ==
  /\ ClaimsAreRecorded /\ WorkersReportTruly /\ SettledCallsAreKnown
  /\ ClaimableMayRepeat

LEMMA InitEffects == Init => Effects!Init /\ EffectInv
<1> SUFFICES ASSUME Init PROVE Effects!Init /\ EffectInv
  OBVIOUS
<1>1. Effects!Init
  <2>1. Told = [a \in Attempt |-> "none"]
    BY DEF Init, Told
  <2> QED
    BY <2>1, BoundsAssumption DEF Init, Effects!Init, Holder, Effects!Attempt, Effects!Step,
       Step, Attempt, Revision, Effective
<1>2. EffectInv
  BY BoundsAssumption, AttemptParts DEF Init, EffectInv, ClaimsAreRecorded, WorkersReportTruly,
     SettledCallsAreKnown, ClaimableMayRepeat, Claimable
<1> QED
  BY <1>1, <1>2

(* The handlers, each a step of the promise.                               *)

\* Handlers that give no authority and take none, send nothing, and say nothing
\* new of an attempt; what they do to the order's status is not its subject.
Quiet ==
  /\ UNCHANGED <<rev, count, attempt>>
  /\ \A a \in Attempt :
       /\ request'[a] = "none" <=> request[a] = "none"
       /\ request'[a] \in Effective <=> request[a] \in Effective
       /\ attempt[a] # "running" => (request'[a] = "committed" <=> request[a] = "committed")
       /\ attempt[a] # "running" => call'[a] = call[a]
  /\ \A s \in Step :
       /\ step'[s] = "running" <=> step[s] = "running"
       /\ step[s] = "running" => (lease'[s] = "live" <=> lease[s] = "live")
       /\ step'[s] \in Claimable => step[s] \in Claimable \/ count[s] = 0

LEMMA QuietSteps ==
  ASSUME TypeInv, ClaimableMayRepeat, Quiet
  PROVE  Effects!OpenOrClose /\ ClaimableMayRepeat'
<1>1. Told' = Told
  BY AttemptParts DEF Quiet, Told, CallSays
<1>2. Holder' = Holder
  BY DEF Quiet, Holder
<1>3. /\ {a \in Attempt : request'[a] # "none"} = {a \in Attempt : request[a] # "none"}
      /\ {a \in Attempt : request'[a] \in Effective} = {a \in Attempt : request[a] \in Effective}
  BY DEF Quiet
<1>4. Effects!OpenOrClose
  BY <1>1, <1>2, <1>3 DEF Effects!OpenOrClose, Quiet
<1>5. ClaimableMayRepeat'
  BY <1>1 DEF Quiet, ClaimableMayRepeat, Current, TypeInv, TypeOK
<1> QED
  BY <1>4, <1>5

\* Handlers that touch no attempt, call or executor.
LEMMA RowsUntouched ==
  ASSUME UNCHANGED <<count, attempt, call, worker, request>>,
         ClaimsAreRecorded, WorkersReportTruly, SettledCallsAreKnown
  PROVE  ClaimsAreRecorded' /\ WorkersReportTruly' /\ SettledCallsAreKnown'
  BY DEF ClaimsAreRecorded, WorkersReportTruly, SettledCallsAreKnown

\* claim_ready_step grants the authority over the step.
LEMMA ClaimGrants ==
  ASSUME TypeInv, ExecutionInv, EffectInv, NEW s \in Step, ClaimReadyStep(s)
  PROVE  Effects!Grant(s) /\ EffectInv'
<1> DEFINE a == NextAttempt(s)
<1> USE AttemptParts
<1>0. /\ a \in Attempt /\ a = <<s, count[s] + 1>> /\ a[1] = s /\ a[2] = count[s] + 1
      /\ count[s] \in Nat /\ attempt[a] = "none" /\ worker[a] = "idle" /\ request[a] = "none"
  BY BoundsAssumption DEF NextAttempt, ExecutionInv, UnclaimedIsBlank, ClaimReadyStep, TypeInv, TypeOK
<1>t. /\ step \in [Step -> StepState] /\ count \in [Step -> Nat] /\ lease \in [Step -> Lease]
      /\ attempt \in [Attempt -> AttemptStatus] /\ worker \in [Attempt -> WorkerPhase]
  BY BoundsAssumption DEF TypeInv, TypeOK
<1>1. /\ count' = [count EXCEPT ![s] = @ + 1] /\ step' = [step EXCEPT ![s] = "running"]
      /\ lease' = [lease EXCEPT ![s] = "live"] /\ attempt' = [attempt EXCEPT ![a] = "running"]
      /\ step[s] \in Claimable
      /\ UNCHANGED <<rev, call, request>> /\ worker' = [worker EXCEPT ![a] = "claimed"]
  BY DEF ClaimReadyStep, Claimable
<1>2. \A b \in Attempt : Told'[b] = Told[b]
  <2> SUFFICES ASSUME NEW b \in Attempt PROVE Told'[b] = Told[b]
    OBVIOUS
  <2>1. CASE b = a
    BY <1>t, <1>0, <1>1, <2>1 DEF Told
  <2>2. CASE b # a /\ b[1] = s
    <3>1. attempt'[b] = attempt[b] /\ (b[2] = count[s] + 1 => FALSE) /\ step[s] # "running"
      BY <1>t, <1>0, <1>1, <2>2 DEF Claimable
    <3> QED
      BY <1>t, <1>0, <1>1, <2>2, <3>1 DEF Told, CallSays
  <2>3. CASE b[1] # s
    BY <1>t, <1>0, <1>1, <2>3 DEF Told, CallSays
  <2> QED
    BY <2>1, <2>2, <2>3
<1>3. Told' = Told
  BY <1>2 DEF Told
<1>4. Holder' = [Holder EXCEPT ![s] = count[s] + 1] /\ Holder[s] = 0
  <2>1. \A t \in Step : Holder'[t] = IF t = s THEN count[s] + 1 ELSE Holder[t]
    BY <1>t, <1>1 DEF Holder
  <2> QED
    BY <1>1, <2>1 DEF Holder, Claimable
<1>5. Effects!Grant(s)
  <2>1. count[s] > 0 => Told[<<s, count[s]>>] \in {"absent", "answered", "withdrawn"}
    BY <1>1 DEF EffectInv, ClaimableMayRepeat, Current
  <2> QED
    BY <1>1, <1>3, <1>4, <2>1 DEF Effects!Grant, Effects!Last, ClaimReadyStep
<1>6. ClaimsAreRecorded'
  <2> SUFFICES ASSUME NEW b \in Attempt, b[2] <= count'[b[1]] PROVE attempt'[b] # "none"
    BY DEF ClaimsAreRecorded
  <2>1. b = a \/ b[2] <= count[b[1]]
    BY <1>t, <1>0, <1>1
  <2> QED
    BY <1>t, <1>1, <2>1 DEF EffectInv, ClaimsAreRecorded
<1>7. WorkersReportTruly' /\ SettledCallsAreKnown'
  BY <1>t, <1>0, <1>1 DEF EffectInv, WorkersReportTruly, SettledCallsAreKnown
<1>8. ClaimableMayRepeat'
  BY <1>t, <1>0, <1>1, <1>3 DEF EffectInv, ClaimableMayRepeat, Current, Claimable
<1> QED
  BY <1>5, <1>6, <1>7, <1>8 DEF EffectInv

LEMMA SameRows == Effects!Step = Step /\ Effects!Attempt = Attempt
  BY DEF Effects!Step, Effects!Attempt, Step, Attempt

\* What runs belongs to the plan in force.
LEMMA RunningIsOfThePlan ==
  ASSUME TypeInv, ExecutionInv, PlanInv, NEW s \in Step, step[s] = "running"
  PROVE  s[1] = rev
<1>1. s[1] \in Nat /\ rev \in Nat
  BY StepParts, BoundsAssumption DEF Revision, TypeInv, TypeOK
<1>2. ~(s[1] < rev) /\ ~(s[1] > rev)
  BY DEF PlanInv, SupersededStepsAreClosed, Closed, ExecutionInv, FutureIsAbsent
<1> QED
  BY <1>1, <1>2

\* A worker before it settles, and the recipient: the request leaves under the
\* lease, and a fenced recipient acts under it.
LEMMA SendLeaves ==
  ASSUME TypeInv, ExecutionInv, PlanInv, EffectInv, NEW a \in Attempt, SendCall(a),
         worker'[a] = "sent"
  PROVE  Effects!RequestLeaves(a)
<1> USE AttemptParts
<1>1. /\ status = "running" /\ OwnsLease(a) /\ request[a] = "none"
      /\ request' = [request EXCEPT ![a] = "pending"]
      /\ UNCHANGED <<status, rev, step, count, lease, attempt, call>>
  BY DEF SendCall, TypeInv, TypeOK, orderVars, stepVars, rowVars, EffectInv, WorkersReportTruly
<1>2. a[1][1] = rev
  BY <1>1, RunningIsOfThePlan DEF OwnsLease
<1>3. Told' = Told /\ Holder' = Holder /\ Holder[a[1]] = a[2]
  BY <1>1 DEF Told, CallSays, Holder, OwnsLease, TypeInv, TypeOK
<1>4. /\ {b \in Attempt : request'[b] # "none"} = {b \in Attempt : request[b] # "none"} \cup {a}
      /\ {b \in Attempt : request'[b] \in Effective} = {b \in Attempt : request[b] \in Effective}
  BY <1>1 DEF TypeInv, TypeOK, Effective
<1> QED
  BY <1>1, <1>2, <1>3, <1>4 DEF Effects!RequestLeaves

LEMMA CommitTakesEffect ==
  ASSUME TypeInv, ExecutionInv, EffectInv, NEW a \in Attempt, CommitEffect(a),
         request[a] = "pending", request'[a] \in Effective
  PROVE  Effects!TakesEffect(a)
<1> USE AttemptParts
<1>1. /\ \E r \in Effective : request' = [request EXCEPT ![a] = r]
      /\ attempt[a] # "running" => request'[a] # "committed"
      /\ a[1][2] \in Fenced => FenceAdmits(a)
      /\ UNCHANGED <<status, rev, step, count, lease, attempt, call>>
  BY DEF CommitEffect, FenceAdmits, OwnsLease, Effective, TypeInv, TypeOK, orderVars, stepVars,
     rowVars
<1>2. Told' = Told /\ Holder' = Holder
  BY <1>1 DEF Told, CallSays, Holder, Effective, TypeInv, TypeOK
<1>3. Told[a] # "absent"
  BY <1>1 DEF Told, CallSays, FenceAdmits, OwnsLease, ExecutionInv, RequestAfterStart, EffectInv,
     WorkersReportTruly, SettledCallsAreKnown, UNRESOLVED_EFFECT_STATUSES
<1>4. a[1][2] \in Fenced => Holder[a[1]] = a[2]
  BY <1>1 DEF FenceAdmits, OwnsLease, Holder
<1>5. /\ {b \in Attempt : request'[b] # "none"} = {b \in Attempt : request[b] # "none"}
      /\ {b \in Attempt : request'[b] \in Effective} =
           {b \in Attempt : request[b] \in Effective} \cup {a}
  BY <1>1 DEF Effective, TypeInv, TypeOK
<1> QED
  BY <1>1, <1>2, <1>3, <1>4, <1>5 DEF Effects!TakesEffect, FenceAdmits, Effective

LEMMA DispatchEffects ==
  ASSUME TypeInv, ExecutionInv, PlanInv, EffectInv, NEW a \in Attempt,
         \/ PrepareCall(a) \/ StartCall(a) \/ SendCall(a) \/ StopBeforeSend(a)
         \/ \E o \in AllOutcomes : Answer(a, o)
         \/ CommitEffect(a) \/ Crash(a) \/ SettleNothing(a)
  PROVE  Effects!Next /\ EffectInv'
<1> USE AttemptParts
<1> USE DEF PrepareCall, StartCall, SendCall, StopBeforeSend, Answer, CommitEffect, Crash,
            SettleNothing
<1>t. /\ worker \in [Attempt -> WorkerPhase] /\ request \in [Attempt -> RequestState]
      /\ call \in [Attempt -> CallStatus] /\ attempt \in [Attempt -> AttemptStatus]
  BY DEF TypeInv, TypeOK
<1>1. UNCHANGED <<rev, step, count, lease, attempt>>
  BY DEF orderVars, stepVars, rowVars
<1>2. \A b \in Attempt : attempt[b] # "running" => call'[b] = call[b]
  BY <1>t DEF rowVars, OwnsLease
<1>r. \A b \in Attempt :
        attempt[b] # "running" => (request'[b] = "committed" <=> request[b] = "committed")
  BY <1>t DEF FenceAdmits, OwnsLease
<1>3. ClaimsAreRecorded' /\ SettledCallsAreKnown'
  BY <1>1, <1>2, <1>r DEF EffectInv, ClaimsAreRecorded, SettledCallsAreKnown
<1>4. WorkersReportTruly'
  BY <1>t, <1>1 DEF EffectInv, WorkersReportTruly, AllOutcomes, Effective, rowVars
<1>5. ClaimableMayRepeat'
  <2>1. \A b \in Attempt : attempt[b] # "running" => (request'[b] = "none" <=> request[b] = "none")
    BY <1>t DEF OwnsLease
  <2>2. \A b \in Attempt : Told[b] \in {"absent", "answered", "withdrawn"} => Told'[b] = Told[b]
    BY <1>1, <1>2, <1>r, <2>1 DEF Told, CallSays
  <2> QED
    BY <1>1, <2>2 DEF EffectInv, ClaimableMayRepeat, Current, TypeInv, TypeOK
<1>6. Effects!Next
  <2>1. CASE SendCall(a) /\ worker'[a] = "sent"
    BY <2>1, SendLeaves, SameRows DEF Effects!Next
  <2>2. CASE CommitEffect(a) /\ request[a] = "pending" /\ request'[a] \in Effective
    BY <2>2, CommitTakesEffect, SameRows DEF Effects!Next
  <2>3. CASE /\ ~(SendCall(a) /\ worker'[a] = "sent")
              /\ ~(CommitEffect(a) /\ request[a] = "pending" /\ request'[a] \in Effective)
    <3>1. \A b \in Attempt : /\ request'[b] = "none" <=> request[b] = "none"
                             /\ request'[b] \in Effective <=> request[b] \in Effective
      BY <1>t, <2>3 DEF Effective
    <3>2. Quiet
      BY <1>1, <1>2, <1>r, <3>1 DEF Quiet
    <3> QED
      BY <3>2, QuietSteps DEF EffectInv, Effects!Next
  <2> QED
    BY <2>1, <2>2, <2>3
<1> QED
  BY <1>3, <1>4, <1>5, <1>6 DEF EffectInv

\* What a worker, or who takes the step over, says of the attempt that has it,
\* ends its authority.
Speaks(a, word) ==
  /\ a[2] = count[a[1]] /\ attempt[a] = "running" /\ step[a[1]] = "running"
  /\ step'[a[1]] # "running" /\ UNCHANGED <<rev, count, request>>
  /\ \A s \in Step \ {a[1]} : step'[s] = step[s] /\ lease'[s] = lease[s]
  /\ \A b \in Attempt \ {a} : attempt'[b] = attempt[b] /\ call'[b] = call[b]
  /\ Told'[a] = word

LEMMA SpeakingTells ==
  ASSUME TypeInv, ExecutionInv, EffectInv, NEW a \in Attempt,
         NEW word \in {"happened", "absent", "answered", "unknown", "withdrawn"},
         Speaks(a, word),
         word = "happened" => request[a] \in Effective,
         word = "absent" => request[a] \notin Effective,
         word = "answered" => request[a] # "none",
         step'[a[1]] \in Claimable => word \in {"absent", "answered", "withdrawn"}
  PROVE  Effects!Next /\ ClaimableMayRepeat'
<1> USE AttemptParts DEF Speaks
<1>1. Told[a] = "none"
  BY DEF Told
<1>2. Told' = [Told EXCEPT ![a] = word]
  <2>1. \A b \in Attempt \ {a} : Told'[b] = Told[b]
    <3> SUFFICES ASSUME NEW b \in Attempt \ {a} PROVE Told'[b] = Told[b]
      OBVIOUS
    <3>1. b[1] = a[1] => b[2] # count[b[1]]
      OBVIOUS
    <3> QED
      BY <3>1 DEF Told, CallSays
  <2> QED
    BY <2>1 DEF Told
<1>3. Holder' = [Holder EXCEPT ![a[1]] = 0]
  BY DEF Holder
<1>4. Effects!Tell(a, word)
  BY <1>1, <1>2, <1>3 DEF Effects!Tell, Effects!Last
<1>5. Effects!Next
  BY <1>4, SameRows DEF Effects!Next, Effects!Word
<1>6. ClaimableMayRepeat'
  <2> SUFFICES ASSUME NEW s \in Step, step'[s] \in Claimable, count'[s] > 0
               PROVE  Told'[Current(s)'] \in {"absent", "answered", "withdrawn"}
    BY DEF ClaimableMayRepeat
  <2>0. Current(s)' = Current(s) /\ Current(s) \in Attempt
    BY BoundsAssumption DEF Current, TypeInv, TypeOK
  <2>1. CASE s = a[1]
    BY <2>0, <2>1 DEF Current
  <2>2. CASE s # a[1]
    <3>1. Told[Current(s)] \in {"absent", "answered", "withdrawn"}
      BY <2>2 DEF EffectInv, ClaimableMayRepeat
    <3>2. Current(s) # a
      BY <2>2 DEF Current
    <3> QED
      BY <1>2, <2>0, <3>1, <3>2
  <2> QED
    BY <2>1, <2>2
<1> QED
  BY <1>5, <1>6

\* Ending an attempt keeps what the rows know.
LEMMA EndingRecords ==
  ASSUME TypeInv, EffectInv, NEW a \in Attempt, NEW ended \in AttemptStatus \ {"none"}, NEW answer,
         attempt' = [attempt EXCEPT ![a] = ended], call' = [call EXCEPT ![a] = answer],
         worker' \in {worker, [worker EXCEPT ![a] = "done"]}, UNCHANGED <<count, request>>,
         ended = "waiting_approval" => request[a] = "refused",
         ended = "succeeded" => answer = "succeeded",
         ended = "abandoned" =>
           answer \in IF request[a] = "committed" THEN {"reconciled_happened"}
                     ELSE IF a[1][2] \in Fenced THEN {"none", "failed"}
                     ELSE {"none", "outcome_unknown"}
  PROVE  ClaimsAreRecorded' /\ WorkersReportTruly' /\ SettledCallsAreKnown'
<1> USE DEF TypeInv, TypeOK, EffectInv
<1>1. ClaimsAreRecorded'
  BY DEF ClaimsAreRecorded
<1>2. WorkersReportTruly'
  BY DEF WorkersReportTruly
<1>3. SettledCallsAreKnown'
  BY DEF SettledCallsAreKnown, UNRESOLVED_EFFECT_STATUSES
<1> QED
  BY <1>1, <1>2, <1>3

\* A worker that still owns its lease settles its attempt.
LEMMA SettlementTells ==
  ASSUME TypeInv, ExecutionInv, EffectInv, NEW a \in Attempt, OwnsLease(a),
         NEW ended \in {"succeeded", "failed", "waiting_approval"} \cup UNRESOLVED_EFFECT_STATUSES,
         NEW answer \in CallStatus \ {"reconciled_happened", "reconciled_not_happened"},
         NEW next \in {"succeeded", "failed", "retry_wait", "waiting_approval"},
         attempt' = [attempt EXCEPT ![a] = ended], call' = [call EXCEPT ![a] = answer],
         step' = [step EXCEPT ![a[1]] = next],
         lease' \in {lease, [lease EXCEPT ![a[1]] = "none"]},
         worker' = [worker EXCEPT ![a] = "done"], UNCHANGED <<rev, count, request>>,
         ended = "succeeded" => request[a] \in Effective /\ answer = "succeeded",
         ended = "waiting_approval" =>
           request[a] = "refused" /\ answer \notin UNRESOLVED_EFFECT_STATUSES,
         answer \in UNRESOLVED_EFFECT_STATUSES \/ ended = "succeeded" => next \notin Claimable
  PROVE  Effects!Next /\ EffectInv'
<1> USE AttemptParts
<1>t. /\ step \in [Step -> StepState] /\ lease \in [Step -> Lease]
      /\ attempt \in [Attempt -> AttemptStatus] /\ call \in [Attempt -> CallStatus]
      /\ request \in [Attempt -> RequestState]
  BY DEF TypeInv, TypeOK
<1>1. ClaimsAreRecorded' /\ WorkersReportTruly' /\ SettledCallsAreKnown'
  BY EndingRecords DEF AttemptStatus, UNRESOLVED_EFFECT_STATUSES
<1> DEFINE word == IF ended = "succeeded" THEN "happened"
                   ELSE IF answer \in UNRESOLVED_EFFECT_STATUSES THEN "unknown"
                   ELSE IF ended = "waiting_approval" \/ request[a] = "none" THEN "absent"
                   ELSE "answered"
<1>2. Told'[a] = word
  BY <1>t DEF Told, CallSays, UNRESOLVED_EFFECT_STATUSES
<1>3. Speaks(a, word)
  BY <1>t, <1>2 DEF Speaks, OwnsLease
<1>4. Effects!Next /\ ClaimableMayRepeat'
  <2>1. step'[a[1]] = next
    BY <1>t
  <2> QED
    BY <1>3, <2>1, SpeakingTells DEF Effective
<1> QED
  BY <1>1, <1>4 DEF EffectInv

LEMMA SettleEffects ==
  ASSUME TypeInv, ExecutionInv, EffectInv, NEW a \in Attempt,
         \/ PrepareDataflowError(a) \/ PrepareHeadless(a)
         \/ SettleSuccess(a) \/ SettleFailure(a)
         \/ SettleApprovalRequired(a) \/ SettleNonterminal(a) \/ SettleBudgetStop(a)
  PROVE  Effects!Next /\ EffectInv'
<1> USE DEF AttemptStatus, CallStatus, StepState, UNRESOLVED_EFFECT_STATUSES, Claimable
<1>1. ASSUME NEW retryable, FailAttempt(a, retryable)
      PROVE  /\ attempt' = [attempt EXCEPT ![a] = "failed"]
             /\ lease' = [lease EXCEPT ![a[1]] = "none"]
             /\ \E next \in {"failed", "retry_wait"} : step' = [step EXCEPT ![a[1]] = next]
  BY <1>1 DEF FailAttempt
<1>2. CASE PrepareDataflowError(a)
  <2>1. call' = [call EXCEPT ![a] = "none"]
    BY <1>2 DEF PrepareDataflowError, TypeInv, TypeOK
  <2>2. /\ OwnsLease(a) /\ FailAttempt(a, FALSE)
        /\ worker' = [worker EXCEPT ![a] = "done"]
        /\ UNCHANGED <<rev, count, request>>
    BY <1>2 DEF PrepareDataflowError
  <2> QED
    BY <1>1, <2>1, <2>2, SettlementTells
<1>3. CASE SettleSuccess(a)
  BY <1>3, SettlementTells DEF SettleSuccess, orderVars, EffectInv, WorkersReportTruly
<1>4. CASE SettleFailure(a)
  BY <1>1, <1>4, SettlementTells DEF SettleFailure
<1>5. CASE SettleApprovalRequired(a)
  BY <1>5, SettlementTells DEF SettleApprovalRequired, EffectInv, WorkersReportTruly
<1>6. CASE SettleNonterminal(a)
  BY <1>6, SettlementTells DEF SettleNonterminal
<1>7. CASE SettleBudgetStop(a)
  BY <1>7, SettlementTells DEF SettleBudgetStop
<1>8. CASE PrepareHeadless(a)
  <2>1. call' = [call EXCEPT ![a] = "none"]
    BY <1>8 DEF PrepareHeadless, TypeInv, TypeOK
  <2> QED
    BY <1>8, <2>1, SettlementTells DEF PrepareHeadless
<1> QED
  BY <1>2, <1>3, <1>4, <1>5, <1>6, <1>7, <1>8

\* reclaim_expired_leases says what the receipt proves.
LEMMA ReclaimTells ==
  ASSUME TypeInv, ExecutionInv, EffectInv, NEW s \in Step, ReclaimExpiredLease(s)
  PROVE  Effects!Next /\ EffectInv'
<1> DEFINE a == Current(s)
<1> USE AttemptParts
<1>t. /\ step \in [Step -> StepState] /\ lease \in [Step -> Lease]
      /\ attempt \in [Attempt -> AttemptStatus] /\ call \in [Attempt -> CallStatus]
      /\ request \in [Attempt -> RequestState]
  BY DEF TypeInv, TypeOK
<1>1. /\ a \in Attempt /\ a[1] = s /\ a[2] = count[s] /\ attempt[a] = "running"
      /\ step[s] = "running" /\ call[a] \in {"none", "prepared", "running"}
      /\ call[a] = "none" => request[a] = "none"
  BY BoundsAssumption DEF ReclaimExpiredLease, ExecutionInv, RunningStepHasItsAttempt, Executing,
     Current, OpenAttemptOpenCall, RequestAfterStart, TypeInv, TypeOK
<1>2. /\ attempt' = [attempt EXCEPT ![a] = "abandoned"]
      /\ call' = [call EXCEPT ![a] = AbandonedCall(a)]
      /\ lease' = [lease EXCEPT ![s] = "none"]
      /\ UNCHANGED <<rev, count, worker, request>>
  BY DEF ReclaimExpiredLease, execVars
<1>3. PICK next \in {"failed", "retry_wait"} :
        /\ step' = [step EXCEPT ![s] = next]
        /\ next = "retry_wait" => AbandonedCall(a) \in {"none", "failed"}
  BY <1>1 DEF ReclaimExpiredLease, AbandonedCall
<1>4. AbandonedCall(a) \in IF request[a] = "committed" THEN {"reconciled_happened"}
                          ELSE IF a[1][2] \in Fenced THEN {"none", "failed"}
                          ELSE {"none", "outcome_unknown"}
  BY <1>1 DEF AbandonedCall
<1>5. ClaimsAreRecorded' /\ WorkersReportTruly' /\ SettledCallsAreKnown'
  BY <1>1, <1>2, <1>4, EndingRecords DEF AttemptStatus
<1> DEFINE word == IF AbandonedCall(a) = "outcome_unknown" THEN "unknown"
                   ELSE IF AbandonedCall(a) = "reconciled_happened" THEN "happened"
                   ELSE "absent"
<1>6. Told'[a] = word
  BY <1>t, <1>1, <1>2, <1>4 DEF Told, CallSays, UNRESOLVED_EFFECT_STATUSES
<1>7. Speaks(a, word)
  BY <1>t, <1>1, <1>2, <1>3, <1>6 DEF Speaks
<1>8. /\ word = "happened" => request[a] \in Effective
      /\ word = "absent" => request[a] \notin Effective
  BY <1>1 DEF AbandonedCall, EffectInv, WorkersReportTruly, Effective
<1>9. Effects!Next /\ ClaimableMayRepeat'
  <2>1. step'[a[1]] = next
    BY <1>t, <1>1, <1>3
  <2> QED
    BY <1>1, <1>3, <1>7, <1>8, <2>1, SpeakingTells DEF Claimable
<1> QED
  BY <1>5, <1>9 DEF EffectInv

\* request_work_approval: the gate of a running step takes it from its attempt,
\* of which nothing is said.
LEMMA GateWithdraws ==
  ASSUME TypeInv, ExecutionInv, EffectInv, NEW s \in Step, OwnerGate(s)
  PROVE  Effects!Next /\ EffectInv'
<1> USE AttemptParts
<1>t. /\ step \in [Step -> StepState] /\ rev' = rev
      /\ step' = [step EXCEPT ![s] = "waiting_approval"]
      /\ UNCHANGED <<count, lease, attempt, call, worker, request>>
  BY DEF TypeInv, TypeOK, OwnerGate, execVars
<1>1. ClaimsAreRecorded' /\ WorkersReportTruly' /\ SettledCallsAreKnown'
  BY <1>t, RowsUntouched DEF EffectInv
<1>2. CASE step[s] = "running"
  <2> DEFINE a == Current(s)
  <2>1. a \in Attempt /\ a[1] = s /\ a[2] = count[s] /\ attempt[a] = "running"
    BY <1>2, BoundsAssumption DEF ExecutionInv, RunningStepHasItsAttempt, Executing, Current,
       TypeInv, TypeOK
  <2>2. Told'[a] = "withdrawn"
    BY <1>t, <2>1 DEF Told
  <2>3. Speaks(a, "withdrawn")
    BY <1>t, <1>2, <2>1, <2>2 DEF Speaks
  <2> QED
    BY <1>1, <2>1, <2>3, SpeakingTells DEF EffectInv
<1>3. CASE step[s] # "running"
  <2>1. Quiet
    BY <1>t, <1>3 DEF Quiet, OwnerGate, Claimable
  <2> QED
    BY <1>1, <2>1, QuietSteps DEF EffectInv, Effects!Next
<1> QED
  BY <1>2, <1>3

LEMMA ExpiryLapses ==
  ASSUME TypeInv, ExecutionInv, EffectInv, NEW s \in Step, ExpireLease(s)
  PROVE  Effects!Next /\ EffectInv'
<1>t. /\ lease[s] = "live" /\ lease' = [lease EXCEPT ![s] = "expired"] /\ lease \in [Step -> Lease]
      /\ UNCHANGED <<status, rev, step, count, attempt, call, worker, request>>
  BY DEF TypeInv, TypeOK, ExpireLease, orderVars, rowVars, execVars
<1>1. ClaimsAreRecorded' /\ WorkersReportTruly' /\ SettledCallsAreKnown'
  BY <1>t, RowsUntouched DEF EffectInv
<1>2. CASE step[s] = "running"
  <2>1. Holder[s] # 0 /\ Holder' = [Holder EXCEPT ![s] = 0]
    <3>1. Holder[s] = count[s] /\ count[s] > 0 /\ count[s] \in Nat
      BY <1>t, <1>2, BoundsAssumption DEF Holder, ExecutionInv, RunningStepHasItsAttempt,
         Executing, TypeInv, TypeOK
    <3>2. \A t \in Step : Holder'[t] = IF t = s THEN 0 ELSE Holder[t]
      BY <1>t, <1>2 DEF Holder
    <3>3. Holder' = [Holder EXCEPT ![s] = 0]
      BY <3>2 DEF Holder
    <3> QED
      BY <3>1, <3>3
  <2>2. Told' = Told
    BY <1>t DEF Told, CallSays
  <2>3. Effects!Lapse(s)
    BY <1>t, <2>1, <2>2 DEF Effects!Lapse
  <2>4. ClaimableMayRepeat'
    BY <1>t, <2>2 DEF EffectInv, ClaimableMayRepeat, Current
  <2> QED
    BY <1>1, <2>3, <2>4, SameRows DEF EffectInv, Effects!Next
<1>3. CASE step[s] # "running"
  <2>1. Quiet
    BY <1>t, <1>3 DEF Quiet
  <2> QED
    BY <1>1, <2>1, QuietSteps DEF EffectInv, Effects!Next
<1> QED
  BY <1>2, <1>3

\* create_work_plan renews the plan when nobody executes and nothing is unknown.
LEMMA PlannerApplyRenews ==
  ASSUME IInv, PlanInv, EffectInv, NEW p \in planner, NEW K \in Plans, PlannerApply(p, K)
  PROVE  Effects!Next /\ EffectInv'
<1> USE AttemptParts DEF IInv, TypeInv, TypeOK
<1>1. /\ rev' = rev + 1 /\ Executing = {} /\ Unresolved(call) = {}
      /\ UNCHANGED <<count, attempt, call, worker, request>>
  BY DEF PlannerApply, PlannerCurrent, StatusInv, PlanningIsResolved, execVars
<1>2. \A s \in Step :
        /\ step[s] # "running" /\ step'[s] # "running"
        /\ step'[s] \in Claimable => step[s] \in Claimable \/ count[s] = 0
  <2>1. \A s \in Step : s[1] = rev + 1 => count[s] = 0
    BY StepParts, BoundsAssumption DEF Revision, PlanInv, AbsentIsUnclaimed, ExecutionInv, FutureIsAbsent
  <2> QED
    BY <1>1, <2>1 DEF PlannerApply, Executing, Claimable
<1>3. Told' = Told
  BY <1>1, <1>2 DEF Told, CallSays
<1>4. Holder' = Holder /\ \A s \in Step : Holder[s] = 0
  BY <1>2 DEF Holder
<1>5. \A s \in Step : count[s] > 0 => Told[<<s, count[s]>>] # "none"
  <2> SUFFICES ASSUME NEW s \in Step, count[s] > 0 PROVE Told[<<s, count[s]>>] # "none"
    OBVIOUS
  <2>1. <<s, count[s]>> \in Attempt /\ attempt[<<s, count[s]>>] # "none"
    BY BoundsAssumption DEF EffectInv, ClaimsAreRecorded
  <2> QED
    BY <1>2, <2>1 DEF Told, CallSays
<1>6. \A a \in Attempt : Told[a] # "unknown"
  BY <1>1 DEF Told, CallSays, Unresolved
<1>7. Effects!Renew
  BY <1>1, <1>3, <1>4, <1>5, <1>6, SameRows DEF Effects!Renew, Effects!Last
<1>8. ClaimsAreRecorded' /\ WorkersReportTruly' /\ SettledCallsAreKnown'
  BY <1>1, RowsUntouched DEF EffectInv
<1>9. ClaimableMayRepeat'
  BY <1>1, <1>2, <1>3 DEF EffectInv, ClaimableMayRepeat, Current
<1> QED
  BY <1>7, <1>8, <1>9 DEF EffectInv, Effects!Next

LEMMA ReconcileReconciles ==
  ASSUME TypeInv, ExecutionInv, EffectInv, NEW a \in Attempt,
         NEW outcome \in {"reconciled_happened", "reconciled_not_happened"},
         Reconcile(a, outcome)
  PROVE  Effects!Next /\ EffectInv'
<1> USE AttemptParts
<1>1. /\ call[a] \in UNRESOLVED_EFFECT_STATUSES /\ call' = [call EXCEPT ![a] = outcome]
      /\ call \in [Attempt -> CallStatus]
      /\ UNCHANGED <<status, rev, step, count, lease, attempt, worker, request>>
  BY DEF Reconcile, orderVars, stepVars, execVars, TypeInv, TypeOK
<1>2. attempt[a] \notin {"none", "running", "succeeded"}
  <2>1. a[2] \in Nat /\ count[a[1]] \in Nat
    BY BoundsAssumption DEF TypeInv, TypeOK
  <2> QED
    BY <1>1, <2>1 DEF EffectInv, ClaimsAreRecorded, SettledCallsAreKnown, ExecutionInv,
       UnclaimedIsBlank, OpenAttemptOpenCall, UNRESOLVED_EFFECT_STATUSES
<1>3. attempt[a] = "abandoned" => a[1][2] \notin Fenced /\ request[a] # "committed"
  BY <1>1 DEF EffectInv, SettledCallsAreKnown, UNRESOLVED_EFFECT_STATUSES
<1>4. Told[a] = "unknown" /\ Told' = [Told EXCEPT ![a] = "reconciled"]
  BY <1>1, <1>2, <1>3 DEF Told, CallSays, UNRESOLVED_EFFECT_STATUSES
<1>5. Holder' = Holder
  BY <1>1 DEF Holder
<1>6. Effects!Reconcile(a)
  BY <1>1, <1>4, <1>5 DEF Effects!Reconcile
<1>7. ClaimsAreRecorded' /\ WorkersReportTruly'
  BY <1>1 DEF EffectInv, ClaimsAreRecorded, WorkersReportTruly
<1>8. SettledCallsAreKnown'
  BY <1>1, <1>2, <1>3 DEF EffectInv, SettledCallsAreKnown
<1>9. ClaimableMayRepeat'
  <2> SUFFICES ASSUME NEW s \in Step, step[s] \in Claimable, count[s] > 0
               PROVE  Told'[Current(s)] \in {"absent", "answered", "withdrawn"}
    BY <1>1 DEF ClaimableMayRepeat, Current
  <2>1. Current(s) \in Attempt /\ Told[Current(s)] \in {"absent", "answered", "withdrawn"}
    BY BoundsAssumption DEF EffectInv, ClaimableMayRepeat, Current, TypeInv, TypeOK
  <2> QED
    BY <1>4, <2>1
<1> QED
  BY <1>6, <1>7, <1>8, <1>9, SameRows DEF EffectInv, Effects!Next

\* Everything else changes no attempt, call or executor.
LEMMA OthersAreQuiet ==
  ASSUME TypeInv, ExecutionInv, UNCHANGED <<rev, count, attempt, call, worker, request>>,
         \A s \in Step : /\ step'[s] = "running" <=> step[s] = "running"
                         /\ step[s] = "running" => lease'[s] = lease[s]
                         /\ step'[s] \in Claimable => step[s] \in Claimable,
         EffectInv
  PROVE  Effects!Next /\ EffectInv'
<1>1. Quiet
  BY DEF Quiet
<1> QED
  BY <1>1, QuietSteps, RowsUntouched DEF EffectInv, Effects!Next

LEMMA NextEffects ==
  ASSUME IInv, PlanInv, EffectInv, [Next]_vars
  PROVE  Effects!Next /\ EffectInv'
<1> USE DEF IInv
<1>1. CASE Work
  BY <1>1, ClaimGrants, DispatchEffects, SettleEffects, SameRows DEF Work, Execute, Effects!Next
<1>2. CASE Environment
  BY <1>2, ExpiryLapses, DispatchEffects DEF Environment
<1>3. CASE Tick
  <2>1. CASE EnforceBudgetsRead \/ EnforceBudgetsWrite \/ AcknowledgePause \/ Unstick
    BY <2>1, OthersAreQuiet DEF EnforceBudgetsRead, EnforceBudgetsWrite, AcknowledgePause,
       Unstick, orderVars, stepVars, rowVars, execVars
  <2> QED
    BY <1>3, <2>1, ReclaimTells DEF Tick
<1>4. CASE Verify
  <2>1. ASSUME NEW s \in Step, PromoteDependents(s) PROVE Effects!Next /\ EffectInv'
    BY <2>1, OthersAreQuiet DEF PromoteDependents, Promoted, rowVars, execVars, Claimable
  <2> QED
    BY <1>4, <2>1, OthersAreQuiet DEF Verify, VerifyResult, VerifierRead, VerifierStale,
       VerifierStop, VerifierRecord, orderVars, stepVars, rowVars, execVars
<1>5. CASE Plan
  <2>1. ASSUME NEW p \in planner, NEW K \in Plans, PlannerApply(p, K)
        PROVE  Effects!Next /\ EffectInv'
    BY <2>1, PlannerApplyRenews
  <2> QED
    BY <1>5, <2>1, OthersAreQuiet DEF Plan, PlannerDispatch, PlannerStale, PlannerFails,
       PlannerStops, PlannerCrash, orderVars, stepVars, rowVars, execVars
<1>6. CASE People
  <2>1. CASE CancelOrder
    BY <2>1, OthersAreQuiet DEF CancelOrder, RETIRABLE_STEP_STATES, Claimable, rowVars, execVars
  <2>2. ASSUME NEW s \in Step, NEW approved \in BOOLEAN, Decide(s, approved)
        PROVE  Effects!Next /\ EffectInv'
    BY <2>2, OthersAreQuiet DEF Decide, Claimable, execVars, TypeInv, TypeOK
  <2>3. CASE AddInstruction \/ RequestPause \/ Unpause
             \/ \E c \in Criterion, ok \in BOOLEAN : ManagerVerdict(c, ok)
    BY <2>3, OthersAreQuiet DEF AddInstruction, RequestPause, Unpause, ManagerVerdict, stepVars,
       rowVars, execVars
  <2> QED
    BY <1>6, <2>1, <2>2, <2>3, GateWithdraws, ReconcileReconciles DEF People
<1>7. CASE UNCHANGED vars
  BY <1>7, OthersAreQuiet DEF vars, orderVars, stepVars, rowVars, execVars
<1> QED
  BY <1>1, <1>2, <1>3, <1>4, <1>5, <1>6, <1>7 DEF Next

\* The order keeps the promise of its effects: one attempt at a time has a step's
\* authority, a fenced effect happens under it, what is said of an attempt is true
\* and final, and no step is repeated, and no plan made, over an effect on record
\* or unknown (claim_ready_step, attempt_owns_lease, effect_fence,
\* _settle_abandoned_calls, create_work_plan).
THEOREM EffectsStayAuthorised == Spec => EffectsKept
<1>1. Init => Effects!Init /\ EffectInv
  BY InitEffects
<1>2. IInv /\ PlanInv /\ EffectInv /\ [Next]_vars => [Effects!Next]_(Effects!effectVars) /\ EffectInv'
  BY NextEffects
<1> QED
  BY <1>1, <1>2, Invariance, PlanInvariance, PTL DEF Spec, EffectsKept, Effects!Spec

\* What the promise means for a step that was claimed again: nothing is on record
\* of an earlier attempt, or its worker was answered, or its owner took it away.
RepeatsAreKnown ==
  \A a \in Attempt :
    /\ a[2] < count[a[1]] => Told[a] \in {"absent", "answered", "withdrawn"}
    /\ Told[a] = "absent" => request[a] \notin Effective

\* An effect is made a second time only where an answer to the first was refused
\* as a failure, or the owner's gate took the step from the attempt: no crash, no
\* stall and no late request repeats one (reclaim_expired_leases, effect_fence).
THEOREM EffectsRepeatKnowingly == Spec => []RepeatsAreKnown
<1> USE AttemptParts
<1>1. Init => RepeatsAreKnown
  BY BoundsAssumption DEF Init, RepeatsAreKnown, Told
<1>2. ASSUME TypeInv, TypeInv', RepeatsAreKnown, [Effects!Next]_(Effects!effectVars)
      PROVE  RepeatsAreKnown'
  <2> DEFINE effects == {a \in Attempt : request[a] \in Effective}
  <2>t. /\ Told = [a \in Attempt |-> Told[a]] /\ count \in [Step -> Nat]
        /\ \A a \in Attempt : request[a] \in Effective <=> a \in effects
        /\ \A a \in Attempt : request'[a] \in Effective <=> a \in effects'
    BY <1>2, BoundsAssumption DEF Told, TypeInv, TypeOK
  <2>1. ASSUME NEW s \in Step, Effects!Grant(s) PROVE RepeatsAreKnown'
    <3> SUFFICES ASSUME NEW a \in Attempt
                 PROVE  /\ a[2] < count'[a[1]] => Told'[a] \in {"absent", "answered", "withdrawn"}
                        /\ Told'[a] = "absent" => request'[a] \notin Effective
      BY DEF RepeatsAreKnown
    <3>1. /\ count' = [count EXCEPT ![s] = @ + 1] /\ Told' = Told /\ effects' = effects
          /\ count[s] > 0 => Told[<<s, count[s]>>] \in {"absent", "answered", "withdrawn"}
      BY <2>1 DEF Effects!Grant, Effects!Last
    <3>2. a[2] < count'[a[1]] => a[2] < count[a[1]] \/ a = <<s, count[s]>>
      BY <2>t, <3>1
    <3> QED
      BY <1>2, <2>t, <3>1, <3>2 DEF RepeatsAreKnown
  <2>2. ASSUME NEW a \in Attempt, Effects!TakesEffect(a) PROVE RepeatsAreKnown'
    <3>1. Told' = Told /\ count' = count /\ effects' = effects \cup {a} /\ Told[a] # "absent"
      BY <2>2 DEF Effects!TakesEffect
    <3> QED
      BY <1>2, <2>t, <3>1 DEF RepeatsAreKnown
  <2>3. ASSUME NEW a \in Attempt, NEW word, Effects!Tell(a, word) PROVE RepeatsAreKnown'
    <3>1. /\ Told' = [Told EXCEPT ![a] = word] /\ count' = count /\ effects' = effects
          /\ a[2] = count[a[1]] /\ (word = "absent" => a \notin effects)
      BY <2>3 DEF Effects!Tell, Effects!Last
    <3> QED
      BY <1>2, <2>t, <3>1 DEF RepeatsAreKnown
  <2>4. ASSUME NEW a \in Attempt, Effects!Reconcile(a) PROVE RepeatsAreKnown'
    <3>1. /\ Told' = [Told EXCEPT ![a] = "reconciled"] /\ count' = count /\ effects' = effects
          /\ Told[a] = "unknown"
      BY <2>4 DEF Effects!Reconcile
    <3> QED
      BY <1>2, <2>t, <3>1 DEF RepeatsAreKnown
  <2>5. CASE UNCHANGED <<Told, count, effects>>
    BY <1>2, <2>t, <2>5 DEF RepeatsAreKnown
  <2> QED
    BY <1>2, <2>1, <2>2, <2>3, <2>4, <2>5, SameRows DEF Effects!Next, Effects!effectVars,
       Effects!Lapse, Effects!RequestLeaves, Effects!Renew, Effects!OpenOrClose
<1>3. IInv => TypeInv
  BY DEF IInv
<1> QED
  BY <1>1, <1>2, <1>3, Invariance, EffectsStayAuthorised, PTL DEF EffectsKept, Effects!Spec, Spec
=============================================================================
