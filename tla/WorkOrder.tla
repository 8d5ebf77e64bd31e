----------------------------- MODULE WorkOrder -----------------------------
(***************************************************************************)
(* The durable life of ONE work order: its plan revisions, the steps of    *)
(* each revision, the attempts workers make at a step, the tool call each  *)
(* attempt dispatches to a recipient, approvals, acceptance criteria, the  *)
(* pause intent, the detached planner and the detached verifier.           *)
(*                                                                         *)
(* Every action is one database transaction of the code (or one step of a  *)
(* process between two transactions).  Each transaction locks the order    *)
(* row, so transactions of one order are atomic; what interleaves is what  *)
(* the code leaves between them: a worker between claim and settlement, a  *)
(* request travelling to its recipient, a planner or verifier waiting for  *)
(* its model, the housekeeping pass that reads orders without a lock.      *)
(***************************************************************************)
EXTENDS WorkOrderStates, Naturals, FiniteSets

CONSTANTS
  Key,              \* step keys a plan may use
  Plans,            \* the sets of step keys the planner may return
  Deps,             \* Deps[k]: keys step k depends on
  Fenced,           \* keys whose absent receipt proves no effect (E25)
  Gated,            \* keys the recipient answers 423 until approved
  SemCount,         \* required criteria left to the semantic verifier
  MaxAttempts,      \* step.max_attempts
  MaxReplans,       \* budgets.max_replans
  LedgerReplans,    \* replans the shared budget ledger still grants
  PlannerStreak,    \* _MAX_CONSECUTIVE_PLANNER_FALLBACKS
  Outcomes,         \* answers a dispatched call may end with
  Faults,           \* environment faults that may happen
  Owner,            \* operations people may perform
  RevisionBound,    \* model bound: plan revisions
  AttemptBound,     \* model bound: claims of one step
  InstructionBound  \* model bound: owner instructions

AllOutcomes == {"ok", "error", "transient", "gate", "partial",
                "outcome_unknown", "unsettled", "stopped", "dataflow",
                "headless"}
AllFaults == {"crash", "stall", "planner_error", "planner_stop",
              "planner_crash", "verifier_error", "wall_clock"}
AllOwner == {"instruction", "pause", "cancel", "gate", "decide", "verdict",
             "reconcile"}

ASSUME BoundsAssumption ==
  /\ MaxAttempts \in Nat \ {0} /\ MaxReplans \in Nat /\ LedgerReplans \in Nat
  /\ RevisionBound \in Nat \ {0} /\ AttemptBound \in Nat \ {0}
  /\ InstructionBound \in Nat /\ SemCount \in Nat /\ PlannerStreak \in Nat \ {0}
ASSUME PlanAssumption ==
  /\ Plans \subseteq (SUBSET Key) \ {{}} /\ Deps \in [Key -> SUBSET Key]
  /\ Fenced \subseteq Key /\ Gated \subseteq Key
ASSUME EnvironmentAssumption ==
  /\ Outcomes \subseteq AllOutcomes /\ Faults \subseteq AllFaults
  /\ Owner \subseteq AllOwner

Revision == 1..RevisionBound
\* A step row: key k of plan revision r.
Step == Revision \X Key
\* An attempt row: attempt number n of a step.  Each makes one tool call.
Attempt == Step \X (1..AttemptBound)
\* Acceptance criteria: 0 is the deterministic nonempty_result criterion,
\* 1..SemCount are required semantic ones, in criterion_key order.
Criterion == 0..SemCount

VARIABLES
  \* the work_orders row
  status, rev, blocker, pause, instructions, streak,
  charged,          \* revisions whose replan the shared ledger charged
  \* work_steps rows
  step, count, lease,
  \* work_step_attempts, work_tool_calls and approvals rows
  attempt, call, approval,
  \* work_acceptance_criteria rows; the step whose output was judged last
  criterion, judged,
  \* processes: executor per attempt, request at the recipient, planner
  \* snapshots in flight and those that ever crossed the once-fence, verifier
  \* snapshot, the housekeeping pass's unlocked candidate read
  worker, request, planner, crossed, verifier, candidate

orderVars == <<status, rev, blocker, pause, instructions, streak, charged>>
stepVars  == <<step, count, lease>>
rowVars   == <<attempt, call, approval>>
checkVars == <<criterion, judged>>
execVars  == <<worker, request>>
planVars  == <<planner, crossed>>
taskVars  == <<planVars, verifier, candidate>>
vars == <<orderVars, stepVars, rowVars, checkVars, execVars, taskVars>>

-----------------------------------------------------------------------------
(* Domains.                                                                *)

Blocker == {"none", "awaiting_verdict", "failure"}
\* metadata.pause: absent, requested, or acknowledged with previous_status.
Pause == {"none", "requested"} \cup PAUSE_ACK_STATUSES
Lease == {"none", "live", "expired"}
WorkerPhase == {"idle", "claimed", "prepared", "started", "sent", "inactive",
                "dead", "done"} \cup AllOutcomes
RequestState == {"none", "pending", "refused", "committed", "unrecorded"}
\* It took effect: with its receipt, or outside the fence and without one.
Effective == {"committed", "unrecorded"}
Approval == {"none", "pending", "approved", "rejected", "expired"}

\* The planner's authority digest: what create_work_plan must still find.
Authority ==
  <<status, rev, blocker, pause, instructions, streak,
    {s \in Step : step[s] = "succeeded"},
    {a \in Attempt : call[a] = "reconciled_happened"}>>
AuthoritySet ==
  WorkStatus \X (0..RevisionBound) \X Blocker \X Pause \X
  (0..InstructionBound) \X (0..PlannerStreak) \X (SUBSET Step) \X
  (SUBSET Attempt)

NoStep == <<>>   \* no step was judged yet
\* The verifier's values besides the plan revision it read.
Idle == 0
Due  == RevisionBound + 1

TypeOK ==
  /\ status \in WorkStatus /\ rev \in 0..RevisionBound
  /\ blocker \in Blocker /\ pause \in Pause
  /\ instructions \in 0..InstructionBound /\ streak \in 0..PlannerStreak
  /\ charged \subseteq Nat
  /\ step \in [Step -> StepState] /\ count \in [Step -> 0..AttemptBound]
  /\ lease \in [Step -> Lease]
  /\ attempt \in [Attempt -> AttemptStatus]
  /\ call \in [Attempt -> CallStatus]
  /\ approval \in [Step -> Approval]
  /\ criterion \in [Criterion -> {"pending", "passed", "failed"}]
  /\ judged \in Step \cup {NoStep}
  /\ worker \in [Attempt -> WorkerPhase]
  /\ request \in [Attempt -> RequestState]
  /\ planner \subseteq AuthoritySet /\ crossed \subseteq AuthoritySet
  /\ verifier \in 0..(RevisionBound + 1)
  /\ candidate \in BOOLEAN

Init ==
  /\ status = "received" /\ rev = 0 /\ blocker = "none" /\ pause = "none"
  /\ instructions = 0 /\ streak = 0 /\ charged = {}
  /\ step = [s \in Step |-> "absent"] /\ count = [s \in Step |-> 0]
  /\ lease = [s \in Step |-> "none"]
  /\ attempt = [a \in Attempt |-> "none"] /\ call = [a \in Attempt |-> "none"]
  /\ approval = [s \in Step |-> "none"]
  /\ criterion = [c \in Criterion |-> "pending"] /\ judged = NoStep
  /\ worker = [a \in Attempt |-> "idle"]
  /\ request = [a \in Attempt |-> "none"]
  /\ planner = {} /\ crossed = {} /\ verifier = Idle /\ candidate = FALSE

-----------------------------------------------------------------------------
(* What the handlers share.                                                *)

\* Variant: a status table that is not asked.
CanMoveAnywhere(t) == t \in WorkStatus

\* transition_work_order(target) does not raise.
CanMove(t) == t = status \/ t \in WORK_TRANSITIONS[status]

\* Variant: a planner that does not wait for executing steps.
ExecutingIgnored == {}

PlanSteps == {s \in Step : s[1] = rev /\ step[s] # "absent"}
Executing == {s \in Step : step[s] = "running"}
Unresolved(calls) == {a \in Attempt : calls[a] \in UNRESOLVED_EFFECT_STATUSES}
Current(s) == <<s, count[s]>>
NextAttempt(s) == <<s, count[s] + 1>>
Granted(s) == s[2] \notin Gated \/ approval[s] = "approved"

\* Variant: the worker's name alone as the fence.
OwnsLeaseByStep(a) == step[a[1]] = "running" /\ lease[a[1]] = "live"

\* attempt_owns_lease: state, attempt number, owner and expiry together.
OwnsLease(a) ==
  /\ step[a[1]] = "running"
  /\ attempt[a] = "running"
  /\ a[2] = count[a[1]]
  /\ lease[a[1]] = "live"

\* Variants: the unresolved-effect check dropped; the ledger not asked.
FailureTargetBlind(calls) == IF rev > MaxReplans THEN "blocked" ELSE "replanning"
CanChargeAlways == TRUE

\* _replan_or_block: the status a failed order moves to.
FailureTarget(calls) ==
  IF Unresolved(calls) # {} \/ rev > MaxReplans THEN "blocked" ELSE "replanning"
CanCharge == rev \in charged \/ Cardinality(charged) < LedgerReplans
FinalTarget(calls) ==
  IF FailureTarget(calls) = "replanning" /\ CanCharge
  THEN "replanning" ELSE "blocked"

\* An unguarded caller raises on an illegal move, and then nothing commits.
ReplanOrBlock(calls) ==
  /\ CanMove(FinalTarget(calls))
  /\ status' = FinalTarget(calls)
  /\ charged' = IF FinalTarget(calls) = "replanning"
                THEN charged \cup {rev} ELSE charged

\* A guarded caller skips it: the blocker is recorded, the status stays.
ReplanOrBlockGuarded(calls) ==
  IF {FailureTarget(calls), FinalTarget(calls)} \subseteq WORK_TRANSITIONS[status]
  THEN ReplanOrBlock(calls)
  ELSE UNCHANGED <<status, charged>>

\* fail_attempt, for the attempt a that still owns its lease; the caller
\* settles the call row.  Three branches: an order already replanning is left
\* alone; a retryable failure with attempts left waits for a retry; any other
\* fails the step and the order replans or blocks.
Retries(a, retryable) == retryable /\ count[a[1]] < MaxAttempts
FailAttempt(a, retryable) ==
  LET s == a[1] IN
  /\ attempt' = [attempt EXCEPT ![a] = "failed"]
  /\ lease' = [lease EXCEPT ![s] = "none"]
  /\ \/ /\ status = "replanning"
        /\ step' = [step EXCEPT ![s] = "failed"]
        /\ UNCHANGED <<status, blocker, charged>>
     \/ /\ status # "replanning" /\ Retries(a, retryable)
        /\ CanMove("ready")
        /\ step' = [step EXCEPT ![s] = "retry_wait"]
        /\ status' = "ready"
        /\ UNCHANGED <<blocker, charged>>
     \/ /\ status # "replanning" /\ ~Retries(a, retryable)
        /\ step' = [step EXCEPT ![s] = "failed"]
        /\ blocker' = "failure"
        /\ ReplanOrBlock(call)
\* The same transaction raises WorkStateError and is rolled back.
FailAttemptRaises(a, retryable) ==
  /\ status # "replanning"
  /\ ~CanMove(IF Retries(a, retryable) THEN "ready" ELSE FinalTarget(call))

-----------------------------------------------------------------------------
(* Executors.  A worker claims a step, prepares and starts its tool call,  *)
(* sends it, receives an answer and settles it; each is its own            *)
(* transaction, and each re-checks that the attempt still owns its lease.  *)

\* claim_ready_step: order, plan and step rows are locked together.
ClaimReadyStep(s) ==
  LET a == NextAttempt(s) IN
  /\ s[1] = rev /\ step[s] \in {"ready", "retry_wait"}
  /\ status \in {"ready", "running"} /\ pause = "none"
  /\ lease[s] # "live" /\ count[s] < AttemptBound
  /\ status' = "running"
  /\ step' = [step EXCEPT ![s] = "running"]
  /\ lease' = [lease EXCEPT ![s] = "live"]
  /\ count' = [count EXCEPT ![s] = @ + 1]
  /\ attempt' = [attempt EXCEPT ![a] = "running"]
  /\ worker' = [worker EXCEPT ![a] = "claimed"]
  /\ UNCHANGED <<rev, blocker, pause, instructions, streak, charged, call,
                 approval, checkVars, request, taskVars>>

\* _execute_claimed_step, first transaction: journal the call before it is
\* made.  A lost lease or an order no longer running ends the worker here.
PrepareCall(a) ==
  /\ worker[a] = "claimed"
  /\ IF status = "running" /\ OwnsLease(a) /\ call[a] = "none"
     THEN /\ call' = [call EXCEPT ![a] = "prepared"]
          /\ worker' = [worker EXCEPT ![a] = "prepared"]
     ELSE /\ worker' = [worker EXCEPT ![a] = "done"]
          /\ UNCHANGED call
  /\ UNCHANGED <<orderVars, stepVars, attempt, approval, checkVars, request,
                 taskVars>>

\* The same transaction when the step's input cannot be resolved.
PrepareDataflowError(a) ==
  /\ "dataflow" \in Outcomes
  /\ worker[a] = "claimed"
  /\ status = "running" /\ OwnsLease(a) /\ call[a] = "none"
  /\ FailAttempt(a, FALSE)
  /\ worker' = [worker EXCEPT ![a] = "done"]
  /\ UNCHANGED <<rev, pause, instructions, streak, count, call, approval,
                 checkVars, request, taskVars>>

\* The same transaction when the step is an agent turn outside durable chat:
\* a kind that may not run at all.  Its lease is not cleared.
PrepareHeadless(a) ==
  /\ "headless" \in Outcomes
  /\ worker[a] = "claimed"
  /\ status = "running" /\ OwnsLease(a) /\ call[a] = "none"
  /\ attempt' = [attempt EXCEPT ![a] = "failed"]
  /\ step' = [step EXCEPT ![a[1]] = "failed"]
  /\ status' = "blocked" /\ blocker' = "failure"
  /\ worker' = [worker EXCEPT ![a] = "done"]
  /\ UNCHANGED <<rev, pause, instructions, streak, charged, count, lease, call,
                 approval, checkVars, request, taskVars>>

\* Second transaction: the call is marked running.
StartCall(a) ==
  /\ worker[a] = "prepared"
  /\ IF status = "running" /\ OwnsLease(a)
     THEN /\ call' = [call EXCEPT ![a] = "running"]
          /\ worker' = [worker EXCEPT ![a] = "started"]
     ELSE /\ worker' = [worker EXCEPT ![a] = "done"]
          /\ UNCHANGED call
  /\ UNCHANGED <<orderVars, stepVars, attempt, approval, checkVars, request,
                 taskVars>>

\* prepare_tool_attempt re-checks the lease (_active_ledger), then the request
\* leaves.  Otherwise BudgetExecutionStopped, before anything was reserved.
SendCall(a) ==
  /\ worker[a] = "started"
  /\ IF status = "running" /\ OwnsLease(a)
     THEN /\ worker' = [worker EXCEPT ![a] = "sent"]
          /\ request' = [request EXCEPT ![a] = "pending"]
     ELSE /\ worker' = [worker EXCEPT ![a] = "inactive"]
          /\ UNCHANGED request
  /\ UNCHANGED <<orderVars, stepVars, rowVars, checkVars, taskVars>>

\* The budget ledger refuses, or the lease is lost after the reservation.
StopBeforeSend(a) ==
  /\ "stopped" \in Outcomes /\ worker[a] = "started"
  /\ worker' = [worker EXCEPT ![a] = "stopped"]
  /\ UNCHANGED <<orderVars, stepVars, rowVars, checkVars, request, taskVars>>

\* Variant: a fence that checks the order and not the attempt.
FenceAdmitsOrder(a) == status \in {"running", "replanning"} /\ a[1][1] = rev

\* The recipient acts.  Behind the effect fence (_check_and_record) only the
\* attempt that still owns its lease, in the active plan of a live order,
\* commits, and its receipt with it.  What an unfenced operation does outside
\* the database is not held back; its commit may follow it.
FenceAdmits(a) ==
  /\ status \in {"running", "replanning"}
  /\ a[1][1] = rev
  /\ OwnsLease(a)
CommitEffect(a) ==
  /\ Granted(a[1])
  /\ \/ /\ request[a] = "pending" \/ (request[a] = "unrecorded" /\ worker[a] # "ok")
        /\ FenceAdmits(a)
        /\ request' = [request EXCEPT ![a] = "committed"]
     \/ /\ request[a] = "pending" /\ a[1][2] \in Fenced /\ ~FenceAdmits(a)
        /\ request' = [request EXCEPT ![a] = "refused"]
     \/ /\ request[a] = "pending" /\ a[1][2] \notin Fenced
        /\ request' = [request EXCEPT ![a] = "unrecorded"]
  /\ UNCHANGED <<orderVars, stepVars, rowVars, checkVars, worker, taskVars>>

\* What _execute_capability makes of the HTTP answer.  A 5xx, or the
\* gateway's 502 while the recipient may still be working, is "transient"
\* (with or without a checkpoint); a 4xx or an HTTP timeout is "error"; 423
\* is "gate"; "unsettled" is any of them whose budget charge fails.
Answer(a, o) ==
  /\ worker[a] = "sent" /\ o \in Outcomes
  /\ \/ o = "ok" /\ request[a] \in Effective /\ UNCHANGED request
     \/ o = "gate" /\ request[a] = "pending" /\ ~Granted(a[1])
        /\ request' = [request EXCEPT ![a] = "refused"]
     \/ o \in {"error", "unsettled"} /\ UNCHANGED request
     \/ o \in {"transient", "partial", "outcome_unknown"}
        /\ request[a] # "refused" /\ UNCHANGED request
  /\ worker' = [worker EXCEPT ![a] = o]
  /\ UNCHANGED <<orderVars, stepVars, rowVars, checkVars, taskVars>>

\* Settlement of a step that was answered: complete_attempt does not look at
\* the order's status, so work done under a canceled order is still recorded.
SettleSuccess(a) ==
  /\ worker[a] = "ok" /\ OwnsLease(a)
  /\ attempt' = [attempt EXCEPT ![a] = "succeeded"]
  /\ call' = [call EXCEPT ![a] = "succeeded"]
  /\ step' = [step EXCEPT ![a[1]] = "succeeded"]
  /\ lease' = [lease EXCEPT ![a[1]] = "none"]
  /\ worker' = [worker EXCEPT ![a] = "done"]
  /\ UNCHANGED <<orderVars, count, approval, checkVars, request, taskVars>>

\* Transient and terminal failures: fail_attempt, and the call "failed".
SettleFailure(a) ==
  /\ worker[a] \in {"transient", "error"} /\ OwnsLease(a)
  /\ FailAttempt(a, worker[a] = "transient")
  /\ call' = [call EXCEPT ![a] = "failed"]
  /\ worker' = [worker EXCEPT ![a] = "done"]
  /\ UNCHANGED <<rev, pause, instructions, streak, count, approval,
                 checkVars, request, taskVars>>

\* 423: an approval is stored with the exact arguments.  The step's lease is
\* not cleared: it runs out on its own.
SettleApprovalRequired(a) ==
  /\ worker[a] = "gate" /\ OwnsLease(a) /\ CanMove("waiting_approval")
  /\ attempt' = [attempt EXCEPT ![a] = "waiting_approval"]
  /\ call' = [call EXCEPT ![a] = "waiting_approval"]
  /\ step' = [step EXCEPT ![a[1]] = "waiting_approval"]
  /\ approval' = [approval EXCEPT ![a[1]] = "pending"]
  /\ status' = "waiting_approval"
  /\ worker' = [worker EXCEPT ![a] = "done"]
  /\ UNCHANGED <<rev, blocker, pause, instructions, streak, charged, count,
                 lease, checkVars, request, taskVars>>

\* stop_attempt_for_nonterminal_tool_result.
SettleNonterminal(a) ==
  /\ worker[a] \in UNRESOLVED_EFFECT_STATUSES /\ OwnsLease(a)
  /\ CanMove("blocked")
  /\ attempt' = [attempt EXCEPT ![a] = worker[a]]
  /\ call' = [call EXCEPT ![a] = worker[a]]
  /\ step' = [step EXCEPT ![a[1]] = "failed"]
  /\ lease' = [lease EXCEPT ![a[1]] = "none"]
  /\ status' = "blocked" /\ blocker' = "failure"
  /\ worker' = [worker EXCEPT ![a] = "done"]
  /\ UNCHANGED <<rev, pause, instructions, streak, charged, count, approval,
                 checkVars, request, taskVars>>

\* BudgetExecutionStopped.  A sibling preempted before it reserved anything
\* fails only its step; otherwise the order is blocked.  After the dispatch
\* the outcome is unknown unless some answer was received.
Preempted(a) == worker[a] = "inactive" /\ status # "running"
SettleBudgetStop(a) ==
  /\ worker[a] \in {"inactive", "stopped", "unsettled"} /\ OwnsLease(a)
  /\ attempt' = [attempt EXCEPT ![a] = "failed"]
  /\ \/ call' = [call EXCEPT ![a] = "failed"]
     \/ worker[a] = "unsettled" /\ call' = [call EXCEPT ![a] = "outcome_unknown"]
  /\ step' = [step EXCEPT ![a[1]] = "failed"]
  /\ lease' = [lease EXCEPT ![a[1]] = "none"]
  /\ \/ Preempted(a) /\ UNCHANGED <<status, blocker>>
     \/ /\ ~Preempted(a) /\ CanMove("blocked")
        /\ status' = "blocked" /\ blocker' = "failure"
  /\ worker' = [worker EXCEPT ![a] = "done"]
  /\ UNCHANGED <<rev, pause, instructions, streak, charged, count, approval,
                 checkVars, request, taskVars>>

\* The settlement finds its lease gone, or raises and rolls back: the worker
\* ends and nothing is written; the lease expires and reclaim takes over.
SettlementRaises(a) ==
  \/ worker[a] \in {"transient", "error"}
     /\ FailAttemptRaises(a, worker[a] = "transient")
  \/ worker[a] = "gate" /\ ~CanMove("waiting_approval")
  \/ worker[a] \in UNRESOLVED_EFFECT_STATUSES /\ ~CanMove("blocked")
  \/ worker[a] \in {"inactive", "stopped", "unsettled"}
     /\ ~Preempted(a) /\ ~CanMove("blocked")
SettleNothing(a) ==
  /\ worker[a] \in AllOutcomes \cup {"inactive"}
  /\ ~OwnsLease(a) \/ SettlementRaises(a)
  /\ worker' = [worker EXCEPT ![a] = "done"]
  /\ UNCHANGED <<orderVars, stepVars, rowVars, checkVars, request, taskVars>>

\* The worker process is killed at any point before it settles.
Crash(a) ==
  /\ "crash" \in Faults
  /\ worker[a] \notin {"idle", "dead", "done"}
  /\ worker' = [worker EXCEPT ![a] = "dead"]
  /\ UNCHANGED <<orderVars, stepVars, rowVars, checkVars, request, taskVars>>

Execute(a) ==
  \/ PrepareCall(a) \/ PrepareDataflowError(a) \/ PrepareHeadless(a)
  \/ StartCall(a) \/ SendCall(a) \/ StopBeforeSend(a) \/ (\E o \in AllOutcomes : Answer(a, o))
  \/ SettleSuccess(a) \/ SettleFailure(a) \/ SettleApprovalRequired(a)
  \/ SettleNonterminal(a) \/ SettleBudgetStop(a) \/ SettleNothing(a)

-----------------------------------------------------------------------------
(* Housekeeping of the 5 s dispatch tick (_dispatch_ready_work).           *)

\* Time passes.  The heartbeat keeps a live worker's lease unless the worker
\* stalls; a worker that is gone, or a step that left "running", has none.
ExpireLease(s) ==
  /\ lease[s] = "live"
  /\ \/ "stall" \in Faults
     \/ step[s] # "running"
     \/ worker[Current(s)] \in {"dead", "done"}
  /\ lease' = [lease EXCEPT ![s] = "expired"]
  /\ UNCHANGED <<orderVars, step, count, rowVars, checkVars, execVars, taskVars>>

\* Variants: the call of a dead worker stays as it left it; its receipt is
\* not read.
AbandonedCallOpen(a) == call[a]
AbandonedCallBlind(a) ==
  IF call[a] \notin {"prepared", "running"} THEN call[a]
  ELSE IF a[1][2] \in Fenced THEN "failed" ELSE "outcome_unknown"

\* _settle_abandoned_calls: what is known of the abandoned attempt's call.
AbandonedCall(a) ==
  IF call[a] \notin {"prepared", "running"} THEN call[a]
  ELSE IF request[a] = "committed" THEN "reconciled_happened"
  ELSE IF a[1][2] \in Fenced THEN "failed" ELSE "outcome_unknown"

\* reclaim_expired_leases.  An attempt with an effect on record, or one that
\* may exist, fails the step; otherwise the step is retried while attempts
\* are left.  The order is moved only where the table allows it.
ReclaimExpiredLease(s) ==
  LET a == Current(s)
      settled == /\ call[a] \in {"prepared", "running"}
                 /\ AbandonedCall(a) \in {"reconciled_happened",
                                          "outcome_unknown"} IN
  /\ step[s] = "running" /\ lease[s] = "expired"
  /\ attempt' = [attempt EXCEPT ![a] = "abandoned"]
  /\ lease' = [lease EXCEPT ![s] = "none"]
  /\ call' = [call EXCEPT ![a] = AbandonedCall(a)]
  /\ \/ /\ settled \/ count[s] >= MaxAttempts
        /\ step' = [step EXCEPT ![s] = "failed"]
        /\ blocker' = "failure"
        /\ ReplanOrBlockGuarded(call')
     \/ /\ ~settled /\ count[s] < MaxAttempts
        /\ step' = [step EXCEPT ![s] = "retry_wait"]
        /\ status' = IF "ready" \in WORK_TRANSITIONS[status] THEN "ready"
                                                            ELSE status
        /\ UNCHANGED <<blocker, charged>>
  /\ UNCHANGED <<rev, pause, instructions, streak, count, approval, checkVars,
                 execVars, taskVars>>

\* enforce_budgets reads its candidates without a lock, decides, and writes
\* the row it read: whatever was committed in between is overwritten.
EnforceBudgetsRead ==
  /\ "wall_clock" \in Faults /\ ~candidate
  /\ status \in {"ready", "running"}
  /\ candidate' = TRUE
  /\ UNCHANGED <<orderVars, stepVars, rowVars, checkVars, execVars, planVars,
                 verifier>>
EnforceBudgetsWrite ==
  /\ candidate
  /\ candidate' = FALSE
  /\ status' = "blocked" /\ blocker' = "failure"
  /\ UNCHANGED <<rev, pause, instructions, streak, charged, stepVars, rowVars,
                 checkVars, execVars, planVars, verifier>>

\* Variants: a pause acknowledged from any status, or while a step executes.
PauseIsSafeAnywhere == status \notin TERMINAL_WORK_STATUSES /\ Executing = {}
PauseIsSafeEarly == status \in PAUSE_ACK_STATUSES

\* acknowledge_pause_if_safe, from the tick.
PauseIsSafe == status \in PAUSE_ACK_STATUSES /\ Executing = {}
AcknowledgePause ==
  /\ pause # "none" /\ PauseIsSafe
  /\ status' = "paused" /\ pause' = status
  /\ UNCHANGED <<rev, blocker, instructions, streak, charged, stepVars, rowVars,
                 checkVars, execVars, taskVars>>

\* unstick_ready_orders_with_stalled_active_plan.
Unstick ==
  /\ status = "ready"
  /\ \A s \in PlanSteps : step[s] \in {"succeeded", "failed", "canceled"}
  /\ \E s \in PlanSteps : step[s] = "succeeded"
  /\ status' = "running"
  /\ UNCHANGED <<rev, blocker, pause, instructions, streak, charged, stepVars,
                 rowVars, checkVars, execVars, taskVars>>

-----------------------------------------------------------------------------
(* Verification.                                                           *)

\* The present keys a step of revision r depends on.
DepsOf(s) == {<<s[1], k>> : k \in {d \in Deps[s[2]] : step[<<s[1], d>>] # "absent"}}

\* Variants: dependents released too early; never released.
PromotedEarly ==
  [s \in Step |-> IF s \in PlanSteps /\ step[s] = "pending" THEN "ready" ELSE step[s]]
PromotedNever == step

\* promote_ready_dependents: the steps after it released what may start.
Promoted ==
  [s \in Step |->
     IF /\ s \in PlanSteps /\ step[s] = "pending"
        /\ \A d \in DepsOf(s) : step[d] = "succeeded"
     THEN "ready" ELSE step[s]]

\* verify_completed_step of a plan that is still unfinished.
PromoteDependents(s) ==
  /\ step[s] = "succeeded" /\ s[1] = rev /\ status \in {"ready", "running"}
  /\ \E t \in PlanSteps : Promoted[t] # "succeeded"
  /\ step' = Promoted
  /\ status' = IF \E t \in PlanSteps : step[t] \in {"running", "waiting_approval"}
               THEN "running" ELSE "ready"
  /\ UNCHANGED <<rev, blocker, pause, instructions, streak, charged, count,
                 lease, rowVars, checkVars, execVars, taskVars>>

\* verify_completed_step of a finished plan: verify_nonempty_result judges the
\* output of the step it was called for.  "verifying" is never committed.
VerifyResult(s, ok) ==
  /\ step[s] = "succeeded" /\ s[1] = rev /\ status \in {"ready", "running"}
  /\ \A t \in PlanSteps : step[t] = "succeeded"
  /\ judged' = s
  /\ criterion' = [c \in Criterion |->
       IF c = 0 THEN (IF ok THEN "passed" ELSE "failed") ELSE "pending"]
  /\ \/ /\ SemCount > 0
        /\ status' = "blocked" /\ blocker' = "awaiting_verdict"
        /\ verifier' = Due
        /\ UNCHANGED charged
     \/ /\ SemCount = 0 /\ ok
        /\ status' = "completed"
        /\ UNCHANGED <<blocker, charged, verifier>>
     \/ /\ SemCount = 0 /\ ~ok
        /\ blocker' = "failure" /\ status' = FinalTarget(call)
        /\ charged' = IF FinalTarget(call) = "replanning"
                      THEN charged \cup {rev} ELSE charged
        /\ UNCHANGED verifier
  /\ UNCHANGED <<rev, pause, instructions, streak, stepVars, rowVars, execVars,
                 planVars, candidate>>

\* Variant: an accepted verdict completes the order whatever else is open.
WholeUnchecked(crit) == \A s \in PlanSteps : step[s] = "succeeded"
\* assert_completion_allowed, and no unfinished step in the active plan.
Whole(crit) ==
  /\ \A c \in Criterion : crit[c] = "passed"
  /\ \A s \in PlanSteps : step[s] = "succeeded"

\* _read_verifier_snapshot finds the result that waits for its verdicts.
AwaitsVerifier ==
  /\ status = "blocked" /\ blocker = "awaiting_verdict"
  /\ \A c \in 1..SemCount : criterion[c] = "pending"

VerifierRead ==
  /\ verifier = Due
  /\ verifier' = IF AwaitsVerifier THEN rev ELSE Idle
  /\ UNCHANGED <<orderVars, stepVars, rowVars, checkVars, execVars, planVars,
                 candidate>>

VerifierStale ==
  /\ verifier \in Revision /\ ~(verifier = rev /\ AwaitsVerifier)
  /\ verifier' = Idle
  /\ UNCHANGED <<orderVars, stepVars, rowVars, checkVars, execVars, planVars,
                 candidate>>

\* verify_semantic_criteria records its verdicts one by one in criterion
\* order, in one transaction.  V are the accepted criteria.
VerifierRecord(V) ==
  LET Rejected == (1..SemCount) \ V
      first == CHOOSE c \in Rejected : \A d \in Rejected : c <= d
      Replans == FinalTarget(call) = "replanning" IN
  /\ verifier \in Revision /\ verifier = rev /\ AwaitsVerifier
  /\ verifier' = Idle
  /\ \/ /\ Rejected = {}
        /\ criterion' = [c \in Criterion |-> IF c \in V THEN "passed" ELSE criterion[c]]
        /\ \/ Whole(criterion') /\ status' = "completed" /\ blocker' = "none"
           \/ ~Whole(criterion') /\ UNCHANGED <<status, blocker>>
        /\ UNCHANGED charged
        \* The first rejection replans; the order then refuses the verdicts
        \* that follow, and the whole transaction is rolled back.
     \/ /\ Rejected # {} /\ Replans /\ first < SemCount
        /\ UNCHANGED <<criterion, status, blocker, charged>>
     \/ /\ Rejected # {} /\ ~(Replans /\ first < SemCount)
        /\ criterion' = [c \in Criterion |->
             IF c = 0 THEN criterion[0]
             ELSE IF c \in V THEN "passed" ELSE "failed"]
        /\ blocker' = "failure"
        /\ ReplanOrBlockGuarded(call)
  /\ UNCHANGED <<rev, pause, instructions, streak, judged, stepVars, rowVars,
                 execVars, planVars, candidate>>

\* The verifier's provider fails (_persist_verifier_stop), or its process dies.
VerifierStop ==
  /\ "verifier_error" \in Faults
  /\ verifier \in Revision /\ verifier = rev /\ AwaitsVerifier
  /\ verifier' = Idle /\ blocker' \in {"failure", blocker}
  /\ UNCHANGED <<status, rev, pause, instructions, streak, charged, stepVars,
                 rowVars, checkVars, execVars, planVars, candidate>>

\* record_verifier_verdict by a manager, on any pending criterion.
ManagerVerdict(c, ok) ==
  /\ "verdict" \in Owner
  /\ status = "blocked" /\ criterion[c] = "pending"
  /\ criterion' = [criterion EXCEPT ![c] = IF ok THEN "passed" ELSE "failed"]
  /\ \/ /\ ~ok /\ blocker' = "failure" /\ ReplanOrBlockGuarded(call)
     \/ /\ ok /\ UNCHANGED charged
        /\ \/ Whole(criterion') /\ status' = "completed" /\ blocker' = "none"
           \/ ~Whole(criterion') /\ UNCHANGED <<status, blocker>>
  /\ UNCHANGED <<rev, pause, instructions, streak, judged, stepVars, rowVars,
                 execVars, taskVars>>

-----------------------------------------------------------------------------
(* The detached planner (work_planning.py): it reads the order, waits for its *)
(* model without a transaction, and applies the plan only if what it read  *)
(* still holds.                                                            *)

\* The snapshot crosses the once-fence (_claim_once) when its request leaves:
\* the same authority digest is never dispatched again.
PlannerDispatch ==
  /\ status \in PLANNABLE_STATUSES /\ Executing = {}
  /\ Authority \notin crossed
  /\ planner' = planner \cup {Authority}
  /\ crossed' = crossed \cup {Authority}
  /\ UNCHANGED <<orderVars, stepVars, rowVars, checkVars, execVars, verifier,
                 candidate>>

PlannerCurrent(p) == p = Authority /\ status \in PLANNABLE_STATUSES /\ Executing = {}
PlannerReturns(p) ==
  /\ p \in planner /\ planner' = planner \ {p} /\ UNCHANGED crossed

PlannerStale(p) ==
  /\ PlannerReturns(p) /\ ~PlannerCurrent(p)
  /\ UNCHANGED <<orderVars, stepVars, rowVars, checkVars, execVars, verifier,
                 candidate>>

\* Variant: steps that wait for an approval survive their plan.
RetiredQueued == {s \in PlanSteps : step[s] \in {"pending", "ready", "retry_wait"}}

\* create_work_plan with step keys K: unfinished steps of the superseded plan
\* are retired and their pending approvals expire.
Retired == {s \in PlanSteps : step[s] \in RETIRABLE_STEP_STATES}
PlannerApply(p, K) ==
  /\ PlannerReturns(p) /\ PlannerCurrent(p) /\ rev < RevisionBound
  /\ rev' = rev + 1
  /\ step' = [s \in Step |->
       IF s \in Retired THEN "canceled"
       ELSE IF s[1] = rev + 1 /\ s[2] \in K
            THEN (IF Deps[s[2]] \cap K = {} THEN "ready" ELSE "pending")
            ELSE step[s]]
  /\ approval' = [s \in Step |->
       IF s \in Retired /\ approval[s] = "pending" THEN "expired" ELSE approval[s]]
  /\ lease' = [s \in Step |-> IF s \in Retired THEN "none" ELSE lease[s]]
  /\ status' = "ready" /\ blocker' = "none" /\ streak' = 0
  /\ UNCHANGED <<pause, instructions, charged, count, attempt, call,
                 checkVars, execVars, verifier, candidate>>

\* _persist_planner_failure: the streak backstop blocks the order.
PlannerFails(p) ==
  /\ "planner_error" \in Faults /\ PlannerReturns(p) /\ PlannerCurrent(p)
  /\ streak < PlannerStreak
  /\ streak' = streak + 1
  /\ \/ /\ streak' = PlannerStreak
        /\ status' = "blocked" /\ blocker' = "failure"
     \/ streak' < PlannerStreak /\ UNCHANGED <<status, blocker>>
  /\ UNCHANGED <<rev, pause, instructions, charged, stepVars, rowVars,
                 checkVars, execVars, verifier, candidate>>

\* _persist_planner_stop: the shared budget forbids the provider call.
PlannerStops(p) ==
  /\ "planner_stop" \in Faults /\ PlannerReturns(p) /\ PlannerCurrent(p)
  /\ status' = "blocked" /\ blocker' = "failure"
  /\ UNCHANGED <<rev, pause, instructions, streak, charged, stepVars, rowVars,
                 checkVars, execVars, verifier, candidate>>

\* The planner's process dies while it waits for the model.
PlannerCrash(p) ==
  /\ "planner_crash" \in Faults /\ PlannerReturns(p)
  /\ UNCHANGED <<orderVars, stepVars, rowVars, checkVars, execVars, verifier,
                 candidate>>

-----------------------------------------------------------------------------
(* What people do (api/work_orders.py, api/approvals.py).                  *)

\* add_instruction: refused while an effect's outcome is unknown, and where
\* the move to replanning is not legal (the transition raises).
AddInstruction ==
  /\ "instruction" \in Owner /\ instructions < InstructionBound
  /\ status \notin {"completed", "canceled"} /\ Unresolved(call) = {}
  /\ instructions' = instructions + 1
  /\ \/ status \in {"blocked", "failed"} /\ status' = "planning"
     \/ /\ status \notin TERMINAL_WORK_STATUSES /\ CanMove("replanning")
        /\ status' = "replanning"
  /\ UNCHANGED <<rev, blocker, pause, streak, charged, stepVars, rowVars,
                 checkVars, execVars, taskVars>>

\* request_pause, acknowledged at once when nothing executes.
RequestPause ==
  /\ "pause" \in Owner /\ pause = "none"
  /\ status \notin TERMINAL_WORK_STATUSES \cup {"paused"}
  /\ \/ PauseIsSafe /\ status' = "paused" /\ pause' = status
     \/ ~PauseIsSafe /\ pause' = "requested" /\ UNCHANGED status
  /\ UNCHANGED <<rev, blocker, instructions, streak, charged, stepVars, rowVars,
                 checkVars, execVars, taskVars>>

\* resume_paused: resume, or withdraw a request not acknowledged yet.
Unpause ==
  /\ pause # "none" /\ pause' = "none"
  /\ \/ status = "paused" /\ status' = RESUME_TARGET[pause]
     \/ status # "paused" /\ UNCHANGED status
  /\ UNCHANGED <<rev, blocker, instructions, streak, charged, stepVars, rowVars,
                 checkVars, execVars, taskVars>>

\* cancel_order and cancel_work_order: a running step is not torn down.
CancelOrder ==
  /\ "cancel" \in Owner /\ status \notin TERMINAL_WORK_STATUSES
  /\ status' = "canceled"
  /\ step' = [s \in Step |-> IF step[s] \in RETIRABLE_STEP_STATES
                             THEN "canceled" ELSE step[s]]
  /\ lease' = [s \in Step |-> IF step[s] \in RETIRABLE_STEP_STATES
                              THEN "none" ELSE lease[s]]
  /\ UNCHANGED <<rev, blocker, pause, instructions, streak, charged, count,
                 rowVars, checkVars, execVars, taskVars>>

\* request_work_approval.  It touches neither attempt, lease nor call.  (Model
\* bound: a step is gated by its owner only while no approval of it exists.)
OwnerGate(s) ==
  /\ "gate" \in Owner /\ approval[s] = "none"
  /\ status \in {"ready", "running"} /\ step[s] \in {"ready", "running"}
  /\ step' = [step EXCEPT ![s] = "waiting_approval"]
  /\ approval' = [approval EXCEPT ![s] = "pending"]
  /\ status' = "waiting_approval"
  /\ UNCHANGED <<rev, blocker, pause, instructions, streak, charged, count,
                 lease, attempt, call, checkVars, execVars, taskVars>>

\* apply_approval_decision: 409 unless order and step both wait.
Decide(s, approved) ==
  /\ "decide" \in Owner /\ approval[s] = "pending"
  /\ status = "waiting_approval" /\ step[s] = "waiting_approval" /\ s[1] = rev
  /\ \/ /\ approved
        /\ approval' = [approval EXCEPT ![s] = "approved"]
        /\ step' = [step EXCEPT ![s] = "ready"]
        /\ status' = "ready" /\ UNCHANGED blocker
     \/ /\ ~approved
        /\ approval' = [approval EXCEPT ![s] = "rejected"]
        /\ step' = [step EXCEPT ![s] = "failed"]
        /\ status' = "blocked" /\ blocker' = "failure"
  /\ lease' = IF approved THEN lease ELSE [lease EXCEPT ![s] = "none"]
  /\ UNCHANGED <<rev, pause, instructions, streak, charged, count, attempt,
                 call, checkVars, execVars, taskVars>>

\* reconcile_tool_call: the owner states whether an unknown effect happened.
Reconcile(a, outcome) ==
  /\ "reconcile" \in Owner /\ call[a] \in UNRESOLVED_EFFECT_STATUSES
  /\ call' = [call EXCEPT ![a] = outcome]
  /\ UNCHANGED <<orderVars, stepVars, attempt, approval, checkVars, execVars,
                 taskVars>>

-----------------------------------------------------------------------------
Plan ==
  \/ PlannerDispatch
  \/ \E p \in planner :
       \/ PlannerStale(p) \/ PlannerFails(p) \/ PlannerStops(p) \/ PlannerCrash(p)
       \/ \E K \in Plans : PlannerApply(p, K)

Tick ==
  \/ \E s \in Step : ReclaimExpiredLease(s)
  \/ EnforceBudgetsRead \/ EnforceBudgetsWrite
  \/ AcknowledgePause \/ Unstick

Verify ==
  \/ \E s \in Step : PromoteDependents(s) \/ \E ok \in BOOLEAN : VerifyResult(s, ok)
  \/ VerifierRead \/ VerifierStale \/ VerifierStop
  \/ \E V \in SUBSET (1..SemCount) : VerifierRecord(V)

People ==
  \/ AddInstruction \/ RequestPause \/ Unpause \/ CancelOrder
  \/ \E s \in Step : OwnerGate(s) \/ \E approved \in BOOLEAN : Decide(s, approved)
  \/ \E a \in Attempt, outcome \in {"reconciled_happened",
                                    "reconciled_not_happened"} :
       Reconcile(a, outcome)
  \/ \E c \in Criterion, ok \in BOOLEAN : ManagerVerdict(c, ok)

Work ==
  \/ \E s \in Step : ClaimReadyStep(s)
  \/ \E a \in Attempt : Execute(a)

Environment ==
  \/ \E a \in Attempt : CommitEffect(a) \/ Crash(a)
  \/ \E s \in Step : ExpireLease(s)

Next == Plan \/ Tick \/ Verify \/ People \/ Work \/ Environment

Spec == Init /\ [][Next]_vars
=============================================================================
