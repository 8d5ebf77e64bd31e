# Formal models of the agent runtime

TLA+ specifications, TLC configurations and TLAPS proofs of the durable, concurrent
parts of the repository's backend: the **work-order runtime**, which plans, executes,
verifies and recovers what an employee asked an agent to do; what surrounds an order,
**families** of orders, the **budget ledger** they share, **isolated script runs** and **durable
chat turns**; the **agent outbox**, which delivers its messages; and the two **studio queues**, LoRA
training and image generation, which compete for one GPU. Paths below are relative to
`src/backend/app/`.

1. Inventory
2. Modules and how they correspond to the code
3. Runs: what is checked, bounds, fairness
4. What the code does not keep
5. Proofs
6. What is not modelled, and what the models abstract
7. Plan

## 1. Inventory

### 1.1 The work-order runtime

A work order is a row (`work_orders`) with plan revisions (`work_plans`), steps
(`work_steps`), attempts (`work_step_attempts`), journalled tool calls
(`work_tool_calls`), approvals, acceptance criteria and an event log. All of it lives
in PostgreSQL; every handler locks the order's row first, so the transactions
of one order are serial. What is concurrent is everything between them:

| Actor | Code | What it does, and what it holds between its transactions |
|---|---|---|
| dispatch tick, every 5 s | `tasks/work_orders.py` `_dispatch_ready_work` | reclaim expired leases, enforce budgets, promote parents, acknowledge pauses, unstick, then queue planning, steps and verification |
| executor | `tasks/work_orders.py` `_execute_claimed_step` | claim; journal the call; start it; check the budget ledger; send it; settle it. Five transactions with a lease, renewed by a heartbeat |
| recipient | `auth/effect_fence.py` | commits the effect together with a receipt; its first commit is refused unless the attempt still owns its lease in a live order; a *fenced* operation does nothing before that commit |
| planner | `domain/work_planning.py` | reads a snapshot, waits for a model without a transaction, applies the plan only if the snapshot's digest still holds; each digest is dispatched once (`ai/planner_budget_context.py`) |
| verifier | `tasks/work_orders.py` `verify_semantic_criteria` | the same for the semantic acceptance criteria |
| people | `api/work_orders.py`, `api/approvals.py` | instruct, pause, resume, cancel, gate a step, decide, reconcile an unknown effect, give a verdict |

Hard behaviours: two siblings of one plan settling against each other; a worker that
is presumed dead and is not; its request still travelling when the step is reclaimed;
effects whose outcome nobody knows; a plan replaced while its steps run or wait for
a decision; a pause that is requested while something executes; snapshots that are
stale when their answer comes; the budget pass, which alone reads orders without a lock.

It is correct when an effect with a receipt is not repeated; what is settled stays
settled; no plan is made over an unknown effect; a superseded plan is quiet; a
completed order is whole; a paused order is quiet; replans are paid for; and every order
ends or waits for somebody.

### 1.2 The agent outbox

`domain/agent_outbox.py`: rows (`agent_outbox`) produced in the transaction of the event
they tell of, one per (owner, destination, dedup key). A dispatcher leases a batch of due
rows; for each lease a worker revalidates recipient and approval, commits
`sending` first if the recipient cannot deduplicate, calls the transport, and finishes the
row with a compare-and-set on its lease token. Leases are *not* renewed. It is
correct when a recipient sees at most one effect per row and the recorded outcome is
true and final, whichever worker was overtaken, killed or answered late.

### 1.3 Families of orders

A plan may hold a *decompose* step (`tasks/work_orders.py` `_execute_decompose`): it creates
child orders in a transaction of its own, and the parent then waits in
`waiting_external` until the dispatch tick (`domain/work_orders.py` `promote_waiting_parents`)
finds every child at rest. The tick reads waiting parents and their children *without* a lock
and writes them later; the process of a decompose step may be overtaken after a lease
ran out, and still spawn; a cancellation goes down the tree; replans come out of one
allowance. It is correct when a list's children are created once, nobody waits for
nobody, a parent completes on a child that completed, a cancellation takes the children
with it, and no order is forgotten.

### 1.4 The budget ledger

`domain/work_budget_ledger.py`, `ai/work_budget_context.py` and the active-time half of
`tasks/work_orders.py`: one ledger row per family, locked by every reservation and
settlement. An execution reads what is left *without* the lock, reserves that much active
time, and makes calls, each reserved, dispatched and charged in three transactions; it
may die, lose its lease or fail to settle between any two. It is correct when no more
calls leave than were granted, and active time passes its limit by no more than what
single executions overran.

### 1.5 Isolated script runs

`domain/script_runs.py` and `src/infra/agent-script-supervisor/app.py`: a step that runs code
commits an intent keyed by the step, asks a supervisor what became of it, marks it running,
submits it, and records the result. The supervisor keeps its runs in memory and starts
one container each; a cancellation marks the row and then asks for the kill.
Two attempts of a step may be at it at once, requests and answers may be lost, and the
supervisor may be restarted with its memory gone. It is correct when the code
starts once in each life of the supervisor, a success is real, an answered cancellation
prevents the run, and the step ends.

### 1.6 The studio queues

`services/studio_queue.py` keeps a job row for every training run
(`tasks/lora_training.py`) and image generation (`tasks/image_generation.py`). A training
task supervises a container for up to two days, under a Redis lock with a time to live
(`ai/gpu_lock.py`), a heartbeat and a stop flag; the broker delivers its message again after an
hour. A generation's task reads its rows, waits for the GPU, and writes the rows back; it
is retried, restarted and killed. People cancel, stop, retry, delete and tidy up through requests
that read rows, do something else, and write them. They are correct when a run has
one trainer, the GPU is visibly taken while a supervisor trains, the two rows of a
generation end together, running generations are reachable, and what is queued ends.

### 1.7 Durable chat

A message of an employee becomes a work order with one step (`domain/agent_intake.py`), whose worker
(`tasks/durable_chat.py`) lets the agent think and send tool calls one by one. At every boundary
(calls planned, call started, result recorded, confirmation required, turn finished) it saves, in one
transaction, a checkpoint and the journal of its actions (`domain/chat_action_journal.py`). A turn that stopped is
not replayed by the scheduler: its attempts are used up. Its owner may confirm the call it stopped at, or
accept a call whose receipt proves that it was committed although its answer was lost (`api/chat_runs.py`,
`domain/chat_continuation.py`); either makes a revision that goes on with the calls left. Meanwhile
workers crash and are overtaken, the order is paused, canceled or blocked by its wall clock, decisions lapse
and the conversation moves on. It is correct when no call leaves twice, a confirmation covers the call it
names and no other, an answer is given over a whole journal, and every turn ends or waits for its owner.

### 1.8 The other components

Listed with their status and reason in `PROJECT.json`: approval chains and
Telegram callbacks, work learning and memory, email, agent cron, artifact verification,
catalogue ingest, the engineering model graph and CAD recognition, chat bus, user
interfaces. By lines these are most of the repository: numeric and geometric recognition,
request handlers that read and write single rows, prompts, parsers and pages, which keep
no state that two actors share. Section 7 says what comes next.

## 2. Modules

| Module | Contents |
|---|---|
| `WorkOrderStates` | the status tables: `WORK_TRANSITIONS`, step states, pause tables |
| `WorkOrder` | one order: state, one action per transaction, `Next`, `Spec` |
| `EffectPromise` | what a work order promises of the effects of its steps: the abstract specification |
| `WorkFamily` | parents and children, the dispatch tick's unlocked pass |
| `BudgetLedger` | the shared ledger and the executions that spend from it |
| `ScriptRun` | a script step's attempts, the supervisor, the cancellation |
| `OutboxPromise` | what the outbox promises: the abstract specification |
| `AgentOutbox` | the outbox: rows, leases, workers, requests, the recipient |
| `StudioJob` | the job row's status tables, shared by the next two |
| `LoraTraining` | training runs, the GPU lock, trainers, requests, the watchdog |
| `ImageGeneration` | generations, their task, its retries, requests |
| `TurnPromise` | what a chat turn promises of its tool calls: the abstract specification |
| `ChatTurn` | a chat turn: its attempts and revisions, checkpoints, journal, receipts, its owner's decisions |

Each has a module `<Name>Properties` with its invariants, action properties, fairness and
liveness, `MC<Name>` with the instances, and `<Name>Proofs` with the theorems
(`WorkOrderProperties`, `AgentOutboxProperties` and `ChatTurnProperties` also hold the refinement mappings to
`EffectPromise`, `OutboxPromise` and `TurnPromise`).

The line of every definition is in `PROJECT.json` (`map`).

### 2.1 `WorkOrder`

State by table: `status, rev, blocker, pause, instructions, streak` are columns of
`work_orders`; `charged` is the set of revisions whose replan the shared ledger charged;
`step, count, lease` are `work_steps` (`state`, `attempt_count`, lease owner and expiry);
`attempt`, `call`, `approval`, `criterion` are the rows of their tables; `judged` is the
step whose output was verified last. Processes: `worker[a]` is where the executor of
attempt `a` stands, `request[a]` its tool call at the recipient, `planner` the snapshots
waiting for a model, `crossed` those that crossed the once-fence, `verifier` the
verifier's snapshot, `candidate` the budget pass's unlocked read.

A request is `committed` when it took effect and left its receipt, `unrecorded` when an unfenced operation acted
outside the database and has no receipt, not yet or never. `_settle_abandoned_calls` reads the receipts first, of fenced
and unfenced operations alike; without one it takes a fenced call for failed and any other for unknown.

An attempt is `<<<<revision, key>>, n>>`. The lease of a step has the values none, live and
expired; ownership is not stored because the code's owner token is unique per claim, as
is `n`.

| Actions | Code |
|---|---|
| `ClaimReadyStep` | `claim_ready_step` |
| `PrepareCall`, `PrepareDataflowError`, `PrepareHeadless`, `StartCall` | the first two transactions of `_execute_claimed_step` |
| `SendCall`, `StopBeforeSend` | `prepare_tool_attempt`, which re-checks lease and status |
| `CommitEffect` | the recipient, through `EffectFenceMiddleware` |
| `Answer` | `_execute_capability` |
| `SettleSuccess`, `SettleFailure`, `SettleApprovalRequired`, `SettleNonterminal`, `SettleBudgetStop`, `SettleNothing` | the settling transaction: `complete_attempt`, `fail_attempt`, the branches for approvals, partial and unknown outcomes, `BudgetExecutionStopped`; or nothing, when the lease is lost or a transition raises and the transaction is rolled back |
| `ReclaimExpiredLease` | `reclaim_expired_leases` with `_settle_abandoned_calls` |
| `EnforceBudgetsRead/Write` | `enforce_budgets`, an unlocked read and a later write |
| `AcknowledgePause`, `Unstick` | the tick's other passes |
| `PromoteDependents`, `VerifyResult` | `verify_completed_step` |
| `VerifierRead`, `VerifierStale`, `VerifierRecord`, `VerifierStop`, `ManagerVerdict` | the semantic verifier and `record_verifier_verdict` |
| `PlannerDispatch`, `PlannerStale`, `PlannerApply`, `PlannerFails`, `PlannerStops`, `PlannerCrash` | `plan_work_order_detached`, `create_work_plan` |
| `AddInstruction`, `RequestPause`, `Unpause`, `CancelOrder`, `OwnerGate`, `Decide`, `Reconcile` | the API |

`transition_work_order` raises on a move its table does not have; the enclosing
transaction is then rolled back. `CanMove` is that test, and each caller that
does not test the table first has it as a guard, with `SettleNothing` as what remains.

`EffectPromise` knows neither statuses nor leases nor calls: only who holds the authority over a step, whose request left,
whose recipient acted, and the one word that is said of an attempt (happened, absent, answered, unknown, withdrawn,
and reconciled, which is a person's word). Authority is given again only where the word said of the last attempt allows it; a
fenced recipient acts only under it, in an open order and its current revision; a revision is made only when nobody holds it and
nothing is unknown. The mapping takes a running step with a live lease to the authority of its latest attempt (`Holder`),
and reads the word from attempt, call and request (`Told`): an abandoned attempt whose call is `failed` is said
to be absent, one whose worker got an error for a request that left is answered, and may have acted.

### 2.2 `AgentOutbox` and `OutboxPromise`

`state`, `attempts`, `lease` are the row; a claim is `<<row, attempt>>`, because a row's
token is new at every claim and NULL outside `leased` and `sending`, so holding the token
is being the latest attempt of a row in such a state. `ClaimDue(Batch)` is one transaction:
sweep, give up, lease. `Validate` is the worker's first transaction, `SendEnds` the
end of the transport's call, `FinishClaim` the second transaction. The recipient
(`Deliver`) acts on an open request in its own time, also after the worker timed out.

`OutboxPromise` has only a row's outcome and the number of effects seen. The mapping
takes `pending`, `leased` and `sending` to `open`.

### 2.3 `WorkFamily`

`status, rev, instructions` are columns of `work_orders`; `awaiting` the blocked orders whose
result waits for a verdict; `plan`, `stage`, `tries` the active plan's decompose step;
`splits` the revisions that had one; `broods` how often a list's children were created.
`worker` is the process that holds the decompose step's lease, `late` those that lost it
before they spawned; `seen` what the tick has in memory; `charged` the rows of the replan charge.

| Actions | Code |
|---|---|
| `CreateWorkPlan`, `LeafSucceeds`, `LeafFails` | an order's own life, see `WorkOrder` |
| `ClaimSplit`, `ExecuteDecompose`, `ExecuteDecomposeLate`, `SettleSplit`, `CrashSplit`, `ReclaimSplit` | `_execute_claimed_step` with `_execute_decompose`, `reclaim_expired_leases` |
| `TailSucceeds`, `TailFails`, `EnterWaitingForChildren`, `VerifySplit` | the step after, `verify_completed_step`, `enter_waiting_for_children` |
| `PromoteRead`, `PromoteParent`, `PromoteAborts` | `promote_waiting_parents`: the unlocked read, one candidate, the exception that rolls the tick back |
| `RecordVerdict`, `AddInstruction`, `CancelWorkOrder` | the API, `cancel_work_order` with its cascade |

### 2.4 `BudgetLedger`

`time[a]` is the active-time reservation of attempt `a`, `call[c]` the reservation and fate
of each physical call, `remaining[a]` the total the execution read without the lock, `alive` what
the rechecks look at (order running, lease owned), `stopped` the sticky stop.
`ReadRemaining`, `ReserveActiveTime`, `RefuseActiveTime` are the two transactions of
`_reserve_active_time`; `Finish` and `Crash` its settlement or the lack of one;
`PrepareCall`, `DispatchCall`, `ChargeCall` the context's `prepare_*`, recheck and
`charge_*`. Seconds are counted as elements of a set, so that the sum over a family is a
cardinality, which both TLC and the provers can handle.

### 2.5 `ScriptRun`

`order, step, n, lease` are the step, `run` and `published` the row `agent_script_runs`;
`worker[a]` where attempt `a`'s process is and what it knows; `inflight` requests that have
not arrived; `entry, flagged, job, serves, container` the supervisor's memory, thread and
container; `kill` how far the cancellation's request has come.

| Actions | Code |
|---|---|
| `Claim`, `ExpireLease`, `Reclaim`, `Crash`, `Settle` | the step |
| `Intend`, `AskSupervisor`, `MarkRunning`, `Submit`, `SupervisorUnavailable`, `Record` | `run_script_step`, one action for each transaction or answer |
| `Accept`, `DropRequest`, `Create`, `CheckCreated`, `Start`, `CheckStarted`, `Exit`, `Raises`, `Restart` | `Supervisor.run` and its thread, `cleanup_orphans` |
| `CancelOrder`, `KillEnters`, `KillScans`, `KillFlags`, `KillLost` | `cancel_order`, `kill_script_runs`, `Supervisor.cancel` |

### 2.6 `StudioJob` and `LoraTraining`

`StudioJob` has the job row's statuses and `mark_*` functions as operators. In
`LoraTraining`, `run`, `job`, `retries` are rows; `request[r]` is an API request between
its read and its commit; `messages` and `lost` what the broker can deliver and what it keeps for
a killed worker; `revoked` the runs of whose messages an id was revoked; `slot, at, held, outcome` the one supervisor of
the lane; `trainers` running containers, which outlive their supervisor, and `refused` (history) those of them that Docker
did not remove when the last one was started; `lock, heartbeat, flag` the Redis keys.

`StartTrainer` removes what an earlier supervisor left, except a number of containers that Docker will not remove:
the code swallows that error and starts the next one (`Reap`). The `finally` block removes the supervisor's own
container, which may fail too and then counts as a fault. A worker that knows of a revoked id throws
away whatever carries it (`Discard`); the ids of a run's messages are not told apart, so any of them may be thrown
away, or none.

| Actions | Code |
|---|---|
| `CreateRun`, `RetryJob`, `StopRun`, `CancelJob`, `Commit` | `api/lora_training.py`, `api/studio_queue.py` |
| `Watchdog`, `BulkCancelPending`, `CleanupTerminalJobs` | `_watchdog_runs`, `services/studio_queue.py` |
| `Discard` | a worker's set of revoked ids |
| `EnterEnded`, `EnterStopping`, `EnterIgnored`, `Enter`, `AcquireLock`, `RequeueBusy` | the head of `_train`, `ai/gpu_lock.py` |
| `StartRun`, `StartTrainer`, `SetupFails`, `StopTrainer`, `Finalize`, `Break`, `Release` | the rest of `_train` |
| `TrainerExits`, `Crash`, `RestoreLost`, `RestoreHeld`, `LockExpires`, `HeartbeatExpires` | Docker, Celery, Redis |

### 2.7 `ImageGeneration`

`gen`, `job`, `retries` are rows, `seen` is what the task has of them in memory, `tries` the
message's Celery retry count, `at` where the task is. A session writes the columns that
differ from what it read, over whatever they have become (`Overwrite`, `WriteBack`), and
fails when a row is gone (`Stale`). The result is stored in two steps: `Persist` looks at the generation, and `Store`
commits after the awaits for the job and for the queue's event.

`revoked` are the generations whose task's id was revoked by `cancel_job`. Workers remember the id, and `self.retry` and the
broker send a message again under the same one, so that `Discard` may throw away a message that was put
back long after the revocation; a user's retry sends a new id. `dropped` (history) are the generations that lost
a message so while a row read running, and those whose process alone was killed.

| Actions | Code |
|---|---|
| `Generate`, `CancelJob`, `Interrupt`, `RetryJob`, `Commit`, `DeleteGeneration`, `BulkCancelPending`, `CleanupTerminalJobs` | `api/image_generation.py`, `api/studio_queue.py`, `services/studio_queue.py` |
| `Enter`, `StartFails`, `NoWorkflow`, `Wait`, `Start`, `Diffuse`, `TransientError`, `RetriesExhausted`, `CheckCancelled`, `Raised`, `Fail`, `Persist`, `Store`, `Acknowledge` | `_run` and the task around it |
| `Crash`, `Kill`, `RestoreLost`, `Discard` | a killed worker; a killed process of a living worker; the broker; a worker's set of revoked ids |

### 2.8 `ChatTurn` and `TurnPromise`

`status, pause, wall, rev` are the order (`wall` also holds the budget pass's unlocked read); `step, count,
lease, origin` the step of each revision, `origin` being what its input names: the prompt, or a
continuation and the attempt it continues; `attempt, checkpoint` the attempts, named `<<revision, n>>`;
`action, owner` the rows of `chat_logical_actions` with the attempt they are bound to; `receipts` the calls
whose recipient committed; `decision, consumed` the owner's word on an attempt's checkpoint and whether a
proof was used; `at, pend, granted, result` the process of an attempt: its place in the loop,
the calls it has left, the confirmation it holds, the answer it got; `flight` requests under way; `answer`
the saved message; `later` whether the conversation has another turn; `sent` is the history the properties
are about. Calls are numbered in the order the agent asks for them.

| Actions | Code |
|---|---|
| `Claim`, `Prepare`, `ExpireLease`, `Reclaim`, `Crash`, `VerifyCompletedStep`, `RecordVerdict` | the work-order executor with its chat branches, `domain/work_orders.py` |
| `HydratePrompt`, `HydrateConfirmed`, `ConsumeVerifiedCommit` | the head of `_run_durable_chat`, `_consume_verified_commit` |
| `AskForCalls`, `SavePlanned`, `SaveStarted`, `UseDecision`, `AskConfirmation`, `Dispatch`, `Answer`, `SaveRecorded`, `Finish`, `SaveAnswer` | `ai/agent_loop.py`, `record_boundary`, `require_confirmation`, `prepare_tool_attempt` |
| `Commit`, `Refuse` | the recipient and its receipt, `domain/action_receipts.py` |
| `Stop`, `Transient` | `ChatRunStopped` and every other exception; a broken connection |
| `SettleSuccess`, `SettleFailure`, `SettleTransient`, `SettleNonterminal`, `SettleWaiting` | the branches of `_execute_claimed_step` for a chat result |
| `ApproveConfirmation`, `DeclineConfirmation`, `AcceptVerifiedCommit`, `DeclineVerifiedCommit`, `DecisionLapses` | `resume_chat_run`, `_verified_commit_resume`, `decision_not_expired` |
| `WallClockRunsOut`, `EnforceBudgetsRead/Write`, `DecideRecordedApproval`, `Cancel`, `RequestPause`, `AcknowledgePause`, `ResumePaused`, `NewTurn` | the budget pass, the API and the intake |

`TurnPromise` knows five things: which gated calls their owner allowed, how often each call was sent, which
have an effect on record, of which that were sent the outcome is known, and whether the turn was answered. Attempts,
revisions, checkpoints, leases and decisions are gone. The mapping reads them off: `Allowed` from the decisions on
confirmation checkpoints, `Known` from the journal, or from an accepted proof of the commit, `sent` and `receipts` as they
are. A call may leave only if no other is outstanding; an effect is recorded only between its call's leaving and the
turn's learning of it.

## 3. Runs

Every passing run checks its properties in the whole reachable state space of its
instance. `CHECK_DEADLOCK FALSE` everywhere: an order, row, run, generation or step that has
ended, or waits for people, has nothing left to do.

| Run | Instance | Shows |
|---|---|---|
| `work_order_lease` | one step, fenced or not, 2 attempts, 1 revision; crash and stall; pause, gate, decide, cancel | receipts of dead workers are respected; only the owner of a lease settles; calls are closed; a pause is quiet; the order implements `EffectPromise` |
| `work_order_siblings` | plans `{a,b,c}` (c after a and b) or `{b}`, 2 revisions, 1 attempt; crash, unknown outcome, reconciliation, a dying planner | no plan over an unknown effect; superseded plans are quiet; dependencies first |
| `work_order_people` | chain a, b; b gated; one semantic criterion; 2 revisions, 2 attempts; instruction, cancel, decisions, verdicts; wall clock | a completed order is whole; an ended one is reopened by the budget pass's stale write only |
| `work_order_progress` | chain a, b; 1 revision, 2 attempts; crash, planner and verifier failures, wall clock; fair | every order ends or waits for a person |
| `outbox_delivery` | a deduplicating and a plain recipient, 2 attempts each; fair | the outbox implements its promise, sends unsafe messages once, and leaves no row with a dead worker |
| `family_children` | parent p; lists `first` ({a}), `second` ({c}, with a step after it), `blank`; a with a semantic criterion; 2 attempts, 1 replan, 1 shared replan, 1 instruction to p; crash, overtaken process, cancellation, verdicts; fair | children are created once, nobody waits for nobody, a parent completes on a completed child, replans are paid for, a cancellation takes the children, every order rests unless the tick is wedged |
| `ledger_shared` | two executions of one order and one of another, a call each; 2 calls and 3 seconds for all; caps 1 and 2, up to 3 s measured | calls within the limit, active time bounded up to single overruns |
| `lora_gpu` | two runs (r2 created and left alone), 1 retry, 1 fault, 1 container that Docker refuses to remove; fair | a run has one trainer and those Docker refused to remove; a supervisor at work has the GPU's lock and its heartbeat; queued runs end |
| `image_studio` | two generations (g2 left alone), 1 user retry, 1 Celery retry, 1 kill; fair | rows end together, running ones are reachable unless killed alone or revoked, only a task that read before a cancellation revives it, what is worked on ends or is left without a message |
| `script_retried` | 2 attempts, 1 restart of the supervisor, a cancellation; fair | the code starts once per life, success is real, an answered cancellation holds, the step ends |
| `chat_turn` | two calls that need a confirmation, one with receipts; 3 revisions; crash, stall, error, broken connection, lapsed decision, wall clock; every action of the owner; fair | no call leaves twice, each on its own confirmation, answers over whole journals, the turn implements `TurnPromise` and rests |

One further run expects a violation; section 4. `TypeOK` is checked by one run; for every module
it is a theorem (section 5), and putting it back into a cfg is a line.

### 3.1 Bounds

`AttemptBound`, `RevisionBound`, `InstructionBound`, `FaultBound`, `CrashBound`, `RefusalBound`,
`RestartBound` and `MaxElapsed` cap what the code does not cap. Each is a guard of one kind of action
(the claim, applying a plan, an instruction, a kill, a container that is not removed, a restart). An attempt
bound of 2 is the least at which an heir meets its predecessor, two revisions the least at
which a plan is superseded or a family split twice, two siblings and a join the least at which
siblings settle against each other and a dependent waits for both, two runs or generations
the least at which the GPU is taken by another. `MaxAttempts`, `MaxReplans`, `LedgerReplans`,
`PlannerStreak`, `MaxRetries`, `MaxTransient`, `CallLimit` and `ActiveLimit` are the code's own
limits with small values, set to be reached. `Quiet` takes people's actions from the second run or
generation, which is there to compete; a property is about each of the two. The outcomes and
faults an instance admits are chosen per run, so that each run's question meets all the
behaviour that bears on it; every action of every module fires in some passing run. The theorems
hold for any value of these constants.

### 3.2 Fairness

Celery beat runs the tick every 5 s, so claims, reclaim, pause acknowledgement,
unstick, planning and verification are weakly fair; a live worker goes on
(`WF(Execute(a))`); a request that was sent is answered or times out, so `Answer` is part
of it. A lease expires when nobody renews it, and only then: `WF(ExpireLease)` is
limited to steps whose worker is gone. `PromoteDependents` and `VerifyResult` are fair only
in status `running`: the verification task queued by the executor may be lost, and the tick
re-queues it for a running order, which is why `Unstick` exists. In `work_order_progress`
`wall_clock` may block an order at any time, and nothing obliges it to. People, faults and recipients owe
nothing. The outbox assumes beat's 30 s task with at least one adapter (production
registers none yet: then only `SweepOnly` runs), workers that go on unless they crash,
and time that passes.

In a family the tick's read and each of its candidates are weakly fair, and so are planner, steps
and the reclaim of *dead* decompose processes; `FamilyRests` excepts the wedged tick, which is
the violation of `MCWorkFamily_wedge.cfg`. In the studio modules the one worker is shared: `SF(Entering(r))` and
`SF(Enter(g))` say that the broker does not pass over a message for ever (its queue is first in,
first out), which weak fairness would not, since another message can occupy the slot again and
again. The supervisor's own steps, Redis's expiries, the broker's restoring, a trainer's end and an
API request's commit are weakly fair; that a worker throws a revoked message away is not owed. Script runs: claim, reclaim, live workers and the
supervisor's thread; the lease of a worker that is gone expires; arrival is not assumed, since
`SupervisorUnavailable` ends the wait; cancellations under way owe nothing. Chat: the tick claims, verifies,
acknowledges and reclaims, a living worker goes on, and the lease of a worker that is gone runs out; owner, verdict,
recipient, wall clock and faults owe nothing. In particular `Answer` does not wait for the recipient: a request that is lost
times out.

### 3.3 Mutants

`PROJECT.json` names for each property of each passing run a plausible bug of the code:
a fence that looks at the order and not the attempt, a receipt that is not read, an
unresolved effect not asked for, a compare-and-set without token, a decompose retry that does not
look for its children, a cancellation of the order alone, a reservation not compared under the lock, a
heartbeat renewed from the logs only, a retry that forgets its message, a supervisor that keeps no
tombstone, a confirmation that covers the next call too, a request under way taken for a committed one. Each is a `Variant` operator beside the definition it would replace, used nowhere else.

## 4. What the code does not keep

One run checks a promise that TLC finds violated; `findings` in `PROJECT.json` quotes
every promise of this section with its line.

| Run | Property | What happens |
|---|---|---|
| `work_order_siblings_livelock` | `OrderComesToRest` | a worker about to send finds the order `ready` instead of `running`, because its sibling's transient failure is to be retried; it is "preempted" and fails only its step. The plan then has a failed step that no pass looks at, and the order alternates between ready and running |

The number of runs is kept to the distinct questions; the following disagreements have a cfg of
their own and are reproduced with `tlc -config <cfg> <module>`:

| cfg | Property | What happens |
|---|---|---|
| `MCWorkOrder_pause_planner` | `PlanningEnds` | pause and resume while the planner waits: its result is stale, and the next snapshot has a digest that was already dispatched, so it is refused for ever. A planner that dies after the fence ends in the same way |
| `MCWorkOrder_unknown_resumed` | `BlockedUntilReconciled` | an order blocked over an unknown effect goes back to `ready` when a sibling fails transiently |
| `MCWorkOrder_two_approvals` | `WaitingStepCanBeDecided` | two steps wait for decisions; the first decision takes the order out of `waiting_approval`, the second is answered 409 |
| `MCAgentOutbox_stranded` | `RowsAreDecided` | a timeout of the last attempt puts the row back to `pending`, which is neither claimable any more nor given up |
| `MCWorkFamily_wedge` | `ParentsWake` | a parent that was decomposed in two of its revisions has two decompose steps where `promote_waiting_parents` asks for one: it raises, outside the try block, and every later tick of the service fails at it |
| `MCWorkFamily_orphan` | `CanceledFamilyIsQuiet` | a decompose process creates children under a parent that was canceled since its claim |
| `MCLoraTraining_orphan` | `OrphansAreFound` | a run whose supervisor was killed under a living worker, or whose setup raised, stays `running`; the watchdog looks at queued runs only |
| `MCImageGeneration_waiting` | `WaitingIsReachable` | a generation that finds the GPU taken once too often has lost its message: `max_retries=None` means the task's own limit |
| `MCScriptRun_finished` | `FinishedStays` | the row of a canceled or succeeded script run is marked running again by an attempt that was fetching inputs |

And these are stated in the properties modules, each violated in the instance of its module's passing
cfg when it is put there in place of that cfg's properties (`PublishedOnce` needs `MaxAttempts = 3`):
`CompletedHasResult` (work order, in the `people` cfg: a manager's verdict on a pending criterion completes an order that
never had a plan), `TerminalStatusIsFinal` (in the same cfg: the budget pass blocks an order that was canceled or completed
after it was read), `OvertakenAttemptsEnd` (in the `lease` cfg: the owner's gate takes a running step from its worker; attempt
and call stay `running` for ever, and after the approval another attempt sends the call again), `RefusedWhenSpent` (ledger: a step refused though time is left), `OneTrainerPerRun` (training: a container
that could not be removed trains beside the next one), `OneTrainerOnTheGpu`,
`CancelledIsNotTrained`, `GivenUpWhenLost`, `CancelledJobStays` (training), `EndAlike`,
`CancelledStays`, `RunningHasATask` (a task that started over a cancellation is retried under the id that was revoked, and its
message thrown away), `InterruptsItsOwn`, `DoneStays`, `CancelledJobIsRepresented` (images),
`PublishedOnce`, `CanceledIsKilled`, `PendingIsRetried`, `RunIsDecided`, `OutputsArePublished`
(scripts), `OneActiveTurn` (chat: a turn that was paused before the next message came is active beside it when it is
resumed). The comment at each names the promise.

`SupersededPlanIsQuiet` holds in `work_order_siblings` and fails where the budget pass is at work and orders are
canceled: the pass writes `blocked` over a canceled order whose steps were canceled with a decision pending; an
instruction has the order planned anew, and the retirement of the superseded plan, which looks at steps that are not canceled
yet, leaves that approval pending. TLC finds it when the invariant is put into `MCWorkOrder_people.cfg`. It was met
while proving: the step of `EnforceBudgetsWrite` could not be shown. The same write breaks `OrderComesToRest` when
`Owner = {"cancel"}` is put into `MCWorkOrder_progress.cfg`: the canceled order is reclaimed and retried, but what depends on its step
was canceled for good.

Three things of the chat code are no contradiction of a text, but surprise: an attempt that was abandoned can be continued
by neither intent, since one asks for a `failed` attempt and the other for a `failed` or `outcome_unknown` one; the worker of a
confirmation does not ask whether the conversation moved on, that of a verified commit does; and a confirmation that
lapses at the call leaves a checkpoint that is `started`, which can then neither be confirmed nor, without a receipt, be
accepted.

## 5. Proofs

`tlapm` checks all eight proof modules completely; nothing is assumed but the named assumptions
on the constants (`BoundsAssumption`, `PlanAssumption`, `EnvironmentAssumption`,
`OutboxAssumption`, `FamilyAssumption`, `LimitAssumption`, `LedgerAssumption`,
`TrainingAssumption`, `GenerationAssumption`, `ScriptAssumption`, `CallAssumption`, `BoundAssumption`,
`WorldAssumption`), which TLC evaluates in the runs.

### 5.1 The work order (`WorkOrderProofs`)

For any keys, plans, dependencies, revisions, attempts, criteria, outcomes and faults:
`TypeCorrect`, `ReceiptsAreFinal`, `RunningStepsHaveAttempts`, `SettledAttemptsCloseCalls`,
`PauseIsQuiet`, `SettledAttemptsAreFinal`, `PlansKnowTheirEffects`, `DependenciesAreFirst`, `CompletedOrdersAreWhole`,
`SupersededStepsStayClosed`, `EndedOrdersAreLeft`, `RevisionsAreBought`, `EffectsStayAuthorised`,
`EffectsRepeatKnowingly`; and, where no wall clock runs out
(`"wall_clock" \notin Faults`), `SupersededPlansAreQuiet` and `TerminalStatusesAreFinal`. The last two need the hypothesis:
with the budget pass's stale write both are false (section 4). `EndedOrdersAreLeft` says without it that this write is
the only one that changes an ended order.

The inductive invariant is `IInv == TypeInv /\ ExecutionInv /\ StatusInv`. None of the
properties is inductive alone:

- That an abandoned receipt is final needs to know, when a step is reclaimed, that the
  call of a committed request was marked running (`RequestAfterStart`) and not settled
  otherwise while the attempt was open (`OpenAttemptOpenCall`), and that attempts beyond the
  count have no request (`UnclaimedIsBlank`), so that a claim cannot meet an old one.
  After the abandonment the fence refuses the dead worker's commit, since the
  attempt no longer owns its lease: an unfenced operation may still act, but without a receipt.
- That no plan is made over an unknown effect needs the same of every status in which
  planning may happen, and of paused orders that will be resumed into such a status
  (`PlanningIsResolved`, `PausedRemembers`). An effect becomes unknown only in a step that moves the
  order to `blocked` or of an executing step, which keeps planning away and pausing too
  (`PausedMeansQuiet`).

A second invariant, `PlanInv`, is about revisions and is proved on top of the first: planning excludes executing steps, so
`create_work_plan` finds none to retire, and the steps of a superseded revision are closed and stay so
(`SupersededStepsAreClosed`); a step leaves `pending` only when what it depends on has succeeded, and a success is not
taken back. `NextSteady` says once for all handlers but `create_work_plan` that they leave the revision alone and
reopen nothing that is closed; the theorems on dependencies, completion and superseded plans cite it. For approvals
`PendingApprovalsWait` is added: a pending one has a step that waits, or a canceled order. For
`RevisionsAreBought` it is `PaymentInv`: wherever the order can be planned, now or after it is resumed, the next revision is
paid for already (`PlansAhead => NextIsPaid`), and every other handler keeps the accounts (`Accounts`).

`EffectsStayAuthorised` is the refinement: `Spec` implements `EffectPromise!Spec`, by a third invariant, `EffectInv`, on top of the
two. It says what the mapping needs to know of the rows: every claim made an attempt, a worker that reports success or a gate has
seen it, what the call of an abandoned attempt may say, and that a step which may be claimed again may be repeated
(`ClaimableMayRepeat`). Each handler is then a step of the promise: a claim grants, a settlement, a reclaim and the owner's gate
speak (`Speaks`, `SpeakingTells`), an expiry lapses, `create_work_plan` renews, and everything else is `Quiet`. From the
promise alone follows `EffectsRepeatKnowingly`: of two attempts of a step that both acted, the first was answered with a
failure, or was withdrawn by the owner's gate; a crash, a stall or a late request never makes an effect happen
twice. For unfenced recipients it says the same, since an abandoned call of theirs is unknown, or known by its receipt, and not repeated.

The proof has one lemma per action and part of the invariant; helpers that several actions
share (`FailAttempt`, `ReplanOrBlock`) have lemmas of their own.

### 5.2 The outbox (`AgentOutboxProofs`)

For any rows, any subset of them idempotent and any number of attempts: `TypeCorrect`,
`UnsafeSendsOnce`, `HeirsKeepTheirLeases`, and `Implementation`, that `Spec` implements
`OutboxPromise!Spec`.

The invariant `IInv` says that claims not made yet left no trace (`UnmadeIsBlank`), that workers
say what is true of their request (`WorkersAreTruthful`), that an unsafe row's request is
its latest claim's and the row can no longer be claimed (`UnsafeRequestIsLast`), that effects
and delivered requests belong together (`EffectsAreDeliveries`), and that `sending` is written for unsafe
rows only. The refinement goes action by action: producing accepts a row, a delivery is the row's
effect or an idempotent repetition, which stutters, and dispatcher and workers conclude
rows or stutter.

### 5.3 Families (`WorkFamilyProofs`)

For any finite family and any plans: `TypeCorrect`, `BroodsAreSpawnedOnce`,
`WaitingParentsHaveChildren`, `ReplansArePaidFor`, `CancellationTakesChildren`,
`CompletionNeedsAChild`.

- *Children* (`ChildrenInv`): a list's children were created at most once and then one of them
  exists for good, so the lookup finds it; past the spawn transaction a step has its children,
  whichever process created them.
- *Replans* (`PaidInv`): an order's credit, its charges and instructions minus the revisions
  after its first, covers every charge that may still be used without paying again. The hard case is the
  tick, which judges a revision it read earlier (`x[2]`) and charges that: `SeenIsQuiet` says that
  until the order is planned anew nobody but the tick judges that revision, so a stale charge
  is one that pays for the plan that follows.
- *Completion*: an awaited verdict belongs to a semantic order (`AwaitingInv`), and of the
  others only the tick's judgement completes a decomposed order; it reads the children in the
  transaction that completes the parent.

### 5.4 The ledger (`BudgetLedgerProofs`)

For any executions, limits and caps: `TypeCorrect`, `DispatchesAreBounded`,
`ActiveTimeStaysBounded`. Calls: the set of reservations ever taken never shrinks and is compared
under the lock (`CallsWithinLimit`); what leaves is a subset. Time: the total less the overruns
counts each execution with at most its reserve; a reservation adds at most what the lock's comparison
admitted, because the total compared is no smaller; a settlement below the reserve gives
back, above it adds overrun only (`ReservesAreOpen` says that only an open reservation is settled). The
finite-set lemmas rest on `FiniteSetTheorems`.

### 5.5 LoRA training (`LoraTrainingProofs`)

For any runs, retries and faults: `TypeCorrect`, `TrainersAreReapedAtStart`, `SupervisorsHaveTheLock`, and
two that no run lists, `FailedJobsAreIdle` and `DoneRunsRest`. Lock and heartbeat are taken in the
order in which `Renewed` protects them (`SupervisedGpuIsTaken`); the reaper leaves a new supervisor's
container alone with those Docker refused, and a supervisor that says its container runs has one (`OwnInv`). `JobInv` and `RequestInv` are about time of check and time of use: what a retry, a
creation or the watchdog read is still so when it commits, except for cancellations.

### 5.6 Image generation (`ImageGenerationProofs`)

For any generations and retries: `TypeCorrect`, `RowsFinishTogether`,
`RunningGenerationsAreReachable`, `OnlyStaleTasksRevive`. The argument is a token: a generation has at most
one message, lost message or task (`TokenInv`), since a retry requires a failed job, and a failed job has
no token until its retry sends one (`FailedInv`). What the rows may
have become between a task's reads and its first commit (`StartingInv`), its last look and the result's commit
(`StoringInv`), and a request's reads and its commit (`RetryInv`, `CancelInv`), is then a short list. A message
that is thrown away takes the token with it, which is why `RunningIsReachable` and `FinishedTogether` except the
generations in `dropped`.

### 5.7 Script runs (`ScriptRunProofs`)

For any number of attempts and restarts: `TypeCorrect`, `CodeStartsOncePerLife`, `SuccessesAreReal`,
`TombstonesHold`. `TruthInv` follows a success from the job that ended well to the supervisor's entry,
the worker that heard of it, the row, the worker that settles and the step. `SupervisorInv` says that
a record guards the thread: without one nothing was started in this life, and a cancellation
that was taken up leaves one.

### 5.8 Chat turns (`ChatTurnProofs`)

For any number of calls and revisions, any gated and receipted calls, and any faults and actions of the owner:
`TypeCorrect`, `CallsLeaveOnce`, `ConfirmationsNameTheirCall`, `AnswersAreWhole`, and `TurnKeepsItsPromise`, that
`ChatTurnSpec` implements `TurnPromise!Spec`. That a call leaves once is told from the journal and
the workers together: `JournalInv` says that a call whose row is absent, planned or waiting for a confirmation has not
left, and that a started one has not left only while the worker its row names stands at the gate with it; the boundary
before the gate admits the former alone, and the dispatch ends the latter. `WordInv` follows the owner's word: a
decided attempt has ended, so its checkpoint stays as the owner saw it, a confirmed revision continues such a
checkpoint, and a confirmation held at the gate is for the call it named. `PlaceInv` and `CountInv` say what a worker
holds in each place (no confirmation before the gate, `GrantAfter`) and that attempts and revisions to come are
blank.

That answers are whole rests on `WholeInv`, which follows the calls that are still open: a running worker holds all of them
(`WriterInv`), the checkpoint it wrote last names them (`FrontierInv`), a revision that has written none goes on from one that
does, apart from the call a receipt stands in for (`SourceInv`), and after the answer nobody goes on (`AnswerInv`). For that, at
most one attempt runs (`RunningInv`), a second attempt exists only where the first wrote no boundary (`SecondInv`), and
a proof is consumed before its continuation writes anything (`SpentInv`). The refinement adds `BatchInv`, that the calls
behind the one in a worker's hand have not been started, so that a call leaves alone, and `TraceInv`, that what is under way
or has a receipt was sent. An effect cannot follow the outcome, since the recipient admits only a call that its
journal has as started and whose owner still runs, and such a call is not known. The step mapping has
one lemma per kind of step: a dispatch is `LeavesAlone`, a recipient's commit `TakesEffect`, a recorded outcome or an
accepted proof `Learn`, the saved answer `Reply`, an owner's confirmation `Allow`; every other action stutters
(`OthersKeepPromise`, from lemmas that say once what all of them leave alone). TLC checked each invariant before it was
proved.

### 5.9 Model-checked only

Liveness (`OrderComesToRest`, `ClaimsEnd`, `FamilyRests`, `QueuedRunsEnd`, `GenerationsEnd`,
`StepEnds`, `TurnRests`), since fairness and ENABLED are beyond the prover. Every safety property of a passing run is a
theorem, `SupersededPlanIsQuiet` under the hypothesis above. `LockIsFreed` (training) is stated and holds in TLC, but no
run lists it.

## 6. What is abstracted

Work orders and outbox:

- The tick is split into its passes, each an action that may happen at any time: more
  interleavings than the code has, none fewer.
- `source = "durable_chat"` is left out: `ChatTurn` has its executor.
- One deterministic criterion (`nonempty_result`) and `SemCount` semantic ones; what they
  judge is a choice.
- A capability's answer is a member of `AllOutcomes`: a 4xx, an HTTP timeout and an approval
  that does not match its call are "error"; a 5xx, a refused connection and a partial result with
  a checkpoint are "transient"; `unsettled` is an answer whose budget charge fails after the
  dispatch.
- `CanCharge` counts what the shared ledger still grants this order's replans; relatives that take
  from the same allowance are in `WorkFamily`, reservations and active time in `BudgetLedger`.
- Time: a lease expires, a retry becomes due and an approval lapses at any moment the
  code allows. `next_attempt_at`, of steps and outbox rows, is always possibly due.
- A planner's model, a recipient's answer, a person's decision are choices.
- `OwnerGate` is offered once per step, as a bound.
- The outbox's workers handle claims of a batch in sequence; the model lets them go on
  independently, which includes it. A worker killed between its commit and its call is the same as
  a request that is never delivered.
- Not modelled: plan contents, event log, notifications, metrics, digests and signatures
  (an equal digest is an equal snapshot), row formatting.

Families: `received`/`planning` and `ready`/`running` are one status each; a plan without a
decompose step runs and ends in one action; the claim and the start of a decompose step are
one; one tick at a time. Pauses, approvals and budgets of single orders are `WorkOrder`'s.

Ledger: tool attempts stand for provider calls too, which have a limit of the same form; tokens and costs,
repeated requests with one idempotency key, and lineages of several ledgers are left out; the replan
charge is in `WorkFamily`.

Script runs: one step and one order that runs or is canceled; a script that succeeds has
written files; `timed_out` is failed; a restarted supervisor reaches Docker for its cleanup; a container
that was created but not started and whose removal fails does nothing.

Training: the lane has one slot; one API request about a run at a time; what a session of the task reads and writes
at one go is one action, and the stop flag is set with its commit; a trainer outlasts a request,
and the setup is shorter than the heartbeat's time to live.

Images: a ComfyUI prompt dies with its task; one request about a generation at a time. Three times are taken to be
longer than the commit of a retry that was already sent: the countdown of a message that is put back, ComfyUI's
answer, and the broker's visibility timeout, which is longer than the task's limit too, as configured. A revocation reaches
the workers or not, and they remember it for as long as it matters or not: `Discard` may always come, and never has
to. What is generated is left out.

Chat: one turn, of which the next is a flag; gated calls have equal arguments, the worst case for a confirmation; the
rehydrated configuration, dialogue and digests are an error that may come anywhere; a continuation's wall clock is the
order's; streaming, attachments, archived conversations and Telegram replies are left out. A request that nobody answers
stays in flight and may be committed at any later time the recipient's check allows. A call that needs no receipt may have
any answer.

**Not modelled**, and why. By lines most of the repository is CAD recognition and model building,
catalogue and document extraction, providers, pages and request handlers over single rows: numeric
code over floating point and images, or pure input and output, in which there is no state to
interleave and nothing TLC could enumerate that a unit test does not reach. The map therefore covers a small
share of all lines, and nearly all of the code whose correctness rests on order, failure and
concurrency of the agent runtime, apart from what the plan lists.

## 7. Plan

Done: `WorkOrder` and `AgentOutbox` with their refinements, `WorkFamily`, `BudgetLedger`, `LoraTraining`,
`ImageGeneration`, `ScriptRun`, `ChatTurn` with its refinement, each with its run and its safety properties proved.

Next, in this order:

1. **Approval chains**, delegation and Telegram callbacks; agent cron.
2. Ledgers with an ancestor's limits, as instances of `BudgetLedger`; a second chat turn with a run of its own.
