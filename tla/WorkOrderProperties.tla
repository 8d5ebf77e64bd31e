------------------------ MODULE WorkOrderProperties ------------------------
(***************************************************************************)
(* What the work-order runtime promises: the invariants, action properties *)
(* and liveness properties the runs check, each with the code or document  *)
(* it comes from.                                                          *)
(***************************************************************************)
EXTENDS WorkOrder

Settled == {a \in Attempt : attempt[a] \notin {"none", "running"}}

\* E25: once an attempt is abandoned with its receipt on record, the call is
\* known as happened and the step is never claimed again, however the dead
\* worker's request, its late commit and reclaim interleave
\* (_settle_abandoned_calls, effect_fence._check_and_record).
AbandonedReceiptIsFinal ==
  \A a \in Attempt :
    /\ attempt[a] = "abandoned"
    /\ request[a] = "committed"
    => /\ call[a] = "reconciled_happened"
       /\ count[a[1]] = a[2]
       /\ step[a[1]] = "failed"

\* A worker that lost its lease changes nothing: the row of an attempt that
\* was settled or abandoned is never rewritten (attempt_owns_lease).
SettledAttemptIsFinal ==
  [][\A a \in Settled : attempt'[a] = attempt[a]]_vars

\* No attempt is settled with its call left open: every path that ends an
\* attempt also ends its journalled tool call.
SettledAttemptClosesItsCall ==
  \A a \in Settled : call[a] \notin {"prepared", "running"}

\* A running step is run by its latest attempt, whose row is still open:
\* what reclaim and attempt_owns_lease rely on.
RunningStepHasItsAttempt ==
  \A s \in Executing : count[s] > 0 /\ attempt[Current(s)] = "running"

\* E23a: no plan revision is made while some effect's outcome is unknown; a
\* new plan could repeat it (unresolved_effect_call_ids).
NoPlanOverUnknownEffect == [][rev' # rev => Unresolved(call) = {}]_vars

\* E22: an acknowledged pause means nothing executes.
PausedMeansQuiet == status = "paused" => Executing = {}

\* E23b: nothing of a superseded revision runs, resumes or waits for a
\* decision any more (_retire_superseded_steps).
SupersededPlanIsQuiet ==
  \A s \in Step : s[1] < rev =>
    /\ step[s] \in {"absent", "succeeded", "failed", "canceled"}
    /\ approval[s] # "pending"

\* A step is claimed only when everything it depends on has succeeded, and
\* no dependency is taken back afterwards (promote_ready_dependents).
DependenciesComeFirst ==
  \A s \in Step : count[s] > 0 => \A d \in DepsOf(s) : step[d] = "succeeded"

\* A completed order has passed every required criterion and finished every
\* step of its active plan, whichever verifier completed it.
CompletedIsWhole ==
  status = "completed" =>
    /\ \A c \in Criterion : criterion[c] = "passed"
    /\ \A s \in PlanSteps : step[s] = "succeeded"

\* An ended order comes back only by the budget pass's write of a row it read
\* before the end: no late worker, planner, verifier or person reopens it
\* (transition_work_order; enforce_budgets).
OnlyStaleBudgetReopens ==
  [][(status \in {"completed", "canceled"}) /\ status' # status
       => candidate /\ ~candidate' /\ status' = "blocked"]_vars

\* Every revision after the first was paid for: by a replan charged to the
\* shared ledger within both limits, or by an owner's instruction.
RevisionsArePaidFor ==
  /\ rev <= 1 + Cardinality(charged) + instructions
  /\ Cardinality(charged) <= LedgerReplans
  /\ \A r \in charged : r <= MaxReplans

-----------------------------------------------------------------------------
(* The order as the promise of its effects sees it.                        *)

\* The attempt that owns the lease of its step.
Holder == [s \in Step |-> IF step[s] = "running" /\ lease[s] = "live" THEN count[s] ELSE 0]
\* What the call of a settled attempt says of it.
CallSays(a) ==
  IF call[a] \in UNRESOLVED_EFFECT_STATUSES THEN "unknown"
  ELSE IF call[a] \in {"reconciled_happened", "reconciled_not_happened"}
       THEN IF attempt[a] = "abandoned" /\ request[a] = "committed" THEN "happened" ELSE "reconciled"
  ELSE IF attempt[a] \in {"abandoned", "waiting_approval"} \/ request[a] = "none"
       THEN "absent" ELSE "answered"
\* What the rows say of an attempt.
Told ==
  [a \in Attempt |->
     IF attempt[a] = "none" THEN "none"
     ELSE IF attempt[a] = "running"
          THEN IF step[a[1]] = "running" /\ a[2] = count[a[1]] THEN "none" ELSE "withdrawn"
     ELSE IF attempt[a] = "succeeded" THEN "happened" ELSE CallSays(a)]

Effects == INSTANCE EffectPromise
  WITH Limit <- AttemptBound, revision <- rev, open <- status \in {"running", "replanning"},
       given <- count, holder <- Holder, told <- Told,
       sent <- {a \in Attempt : request[a] # "none"},
       effects <- {a \in Attempt : request[a] \in Effective}

\* Effects happen under the authority of one attempt at a time, what is said of
\* them is true and final, no step is repeated over an effect on record or unknown,
\* and no plan is made over one (claim_ready_step, attempt_owns_lease,
\* prepare_tool_attempt, effect_fence, _settle_abandoned_calls, create_work_plan).
EffectsKept == Effects!Spec

-----------------------------------------------------------------------------
(* Promises of a document or a comment that the code does not keep; each is *)
(* checked by a run of its own, and listed in the README.                  *)

\* The operator guide: completed and canceled are terminal.
TerminalStatusIsFinal ==
  [][(status \in {"completed", "canceled"}) => status' = status]_vars

\* E25: no attempt is left behind with its call running, and another sends it
\* again (the owner's gate takes a running step from its worker).
OvertakenAttemptsEnd == \A a \in Attempt : a[2] < count[a[1]] => attempt[a] # "running"

\* E25: an order with an effect of unknown outcome stays blocked until its
\* owner has reconciled it.
BlockedUntilReconciled ==
  [][status = "blocked" /\ Unresolved(call) # {} => status' = "blocked"]_vars

\* A step that waits for a person's decision can be decided: while the order
\* goes on, a decision is not answered 409 (apply_approval_decision).
WaitingStepCanBeDecided ==
  status \in {"ready", "running"} =>
    \A s \in PlanSteps : step[s] # "waiting_approval"

\* record_verifier_verdict: a verdict lands only on a result that waits for
\* it; an order completed by verdicts has a result.
CompletedHasResult == status = "completed" => PlanSteps # {}

-----------------------------------------------------------------------------
(* Fairness: Celery runs the dispatch tick every 5 s, which queues planning,
   claims and verification; a worker that is alive goes on; a request is
   answered or times out; a lease nobody renews runs out.  People, and
   faults, owe nothing. *)
Fairness ==
  /\ \A s \in Step :
       /\ WF_vars(ClaimReadyStep(s))
       /\ WF_vars(ExpireLease(s) /\ (step[s] = "running" => worker[Current(s)] \in {"dead", "done"}))
       /\ WF_vars(ReclaimExpiredLease(s))
  /\ \A a \in Attempt : WF_vars(Execute(a))
  /\ WF_vars(AcknowledgePause) /\ WF_vars(Unstick)
  /\ WF_vars(PlannerDispatch)
  /\ WF_vars(\E p \in planner : PlannerStale(p) \/ \E K \in Plans : PlannerApply(p, K))
  /\ WF_vars(/\ status = "running"
             /\ \E s \in Step : \/ PromoteDependents(s)
                                \/ \E ok \in BOOLEAN : VerifyResult(s, ok))
  /\ WF_vars(VerifierRead) /\ WF_vars(VerifierStale)
  /\ WF_vars(\E V \in SUBSET (1..SemCount) : VerifierRecord(V))

FairSpec == Spec /\ Fairness

\* The runtime never forgets an order: it ends, or waits for a person.
Resting == {"completed", "canceled", "blocked", "failed", "paused",
            "waiting_approval"}
OrderComesToRest == status \notin Resting ~> status \in Resting

\* E22: resuming restores the working state; planning that was resumed ends.
PlanningEnds == status \in PLANNABLE_STATUSES ~> status \notin PLANNABLE_STATUSES
=============================================================================
