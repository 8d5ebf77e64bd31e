----------------------- MODULE AgentOutboxProperties -----------------------
(***************************************************************************)
(* What the agent outbox promises, as invariants, a refinement and         *)
(* liveness properties.                                                    *)
(***************************************************************************)
EXTENDS AgentOutbox

Outcome == [r \in Row |-> IF state[r] \in {"pending", "leased", "sending"}
                          THEN "open" ELSE state[r]]
Promise == INSTANCE OutboxPromise WITH outcome <- Outcome

\* The outbox implements its promise: at most one effect per row, and a final
\* word about it that is true and never rewritten, whichever workers were
\* overtaken, killed or answered late (_finish_claim,
\* _mark_non_idempotent_send_started).
PromiseKept == Promise!Spec

\* E14: to a recipient that cannot deduplicate, no second request leaves,
\* whatever became of the first ("sending" is not reclaimable).
UnsafeSendLeavesOnce ==
  \A c, d \in Claim :
    c[1] = d[1] /\ c[1] \notin Idempotent /\ request[c] # "none" /\ request[d] # "none"
    => c = d

\* A lease that has not run out is ended by its holder alone: a worker that was
\* overtaken, and answers late, does not take the row from its heir
\* (_finish_claim, _mark_non_idempotent_send_started).
HeirIsUndisturbed ==
  [][\A r \in Row :
       state[r] \in {"leased", "sending"} /\ lease[r] = "live" /\ lease'[r] = "none"
       => worker'[<<r, attempts[r]>>] # worker[<<r, attempts[r]>>]]_vars

-----------------------------------------------------------------------------
(* Fairness: Celery beat runs deliver_due every 30 seconds, a worker that   *)
(* is alive goes on, time passes.  Recipients and crashes owe nothing.      *)
Fairness ==
  /\ \A r \in Row :
       /\ WF_vars(ExpireLease(r))
       /\ WF_vars(\E Batch \in SUBSET Row : r \in Batch /\ ClaimDue(Batch))
  /\ WF_vars(ClaimDue({}))
  /\ \A c \in Claim : WF_vars(WorkerStep(c))

FairSpec == Spec /\ Fairness

\* No row stays in the hands of a worker: whoever dies or is overtaken, the
\* row is finished, retried or given up (claim_due_outbox).
ClaimsEnd ==
  \A r \in Row : (state[r] \in {"leased", "sending"}) ~> (state[r] \notin {"leased", "sending"})

\* E14: a message is repeated with at most five attempts, and then it is over;
\* no row is left undecided (claim_due_outbox).  The code does not keep this.
RowsAreDecided == \A r \in Row : (state[r] # "absent") ~> (state[r] \in Final)
=============================================================================
