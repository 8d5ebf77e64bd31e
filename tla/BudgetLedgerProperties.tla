----------------------- MODULE BudgetLedgerProperties -----------------------
(***************************************************************************)
(* What the shared budget ledger promises.                                 *)
(***************************************************************************)
EXTENDS BudgetLedger

\* However many executions of the family reserve at once, crash or lose their
\* lease, no more calls leave than the family was allowed
\* (reserve_budget_for_dispatch, prepare_tool_attempt).
Dispatched == {c \in Call : call[c] \in {"dispatched", "charged", "unsettled"}}
DispatchesWithinLimit == Cardinality(Dispatched) <= CallLimit

\* E21: the family's active time exceeds its limit by no more than what single
\* executions ran over the time they had reserved, although each computed its
\* reserve from a total it had read without the lock (_reserve_active_time,
\* settle_budget).
Overrun ==
  UNION {{a} \X ((time[a].units + 1)..time[a].actual) : a \in Attempt}
ActiveTimeIsBounded == Cardinality(Seconds(time) \ Overrun) <= ActiveLimit

-----------------------------------------------------------------------------
\* E21-active-time: a step is refused, and its order blocked, when no active
\* time is left.  The code does not keep this.
RefusedWhenSpent ==
  [][\A a \in Attempt : phase'[a] = "refused" /\ phase[a] # "refused"
       => ActiveUsage(time) >= ActiveLimit]_vars
=============================================================================
