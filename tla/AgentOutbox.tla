----------------------------- MODULE AgentOutbox -----------------------------
(***************************************************************************)
(* The transactional outbox for agent messages (domain/agent_outbox.py).   *)
(* A dispatcher leases due rows in one transaction; for each lease a       *)
(* worker revalidates the row, commits "sending" before an unsafe send,    *)
(* calls the transport without a transaction, and finishes the row by a    *)
(* compare-and-set.  Leases are not renewed: a slow worker may be           *)
(* overtaken by an heir while its request is still travelling.             *)
(***************************************************************************)
EXTENDS Naturals

CONSTANTS
  Row,                    \* rows, one per (owner, destination, dedup key)
  Idempotent,             \* rows whose adapter supports_idempotency
  MAX_DELIVERY_ATTEMPTS

ASSUME OutboxAssumption ==
  Idempotent \subseteq Row /\ MAX_DELIVERY_ATTEMPTS \in Nat \ {0}

VARIABLES
  state,      \* delivery_state
  attempts,
  lease,      \* lease_expires_at: none, in the future, passed
  worker,     \* deliver_outbox_claim, per claim
  request,    \* the claim's request on its way to the recipient
  effects     \* effects the recipient has seen

vars == <<state, attempts, lease, worker, request, effects>>

\* A claim of row r is named by the attempt it made.  The row's lease_token is
\* the token of its latest attempt, or NULL outside "leased" and "sending".
Attempt == 1..MAX_DELIVERY_ATTEMPTS
Claim == Row \X Attempt

DeliveryState == {"absent", "pending", "leased", "sending", "sent", "unknown",
                  "dead_letter"}
Final == {"sent", "unknown", "dead_letter"}
Answer == {"ok", "unavailable", "timeout", "error"}

TypeOK ==
  /\ state \in [Row -> DeliveryState]
  /\ attempts \in [Row -> 0..MAX_DELIVERY_ATTEMPTS]
  /\ lease \in [Row -> {"none", "live", "expired"}]
  /\ worker \in [Claim -> {"idle", "claimed", "calling", "done"} \cup Answer]
  /\ request \in [Claim -> {"none", "open", "delivered", "refused"}]
  /\ effects \in [Row -> Nat]

Init ==
  /\ state = [r \in Row |-> "absent"] /\ attempts = [r \in Row |-> 0]
  /\ lease = [r \in Row |-> "none"]
  /\ worker = [c \in Claim |-> "idle"] /\ request = [c \in Claim |-> "none"]
  /\ effects = [r \in Row |-> 0]

\* produce_agent_outbox: a second request with the same dedup key returns the
\* row that exists, or is refused, and changes nothing.
Produce(r) ==
  /\ state[r] = "absent"
  /\ state' = [state EXCEPT ![r] = "pending"]
  /\ UNCHANGED <<attempts, lease, worker, request, effects>>

-----------------------------------------------------------------------------
(* The dispatcher.                                                         *)

Overdue(r) == lease[r] = "expired"

\* sweep_expired_non_idempotent_sends: a send nobody answered for.
Swept(r) == state[r] = "sending" /\ Overdue(r)
\* Variant: rows of dead workers are never given up.
ExhaustedNever(r) == FALSE
Exhausted(r) ==
  /\ state[r] = "leased" /\ Overdue(r)
  /\ attempts[r] >= MAX_DELIVERY_ATTEMPTS

\* Variant: an abandoned send claimed again like any other lease.
ClaimableAnyLease(r) ==
  /\ attempts[r] < MAX_DELIVERY_ATTEMPTS
  /\ state[r] = "pending" \/ (state[r] \in {"leased", "sending"} /\ Overdue(r))
\* (When next_attempt_at comes is left open: any moment may be due.)
Claimable(r) ==
  /\ attempts[r] < MAX_DELIVERY_ATTEMPTS
  /\ state[r] = "pending" \/ (state[r] = "leased" /\ Overdue(r))

\* claim_due_outbox: sweep, give up exhausted rows, lease a batch; one
\* transaction.
ClaimDue(Batch) ==
  /\ \A r \in Batch : Claimable(r)
  /\ state' = [r \in Row |-> IF r \in Batch THEN "leased"
                             ELSE IF Swept(r) THEN "unknown"
                             ELSE IF Exhausted(r) THEN "dead_letter" ELSE state[r]]
  /\ attempts' = [r \in Row |-> IF r \in Batch THEN attempts[r] + 1 ELSE attempts[r]]
  /\ lease' = [r \in Row |-> IF r \in Batch THEN "live"
                             ELSE IF Swept(r) \/ Exhausted(r) THEN "none"
                             ELSE lease[r]]
  /\ worker' = [c \in Claim |-> IF c[1] \in Batch /\ c[2] = attempts[c[1]] + 1
                                THEN "claimed" ELSE worker[c]]
  /\ UNCHANGED <<request, effects>>

\* deliver_due_outbox with an empty adapter registry: only the sweep.
SweepOnly ==
  /\ state' = [r \in Row |-> IF Swept(r) THEN "unknown" ELSE state[r]]
  /\ lease' = [r \in Row |-> IF Swept(r) THEN "none" ELSE lease[r]]
  /\ UNCHANGED <<attempts, worker, request, effects>>

-----------------------------------------------------------------------------
(* A worker with one claim.                                                *)

\* Variant: the compare-and-set without the lease token.
HoldsAnyToken(c, expected) == state[c[1]] = expected
\* The condition of every fenced update: this state, under this token.
Holds(c, expected) == state[c[1]] = expected /\ attempts[c[1]] = c[2]

\* _finish_claim.
Finish(c, new) ==
  /\ state' = [state EXCEPT ![c[1]] = new]
  /\ lease' = [lease EXCEPT ![c[1]] = "none"]

\* deliver_outbox_claim, first transaction.  ok: binding, resource, approval
\* and adapter are all still there.
Validate(c, ok) ==
  LET r == c[1]
      current == Holds(c, "leased") /\ lease[r] = "live" IN
  /\ worker[c] = "claimed"
  /\ worker' = [worker EXCEPT ![c] = IF current /\ ok THEN "calling" ELSE "done"]
  /\ request' = [request EXCEPT ![c] = IF current /\ ok THEN "open" ELSE @]
  /\ \/ current /\ ~ok /\ Finish(c, "dead_letter")
     \/ /\ current /\ ok /\ UNCHANGED lease
        /\ state' = [state EXCEPT ![r] = IF r \in Idempotent THEN @ ELSE "sending"]
     \/ ~current /\ UNCHANGED <<state, lease>>
  /\ UNCHANGED <<attempts, effects>>

\* adapter.send ends.  OutboxRecipientUnavailable is a proof that nothing was
\* accepted; a timeout or another error says nothing about the request.
SendEnds(c, o) ==
  /\ worker[c] = "calling"
  /\ o = "ok" => request[c] = "delivered"
  /\ o = "unavailable" => request[c] # "delivered"
  /\ worker' = [worker EXCEPT ![c] = o]
  /\ request' = [request EXCEPT ![c] = IF o = "unavailable" THEN "refused" ELSE @]
  /\ UNCHANGED <<state, attempts, lease, effects>>

\* Variant: an ambiguous error taken for a refusal.
VerdictHopeful(c) ==
  CASE worker[c] = "ok" -> "sent"
    [] worker[c] = "timeout" /\ c[1] \notin Idempotent -> "unknown"
    [] worker[c] = "timeout" /\ c[1] \in Idempotent -> "pending"
    [] OTHER -> "dead_letter"

\* What an answer makes of the row.  A timeout is retried without a look at
\* the attempts.
Verdict(c) ==
  CASE worker[c] = "ok" -> "sent"
    [] worker[c] = "unavailable" -> "dead_letter"
    [] worker[c] \in {"timeout", "error"} /\ c[1] \notin Idempotent -> "unknown"
    [] /\ worker[c] = "error" /\ c[1] \in Idempotent
       /\ c[2] >= MAX_DELIVERY_ATTEMPTS -> "dead_letter"
    [] OTHER -> "pending"

\* deliver_outbox_claim, second transaction; a stale worker changes nothing.
FinishClaim(c) ==
  /\ worker[c] \in Answer
  /\ worker' = [worker EXCEPT ![c] = "done"]
  /\ LET expected == IF c[1] \in Idempotent THEN "leased" ELSE "sending" IN
       \/ Holds(c, expected) /\ Finish(c, Verdict(c))
       \/ ~Holds(c, expected) /\ UNCHANGED <<state, lease>>
  /\ UNCHANGED <<attempts, request, effects>>

-----------------------------------------------------------------------------
(* The environment.                                                        *)

\* The recipient acts on a request, in its own time; an idempotent one has
\* one effect per row, however often it is asked.
Deliver(c) ==
  LET r == c[1] IN
  /\ request[c] = "open"
  /\ request' = [request EXCEPT ![c] = "delivered"]
  /\ effects' = [effects EXCEPT ![r] = IF r \in Idempotent THEN 1 ELSE @ + 1]
  /\ UNCHANGED <<state, attempts, lease, worker>>

\* A lease of lease_seconds runs out, whether its worker lives or not.
ExpireLease(r) ==
  /\ lease[r] = "live"
  /\ lease' = [lease EXCEPT ![r] = "expired"]
  /\ UNCHANGED <<state, attempts, worker, request, effects>>

\* A worker is killed at any point.
Crash(c) ==
  /\ worker[c] \notin {"idle", "done"}
  /\ worker' = [worker EXCEPT ![c] = "done"]
  /\ UNCHANGED <<state, attempts, lease, request, effects>>

WorkerStep(c) ==
  \/ \E ok \in BOOLEAN : Validate(c, ok)
  \/ \E o \in Answer : SendEnds(c, o)
  \/ FinishClaim(c)

Next ==
  \/ \E r \in Row : Produce(r) \/ ExpireLease(r)
  \/ \E Batch \in SUBSET Row : ClaimDue(Batch)
  \/ SweepOnly
  \/ \E c \in Claim : WorkerStep(c) \/ Deliver(c) \/ Crash(c)

Spec == Init /\ [][Next]_vars
=============================================================================
