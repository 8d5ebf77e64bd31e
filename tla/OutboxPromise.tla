---------------------------- MODULE OutboxPromise ----------------------------
(***************************************************************************)
(* What the agent outbox promises of every accepted row, whatever workers, *)
(* leases and transports do: its recipient sees at most one effect, and    *)
(* what is recorded about it is true and final.                            *)
(***************************************************************************)
EXTENDS Naturals

CONSTANTS
  Row,         \* outbox rows, one per (owner, destination, dedup key)
  Idempotent   \* rows whose recipient deduplicates by the row's id

VARIABLES
  outcome,     \* what the outbox row says
  effects      \* effects the recipient has seen

Outcome == {"absent", "open", "sent", "unknown", "dead_letter"}

Init ==
  /\ outcome = [r \in Row |-> "absent"]
  /\ effects = [r \in Row |-> 0]

Accept(r) ==
  /\ outcome[r] = "absent" /\ outcome'[r] = "open"
  /\ effects'[r] = effects[r]

\* The one effect.  An undelivered message to a recipient that cannot
\* deduplicate is never delivered afterwards.
Take(r) ==
  /\ outcome[r] # "absent" /\ effects[r] = 0
  /\ r \in Idempotent \/ outcome[r] # "dead_letter"
  /\ effects'[r] = 1 /\ outcome'[r] = outcome[r]

\* The row's final word: "sent" only of what arrived, "dead_letter" only of
\* what did not (an idempotent recipient may yet have got it), and "unknown"
\* only of a recipient that cannot deduplicate.
Conclude(r) ==
  /\ outcome[r] = "open" /\ effects'[r] = effects[r]
  /\ \/ outcome'[r] = "sent" /\ effects[r] = 1
     \/ outcome'[r] = "unknown" /\ r \notin Idempotent
     \/ outcome'[r] = "dead_letter" /\ (r \in Idempotent \/ effects[r] = 0)

Stay(r) == outcome'[r] = outcome[r] /\ effects'[r] = effects[r]

\* One pass of the dispatcher concludes several rows at once.
Next ==
  /\ outcome' \in [Row -> Outcome] /\ effects' \in [Row -> {0, 1}]
  /\ \A r \in Row : Accept(r) \/ Take(r) \/ Conclude(r) \/ Stay(r)

Spec == Init /\ [][Next]_<<outcome, effects>>
=============================================================================
