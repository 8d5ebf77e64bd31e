------------------------- MODULE ChatTurnProperties -------------------------
(***************************************************************************)
(* What a durable chat turn promises: invariants and a liveness property,  *)
(* each with the code or document it comes from.                           *)
(***************************************************************************)
EXTENDS ChatTurn

\* No automatic replay: a call leaves at most once, whatever crashed, stopped,
\* was confirmed or was continued, and however many attempts and revisions
\* the turn took ("Unknown action outcome cannot be replayed",
\* record_boundary; "Fence a restored committed action out of the executable
\* pending tail", validate_verified_commit_executor_state).
NothingLeavesTwice == \A c \in Call : sent[c] <= 1

\* "One explicit confirmation never authorizes another call with identical
\* arguments": each gated call that left was named by a checkpoint whose
\* confirmation its owner gave (_execute_tools_sequential, require_confirmation).
GatedOnTheOwnersWord ==
  \A c \in Gated : sent[c] > 0 =>
    \E a \in Attempt : /\ checkpoint[a].phase = "confirmation" /\ checkpoint[a].call = c
                       /\ decision[a] \in {"approved", "lapsed"}

\* An answer is given over a whole journal: every call that was planned has its
\* result recorded, except those that a receipt stood in for (_run_durable_chat,
\* verified_commit_continuation_state).
AnswerIsWhole ==
  answer => \A c \in Call :
    \/ action[c] \in {"absent", "result_recorded"}
    \/ c \in receipts /\ owner[c] \in consumed

-----------------------------------------------------------------------------
(* The turn as its promise sees it.                                        *)

\* Gated calls that their owner confirmed by name.
Allowed ==
  {c \in Gated : \E a \in Attempt :
     /\ checkpoint[a].phase = "confirmation" /\ checkpoint[a].call = c
     /\ decision[a] \in {"approved", "lapsed"}}
\* Calls that left and have their result, or a receipt that stands in for it.
Known ==
  {c \in Call : /\ sent[c] > 0
                /\ \/ action[c] = "result_recorded"
                   \/ c \in receipts /\ owner[c] \in consumed}

Promise == INSTANCE TurnPromise
  WITH allowed <- Allowed, committed <- receipts, known <- Known, answered <- answer

\* Calls leave one after the other, each once and a gated one with its owner's
\* word; the next leaves when the outcome of the last is known; nothing leaves, and no
\* fenced effect lands, after the answer or once its outcome is known (record_boundary,
\* _execute_tools_sequential, prepare_proposal_receipt, _verified_commit_resume).
TurnKept == Promise!Spec

-----------------------------------------------------------------------------
(* A promise the code does not keep; the README lists it.                  *)

\* agent_intake: "A durable turn is already active in this conversation".
OneActiveTurn == ~(ActiveTurn /\ later)

-----------------------------------------------------------------------------
(* Fairness: a living worker goes on, the 5 s dispatch tick claims, verifies,
   acknowledges and reclaims, and an unrenewed lease runs out.  The owner, the
   verdict and the faults owe nothing. *)
Fairness ==
  /\ WF_vars(Claim) /\ WF_vars(VerifyCompletedStep) /\ WF_vars(AcknowledgePause)
  /\ \A a \in Attempt : WF_vars(Work(a))
  /\ \A r \in Revision : WF_vars(ExpireLease(r) /\ at[Holder(r)] = "gone")
                         /\ WF_vars(Reclaim(r))
FairChatTurnSpec == ChatTurnSpec /\ Fairness

\* A turn ends or waits for its owner: the scheduler, the leases and the
\* retries never leave it ready or running for ever.
TurnRests == status \in {"ready", "running"} ~> status \notin {"ready", "running"}
=============================================================================
