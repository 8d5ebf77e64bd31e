------------------------------ MODULE ChatTurn ------------------------------
(***************************************************************************)
(* One durable chat turn.  Its work order has one step at a time, whose    *)
(* worker lets the agent think and send tool calls one by one, and saves a *)
(* checkpoint with the journal of its actions at every boundary.  A turn   *)
(* that stopped is never replayed: its owner may confirm the call it       *)
(* stopped at, or accept a call whose receipt proves that it was committed *)
(* although its answer was lost; either makes a new revision that goes on  *)
(* with the calls left.                                                    *)
(*                                                                         *)
(* Calls are numbered in the order the agent asks for them, workers are    *)
(* named by their attempt.  Digests, configuration and text are left out;  *)
(* a chat order has no replans, so a failure blocks it.                    *)
(***************************************************************************)
EXTENDS Naturals, FiniteSets

CONSTANTS
  N,              \* calls the agent may ask for
  Gated,          \* calls that need a confirmation; their arguments are equal
  Receipted,      \* calls whose recipient writes a receipt with its effect
  RevisionBound,  \* model bound: plan revisions
  Faults,         \* what may go wrong, a subset of AllFaults
  Owner           \* what the owner may do, a subset of AllOwner

AllFaults == {"crash", "stall", "error", "transient", "lapse", "wall_clock"}
AllOwner == {"pause", "cancel", "continue", "verdict", "new_turn"}

ASSUME CallAssumption ==
  N \in Nat /\ Gated \subseteq 1..N /\ Receipted \subseteq 1..N
ASSUME BoundAssumption == RevisionBound \in Nat \ {0}
ASSUME WorldAssumption == Faults \subseteq AllFaults /\ Owner \subseteq AllOwner

Call == 1..N
Revision == 1..RevisionBound
Attempt == Revision \X {1, 2}
NoAttempt == <<0, 0>>
NoCall == 0

VARIABLES
  status, pause, wall, rev,     \* the work order
  step, count, lease, origin,   \* the step of each revision
  attempt, checkpoint,          \* its attempts
  action, owner,                \* the journal: chat_logical_actions
  receipts,                     \* calls with a receipt of their commit
  decision, consumed,           \* the owner's word on an attempt's checkpoint
  at, pend, granted, result,    \* the worker of each attempt
  flight,                       \* receipted calls on their way
  answer,                       \* run.result_message_id
  later,                        \* the conversation has moved on to another turn
  sent                          \* history: how often a call left

orderVars  == <<status, pause, wall, rev>>
stepVars   == <<step, count, lease, origin>>
journal    == <<attempt, checkpoint, action, owner>>
wordVars   == <<decision, consumed>>
workerVars == <<at, pend, granted, result>>
callVars   == <<receipts, flight, sent>>
vars == <<orderVars, stepVars, journal, wordVars, workerVars, callVars, answer, later>>

OrderStatus == {"ready", "running", "waiting_approval", "blocked", "paused",
                "completed", "canceled"}
\* "checked": it succeeded, and the deterministic verification looked at it.
StepState == {"none", "ready", "running", "retry_wait", "waiting_approval",
              "succeeded", "checked", "failed", "canceled"}
AttemptStatus == {"none", "running", "succeeded", "failed", "abandoned", "canceled",
                  "partial", "outcome_unknown", "waiting_approval"}
\* A nonterminal result keeps its name in the journal.
Nonterminal == {"partial", "outcome_unknown", "waiting_approval"}
RECORDED == {"result_recorded"} \cup Nonterminal
ActionStatus == {"absent", "planned", "started", "waiting_confirmation"} \cup RECORDED
Phase == {"none", "target", "planned", "started", "confirmation", "recorded", "finished"}
Checkpoint == [phase : Phase, call : Call \cup {NoCall}, pend : SUBSET Call]
NoCheckpoint == [phase |-> "none", call |-> NoCall, pend |-> {}]
Origin == [kind : {"none", "prompt", "confirm", "verified"},
           source : Attempt \cup {NoAttempt}]
\* Where a worker is.  In the places of Executing the agent runs, and a stop
\* ends in "raised", "transient", "nonterminal" or "waiting".
Executing == {"prepared", "thinking", "batch", "next", "gate", "sent", "answered",
              "finished"}
Place == {"none", "claimed", "saved", "raised", "transient", "nonterminal", "waiting",
          "gone"} \cup Executing

TypeOK ==
  /\ status \in OrderStatus /\ pause \in BOOLEAN
  /\ wall \in {"open", "spent", "read"} /\ rev \in Revision
  /\ step \in [Revision -> StepState] /\ count \in [Revision -> 0..2]
  /\ lease \in [Revision -> {"none", "held", "expired"}]
  /\ origin \in [Revision -> Origin]
  /\ attempt \in [Attempt -> AttemptStatus]
  /\ checkpoint \in [Attempt -> Checkpoint]
  /\ action \in [Call -> ActionStatus]
  /\ owner \in [Call -> Attempt \cup {NoAttempt}]
  /\ receipts \subseteq Receipted
  /\ decision \in [Attempt -> {"none", "declined", "approved", "lapsed"}]
  /\ consumed \subseteq Attempt
  /\ at \in [Attempt -> Place] /\ pend \in [Attempt -> SUBSET Call]
  /\ granted \in [Attempt -> BOOLEAN]
  /\ result \in [Attempt -> {"none", "done"} \cup Nonterminal]
  /\ flight \subseteq Receipted
  /\ answer \in BOOLEAN /\ later \in BOOLEAN
  /\ sent \in [Call -> Nat]

\* The intake: message, order and first plan in one transaction.
Init ==
  /\ status = "ready" /\ pause = FALSE /\ wall = "open" /\ rev = 1
  /\ step = [r \in Revision |-> IF r = 1 THEN "ready" ELSE "none"]
  /\ count = [r \in Revision |-> 0] /\ lease = [r \in Revision |-> "none"]
  /\ origin = [r \in Revision |->
       [kind |-> IF r = 1 THEN "prompt" ELSE "none", source |-> NoAttempt]]
  /\ attempt = [a \in Attempt |-> "none"]
  /\ checkpoint = [a \in Attempt |-> NoCheckpoint]
  /\ action = [c \in Call |-> "absent"] /\ owner = [c \in Call |-> NoAttempt]
  /\ receipts = {} /\ decision = [a \in Attempt |-> "none"] /\ consumed = {}
  /\ at = [a \in Attempt |-> "none"] /\ pend = [a \in Attempt |-> {}]
  /\ granted = [a \in Attempt |-> FALSE] /\ result = [a \in Attempt |-> "none"]
  /\ flight = {} /\ answer = FALSE /\ later = FALSE
  /\ sent = [c \in Call |-> 0]

-----------------------------------------------------------------------------
(* What the handlers share.                                                *)

MaxAttempts(r) == IF origin[r].kind = "verified" THEN 2 ELSE 1
Holder(r) == <<r, count[r]>>
Source(a) == origin[a[1]].source
Head(a) == CHOOSE c \in pend[a] : \A d \in pend[a] : c <= d

\* attempt_owns_lease
OwnsLease(a) ==
  /\ step[a[1]] = "running" /\ attempt[a] = "running"
  /\ a[2] = count[a[1]] /\ lease[a[1]] = "held"

\* active in _run_durable_chat, save_snapshot, and the budget's _active_ledger.
Active(a) == status = "running" /\ OwnsLease(a) /\ wall = "open"
CanSave(a) == Active(a) /\ a[1] = rev
CanSpend(a) == status = "running" /\ OwnsLease(a) /\ a[1] = rev

\* record_boundary's conditions on the pending calls.
Plannable(a) == \A c \in pend[a] : action[c] \notin RECORDED \cup {"started"}
Startable(a) == /\ \A c \in pend[a] : action[c] \notin RECORDED
                /\ action[Head(a)] \in {"planned", "waiting_confirmation"}

\* The calls left by the checkpoint the owner's word is about: a confirmation
\* goes on with the call it stopped at, a proved commit without it.
\* Variant: without the rest of the batch.
RestoredAlone(s) == IF checkpoint[s].phase = "confirmation" THEN {checkpoint[s].call} ELSE {}
Restored(s) == IF checkpoint[s].phase = "confirmation" THEN checkpoint[s].pend
               ELSE checkpoint[s].pend \ {checkpoint[s].call}

\* A proved commit is consumed once; only the attempt after one that was
\* abandoned between consuming it and its first boundary may use it again.
Recovering(a) == /\ a[2] = 2 /\ attempt[<<a[1], 1>>] = "abandoned"
                 /\ checkpoint[<<a[1], 1>>].phase = "target"
Admitted(a) ==
  /\ a[1] = rev
  /\ CASE origin[a[1]].kind = "prompt"  -> TRUE
       [] origin[a[1]].kind = "confirm" -> decision[Source(a)] = "approved"
       [] OTHER -> /\ decision[Source(a)] = "approved" /\ ~later
                   /\ Source(a) \in consumed => Recovering(a)

Leave(a) ==
  /\ at' = [at EXCEPT ![a] = "gone"] /\ pend' = [pend EXCEPT ![a] = {}]
  /\ granted' = [granted EXCEPT ![a] = FALSE] /\ result' = [result EXCEPT ![a] = "none"]
Move(a, place) ==
  at' = [at EXCEPT ![a] = place] /\ UNCHANGED <<pend, granted, result>>

-----------------------------------------------------------------------------
(* The step is claimed, and the agent is brought to where it stopped.      *)

\* claim_ready_step
Claim ==
  /\ status \in {"ready", "running"} /\ ~pause
  /\ step[rev] \in {"ready", "retry_wait"}
  /\ status' = "running"
  /\ step' = [step EXCEPT ![rev] = "running"]
  /\ count' = [count EXCEPT ![rev] = @ + 1]
  /\ lease' = [lease EXCEPT ![rev] = "held"]
  /\ attempt' = [attempt EXCEPT ![<<rev, count[rev] + 1>>] = "running"]
  /\ at' = [at EXCEPT ![<<rev, count[rev] + 1>>] = "claimed"]
  /\ UNCHANGED <<pause, wall, rev, origin, checkpoint, action, owner, wordVars,
                 pend, granted, result, callVars, answer, later>>

\* The two transactions of _execute_claimed_step before the executor runs; an
\* order that is not running leaves the lease to expire.
Prepare(a) ==
  /\ at[a] = "claimed"
  /\ IF status = "running" /\ OwnsLease(a) THEN Move(a, "prepared") ELSE Leave(a)
  /\ UNCHANGED <<orderVars, stepVars, journal, wordVars, callVars, answer, later>>

HydratePrompt(a) ==
  /\ at[a] = "prepared" /\ Active(a) /\ Admitted(a)
  /\ origin[a[1]].kind = "prompt"
  /\ Move(a, "thinking")
  /\ UNCHANGED <<orderVars, stepVars, journal, wordVars, callVars, answer, later>>

\* The continuation's event names the checkpoint; that the conversation has not
\* moved on is checked when it is decided, not here.
HydrateConfirmed(a) ==
  /\ at[a] = "prepared" /\ Active(a) /\ Admitted(a)
  /\ origin[a[1]].kind = "confirm"
  /\ at' = [at EXCEPT ![a] = "batch"]
  /\ pend' = [pend EXCEPT ![a] = Restored(Source(a))]
  /\ UNCHANGED <<orderVars, stepVars, journal, wordVars, granted, result, callVars,
                 answer, later>>

\* _consume_verified_commit
ConsumeVerifiedCommit(a) ==
  /\ at[a] = "prepared" /\ Active(a) /\ Admitted(a)
  /\ origin[a[1]].kind = "verified"
  /\ consumed' = consumed \cup {Source(a)}
  /\ checkpoint' = [checkpoint EXCEPT ![a] =
                      [phase |-> "target", call |-> NoCall, pend |-> {}]]
  /\ at' = [at EXCEPT ![a] = "batch"]
  /\ pend' = [pend EXCEPT ![a] = Restored(Source(a))]
  /\ UNCHANGED <<orderVars, stepVars, attempt, action, owner, decision, granted, result,
                 callVars, answer, later>>

-----------------------------------------------------------------------------
(* The agent's loop: every boundary is a checkpoint and its journal entries *)
(* in one transaction.                                                      *)

\* The model asks for the next calls, up to m.
AskForCalls(a, m) ==
  /\ at[a] = "thinking" /\ action[m] = "absent"
  /\ at' = [at EXCEPT ![a] = "batch"]
  /\ pend' = [pend EXCEPT ![a] = {c \in 1..m : action[c] = "absent"}]
  /\ UNCHANGED <<orderVars, stepVars, journal, wordVars, granted, result, callVars,
                 answer, later>>

\* save_checkpoint("tools_planned")
SavePlanned(a) ==
  /\ at[a] = "batch" /\ CanSave(a) /\ Plannable(a)
  /\ checkpoint' = [checkpoint EXCEPT ![a] =
                      [phase |-> "planned", call |-> NoCall, pend |-> pend[a]]]
  /\ LET new == {c \in pend[a] : action[c] = "absent"}
     IN  /\ action' = [c \in Call |-> IF c \in new THEN "planned" ELSE action[c]]
         /\ owner' = [c \in Call |-> IF c \in new THEN a ELSE owner[c]]
  /\ Move(a, IF pend[a] = {} THEN "thinking" ELSE "next")
  /\ UNCHANGED <<orderVars, stepVars, attempt, wordVars, callVars, answer, later>>

\* save_checkpoint("tool_started")
SaveStarted(a) ==
  /\ at[a] = "next" /\ CanSave(a) /\ Startable(a)
  /\ checkpoint' = [checkpoint EXCEPT ![a] =
                      [phase |-> "started", call |-> Head(a), pend |-> pend[a]]]
  /\ action' = [action EXCEPT ![Head(a)] = "started"]
  /\ owner' = [owner EXCEPT ![Head(a)] = a]
  /\ Move(a, "gate")
  /\ UNCHANGED <<orderVars, stepVars, attempt, wordVars, callVars, answer, later>>

\* require_confirmation: the owner's word is used for the call it names.  A
\* call goes through here once in a turn, which stands for authorization_used.
Authorized(a) ==
  /\ origin[a[1]].kind = "confirm" /\ checkpoint[Source(a)].call = Head(a)
UseDecision(a) ==
  /\ at[a] = "gate" /\ Head(a) \in Gated /\ ~granted[a]
  /\ Authorized(a) /\ decision[Source(a)] = "approved" /\ Active(a)
  /\ granted' = [granted EXCEPT ![a] = TRUE]
  /\ UNCHANGED <<orderVars, stepVars, journal, wordVars, at, pend, result, callVars,
                 answer, later>>

\* require_confirmation without it: save_checkpoint("confirmation_required").
AskConfirmation(a) ==
  /\ at[a] = "gate" /\ Head(a) \in Gated /\ ~granted[a]
  /\ ~Authorized(a) /\ CanSave(a)
  /\ \A c \in pend[a] : action[c] \notin RECORDED
  /\ action[Head(a)] = "started" /\ owner[Head(a)] = a
  /\ checkpoint' = [checkpoint EXCEPT ![a] =
                      [phase |-> "confirmation", call |-> Head(a), pend |-> pend[a]]]
  /\ action' = [action EXCEPT ![Head(a)] = "waiting_confirmation"]
  /\ Move(a, "raised")
  /\ UNCHANGED <<orderVars, stepVars, attempt, owner, wordVars, callVars, answer, later>>

\* prepare_tool_attempt and the request; a write is sent once.
Dispatch(a) ==
  /\ at[a] = "gate" /\ CanSpend(a)
  /\ Head(a) \in Gated => granted[a]
  /\ sent' = [sent EXCEPT ![Head(a)] = @ + 1]
  /\ flight' = flight \cup ({Head(a)} \cap Receipted)
  /\ Move(a, "sent")
  /\ UNCHANGED <<orderVars, stepVars, journal, wordVars, receipts, answer, later>>

\* The recipient's last look, and its effect with the receipt in one commit; or
\* its refusal.  A request that is lost stays in flight.
RecipientAdmits(c) ==
  action[c] = "started" /\ Active(owner[c]) /\ owner[c][1] = rev
Commit(c) ==
  /\ c \in flight /\ RecipientAdmits(c)
  /\ receipts' = receipts \cup {c} /\ flight' = flight \ {c}
  /\ UNCHANGED <<orderVars, stepVars, journal, wordVars, workerVars, sent, answer, later>>
Refuse(c) ==
  /\ c \in flight /\ ~RecipientAdmits(c)
  /\ flight' = flight \ {c}
  /\ UNCHANGED <<orderVars, stepVars, journal, wordVars, workerVars, receipts, sent,
                 answer, later>>

\* The answer, or a timeout.  What other recipients answer is anything.
\* Variant: a call whose answer was lost is tried again.
AfterRetried(res) == IF res = "outcome_unknown" THEN "gate" ELSE "answered"
After(res) == "answered"
Answer(a, res) ==
  /\ at[a] = "sent"
  /\ Head(a) \in Receipted => res = "outcome_unknown" \/ (res = "done" /\ Head(a) \notin flight)
  /\ at' = [at EXCEPT ![a] = After(res)]
  /\ result' = [result EXCEPT ![a] = res]
  /\ UNCHANGED <<orderVars, stepVars, journal, wordVars, pend, granted, callVars, answer,
                 later>>

\* Variant: a confirmation that covers the next call with the same arguments.
GrantAfterKept(a) == granted[a]
GrantAfter(a) == FALSE

\* save_checkpoint("tool_recorded"); a nonterminal result ends the turn.
SaveRecorded(a) ==
  /\ at[a] = "answered" /\ CanSave(a)
  /\ \A c \in pend[a] \ {Head(a)} : action[c] \notin RECORDED
  /\ action[Head(a)] = "started" /\ owner[Head(a)] = a
  /\ LET rest == pend[a] \ {Head(a)} IN
     /\ checkpoint' = [checkpoint EXCEPT ![a] =
                         [phase |-> "recorded", call |-> Head(a), pend |-> rest]]
     /\ pend' = [pend EXCEPT ![a] = rest]
     /\ at' = [at EXCEPT ![a] =
          CASE result[a] = "waiting_approval" -> "waiting"
            [] result[a] \in Nonterminal \ {"waiting_approval"} -> "nonterminal"
            [] OTHER -> IF rest = {} THEN "thinking" ELSE "next"]
  /\ action' = [action EXCEPT ![Head(a)] =
                  IF result[a] = "done" THEN "result_recorded" ELSE result[a]]
  /\ granted' = [granted EXCEPT ![a] = GrantAfter(a)]
  /\ result' = [result EXCEPT ![a] = IF @ = "done" THEN "none" ELSE @]
  /\ UNCHANGED <<orderVars, stepVars, attempt, owner, wordVars, callVars, answer, later>>

\* The agent's final text: save_checkpoint("turn_finished"), then the message.
Finish(a) ==
  /\ at[a] = "thinking" /\ CanSave(a)
  /\ checkpoint' = [checkpoint EXCEPT ![a] =
                      [phase |-> "finished", call |-> NoCall, pend |-> {}]]
  /\ Move(a, "finished")
  /\ UNCHANGED <<orderVars, stepVars, attempt, action, owner, wordVars, callVars, answer,
                 later>>
SaveAnswer(a) ==
  /\ at[a] = "finished" /\ Active(a)
  /\ answer' = TRUE
  /\ Move(a, "saved")
  /\ UNCHANGED <<orderVars, stepVars, journal, wordVars, callVars, later>>

\* ChatRunStopped and every other error, where a check failed or anywhere; the
\* watcher asks for the order every second.
Refused(a) ==
  \/ ~Active(a)
  \/ at[a] = "prepared" /\ ~Admitted(a)
  \/ at[a] = "batch" /\ ~Plannable(a)
  \/ at[a] = "next" /\ ~Startable(a)
  \/ at[a] = "gate" /\ Authorized(a) /\ decision[Source(a)] # "approved" /\ ~granted[a]
Stop(a) ==
  /\ at[a] \in Executing
  /\ Refused(a) \/ "error" \in Faults
  /\ Move(a, "raised")
  /\ UNCHANGED <<orderVars, stepVars, journal, wordVars, callVars, answer, later>>
\* The watcher's connection breaks: TimeoutError, ConnectionError.
Transient(a) ==
  /\ "transient" \in Faults /\ at[a] \in Executing
  /\ Move(a, "transient")
  /\ UNCHANGED <<orderVars, stepVars, journal, wordVars, callVars, answer, later>>

-----------------------------------------------------------------------------
(* The executor settles what the turn ended in, if it still owns the lease; *)
(* otherwise it writes nothing.                                             *)

SettleAs(a, att, st, order) ==
  IF OwnsLease(a)
  THEN /\ attempt' = [attempt EXCEPT ![a] = att]
       /\ step' = [step EXCEPT ![a[1]] = st]
       /\ lease' = [lease EXCEPT ![a[1]] = "none"]
       /\ status' = order
  ELSE UNCHANGED <<attempt, step, lease, status>>
Settle(a, place, att, st, order) ==
  /\ at[a] = place
  /\ SettleAs(a, att, st, order)
  /\ Leave(a)
  /\ UNCHANGED <<pause, wall, rev, count, origin, checkpoint, action, owner, wordVars,
                 callVars, answer, later>>

\* complete_attempt, whatever the order's status is by now.
SettleSuccess(a) == Settle(a, "saved", "succeeded", "succeeded", status)

\* fail_attempt; a chat order has no replans.
SettleFailure(a) == Settle(a, "raised", "failed", "failed", "blocked")

\* fail_attempt(retryable=True), which also reopens a blocked order.
SettleTransient(a) ==
  IF count[a[1]] < MaxAttempts(a[1])
  THEN Settle(a, "transient", "failed", "retry_wait", "ready")
  ELSE Settle(a, "transient", "failed", "failed", "blocked")

\* stop_attempt_for_nonterminal_tool_result
SettleNonterminal(a) == Settle(a, "nonterminal", result[a], "failed", "blocked")

\* A recipient's own approval; from "blocked" the move is illegal, the
\* transaction rolls back, and the lease is left to expire.
SettleWaiting(a) ==
  IF status = "blocked"
  THEN /\ at[a] = "waiting" /\ Leave(a)
       /\ UNCHANGED <<orderVars, stepVars, journal, wordVars, callVars, answer, later>>
  ELSE Settle(a, "waiting", "waiting_approval", "waiting_approval", "waiting_approval")

\* The worker dies, or its lease runs out: of a dead worker's step, or of one
\* whose heartbeats stall.
Crash(a) ==
  /\ "crash" \in Faults /\ at[a] \notin {"none", "gone"}
  /\ Leave(a)
  /\ UNCHANGED <<orderVars, stepVars, journal, wordVars, callVars, answer, later>>
ExpireLease(r) ==
  /\ lease[r] = "held"
  /\ at[Holder(r)] = "gone" \/ "stall" \in Faults
  /\ lease' = [lease EXCEPT ![r] = "expired"]
  /\ UNCHANGED <<orderVars, step, count, origin, journal, wordVars, workerVars, callVars,
                 answer, later>>

\* reclaim_expired_leases.  _settle_abandoned_calls does not look at a chat's
\* calls.
\* Variant: a last attempt whose step is left as it is.
ReclaimedStepLeft(r) == IF count[r] < MaxAttempts(r) THEN "retry_wait" ELSE "running"
ReclaimedStep(r) == IF count[r] < MaxAttempts(r) THEN "retry_wait" ELSE "failed"
Reclaim(r) ==
  /\ step[r] = "running" /\ lease[r] = "expired"
  /\ attempt' = [attempt EXCEPT ![Holder(r)] = "abandoned"]
  /\ lease' = [lease EXCEPT ![r] = "none"]
  /\ step' = [step EXCEPT ![r] = ReclaimedStep(r)]
  /\ status' = CASE ReclaimedStep(r) = "retry_wait" -> "ready"
                 [] ReclaimedStep(r) = "failed"     -> "blocked"
                 [] OTHER                           -> status
  /\ UNCHANGED <<pause, wall, rev, count, origin, checkpoint, action, owner, wordVars,
                 workerVars, callVars, answer, later>>

\* verify_completed_step: the semantic criterion holds the order for a verdict.
VerifyCompletedStep ==
  /\ status \in {"ready", "running"} /\ step[rev] = "succeeded"
  /\ step' = [step EXCEPT ![rev] = "checked"]
  /\ status' = "blocked"
  /\ UNCHANGED <<pause, wall, rev, count, lease, origin, journal, wordVars, workerVars,
                 callVars, answer, later>>

\* record_verifier_verdict; a rejection changes nothing that is kept here.
RecordVerdict ==
  /\ "verdict" \in Owner
  /\ status = "blocked" /\ step[rev] = "checked"
  /\ status' = "completed"
  /\ UNCHANGED <<pause, wall, rev, stepVars, journal, wordVars, workerVars, callVars,
                 answer, later>>

-----------------------------------------------------------------------------
(* The wall-clock budget.                                                  *)

WallClockRunsOut ==
  /\ "wall_clock" \in Faults /\ wall = "open" /\ count[1] > 0
  /\ wall' = "spent"
  /\ UNCHANGED <<status, pause, rev, stepVars, journal, wordVars, workerVars, callVars,
                 answer, later>>
\* enforce_budgets reads without a lock and writes over whatever came between.
EnforceBudgetsRead ==
  /\ wall = "spent" /\ status \in {"ready", "running"}
  /\ wall' = "read"
  /\ UNCHANGED <<status, pause, rev, stepVars, journal, wordVars, workerVars, callVars,
                 answer, later>>
EnforceBudgetsWrite ==
  /\ wall = "read"
  /\ wall' = "spent" /\ status' = "blocked"
  /\ UNCHANGED <<pause, rev, stepVars, journal, wordVars, workerVars, callVars, answer,
                 later>>

-----------------------------------------------------------------------------
(* The owner.                                                              *)

\* create_work_plan through create_single_step_plan, in the decision's
\* transaction.
NewRevision(kind, a) ==
  /\ rev < RevisionBound
  /\ rev' = rev + 1 /\ status' = "ready"
  /\ step' = [step EXCEPT ![rev + 1] = "ready",
       ![rev] = IF @ \in {"ready", "retry_wait", "waiting_approval"} THEN "canceled" ELSE @]
  /\ origin' = [origin EXCEPT ![rev + 1] = [kind |-> kind, source |-> a]]

\* resume_chat_run, for a call that waits for a confirmation.
Undecided(a) ==
  /\ "continue" \in Owner
  /\ status = "blocked" /\ ~answer /\ ~later
  /\ a[1] = rev /\ decision[a] = "none"
Confirmable(a) ==
  /\ Undecided(a)
  /\ attempt[a] = "failed" /\ checkpoint[a].phase = "confirmation"
ApproveConfirmation(a) ==
  /\ Confirmable(a) /\ wall = "open"
  /\ decision' = [decision EXCEPT ![a] = "approved"]
  /\ NewRevision("confirm", a)
  /\ UNCHANGED <<pause, wall, count, lease, journal, consumed, workerVars, callVars, answer,
                 later>>
DeclineConfirmation(a) ==
  /\ Confirmable(a)
  /\ decision' = [decision EXCEPT ![a] = "declined"]
  /\ UNCHANGED <<orderVars, stepVars, journal, consumed, workerVars, callVars, answer,
                 later>>

\* Variant: a request that is under way counts as committed.
ProvedUnderWay(c) == c \in receipts \cup flight

\* _verified_commit_resume, for a call whose receipt was found.
Proved(c) == c \in receipts
VerifiedFrontier(a) ==
  LET c == checkpoint[a].call IN
  \/ /\ checkpoint[a].phase = "started" /\ attempt[a] = "failed"
     /\ action[c] = "started" /\ owner[c] = a /\ Proved(c)
  \/ /\ checkpoint[a].phase = "recorded" /\ attempt[a] \in {"outcome_unknown", "failed"}
     /\ action[c] = "outcome_unknown" /\ owner[c] = a /\ Proved(c)
AcceptVerifiedCommit(a) ==
  /\ Undecided(a) /\ wall = "open" /\ VerifiedFrontier(a)
  /\ decision' = [decision EXCEPT ![a] = "approved"]
  /\ NewRevision("verified", a)
  /\ UNCHANGED <<pause, wall, count, lease, journal, consumed, workerVars, callVars, answer,
                 later>>
DeclineVerifiedCommit(a) ==
  /\ Undecided(a) /\ wall = "open" /\ VerifiedFrontier(a)
  /\ decision' = [decision EXCEPT ![a] = "declined"]
  /\ UNCHANGED <<orderVars, stepVars, journal, consumed, workerVars, callVars, answer,
                 later>>
\* The owner's word lasts 30 minutes.  It lapses where a worker is about to read
\* it: earlier is no different.
DecisionLapses(a) ==
  /\ "lapse" \in Faults /\ decision[a] = "approved"
  /\ \E w \in Attempt :
       /\ Source(w) = a
       /\ \/ at[w] = "prepared"
          \/ at[w] = "gate" /\ Authorized(w) /\ ~granted[w]
  /\ decision' = [decision EXCEPT ![a] = "lapsed"]
  /\ UNCHANGED <<orderVars, stepVars, journal, consumed, workerVars, callVars, answer,
                 later>>

\* block_recorded_recipient_approval_decision: whatever is decided, the call is
\* not sent again.
DecideRecordedApproval ==
  /\ status = "waiting_approval" /\ step[rev] = "waiting_approval"
  /\ step' = [step EXCEPT ![rev] = "failed"]
  /\ status' = "blocked"
  /\ UNCHANGED <<pause, wall, rev, count, lease, origin, journal, wordVars, workerVars,
                 callVars, answer, later>>

\* cancel_work_order, whose durable-chat half fences the running step too.
Cancel ==
  /\ "cancel" \in Owner
  /\ status \in {"ready", "running", "waiting_approval", "paused"}
  /\ status' = "canceled"
  /\ step' = [r \in Revision |->
       IF step[r] \in {"ready", "retry_wait", "waiting_approval", "running"} THEN "canceled"
       ELSE step[r]]
  /\ lease' = [r \in Revision |-> IF step[r] = "running" THEN "none" ELSE lease[r]]
  /\ attempt' = [a \in Attempt |->
       IF step[a[1]] = "running" /\ attempt[a] = "running" THEN "canceled" ELSE attempt[a]]
  /\ UNCHANGED <<pause, wall, rev, count, origin, checkpoint, action, owner, wordVars,
                 workerVars, callVars, answer, later>>

\* request_pause, acknowledge_pause_if_safe, resume_paused
NothingExecutes == \A r \in Revision : step[r] # "running"
RequestPause ==
  /\ "pause" \in Owner /\ ~pause
  /\ status \in {"ready", "running", "waiting_approval"}
  /\ pause' = TRUE
  /\ status' = IF status \in {"ready", "running"} /\ NothingExecutes THEN "paused"
               ELSE status
  /\ UNCHANGED <<wall, rev, stepVars, journal, wordVars, workerVars, callVars, answer, later>>
AcknowledgePause ==
  /\ pause /\ status \in {"ready", "running"} /\ NothingExecutes
  /\ status' = "paused"
  /\ UNCHANGED <<pause, wall, rev, stepVars, journal, wordVars, workerVars, callVars, answer,
                 later>>
ResumePaused ==
  /\ "pause" \in Owner /\ pause
  /\ pause' = FALSE
  /\ status' = IF status = "paused" THEN "ready" ELSE status
  /\ UNCHANGED <<wall, rev, stepVars, journal, wordVars, workerVars, callVars, answer, later>>

\* The intake of another message of the same conversation; that turn is active
\* from then on.  ACTIVE_WORK_STATUSES holds neither "paused" nor "blocked".
ActiveTurn == status \in {"ready", "running", "waiting_approval"}
NewTurn ==
  /\ "new_turn" \in Owner /\ ~later
  /\ ~ActiveTurn
  /\ later' = TRUE
  /\ UNCHANGED <<orderVars, stepVars, journal, wordVars, workerVars, callVars, answer>>

-----------------------------------------------------------------------------
\* What a living worker does next.
Work(a) ==
  \/ Prepare(a) \/ HydratePrompt(a) \/ HydrateConfirmed(a) \/ ConsumeVerifiedCommit(a)
  \/ \E m \in Call : AskForCalls(a, m)
  \/ SavePlanned(a) \/ SaveStarted(a) \/ UseDecision(a) \/ AskConfirmation(a)
  \/ Dispatch(a)
  \/ \E res \in {"done"} \cup Nonterminal : Answer(a, res)
  \/ SaveRecorded(a) \/ Finish(a) \/ SaveAnswer(a) \/ Stop(a)
  \/ SettleSuccess(a) \/ SettleFailure(a) \/ SettleTransient(a)
  \/ SettleNonterminal(a) \/ SettleWaiting(a)
OwnerActs(a) ==
  \/ ApproveConfirmation(a) \/ DeclineConfirmation(a)
  \/ AcceptVerifiedCommit(a) \/ DeclineVerifiedCommit(a)

Next ==
  \/ Claim \/ VerifyCompletedStep \/ RecordVerdict \/ DecideRecordedApproval
  \/ \E a \in Attempt : Work(a) \/ Transient(a) \/ Crash(a) \/ OwnerActs(a)
                        \/ DecisionLapses(a)
  \/ \E c \in Call : Commit(c) \/ Refuse(c)
  \/ \E r \in Revision : ExpireLease(r) \/ Reclaim(r)
  \/ WallClockRunsOut \/ EnforceBudgetsRead \/ EnforceBudgetsWrite
  \/ Cancel \/ RequestPause \/ AcknowledgePause \/ ResumePaused
  \/ NewTurn

ChatTurnSpec == Init /\ [][Next]_vars
=============================================================================
