---------------------------- MODULE ChatTurnProofs ----------------------------
(***************************************************************************)
(* Proofs about a chat turn, for any number of calls, revisions and        *)
(* recipients, and any faults.                                             *)
(***************************************************************************)
EXTENDS ChatTurnProperties, WellFoundedInduction, TLAPS

\* A step that may be claimed has an attempt left; what lies in the future is
\* untouched.
CountInv ==
  /\ \A r \in Revision :
       /\ r > rev => step[r] = "none" /\ count[r] = 0
       /\ step[r] = "ready" => count[r] = 0
       /\ step[r] = "retry_wait" => count[r] <= 1
  /\ \A a \in Attempt :
       a[2] > count[a[1]] => attempt[a] = "none" /\ at[a] = "none"

\* What a worker holds in each place.
PlaceInv ==
  \A a \in Attempt :
    /\ at[a] \in {"next", "gate", "sent", "answered"} => pend[a] # {}
    /\ at[a] = "answered" => result[a] \in {"done"} \cup Nonterminal
    /\ at[a] = "nonterminal" => result[a] \in Nonterminal
    /\ at[a] \in {"none", "gone", "claimed", "prepared", "thinking", "batch", "next"} =>
         ~granted[a]

\* A decided attempt has ended, so its checkpoint stays as its owner saw it; a
\* confirmed revision has a decided confirmation as its source; and a worker
\* holds a grant at the gate for the call that was confirmed alone.
WordInv ==
  /\ \A a \in Attempt : decision[a] # "none" => attempt[a] \notin {"none", "running"}
  /\ \A r \in Revision :
       /\ origin[r].kind \in {"confirm", "verified"} => origin[r].source \in Attempt
       /\ origin[r].kind = "confirm" =>
            /\ decision[origin[r].source] \in {"approved", "lapsed"}
            /\ checkpoint[origin[r].source].phase = "confirmation"
  /\ \A a \in Attempt : at[a] = "gate" /\ granted[a] =>
       origin[a[1]].kind = "confirm" /\ checkpoint[Source(a)].call = Head(a)

\* A call that may still be started has not left, and a worker at the gate
\* alone holds a started call that has not left.
JournalInv ==
  /\ \A c \in Call :
       action[c] \in {"absent", "planned", "waiting_confirmation"} => sent[c] = 0
  /\ \A a \in Attempt : at[a] = "gate" =>
       /\ action[Head(a)] = "started" /\ owner[Head(a)] = a
       /\ sent[Head(a)] = 0

IInv ==
  /\ TypeOK /\ CountInv /\ PlaceInv /\ WordInv /\ JournalInv
  /\ NothingLeavesTwice /\ GatedOnTheOwnersWord

-----------------------------------------------------------------------------
(* The steps, by what they change.                                         *)

\* A worker's step before it settles.
WorkerStep(a) ==
  \/ Prepare(a) \/ HydratePrompt(a) \/ HydrateConfirmed(a) \/ ConsumeVerifiedCommit(a)
  \/ \E m \in Call : AskForCalls(a, m)
  \/ SavePlanned(a) \/ SaveStarted(a) \/ UseDecision(a) \/ AskConfirmation(a)
  \/ Dispatch(a)
  \/ \E res \in {"done"} \cup Nonterminal : Answer(a, res)
  \/ SaveRecorded(a) \/ Finish(a) \/ SaveAnswer(a) \/ Stop(a) \/ Transient(a) \/ Crash(a)

\* What a settlement amounts to.
Settled(a) ==
  /\ at[a] \in {"saved", "raised", "transient", "nonterminal", "waiting"}
  /\ Leave(a)
  /\ UNCHANGED <<pause, wall, rev, count, origin, checkpoint, action, owner, wordVars,
                 callVars, answer, later>>
  /\ \/ UNCHANGED <<attempt, step, lease, status>>
     \/ /\ OwnsLease(a)
        /\ lease' = [lease EXCEPT ![a[1]] = "none"]
        /\ status' \in OrderStatus
        /\ \E att \in AttemptStatus \ {"none", "running"} :
             attempt' = [attempt EXCEPT ![a] = att]
        /\ \E st \in {"succeeded", "failed", "retry_wait", "waiting_approval"} :
             /\ step' = [step EXCEPT ![a[1]] = st]
             /\ st = "retry_wait" => count[a[1]] < MaxAttempts(a[1])

\* Steps of the environment and of housekeeping that touch no worker, no journal
\* and no decision.
Quiet ==
  \/ \E r \in Revision : ExpireLease(r)
  \/ RecordVerdict \/ WallClockRunsOut \/ EnforceBudgetsRead \/ EnforceBudgetsWrite
  \/ RequestPause \/ AcknowledgePause \/ ResumePaused \/ NewTurn
  \/ \E c \in Call : Commit(c) \/ Refuse(c)

\* The least of a set of numbers.
LEMMA LeastExists ==
  ASSUME NEW S \in SUBSET Nat, S # {}
  PROVE  \E c \in S : \A d \in S : c <= d
<1>1. PICK c \in S : \A d \in S : ~(<<d, c>> \in OpToRel(<, Nat))
  BY NatLessThanWellFounded, WFMin, Zenon
<1>2. ASSUME NEW d \in S PROVE c <= d
  <2>1. ~(d < c)
    BY <1>1, Zenon DEF OpToRel
  <2> QED
    BY <2>1
<1> QED
  BY <1>2

\* The head of a batch is one of its calls.
LEMMA HeadIsPending ==
  ASSUME TypeOK, NEW a \in Attempt, pend[a] # {}
  PROVE  Head(a) \in pend[a] /\ Head(a) \in Call
<1>1. pend[a] \in SUBSET Nat
  BY CallAssumption DEF TypeOK, Call
<1>2. \E c \in pend[a] : \A d \in pend[a] : c <= d
  BY <1>1, LeastExists
<1>3. Head(a) \in pend[a]
  BY <1>2, Zenon DEF Head
<1> QED
  BY <1>3 DEF TypeOK

\* Every settlement of the executor has that form.
LEMMA Settlement ==
  ASSUME TypeOK, PlaceInv, NEW a \in Attempt,
         \/ SettleSuccess(a) \/ SettleFailure(a) \/ SettleTransient(a)
         \/ SettleNonterminal(a) \/ SettleWaiting(a)
  PROVE  Settled(a)
<1>1. CASE SettleSuccess(a)
  BY <1>1 DEF SettleSuccess, Settle, SettleAs, Settled, TypeOK, AttemptStatus
<1>2. CASE SettleFailure(a)
  BY <1>2 DEF SettleFailure, Settle, SettleAs, Settled, OrderStatus, AttemptStatus
<1>3. CASE SettleTransient(a)
  <2>1. CASE count[a[1]] < MaxAttempts(a[1])
    BY <1>3, <2>1
    DEF SettleTransient, Settle, SettleAs, Settled, OrderStatus, AttemptStatus
  <2>2. CASE ~(count[a[1]] < MaxAttempts(a[1]))
    BY <1>3, <2>2
    DEF SettleTransient, Settle, SettleAs, Settled, OrderStatus, AttemptStatus
  <2> QED
    BY <2>1, <2>2
<1>4. CASE SettleNonterminal(a)
  <2>1. result[a] \in AttemptStatus \ {"none", "running"}
    BY <1>4 DEF SettleNonterminal, Settle, PlaceInv, Nonterminal, AttemptStatus
  <2> QED
    BY <1>4, <2>1 DEF SettleNonterminal, Settle, SettleAs, Settled, OrderStatus
<1>5. CASE SettleWaiting(a)
  BY <1>5
  DEF SettleWaiting, Settle, SettleAs, Settled, OrderStatus, AttemptStatus, orderVars,
      stepVars, journal
<1> QED
  BY <1>1, <1>2, <1>3, <1>4, <1>5

\* Every step is a claim, a worker's step, a settlement, a reclaim, a move of the
\* owner, or a quiet one.
LEMMA Steps ==
  ASSUME TypeOK, PlaceInv, Next
  PROVE  \/ Claim \/ VerifyCompletedStep \/ DecideRecordedApproval \/ Cancel \/ Quiet
         \/ \E a \in Attempt : WorkerStep(a) \/ Settled(a) \/ OwnerActs(a)
                               \/ DecisionLapses(a)
         \/ \E r \in Revision : Reclaim(r)
<1>1. ASSUME NEW a \in Attempt, Work(a) PROVE WorkerStep(a) \/ Settled(a)
  BY <1>1, Settlement, Zenon DEF Work, WorkerStep
<1>2. ASSUME NEW a \in Attempt, Transient(a) \/ Crash(a) PROVE WorkerStep(a)
  BY <1>2, Zenon DEF WorkerStep
<1> QED
  BY <1>1, <1>2, Zenon DEF Next, Quiet

\* Every step keeps the types.
LEMMA StepTypes ==
  ASSUME TypeOK, CountInv, PlaceInv, WordInv, [Next]_vars
  PROVE  TypeOK'
<1>1. CASE Claim
  <2>1. count[rev] \in 0..1
    BY <1>1 DEF Claim, CountInv, TypeOK
  <2>2. status' \in OrderStatus
    BY <1>1, <2>1 DEF TypeOK, Claim, OrderStatus
  <2>3. step' \in [Revision -> StepState]
    BY <1>1, <2>1 DEF TypeOK, Claim, StepState
  <2>4. count' \in [Revision -> 0..2]
    BY <1>1, <2>1 DEF TypeOK, Claim
  <2>5. lease' \in [Revision -> {"none", "held", "expired"}]
    BY <1>1, <2>1 DEF TypeOK, Claim
  <2>6. attempt' \in [Attempt -> AttemptStatus]
    BY <1>1, <2>1 DEF TypeOK, Claim, AttemptStatus
  <2>7. at' \in [Attempt -> Place]
    BY <1>1, <2>1 DEF TypeOK, Claim, Place, Executing
  <2>8. UNCHANGED <<wordVars, callVars, pause, wall, rev, origin, checkpoint, action,
           owner, pend, granted, result, answer, later>>
    BY <1>1 DEF Claim, callVars, wordVars
  <2> QED
    BY <2>2, <2>3, <2>4, <2>5, <2>6, <2>7, <2>8 DEF TypeOK, wordVars, callVars
<1>2. ASSUME NEW a \in Attempt, Prepare(a) PROVE TypeOK'
  <2>1. at' \in [Attempt -> Place]
    BY <1>2 DEF TypeOK, Prepare, Move, Leave, Place, Executing
  <2>2. pend' \in [Attempt -> SUBSET Call]
    BY <1>2 DEF TypeOK, Prepare, Move, Leave
  <2>3. granted' \in [Attempt -> BOOLEAN]
    BY <1>2, Zenon DEF TypeOK, Prepare, Move, Leave
  <2>4. result' \in [Attempt -> {"none", "done"} \cup Nonterminal]
    BY <1>2 DEF TypeOK, Prepare, Move, Leave, Nonterminal
  <2>5. UNCHANGED <<orderVars, stepVars, journal, wordVars, callVars, answer, later>>
    BY <1>2 DEF Prepare, Move, Leave, callVars, journal, orderVars, stepVars,
       wordVars
  <2> QED
    BY <2>1, <2>2, <2>3, <2>4, <2>5 DEF TypeOK, orderVars, stepVars, journal,
       wordVars, callVars
<1>3. ASSUME NEW a \in Attempt, HydratePrompt(a) PROVE TypeOK'
  <2>1. at' \in [Attempt -> Place]
    BY <1>3 DEF TypeOK, HydratePrompt, Move, Place, Executing
  <2>2. UNCHANGED <<orderVars, stepVars, journal, wordVars, callVars, pend, granted,
           result, answer, later>>
    BY <1>3 DEF HydratePrompt, Move, callVars, journal, orderVars, stepVars,
       wordVars
  <2> QED
    BY <2>1, <2>2 DEF TypeOK, orderVars, stepVars, journal, wordVars, callVars
<1>4. ASSUME NEW a \in Attempt, HydrateConfirmed(a) PROVE TypeOK'
  <2>1. Source(a) \in Attempt
    BY <1>4 DEF HydrateConfirmed, WordInv, Attempt, Source
  <2>2. Restored(Source(a)) \in SUBSET Call
    BY <2>1 DEF TypeOK, Checkpoint, Restored
  <2>3. at' \in [Attempt -> Place]
    BY <1>4, <2>1, <2>2 DEF TypeOK, HydrateConfirmed, Place, Executing
  <2>4. pend' \in [Attempt -> SUBSET Call]
    BY <1>4, <2>1, <2>2 DEF TypeOK, HydrateConfirmed
  <2>5. UNCHANGED <<orderVars, stepVars, journal, wordVars, callVars, granted, result,
           answer, later>>
    BY <1>4 DEF HydrateConfirmed, callVars, journal, orderVars, stepVars, wordVars
  <2> QED
    BY <2>3, <2>4, <2>5 DEF TypeOK, orderVars, stepVars, journal, wordVars, callVars
<1>5. ASSUME NEW a \in Attempt, ConsumeVerifiedCommit(a) PROVE TypeOK'
  <2>1. Source(a) \in Attempt
    BY <1>5 DEF ConsumeVerifiedCommit, WordInv, Attempt, Source
  <2>2. Restored(Source(a)) \in SUBSET Call
    BY <2>1 DEF TypeOK, Checkpoint, Restored
  <2>3. consumed' \subseteq Attempt
    BY <1>5, <2>1, <2>2 DEF TypeOK, ConsumeVerifiedCommit
  <2>4. checkpoint' \in [Attempt -> Checkpoint]
    BY <1>5, <2>1, <2>2 DEF TypeOK, ConsumeVerifiedCommit, Checkpoint, Phase, NoCall
  <2>5. at' \in [Attempt -> Place]
    BY <1>5, <2>1, <2>2 DEF TypeOK, ConsumeVerifiedCommit, Place, Executing
  <2>6. pend' \in [Attempt -> SUBSET Call]
    BY <1>5, <2>1, <2>2 DEF TypeOK, ConsumeVerifiedCommit
  <2>7. UNCHANGED <<orderVars, stepVars, callVars, attempt, action, owner, decision,
           granted, result, answer, later>>
    BY <1>5 DEF ConsumeVerifiedCommit, callVars, orderVars, stepVars
  <2> QED
    BY <2>3, <2>4, <2>5, <2>6, <2>7 DEF TypeOK, orderVars, stepVars, callVars
<1>6. ASSUME NEW a \in Attempt, NEW m \in Call, AskForCalls(a, m) PROVE TypeOK'
  <2>1. {c \in 1..m : action[c] = "absent"} \in SUBSET Call
    BY CallAssumption DEF Call
  <2>2. at' \in [Attempt -> Place]
    BY <1>6, <2>1 DEF TypeOK, AskForCalls, Place, Executing
  <2>3. pend' \in [Attempt -> SUBSET Call]
    BY <1>6, <2>1 DEF TypeOK, AskForCalls
  <2>4. UNCHANGED <<orderVars, stepVars, journal, wordVars, callVars, granted, result,
           answer, later>>
    BY <1>6 DEF AskForCalls, callVars, journal, orderVars, stepVars, wordVars
  <2> QED
    BY <2>2, <2>3, <2>4 DEF TypeOK, orderVars, stepVars, journal, wordVars, callVars
<1>7. ASSUME NEW a \in Attempt, SavePlanned(a) PROVE TypeOK'
  <2>1. checkpoint' \in [Attempt -> Checkpoint]
    BY <1>7 DEF TypeOK, SavePlanned, Move, Checkpoint, Phase, NoCall
  <2>2. action' \in [Call -> ActionStatus]
    BY <1>7 DEF TypeOK, SavePlanned, Move, ActionStatus, RECORDED, Nonterminal
  <2>3. owner' \in [Call -> Attempt \cup {NoAttempt}]
    BY <1>7 DEF TypeOK, SavePlanned, Move
  <2>4. at' \in [Attempt -> Place]
    BY <1>7 DEF TypeOK, SavePlanned, Move, Place, Executing
  <2>5. UNCHANGED <<orderVars, stepVars, wordVars, callVars, attempt, pend, granted,
           result, answer, later>>
    BY <1>7 DEF SavePlanned, Move, callVars, orderVars, stepVars, wordVars
  <2> QED
    BY <2>1, <2>2, <2>3, <2>4, <2>5 DEF TypeOK, orderVars, stepVars, wordVars,
       callVars
<1>8. ASSUME NEW a \in Attempt, SaveStarted(a) PROVE TypeOK'
  <2>1. Head(a) \in Call
    BY <1>8, HeadIsPending DEF SaveStarted, PlaceInv
  <2>2. checkpoint' \in [Attempt -> Checkpoint]
    BY <1>8, <2>1 DEF TypeOK, SaveStarted, Move, Checkpoint, Phase, NoCall
  <2>3. action' \in [Call -> ActionStatus]
    BY <1>8, <2>1 DEF TypeOK, SaveStarted, Move, ActionStatus, RECORDED, Nonterminal
  <2>4. owner' \in [Call -> Attempt \cup {NoAttempt}]
    BY <1>8, <2>1 DEF TypeOK, SaveStarted, Move
  <2>5. at' \in [Attempt -> Place]
    BY <1>8, <2>1 DEF TypeOK, SaveStarted, Move, Place, Executing
  <2>6. UNCHANGED <<orderVars, stepVars, wordVars, callVars, attempt, pend, granted,
           result, answer, later>>
    BY <1>8 DEF SaveStarted, Move, callVars, orderVars, stepVars, wordVars
  <2> QED
    BY <2>2, <2>3, <2>4, <2>5, <2>6 DEF TypeOK, orderVars, stepVars, wordVars,
       callVars
<1>9. ASSUME NEW a \in Attempt, UseDecision(a) PROVE TypeOK'
  <2>1. granted' \in [Attempt -> BOOLEAN]
    BY <1>9, Zenon DEF TypeOK, UseDecision
  <2>2. UNCHANGED <<orderVars, stepVars, journal, wordVars, callVars, at, pend, result,
           answer, later>>
    BY <1>9 DEF UseDecision, callVars, journal, orderVars, stepVars, wordVars
  <2> QED
    BY <2>1, <2>2 DEF TypeOK, orderVars, stepVars, journal, wordVars, callVars
<1>10. ASSUME NEW a \in Attempt, AskConfirmation(a) PROVE TypeOK'
  <2>1. Head(a) \in Call
    BY <1>10, HeadIsPending DEF AskConfirmation, PlaceInv
  <2>2. checkpoint' \in [Attempt -> Checkpoint]
    BY <1>10, <2>1 DEF TypeOK, AskConfirmation, Move, Checkpoint, Phase, NoCall
  <2>3. action' \in [Call -> ActionStatus]
    BY <1>10, <2>1 DEF TypeOK, AskConfirmation, Move, ActionStatus, RECORDED,
       Nonterminal
  <2>4. at' \in [Attempt -> Place]
    BY <1>10, <2>1 DEF TypeOK, AskConfirmation, Move, Place, Executing
  <2>5. UNCHANGED <<orderVars, stepVars, wordVars, callVars, attempt, owner, pend,
           granted, result, answer, later>>
    BY <1>10 DEF AskConfirmation, Move, callVars, orderVars, stepVars, wordVars
  <2> QED
    BY <2>2, <2>3, <2>4, <2>5 DEF TypeOK, orderVars, stepVars, wordVars, callVars
<1>11. ASSUME NEW a \in Attempt, Dispatch(a) PROVE TypeOK'
  <2>1. Head(a) \in Call
    BY <1>11, HeadIsPending DEF Dispatch, PlaceInv
  <2>2. sent' \in [Call -> Nat]
    BY <1>11, <2>1 DEF TypeOK, Dispatch, Move
  <2>3. flight' \subseteq Receipted
    BY <1>11, <2>1 DEF TypeOK, Dispatch, Move
  <2>4. at' \in [Attempt -> Place]
    BY <1>11, <2>1 DEF TypeOK, Dispatch, Move, Place, Executing
  <2>5. UNCHANGED <<orderVars, stepVars, journal, wordVars, receipts, pend, granted,
           result, answer, later>>
    BY <1>11 DEF Dispatch, Move, journal, orderVars, stepVars, wordVars
  <2> QED
    BY <2>2, <2>3, <2>4, <2>5 DEF TypeOK, orderVars, stepVars, journal, wordVars
<1>12. ASSUME NEW a \in Attempt, NEW res \in {"done"} \cup Nonterminal, Answer(a, res)
      PROVE  TypeOK'
  <2>1. at' \in [Attempt -> Place]
    BY <1>12 DEF TypeOK, Answer, After, Place, Executing
  <2>2. result' \in [Attempt -> {"none", "done"} \cup Nonterminal]
    BY <1>12 DEF TypeOK, Answer, After, Nonterminal
  <2>3. UNCHANGED <<orderVars, stepVars, journal, wordVars, callVars, pend, granted,
           answer, later>>
    BY <1>12 DEF Answer, After, callVars, journal, orderVars, stepVars, wordVars
  <2> QED
    BY <2>1, <2>2, <2>3 DEF TypeOK, orderVars, stepVars, journal, wordVars, callVars
<1>13. ASSUME NEW a \in Attempt, SaveRecorded(a) PROVE TypeOK'
  <2>1. Head(a) \in Call
    BY <1>13, HeadIsPending DEF SaveRecorded, PlaceInv
  <2>2. checkpoint' \in [Attempt -> Checkpoint]
    BY <1>13, <2>1 DEF TypeOK, SaveRecorded, GrantAfter, Checkpoint, Phase, NoCall
  <2>3. pend' \in [Attempt -> SUBSET Call]
    BY <1>13, <2>1 DEF TypeOK, SaveRecorded, GrantAfter
  <2>4. at' \in [Attempt -> Place]
    BY <1>13, <2>1 DEF TypeOK, SaveRecorded, GrantAfter, Place, Executing
  <2>5. action' \in [Call -> ActionStatus]
    <3>1. result[a] \in {"done"} \cup Nonterminal
      BY <1>13 DEF SaveRecorded, PlaceInv
    <3> QED
      BY <1>13, <2>1, <3>1 DEF TypeOK, SaveRecorded, ActionStatus, RECORDED
  <2>6. granted' \in [Attempt -> BOOLEAN]
    BY <1>13, Zenon DEF TypeOK, SaveRecorded, GrantAfter
  <2>7. result' \in [Attempt -> {"none", "done"} \cup Nonterminal]
    BY <1>13, <2>1 DEF TypeOK, SaveRecorded, GrantAfter, Nonterminal
  <2>8. UNCHANGED <<orderVars, stepVars, wordVars, callVars, attempt, owner, answer,
           later>>
    BY <1>13 DEF SaveRecorded, GrantAfter, callVars, orderVars, stepVars, wordVars
  <2> QED
    BY <2>2, <2>3, <2>4, <2>5, <2>6, <2>7, <2>8 DEF TypeOK, orderVars, stepVars,
       wordVars, callVars
<1>14. ASSUME NEW a \in Attempt, Finish(a) PROVE TypeOK'
  <2>1. checkpoint' \in [Attempt -> Checkpoint]
    BY <1>14 DEF TypeOK, Finish, Move, Checkpoint, Phase, NoCall
  <2>2. at' \in [Attempt -> Place]
    BY <1>14 DEF TypeOK, Finish, Move, Place, Executing
  <2>3. UNCHANGED <<orderVars, stepVars, wordVars, callVars, attempt, action, owner, pend,
           granted, result, answer, later>>
    BY <1>14 DEF Finish, Move, callVars, orderVars, stepVars, wordVars
  <2> QED
    BY <2>1, <2>2, <2>3 DEF TypeOK, orderVars, stepVars, wordVars, callVars
<1>15. ASSUME NEW a \in Attempt, SaveAnswer(a) PROVE TypeOK'
  <2>1. answer' \in BOOLEAN
    BY <1>15, Zenon DEF TypeOK, SaveAnswer, Move
  <2>2. at' \in [Attempt -> Place]
    BY <1>15 DEF TypeOK, SaveAnswer, Move, Place, Executing
  <2>3. UNCHANGED <<orderVars, stepVars, journal, wordVars, callVars, pend, granted,
           result, later>>
    BY <1>15 DEF SaveAnswer, Move, callVars, journal, orderVars, stepVars, wordVars
  <2> QED
    BY <2>1, <2>2, <2>3 DEF TypeOK, orderVars, stepVars, journal, wordVars, callVars
<1>16. ASSUME NEW a \in Attempt, Stop(a) PROVE TypeOK'
  <2>1. at' \in [Attempt -> Place]
    BY <1>16 DEF TypeOK, Stop, Move, Place, Executing
  <2>2. UNCHANGED <<orderVars, stepVars, journal, wordVars, callVars, pend, granted,
           result, answer, later>>
    BY <1>16 DEF Stop, Move, callVars, journal, orderVars, stepVars, wordVars
  <2> QED
    BY <2>1, <2>2 DEF TypeOK, orderVars, stepVars, journal, wordVars, callVars
<1>17. ASSUME NEW a \in Attempt, Transient(a) PROVE TypeOK'
  <2>1. at' \in [Attempt -> Place]
    BY <1>17 DEF TypeOK, Transient, Move, Place, Executing
  <2>2. UNCHANGED <<orderVars, stepVars, journal, wordVars, callVars, pend, granted,
           result, answer, later>>
    BY <1>17 DEF Transient, Move, callVars, journal, orderVars, stepVars, wordVars
  <2> QED
    BY <2>1, <2>2 DEF TypeOK, orderVars, stepVars, journal, wordVars, callVars
<1>18. ASSUME NEW a \in Attempt, Crash(a) PROVE TypeOK'
  <2>1. at' \in [Attempt -> Place]
    BY <1>18 DEF TypeOK, Crash, Leave, Place, Executing
  <2>2. pend' \in [Attempt -> SUBSET Call]
    BY <1>18 DEF TypeOK, Crash, Leave
  <2>3. granted' \in [Attempt -> BOOLEAN]
    BY <1>18, Zenon DEF TypeOK, Crash, Leave
  <2>4. result' \in [Attempt -> {"none", "done"} \cup Nonterminal]
    BY <1>18 DEF TypeOK, Crash, Leave, Nonterminal
  <2>5. UNCHANGED <<orderVars, stepVars, journal, wordVars, callVars, answer, later>>
    BY <1>18 DEF Crash, Leave, callVars, journal, orderVars, stepVars, wordVars
  <2> QED
    BY <2>1, <2>2, <2>3, <2>4, <2>5 DEF TypeOK, orderVars, stepVars, journal,
       wordVars, callVars
<1>19. ASSUME NEW a \in Attempt, Settled(a) PROVE TypeOK'
  <2>1. attempt' \in [Attempt -> AttemptStatus]
    BY <1>19 DEF TypeOK, Settled, Leave, AttemptStatus
  <2>2. step' \in [Revision -> StepState]
    BY <1>19 DEF TypeOK, Settled, Leave, StepState
  <2>3. lease' \in [Revision -> {"none", "held", "expired"}]
    BY <1>19 DEF TypeOK, Settled, Leave
  <2>4. status' \in OrderStatus
    BY <1>19 DEF TypeOK, Settled, Leave, OrderStatus
  <2>5. at' \in [Attempt -> Place]
    BY <1>19 DEF TypeOK, Settled, Leave, Place, Executing
  <2>6. pend' \in [Attempt -> SUBSET Call]
    BY <1>19 DEF TypeOK, Settled, Leave
  <2>7. granted' \in [Attempt -> BOOLEAN]
    BY <1>19, Zenon DEF TypeOK, Settled, Leave
  <2>8. result' \in [Attempt -> {"none", "done"} \cup Nonterminal]
    BY <1>19 DEF TypeOK, Settled, Leave, Nonterminal
  <2>9. UNCHANGED <<wordVars, callVars, pause, wall, rev, count, origin, checkpoint,
           action, owner, answer, later>>
    BY <1>19 DEF Settled, Leave, callVars, wordVars
  <2> QED
    BY <2>1, <2>2, <2>3, <2>4, <2>5, <2>6, <2>7, <2>8, <2>9 DEF TypeOK, wordVars,
       callVars
<1>20. ASSUME NEW a \in Attempt, ApproveConfirmation(a) PROVE TypeOK'
  <2>1. decision' \in [Attempt -> {"none", "declined", "approved", "lapsed"}]
    BY <1>20 DEF TypeOK, ApproveConfirmation, NewRevision, Confirmable, Undecided
  <2>2. rev' \in Revision
    BY <1>20, BoundAssumption DEF TypeOK, ApproveConfirmation, NewRevision, Revision
  <2>3. status' \in OrderStatus
    BY <1>20 DEF TypeOK, ApproveConfirmation, NewRevision, Confirmable, Undecided,
       OrderStatus
  <2>4. step' \in [Revision -> StepState]
    BY <1>20 DEF TypeOK, ApproveConfirmation, NewRevision, Confirmable, Undecided,
       StepState
  <2>5. origin' \in [Revision -> Origin]
    BY <1>20 DEF TypeOK, ApproveConfirmation, NewRevision, Confirmable, Undecided,
       Origin
  <2>6. UNCHANGED <<journal, workerVars, callVars, pause, wall, count, lease, consumed,
           answer, later>>
    BY <1>20 DEF ApproveConfirmation, NewRevision, Confirmable, Undecided, callVars,
       journal, workerVars
  <2> QED
    BY <2>1, <2>2, <2>3, <2>4, <2>5, <2>6 DEF TypeOK, journal, workerVars, callVars
<1>21. ASSUME NEW a \in Attempt, DeclineConfirmation(a) PROVE TypeOK'
  <2>1. decision' \in [Attempt -> {"none", "declined", "approved", "lapsed"}]
    BY <1>21 DEF TypeOK, DeclineConfirmation
  <2>2. UNCHANGED <<orderVars, stepVars, journal, workerVars, callVars, consumed, answer,
           later>>
    BY <1>21 DEF DeclineConfirmation, callVars, journal, orderVars, stepVars,
       workerVars
  <2> QED
    BY <2>1, <2>2 DEF TypeOK, orderVars, stepVars, journal, workerVars, callVars
<1>22. ASSUME NEW a \in Attempt, AcceptVerifiedCommit(a) PROVE TypeOK'
  <2>1. decision' \in [Attempt -> {"none", "declined", "approved", "lapsed"}]
    BY <1>22 DEF TypeOK, AcceptVerifiedCommit, NewRevision
  <2>2. rev' \in Revision
    BY <1>22, BoundAssumption DEF TypeOK, AcceptVerifiedCommit, NewRevision, Revision
  <2>3. status' \in OrderStatus
    BY <1>22 DEF TypeOK, AcceptVerifiedCommit, NewRevision, OrderStatus
  <2>4. step' \in [Revision -> StepState]
    BY <1>22 DEF TypeOK, AcceptVerifiedCommit, NewRevision, StepState
  <2>5. origin' \in [Revision -> Origin]
    BY <1>22 DEF TypeOK, AcceptVerifiedCommit, NewRevision, Origin
  <2>6. UNCHANGED <<journal, workerVars, callVars, pause, wall, count, lease, consumed,
           answer, later>>
    BY <1>22 DEF AcceptVerifiedCommit, NewRevision, callVars, journal, workerVars
  <2> QED
    BY <2>1, <2>2, <2>3, <2>4, <2>5, <2>6 DEF TypeOK, journal, workerVars, callVars
<1>23. ASSUME NEW a \in Attempt, DeclineVerifiedCommit(a) PROVE TypeOK'
  <2>1. decision' \in [Attempt -> {"none", "declined", "approved", "lapsed"}]
    BY <1>23 DEF TypeOK, DeclineVerifiedCommit
  <2>2. UNCHANGED <<orderVars, stepVars, journal, workerVars, callVars, consumed, answer,
           later>>
    BY <1>23 DEF DeclineVerifiedCommit, callVars, journal, orderVars, stepVars,
       workerVars
  <2> QED
    BY <2>1, <2>2 DEF TypeOK, orderVars, stepVars, journal, workerVars, callVars
<1>24. ASSUME NEW a \in Attempt, DecisionLapses(a) PROVE TypeOK'
  <2>1. decision' \in [Attempt -> {"none", "declined", "approved", "lapsed"}]
    BY <1>24 DEF TypeOK, DecisionLapses
  <2>2. UNCHANGED <<orderVars, stepVars, journal, workerVars, callVars, consumed, answer,
           later>>
    BY <1>24 DEF DecisionLapses, callVars, journal, orderVars, stepVars, workerVars
  <2> QED
    BY <2>1, <2>2 DEF TypeOK, orderVars, stepVars, journal, workerVars, callVars
<1>25. ASSUME NEW r \in Revision, Reclaim(r) PROVE TypeOK'
  <2>1. attempt' \in [Attempt -> AttemptStatus]
    BY <1>25 DEF TypeOK, Reclaim, ReclaimedStep, AttemptStatus
  <2>2. lease' \in [Revision -> {"none", "held", "expired"}]
    BY <1>25 DEF TypeOK, Reclaim, ReclaimedStep
  <2>3. step' \in [Revision -> StepState]
    BY <1>25 DEF TypeOK, Reclaim, ReclaimedStep, StepState
  <2>4. status' \in OrderStatus
    BY <1>25 DEF TypeOK, Reclaim, ReclaimedStep, OrderStatus
  <2>5. UNCHANGED <<wordVars, workerVars, callVars, pause, wall, rev, count, origin,
           checkpoint, action, owner, answer, later>>
    BY <1>25 DEF Reclaim, ReclaimedStep, callVars, wordVars, workerVars
  <2> QED
    BY <2>1, <2>2, <2>3, <2>4, <2>5 DEF TypeOK, wordVars, workerVars, callVars
<1>26. ASSUME NEW r \in Revision, ExpireLease(r) PROVE TypeOK'
  <2>1. lease' \in [Revision -> {"none", "held", "expired"}]
    BY <1>26 DEF TypeOK, ExpireLease
  <2>2. UNCHANGED <<orderVars, journal, wordVars, workerVars, callVars, step, count,
           origin, answer, later>>
    BY <1>26 DEF ExpireLease, callVars, journal, orderVars, wordVars, workerVars
  <2> QED
    BY <2>1, <2>2 DEF TypeOK, orderVars, journal, wordVars, workerVars, callVars
<1>27. CASE VerifyCompletedStep
  <2>1. step' \in [Revision -> StepState]
    BY <1>27 DEF TypeOK, VerifyCompletedStep, StepState
  <2>2. status' \in OrderStatus
    BY <1>27 DEF TypeOK, VerifyCompletedStep, OrderStatus
  <2>3. UNCHANGED <<journal, wordVars, workerVars, callVars, pause, wall, rev, count,
           lease, origin, answer, later>>
    BY <1>27 DEF VerifyCompletedStep, callVars, journal, wordVars, workerVars
  <2> QED
    BY <2>1, <2>2, <2>3 DEF TypeOK, journal, wordVars, workerVars, callVars
<1>28. CASE RecordVerdict
  <2>1. status' \in OrderStatus
    BY <1>28 DEF TypeOK, RecordVerdict, OrderStatus
  <2>2. UNCHANGED <<stepVars, journal, wordVars, workerVars, callVars, pause, wall, rev,
           answer, later>>
    BY <1>28 DEF RecordVerdict, callVars, journal, stepVars, wordVars, workerVars
  <2> QED
    BY <2>1, <2>2 DEF TypeOK, stepVars, journal, wordVars, workerVars, callVars
<1>29. CASE DecideRecordedApproval
  <2>1. step' \in [Revision -> StepState]
    BY <1>29 DEF TypeOK, DecideRecordedApproval, StepState
  <2>2. status' \in OrderStatus
    BY <1>29 DEF TypeOK, DecideRecordedApproval, OrderStatus
  <2>3. UNCHANGED <<journal, wordVars, workerVars, callVars, pause, wall, rev, count,
           lease, origin, answer, later>>
    BY <1>29 DEF DecideRecordedApproval, callVars, journal, wordVars, workerVars
  <2> QED
    BY <2>1, <2>2, <2>3 DEF TypeOK, journal, wordVars, workerVars, callVars
<1>30. CASE Cancel
  <2>1. status' \in OrderStatus
    BY <1>30 DEF TypeOK, Cancel, OrderStatus
  <2>2. step' \in [Revision -> StepState]
    BY <1>30 DEF TypeOK, Cancel, StepState
  <2>3. lease' \in [Revision -> {"none", "held", "expired"}]
    BY <1>30 DEF TypeOK, Cancel
  <2>4. attempt' \in [Attempt -> AttemptStatus]
    BY <1>30 DEF TypeOK, Cancel, AttemptStatus
  <2>5. UNCHANGED <<wordVars, workerVars, callVars, pause, wall, rev, count, origin,
           checkpoint, action, owner, answer, later>>
    BY <1>30 DEF Cancel, callVars, wordVars, workerVars
  <2> QED
    BY <2>1, <2>2, <2>3, <2>4, <2>5 DEF TypeOK, wordVars, workerVars, callVars
<1>31. CASE WallClockRunsOut
  <2>1. wall' \in {"open", "spent", "read"}
    BY <1>31 DEF TypeOK, WallClockRunsOut
  <2>2. UNCHANGED <<stepVars, journal, wordVars, workerVars, callVars, status, pause, rev,
           answer, later>>
    BY <1>31 DEF WallClockRunsOut, callVars, journal, stepVars, wordVars, workerVars
  <2> QED
    BY <2>1, <2>2 DEF TypeOK, stepVars, journal, wordVars, workerVars, callVars
<1>32. CASE EnforceBudgetsRead
  <2>1. wall' \in {"open", "spent", "read"}
    BY <1>32 DEF TypeOK, EnforceBudgetsRead
  <2>2. UNCHANGED <<stepVars, journal, wordVars, workerVars, callVars, status, pause, rev,
           answer, later>>
    BY <1>32 DEF EnforceBudgetsRead, callVars, journal, stepVars, wordVars,
       workerVars
  <2> QED
    BY <2>1, <2>2 DEF TypeOK, stepVars, journal, wordVars, workerVars, callVars
<1>33. CASE EnforceBudgetsWrite
  <2>1. wall' \in {"open", "spent", "read"}
    BY <1>33 DEF TypeOK, EnforceBudgetsWrite
  <2>2. status' \in OrderStatus
    BY <1>33 DEF TypeOK, EnforceBudgetsWrite, OrderStatus
  <2>3. UNCHANGED <<stepVars, journal, wordVars, workerVars, callVars, pause, rev, answer,
           later>>
    BY <1>33 DEF EnforceBudgetsWrite, callVars, journal, stepVars, wordVars,
       workerVars
  <2> QED
    BY <2>1, <2>2, <2>3 DEF TypeOK, stepVars, journal, wordVars, workerVars,
       callVars
<1>34. CASE RequestPause
  <2>1. pause' \in BOOLEAN
    BY <1>34, Zenon DEF TypeOK, RequestPause
  <2>2. status' \in OrderStatus
    BY <1>34 DEF TypeOK, RequestPause, OrderStatus
  <2>3. UNCHANGED <<stepVars, journal, wordVars, workerVars, callVars, wall, rev, answer,
           later>>
    BY <1>34 DEF RequestPause, callVars, journal, stepVars, wordVars, workerVars
  <2> QED
    BY <2>1, <2>2, <2>3 DEF TypeOK, stepVars, journal, wordVars, workerVars,
       callVars
<1>35. CASE AcknowledgePause
  <2>1. status' \in OrderStatus
    BY <1>35 DEF TypeOK, AcknowledgePause, OrderStatus
  <2>2. UNCHANGED <<stepVars, journal, wordVars, workerVars, callVars, pause, wall, rev,
           answer, later>>
    BY <1>35 DEF AcknowledgePause, callVars, journal, stepVars, wordVars, workerVars
  <2> QED
    BY <2>1, <2>2 DEF TypeOK, stepVars, journal, wordVars, workerVars, callVars
<1>36. CASE ResumePaused
  <2>1. pause' \in BOOLEAN
    BY <1>36, Zenon DEF TypeOK, ResumePaused
  <2>2. status' \in OrderStatus
    BY <1>36 DEF TypeOK, ResumePaused, OrderStatus
  <2>3. UNCHANGED <<stepVars, journal, wordVars, workerVars, callVars, wall, rev, answer,
           later>>
    BY <1>36 DEF ResumePaused, callVars, journal, stepVars, wordVars, workerVars
  <2> QED
    BY <2>1, <2>2, <2>3 DEF TypeOK, stepVars, journal, wordVars, workerVars,
       callVars
<1>37. CASE NewTurn
  <2>1. later' \in BOOLEAN
    BY <1>37, Zenon DEF TypeOK, NewTurn
  <2>2. UNCHANGED <<orderVars, stepVars, journal, wordVars, workerVars, callVars, answer>>
    BY <1>37 DEF NewTurn, callVars, journal, orderVars, stepVars, wordVars,
       workerVars
  <2> QED
    BY <2>1, <2>2 DEF TypeOK, orderVars, stepVars, journal, wordVars, workerVars,
       callVars
<1>38. ASSUME NEW c \in Call, Commit(c) PROVE TypeOK'
  <2>1. receipts' \subseteq Receipted
    BY <1>38 DEF TypeOK, Commit
  <2>2. flight' \subseteq Receipted
    BY <1>38 DEF TypeOK, Commit
  <2>3. UNCHANGED <<orderVars, stepVars, journal, wordVars, workerVars, answer, later,
           sent>>
    BY <1>38 DEF Commit, journal, orderVars, stepVars, wordVars, workerVars
  <2> QED
    BY <2>1, <2>2, <2>3 DEF TypeOK, orderVars, stepVars, journal, wordVars,
       workerVars
<1>39. ASSUME NEW c \in Call, Refuse(c) PROVE TypeOK'
  <2>1. flight' \subseteq Receipted
    BY <1>39 DEF TypeOK, Refuse
  <2>2. UNCHANGED <<orderVars, stepVars, journal, wordVars, workerVars, receipts, answer,
           later, sent>>
    BY <1>39 DEF Refuse, journal, orderVars, stepVars, wordVars, workerVars
  <2> QED
    BY <2>1, <2>2 DEF TypeOK, orderVars, stepVars, journal, wordVars, workerVars
<1>40. CASE UNCHANGED vars
  BY <1>40 DEF TypeOK, vars, orderVars, stepVars, journal, wordVars, workerVars,
     callVars
<1> QED
  BY <1>1, <1>2, <1>3, <1>4, <1>5, <1>6, <1>7, <1>8, <1>9, <1>10, <1>11, <1>12,
     <1>13, <1>14, <1>15, <1>16, <1>17, <1>18, <1>19, <1>20, <1>21, <1>22, <1>23,
     <1>24, <1>25, <1>26, <1>27, <1>28, <1>29, <1>30, <1>31, <1>32, <1>33, <1>34,
     <1>35, <1>36, <1>37, <1>38, <1>39, <1>40, Steps, Zenon DEF WorkerStep,
     OwnerActs, Quiet


\* A worker that takes a step has been claimed; before it settles it changes no
\* step, no attempt's status, no decision and no revision.
LEMMA WorkerKeeps ==
  ASSUME TypeOK, CountInv, NEW a \in Attempt, WorkerStep(a)
  PROVE  /\ at[a] # "none" /\ ~(a[2] > count[a[1]])
         /\ UNCHANGED <<rev, step, count, origin, attempt, decision>>
         /\ \E p \in Place : at' = [at EXCEPT ![a] = p]
<1>1. at[a] # "none"
  BY DEF WorkerStep, Prepare, HydratePrompt, HydrateConfirmed, ConsumeVerifiedCommit,
         AskForCalls, SavePlanned, SaveStarted, UseDecision, AskConfirmation, Dispatch,
         Answer, SaveRecorded, Finish, SaveAnswer, Stop, Transient, Crash, Executing
<1>2. UNCHANGED <<rev, step, count, origin, attempt, decision>>
  BY DEF WorkerStep, Prepare, HydratePrompt, HydrateConfirmed, ConsumeVerifiedCommit,
         AskForCalls, SavePlanned, SaveStarted, UseDecision, AskConfirmation, Dispatch,
         Answer, SaveRecorded, Finish, SaveAnswer, Stop, Transient, Crash, orderVars,
         stepVars, journal, wordVars
<1>3. \E p \in Place : at' = [at EXCEPT ![a] = p]
  <2>1. CASE UseDecision(a)
    <3>1. at' = [at EXCEPT ![a] = at[a]]
      BY <2>1 DEF UseDecision, TypeOK
    <3> QED
      BY <3>1 DEF TypeOK
  <2>2. CASE ~UseDecision(a)
    BY <2>2 DEF WorkerStep, Prepare, HydratePrompt, HydrateConfirmed,
         ConsumeVerifiedCommit, AskForCalls, SavePlanned, SaveStarted, AskConfirmation,
         Dispatch, Answer, After, SaveRecorded, Finish, SaveAnswer, Stop, Transient,
         Crash, Move, Leave, Place, Executing
  <2> QED
    BY <2>1, <2>2
<1> QED
  BY <1>1, <1>2, <1>3 DEF CountInv

\* A quiet step touches none of what the invariants below are about.
LEMMA QuietKeeps ==
  ASSUME Quiet \/ UNCHANGED vars
  PROVE  /\ UNCHANGED <<rev, step, count, origin, journal, decision>>
         /\ UNCHANGED <<workerVars, sent>>
  BY DEF Quiet, ExpireLease, RecordVerdict, WallClockRunsOut, EnforceBudgetsRead,
         EnforceBudgetsWrite, RequestPause, AcknowledgePause, ResumePaused, NewTurn,
         Commit, Refuse, vars, orderVars, stepVars, journal, wordVars, workerVars, callVars

\* What is ahead stays untouched, and a retried step has an attempt left.
LEMMA StepCounts ==
  ASSUME TypeOK, CountInv, PlaceInv, [Next]_vars
  PROVE  CountInv'
<1>1. CASE Claim
  <2>1. count[rev] <= 1
    BY <1>1 DEF Claim, CountInv, TypeOK
  <2>2. \A r \in Revision :
          /\ r > rev' => step'[r] = "none" /\ count'[r] = 0
          /\ step'[r] = "ready" => count'[r] = 0
          /\ step'[r] = "retry_wait" => count'[r] <= 1
    BY <1>1 DEF Claim, CountInv, TypeOK, Revision
  <2>3. \A a \in Attempt :
          a[2] > count'[a[1]] => attempt'[a] = "none" /\ at'[a] = "none"
    <3> SUFFICES ASSUME NEW a \in Attempt, a[2] > count'[a[1]]
                 PROVE  attempt'[a] = "none" /\ at'[a] = "none"
      OBVIOUS
    <3>1. a[2] > count[a[1]] /\ a # <<rev, count[rev] + 1>>
      <4>1. a[1] \in Revision /\ a[2] \in {1, 2}
        BY DEF Attempt
      <4>2. CASE a[1] = rev
        <5>1. a[2] > count[rev] + 1
          BY <1>1, <4>1, <4>2 DEF Claim, TypeOK
        <5>2. count[rev] \in 0..2 /\ count[a[1]] \in 0..2
          BY <4>1, <4>2 DEF TypeOK
        <5> QED
          BY <4>1, <4>2, <5>1, <5>2
      <4>3. CASE a[1] # rev
        BY <1>1, <4>1, <4>3 DEF Claim, TypeOK
      <4> QED
        BY <4>2, <4>3
    <3> QED
      BY <1>1, <3>1 DEF Claim, CountInv, TypeOK
  <2> QED
    BY <2>2, <2>3 DEF CountInv
<1>2. ASSUME NEW a \in Attempt, WorkerStep(a) PROVE CountInv'
  <2>1. /\ ~(a[2] > count[a[1]])
        /\ UNCHANGED <<rev, step, count, attempt>>
        /\ \E p \in Place : at' = [at EXCEPT ![a] = p]
    BY <1>2, WorkerKeeps
  <2> QED
    BY <2>1 DEF CountInv, TypeOK
<1>3. ASSUME NEW a \in Attempt, Settled(a) PROVE CountInv'
  <2>1. ~(a[2] > count[a[1]])
    BY <1>3 DEF Settled, CountInv
  <2>2. OwnsLease(a) => ~(a[1] > rev)
    BY DEF OwnsLease, CountInv, Attempt
  <2>3. UNCHANGED <<rev, count>> /\ at' = [at EXCEPT ![a] = "gone"]
    BY <1>3 DEF Settled, Leave
  <2>4. CASE UNCHANGED <<attempt, step>>
    BY <2>1, <2>3, <2>4 DEF CountInv, TypeOK
  <2>5. CASE ~UNCHANGED <<attempt, step>>
    <3>1. PICK att, st : /\ OwnsLease(a)
                         /\ st \in {"succeeded", "failed", "retry_wait", "waiting_approval"}
                         /\ attempt' = [attempt EXCEPT ![a] = att]
                         /\ step' = [step EXCEPT ![a[1]] = st]
                         /\ st = "retry_wait" => count[a[1]] < MaxAttempts(a[1])
      BY <1>3, <2>5 DEF Settled
    <3>2. \A r \in Revision :
            /\ r > rev => step'[r] = "none" /\ count[r] = 0
            /\ step'[r] = "ready" => count[r] = 0
            /\ step'[r] = "retry_wait" => count[r] <= 1
      BY <2>2, <3>1 DEF CountInv, TypeOK, MaxAttempts
    <3>3. \A b \in Attempt :
            b[2] > count[b[1]] => attempt'[b] = "none" /\ at'[b] = "none"
      BY <2>1, <2>3, <3>1 DEF CountInv, TypeOK
    <3> QED
      BY <2>3, <3>2, <3>3 DEF CountInv
  <2> QED
    BY <2>4, <2>5
<1>4. ASSUME NEW r \in Revision, Reclaim(r) PROVE CountInv'
  <2>1. ReclaimedStep(r) \in {"retry_wait", "failed"}
        /\ (ReclaimedStep(r) = "retry_wait" => count[r] <= 1)
    BY DEF ReclaimedStep, MaxAttempts, TypeOK
  <2>2. UNCHANGED <<rev, count, at>>
    BY <1>4 DEF Reclaim, workerVars
  <2>3. \A s \in Revision :
          /\ s > rev => step'[s] = "none" /\ count[s] = 0
          /\ step'[s] = "ready" => count[s] = 0
          /\ step'[s] = "retry_wait" => count[s] <= 1
    BY <1>4, <2>1 DEF Reclaim, CountInv, TypeOK
  <2>4. \A a \in Attempt : a[2] > count[a[1]] => attempt'[a] = "none"
    <3> SUFFICES ASSUME NEW a \in Attempt, a[2] > count[a[1]]
                 PROVE  attempt'[a] = "none"
      OBVIOUS
    <3>1. a # Holder(r)
      BY DEF Holder, TypeOK, Attempt
    <3> QED
      BY <1>4, <3>1 DEF Reclaim, CountInv, TypeOK
  <2> QED
    BY <2>2, <2>3, <2>4 DEF CountInv
<1>5. CASE VerifyCompletedStep \/ DecideRecordedApproval
  <2>1. \E st \in {"checked", "failed"} : step' = [step EXCEPT ![rev] = st]
    BY <1>5 DEF VerifyCompletedStep, DecideRecordedApproval
  <2>2. UNCHANGED <<rev, count, attempt, at>>
    BY <1>5 DEF VerifyCompletedStep, DecideRecordedApproval, journal, workerVars
  <2> QED
    BY <2>1, <2>2 DEF CountInv, TypeOK, Revision
<1>6. CASE Cancel
  BY <1>6 DEF Cancel, CountInv, TypeOK, workerVars
<1>7. ASSUME NEW a \in Attempt, OwnerActs(a) \/ DecisionLapses(a) PROVE CountInv'
  <2>1. CASE UNCHANGED <<rev, step>>
    <3>1. UNCHANGED <<count, attempt, at>>
      BY <1>7 DEF OwnerActs, ApproveConfirmation, DeclineConfirmation,
         AcceptVerifiedCommit, DeclineVerifiedCommit, DecisionLapses, stepVars, journal,
         workerVars
    <3> QED
      BY <2>1, <3>1 DEF CountInv
  <2>2. CASE ~UNCHANGED <<rev, step>>
    <3>1. ApproveConfirmation(a) \/ AcceptVerifiedCommit(a)
      BY <1>7, <2>2 DEF OwnerActs, DeclineConfirmation, DeclineVerifiedCommit,
         DecisionLapses, orderVars, stepVars
    <3>2. /\ \E kind \in {"confirm", "verified"} : NewRevision(kind, a)
          /\ UNCHANGED <<count, attempt, at>>
      BY <3>1 DEF ApproveConfirmation, AcceptVerifiedCommit, journal, workerVars
    <3>3. rev + 1 \in Revision /\ count[rev + 1] = 0
      BY <3>2, BoundAssumption DEF NewRevision, Revision, TypeOK, CountInv
    <3>4. \A r \in Revision :
            /\ r > rev' => step'[r] = "none" /\ count[r] = 0
            /\ step'[r] = "ready" => count[r] = 0
            /\ step'[r] = "retry_wait" => count[r] <= 1
      BY <3>2, <3>3 DEF NewRevision, CountInv, TypeOK, Revision
    <3> QED
      BY <3>2, <3>4 DEF CountInv
  <2> QED
    BY <2>1, <2>2
<1>8. CASE Quiet \/ UNCHANGED vars
  <2>1. UNCHANGED <<rev, step, count, attempt, at>>
    BY <1>8, QuietKeeps DEF journal, workerVars
  <2> QED
    BY <2>1 DEF CountInv
<1> QED
  BY <1>1, <1>2, <1>3, <1>4, <1>5, <1>6, <1>7, <1>8, Steps


\* A worker has in every place what that place needs.
LEMMA StepPlaces ==
  ASSUME TypeOK, CountInv, PlaceInv, [Next]_vars
  PROVE  PlaceInv'
<1>1. CASE Claim
  <2>1. <<rev, count[rev] + 1>> \in Attempt
        => ~granted[<<rev, count[rev] + 1>>]
    <3>1. count[rev] \in 0..2
      BY DEF TypeOK
    <3>2. <<rev, count[rev] + 1>> \in Attempt => at[<<rev, count[rev] + 1>>] = "none"
      BY <3>1 DEF CountInv
    <3> QED
      BY <3>2 DEF PlaceInv
  <2> QED
    BY <1>1, <2>1 DEF Claim, PlaceInv, TypeOK
<1>2. ASSUME NEW a \in Attempt, Prepare(a) PROVE PlaceInv'
  BY <1>2 DEF PlaceInv, TypeOK, Prepare, Move, Leave
<1>3. ASSUME NEW a \in Attempt, HydratePrompt(a) PROVE PlaceInv'
  BY <1>3 DEF PlaceInv, TypeOK, HydratePrompt, Move
<1>4. ASSUME NEW a \in Attempt, HydrateConfirmed(a) PROVE PlaceInv'
  BY <1>4 DEF PlaceInv, TypeOK, HydrateConfirmed
<1>5. ASSUME NEW a \in Attempt, ConsumeVerifiedCommit(a) PROVE PlaceInv'
  BY <1>5 DEF PlaceInv, TypeOK, ConsumeVerifiedCommit
<1>6. ASSUME NEW a \in Attempt, NEW m \in Call, AskForCalls(a, m)
      PROVE  PlaceInv'
  BY <1>6 DEF PlaceInv, TypeOK, AskForCalls
<1>7. ASSUME NEW a \in Attempt, SavePlanned(a) PROVE PlaceInv'
  BY <1>7 DEF PlaceInv, TypeOK, SavePlanned, Move
<1>8. ASSUME NEW a \in Attempt, SaveStarted(a) PROVE PlaceInv'
  BY <1>8 DEF PlaceInv, TypeOK, SaveStarted, Move
<1>9. ASSUME NEW a \in Attempt, UseDecision(a) PROVE PlaceInv'
  BY <1>9 DEF PlaceInv, TypeOK, UseDecision
<1>10. ASSUME NEW a \in Attempt, AskConfirmation(a) PROVE PlaceInv'
  BY <1>10 DEF PlaceInv, TypeOK, AskConfirmation, Move
<1>11. ASSUME NEW a \in Attempt, Dispatch(a) PROVE PlaceInv'
  BY <1>11 DEF PlaceInv, TypeOK, Dispatch, Move
<1>12. ASSUME NEW a \in Attempt, NEW res \in {"done"} \cup Nonterminal, Answer(a, res)
      PROVE  PlaceInv'
  BY <1>12 DEF PlaceInv, TypeOK, Answer, After, Nonterminal
<1>13. ASSUME NEW a \in Attempt, SaveRecorded(a) PROVE PlaceInv'
  BY <1>13 DEF PlaceInv, TypeOK, SaveRecorded, GrantAfter, Nonterminal
<1>14. ASSUME NEW a \in Attempt, Finish(a) PROVE PlaceInv'
  BY <1>14 DEF PlaceInv, TypeOK, Finish, Move
<1>15. ASSUME NEW a \in Attempt, SaveAnswer(a) PROVE PlaceInv'
  BY <1>15 DEF PlaceInv, TypeOK, SaveAnswer, Move
<1>16. ASSUME NEW a \in Attempt, Stop(a) PROVE PlaceInv'
  BY <1>16 DEF PlaceInv, TypeOK, Stop, Move, Executing
<1>17. ASSUME NEW a \in Attempt, Transient(a) PROVE PlaceInv'
  BY <1>17 DEF PlaceInv, TypeOK, Transient, Move, Executing
<1>18. ASSUME NEW a \in Attempt, Crash(a) PROVE PlaceInv'
  BY <1>18 DEF PlaceInv, TypeOK, Crash, Leave
<1>19. ASSUME NEW a \in Attempt, Settled(a) PROVE PlaceInv'
  BY <1>19 DEF Settled, Leave, PlaceInv, TypeOK
<1>20. CASE \/ \E r \in Revision : Reclaim(r)
            \/ VerifyCompletedStep \/ DecideRecordedApproval \/ Cancel
            \/ \E a \in Attempt : OwnerActs(a) \/ DecisionLapses(a)
            \/ Quiet \/ UNCHANGED vars
  <2>1. UNCHANGED workerVars
    BY <1>20, QuietKeeps DEF Reclaim, VerifyCompletedStep, DecideRecordedApproval, Cancel,
       OwnerActs, ApproveConfirmation, DeclineConfirmation, AcceptVerifiedCommit,
       DeclineVerifiedCommit, DecisionLapses
  <2> QED
    BY <2>1 DEF PlaceInv, workerVars
<1> QED
  BY <1>1, <1>2, <1>3, <1>4, <1>5, <1>6, <1>7, <1>8, <1>9, <1>10, <1>11, <1>12, <1>13,
     <1>14, <1>15, <1>16, <1>17, <1>18, <1>19, <1>20, Steps, Zenon DEF WorkerStep


\* A worker writes its own checkpoint only, and only while its attempt runs.
LEMMA CheckpointKeeps ==
  ASSUME TypeOK, NEW a \in Attempt, WorkerStep(a), NEW b \in Attempt,
         b # a \/ attempt[a] # "running"
  PROVE  checkpoint'[b] = checkpoint[b]
<1>1. CASE UNCHANGED checkpoint
  BY <1>1
<1>2. CASE ~UNCHANGED checkpoint
  <2>1. \/ ConsumeVerifiedCommit(a) \/ SavePlanned(a) \/ SaveStarted(a)
        \/ AskConfirmation(a) \/ SaveRecorded(a) \/ Finish(a)
    BY <1>2 DEF WorkerStep, Prepare, HydratePrompt, HydrateConfirmed, AskForCalls,
       UseDecision, Dispatch, Answer, SaveAnswer, Stop, Transient, Crash, journal
  <2>2. attempt[a] = "running"
    BY <2>1 DEF ConsumeVerifiedCommit, SavePlanned, SaveStarted, AskConfirmation,
       SaveRecorded, Finish, CanSave, Active, OwnsLease
  <2>3. checkpoint' = [checkpoint EXCEPT ![a] = checkpoint'[a]]
    BY <2>1 DEF TypeOK, ConsumeVerifiedCommit, SavePlanned, SaveStarted, AskConfirmation,
       SaveRecorded, Finish
  <2> QED
    BY <2>2, <2>3 DEF TypeOK
<1> QED
  BY <1>1, <1>2

\* A worker disturbs no other worker, and comes to the gate, or stays there, by
\* two steps alone.
LEMMA GateKeeps ==
  ASSUME TypeOK, NEW a \in Attempt, WorkerStep(a)
  PROVE  /\ \A b \in Attempt \ {a} :
              at'[b] = at[b] /\ pend'[b] = pend[b] /\ granted'[b] = granted[b]
         /\ at'[a] = "gate" => SaveStarted(a) \/ UseDecision(a)
<1>1. \A b \in Attempt \ {a} :
        at'[b] = at[b] /\ pend'[b] = pend[b] /\ granted'[b] = granted[b]
  BY DEF TypeOK, WorkerStep, Prepare, HydratePrompt, HydrateConfirmed,
     ConsumeVerifiedCommit, AskForCalls, SavePlanned, SaveStarted, UseDecision,
     AskConfirmation, Dispatch, Answer, After, SaveRecorded, Finish, SaveAnswer,
     Stop, Transient, Crash, Move, Leave
<1>2. ASSUME ~SaveStarted(a), ~UseDecision(a) PROVE at'[a] # "gate"
  BY <1>2 DEF TypeOK, WorkerStep, Prepare, HydratePrompt, HydrateConfirmed,
     ConsumeVerifiedCommit, AskForCalls, SavePlanned, AskConfirmation, Dispatch,
     Answer, After, SaveRecorded, Finish, SaveAnswer, Stop, Transient, Crash, Move,
     Leave
<1> QED
  BY <1>1, <1>2

\* The owner's words stay tied to the checkpoints they were given about.
LEMMA StepWords ==
  ASSUME TypeOK, CountInv, PlaceInv, WordInv, [Next]_vars
  PROVE  WordInv'
<1>1. CASE Claim
  <2> DEFINE new == <<rev, count[rev] + 1>>
  <2>1. new \in Attempt => attempt[new] = "none"
    BY DEF CountInv, TypeOK
  <2>2. attempt' = [attempt EXCEPT ![new] = "running"]
        /\ at' = [at EXCEPT ![new] = "claimed"]
    BY <1>1 DEF Claim
  <2>3. UNCHANGED <<origin, checkpoint, decision, pend, granted>>
    BY <1>1 DEF Claim, wordVars
  <2>4. \A a \in Attempt : decision[a] # "none" => attempt'[a] \notin {"none", "running"}
    BY <2>1, <2>2 DEF WordInv, TypeOK
  <2>5. \A a \in Attempt : at'[a] = "gate" => at[a] = "gate"
    BY <2>2 DEF TypeOK
  <2> QED
    BY <2>3, <2>4, <2>5 DEF WordInv, Source, Head
<1>2. ASSUME NEW a \in Attempt, WorkerStep(a) PROVE WordInv'
  <2>1. UNCHANGED <<origin, attempt, decision>>
    BY <1>2, WorkerKeeps
  <2>2. \A s \in Attempt : decision[s] # "none" => checkpoint'[s] = checkpoint[s]
    BY <1>2, CheckpointKeeps DEF WordInv
  <2>3. \A r \in Revision : origin[r].kind = "confirm" =>
          checkpoint'[origin[r].source] = checkpoint[origin[r].source]
    BY <2>2 DEF WordInv
  <2>4. ASSUME NEW b \in Attempt, at'[b] = "gate", granted'[b]
        PROVE  origin[b[1]].kind = "confirm" /\ checkpoint[Source(b)].call = Head(b)'
    <3>1. CASE b # a
      <4>1. at[b] = "gate" /\ granted[b] /\ pend'[b] = pend[b]
        BY <1>2, <2>4, <3>1, GateKeeps
      <4> QED
        BY <4>1 DEF WordInv, Head
    <3>2. CASE b = a /\ SaveStarted(a)
      <4>1. ~granted'[a]
        BY <3>2 DEF SaveStarted, PlaceInv, Move
      <4> QED
        BY <2>4, <3>2, <4>1
    <3>3. CASE b = a /\ UseDecision(a)
      BY <3>3 DEF UseDecision, Authorized, Head
    <3> QED
      BY <1>2, <2>4, <3>1, <3>2, <3>3, GateKeeps
  <2>5. \A b \in Attempt : b[1] \in Revision
    BY DEF Attempt
  <2>6. \A b \in Attempt : at'[b] = "gate" /\ granted'[b] =>
          origin[b[1]].kind = "confirm" /\ checkpoint'[Source(b)].call = Head(b)'
    BY <2>3, <2>4, <2>5 DEF Source
  <2> QED
    BY <2>1, <2>3, <2>6 DEF WordInv, Source
<1>3. ASSUME NEW a \in Attempt, Settled(a) PROVE WordInv'
  <2>1. UNCHANGED <<origin, checkpoint, decision>>
        /\ at' = [at EXCEPT ![a] = "gone"] /\ pend' = [pend EXCEPT ![a] = {}]
        /\ granted' = [granted EXCEPT ![a] = FALSE]
    BY <1>3 DEF Settled, Leave, wordVars
  <2>2. \A b \in Attempt : decision[b] # "none" => attempt'[b] \notin {"none", "running"}
    BY <1>3 DEF Settled, WordInv, TypeOK
  <2>3. \A b \in Attempt : at'[b] = "gate" =>
          at[b] = "gate" /\ pend'[b] = pend[b] /\ granted'[b] = granted[b]
    BY <2>1 DEF TypeOK
  <2> QED
    BY <2>1, <2>2, <2>3 DEF WordInv, Source, Head
<1>4. CASE (\E r \in Revision : Reclaim(r)) \/ Cancel
  <2>1. \A b \in Attempt : attempt'[b] \in {attempt[b], "abandoned", "canceled"}
    BY <1>4 DEF Reclaim, Cancel, TypeOK
  <2>2. UNCHANGED <<origin, checkpoint, decision, workerVars>>
    BY <1>4 DEF Reclaim, Cancel, wordVars
  <2> QED
    BY <2>1, <2>2 DEF WordInv, Source, Head, workerVars
<1>5. ASSUME NEW a \in Attempt, ApproveConfirmation(a) \/ AcceptVerifiedCommit(a)
      PROVE  WordInv'
  <2>1. /\ decision[a] = "none" /\ attempt[a] \in {"failed", "outcome_unknown"}
        /\ decision' = [decision EXCEPT ![a] = "approved"]
        /\ UNCHANGED <<attempt, checkpoint, workerVars>>
    BY <1>5 DEF ApproveConfirmation, AcceptVerifiedCommit, Confirmable, Undecided,
       VerifiedFrontier, journal
  <2>2. PICK kind \in {"confirm", "verified"} :
          /\ NewRevision(kind, a)
          /\ kind = "confirm" => checkpoint[a].phase = "confirmation"
    BY <1>5 DEF ApproveConfirmation, AcceptVerifiedCommit, Confirmable
  <2>3. rev + 1 \in Revision
    BY <2>2, BoundAssumption DEF NewRevision, Revision, TypeOK
  <2>4. origin' = [origin EXCEPT ![rev + 1] = [kind |-> kind, source |-> a]]
    BY <2>2 DEF NewRevision
  <2>5. \A b \in Attempt : decision'[b] # "none" => attempt[b] \notin {"none", "running"}
    BY <2>1 DEF WordInv, TypeOK
  <2>6. \A r \in Revision :
          /\ origin'[r].kind \in {"confirm", "verified"} => origin'[r].source \in Attempt
          /\ origin'[r].kind = "confirm" =>
               /\ decision'[origin'[r].source] \in {"approved", "lapsed"}
               /\ checkpoint[origin'[r].source].phase = "confirmation"
    <3> SUFFICES ASSUME NEW r \in Revision
                 PROVE  /\ origin'[r].kind \in {"confirm", "verified"} =>
                             origin'[r].source \in Attempt
                        /\ origin'[r].kind = "confirm" =>
                             /\ decision'[origin'[r].source] \in {"approved", "lapsed"}
                             /\ checkpoint[origin'[r].source].phase = "confirmation"
      OBVIOUS
    <3>1. CASE r = rev + 1
      BY <2>1, <2>2, <2>3, <2>4, <3>1 DEF TypeOK
    <3>2. CASE r # rev + 1
      BY <2>1, <2>4, <3>2 DEF WordInv, TypeOK
    <3> QED
      BY <3>1, <3>2
  <2>7. ASSUME NEW b \in Attempt, at[b] = "gate" PROVE b[1] # rev + 1
    <3>1. count[rev + 1] = 0 /\ b[2] > 0
      BY <2>3 DEF CountInv, TypeOK, Revision, Attempt
    <3> QED
      BY <2>7, <3>1 DEF CountInv
  <2>8. \A b \in Attempt : at[b] = "gate" => origin'[b[1]] = origin[b[1]]
    BY <2>4, <2>7 DEF TypeOK, Attempt
  <2> QED
    BY <2>1, <2>5, <2>6, <2>8 DEF WordInv, Source, Head, workerVars
<1>6. ASSUME NEW a \in Attempt,
             DeclineConfirmation(a) \/ DeclineVerifiedCommit(a) \/ DecisionLapses(a)
      PROVE  WordInv'
  <2>1. /\ attempt[a] \notin {"none", "running"}
        /\ \/ decision[a] = "none" /\ decision' = [decision EXCEPT ![a] = "declined"]
           \/ decision[a] = "approved" /\ decision' = [decision EXCEPT ![a] = "lapsed"]
    BY <1>6 DEF DeclineConfirmation, DeclineVerifiedCommit, DecisionLapses, Confirmable,
       Undecided, VerifiedFrontier, WordInv
  <2>2. UNCHANGED <<origin, attempt, checkpoint, workerVars>>
    BY <1>6 DEF DeclineConfirmation, DeclineVerifiedCommit, DecisionLapses, stepVars,
       journal
  <2>3. \A b \in Attempt :
          /\ decision'[b] # "none" => attempt[b] \notin {"none", "running"}
          /\ decision[b] \in {"approved", "lapsed"} => decision'[b] \in {"approved", "lapsed"}
    BY <2>1 DEF WordInv, TypeOK
  <2> QED
    BY <2>2, <2>3 DEF WordInv, Source, Head, workerVars
<1>7. CASE VerifyCompletedStep \/ DecideRecordedApproval \/ Quiet \/ UNCHANGED vars
  <2>1. UNCHANGED <<origin, attempt, checkpoint, decision, workerVars>>
    BY <1>7, QuietKeeps DEF VerifyCompletedStep, DecideRecordedApproval, journal, wordVars
  <2> QED
    BY <2>1 DEF WordInv, Source, Head, workerVars
<1> QED
  BY <1>1, <1>2, <1>3, <1>4, <1>5, <1>6, <1>7, Steps, Zenon DEF OwnerActs


\* Steps of others than workers leave the calls alone, and bring nobody to the gate.
LEMMA OthersKeepCalls ==
  ASSUME TypeOK,
         \/ Claim \/ VerifyCompletedStep \/ DecideRecordedApproval \/ Cancel \/ Quiet
         \/ \E a \in Attempt : Settled(a) \/ OwnerActs(a) \/ DecisionLapses(a)
         \/ \E r \in Revision : Reclaim(r)
         \/ UNCHANGED vars
  PROVE  /\ UNCHANGED <<action, owner, checkpoint, sent>>
         /\ \A b \in Attempt : at'[b] = "gate" => at[b] = "gate" /\ pend'[b] = pend[b]
<1>1. CASE Claim
  BY <1>1 DEF Claim, TypeOK, callVars
<1>2. ASSUME NEW a \in Attempt, Settled(a)
      PROVE  /\ UNCHANGED <<action, owner, checkpoint, sent>>
             /\ \A b \in Attempt : at'[b] = "gate" => at[b] = "gate" /\ pend'[b] = pend[b]
  BY <1>2 DEF Settled, Leave, TypeOK, callVars
<1>3. CASE \/ VerifyCompletedStep \/ DecideRecordedApproval \/ Cancel \/ Quiet
           \/ \E a \in Attempt : OwnerActs(a) \/ DecisionLapses(a)
           \/ \E r \in Revision : Reclaim(r)
           \/ UNCHANGED vars
  <2>1. UNCHANGED <<action, owner, checkpoint, sent, workerVars>>
    BY <1>3, QuietKeeps DEF Reclaim, VerifyCompletedStep, DecideRecordedApproval, Cancel,
       OwnerActs, ApproveConfirmation, DeclineConfirmation, AcceptVerifiedCommit,
       DeclineVerifiedCommit, DecisionLapses, journal, callVars
  <2> QED
    BY <2>1 DEF workerVars
<1> QED
  BY <1>1, <1>2, <1>3

\* A call may be started again only if it has not left.
LEMMA StepJournal ==
  ASSUME TypeOK, CountInv, PlaceInv, JournalInv, [Next]_vars
  PROVE  JournalInv'
<1>1. ASSUME NEW a \in Attempt, WorkerStep(a) PROVE JournalInv'
  <2>1. \A b \in Attempt \ {a} : at'[b] = "gate" => at[b] = "gate" /\ Head(b)' = Head(b)
    BY <1>1, GateKeeps DEF Head
  <2>2. \A b \in Attempt : at[b] = "gate" => Head(b) \in Call
    BY HeadIsPending DEF PlaceInv
  <2>3. CASE SavePlanned(a)
    <3>1. UNCHANGED sent /\ at'[a] # "gate"
      BY <2>3 DEF SavePlanned, Move, callVars, TypeOK
    <3>2. \A c \in Call :
            \/ action'[c] = action[c] /\ owner'[c] = owner[c]
            \/ action[c] = "absent" /\ action'[c] = "planned"
      BY <2>3 DEF SavePlanned
    <3>3. \A c \in Call : action'[c] \in {"absent", "planned", "waiting_confirmation"}
            => sent[c] = 0
      BY <3>2 DEF JournalInv
    <3>4. \A b \in Attempt : at'[b] = "gate" =>
            action'[Head(b)'] = "started" /\ owner'[Head(b)'] = b /\ sent[Head(b)'] = 0
      BY <2>1, <2>2, <3>1, <3>2 DEF JournalInv
    <3> QED
      BY <3>1, <3>3, <3>4 DEF JournalInv
  <2>4. CASE SaveStarted(a)
    <3>1. Head(a) \in Call /\ Head(a)' = Head(a)
      BY <2>4, HeadIsPending DEF SaveStarted, PlaceInv, Move, Head
    <3>2. action[Head(a)] \in {"planned", "waiting_confirmation"} /\ sent[Head(a)] = 0
      BY <2>4, <3>1 DEF SaveStarted, Startable, JournalInv
    <3>3. /\ action' = [action EXCEPT ![Head(a)] = "started"]
          /\ owner' = [owner EXCEPT ![Head(a)] = a] /\ UNCHANGED sent
      BY <2>4 DEF SaveStarted, callVars
    <3>4. \A c \in Call : action'[c] \in {"absent", "planned", "waiting_confirmation"}
            => sent[c] = 0
      BY <3>3 DEF JournalInv, TypeOK
    <3>5. ASSUME NEW b \in Attempt, at'[b] = "gate"
          PROVE  action'[Head(b)'] = "started" /\ owner'[Head(b)'] = b /\ sent[Head(b)'] = 0
      <4>1. CASE b = a
        BY <3>1, <3>2, <3>3, <4>1 DEF TypeOK
      <4>2. CASE b # a
        <5>1. at[b] = "gate" /\ Head(b)' = Head(b) /\ Head(b) \in Call
          BY <2>1, <2>2, <3>5, <4>2
        <5>2. Head(b) # Head(a)
          BY <3>2, <5>1 DEF JournalInv
        <5> QED
          BY <3>3, <5>1, <5>2 DEF JournalInv, TypeOK
      <4> QED
        BY <4>1, <4>2
    <3> QED
      BY <3>3, <3>4, <3>5 DEF JournalInv
  <2>5. CASE AskConfirmation(a) \/ SaveRecorded(a)
    <3>1. Head(a) \in Call /\ owner[Head(a)] = a /\ UNCHANGED <<owner, sent>>
          /\ at'[a] # "gate"
      BY <2>5, HeadIsPending DEF AskConfirmation, SaveRecorded, PlaceInv, Move, callVars,
         TypeOK
    <3>2. PICK s : /\ action' = [action EXCEPT ![Head(a)] = s]
                   /\ s \in {"absent", "planned", "waiting_confirmation"} => sent[Head(a)] = 0
      <4>1. CASE AskConfirmation(a)
        BY <4>1 DEF AskConfirmation, JournalInv
      <4>2. CASE SaveRecorded(a)
        <5>1. result[a] \in {"done", "partial", "outcome_unknown", "waiting_approval"}
          BY <4>2 DEF SaveRecorded, PlaceInv, Nonterminal
        <5>2. action' = [action EXCEPT ![Head(a)] =
                           IF result[a] = "done" THEN "result_recorded" ELSE result[a]]
          BY <4>2, Zenon DEF SaveRecorded
        <5>3. CASE result[a] = "done"
          <6>1. action' = [action EXCEPT ![Head(a)] = "result_recorded"]
            BY <5>2, <5>3
          <6>2. "result_recorded" \notin {"absent", "planned", "waiting_confirmation"}
            OBVIOUS
          <6> QED
            BY <6>1, <6>2, Zenon
        <5>4. CASE result[a] # "done"
          <6>1. action' = [action EXCEPT ![Head(a)] = result[a]]
            BY <5>2, <5>4
          <6>2. result[a] \notin {"absent", "planned", "waiting_confirmation"}
            BY <5>1
          <6> QED
            BY <6>1, <6>2
        <5> QED
          BY <5>3, <5>4
      <4> QED
        BY <2>5, <4>1, <4>2
    <3>3. \A c \in Call : action'[c] \in {"absent", "planned", "waiting_confirmation"}
            => sent[c] = 0
      BY <3>2 DEF JournalInv, TypeOK
    <3>4. \A b \in Attempt : at'[b] = "gate" =>
            action'[Head(b)'] = "started" /\ owner'[Head(b)'] = b /\ sent[Head(b)'] = 0
      BY <2>1, <2>2, <3>1, <3>2 DEF JournalInv, TypeOK
    <3> QED
      BY <3>1, <3>3, <3>4 DEF JournalInv
  <2>6. CASE Dispatch(a)
    <3>1. /\ Head(a) \in Call /\ at[a] = "gate" /\ at'[a] # "gate"
          /\ sent' = [sent EXCEPT ![Head(a)] = @ + 1] /\ UNCHANGED <<action, owner>>
      BY <2>2, <2>6 DEF Dispatch, Move, journal, TypeOK
    <3>2. \A c \in Call : action[c] \in {"absent", "planned", "waiting_confirmation"}
            => sent'[c] = 0
      BY <3>1 DEF JournalInv, TypeOK
    <3>3. ASSUME NEW b \in Attempt, at'[b] = "gate"
          PROVE  action[Head(b)'] = "started" /\ owner[Head(b)'] = b /\ sent'[Head(b)'] = 0
      <4>1. b # a /\ at[b] = "gate" /\ Head(b)' = Head(b) /\ Head(b) \in Call
        BY <2>1, <2>2, <3>1, <3>3
      <4>2. Head(b) # Head(a)
        BY <3>1, <4>1 DEF JournalInv
      <4> QED
        BY <3>1, <4>1, <4>2 DEF JournalInv, TypeOK
    <3> QED
      BY <3>1, <3>2, <3>3 DEF JournalInv
  <2>7. CASE UseDecision(a)
    BY <2>7 DEF UseDecision, JournalInv, Head, journal, callVars
  <2>8. CASE ~(\/ SavePlanned(a) \/ SaveStarted(a) \/ AskConfirmation(a) \/ SaveRecorded(a)
               \/ Dispatch(a) \/ UseDecision(a))
    <3>1. UNCHANGED <<action, owner, sent>>
      BY <1>1, <2>8 DEF WorkerStep, Prepare, HydratePrompt, HydrateConfirmed,
         ConsumeVerifiedCommit, AskForCalls, Answer, Finish, SaveAnswer, Stop, Transient,
         Crash, journal, callVars
    <3>2. at'[a] # "gate"
      BY <1>1, <2>8, GateKeeps
    <3> QED
      BY <2>1, <3>1, <3>2 DEF JournalInv
  <2> QED
    BY <2>3, <2>4, <2>5, <2>6, <2>7, <2>8
<1>2. CASE ~\E a \in Attempt : WorkerStep(a)
  <2>1. /\ UNCHANGED <<action, owner, sent>>
        /\ \A b \in Attempt : at'[b] = "gate" => at[b] = "gate" /\ pend'[b] = pend[b]
    BY <1>2, Steps, OthersKeepCalls
  <2> QED
    BY <2>1 DEF JournalInv, Head
<1> QED
  BY <1>1, <1>2

\* A call leaves by being dispatched.
LEMMA OnlyDispatchSends ==
  ASSUME TypeOK, PlaceInv, [Next]_vars, ~\E a \in Attempt : Dispatch(a)
  PROVE  UNCHANGED sent
<1>1. CASE \E a \in Attempt : WorkerStep(a)
  BY <1>1 DEF WorkerStep, Prepare, HydratePrompt, HydrateConfirmed,
     ConsumeVerifiedCommit, AskForCalls, SavePlanned, SaveStarted, UseDecision,
     AskConfirmation, Answer, SaveRecorded, Finish, SaveAnswer, Stop, Transient,
     Crash, callVars
<1>2. CASE ~\E a \in Attempt : WorkerStep(a)
  BY <1>2, Steps, OthersKeepCalls
<1> QED
  BY <1>1, <1>2

\* A call that leaves had not left.
LEMMA StepOnce ==
  ASSUME TypeOK, PlaceInv, JournalInv, NothingLeavesTwice, [Next]_vars
  PROVE  NothingLeavesTwice'
<1>1. ASSUME NEW a \in Attempt, Dispatch(a) PROVE NothingLeavesTwice'
  <2>1. Head(a) \in Call /\ sent[Head(a)] = 0
    BY <1>1, HeadIsPending DEF Dispatch, PlaceInv, JournalInv
  <2> QED
    BY <1>1, <2>1 DEF Dispatch, NothingLeavesTwice, TypeOK
<1>2. CASE ~\E a \in Attempt : Dispatch(a)
  BY <1>2, OnlyDispatchSends DEF NothingLeavesTwice
<1> QED
  BY <1>1, <1>2

\* The word that was given about a checkpoint, and the checkpoint, stay; a new word
\* about a confirmation is its approval.
LEMMA WordsStay ==
  ASSUME TypeOK, CountInv, PlaceInv, WordInv, [Next]_vars, NEW s \in Attempt
  PROVE  /\ decision[s] \in {"approved", "lapsed"} =>
              checkpoint'[s] = checkpoint[s] /\ decision'[s] \in {"approved", "lapsed"}
         /\ decision'[s] \in {"approved", "lapsed"} =>
              \/ decision[s] \in {"approved", "lapsed"}
              \/ ApproveConfirmation(s) \/ AcceptVerifiedCommit(s)
<1>1. ASSUME decision[s] # "none" PROVE checkpoint'[s] = checkpoint[s]
  <2>1. attempt[s] # "running"
    BY <1>1 DEF WordInv
  <2>2. CASE \E a \in Attempt : WorkerStep(a)
    BY <2>1, <2>2, CheckpointKeeps
  <2>3. CASE ~\E a \in Attempt : WorkerStep(a)
    BY <2>3, Steps, OthersKeepCalls
  <2> QED
    BY <2>2, <2>3
<1>2. CASE UNCHANGED decision
  BY <1>1, <1>2
<1>3. CASE ~UNCHANGED decision
  <2>1. PICK a \in Attempt : OwnerActs(a) \/ DecisionLapses(a)
    <3>1. ~Claim /\ ~VerifyCompletedStep /\ ~DecideRecordedApproval /\ ~Cancel
          /\ \A r \in Revision : ~Reclaim(r)
      BY <1>3 DEF Claim, VerifyCompletedStep, DecideRecordedApproval, Cancel, Reclaim, wordVars
    <3>2. ~Quiet /\ ~UNCHANGED vars
      BY <1>3, QuietKeeps
    <3>3. \A a \in Attempt : ~WorkerStep(a) /\ ~Settled(a)
      BY <1>3, WorkerKeeps DEF Settled, wordVars
    <3> QED
      BY <3>1, <3>2, <3>3, Steps
  <2>2. \/ /\ decision[a] = "none" /\ decision' = [decision EXCEPT ![a] = "approved"]
           /\ ApproveConfirmation(a) \/ AcceptVerifiedCommit(a)
        \/ decision[a] = "none" /\ decision' = [decision EXCEPT ![a] = "declined"]
        \/ decision[a] = "approved" /\ decision' = [decision EXCEPT ![a] = "lapsed"]
    BY <2>1 DEF OwnerActs, ApproveConfirmation, DeclineConfirmation, Confirmable,
       AcceptVerifiedCommit, DeclineVerifiedCommit, Undecided, DecisionLapses
  <2> QED
    BY <1>1, <2>2 DEF TypeOK
<1> QED
  BY <1>2, <1>3

\* A gated call leaves with the grant for it, and what its owner decided stays.
LEMMA StepGated ==
  ASSUME TypeOK, CountInv, PlaceInv, WordInv, GatedOnTheOwnersWord, [Next]_vars
  PROVE  GatedOnTheOwnersWord'
<1>1. ASSUME NEW s \in Attempt, decision[s] \in {"approved", "lapsed"}
      PROVE  checkpoint'[s] = checkpoint[s] /\ decision'[s] \in {"approved", "lapsed"}
  BY <1>1, WordsStay
<1>2. ASSUME NEW c \in Call, c \in Gated, sent'[c] > 0
      PROVE  \E s \in Attempt :
               /\ checkpoint'[s].phase = "confirmation" /\ checkpoint'[s].call = c
               /\ decision'[s] \in {"approved", "lapsed"}
  <2>1. CASE sent[c] > 0
    BY <1>1, <1>2, <2>1 DEF GatedOnTheOwnersWord
  <2>2. CASE ~(sent[c] > 0)
    <3>1. PICK a \in Attempt : Dispatch(a)
      BY <1>2, <2>2, OnlyDispatchSends
    <3>2. at[a] = "gate" /\ Head(a) \in Call
      BY <3>1, HeadIsPending DEF Dispatch, PlaceInv
    <3>3. c = Head(a)
      BY <1>2, <2>2, <3>1, <3>2 DEF Dispatch, TypeOK
    <3>4. granted[a]
      BY <1>2, <3>1, <3>3 DEF Dispatch
    <3>5. a[1] \in Revision
      BY DEF Attempt
    <3>6. /\ Source(a) \in Attempt /\ decision[Source(a)] \in {"approved", "lapsed"}
          /\ checkpoint[Source(a)].phase = "confirmation"
          /\ checkpoint[Source(a)].call = c
      BY <3>2, <3>3, <3>4, <3>5 DEF WordInv, Source
    <3> QED
      BY <1>1, <3>6
  <2> QED
    BY <2>1, <2>2
<1>3. Gated \subseteq Call
  BY CallAssumption DEF Call
<1> QED
  BY <1>2, <1>3 DEF GatedOnTheOwnersWord


-----------------------------------------------------------------------------
(* The invariant, and what follows from it.                                *)

\* The inductive invariant holds in every reachable state.
LEMMA Invariance == ChatTurnSpec => []IInv
<1>1. Init => IInv
  <2> SUFFICES ASSUME Init PROVE IInv
    OBVIOUS
  <2>1. TypeOK
    <3>1. 1 \in Revision
      BY BoundAssumption DEF Revision
    <3>2. NoCheckpoint \in Checkpoint
      BY DEF NoCheckpoint, Checkpoint, Phase
    <3>3. \A k \in {"none", "prompt"} : [kind |-> k, source |-> NoAttempt] \in Origin
      BY DEF Origin
    <3>4. /\ origin \in [Revision -> Origin] /\ checkpoint \in [Attempt -> Checkpoint]
          /\ step \in [Revision -> StepState] /\ rev \in Revision
      BY <3>1, <3>2, <3>3 DEF Init, StepState
    <3>5. /\ pause \in BOOLEAN /\ answer \in BOOLEAN /\ later \in BOOLEAN
          /\ granted \in [Attempt -> BOOLEAN]
      BY Zenon DEF Init
    <3> QED
      BY <3>4, <3>5
      DEF Init, TypeOK, OrderStatus, AttemptStatus, ActionStatus, Place, Executing
  <2>2. CountInv /\ PlaceInv
    BY DEF Init, CountInv, PlaceInv, Revision, Attempt
  <2>3. WordInv
    BY DEF Init, WordInv
  <2>4. JournalInv /\ NothingLeavesTwice /\ GatedOnTheOwnersWord
    BY CallAssumption DEF Init, JournalInv, NothingLeavesTwice, GatedOnTheOwnersWord, Call
  <2> QED
    BY <2>1, <2>2, <2>3, <2>4 DEF IInv
<1>2. IInv /\ [Next]_vars => IInv'
  <2> SUFFICES ASSUME IInv, [Next]_vars PROVE IInv'
    OBVIOUS
  <2>1. TypeOK' /\ CountInv' /\ PlaceInv'
    BY StepTypes, StepCounts, StepPlaces DEF IInv
  <2>2. WordInv' /\ JournalInv'
    BY StepWords, StepJournal DEF IInv
  <2>3. NothingLeavesTwice' /\ GatedOnTheOwnersWord'
    BY StepOnce, StepGated DEF IInv
  <2> QED
    BY <2>1, <2>2, <2>3 DEF IInv
<1> QED
  BY <1>1, <1>2, PTL DEF ChatTurnSpec

\* Every reachable state of the order, its journal and its workers is well typed:
\* attempts stay within their limit (claim_ready_step, reclaim_expired_leases).
THEOREM TypeCorrect == ChatTurnSpec => []TypeOK
<1>1. IInv => TypeOK
  BY DEF IInv
<1> QED
  BY Invariance, <1>1, PTL

\* No call leaves twice, for any number of calls, revisions and faults: the
\* journal refuses a start that is not the first (record_boundary).
THEOREM CallsLeaveOnce == ChatTurnSpec => []NothingLeavesTwice
<1>1. IInv => NothingLeavesTwice
  BY DEF IInv
<1> QED
  BY Invariance, <1>1, PTL

\* No gated call leaves without a confirmation that names it, although the calls
\* are alike (require_confirmation).
THEOREM ConfirmationsNameTheirCall == ChatTurnSpec => []GatedOnTheOwnersWord
<1>1. IInv => GatedOnTheOwnersWord
  BY DEF IInv
<1> QED
  BY Invariance, <1>1, PTL

-----------------------------------------------------------------------------
(* A whole answer.  Of the attempts of the current revision at most one     *)
(* runs, and every call it does not hold pending is covered; when it ends,  *)
(* its checkpoint names the calls left, and the next revision starts from   *)
(* that checkpoint.                                                         *)

\* Only the current revision's last attempt runs, and only while its step does.
RunningInv ==
  /\ \A a \in Attempt : attempt[a] = "running" =>
       a[1] = rev /\ step[rev] = "running" /\ a[2] = count[rev]
  /\ \A r \in Revision : step[r] = "running" => r = rev
  /\ wall = "open" /\ status = "blocked" => step[rev] # "running"

\* Attempts stay within what their kind of revision allows.
LimitInv ==
  \A r \in Revision : /\ count[r] <= MaxAttempts(r)
                      /\ step[r] = "retry_wait" => count[r] < MaxAttempts(r)

\* Where the agent has been brought to where it stopped, and goes on.
Hydrated == {"thinking", "batch", "next", "gate", "sent", "answered", "finished"}

\* A worker that has not been hydrated has written no checkpoint; one that
\* finished holds no calls.
PhaseInv ==
  \A a \in Attempt :
    /\ at[a] \in {"none", "claimed", "prepared"} => checkpoint[a].phase = "none"
    /\ at[a] \in {"finished", "saved"} => checkpoint[a].phase = "finished"
    /\ at[a] \in {"none", "claimed", "prepared", "thinking", "finished", "saved", "gone"} =>
         pend[a] = {}

\* A proved commit is consumed before its continuation writes anything.
SpentInv ==
  /\ \A r \in Revision : origin[r].kind = "verified" => decision[origin[r].source] # "none"
  /\ \A a \in Attempt :
       /\ origin[a[1]].kind = "verified"
       /\ at[a] \in Hydrated \/ checkpoint[a].phase # "none"
       => Source(a) \in consumed

\* A second attempt goes on only where the first wrote no boundary.
Untouched(a) == checkpoint[a].phase \in {"none", "target"}
SecondInv ==
  \A a \in Attempt : a[2] = 2 /\ at[a] \in Hydrated => Untouched(<<a[1], 1>>)

\* A call that leaves nothing open, and all calls but some being such.
Covered(c) ==
  \/ action[c] \in {"absent", "result_recorded"}
  \/ c \in receipts /\ owner[c] \in consumed
AllBut(S) == \A c \in Call \ S : Covered(c)

\* A running worker holds every call that is still open.
WriterInv ==
  \A a \in Attempt : attempt[a] = "running" /\ at[a] \in Hydrated => AllBut(pend[a])

\* So does the checkpoint it has written last.
Open(a) ==
  checkpoint[a].pend
    \cup IF checkpoint[a].phase = "recorded" THEN {checkpoint[a].call} ELSE {}
FrontierInv ==
  \A a \in Attempt :
    a[1] = rev /\ checkpoint[a].phase \in {"planned", "started", "confirmation", "recorded"}
    => AllBut(Open(a))

\* A revision that has written no boundary goes on from one whose calls left it
\* knows, apart from the call a receipt stands in for.
SourceInv ==
  (\A a \in Attempt : a[1] = rev => Untouched(a)) =>
    LET o == origin[rev]
        c == checkpoint[o.source].call IN
    /\ o.kind = "prompt" => AllBut({})
    /\ o.kind = "confirm" => AllBut(Restored(o.source))
    /\ o.kind = "verified" => /\ AllBut(Restored(o.source) \cup {c})
                              /\ c \in receipts /\ owner[c] = o.source

\* After the answer nobody goes on, and no revision is added.
AnswerInv ==
  answer => /\ AllBut({})
            /\ \A a \in Attempt : attempt[a] = "running" => at[a] \notin Hydrated
            /\ \E a \in Attempt : a[1] = rev /\ checkpoint[a].phase = "finished"

WholeInv ==
  /\ RunningInv /\ LimitInv /\ PhaseInv /\ SpentInv /\ SecondInv
  /\ WriterInv /\ FrontierInv /\ SourceInv /\ AnswerInv

\* One attempt runs, and one step.
LEMMA StepRunning ==
  ASSUME TypeOK, CountInv, PlaceInv, RunningInv, [Next]_vars
  PROVE  RunningInv'
<1>1. CASE Claim
  <2>1. \A a \in Attempt : attempt[a] # "running"
    BY <1>1 DEF Claim, RunningInv
  <2>2. count[rev] \in 0..1 /\ rev \in Revision
    BY <1>1 DEF Claim, CountInv, TypeOK
  <2>3. /\ UNCHANGED rev /\ status' = "running"
        /\ step' = [step EXCEPT ![rev] = "running"]
        /\ count' = [count EXCEPT ![rev] = @ + 1]
        /\ attempt' = [attempt EXCEPT ![<<rev, count[rev] + 1>>] = "running"]
    BY <1>1 DEF Claim
  <2>4. \A a \in Attempt : attempt'[a] = "running" => a = <<rev, count[rev] + 1>>
    BY <2>1, <2>3 DEF TypeOK
  <2>5. \A r \in Revision : step'[r] = "running" => r = rev
    BY <2>3 DEF TypeOK, RunningInv
  <2>6. step'[rev] = "running" /\ count'[rev] = count[rev] + 1
    BY <2>2, <2>3 DEF TypeOK
  <2> QED
    BY <2>3, <2>4, <2>5, <2>6 DEF RunningInv
<1>2. ASSUME NEW a \in Attempt, WorkerStep(a) PROVE RunningInv'
  <2>1. UNCHANGED <<rev, step, count, attempt>>
    BY <1>2, WorkerKeeps
  <2>2. UNCHANGED <<status, wall>>
    BY <1>2 DEF WorkerStep, Prepare, HydratePrompt, HydrateConfirmed, ConsumeVerifiedCommit,
       AskForCalls, SavePlanned, SaveStarted, UseDecision, AskConfirmation, Dispatch,
       Answer, SaveRecorded, Finish, SaveAnswer, Stop, Transient, Crash, orderVars
  <2> QED
    BY <2>1, <2>2 DEF RunningInv
<1>3. ASSUME NEW a \in Attempt, Settled(a) PROVE RunningInv'
  <2>1. UNCHANGED <<rev, wall, count>>
    BY <1>3 DEF Settled
  <2>2. CASE UNCHANGED <<attempt, step, lease, status>>
    BY <2>1, <2>2 DEF RunningInv
  <2>3. CASE ~UNCHANGED <<attempt, step, lease, status>>
    <3>1. PICK att, st : /\ OwnsLease(a)
                         /\ att # "running" /\ attempt' = [attempt EXCEPT ![a] = att]
                         /\ st # "running" /\ step' = [step EXCEPT ![a[1]] = st]
      BY <1>3, <2>3 DEF Settled
    <3>2. a[1] = rev /\ a[2] = count[rev]
      BY <3>1 DEF OwnsLease, RunningInv
    <3>3. \A b \in Attempt : attempt[b] = "running" => b = a
      BY <3>2 DEF RunningInv, Attempt
    <3>4. \A b \in Attempt : attempt'[b] # "running"
      BY <3>1, <3>3 DEF TypeOK
    <3>5. \A r \in Revision : step'[r] # "running"
      BY <3>1, <3>2 DEF TypeOK, RunningInv
    <3> QED
      BY <2>1, <3>4, <3>5 DEF RunningInv, TypeOK
  <2> QED
    BY <2>2, <2>3
<1>4. ASSUME NEW r \in Revision, Reclaim(r) PROVE RunningInv'
  <2>1. r = rev /\ UNCHANGED <<rev, count>>
    BY <1>4 DEF Reclaim, RunningInv
  <2>2. /\ attempt' = [attempt EXCEPT ![<<rev, count[rev]>>] = "abandoned"]
        /\ \E st \in {"retry_wait", "failed"} : step' = [step EXCEPT ![rev] = st]
    BY <1>4, <2>1 DEF Reclaim, ReclaimedStep, Holder
  <2>3. \A b \in Attempt : attempt[b] = "running" => b = <<rev, count[rev]>>
    BY DEF RunningInv, Attempt
  <2>4. \A b \in Attempt : attempt'[b] # "running"
    BY <2>2, <2>3 DEF TypeOK
  <2>5. \A s \in Revision : step'[s] # "running"
    BY <2>2 DEF TypeOK, RunningInv
  <2> QED
    BY <2>1, <2>4, <2>5 DEF RunningInv, TypeOK
<1>5. CASE VerifyCompletedStep \/ DecideRecordedApproval
  <2>1. /\ step[rev] # "running" /\ UNCHANGED <<rev, count, attempt>>
        /\ \E st \in {"checked", "failed"} : step' = [step EXCEPT ![rev] = st]
    BY <1>5 DEF VerifyCompletedStep, DecideRecordedApproval, journal
  <2> QED
    BY <2>1 DEF RunningInv, TypeOK
<1>6. CASE Cancel
  <2>1. \A r \in Revision : step'[r] # "running"
    BY <1>6 DEF Cancel, TypeOK
  <2>2. \A b \in Attempt : attempt'[b] # "running"
    BY <1>6 DEF Cancel, TypeOK, RunningInv
  <2> QED
    BY <1>6, <2>1, <2>2 DEF Cancel, RunningInv, TypeOK
<1>7. ASSUME NEW a \in Attempt, ApproveConfirmation(a) \/ AcceptVerifiedCommit(a)
      PROVE  RunningInv'
  <2>1. /\ status = "blocked" /\ wall = "open" /\ UNCHANGED attempt
        /\ \E kind \in {"confirm", "verified"} : NewRevision(kind, a)
    BY <1>7 DEF ApproveConfirmation, AcceptVerifiedCommit, Confirmable, Undecided, journal
  <2>2. \A r \in Revision : step[r] # "running"
    BY <2>1 DEF RunningInv
  <2>3. \A b \in Attempt : attempt[b] # "running"
    BY <2>1, <2>2 DEF RunningInv, TypeOK
  <2>4. \A r \in Revision : step'[r] # "running"
    BY <2>1, <2>2 DEF NewRevision, TypeOK
  <2>5. rev' \in Revision
    BY <2>1, BoundAssumption DEF NewRevision, Revision, TypeOK
  <2> QED
    BY <2>1, <2>3, <2>4, <2>5 DEF RunningInv
<1>8. ASSUME NEW a \in Attempt,
             DeclineConfirmation(a) \/ DeclineVerifiedCommit(a) \/ DecisionLapses(a)
      PROVE  RunningInv'
  BY <1>8 DEF DeclineConfirmation, DeclineVerifiedCommit, DecisionLapses, orderVars,
     stepVars, journal, RunningInv
<1>9. CASE Quiet \/ UNCHANGED vars
  <2>1. UNCHANGED <<rev, step, count, attempt>>
    BY <1>9, QuietKeeps DEF journal
  <2>2. wall' = "open" /\ status' = "blocked" => wall = "open" /\ status = "blocked"
    BY <1>9 DEF Quiet, ExpireLease, RecordVerdict, WallClockRunsOut, EnforceBudgetsRead,
       EnforceBudgetsWrite, RequestPause, AcknowledgePause, ResumePaused, NewTurn, Commit,
       Refuse, vars, orderVars
  <2> QED
    BY <2>1, <2>2 DEF RunningInv
<1> QED
  BY <1>1, <1>2, <1>3, <1>4, <1>5, <1>6, <1>7, <1>8, <1>9, Steps, Zenon DEF OwnerActs

\* No step takes an attempt that its revision does not have.
LEMMA StepLimits ==
  ASSUME TypeOK, CountInv, PlaceInv, LimitInv, [Next]_vars
  PROVE  LimitInv'
<1>1. CASE Claim
  <2>1. /\ step[rev] \in {"ready", "retry_wait"} /\ UNCHANGED origin
        /\ step' = [step EXCEPT ![rev] = "running"]
        /\ count' = [count EXCEPT ![rev] = @ + 1]
    BY <1>1 DEF Claim
  <2>2. count[rev] + 1 <= MaxAttempts(rev)
    BY <2>1 DEF LimitInv, CountInv, TypeOK, MaxAttempts
  <2> QED
    BY <2>1, <2>2 DEF LimitInv, MaxAttempts, TypeOK
<1>2. ASSUME NEW a \in Attempt, WorkerStep(a) PROVE LimitInv'
  <2>1. UNCHANGED <<step, count, origin>>
    BY <1>2, WorkerKeeps
  <2> QED
    BY <2>1 DEF LimitInv, MaxAttempts
<1>3. ASSUME NEW a \in Attempt, Settled(a) PROVE LimitInv'
  <2>1. UNCHANGED <<count, origin>>
        /\ \/ UNCHANGED step
           \/ \E st : /\ step' = [step EXCEPT ![a[1]] = st]
                      /\ st = "retry_wait" => count[a[1]] < MaxAttempts(a[1])
    BY <1>3 DEF Settled
  <2> QED
    BY <2>1 DEF LimitInv, MaxAttempts, TypeOK
<1>4. ASSUME NEW r \in Revision, Reclaim(r) PROVE LimitInv'
  <2>1. UNCHANGED <<count, origin>> /\ step' = [step EXCEPT ![r] = ReclaimedStep(r)]
    BY <1>4 DEF Reclaim
  <2>2. ReclaimedStep(r) = "retry_wait" => count[r] < MaxAttempts(r)
    BY DEF ReclaimedStep
  <2> QED
    BY <2>1, <2>2 DEF LimitInv, MaxAttempts, TypeOK
<1>5. CASE VerifyCompletedStep \/ DecideRecordedApproval \/ Cancel
  BY <1>5 DEF VerifyCompletedStep, DecideRecordedApproval, Cancel, LimitInv, MaxAttempts,
     TypeOK
<1>6. ASSUME NEW a \in Attempt, ApproveConfirmation(a) \/ AcceptVerifiedCommit(a)
      PROVE  LimitInv'
  <2>1. /\ UNCHANGED count
        /\ \E kind \in {"confirm", "verified"} : NewRevision(kind, a)
    BY <1>6 DEF ApproveConfirmation, AcceptVerifiedCommit
  <2>2. rev + 1 \in Revision /\ count[rev + 1] = 0
    BY <2>1, BoundAssumption DEF NewRevision, Revision, TypeOK, CountInv
  <2>3. /\ \A r \in Revision \ {rev + 1} : origin'[r] = origin[r]
        /\ \A r \in Revision : step'[r] = "retry_wait" => step[r] = "retry_wait"
    BY <2>1 DEF NewRevision, TypeOK
  <2>4. ASSUME NEW r \in Revision
        PROVE  /\ count[r] <= MaxAttempts(r)'
               /\ step'[r] = "retry_wait" => count[r] < MaxAttempts(r)'
    <3>1. CASE r = rev + 1
      BY <2>2, <3>1 DEF MaxAttempts
    <3>2. CASE r # rev + 1
      BY <2>3, <3>2 DEF LimitInv, MaxAttempts
    <3> QED
      BY <3>1, <3>2
  <2> QED
    BY <2>1, <2>4 DEF LimitInv
<1>7. ASSUME NEW a \in Attempt,
             DeclineConfirmation(a) \/ DeclineVerifiedCommit(a) \/ DecisionLapses(a)
      PROVE  LimitInv'
  BY <1>7 DEF DeclineConfirmation, DeclineVerifiedCommit, DecisionLapses, stepVars, LimitInv,
     MaxAttempts
<1>8. CASE Quiet \/ UNCHANGED vars
  <2>1. UNCHANGED <<step, count, origin>>
    BY <1>8, QuietKeeps
  <2> QED
    BY <2>1 DEF LimitInv, MaxAttempts
<1> QED
  BY <1>1, <1>2, <1>3, <1>4, <1>5, <1>6, <1>7, <1>8, Steps, Zenon DEF OwnerActs

\* A worker writes a boundary only after it has been hydrated.
LEMMA StepPhases ==
  ASSUME TypeOK, CountInv, PlaceInv, PhaseInv, [Next]_vars
  PROVE  PhaseInv'
<1>1. CASE Claim
  <2>1. <<rev, count[rev] + 1>> \in Attempt => at[<<rev, count[rev] + 1>>] = "none"
    BY DEF CountInv, TypeOK
  <2> QED
    BY <1>1, <2>1 DEF Claim, PhaseInv, TypeOK
<1>2. ASSUME NEW a \in Attempt, WorkerStep(a) PROVE PhaseInv'
  <2> DEFINE Ok == /\ at'[a] \in {"none", "claimed", "prepared"} =>
                        checkpoint'[a].phase = "none"
                   /\ at'[a] \in {"finished", "saved"} => checkpoint'[a].phase = "finished"
                   /\ at'[a] \in {"none", "claimed", "prepared", "thinking", "finished",
                                  "saved", "gone"} => pend'[a] = {}
  <2>1. ASSUME Prepare(a) PROVE Ok
    BY <2>1 DEF Prepare, Move, Leave, PhaseInv, TypeOK, journal
  <2>2. ASSUME HydratePrompt(a) \/ HydrateConfirmed(a) \/ ConsumeVerifiedCommit(a)
                 \/ (\E m \in Call : AskForCalls(a, m))
        PROVE  Ok
    BY <2>2 DEF HydratePrompt, HydrateConfirmed, ConsumeVerifiedCommit, AskForCalls, Move,
       PhaseInv, TypeOK
  <2>3. ASSUME SavePlanned(a) PROVE Ok
    BY <2>3 DEF SavePlanned, Move, PhaseInv, TypeOK
  <2>4. ASSUME SaveStarted(a) \/ UseDecision(a) \/ AskConfirmation(a) \/ Dispatch(a)
                 \/ (\E res \in {"done"} \cup Nonterminal : Answer(a, res))
        PROVE  Ok
    BY <2>4 DEF SaveStarted, UseDecision, AskConfirmation, Dispatch, Answer, After, Move,
       TypeOK
  <2>5. ASSUME SaveRecorded(a) PROVE Ok
    BY <2>5 DEF SaveRecorded, PlaceInv, Nonterminal, TypeOK
  <2>6. ASSUME Finish(a) \/ SaveAnswer(a) PROVE Ok
    BY <2>6 DEF Finish, SaveAnswer, Move, PhaseInv, TypeOK, journal
  <2>7. ASSUME Stop(a) \/ Transient(a) \/ Crash(a) PROVE Ok
    BY <2>7 DEF Stop, Transient, Crash, Move, Leave, TypeOK
  <2>8. Ok
    BY <1>2, <2>1, <2>2, <2>3, <2>4, <2>5, <2>6, <2>7, Zenon DEF WorkerStep
  <2>9. \A b \in Attempt \ {a} :
          at'[b] = at[b] /\ pend'[b] = pend[b] /\ checkpoint'[b] = checkpoint[b]
    BY <1>2, GateKeeps, CheckpointKeeps
  <2> QED
    BY <2>8, <2>9 DEF PhaseInv
<1>3. ASSUME NEW a \in Attempt, Settled(a) PROVE PhaseInv'
  BY <1>3 DEF Settled, Leave, PhaseInv, TypeOK
<1>4. CASE \/ VerifyCompletedStep \/ DecideRecordedApproval \/ Cancel \/ Quiet
           \/ \E a \in Attempt : OwnerActs(a) \/ DecisionLapses(a)
           \/ \E r \in Revision : Reclaim(r)
           \/ UNCHANGED vars
  <2>1. UNCHANGED <<checkpoint, workerVars>>
    BY <1>4, QuietKeeps DEF Reclaim, VerifyCompletedStep, DecideRecordedApproval, Cancel,
       OwnerActs, ApproveConfirmation, DeclineConfirmation, AcceptVerifiedCommit,
       DeclineVerifiedCommit, DecisionLapses, journal
  <2> QED
    BY <2>1 DEF PhaseInv, workerVars
<1> QED
  BY <1>1, <1>2, <1>3, <1>4, Steps

\* A worker comes among the hydrated by hydration alone, and writes its checkpoint
\* there.
LEMMA HydratedKeeps ==
  ASSUME TypeOK, CountInv, PlaceInv, NEW a \in Attempt, WorkerStep(a),
         ~HydratePrompt(a), ~HydrateConfirmed(a), ~ConsumeVerifiedCommit(a)
  PROVE  /\ at'[a] \in Hydrated => at[a] \in Hydrated
         /\ checkpoint'[a] # checkpoint[a] => at[a] \in Hydrated
         /\ UNCHANGED consumed
<1>1. at[a] # "none"
  BY WorkerKeeps
<1>2. at'[a] \in Hydrated => at[a] \in Hydrated
  BY <1>1 DEF WorkerStep, Prepare, AskForCalls, SavePlanned, SaveStarted, UseDecision,
     AskConfirmation, Dispatch, Answer, After, SaveRecorded, Finish, SaveAnswer, Stop,
     Transient, Crash, Move, Leave, Hydrated, TypeOK
<1>3. checkpoint'[a] # checkpoint[a] => at[a] \in Hydrated
  BY DEF WorkerStep, Prepare, AskForCalls, SavePlanned, SaveStarted, UseDecision,
     AskConfirmation, Dispatch, Answer, SaveRecorded, Finish, SaveAnswer, Stop,
     Transient, Crash, Hydrated, journal
<1>4. UNCHANGED consumed
  BY DEF WorkerStep, Prepare, AskForCalls, SavePlanned, SaveStarted, UseDecision,
     AskConfirmation, Dispatch, Answer, SaveRecorded, Finish, SaveAnswer, Stop,
     Transient, Crash, wordVars
<1> QED
  BY <1>2, <1>3, <1>4

\* Steps of others than workers consume nothing and hydrate nobody.
LEMMA OthersHydrateNobody ==
  ASSUME TypeOK,
         \/ Claim \/ VerifyCompletedStep \/ DecideRecordedApproval \/ Cancel \/ Quiet
         \/ \E a \in Attempt : Settled(a) \/ OwnerActs(a) \/ DecisionLapses(a)
         \/ \E r \in Revision : Reclaim(r)
         \/ UNCHANGED vars
  PROVE  /\ UNCHANGED consumed
         /\ \A b \in Attempt : at'[b] \in Hydrated => at[b] \in Hydrated /\ pend'[b] = pend[b]
<1>1. CASE Claim
  BY <1>1 DEF Claim, TypeOK, wordVars, Hydrated
<1>2. ASSUME NEW a \in Attempt, Settled(a)
      PROVE  /\ UNCHANGED consumed
             /\ \A b \in Attempt :
                  at'[b] \in Hydrated => at[b] \in Hydrated /\ pend'[b] = pend[b]
  BY <1>2 DEF Settled, Leave, TypeOK, wordVars, Hydrated
<1>3. CASE \/ VerifyCompletedStep \/ DecideRecordedApproval \/ Cancel
           \/ \E a \in Attempt : OwnerActs(a) \/ DecisionLapses(a)
           \/ \E r \in Revision : Reclaim(r)
           \/ UNCHANGED vars
  <2>1. UNCHANGED <<consumed, workerVars>>
    BY <1>3 DEF Reclaim, VerifyCompletedStep, DecideRecordedApproval, Cancel, OwnerActs,
       ApproveConfirmation, DeclineConfirmation, AcceptVerifiedCommit,
       DeclineVerifiedCommit, DecisionLapses, wordVars, vars
  <2> QED
    BY <2>1 DEF workerVars
<1>4. CASE Quiet
  <2>1. UNCHANGED <<consumed, workerVars>>
    BY <1>4 DEF Quiet, ExpireLease, RecordVerdict, WallClockRunsOut, EnforceBudgetsRead,
       EnforceBudgetsWrite, RequestPause, AcknowledgePause, ResumePaused, NewTurn, Commit,
       Refuse, wordVars
  <2> QED
    BY <2>1 DEF workerVars
<1> QED
  BY <1>1, <1>2, <1>3, <1>4

\* Nor do they start anybody who has been hydrated.
LEMMA OthersStartNobody ==
  ASSUME TypeOK,
         \/ Claim \/ VerifyCompletedStep \/ DecideRecordedApproval \/ Cancel \/ Quiet
         \/ \E a \in Attempt : Settled(a) \/ OwnerActs(a) \/ DecisionLapses(a)
         \/ \E r \in Revision : Reclaim(r)
         \/ UNCHANGED vars,
         NEW b \in Attempt, at'[b] \in Hydrated
  PROVE  at'[b] = at[b] /\ (attempt'[b] = "running" => attempt[b] = "running")
<1>1. CASE Claim
  BY <1>1 DEF Claim, Hydrated, TypeOK
<1>2. ASSUME NEW a \in Attempt, Settled(a)
      PROVE  at'[b] = at[b] /\ (attempt'[b] = "running" => attempt[b] = "running")
  BY <1>2 DEF Settled, Leave, Hydrated, TypeOK
<1>3. CASE Cancel \/ \E r \in Revision : Reclaim(r)
  BY <1>3 DEF Cancel, Reclaim, TypeOK, workerVars
<1>4. CASE \/ VerifyCompletedStep \/ DecideRecordedApproval \/ Quiet
           \/ \E a \in Attempt : OwnerActs(a) \/ DecisionLapses(a)
           \/ UNCHANGED vars
  <2>1. UNCHANGED <<attempt, workerVars>>
    BY <1>4, QuietKeeps DEF VerifyCompletedStep, DecideRecordedApproval, OwnerActs,
       ApproveConfirmation, DeclineConfirmation, AcceptVerifiedCommit,
       DeclineVerifiedCommit, DecisionLapses, journal
  <2> QED
    BY <2>1 DEF workerVars
<1> QED
  BY <1>1, <1>2, <1>3, <1>4

\* The decision about a proved commit is spent before anything is written under it.
LEMMA StepSpent ==
  ASSUME TypeOK, CountInv, PlaceInv, WordInv, PhaseInv, SpentInv, [Next]_vars
  PROVE  SpentInv'
<1>1. ASSUME NEW a \in Attempt, WorkerStep(a) PROVE SpentInv'
  <2>1. UNCHANGED <<origin, decision>>
    BY <1>1, WorkerKeeps
  <2>2. \A b \in Attempt \ {a} : at'[b] = at[b] /\ checkpoint'[b] = checkpoint[b]
    BY <1>1, GateKeeps, CheckpointKeeps
  <2>3. consumed \subseteq consumed'
    <3>1. CASE ConsumeVerifiedCommit(a)
      BY <3>1 DEF ConsumeVerifiedCommit
    <3>2. CASE HydratePrompt(a) \/ HydrateConfirmed(a)
      BY <3>2 DEF HydratePrompt, HydrateConfirmed, wordVars
    <3> QED
      BY <1>1, <3>1, <3>2, HydratedKeeps
  <2>4. ASSUME origin[a[1]].kind = "verified",
               at'[a] \in Hydrated \/ checkpoint'[a].phase # "none"
        PROVE  Source(a) \in consumed'
    <3>1. CASE ConsumeVerifiedCommit(a)
      BY <3>1 DEF ConsumeVerifiedCommit
    <3>2. CASE ~ConsumeVerifiedCommit(a)
      <4>1. ~HydratePrompt(a) /\ ~HydrateConfirmed(a)
        BY <2>4 DEF HydratePrompt, HydrateConfirmed
      <4>2. at[a] \in Hydrated \/ checkpoint[a].phase # "none"
        BY <1>1, <2>4, <3>2, <4>1, HydratedKeeps
      <4> QED
        BY <2>3, <2>4, <4>2 DEF SpentInv
    <3> QED
      BY <3>1, <3>2
  <2> QED
    BY <2>1, <2>2, <2>3, <2>4 DEF SpentInv, Source
<1>2. CASE ~\E a \in Attempt : WorkerStep(a)
  <2>1. UNCHANGED <<checkpoint, consumed>>
        /\ \A b \in Attempt : at'[b] \in Hydrated => at[b] \in Hydrated
    BY <1>2, Steps, OthersKeepCalls, OthersHydrateNobody
  <2>2. CASE UNCHANGED <<origin, decision>>
    BY <2>1, <2>2 DEF SpentInv, Source
  <2>3. ASSUME NEW a \in Attempt, ApproveConfirmation(a) \/ AcceptVerifiedCommit(a)
        PROVE  SpentInv'
    <3>1. /\ decision' = [decision EXCEPT ![a] = "approved"]
          /\ \E kind \in {"confirm", "verified"} : NewRevision(kind, a)
      BY <2>3 DEF ApproveConfirmation, AcceptVerifiedCommit
    <3>2. rev + 1 \in Revision /\ count[rev + 1] = 0
      BY <3>1, BoundAssumption DEF NewRevision, Revision, TypeOK, CountInv
    <3>3. \A r \in Revision \ {rev + 1} : origin'[r] = origin[r]
      BY <3>1 DEF NewRevision, TypeOK
    <3>4. origin'[rev + 1].source = a
      BY <3>1, <3>2 DEF NewRevision, TypeOK
    <3>5. \A b \in Attempt : decision[b] # "none" \/ b = a => decision'[b] # "none"
      BY <3>1 DEF TypeOK
    <3>6. ASSUME NEW r \in Revision, origin'[r].kind = "verified"
          PROVE  decision'[origin'[r].source] # "none"
      <4>1. CASE r = rev + 1
        BY <3>4, <3>5, <4>1
      <4>2. CASE r # rev + 1
        BY <3>3, <3>5, <3>6, <4>2 DEF SpentInv, WordInv
      <4> QED
        BY <4>1, <4>2
    <3>7. ASSUME NEW b \in Attempt, origin'[b[1]].kind = "verified",
                 at[b] \in Hydrated \/ checkpoint[b].phase # "none"
          PROVE  Source(b)' \in consumed
      <4>1. b[1] # rev + 1
        <5>1. b[1] = rev + 1 => b[2] > count[b[1]]
          BY <3>2 DEF Attempt
        <5>2. b[1] = rev + 1 => at[b] = "none"
          BY <5>1 DEF CountInv
        <5> QED
          BY <3>7, <5>2 DEF PhaseInv, Hydrated
      <4>2. b[1] \in Revision /\ origin'[b[1]] = origin[b[1]]
        BY <3>3, <4>1 DEF Attempt
      <4> QED
        BY <3>7, <4>2 DEF SpentInv, Source
    <3> QED
      BY <2>1, <3>6, <3>7 DEF SpentInv
  <2>4. ASSUME NEW a \in Attempt,
               DeclineConfirmation(a) \/ DeclineVerifiedCommit(a) \/ DecisionLapses(a)
        PROVE  SpentInv'
    <3>1. UNCHANGED origin /\ \E d \in {"declined", "lapsed"} :
                                 decision' = [decision EXCEPT ![a] = d]
      BY <2>4 DEF DeclineConfirmation, DeclineVerifiedCommit, DecisionLapses, stepVars
    <3>2. \A b \in Attempt : decision[b] # "none" => decision'[b] # "none"
      BY <3>1 DEF TypeOK
    <3> QED
      BY <2>1, <3>1, <3>2 DEF SpentInv, Source, WordInv
  <2>5. CASE \/ Claim \/ VerifyCompletedStep \/ DecideRecordedApproval \/ Cancel \/ Quiet
             \/ \E a \in Attempt : Settled(a)
             \/ \E r \in Revision : Reclaim(r)
             \/ UNCHANGED vars
    <3>1. UNCHANGED <<origin, decision>>
      BY <2>5, QuietKeeps DEF Claim, VerifyCompletedStep, DecideRecordedApproval, Cancel,
         Settled, Reclaim, wordVars
    <3> QED
      BY <2>2, <3>1
  <2> QED
    BY <1>2, <2>3, <2>4, <2>5, Steps, Zenon DEF OwnerActs
<1> QED
  BY <1>1, <1>2

\* The attempt of a worker that is not waiting to be claimed is one of those taken,
\* and a second one is a continuation's.
LEMMA SecondIsVerified ==
  ASSUME TypeOK, CountInv, LimitInv, NEW a \in Attempt, at[a] # "none", a[2] = 2
  PROVE  /\ origin[a[1]].kind = "verified" /\ count[a[1]] = 2
         /\ <<a[1], 1>> \in Attempt /\ <<a[1], 1>>[1] = a[1]
<1>1. a[1] \in Revision /\ ~(2 > count[a[1]])
  BY DEF CountInv, Attempt
<1>2. MaxAttempts(a[1]) >= 2
  BY <1>1 DEF LimitInv, TypeOK, MaxAttempts
<1>3. <<a[1], 1>> \in Attempt
  BY <1>1 DEF Attempt
<1> QED
  BY <1>1, <1>2, <1>3 DEF MaxAttempts, TypeOK

\* When a worker is admitted, no attempt of its revision has written a boundary.
LEMMA FreshWhenAdmitted ==
  ASSUME TypeOK, CountInv, RunningInv, LimitInv, PhaseInv, SpentInv,
         NEW a \in Attempt, at[a] = "prepared", Active(a), Admitted(a)
  PROVE  \A b \in Attempt : b[1] = rev => Untouched(b)
<1> SUFFICES ASSUME NEW b \in Attempt, b[1] = rev PROVE Untouched(b)
  OBVIOUS
<1>1. a[1] = rev /\ a[2] = count[rev] /\ a[2] \in {1, 2} /\ b[2] \in {1, 2}
  BY DEF Active, OwnsLease, RunningInv, Attempt
<1>2. CASE b[2] > a[2]
  BY <1>1, <1>2 DEF CountInv, PhaseInv, Untouched
<1>3. CASE b[2] = a[2]
  <2>1. b = a
    BY <1>1, <1>3 DEF Attempt
  <2> QED
    BY <2>1 DEF PhaseInv, Untouched
<1>4. CASE b[2] < a[2]
  <2>1. a[2] = 2 /\ b = <<a[1], 1>>
    BY <1>1, <1>4 DEF Attempt
  <2>2. origin[a[1]].kind = "verified"
    BY <2>1, SecondIsVerified
  <2>3. CASE Source(a) \in consumed
    <3>1. Recovering(a)
      BY <2>2, <2>3 DEF Admitted
    <3> QED
      BY <2>1, <3>1 DEF Recovering, Untouched
  <2>4. CASE Source(a) \notin consumed
    <3>1. origin[b[1]].kind = "verified" /\ Source(b) = Source(a)
      BY <2>1, <2>2 DEF Source
    <3>2. checkpoint[b].phase = "none"
      BY <2>4, <3>1 DEF SpentInv
    <3> QED
      BY <3>2 DEF Untouched
  <2> QED
    BY <2>3, <2>4
<1> QED
  BY <1>1, <1>2, <1>3, <1>4

\* Hydration is for an active worker that is admitted.
LEMMA Hydration ==
  ASSUME NEW a \in Attempt,
         HydratePrompt(a) \/ HydrateConfirmed(a) \/ ConsumeVerifiedCommit(a)
  PROVE  at[a] = "prepared" /\ Active(a) /\ Admitted(a)
BY DEF HydratePrompt, HydrateConfirmed, ConsumeVerifiedCommit

\* The first attempt stays untouched while the second goes on.
LEMMA StepSecond ==
  ASSUME TypeOK, CountInv, PlaceInv, RunningInv, LimitInv, PhaseInv, SpentInv, SecondInv,
         [Next]_vars
  PROVE  SecondInv'
<1>1. ASSUME NEW a \in Attempt, WorkerStep(a) PROVE SecondInv'
  <2> SUFFICES ASSUME NEW b \in Attempt, b[2] = 2, at'[b] \in Hydrated
               PROVE  Untouched(<<b[1], 1>>)'
    BY DEF SecondInv
  <2> DEFINE first == <<b[1], 1>>
  <2>1. at[b] # "none"
    <3>1. CASE b = a
      BY <1>1, <3>1, WorkerKeeps
    <3>2. CASE b # a
      BY <1>1, <3>2, GateKeeps DEF Hydrated
    <3> QED
      BY <3>1, <3>2
  <2>2. count[b[1]] = 2 /\ first \in Attempt /\ first[1] = b[1] /\ first[2] = 1
    BY <2>1, SecondIsVerified
  <2>3. attempt[first] # "running"
    BY <2>2 DEF RunningInv
  <2>4. checkpoint'[first] = checkpoint[first]
    BY <1>1, <2>2, <2>3, CheckpointKeeps
  <2>5. Untouched(first)
    <3>1. CASE at[b] \in Hydrated
      BY <3>1 DEF SecondInv
    <3>2. CASE at[b] \notin Hydrated
      <4>1. b = a
        BY <1>1, <3>2, GateKeeps
      <4>2. at[a] = "prepared" /\ Active(a) /\ Admitted(a)
        BY <1>1, <3>2, <4>1, Hydration, HydratedKeeps
      <4>3. first[1] = rev
        BY <2>2, <4>1, <4>2 DEF Admitted
      <4> QED
        BY <2>2, <4>2, <4>3, FreshWhenAdmitted
    <3> QED
      BY <3>1, <3>2
  <2> QED
    BY <2>4, <2>5 DEF Untouched
<1>2. CASE ~\E a \in Attempt : WorkerStep(a)
  <2>1. UNCHANGED checkpoint /\ \A b \in Attempt : at'[b] \in Hydrated => at[b] \in Hydrated
    BY <1>2, Steps, OthersKeepCalls, OthersHydrateNobody
  <2> QED
    BY <2>1 DEF SecondInv, Untouched
<1> QED
  BY <1>1, <1>2

\* A step that writes no boundary, hydrates nobody and adds no revision; it may
\* give a worker more calls, prove a commit or save the answer.
Calm ==
  /\ UNCHANGED <<rev, origin, action, owner, checkpoint>>
  /\ receipts \subseteq receipts' /\ consumed \subseteq consumed'
  /\ \A a \in Attempt : attempt'[a] = "running" /\ at'[a] \in Hydrated =>
       /\ attempt[a] = "running" /\ at[a] \in Hydrated /\ pend[a] \subseteq pend'[a]

LEMMA CalmCovers ==
  ASSUME TypeOK, WriterInv, FrontierInv, SourceInv, Calm
  PROVE  /\ (WriterInv /\ FrontierInv /\ SourceInv)'
         /\ UNCHANGED answer /\ AnswerInv => AnswerInv'
<1>1. WriterInv'
  <2> SUFFICES ASSUME NEW a \in Attempt, attempt'[a] = "running", at'[a] \in Hydrated
               PROVE  AllBut(pend[a])'
    BY DEF WriterInv
  <2>1. AllBut(pend[a]) /\ pend[a] \subseteq pend'[a]
    BY DEF Calm, WriterInv
  <2> QED
    BY <2>1 DEF Calm, AllBut, Covered
<1>2. FrontierInv'
  BY DEF Calm, FrontierInv, Open, AllBut, Covered
<1>3. SourceInv'
  BY DEF Calm, SourceInv, Untouched, Restored, AllBut, Covered
<1>4. ASSUME UNCHANGED answer, AnswerInv PROVE AnswerInv'
  BY <1>4 DEF Calm, AnswerInv, AllBut, Covered
<1> QED
  BY <1>1, <1>2, <1>3, <1>4

\* A worker that saves a boundary: its checkpoint names the calls it held, or it
\* finished; the calls it drops are recorded, and no other call is touched.
Boundary(a) ==
  /\ CanSave(a) /\ at[a] \in Hydrated
  /\ UNCHANGED <<rev, origin, attempt, receipts, consumed, answer>>
  /\ \A b \in Attempt \ {a} :
       at'[b] = at[b] /\ pend'[b] = pend[b] /\ checkpoint'[b] = checkpoint[b]
  /\ checkpoint'[a].phase \in {"planned", "started", "confirmation", "recorded", "finished"}
  /\ checkpoint'[a].phase # "finished" => pend[a] \subseteq Open(a)'
  /\ \A c \in Call \ pend[a] : action'[c] = action[c] /\ owner'[c] = owner[c]
  /\ at'[a] \in Hydrated => \A c \in pend[a] \ pend'[a] : action'[c] = "result_recorded"

\* The five boundaries have that form.
LEMMA Boundaries ==
  ASSUME TypeOK, CountInv, PlaceInv, NEW a \in Attempt,
         SavePlanned(a) \/ SaveStarted(a) \/ AskConfirmation(a) \/ SaveRecorded(a) \/ Finish(a)
  PROVE  Boundary(a)
<1>1. WorkerStep(a)
  BY DEF WorkerStep
<1>2. \A b \in Attempt \ {a} :
        at'[b] = at[b] /\ pend'[b] = pend[b] /\ checkpoint'[b] = checkpoint[b]
  BY <1>1, GateKeeps, CheckpointKeeps
<1>3. CanSave(a) /\ at[a] \in Hydrated
      /\ UNCHANGED <<rev, origin, attempt, receipts, consumed, answer>>
  BY DEF SavePlanned, SaveStarted, AskConfirmation, SaveRecorded, Finish, Hydrated, orderVars,
     stepVars, wordVars, callVars
<1>4. CASE SavePlanned(a)
  <2>1. /\ checkpoint'[a] = [phase |-> "planned", call |-> NoCall, pend |-> pend[a]]
        /\ pend'[a] = pend[a]
    BY <1>4 DEF SavePlanned, Move, TypeOK
  <2>2. \A c \in Call \ pend[a] : action'[c] = action[c] /\ owner'[c] = owner[c]
    BY <1>4 DEF SavePlanned
  <2> QED
    BY <1>2, <1>3, <2>1, <2>2 DEF Boundary, Open
<1>5. CASE SaveStarted(a) \/ AskConfirmation(a)
  <2>1. Head(a) \in pend[a] /\ pend'[a] = pend[a]
    BY <1>5, HeadIsPending DEF SaveStarted, AskConfirmation, PlaceInv, Move
  <2>2. \E p \in {"started", "confirmation"} :
          checkpoint'[a] = [phase |-> p, call |-> Head(a), pend |-> pend[a]]
    BY <1>5 DEF SaveStarted, AskConfirmation, TypeOK
  <2>3. \A c \in Call \ pend[a] : action'[c] = action[c] /\ owner'[c] = owner[c]
    BY <1>5, <2>1 DEF SaveStarted, AskConfirmation, TypeOK
  <2> QED
    BY <1>2, <1>3, <2>1, <2>2, <2>3 DEF Boundary, Open
<1>6. CASE SaveRecorded(a)
  <2>1. Head(a) \in pend[a] /\ Head(a) \in Call
    BY <1>6, HeadIsPending DEF SaveRecorded, PlaceInv
  <2>2. /\ checkpoint'[a] = [phase |-> "recorded", call |-> Head(a),
                             pend |-> pend[a] \ {Head(a)}]
        /\ pend'[a] = pend[a] \ {Head(a)}
    BY <1>6 DEF SaveRecorded, TypeOK
  <2>3. \A c \in Call \ pend[a] : action'[c] = action[c] /\ owner'[c] = owner[c]
    BY <1>6, <2>1 DEF SaveRecorded, TypeOK
  <2>4. at'[a] \in Hydrated => action'[Head(a)] = "result_recorded"
    <3>1. result[a] \in {"done"} \cup Nonterminal
      BY <1>6 DEF SaveRecorded, PlaceInv
    <3>2. result[a] \in Nonterminal => at'[a] \in {"waiting", "nonterminal"}
      BY <1>6 DEF SaveRecorded, Nonterminal, TypeOK
    <3>3. result[a] = "done" => action'[Head(a)] = "result_recorded"
      BY <1>6, <2>1 DEF SaveRecorded, TypeOK
    <3> QED
      BY <3>1, <3>2, <3>3 DEF Hydrated
  <2> QED
    BY <1>2, <1>3, <2>1, <2>2, <2>3, <2>4 DEF Boundary, Open
<1>7. CASE Finish(a)
  BY <1>2, <1>3, <1>7 DEF Finish, Boundary, Move, TypeOK
<1> QED
  BY <1>4, <1>5, <1>6, <1>7

LEMMA BoundaryCovers ==
  ASSUME TypeOK, CountInv, RunningInv, PhaseInv, SecondInv, WriterInv, FrontierInv, SourceInv,
         AnswerInv, NEW a \in Attempt, Boundary(a)
  PROVE  (WriterInv /\ FrontierInv /\ SourceInv /\ AnswerInv)'
<1>1. attempt[a] = "running" /\ a[1] = rev /\ a[2] = count[rev] /\ at[a] \in Hydrated
  BY DEF Boundary, CanSave, Active, OwnsLease, RunningInv
<1>2. AllBut(pend[a])
  BY <1>1 DEF WriterInv
<1>3. \A c \in Call \ pend[a] : Covered(c)'
  BY <1>2 DEF AllBut, Covered, Boundary
<1>4. ~answer
  BY <1>1 DEF AnswerInv
<1>5. WriterInv'
  <2> SUFFICES ASSUME NEW b \in Attempt, attempt'[b] = "running", at'[b] \in Hydrated
               PROVE  AllBut(pend[b])'
    BY DEF WriterInv
  <2>1. b = a
    BY <1>1 DEF Boundary, RunningInv, Attempt
  <2>2. \A c \in pend[a] \ pend'[a] : Covered(c)'
    BY <2>1 DEF Boundary, Covered
  <2> QED
    BY <1>3, <2>1, <2>2 DEF AllBut
<1>6. FrontierInv'
  <2> SUFFICES ASSUME NEW b \in Attempt, b[1] = rev,
                      checkpoint'[b].phase \in {"planned", "started", "confirmation", "recorded"}
               PROVE  AllBut(Open(b))'
    BY DEF FrontierInv, Boundary
  <2>1. b = a
    <3>1. SUFFICES ASSUME b # a PROVE FALSE
      OBVIOUS
    <3>2. ~Untouched(b)
      BY <3>1 DEF Boundary, Untouched
    <3>3. b[2] # a[2] /\ a[2] \in {1, 2} /\ b[2] \in {1, 2}
      BY <1>1, <3>1 DEF Attempt
    <3>4. CASE b[2] = 2
      <4>1. b[2] > count[b[1]]
        BY <1>1, <3>3, <3>4
      <4> QED
        BY <3>2, <4>1 DEF CountInv, PhaseInv, Untouched
    <3>5. CASE b[2] = 1
      <4>1. a[2] = 2 /\ b = <<a[1], 1>>
        BY <1>1, <3>3, <3>5 DEF Attempt
      <4> QED
        BY <1>1, <3>2, <4>1 DEF SecondInv
    <3> QED
      BY <3>3, <3>4, <3>5
  <2>2. pend[a] \subseteq Open(a)'
    BY <2>1 DEF Boundary
  <2> QED
    BY <1>3, <2>1, <2>2 DEF AllBut
<1>7. SourceInv'
  BY <1>1 DEF SourceInv, Untouched, Boundary
<1>8. AnswerInv'
  BY <1>4 DEF AnswerInv, Boundary
<1> QED
  BY <1>5, <1>6, <1>7, <1>8

\* A worker is hydrated with the calls its source left.
LEMMA HydrationCovers ==
  ASSUME TypeOK, CountInv, WordInv, RunningInv, LimitInv, PhaseInv, SpentInv, WriterInv,
         FrontierInv, SourceInv, AnswerInv, NEW a \in Attempt,
         HydratePrompt(a) \/ HydrateConfirmed(a) \/ ConsumeVerifiedCommit(a)
  PROVE  (WriterInv /\ FrontierInv /\ SourceInv /\ AnswerInv)'
<1>1. at[a] = "prepared" /\ Active(a) /\ Admitted(a)
  BY Hydration
<1>2. attempt[a] = "running" /\ a[1] = rev /\ a[1] \in Revision
  BY <1>1 DEF Admitted, Active, OwnsLease, Attempt
<1>3. \A b \in Attempt : b[1] = rev => Untouched(b)
  BY <1>1, FreshWhenAdmitted
<1>4. UNCHANGED <<rev, origin, attempt, action, owner, receipts, answer>>
      /\ consumed \subseteq consumed'
  BY DEF HydratePrompt, HydrateConfirmed, ConsumeVerifiedCommit, orderVars, stepVars, journal,
     wordVars, callVars
<1>5. WorkerStep(a)
  BY DEF WorkerStep
<1>6. \A b \in Attempt \ {a} :
        at'[b] = at[b] /\ pend'[b] = pend[b] /\ checkpoint'[b] = checkpoint[b]
  BY <1>5, GateKeeps, CheckpointKeeps
<1>7. checkpoint'[a] = checkpoint[a] \/ checkpoint'[a].phase = "target"
  BY DEF HydratePrompt, HydrateConfirmed, ConsumeVerifiedCommit, TypeOK, journal
<1>8. \A c \in Call : Covered(c) => Covered(c)'
  BY <1>4 DEF Covered
<1>9. origin[rev].kind \in {"confirm", "verified"} =>
        checkpoint'[origin[rev].source] = checkpoint[origin[rev].source]
  <2>1. origin[rev].kind \in {"confirm", "verified"} =>
          origin[rev].source \in Attempt /\ attempt[origin[rev].source] # "running"
    BY <1>2 DEF WordInv, SpentInv
  <2> QED
    BY <1>5, <2>1, CheckpointKeeps
<1>10. AllBut(pend[a])' /\ at'[a] \in Hydrated
  <2>1. CASE HydratePrompt(a)
    <3>1. pend'[a] = {} /\ at'[a] \in Hydrated
      BY <2>1 DEF HydratePrompt, Move, PhaseInv, Hydrated, TypeOK
    <3>2. AllBut({})
      BY <1>2, <1>3, <2>1 DEF HydratePrompt, SourceInv
    <3> QED
      BY <1>8, <3>1, <3>2 DEF AllBut
  <2>2. CASE HydrateConfirmed(a)
    <3>1. pend'[a] = Restored(Source(a)) /\ at'[a] \in Hydrated
      BY <2>2 DEF HydrateConfirmed, Hydrated, TypeOK
    <3>2. AllBut(Restored(Source(a)))
      BY <1>2, <1>3, <2>2 DEF HydrateConfirmed, SourceInv, Source
    <3> QED
      BY <1>8, <3>1, <3>2 DEF AllBut
  <2>3. CASE ConsumeVerifiedCommit(a)
    <3> PICK c : c = checkpoint[Source(a)].call
      OBVIOUS
    <3>1. /\ pend'[a] = Restored(Source(a)) /\ at'[a] \in Hydrated
          /\ Source(a) \in consumed'
      BY <2>3 DEF ConsumeVerifiedCommit, Hydrated, TypeOK
    <3>2. /\ AllBut(Restored(Source(a)) \cup {c})
          /\ c \in receipts /\ owner[c] = Source(a)
      BY <1>2, <1>3, <2>3 DEF ConsumeVerifiedCommit, SourceInv, Source
    <3>3. Covered(c)'
      BY <1>4, <3>1, <3>2 DEF Covered
    <3> QED
      BY <1>8, <3>1, <3>2, <3>3 DEF AllBut
  <2> QED
    BY <2>1, <2>2, <2>3
<1>11. WriterInv'
  BY <1>4, <1>6, <1>8, <1>10 DEF WriterInv, AllBut
<1>12. FrontierInv'
  <2> SUFFICES ASSUME NEW b \in Attempt, b[1] = rev,
                      checkpoint'[b].phase \in {"planned", "started", "confirmation", "recorded"}
               PROVE  FALSE
    BY <1>4 DEF FrontierInv
  <2> QED
    BY <1>3, <1>6, <1>7 DEF Untouched
<1>13. SourceInv'
  <2>1. PICK S, c : S = Restored(origin[rev].source) /\ c = checkpoint[origin[rev].source].call
    OBVIOUS
  <2>2. /\ origin[rev].kind = "prompt" => AllBut({})
        /\ origin[rev].kind = "confirm" => AllBut(S)
        /\ origin[rev].kind = "verified" =>
             AllBut(S \cup {c}) /\ c \in receipts /\ owner[c] = origin[rev].source
    BY <1>3, <2>1 DEF SourceInv
  <2>3. /\ origin[rev].kind = "prompt" => AllBut({})'
        /\ origin[rev].kind = "confirm" => AllBut(S)'
        /\ origin[rev].kind = "verified" => AllBut(S \cup {c})'
    BY <1>8, <2>2 DEF AllBut
  <2>4. origin[rev].kind \in {"confirm", "verified"} =>
          /\ Restored(origin[rev].source)' = S
          /\ checkpoint'[origin[rev].source].call = c
    BY <1>4, <1>9, <2>1 DEF Restored
  <2> QED
    BY <1>4, <2>2, <2>3, <2>4 DEF SourceInv
<1>14. AnswerInv'
  BY <1>3, <1>4 DEF AnswerInv, Untouched
<1> QED
  BY <1>11, <1>12, <1>13, <1>14

\* The owner's word on a checkpoint starts a revision with the calls it left.
LEMMA RevisionCovers ==
  ASSUME TypeOK, CountInv, RunningInv, PhaseInv, WriterInv, FrontierInv,
         NEW a \in Attempt, ApproveConfirmation(a) \/ AcceptVerifiedCommit(a)
  PROVE  (WriterInv /\ FrontierInv /\ SourceInv /\ AnswerInv)'
<1>1. /\ Undecided(a) /\ wall = "open"
      /\ UNCHANGED <<attempt, checkpoint, action, owner, receipts, consumed, answer>>
  BY DEF ApproveConfirmation, AcceptVerifiedCommit, Confirmable, journal, callVars
<1>2. PICK kind \in {"confirm", "verified"} :
        /\ NewRevision(kind, a)
        /\ kind = "confirm" => checkpoint[a].phase = "confirmation"
        /\ kind = "verified" => VerifiedFrontier(a)
  BY DEF ApproveConfirmation, AcceptVerifiedCommit, Confirmable
<1>3. rev' = rev + 1 /\ rev + 1 \in Revision /\ a[1] = rev /\ ~answer
  BY <1>1, <1>2, BoundAssumption DEF NewRevision, Revision, TypeOK, Undecided
<1>4. origin'[rev'] = [kind |-> kind, source |-> a]
  BY <1>2, <1>3 DEF NewRevision, TypeOK
<1>5. \A b \in Attempt : attempt[b] # "running"
  BY <1>1 DEF RunningInv, Undecided
<1>6. \A b \in Attempt : b[1] = rev' => checkpoint[b].phase = "none"
  <2> SUFFICES ASSUME NEW b \in Attempt, b[1] = rev' PROVE checkpoint[b].phase = "none"
    OBVIOUS
  <2>1. b[2] > count[b[1]]
    BY <1>3 DEF CountInv, TypeOK, Revision, Attempt
  <2> QED
    BY <2>1 DEF CountInv, PhaseInv
<1>7. WriterInv'
  BY <1>1, <1>5 DEF WriterInv
<1>8. FrontierInv'
  BY <1>1, <1>6 DEF FrontierInv
<1>9. SourceInv'
  <2>1. CASE kind = "confirm"
    <3>1. Open(a) = Restored(a)
      BY <1>2, <2>1 DEF Open, Restored
    <3>2. AllBut(Restored(a))
      BY <1>2, <1>3, <2>1, <3>1 DEF FrontierInv
    <3> QED
      BY <1>1, <1>4, <2>1, <3>2 DEF SourceInv, AllBut, Covered, Restored
  <2>2. CASE kind = "verified"
    <3>1. PICK c : c = checkpoint[a].call
      OBVIOUS
    <3>2. /\ checkpoint[a].phase \in {"started", "recorded"}
          /\ c \in receipts /\ owner[c] = a
      BY <1>2, <2>2, <3>1 DEF VerifiedFrontier, Proved
    <3>3. Open(a) \subseteq Restored(a) \cup {c}
      BY <3>1, <3>2 DEF Open, Restored
    <3>4. AllBut(Restored(a) \cup {c})
      BY <1>3, <3>2, <3>3 DEF FrontierInv, AllBut
    <3> QED
      BY <1>1, <1>4, <2>2, <3>1, <3>2, <3>4 DEF SourceInv, AllBut, Covered, Restored
  <2> QED
    BY <2>1, <2>2
<1>10. AnswerInv'
  BY <1>1, <1>3 DEF AnswerInv
<1> QED
  BY <1>7, <1>8, <1>9, <1>10

\* The answer is saved by the worker that finished with no call pending.
LEMMA AnswerCovers ==
  ASSUME TypeOK, RunningInv, PhaseInv, WriterInv, FrontierInv, SourceInv,
         NEW a \in Attempt, SaveAnswer(a)
  PROVE  (WriterInv /\ FrontierInv /\ SourceInv /\ AnswerInv)'
<1>1. /\ at[a] = "finished" /\ attempt[a] = "running" /\ at' = [at EXCEPT ![a] = "saved"]
      /\ UNCHANGED <<rev, origin, attempt, action, owner, checkpoint, receipts, consumed, pend>>
  BY DEF SaveAnswer, Active, OwnsLease, Move, orderVars, stepVars, journal, wordVars, callVars
<1>2. a[1] = rev /\ a[2] = count[rev] /\ checkpoint[a].phase = "finished"
  BY <1>1 DEF RunningInv, PhaseInv
<1>3. AllBut({})
  BY <1>1 DEF WriterInv, PhaseInv, Hydrated
<1>4. \A b \in Attempt : attempt[b] = "running" => b = a
  BY <1>2 DEF RunningInv, Attempt
<1>5. Calm
  BY <1>1, <1>4 DEF Calm, Hydrated, TypeOK
<1>6. (WriterInv /\ FrontierInv /\ SourceInv)'
  BY <1>5, CalmCovers
<1>7. AnswerInv'
  BY <1>1, <1>2, <1>3, <1>4 DEF AnswerInv, AllBut, Covered, Hydrated, TypeOK
<1> QED
  BY <1>6, <1>7

\* Every other step is calm.
LEMMA CalmSteps ==
  ASSUME TypeOK, CountInv, PlaceInv, PhaseInv, [Next]_vars,
         \A a \in Attempt :
           /\ ~HydratePrompt(a) /\ ~HydrateConfirmed(a) /\ ~ConsumeVerifiedCommit(a)
           /\ ~SavePlanned(a) /\ ~SaveStarted(a) /\ ~AskConfirmation(a) /\ ~SaveRecorded(a)
           /\ ~Finish(a) /\ ~SaveAnswer(a)
           /\ ~ApproveConfirmation(a) /\ ~AcceptVerifiedCommit(a)
  PROVE  Calm /\ UNCHANGED answer
<1>1. ASSUME NEW a \in Attempt, WorkerStep(a) PROVE Calm /\ UNCHANGED answer
  <2>1. UNCHANGED <<rev, origin, attempt, action, owner, checkpoint, consumed, receipts, answer>>
    BY <1>1 DEF WorkerStep, Prepare, AskForCalls, UseDecision, Dispatch, Answer, Stop,
       Transient, Crash, orderVars, stepVars, journal, wordVars, callVars
  <2>2. at'[a] \in Hydrated => at[a] \in Hydrated
    BY <1>1, HydratedKeeps
  <2>3. at'[a] \in Hydrated => pend[a] \subseteq pend'[a]
    <3>1. CASE \E m \in Call : AskForCalls(a, m)
      BY <3>1 DEF AskForCalls, PhaseInv
    <3>2. CASE ~\E m \in Call : AskForCalls(a, m)
      BY <1>1, <3>2 DEF WorkerStep, Prepare, UseDecision, Dispatch, Answer, Stop, Transient,
         Crash, Move, Leave, Hydrated, TypeOK
    <3> QED
      BY <3>1, <3>2
  <2>4. \A b \in Attempt \ {a} : at'[b] = at[b] /\ pend'[b] = pend[b]
    BY <1>1, GateKeeps
  <2> QED
    BY <2>1, <2>2, <2>3, <2>4 DEF Calm
<1>2. CASE ~\E a \in Attempt : WorkerStep(a)
  <2>1. \/ Claim \/ VerifyCompletedStep \/ DecideRecordedApproval \/ Cancel \/ Quiet
        \/ \E a \in Attempt : \/ Settled(a) \/ DecisionLapses(a)
                              \/ DeclineConfirmation(a) \/ DeclineVerifiedCommit(a)
        \/ \E r \in Revision : Reclaim(r)
        \/ UNCHANGED vars
    BY <1>2, Steps, Zenon DEF OwnerActs
  <2>2. /\ UNCHANGED <<action, owner, checkpoint, consumed>>
        /\ \A b \in Attempt : at'[b] \in Hydrated => at[b] \in Hydrated /\ pend'[b] = pend[b]
    BY <1>2, Steps, OthersKeepCalls, OthersHydrateNobody
  <2>3. UNCHANGED <<rev, origin, answer>> /\ receipts \subseteq receipts'
    BY <2>1 DEF Claim, VerifyCompletedStep, DecideRecordedApproval, Cancel, Settled,
       DecisionLapses, DeclineConfirmation, DeclineVerifiedCommit, Reclaim, Quiet,
       ExpireLease, RecordVerdict, WallClockRunsOut, EnforceBudgetsRead,
       EnforceBudgetsWrite, RequestPause, AcknowledgePause, ResumePaused, NewTurn, Commit,
       Refuse, vars, orderVars, stepVars, callVars
  <2>4. \A b \in Attempt : attempt'[b] = "running" /\ at'[b] \in Hydrated =>
          attempt[b] = "running"
    BY <1>2, Steps, OthersStartNobody
  <2> QED
    BY <2>2, <2>3, <2>4 DEF Calm
<1> QED
  BY <1>1, <1>2

\* Every step leaves the calls that are open with the worker, the checkpoint or the
\* source that goes on with them.
LEMMA StepCovers ==
  ASSUME IInv, WholeInv, [Next]_vars
  PROVE  (WriterInv /\ FrontierInv /\ SourceInv /\ AnswerInv)'
<1> USE DEF IInv, WholeInv
<1>1. ASSUME NEW a \in Attempt,
             HydratePrompt(a) \/ HydrateConfirmed(a) \/ ConsumeVerifiedCommit(a)
      PROVE  (WriterInv /\ FrontierInv /\ SourceInv /\ AnswerInv)'
  BY <1>1, HydrationCovers
<1>2. ASSUME NEW a \in Attempt,
             \/ SavePlanned(a) \/ SaveStarted(a) \/ AskConfirmation(a) \/ SaveRecorded(a)
             \/ Finish(a)
      PROVE  (WriterInv /\ FrontierInv /\ SourceInv /\ AnswerInv)'
  BY <1>2, Boundaries, BoundaryCovers
<1>3. ASSUME NEW a \in Attempt, ApproveConfirmation(a) \/ AcceptVerifiedCommit(a)
      PROVE  (WriterInv /\ FrontierInv /\ SourceInv /\ AnswerInv)'
  BY <1>3, RevisionCovers
<1>4. ASSUME NEW a \in Attempt, SaveAnswer(a)
      PROVE  (WriterInv /\ FrontierInv /\ SourceInv /\ AnswerInv)'
  BY <1>4, AnswerCovers
<1>5. ASSUME Calm, UNCHANGED answer
      PROVE  (WriterInv /\ FrontierInv /\ SourceInv /\ AnswerInv)'
  BY <1>5, CalmCovers
<1> QED
  BY <1>1, <1>2, <1>3, <1>4, <1>5, CalmSteps

\* The second inductive invariant, relative to the first.
LEMMA WholeInvariance == ChatTurnSpec => []WholeInv
<1>1. Init => WholeInv
  <2> SUFFICES ASSUME Init PROVE WholeInv
    OBVIOUS
  <2>1. RunningInv /\ LimitInv
    BY DEF Init, RunningInv, LimitInv, MaxAttempts
  <2>2. PhaseInv /\ SpentInv /\ SecondInv
    BY DEF Init, PhaseInv, SpentInv, SecondInv, Untouched, Hydrated, NoCheckpoint, Revision,
       Attempt
  <2>3. WriterInv /\ FrontierInv /\ AnswerInv
    BY DEF Init, WriterInv, FrontierInv, AnswerInv, NoCheckpoint
  <2>4. SourceInv
    BY BoundAssumption DEF Init, SourceInv, AllBut, Covered, Revision
  <2> QED
    BY <2>1, <2>2, <2>3, <2>4 DEF WholeInv
<1>2. IInv /\ WholeInv /\ [Next]_vars => WholeInv'
  <2> SUFFICES ASSUME IInv, WholeInv, [Next]_vars PROVE WholeInv'
    OBVIOUS
  <2>1. RunningInv' /\ LimitInv' /\ PhaseInv'
    BY StepRunning, StepLimits, StepPhases DEF IInv, WholeInv
  <2>2. SpentInv' /\ SecondInv'
    BY StepSpent, StepSecond DEF IInv, WholeInv
  <2>3. (WriterInv /\ FrontierInv /\ SourceInv /\ AnswerInv)'
    BY StepCovers
  <2> QED
    BY <2>1, <2>2, <2>3 DEF WholeInv
<1> QED
  BY <1>1, <1>2, Invariance, PTL DEF ChatTurnSpec

\* An answer is given over a whole journal, however often the turn crashed, stopped
\* and was continued (_run_durable_chat, verified_commit_continuation_state).
THEOREM AnswersAreWhole == ChatTurnSpec => []AnswerIsWhole
<1>1. WholeInv => AnswerIsWhole
  BY DEF WholeInv, AnswerInv, AnswerIsWhole, AllBut, Covered
<1> QED
  BY WholeInvariance, <1>1, PTL

-----------------------------------------------------------------------------
(* The promise.                                                            *)

\* A batch has one call that was started, the one at its head.
BatchInv ==
  \A a \in Attempt : attempt[a] = "running" =>
    /\ at[a] = "next" =>
         \A c \in pend[a] : action[c] \in {"planned", "waiting_confirmation"}
    /\ at[a] \in {"gate", "sent", "answered"} =>
         \A c \in pend[a] \ {Head(a)} : action[c] \in {"planned", "waiting_confirmation"}

\* What is under way or has a receipt has left, and what was consumed was decided.
TraceInv ==
  /\ \A c \in flight \cup receipts : sent[c] > 0
  /\ \A a \in consumed : decision[a] # "none"

\* The journal of a running worker's batch is written by nobody else.
LEMMA OthersLeaveBatches ==
  ASSUME TypeOK, CountInv, RunningInv, NEW a \in Attempt, WorkerStep(a),
         NEW b \in Attempt, b # a, attempt[b] = "running"
  PROVE  UNCHANGED <<action, owner>>
<1>1. CASE CanSave(a)
  <2>1. attempt[a] = "running"
    BY <1>1 DEF CanSave, Active, OwnsLease
  <2>2. a = b
    BY <2>1 DEF RunningInv, Attempt
  <2> QED
    BY <2>2
<1>2. CASE ~CanSave(a)
  BY <1>2 DEF WorkerStep, Prepare, HydratePrompt, HydrateConfirmed, ConsumeVerifiedCommit,
     AskForCalls, SavePlanned, SaveStarted, UseDecision, AskConfirmation, Dispatch, Answer,
     SaveRecorded, Finish, SaveAnswer, Stop, Transient, Crash, journal
<1> QED
  BY <1>1, <1>2

\* Every step keeps a batch in order.
LEMMA StepBatches ==
  ASSUME TypeOK, CountInv, PlaceInv, RunningInv, BatchInv, [Next]_vars
  PROVE  BatchInv'
<1>1. ASSUME NEW a \in Attempt, WorkerStep(a) PROVE BatchInv'
  <2>1. UNCHANGED attempt
    BY <1>1, WorkerKeeps
  <2>2. ASSUME NEW b \in Attempt, b # a, attempt[b] = "running"
        PROVE  UNCHANGED <<action, at[b], pend[b], Head(b)>>
    <3>1. at'[b] = at[b] /\ pend'[b] = pend[b]
      BY <1>1, <2>2, GateKeeps
    <3> QED
      BY <1>1, <2>2, <3>1, OthersLeaveBatches DEF Head
  <2>3. ASSUME attempt[a] = "running"
        PROVE  /\ at'[a] = "next" =>
                    \A c \in pend'[a] : action'[c] \in {"planned", "waiting_confirmation"}
               /\ at'[a] \in {"gate", "sent", "answered"} =>
                    \A c \in pend'[a] \ {Head(a)'} :
                      action'[c] \in {"planned", "waiting_confirmation"}
    <3>1. CASE SavePlanned(a)
      <4>1. at'[a] \in {"next", "thinking"} /\ pend'[a] = pend[a] /\ pend[a] \subseteq Call
        BY <3>1 DEF SavePlanned, Move, TypeOK
      <4>2. \A c \in pend[a] : action[c] \in {"absent", "planned", "waiting_confirmation"}
        BY <3>1, <4>1 DEF SavePlanned, Plannable, TypeOK, ActionStatus
      <4>3. \A c \in pend[a] :
              action'[c] = IF action[c] = "absent" THEN "planned" ELSE action[c]
        BY <3>1, <4>1 DEF SavePlanned
      <4> QED
        BY <4>1, <4>2, <4>3
    <3>2. CASE SaveStarted(a)
      <4>1. /\ at[a] = "next" /\ at'[a] = "gate" /\ pend'[a] = pend[a] /\ Head(a)' = Head(a)
            /\ pend[a] \subseteq Call
            /\ action' = [action EXCEPT ![Head(a)] = "started"]
        BY <3>2 DEF SaveStarted, Move, TypeOK, Head
      <4> QED
        BY <2>3, <4>1 DEF BatchInv, TypeOK
    <3>3. CASE SaveRecorded(a)
      <4>1. /\ at[a] = "answered" /\ pend'[a] = pend[a] \ {Head(a)}
            /\ at'[a] \in {"waiting", "nonterminal", "thinking", "next"}
            /\ pend[a] \subseteq Call
        BY <3>3 DEF SaveRecorded, TypeOK
      <4>2. action' = [action EXCEPT ![Head(a)] = action'[Head(a)]]
        BY <3>3 DEF SaveRecorded, TypeOK
      <4> QED
        BY <2>3, <4>1, <4>2 DEF BatchInv, TypeOK
    <3>4. CASE \/ UseDecision(a) \/ Dispatch(a)
               \/ \E res \in {"done"} \cup Nonterminal : Answer(a, res)
      <4>1. UNCHANGED <<action, pend, Head(a)>>
        BY <3>4 DEF UseDecision, Dispatch, Answer, Move, journal, Head
      <4>2. at[a] \in {"gate", "sent"} /\ at'[a] \in {"gate", "sent", "answered"}
        BY <3>4 DEF UseDecision, Dispatch, Answer, After, Move, TypeOK
      <4>3. \A c \in pend[a] \ {Head(a)} : action[c] \in {"planned", "waiting_confirmation"}
        BY <2>3, <4>2 DEF BatchInv
      <4> QED
        BY <4>1, <4>2, <4>3
    <3>5. CASE /\ ~SavePlanned(a) /\ ~SaveStarted(a) /\ ~SaveRecorded(a) /\ ~UseDecision(a)
               /\ ~Dispatch(a) /\ \A res \in {"done"} \cup Nonterminal : ~Answer(a, res)
      <4>1. at'[a] \notin {"next", "gate", "sent", "answered"}
        BY <1>1, <3>5 DEF WorkerStep, Prepare, HydratePrompt, HydrateConfirmed,
           ConsumeVerifiedCommit, AskForCalls, AskConfirmation, Finish, SaveAnswer, Stop,
           Transient, Crash, Move, Leave, TypeOK
      <4> QED
        BY <4>1
    <3> QED
      BY <3>1, <3>2, <3>3, <3>4, <3>5
  <2> QED
    BY <2>1, <2>2, <2>3 DEF BatchInv
<1>2. CASE ~\E a \in Attempt : WorkerStep(a)
  <2>1. /\ UNCHANGED action
        /\ \A b \in Attempt : at'[b] \in Hydrated =>
             /\ at[b] \in Hydrated /\ at'[b] = at[b] /\ pend'[b] = pend[b]
             /\ attempt'[b] = "running" => attempt[b] = "running"
    BY <1>2, Steps, OthersKeepCalls, OthersHydrateNobody, OthersStartNobody
  <2> QED
    BY <2>1 DEF BatchInv, Head, Hydrated
<1> QED
  BY <1>1, <1>2

\* What was sent stays sent, and what was decided stays decided.
LEMMA StepTraces ==
  ASSUME IInv, SpentInv, TraceInv, [Next]_vars
  PROVE  TraceInv'
<1> USE DEF IInv
<1>1. ASSUME NEW a \in Attempt, WorkerStep(a) PROVE TraceInv'
  <2>1. CASE Dispatch(a)
    <3>1. Head(a) \in Call
      BY <2>1, HeadIsPending DEF Dispatch, PlaceInv
    <3>2. /\ sent' = [sent EXCEPT ![Head(a)] = @ + 1]
          /\ flight' \subseteq flight \cup {Head(a)}
          /\ UNCHANGED <<receipts, consumed, decision>>
      BY <2>1 DEF Dispatch, wordVars
    <3>3. flight \cup receipts \subseteq Call
      BY CallAssumption DEF TypeOK, Call
    <3>4. \A c \in Call : sent'[c] >= sent[c] /\ sent[c] \in Nat
      BY <3>1, <3>2 DEF TypeOK
    <3>5. sent'[Head(a)] > 0
      BY <3>1, <3>2 DEF TypeOK
    <3> QED
      BY <3>2, <3>3, <3>4, <3>5 DEF TraceInv
  <2>2. CASE ConsumeVerifiedCommit(a)
    <3>1. decision[Source(a)] # "none"
      BY <2>2 DEF ConsumeVerifiedCommit, SpentInv, Source, Attempt
    <3> QED
      BY <2>2, <3>1 DEF ConsumeVerifiedCommit, TraceInv, callVars
  <2>3. CASE ~Dispatch(a) /\ ~ConsumeVerifiedCommit(a)
    <3>1. UNCHANGED <<flight, receipts, sent, consumed, decision>>
      BY <1>1, <2>3 DEF WorkerStep, Prepare, HydratePrompt, HydrateConfirmed, AskForCalls,
         SavePlanned, SaveStarted, UseDecision, AskConfirmation, Answer, SaveRecorded, Finish,
         SaveAnswer, Stop, Transient, Crash, wordVars, callVars
    <3> QED
      BY <3>1 DEF TraceInv
  <2> QED
    BY <2>1, <2>2, <2>3
<1>2. CASE ~\E a \in Attempt : WorkerStep(a)
  <2>1. UNCHANGED sent /\ UNCHANGED consumed
    BY <1>2, Steps, OthersKeepCalls, OthersHydrateNobody
  <2>2. flight' \cup receipts' \subseteq flight \cup receipts
    BY <1>2, Steps DEF Claim, VerifyCompletedStep, DecideRecordedApproval, Cancel, Settled,
       OwnerActs, ApproveConfirmation, DeclineConfirmation, AcceptVerifiedCommit,
       DeclineVerifiedCommit, DecisionLapses, Reclaim, Quiet, ExpireLease, RecordVerdict,
       WallClockRunsOut, EnforceBudgetsRead, EnforceBudgetsWrite, RequestPause,
       AcknowledgePause, ResumePaused, NewTurn, Commit, Refuse, vars, callVars
  <2>3. \A s \in Attempt : decision[s] # "none" => decision'[s] # "none"
    <3>1. CASE \E a \in Attempt : OwnerActs(a) \/ DecisionLapses(a)
      BY <3>1 DEF OwnerActs, ApproveConfirmation, DeclineConfirmation, AcceptVerifiedCommit,
         DeclineVerifiedCommit, DecisionLapses, TypeOK
    <3>2. CASE ~\E a \in Attempt : OwnerActs(a) \/ DecisionLapses(a)
      <4>1. UNCHANGED decision
        BY <1>2, <3>2, Steps, QuietKeeps DEF Claim, VerifyCompletedStep,
           DecideRecordedApproval, Cancel, Settled, Reclaim, wordVars
      <4> QED
        BY <4>1
    <3> QED
      BY <3>1, <3>2
  <2> QED
    BY <2>1, <2>2, <2>3 DEF TraceInv, TypeOK
<1> QED
  BY <1>1, <1>2

\* What is known stays known.
LEMMA KnownStays ==
  ASSUME IInv, TraceInv, [Next]_vars
  PROVE  Known \subseteq Known'
<1> USE DEF IInv
<1>1. \A c \in Call : sent[c] > 0 => sent'[c] > 0
  <2>1. CASE \E a \in Attempt : Dispatch(a)
    BY <2>1, HeadIsPending DEF Dispatch, PlaceInv, TypeOK
  <2>2. CASE ~\E a \in Attempt : Dispatch(a)
    BY <2>2, OnlyDispatchSends
  <2> QED
    BY <2>1, <2>2
<1>2. CASE \E a \in Attempt : WorkerStep(a)
  <2>1. PICK a \in Attempt : WorkerStep(a)
    BY <1>2
  <2>2. consumed \subseteq consumed' /\ UNCHANGED receipts
    BY <2>1 DEF WorkerStep, Prepare, HydratePrompt, HydrateConfirmed, ConsumeVerifiedCommit,
       AskForCalls, SavePlanned, SaveStarted, UseDecision, AskConfirmation, Dispatch, Answer,
       SaveRecorded, Finish, SaveAnswer, Stop, Transient, Crash, wordVars, callVars
  <2>3. ASSUME NEW c \in Call, action[c] \notin {"absent", "planned", "waiting_confirmation"}
        PROVE  /\ owner'[c] = owner[c]
               /\ action[c] = "result_recorded" => action'[c] = "result_recorded"
    <3>1. CASE SavePlanned(a)
      BY <2>3, <3>1 DEF SavePlanned
    <3>2. CASE SaveStarted(a)
      <4>1. c # Head(a)
        BY <2>3, <3>2 DEF SaveStarted, Startable
      <4> QED
        BY <3>2, <4>1 DEF SaveStarted, TypeOK
    <3>3. CASE AskConfirmation(a) \/ SaveRecorded(a)
      <4>1. action[Head(a)] = "started" /\ UNCHANGED owner
        BY <3>3 DEF AskConfirmation, SaveRecorded
      <4>2. action' = [action EXCEPT ![Head(a)] = action'[Head(a)]]
        BY <3>3 DEF AskConfirmation, SaveRecorded, TypeOK
      <4> QED
        BY <4>1, <4>2 DEF TypeOK
    <3>4. CASE ~SavePlanned(a) /\ ~SaveStarted(a) /\ ~AskConfirmation(a) /\ ~SaveRecorded(a)
      BY <2>1, <3>4 DEF WorkerStep, Prepare, HydratePrompt, HydrateConfirmed,
         ConsumeVerifiedCommit, AskForCalls, UseDecision, Dispatch, Answer, Finish, SaveAnswer,
         Stop, Transient, Crash, journal
    <3> QED
      BY <3>1, <3>2, <3>3, <3>4
  <2>4. \A c \in Known : action[c] \notin {"absent", "planned", "waiting_confirmation"}
    BY DEF Known, JournalInv
  <2> QED
    BY <1>1, <2>2, <2>3, <2>4 DEF Known
<1>3. CASE ~\E a \in Attempt : WorkerStep(a)
  <2>1. UNCHANGED <<action, owner, consumed>>
    BY <1>3, Steps, OthersKeepCalls, OthersHydrateNobody
  <2>2. receipts \subseteq receipts'
    BY <1>3, Steps DEF Claim, VerifyCompletedStep, DecideRecordedApproval, Cancel, Settled,
       OwnerActs, ApproveConfirmation, DeclineConfirmation, AcceptVerifiedCommit,
       DeclineVerifiedCommit, DecisionLapses, Reclaim, Quiet, ExpireLease, RecordVerdict,
       WallClockRunsOut, EnforceBudgetsRead, EnforceBudgetsWrite, RequestPause,
       AcknowledgePause, ResumePaused, NewTurn, Commit, Refuse, vars, callVars
  <2> QED
    BY <1>1, <2>1, <2>2 DEF Known
<1> QED
  BY <1>2, <1>3

\* A call is dispatched alone, with its owner's word if it is gated.
LEMMA DispatchKeepsPromise ==
  ASSUME IInv, WholeInv, BatchInv, TraceInv, NEW a \in Attempt, Dispatch(a)
  PROVE  Promise!LeavesAlone(Head(a)) /\ Head(a) \in Call
<1> USE DEF IInv, WholeInv
<1> DEFINE h == Head(a)
<1>1. /\ at[a] = "gate" /\ attempt[a] = "running" /\ h \in Call /\ h \in pend[a]
      /\ h \in Gated => granted[a]
  BY HeadIsPending DEF Dispatch, PlaceInv, CanSpend, OwnsLease
<1>2. /\ sent' = [sent EXCEPT ![h] = @ + 1]
      /\ UNCHANGED <<action, owner, checkpoint, decision, consumed, receipts, answer>>
  BY DEF Dispatch, journal, wordVars
<1>3. action[h] = "started" /\ sent[h] = 0
  BY <1>1 DEF JournalInv
<1>4. ~answer
  BY <1>1 DEF AnswerInv, Hydrated
<1>5. h \in Gated => h \in Allowed
  <2> SUFFICES ASSUME h \in Gated PROVE h \in Allowed
    OBVIOUS
  <2>1. /\ Source(a) \in Attempt /\ decision[Source(a)] \in {"approved", "lapsed"}
        /\ checkpoint[Source(a)].phase = "confirmation" /\ checkpoint[Source(a)].call = h
    BY <1>1 DEF WordInv, Source, Attempt
  <2> QED
    BY <2>1 DEF Allowed
<1>6. ASSUME NEW d \in Call, sent[d] > 0 PROVE d \in Known
  <2>1. action[d] \notin {"absent", "planned", "waiting_confirmation"} /\ d # h
    BY <1>3, <1>6 DEF JournalInv
  <2>2. d \notin pend[a]
    BY <1>1, <2>1 DEF BatchInv
  <2>3. Covered(d)
    BY <1>1, <2>2 DEF WriterInv, AllBut, Hydrated
  <2> QED
    BY <1>6, <2>1, <2>3 DEF Covered, Known
<1>7. UNCHANGED Known
  <2>1. h \notin receipts
    BY <1>3 DEF TraceInv
  <2>2. h \notin Known /\ h \notin Known'
    BY <1>2, <1>3, <2>1 DEF Known
  <2>3. \A d \in Call \ {h} : sent'[d] = sent[d]
    BY <1>1, <1>2 DEF TypeOK
  <2> QED
    BY <1>2, <2>2, <2>3 DEF Known
<1>8. UNCHANGED Allowed
  BY <1>2 DEF Allowed
<1>9. sent' = [sent EXCEPT ![h] = 1]
  BY <1>1, <1>2, <1>3 DEF TypeOK
<1> QED
  BY <1>1, <1>2, <1>3, <1>4, <1>5, <1>6, <1>7, <1>8, <1>9 DEF Promise!LeavesAlone

\* A receipt is written while its call's outcome is open, and before the answer.
LEMMA CommitKeepsPromise ==
  ASSUME IInv, WholeInv, TraceInv, NEW c \in Call, Commit(c)
  PROVE  Promise!TakesEffect(c) \/ UNCHANGED <<Allowed, sent, receipts, Known, answer>>
<1> USE DEF IInv, WholeInv
<1>1. /\ c \in flight /\ action[c] = "started" /\ attempt[owner[c]] = "running"
      /\ receipts' = receipts \cup {c}
      /\ UNCHANGED <<action, owner, checkpoint, decision, consumed, sent, answer>>
  BY DEF Commit, RecipientAdmits, Active, OwnsLease, journal, wordVars
<1>2. owner[c] \notin consumed
  BY <1>1 DEF WordInv, TraceInv, TypeOK
<1>3. sent[c] = 1 /\ c \in Receipted
  BY <1>1 DEF TraceInv, NothingLeavesTwice, TypeOK
<1>4. ~answer
  BY <1>1, <1>2 DEF AnswerInv, AllBut, Covered
<1>5. c \notin Known
  BY <1>1, <1>2 DEF Known
<1>6. UNCHANGED Known /\ UNCHANGED Allowed
  BY <1>1, <1>2 DEF Known, Allowed
<1> QED
  BY <1>1, <1>3, <1>4, <1>5, <1>6 DEF Promise!TakesEffect

\* The answer is saved when the outcome of every call that left is known.
LEMMA AnswerKeepsPromise ==
  ASSUME IInv, WholeInv, NEW a \in Attempt, SaveAnswer(a)
  PROVE  Promise!Reply
<1> USE DEF IInv, WholeInv
<1>1. /\ at[a] = "finished" /\ attempt[a] = "running" /\ answer' = TRUE
      /\ UNCHANGED <<action, owner, checkpoint, decision, consumed, sent, receipts>>
  BY DEF SaveAnswer, Active, OwnsLease, journal, wordVars, callVars
<1>2. ~answer
  BY <1>1 DEF AnswerInv, Hydrated
<1>3. AllBut({})
  BY <1>1 DEF WriterInv, PhaseInv, Hydrated
<1>4. \A c \in Call : sent[c] > 0 => c \in Known
  BY <1>3 DEF AllBut, Covered, JournalInv, Known
<1>5. UNCHANGED Allowed /\ UNCHANGED Known
  BY <1>1 DEF Allowed, Known
<1> QED
  BY <1>1, <1>2, <1>4, <1>5 DEF Promise!Reply

\* The owner's approval is a word about one call.
LEMMA ApprovalKeepsPromise ==
  ASSUME IInv, NEW a \in Attempt, ApproveConfirmation(a)
  PROVE  \/ \E c \in Call : Promise!Allow(c)
         \/ UNCHANGED <<Allowed, sent, receipts, Known, answer>>
<1> USE DEF IInv
<1> DEFINE c == checkpoint[a].call
<1>1. /\ checkpoint[a].phase = "confirmation" /\ decision[a] = "none"
      /\ decision' = [decision EXCEPT ![a] = "approved"]
      /\ UNCHANGED <<action, owner, checkpoint, consumed, sent, receipts, answer>>
  BY DEF ApproveConfirmation, Confirmable, Undecided, journal, callVars
<1>2. UNCHANGED Known
  BY <1>1 DEF Known
<1>3. Allowed' = Allowed \cup ({c} \cap Gated)
  BY <1>1 DEF Allowed, TypeOK
<1>4. Gated \subseteq Call
  BY CallAssumption DEF Call
<1>5. CASE c \in Gated
  BY <1>1, <1>2, <1>3, <1>4, <1>5 DEF Promise!Allow
<1>6. CASE c \notin Gated
  BY <1>1, <1>2, <1>3, <1>6
<1> QED
  BY <1>5, <1>6

\* Every other step may only make outcomes known.
LEMMA OthersKeepPromise ==
  ASSUME IInv, TraceInv, [Next]_vars, \A c \in Call : ~Commit(c),
         \A a \in Attempt : ~Dispatch(a) /\ ~SaveAnswer(a) /\ ~ApproveConfirmation(a)
  PROVE  Promise!Learn(Known')
<1> USE DEF IInv
<1>1. UNCHANGED sent
  BY OnlyDispatchSends
<1>2. UNCHANGED <<receipts, answer>>
  <2>1. CASE \E a \in Attempt : WorkerStep(a)
    BY <2>1 DEF WorkerStep, Prepare, HydratePrompt, HydrateConfirmed, ConsumeVerifiedCommit,
       AskForCalls, SavePlanned, SaveStarted, UseDecision, AskConfirmation, Answer,
       SaveRecorded, Finish, Stop, Transient, Crash, callVars
  <2>2. CASE ~\E a \in Attempt : WorkerStep(a)
    BY <2>2, Steps DEF Claim, VerifyCompletedStep, DecideRecordedApproval, Cancel, Settled,
       OwnerActs, DeclineConfirmation, AcceptVerifiedCommit,
       DeclineVerifiedCommit, DecisionLapses, Reclaim, Quiet, ExpireLease, RecordVerdict,
       WallClockRunsOut, EnforceBudgetsRead, EnforceBudgetsWrite, RequestPause,
       AcknowledgePause, ResumePaused, NewTurn, Refuse, vars, callVars
  <2> QED
    BY <2>1, <2>2
<1>3. UNCHANGED Allowed
  <2>1. Allowed \subseteq Allowed'
    BY WordsStay DEF Allowed
  <2>2. ASSUME NEW s \in Attempt, decision'[s] \in {"approved", "lapsed"},
               checkpoint'[s].phase = "confirmation"
        PROVE  decision[s] \in {"approved", "lapsed"} /\ checkpoint'[s] = checkpoint[s]
    <3>1. CASE AcceptVerifiedCommit(s)
      BY <2>2, <3>1 DEF AcceptVerifiedCommit, VerifiedFrontier, journal
    <3> QED
      BY <2>2, <3>1, WordsStay
  <2>3. Allowed' \subseteq Allowed
    BY <2>2 DEF Allowed
  <2> QED
    BY <2>1, <2>3
<1>4. Known \subseteq Known'
  BY KnownStays
<1>5. \A c \in Known' : sent[c] = 1
  BY <1>1 DEF Known, NothingLeavesTwice, TypeOK
<1> QED
  BY <1>1, <1>2, <1>3, <1>4, <1>5 DEF Promise!Learn

\* Both invariants, and what the promise needs besides.
KeptInv == IInv /\ WholeInv /\ BatchInv /\ TraceInv

LEMMA KeptInvariance == ChatTurnSpec => []KeptInv
<1>1. Init => BatchInv /\ TraceInv
  BY DEF Init, BatchInv, TraceInv
<1>2. IInv /\ WholeInv /\ BatchInv /\ TraceInv /\ [Next]_vars => (BatchInv /\ TraceInv)'
  BY StepBatches, StepTraces DEF IInv, WholeInv
<1> QED
  BY <1>1, <1>2, Invariance, WholeInvariance, PTL DEF ChatTurnSpec, KeptInv

\* A turn keeps its promise, for any number of calls and revisions and whatever goes
\* wrong: calls leave one after the other, once and on their owner's word, nothing takes
\* effect once its outcome is known, and nothing happens after the answer (record_boundary,
\* _execute_tools_sequential, prepare_proposal_receipt, _verified_commit_resume).
THEOREM TurnKeepsItsPromise == ChatTurnSpec => TurnKept
<1>1. Init => Promise!Init
  BY CallAssumption DEF Init, Promise!Init, Allowed, Known, Call
<1>2. KeptInv /\ [Next]_vars => [Promise!Next]_(Promise!turnVars)
  <2> SUFFICES ASSUME KeptInv, [Next]_vars
               PROVE  Promise!Next \/ UNCHANGED <<Allowed, sent, receipts, Known, answer>>
    BY DEF Promise!turnVars
  <2> USE DEF KeptInv
  <2>1. CASE \E a \in Attempt : Dispatch(a)
    BY <2>1, DispatchKeepsPromise DEF Promise!Next
  <2>2. CASE \E c \in Call : Commit(c)
    BY <2>2, CommitKeepsPromise DEF Promise!Next
  <2>3. CASE \E a \in Attempt : SaveAnswer(a)
    BY <2>3, AnswerKeepsPromise DEF Promise!Next
  <2>4. CASE \E a \in Attempt : ApproveConfirmation(a)
    BY <2>4, ApprovalKeepsPromise DEF Promise!Next
  <2>5. CASE /\ \A c \in Call : ~Commit(c)
             /\ \A a \in Attempt : ~Dispatch(a) /\ ~SaveAnswer(a) /\ ~ApproveConfirmation(a)
    <3>1. Promise!Learn(Known')
      BY <2>5, OthersKeepPromise
    <3>2. Known' \in SUBSET Call
      BY DEF Known
    <3> QED
      BY <3>1, <3>2 DEF Promise!Next
  <2> QED
    BY <2>1, <2>2, <2>3, <2>4, <2>5
<1> QED
  BY <1>1, <1>2, KeptInvariance, PTL DEF ChatTurnSpec, TurnKept, Promise!Spec
=============================================================================
