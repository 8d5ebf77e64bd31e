------------------------------ MODULE ScriptRun ------------------------------
(***************************************************************************)
(* The isolated script run of a work step.  Attempts of the step commit an  *)
(* intent, ask the supervisor what became of it, mark it running, submit    *)
(* it, and record its result; a worker may be overtaken or killed between   *)
(* any two of these transactions.  The supervisor keeps its runs in memory, *)
(* starts one container for each, and answers the request that brought it.  *)
(* A cancellation marks the run and then asks the supervisor to kill it.    *)
(*                                                                         *)
(* An order's and a step's own life is WorkOrder's subject: here the order  *)
(* runs or is canceled, and the step is claimed, reclaimed and settled.     *)
(* A script that succeeds has written output files.                        *)
(***************************************************************************)
EXTENDS Naturals

CONSTANTS
  MaxAttempts,   \* step.max_attempts
  RestartBound   \* model bound: restarts of the supervisor

ASSUME ScriptAssumption == MaxAttempts \in Nat \ {0} /\ RestartBound \in Nat

Attempt == 1..MaxAttempts

VARIABLES
  order, step, n, lease,  \* work_orders.status, work_steps: state,
                          \* attempt_count, a lease that has not run out
  run, published,         \* agent_script_runs.status, times its outputs were
                          \* registered
  worker,                 \* where each attempt's worker is, and what it knows
  inflight,               \* attempts whose request has not arrived
  entry, flagged,         \* the supervisor's _runs: result's status, canceled
  job, serves,            \* its thread, and the attempt that it answers
  container,
  kill,                   \* the cancellation's request to the supervisor
  starts, finished,       \* containers started; whether one ended well
  restarts                \* counter of the bound

stepVars == <<order, step, n, lease>>
runVars == <<run, published>>
superVars == <<entry, flagged, job, serves, container, starts, finished>>
vars == <<stepVars, runVars, worker, inflight, superVars, kill, restarts>>

FINISHED == {"succeeded", "failed", "refused", "canceled"}
RunStatus == {"none", "queued", "running", "unknown"} \cup FINISHED
Outcome == {"success", "transient", "error"}
Stage == {"none", "claimed", "asking", "inputs", "marked", "sent", "recording",
          "settling", "gone"}
Job == {"none", "accepted", "created", "checked", "started", "watched"}
EndedStep == {"succeeded", "failed", "canceled"}

TypeOK ==
  /\ order \in {"running", "canceled"} /\ step \in {"ready", "running"} \cup EndedStep
  /\ n \in 0..MaxAttempts /\ lease \in BOOLEAN
  /\ run \in RunStatus /\ published \in Nat
  /\ worker \in [Attempt -> [at : Stage, knows : RunStatus \cup Outcome]]
  /\ inflight \subseteq Attempt
  /\ entry \in {"none", "running"} \cup FINISHED /\ flagged \in BOOLEAN
  /\ job \in Job /\ serves \in 0..MaxAttempts
  /\ container \in {"none", "created", "running", "killed"}
  /\ kill \in {"none", "due", "entered", "scanned", "done", "lost"}
  /\ starts \in Nat /\ finished \in BOOLEAN /\ restarts \in 0..RestartBound

Idle == [at |-> "none", knows |-> "none"]
Init ==
  /\ order = "running" /\ step = "ready" /\ n = 0 /\ lease = FALSE
  /\ run = "none" /\ published = 0
  /\ worker = [a \in Attempt |-> Idle] /\ inflight = {}
  /\ entry = "none" /\ flagged = FALSE /\ job = "none" /\ serves = 0
  /\ container = "none" /\ kill = "none"
  /\ starts = 0 /\ finished = FALSE /\ restarts = 0

-----------------------------------------------------------------------------
(* The step.                                                               *)

OwnsLease(a) == step = "running" /\ a = n /\ lease
Goes(a, stage, knows) == worker' = [worker EXCEPT ![a] = [at |-> stage, knows |-> knows]]

AttemptsLeft == n < MaxAttempts
Claim ==
  /\ order = "running" /\ step = "ready" /\ AttemptsLeft
  /\ step' = "running" /\ n' = n + 1 /\ lease' = TRUE
  /\ Goes(n + 1, "claimed", "none")
  /\ UNCHANGED <<order, runVars, inflight, superVars, kill, restarts>>

\* The heartbeat stops renewing the lease: its worker is dead, or stalls and
\* goes on later.
ExpireLease ==
  /\ step = "running" /\ lease /\ lease' = FALSE
  /\ UNCHANGED <<order, step, n, runVars, worker, inflight, superVars, kill, restarts>>

\* reclaim_expired_leases: the script call of a dead worker is closed, and the
\* step retried ("reconciled_by: next_attempt").
Reclaim ==
  /\ step = "running" /\ ~lease
  /\ step' = IF AttemptsLeft THEN "ready" ELSE "failed"
  /\ UNCHANGED <<order, n, lease, runVars, worker, inflight, superVars, kill, restarts>>

Crash(a) ==
  /\ worker[a].at \notin {"none", "gone"} /\ Goes(a, "gone", "none")
  /\ UNCHANGED <<stepVars, runVars, inflight, superVars, kill, restarts>>

-----------------------------------------------------------------------------
(* run_script_step.                                                        *)

\* _finish: only a succeeded run returns; any other raises, and that is no
\* error to be retried.
\* Variant: a run whose end is not known is taken for one that returned.
FinishLenient(s) == IF s \in {"succeeded", "unknown"} THEN "success" ELSE "error"
Finish(s) == IF s = "succeeded" THEN "success" ELSE "error"

\* The intent, keyed by the step: one row for all attempts.
Intend(a) ==
  /\ worker[a].at = "claimed"
  /\ run' = IF run = "none" THEN "queued" ELSE run
  /\ CASE run \in FINISHED            -> Goes(a, "settling", Finish(run))
       [] run \in {"running", "unknown"} -> Goes(a, "asking", "none")
       [] OTHER                          -> Goes(a, "inputs", "none")
  /\ UNCHANGED <<stepVars, published, inflight, superVars, kill, restarts>>

\* The supervisor's get.  An error of the transport is raised as it is, which
\* the executor does not retry.
AskSupervisor(a) ==
  /\ worker[a].at = "asking"
  /\ \/ entry = "none" /\ Goes(a, "inputs", "none")
     \/ entry = "running" /\ Goes(a, "settling", "transient")
     \/ entry \in FINISHED /\ Goes(a, "recording", entry)
     \/ Goes(a, "settling", "error")
  /\ UNCHANGED <<stepVars, runVars, inflight, superVars, kill, restarts>>

\* The inputs are fetched, or refused by the broker; then the row is marked
\* running, whatever it has become since it was read.
MarkRunning(a) ==
  /\ worker[a].at = "inputs"
  /\ \/ run' = "running" /\ Goes(a, "marked", "none")
     \/ UNCHANGED run /\ Goes(a, "recording", "refused")
  /\ UNCHANGED <<stepVars, published, inflight, superVars, kill, restarts>>

\* prepare_tool_attempt looks at the order, the lease and the budget; then the
\* request is sent.
Submit(a) ==
  /\ worker[a].at = "marked"
  /\ \/ /\ order = "running" /\ OwnsLease(a)
        /\ Goes(a, "sent", "none") /\ inflight' = inflight \cup {a}
     \/ Goes(a, "settling", "error") /\ UNCHANGED inflight
  /\ UNCHANGED <<stepVars, runVars, superVars, kill, restarts>>

\* An answer that does not come, or is an HTTP error, is a refusal.
SupervisorUnavailable(a) ==
  /\ worker[a].at = "sent" /\ Goes(a, "recording", "refused")
  /\ UNCHANGED <<stepVars, runVars, inflight, superVars, kill, restarts>>

\* _record.  What _STATUS does not list, "running" for one, is "unknown".
Recorded(remote) == IF remote \in FINISHED THEN remote ELSE "unknown"
Record(a) ==
  /\ worker[a].at = "recording"
  /\ \/ /\ run \in FINISHED /\ Goes(a, "settling", Finish(run))
        /\ UNCHANGED runVars
     \/ /\ run \notin FINISHED
        /\ run' = Recorded(worker[a].knows)
        /\ published' = IF run' = "succeeded" /\ OwnsLease(a) THEN published + 1
                                                              ELSE published
        /\ Goes(a, "settling", Finish(run'))
  /\ UNCHANGED <<stepVars, inflight, superVars, kill, restarts>>

\* complete_attempt, fail_attempt: refused to a worker that lost its lease.
\* Variant: retried without a limit.
StepAfterRetried(outcome) ==
  CASE outcome = "success"   -> "succeeded"
    [] outcome = "transient" -> "ready"
    [] OTHER                 -> "failed"
StepAfter(outcome) ==
  CASE outcome = "success"                    -> "succeeded"
    [] outcome = "transient" /\ AttemptsLeft -> "ready"
    [] OTHER                                  -> "failed"
Settle(a) ==
  /\ worker[a].at = "settling" /\ Goes(a, "gone", "none")
  /\ \/ /\ OwnsLease(a)
        /\ step' = StepAfter(worker[a].knows) /\ lease' = FALSE
     \/ ~OwnsLease(a) /\ UNCHANGED <<step, lease>>
  /\ UNCHANGED <<order, n, runVars, inflight, superVars, kill, restarts>>

-----------------------------------------------------------------------------
(* The supervisor.                                                         *)

\* A request arrives.  A run that is known is answered with what is known of
\* it; a new one gets a thread.
\* Variant: a run under way is not told from one that is not known.
KnownEnded == entry \in FINISHED
Known == entry # "none"
Answer(a, status) ==
  IF a # 0 /\ worker[a].at = "sent" THEN Goes(a, "recording", status)
                                    ELSE UNCHANGED worker
Accept(a) ==
  /\ a \in inflight /\ inflight' = inflight \ {a}
  /\ \/ Known /\ Answer(a, entry) /\ UNCHANGED superVars
     \/ /\ ~Known
        /\ entry' = "running" /\ flagged' = FALSE /\ job' = "accepted" /\ serves' = a
        /\ UNCHANGED <<container, starts, finished, worker>>
  /\ UNCHANGED <<stepVars, runVars, kill, restarts>>
\* It is lost on its way, or arrives after it expired.
DropRequest(a) ==
  /\ a \in inflight /\ inflight' = inflight \ {a}
  /\ UNCHANGED <<stepVars, runVars, worker, superVars, kill, restarts>>

\* The thread ends with a result, unless the run was canceled meanwhile, and
\* answers.
Ends(status) ==
  LET s == IF flagged THEN "canceled" ELSE status IN
  /\ entry' = s /\ job' = "none" /\ serves' = 0 /\ container' = "none"
  /\ Answer(serves, s)
  /\ UNCHANGED flagged
\* An error of Docker: HTTP 500, and the run stays "running" for good.
Raises ==
  /\ job # "none"
  /\ job' = "none" /\ serves' = 0 /\ container' = "none" /\ Answer(serves, "refused")
  /\ UNCHANGED <<stepVars, runVars, inflight, entry, flagged, starts, finished, kill,
                 restarts>>
Create ==
  /\ job = "accepted"
  /\ \/ /\ job' = "created" /\ container' = "created"
        /\ UNCHANGED <<worker, entry, flagged, serves>>
     \/ Ends("refused")     \* no image, no cgroups, a name that is not allowed
  /\ UNCHANGED <<stepVars, runVars, inflight, starts, finished, kill, restarts>>
\* The test before the container is started, and the one after.
CheckCreated ==
  /\ job = "created"
  /\ \/ flagged /\ Ends("canceled")
     \/ ~flagged /\ job' = "checked" /\ UNCHANGED <<worker, entry, flagged, serves, container>>
  /\ UNCHANGED <<stepVars, runVars, inflight, starts, finished, kill, restarts>>
Start ==
  /\ job = "checked"
  /\ job' = "started" /\ container' = "running" /\ starts' = starts + 1
  /\ UNCHANGED <<stepVars, runVars, worker, inflight, entry, flagged, serves, finished,
                 kill, restarts>>
CheckStarted ==
  /\ job = "started"
  /\ job' = "watched" /\ container' = IF flagged THEN "killed" ELSE container
  /\ UNCHANGED <<stepVars, runVars, worker, inflight, entry, flagged, serves, starts,
                 finished, kill, restarts>>
\* The container ends, in time or not.
Exit ==
  /\ job = "watched"
  /\ \/ container = "running" /\ Ends("succeeded") /\ finished' = TRUE
     \/ Ends("failed") /\ UNCHANGED finished
  /\ UNCHANGED <<stepVars, runVars, inflight, starts, kill, restarts>>

\* Killed and started again: its memory is gone, and cleanup_orphans removes
\* the container it left.
Restart ==
  /\ restarts < RestartBound /\ restarts' = restarts + 1
  /\ entry' = "none" /\ flagged' = FALSE /\ job' = "none" /\ serves' = 0
  /\ container' = "none"
  /\ kill' = IF kill \in {"none", "due"} THEN kill ELSE "lost"
  /\ UNCHANGED <<stepVars, runVars, worker, inflight, starts, finished>>

-----------------------------------------------------------------------------
(* Cancellation.                                                           *)

\* cancel_order: a running step is left alone, the run is marked, and the
\* supervisor asked after the commit if there was one to mark.
CancelOrder ==
  /\ order = "running" /\ order' = "canceled"
  /\ step' = IF step = "ready" THEN "canceled" ELSE step
  /\ \/ run \in {"queued", "running"} /\ run' = "canceled" /\ kill' = "due"
     \/ run \notin {"queued", "running"} /\ UNCHANGED <<run, kill>>
  /\ UNCHANGED <<n, lease, published, worker, inflight, superVars, restarts>>

\* kill_script_runs passes over a supervisor it cannot reach, and one whose
\* Docker fails it; the process may end first.
KillLost ==
  /\ kill \in {"due", "entered"} /\ kill' = "lost"
  /\ UNCHANGED <<stepVars, runVars, worker, inflight, superVars, restarts>>
\* The supervisor's cancel: a tombstone for a run it does not know; then it
\* kills the containers that run; then it sets the flag.
\* Variant: nothing is kept of a run that is not known.
TombstoneNone == entry
Tombstone == IF entry = "none" THEN "canceled" ELSE entry
KillEnters ==
  /\ kill = "due" /\ kill' = "entered" /\ entry' = Tombstone
  /\ UNCHANGED <<stepVars, runVars, worker, inflight, flagged, job, serves, container,
                 starts, finished, restarts>>
KillScans ==
  /\ kill = "entered" /\ kill' = "scanned"
  /\ container' = IF container = "running" THEN "killed" ELSE container
  /\ UNCHANGED <<stepVars, runVars, worker, inflight, entry, flagged, job, serves,
                 starts, finished, restarts>>
KillFlags ==
  /\ kill = "scanned" /\ kill' = "done" /\ flagged' = TRUE
  /\ entry' = IF entry = "running" THEN "canceled" ELSE entry
  /\ UNCHANGED <<stepVars, runVars, worker, inflight, job, serves, container, starts,
                 finished, restarts>>

-----------------------------------------------------------------------------
Executes(a) ==
  \/ Intend(a) \/ AskSupervisor(a) \/ MarkRunning(a) \/ Submit(a)
  \/ SupervisorUnavailable(a) \/ Record(a) \/ Settle(a)
Supervises == Create \/ CheckCreated \/ Start \/ CheckStarted \/ Exit
Kills == KillLost \/ KillEnters \/ KillScans \/ KillFlags

Next ==
  \/ Claim \/ ExpireLease \/ Reclaim
  \/ \E a \in Attempt : Executes(a) \/ Crash(a) \/ Accept(a) \/ DropRequest(a)
  \/ Supervises \/ Raises \/ Restart
  \/ CancelOrder \/ Kills

ScriptSpec == Init /\ [][Next]_vars
=============================================================================
