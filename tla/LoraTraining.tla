---------------------------- MODULE LoraTraining ----------------------------
(***************************************************************************)
(* LoRA training runs.  A Celery task supervises a trainer container for   *)
(* up to two days on a lane with one slot; the broker delivers a message   *)
(* again an hour after it was taken, whether its supervisor lives or not.  *)
(* A Redis lock with a time to live says that the GPU is taken, a          *)
(* heartbeat that a run has a supervisor, a flag that it shall stop.       *)
(* People create, stop, cancel and retry runs through an API that reads a  *)
(* row, does something else, and writes the row back.                      *)
(*                                                                         *)
(* Time is left out: a lock, a heartbeat or a delivery may run out as soon *)
(* as nobody renews it.  The setup between the heartbeat's first touch and *)
(* its refresher is taken to be shorter than the heartbeat lives.  What a  *)
(* session of the task reads and writes at one go is one action: an        *)
(* overlapping request commits before or after it.  A run's messages have  *)
(* different ids, which are not told apart: any may be the revoked one.    *)
(***************************************************************************)
EXTENDS Naturals, StudioJob

CONSTANTS
  Run,             \* training runs
  MaxRetries,      \* the limit of retry_failed_job
  Quiet,           \* model bound: runs created before, and left alone
  FaultBound,      \* model bound: supervisors killed, setups failed, messages
                   \* restored under a live supervisor, containers left at an end
  RefusalBound     \* model bound: containers Docker would not remove at a start

NoRun == "no run"

ASSUME TrainingAssumption ==
  /\ NoRun \notin Run /\ Quiet \subseteq Run
  /\ MaxRetries \in Nat /\ FaultBound \in Nat /\ RefusalBound \in Nat

VARIABLES
  run, job, retries,    \* lora_training_runs.status, studio_jobs rows
  request,              \* the API request about a run that is under way
  messages, lost,       \* deliverable messages; those a killed worker held
  revoked,              \* runs of whose messages an id was revoked
  slot, at, held,       \* the lane: its run, how far it is, message unacked
  outcome,              \* the container of the slot's supervisor
  trainers,             \* running containers labelled with a run
  refused,              \* history: those of them that Docker would not remove
                        \* when the run's last trainer was started
  lock, heartbeat, flag,  \* gpu:training_lock, lora:run_heartbeat, lora:stop
  faults                \* counter of the bound

rowVars == <<run, job, retries>>
queueVars == <<messages, lost, revoked>>
laneVars == <<slot, at, held, outcome>>
trainerVars == <<trainers, refused>>
redisVars == <<lock, heartbeat, flag>>
vars == <<rowVars, request, queueVars, laneVars, trainerVars, redisVars, faults>>

RunStatus == {"absent", "queued", "running", "stopping",
              "cancelled", "done", "failed"}
Stage == {"idle", "admitted", "locked", "setup", "training", "ending"}
Outcome == {"none", "running", "ok", "bad"}
Request == [kind : {"none", "create", "retry", "cancel", "stop", "cancel_job",
                    "watchdog"},
            row : JobStatus \cup {Gone}]    \* the job it read and writes back
NoRequest == [kind |-> "none", row |-> Gone]

TypeOK ==
  /\ run \in [Run -> RunStatus] /\ job \in [Run -> JobStatus \cup {Gone}]
  /\ retries \in [Run -> 0..MaxRetries]
  /\ request \in [Run -> Request]
  /\ messages \in [Run -> Nat] /\ lost \in [Run -> Nat]
  /\ slot \in Run \cup {NoRun} /\ at \in Stage /\ held \in BOOLEAN
  /\ outcome \in Outcome
  /\ revoked \subseteq Run
  /\ trainers \in [Run -> Nat] /\ refused \in [Run -> 0..RefusalBound]
  /\ lock \in Run \cup {NoRun} /\ heartbeat \subseteq Run /\ flag \subseteq Run
  /\ faults \in 0..FaultBound

Init ==
  /\ run = [r \in Run |-> IF r \in Quiet THEN "queued" ELSE "absent"]
  /\ job = [r \in Run |-> IF r \in Quiet THEN "queued" ELSE Gone]
  /\ retries = [r \in Run |-> 0] /\ request = [r \in Run |-> NoRequest]
  /\ messages = [r \in Run |-> IF r \in Quiet THEN 1 ELSE 0]
  /\ lost = [r \in Run |-> 0]
  /\ slot = NoRun /\ at = "idle" /\ held = FALSE /\ outcome = "none"
  /\ revoked = {} /\ trainers = [r \in Run |-> 0] /\ refused = [r \in Run |-> 0]
  /\ lock = NoRun /\ heartbeat = {} /\ flag = {}
  /\ faults = 0

Put(f, r, v) == [f EXCEPT ![r] = v]

-----------------------------------------------------------------------------
(* The API.  A request reads in one action and commits in another; one     *)
(* request about a run at a time.                                          *)

Asks(r, kind, row) ==
  /\ request[r] = NoRequest
  /\ request' = Put(request, r, [kind |-> kind, row |-> row])
Send(r) == messages' = Put(messages, r, messages[r] + 1)

\* create_run and retry_job send the task before they commit.
CreateRun(r) ==
  /\ run[r] = "absent" /\ Asks(r, "create", Gone) /\ Send(r)
  /\ UNCHANGED <<rowVars, lost, revoked, laneVars, trainerVars, redisVars, faults>>
RetryJob(r) ==
  /\ job[r] = "failed" /\ retries[r] < MaxRetries
  /\ Asks(r, "retry", job[r]) /\ Send(r)
  /\ UNCHANGED <<rowVars, lost, revoked, laneVars, trainerVars, redisVars, faults>>

\* stop_run, and cancel_job for a job that has not ended.  For a queued run, or a
\* pending job, the id in the row is revoked; whether a worker hears it is seen
\* when it takes a message.
Revokes(r) ==
  revoked' = IF run[r] = "queued" \/ job[r] \in PENDING_STATUSES
             THEN revoked \cup {r} ELSE revoked
StopRun(r) ==
  /\ \/ run[r] = "queued" /\ Asks(r, "cancel", job[r])
     \/ run[r] = "running" /\ Asks(r, "stop", IF job[r] \in FINAL_STATUSES THEN Gone ELSE job[r])
  /\ Revokes(r)
  /\ UNCHANGED <<rowVars, messages, lost, laneVars, trainerVars, redisVars, faults>>
CancelJob(r) ==
  /\ job[r] \notin FINAL_STATUSES \cup {Gone}
  /\ run[r] \notin {"queued", "running"}    \* otherwise as StopRun
  /\ Asks(r, "cancel_job", job[r]) /\ Revokes(r)
  /\ UNCHANGED <<rowVars, messages, lost, laneVars, trainerVars, redisVars, faults>>

\* _watchdog_runs, on a queued run whose row has not moved for half an hour.
Watchdog(r) ==
  /\ run[r] = "queued" /\ lock = NoRun /\ r \notin heartbeat
  /\ Asks(r, "watchdog", Gone)
  /\ UNCHANGED <<rowVars, queueVars, laneVars, trainerVars, redisVars, faults>>

\* The commit.  What became of the run since it was read is overwritten, and
\* so is the job unless it was read as it is to be; a job row that was deleted
\* since makes the transaction fail.
RunAfter(r) ==
  CASE request[r].kind \in {"create", "retry"} -> "queued"
    [] request[r].kind = "cancel"              -> "cancelled"
    [] request[r].kind = "stop"                -> "stopping"
    [] request[r].kind = "watchdog"            -> "failed"
    [] OTHER                                   -> run[r]
JobAfter(r) ==
  CASE request[r].kind \in {"create", "retry"} -> "queued"
    [] request[r].kind = "stop"                -> "cancel_requested"
    [] OTHER                                   -> "cancelled"
Commit(r) ==
  LET q == request[r] IN
  /\ q # NoRequest
  /\ request' = Put(request, r, NoRequest)
  /\ \/ /\ q.row # Gone /\ job[r] = Gone
        /\ UNCHANGED <<rowVars, flag>>
     \/ /\ q.row = Gone \/ job[r] # Gone
        /\ run' = Put(run, r, RunAfter(r))
        /\ job' = IF q.kind = "create" \/ q.row \notin {Gone, JobAfter(r)}
                  THEN Put(job, r, JobAfter(r)) ELSE job
        /\ retries' = IF q.kind = "retry" THEN Put(retries, r, retries[r] + 1)
                                          ELSE retries
        /\ flag' = IF q.kind = "stop" THEN flag \cup {r} ELSE flag
  /\ UNCHANGED <<queueVars, laneVars, trainerVars, lock, heartbeat, faults>>

BulkCancelPending ==
  /\ job' = BulkCancel(job) /\ job' # job
  /\ UNCHANGED <<run, retries, request, queueVars, laneVars, trainerVars, redisVars,
                 faults>>
CleanupTerminalJobs ==
  /\ job' = Cleanup(job) /\ job' # job
  /\ UNCHANGED <<run, retries, request, queueVars, laneVars, trainerVars, redisVars,
                 faults>>

-----------------------------------------------------------------------------
(* The task takes a message and looks at its run.                          *)

Take(r) ==
  /\ slot = NoRun /\ messages[r] > 0
  /\ messages' = Put(messages, r, messages[r] - 1)
  /\ UNCHANGED <<retries, request, lost, revoked, trainerVars, redisVars, faults>>

\* A worker that has heard of a revoked id remembers it, and throws away what
\* carries it.
Discard(r) ==
  /\ r \in revoked /\ messages[r] > 0
  /\ messages' = Put(messages, r, messages[r] - 1)
  /\ UNCHANGED <<rowVars, request, lost, revoked, laneVars, trainerVars, redisVars, faults>>

\* Variants: one of the endings is forgotten.
EndedButDone == {"cancelled", "failed"}
EndedButFailed == {"cancelled", "done"}
Ended == {"cancelled", "done", "failed"}

\* A run that has ended: the job follows it.
EnterEnded(r) ==
  /\ Take(r) /\ run[r] \in Ended
  /\ job' = Put(job, r, MarkFinal(job[r], run[r]))
  /\ UNCHANGED <<run, laneVars>>
EnterStopping(r) ==
  /\ Take(r) /\ run[r] = "stopping"
  /\ run' = Put(run, r, "cancelled")
  /\ job' = Put(job, r, MarkFinal(job[r], "cancelled"))
  /\ UNCHANGED laneVars
\* No row yet, or a run that somebody supervises: the message is dropped.
EnterIgnored(r) ==
  /\ Take(r)
  /\ run[r] = "absent" \/ (run[r] = "running" /\ r \in heartbeat)
  /\ UNCHANGED <<run, job, laneVars>>
Enter(r) ==
  /\ Take(r)
  /\ run[r] \notin Ended \cup {"absent", "stopping"}
  /\ ~(run[r] = "running" /\ r \in heartbeat)
  /\ \/ /\ slot' = r /\ at' = "admitted" /\ held' = TRUE
        /\ UNCHANGED <<run, job, outcome>>
     \/ /\ run' = Put(run, r, "failed")    \* its dataset is not ready
        /\ job' = Put(job, r, MarkFinal(job[r], "failed"))
        /\ UNCHANGED laneVars

Leave == slot' = NoRun /\ at' = "idle" /\ held' = FALSE /\ outcome' = "none"

\* gpu_lock.acquire, SET NX: one's own lock is taken again.
LockBusy(r) == lock \notin {r, NoRun}
AcquireLock ==
  /\ at = "admitted" /\ ~LockBusy(slot)
  /\ lock' = slot /\ heartbeat' = heartbeat \cup {slot} /\ flag' = flag \ {slot}
  /\ at' = "locked"
  /\ UNCHANGED <<rowVars, request, queueVars, slot, held, outcome, trainerVars, faults>>
\* The task sends itself again.
RequeueBusy ==
  /\ at = "admitted" /\ LockBusy(slot)
  /\ job' = IF run[slot] = "queued"
            THEN Put(job, slot, MarkUnlessFinal(job[slot], "waiting_resource")) ELSE job
  /\ Send(slot) /\ Leave
  /\ UNCHANGED <<run, retries, request, lost, revoked, trainerVars, redisVars, faults>>

\* The run is marked running whatever has become of it meanwhile.
StartRun ==
  /\ at = "locked" /\ at' = "setup"
  /\ run' = Put(run, slot, "running")
  /\ job' = Put(job, slot, MarkUnlessFinal(job[slot], "running"))
  /\ UNCHANGED <<retries, request, queueVars, slot, held, outcome, trainerVars, redisVars,
                 faults>>

\* Containers of the run that an earlier supervisor left are removed first, all
\* but the n that Docker will not remove: that error is swallowed.
\* Variant: nothing is removed.
ReapNone(r, n) == trainers[r]
Reap(r, n) == n
StartTrainer ==
  /\ at = "setup" /\ at' = "training" /\ outcome' = "running"
  /\ \E n \in 0..RefusalBound :
       /\ n <= trainers[slot]
       /\ trainers' = Put(trainers, slot, Reap(slot, n) + 1)
       /\ refused' = Put(refused, slot, n)
  /\ UNCHANGED <<rowVars, request, queueVars, slot, held, redisVars, faults>>

\* The files are prepared before the try block: an error there ends the task,
\* and nothing is released.
SetupFails ==
  /\ at = "setup" /\ faults < FaultBound /\ faults' = faults + 1
  /\ Leave
  /\ UNCHANGED <<rowVars, request, queueVars, trainerVars, redisVars>>

\* The slot's supervisor has a container of its own, while outcome says so; any
\* other is one that was left.
Own(r) == slot = r /\ outcome = "running"
\* One container less, of those refused if there are any.
OneLess(r) ==
  /\ trainers' = Put(trainers, r, trainers[r] - 1)
  /\ refused' = IF refused[r] > 0 THEN Put(refused, r, refused[r] - 1) ELSE refused
\* A container ends by itself, supervised or not; it runs for longer than a
\* request takes.
TrainerExits(r) ==
  /\ request[r] = NoRequest
  /\ \/ Own(r) /\ outcome' \in {"ok", "bad"}
     \/ trainers[r] > (IF Own(r) THEN 1 ELSE 0) /\ UNCHANGED outcome
  /\ OneLess(r)
  /\ UNCHANGED <<rowVars, request, queueVars, slot, at, held, redisVars, faults>>

\* The poll finds the run stopping, or the refresher the flag.
Asked(r) == run[r] = "stopping" \/ r \in flag
StopTrainer ==
  /\ at = "training" /\ outcome = "running" /\ Asked(slot)
  /\ OneLess(slot) /\ outcome' = "bad"
  /\ UNCHANGED <<rowVars, request, queueVars, slot, at, held, redisVars, faults>>

Ends(status) ==
  /\ run' = Put(run, slot, status)
  /\ job' = Put(job, slot, MarkFinal(job[slot], status))
  /\ at' = "ending"
Finalize ==
  /\ at = "training" /\ outcome \in {"ok", "bad"}
  /\ Ends(IF Asked(slot) THEN "cancelled" ELSE IF outcome = "ok" THEN "done" ELSE "failed")
  /\ UNCHANGED <<retries, request, queueVars, slot, held, outcome, trainerVars, redisVars,
                 faults>>
\* Docker fails, or the time limit strikes, inside the try block.
Break ==
  /\ at \in {"setup", "training"} /\ Ends("failed")
  /\ UNCHANGED <<retries, request, queueVars, slot, held, outcome, trainerVars, redisVars,
                 faults>>

\* The finally block; its container, unless Docker will not remove it; the lock
\* only if it is still this run's.
Release ==
  /\ at = "ending" /\ Leave
  /\ \/ ~Own(slot) /\ UNCHANGED <<trainerVars, faults>>
     \/ Own(slot) /\ OneLess(slot) /\ UNCHANGED faults
     \/ /\ Own(slot) /\ UNCHANGED trainerVars
        /\ faults < FaultBound /\ faults' = faults + 1
  /\ lock' = IF lock = slot THEN NoRun ELSE lock
  /\ heartbeat' = heartbeat \ {slot} /\ flag' = flag \ {slot}
  /\ UNCHANGED <<rowVars, request, queueVars>>

-----------------------------------------------------------------------------
(* What Celery, Redis and Docker do by themselves.                         *)

\* The supervisor is killed; its container goes on.  If its worker goes too, the
\* broker keeps the message; a worker that lives acknowledges it
\* (task_reject_on_worker_lost is not set).
Crash ==
  /\ at # "idle" /\ faults < FaultBound /\ faults' = faults + 1
  /\ \/ held /\ lost' = Put(lost, slot, lost[slot] + 1)
     \/ UNCHANGED lost
  /\ Leave
  /\ UNCHANGED <<rowVars, request, messages, revoked, trainerVars, redisVars>>

\* The visibility timeout of an hour: of a message nobody works on any more,
\* or of one whose supervisor is still at it.
RestoreLost(r) ==
  /\ lost[r] > 0 /\ lost' = Put(lost, r, lost[r] - 1) /\ Send(r)
  /\ UNCHANGED <<rowVars, request, revoked, laneVars, trainerVars, redisVars, faults>>
RestoreHeld ==
  /\ at = "training" /\ held /\ held' = FALSE /\ Send(slot)
  /\ faults < FaultBound /\ faults' = faults + 1
  /\ UNCHANGED <<rowVars, request, lost, revoked, slot, at, outcome, trainerVars, redisVars>>

\* Keys run out that no supervisor renews.
\* Variant: renewed from the log loop only, once there are logs.
RenewedByLogs(r) == slot = r /\ at = "training"
Renewed(r) == slot = r /\ at # "admitted"
\* Variant: a lock without a time to live.
ExpiredNever(r) == FALSE
Expired(r) == ~Renewed(r)
LockExpires ==
  /\ lock # NoRun /\ Expired(lock) /\ lock' = NoRun
  /\ UNCHANGED <<rowVars, request, queueVars, laneVars, trainerVars, heartbeat, flag, faults>>
HeartbeatExpires(r) ==
  /\ r \in heartbeat /\ ~Renewed(r) /\ heartbeat' = heartbeat \ {r}
  /\ UNCHANGED <<rowVars, request, queueVars, laneVars, trainerVars, lock, flag, faults>>

-----------------------------------------------------------------------------
Api(r) ==
  /\ r \notin Quiet
  /\ CreateRun(r) \/ RetryJob(r) \/ StopRun(r) \/ CancelJob(r) \/ Watchdog(r)
Entering(r) == EnterEnded(r) \/ EnterStopping(r) \/ EnterIgnored(r) \/ Enter(r)
Supervises == AcquireLock \/ RequeueBusy \/ StartRun \/ StartTrainer \/ Finalize \/ Release

Next ==
  \/ \E r \in Run : \/ Api(r) \/ Commit(r) \/ Entering(r) \/ Discard(r) \/ TrainerExits(r)
                    \/ RestoreLost(r) \/ HeartbeatExpires(r)
  \/ BulkCancelPending \/ CleanupTerminalJobs
  \/ Supervises \/ StopTrainer \/ SetupFails \/ Break \/ Crash \/ RestoreHeld
  \/ LockExpires

TrainingSpec == Init /\ [][Next]_vars
=============================================================================
