--------------------------- MODULE ImageGeneration ---------------------------
(***************************************************************************)
(* The image studio: generations, their jobs in the queue ledger, the       *)
(* Celery task that runs them one at a time on ComfyUI, and the people who  *)
(* cancel, retry, delete and list them.  The task reads its rows, asks      *)
(* Redis whether a training run has the GPU, and writes them back; a        *)
(* cancellation reads the job, interrupts ComfyUI, and writes.  A write that *)
(* depends on what was read is an action after the read; _mark_failed and   *)
(* _mark_cancelled, which write the same whatever they find, are one.       *)
(*                                                                         *)
(* A generation has one message or task at a time, which the proofs show,   *)
(* so that what is known of its task's id is known of the generation.       *)
(***************************************************************************)
EXTENDS Naturals, StudioJob

CONSTANTS
  Gen,           \* image generations
  MaxRetries,    \* the limit of retry_failed_job
  MaxTransient,  \* the task's max_retries
  CrashBound,    \* model bound: workers and their processes killed
  Quiet          \* model bound: generations nobody cancels, retries or deletes

NoGen == "no generation"

ASSUME GenerationAssumption ==
  /\ NoGen \notin Gen /\ Quiet \subseteq Gen
  /\ MaxRetries \in Nat /\ MaxTransient \in Nat /\ CrashBound \in Nat

VARIABLES
  gen, job, retries,   \* image_generations.status, studio_jobs rows
  request,             \* the API request about a generation under way
  messages, lost,      \* deliverable messages; those a killed worker held
  tries,               \* the message's count of Celery retries
  revoked,             \* generations whose task's id was revoked
  slot, at,            \* the worker's generation and how far its task is
  seen,                \* the rows as the task has them in memory
  crashes,             \* counter of the bound
  dropped              \* history: generations whose message Celery dropped
                       \* over rows that read running

rowVars == <<gen, job, retries>>
queueVars == <<messages, lost, tries, revoked>>
slotVars == <<slot, at, seen>>
faultVars == <<crashes, dropped>>
vars == <<rowVars, request, queueVars, slotVars, faultVars>>

Ended == {"done", "failed", "cancelled"}
GenStatus == {"absent", "queued", "running", "deleted"} \cup Ended
Stage == {"idle", "starting", "diffusing", "produced", "raised", "failing",
          "uploaded", "storing", "acking"}
Rows == [gen : GenStatus, job : JobStatus \cup {Gone}]
NoRows == [gen |-> "absent", job |-> Gone]
\* What an API request is about to do, and the generation as it read it.
Request == [kind : {"none", "interrupt", "cancel", "retry"}, gen : GenStatus]
NoRequest == [kind |-> "none", gen |-> "absent"]

TypeOK ==
  /\ gen \in [Gen -> GenStatus] /\ job \in [Gen -> JobStatus \cup {Gone}]
  /\ retries \in [Gen -> 0..MaxRetries] /\ request \in [Gen -> Request]
  /\ messages \in [Gen -> Nat] /\ lost \in [Gen -> Nat]
  /\ tries \in [Gen -> 0..MaxTransient]
  /\ slot \in Gen \cup {NoGen} /\ at \in Stage /\ seen \in Rows
  /\ crashes \in 0..CrashBound
  /\ revoked \subseteq Gen /\ dropped \subseteq Gen

Init ==
  /\ gen = [g \in Gen |-> "absent"] /\ job = [g \in Gen |-> Gone]
  /\ retries = [g \in Gen |-> 0] /\ request = [g \in Gen |-> NoRequest]
  /\ messages = [g \in Gen |-> 0] /\ lost = [g \in Gen |-> 0]
  /\ tries = [g \in Gen |-> 0]
  /\ slot = NoGen /\ at = "idle" /\ seen = NoRows /\ crashes = 0
  /\ revoked = {} /\ dropped = {}

Put(f, g, v) == [f EXCEPT ![g] = v]
Exists(g) == gen[g] \notin {"absent", "deleted"}
Send(g) == messages' = Put(messages, g, messages[g] + 1)

-----------------------------------------------------------------------------
(* The API.                                                                *)

\* generate, iterate_generation: the rows, then the message; a broker that
\* cannot be reached is logged, and the request succeeds all the same.
Generate(g) ==
  /\ gen[g] = "absent"
  /\ gen' = Put(gen, g, "queued") /\ job' = Put(job, g, "queued")
  /\ Send(g) \/ UNCHANGED messages
  /\ UNCHANGED <<retries, request, lost, tries, revoked, slotVars, faultVars>>

\* One request about a generation at a time.
Asks(g, kind) ==
  /\ request[g] = NoRequest
  /\ request' = Put(request, g, [kind |-> kind, gen |-> gen[g]])

\* cancel_job: the id of a pending job's task is revoked, if the row has it and
\* the broker is there; ComfyUI is interrupted if the job was running, whatever
\* it is at now.
CancelJob(g) ==
  /\ job[g] \notin FINAL_STATUSES \cup {Gone}
  /\ Asks(g, IF job[g] = "running" THEN "interrupt" ELSE "cancel")
  /\ \/ UNCHANGED revoked
     \/ job[g] \in PENDING_STATUSES /\ revoked' = revoked \cup {g}
  /\ UNCHANGED <<rowVars, messages, lost, tries, slotVars, faultVars>>
Interrupt(g) ==
  /\ request[g].kind = "interrupt"
  /\ request' = [request EXCEPT ![g].kind = "cancel"]
  /\ at' = IF at = "diffusing" THEN "raised" ELSE at
  /\ UNCHANGED <<rowVars, queueVars, slot, seen, faultVars>>

\* retry_job sends the task, under a new id, before it commits.
RetryJob(g) ==
  /\ job[g] = "failed" /\ retries[g] < MaxRetries /\ Asks(g, "retry")
  /\ Send(g) /\ tries' = Put(tries, g, 0) /\ revoked' = revoked \ {g}
  /\ UNCHANGED <<rowVars, lost, slotVars, faultVars>>

\* A session writes what differs from what it read, over whatever it has
\* become; a row that is gone makes the commit fail.
Overwrite(f, g, read, new) == IF read = new THEN f ELSE Put(f, g, new)
Commit(g) ==
  LET q == request[g]
      s == IF q.kind = "retry" THEN "queued" ELSE "cancelled"
  IN
  /\ q.kind \in {"cancel", "retry"} /\ request' = Put(request, g, NoRequest)
  /\ \/ job[g] = Gone /\ UNCHANGED rowVars
     \/ /\ job[g] # Gone
        /\ gen' = Overwrite(gen, g, q.gen, s) /\ job' = Put(job, g, s)
        /\ retries' = IF q.kind = "retry" THEN Put(retries, g, retries[g] + 1)
                                          ELSE retries
  /\ UNCHANGED <<queueVars, slotVars, faultVars>>

DeleteGeneration(g) ==
  /\ Exists(g)
  /\ gen' = Put(gen, g, "deleted") /\ job' = Put(job, g, Gone)
  /\ UNCHANGED <<retries, request, queueVars, slotVars, faultVars>>

BulkCancelPending ==
  /\ job' = BulkCancel(job) /\ job' # job
  /\ UNCHANGED <<gen, retries, request, queueVars, slotVars, faultVars>>
CleanupTerminalJobs ==
  /\ job' = Cleanup(job) /\ job' # job
  /\ UNCHANGED <<gen, retries, request, queueVars, slotVars, faultVars>>

-----------------------------------------------------------------------------
(* The task.                                                               *)

Leave == slot' = NoGen /\ at' = "idle" /\ seen' = NoRows

\* Both rows, those of them that are there.
Mark(g, s) ==
  /\ gen' = IF Exists(g) THEN Put(gen, g, s) ELSE gen
  /\ job' = Put(job, g, MarkFinal(job[g], s))

\* _is_cancelled, and the same test at the start of _run.
IsCancelled(g) == gen[g] = "cancelled" \/ job[g] \in {"cancel_requested", "cancelled"}

\* _run's first reads.  A generation that is done or failed is not told from
\* one that has to be run.  A message that was put back counts down for longer
\* than a retry's commit takes.
Enter(g) ==
  /\ slot = NoGen /\ messages[g] > 0
  /\ request[g].kind = "retry" => tries[g] = 0
  /\ messages' = Put(messages, g, messages[g] - 1)
  /\ \/ ~Exists(g) /\ UNCHANGED <<gen, job, slotVars>>
     \/ Exists(g) /\ IsCancelled(g) /\ Mark(g, "cancelled") /\ UNCHANGED slotVars
     \/ /\ Exists(g) /\ ~IsCancelled(g)
        /\ slot' = g /\ at' = "starting" /\ seen' = [gen |-> gen[g], job |-> job[g]]
        /\ UNCHANGED <<gen, job>>
  /\ UNCHANGED <<retries, request, lost, tries, revoked, faultVars>>

\* A worker remembers the ids that were revoked while it was up, for a time, and
\* throws their messages away, those of self.retry and of the broker too.
Discard(g) ==
  /\ g \in revoked /\ messages[g] > 0
  /\ messages' = Put(messages, g, messages[g] - 1)
  /\ dropped' = IF "running" \in {gen[g], job[g]} THEN dropped \cup {g} ELSE dropped
  /\ UNCHANGED <<rowVars, request, lost, tries, revoked, slotVars, crashes>>

\* The first commit, from what was read: the generation gets status s, the job
\* status j.
Stale(g, s, j) ==
  \/ seen.gen # s /\ ~Exists(g)
  \/ seen.job # j /\ job[g] = Gone
WriteBack(g, s, j) ==
  /\ ~Stale(g, s, j)
  /\ gen' = Overwrite(gen, g, seen.gen, s)
  /\ job' = Overwrite(job, g, seen.job, j)
JobWaits == MarkUnlessFinal(seen.job, "waiting_resource")
JobRuns == MarkUnlessFinal(seen.job, "running")
JobFails == MarkFinal(seen.job, "failed")

\* self.retry: the message again, with one more retry on its count, whatever
\* it was for.
RetriesLeft(g) == tries[g] < MaxTransient
\* Variant: none counts.
NextTryNever(g) == tries[g]
NextTry(g) == tries[g] + 1
\* Variant: a retry that forgets to put the message back.
AgainNever(g) == UNCHANGED messages /\ tries' = Put(tries, g, NextTry(g)) /\ Leave
Again(g) == Send(g) /\ tries' = Put(tries, g, NextTry(g)) /\ Leave

StartFails ==
  /\ at = "starting" /\ Leave
  /\ Stale(slot, "queued", JobWaits) \/ Stale(slot, "running", JobRuns)
     \/ Stale(slot, "failed", JobFails)
  /\ UNCHANGED <<rowVars, request, queueVars, faultVars>>
\* There is no workflow for the operation.
NoWorkflow ==
  /\ at = "starting" /\ Leave
  /\ WriteBack(slot, "failed", JobFails)
  /\ UNCHANGED <<retries, request, queueVars, faultVars>>
\* A training run has the GPU: the task is to wait without a limit, but Celery
\* takes max_retries=None for the task's own limit.  When that is reached the
\* message is acknowledged, and the rows stay as they are.
Wait ==
  /\ at = "starting"
  /\ WriteBack(slot, "queued", JobWaits)
  /\ \/ RetriesLeft(slot) /\ Again(slot)
     \/ ~RetriesLeft(slot) /\ Leave /\ UNCHANGED <<messages, tries>>
  /\ UNCHANGED <<retries, request, lost, revoked, faultVars>>
Start ==
  /\ at = "starting"
  /\ WriteBack(slot, "running", JobRuns)
  /\ at' = "diffusing"
  /\ UNCHANGED <<retries, request, queueVars, slot, seen, faultVars>>

\* ComfyUI answers, after longer than a retry's commit takes; or it fails, or
\* the time limit strikes.
Diffuse ==
  /\ at = "diffusing"
  /\ \/ request[slot].kind # "retry" /\ at' = "produced"
     \/ at' = "raised"
  /\ UNCHANGED <<rowVars, request, queueVars, slot, seen, faultVars>>
\* ComfyUI cannot be reached: tried again while retries are left, and the
\* generation reads "running" meanwhile.
TransientError ==
  /\ at = "diffusing" /\ RetriesLeft(slot)
  /\ Again(slot)
  /\ UNCHANGED <<rowVars, request, lost, revoked, faultVars>>
RetriesExhausted ==
  /\ at = "diffusing" /\ ~RetriesLeft(slot)
  /\ Mark(slot, "failed") /\ Leave
  /\ UNCHANGED <<retries, request, queueVars, faultVars>>

CheckCancelled ==
  /\ at = "produced"
  /\ \/ IsCancelled(slot) /\ Mark(slot, "cancelled") /\ Leave
     \/ /\ ~IsCancelled(slot) /\ at' \in {"uploaded", "raised"}
        /\ UNCHANGED <<gen, job, slot, seen>>
  /\ UNCHANGED <<retries, request, queueVars, faultVars>>

\* The except clause: it looks, and then fails the generation.
Raised ==
  /\ at = "raised"
  /\ \/ IsCancelled(slot) /\ Mark(slot, "cancelled") /\ Leave
     \/ ~IsCancelled(slot) /\ at' = "failing" /\ UNCHANGED <<gen, job, slot, seen>>
  /\ UNCHANGED <<retries, request, queueVars, faultVars>>
\* Variant: the generation alone.
MarkFailedGen(g) ==
  /\ gen' = IF Exists(g) THEN Put(gen, g, "failed") ELSE gen
  /\ UNCHANGED job
MarkFailed(g) == IF Exists(g) THEN Mark(g, "failed") ELSE UNCHANGED <<gen, job>>
Fail ==
  /\ at = "failing" /\ MarkFailed(slot) /\ Leave
  /\ UNCHANGED <<retries, request, queueVars, faultVars>>

\* The result is stored unless the generation reads cancelled; between that
\* look and the commit lie two awaits, for the job and for the queue's event.
\* Variant: it is stored in any case.
KeptAlways(g) == Exists(g)
Kept(g) == Exists(g) /\ gen[g] # "cancelled"
Persist ==
  /\ at = "uploaded"
  /\ \/ /\ Kept(slot) /\ at' = "storing"
        /\ seen' = [gen |-> gen[slot], job |-> job[slot]] /\ UNCHANGED <<gen, job>>
     \/ /\ Exists(slot) /\ ~Kept(slot) /\ at' = "acking"
        /\ job' = Put(job, slot, MarkFinal(job[slot], "cancelled")) /\ UNCHANGED <<gen, seen>>
     \/ ~Exists(slot) /\ at' = "acking" /\ UNCHANGED <<gen, job, seen>>
  /\ UNCHANGED <<retries, request, queueVars, slot, faultVars>>
\* A row that was deleted since makes the commit fail, and the result is lost.
Store ==
  /\ at = "storing" /\ at' = "acking"
  /\ \/ Exists(slot) /\ Mark(slot, "done")
     \/ /\ ~Exists(slot) \/ (seen.job # Gone /\ job[slot] = Gone)
        /\ UNCHANGED <<gen, job>>
  /\ UNCHANGED <<retries, request, queueVars, slot, seen, faultVars>>
Acknowledge ==
  /\ at = "acking" /\ Leave
  /\ UNCHANGED <<rowVars, request, queueVars, faultVars>>

\* The worker is killed; the broker gives its message to the next one after
\* the visibility timeout, which is longer than the task's time limit and any
\* request.
Crash ==
  /\ at # "idle" /\ crashes < CrashBound /\ crashes' = crashes + 1
  /\ lost' = Put(lost, slot, lost[slot] + 1) /\ Leave
  /\ UNCHANGED <<rowVars, request, messages, tries, revoked, dropped>>
\* Only the process that runs the task is killed, by the kernel or the hard time
\* limit: its worker acknowledges the message (task_reject_on_worker_lost is
\* not set).
Kill ==
  /\ at # "idle" /\ crashes < CrashBound /\ crashes' = crashes + 1
  /\ dropped' = dropped \cup {slot} /\ Leave
  /\ UNCHANGED <<rowVars, request, queueVars>>
RestoreLost(g) ==
  /\ lost[g] > 0 /\ request[g].kind # "retry"
  /\ lost' = Put(lost, g, lost[g] - 1) /\ Send(g)
  /\ UNCHANGED <<rowVars, request, tries, revoked, slotVars, faultVars>>

-----------------------------------------------------------------------------
People(g) ==
  \/ Generate(g)
  \/ g \notin Quiet /\ (CancelJob(g) \/ RetryJob(g) \/ DeleteGeneration(g))
Task ==
  \/ StartFails \/ NoWorkflow \/ Wait \/ Start \/ Diffuse
  \/ TransientError \/ RetriesExhausted
  \/ CheckCancelled \/ Raised \/ Fail \/ Persist \/ Store \/ Acknowledge

Next ==
  \/ \E g \in Gen : People(g) \/ Interrupt(g) \/ Commit(g) \/ Enter(g) \/ Discard(g)
                   \/ RestoreLost(g)
  \/ BulkCancelPending \/ CleanupTerminalJobs
  \/ Task \/ Crash \/ Kill

GenerationSpec == Init /\ [][Next]_vars
=============================================================================
