---------------------- MODULE ImageGenerationProperties ----------------------
(***************************************************************************)
(* What the image studio promises.                                         *)
(***************************************************************************)
EXTENDS ImageGeneration

\* Somebody is at work on a generation, or a message will bring somebody.
Reachable(g) == slot = g \/ messages[g] > 0 \/ lost[g] > 0

\* "the product-facing source of queue position": when nobody is going to work
\* on a generation that has ended, its job, while it is listed, has ended too,
\* whichever of two writers wrote only the half it had changed, unless it was
\* left waiting for the GPU, its process was killed, or its message was thrown
\* away as revoked while a row read running (_mark_failed, _run, cancel_job).
AtRest(g) == ~Reachable(g) /\ request[g] = NoRequest /\ g \notin dropped
FinishedTogether ==
  \A g \in Gen : AtRest(g) /\ gen[g] \in Ended /\ job[g] # Gone
                 => job[g] \in FINAL_STATUSES \cup {"waiting_resource"}

\* A generation whose job is listed and that reads "running" has a task, or a
\* message that will bring one, however often its worker restarts and its task
\* is retried, unless a request about it is just changing that, its process
\* alone was killed, or a worker threw its message away because the id had been
\* revoked (task_acks_late, self.retry; RunningHasATask below).
RunningIsReachable ==
  \A g \in Gen \ dropped : gen[g] = "running" /\ job[g] # Gone
                         => Reachable(g) \/ request[g] # NoRequest

\* A cancelled generation is revived only by a task that had read it before the
\* cancellation and writes it back after it, at its start or with its result:
\* no task that finds it cancelled, waits, fails or is delivered again brings it
\* back (_run; CancelledStays below).
OnlyAnEarlierReadRevives ==
  [][\A g \in Gen : gen[g] = "cancelled" /\ gen'[g] \in {"queued", "running", "done"}
       => slot = g /\ at \in {"starting", "storing"} /\ seen.gen # "cancelled"]_vars

-----------------------------------------------------------------------------
(* Fairness: the worker takes messages and goes on; ComfyUI answers or fails
   within the time limit; the broker restores messages; a request about a
   generation comes to its commit.  People, and training runs on the GPU, owe
   nothing. *)
Fairness ==
  /\ \A g \in Gen : SF_vars(Enter(g)) /\ WF_vars(RestoreLost(g)) /\ WF_vars(Commit(g))
  /\ WF_vars(Task)

FairGenerationSpec == GenerationSpec /\ Fairness

\* A generation that somebody works on, or whose message is on its way, is not
\* worked on for ever: however often the GPU is taken, ComfyUI is away or the
\* worker is killed, it ends, or is left without a task or a message: spent
\* waiting (WaitingIsReachable), thrown away as revoked or gone with its process
\* (RunningHasATask), or overtaken by the commit of a retry
\* (run_image_generation).
GenerationsEnd ==
  \A g \in Gen : gen[g] \in {"queued", "running"} /\ Reachable(g)
                 ~> (gen[g] \notin {"queued", "running"} \/ ~Reachable(g))

-----------------------------------------------------------------------------
(* Promises the code does not keep; the README lists them.                 *)

\* A generation and its job end in the same status.
EndAlike ==
  \A g \in Gen : AtRest(g) /\ gen[g] \in Ended /\ job[g] # Gone => job[g] = gen[g]

\* cancel_job: a cancelled generation stays cancelled.
CancelledStays ==
  [][\A g \in Gen : gen[g] = "cancelled" => gen'[g] \in {"cancelled", "deleted"}]_vars

\* cancel_job interrupts the generation it cancels, and no other.
InterruptsItsOwn ==
  [][\A g \in Gen : request[g].kind = "interrupt" /\ request'[g].kind = "cancel" /\ at' # at
       => slot = g]_vars

\* StudioResourceBusy: "retry without marking the job failed".  A generation
\* that waits for the GPU has a message that will try again.
WaitingIsReachable ==
  \A g \in Gen : gen[g] = "queued" /\ job[g] = "waiting_resource"
                 => Reachable(g) \/ request[g] # NoRequest

\* "let the Celery task wrapper decide retry-vs-give-up": a generation that reads
\* running has a task, or a message that will bring one, without exception.
RunningHasATask ==
  \A g \in Gen : gen[g] = "running" /\ job[g] # Gone
                 => Reachable(g) \/ request[g] # NoRequest

\* A done generation is not run again by a message delivered twice.
DoneStays == [][\A g \in Gen : gen[g] = "done" => gen'[g] \in {"done", "deleted"}]_vars

\* cleanup_terminal_jobs: cancelled jobs "are already represented by the linked"
\* generation's status.
CancelledJobIsRepresented ==
  [][\A g \in Gen : job[g] = "cancelled" /\ job'[g] = Gone
       => gen[g] \in Ended \/ gen'[g] = "deleted"]_vars
=============================================================================
