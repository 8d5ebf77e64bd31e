------------------------ MODULE ScriptRunProperties ------------------------
(***************************************************************************)
(* What script runs promise.                                               *)
(***************************************************************************)
EXTENDS ScriptRun

\* "so a retried attempt finds the run instead of starting a second job":
\* however many attempts submit it, overtaken ones included, the code is
\* started once in each life of the supervisor at most (Supervisor.run).
StartedOncePerLife == starts <= 1 + restarts

\* A step is reported as succeeded, by whichever attempt, only on a job that
\* ended well: not on one that is canceled, under way or not known
\* (_record, _finish).
SuccessIsReal == step = "succeeded" => finished

\* A cancellation that the supervisor answered before a request arrived prevents
\* the run: whatever requests of whichever attempts come later, no thread begins
\* while the supervisor lives (Supervisor.cancel).
CancelPreventsTheRun ==
  [][kill = "done" /\ job = "none" /\ restarts' = restarts => job' = "none"]_vars

-----------------------------------------------------------------------------
(* Fairness: the scheduler claims and reclaims, a worker that lives goes on,
   a request arrives or fails, a container ends within its limits.  People,
   and cancellations under way, owe nothing. *)
Fairness ==
  /\ WF_vars(Claim) /\ WF_vars(Reclaim)
  /\ WF_vars(n > 0 /\ worker[n].at = "gone" /\ ExpireLease)
  /\ \A a \in Attempt : WF_vars(Executes(a))
  /\ WF_vars(Supervises)

FairScriptSpec == ScriptSpec /\ Fairness

\* A step that runs a script ends, whoever of its workers and supervisors is
\* killed, or its order is canceled (ScriptRunPending, reclaim_expired_leases).
StepEnds == order = "running" ~> (order # "running" \/ step \in EndedStep)

-----------------------------------------------------------------------------
(* Promises the code does not keep; the README lists them.                 *)

\* "A finished run is reused, never re-executed": its status is final.
FinishedStays == [][(run \in FINISHED) => (run' = run)]_vars

\* "A finished run is reused": its outputs are registered once.
PublishedOnce == published <= 1

\* E29: a cancellation between the start of a run's thread and its container
\* is noticed: once it is answered no container of the run goes on.
CanceledIsKilled == ~(kill = "done" /\ job = "watched" /\ container = "running")

\* ScriptRunPending: "the step retries later".  No step fails for good while the
\* supervisor is at work on its run, and attempts are left.
PendingIsRetried ==
  [][step = "running" /\ step' = "failed" /\ order = "running" /\ n < MaxAttempts
       => job = "none"]_vars

\* A run is brought to an end.
RunIsDecided == run \in {"running", "unknown"} ~> run \notin {"running", "unknown"}

\* A step that succeeded has the files its script has written.
OutputsArePublished == step = "succeeded" => published > 0
=============================================================================
