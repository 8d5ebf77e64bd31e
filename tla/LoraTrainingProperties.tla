----------------------- MODULE LoraTrainingProperties -----------------------
(***************************************************************************)
(* What training runs promise.                                             *)
(***************************************************************************)
EXTENDS LoraTraining

\* "Reap any container belonging to this run before starting a fresh one":
\* however often the task of a run is delivered again after a worker was killed,
\* beside the run's trainer there are at most those of its containers that
\* Docker would not remove when it was started (the reaping in _train;
\* OneTrainerPerRun below).
TrainersAreReaped == \A r \in Run : trainers[r] <= 1 + refused[r]

\* A run that is done is not trained again by a message that comes late: if
\* anything, a stop pressed at the last moment says it is stopping
\* (_train's check on entry, stop_run).
DoneIsNotTrainedAgain ==
  [][\A r \in Run : run[r] = "done" => run'[r] \in {"done", "stopping", "cancelled"}]_vars

\* What an operator may retry is not being worked on: a job reads "failed" only
\* when no supervisor trains its run (retry_failed_job, _train).
FailedJobIsIdle ==
  \A r \in Run : job[r] = "failed" => ~(slot = r /\ at \in {"locked", "setup", "training"})

\* Whoever trains, others can tell: while a supervisor's container may run, the
\* lock names its run and its heartbeat is there, whatever supervisors of
\* other runs, killed and resumed ones did (gpu_lock.release, refresh).
SupervisedGpuIsTaken ==
  at \in {"locked", "setup", "training", "ending"} => lock = slot /\ slot \in heartbeat

-----------------------------------------------------------------------------
(* Fairness: the lane takes its messages and works on them, Redis lets keys
   run out, the broker restores what a killed worker held, a trainer ends, an
   API request ends.  People and the polls of the watchdog owe nothing. *)
Fairness ==
  /\ \A r \in Run : /\ SF_vars(Entering(r)) /\ WF_vars(RestoreLost(r))
                    /\ WF_vars(TrainerExits(r)) /\ WF_vars(HeartbeatExpires(r))
                    /\ WF_vars(Commit(r))
  /\ WF_vars(Supervises) /\ WF_vars(StopTrainer) /\ WF_vars(LockExpires)

FairTrainingSpec == TrainingSpec /\ Fairness

\* "a crashed trainer can never wedge the whole AI stack": nobody keeps the GPU
\* for ever (gpu_lock's time to live).
LockIsFreed == lock # NoRun ~> lock = NoRun

\* A run somebody can still get to: a message of it, or its supervisor.
Reachable(r) == messages[r] > 0 \/ lost[r] > 0 \/ slot = r
\* A run whose message is in the queue is brought to an end, however often it
\* finds the GPU taken, unless its message is spent without it
\* (OrphansAreFound below).
QueuedRunsEnd ==
  \A r \in Run : run[r] \in {"queued", "running", "stopping"} /\ Reachable(r)
                 ~> (run[r] \in Ended \/ ~Reachable(r))

-----------------------------------------------------------------------------
(* Promises the code does not keep; the README lists them.                 *)

\* "a worker restart re-queues this task": a run whose supervisor was killed is
\* found again and brought to an end.
OrphansAreFound == \A r \in Run : run[r] = "running" ~> run[r] # "running"

\* "two trainers ended up fighting for one GPU": no run has two trainers at once.
OneTrainerPerRun == \A r \in Run : trainers[r] <= 1

\* "two runs must never both own the card".
OneTrainerOnTheGpu ==
  \A r, s \in Run : trainers[r] > 0 /\ trainers[s] > 0 => r = s

\* stop_run: "_train re-checks the status on entry and bows out of a cancelled
\* run".
CancelledIsNotTrained == [][\A r \in Run : run[r] = "cancelled" => run'[r] # "running"]_vars

\* The watchdog's "task lost": a run it gives up has no message left.
GivenUpWhenLost ==
  [][\A r \in Run : request[r].kind = "watchdog" /\ run[r] = "queued" /\ run'[r] = "failed"
       => ~Reachable(r)]_vars

\* A cancelled job's run does not go on to be done (bulk_cancel_pending).
CancelledJobStays ==
  [][\A r \in Run : job[r] = "cancelled" => job'[r] \in {"cancelled", Gone}]_vars
=============================================================================
