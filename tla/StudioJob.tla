------------------------------ MODULE StudioJob ------------------------------
(***************************************************************************)
(* A row of the studio's queue ledger and what may be written to it: the   *)
(* status tables of studio_queue.py and its mark_job_* helpers, as          *)
(* functions of the status they find.                                      *)
(***************************************************************************)

Gone == "gone"    \* there is no row (yet, or no longer)
JobStatus == {"queued", "waiting_resource", "running", "cancel_requested",
              "cancelled", "done", "failed"}
PENDING_STATUSES == {"queued", "waiting_resource"}
FINAL_STATUSES == {"cancelled", "done", "failed"}
CLEANUP_STATUSES == {"cancelled", "done"}

\* mark_job_waiting, mark_job_running, mark_job_cancel_requested respect a
\* final status; mark_job_done, _failed and _cancelled do not look.
MarkUnlessFinal(j, s) == IF j \in FINAL_STATUSES \cup {Gone} THEN j ELSE s
MarkFinal(j, s) == IF j = Gone THEN j ELSE s

\* bulk_cancel_pending and cleanup_terminal_jobs, on all rows at once: the
\* job alone is touched, never what it stands for.
BulkCancel(jobs) ==
  [x \in DOMAIN jobs |-> IF jobs[x] \in PENDING_STATUSES THEN "cancelled" ELSE jobs[x]]
Cleanup(jobs) ==
  [x \in DOMAIN jobs |-> IF jobs[x] \in CLEANUP_STATUSES THEN Gone ELSE jobs[x]]
=============================================================================
