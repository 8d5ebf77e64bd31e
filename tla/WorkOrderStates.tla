--------------------------- MODULE WorkOrderStates ---------------------------
(***************************************************************************)
(* The status tables of the durable work-order runtime                     *)
(* (backend/app/domain/work_orders.py): which statuses exist, which moves  *)
(* transition_work_order and transition_step accept, and the named subsets *)
(* the handlers test.  Pure definitions, no state.                         *)
(***************************************************************************)

WorkStatus == {"received", "scoping", "planning", "ready", "running",
               "waiting_approval", "waiting_external", "verifying",
               "replanning", "blocked", "failed", "paused", "completed",
               "canceled"}

TERMINAL_WORK_STATUSES == {"completed", "blocked", "failed", "canceled"}

\* WORK_TRANSITIONS, the moves transition_work_order does not refuse.
WORK_TRANSITIONS ==
  [s \in WorkStatus |->
     CASE s = "received"   -> {"scoping", "planning", "canceled", "blocked",
                               "paused"}
       [] s = "scoping"    -> {"planning", "blocked", "canceled"}
       [] s = "planning"   -> {"ready", "blocked", "failed", "canceled",
                               "paused"}
       [] s = "ready"      -> {"running", "waiting_approval", "replanning",
                               "blocked", "canceled", "paused"}
       [] s = "running"    -> {"ready", "waiting_approval",
                               "waiting_external", "verifying",
                               "replanning", "blocked", "failed",
                               "canceled", "paused"}
       [] s = "waiting_approval" -> {"ready", "replanning", "blocked",
                                     "canceled"}
       [] s = "waiting_external" -> {"ready", "replanning", "blocked",
                                     "canceled", "verifying"}
       [] s = "verifying"  -> {"completed", "replanning", "blocked",
                               "failed", "canceled"}
       [] s = "replanning" -> {"ready", "blocked", "failed", "canceled",
                               "paused"}
       [] s = "blocked"    -> {"scoping", "planning", "ready", "verifying",
                               "replanning", "canceled"}
       [] s = "failed"     -> {"planning", "ready", "canceled"}
       [] s = "paused"     -> {"ready", "planning", "replanning", "canceled"}
       [] OTHER            -> {}]          \* completed, canceled

\* "absent" is a row create_work_plan has not inserted yet.
StepState == {"absent", "pending", "ready", "running", "succeeded",
              "retry_wait", "waiting_approval", "failed", "skipped",
              "canceled"}

\* _RETIRABLE_STEP_STATES: also what cancel_work_order cancels.
RETIRABLE_STEP_STATES == {"pending", "ready", "retry_wait",
                          "waiting_approval"}

\* Statuses in which a requested pause may be acknowledged, and where a
\* paused order goes when it is resumed (_RESUME_TARGET).
PAUSE_ACK_STATUSES == {"received", "planning", "ready", "running",
                       "replanning"}

RESUME_TARGET ==
  [s \in PAUSE_ACK_STATUSES |->
     CASE s \in {"received", "planning"} -> "planning"
       [] s \in {"ready", "running"}     -> "ready"
       [] OTHER                          -> "replanning"]

\* _read_planner_snapshot plans only from these.
PLANNABLE_STATUSES == {"received", "planning", "replanning"}

CallStatus == {"none", "prepared", "running", "succeeded", "failed",
               "waiting_approval", "partial", "outcome_unknown",
               "reconciled_happened", "reconciled_not_happened"}

UNRESOLVED_EFFECT_STATUSES == {"outcome_unknown", "partial"}

AttemptStatus == {"none", "running", "succeeded", "failed", "abandoned",
                  "waiting_approval", "partial", "outcome_unknown"}
=============================================================================
