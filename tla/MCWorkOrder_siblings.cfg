\* Two steps that join in a third, one fenced, over two revisions: crashes, unknown
\* outcomes and reconciliation, a planner that dies.
SPECIFICATION Spec
CONSTANTS
  Key = {"a", "b", "c"}
  Plans = {{"a", "b", "c"}, {"b"}}
  Deps <- FanIn
  Fenced = {"a"}
  Gated = {}
  SemCount = 0
  MaxAttempts = 1
  MaxReplans = 2
  LedgerReplans = 1
  PlannerStreak = 2
  Outcomes = {"ok", "error", "outcome_unknown"}
  Faults = {"crash", "planner_crash"}
  Owner = {"reconcile"}
  RevisionBound = 2
  AttemptBound = 1
  InstructionBound = 0
INVARIANT SupersededPlanIsQuiet
PROPERTY NoPlanOverUnknownEffect
INVARIANT DependenciesComeFirst
CHECK_DEADLOCK FALSE
