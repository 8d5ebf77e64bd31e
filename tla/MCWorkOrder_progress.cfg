\* Liveness of a chain of two steps under crashes, transient failures, planner and
\* verifier failures and an exhausted wall-clock budget, with a semantic criterion.
SPECIFICATION FairSpec
CONSTANTS
  Key = {"a", "b"}
  Plans = {{"a", "b"}}
  Deps <- Chain
  Fenced = {"a"}
  Gated = {}
  SemCount = 1
  MaxAttempts = 2
  MaxReplans = 0
  LedgerReplans = 1
  PlannerStreak = 2
  Outcomes = {"ok", "error", "transient"}
  Faults = {"crash", "planner_error", "planner_stop", "verifier_error", "wall_clock"}
  Owner = {}
  RevisionBound = 1
  AttemptBound = 2
  InstructionBound = 0
PROPERTY OrderComesToRest
CHECK_DEADLOCK FALSE
