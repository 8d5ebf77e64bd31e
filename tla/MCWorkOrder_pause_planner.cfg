\* An owner pauses and resumes while the planner waits for its model.
SPECIFICATION FairSpec
CONSTANTS
  Key = {"a"}
  Plans = {{"a"}}
  Deps <- NoDeps
  Fenced = {"a"}
  Gated = {}
  SemCount = 0
  MaxAttempts = 1
  MaxReplans = 1
  LedgerReplans = 1
  PlannerStreak = 2
  Outcomes = {"ok", "error"}
  Faults = {}
  Owner = {"pause"}
  RevisionBound = 2
  AttemptBound = 1
  InstructionBound = 0
PROPERTY PlanningEnds
CHECK_DEADLOCK FALSE
