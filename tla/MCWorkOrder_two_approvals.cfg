\* Two gated steps side by side.
SPECIFICATION Spec
CONSTANTS
  Key = {"a", "b"}
  Plans = {{"a", "b"}}
  Deps <- NoDeps
  Fenced = {"a"}
  Gated = {"a", "b"}
  SemCount = 0
  MaxAttempts = 1
  MaxReplans = 0
  LedgerReplans = 1
  PlannerStreak = 2
  Outcomes = {"ok", "gate"}
  Faults = {}
  Owner = {"decide"}
  RevisionBound = 1
  AttemptBound = 2
  InstructionBound = 0
INVARIANT WaitingStepCanBeDecided
CHECK_DEADLOCK FALSE
