\* Two steps side by side: one ends with an unknown outcome, the other fails
\* transiently.
SPECIFICATION Spec
CONSTANTS
  Key = {"a", "b"}
  Plans = {{"a", "b"}}
  Deps <- NoDeps
  Fenced = {"a"}
  Gated = {}
  SemCount = 0
  MaxAttempts = 2
  MaxReplans = 0
  LedgerReplans = 1
  PlannerStreak = 2
  Outcomes = {"ok", "transient", "outcome_unknown"}
  Faults = {}
  Owner = {}
  RevisionBound = 1
  AttemptBound = 2
  InstructionBound = 0
PROPERTY BlockedUntilReconciled
CHECK_DEADLOCK FALSE
