\* Two steps side by side; a transient failure of one while the other is about
\* to send its call.
SPECIFICATION FairSpec
CONSTANTS
  Key = {"a", "b"}
  Plans = {{"a", "b"}}
  Deps <- NoDeps
  Fenced = {"a"}
  Gated = {}
  SemCount = 0
  MaxAttempts = 2
  MaxReplans = 0
  LedgerReplans = 1
  PlannerStreak = 2
  Outcomes = {"ok", "transient"}
  Faults = {}
  Owner = {}
  RevisionBound = 1
  AttemptBound = 2
  InstructionBound = 0
PROPERTY OrderComesToRest
CHECK_DEADLOCK FALSE
