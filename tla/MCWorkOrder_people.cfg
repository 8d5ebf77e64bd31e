\* A chain of two steps, the second gated, with one semantic criterion, over two
\* revisions: instructions, cancellation, decisions and verdicts of people, while
\* the wall-clock budget is enforced.
SPECIFICATION Spec
CONSTANTS
  Key = {"a", "b"}
  Plans = {{"a", "b"}}
  Deps <- Chain
  Fenced = {"a"}
  Gated = {"b"}
  SemCount = 1
  MaxAttempts = 1
  MaxReplans = 1
  LedgerReplans = 1
  PlannerStreak = 2
  Outcomes = {"ok", "error", "gate"}
  Faults = {"wall_clock"}
  Owner = {"instruction", "cancel", "decide", "verdict"}
  RevisionBound = 2
  AttemptBound = 2
  InstructionBound = 1
INVARIANT CompletedIsWhole
PROPERTY OnlyStaleBudgetReopens
CHECK_DEADLOCK FALSE
