\* One step, fenced or not, run by up to two attempts whose workers crash or stall,
\* under an owner who pauses, cancels, gates and decides.
SPECIFICATION Spec
CONSTANTS
  Key = {"a", "b"}
  Plans = {{"a"}, {"b"}}
  Deps <- NoDeps
  Fenced = {"a"}
  Gated = {}
  SemCount = 0
  MaxAttempts = 2
  MaxReplans = 0
  LedgerReplans = 0
  PlannerStreak = 2
  Outcomes = {"ok", "error", "transient", "partial", "unsettled", "stopped", "dataflow", "headless"}
  Faults = {"crash", "stall"}
  Owner = {"pause", "gate", "decide", "cancel"}
  RevisionBound = 1
  AttemptBound = 2
  InstructionBound = 0
INVARIANT TypeOK
INVARIANT AbandonedReceiptIsFinal
INVARIANT SettledAttemptClosesItsCall
INVARIANT PausedMeansQuiet
PROPERTY SettledAttemptIsFinal
PROPERTY EffectsKept
CHECK_DEADLOCK FALSE
