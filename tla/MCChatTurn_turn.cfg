\* Two calls over three revisions: every stop, continuation and interruption.
SPECIFICATION FairChatTurnSpec
CONSTANTS
  N = 2
  Gated = {1, 2}
  Receipted = {1}
  RevisionBound = 3
  Faults = {"crash", "stall", "error", "transient", "lapse", "wall_clock"}
  Owner = {"pause", "cancel", "continue", "verdict", "new_turn"}
INVARIANT NothingLeavesTwice
INVARIANT GatedOnTheOwnersWord
INVARIANT AnswerIsWhole
PROPERTY TurnKept
PROPERTY TurnRests
CHECK_DEADLOCK FALSE
