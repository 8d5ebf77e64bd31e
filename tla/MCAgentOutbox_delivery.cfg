\* A row to a deduplicating recipient and one to another, two attempts each:
\* every overtaking, crash, late answer and late effect.
SPECIFICATION FairSpec
CONSTANTS
  Row = {"safe", "unsafe"}
  Idempotent = {"safe"}
  MAX_DELIVERY_ATTEMPTS = 2
INVARIANT UnsafeSendLeavesOnce
PROPERTY HeirIsUndisturbed
PROPERTY PromiseKept
PROPERTY ClaimsEnd
CHECK_DEADLOCK FALSE
