SPECIFICATION Spec
CONSTANTS
  NumRows = 3
  Value <- MCValue
  OldValue = 1
  NewValues <- MCNewValues
  Faults = TRUE
  MaxAttempts = 3
INVARIANT ClaimSafeToRetry
CHECK_DEADLOCK FALSE
