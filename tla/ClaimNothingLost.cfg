SPECIFICATION Spec
CONSTANTS
  c1 = c1
  c2 = c2
  Client <- MCClient
  Nobody = Nobody
  NoEntry = NoEntry
  MaxAppends = 2
  MaxReads <- NoReads
  ReadFaults = TRUE
  WriteFaults = FALSE
INVARIANT ClaimNothingIsLost
CHECK_DEADLOCK FALSE
