SPECIFICATION FairSpec
CONSTANTS
  c1 = c1
  c2 = c2
  Client <- MCClient
  Nobody = Nobody
  NoEntry = NoEntry
  MaxAppends = 2
  MaxReads <- MCReads
  ReadFaults = FALSE
  WriteFaults = TRUE
INVARIANTS ReadsAreFresh ReadsOwnAppends
PROPERTIES IsAppendOnly CallsEnd
CHECK_DEADLOCK FALSE
