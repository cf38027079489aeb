SPECIFICATION FairSpec
CONSTANTS
  s1 = s1
  s2 = s2
  Session <- TwoSessions
  Nobody = Nobody
  WarmRuns = 1
  MaxConns = 2
  MaxCalls = 3
INVARIANTS WorkersAccounted
PROPERTIES ClosedOnlyWhenQuiet StatementsReturn
CHECK_DEADLOCK FALSE
