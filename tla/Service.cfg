SPECIFICATION Spec
CONSTANTS
  s1 = s1
  s2 = s2
  p1 = p1
  p2 = p2
  Session <- Sessions
  Process <- Processes
  ScenarioId = {4, 7}
  Speedup <- Speedups
  TTL = 1
  Capacity = 1
  MaxClock = 3
  MaxWins = 3
  MaxCrashes = 1
SYMMETRY Interchangeable
INVARIANTS HintsFit CardsFollowTheDrift StoresFollowSessions
PROPERTIES SweepIsThorough
CHECK_DEADLOCK FALSE
