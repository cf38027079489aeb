SPECIFICATION ScenariosSpec
CONSTANTS
  NumRows = 3
  Value <- MCValue
  OldValue = 1
  NewValues <- MCNewValues
  Faults = TRUE
  MaxAttempts = 3
  Parent = {1, 2}
  Child = {1, 2, 3}
  NoFixture = NoFixture
  Raises = Raises
INVARIANTS MigratesWithoutLoss RewriteEquivalent OnlyTruthSurvivesDrift MarkersTellAdaptation GuidanceIsTrue
CHECK_DEADLOCK FALSE
