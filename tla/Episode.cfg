SPECIFICATION Spec
CONSTANTS
  t1 = t1
  t2 = t2
  hOld = hOld
  hNew = hNew
  hBad = hBad
  NoHash = NoHash
  DbError = DbError
  NoQuery = NoQuery
  NoConfig = NoConfig
  Hash <- MCHash
  Table <- MCTable
  Query <- EpisodeQueries
  Scenario <- EpisodeScenarios
  Tools <- ToolName
  Budget = {5}
  Ratio = {1100, 2000}
  DriftFaults = TRUE
  MaxEpisodes = 1
INVARIANT TypeOK
INVARIANT DriftOnTime
INVARIANT JudgedOnCurrentSchema
INVARIANT RewardsAgree
INVARIANT RebateLedger
INVARIANT PhaseReflectsHistory
PROPERTY KeepsContract
CHECK_DEADLOCK FALSE
