SPECIFICATION FairRolloutSpec
CONSTANTS
  t1 = t1
  t2 = t2
  hOld = hOld
  hNew = hNew
  hBad = hBad
  NoHash = NoHash
  DbError = DbError
  NoQuery = NoQuery
  NoConfig = NoConfig
  Hash <- MCHash
  Table <- MCTable
  Query <- SessionQueries
  Scenario <- SessionScenarios
  Tools <- SessionTools
  Budget = {3}
  Ratio = {1000, 128000}
  DriftFaults = TRUE
  MaxEpisodes = 2
  MaxToolCalls = 5
  MaxRejected = 1
INVARIANTS LearnedOnlyFromWins ConnectionsAccounted WrapperAgrees PassedMeansWon
PROPERTIES DiversityKeepsSign GenerationEnds
CHECK_DEADLOCK FALSE
