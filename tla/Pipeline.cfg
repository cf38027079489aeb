SPECIFICATION BoundedSpec
CONSTANTS
  t1 = t1
  t2 = t2
  hOld = hOld
  hNew = hNew
  hBad = hBad
  NoHash = NoHash
  DbError = DbError
  NoQuery = NoQuery
  NoConfig = NoConfig
  UnknownScenario = UnknownScenario
  Hash <- MCHash
  Table <- MCTable
  Query <- PipelineQueries
  Scenario <- PipelineScenarios
  Tools <- PipelineTools
  Budget = {3}
  DefaultBudget = 3
  Ratio = {1000, 2000}
  DriftFaults = FALSE
  MaxEpisodes = 2
  HistoryTurns = 1
  Sweeps <- PipelineSweeps
  StarQuery <- PipelineStar
  MaxSweeps = 2
  TrainSteps = 2
  MaxRuns = 2
  ALL_SCENARIOS <- Ids
  Manifests <- AllManifests
INVARIANTS ReportIsTrue SweepIsAllOrNothing AgentsKeepPromises
INVARIANTS TrainsOnSoundStack TrainingIsKept ExitTellsOutcome EvaluatesSavedModel
PROPERTY RunsEnd
CHECK_DEADLOCK FALSE
