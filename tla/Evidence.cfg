SPECIFICATION EvidenceSpec
CONSTANTS
  TrainSteps = 1
  MaxRuns = 2
  MaxConfigs = 2
  ALL_SCENARIOS <- Ids
  Manifests <- OneManifest
INVARIANT EvidenceIsTrue
CHECK_DEADLOCK FALSE
