CONSTANTS
  Setups <- MCSetups
  GrowAt <- MCGrowAt
  Pixels = 2
  Growth = 2
  EarlyStop = 2
  BatchSize = 2
  Steps = 2
  MaxIter = 3
  MaxSamples = 3
  MaxCalls = 3
SPECIFICATION ZooSpec
INVARIANTS ResizedFits StaleProbabilities
CHECK_DEADLOCK FALSE
