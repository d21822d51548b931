CONSTANTS
  Workers <- MCWorkers
  Samples <- MCSamples
  Inputs <- MCInputs
  NClasses = 3
  Classify <- MCClassify
  ClassifyOrig <- MCClassify
  NormOrd <- MCNorm
  Norm2 <- MCNorm2
  Eps = 10000
  NAttacks = 2
  Targetable = {1}
  Raising = {2}
SPECIFICATION ParallelSpec
INVARIANTS TakesLeastBroken OthersUntouched
PROPERTIES ParallelCallEnds ParallelImplementsEnsemble
