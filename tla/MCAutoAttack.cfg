CONSTANTS
  Samples <- MCSamples
  Inputs <- MCInputs
  NClasses = 3
  Classify <- MCClassify
  ClassifyOrig <- MCOther
  NormOrd <- MCNorm
  Eps = 10000
  NAttacks = 2
  Targetable = {1}
  Raising = {1, 2}
SPECIFICATION Spec
INVARIANTS BrokenIsAdversarial
PROPERTIES SettledStays CallEnds ImplementsEnsemble
