CONSTANTS
  Infinity = 64
  One = 20
  NSearchSteps = 4
  Joins <- MCJoins
  NSamples = 2
  EpsInits = {16, 24}
  Models <- MCModels
  Inputs <- MCInputs
  Labels <- MCLabels
  Norms <- MCNorms
SPECIFICATION Spec
INVARIANTS Sound OneCliqueIsExact ErrorIsNoLess BoundSeparates RaisesOnlyForNorm0
