CONSTANTS
  Infinity = 64
  One = 20
  NSearchSteps = 4
  Joins <- MCJoins
  NSamples = 2
  EpsInits = {16}
  Models <- MCForests
  Inputs <- MCForestInputs
  Labels <- MCForestLabels
  Norms <- MCForestNorms
SPECIFICATION Spec
INVARIANTS Sound
