CONSTANTS
  Labels <- MCLabels
  Y = "y"
  Targeted = FALSE
  Deltas <- MCDeltas
  One = 16
  Num = 1
  Den = 2
  InitialConst = 1
  LargestConst = 4
  ConstFactor = 2
SPECIFICATION Spec
INVARIANTS KeptIsNearest
PROPERTIES Terminates
