CONSTANTS
  Samples <- MCTwo
  L2s <- MCL2s
  Margins <- MCMargins
  Inf = 1000
  InitialConst = 16
  Upper = 64
  Steps = 3
  MaxIter = 2
SPECIFICATION Spec
INVARIANTS OverallIsMet BestIsNearest
