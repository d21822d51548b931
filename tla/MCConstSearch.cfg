CONSTANTS
  Samples <- MCSamples
  Dists <- MCDists
  Inf = 100
  InitialConst = 4
  Cap = 1000
  Top = 10000
  Steps = 5
  MaxIter = 2
  AbortEarly = TRUE
SPECIFICATION Spec
INVARIANTS BestIsAdversarial BestIsLeast BoundsWereTried
PROPERTIES Bisects
