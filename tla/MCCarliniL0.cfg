CONSTANTS
  Features <- MCFeatures
  Batchings <- MCBatchings
  Masks <- MCMasks
  WarmStarts = {TRUE, FALSE}
  Rounds = 3
  Steps = 2
  MaxIter = 1
SPECIFICATION L0Spec
INVARIANTS FoundIsReturned LostOnlyCold Narrowed
