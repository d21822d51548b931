CONSTANTS
  NSamples = 2
  InitSize = 2
  MaxIter = 2
  InitRes = 3
  Res = 5
  Rungs = 3
  MaxCalls = 2
SPECIFICATION Spec
INVARIANTS CurrentIsAdversarial NoCleanImage AtBoundary CountsFromStart
PROPERTIES CallEnds
