SPECIFICATION Spec
CONSTANTS
  f1 = f1
  f2 = f2
  Fixes = {f1, f2}
  Kinds = {"compact"}
  Events <- BeginFault
  MaxClock = 2
  MaxRows = 1
  MaxRecs = 1
  MaxSegs = 2
  BlockSpan = 2
  CacheSize = 2
SYMMETRY FixSymmetry
INVARIANT AcquisitionPublishedWhole
CHECK_DEADLOCK FALSE
