SPECIFICATION Spec
CONSTANTS
  f1 = f1
  f2 = f2
  Fixes = {f1, f2}
  Kinds = {"detailed", "compact", "rak"}
  Events <- RecordingEvents
  MaxClock = 2
  MaxRows = 3
  MaxRecs = 1
  MaxSegs = 2
  BlockSpan = 2
  CacheSize = 2
CONSTRAINT UntilCopied
SYMMETRY FixSymmetry
INVARIANTS
  DurableReadable
  SaveMeansDurable
PROPERTIES
  LedgerImplemented
CHECK_DEADLOCK FALSE
