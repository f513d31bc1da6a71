SPECIFICATION MCSpec
CONSTANTS
  Boards = 2
  Points = 3
  Faulty = {2}
  MaxScans = 2
  PipeSize = 2
  MaxTries = 2
  MaxStarts = 2
INVARIANTS
  CompleteMeansAll
PROPERTIES
  StopReturns
  PumpStops
CHECK_DEADLOCK FALSE
