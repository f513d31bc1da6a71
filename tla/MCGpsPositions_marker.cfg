SPECIFICATION Spec
CONSTANTS
    Freshness = 1
    HistoryLimit = 3
    TrimCount = 1
    MaxEpoch = 2
    MaxTime = 2
    MaxSentences = 3
    MaxCalls = 3
INVARIANT NoFixCrossesMarker
CHECK_DEADLOCK FALSE
