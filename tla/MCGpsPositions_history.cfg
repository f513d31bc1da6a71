SPECIFICATION FairSpec
CONSTANTS
    Freshness = 1
    HistoryLimit = 3
    TrimCount = 1
    MaxEpoch = 2
    MaxTime = 3
    MaxSentences = 2
    MaxCalls = 3
INVARIANTS
    QuietAfterStop
    EpochKeepsItsTime
    StatusIsHonest
PROPERTIES
    AssociationKept
    CallsReturn
CHECK_DEADLOCK FALSE
