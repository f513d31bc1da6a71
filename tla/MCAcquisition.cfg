SPECIFICATION FairSpec
CONSTANTS
    Receivers = {"synthetic", "paced", "hackrf", "rtl"}
    PoolBlocks = 1
    MaximumBlock = 1
    FrameSize = 2
    TileFrames = 1
    MaxSamples = 3
    MaxSaves = 1
    MaxRuns = 2
INVARIANTS
    NoSlotRace
    CoverageExact
    FinalCoverage
    SavedIsDurable
PROPERTIES
    StopReturns
    SaveAnswered
