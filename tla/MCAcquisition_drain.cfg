SPECIFICATION Spec
CONSTANTS
    Receivers = {"hackrf"}
    PoolBlocks = 1
    MaximumBlock = 1
    FrameSize = 1
    TileFrames = 1
    MaxSamples = 2
    MaxSaves = 0
    MaxRuns = 1
INVARIANTS DrainedBeforeFinalizing
