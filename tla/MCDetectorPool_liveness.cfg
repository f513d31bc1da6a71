SPECIFICATION FairSpec
CONSTANTS
    Detectors = {d1, d2}
    BandCount = 2
    QueueCount = 1
    QueueCapacity = 2
    Batch = 2
    MaxOutputs = 1
    MaxFeeds = 2
INVARIANTS
    OutputConserved
PROPERTIES
    EndJoins
