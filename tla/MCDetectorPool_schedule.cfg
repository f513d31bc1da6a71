SPECIFICATION Spec
CONSTANTS
    Detectors = {d1, d2}
    BandCount = 3
    QueueCount = 2
    QueueCapacity = 2
    Batch = 1
    MaxOutputs = 1
    MaxFeeds = 2
SYMMETRY DetectorSymmetry
INVARIANTS
    TypeOK
    SlotAccounting
    OneJobPerBand
    DetectorContinuity
