SPECIFICATION FairSpec
CONSTANTS
    SourceCapacity = 1
    MaximumInputBlock = 1
    GapCapacity = 2
    MaximumCoordinate = 3
    MaxSubmits = 3
    MaxBandGaps = 1
INVARIANTS
    InputConserved
    LossReported
    SegmentsAreGapless
PROPERTIES
    CloseFinishes
