SPECIFICATION Spec
CONSTANTS
    MaxNumOfRecords = 4
    JankNum = 3
    JankDen = 2
    Durations <- MCDurations
    Gaps <- MCGaps
    Targets <- MCTargets
    LowRateThresholds <- MCLowRateThresholds
    MaxBatch = 2
    MaxFrames = 6
INVARIANTS
    TypeOK
    MaxDurationIsMax
    AggregatesMatchRecords
    LowFrameRateOverLastThree
PROPERTY
    ImplementsSessionWindow
