\* The int variant, the one the header's kNumOfWaterEventAtomFields
\* builds: one root, sensors reading dry, wet or nothing, at boot and on
\* one uevent.
CONSTANTS
    Format = "int"
    Roots <- MCRoots
    Readings <- MCReadings
    FuseReadings <- MCFuseReadings
    FlagReadings <- MCFlagReadings
    ThresholdReadings <- MCThresholdReadings
    MaxReports = 2
SPECIFICATION Spec
INVARIANT SensorStatesReported
