\* Cadence scaled down: two wakes an hour, four a day, and reads returning
\* up to nine expirations, enough for two days' worth in one read.
\* PowerMitigationStatsPath and BrownoutCsvPath are configured;
\* BrownoutLogPath is not, as the CSV path takes precedence over it.
CONSTANTS
    WakesPer5Min = 1
    WakesPerHour = 2
    WakesPerDay = 4
    MaxPending = 9
    MitigationStatsPathSet = TRUE
    BrownoutCsvPathSet = TRUE
    BrownoutLogPathSet = FALSE
    WakesPerMonth = 8
    EEPROMPathSet = TRUE
    FGLogBufferPathSet = TRUE
SPECIFICATION Spec
\* collect() returns for good when the timer cannot be created, armed or read.
CHECK_DEADLOCK FALSE
PROPERTY ConfiguredPathsUsed
