---------------------------- MODULE MCWaterEvent ----------------------------
EXTENDS WaterEvent

\* One configured root.
MCRoots == {"h2omg"}
\* The int format's codes: dry, wet, and an unreadable file.
MCReadings == {"0", "1", "absent"}
MCFuseReadings == {"1"}
MCFlagReadings == {"1"}
MCThresholdReadings == {"1200"}
=============================================================================
