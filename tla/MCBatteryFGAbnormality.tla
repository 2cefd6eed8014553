----------------------- MODULE MCBatteryFGAbnormality -----------------------
EXTENDS BatteryFGAbnormality

\* One abnormality event type, within kNumMaxEvents.
MCEvents == {0}
=============================================================================
