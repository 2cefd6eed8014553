-------------------------- MODULE MCSessionRecords --------------------------
(* SessionRecords with a four-record ring, the factor 1.5 the HAL's         *)
(* configuration and tests use, and durations on both sides of the         *)
(* 17 ms FrameBuckets floor and of the missed-cycle threshold.             *)
EXTENDS SessionRecords

\* 8 ms, 16 ms (missed against 10 ms), 26 ms (a jank frame in 25..34 ms)
MCDurations == {8000, 16000, 26000}
\* regular 16 ms start gaps and a long 40 ms gap
MCGaps == {16000, 40000}
MCTargets == {10000}
\* 25 fps: a 40 ms cycle threshold, met exactly by the long gap
MCLowRateThresholds == {25}
====
