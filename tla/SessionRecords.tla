--------------------------- MODULE SessionRecords ---------------------------
(***************************************************************************)
(* SessionRecords of the ADPF power HAL: a ring of the last                *)
(* kMaxNumOfRecords reported work cycles with running aggregates (frame    *)
(* count, missed cycles, FPS jitters, duration sum and average), a         *)
(* descending deque of ring indexes whose front is the longest cycle, and  *)
(* a rolling sum of the last kTotalFramesForFPSCheck start intervals. The  *)
(* caller's FrameBuckets histogram is updated for every cycle.             *)
(*                                                                         *)
(* Times are in microseconds: a reported frame carries its duration and    *)
(* the gap between its start and the previous frame's start, which is what *)
(* the code derives from timeStampNanos - durationNanos and                *)
(* mLastStartTimeNs (the division by 1000 is exact for whole microseconds).*)
(***************************************************************************)
EXTENDS Integers, Sequences, FiniteSets, FiniteSetsExt

CONSTANTS
    MaxNumOfRecords,  \* kMaxNumOfRecords, the ring capacity
    JankNum, JankDen, \* kJankCheckTimeFactor = JankNum / JankDen
    Durations,        \* reported cycle durations (us)
    Gaps,             \* start-to-start gaps between consecutive frames (us)
    Targets,          \* target durations passed with a report (us)
    MaxBatch,         \* longest vector of durations in one report
    MaxFrames,        \* bound on frames reported in one behaviour
    LowRateThresholds \* fpsLowRateThreshold arguments of isLowFrameRate

ASSUME /\ MaxNumOfRecords \in Nat \ {0}
       /\ JankNum \in Nat \ {0} /\ JankDen \in Nat \ {0}
       /\ MaxBatch \in Nat \ {0} /\ MaxFrames \in Nat

kTotalFramesForFPSCheck == 3

Idx == 0 .. MaxNumOfRecords - 1
Frame == [dur : Durations, gap : Gaps]
CycleRecord == [startIntervalUs : Int, totalDurationUs : Int,
                isMissedCycle : BOOLEAN, isFPSJitter : BOOLEAN]
NoRecord == [startIntervalUs |-> 0, totalDurationUs |-> 0,
             isMissedCycle |-> FALSE, isFPSJitter |-> FALSE]
BucketNames == {"total", "b17to25", "b25to34", "b34to67", "b67to100", "over100"}

VARIABLES
    sr,       \* the SessionRecords object (its member fields)
    buckets,  \* the caller's FrameBuckets accumulator
    recentGaps \* history: [gap, first] of the last three frames since the last
               \* reset; first marks a frame with no predecessor since then

vars == <<sr, buckets, recentGaps>>

-----------------------------------------------------------------------------
(* FrameBuckets band of a jank frame (updateFrameBuckets).                 *)
Band(d) ==
    CASE d < 25000 -> "b17to25"
      [] d < 34000 -> "b25to34"
      [] d < 67000 -> "b34to67"
      [] d < 100000 -> "b67to100"
      [] OTHER -> "over100"

UpdateFrameBuckets(b, d, isJank) ==
    LET counted == [b EXCEPT !["total"] = @ + 1]
    IN IF ~isJank \/ d < 17000 THEN counted
       ELSE [counted EXCEPT ![Band(d)] = @ + 1]

(* Variants of EvictOldest with the slips its code invites, used to show *)
(* that the invariants below depend on each of its steps.                 *)
EvictOldestNoDequePop(s) ==
    IF s.numOfFrames < MaxNumOfRecords THEN s
    ELSE LET old == (s.latest + 1) % MaxNumOfRecords
             r == s.records[old]
         IN [s EXCEPT
               !.sumOfDurationsUs = @ - r.totalDurationUs,
               !.numOfMissedCycles = IF r.isMissedCycle THEN @ - 1 ELSE @,
               !.numOfFPSJitters = IF r.isFPSJitter THEN @ - 1 ELSE @,
               !.numOfFrames = @ - 1]

EvictOldestKeepMissed(s) ==
    IF s.numOfFrames < MaxNumOfRecords THEN s
    ELSE LET old == (s.latest + 1) % MaxNumOfRecords
             r == s.records[old]
         IN [s EXCEPT
               !.sumOfDurationsUs = @ - r.totalDurationUs,
               !.numOfFPSJitters = IF r.isFPSJitter THEN @ - 1 ELSE @,
               !.numOfFrames = @ - 1,
               !.indQueue = IF Head(@) = old THEN Tail(@) ELSE @]

EvictOldestWhenOverfull(s) ==
    IF s.numOfFrames <= MaxNumOfRecords THEN s
    ELSE LET old == (s.latest + 1) % MaxNumOfRecords
             r == s.records[old]
         IN [s EXCEPT
               !.sumOfDurationsUs = @ - r.totalDurationUs,
               !.numOfMissedCycles = IF r.isMissedCycle THEN @ - 1 ELSE @,
               !.numOfFPSJitters = IF r.isFPSJitter THEN @ - 1 ELSE @,
               !.numOfFrames = @ - 1,
               !.indQueue = IF Head(@) = old THEN Tail(@) ELSE @]

(* A full ring gives up its oldest record: its duration leaves the sum,    *)
(* its flags leave the counters, and it leaves the front of the deque if   *)
(* it was the maximum.                                                     *)
EvictOldest(s) ==
    IF s.numOfFrames < MaxNumOfRecords THEN s
    ELSE LET old == (s.latest + 1) % MaxNumOfRecords
             r == s.records[old]
         IN [s EXCEPT
               !.sumOfDurationsUs = @ - r.totalDurationUs,
               !.numOfMissedCycles = IF r.isMissedCycle THEN @ - 1 ELSE @,
               !.numOfFPSJitters = IF r.isFPSJitter THEN @ - 1 ELSE @,
               !.numOfFrames = @ - 1,
               !.indQueue = IF Head(@) = old THEN Tail(@) ELSE @]

(* The rolling start-interval sum and the jitter verdict for a frame whose *)
(* start interval is iv and which goes to ring index i. Returns the new    *)
(* object and whether the frame is an FPS jitter.                          *)
TrackFPSJitter(s, iv, i, compute) ==
    IF ~compute
    THEN <<[s EXCEPT !.intervalSumUs = 0, !.addedFramesForFPSCheck = 0], FALSE>>
    ELSE IF s.addedFramesForFPSCheck < kTotalFramesForFPSCheck
    THEN IF iv > 0
         THEN <<[s EXCEPT !.intervalSumUs = @ + iv,
                          !.addedFramesForFPSCheck = @ + 1], FALSE>>
         ELSE <<s, FALSE>>
    ELSE LET \* startIntervalUs > 1.4 * sum / 3, i.e. 15 * iv > 7 * sum
             jitter == 15 * iv > 7 * s.intervalSumUs
             back == i - kTotalFramesForFPSCheck
             oldIdx == IF back < 0 THEN back + MaxNumOfRecords ELSE back
         IN <<[s EXCEPT
                 !.numOfFPSJitters = IF jitter THEN @ + 1 ELSE @,
                 !.intervalSumUs = @ + iv - s.records[oldIdx].startIntervalUs],
              jitter>>

\* Pop indexes of records not longer than d from the back, then push i.
RECURSIVE PushMax(_, _, _, _)
PushMax(q, recs, i, d) ==
    IF q # <<>> /\ recs[q[Len(q)]].totalDurationUs <= d
    THEN PushMax(SubSeq(q, 1, Len(q) - 1), recs, i, d)
    ELSE Append(q, i)

(* One iteration of the loop of addReportedDurations. Returns the new      *)
(* object and buckets.                                                     *)
AddOne(s, b, f, target, compute) ==
    LET e == EvictOldest(s)
        i == (e.latest + 1) % MaxNumOfRecords
        iv == IF e.numOfFrames > 0 THEN f.gap ELSE 0
        tj == TrackFPSJitter([e EXCEPT !.latest = i], iv, i, compute)
        t == tj[1]
        missed == JankDen * f.dur > target * JankNum
        stored == [t EXCEPT
                     !.records[i] = [startIntervalUs |-> iv,
                                     totalDurationUs |-> f.dur,
                                     isMissedCycle |-> missed,
                                     isFPSJitter |-> tj[2]],
                     !.numOfFrames = @ + 1,
                     !.numOfMissedCycles = IF missed THEN @ + 1 ELSE @]
        pushed == [stored EXCEPT
                     !.indQueue = PushMax(@, stored.records, i, f.dur),
                     !.sumOfDurationsUs = @ + f.dur]
        done == [pushed EXCEPT !.avgDurationUs = pushed.sumOfDurationsUs \div pushed.numOfFrames]
    IN <<done, UpdateFrameBuckets(b, f.dur, missed)>>

\* The whole loop over a vector of reported durations.
RECURSIVE AddAll(_, _, _, _, _)
AddAll(s, b, fs, target, compute) ==
    IF fs = <<>> THEN <<s, b>>
    ELSE LET r == AddOne(s, b, Head(fs), target, compute)
         IN AddAll(r[1], r[2], Tail(fs), target, compute)

-----------------------------------------------------------------------------
InitialRecords ==
    [records |-> [i \in Idx |-> NoRecord],
     indQueue |-> <<>>,
     avgDurationUs |-> 0,
     latest |-> -1,
     numOfMissedCycles |-> 0,
     numOfFrames |-> 0,
     sumOfDurationsUs |-> 0,
     intervalSumUs |-> 0,
     numOfFPSJitters |-> 0,
     addedFramesForFPSCheck |-> 0]

Init ==
    /\ sr = InitialRecords
    /\ buckets = [n \in BucketNames |-> 0]
    /\ recentGaps = <<>>

\* The history after frames fs, keeping the last three.
RECURSIVE LastGaps(_, _)
LastGaps(h, fs) ==
    IF fs = <<>> THEN h
    ELSE LET h2 == Append(h, [gap |-> Head(fs).gap, first |-> h = <<>>])
         IN LastGaps(IF Len(h2) > kTotalFramesForFPSCheck THEN Tail(h2) ELSE h2, Tail(fs))

\* addReportedDurations(actualDurationsNs, targetDurationNs, buckets, computeFPSJitters)
AddReportedDurations(fs, target, compute) ==
    /\ buckets["total"] + Len(fs) <= MaxFrames
    /\ LET r == AddAll(sr, buckets, fs, target, compute)
       IN /\ sr' = r[1]
          /\ buckets' = r[2]
    /\ recentGaps' = LastGaps(recentGaps, fs)

\* resetRecords(): called when the session's target duration changes.
ResetRecords ==
    /\ sr' = [sr EXCEPT !.avgDurationUs = 0,
                        !.latest = -1,
                        !.numOfMissedCycles = 0,
                        !.numOfFrames = 0,
                        !.sumOfDurationsUs = 0,
                        !.indQueue = <<>>]
    /\ recentGaps' = <<>>
    /\ UNCHANGED buckets

Batches == UNION {[1 .. n -> Frame] : n \in 1 .. MaxBatch}

Next ==
    \/ \E fs \in Batches, target \in Targets, compute \in BOOLEAN :
          AddReportedDurations(fs, target, compute)
    \/ ResetRecords

Spec == Init /\ [][Next]_vars

-----------------------------------------------------------------------------
(* The ring positions holding live records, newest first.                  *)
LiveIdx == {(sr.latest - k) % MaxNumOfRecords : k \in 0 .. sr.numOfFrames - 1}
LastIdx(k) == (sr.latest - k) % MaxNumOfRecords

\* Mutant: the back of the deque is read instead of the front.
GetMaxDurationBack ==
    IF sr.indQueue = <<>> THEN {} ELSE {sr.records[sr.indQueue[Len(sr.indQueue)]].totalDurationUs}

\* getMaxDuration(): the front of the deque, nullopt when it is empty ({}).
GetMaxDuration ==
    IF sr.indQueue = <<>> THEN {} ELSE {sr.records[Head(sr.indQueue)].totalDurationUs}

\* isLowFrameRate with the start intervals compared by '>' instead of '>='.
IsLowFrameRateStrict(fpsLowRateThreshold) ==
    LET slow(i) == sr.records[i].startIntervalUs * fpsLowRateThreshold > 1000000
        ind1 == sr.latest
        ind2 == IF ind1 = 0 THEN MaxNumOfRecords - 1 ELSE ind1 - 1
        ind3 == IF ind2 = 0 THEN MaxNumOfRecords - 1 ELSE ind2 - 1
    IN sr.numOfFrames >= 3 /\ slow(ind1) /\ slow(ind2) /\ slow(ind3)

(* isLowFrameRate(fpsLowRateThreshold): with three frames or more, the     *)
(* records at mLatestRecordIndex and the two ring positions before it all *)
(* have start intervals of at least 1000000.0 / fpsLowRateThreshold us    *)
(* (compared here as iv * threshold >= 1000000, exact for integer iv).    *)
IsLowFrameRate(fpsLowRateThreshold) ==
    LET slow(i) == sr.records[i].startIntervalUs * fpsLowRateThreshold >= 1000000
        ind1 == sr.latest
        ind2 == IF ind1 = 0 THEN MaxNumOfRecords - 1 ELSE ind1 - 1
        ind3 == IF ind2 = 0 THEN MaxNumOfRecords - 1 ELSE ind2 - 1
    IN sr.numOfFrames >= 3 /\ slow(ind1) /\ slow(ind2) /\ slow(ind3)

\* getAvgDuration(): nullopt while there are no frames.
GetAvgDuration == IF sr.numOfFrames <= 0 THEN {} ELSE {sr.avgDurationUs}

(* The refinement mapping: the abstract window is the live records from   *)
(* the oldest to mLatestRecordIndex, and the abstract getters are the      *)
(* code's getters.                                                         *)
Window == INSTANCE SessionWindow WITH
    window <- [k \in 1 .. sr.numOfFrames |->
                 LET r == sr.records[LastIdx(sr.numOfFrames - k)]
                 IN [dur |-> r.totalDurationUs, missed |-> r.isMissedCycle]],
    maxDuration <- GetMaxDuration,
    avgDuration <- GetAvgDuration,
    numOfMissedCycles <- sr.numOfMissedCycles

TypeOK ==
    /\ sr.records \in [Idx -> CycleRecord]
    /\ sr.latest \in -1 .. MaxNumOfRecords - 1
    /\ sr.numOfFrames \in 0 .. MaxNumOfRecords
    /\ sr.indQueue \in Seq(Idx)
    /\ buckets \in [BucketNames -> Nat]

(* getMaxDuration(): the deque is empty exactly when there are no records, *)
(* and otherwise its front indexes a live record that no live record is    *)
(* longer than. Eviction, the pop-back loop and resetRecords all have to   *)
(* agree with the ring for this to survive wrap-around.                    *)
MaxDurationIsMax ==
    /\ (sr.indQueue = <<>>) <=> (sr.numOfFrames = 0)
    /\ sr.indQueue # <<>> =>
         /\ Head(sr.indQueue) \in LiveIdx
         /\ \A i \in LiveIdx :
              sr.records[i].totalDurationUs <= sr.records[Head(sr.indQueue)].totalDurationUs

(* The running aggregates agree with the live records: the missed-cycle    *)
(* count, the duration sum and getAvgDuration() (sum / count), across      *)
(* evictions and resetRecords.                                             *)
AggregatesMatchRecords ==
    /\ sr.numOfMissedCycles = Cardinality({i \in LiveIdx : sr.records[i].isMissedCycle})
    /\ sr.sumOfDurationsUs = MapThenSumSet(LAMBDA i : sr.records[i].totalDurationUs, LiveIdx)
    /\ sr.numOfFrames > 0 => sr.avgDurationUs = sr.sumOfDurationsUs \div sr.numOfFrames

(* SessionRecords implements SessionWindow: every addReportedDurations    *)
(* keeps exactly the last MaxNumOfRecords cycles in the order reported,    *)
(* with the getters reporting that window, and resetRecords empties it.    *)
ImplementsSessionWindow == Window!Spec

(* The FPS tracking state agrees with the live records: getNumOfFPSJitters *)
(* counts the live records flagged as jitters (the unit test expects 0     *)
(* once the flagged records are overwritten), and once warmed up the       *)
(* rolling sum used by the jitter check and by getLatestFPS() is the sum   *)
(* of the start intervals of the last three records.                       *)
FPSTrackingMatchesRecords ==
    /\ sr.numOfFPSJitters = Cardinality({i \in LiveIdx : sr.records[i].isFPSJitter})
    /\ (sr.addedFramesForFPSCheck = kTotalFramesForFPSCheck /\ sr.numOfFrames >= 3) =>
           sr.intervalSumUs = sr.records[LastIdx(0)].startIntervalUs
                            + sr.records[LastIdx(1)].startIntervalUs
                            + sr.records[LastIdx(2)].startIntervalUs

(* isLowFrameRate(th) answers whether the frame rate has been low: it is   *)
(* true exactly when the last three frames reported since the last        *)
(* resetRecords each started at least 1/th s after the frame before them. *)
(* The ring index arithmetic, the eviction of old records and the zero    *)
(* start interval of a frame with no predecessor must all agree for this. *)
LowFrameRateOverLastThree ==
    \A th \in LowRateThresholds :
        IsLowFrameRate(th) <=>
            /\ Len(recentGaps) = kTotalFramesForFPSCheck
            /\ \A j \in 1 .. Len(recentGaps) :
                  ~recentGaps[j].first /\ recentGaps[j].gap * th >= 1000000

=============================================================================
