---------------------------- MODULE SessionWindow ----------------------------
(***************************************************************************)
(* What SessionRecords promises its session, without the ring, the deque   *)
(* or the running sums: it keeps the last MaxNumOfRecords reported cycles  *)
(* in order, each flagged as missed when its duration exceeds the target   *)
(* times kJankCheckTimeFactor, and its getters report the longest          *)
(* duration, the truncated mean duration and the number of missed cycles   *)
(* of that window. resetRecords forgets the window.                        *)
(*                                                                         *)
(* An optional getter result (std::optional) is a set: {} for nullopt,     *)
(* {v} for a value.                                                        *)
(***************************************************************************)
EXTENDS Integers, SequencesExt

CONSTANTS
    MaxNumOfRecords,  \* how many cycles the window keeps
    JankNum, JankDen, \* kJankCheckTimeFactor = JankNum / JankDen
    Durations,        \* reported cycle durations (us)
    Targets,          \* target durations (us)
    MaxBatch          \* longest vector of durations in one report

VARIABLES
    window,             \* <<[dur, missed], ...>>, oldest first
    maxDuration,        \* getMaxDuration()
    avgDuration,        \* getAvgDuration()
    numOfMissedCycles   \* getNumOfMissedCycles()

vars == <<window, maxDuration, avgDuration, numOfMissedCycles>>

\* The last n elements of s.
LastN(s, n) == IF Len(s) <= n THEN s ELSE SubSeq(s, Len(s) - n + 1, Len(s))

Cycle(d, target) == [dur |-> d, missed |-> JankDen * d > target * JankNum]

\* The getter results of window w.
Getters(w) ==
    LET durs == [k \in DOMAIN w |-> w[k].dur]
    IN [max |-> IF w = <<>> THEN {} ELSE {Max(ToSet(durs))},
        avg |-> IF w = <<>> THEN {} ELSE {FoldSeq(+, 0, durs) \div Len(w)},
        missed |-> Cardinality({k \in DOMAIN w : w[k].missed})]

Observe(w) ==
    LET g == Getters(w)
    IN /\ window' = w
       /\ maxDuration' = g.max
       /\ avgDuration' = g.avg
       /\ numOfMissedCycles' = g.missed

Init ==
    /\ window = <<>>
    /\ maxDuration = {} /\ avgDuration = {} /\ numOfMissedCycles = 0

\* A report of the durations ds against target.
Add(ds, target) ==
    Observe(LastN(window \o [k \in DOMAIN ds |-> Cycle(ds[k], target)], MaxNumOfRecords))

Reset == Observe(<<>>)

Next ==
    \/ \E n \in 1 .. MaxBatch, target \in Targets :
          \E ds \in [1 .. n -> Durations] : Add(ds, target)
    \/ Reset

Spec == Init /\ [][Next]_vars
=============================================================================
