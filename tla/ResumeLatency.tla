--------------------------- MODULE ResumeLatency ----------------------------
(***************************************************************************)
(* SysfsCollector::logVendorResumeLatencyStats, called by every daily     *)
(* pass. The kernel keeps a histogram of resume latencies since boot: a   *)
(* count per bucket and the sum of all latencies. Each call parses it and *)
(* reports this period's events: per bucket the count minus the previous  *)
(* snapshot in prev_data (when the bucket count is the one seen last      *)
(* time), and the average latency of the new resumes, with -1 when there  *)
(* are none.                                                               *)
(*                                                                         *)
(* prev_data is a member that no constructor initialises: its scalar      *)
(* fields start with whatever the allocation held (its vector starts      *)
(* empty). The initial values range over PrevSumInit, PrevCountInit and   *)
(* PrevCntInit.                                                            *)
(***************************************************************************)
EXTENDS Integers, Sequences, Functions

CONSTANTS
    NB,             \* buckets the kernel prints ("Resume Latency Bucket Count")
    MaxBuckets,     \* kMaxResumeLatencyBuckets (36)
    Latency,        \* Latency[b]: the latency in ms of a resume falling in bucket b
    MaxResumes,     \* bound on the resumes of a behaviour
    SumBits,        \* width of the uint64_t sums (64 in the code)
    PrevSumInit,    \* possible initial prev_data.resume_latency_sum_ms
    PrevCountInit,  \* possible initial prev_data.resume_count
    PrevCntInit     \* possible initial prev_data.bucket_cnt

Buckets == 1 .. NB

ASSUME /\ NB \in 1 .. MaxBuckets
       /\ Latency \in [Buckets -> Nat \ {0}]
       /\ {MaxResumes, SumBits} \subseteq Nat
       /\ PrevSumInit \subseteq 0 .. 2^SumBits - 1
       /\ PrevCountInit \subseteq Int /\ PrevCntInit \subseteq Int

VARIABLES
    kCounts,    \* the kernel's cumulative count per bucket
    kSum,       \* the kernel's cumulative latency sum
    prev,       \* prev_data: [sum, count, buckets, cnt]
    lastAvg,    \* the average latency of the latest atom (values[1])
    oob,        \* a call indexed resume_latency_buckets past its end
    \* Ghost state, for the properties:
    snap,       \* [counts, sum] of the kernel at the latest completed call
    reported,   \* per bucket, the sum of the values of all atoms sent
    logged      \* some call has completed

vars == <<kCounts, kSum, prev, lastAvg, oob, snap, reported, logged>>

\* Reinterpreting a uint64_t as int64_t.
Signed(u) == IF u >= 2^(SumBits - 1) THEN u - 2^SumBits ELSE u

\* C++ integer division truncates toward zero.
CDiv(a, b) == IF a >= 0 THEN a \div b ELSE -((-a) \div b)

Total(f) == FoldFunction(+, 0, f)

-----------------------------------------------------------------------------
\* Mutant: the delta is taken the wrong way round.
BucketValueSwapped(stable, count, old) == IF stable THEN old - count ELSE count

(* A bucket's value in the atom: the delta against the previous snapshot   *)
(* when the bucket count is unchanged, the absolute count otherwise.       *)
BucketValue(stable, count, old) == IF stable THEN count - old ELSE count

(* values[1]. sum_latency - resume_latency_sum_ms is uint64_t arithmetic,  *)
(* so its "< 0" test is always false; only the count delta is guarded.     *)
AverageLatency(sum, prevSum, cntDelta) ==
    LET sumDelta == (sum - prevSum) % 2^SumBits
    IN IF sumDelta < 0 \/ cntDelta <= 0 THEN -1
       ELSE CDiv(Signed(sumDelta), cntDelta)

\* Mutant: resume_count is not stored.
PrevAfterKeepCount(p, buckets, sum, total) ==
    [p EXCEPT !.buckets = buckets, !.sum = sum, !.cnt = NB]

\* Mutant: bucket_cnt is not stored.
PrevAfterKeepCnt(p, buckets, sum, total) ==
    [p EXCEPT !.buckets = buckets, !.sum = sum, !.count = total]

\* The snapshot stored at the end of a call that got past the parse.
PrevAfter(p, buckets, sum, total) ==
    [p EXCEPT !.buckets = buckets, !.sum = sum, !.count = total, !.cnt = NB]

-----------------------------------------------------------------------------
Init ==
    /\ kCounts = [b \in Buckets |-> 0]
    /\ kSum = 0
    /\ prev \in [sum : PrevSumInit, count : PrevCountInit,
                 buckets : {<<>>}, cnt : PrevCntInit]
    /\ lastAvg = -1
    /\ oob = FALSE
    /\ snap = [counts |-> kCounts, sum |-> 0]
    /\ reported = [b \in Buckets |-> 0]
    /\ logged = FALSE

\* The device resumes with a latency that falls in bucket b.
Resume(b) ==
    /\ Total(kCounts) < MaxResumes
    /\ kCounts' = [kCounts EXCEPT ![b] = @ + 1]
    /\ kSum' = (kSum + Latency[b]) % 2^SumBits
    /\ UNCHANGED <<prev, lastAvg, oob, snap, reported, logged>>

(* One call on a well-formed file with the console off and the path set    *)
(* (the other early returns change nothing). When bucket_cnt matches, the  *)
(* loop reads and overwrites resume_latency_buckets[index - 2]; on an      *)
(* empty vector that is undefined: the read yields any value, the write    *)
(* lands outside the vector. Otherwise the vector is cleared and refilled. *)
(* The snapshot is stored before reportVendorAtom, whose failure is only   *)
(* logged.                                                                 *)
LogVendorResumeLatencyStats ==
    /\ NB <= MaxBuckets
    /\ LET stable == NB = prev.cnt
           short == stable /\ Len(prev.buckets) < NB
           total == Total(kCounts)
       IN \E junk \in IF short THEN [Buckets -> 0 .. MaxResumes]
                      ELSE {[b \in Buckets |-> 0]} :
            LET old(b) == IF b <= Len(prev.buckets) THEN prev.buckets[b] ELSE junk[b]
                vals == [b \in Buckets |-> BucketValue(stable, kCounts[b], old(b))]
                buckets == IF short THEN prev.buckets ELSE kCounts
            IN /\ prev' = PrevAfter(prev, buckets, kSum, total)
               /\ lastAvg' = AverageLatency(kSum, prev.sum, total - prev.count)
               /\ oob' = (oob \/ short)
               /\ reported' = [b \in Buckets |-> reported[b] + vals[b]]
    /\ snap' = [counts |-> kCounts, sum |-> kSum]
    /\ logged' = TRUE
    /\ UNCHANGED <<kCounts, kSum>>

Next == (\E b \in Buckets : Resume(b)) \/ LogVendorResumeLatencyStats

Spec == Init /\ [][Next]_vars

-----------------------------------------------------------------------------
TypeOK ==
    /\ kCounts \in [Buckets -> 0 .. MaxResumes]
    /\ prev.buckets \in Seq(0 .. MaxResumes)
    /\ reported \in [Buckets -> Nat]
    /\ lastAvg \in Int
    /\ oob \in BOOLEAN

(* Over all atoms sent, each bucket's values add up to the kernel's count  *)
(* at the latest call: every resume is reported once, in the period it    *)
(* happened, however the deltas and the absolute first report combine.    *)
ReportedBucketsTelescope ==
    logged => \A b \in Buckets : reported[b] = snap.counts[b]

(* Each atom's average latency is the mean latency of the resumes since    *)
(* the previous call (truncated), or -1 when there were none.              *)
AverageOfNewResumes ==
    [][LogVendorResumeLatencyStats =>
        LET n == Total(kCounts) - Total(snap.counts)
        IN lastAvg' = IF n = 0 THEN -1 ELSE (kSum - snap.sum) \div n]_vars

(* Every atom is computed from defined values: resume_latency_buckets is  *)
(* never indexed past its end, and, as spec 4.13 says negative deltas are  *)
(* guarded with the -1 sentinel, no atom carries a negative average other  *)
(* than -1.                                                                *)
ReportWellDefined == ~oob /\ lastAvg >= -1
=============================================================================
