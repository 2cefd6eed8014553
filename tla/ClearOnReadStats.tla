-------------------------- MODULE ClearOnReadStats --------------------------
(***************************************************************************)
(* The reporters of SysfsCollector::logPerDay that clear kernel counters   *)
(* after reading them, while the kernel keeps counting. logPerDay calls    *)
(* them one after another on the collector thread, in this order:          *)
(*  - logF2fsAtomicWriteInfo reads each atomic-write counter and writes    *)
(*    "0" to it, returning at the first failed read or write, then sends   *)
(*    one atom;                                                            *)
(*  - logF2fsCompressionInfo reads the written-blocks counter, then reads  *)
(*    and writes "0" to each later counter, returning at the first        *)
(*    failure, then sends one atom;                                        *)
(*  - logF2fsGcSegmentInfo, through getReclaimedSegments, for each GC mode *)
(*    writes the mode to gc_segment_mode, reads gc_reclaimed_segments and  *)
(*    writes "0" to it, returning at the first failure, then sends one    *)
(*    atom;                                                                *)
(*  - logSlowIO, through reportSlowIoFromFile, reads each slow-IO counter, *)
(*    reports it when positive, and writes "0" to it once it was read;     *)
(*  - logVendorLongIRQStatsReported reads the long-IRQ and storm-IRQ files,*)
(*    sends one atom, then writes "1" to IRQStatsResetPath;                *)
(*  - logVendorResumeLatencyStats (module ResumeLatency) reports the     *)
(*    resume-latency histogram against its previous snapshot;             *)
(*  - logPcieLinkStats reads each counter of each PCIe root (modem, wifi)  *)
(*    and writes the value read back to it ("clears the counter"), then    *)
(*    sends one atom if any read succeeded.                                *)
(* The kernel counts between any two of these steps. A counter stands for  *)
(* the counts of its file; what the PCIe driver does with a written-back   *)
(* value is its own: it subtracts it when ClearBySubtract, otherwise it    *)
(* resets the counter. So is what a write of "0" to compr_saved_block      *)
(* does: with ComprJointReset it also resets compr_written_block. The F2FS *)
(* driver keeps a reclaimed-segments counter per GC mode, and              *)
(* gc_segment_mode selects the one gc_reclaimed_segments reads and resets. *)
(***************************************************************************)
EXTENDS Naturals, Sequences, Functions

CONSTANTS
    F2fsFiles,        \* the atomic-write counters, in the order they are read
    ComprFiles,       \* the compression counters, compr_written_block first
    GcModes,          \* the GC modes getReclaimedSegments is called with, in order
    ComprJointReset,  \* "0" written to ComprFiles[2] also resets ComprFiles[1]
    SlowIoOps,        \* the configured slow-IO counters (read, write, ...), in order
    Roots,            \* <<"modem", "wifi">>: the configured PCIe stats roots, in order
    ClearBySubtract,  \* the PCIe driver subtracts a written value (else resets)
    MaxEvents,        \* bound on the kernel events of a behaviour
    NB, Latency,      \* the resume-latency histogram (see ResumeLatency)
    MaxResumes, SumBits

ASSUME /\ Len(F2fsFiles) >= 1 /\ Len(ComprFiles) >= 2 /\ Len(GcModes) >= 1
       /\ ComprJointReset \in BOOLEAN /\ Len(SlowIoOps) >= 1 /\ Len(Roots) >= 1
       /\ ClearBySubtract \in BOOLEAN /\ MaxEvents \in Nat

RootSet == Range(Roots)

\* Every kernel counter the daily pass clears: one per file.
Counters == {"irq"} \cup Range(F2fsFiles) \cup Range(ComprFiles) \cup Range(GcModes) \cup Range(SlowIoOps) \cup RootSet

\* The loop each reporter runs, and the reporter logPerDay calls after it.
Loop == [f2fs |-> F2fsFiles, compr |-> ComprFiles, gc |-> GcModes, slowio |-> SlowIoOps, irq |-> <<"irq">>,
         resume |-> <<"resume">>, pcie |-> Roots, idle |-> <<"idle">>]
After == [f2fs |-> "compr", compr |-> "gc", gc |-> "slowio", slowio |-> "irq", irq |-> "resume",
          resume |-> "pcie", pcie |-> "idle"]

(* The ghost counts of counts sent saturate one above the events a counter *)
(* can see: that is enough to tell an over-report apart.                   *)
SentCap == MaxEvents + 1
Saturate(n) == IF n > SentCap THEN SentCap ELSE n

Zero == [c \in Counters |-> 0]

VARIABLES
    k,          \* per counter, its count in the kernel
    pc,         \* [fn, i, at]: the reporter, the index in its loop, the step
    val,        \* the reporter's locals: per counter the value it read
    pcieAny,    \* reportPcieLinkStats
    \* Ghost state, for the properties:
    total,        \* per counter, the events the kernel counted
    sent,         \* per counter, the counts carried by accepted atoms
    irqDelivered, \* the counts the latest long-IRQ atom delivered
    irqLost,      \* counts the long-IRQ reset removed without an accepted atom
    writeFailed,  \* some clearing write whose failure is only logged failed
    \* logVendorResumeLatencyStats, as in ResumeLatency:
    kCounts, kSum, prev, lastAvg, oob, snap, reported, logged

cvars == <<k, pc, val, pcieAny, total, sent, irqDelivered, irqLost, writeFailed>>
rvars == <<kCounts, kSum, prev, lastAvg, oob, snap, reported, logged>>
vars == <<cvars, rvars>>

(* The resume-latency reporter, its prev_data starting as zeroed memory    *)
(* (the uninitialised case is the subject of ResumeLatency's own run).     *)
RL == INSTANCE ResumeLatency WITH
    MaxBuckets <- 36, PrevSumInit <- {0}, PrevCountInit <- {0}, PrevCntInit <- {0}

-----------------------------------------------------------------------------
\* The PCIe counter after the value v read from it is written back.
PcieClear(c, v) == IF ClearBySubtract THEN c - v ELSE 0

\* Mutant: the write to IRQStatsResetPath resets nothing.
IrqAfterResetNoop(c, ok) == c

\* The long-IRQ counts after the write of "1" to IRQStatsResetPath.
IrqAfterReset(c, ok) == IF ok THEN 0 ELSE c

\* Mutant: the loop bound is off by one.
NextRootOffByOne(i) ==
    IF i <= Len(Roots) THEN [fn |-> "pcie", i |-> i + 1, at |-> "read"]
    ELSE [fn |-> "pcie", i |-> i, at |-> "report"]

\* The PCIe position after Roots[i] is done.
NextRoot(i) ==
    IF i < Len(Roots) THEN [fn |-> "pcie", i |-> i + 1, at |-> "read"]
    ELSE [fn |-> "pcie", i |-> i, at |-> "report"]

\* The atomic-write position after F2fsFiles[i] was read and cleared.
NextF2fsFile(i) ==
    IF i < Len(F2fsFiles) THEN [fn |-> "f2fs", i |-> i + 1, at |-> "read"]
    ELSE [fn |-> "f2fs", i |-> i, at |-> "report"]

\* The reporter fn returns: its locals go, logPerDay calls the next one.
Return(fn) ==
    /\ pc' = [fn |-> After[fn], i |-> 1, at |-> IF After[fn] = "gc" THEN "mode" ELSE "read"]
    /\ val' = Zero /\ pcieAny' = FALSE

\* sent after an atom carrying the values v of the counters cs was accepted.
Accept(cs, v) == [c \in Counters |-> IF c \in cs THEN Saturate(sent[c] + v[c]) ELSE sent[c]]

-----------------------------------------------------------------------------
Init ==
    /\ k = Zero
    /\ pc = [fn |-> "idle", i |-> 1, at |-> "read"]
    /\ val = Zero /\ pcieAny = FALSE
    /\ total = Zero /\ sent = Zero
    /\ irqDelivered = 0 /\ irqLost = 0 /\ writeFailed = FALSE
    /\ RL!Init

\* The kernel events of a behaviour so far: counts and resumes.
KernelEvents == FoldFunction(+, 0, total) + RL!Total(kCounts)

\* The kernel counts an event on counter c.
Event(c) ==
    /\ KernelEvents < MaxEvents
    /\ k' = [k EXCEPT ![c] = @ + 1]
    /\ total' = [total EXCEPT ![c] = @ + 1]
    /\ UNCHANGED <<pc, val, pcieAny, sent, irqDelivered, irqLost, writeFailed>>

(* A daily pass that got the stats service reaches the first reporter.    *)
DailyPass ==
    /\ pc.fn = "idle"
    /\ pc' = [fn |-> "f2fs", i |-> 1, at |-> "read"]
    /\ UNCHANGED <<k, val, pcieAny, total, sent, irqDelivered, irqLost, writeFailed>>

At(fn, at) == pc.fn = fn /\ pc.at = at

F2fsVars == <<total, irqDelivered, irqLost, writeFailed>>

(* ReadFileToInt of F2fsFiles[i]: a failure returns, and so loses what the *)
(* earlier files of this call were cleared of.                             *)
F2fsRead ==
    /\ At("f2fs", "read")
    /\ LET f == F2fsFiles[pc.i]
       IN \/ /\ val' = [val EXCEPT ![f] = k[f]]
             /\ pc' = [pc EXCEPT !.at = "write"]
             /\ UNCHANGED pcieAny
          \/ Return("f2fs")
    /\ UNCHANGED <<k, sent, F2fsVars>>

\* WriteStringToFile("0"); a failure returns before the atom.
F2fsWrite ==
    /\ At("f2fs", "write")
    /\ LET f == F2fsFiles[pc.i]
       IN \/ /\ k' = [k EXCEPT ![f] = 0]
             /\ pc' = NextF2fsFile(pc.i)
             /\ UNCHANGED <<val, pcieAny>>
          \/ /\ Return("f2fs")
             /\ UNCHANGED k
    /\ UNCHANGED <<sent, F2fsVars>>

\* reportVendorAtom of the values read, whose failure is only logged.
F2fsReport ==
    /\ At("f2fs", "report")
    /\ \E ok \in BOOLEAN : sent' = IF ok THEN Accept(Range(F2fsFiles), val) ELSE sent
    /\ Return("f2fs")
    /\ UNCHANGED <<k, F2fsVars>>

\* The compression position after ComprFiles[i] was read (and cleared).
NextComprFile(i) ==
    IF i < Len(ComprFiles) THEN [fn |-> "compr", i |-> i + 1, at |-> "read"]
    ELSE [fn |-> "compr", i |-> i, at |-> "report"]

\* The counters after "0" is written to ComprFiles[i].
ComprClear(i) ==
    [c \in Counters |->
        IF c = ComprFiles[i] \/ (ComprJointReset /\ i = 2 /\ c = ComprFiles[1])
        THEN 0 ELSE k[c]]

(* ReadFileToInt of ComprFiles[i]: compr_written_block is only read; each  *)
(* later counter is cleared next. A failure returns.                       *)
ComprRead ==
    /\ At("compr", "read")
    /\ LET f == ComprFiles[pc.i]
       IN \/ /\ val' = [val EXCEPT ![f] = k[f]]
             /\ pc' = IF pc.i = 1 THEN NextComprFile(1) ELSE [pc EXCEPT !.at = "write"]
             /\ UNCHANGED pcieAny
          \/ Return("compr")
    /\ UNCHANGED <<k, sent, F2fsVars>>

\* WriteStringToFile("0"); a failure returns before the atom.
ComprWrite ==
    /\ At("compr", "write")
    /\ \/ /\ k' = ComprClear(pc.i)
          /\ pc' = NextComprFile(pc.i)
          /\ UNCHANGED <<val, pcieAny>>
       \/ /\ Return("compr")
          /\ UNCHANGED k
    /\ UNCHANGED <<sent, F2fsVars>>

\* reportVendorAtom of the three values, whose failure is only logged.
ComprReport ==
    /\ At("compr", "report")
    /\ \E ok \in BOOLEAN : sent' = IF ok THEN Accept(Range(ComprFiles), val) ELSE sent
    /\ Return("compr")
    /\ UNCHANGED <<k, F2fsVars>>

(* getReclaimedSegments(GcModes[i]): the mode is written to               *)
(* gc_segment_mode; a failure returns -1, and logF2fsGcSegmentInfo returns.*)
GcMode ==
    /\ At("gc", "mode")
    /\ \/ pc' = [pc EXCEPT !.at = "read"] /\ UNCHANGED <<val, pcieAny>>
       \/ Return("gc")
    /\ UNCHANGED <<k, sent, F2fsVars>>

\* ReadFileToInt(gc_reclaimed_segments); a failure returns -1.
GcRead ==
    /\ At("gc", "read")
    /\ LET m == GcModes[pc.i]
       IN \/ /\ val' = [val EXCEPT ![m] = k[m]]
             /\ pc' = [pc EXCEPT !.at = "write"]
             /\ UNCHANGED pcieAny
          \/ Return("gc")
    /\ UNCHANGED <<k, sent, F2fsVars>>

(* WriteStringToFile("0", gc_reclaimed_segments); a failure returns -1.    *)
(* Otherwise the next mode, or the atom after the last one.                *)
GcWrite ==
    /\ At("gc", "write")
    /\ LET m == GcModes[pc.i]
       IN \/ /\ k' = [k EXCEPT ![m] = 0]
             /\ pc' = IF pc.i < Len(GcModes) THEN [fn |-> "gc", i |-> pc.i + 1, at |-> "mode"]
                      ELSE [pc EXCEPT !.at = "report"]
             /\ UNCHANGED <<val, pcieAny>>
          \/ /\ Return("gc")
             /\ UNCHANGED k
    /\ UNCHANGED <<sent, F2fsVars>>

\* reportVendorAtom of the per-mode values, whose failure is only logged.
GcReport ==
    /\ At("gc", "report")
    /\ \E ok \in BOOLEAN : sent' = IF ok THEN Accept(Range(GcModes), val) ELSE sent
    /\ Return("gc")
    /\ UNCHANGED <<k, F2fsVars>>

\* The slow-IO position after SlowIoOps[i] is done.
NextSlowIo(i) == [fn |-> "slowio", i |-> i + 1, at |-> "read"]

(* reportSlowIoFromFile, up to the clear: an unreadable file goes on to    *)
(* the next counter; a readable one is parsed, reported when positive      *)
(* (reportSlowIo only logs a failure), and cleared next, also when it did  *)
(* not parse.                                                              *)
SlowIoRead ==
    /\ At("slowio", "read")
    /\ LET o == SlowIoOps[pc.i]
           last == pc.i = Len(SlowIoOps)
       IN \/ /\ IF last THEN Return("slowio")
                ELSE pc' = NextSlowIo(pc.i) /\ UNCHANGED <<val, pcieAny>>
             /\ UNCHANGED sent
          \/ /\ pc' = [pc EXCEPT !.at = "write"]
             /\ UNCHANGED <<val, pcieAny, sent>>
          \/ /\ val' = [val EXCEPT ![o] = k[o]]
             /\ \E ok \in BOOLEAN :
                  sent' = IF ok /\ k[o] > 0 THEN Accept({o}, val') ELSE sent
             /\ pc' = [pc EXCEPT !.at = "write"]
             /\ UNCHANGED pcieAny
    /\ UNCHANGED <<k, total, irqDelivered, irqLost, writeFailed>>

\* WriteStringToFile("0"), whose failure is only logged.
SlowIoClear ==
    /\ At("slowio", "write")
    /\ LET o == SlowIoOps[pc.i]
       IN \E ok \in BOOLEAN :
            /\ k' = IF ok THEN [k EXCEPT ![o] = 0] ELSE k
            /\ writeFailed' = (writeFailed \/ ~ok)
    /\ IF pc.i = Len(SlowIoOps) THEN Return("slowio")
       ELSE pc' = NextSlowIo(pc.i) /\ UNCHANGED <<val, pcieAny>>
    /\ UNCHANGED <<total, sent, irqDelivered, irqLost>>

(* logVendorLongIRQStatsReported up to the atom: with the console off and  *)
(* the three paths set, both files are read and parsed. A failed read or   *)
(* parse returns before the reset.                                         *)
IrqCollect ==
    /\ At("irq", "read")
    /\ \/ /\ val' = [val EXCEPT !["irq"] = k["irq"]]
          /\ pc' = [pc EXCEPT !.at = "report"]
          /\ UNCHANGED pcieAny
       \/ Return("irq")
    /\ UNCHANGED <<k, total, sent, irqDelivered, irqLost, writeFailed>>

\* reportVendorAtom, whose failure is only logged.
IrqReport ==
    /\ At("irq", "report")
    /\ \E ok \in BOOLEAN : irqDelivered' = IF ok THEN val["irq"] ELSE 0
    /\ sent' = [sent EXCEPT !["irq"] = Saturate(@ + irqDelivered')]
    /\ pc' = [pc EXCEPT !.at = "reset"]
    /\ UNCHANGED <<k, val, pcieAny, total, irqLost, writeFailed>>

\* The reset, whatever the report did; a failed write is only logged.
IrqReset ==
    /\ At("irq", "reset")
    /\ \E ok \in BOOLEAN :
         /\ k' = [k EXCEPT !["irq"] = IrqAfterReset(@, ok)]
         /\ irqLost' = IF ok THEN irqLost + k["irq"] - irqDelivered ELSE irqLost
         /\ writeFailed' = (writeFailed \/ ~ok)
    /\ irqDelivered' = 0
    /\ Return("irq")
    /\ UNCHANGED <<total, sent>>

(* ReadFileToInt of a counter of Roots[i] (datamap[] values start at 0):   *)
(* on success the value is kept and the counter is cleared next; on        *)
(* failure the root moves on.                                              *)
PcieRead ==
    /\ At("pcie", "read")
    /\ LET r == Roots[pc.i]
       IN \/ /\ val' = [val EXCEPT ![r] = k[r]]
             /\ pcieAny' = TRUE
             /\ pc' = [pc EXCEPT !.at = "write"]
          \/ /\ pc' = NextRoot(pc.i)
             /\ UNCHANGED <<val, pcieAny>>
    /\ UNCHANGED <<k, total, sent, irqDelivered, irqLost, writeFailed>>

\* WriteStringToFile of the value read; a failure is only logged.
PcieWrite ==
    /\ At("pcie", "write")
    /\ LET r == Roots[pc.i]
       IN \E ok \in BOOLEAN :
            /\ k' = IF ok THEN [k EXCEPT ![r] = PcieClear(@, val[r])] ELSE k
            /\ writeFailed' = (writeFailed \/ ~ok)
    /\ pc' = NextRoot(pc.i)
    /\ UNCHANGED <<val, pcieAny, total, sent, irqDelivered, irqLost>>

(* The atom, when some read succeeded: every value read is carried;        *)
(* reportVendorAtom's failure is only logged.                              *)
PcieReport ==
    /\ At("pcie", "report")
    /\ \/ ~pcieAny /\ UNCHANGED sent
       \/ pcieAny /\ \E ok \in BOOLEAN :
             sent' = IF ok THEN Accept(RootSet, val) ELSE sent
    /\ Return("pcie")
    /\ UNCHANGED <<k, total, irqDelivered, irqLost, writeFailed>>

(* logVendorResumeLatencyStats: with the console off, the path set and a  *)
(* well-formed file, one call of ResumeLatency; otherwise an early return  *)
(* that changes nothing.                                                   *)
ResumeStats ==
    /\ At("resume", "read")
    /\ RL!LogVendorResumeLatencyStats \/ UNCHANGED rvars
    /\ Return("resume")
    /\ UNCHANGED <<k, total, sent, irqDelivered, irqLost, writeFailed>>

\* The reporters that clear counters, each leaving the histogram alone.
ClearingStep ==
    /\ \/ \E c \in Counters : Event(c)
       \/ DailyPass
       \/ F2fsRead \/ F2fsWrite \/ F2fsReport
       \/ ComprRead \/ ComprWrite \/ ComprReport
       \/ GcMode \/ GcRead \/ GcWrite \/ GcReport
       \/ SlowIoRead \/ SlowIoClear
       \/ IrqCollect \/ IrqReport \/ IrqReset
       \/ PcieRead \/ PcieWrite \/ PcieReport
    /\ UNCHANGED rvars

Next ==
    \/ ClearingStep
    \/ \E b \in RL!Buckets : KernelEvents < MaxEvents /\ RL!Resume(b) /\ UNCHANGED cvars
    \/ ResumeStats

Spec == Init /\ [][Next]_vars

-----------------------------------------------------------------------------
TypeOK ==
    /\ k \in [Counters -> 0 .. MaxEvents]
    /\ pc.fn \in DOMAIN Loop /\ pc.i \in DOMAIN Loop[pc.fn]
    /\ pc.at \in {"mode", "read", "write", "report", "reset"}
    /\ val \in [Counters -> 0 .. MaxEvents]
    /\ sent \in [Counters -> 0 .. SentCap]
    /\ RL!TypeOK

(* No count reaches two accepted atoms unless a clearing write whose       *)
(* failure is only logged failed: every reporter clears at least what it   *)
(* read before the next daily pass reads it again, however the kernel's    *)
(* events interleave with the reads, the clears and the early returns.     *)
NoDoubleReport == ~writeFailed => \A c \in Counters : sent[c] <= total[c]

(* ResumeLatency's telescoping property, with the reporter called in its  *)
(* place in the daily chain: over all atoms, each histogram bucket's       *)
(* values add up to the kernel's count at the latest call.                 *)
ReportedBucketsTelescope == RL!ReportedBucketsTelescope

(* ResumeLatency's average property in the daily chain: each atom's       *)
(* average latency is the mean of the resumes since the previous call, or  *)
(* -1 when there were none.                                                *)
AverageOfNewResumes ==
    [][RL!LogVendorResumeLatencyStats =>
        LET n == RL!Total(kCounts) - RL!Total(snap.counts)
        IN lastAvg' = IF n = 0 THEN -1 ELSE (kSum - snap.sum) \div n]_vars

(* Spec 4.13: the long-IRQ counters are reset after a successful report:   *)
(* the reset never removes a count that no accepted atom carried.          *)
IrqResetAfterReport == irqLost = 0
=============================================================================
