------------------------- MODULE BatteryFGAbnormality -------------------------
(***************************************************************************)
(* BatteryFGReporter::checkAndReportFGAbnormality and reportFGEvent. The  *)
(* fuel gauge appends abnormality rows, stamped with the clock's seconds,  *)
(* to a log buffer. Each call reads CLOCK_MONOTONIC, asks readLogbuffer   *)
(* for the rows newer than last_ab_check_, reports each through           *)
(* reportFGEvent, and stores the seconds it read as the new               *)
(* last_ab_check_. reportFGEvent keeps per event type the time its        *)
(* episode was triggered (ab_trigger_time_) and reports the duration on   *)
(* the clear.                                                              *)
(*                                                                         *)
(* readLogbuffer (StatsHelper) is not under src/: it is modelled from the  *)
(* spec, 4.17, as returning the rows whose timestamp is newer than the     *)
(* watermark, in log order. The driver's timestamps, CLOCK_MONOTONIC and   *)
(* CLOCK_BOOTTIME are modelled as one clock of whole seconds: the code     *)
(* compares them as if they were, which is the most favourable case.       *)
(* Rows whose field count is not kNumFGPipelineFields are not modelled.    *)
(***************************************************************************)
EXTENDS Naturals, Sequences, SequencesExt

CONSTANTS
    Events,         \* the abnormality event types the fuel gauge logs
    NumMaxEvents,   \* kNumMaxEvents (8)
    MaxTime,        \* bound on the clock, in seconds
    MaxRows         \* bound on the rows the fuel gauge logs

ASSUME /\ Events \subseteq Nat /\ NumMaxEvents \in Nat
       /\ MaxTime \in Nat \ {0} /\ MaxRows \in Nat

VARIABLES
    now,           \* the clock, in seconds
    log,           \* the log buffer: <<[ts, event, state], ...>>, oldest first
    pc,            \* "idle", or "read": boot_time taken, readLogbuffer next
    bootTime,      \* boot_time.tv_sec of the current call
    lastAbCheck,   \* last_ab_check_
    abTriggerTime, \* ab_trigger_time_[event]
    \* Ghost state, for the property:
    times          \* per row of log, the atoms it reached (saturating at 2)

vars == <<now, log, pc, bootTime, lastAbCheck, abTriggerTime, times>>

-----------------------------------------------------------------------------
\* readLogbuffer: the indexes of the rows newer than the watermark, in order.
NewRows(l, last) == SelectSeq([i \in DOMAIN l |-> i], LAMBDA i : l[i].ts > last)

(* reportFGEvent's bookkeeping for one row at time t: a trigger starts the *)
(* episode when none is running; anything else reports the duration since *)
(* the recorded trigger and clears it. Rows of an unknown event type are  *)
(* dropped first.                                                          *)
TriggerAfter(tt, row, t) ==
    IF row.event >= NumMaxEvents THEN tt
    ELSE IF row.state = 1 /\ tt[row.event] = 0 THEN [tt EXCEPT ![row.event] = t]
    ELSE [tt EXCEPT ![row.event] = 0]

\* The state the fuel gauge logs next for event e: episodes open and close.
NextState(l, e) ==
    LET mine == SelectSeq(l, LAMBDA r : r.event = e)
    IN IF mine # <<>> /\ Last(mine).state = 1 THEN 0 ELSE 1

-----------------------------------------------------------------------------
Init ==
    /\ now = 1
    /\ log = <<>>
    /\ pc = "idle"
    /\ bootTime = 0
    /\ lastAbCheck = 0
    /\ abTriggerTime = [e \in Events |-> 0]
    /\ times = <<>>

\* A second passes.
Tick ==
    /\ now < MaxTime
    /\ now' = now + 1
    /\ UNCHANGED <<log, pc, bootTime, lastAbCheck, abTriggerTime, times>>

\* The fuel gauge logs a trigger or a clear of event e.
LogRow(e) ==
    /\ Len(log) < MaxRows
    /\ log' = Append(log, [ts |-> now, event |-> e, state |-> NextState(log, e)])
    /\ times' = Append(times, 0)
    /\ UNCHANGED <<now, pc, bootTime, lastAbCheck, abTriggerTime>>

\* checkAndReportFGAbnormality: clock_gettime(CLOCK_MONOTONIC, &boot_time).
ClockGettime ==
    /\ pc = "idle"
    /\ bootTime' = now
    /\ pc' = "read"
    /\ UNCHANGED <<now, log, lastAbCheck, abTriggerTime, times>>

(* readLogbuffer on the first configured path that exists (a device has   *)
(* the log or has not; without it there are no rows), reportFGEvent for   *)
(* each row, then last_ab_check_ takes the seconds read before.           *)
ReadLogbuffer ==
    /\ pc = "read"
    /\ LET rows == NewRows(log, lastAbCheck)
           got == ToSet(rows)
       IN /\ abTriggerTime' = FoldLeft(LAMBDA tt, i : TriggerAfter(tt, log[i], now),
                                       abTriggerTime, rows)
          /\ times' = [i \in DOMAIN times |->
                         IF i \in got /\ times[i] < 2 THEN times[i] + 1 ELSE times[i]]
    /\ lastAbCheck' = bootTime
    /\ pc' = "idle"
    /\ UNCHANGED <<now, log, bootTime>>

Next ==
    \/ Tick
    \/ \E e \in Events : LogRow(e)
    \/ ClockGettime
    \/ ReadLogbuffer

Spec == Init /\ [][Next]_vars

-----------------------------------------------------------------------------
TypeOK ==
    /\ now \in 1 .. MaxTime
    /\ pc \in {"idle", "read"}
    /\ lastAbCheck \in 0 .. MaxTime
    /\ abTriggerTime \in [Events -> 0 .. MaxTime]
    /\ times \in Seq(0 .. 2)

(* Spec 4.13, 4.17: every row the fuel gauge logs reaches exactly one atom:*)
(* no row is reported twice, and a row the watermark has passed (its       *)
(* timestamp is not newer than last_ab_check_, so no later call reads it)  *)
(* was reported. The watermark is read before the log, at whole seconds.   *)
EachRowReportedOnce ==
    \A i \in DOMAIN log :
        /\ times[i] <= 1
        /\ log[i].ts <= lastAbCheck => times[i] = 1
=============================================================================
