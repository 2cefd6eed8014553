---------------------------- MODULE BatteryEEPROM ----------------------------
(***************************************************************************)
(* BatteryEEPROMReporter as the daily pass drives it: logBatteryEEPROM     *)
(* (checkAndReport, then the stateless GMSR, max17201 history and          *)
(* model-loading reporters, then checkAndReportFGLearning) and            *)
(* logBatteryHistoryValidation (checkAndReportValidation).                 *)
(*                                                                         *)
(* The reporter's state is a record:                                       *)
(*   reportAge   report_time_ as the wakes elapsed since it was set,       *)
(*               saturating at WakesPerMonth; -1 while report_time_ is 0;  *)
(*   lastLhSet,  last_lh_check_ and last_hv_check_ are nonzero (a call     *)
(*   lastHvSet   got past its path check);                                 *)
(* and the fuel gauge's side of it:                                        *)
(*   hist        the EEPROM history holds an entry checkAndReport reports  *)
(*               (not erased, not corrupt);                                *)
(*   lh, hv      the FG-learning and history-validation logs hold rows     *)
(*               newer than their watermark.                               *)
(* Each operator returns [st |-> the new record, calls |-> what it did].   *)
(* A call of the daily pass is one step of the collector, so rows are read *)
(* whole; the watermark's clock-before-read window is the subject of       *)
(* BatteryFGAbnormality.                                                    *)
(***************************************************************************)
EXTENDS Integers

CONSTANTS
    WakesPerMonth,      \* kSecondsPerMonth / kSecondsPerWake
    EEPROMPathSet,      \* "EEPROMPath" is configured
    FGLogBufferPathSet  \* some "FGLogBufferPath" exists

ASSUME /\ WakesPerMonth \in Nat \ {0}
       /\ {EEPROMPathSet, FGLogBufferPathSet} \subseteq BOOLEAN

EEPROMStates ==
    [reportAge : -1 .. WakesPerMonth, lastLhSet : BOOLEAN, lastHvSet : BOOLEAN,
     hist : BOOLEAN, lh : BOOLEAN, hv : BOOLEAN]

\* A new reporter: every member starts at 0.
EEPROMInit(hist) ==
    [reportAge |-> -1, lastLhSet |-> FALSE, lastHvSet |-> FALSE,
     hist |-> hist, lh |-> FALSE, hv |-> FALSE]

\* n wakes pass: now - report_time_ grows, while report_time_ is set.
AgeBy(a, n) == IF a = -1 THEN -1 ELSE IF a + n < WakesPerMonth THEN a + n ELSE WakesPerMonth

-----------------------------------------------------------------------------
(* checkAndReport: return while report_time_ is set and less than a month  *)
(* old; return when the history file cannot be read; otherwise report      *)
(* every valid entry and set report_time_ after each.                      *)
CheckAndReport(e, readOk) ==
    IF e.reportAge # -1 /\ e.reportAge < WakesPerMonth
    THEN [st |-> e, calls |-> {"eepromThrottled"}]
    ELSE IF ~readOk \/ ~e.hist THEN [st |-> e, calls |-> {}]
    ELSE [st |-> [e EXCEPT !.reportAge = 0], calls |-> {"eepromHistory"}]

(* checkAndReportFGLearning: with a log path, report the rows newer than  *)
(* last_lh_check_ and move the watermark.                                  *)
CheckAndReportFGLearning(e) ==
    IF ~FGLogBufferPathSet THEN [st |-> e, calls |-> {}]
    ELSE [st |-> [e EXCEPT !.lh = FALSE, !.lastLhSet = TRUE],
          calls |-> IF e.lh THEN {"fgLearning"} ELSE {}]

(* logBatteryEEPROM: checkAndReport when EEPROMPath is configured, the     *)
(* GMSR, max17201 and model-loading reporters (a read and at most a few    *)
(* atoms each, no state), then checkAndReportFGLearning.                   *)
LogBatteryEEPROM(e, readOk) ==
    LET r == IF EEPROMPathSet THEN CheckAndReport(e, readOk)
             ELSE [st |-> e, calls |-> {}]
        l == CheckAndReportFGLearning(r.st)
    IN [st |-> l.st, calls |-> r.calls \cup l.calls \cup {"eeprom"}]

\* Mutant: a validation row forces the next history report even on the first call.
CheckAndReportValidationAlways(e) ==
    IF ~FGLogBufferPathSet THEN [st |-> e, calls |-> {}]
    ELSE [st |-> [e EXCEPT !.hv = FALSE, !.lastHvSet = TRUE,
                           !.reportAge = IF e.hv THEN -1 ELSE @],
          calls |-> IF e.hv THEN {"validation"} ELSE {}]

(* checkAndReportValidation: report the rows newer than last_hv_check_;    *)
(* for each, when last_hv_check_ is nonzero, clear report_time_ so that    *)
(* the next checkAndReport reports the recovered history. Then move the   *)
(* watermark.                                                              *)
CheckAndReportValidation(e) ==
    IF ~FGLogBufferPathSet THEN [st |-> e, calls |-> {}]
    ELSE [st |-> [e EXCEPT !.hv = FALSE, !.lastHvSet = TRUE,
                           !.reportAge = IF e.hv /\ e.lastHvSet THEN -1 ELSE @],
          calls |-> IF e.hv THEN {"validation"} ELSE {}]

\* logBatteryHistoryValidation: its own getStatsService() first.
LogBatteryHistoryValidation(e, up) ==
    IF ~up THEN [st |-> e, calls |-> {}] ELSE CheckAndReportValidation(e)

\* The fuel gauge records a history entry, or logs a row of kind k.
FuelGaugeAfter(e, k) ==
    CASE k = "hist" -> [e EXCEPT !.hist = TRUE]
      [] k = "lh"   -> [e EXCEPT !.lh = TRUE]
      [] k = "hv"   -> [e EXCEPT !.hv = TRUE]
=============================================================================
