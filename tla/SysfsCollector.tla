--------------------------- MODULE SysfsCollector ---------------------------
(***************************************************************************)
(* The pixelstats collection daemon, SysfsCollector::collect(): after a    *)
(* boot pass (aggregatePer5Min, logOnce, logPerHour, logPerDay) it arms a  *)
(* CLOCK_BOOTTIME timerfd that expires every kSecondsPerWake and loops on  *)
(* read(timerfd), which returns the number of expirations since the last   *)
(* read (several when the device slept through them). Three wake counters *)
(* decide when the 5-minute, hourly and daily passes run.                  *)
(*                                                                         *)
(* The passes are modelled by the reporter calls they make, recorded in   *)
(* `calls` for the step that made them; what a reporter reads from sysfs   *)
(* is outside this module. Each pass first asks for the IStats service,    *)
(* which may be unavailable: the pass then returns before any call.        *)
(***************************************************************************)
EXTENDS Naturals, FiniteSets, BatteryEEPROM

CONSTANTS
    WakesPer5Min,           \* kWakesPer5Min (1 in the code)
    WakesPerHour,           \* kWakesPerHour (12 in the code)
    WakesPerDay,            \* kWakesPerDay (288 in the code)
    MaxPending,             \* most expirations one read may return
    MitigationStatsPathSet, \* "PowerMitigationStatsPath" is configured
    BrownoutCsvPathSet,     \* "BrownoutCsvPath" is configured
    BrownoutLogPathSet      \* "BrownoutLogPath" is configured

ASSUME /\ WakesPer5Min \in Nat \ {0}
       /\ WakesPerHour \in Nat \ {0}
       /\ WakesPerDay \in Nat \ {0} /\ WakesPerDay % WakesPerHour = 0
       /\ MaxPending \in Nat \ {0}
       /\ {MitigationStatsPathSet, BrownoutCsvPathSet, BrownoutLogPathSet} \subseteq BOOLEAN

VARIABLES
    pc,               \* "start": before the loop; "loop"; "stopped": collect() returned
    expirations,      \* expirations of the timerfd not yet read
    wake5,            \* wake_5min
    wakeHours,        \* wake_hours
    wakeDays,         \* wake_days
    logOnceReported,  \* log_once_reported
    calls,            \* reporter calls and warnings of the latest step
    eeprom,           \* battery_EEPROM_reporter_ and the fuel gauge (BatteryEEPROM)
    \* Ghost state, for the properties:
    sinceHist,        \* wakes since the latest history report (-1: none yet)
    recovered         \* a recovery was reported since the latest history report

vars == <<pc, expirations, wake5, wakeHours, wakeDays, logOnceReported,
          calls, eeprom, sinceHist, recovered>>

\* The getStatsService() calls of the boot pass, each of which may fail.
Passes == {"brownout", "water", "hour", "day", "validation"}

-----------------------------------------------------------------------------
(* logBrownout: the CSV reporter is called when BrownoutCsvPath is empty,  *)
(* otherwise the log reporter when BrownoutLogPath is empty.               *)
LogBrownout(up) ==
    IF ~up THEN {}
    ELSE {"brownoutPass"} \cup
         IF ~BrownoutCsvPathSet THEN {"brownoutCsv"}
         ELSE IF ~BrownoutLogPathSet THEN {"brownoutLog"}
         ELSE {}

\* logWater: the water-event reporter's boot event.
LogWater(up) == IF up THEN {"water"} ELSE {}

\* logOnce: logBrownout then logWater, each with its own stats service.
LogOnce(upB, upW) == LogBrownout(upB) \cup LogWater(upW)

(* logPerHour: MM metrics, zram stats, and the mitigation stats reporter   *)
(* when PowerMitigationStatsPath is empty.                                 *)
LogPerHour(up) ==
    {"perHour"} \cup
    IF ~up THEN {}
    ELSE {"mmHourly", "zram"} \cup
         IF ~MitigationStatsPathSet THEN {"mitigationStats"} ELSE {}

(* logPerDay: the boot stats while log_once_reported is unset, then every  *)
(* daily reporter. logBootStats sets the latch only when its atom was      *)
(* reported (bootOk: path set, mounted time read, boot properties set and  *)
(* reportVendorAtom succeeded).                                            *)
LogPerDay(up, bootOk, latch) ==
    {"perDay"} \cup
    IF ~up THEN {}
    ELSE {"daily"} \cup IF ~latch /\ bootOk THEN {"bootStats"} ELSE {}

(* The battery reporters of logPerDay: logBatteryEEPROM, then, after the  *)
(* health and TTF reporters (no state here), logBatteryHistoryValidation.  *)
(* Nothing runs when logPerDay found no stats service.                     *)
DailyBattery(e, up, upV, readOk) ==
    LET a == LogBatteryEEPROM(e, readOk)
        v == LogBatteryHistoryValidation(a.st, upV)
    IN IF up THEN [st |-> v.st, calls |-> a.calls \cup v.calls]
       ELSE [st |-> e, calls |-> {}]

(* The ghosts after a step of n wakes that made calls c: the wakes since   *)
(* the latest history report, and whether a validation row was reported,  *)
(* by a call that was not the first, since then (spec 4.13's "detected     *)
(* history-recovery event").                                               *)
BatteryGhosts(n, c) ==
    /\ sinceHist' = IF "eepromHistory" \in c THEN 0 ELSE AgeBy(sinceHist, n)
    /\ recovered' = \/ recovered /\ "eepromHistory" \notin c
                    \/ "validation" \in c /\ eeprom.lastHvSet

\* The boot stats latch and counter after a daily pass that made calls c.
BootReported(c) == "bootStats" \in c

\* Mutant: the counter is set to the read's count instead of growing by it.
WakeAddAssign(w, n) == n

\* wake_X += expire.count
WakeAdd(w, n) == w + n

\* Mutant: the counter is cleared instead of reduced modulo its period.
WakeReduceToZero(w, k) == IF w >= k THEN 0 ELSE w

\* Mutant: the period test is off by one.
WakeReduceOffByOne(w, k) == IF w > k THEN w % k ELSE w

\* if (wake_X >= kWakesPerX) wake_X %= kWakesPerX
WakeReduce(w, k) == IF w >= k THEN w % k ELSE w

-----------------------------------------------------------------------------
Init ==
    /\ pc = "start"
    /\ expirations = 0
    /\ wake5 = 0 /\ wakeHours = 0 /\ wakeDays = 0
    /\ logOnceReported = FALSE
    /\ calls = {}
    /\ \E hist \in BOOLEAN : eeprom = EEPROMInit(hist)
    /\ sinceHist = -1
    /\ recovered = FALSE

(* collect() up to the loop: timerfd_create, the 30 s sleep, the first     *)
(* aggregation, logOnce, logPerHour and logPerDay, then timerfd_settime.   *)
(* A failing timerfd_create returns at once; a failing settime returns     *)
(* after the boot pass.                                                    *)
Boot ==
    /\ pc = "start"
    /\ \/ /\ pc' = "stopped"
          /\ calls' = {"timerCreateFailed"}
          /\ UNCHANGED <<logOnceReported, eeprom, sinceHist, recovered>>
       \/ \E up \in [Passes -> BOOLEAN], bootOk, armed, readOk \in BOOLEAN :
            LET b == DailyBattery(eeprom, up["day"], up["validation"], readOk)
                c == {"aggregate"} \cup LogOnce(up["brownout"], up["water"])
                       \cup LogPerHour(up["hour"])
                       \cup LogPerDay(up["day"], bootOk, logOnceReported)
                       \cup b.calls
            IN /\ pc' = IF armed THEN "loop" ELSE "stopped"
               /\ calls' = c
               /\ eeprom' = b.st
               /\ BatteryGhosts(0, c)
               /\ logOnceReported' = (logOnceReported \/ BootReported(c))
    /\ UNCHANGED <<expirations, wake5, wakeHours, wakeDays>>

\* The timer expires; the kernel counts expirations until the next read.
Expire ==
    /\ pc = "loop"
    /\ expirations < MaxPending
    /\ expirations' = expirations + 1
    /\ calls' = {}
    /\ UNCHANGED <<pc, wake5, wakeHours, wakeDays, logOnceReported,
                   eeprom, sinceHist, recovered>>

\* The fuel gauge records a history entry or logs a learning or validation row.
FuelGauge(k) ==
    /\ eeprom' = FuelGaugeAfter(eeprom, k)
    /\ eeprom' # eeprom
    /\ calls' = {}
    /\ UNCHANGED <<pc, expirations, wake5, wakeHours, wakeDays, logOnceReported,
                   sinceHist, recovered>>

(* One iteration of the while loop: read() returns the expiration count   *)
(* (an EINTR retry changes nothing), each counter grows by it, and each    *)
(* pass whose counter reached its period runs after the counter is reduced *)
(* modulo the period. The "sleep too much" warnings test the counters as   *)
(* the code does: the daily one tests wake_hours after its reduction.      *)
ReadTimer ==
    /\ pc = "loop"
    /\ expirations > 0
    /\ \E up \in [{"hour", "day", "validation"} -> BOOLEAN], bootOk, readOk \in BOOLEAN :
        LET n == expirations
            w5 == WakeAdd(wake5, n)
            wh == WakeAdd(wakeHours, n)
            wd == WakeAdd(wakeDays, n)
            hourFires == wh >= WakesPerHour
            dayFires == wd >= WakesPerDay
            wh2 == WakeReduce(wh, WakesPerHour)
            hourCalls == IF hourFires THEN LogPerHour(up["hour"]) ELSE {}
            dayCalls == IF dayFires THEN LogPerDay(up["day"], bootOk, logOnceReported) ELSE {}
            aged == [eeprom EXCEPT !.reportAge = AgeBy(@, n)]
            b == IF dayFires THEN DailyBattery(aged, up["day"], up["validation"], readOk)
                 ELSE [st |-> aged, calls |-> {}]
            c == {"read"}
                 \cup (IF w5 >= WakesPer5Min THEN {"aggregate"} ELSE {})
                 \cup (IF hourFires /\ wh >= 2 * WakesPerHour THEN {"warnHour"} ELSE {})
                 \cup hourCalls
                 \cup (IF dayFires /\ wh2 >= 2 * WakesPerDay THEN {"warnDay"} ELSE {})
                 \cup dayCalls \cup b.calls
        IN /\ expirations' = 0
           /\ wake5' = WakeReduce(w5, WakesPer5Min)
           /\ wakeHours' = wh2
           /\ wakeDays' = WakeReduce(wd, WakesPerDay)
           /\ calls' = c
           /\ logOnceReported' = (logOnceReported \/ BootReported(c))
           /\ eeprom' = b.st
           /\ BatteryGhosts(n, c)
    /\ UNCHANGED pc

\* read() fails with an error other than EINTR: collect() returns.
ReadError ==
    /\ pc = "loop"
    /\ pc' = "stopped"
    /\ calls' = {"timerReadFailed"}
    /\ UNCHANGED <<expirations, wake5, wakeHours, wakeDays, logOnceReported,
                   eeprom, sinceHist, recovered>>

Next == Boot \/ Expire \/ ReadTimer \/ ReadError
        \/ \E k \in {"hist", "lh", "hv"} : FuelGauge(k)

(* The timer is a kernel timer and the loop is the daemon's only thread:  *)
(* both are weakly fair. A read error is not assumed to happen.            *)
Fairness == WF_vars(Expire) /\ WF_vars(ReadTimer) /\ WF_vars(Boot)

Spec == Init /\ [][Next]_vars /\ Fairness

-----------------------------------------------------------------------------
TypeOK ==
    /\ pc \in {"start", "loop", "stopped"}
    /\ expirations \in 0 .. MaxPending
    /\ wake5 \in 0 .. WakesPer5Min - 1
    /\ wakeHours \in 0 .. WakesPerHour - 1
    /\ wakeDays \in 0 .. WakesPerDay - 1
    /\ logOnceReported \in BOOLEAN
    /\ eeprom \in EEPROMStates

(* The hourly and daily counters never drift apart, however many          *)
(* expirations one read returns: the hour counter is the day counter       *)
(* modulo an hour, so every daily pass falls on an hourly pass.            *)
CountersAligned == wakeDays % WakesPerHour = wakeHours

(* logPerHour keeps running for as long as the collector lives.           *)
HourlyPassRecurs == []<>("perHour" \in calls \/ pc = "stopped")

(* Spec 4.13 and the configuration keys of section 6: a configured path  *)
(* is handed to its reporter. Every hourly pass that has the stats service *)
(* calls the mitigation stats reporter when PowerMitigationStatsPath is    *)
(* configured, and every logBrownout that has it calls the CSV reporter    *)
(* when BrownoutCsvPath is configured, or else the log reporter when       *)
(* BrownoutLogPath is. The boot pass and the timer loop both call them.    *)
ConfiguredPathsUsed ==
    [][/\ ("mmHourly" \in calls' /\ MitigationStatsPathSet) => "mitigationStats" \in calls'
       /\ ("brownoutPass" \in calls' /\ BrownoutCsvPathSet) => "brownoutCsv" \in calls'
       /\ ("brownoutPass" \in calls' /\ ~BrownoutCsvPathSet /\ BrownoutLogPathSet)
              => "brownoutLog" \in calls']_vars

(* Spec 4.13: the EEPROM history is reported at most once a month, except *)
(* that a detected history-recovery event forces the next report. Every    *)
(* checkAndReport of a daily pass returns at its "not upload time" test     *)
(* exactly when a history report was made less than a month of wakes ago   *)
(* and no recovery was reported since, across the timer's coalesced        *)
(* expirations and the validation that runs after it in the same pass.    *)
HistoryThrottleAsSpecified ==
    [][("eeprom" \in calls' /\ EEPROMPathSet) =>
        LET n == IF pc = "loop" THEN expirations ELSE 0
            due == sinceHist = -1 \/ sinceHist + n >= WakesPerMonth \/ recovered
        IN ("eepromThrottled" \in calls') = ~due]_vars
=============================================================================
