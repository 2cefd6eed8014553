# TLA+ models of the Pixel power HAL and pixelstats

This directory holds TLA+ specifications of parts of
`platform/hardware/google/pixel`, together with the TLC configurations that
check them. Each module is translated from the C++ under `src/`. PROJECT.json
maps every definition to the source lines it models, and lists the runs,
mutants, findings and hazards.

## 1. Inventory of the system

| Component | Source | State | Operations | Concurrency / hard behaviour |
|---|---|---|---|---|
| **ChannelManager** | `aidl/utils/ThermalStateListener.h` (ChannelManager.cpp, l.102-210), `aidl/ChannelManager.h` | `mChannelMap` ((tgid,uid) → groupId/offset), `mChannelGroups` (std::map by id), one mutex | `getChannelConfig` (→ `getOrCreateChannel`), `closeChannel`, `getGroupCount`, `getChannelCount` | Binder threads call it concurrently. `closeChannel` destroys an emptied group, and so joins its thread, while it holds the manager mutex. |
| **ChannelGroup** | `aidl/ChannelGroup.cpp`, header embedded in `aidl/SessionRecords.cpp` l.229-283 | 16 channel slots, `mLiveChannels`, `mDestructing`, group mutex, an event-flag word, a dispatch thread | constructor (starts the thread), destructor (`mDestructing`, wake all bits, join), `createChannel`, `removeChannel`, `getChannel`, `runChannelGroup` | The dispatch thread races binder threads. A static blocklist is shared by every group's thread. Wake bits are auto-cleared. |
| **SessionChannel** | `aidl/MetricUploader.cpp` l.116-162, `aidl/SessionChannel.h` | the FMQ and its read and write bits | constructor, getters | A client process writes to it. |
| **SessionRecords** | `aidl/SessionRecords.cpp` l.1-227, header in `ThermalStateListener.h` l.231-300 | ring of `CycleRecord`, max-deque, running sums and counters, rolling FPS window | `addReportedDurations`, `resetRecords`, getters, `isLowFrameRate`, `getLatestFPS` | Sequential, called by its session. Eviction and wrap-around, reset, integer division. |
| **FrameBuckets** | `libperfmgr/include/perfmgr/HintManager.h` l.199-253 | six counters | `updateFrameBuckets` (in SessionRecords), `addUpNewFrames`, `toString` | none |
| MetricUploader | `aidl/MetricUploader.cpp` l.17-115 | IStats connection | `init`, `uploadMetrics`, `reportAtom` | Binder I/O with reconnect-once. |
| ThermalStateListener | `aidl/utils/ThermalStateListener.h` l.17-100 | thermal service, cached status | `init`, callback | A callback thread. |
| HintManager | `HintManager.h` | (header only) | n/a | n/a |
| SupportManager | `src/unnamed/part_000` | none | `makeSupportInfo`, `*Supported` | Pure computation. |
| TaskRampupMultNode | `src/unnamed/part_001` | fd | `updateTaskRampupMult` | sysfs write |
| ThermalPredictionsHelper | `aidl/tests/ChannelGroupTest.cpp` l.470-747 | per-sensor ring of predictions, rwlock | register, `updateSensor`, `readSensor` | A reader/writer lock and ring indexes. |
| VirtualTempEstimator | `aidl/tests/ChannelGroupTest.cpp` l.768-1359, `src/unnamed/part_003` | model state, input history, mutex | `Initialize`, `Estimate`, `DumpTraces`, … | A mutex; numerics. |
| **SysfsCollector** (partly) | `pixelstats/SysfsCollector.cpp`, `src/unnamed/part_008` | wake counters, `log_once_reported`, `prev_data` (resume latency), the kernel counters it clears | `collect` (boot pass, timer loop), `logOnce`/`logPerHour`/`logPerDay`, ~80 `log*` reporters | One collector thread against a timerfd that coalesces expirations; the kernel counts while reporters read and clear. |
| Battery reporters (EEPROM, FG, FwUpdate) | `pixelstats/BatteryEEPROMReporter.cpp`, `BatteryFGReporter.h`, parts 004, 005, 007 | last-report times, per-event trigger times | `check*`, `report*` | Throttling by time; parsing. |
| **WaterEventReporter** | `pixelstats/WaterEventReporter.cpp` (two variants of `logEvent` and `logUevent`), `SysfsCollector.cpp` l.2316-2330 | none | `logEvent`, `logUevent`, `ueventDriverMatch`; `logBootEvent` via `logWater` | A uevent listener and the boot pass, each reading a sysfs subtree. |
| StatsHelper | `src/unnamed/part_006` | none | declarations | n/a |

How the parts interact:
- An app's session asks ChannelManager for a channel.
- ChannelManager places it in a ChannelGroup, whose dispatch thread reads the client's FMQ and calls the session: `reportActualWorkDuration`, `sendHint`, …
- The session feeds the durations to its SessionRecords, whose FrameBuckets are uploaded through MetricUploader.
- Separately, the pixelstats daemon runs SysfsCollector::collect on one thread. Its timer loop calls the 5-minute, hourly and daily passes, which read sysfs, report atoms to IStats and, for some counters, write back to the kernel to clear them.

## 2. Modules

### ChannelManager.tla (with MCChannelManager.tla)

This module covers ChannelManager, ChannelGroup and the state that SessionChannel holds.

- **Variables:**
  - The manager: `chanMap` and `groups`.
  - Each group: `slots`, `live`, `destructing`, `flagWord` (the write bits set in the event-flag word) and `thread` (the dispatch thread's program counter).
  - The dispatch thread's locals: `pending` (its local `flagState`).
  - The process: `blocklist` (static), plus `inserting`, the blocklist insertion in progress.
  - Each client: its FMQ `queue`.
  - Auxiliary counters: `sent`, `consumed` and `delivered`.
  - `joining`: the manager mutex held across the join in the destructor.
- **Actions:**
  - `GetChannelConfig`: getOrCreateChannel and createChannel.
  - `CloseChannel`: closeChannel and removeChannel. The group erase is split at the join, which is `JoinGroup`.
  - `ClientWrite`: a client's write plus the wake of its write bit.
  - The dispatch thread, in steps: `LoopHead`, `Wait`, `Lock`, `ScanChannel` (one bit of flagState with every `continue` path), `EndInsert` (blocklist insert) and `ScanEnd`.
  - The message loop, including its coalescing of workDuration runs, is the recursive operator `DispatchFrom`.
- **Abstractions:**
  - A message is a tag and a session id.
  - `isValid()` is true.
  - Session lookup succeeds.
  - A full queue blocks the writer; the write is disabled while the queue is full.
  - The read bit that the thread wakes is not modelled: no property is about the writer's wait.
  - `mDestructing` is read as its current value (see the hazards).
  - The scan's `!mDestructing` checks cannot see `true`: a group is destroyed only after its last `removeChannel`, which needs the group mutex the scan holds.
- **JoinCanReturn:** `closeChannel` joins the dispatch thread while holding the manager mutex, so a thread parked in `wait()` with no bit set would hang every manager call. The invariant says that during a join the group is destructing and its thread is never in `wait` with an empty flag word.
- **Fairness:** weak fairness for each dispatch thread and for the join. These are dedicated OS threads blocked only in `wait` and `join`. Clients and binder callers are not fair; they may stop.

### SessionRecords.tla (with MCSessionRecords.tla)

- **Variables:** `sr` (every member of SessionRecords) and `buckets` (the caller's FrameBuckets). The history variable `recentGaps` holds the start gaps of the last three frames reported since the last reset, marking a frame with no predecessor since then; it is not code state.
- **Actions:**
  - `AddReportedDurations(fs, target, compute)`: the whole loop, a fold of `AddOne` over the batch. `AddOne` is built from `EvictOldest`, `TrackFPSJitter`, the missed-cycle test, `UpdateFrameBuckets`, `PushMax` and the sum and average.
  - `ResetRecords`.
- **Queries:** `IsLowFrameRate(th)` is `isLowFrameRate` (l.151-165), with its conditional ring decrements. The double threshold `1000000.0 / th` is compared as `iv * th >= 1000000`, which is exact for integer `iv`. Nothing under `src/` calls it; the property below states what it answers.
- **Representation of times:** a frame is `[dur, gap]` in microseconds. `gap` is the difference of start timestamps that the code computes from `mLastStartTimeNs`, which is only used while `mNumOfFrames > 0`, so the abstraction is exact.
- **Representation of the double comparisons:**
  - The jitter test `iv > 1.4·sum/3` is checked as `15·iv > 7·sum`.
  - The missed test `dur > target·1.5` is checked as `2·dur > 3·target`.
  - The inputs are chosen away from ties, so rounding cannot matter.

- **Refinement:** SessionRecords implements the abstract `SessionWindow.tla` (below). Run session_records checks `ImplementsSessionWindow`, which is `Window!Spec` of an `INSTANCE SessionWindow WITH ...`.

### SessionWindow.tla (abstract, refined by SessionRecords)

This module says what SessionRecords promises its session, without the ring, the deque or the running sums.
- **Variables:** `window` is the last `MaxNumOfRecords` reported cycles, oldest first, each with its duration and its missed flag. The other three are the getter results `maxDuration`, `avgDuration` and `numOfMissedCycles`. An optional result (`std::optional`) is `{}` for nullopt and `{v}` for a value.
- **Actions:** `Add(ds, target)` appends a report and keeps the last `MaxNumOfRecords` cycles. `Reset` forgets the window.
- **Refinement mapping:**
  - `window` is the live ring records from the oldest to `mLatestRecordIndex`.
  - The getters map to `GetMaxDuration` (the deque front) and `GetAvgDuration` (the running sum over `mNumOfFrames`).
  - `numOfMissedCycles` maps to `mNumOfMissedCycles`.

### SysfsCollector.tla

This module covers `collect()` (l.2352-2433) and the passes it calls.
- **Variables:**
  - `pc`: before the loop, in the loop, or returned.
  - `expirations`: timer expirations not yet read.
  - The wake counters `wake5`, `wakeHours` and `wakeDays`.
  - The latch `logOnceReported`.
  - `calls`: the reporter calls of the latest step.
  - `eeprom`: the battery EEPROM reporter and the fuel gauge's side of it (see BatteryEEPROM below).
  - The ghosts `sinceHist` (wakes since the latest history report) and `recovered` (a recovery reported since then).
- **Actions:**
  - `Boot`: timerfd_create, the boot pass and settime, with their failures.
  - `Expire`: the kernel timer.
  - `ReadTimer`: one loop iteration. The counters grow by the count that `read` returns, then are reduced, and the passes and warnings follow, as the code orders them.
  - `ReadError`: collect() returns.
  - `FuelGauge(k)`: the fuel gauge records a history entry, or logs an FG-learning or history-validation row.
- **Abstractions:**
  - A pass is the set of reporter calls it makes (`LogOnce`, `LogPerHour`, `LogPerDay`), with the config-path branches of `logBrownout` and `logPerHour` as written.
  - The stats service and `logBootStats` succeed or fail nondeterministically.
- **Fairness:** weak fairness on `Expire`, `ReadTimer` and `Boot`. The timer is a kernel timer and the loop is the daemon's only thread. A read error is not assumed.

### BatteryEEPROM.tla (composed into SysfsCollector)

This module covers `BatteryEEPROMReporter` in the variant that the header (`part_007`) declares (`BatteryEEPROMReporter.cpp:650-1068`), and the two `SysfsCollector` wrappers that call it.
- **State:** a record.
  - `report_time_` is kept as `reportAge`: the wakes since it was set, saturated at a month, or -1 while it is 0.
  - Whether `last_lh_check_` and `last_hv_check_` are nonzero.
  - On the fuel gauge's side: whether the history holds a reportable entry, and whether each log holds rows newer than its watermark.
- **Operators:** each returns the new record and the calls made.
  - `CheckAndReport`: the throttle, the read and the report, which sets `report_time_`.
  - `CheckAndReportFGLearning` and `LogBatteryEEPROM`.
  - `CheckAndReportValidation`: it clears `report_time_` for a row read while `last_hv_check_` is nonzero.
  - `LogBatteryHistoryValidation`: it asks for the stats service first.
- **Composition:** `SysfsCollector`'s `DailyBattery` runs both in `logPerDay`'s order in every daily pass, after the timer's expirations have aged `report_time_`. A month is `WakesPerMonth` wakes: 8 in the run, two of its four-wake days.
- **Abstractions:**
  - The GMSR, max17201-history and model-loading reporters read a file and report atoms, with no state, and are not modelled.
  - Record decoding is reduced to whether an entry is reportable.
  - A pass is one step, so rows are read whole. The window between a watermark's clock read and its log read is modelled in BatteryFGAbnormality.

### ResumeLatency.tla (with MCResumeLatency.tla; composed into ClearOnReadStats)

This module covers `logVendorResumeLatencyStats` (l.1860-1958), the one daily reporter that keeps a snapshot between calls.
- **Variables:**
  - The kernel: `kCounts` (cumulative counts per bucket) and `kSum` (a uint64 sum, kept modulo `2^SumBits`).
  - `prev` stands for `prev_data`.
  - The ghosts: `lastAvg`, `oob`, `snap`, `reported` and `logged`.
- **Actions:**
  - `Resume(b)`: the kernel counts a resume.
  - `LogVendorResumeLatencyStats`: the whole call. That is the per-bucket deltas, or absolute counts when `bucket_cnt` changed; the average, with the unsigned `< 0` test that cannot be true; and the snapshot, stored before the report.
- **Undefined behaviour:** `prev_data` has no initialiser and the constructor sets none, so Init draws its scalars from `PrevSumInit`, `PrevCountInit` and `PrevCntInit`. When `bucket_cnt` matches but the vector is empty, the loop reads and writes past its end; the read yields any value (`junk`).

### ClearOnReadStats.tla (with MCClearOnReadStats.tla)

This module covers the six daily reporters that clear kernel counters after reading them. logPerDay calls them in this order on the collector thread:
1. `logF2fsAtomicWriteInfo`
2. `logF2fsCompressionInfo`
3. `logF2fsGcSegmentInfo` (via `getReclaimedSegments`)
4. `logSlowIO` (via `reportSlowIoFromFile`)
5. `logVendorLongIRQStatsReported`
6. `logVendorResumeLatencyStats` (ResumeLatency, composed)
7. `logPcieLinkStats`

- **Composition:** `RL == INSTANCE ResumeLatency WITH ...` with `prev_data` zeroed. The host declares ResumeLatency's variables, so `RL!Resume(b)` is a kernel step and `ResumeStats` runs `RL!LogVendorResumeLatencyStats` (or its early return) at its place in the daily chain. Resumes share the kernel event budget with the other counters.

- **Variables:**
  - `k`: the kernel count per counter file.
  - `pc = [fn, i, at]`: the reporter, its loop index, and its step.
  - `val` and `pcieAny`: the reporter's locals, which are dropped on `Return`.
  - The ghosts: `total`, `sent`, `irqDelivered`, `irqLost` and `writeFailed`.
- **Actions:**
  - `Event(c)`: the kernel counts.
  - `DailyPass`.
  - `F2fsRead`, `F2fsWrite` and `F2fsReport`: read, write "0", return at the first failure.
  - `ComprRead`, `ComprWrite` and `ComprReport`: the same, except that `compr_written_block` is only read.
  - `GcMode`, `GcRead`, `GcWrite` and `GcReport`: per GC mode, select it, read and write "0"; return at the first failure.
  - `SlowIoRead` and `SlowIoClear`: report when positive, clear even when the parse failed.
  - `IrqCollect`, `IrqReport` and `IrqReset`: the reset happens whatever the report did.
  - `PcieRead`, `PcieWrite` and `PcieReport`: write the value back, and report if any read succeeded.
- **Driver semantics:** these belong to the drivers, outside this repository, and are constants or abstractions of the model.
  - What the PCIe driver does with a written-back value is the constant `ClearBySubtract`: subtract when TRUE, reset when FALSE.
  - Whether a "0" written to `compr_saved_block` also resets `compr_written_block` is `ComprJointReset`. The code relies on it: with FALSE, NoDoubleReport fails on `compr_written_block`.
  - `gc_segment_mode` selects which per-mode counter `gc_reclaimed_segments` reads and resets, so a counter per mode stands for it.

### WaterEvent.tla (with MCWaterEvent.tla)

This module covers both `logEvent` variants of `WaterEventReporter.cpp` (int codes, l.69-162; text prefixes with thresholds, l.260-364), `logUevent`, and the boot event that `logOnce` makes through `logWater` (`SysfsCollector.cpp` l.2316-2330).
- **Variables:** `bootDone` (the roots the boot event has reported) and `reports` (the atoms sent, with the files they were read from).
- **Actions:** `BootEvent(r)` and `Uevent`. Each picks whether the root exists and the contents of its files, then sends the atom `LogEventValues` builds. `logUevent`'s failed split returns with no effect and is a stutter.
- **Data:** a file's contents are a token (`"absent"`, a number, or a word); `Text` gives the characters that `compare(0, n, lit)` looks at, so `compare(0, 3, "invl")` is modelled by what it does and never matches. The atom is a function from field names to values, built by applying the code's field writes in order (`IntUpdates`, `StringUpdates`, `Apply`), so a later write to the same field wins as it does in the vector.
- **Observed in the string variant and not checked by a run:** the wet test lacks its `!`, so every state that is not "dry" reads as WET; `"invl"` never matches; every threshold is written to `kReferenceThresholdMvFieldNumber`.

### BatteryFGAbnormality.tla (with MCBatteryFGAbnormality.tla)

Models `BatteryFGReporter::checkAndReportFGAbnormality` and `reportFGEvent` (`src/unnamed/part_005:48-193`).
- **State:** the clock `now`, the fuel gauge's log buffer `log` (rows of timestamp, event and state), `last_ab_check_` as `lastAbCheck`, `ab_trigger_time_` as `abTriggerTime`, and the call's `boot_time` as `bootTime`. The ghost `times` counts the atoms each row reached.
- **Actions:**
  - `Tick` is the clock, and `LogRow(e)` is the fuel gauge logging the next trigger or clear of event `e`.
  - `ClockGettime`: the call reads `CLOCK_MONOTONIC`.
  - `ReadLogbuffer`: readLogbuffer, then `reportFGEvent` on each row in order (a `FoldLeft` of `TriggerAfter`), then `last_ab_check_` set to the seconds read first.
- **readLogbuffer** is only declared in this repository (`part_006:78`). `NewRows` models it from spec 4.17: the rows newer than the watermark, in log order.
- **Clocks:** the driver's timestamps, `CLOCK_MONOTONIC` and `CLOCK_BOOTTIME` are one clock of whole seconds. The code compares them as if they were, so this is the most favourable reading.

## 3. Runs

| Run | Config | Checks | Result |
|---|---|---|---|
| channel_manager | ChannelManager.cfg | TypeOK, ChannelDirectoryConsistent, JoinCanReturn, MessagesEventuallyRead, no deadlock | pass, 182,833 states |
| channel_manager_skip | ChannelManagerSkip.cfg | DeliveredAsRead | violation: finding 1 |
| channel_manager_blocklist | ChannelManagerBlocklist.cfg | BlocklistWritesExclusive | violation: finding 2 |
| session_records | SessionRecords.cfg | TypeOK, MaxDurationIsMax, AggregatesMatchRecords, LowFrameRateOverLastThree, ImplementsSessionWindow | pass, 242,605 states |
| session_records_fps_tracking | SessionRecordsFPSTrackingMatchesRecords.cfg | FPSTrackingMatchesRecords | violation: findings 3, 4 |
| sysfs_collector | SysfsCollector.cfg | TypeOK, CountersAligned, HourlyPassRecurs, HistoryThrottleAsSpecified | pass, 40,264 states |
| sysfs_collector_paths | SysfsCollectorConfiguredPathsUsed.cfg | ConfiguredPathsUsed | violation: findings 5, 6 |
| resume_latency_prev_data | ResumeLatencyReportWellDefined.cfg | ReportWellDefined | violation: findings 7, 8 |
| clear_on_read_stats | ClearOnReadStats.cfg | TypeOK, NoDoubleReport, ReportedBucketsTelescope, AverageOfNewResumes, no deadlock | pass, 192,644 states |
| clear_on_read_stats_irq_reset | ClearOnReadStatsIrqResetAfterReport.cfg | IrqResetAfterReport | violation: finding 9 |
| battery_fg_watermark | BatteryFGAbnormality.cfg | EachRowReportedOnce | violation: finding 10 |
| water_event_sensor_states | WaterEventSensorStates.cfg | SensorStatesReported | violation: finding 11 |

What the passing runs show:
- **session_records:** the ring keeps exactly the last `MaxNumOfRecords` cycles in report order, and its getters report that window, across wrap-around and resets. This is the refinement of SessionWindow. `isLowFrameRate(25)` is true exactly when the last three frames since the last reset each started at least 40 ms after their predecessor, the long gap meeting the threshold exactly.
- **channel_manager:** besides the directory invariant and the liveness of reads, a join in `closeChannel` can always return: the destructor's wake reaches a thread parked in `wait()`.
- **sysfs_collector:** the hour counter stays the day counter modulo an hour, however many expirations one read returns. The hourly pass recurs until collect() returns. The EEPROM history check is throttled exactly when a history report was made less than a month of wakes ago and no recovery was reported since (spec 4.13). This holds when one read returns days of expirations, and when a validation in the same pass reports a recovery after the history check. Deadlock is not checked here, because collect() does return after a timer error.
- **clear_on_read_stats:** no count reaches two accepted atoms unless a clearing write failed whose failure is only logged. This holds however the kernel's events interleave with the reads, the clears and the early returns of the six reporters. With `prev_data` zeroed, the resume-latency bucket values of all atoms add up to the kernel's counts (each resume is reported once), and each average is the mean of the resumes since the previous call, or -1, however the resumes fall between the daily passes.

### Bounds

**channel_manager:**
- Three clients: c2 and c3 share a uid, and c3's reads may fail.
- Two slots per group, group ids 0..1, one message per client.
- These bounds fill a group, open a second, empty and destroy either one while the other lives, reuse freed slots, and blocklist a uid shared by a healthy client.
- Each of these needs at most three clients and two groups.

**session_records:**
- A ring of 4, batches of up to 2 frames, at most 6 frames in a behaviour, durations 8/16/26 ms against a 10 ms target, and gaps 16/40 ms.
- Eviction and wrap-around happen within the bound, and the deque holds several indexes and pops from both ends.

**sysfs_collector:**
- The periods are 1/2/4 wakes instead of 1/12/288, with the ratio hour:day kept as a divisor.
- A read may return up to 9 expirations, more than two days.
- Every property depends only on the counters modulo their periods and on how many periods a read crosses, so small periods show every case: no boundary, one hour, several hours, one day, two days.
- A month is 8 wakes, two days. A daily pass within the month is then throttled, one read can cross the month boundary, and a recovery can be reported on the first day after a report.

**resume_latency_prev_data** (and the resume part of clear_on_read_stats):
- Two buckets with latencies 1 and 3 ms, at most 4 resumes, and a 5-bit sum, so the unsigned wrap can happen.
- Each call is either the first one, a call with new resumes, or a call with none. In clear_on_read_stats resumes share the two kernel events, so there are at most two.

**clear_on_read_stats:**
- Two files (or GC modes) for each looping reporter, and both PCIe roots. Two files are enough to reach every loop's next-iteration step and a failure after an earlier clear.
- Two kernel events in all. They can fall on one counter before its read and between its read and its clear, or before and after a clear, or on two counters. Every way a count can be reported twice or lost needs at most two events on one counter. Three events take the run past five minutes.
- The driver resets on write (`ClearBySubtract = FALSE`). With subtraction, a write-back removes exactly what was read and the property is easier.

**battery_fg_watermark:**
- One event type, a clock up to 3 s, and at most 3 rows.
- A row logged in the second of a clock read, before or after the read of the log, and a second passing between the clock read and the log read: all fit in these bounds.

**water_event_sensor_states:**
- One root; sensor files reading 0 (dry), 1 (wet) or nothing; the other files fixed; two atoms. Two sensors with different readable states are what the table's shared field needs.

### Fairness

- **ChannelManager:** each dispatch thread and each join is weakly fair.
- **SysfsCollector:** the timer and the loop thread are weakly fair.
- The other modules state only safety properties and assume no fairness.

### Findings

The collector's daily "sleep too much" warning tests `wake_hours` after it was reduced below an hour (`SysfsCollector.cpp:2427`), so it can never fire. The model reproduces this, but no run checks it: it is a log line with no effect on any atom. A read that returns several hours of expirations runs logPerHour once. That is the modulo wrap spec 4.13 describes, so it is not a finding.


1. **Skipped message** (`ChannelGroup.cpp:183`). After a run of workDuration messages, the outer `++messageIndex` skips the message that follows the run.
2. **Blocklist data race** (`ChannelGroup.cpp:121,156`). The static blocklist is modified by several groups' threads under different mutexes. It is also process-wide, not per group.
3. **Stale jitter count** (`SessionRecords.cpp:167-175`). resetRecords does not clear the FPS-jitter count.
4. **Stale rolling window** (`SessionRecords.cpp:167-175`). resetRecords does not clear the rolling start-interval window, which then subtracts intervals of discarded records.
5. **Mitigation stats path inverted** (`SysfsCollector.cpp:2343`). logMitigationStatsPerHour is called only when PowerMitigationStatsPath is empty, and then with the empty path. The run's trace is the boot pass: logPerHour has the stats service, the path is configured, and the reporter is not called.
6. **Brownout paths inverted** (`SysfsCollector.cpp:2308-2312`). logBrownoutCsv and logBrownout are called only when their path is empty. The run's first trace is finding 5. With PowerMitigationStatsPath unset, the same property fails at the boot pass: BrownoutCsvPath is configured, and logBrownout is called with the unset BrownoutLogPath.
7. **Uninitialised prev_data** (`SysfsCollector.cpp:1923`, `part_008:128-134`). If the garbage `bucket_cnt` equals the kernel's bucket count, the first call indexes an empty vector.
8. **Unsigned guard** (`SysfsCollector.cpp:1937`). `sum_latency - prev_sum < 0` is unsigned and never true. A larger previous sum wraps to a negative average, which spec 4.13 says is guarded.
9. **IRQ reset after a failed report** (`SysfsCollector.cpp:2073`). The long-IRQ counters are reset whether or not the report succeeded, and IRQs counted after the read are cleared too. Spec 4.13 says "after a successful report".
10. **Abnormality watermark** (`part_005:179,192`). checkAndReportFGAbnormality reads the clock before it reads the log and stores those whole seconds as `last_ab_check_`. A row logged later in the same second is never reported. If a second passes between the two reads, the next call reports the rows stamped after the clock read again. Spec 4.17 says only rows newer than the watermark are returned, and spec 4.13 says each decoded record is one atom.

11. **sensor2 reported as sensor1** (`WaterEventReporter.cpp:120`, `:313-314`). The `sensors[]` table pairs sensor2 with sensor1's state field, so sensor2's state overwrites sensor1's and sensor2's field stays 0. Spec 4.16 says the atom carries the reference and three numbered sensors.

Every property of a passing run has a mutant in PROJECT.json: a plausible slip in the mapped code that TLC shows the property catches.

## 4. Plan for the rest of the project

All twelve runs are in use. A new component needs either a slot freed or a composition with an existing run.
1. **ThermalPredictionsHelper:** the ring of predictions under a reader/writer lock.
2. **SessionRecords:** nonpositive gaps.
3. **WaterEvent:** a run of the string variant, with a reference decoding of the driver's words.

## 5. Not modelled

The following are left out:
- binder and IStats I/O, and sysfs reads and writes beyond the counters above;
- formatting and parsing (`toString`, atom packing, the text formats of the long-IRQ, PCIe and battery files). Each is a read followed by an atom, with no state kept between calls, so a model would restate its I/O;
- TFLite inference numerics;
- HintManager (there is only a header);
- the speaker-health reporter's reads of uninitialised floats (`SysfsCollector.cpp:425`): a per-call parse with no state, listed as a hazard;
- ThermalStateListener. Its one piece of state is an atomic severity written by a callback; the spec says a stale value after a HAL restart is tolerated, so no property is at stake.

The reasons are given per component in PROJECT.json.
