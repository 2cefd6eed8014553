----------------------------- MODULE WaterEvent -----------------------------
(***************************************************************************)
(* WaterEventReporter: at boot (logOnce -> logWater -> logBootEvent) and  *)
(* on each h2omg uevent (logUevent), logEvent reads a water-sensor sysfs   *)
(* subtree and sends one WaterEventReported atom: the event point, the    *)
(* fuse state, the fuse and fault circuit flags, and per sensor of        *)
(* reference, sensor0, sensor1, sensor2 its state, read from boot_value   *)
(* at boot and from latched_value on an interrupt.                        *)
(*                                                                         *)
(* The file has two logEvent variants. Format "int" is the one whose      *)
(* kNumOfWaterEventAtomFields the header declares: fuse and sensor states *)
(* are integer codes. Format "string" matches text prefixes and also      *)
(* reports each sensor's threshold.                                       *)
(*                                                                         *)
(* A file's contents are a token: "absent" (ReadFileToString fails),      *)
(* "junk" (no integer to scan), or the text the driver wrote. Atom fields *)
(* hold the enum names; "0" is the vector's initial 0.                    *)
(***************************************************************************)
EXTENDS Naturals, Sequences, SequencesExt

CONSTANTS
    Format,          \* "int" or "string": the logEvent variant built
    Roots,           \* the configured WaterEventPaths
    Readings,        \* the tokens a sensor state file may hold
    FuseReadings,    \* the tokens fuse/status may hold
    FlagReadings,    \* the tokens fuse/enable and fault/enable may hold
    ThresholdReadings, \* the tokens a sensor's threshold file may hold
    MaxReports       \* bound on the atoms of a behaviour

ASSUME Format \in {"int", "string"} /\ MaxReports \in Nat

\* The sensors[] table: the subdirectory and the state field it fills.
Sensors == <<"reference", "sensor0", "sensor1", "sensor2">>
StateField == [s \in {"reference", "sensor0", "sensor1", "sensor2"} |->
                 IF s = "sensor2" THEN "sensor1State" ELSE s \o "State"]

Fields == {"collectionEvent", "fuseState", "fuseEnabled", "faultEnabled",
           "referenceState", "sensor0State", "sensor1State", "sensor2State",
           "referenceThresholdMv", "sensor0ThresholdMv", "sensor1ThresholdMv",
           "sensor2ThresholdMv"}

\* The text behind a token, as characters.
Text == ("open" :> <<"o", "p", "e", "n", "\n">>) @@ ("short" :> <<"s", "h", "o", "r", "t", "\n">>)
     @@ ("dry" :> <<"d", "r", "y", "\n">>) @@ ("wet" :> <<"w", "e", "t", "\n">>)
     @@ ("invl" :> <<"i", "n", "v", "l", "\n">>) @@ ("dis" :> <<"d", "i", "s", "\n">>)
     @@ ("junk" :> <<"?", "\n">>) @@ ("0" :> <<"0", "\n">>) @@ ("1" :> <<"1", "\n">>)
     @@ ("2" :> <<"2", "\n">>) @@ ("3" :> <<"3", "\n">>) @@ ("1200" :> <<"1", "2", "0", "0", "\n">>)

\* The integer sscanf("%d") reads from a token, for the tokens that have one.
IntOf == ("0" :> 0) @@ ("1" :> 1) @@ ("2" :> 2) @@ ("3" :> 3) @@ ("1200" :> 1200)

SensorNames == {"reference", "sensor0", "sensor1", "sensor2"}

(* What logEvent reads under a root: f.sensor[s] is the state file the     *)
(* event point selects (boot_value at boot, latched_value on an IRQ).      *)
Files == [fuseStatus : FuseReadings, fuseEnable : FlagReadings, faultEnable : FlagReadings,
          sensor : [SensorNames -> Readings], threshold : [SensorNames -> ThresholdReadings]]

VARIABLES
    bootDone, \* the roots logBootEvent has reported
    reports   \* the atoms sent: <<[point, files, atom], ...>>

vars == <<bootDone, reports>>

-----------------------------------------------------------------------------
\* readFileToInt: the file is read and an integer scanned from it.
ReadsInt(c) == c \in DOMAIN IntOf

(* std::string::compare(0, n, lit) == 0: the first n characters of the     *)
(* contents are the whole literal.                                         *)
Compare0(c, n, lit) ==
    LET t == Text[c]
    IN SubSeq(t, 1, IF n < Len(t) THEN n ELSE Len(t)) = lit

\* The int variant's switch on fuse/status.
FuseStateInt(v) == CASE v = 1 -> "BLOWN" [] v = 0 -> "INTACT" [] OTHER -> "FUSE_STATE_UNKNOWN"

\* The int variant's switch on a sensor state.
SensorStateInt(v) ==
    CASE v = 0 -> "DRY" [] v = 1 -> "WET" [] v = 2 -> "DISABLED" [] v = 3 -> "INVALID"
      [] OTHER -> "SENSOR_STATE_UNKNOWN"

\* The string variant's tests on fuse/status.
FuseStateString(c) ==
    IF Compare0(c, 4, <<"o", "p", "e", "n">>) THEN "BLOWN"
    ELSE IF Compare0(c, 5, <<"s", "h", "o", "r", "t">>) THEN "INTACT"
    ELSE "FUSE_STATE_UNKNOWN"

(* The string variant's tests on a sensor state, in their order; an        *)
(* unknown state skips the threshold ("continue").                         *)
SensorStateString(c) ==
    IF Compare0(c, 3, <<"d", "r", "y">>) THEN "DRY"
    ELSE IF ~Compare0(c, 3, <<"w", "e", "t">>) THEN "WET"
    ELSE IF Compare0(c, 3, <<"i", "n", "v", "l">>) THEN "INVALID"
    ELSE IF Compare0(c, 3, <<"d", "i", "s">>) THEN "DISABLED"
    ELSE "SENSOR_STATE_UNKNOWN"

Circuit(v) == IF v # 0 THEN "CIRCUIT_ENABLED" ELSE "CIRCUIT_DISABLED"

\* A field update when cond holds, none otherwise.
Opt(cond, field, v) == IF cond THEN <<<<field, v>>>> ELSE <<>>

\* Apply the field updates upd (a sequence of <<field, value>>) in order.
RECURSIVE Apply(_, _)
Apply(vals, upd) ==
    IF upd = <<>> THEN vals
    ELSE Apply([vals EXCEPT ![Head(upd)[1]] = Head(upd)[2]], Tail(upd))

(* The int variant's updates: fuse/status, fuse/enable and fault/enable    *)
(* when readFileToInt succeeds, then the sensors[] loop, skipping a       *)
(* sensor whose file does not read as an integer.                          *)
IntUpdates(f) ==
    FlattenSeq(<<Opt(ReadsInt(f.fuseStatus), "fuseState", FuseStateInt(IntOf[f.fuseStatus])),
                 Opt(ReadsInt(f.fuseEnable), "fuseEnabled", Circuit(IntOf[f.fuseEnable])),
                 Opt(ReadsInt(f.faultEnable), "faultEnabled", Circuit(IntOf[f.faultEnable]))>>
               \o [i \in 1 .. 4 |-> Opt(ReadsInt(f.sensor[Sensors[i]]), StateField[Sensors[i]],
                                        SensorStateInt(IntOf[f.sensor[Sensors[i]]]))])

(* The string variant's updates: fuse/status when ReadFileToString         *)
(* succeeds, the two flags, then per sensor with a readable file its      *)
(* state and, unless the state is unknown, the threshold, which is written *)
(* to kReferenceThresholdMvFieldNumber whatever the sensor.                *)
StringUpdates(f) ==
    LET sensorFile(s) == f.sensor[s]
        sensor(s) ==
            LET st == SensorStateString(sensorFile(s))
            IN IF sensorFile(s) = "absent" THEN <<>>
               ELSE <<<<StateField[s], st>>>>
                    \o Opt(st # "SENSOR_STATE_UNKNOWN" /\ ReadsInt(f.threshold[s]),
                           "referenceThresholdMv", f.threshold[s])
    IN FlattenSeq(<<Opt(f.fuseStatus # "absent", "fuseState", FuseStateString(f.fuseStatus)),
                    Opt(ReadsInt(f.fuseEnable), "fuseEnabled", Circuit(IntOf[f.fuseEnable])),
                    Opt(ReadsInt(f.faultEnable), "faultEnabled", Circuit(IntOf[f.faultEnable]))>>
                  \o [i \in 1 .. 4 |-> sensor(Sensors[i])])

(* logEvent's values for the files f of a root that exists: zeroes, the   *)
(* event point, then each readable file's field, in the code's order.      *)
LogEventValues(point, f) ==
    LET upd == IF Format = "int" THEN IntUpdates(f) ELSE StringUpdates(f)
    IN Apply([x \in Fields |-> IF x = "collectionEvent" THEN point ELSE "0"], upd)

(* logEvent: a root that fileExists() rejects is only logged; otherwise    *)
(* one atom, whose reportVendorAtom failure is only logged.                *)
LogEvent(point, exists, f) ==
    /\ Len(reports) < MaxReports
    /\ reports' = IF exists
                  THEN Append(reports, [point |-> point, files |-> f, atom |-> LogEventValues(point, f)])
                  ELSE reports

-----------------------------------------------------------------------------
Init ==
    /\ bootDone = {}
    /\ reports = <<>>

(* logOnce -> logWater -> logBootEvent: logEvent(BOOT) for the root r of  *)
(* WaterEventPaths (without a stats service logWater returns, which sends *)
(* no atom, as a root that does not exist does).                           *)
BootEvent(r) ==
    /\ r \notin bootDone
    /\ \E exists \in BOOLEAN, f \in Files : LogEvent("BOOT", exists, f)
    /\ bootDone' = bootDone \cup {r}

(* logUevent for a matching uevent: the devpath splits on "=" into two     *)
(* parts (otherwise it returns), and logEvent(IRQ) reads "/sys" + the      *)
(* second part, which may name no existing root.                           *)
Uevent ==
    /\ \E exists \in BOOLEAN, f \in Files : LogEvent("IRQ", exists, f)
    /\ UNCHANGED bootDone

Next == (\E r \in Roots : BootEvent(r)) \/ Uevent

Spec == Init /\ [][Next]_vars

-----------------------------------------------------------------------------
TypeOK ==
    /\ bootDone \subseteq Roots
    /\ \A i \in DOMAIN reports : reports[i].atom \in [Fields -> STRING \cup Nat]

\* A sensor file whose state logEvent uses.
Readable(c) == IF Format = "int" THEN ReadsInt(c) ELSE c # "absent"

(* A sensor state as the atom's SensorState enum names it: the driver's    *)
(* code for the int format, the state's name for the string format.        *)
SpecSensorState(c) ==
    IF Format = "int" THEN SensorStateInt(IntOf[c])
    ELSE CASE Compare0(c, 3, <<"d", "r", "y">>) -> "DRY"
           [] Compare0(c, 3, <<"w", "e", "t">>) -> "WET"
           [] Compare0(c, 4, <<"i", "n", "v", "l">>) -> "INVALID"
           [] Compare0(c, 3, <<"d", "i", "s">>) -> "DISABLED"
           [] OTHER -> "SENSOR_STATE_UNKNOWN"

(* Spec 4.16: each atom carries the states of the reference and the three  *)
(* numbered sensors, each in its own field: every sensor whose state file *)
(* logEvent could read has that state in its field of the atom.            *)
SensorStatesReported ==
    \A i \in DOMAIN reports, s \in SensorNames :
        LET c == reports[i].files.sensor[s]
        IN Readable(c) => reports[i].atom[s \o "State"] = SpecSensorState(c)
====
