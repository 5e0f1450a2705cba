------------------------------- MODULE Bh1750 -------------------------------
(***************************************************************************)
(* The BH1750 ambient light driver of tosca-drivers (src/bh1750.rs) on an *)
(* I2C bus whose transactions may fail, against the sensor it drives.     *)
(*                                                                         *)
(* The driver keeps mtreg and continuous_resolution; every method takes   *)
(* &mut self, so calls are sequential and each is one step here, with the *)
(* outcome of each of its I2C transactions chosen from I2cOutcomes.  A    *)
(* write that fails does not reach the sensor.                             *)
(*                                                                         *)
(* The sensor is the environment: its power state, measurement mode, the  *)
(* MTreg register (written in two halves, MTREG_HIGH and MTREG_LOW) and    *)
(* its data register.  A measurement is stamped with the resolution and   *)
(* MTreg it was made with and a sequence number n, so a reading can be    *)
(* compared with what the sensor measured.  A one-time measurement powers *)
(* the sensor down when it completes (doc of one_time_measurement); in     *)
(* continuous mode a cycle completes between two calls of the driver.      *)
(***************************************************************************)
EXTENDS Naturals, Bitwise

CONSTANTS
    MtregInputs,    \* u8 values the caller passes to set_mtreg
    I2cOutcomes,    \* outcomes of one I2C transaction: "ok", "error"
    MaxCalls        \* bound: driver calls

Resolutions == {"High", "High2", "Low"}     \* enum Resolution
None == "none"

POWER_DOWN == 0
POWER_ON == 1
RESET == 7
MTREG_HIGH == 64        \* 0x40
MTREG_LOW == 96         \* 0x60
MTREG_MIN == 31
MTREG_MAX == 254
DEFAULT_MTREG == 69

(* Resolution::continuous_measurement_opcode and one_time_measurement_opcode *)
ContinuousOpcode == [High |-> 16, High2 |-> 17, Low |-> 19]
OneTimeOpcode == [High |-> 32, High2 |-> 33, Low |-> 35]

(* Resolution::default_measurement_time_ms                                 *)
DefaultTimeMs == [High |-> 120, High2 |-> 120, Low |-> 16]

VARIABLES
    mtreg,                  \* Bh1750.mtreg
    continuousResolution,   \* Bh1750.continuous_resolution, or None
    sensor,                 \* [power, mode, res, mt, n, data]
    reading,                \* the last Ok reading, or NoReading
    last,                   \* the last call: [op, arg, ok]
    calls                   \* driver calls made

vars == <<mtreg, continuousResolution, sensor, reading, last, calls>>

Zero == [res |-> None, mt |-> 0, n |-> 0]       \* a cleared data register
NoReading == [kind |-> None]

-----------------------------------------------------------------------------
(* The sensor (environment)                                                *)

(* The measurement the sensor is making.                                   *)
Current(s) == [res |-> s.res, mt |-> s.mt, n |-> s.n]

OpcodeRes(op, instr) == CHOOSE r \in Resolutions : op[r] = instr

(* The sensor executes a write: power down/on, reset (ignored while      *)
(* powered down), one MTreg half, or a measurement instruction; it       *)
(* ignores other opcodes.                                                    *)
Apply(s0, instr) ==
    LET s == IF s0.mode = "continuous"
             THEN [s0 EXCEPT !.data = Current(s0)] ELSE s0
    IN  CASE instr = POWER_DOWN -> [s EXCEPT !.power = "down", !.mode = "idle"]
          [] instr = POWER_ON   -> [s EXCEPT !.power = "on"]
          [] instr = RESET      -> IF s.power = "on"
                                   THEN [s EXCEPT !.data = Zero] ELSE s
          [] instr \in MTREG_HIGH..(MTREG_HIGH + 7) ->
                [s EXCEPT !.mt = ((instr & 7) * 32) + (@ & 31)]
          [] instr \in MTREG_LOW..(MTREG_LOW + 31) ->
                [s EXCEPT !.mt = (@ - (@ & 31)) + (instr & 31)]
          [] \E r \in Resolutions : ContinuousOpcode[r] = instr ->
                [s EXCEPT !.power = "on", !.mode = "continuous", !.n = @ + 1,
                          !.res = OpcodeRes(ContinuousOpcode, instr)]
          [] \E r \in Resolutions : OneTimeOpcode[r] = instr ->
                [s EXCEPT !.power = "on", !.mode = "one_time", !.n = @ + 1,
                          !.res = OpcodeRes(OneTimeOpcode, instr)]
          [] OTHER -> s

-----------------------------------------------------------------------------
(* The driver                                                              *)

Call == calls < MaxCalls /\ calls' = calls + 1

(* send_instruction: one I2C write; a failed write does not reach it.     *)
Send(s, instr, outcome) == IF outcome = "ok" THEN Apply(s, instr) ELSE s

(* measurement_time_ms: default_time * mtreg / DEFAULT_MTREG, in u32.     *)
MeasurementTimeMs(res, mt) == (DefaultTimeMs[res] * mt) \div DEFAULT_MTREG

(* The delay of the driver outlasts the measurement of the sensor, whose  *)
(* typical time is default_time * MTreg / 69 ms exactly (the docs of      *)
(* Resolution and the formula in measurement_time_ms), not floored: both  *)
(* sides are multiplied by DEFAULT_MTREG to compare them in integers.      *)
Covered(res, s) ==
    MeasurementTimeMs(res, mtreg) * DEFAULT_MTREG >= DefaultTimeMs[res] * s.mt

(* read_raw after the delay: the measurement, or while it is not complete *)
(* the previous content of the data register.                              *)
ReadData(res, s) ==
    IF Covered(res, s) THEN {Current(s)} ELSE {Current(s), s.data}

(* raw_to_lux scales by res and the driver's mtreg: the reading records   *)
(* them with the data it converts.                                         *)
Reading(kind, res, d) == [kind |-> kind, res |-> res, mt |-> mtreg, data |-> d]

Done(op, arg, ok) == last' = [op |-> op, arg |-> arg, ok |-> ok]

(* power_on, power_down, reset: one instruction each.                      *)
Instruction(op, instr) ==
    /\ Call
    /\ \E o \in I2cOutcomes :
          /\ sensor' = Send(sensor, instr, o)
          /\ Done(op, None, o = "ok")
    /\ UNCHANGED <<mtreg, continuousResolution, reading>>

PowerOn == Instruction("power_on", POWER_ON)
PowerDown == Instruction("power_down", POWER_DOWN)
Reset == Instruction("reset", RESET)

(* Mutation: the MTreg is split at bit 4 instead of bit 5.                 *)
MtregHighAtBit4(mt) == MTREG_HIGH | shiftR(mt, 4)

(* set_mtreg: the high half, MTREG_HIGH | (mt >> 5).                       *)
MtregHigh(mt) == MTREG_HIGH | shiftR(mt, 5)

(* set_mtreg: the low half, MTREG_LOW | (mt & 0x1F).                       *)
MtregLow(mt) == MTREG_LOW | (mt & 31)

(* Mutation: the value is only bounded above.                             *)
ClampMaxOnly(v) == IF v > MTREG_MAX THEN MTREG_MAX ELSE v

(* u8::clamp(MTREG_MIN, MTREG_MAX)                                         *)
Clamp(v) == IF v < MTREG_MIN THEN MTREG_MIN
            ELSE IF v > MTREG_MAX THEN MTREG_MAX ELSE v

(* set_mtreg: both halves are written before self.mtreg is updated; the   *)
(* `?` after each write returns at the first failure.                      *)
SetMtreg ==
    /\ Call
    /\ \E v \in MtregInputs, o1, o2 \in I2cOutcomes :
          LET mt == Clamp(v)
              s1 == Send(sensor, MtregHigh(mt), o1)
          IN  \/ /\ o1 # "ok"
                 /\ sensor' = s1
                 /\ UNCHANGED mtreg
                 /\ Done("set_mtreg", v, FALSE)
              \/ /\ o1 = "ok"
                 /\ sensor' = Send(s1, MtregLow(mt), o2)
                 /\ mtreg' = IF o2 = "ok" THEN mt ELSE mtreg
                 /\ Done("set_mtreg", v, o2 = "ok")
    /\ UNCHANGED <<continuousResolution, reading>>

(* one_time_measurement: start_one_time_measurement, the delay of         *)
(* measurement_time_ms, read_raw, raw_to_lux.  The sensor completes the   *)
(* measurement and powers down.                                            *)
OneTimeMeasurement ==
    /\ Call
    /\ \E res \in Resolutions, o1, o2 \in I2cOutcomes :
          LET s1 == Send(sensor, OneTimeOpcode[res], o1)
              s2 == [s1 EXCEPT !.power = "down", !.mode = "idle",
                               !.data = Current(s1)]
          IN  \/ /\ o1 # "ok"
                 /\ sensor' = s1
                 /\ UNCHANGED reading
                 /\ Done("one_time", res, FALSE)
              \/ /\ o1 = "ok"
                 /\ sensor' = s2
                 /\ \/ o2 # "ok" /\ UNCHANGED reading
                    \/ o2 = "ok" /\ \E d \in ReadData(res, s1) :
                          reading' = Reading("one_time", res, d)
                 /\ Done("one_time", res, o2 = "ok")
    /\ UNCHANGED <<mtreg, continuousResolution>>

(* start_continuous_measurement: the field is set after the write.        *)
StartContinuousMeasurement ==
    /\ Call
    /\ \E res \in Resolutions, o \in I2cOutcomes :
          /\ sensor' = Send(sensor, ContinuousOpcode[res], o)
          /\ continuousResolution' =
                IF o = "ok" THEN res ELSE continuousResolution
          /\ Done("start_continuous", res, o = "ok")
    /\ UNCHANGED <<mtreg, reading>>

(* read_continuous_measurement: ContinuousMeasurementNotStarted while the *)
(* field is None; otherwise the delay, read_raw and raw_to_lux with the   *)
(* resolution in the field, whatever the sensor is doing now.             *)
ReadContinuousMeasurement ==
    /\ Call
    /\ \/ /\ continuousResolution = None
          /\ UNCHANGED <<sensor, reading>>
          /\ Done("read_continuous", None, FALSE)
       \/ /\ continuousResolution # None
          /\ \E o \in I2cOutcomes :
                LET res == continuousResolution
                    measuring == sensor.mode = "continuous"
                    ds == IF measuring THEN ReadData(res, sensor)
                          ELSE {sensor.data}
                IN  /\ sensor' = IF measuring
                                 THEN [sensor EXCEPT !.data = Current(sensor)]
                                 ELSE sensor
                    /\ \/ o # "ok" /\ UNCHANGED reading
                       \/ o = "ok" /\ \E d \in ds :
                             reading' = Reading("continuous", res, d)
                    /\ Done("read_continuous", res, o = "ok")
    /\ UNCHANGED <<mtreg, continuousResolution>>

-----------------------------------------------------------------------------

(* Bh1750::new with a sensor just powered: Power Down, MTreg 69.          *)
Init ==
    /\ mtreg = DEFAULT_MTREG
    /\ continuousResolution = None
    /\ sensor = [power |-> "down", mode |-> "idle", res |-> "High",
                 mt |-> DEFAULT_MTREG, n |-> 0, data |-> Zero]
    /\ reading = NoReading
    /\ last = [op |-> "new", arg |-> None, ok |-> TRUE]
    /\ calls = 0

Next ==
    \/ PowerOn \/ PowerDown \/ Reset \/ SetMtreg
    \/ OneTimeMeasurement \/ StartContinuousMeasurement
    \/ ReadContinuousMeasurement

Spec == Init /\ [][Next]_vars

-----------------------------------------------------------------------------
(* Properties                                                              *)

TypeOK ==
    /\ mtreg \in MTREG_MIN..MTREG_MAX
    /\ continuousResolution \in Resolutions \cup {None}
    /\ sensor.power \in {"down", "on"}
    /\ sensor.mode \in {"idle", "continuous", "one_time"}
    /\ sensor.mt \in 0..255
    /\ calls \in 0..MaxCalls

(* After set_mtreg returns Ok, the two halves written to the sensor       *)
(* reassemble to the clamped value the driver now scales and waits with.  *)
MtregSync ==
    (last.op = "set_mtreg" /\ last.ok) =>
        mtreg = Clamp(last.arg) /\ sensor.mt = mtreg

(* Every reading read_continuous_measurement returns is converted by     *)
(* raw_to_lux with the lux-per-count factor of the resolution the sensor  *)
(* measured it in (the doc of read_continuous_measurement: "the latest    *)
(* value from a continuous measurement").  A cleared register reads 0 lx  *)
(* under any factor and is left out.                                       *)
ContinuousResolutionFaithful ==
    (reading.kind = "continuous" /\ reading.data.res # None) =>
        reading.res = reading.data.res

=============================================================================
