------------------------------- MODULE Dht22 -------------------------------
(***************************************************************************)
(* The DHT22 driver of tosca-drivers (src/dht22.rs) reading the single-   *)
(* wire line, against the pulse train the sensor drives on it.            *)
(*                                                                         *)
(* Dht22::read is synchronous and blocking after the start signal: one    *)
(* call is one step, computed over the timeline of the line.  Time is in  *)
(* microseconds from the moment send_start_signal releases the line.  The *)
(* driver polls the line every PollPeriod us (POLL_DELAY_US plus the pin  *)
(* read) and samples BIT_SAMPLE_DELAY_US after each rising edge it sees.  *)
(*                                                                         *)
(* The sensor (environment): after the host releases the line it answers  *)
(* low then high, then sends 40 bits, MSB first, each a low pulse and a   *)
(* high pulse whose length is the bit, then a last low pulse; the line is *)
(* pulled high afterwards.  One bit may be disturbed (Glitches): its high *)
(* pulse has the length of the other bit.  An absent sensor never pulls   *)
(* the line low.  The driver keeps no state between reads (only the pin   *)
(* and the delay), so one read per sensor behaviour covers them all.      *)
(***************************************************************************)
EXTENDS Integers, Sequences, SequencesExt

CONSTANTS
    Values,         \* [humidity, temperature] in tenths, as the sensor measures
    Timings,        \* pulse lengths in us: [start, respLow, respHigh, bitLow,
                    \*   zeroHigh, oneHigh]
    Glitches,       \* indexes 1..40 of a disturbed bit, 0 for none
    PollPeriod      \* us between two polls of wait_until_state

START_SIGNAL_HIGH_US == 40
POLL_DELAY_US == 1
MAX_ATTEMPTS == 100

ASSUME PollPeriod >= POLL_DELAY_US

Never == -1         \* no time: the level is never reached
None == [status |-> "none"]

VARIABLES
    env,        \* the sensor: [present, value, timing, glitch]
    line,       \* the pulse train: a sequence of [level, from, to]
    result      \* what read returned, or None

vars == <<env, line, result>>

-----------------------------------------------------------------------------
(* The sensor (environment)                                                *)

(* Bit i (1..40) of the frame for value v: humidity and temperature in    *)
(* tenths as 16-bit words, the temperature in sign and magnitude, then    *)
(* the low byte of the sum of the four bytes; MSB first.                   *)
FrameBytes(v) ==
    LET mag == IF v.temperature < 0 THEN -v.temperature ELSE v.temperature
        b == <<v.humidity \div 256, v.humidity % 256,
               (IF v.temperature < 0 THEN 128 ELSE 0) + mag \div 256,
               mag % 256>>
    IN  Append(b, (b[1] + b[2] + b[3] + b[4]) % 256)

FrameBit(v, i) ==
    (FrameBytes(v)[(i - 1) \div 8 + 1] \div (2 ^ (7 - ((i - 1) % 8)))) % 2

(* The pulse lengths: response, 40 bits (the glitched one inverted), end. *)
Pulses(v, tm, g) ==
    <<[level |-> "High", len |-> tm.start],
      [level |-> "Low", len |-> tm.respLow],
      [level |-> "High", len |-> tm.respHigh]>>
    \o FlattenSeq([i \in 1..40 |->
          <<[level |-> "Low", len |-> tm.bitLow],
            [level |-> "High",
             len |-> IF (FrameBit(v, i) = 1) # (i = g)
                     THEN tm.oneHigh ELSE tm.zeroHigh]>>])
    \o <<[level |-> "Low", len |-> tm.bitLow]>>

(* The pulses on the time axis, from time t on.                            *)
RECURSIVE Timed(_, _)
Timed(ps, t) ==
    IF ps = <<>> THEN <<>>
    ELSE <<[level |-> Head(ps).level, from |-> t, to |-> t + Head(ps).len]>>
         \o Timed(Tail(ps), t + Head(ps).len)

(* The pulse holding time t, or 0 once the line is idle (pulled high).    *)
PulseAt(t) ==
    LET hits == {i \in DOMAIN line : line[i].from <= t /\ t < line[i].to}
    IN  IF hits = {} THEN 0 ELSE CHOOSE i \in hits : TRUE

LevelAt(t) == IF PulseAt(t) = 0 THEN "High" ELSE line[PulseAt(t)].level

(* The first time from t on at which the line is at level: levels        *)
(* alternate, and the idle line is high.                                   *)
Reaches(t, level) ==
    IF LevelAt(t) = level THEN t
    ELSE IF PulseAt(t) = 0 THEN Never
    ELSE line[PulseAt(t)].to

-----------------------------------------------------------------------------
(* The driver                                                              *)

BIT_SAMPLE_DELAY_US == 35

(* wait_until_state: poll at t, t + PollPeriod, ... for MAX_ATTEMPTS     *)
(* polls; the time of the first poll that sees level, or Never (Timeout). *)
(* Every pulse lasts at least PollPeriod, so no pulse falls between polls.*)
WaitUntilState(t, level) ==
    LET e == Reaches(t, level)
        k == IF e = Never THEN MAX_ATTEMPTS
             ELSE (e - t + PollPeriod - 1) \div PollPeriod
    IN  IF k < MAX_ATTEMPTS THEN t + k * PollPeriod ELSE Never

(* read_byte, over all five bytes (read_raw_data): per bit, wait for the  *)
(* low then the high phase, wait BIT_SAMPLE_DELAY_US, sample.  Returns     *)
(* the 40 bits, or <<>> at the first timeout (`?`).                        *)
RECURSIVE ReadBits(_, _)
ReadBits(t, bits) ==
    IF Len(bits) = 40 THEN bits
    ELSE LET lo == WaitUntilState(t, "Low")
             hi == IF lo = Never THEN Never ELSE WaitUntilState(lo, "High")
             s == hi + BIT_SAMPLE_DELAY_US
         IN  IF hi = Never THEN <<>>
             ELSE ReadBits(s, Append(bits, IF LevelAt(s) = "High" THEN 1 ELSE 0))

(* read_byte: byte |= 1 << (7 - i), bits MSB first.                         *)
Byte(bits, j) ==
    FoldLeft(LAMBDA acc, b : 2 * acc + b, 0, SubSeq(bits, 8 * j - 7, 8 * j))

WrappingAdd(a, b) == (a + b) % 256      \* u8::wrapping_add

(* Mutation: the sum is compared without wrapping (a u16 sum).             *)
ValidateChecksumNoWrap(hh, hl, th, tl, checksum) ==
    hh + hl + th + tl = checksum

(* Mutation: the checksum is not compared.                                 *)
ValidateChecksumSkipped(hh, hl, th, tl, checksum) == TRUE

(* validate_checksum                                                       *)
ValidateChecksum(hh, hl, th, tl, checksum) ==
    WrappingAdd(WrappingAdd(WrappingAdd(hh, hl), th), tl) = checksum

(* decode_humidity, in tenths of % RH.                                     *)
DecodeHumidity(high, low) == high * 256 + low

(* Mutation: the sign bit is not masked off the magnitude.                 *)
DecodeTemperatureUnmasked(high, low) ==
    IF high >= 128 THEN -(high * 256 + low) ELSE high * 256 + low

(* decode_temperature, in tenths of a degree: sign bit 0x80 of the high   *)
(* byte, magnitude in the other 15 bits.                                   *)
DecodeTemperature(high, low) ==
    LET raw == (high % 128) * 256 + low
    IN  IF high >= 128 THEN -raw ELSE raw

(* Dht22::read: send_start_signal (the line is released, then            *)
(* START_SIGNAL_HIGH_US), wait_for_sensor_response (low, then high),      *)
(* read_raw_data, validate_checksum, decode.                               *)
Read ==
    /\ result = None
    /\ LET a == WaitUntilState(START_SIGNAL_HIGH_US, "Low")
           b == IF a = Never THEN Never ELSE WaitUntilState(a, "High")
           bits == IF b = Never THEN <<>> ELSE ReadBits(b, <<>>)
           by(j) == Byte(bits, j)
       IN  result' =
              IF bits = <<>> THEN [status |-> "timeout"]
              ELSE IF ~ValidateChecksum(by(1), by(2), by(3), by(4), by(5))
              THEN [status |-> "checksum_mismatch"]
              ELSE [status |-> "ok",
                    humidity |-> DecodeHumidity(by(1), by(2)),
                    temperature |-> DecodeTemperature(by(3), by(4))]
    /\ UNCHANGED <<env, line>>

-----------------------------------------------------------------------------

Init ==
    /\ env \in [present : BOOLEAN, value : Values, timing : Timings,
                glitch : Glitches]
    /\ line = IF env.present
              THEN Timed(Pulses(env.value, env.timing, env.glitch), 0)
              ELSE <<>>
    /\ result = None

Next == Read

Spec == Init /\ [][Next]_vars

-----------------------------------------------------------------------------
(* Properties                                                              *)

TypeOK ==
    result \in {None, [status |-> "timeout"], [status |-> "checksum_mismatch"]}
               \cup [status : {"ok"}, humidity : 0..65535,
                     temperature : -32767..32767]

(* Within the datasheet timings, an undisturbed frame is read Ok with the *)
(* values the sensor sent: the MAX_ATTEMPTS polls outlast every pulse the *)
(* driver waits through, the sample point separates a 0 from a 1, and the  *)
(* wrapping checksum and the decoders match the sensor's encoding.        *)
ReadsWhatWasSent ==
    (result # None /\ env.present /\ env.glitch = 0) =>
        result = [status |-> "ok", humidity |-> env.value.humidity,
                  temperature |-> env.value.temperature]

(* read never returns Ok with values the sensor did not send: a frame     *)
(* with a disturbed bit fails validate_checksum.                           *)
NoCorruptReading ==
    result.status = "ok" =>
        /\ result.humidity = env.value.humidity
        /\ result.temperature = env.value.temperature

=============================================================================
