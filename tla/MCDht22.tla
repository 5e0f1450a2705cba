------------------------------ MODULE MCDht22 ------------------------------
(* Dht22 instantiated for TLC: values with and without a checksum sum     *)
(* over 255 and with a negative temperature, the two ends of the          *)
(* datasheet's response delay and 0-bit length, every bit disturbed once. *)
EXTENDS Dht22

MCValues ==
    {[humidity |-> 652, temperature |-> 351],     \* 65.2 %RH, 35.1 C
     [humidity |-> 1000, temperature |-> -400],   \* 100.0 %RH, -40.0 C
     [humidity |-> 0, temperature |-> 0]}

MCTimings ==
    {[start |-> s, respLow |-> 80, respHigh |-> 80, bitLow |-> 50,
      zeroHigh |-> z, oneHigh |-> 70] : s \in {20, 40}, z \in {26, 28}}

MCGlitches == 0..40
=============================================================================
