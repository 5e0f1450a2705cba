------------------------------ MODULE MCBh1750 ------------------------------
(***************************************************************************)
(* Instantiation of Bh1750 for TLC.  set_mtreg gets a value below         *)
(* MTREG_MIN, one above MTREG_MAX and 100, whose halves (3, 4) both differ *)
(* from those of the default 69 (2, 5): a half-written register then lies *)
(* above and below the driver's value.                                     *)
(***************************************************************************)
EXTENDS Bh1750

MCMtregInputs == {0, 100, 255}

MCI2cFaulty == {"ok", "error"}
MCI2cReliable == {"ok"}

=============================================================================
