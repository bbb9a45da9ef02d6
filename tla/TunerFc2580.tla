---------------------------- MODULE TunerFc2580 ------------------------------
(***************************************************************************)
(* The driver of the FCI FC2580, tuner_fc2580.c, as operators on the state *)
(* of ControlBus.  It makes every write whatever became of the one before, *)
(* reports a failure as 1, and computes with a crystal of its own, which   *)
(* no correction reaches.  Frequencies are in kHz.  In s.chip "input" is   *)
(* the band.                                                               *)
(***************************************************************************)
EXTENDS ControlBus

(* result &= fc2580_i2c_write(): any failure is remembered. *)
AndWrite(s, reg, val) ==
    OrRc(s.rc, TunerAccess(s, LAMBDA t : [t EXCEPT !.chip[reg] = val]))

(* FUNCTION_SUCCESS is 0 and FUNCTION_ERROR is 1. *)
FunctionStatus(s) == [s EXCEPT !.rc = IF @ = 0 THEN 0 ELSE 1]

CrystalFreq == 16384

-----------------------------------------------------------------------------
(* The channel filter. *)

(* One round of the calibration: the filter's monitor is read, and if it   *)
(* is not calibrated, the calibration is started again.  A stick with edge *)
(* needs a second round.                                                   *)
CalibrationRound(p, round) ==
    LET read == TunerRead(p.t)
        good == read.rc = 0 /\ (p.t.edge => round > 1)
        noted == OrRc(p.t.rc, read)
    IN  IF p.done THEN p
        ELSE [t |-> IF good THEN noted ELSE AndWrite(noted, "auto", round), done |-> good]

Calibrate(s) ==
    LET two == CalibrationRound(CalibrationRound([t |-> s, done |-> FALSE], 1), 2)
    IN  CalibrationRound(CalibrationRound(CalibrationRound(two, 3), 4), 5).t

(* fc2580_set_filter(): 1 is 1.53 MHz, 7 is 6.8 MHz, 8 is 7.8 MHz.         *)
SetFilter(s, mode) == AndWrite(Calibrate(AndWrite(s, "filt", mode)), "auto", 0)

(* fc2580_set_bw() takes the narrow mode whatever is asked for. *)
Fc2580SetBw(s) == FunctionStatus(SetFilter(Ok(s), 1))

(* fc2580_set_init(), with the AGC under external control. *)
Fc2580Init(s) ==
    FunctionStatus(SetFilter(AndWrite(AndWrite(Ok(s), "power", 1), "agc", 1), 8))

-----------------------------------------------------------------------------
(* Tuning. *)

VhfBand == 0
UhfBand == 1
LBand == 2

BandOf(f) == IF f > 1000000 THEN LBand ELSE IF f > 400000 THEN UhfBand ELSE VhfBand

BandFilter(band) == CASE band = LBand -> 1 [] band = UhfBand -> 8 [] OTHER -> 7

BandMultiple(band) == CASE band = LBand -> 2 [] band = UhfBand -> 4 [] OTHER -> 12

(* The pre-divider R, and the frequency the phases are compared at. *)
RVal(vco) ==
    IF vco >= 2 * 76 * CrystalFreq THEN 1 ELSE IF vco >= 76 * CrystalFreq THEN 2 ELSE 4

(* The whole and the fractional part, N and K, of the VCO's divider.  K is *)
(* computed with 16 of its 20 bits so that the shift stays inside 32 bits, *)
(* and rounded.                                                            *)
NVal(vco, comp) == ((vco \div 2) \div comp) % 256

KVal(vco, comp) ==
    LET shifted == (vco - 2 * comp * ((vco \div 2) \div comp)) * 65536
        unit == (2 * comp) \div 16
        k == shifted \div unit
    IN  k + IF shifted - k * unit >= comp \div 16 THEN 1 ELSE 0

(* What the chip makes of R, N and K. *)
Synthesised(vco) ==
    LET comp == CrystalFreq \div RVal(vco)
    IN  2 * comp * NVal(vco, comp) + (KVal(vco, comp) * (comp \div 8)) \div 65536

(* fc2580_set_freq(): the band with its filter, then the PLL. *)
Fc2580SetFreq(s, f) ==
    LET band == BandOf(f)
        banded == SetFilter(AndWrite(Ok(s), "input", band), BandFilter(band))
        lo == Synthesised(f * BandMultiple(band)) \div BandMultiple(band)
    IN  FunctionStatus(AndWrite(banded, "pll", [out |-> lo, ppm |-> 0]))

=============================================================================
