------------------------------ MODULE TunerE4k -------------------------------
(***************************************************************************)
(* The driver of the Elonics E4000, tuner_e4k.c, as operators on the state *)
(* of ControlBus.  It keeps no shadow and mostly drops the results of its  *)
(* transfers; frequencies are in kHz.                                      *)
(***************************************************************************)
EXTENDS ControlBus

(* e4k_reg_write() and e4k_reg_set_mask(), which reads, then writes. *)
RegWrite(s, reg, val) == TunerAccess(s, LAMBDA t : [t EXCEPT !.chip[reg] = val])

SetMask(s, reg, val) == RegWrite(TunerRead(s), reg, val)

(* e4k_field_write() reads first and gives up when that fails. *)
FieldWrite(s, reg, val) == Then(TunerRead(s), LAMBDA t : SetMask(t, reg, val))

(* pll_vars[]: below each frequency the VCO runs at this multiple. *)
PllVars == << <<72400, 48>>, <<81200, 40>>, <<108300, 32>>, <<162500, 24>>,
              <<216600, 16>>, <<325000, 12>>, <<350000, 8>>, <<432000, 8>>,
              <<667000, 6>>, <<1200000, 4>> >>

Multiple(flo) ==
    LET above == SelectSeq(PllVars, LAMBDA v : flo < v[1])
    IN  IF above = <<>> THEN 2 ELSE Head(above)[2]

(* The VCO of the chip runs from 2.6 to 3.9 GHz. *)
E4kLocks(flo) == flo * Multiple(flo) \in 2600000 .. 3900000

(* e4k_tune_freq(): the PLL, the band and the RF filter are written, then  *)
(* the lock bit is read.  A read that fails returns -1, whose lowest bit   *)
(* is set: it counts as locked.                                            *)
E4kTuneFreq(s, flo) ==
    LET params == Keep(s.rc, RegWrite(s, "pll", [out |-> flo, ppm |-> s.ppm]))
        lock == TunerRead(Keep(params.rc, SetMask(params, "mux", flo)))
    IN  IF lock.rc = 0 /\ ~E4kLocks(flo) THEN Fail(lock) ELSE Ok(lock)

(* e4000_set_bw(): three filters, each the narrowest choice for bw. *)
E4kSetBw(s, bw) == FieldWrite(s, "filt", bw)

(* e4000_set_gain(): a gain the tables do not hold is refused, a transfer  *)
(* that fails is not.                                                      *)
LnaGains == {-50, -25, 0, 25, 50, 75, 100, 125, 150, 175, 200, 250, 300}

E4kLnaPart(gain) ==
    LET rest == gain - (IF gain > 340 THEN 120 ELSE 40)
    IN  IF rest < 300 THEN rest ELSE 300

E4kSetGain(s, gain) ==
    IF E4kLnaPart(gain) \notin LnaGains THEN Fail(s)
    ELSE Ok(SetMask(s, "gain", gain))

E4kSetGainMode(s, manual) == Ok(SetMask(s, "agc", IF manual THEN 0 ELSE 1))

(* e4k_standby() *)
E4kExit(s) == Ok(SetMask(s, "power", 0))

(* e4k_init(): a chip reset, then the defaults: automatic gain, moderate   *)
(* IF gain and the narrowest filter.                                       *)
E4kInit(s) ==
    LET woken == [Blank EXCEPT !["power"] = 1]
        reset == TunerAccess(TunerRead(s), LAMBDA t : [t EXCEPT !.chip = woken])
    IN  Ok(SetMask(SetMask(SetMask(reset, "agc", 1), "vga", 6), "filt", 1900))

=============================================================================
