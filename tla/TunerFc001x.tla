---------------------------- MODULE TunerFc001x ------------------------------
(***************************************************************************)
(* The drivers of the Fitipower FC0012 and FC0013, tuner_fc0012.c and      *)
(* tuner_fc0013.c, as operators on the state of ControlBus.  They keep no  *)
(* shadow, take the crystal as corrected from the device on every tuning   *)
(* and stop at the first transfer that fails.  Frequencies are in kHz.     *)
(* In s.chip "input" is the band of an FC0013 (1 is UHF), "mux" its VHF    *)
(* track and filter, "auto" the VCO's range.                               *)
(***************************************************************************)
EXTENDS ControlBus, FiniteSetsExt

(* fc001x_writereg() and fc001x_readreg(): a group of registers. *)
FcWrite(s, reg, val) == TunerAccess(s, LAMBDA t : [t EXCEPT !.chip[reg] = val])

(* fc001x_init() writes every register.  An FC0013 starts with the UHF     *)
(* band, an FC0012 has none: its band filter is outside, on GPIO 6.        *)
FcInit(s) ==
    LET band == IF s.type = "FC0013" THEN 1 ELSE 0
    IN  TunerAccess(s, LAMBDA t :
            [t EXCEPT !.chip = [Blank EXCEPT !["input"] = band, !["power"] = 1]])

-----------------------------------------------------------------------------
(* Synthesiser. *)

(* Below each frequency the VCO runs at this multiple. *)
Dividers == << <<37084, 96>>, <<55625, 64>>, <<74167, 48>>, <<111250, 32>>,
               <<148334, 24>>, <<222500, 16>>, <<296667, 12>>, <<445000, 8>>,
               <<593334, 6>> >>

DividersOf(s) == IF s.type = "FC0013" THEN Append(Dividers, <<950000, 4>>) ELSE Dividers

LastDivider(s) == IF s.type = "FC0013" THEN 2 ELSE 4

FcMultiple(s, f) ==
    LET rows == DividersOf(s)
        above == {i \in DOMAIN rows : f < rows[i][1]}
    IN  IF above = {} THEN LastDivider(s) ELSE rows[Min(above)][2]

(* f_vco has 64 bits but freq * multi is a product of 32, in Hz.           *)
Wrap == 4294967

FVco(s, f) == (f * FcMultiple(s, f)) % Wrap

(* Half the crystal is what the VCO is compared with. *)
HalfXtal(s) == s.xtal * 50

XDiv(s, vco) == (vco + HalfXtal(s) \div 2) \div HalfXtal(s)

(* XDIV as a number of cycles to eight, pm, and some to nine, am, of which *)
(* there are at least two.  pm is a byte, and so is what goes into         *)
(* register 1.                                                             *)
Cycles(xdiv) ==
    LET few == xdiv % 8 < 2
        am == (xdiv % 8) + IF few THEN 8 ELSE 0
        pm == (xdiv \div 8 - IF few THEN 1 ELSE 0) % 256
    IN  IF pm > 31 THEN [a |-> (am + 8 * (pm - 31)) % 256, m |-> 31]
                   ELSE [a |-> am, m |-> pm]

NoCombination(c) == c.a > 15 \/ c.m < 11

(* What the chip makes of the registers: the fraction is added, or taken   *)
(* off when XDIV was rounded up.                                           *)
FcLo(s, vco, c, multi) ==
    (vco + HalfXtal(s) * (c.a + 8 * c.m - XDiv(s, vco))) \div multi

HighRange(vco) == IF vco >= 3060000 THEN 1 ELSE 0

(* The VCO is calibrated and its voltage read.  When it is at the end of   *)
(* its range (s.edge), the other range is selected and calibrated.         *)
SelectVco(s, vco) ==
    LET calibrated == Then(FcWrite(s, "auto", HighRange(vco)), TunerRead)
        Reselect(t) == FcWrite(t, "auto", 1 - HighRange(vco))
    IN  IF s.edge THEN Then(calibrated, Reselect) ELSE calibrated

(* The crystal is corrected by s.corr, not by what a driver remembers.     *)
ProgramPll(s, vco, c, multi) ==
    FcWrite(s, "pll", [out |-> FcLo(s, vco, c, multi), ppm |-> s.corr])

(* An FC0013 notes in register 0x11 whether the multiple is 64. *)
NoteMultiple(s) ==
    IF s.type = "FC0013" THEN Then(TunerRead(s), TunerRead) ELSE s

(* The part the two fc001x_set_params() share; the channel is 6 MHz wide.  *)
FcSetPll(s, f) ==
    LET vco == FVco(s, f)
        c == Cycles(XDiv(s, vco))
        Program(t) == ProgramPll(t, vco, c, FcMultiple(t, f))
        Channel(t) == FcWrite(t, "filt", 6000)
    IN  IF NoCombination(c) THEN Fail(s)
        ELSE Then(Then(Then(Program(s), Channel), NoteMultiple), LAMBDA t : SelectVco(t, vco))

-----------------------------------------------------------------------------
(* FC0012. *)

(* fc0012_set_freq(): GPIO 6 selects the band filter. *)
Fc0012SetFreq(s, f) == FcSetPll(SetGpio(Ok(s), "gpio6", f > 300000), f)

(* The four steps of the low noise amplifier. *)
Fc0012Step(gain) ==
    CASE gain < -40 -> -99 [] gain < 71 -> -40 [] gain < 179 -> 71
      [] gain < 192 -> 179 [] OTHER -> 192

(* Register 0x13 is read for its upper bits; a read that fails is dropped. *)
Fc0012SetGain(s, gain) == FcWrite(TunerRead(s), "gain", Fc0012Step(gain))

-----------------------------------------------------------------------------
(* FC0013. *)

(* The VHF track; 7 is also what UHF has. *)
TrackEnds == << 300000, 219501, 205501, 198501, 191501, 184501, 177501 >>

VhfTrack(f) ==
    IF f >= 300000 THEN 7 ELSE Len(SelectSeq(TrackEnds, LAMBDA e : f < e))

(* Read, modify, write, each giving up on failure: the other bits are kept. *)
Modify(s, reg, val) == Then(TunerRead(Ok(s)), LAMBDA t : FcWrite(t, reg, val))

(* The track, the VHF filter, the band bits of the gain register.          *)
SelectBand(s, f) ==
    Then(Modify(s, "mux", VhfTrack(f)),
         LAMBDA t : Modify(t, "input", IF f < 300000 THEN 0 ELSE 1))

Fc0013SetFreq(s, f) == Then(SelectBand(s, f), LAMBDA t : FcSetPll(t, f))

(* fc0013_lna_gains[]: the first that is not below what is asked for. *)
Fc0013Gains == {-99, -73, -65, -63, -60, -58, -54, 58, 61, 63, 65, 67, 68, 70, 71,
                179, 181, 182, 184, 186, 188, 191, 197}

Fc0013Step(gain) ==
    LET enough == {g \in Fc0013Gains : g >= gain}
    IN  IF enough = {} THEN 197 ELSE CHOOSE g \in enough : \A h \in enough : g <= h

(* The gain shares its register with the band: a read that fails leaves    *)
(* zeros in the band bits, and the write is made nevertheless.             *)
Fc0013SetGain(s, gain) ==
    LET read == TunerRead(s)
        band == IF read.rc = 0 THEN s.chip["input"] ELSE 0
        Both(t) == [t EXCEPT !.chip["gain"] = Fc0013Step(gain), !.chip["input"] = band]
    IN  OrRc(read.rc, TunerAccess(read, Both))

(* The mode bit, then a fixed IF gain, results or-ed. *)
Fc0013SetGainMode(s, manual) ==
    LET read == TunerRead(s)
        mode == OrRc(read.rc, FcWrite(read, "agc", IF manual THEN 0 ELSE 1))
    IN  OrRc(mode.rc, FcWrite(mode, "vga", 10))

=============================================================================
