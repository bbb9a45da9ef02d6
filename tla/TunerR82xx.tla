----------------------------- MODULE TunerR82xx ------------------------------
(***************************************************************************)
(* The driver of the R820T and R828D tuners, tuner_r82xx.c, as operators   *)
(* on the state of ControlBus.  Frequencies are in kHz.  The driver keeps  *)
(* a shadow of the registers, stores into it BEFORE it writes, and skips a *)
(* write whose value the shadow already holds.                             *)
(***************************************************************************)
EXTENDS ControlBus, FiniteSets, FiniteSetsExt

(* What the synthesiser needs to know of the dongle itself. *)
CONSTANT Crystal(_)     \* the crystal soldered next to the tuner, in 100 kHz

(* r82xx_init_array, with automatic gain and air-in. *)
InitRegs == [Blank EXCEPT !["agc"] = 1, !["power"] = 1, !["vga"] = 1]

(* r82xx_write(): elided when the shadow agrees. *)
Put(s, reg, val) ==
    IF s.shadow[reg] = val THEN Ok(s)
    ELSE TunerAccess([s EXCEPT !.shadow[reg] = val],
                     LAMBDA t : [t EXCEPT !.chip[reg] = val])

(* Of a row of writes, each is made if the one before did not fail.        *)
ThenPut(s, reg, val) == Then(s, LAMBDA t : Put(t, reg, val))

-----------------------------------------------------------------------------
(* Synthesiser. *)

VcoMin == 1770000
VcoMax == 2 * VcoMin

(* The divider search of r82xx_set_pll(): an LO below VcoMin / 64 leaves   *)
(* the loop with mix_div = 128 and with div_num still 0, which is the      *)
(* code for a division by 2.                                               *)
Fitting(lo) == {k \in {2, 4, 8, 16, 32, 64} : lo * k >= VcoMin /\ lo * k < VcoMax}

MixDiv(lo) == IF Fitting(lo) = {} THEN 128 ELSE Min(Fitting(lo))

DivNum(lo) == IF Fitting(lo) = {} THEN 2 ELSE Min(Fitting(lo))

VcoPowerRef(s) == IF s.type = "R828D" \/ s.v4 \/ s.v4l THEN 1 ELSE 2

NoPllValues(s, vco) == vco \div (2 * s.xtal * 100) > (128 \div VcoPowerRef(s)) - 1

(* The driver computes with s.xtal, the hardware runs on its crystal. *)
Real(s, khz) == IF s.xtal = Crystal(s.dongle) THEN khz
                ELSE (khz * Crystal(s.dongle)) \div s.xtal

SetPll(s, lo) ==
    LET vco == lo * MixDiv(lo)
        value == [out |-> Real(s, vco) \div DivNum(lo), ppm |-> s.ppm]
        locks == Real(s, vco) \in VcoMin .. VcoMax - 1
        Settle(t) == IF locks THEN Put([t EXCEPT !.lock = TRUE], "auto", 8)
                              ELSE Ok([t EXCEPT !.lock = FALSE])
        asked == Then(Put(s, "auto", 128), TunerRead)
    IN  IF asked.rc < 0 THEN asked
        ELSE IF NoPllValues(s, vco) THEN Fail(asked)
        ELSE Then(Then(Put(asked, "pll", value), TunerRead), Settle)

(* freq_ranges[]: the first MHz of each range of the tracking filter. *)
RangeStarts == {0, 50, 55, 60, 65, 70, 75, 80, 90, 100, 110, 120, 140, 180, 220,
                250, 280, 310, 450, 588, 650}

SetMux(s, lo) == Put(s, "mux", Cardinality({m \in RangeStarts : m <= lo \div 1000}))

-----------------------------------------------------------------------------
(* Initialisation and standby. *)

(* The init array goes out in transfers of seven registers. *)
InitChunk(s, chunk) ==
    TunerAccess(s, LAMBDA t :
        [t EXCEPT !.chip = [g \in Regs |-> IF g \in chunk THEN InitRegs[g] ELSE @[g]]])

ThenChunk(s, chunk) == Then(s, LAMBDA t : InitChunk(t, chunk))

WriteInitArray(s) ==
    LET first == InitChunk([s EXCEPT !.shadow = InitRegs], {"input", "agc", "gain", "filt"})
    IN  ThenChunk(ThenChunk(ThenChunk(first, {"vga", "power"}), {"pll"}), {"mux", "auto"})

(* The channel filter is calibrated with the LO at 56 MHz; without a lock  *)
(* the rest is skipped and the result is still 0.                          *)
SetTvStandard(s) ==
    LET shadowed == [s EXCEPT !.shadow = InitRegs]
        Calibrate(t) == SetPll([t EXCEPT !.intf = 3570], 56000)
        Finish(t) == IF ~t.lock THEN t
                     ELSE Then(TunerRead(t), LAMBDA u : Put(u, "filt", 6000))
    IN  Then(Then(Put(shadowed, "vga", 0), Calibrate), Finish)

(* Mutant: the driver keeps its note of the input over a reset.            *)
SysfreqSelKeepsInput(s) == Put(s, "input", 0)

SysfreqSel(s) == Put([s EXCEPT !.input = 0], "input", 0)

(* r82xx_init() ignores the result of the array write. *)
R82xxInit(s) ==
    Then(SetTvStandard(WriteInitArray(s)),
         LAMBDA t : [SysfreqSel(t) EXCEPT !.ready = TRUE])

R82xxStandby(s) ==
    IF ~s.ready THEN Ok(s)
    ELSE LET inputs == ThenPut(ThenPut(Put(s, "input", -1), "agc", 1), "gain", -1)
             filters == ThenPut(ThenPut(inputs, "mux", -1), "filt", -1)
         IN  ThenPut(ThenPut(filters, "vga", -1), "power", 0)

-----------------------------------------------------------------------------
(* Tuning. *)

(* The inputs of the Blog V4, and the two positions of other R828D sticks. *)
HF == 1
VHF == 2
UHF == 3
AirIn == 0
Cable1 == 96

BandOfV4(f) == IF f <= 28800 THEN HF ELSE IF f < 250000 THEN VHF ELSE UHF

BandOfV4L(f) == IF f <= 28800 THEN HF ELSE UHF

(* The HF input bypasses the tracking filter on every tune; the input and  *)
(* the upconverter's GPIO move only when the band changes.                 *)
SwitchBand(s, band) ==
    LET bypassed == IF band = HF THEN Put(s, "mux", 100) ELSE Ok(s)
        moved == Put([bypassed EXCEPT !.input = band], "input", band)
    IN  IF bypassed.rc < 0 \/ band = s.input THEN bypassed
        ELSE Then(moved, LAMBDA t : SetGpio(t, "gpio5", band # HF))

SwitchInput(s, pos) ==
    IF s.type = "R828D" /\ pos # s.input
    THEN Put([s EXCEPT !.input = pos], "input", pos)
    ELSE Ok(s)

(* An HF frequency of a V4 or V4L arrives 28.8 MHz higher. *)
UpconvertFreq(s, f) == IF (s.v4 \/ s.v4l) /\ f < 28800 THEN f + 28800 ELSE f

SelectInput(s, f) ==
    IF s.rc < 0 \/ ~s.lock THEN s
    ELSE IF s.v4 THEN SwitchBand(s, BandOfV4(f))
    ELSE IF s.v4l THEN SwitchBand(s, BandOfV4L(f))
    ELSE SwitchInput(s, IF f > 345000 THEN AirIn ELSE Cable1)

R82xxSetFreq(s, f) ==
    LET lo == UpconvertFreq(s, f) + s.intf
    IN  SelectInput(Then(SetMux(s, lo), LAMBDA t : SetPll(t, lo)), f)

-----------------------------------------------------------------------------
(* Channel filter and gain. *)

LowPass == {1700, 1600, 1550, 1450, 1200, 900, 700, 550, 450, 350}

HighPass1 == 350
HighPass2 == 380

(* r82xx_set_bandwidth(): up to two high-pass sections are taken off a     *)
(* narrow band, the narrowest low-pass that is wide enough gives the rest. *)
Narrow(bw) ==
    LET second == IF bw > 1700 + HighPass1 THEN HighPass2 ELSE 0
        first  == IF bw - second > 1700 THEN HighPass1 ELSE 0
        left   == bw - second - first
        low    == IF left <= 350 THEN 350 ELSE Min({w \in LowPass : w >= left})
        width  == second + first + low
    IN  [width |-> width, intf |-> 2300 + second + first - width \div 2]

FilterFor(bw) ==
    IF bw > 7000 THEN [width |-> 8000, intf |-> 4570]
    ELSE IF bw > 6000 THEN [width |-> 7000, intf |-> 4570]
    ELSE IF bw > 1700 + HighPass1 + HighPass2 THEN [width |-> 6000, intf |-> 3570]
    ELSE Narrow(bw)

R82xxSetBandwidth(s, bw) ==
    Put([s EXCEPT !.intf = FilterFor(bw).intf], "filt", FilterFor(bw).width)

(* Mutant: the chip is not read before its gain is set.                    *)
R82xxSetGainUnread(s, manual, gain) ==
    IF manual THEN ThenPut(ThenPut(Put(s, "agc", 0), "vga", 1), "gain", gain)
    ELSE ThenPut(Put(s, "agc", 1), "vga", 2)

(* r82xx_set_gain() with a gain, or without one for the automatic mode. *)
R82xxSetGain(s, manual, gain) ==
    IF manual
    THEN ThenPut(ThenPut(Then(Put(s, "agc", 0), TunerRead), "vga", 1), "gain", gain)
    ELSE ThenPut(Put(s, "agc", 1), "vga", 2)

=============================================================================
