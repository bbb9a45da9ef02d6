---------------------------- MODULE DeviceControl ----------------------------
(***************************************************************************)
(* The control half of librtlsdr.c and rtlsdr_open2() of the Android       *)
(* bridge: opening a dongle, tuning, sample rate, bandwidth, gain, crystal *)
(* correction, direct sampling and offset tuning.  The application makes   *)
(* one call at a time, in any order.  Frequencies and rates are in kHz.    *)
(***************************************************************************)
EXTENDS TunerR82xx, TunerE4k, TunerFc001x, TunerFc2580

(* A plan is a dongle and what an application may ask of it:               *)
(*   dongle     the dongle that is plugged in                              *)
(*   edge       its VCO or filter calibrates at the second try only        *)
(*   freqs      centre frequencies                                         *)
(*   rates      sample rates, all valid: up to 3.2 MHz                     *)
(*   widths     tuner bandwidths, 0 is automatic                           *)
(*   gains      manual gains, in tenths of a dB                            *)
(*   modes      gain modes, TRUE is manual                                 *)
(*   ppms       corrections                                                *)
(*   faults     how transfers may fail: "once", "lost"                     *)
(*   maxat      bound: the transfers of a call that may be the first to    *)
(*              fail                                                       *)
CONSTANT Plans

Kinds == {"R820T", "R828D", "V4", "V4L", "E4000", "FC0012", "FC0013", "FC2580", "none"}

ASSUME ControlConstants == \A p \in Plans :
    /\ p.dongle \in Kinds /\ p.edge \in BOOLEAN
    /\ \A f \in p.freqs : f \in Nat /\ 0 < f /\ f <= 2000000
    /\ \A r \in p.rates : r \in Nat /\ 0 < r /\ r <= 3200
    /\ p.widths \subseteq Nat
    /\ p.modes \subseteq BOOLEAN
    /\ p.faults \subseteq {"once", "lost"}
    /\ p.maxat \in Nat

(* The boards are what rtlsdr_open2() takes them for: a tuner has the      *)
(* crystal of the demodulator, but for the 16 MHz of the R828D sticks.     *)
ASSUME CrystalsFit == \A p \in Plans :
    Crystal(p.dongle) = IF p.dongle = "R828D" THEN 160 ELSE RtlXtal \div 100

VARIABLES
    plan,   \* the plan of this behaviour
    s,      \* the driver and the hardware, see ControlBus
    open,   \* the application holds a device handle
    lost,   \* the dongle has been pulled
    clean,  \* no transfer has failed since the device was opened
    mixed,  \* direct sampling was set or in use with offset tuning on
    ret     \* the last call and whether it returned 0

vars == <<plan, s, open, lost, clean, mixed, ret>>

NoResult == [op |-> "none", ok |-> TRUE]

(* What the tuner answers when it is probed. *)
TypeOf(dongle) ==
    CASE dongle \in {"R820T", "V4L"} -> "R820T"
      [] dongle \in {"R828D", "V4"}  -> "R828D"
      [] OTHER -> dongle

IsR82xx(t) == t.type \in {"R820T", "R828D"}

IsFc001x(t) == t.type \in {"FC0012", "FC0013"}

(* struct rtlsdr_dev and the tuner drivers' state after memset(). *)
Zeroed ==
    [type |-> "none", v4 |-> FALSE, v4l |-> FALSE, xtal |-> RtlXtal \div 100,
     freq |-> 0, rate |-> 0, bw |-> 0, gain |-> 0, corr |-> 0, offs |-> 0,
     ds |-> 0, mode |-> 0,
     ppm |-> 0, intf |-> 0, ready |-> FALSE, input |-> 0, lock |-> FALSE,
     shadow |-> Blank, blind |-> FALSE]

(* The hardware of a dongle just plugged in. *)
Plugged(p) ==
    [dongle |-> p.dongle, edge |-> p.edge, chip |-> Blank, rep |-> FALSE,
     gpio5 |-> FALSE, gpio6 |-> FALSE,
     ifr |-> [f |-> 0, ppm |-> 0], zif |-> FALSE, inv |-> FALSE, adc |-> "iq",
     swap |-> FALSE, resamp |-> 0, sync |-> 0,
     n |-> 0, fault |-> NoFault, turn |-> FALSE, deep |-> FALSE, rc |-> 0]

(* The state with the fields of new replaced. *)
Over(new, t) == [f \in DOMAIN new \cup DOMAIN t |-> IF f \in DOMAIN new THEN new[f] ELSE t[f]]

-----------------------------------------------------------------------------
(* The tuner interface: the row of tuners[] for this type. *)

HasTuner(t) == t.type # "none"

TunerInit(t) ==
    CASE IsR82xx(t) -> R82xxInit([t EXCEPT !.ppm = t.corr])
      [] t.type = "E4000" -> E4kInit([t EXCEPT !.ppm = t.corr])
      [] IsFc001x(t) -> FcInit(t)
      [] t.type = "FC2580" -> Fc2580Init(t)
      [] OTHER -> t

(* The three Fitipower and FCI tuners have no standby. *)
TunerExit(t) ==
    CASE IsR82xx(t) -> R82xxStandby(t)
      [] t.type = "E4000" -> E4kExit(t)
      [] OTHER -> Ok(t)

TunerSetFreq(t, f) ==
    CASE IsR82xx(t) -> R82xxSetFreq(t, f)
      [] t.type = "E4000" -> E4kTuneFreq(t, f)
      [] t.type = "FC0012" -> Fc0012SetFreq(t, f)
      [] t.type = "FC0013" -> Fc0013SetFreq(t, f)
      [] t.type = "FC2580" -> Fc2580SetFreq(t, f)

TunerGain(t, gain) ==
    CASE IsR82xx(t) -> R82xxSetGain(t, TRUE, gain)
      [] t.type = "E4000" -> E4kSetGain(t, gain)
      [] t.type = "FC0012" -> Fc0012SetGain(t, gain)
      [] t.type = "FC0013" -> Fc0013SetGain(t, gain)
      [] t.type = "FC2580" -> Ok(t)

TunerGainMode(t, manual) ==
    CASE IsR82xx(t) -> R82xxSetGain(t, manual, 0)
      [] t.type = "E4000" -> E4kSetGainMode(t, manual)
      [] t.type = "FC0013" -> Fc0013SetGainMode(t, manual)
      [] OTHER -> Ok(t)

-----------------------------------------------------------------------------
(* rtlsdr_set_center_freq() and _rtlsdr_set_direct_sampling() call each    *)
(* other last.                                                             *)

(* Below 24 MHz an R820T is bypassed, unless the user chose a mode. *)
AutoSampling(t, f) ==
    IF f < 24000 /\ t.type = "R820T" /\ ~t.v4l THEN 2 ELSE 0

(* Mutant: the tuner is tuned with the repeater off.                       *)
ApplyFreqBlind(t, f) ==
    IF t.ds # 0 THEN SetIfFreq(Repeater(t, FALSE), f)
    ELSE IF HasTuner(t) THEN TunerSetFreq(t, f - t.offs)
    ELSE Fail(t)

(* In direct sampling the demodulator tunes alone.                         *)
ApplyFreq(t, f) ==
    IF t.ds # 0 THEN SetIfFreq(Repeater(t, FALSE), f)
    ELSE IF HasTuner(t)
    THEN Repeater(TunerSetFreq(Repeater(t, TRUE), f - t.offs), FALSE)
    ELSE Fail(t)

(* A tuning that fails leaves no frequency to go back to.                  *)
NoteFreq(t, f) == [t EXCEPT !.freq = IF t.rc = 0 THEN f ELSE 0]

(* A call that changed the mode returns the result of the switch: turn. *)
Turning(ds, t) ==
    IF t.ds = ds THEN t ELSE [t EXCEPT !.turn = TRUE, !.rc = 0]

(* rtlsdr_set_center_freq() up to the call of the switch. *)
Center(t, f) ==
    LET picked == [t EXCEPT !.ds = IF t.mode = 0 THEN AutoSampling(t, f) ELSE @,
                            !.turn = FALSE]
    IN  Turning(t.ds, NoteFreq(ApplyFreq(picked, f), f))

(* The tuner put to sleep and woken up, if there is one. *)
Asleep(t) ==
    IF HasTuner(t) THEN Repeater(TunerExit(Repeater(Ok(t), TRUE)), FALSE) ELSE Ok(t)

Awake(t) ==
    IF HasTuner(t) THEN Repeater(TunerInit(Repeater(Ok(t), TRUE)), FALSE) ELSE Ok(t)

AntennaPath(t, on) ==
    LET plain == OrDemod(OrDemod(t, "zif", FALSE), "inv", FALSE)
    IN  OrDemod(OrDemod(plain, "adc", "i"), "swap", on > 1)

(* Mutant: the mode is noted as input 1 whatever was asked.                *)
DirectOnInput1(t, on) ==
    [AntennaPath(Asleep(t), on) EXCEPT !.ds = 1]

(* To the antenna inputs: the tuner sleeps, the demodulator samples it.    *)
DirectOn(t, on) ==
    [AntennaPath(Asleep(t), on) EXCEPT !.ds = on]

(* Back to the tuner: its IF, inverted, on an R82xx; zero IF on others.    *)
TunerPath(t) ==
    LET path ==
            IF IsR82xx(t) THEN OrDemod(OrDemod(t, "ifr", IfWord(t, 3570)), "inv", TRUE)
            ELSE OrDemod(OrDemod(OrDemod(t, "ifr", IfWord(t, 0)), "adc", "iq"), "zif", TRUE)
    IN  OrDemod(path, "swap", FALSE)

(* Mutant: the tuner is not woken up.                                      *)
DirectOffAsleep(t) == [TunerPath(Ok(t)) EXCEPT !.ds = 0]

DirectOff(t) == [TunerPath(Awake(t)) EXCEPT !.ds = 0]

(* _rtlsdr_set_direct_sampling() ends by tuning to the frequency noted. *)
Recenter(t) == OrRc(t.rc, Center(t, t.freq))

Switch(t, on) == Recenter(OrRc(t.rc, IF on # 0 THEN DirectOn(t, on) ELSE DirectOff(t)))

(* Each of the two calls the other last.  Two more rounds are followed,    *)
(* deep marks a call that would go on.                                     *)
Again(t) == IF t.turn THEN Switch(t, t.ds) ELSE t

Bounded(t) == [t EXCEPT !.deep = @ \/ t.turn, !.turn = FALSE]

Tune(t, f) == Bounded(Again(Again(Center(t, f))))

-----------------------------------------------------------------------------
(* The other settings. *)

(* r |= rtlsdr_set_center_freq(dev, dev->freq), always or on a condition. *)
Retune(t) == OrRc(t.rc, Tune(t, t.freq))

RetuneIf(cond, t) == IF cond THEN Retune(t) ELSE t

(* tuner->set_bw.  On an R82xx the width decides the tuner's IF, so the    *)
(* demodulator's IF follows and the tuner is tuned again.                  *)
SetTunerBw(t, bw) ==
    CASE IsR82xx(t) -> Then(Then(R82xxSetBandwidth(t, bw), LAMBDA u : SetIfFreq(u, u.intf)),
                            Retune)
      [] t.type = "E4000" -> E4kSetBw(t, bw)
      [] t.type = "FC2580" -> Fc2580SetBw(t)
      [] OTHER -> Ok(t)

FilterTuner(t, bw) ==
    IF HasTuner(t) THEN Repeater(SetTunerBw(Repeater(t, TRUE), bw), FALSE) ELSE t

AutoWidth(t) == IF t.bw > 0 THEN t.bw ELSE t.rate

NoteWidth(t, bw) == IF HasTuner(t) /\ t.rc = 0 THEN [t EXCEPT !.bw = bw] ELSE t

SetTunerBandwidth(t, bw) ==
    NoteWidth(FilterTuner(Ok(t), IF bw > 0 THEN bw ELSE t.rate), bw)

(* Offset tuning moves the tuner 0.85 sample rates below the frequency and *)
(* lets the demodulator shift it back.  Refused by the R82xx and in direct *)
(* sampling.                                                               *)
SetOffsetTuning(t, on) ==
    LET offs == IF on THEN ((t.rate \div 2) * 170) \div 100 ELSE 0
        width == IF on THEN 2 * offs ELSE AutoWidth(t)
        shifted == SetIfFreq([t EXCEPT !.offs = offs], offs)
    IN  IF IsR82xx(t) \/ t.ds # 0 THEN Fail(t)
        ELSE RetuneIf(t.freq > offs, Keep(shifted.rc, FilterTuner(shifted, width)))

(* The offset follows the rate, and the result is dropped. *)
Reoffset(t) == IF t.offs # 0 THEN Keep(t.rc, SetOffsetTuning(t, TRUE)) ELSE t

(* The resampler is written, the correction again, and the demodulator is  *)
(* reset, by the register that also holds the repeater bit.                *)
SetSampleRate(t, rate) ==
    LET rated == [Ok(t) EXCEPT !.rate = rate]
        filtered == Keep(0, FilterTuner(rated, AutoWidth(rated)))
        sampled == OrDemod(OrDemod(filtered, "resamp", rate), "sync", t.corr)
    IN  Reoffset(OrDemod(sampled, "rep", FALSE))

(* Mutant: the tuner drivers compute with the old clock.                   *)
CorrectResamplerOnly(t, ppm) ==
    LET synced == SetSampleFreqCorrection([t EXCEPT !.corr = ppm], ppm)
        clocked == synced
    IN  IF t.corr = ppm THEN Fail(t)
        ELSE RetuneIf(t.freq # 0, clocked)

(* Refused when nothing changes, else the demodulator's resampler and the  *)
(* clock the tuner drivers compute with follow, and the tuner is retuned.  *)
SetFreqCorrection(t, ppm) ==
    LET synced == SetSampleFreqCorrection([t EXCEPT !.corr = ppm], ppm)
        clocked == [synced EXCEPT !.ppm = ppm]
    IN  IF t.corr = ppm THEN Fail(t)
        ELSE RetuneIf(t.freq # 0, clocked)

NoteGain(t, gain) == [t EXCEPT !.gain = IF t.rc = 0 THEN gain ELSE 0]

SetTunerGain(t, gain) ==
    NoteGain(IF HasTuner(t) THEN Repeater(TunerGain(Repeater(t, TRUE), gain), FALSE) ELSE Ok(t),
             gain)

SetTunerGainMode(t, manual) ==
    IF HasTuner(t) THEN Repeater(TunerGainMode(Repeater(t, TRUE), manual), FALSE) ELSE Ok(t)

(* The user's choice of a mode switches the automatic choice off, or on.   *)
SetDirectSampling(t, on) ==
    Bounded(Again(Again(Switch(Ok([t EXCEPT !.mode = on]), on))))

-----------------------------------------------------------------------------
(* rtlsdr_open2() and rtlsdr_close(). *)

(* rtlsdr_init_baseband() drops the result of every write. *)
InitBaseband(t) ==
    LET sampling == Repeater(DropDemod(t, "adc", "iq"), FALSE)
        shifting == DropDemod(DropDemod(sampling, "inv", FALSE), "ifr", [f |-> 0, ppm |-> 0])
    IN  DropDemod(DropDemod(shifting, "swap", FALSE), "zif", TRUE)

(* Without its EEPROM a Blog V4 is taken for any other stick. *)
ReadEeprom(t) ==
    Access(t, LAMBDA u : [u EXCEPT !.v4 = (u.dongle = "V4"), !.v4l = (u.dongle = "V4L")])

ProbeOne(t, type) ==
    LET asked == TunerRead(t)
    IN  IF t.type # "none" THEN t
        ELSE IF asked.rc = 0 /\ TypeOf(t.dongle) = type THEN [asked EXCEPT !.type = type]
        ELSE asked

(* GPIO 4 resets the FC2580 before it is asked: an output, set and cleared. *)
ResetByGpio4(t) ==
    IF t.type # "none" THEN t ELSE Touch(Touch(Touch(t)))

(* GPIO 6 of an FC0012 becomes an output. *)
OutputGpio6(t) ==
    IF t.type = "FC0012" THEN Keep(0, Touch(t)) ELSE t

Probe(t) ==
    LET two == ProbeOne(ProbeOne(Repeater(t, TRUE), "E4000"), "FC0013")
        four == ProbeOne(ProbeOne(two, "R820T"), "R828D")
    IN  OutputGpio6(ProbeOne(ProbeOne(ResetByGpio4(four), "FC2580"), "FC0012"))

TunerClock(t) ==
    [t EXCEPT !.xtal = IF t.type = "R828D" /\ ~t.v4 THEN 160 ELSE RtlXtal \div 100]

(* The IF of an R82xx, inverted. *)
InvertedIf(t) ==
    Demod(SetIfFreq(Demod(Demod(t, "zif", FALSE), "adc", "i"), 3570), "inv", TRUE)

PreparePath(t) ==
    CASE IsR82xx(t) -> InvertedIf(t)
      [] t.type = "none" -> SetDirectSampling(t, 1)
      [] OTHER -> t

Found(t) == TunerClock(Probe(ReadEeprom(InitBaseband(Touch(t)))))

InitTuner(t) == IF HasTuner(t) THEN TunerInit(t) ELSE Ok(t)

(* Only a negative result of the initialisation fails the open; an FC2580  *)
(* reports 1.                                                              *)
OpenDevice(t) == Then(InitTuner(PreparePath(Found(t))), LAMBDA u : Repeater(Ok(u), FALSE))

(* rtlsdr_deinit_baseband(): the tuner sleeps, the demodulator is switched *)
(* off.                                                                    *)
SwitchOff(t) == Keep(t.rc, Touch(t))

CloseDevice(t) == SwitchOff(Asleep(t))

-----------------------------------------------------------------------------
(* Calls.  Between an open and the next one transfer may fail, or the      *)
(* dongle is pulled, and then every transfer fails for good.               *)

Gone == [kind |-> "lost", at |-> 1]

Outcomes == IF lost THEN {Gone}
           ELSE {NoFault} \cup IF clean \/ ~open THEN [kind : plan.faults, at : 1 .. plan.maxat] ELSE {}

Struck(t) == t.fault = NoFault \/ t.n >= t.fault.at

Settled(t) == [t EXCEPT !.n = 0, !.fault = NoFault, !.rc = 0,
                        !.blind = @ /\ t.fault = NoFault]

(* Only a call begun on a lost dongle leaves its result in ret. *)
Told(op, t) == IF lost THEN [op |-> op, ok |-> t.rc = 0] ELSE NoResult

Leave(op, t) ==
    /\ Struck(t)
    /\ s' = Settled(t)
    /\ open' = (op # "close" /\ (op = "open" => t.rc = 0))
    /\ lost' = (lost \/ t.fault.kind = "lost")
    /\ clean' = (t.fault = NoFault /\ (clean \/ op = "open"))
    /\ mixed' = (op # "open" /\ (mixed \/ (t.offs # 0 /\ (op = "direct" \/ t.ds # 0))))
    /\ ret' = Told(op, t)
    /\ UNCHANGED plan

Run(op, before, F(_)) ==
    \E fault \in Outcomes : Leave(op, F([before EXCEPT !.fault = fault]))

Call(op, F(_)) == open /\ Run(op, s, F)

(* A pulled dongle cannot be claimed: the open fails before any transfer.  *)
Open == ~open /\ ~lost /\ Run("open", Over(Zeroed, s), OpenDevice)

Close == open /\ Run("close", s, CloseDevice)

(* A close that knows of the loss leaves the hardware alone. *)
CloseLost ==
    open /\ lost /\ open' = FALSE /\ ret' = NoResult /\ UNCHANGED <<plan, s, lost, clean, mixed>>

Init ==
    /\ plan \in Plans
    /\ s = Over(Zeroed, Plugged(plan))
    /\ open = FALSE /\ lost = FALSE /\ clean = TRUE /\ mixed = FALSE
    /\ ret = NoResult

Next ==
    \/ Open
    \/ Close
    \/ CloseLost
    \/ \E f \in plan.freqs : Call("freq", LAMBDA t : Tune(t, f))
    \/ \E r \in plan.rates : Call("rate", LAMBDA t : SetSampleRate(t, r))
    \/ \E w \in plan.widths : Call("width", LAMBDA t : SetTunerBandwidth(t, w))
    \/ \E g \in plan.gains : Call("gain", LAMBDA t : SetTunerGain(t, g))
    \/ \E m \in plan.modes : Call("gain_mode", LAMBDA t : SetTunerGainMode(t, m))
    \/ \E p \in plan.ppms : Call("correction", LAMBDA t : SetFreqCorrection(t, p))
    \/ \E on \in 0 .. 2 : Call("direct", LAMBDA t : SetDirectSampling(t, on))
    \/ \E on \in BOOLEAN : Call("offset", LAMBDA t : SetOffsetTuning(t, on))

Spec == Init /\ [][Next]_vars

-----------------------------------------------------------------------------
(* Properties.  Healthy states are those an application that has seen no   *)
(* error since it opened the device can be in.                             *)

Healthy == open /\ clean

CanSleep == IsR82xx(s) \/ s.type = "E4000"

(* The demodulator samples the antenna directly. *)
DirectPath == ~s.zif /\ ~s.inv

(* The HF input of a Blog V4 or V4L goes through its upconverter. *)
Upconverted == s.dongle \in {"V4", "V4L"} /\ s.chip["input"] = HF /\ ~s.gpio5

(* The band filter in front of a Fitipower or FCI tuner passes its LO.     *)
BandPasses ==
    LET lo == s.chip["pll"].out
    IN  CASE s.dongle = "FC0012" -> s.gpio6 <=> lo > 300000
          [] s.dongle = "FC0013" -> s.chip["input"] = 1 <=> lo >= 300000
          [] s.dongle = "FC2580" -> s.chip["input"] = BandOf(lo)
          [] OTHER -> TRUE

(* The frequency in the middle of the received band, from the hardware:    *)
(* nothing when the tuner's band is another one.  An R82xx mixes to an IF  *)
(* below its LO, the others to zero.                                       *)
Heard ==
    IF DirectPath THEN s.ifr.f
    ELSE IF ~BandPasses THEN 0
    ELSE IF ~IsR82xx(s) THEN s.chip["pll"].out + s.ifr.f
    ELSE s.chip["pll"].out - s.ifr.f - IF Upconverted THEN 28800 ELSE 0

(* What the tuner of a dongle is good for.  An R82xx below 28 MHz needs an *)
(* LO its divider search does not reach, and at exactly 28.8 MHz a V4 has  *)
(* the upconverter in the path but does not count on it.  From 1074 MHz on *)
(* the product of an FC0012 wraps, and from 1391 MHz on it looks valid.    *)
InRange(f) ==
    CASE s.dongle \in {"R820T", "R828D"} -> 28000 <= f /\ f <= 1700000
      [] s.dongle \in {"V4", "V4L"} -> 1 <= f /\ f <= 1700000 /\ f # 28800
      [] s.dongle = "FC0012" -> 14000 <= f /\ f <= 948000
      [] OTHER -> 64000 <= f /\ f <= 1700000

(* Sampled directly, the antenna is heard modulo the sampling clock. *)
Expected == IF DirectPath THEN s.freq % RtlXtal ELSE s.freq

(* Whatever settings were made, in whatever order, the band received is    *)
(* centred on the frequency rtlsdr_get_center_freq() returns: LO, IF,      *)
(* offset, upconverter and the two paths agree.  Not claimed once direct   *)
(* sampling was set while offset tuning was on (mixed).                    *)
Centred ==
    Healthy /\ ~mixed /\ s.freq # 0 /\ (s.ds # 0 \/ InRange(s.freq)) => Heard = Expected

(* dev->direct_sampling tells the path the hardware is on, the input that  *)
(* is sampled and whether the tuner is awake, also after the mode switches *)
(* that rtlsdr_set_center_freq() makes by itself.  Tuners without standby  *)
(* stay awake.                                                             *)
ModeAgrees ==
    Healthy => /\ s.ds # 0 <=> DirectPath
               /\ s.ds # 0 => s.swap = (s.ds > 1)
               /\ HasTuner(s) => (s.ds = 0 \/ ~CanSleep <=> s.chip["power"] = 1)

(* The frequency in use was computed with the crystal correction in force, *)
(* by the tuner driver or, sampled directly, by the demodulator's IF.  The *)
(* crystal of an FC2580 is never corrected.                                *)
CorrectionApplied ==
    Healthy /\ s.freq # 0 => IF s.ds # 0 THEN s.ifr.ppm = s.corr
                             ELSE s.type # "FC2580" => s.chip["pll"].ppm = s.corr

(* The tuner is never addressed with the I2C repeater off, and the         *)
(* repeater is off between calls, also where set_bw tunes within a call    *)
(* that has switched the repeater itself.                                  *)
RepeaterDiscipline == Healthy => ~s.blind /\ ~s.rep

(* rtlsdr_set_center_freq() and _rtlsdr_set_direct_sampling() call each    *)
(* other at most three tunings deep, whatever transfers fail.              *)
RecursionBounded == ~s.deep

(* With an R82xx, FC0012 or FC0013 no call begun after the dongle was      *)
(* pulled reports success, but for those that may find nothing to write.   *)
UnplugTold ==
    /\ IsR82xx(s) /\ ret.op \notin {"none", "close", "gain_mode"} => ~ret.ok
    /\ IsFc001x(s) /\ ret.op \notin {"none", "close", "gain_mode", "width"} => ~ret.ok

=============================================================================
