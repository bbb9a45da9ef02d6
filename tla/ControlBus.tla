----------------------------- MODULE ControlBus ------------------------------
(***************************************************************************)
(* The control path below the librtlsdr API: USB control transfers to the  *)
(* demodulator and, through its I2C repeater, to the tuner chip.           *)
(*                                                                         *)
(* An API call is sequential code, so a call is one step and the functions *)
(* it makes are operators from state to state.  The state s is a record    *)
(* that holds the fields of struct rtlsdr_dev and of the tuner drivers,    *)
(* what the hardware holds, and rc, the result of the last function.  A    *)
(* transfer fails when s.fault says so; every function then takes the path *)
(* the code takes on that result.                                          *)
(***************************************************************************)
EXTENDS Integers, Sequences

(* The groups of tuner registers a driver writes.                          *)
(*   mux, pll, auto   tracking filter, synthesiser, autotune clock         *)
(*   filt             channel filter, its width in kHz                     *)
(*   agc, gain, vga   gain mode and gains                                  *)
(*   input, power     antenna input, running (1) or standby (0)            *)
Regs == {"mux", "pll", "auto", "filt", "agc", "gain", "vga", "input", "power"}

NoLo == [out |-> 0, ppm |-> 0]

Blank == [g \in Regs |-> IF g = "pll" THEN NoLo ELSE 0]

(* When a call's transfers fail: never, the at-th one only, or the at-th   *)
(* and all after it because the dongle was pulled.                         *)
NoFault == [kind |-> "none", at |-> 0]

FaultHits(s) ==
    \/ s.fault.kind = "once" /\ s.n = s.fault.at
    \/ s.fault.kind = "lost" /\ s.n >= s.fault.at

(* How a caller goes on after a call: on success only; in any case,        *)
(* or-ing the results; or dropping the result.  rc is the result before.   *)
Then(s, F(_)) == IF s.rc < 0 THEN s ELSE F(s)

OrRc(rc, s) == [s EXCEPT !.rc = IF rc # 0 THEN rc ELSE @]

Keep(rc, s) == [s EXCEPT !.rc = rc]

Ok(s) == [s EXCEPT !.rc = 0]

Fail(s) == [s EXCEPT !.rc = -1]

(* rtlsdr_write_reg(), rtlsdr_demod_write_reg(), rtlsdr_write_array(): one *)
(* register or one run of bytes of one register is written, or is not.     *)
Access(s, Effect(_)) ==
    LET t == [s EXCEPT !.n = @ + 1]
    IN  IF FaultHits(t) THEN Fail(t) ELSE Ok(Effect(t))

(* The same through the repeater: with the repeater off no tuner answers.  *)
TunerAccess(s, Effect(_)) ==
    IF s.rep THEN Access(s, Effect)
    ELSE Fail([s EXCEPT !.n = @ + 1, !.blind = TRUE])

TunerRead(s) == TunerAccess(s, LAMBDA t : t)

Demod(s, field, val) == Access(s, LAMBDA t : [t EXCEPT ![field] = val])

(* A demodulator write whose result is or-ed to the one before, dropped.   *)
OrDemod(s, field, val) == OrRc(s.rc, Demod(s, field, val))

DropDemod(s, field, val) == Keep(s.rc, Demod(s, field, val))

(* A transfer that changes nothing the model keeps. *)
Touch(s) == Access(s, LAMBDA t : t)

(* rtlsdr_set_i2c_repeater() drops the result of its write. *)
Repeater(s, on) == DropDemod(s, "rep", on)

(* rtlsdr_set_if_freq(): the DDC shift, a 22-bit fraction of the crystal   *)
(* as corrected now, so it repeats every RtlXtal.  Three byte writes.      *)
RtlXtal == 28800

IfWord(s, freq) == [f |-> freq % RtlXtal, ppm |-> s.corr]

SetIfFreq(s, freq) == Demod(s, "ifr", IfWord(s, freq))

(* rtlsdr_set_sample_freq_correction() *)
SetSampleFreqCorrection(s, ppm) == Demod(s, "sync", ppm)

(* rtlsdr_set_gpio_output() and rtlsdr_set_gpio_bit(): read, modify and    *)
(* write of the GPIO registers, results dropped.                           *)
SetGpio(s, pin, on) == Keep(s.rc, Access(s, LAMBDA u : [u EXCEPT ![pin] = on]))

=============================================================================
