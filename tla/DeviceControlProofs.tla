-------------------------- MODULE DeviceControlProofs --------------------------
(***************************************************************************)
(* The properties of the control half of librtlsdr, for every dongle, every*)
(* set of frequencies, rates, gains and corrections, and any number of     *)
(* calls: the path agrees with the mode, the correction is in the tuning   *)
(* in use, the repeater is off between calls and never forgotten within    *)
(* one, the recursion of tuning and mode switching is bounded, a pulled    *)
(* dongle is reported, and the band received is centred on the frequency   *)
(* in use.                                                                 *)
(*                                                                         *)
(* A call is a chain of register accesses.  Each operator of the model, up *)
(* from one access, has a lemma that says which fields it may write (Only, *)
(* Steers), what it leaves when no transfer fails (Calm, Live), and what   *)
(* it returns when the dongle is gone (Dead).  The chain is then composed, *)
(* first within a tuner driver, then through the switches of the repeater, *)
(* then through the mutual recursion of tuning and switching, whose depth  *)
(* follows from the mode a frequency asks for being the same in every      *)
(* round.  ControlInv is the invariant of the calls.                       *)
(*                                                                         *)
(* The last sections follow the same chain again, with no transfer         *)
(* failing, for what the settings are worth together (Fit): what the LO    *)
(* is tuned to, the input and the band filter it comes through, the IF of  *)
(* the tuner and of the demodulator, and the offset between the two.       *)
(* CentreInv is the invariant they lead to.                                *)
(***************************************************************************)
EXTENDS DeviceControl, WellFoundedInduction, TLAPS

Types == {"R820T", "R828D", "E4000", "FC0012", "FC0013", "FC2580", "none"}

StateFields ==
    {"type", "v4", "v4l", "xtal", "freq", "rate", "bw", "gain", "corr", "offs", "ds", "mode",
     "ppm", "intf", "ready", "input", "lock", "shadow", "blind", "dongle", "edge", "chip",
     "rep", "gpio5", "gpio6", "ifr", "zif", "inv", "adc", "swap", "resamp", "sync", "n",
     "fault", "turn", "deep", "rc"}

(* What a tuner driver writes of the state.                                *)
DriverFields == {"chip", "shadow", "intf", "ready", "input", "lock", "gpio5", "gpio6",
                 "n", "rc", "blind"}

Rec(t) ==
    /\ DOMAIN t = StateFields
    /\ DOMAIN t.chip = Regs /\ DOMAIN t.shadow = Regs
    /\ t.type \in Types /\ t.n \in Nat /\ t.rc \in {-1, 0, 1}

(* Nothing fails and the repeater is on; the dongle is gone.               *)
Live(t) == t.fault = NoFault /\ t.rep
Dead(t) == t.fault = Gone

(* The driver took the dongle for what it is, and knows its crystal.       *)
Known(t) ==
    /\ t.dongle \in Kinds /\ t.type = TypeOf(t.dongle)
    /\ t.v4 = (t.dongle = "V4") /\ t.v4l = (t.dongle = "V4L")
    /\ t.xtal = Crystal(t.dongle) /\ t.xtal = IF t.dongle = "R828D" THEN 160 ELSE 288

(* A driver leads from u to t: it keeps the repeater and the rest of the   *)
(* settings, and does not talk past the repeater.                          *)
Driven(u, t) ==
    /\ Rec(u) => Rec(t)
    /\ \A f \in StateFields \ DriverFields : t[f] = u[f]
    /\ u.rep => t.blind = u.blind

(* What decides on the band received, beside the registers: the notes of   *)
(* an R82xx driver and the two GPIOs.                                      *)
Marks == {"intf", "input", "lock", "gpio5", "gpio6"}

(* It writes the registers and the marks in R at most, and the note that   *)
(* it is initialised stays.                                                *)
Steers(R, u, t) ==
    /\ Driven(u, t)
    /\ t.ready = u.ready
    /\ \A g \in Regs \ R : t.chip[g] = u.chip[g]
    /\ \A m \in Marks \ R : t[m] = u[m]

(* The shadow still is what the chip holds.                                *)
Agree(t) == \A g \in Regs : t.chip[g] = t.shadow[g]

Shadows(u, t) == Live(u) /\ Agree(u) => Agree(t)

LEMMA DrivenTwice ==
    ASSUME NEW r, NEW u, NEW t, Driven(r, u), Driven(u, t)
    PROVE  Driven(r, t) /\ (Live(r) => Live(u)) /\ (Dead(r) => Dead(u))
  BY DEF Driven, Live, Dead, StateFields, DriverFields

LEMMA SteersTwice ==
    ASSUME NEW S, NEW R \in SUBSET S, NEW Q \in SUBSET S, NEW r, NEW u, NEW t,
           Steers(R, r, u), Steers(Q, u, t)
    PROVE  Steers(S, r, t)
<1>1. Driven(r, t)
  BY DrivenTwice DEF Steers
<1> QED
  BY <1>1 DEF Steers

LEMMA SteersMore ==
    ASSUME NEW Q, NEW R \in SUBSET Q, NEW u, NEW t, Steers(R, u, t)
    PROVE  Steers(Q, u, t)
  BY DEF Steers

(* Only rc changes.                                                        *)
LEMMA Results ==
    ASSUME NEW u, Rec(u), NEW c \in {-1, 0, 1}
    PROVE  /\ Steers({}, u, [u EXCEPT !.rc = c]) /\ Shadows(u, [u EXCEPT !.rc = c])
           /\ [u EXCEPT !.rc = c].rc = c
           /\ [u EXCEPT !.rc = c].chip = u.chip
           /\ [u EXCEPT !.rc = c].shadow = u.shadow
  BY DEF Rec, Steers, Driven, Shadows, Agree, Live, StateFields, DriverFields, Types, Marks

(* A write to the tuner and a read; FcWrite is RegWrite.                    *)
LEMMA Written ==
    ASSUME NEW u, Rec(u), NEW reg, NEW val
    PROVE  /\ Steers({reg}, u, RegWrite(u, reg, val))
           /\ Live(u) => /\ RegWrite(u, reg, val).rc = 0
                         /\ reg \in Regs => RegWrite(u, reg, val).chip[reg] = val
           /\ Dead(u) => RegWrite(u, reg, val).rc = -1
           /\ RegWrite(u, reg, val).rc \in {-1, 0}
<1> DEFINE t == RegWrite(u, reg, val)
<1>1. DOMAIN u = StateFields /\ DOMAIN u.chip = Regs /\ u.n \in Nat
  BY DEF Rec
<1>2. DOMAIN t = StateFields /\ t.n = u.n + 1 /\ t.rc \in {-1, 0}
  BY <1>1 DEF RegWrite, TunerAccess, Access, Ok, Fail, StateFields
<1>3. \A f \in StateFields \ {"chip", "n", "rc", "blind"} : t[f] = u[f]
  BY <1>1 DEF RegWrite, TunerAccess, Access, Ok, Fail, StateFields
<1>4. t.chip = u.chip \/ t.chip = [u.chip EXCEPT ![reg] = val]
  BY <1>1 DEF RegWrite, TunerAccess, Access, Ok, Fail, StateFields
<1>5. u.rep => t.blind = u.blind
  BY <1>1 DEF RegWrite, TunerAccess, Access, Ok, Fail, StateFields
<1>6. Live(u) => t.rc = 0 /\ t.chip = [u.chip EXCEPT ![reg] = val]
  BY <1>1 DEF Live, NoFault, FaultHits, RegWrite, TunerAccess, Access, Ok, StateFields
<1>7. Dead(u) => t.rc = -1
  BY <1>1 DEF Dead, Gone, FaultHits, RegWrite, TunerAccess, Access, Fail, StateFields
<1> HIDE DEF t
<1>8. Steers({reg}, u, t)
  BY <1>1, <1>2, <1>3, <1>4, <1>5 DEF Rec, Steers, Driven, StateFields, DriverFields, Marks
<1>9. Live(u) /\ reg \in Regs => t.chip[reg] = val
  BY <1>1, <1>6
<1> QED
  BY <1>2, <1>6, <1>7, <1>8, <1>9 DEF t

LEMMA ReadDone ==
    ASSUME NEW u, Rec(u)
    PROVE  /\ Steers({}, u, TunerRead(u)) /\ Shadows(u, TunerRead(u))
           /\ Live(u) => TunerRead(u).rc = 0
           /\ Dead(u) => TunerRead(u).rc = -1
           /\ TunerRead(u).chip = u.chip /\ TunerRead(u).rc \in {-1, 0}
<1> DEFINE t == TunerRead(u)
<1>1. DOMAIN u = StateFields /\ u.n \in Nat
  BY DEF Rec
<1>2. DOMAIN t = StateFields /\ t.n = u.n + 1 /\ t.rc \in {-1, 0}
  BY <1>1 DEF TunerRead, TunerAccess, Access, Ok, Fail, StateFields
<1>3. \A f \in StateFields \ {"n", "rc", "blind"} : t[f] = u[f]
  BY <1>1 DEF TunerRead, TunerAccess, Access, Ok, Fail, StateFields
<1>5. u.rep => t.blind = u.blind
  BY <1>1 DEF TunerRead, TunerAccess, Access, Ok, Fail, StateFields
<1>6. Live(u) => t.rc = 0
  BY <1>1 DEF Live, NoFault, FaultHits, TunerRead, TunerAccess, Access, Ok, StateFields
<1>7. Dead(u) => t.rc = -1
  BY <1>1 DEF Dead, Gone, FaultHits, TunerRead, TunerAccess, Access, Fail, StateFields
<1> HIDE DEF t
<1>8. t.chip = u.chip /\ t.shadow = u.shadow
  BY <1>3 DEF StateFields
<1>9. Steers({}, u, t)
  BY <1>1, <1>2, <1>3, <1>5, <1>8 DEF Rec, Steers, Driven, StateFields, DriverFields, Marks
<1> QED
  BY <1>2, <1>6, <1>7, <1>8, <1>9 DEF t, Shadows, Agree

LEMMA PutDone ==
    ASSUME NEW u, Rec(u), NEW reg \in Regs, NEW val
    PROVE  /\ Steers({reg}, u, Put(u, reg, val)) /\ Shadows(u, Put(u, reg, val))
           /\ Put(u, reg, val).rc \in {-1, 0}
           /\ Live(u) => Put(u, reg, val).rc = 0
           /\ Live(u) /\ Agree(u) => Put(u, reg, val).chip[reg] = val
<1>1. CASE u.shadow[reg] = val
  <2>1. Put(u, reg, val) = [u EXCEPT !.rc = 0]
    BY <1>1 DEF Put, Ok
  <2>2. Steers({reg}, u, Put(u, reg, val))
    BY <2>1, Results, SteersMore
  <2>3. Put(u, reg, val).rc = 0 /\ Put(u, reg, val).chip = u.chip
    BY <2>1 DEF Rec, StateFields
  <2>4. Shadows(u, Put(u, reg, val))
    BY <2>1, Results
  <2>5. Agree(u) => u.chip[reg] = val
    BY <1>1 DEF Agree
  <2> QED
    BY <2>2, <2>3, <2>4, <2>5
<1>2. CASE u.shadow[reg] # val
  <2> DEFINE r == [u EXCEPT !.shadow[reg] = val]
  <2>1. Put(u, reg, val) = RegWrite(r, reg, val)
    BY <1>2 DEF Put, RegWrite
  <2>2. /\ DOMAIN r = StateFields /\ \A f \in StateFields \ {"shadow"} : r[f] = u[f]
        /\ r.shadow = [u.shadow EXCEPT ![reg] = val]
    BY DEF Rec, StateFields
  <2> HIDE DEF r
  <2>3. Rec(r) /\ Steers({}, u, r) /\ (Live(u) => Live(r))
    BY <2>2 DEF Rec, Steers, Driven, Live, StateFields, DriverFields, Marks
  <2>4. PICK t : t = RegWrite(r, reg, val)
    OBVIOUS
  <2>5. Steers({reg}, r, t) /\ t.rc \in {-1, 0} /\ (Live(r) => t.rc = 0 /\ t.chip[reg] = val)
    BY <2>3, <2>4, Written
  <2>6. Steers({reg}, u, t)
    BY <2>3, <2>5, SteersMore, SteersTwice
  <2>7. Live(r) => t.chip = [u.chip EXCEPT ![reg] = val] /\ t.shadow = r.shadow
    BY <2>2, <2>4 DEF Rec, RegWrite, TunerAccess, Access, FaultHits, Live, NoFault, Ok, StateFields
  <2>8. Shadows(u, t)
    <3>1. SUFFICES ASSUME Live(u), Agree(u), NEW g \in Regs PROVE t.chip[g] = t.shadow[g]
      BY DEF Shadows, Agree
    <3>2. t.chip = [u.chip EXCEPT ![reg] = val] /\ t.shadow = [u.shadow EXCEPT ![reg] = val]
      BY <2>2, <2>3, <2>7, <3>1
    <3>3. u.chip[g] = u.shadow[g] /\ DOMAIN u.chip = Regs /\ DOMAIN u.shadow = Regs
      BY <3>1 DEF Agree, Rec
    <3> QED
      BY <3>2, <3>3
  <2> QED
    BY <2>1, <2>3, <2>4, <2>5, <2>6, <2>8
<1> QED
  BY <1>1, <1>2

LEMMA Same ==
    ASSUME NEW R, NEW u, NEW t, Rec(u), Steers(R, u, t)
    PROVE  /\ Rec(t) /\ (Live(u) => Live(t)) /\ (Dead(u) => Dead(t))
           /\ t.type = u.type /\ t.v4 = u.v4 /\ t.v4l = u.v4l /\ t.edge = u.edge
           /\ t.corr = u.corr /\ t.ppm = u.ppm /\ t.ready = u.ready
           /\ t.dongle = u.dongle /\ Known(t) = Known(u)
<1>1. /\ Rec(t) /\ (Live(u) => Live(t)) /\ (Dead(u) => Dead(t))
      /\ t.type = u.type /\ t.v4 = u.v4 /\ t.v4l = u.v4l /\ t.edge = u.edge
      /\ t.corr = u.corr /\ t.ppm = u.ppm /\ t.ready = u.ready
      /\ t.dongle = u.dongle /\ t.xtal = u.xtal
  BY DEF Steers, Driven, Live, Dead, StateFields, DriverFields
<1>2. Known(t) = Known(u)
  BY <1>1 DEF Known
<1> QED
  BY <1>1, <1>2

-----------------------------------------------------------------------------
(* The drivers of the E4000, the FC0012, the FC0013 and the FC2580.        *)

LEMMA Opened ==
    ASSUME NEW u, Rec(u), NEW c \in {-1, 0, 1}
    PROVE  /\ Steers({}, u, Ok(u)) /\ Steers({}, u, Fail(u)) /\ Steers({}, u, Keep(c, u))
           /\ Steers({}, u, OrRc(c, u))
           /\ Ok(u).rc = 0 /\ Fail(u).rc = -1 /\ Keep(c, u).rc = c
           /\ OrRc(c, u).rc = IF c # 0 THEN c ELSE u.rc
           /\ Ok(u).chip = u.chip /\ Fail(u).chip = u.chip /\ Keep(c, u).chip = u.chip
           /\ OrRc(c, u).chip = u.chip
<1>1. u.rc \in {-1, 0, 1}
  BY DEF Rec
<1>2. PICK d \in {-1, 0, 1} : d = IF c # 0 THEN c ELSE u.rc
  BY <1>1
<1>3. OrRc(c, u) = [u EXCEPT !.rc = d]
  BY <1>2 DEF OrRc
<1>4. /\ Ok(u) = [u EXCEPT !.rc = 0] /\ Fail(u) = [u EXCEPT !.rc = -1]
      /\ Keep(c, u) = [u EXCEPT !.rc = c]
  BY DEF Ok, Fail, Keep
<1>5. Steers({}, u, OrRc(c, u)) /\ OrRc(c, u).rc = d /\ OrRc(c, u).chip = u.chip
  BY <1>3, Results, ZenonT(60)
<1>6. Steers({}, u, Ok(u)) /\ Ok(u).rc = 0 /\ Ok(u).chip = u.chip
  BY <1>4, Results
<1>7. Steers({}, u, Fail(u)) /\ Fail(u).rc = -1 /\ Fail(u).chip = u.chip
  BY <1>4, Results
<1>8. Steers({}, u, Keep(c, u)) /\ Keep(c, u).rc = c /\ Keep(c, u).chip = u.chip
  <2>1. Keep(c, u) = [u EXCEPT !.rc = c]
    BY <1>4
  <2> QED
    BY <2>1, Results
<1> QED
  BY <1>2, <1>5, <1>6, <1>7, <1>8

LEMMA Kept ==
    ASSUME NEW u, Rec(u), NEW w, Rec(w)
    PROVE  /\ Steers({}, u, Keep(w.rc, u)) /\ Steers({}, u, OrRc(w.rc, u))
           /\ Keep(w.rc, u).rc = w.rc /\ OrRc(w.rc, u).rc = IF w.rc # 0 THEN w.rc ELSE u.rc
           /\ Keep(w.rc, u).chip = u.chip /\ OrRc(w.rc, u).chip = u.chip
<1>1. PICK c \in {-1, 0, 1} : c = w.rc
  BY DEF Rec
<1> QED
  BY <1>1, Opened

LEMMA MaskDone ==
    ASSUME NEW u, Rec(u), NEW reg, NEW val
    PROVE  /\ Steers({reg}, u, SetMask(u, reg, val))
           /\ Live(u) => SetMask(u, reg, val).rc = 0
           /\ Live(u) /\ reg \in Regs => SetMask(u, reg, val).chip[reg] = val
<1>1. PICK r : r = TunerRead(u)
  OBVIOUS
<1>2. PICK t : t = RegWrite(r, reg, val)
  OBVIOUS
<1>3. Steers({}, u, r)
  BY <1>1, ReadDone
<1>4. Rec(r) /\ (Live(u) => Live(r))
  BY <1>3, Same
<1>5. Steers({reg}, r, t) /\ (Live(r) => t.rc = 0 /\ (reg \in Regs => t.chip[reg] = val))
  BY <1>2, <1>4, Written
<1>6. Steers({reg}, u, t)
  BY <1>3, <1>5, SteersTwice
<1> QED
  BY <1>1, <1>2, <1>4, <1>5, <1>6 DEF SetMask

(* All the registers are written at once.                                  *)
Renewed(u, c) == TunerAccess(u, LAMBDA t : [t EXCEPT !.chip = c])

LEMMA RenewDone ==
    ASSUME NEW u, Rec(u), NEW c, DOMAIN c = Regs
    PROVE  /\ Steers(Regs, u, Renewed(u, c)) /\ Renewed(u, c).shadow = u.shadow
           /\ Renewed(u, c).chip = u.chip \/ Renewed(u, c).chip = c
           /\ Live(u) => Renewed(u, c).rc = 0 /\ Renewed(u, c).chip = c
           /\ Dead(u) => Renewed(u, c).rc = -1
<1> DEFINE t == Renewed(u, c)
<1>1. DOMAIN u = StateFields /\ DOMAIN u.chip = Regs /\ u.n \in Nat
  BY DEF Rec
<1>2. DOMAIN t = StateFields /\ t.n = u.n + 1 /\ t.rc \in {-1, 0}
  BY <1>1 DEF Renewed, TunerAccess, Access, Ok, Fail, StateFields
<1>3. \A f \in StateFields \ {"chip", "n", "rc", "blind"} : t[f] = u[f]
  BY <1>1 DEF Renewed, TunerAccess, Access, Ok, Fail, StateFields
<1>4. t.chip = u.chip \/ t.chip = c
  BY <1>1 DEF Renewed, TunerAccess, Access, Ok, Fail, StateFields
<1>5. u.rep => t.blind = u.blind
  BY <1>1 DEF Renewed, TunerAccess, Access, Ok, Fail, StateFields
<1>6. Live(u) => t.rc = 0 /\ t.chip = c
  BY <1>1 DEF Live, NoFault, FaultHits, Renewed, TunerAccess, Access, Ok, StateFields
<1>7. Dead(u) => t.rc = -1
  BY <1>1 DEF Dead, Gone, FaultHits, Renewed, TunerAccess, Access, Fail, StateFields
<1> HIDE DEF t
<1>8. Steers(Regs, u, t)
  BY <1>1, <1>2, <1>3, <1>4, <1>5 DEF Rec, Steers, Driven, StateFields, DriverFields, Marks
<1>9. t.shadow = u.shadow
  BY <1>3 DEF StateFields
<1> QED
  BY <1>4, <1>6, <1>7, <1>8, <1>9 DEF t

(* The E4000. *)
LEMMA E4kTuned ==
    ASSUME NEW u, Rec(u), NEW f
    PROVE  /\ Steers({"pll", "mux"}, u, E4kTuneFreq(u, f))
           /\ Live(u) => E4kTuneFreq(u, f).chip["pll"] = [out |-> f, ppm |-> u.ppm]
<1>1. PICK v : v = [out |-> f, ppm |-> u.ppm]
  OBVIOUS
<1>2. PICK a : a = RegWrite(u, "pll", v)
  OBVIOUS
<1>3. PICK b : b = Keep(u.rc, a)
  OBVIOUS
<1>4. PICK c : c = SetMask(b, "mux", f)
  OBVIOUS
<1>5. PICK d : d = Keep(b.rc, c)
  OBVIOUS
<1>6. PICK e : e = TunerRead(d)
  OBVIOUS
<1>7. E4kTuneFreq(u, f) = Fail(e) \/ E4kTuneFreq(u, f) = Ok(e)
  BY <1>1, <1>2, <1>3, <1>4, <1>5, <1>6 DEF E4kTuneFreq
<1>8. PICK t : t = E4kTuneFreq(u, f)
  OBVIOUS
<1> DEFINE S == {"pll", "mux"}
<1>9. Steers({"pll"}, u, a) /\ Rec(a) /\ (Live(u) => Live(a) /\ a.chip["pll"] = v)
  BY <1>2, Written, Same DEF Regs
<1>10. Steers({}, a, b) /\ Rec(b) /\ b.chip = a.chip
  BY <1>3, <1>9, Kept, Same
<1>11. Steers({"mux"}, b, c) /\ Rec(c)
  BY <1>4, <1>10, MaskDone, Same
<1>12. Steers({}, c, d) /\ Rec(d)
  BY <1>5, <1>10, <1>11, Kept, Same
<1>13. Steers({}, d, e) /\ Rec(e)
  BY <1>6, <1>12, ReadDone, Same
<1>14. Steers({}, e, t)
  BY <1>7, <1>8, <1>13, Opened
<1>15. Steers({"mux"}, b, t)
  <2>1. Steers({"mux"}, b, d)
    BY <1>11, <1>12, SteersTwice
  <2>2. Steers({"mux"}, b, e)
    BY <2>1, <1>13, SteersTwice
  <2> QED
    BY <2>2, <1>14, SteersTwice
<1>16. t.chip["pll"] = b.chip["pll"]
  BY <1>15 DEF Steers, Regs
<1>17. Steers({"pll"}, u, b)
  BY <1>9, <1>10, SteersTwice
<1>18. Steers(S, u, t)
  BY <1>15, <1>17, SteersTwice
<1> QED
  BY <1>1, <1>8, <1>9, <1>10, <1>16, <1>18

LEMMA E4kSet ==
    ASSUME NEW u, Rec(u), NEW v
    PROVE  /\ Steers({"filt"}, u, E4kSetBw(u, v))
           /\ Steers({"gain"}, u, E4kSetGain(u, v))
           /\ Steers({"agc"}, u, E4kSetGainMode(u, v))
<1>1. Steers({"filt"}, u, E4kSetBw(u, v))
  <2>1. PICK r : r = TunerRead(u)
    OBVIOUS
  <2>2. Steers({}, u, r) /\ Rec(r)
    BY <2>1, ReadDone, Same
  <2>3. PICK t : t = SetMask(r, "filt", v)
    OBVIOUS
  <2>4. Steers({"filt"}, r, t)
    BY <2>2, <2>3, MaskDone
  <2>5. E4kSetBw(u, v) = r \/ E4kSetBw(u, v) = t
    BY <2>1, <2>3 DEF E4kSetBw, FieldWrite, Then
  <2>6. Steers({"filt"}, u, r) /\ Steers({"filt"}, u, t)
    BY <2>2, <2>4, SteersTwice, SteersMore
  <2> QED
    BY <2>5, <2>6
<1>2. Steers({"gain"}, u, E4kSetGain(u, v))
  <2>1. PICK r : r = SetMask(u, "gain", v)
    OBVIOUS
  <2>2. Steers({"gain"}, u, r) /\ Rec(r)
    BY <2>1, MaskDone, Same
  <2>3. Steers({"gain"}, u, Ok(r))
    BY <2>2, Opened, SteersTwice
  <2>4. Steers({"gain"}, u, Fail(u))
    BY Opened, SteersMore
  <2> QED
    BY <2>1, <2>3, <2>4 DEF E4kSetGain
<1>3. Steers({"agc"}, u, E4kSetGainMode(u, v))
  <2>1. PICK w : w = IF v THEN 0 ELSE 1
    OBVIOUS
  <2>2. PICK r : r = SetMask(u, "agc", w)
    OBVIOUS
  <2>3. Steers({"agc"}, u, r) /\ Rec(r)
    BY <2>2, MaskDone, Same
  <2>4. Steers({"agc"}, u, Ok(r))
    BY <2>3, Opened, SteersTwice
  <2> QED
    BY <2>1, <2>2, <2>4 DEF E4kSetGainMode
<1> QED
  BY <1>1, <1>2, <1>3

LEMMA E4kPower ==
    ASSUME NEW u, Rec(u)
    PROVE  /\ Steers({"power"}, u, E4kExit(u))
           /\ Live(u) => E4kExit(u).chip["power"] = 0
           /\ Steers(Regs, u, E4kInit(u))
           /\ Live(u) => E4kInit(u).chip["power"] = 1
<1>1. Steers({"power"}, u, E4kExit(u)) /\ (Live(u) => E4kExit(u).chip["power"] = 0)
  <2>1. PICK r : r = SetMask(u, "power", 0)
    OBVIOUS
  <2>2. Steers({"power"}, u, r) /\ Rec(r) /\ (Live(u) => r.chip["power"] = 0)
    BY <2>1, MaskDone, Same DEF Regs
  <2>3. Steers({}, r, Ok(r)) /\ Ok(r).chip = r.chip
    BY <2>2, Opened
  <2>4. Steers({"power"}, u, Ok(r))
    BY <2>2, <2>3, SteersTwice
  <2> QED
    BY <2>1, <2>2, <2>3, <2>4 DEF E4kExit
<1>2. Steers(Regs, u, E4kInit(u)) /\ (Live(u) => E4kInit(u).chip["power"] = 1)
  <2>1. PICK r : r = TunerRead(u)
    OBVIOUS
  <2>2. PICK c : c = [Blank EXCEPT !["power"] = 1]
    OBVIOUS
  <2>3. PICK a : a = Renewed(r, c)
    OBVIOUS
  <2>4. PICK b : b = SetMask(SetMask(SetMask(a, "agc", 1), "vga", 6), "filt", 1900)
    OBVIOUS
  <2>5. E4kInit(u) = Ok(b)
    BY <2>1, <2>2, <2>3, <2>4 DEF E4kInit, Renewed
  <2>6. Steers({}, u, r) /\ Rec(r) /\ (Live(u) => Live(r))
    BY <2>1, ReadDone, Same
  <2>7. Steers(Regs, r, a) /\ Rec(a) /\ (Live(r) => a.chip = c)
    BY <2>2, <2>3, <2>6, RenewDone, Same DEF Blank
  <2>8. c["power"] = 1
    BY <2>2 DEF Blank, Regs
  <2>9. Steers({"agc", "vga", "filt"}, a, b) /\ Rec(b)
    <3>1. PICK d : d = SetMask(a, "agc", 1)
      OBVIOUS
    <3>2. PICK e : e = SetMask(d, "vga", 6)
      OBVIOUS
    <3>3. Steers({"agc"}, a, d) /\ Rec(d)
      BY <2>7, <3>1, MaskDone, Same
    <3>4. Steers({"vga"}, d, e) /\ Rec(e)
      BY <3>2, <3>3, MaskDone, Same
    <3>5. Steers({"filt"}, e, b) /\ Rec(b)
      BY <2>4, <3>1, <3>2, <3>4, MaskDone, Same
    <3>6. Steers({"agc", "vga"}, a, e)
      BY <3>3, <3>4, SteersTwice
    <3> QED
      BY <3>5, <3>6, SteersTwice
  <2>10. Steers({}, b, Ok(b)) /\ Ok(b).chip = b.chip
    BY <2>9, Opened
  <2>11. Steers(Regs, u, Ok(b))
    <3>1. Steers(Regs, u, a)
      BY <2>6, <2>7, SteersTwice
    <3>2. Steers(Regs, a, b)
      BY <2>9, SteersMore DEF Regs
    <3>3. Steers(Regs, u, b)
      BY <3>1, <3>2, SteersTwice
    <3> QED
      BY <2>10, <3>3, SteersTwice
  <2>12. b.chip["power"] = a.chip["power"]
    BY <2>9 DEF Steers, Regs
  <2> QED
    BY <2>5, <2>6, <2>7, <2>8, <2>10, <2>11, <2>12
<1> QED
  BY <1>1, <1>2

(* The FC0012 and the FC0013.                                              *)
LEMMA FcWrote == ASSUME NEW u, NEW reg, NEW val PROVE FcWrite(u, reg, val) = RegWrite(u, reg, val)
  BY DEF FcWrite, RegWrite

LEMMA GpioSet ==
    ASSUME NEW u, Rec(u), NEW pin \in {"gpio5", "gpio6"}, NEW on
    PROVE  /\ Steers({pin}, u, SetGpio(u, pin, on)) /\ SetGpio(u, pin, on).rc = u.rc
           /\ Live(u) => SetGpio(u, pin, on)[pin] = on
           /\ SetGpio(u, pin, on).chip = u.chip /\ SetGpio(u, pin, on).shadow = u.shadow
<1> DEFINE t == SetGpio(u, pin, on)
<1>1. DOMAIN u = StateFields /\ u.n \in Nat
  BY DEF Rec
<1>2. DOMAIN t = StateFields /\ t.n = u.n + 1 /\ t.rc = u.rc
  BY <1>1 DEF SetGpio, Keep, Access, Ok, Fail, StateFields
<1>3. \A f \in StateFields \ {pin, "n", "rc"} : t[f] = u[f]
  BY <1>1 DEF SetGpio, Keep, Access, Ok, Fail, StateFields
<1>6. ASSUME Live(u) PROVE t[pin] = on
  <2>1. PICK w : w = [u EXCEPT !.n = @ + 1]
    OBVIOUS
  <2>2. DOMAIN w = StateFields /\ ~FaultHits(w)
    BY <1>1, <1>6, <2>1 DEF Live, NoFault, FaultHits, StateFields
  <2>3. PICK y : y = [w EXCEPT ![pin] = on]
    OBVIOUS
  <2>4. t = [[y EXCEPT !.rc = 0] EXCEPT !.rc = u.rc]
    BY <2>1, <2>2, <2>3 DEF SetGpio, Keep, Access, Ok
  <2>5. DOMAIN y = StateFields /\ y[pin] = on
    BY <2>2, <2>3 DEF StateFields
  <2> QED
    BY <2>4, <2>5 DEF StateFields
<1> HIDE DEF t
<1>4. t.chip = u.chip /\ t.shadow = u.shadow
  BY <1>3 DEF StateFields
<1>5. Steers({pin}, u, t)
  BY <1>1, <1>2, <1>3, <1>4 DEF Rec, Steers, Driven, StateFields, DriverFields, Marks
<1> QED
  BY <1>2, <1>4, <1>5, <1>6 DEF t

LEMMA FcInitDone ==
    ASSUME NEW u, Rec(u)
    PROVE  Steers(Regs, u, FcInit(u)) /\ (Live(u) => FcInit(u).chip["power"] = 1)
<1>1. PICK c : c = [Blank EXCEPT !["input"] = IF u.type = "FC0013" THEN 1 ELSE 0, !["power"] = 1]
  OBVIOUS
<1>2. FcInit(u) = Renewed(u, c)
  BY <1>1 DEF FcInit, Renewed
<1>3. DOMAIN c = Regs /\ c["power"] = 1
  BY <1>1 DEF Blank, Regs
<1> QED
  BY <1>2, <1>3, RenewDone

LEMMA VcoSelected ==
    ASSUME NEW u, Rec(u), NEW vco
    PROVE  Steers({"auto"}, u, SelectVco(u, vco))
<1>1. PICK a : a = FcWrite(u, "auto", HighRange(vco))
  OBVIOUS
<1>2. PICK b : b = TunerRead(a)
  OBVIOUS
<1>3. PICK c : c \in {a, b} /\ c = Then(a, TunerRead)
  BY <1>2 DEF Then
<1>4. PICK d : d = FcWrite(c, "auto", 1 - HighRange(vco))
  OBVIOUS
<1>5. SelectVco(u, vco) \in {c, d}
  BY <1>1, <1>3, <1>4 DEF SelectVco, Then
<1>6. Steers({"auto"}, u, a) /\ Rec(a)
  BY <1>1, FcWrote, Written, Same
<1>7. Steers({}, a, b)
  BY <1>2, <1>6, ReadDone
<1>8. Steers({"auto"}, u, b)
  BY <1>6, <1>7, SteersTwice
<1>9. Steers({"auto"}, u, c) /\ Rec(c)
  BY <1>3, <1>6, <1>8, Same
<1>10. Steers({"auto"}, c, d)
  BY <1>4, <1>9, FcWrote, Written
<1>11. Steers({"auto"}, u, d)
  BY <1>9, <1>10, SteersTwice
<1> QED
  BY <1>5, <1>9, <1>11

(* What is written to the synthesiser for f.                               *)
FcPll(u, f) ==
    LET vco == FVco(u, f)
    IN  [out |-> FcLo(u, vco, Cycles(XDiv(u, vco)), FcMultiple(u, f)), ppm |-> u.corr]

LEMMA FcTuned ==
    ASSUME NEW u, Rec(u), NEW f
    PROVE  /\ Steers({"pll", "filt", "auto"}, u, FcSetPll(u, f))
           /\ Live(u) /\ FcSetPll(u, f).rc = 0 => FcSetPll(u, f).chip["pll"] = FcPll(u, f)
           /\ Dead(u) => FcSetPll(u, f).rc = -1
<1>1. PICK vco : vco = FVco(u, f)
  OBVIOUS
<1>2. PICK c : c = Cycles(XDiv(u, vco))
  OBVIOUS
<1>3. CASE NoCombination(c)
  <2>1. FcSetPll(u, f) = Fail(u)
    BY <1>1, <1>2, <1>3 DEF FcSetPll
  <2> QED
    BY <2>1, Opened, SteersMore
<1>4. CASE ~NoCombination(c)
  <2>1. PICK v : v = [out |-> FcLo(u, vco, c, FcMultiple(u, f)), ppm |-> u.corr]
    OBVIOUS
  <2>2. PICK a : a = FcWrite(u, "pll", v)
    OBVIOUS
  <2>3. PICK b : b = Then(a, LAMBDA t : FcWrite(t, "filt", 6000))
    OBVIOUS
  <2>4. PICK d : d = Then(b, NoteMultiple)
    OBVIOUS
  <2>5. PICK e : e = Then(d, LAMBDA t : SelectVco(t, vco))
    OBVIOUS
  <2>6. FcSetPll(u, f) = e
    BY <1>1, <1>2, <1>4, <2>1, <2>2, <2>3, <2>4, <2>5 DEF FcSetPll, ProgramPll
  <2>7. Steers({"pll"}, u, a) /\ Rec(a) /\ (Live(u) => a.chip["pll"] = v) /\ (Dead(u) => a.rc = -1)
    BY <2>2, FcWrote, Written, Same DEF Regs
  <2>8. Steers({"filt", "auto"}, a, b) /\ Rec(b)
    <3>1. PICK t : t = FcWrite(a, "filt", 6000)
      OBVIOUS
    <3>2. Steers({"filt"}, a, t)
      BY <2>7, <3>1, FcWrote, Written
    <3>3. Steers({"filt", "auto"}, a, t)
      BY <3>2, SteersMore
    <3>4. Steers({"filt", "auto"}, a, a)
      BY <2>7 DEF Steers, Driven
    <3>5. b = a \/ b = t
      BY <2>3, <3>1 DEF Then
    <3> QED
      BY <2>7, <3>3, <3>4, <3>5, Same
  <2>9. Steers({"filt", "auto"}, a, d) /\ Rec(d)
    <3>1. PICK r : r = TunerRead(b)
      OBVIOUS
    <3>2. PICK t : t = TunerRead(r)
      OBVIOUS
    <3>3. d \in {b, r, t}
      BY <2>4, <3>1, <3>2 DEF Then, NoteMultiple
    <3>4. Steers({}, b, r) /\ Rec(r)
      BY <2>8, <3>1, ReadDone, Same
    <3>5. Steers({}, r, t)
      BY <3>2, <3>4, ReadDone
    <3>6. Steers({"filt", "auto"}, a, r)
      BY <2>8, <3>4, SteersTwice
    <3>7. Steers({"filt", "auto"}, a, t)
      BY <3>5, <3>6, SteersTwice
    <3> QED
      BY <2>7, <2>8, <3>3, <3>6, <3>7, Same
  <2>10. Steers({"filt", "auto"}, a, e)
    <3>1. PICK t : t = SelectVco(d, vco)
      OBVIOUS
    <3>2. Steers({"auto"}, d, t)
      BY <2>9, <3>1, VcoSelected
    <3>3. Steers({"filt", "auto"}, a, t)
      BY <2>9, <3>2, SteersTwice
    <3>4. e = d \/ e = t
      BY <2>5, <3>1 DEF Then
    <3> QED
      BY <2>9, <3>3, <3>4
  <2>11. Steers({"pll", "filt", "auto"}, u, e)
    BY <2>7, <2>10, SteersTwice
  <2>12. e.chip["pll"] = a.chip["pll"]
    BY <2>10 DEF Steers, Regs
  <2>13. Dead(u) => e = a
    BY <2>3, <2>4, <2>5, <2>7 DEF Then
  <2>14. v = FcPll(u, f)
    BY <1>1, <1>2, <2>1 DEF FcPll
  <2> QED
    BY <2>6, <2>7, <2>11, <2>12, <2>13, <2>14
<1> QED
  BY <1>3, <1>4

(* What GPIO 6 is set to for f.                                            *)
HighFilter(f) == f > 300000

LEMMA Fc0012Set ==
    ASSUME NEW u, Rec(u), NEW f
    PROVE  /\ Steers({"pll", "filt", "auto", "gpio6"}, u, Fc0012SetFreq(u, f))
           /\ Live(u) /\ Fc0012SetFreq(u, f).rc = 0 =>
                Fc0012SetFreq(u, f).chip["pll"] = FcPll(u, f)
           /\ Live(u) => Fc0012SetFreq(u, f).gpio6 = HighFilter(f)
           /\ Dead(u) => Fc0012SetFreq(u, f).rc = -1
           /\ Steers({"gain"}, u, Fc0012SetGain(u, f))
           /\ Dead(u) => Fc0012SetGain(u, f).rc = -1
<1>1. /\ Steers({"pll", "filt", "auto", "gpio6"}, u, Fc0012SetFreq(u, f))
      /\ Live(u) /\ Fc0012SetFreq(u, f).rc = 0 =>
           Fc0012SetFreq(u, f).chip["pll"] = FcPll(u, f)
      /\ Live(u) => Fc0012SetFreq(u, f).gpio6 = HighFilter(f)
      /\ Dead(u) => Fc0012SetFreq(u, f).rc = -1
  <2>1. PICK a : a = Ok(u)
    OBVIOUS
  <2>2. PICK b : b = SetGpio(a, "gpio6", HighFilter(f))
    OBVIOUS
  <2>3. PICK c : c = FcSetPll(b, f)
    OBVIOUS
  <2>4. Fc0012SetFreq(u, f) = c
    BY <2>1, <2>2, <2>3 DEF Fc0012SetFreq, HighFilter
  <2>5. Steers({}, u, a) /\ Rec(a)
    BY <2>1, Opened, Same
  <2>0. PICK on : on = HighFilter(f)
    OBVIOUS
  <2>6. Steers({"gpio6"}, a, b) /\ (Live(a) => b.gpio6 = on)
    BY <2>0, <2>2, <2>5, GpioSet
  <2>7. Steers({"gpio6"}, u, b)
    BY <2>5, <2>6, SteersTwice
  <2>8. Rec(b) /\ b.corr = u.corr /\ (Live(u) => Live(a) /\ Live(b)) /\ (Dead(u) => Dead(b))
        /\ FcPll(b, f) = FcPll(u, f)
    <3>1. b.type = u.type /\ b.xtal = u.xtal /\ b.corr = u.corr
      BY <2>7 DEF Steers, Driven, StateFields, DriverFields
    <3>2. FcPll(b, f) = FcPll(u, f)
      BY <3>1 DEF FcPll, FcLo, FVco, XDiv, HalfXtal, FcMultiple, DividersOf, LastDivider
    <3> QED
      BY <2>5, <2>7, <3>2, Same
  <2>9. /\ Steers({"pll", "filt", "auto"}, b, c)
        /\ Live(b) /\ c.rc = 0 => c.chip["pll"] = FcPll(b, f)
        /\ Dead(b) => c.rc = -1
    BY <2>3, <2>8, FcTuned
  <2>10. Steers({"pll", "filt", "auto", "gpio6"}, u, c)
    BY <2>7, <2>9, SteersTwice
  <2>11. c.gpio6 = b.gpio6
    BY <2>9 DEF Steers, Marks
  <2> QED
    BY <2>0, <2>4, <2>6, <2>8, <2>9, <2>10, <2>11
<1>2. Steers({"gain"}, u, Fc0012SetGain(u, f)) /\ (Dead(u) => Fc0012SetGain(u, f).rc = -1)
  <2>1. PICK r : r = TunerRead(u)
    OBVIOUS
  <2>2. PICK t : t = FcWrite(r, "gain", Fc0012Step(f))
    OBVIOUS
  <2>3. Steers({}, u, r) /\ Rec(r) /\ (Dead(u) => Dead(r))
    BY <2>1, ReadDone, Same
  <2>4. Steers({"gain"}, r, t) /\ (Dead(r) => t.rc = -1)
    BY <2>2, <2>3, FcWrote, Written
  <2>5. Steers({"gain"}, u, t)
    BY <2>3, <2>4, SteersTwice
  <2> QED
    BY <2>1, <2>2, <2>3, <2>4, <2>5 DEF Fc0012SetGain
<1> QED
  BY <1>1, <1>2

LEMMA Modified ==
    ASSUME NEW u, Rec(u), NEW reg, NEW val
    PROVE  /\ Steers({reg}, u, Modify(u, reg, val)) /\ (Dead(u) => Modify(u, reg, val).rc = -1)
           /\ Live(u) /\ reg \in Regs => Modify(u, reg, val).chip[reg] = val
                                     /\ Modify(u, reg, val).rc = 0
<1>1. PICK a : a = Ok(u)
  OBVIOUS
<1>2. PICK b : b = TunerRead(a)
  OBVIOUS
<1>3. PICK c : c = FcWrite(b, reg, val)
  OBVIOUS
<1>4. PICK t : t = Modify(u, reg, val)
  OBVIOUS
<1>5. t = IF b.rc < 0 THEN b ELSE c
  BY <1>1, <1>2, <1>3, <1>4 DEF Modify, Then
<1>6. Steers({}, u, a) /\ Rec(a) /\ (Dead(u) => Dead(a))
  BY <1>1, Opened, Same
<1>7. Steers({}, a, b) /\ Rec(b) /\ (Dead(a) => b.rc = -1)
  BY <1>2, <1>6, ReadDone, Same
<1>8. Steers({reg}, b, c) /\ (Live(b) => c.rc = 0 /\ (reg \in Regs => c.chip[reg] = val))
  BY <1>3, <1>7, FcWrote, Written
<1>11. Live(u) => Live(b) /\ b.rc = 0
  BY <1>2, <1>6, <1>7, ReadDone, Same
<1>9. Steers({reg}, u, b)
  BY <1>6, <1>7, SteersTwice
<1>10. Steers({reg}, u, c)
  BY <1>8, <1>9, SteersTwice
<1> QED
  BY <1>4, <1>5, <1>6, <1>7, <1>8, <1>9, <1>10, <1>11

LEMMA Fc0013Tuned ==
    ASSUME NEW u, Rec(u), NEW f
    PROVE  /\ Steers({"pll", "filt", "auto", "mux", "input"}, u, Fc0013SetFreq(u, f))
           /\ Live(u) /\ Fc0013SetFreq(u, f).rc = 0 =>
                Fc0013SetFreq(u, f).chip["pll"] = FcPll(u, f)
           /\ Live(u) => Fc0013SetFreq(u, f).chip["input"] = IF f < 300000 THEN 0 ELSE 1
           /\ Dead(u) => Fc0013SetFreq(u, f).rc = -1
<1> DEFINE S == {"pll", "filt", "auto", "mux", "input"}
<1>1. PICK a : a = Modify(u, "mux", VhfTrack(f))
  OBVIOUS
<1>2. PICK b : b = Modify(a, "input", IF f < 300000 THEN 0 ELSE 1)
  OBVIOUS
<1>3. PICK c : c = IF a.rc < 0 THEN a ELSE b
  OBVIOUS
<1>4. PICK d : d = FcSetPll(c, f)
  OBVIOUS
<1>5. PICK t : t = Fc0013SetFreq(u, f)
  OBVIOUS
<1>6. t = IF c.rc < 0 THEN c ELSE d
  BY <1>1, <1>2, <1>3, <1>4, <1>5 DEF Fc0013SetFreq, SelectBand, Then
<1>0. PICK band : band = IF f < 300000 THEN 0 ELSE 1
  OBVIOUS
<1>7. Steers({"mux"}, u, a) /\ Rec(a) /\ (Dead(u) => a.rc = -1) /\ (Live(u) => Live(a) /\ a.rc = 0)
  BY <1>1, Modified, Same DEF Regs
<1>8. Steers({"input"}, a, b) /\ (Live(a) => b.chip["input"] = band /\ b.rc = 0)
  BY <1>0, <1>2, <1>7, Modified DEF Regs
<1>9. Steers(S, u, a)
  BY <1>7, SteersMore
<1>10. Steers(S, u, b)
  BY <1>8, <1>9, SteersTwice
<1>11. Steers(S, u, c)
  BY <1>3, <1>9, <1>10
<1>12. Rec(c) /\ (Live(u) => Live(c)) /\ FcPll(c, f) = FcPll(u, f)
  <2>1. c.type = u.type /\ c.xtal = u.xtal /\ c.corr = u.corr
    BY <1>11 DEF Steers, Driven, StateFields, DriverFields
  <2>2. FcPll(c, f) = FcPll(u, f)
    BY <2>1 DEF FcPll, FcLo, FVco, XDiv, HalfXtal, FcMultiple, DividersOf, LastDivider
  <2> QED
    BY <1>11, <2>2, Same
<1>13. /\ Steers({"pll", "filt", "auto"}, c, d)
       /\ Live(c) /\ d.rc = 0 => d.chip["pll"] = FcPll(c, f)
  BY <1>4, <1>12, FcTuned
<1>14. Steers(S, u, d)
  BY <1>11, <1>13, SteersTwice
<1>15. Dead(u) => t.rc = -1
  BY <1>3, <1>6, <1>7
<1>17. Live(u) => c = b /\ ~(c.rc < 0) /\ c.chip["input"] = band
  BY <1>3, <1>7, <1>8
<1>16. Live(u) /\ t.rc = 0 => t.chip["pll"] = FcPll(u, f)
  BY <1>6, <1>12, <1>13, <1>17
<1>18. Live(u) => t.chip["input"] = band
  BY <1>6, <1>13, <1>17 DEF Steers, Regs
<1> QED
  BY <1>0, <1>5, <1>6, <1>11, <1>14, <1>15, <1>16, <1>18

LEMMA Fc0013Set ==
    ASSUME NEW u, Rec(u), NEW v
    PROVE  /\ Steers({"gain", "input"}, u, Fc0013SetGain(u, v))
           /\ Live(u) => Fc0013SetGain(u, v).chip["input"] = u.chip["input"]
           /\ Dead(u) => Fc0013SetGain(u, v).rc = -1
           /\ Steers({"agc", "vga"}, u, Fc0013SetGainMode(u, v))
<1>1. PICK r : r = TunerRead(u)
  OBVIOUS
<1>2. /\ Steers({}, u, r) /\ Rec(r) /\ (Dead(u) => Dead(r) /\ r.rc = -1)
      /\ Live(u) => Live(r) /\ r.rc = 0
  BY <1>1, ReadDone, Same
<1>3. /\ Steers({"gain", "input"}, u, Fc0013SetGain(u, v)) /\ (Dead(u) => Fc0013SetGain(u, v).rc = -1)
      /\ Live(u) => Fc0013SetGain(u, v).chip["input"] = u.chip["input"]
  <2>1. PICK band : band = IF r.rc = 0 THEN u.chip["input"] ELSE 0
    OBVIOUS
  <2>2. PICK a : a = TunerAccess(r, LAMBDA t : [t EXCEPT !.chip["gain"] = Fc0013Step(v),
                                                         !.chip["input"] = band])
    OBVIOUS
  <2>3. Fc0013SetGain(u, v) = OrRc(r.rc, a)
    BY <1>1, <2>1, <2>2 DEF Fc0013SetGain
  <2>4. PICK c : c = [r.chip EXCEPT !["gain"] = Fc0013Step(v), !["input"] = band]
    OBVIOUS
  <2>5. a = Renewed(r, c)
    BY <1>2, <2>2, <2>4 DEF Renewed, TunerAccess, Access, Rec, StateFields, Ok
  <2>6. DOMAIN c = Regs /\ \A g \in Regs \ {"gain", "input"} : c[g] = r.chip[g]
    BY <1>2, <2>4 DEF Rec
  <2>7. /\ Steers(Regs, r, a) /\ Rec(a) /\ (a.chip = r.chip \/ a.chip = c)
        /\ Live(r) => a.chip = c
    BY <1>2, <2>5, <2>6, RenewDone, Same
  <2>8. Steers({"gain", "input"}, r, a)
    BY <2>6, <2>7 DEF Steers, Regs, Marks
  <2>12. c["input"] = band
    BY <1>2, <2>4 DEF Rec, Regs
  <2>9. /\ Steers({}, a, OrRc(r.rc, a)) /\ OrRc(r.rc, a).rc = IF r.rc # 0 THEN r.rc ELSE a.rc
        /\ OrRc(r.rc, a).chip = a.chip
    BY <1>2, <2>7, Kept
  <2>10. Steers({"gain", "input"}, u, a)
    BY <1>2, <2>8, SteersTwice
  <2>11. Steers({"gain", "input"}, u, OrRc(r.rc, a))
    BY <2>9, <2>10, SteersTwice
  <2> QED
    BY <1>2, <2>1, <2>3, <2>7, <2>9, <2>11, <2>12
<1>4. Steers({"agc", "vga"}, u, Fc0013SetGainMode(u, v))
  <2>1. PICK a : a = FcWrite(r, "agc", IF v THEN 0 ELSE 1)
    OBVIOUS
  <2>2. PICK b : b = OrRc(r.rc, a)
    OBVIOUS
  <2>3. PICK c : c = FcWrite(b, "vga", 10)
    OBVIOUS
  <2>4. Fc0013SetGainMode(u, v) = OrRc(b.rc, c)
    BY <1>1, <2>1, <2>2, <2>3 DEF Fc0013SetGainMode
  <2>5. Steers({"agc"}, r, a) /\ Rec(a)
    BY <1>2, <2>1, FcWrote, Written, Same
  <2>6. Steers({}, a, b) /\ Rec(b)
    BY <1>2, <2>2, <2>5, Kept, Same
  <2>7. Steers({"vga"}, b, c) /\ Rec(c)
    BY <2>3, <2>6, FcWrote, Written, Same
  <2>8. Steers({}, c, OrRc(b.rc, c))
    BY <2>6, <2>7, Kept
  <2>9. Steers({"agc", "vga"}, u, a)
    BY <1>2, <2>5, SteersTwice
  <2>10. Steers({"agc", "vga"}, u, b)
    BY <2>6, <2>9, SteersTwice
  <2>11. Steers({"agc", "vga"}, u, c)
    BY <2>7, <2>10, SteersTwice
  <2>12. Steers({"agc", "vga"}, u, OrRc(b.rc, c))
    BY <2>8, <2>11, SteersTwice
  <2> QED
    BY <2>4, <2>12
<1> QED
  BY <1>3, <1>4

(* The FC2580.                                                             *)
LEMMA AndWritten ==
    ASSUME NEW u, Rec(u), NEW reg, NEW val
    PROVE  /\ Steers({reg}, u, AndWrite(u, reg, val))
           /\ Live(u) /\ reg \in Regs => AndWrite(u, reg, val).chip[reg] = val
<1>1. PICK a : a = RegWrite(u, reg, val)
  OBVIOUS
<1>2. AndWrite(u, reg, val) = OrRc(u.rc, a)
  BY <1>1 DEF AndWrite, RegWrite
<1>3. Steers({reg}, u, a) /\ Rec(a) /\ (Live(u) /\ reg \in Regs => a.chip[reg] = val)
  BY <1>1, Written, Same
<1>4. Steers({}, a, OrRc(u.rc, a)) /\ OrRc(u.rc, a).chip = a.chip
  BY <1>3, Kept
<1>5. Steers({reg}, u, OrRc(u.rc, a))
  BY <1>3, <1>4, SteersTwice
<1> QED
  BY <1>2, <1>3, <1>4, <1>5

LEMMA StatusDone ==
    ASSUME NEW u, Rec(u)
    PROVE  Steers({}, u, FunctionStatus(u)) /\ FunctionStatus(u).chip = u.chip
<1>1. PICK c \in {-1, 0, 1} : c = IF u.rc = 0 THEN 0 ELSE 1
  OBVIOUS
<1>2. FunctionStatus(u) = [u EXCEPT !.rc = c]
  BY <1>1 DEF FunctionStatus
<1> QED
  BY <1>2, Results

LEMMA RoundDone ==
    ASSUME NEW p, Rec(p.t), NEW round
    PROVE  Steers({"auto"}, p.t, CalibrationRound(p, round).t)
<1>1. PICK u : u = p.t
  OBVIOUS
<1>2. PICK a : a = TunerRead(u)
  OBVIOUS
<1>3. PICK b : b = OrRc(u.rc, a)
  OBVIOUS
<1>4. PICK c : c = AndWrite(b, "auto", round)
  OBVIOUS
<1>5. CalibrationRound(p, round).t \in {u, b, c}
  <2> DEFINE good == TunerRead(p.t).rc = 0 /\ (p.t.edge => round > 1)
  <2>1. CASE p.done
    <3>1. CalibrationRound(p, round) = p
      BY <2>1, Zenon DEF CalibrationRound
    <3> QED
      BY <1>1, <3>1
  <2>2. CASE ~p.done
    <3>1. b = OrRc(p.t.rc, TunerRead(p.t))
      BY <1>1, <1>2, <1>3, SMTT(30)
    <3>2. CalibrationRound(p, round) = [t |-> IF good THEN b ELSE c, done |-> good]
      BY <1>4, <2>2, <3>1, ZenonT(60) DEF CalibrationRound
    <3> HIDE DEF good
    <3>3. CalibrationRound(p, round).t = IF good THEN b ELSE c
      BY <3>2
    <3> QED
      BY <3>3
  <2> QED
    BY <2>1, <2>2
<1>6. Steers({}, u, a) /\ Rec(a)
  BY <1>1, <1>2, ReadDone, Same
<1>7. Steers({}, a, b) /\ Rec(b)
  BY <1>1, <1>3, <1>6, Kept, Same
<1>8. Steers({"auto"}, b, c)
  BY <1>4, <1>7, AndWritten
<1>9. Steers({"auto"}, u, b)
  BY <1>6, <1>7, SteersTwice
<1>10. Steers({"auto"}, u, c)
  BY <1>8, <1>9, SteersTwice
<1>11. Steers({"auto"}, u, u)
  BY <1>1 DEF Steers, Driven
<1> QED
  BY <1>1, <1>5, <1>9, <1>10, <1>11

LEMMA FilterSet ==
    ASSUME NEW u, Rec(u), NEW mode
    PROVE  Steers({"filt", "auto"}, u, SetFilter(u, mode))
<1>1. PICK a : a = AndWrite(u, "filt", mode)
  OBVIOUS
<1>2. PICK p : p = [t |-> a, done |-> FALSE]
  OBVIOUS
<1>3. PICK p1 : p1 = CalibrationRound(p, 1)
  OBVIOUS
<1>4. PICK p2 : p2 = CalibrationRound(p1, 2)
  OBVIOUS
<1>5. PICK p3 : p3 = CalibrationRound(p2, 3)
  OBVIOUS
<1>6. PICK p4 : p4 = CalibrationRound(p3, 4)
  OBVIOUS
<1>7. PICK p5 : p5 = CalibrationRound(p4, 5)
  OBVIOUS
<1>8. PICK b : b = AndWrite(p5.t, "auto", 0)
  OBVIOUS
<1>9. SetFilter(u, mode) = b
  BY <1>1, <1>2, <1>3, <1>4, <1>5, <1>6, <1>7, <1>8 DEF SetFilter, Calibrate
<1>10. Steers({"filt"}, u, a) /\ Rec(a) /\ p.t = a
  BY <1>1, <1>2, AndWritten, Same
<1>11. Steers({"auto"}, a, p1.t) /\ Rec(p1.t)
  BY <1>3, <1>10, RoundDone, Same
<1>12. Steers({"auto"}, p1.t, p2.t) /\ Rec(p2.t)
  BY <1>4, <1>11, RoundDone, Same
<1>13. Steers({"auto"}, p2.t, p3.t) /\ Rec(p3.t)
  BY <1>5, <1>12, RoundDone, Same
<1>14. Steers({"auto"}, p3.t, p4.t) /\ Rec(p4.t)
  BY <1>6, <1>13, RoundDone, Same
<1>15. Steers({"auto"}, p4.t, p5.t) /\ Rec(p5.t)
  BY <1>7, <1>14, RoundDone, Same
<1>16. Steers({"auto"}, p5.t, b)
  BY <1>8, <1>15, AndWritten
<1>17. Steers({"auto"}, a, b)
  <2>1. Steers({"auto"}, a, p2.t)
    BY <1>11, <1>12, SteersTwice
  <2>2. Steers({"auto"}, a, p3.t)
    BY <1>13, <2>1, SteersTwice
  <2>3. Steers({"auto"}, a, p4.t)
    BY <1>14, <2>2, SteersTwice
  <2>4. Steers({"auto"}, a, p5.t)
    BY <1>15, <2>3, SteersTwice
  <2> QED
    BY <1>16, <2>4, SteersTwice
<1>18. Steers({"filt", "auto"}, u, b)
  BY <1>10, <1>17, SteersTwice
<1> QED
  BY <1>9, <1>18

(* The LO the chip makes for f.                                            *)
Fc2580Lo(f) == Synthesised(f * BandMultiple(BandOf(f))) \div BandMultiple(BandOf(f))

LEMMA Fc2580Done ==
    ASSUME NEW u, Rec(u)
    PROVE  /\ Steers({"filt", "auto"}, u, Fc2580SetBw(u))
           /\ Steers({"power", "agc", "filt", "auto"}, u, Fc2580Init(u))
           /\ Live(u) => Fc2580Init(u).chip["power"] = 1
           /\ \A f : Steers({"input", "pll", "filt", "auto"}, u, Fc2580SetFreq(u, f))
           /\ Live(u) => \A f : /\ Fc2580SetFreq(u, f).chip["input"] = BandOf(f)
                               /\ Fc2580SetFreq(u, f).chip["pll"].out = Fc2580Lo(f)
<1>1. PICK a : a = Ok(u)
  OBVIOUS
<1>2. Steers({}, u, a) /\ Rec(a) /\ (Live(u) => Live(a))
  BY <1>1, Opened, Same
<1>3. Steers({"filt", "auto"}, u, Fc2580SetBw(u))
  <2>1. PICK b : b = SetFilter(a, 1)
    OBVIOUS
  <2>2. Steers({"filt", "auto"}, a, b) /\ Rec(b)
    BY <1>2, <2>1, FilterSet, Same
  <2>3. Steers({"filt", "auto"}, u, b)
    BY <1>2, <2>2, SteersTwice
  <2>4. Steers({}, b, FunctionStatus(b))
    BY <2>2, StatusDone
  <2>5. Steers({"filt", "auto"}, u, FunctionStatus(b))
    BY <2>3, <2>4, SteersTwice
  <2> QED
    BY <1>1, <2>1, <2>5 DEF Fc2580SetBw
<1>4. /\ Steers({"power", "agc", "filt", "auto"}, u, Fc2580Init(u))
      /\ Live(u) => Fc2580Init(u).chip["power"] = 1
  <2> DEFINE S == {"power", "agc", "filt", "auto"}
  <2>1. PICK b : b = AndWrite(a, "power", 1)
    OBVIOUS
  <2>2. PICK c : c = AndWrite(b, "agc", 1)
    OBVIOUS
  <2>3. PICK d : d = SetFilter(c, 8)
    OBVIOUS
  <2>4. Fc2580Init(u) = FunctionStatus(d)
    BY <1>1, <2>1, <2>2, <2>3 DEF Fc2580Init
  <2>5. Steers({"power"}, a, b) /\ Rec(b) /\ (Live(a) => b.chip["power"] = 1)
    BY <1>2, <2>1, AndWritten, Same DEF Regs
  <2>6. Steers({"agc"}, b, c) /\ Rec(c)
    BY <2>2, <2>5, AndWritten, Same
  <2>7. Steers({"filt", "auto"}, c, d) /\ Rec(d)
    BY <2>3, <2>6, FilterSet, Same
  <2>8. Steers({}, d, FunctionStatus(d)) /\ FunctionStatus(d).chip = d.chip
    BY <2>7, StatusDone
  <2>9. Steers({"agc", "filt", "auto"}, b, d)
    BY <2>6, <2>7, SteersTwice
  <2>10. d.chip["power"] = b.chip["power"]
    BY <2>9 DEF Steers, Regs
  <2>11. Steers(S, u, b)
    BY <1>2, <2>5, SteersTwice
  <2>12. Steers(S, u, d)
    BY <2>9, <2>11, SteersTwice
  <2>13. Steers(S, u, FunctionStatus(d))
    BY <2>8, <2>12, SteersTwice
  <2> QED
    BY <1>2, <2>4, <2>5, <2>8, <2>10, <2>13
<1>5. ASSUME NEW f
      PROVE  /\ Steers({"input", "pll", "filt", "auto"}, u, Fc2580SetFreq(u, f))
             /\ Live(u) => /\ Fc2580SetFreq(u, f).chip["input"] = BandOf(f)
                           /\ Fc2580SetFreq(u, f).chip["pll"].out = Fc2580Lo(f)
  <2> DEFINE S == {"input", "pll", "filt", "auto"}
  <2>1. PICK b : b = AndWrite(a, "input", BandOf(f))
    OBVIOUS
  <2>2. PICK c : c = SetFilter(b, BandFilter(BandOf(f)))
    OBVIOUS
  <2>3. PICK v : v = [out |-> Fc2580Lo(f), ppm |-> 0]
    OBVIOUS
  <2>4. PICK d : d = AndWrite(c, "pll", v)
    OBVIOUS
  <2>5. Fc2580SetFreq(u, f) = FunctionStatus(d)
    BY <1>1, <2>1, <2>2, <2>3, <2>4 DEF Fc2580SetFreq, Fc2580Lo
  <2>6. Steers({"input"}, a, b) /\ Rec(b) /\ (Live(a) => Live(b) /\ b.chip["input"] = BandOf(f))
    BY <1>2, <2>1, AndWritten, Same DEF Regs
  <2>7. Steers({"filt", "auto"}, b, c) /\ Rec(c) /\ (Live(b) => Live(c))
    BY <2>2, <2>6, FilterSet, Same
  <2>8. Steers({"pll"}, c, d) /\ Rec(d) /\ (Live(c) => d.chip["pll"] = v)
    BY <2>4, <2>7, AndWritten, Same DEF Regs
  <2>9. Steers({}, d, FunctionStatus(d)) /\ FunctionStatus(d).chip = d.chip
    BY <2>8, StatusDone
  <2>14. Live(u) => d.chip["input"] = BandOf(f) /\ d.chip["pll"].out = Fc2580Lo(f)
    <3>1. d.chip["input"] = c.chip["input"] /\ c.chip["input"] = b.chip["input"]
      BY <2>7, <2>8 DEF Steers, Regs
    <3>2. v.out = Fc2580Lo(f)
      BY <2>3
    <3> QED
      BY <1>2, <2>6, <2>7, <2>8, <3>1, <3>2
  <2>10. Steers(S, u, b)
    BY <1>2, <2>6, SteersTwice
  <2>11. Steers(S, u, c)
    BY <2>7, <2>10, SteersTwice
  <2>12. Steers(S, u, d)
    BY <2>8, <2>11, SteersTwice
  <2>13. Steers(S, u, FunctionStatus(d))
    BY <2>9, <2>12, SteersTwice
  <2> QED
    BY <2>5, <2>9, <2>13, <2>14
<1> QED
  BY <1>3, <1>4, <1>5

-----------------------------------------------------------------------------
(* The R82xx.                                                              *)

(* A step of its driver, which keeps the shadow.                           *)
Mirrors(R, u, t) == Steers(R, u, t) /\ Shadows(u, t)

LEMMA MirrorsTwice ==
    ASSUME NEW S, NEW R \in SUBSET S, NEW Q \in SUBSET S, NEW r, NEW u, NEW t,
           Rec(r), Mirrors(R, r, u), Mirrors(Q, u, t)
    PROVE  Mirrors(S, r, t)
<1>1. Steers(S, r, t)
  BY SteersTwice DEF Mirrors
<1>2. Live(r) => Live(u)
  BY Same DEF Mirrors
<1> QED
  BY <1>1, <1>2 DEF Mirrors, Shadows

LEMMA MirrorsMore ==
    ASSUME NEW Q, NEW R \in SUBSET Q, NEW u, NEW t, Mirrors(R, u, t)
    PROVE  Mirrors(Q, u, t)
  BY SteersMore DEF Mirrors

LEMMA MirrorsNone == ASSUME NEW Q, NEW u PROVE Mirrors(Q, u, u)
  BY DEF Mirrors, Steers, Shadows, Driven

(* What the driver notes for itself.                                       *)
LEMMA FieldNoted ==
    ASSUME NEW u, Rec(u), NEW m \in {"lock", "intf", "input"}, NEW t,
           DOMAIN t = StateFields, \A f \in StateFields \ {m} : t[f] = u[f]
    PROVE  /\ Rec(t) /\ t.chip = u.chip /\ t.shadow = u.shadow
           /\ Mirrors({m}, u, t)
<1>1. /\ t.chip = u.chip /\ t.shadow = u.shadow /\ t.n = u.n /\ t.type = u.type
      /\ t.rc = u.rc /\ t.blind = u.blind /\ t.ready = u.ready
  BY DEF StateFields
<1>2. Rec(t)
  BY <1>1 DEF Rec
<1>3. Driven(u, t) /\ Shadows(u, t)
  <2>1. \A f \in StateFields \ DriverFields : t[f] = u[f]
    BY DEF DriverFields
  <2> QED
    BY <1>1, <1>2, <2>1 DEF Driven, Shadows, Agree
<1>4. \A f \in Marks \ {m} : t[f] = u[f]
  BY DEF Marks, StateFields
<1> QED
  BY <1>1, <1>2, <1>3, <1>4 DEF Mirrors, Steers

LEMMA LockNoted ==
    ASSUME NEW u, Rec(u), NEW v, NEW t, t = [u EXCEPT !.lock = v]
    PROVE  /\ Rec(t) /\ t.chip = u.chip /\ t.shadow = u.shadow
           /\ Mirrors({"lock"}, u, t) /\ t.lock = v
<1>1. DOMAIN u = StateFields
  BY DEF Rec
<1>2. /\ DOMAIN t = StateFields /\ t.lock = v
      /\ \A f \in StateFields \ {"lock"} : t[f] = u[f]
  BY <1>1 DEF StateFields
<1> QED
  BY <1>2, FieldNoted

LEMMA IntfNoted ==
    ASSUME NEW u, Rec(u), NEW v, NEW t, t = [u EXCEPT !.intf = v]
    PROVE  /\ Rec(t) /\ t.chip = u.chip /\ t.shadow = u.shadow
           /\ Mirrors({"intf"}, u, t) /\ t.intf = v
<1>1. DOMAIN u = StateFields
  BY DEF Rec
<1>2. /\ DOMAIN t = StateFields /\ t.intf = v
      /\ \A f \in StateFields \ {"intf"} : t[f] = u[f]
  BY <1>1 DEF StateFields
<1> QED
  BY <1>2, FieldNoted

LEMMA InputNoted ==
    ASSUME NEW u, Rec(u), NEW v, NEW t, t = [u EXCEPT !.input = v]
    PROVE  /\ Rec(t) /\ t.chip = u.chip /\ t.shadow = u.shadow
           /\ Mirrors({"input"}, u, t) /\ t.input = v
<1>1. DOMAIN u = StateFields
  BY DEF Rec
<1>2. /\ DOMAIN t = StateFields /\ t.input = v
      /\ \A f \in StateFields \ {"input"} : t[f] = u[f]
  BY <1>1 DEF StateFields
<1> QED
  BY <1>2, FieldNoted

LEMMA Answered ==
    ASSUME NEW u, Rec(u)
    PROVE  /\ Mirrors({}, u, Ok(u)) /\ Rec(Ok(u)) /\ Ok(u).rc = 0
           /\ Mirrors({}, u, Fail(u)) /\ Fail(u).rc = -1
<1>1. Ok(u) = [u EXCEPT !.rc = 0] /\ Fail(u) = [u EXCEPT !.rc = -1]
  BY DEF Ok, Fail
<1>2. Mirrors({}, u, Ok(u)) /\ Ok(u).rc = 0
  BY <1>1, Results DEF Mirrors
<1>3. Mirrors({}, u, Fail(u)) /\ Fail(u).rc = -1
  BY <1>1, Results DEF Mirrors
<1>4. Rec(Ok(u))
  BY <1>2 DEF Mirrors, Steers, Driven
<1> QED
  BY <1>2, <1>3, <1>4

LEMMA PutMirrors ==
    ASSUME NEW u, Rec(u), NEW reg \in Regs, NEW val
    PROVE  /\ Mirrors({reg}, u, Put(u, reg, val)) /\ Rec(Put(u, reg, val))
           /\ Put(u, reg, val).rc \in {-1, 0}
           /\ Live(u) => Put(u, reg, val).rc = 0
           /\ Live(u) /\ Agree(u) => Put(u, reg, val).chip[reg] = val
  BY PutDone, Same DEF Mirrors

LEMMA ReadMirrors ==
    ASSUME NEW u, Rec(u)
    PROVE  /\ Mirrors({}, u, TunerRead(u)) /\ Rec(TunerRead(u))
           /\ TunerRead(u).rc \in {-1, 0} /\ TunerRead(u).chip = u.chip
           /\ Live(u) => TunerRead(u).rc = 0
           /\ Dead(u) => TunerRead(u).rc = -1
  BY ReadDone, Same DEF Mirrors

LEMMA ThenPutDone ==
    ASSUME NEW u, Rec(u), NEW reg \in Regs, NEW val
    PROVE  /\ Mirrors({reg}, u, ThenPut(u, reg, val)) /\ Rec(ThenPut(u, reg, val))
           /\ u.rc < 0 => ThenPut(u, reg, val) = u
           /\ Live(u) /\ u.rc = 0 => ThenPut(u, reg, val).rc = 0
           /\ Live(u) /\ u.rc = 0 /\ Agree(u) => ThenPut(u, reg, val).chip[reg] = val
<1>1. CASE u.rc < 0
  <2>1. ThenPut(u, reg, val) = u
    BY <1>1 DEF ThenPut, Then
  <2> QED
    BY <1>1, <2>1, MirrorsNone
<1>2. CASE ~(u.rc < 0)
  <2>1. ThenPut(u, reg, val) = Put(u, reg, val)
    BY <1>2 DEF ThenPut, Then
  <2> QED
    BY <1>2, <2>1, PutMirrors
<1> QED
  BY <1>1, <1>2

(* What is written to the synthesiser for lo, whether there are values to  *)
(* write, and whether it locks.                                            *)
PllValue(u, lo) == [out |-> Real(u, lo * MixDiv(lo)) \div DivNum(lo), ppm |-> u.ppm]

Divides(u, lo) == ~NoPllValues(u, lo * MixDiv(lo))

Locks(u, lo) == Real(u, lo * MixDiv(lo)) \in VcoMin .. VcoMax - 1

LEMMA PllSet ==
    ASSUME NEW u, Rec(u), NEW lo
    PROVE  /\ Mirrors({"auto", "pll", "lock"}, u, SetPll(u, lo))
           /\ SetPll(u, lo).rc \in {-1, 0}
           /\ Live(u) /\ Agree(u) /\ SetPll(u, lo).rc = 0 =>
                SetPll(u, lo).chip["pll"] = PllValue(u, lo)
           /\ Live(u) /\ Locks(u, lo) /\ SetPll(u, lo).rc = 0 => SetPll(u, lo).lock = TRUE
           /\ Live(u) /\ Divides(u, lo) => SetPll(u, lo).rc = 0
           /\ Dead(u) => SetPll(u, lo).rc = -1
<1> DEFINE S == {"auto", "pll", "lock"}
<1>1. PICK t : t = SetPll(u, lo)
  OBVIOUS
<1>2. PICK vco : vco = lo * MixDiv(lo)
  OBVIOUS
<1>3. PICK v : v = [out |-> Real(u, vco) \div DivNum(lo), ppm |-> u.ppm]
  OBVIOUS
<1>4. PICK a : a = Put(u, "auto", 128)
  OBVIOUS
<1>5. PICK r : r = TunerRead(a)
  OBVIOUS
<1>6. PICK b : b = IF a.rc < 0 THEN a ELSE r
  OBVIOUS
<1>7. PICK c : c = Put(b, "pll", v)
  OBVIOUS
<1>8. PICK q : q = TunerRead(c)
  OBVIOUS
<1>9. PICK d : d = IF c.rc < 0 THEN c ELSE q
  OBVIOUS
<1>10. PICK y : y = [d EXCEPT !.lock = TRUE]
  OBVIOUS
<1>11. PICK z : z = [d EXCEPT !.lock = FALSE]
  OBVIOUS
<1>12. PICK e : e = IF Real(u, vco) \in VcoMin .. VcoMax - 1 THEN Put(y, "auto", 8) ELSE Ok(z)
  OBVIOUS
<1>13. b = Then(a, TunerRead) /\ d = Then(c, TunerRead)
  BY <1>5, <1>6, <1>8, <1>9 DEF Then
<1>14. t = IF b.rc < 0 THEN b ELSE IF NoPllValues(u, vco) THEN Fail(b)
           ELSE IF d.rc < 0 THEN d ELSE e
  <2> DEFINE Settle(x) == IF Real(u, vco) \in VcoMin .. VcoMax - 1
                          THEN Put([x EXCEPT !.lock = TRUE], "auto", 8)
                          ELSE Ok([x EXCEPT !.lock = FALSE])
  <2>1. Settle(d) = e
    BY <1>10, <1>11, <1>12
  <2>2. Then(d, Settle) = IF d.rc < 0 THEN d ELSE Settle(d)
    BY DEF Then
  <2>3. t = IF b.rc < 0 THEN b ELSE IF NoPllValues(u, vco) THEN Fail(b)
            ELSE Then(d, Settle)
    BY <1>1, <1>2, <1>3, <1>4, <1>7, <1>13 DEF SetPll
  <2> HIDE DEF Settle
  <2> QED
    BY <2>1, <2>2, <2>3
<1>15. Mirrors({"auto"}, u, a) /\ Rec(a) /\ a.rc \in {-1, 0} /\ (Live(u) => a.rc = 0)
  BY <1>4, PutMirrors DEF Regs
<1>16. /\ Mirrors({}, a, r) /\ Rec(r) /\ r.rc \in {-1, 0}
       /\ (Live(a) => r.rc = 0) /\ (Dead(a) => r.rc = -1)
  BY <1>5, <1>15, ReadMirrors
<1>17. Mirrors({"auto"}, u, r)
  BY <1>15, <1>16, MirrorsTwice
<1>18. Mirrors({"auto"}, u, b) /\ Rec(b) /\ b.rc \in {-1, 0}
  BY <1>6, <1>15, <1>16, <1>17
<1>19. (Live(u) => Live(b)) /\ (Dead(u) => b.rc = -1) /\ b.ppm = u.ppm
  <2>1. (Dead(u) => Dead(a)) /\ (Live(u) => Live(b)) /\ b.ppm = u.ppm
    BY <1>15, <1>18, Same DEF Mirrors
  <2> QED
    BY <1>6, <1>15, <1>16, <2>1
<1>20. /\ Mirrors({"pll"}, b, c) /\ Rec(c) /\ c.rc \in {-1, 0}
       /\ Live(b) /\ Agree(b) => c.chip["pll"] = v
  BY <1>7, <1>18, PutMirrors DEF Regs
<1>21. Mirrors({}, c, q) /\ Rec(q) /\ q.rc \in {-1, 0} /\ q.chip = c.chip
  BY <1>8, <1>20, ReadMirrors
<1>22. Mirrors({"pll"}, b, q)
  BY <1>18, <1>20, <1>21, MirrorsTwice
<1>23. Mirrors({"pll"}, b, d) /\ Rec(d) /\ d.rc \in {-1, 0} /\ d.chip = c.chip
  BY <1>9, <1>20, <1>21, <1>22
<1>34. Live(u) => Live(c) /\ Live(d) /\ d.rc = 0
  <2>1. (Live(b) => Live(c) /\ c.rc = 0) /\ (Live(c) => Live(q) /\ q.rc = 0)
    BY <1>7, <1>8, <1>18, <1>20, PutMirrors, ReadMirrors, Same DEF Mirrors, Regs
  <2> QED
    BY <1>9, <1>19, <2>1
<1>24. /\ Mirrors({"auto", "lock"}, d, e) /\ e.rc \in {-1, 0} /\ (Live(d) => e.rc = 0)
       /\ Locks(u, lo) => e.lock = TRUE
  <2>1. Mirrors({"lock"}, d, y) /\ Mirrors({"lock"}, d, z) /\ y.lock = TRUE
    BY <1>10, <1>11, <1>23, LockNoted
  <2>2. Rec(y) /\ Rec(z) /\ (Live(d) => Live(y))
    BY <1>23, <2>1, Same DEF Mirrors
  <2>3. /\ Mirrors({"auto"}, y, Put(y, "auto", 8)) /\ Put(y, "auto", 8).rc \in {-1, 0}
        /\ Live(y) => Put(y, "auto", 8).rc = 0
    BY <2>2, PutMirrors DEF Regs
  <2>4. Mirrors({}, z, Ok(z)) /\ Ok(z).rc = 0
    BY <2>2, Answered
  <2>5. Mirrors({"auto", "lock"}, d, Put(y, "auto", 8))
    BY <1>23, <2>1, <2>3, MirrorsTwice
  <2>6. Mirrors({"auto", "lock"}, d, Ok(z))
    BY <1>23, <2>1, <2>4, MirrorsTwice
  <2>7. Put(y, "auto", 8).lock = y.lock
    BY <2>3 DEF Mirrors, Steers, Marks
  <2>8. Locks(u, lo) => e = Put(y, "auto", 8)
    BY <1>2, <1>12 DEF Locks
  <2> QED
    BY <1>12, <2>1, <2>2, <2>3, <2>4, <2>5, <2>6, <2>7, <2>8
<1>25. e.chip["pll"] = d.chip["pll"]
  BY <1>24 DEF Mirrors, Steers, Regs
<1>26. Mirrors(S, u, d)
  BY <1>18, <1>23, MirrorsTwice
<1>27. Mirrors(S, u, e)
  BY <1>24, <1>26, MirrorsTwice
<1>28. Mirrors(S, u, b)
  BY <1>18, MirrorsMore
<1>29. Mirrors({}, b, Fail(b)) /\ Fail(b).rc = -1
  BY <1>18, Answered
<1>30. Mirrors(S, u, Fail(b))
  BY <1>28, <1>29, MirrorsTwice
<1>31. Mirrors(S, u, t) /\ t.rc \in {-1, 0}
  BY <1>14, <1>18, <1>23, <1>24, <1>26, <1>27, <1>28, <1>29, <1>30
<1>35. v = PllValue(u, lo)
  BY <1>2, <1>3 DEF PllValue
<1>36. Live(u) /\ Divides(u, lo) => t.rc = 0
  <2>1. Live(u) => b.rc = 0
    BY <1>6, <1>15, <1>16, Same DEF Mirrors
  <2>2. Divides(u, lo) => ~NoPllValues(u, vco)
    BY <1>2 DEF Divides
  <2> QED
    BY <1>14, <1>24, <1>34, <2>1, <2>2
<1>37. Live(u) /\ Locks(u, lo) /\ t.rc = 0 => t.lock = TRUE
  <2>2. Live(u) => b.rc = 0
    BY <1>6, <1>15, <1>16, Same DEF Mirrors
  <2> QED
    BY <1>14, <1>24, <1>29, <1>34, <2>2
<1>32. ASSUME Live(u), Agree(u), t.rc = 0 PROVE t.chip["pll"] = PllValue(u, lo)
  <2>1. Agree(b)
    BY <1>18, <1>32 DEF Mirrors, Shadows
  <2>2. c.chip["pll"] = v
    BY <1>19, <1>20, <1>32, <2>1
  <2>3. ~(b.rc < 0)
    BY <1>14, <1>32
  <2>4. t = d \/ t = e
    BY <1>14, <1>29, <1>32, <2>3
  <2> QED
    BY <1>23, <1>25, <1>35, <2>2, <2>4
<1>33. Dead(u) => t.rc = -1
  BY <1>14, <1>19
<1> QED
  BY <1>1, <1>31, <1>32, <1>33, <1>36, <1>37

(* Some numbers that are not below zero have a least.                      *)
LEMMA LeastOf ==
    ASSUME NEW S \in SUBSET Nat, NEW e \in S
    PROVE  Min(S) \in S
<1> DEFINE R == OpToRel(<, Nat)
<1>1. IsWellFoundedOn(R, Nat)
  BY NatLessThanWellFounded
<1> HIDE DEF R
<1>2. PICK x \in S : \A y \in S : ~ (<<y, x>> \in R)
  BY <1>1, WFMin
<1>3. \A y \in S : x <= y
  <2>1. SUFFICES ASSUME NEW y \in S, ~(x <= y) PROVE <<y, x>> \in R
    BY <1>2
  <2>2. y < x /\ x \in Nat /\ y \in Nat
    BY <2>1
  <2> QED
    BY <2>2 DEF R, OpToRel
<1> QED
  BY <1>3 DEF Min

(* The divider search ends with a divider that fits.                       *)
LEMMA DividerFits ==
    ASSUME NEW lo \in Int, 27657 <= lo, lo <= 1769999
    PROVE  /\ MixDiv(lo) \in {2, 4, 8, 16, 32, 64} /\ DivNum(lo) = MixDiv(lo)
           /\ VcoMin <= lo * MixDiv(lo) /\ lo * MixDiv(lo) < VcoMax
<1> DEFINE S == Fitting(lo)
<1>1. \E k \in {2, 4, 8, 16, 32, 64} : lo * k >= 1770000 /\ lo * k < 2 * 1770000
  OBVIOUS
<1>2. S # {} /\ S \subseteq {2, 4, 8, 16, 32, 64}
  <2>1. PICK k \in {2, 4, 8, 16, 32, 64} : lo * k >= VcoMin /\ lo * k < VcoMax
    BY <1>1 DEF VcoMin, VcoMax
  <2>2. k \in S
    BY <2>1 DEF Fitting
  <2>3. S \subseteq {2, 4, 8, 16, 32, 64}
    BY DEF Fitting
  <2> QED
    BY <2>2, <2>3
<1>4. Min(S) \in S
  <2> HIDE DEF S
  <2>1. S \in SUBSET Nat
    BY <1>2
  <2>2. PICK e : e \in S
    BY <1>2
  <2> QED
    BY <2>1, <2>2, LeastOf
<1>5. MixDiv(lo) \in S /\ DivNum(lo) = MixDiv(lo)
  BY <1>2, <1>4 DEF MixDiv, DivNum
<1>6. VcoMin <= lo * MixDiv(lo) /\ lo * MixDiv(lo) < VcoMax
  BY <1>5 DEF Fitting
<1> QED
  BY <1>2, <1>5, <1>6

(* In the range of its synthesiser an R82xx finds its dividers, locks, and *)
(* makes the LO it was asked for.                                          *)
LEMMA Synthesiser ==
    ASSUME NEW u, Known(u), IsR82xx(u), NEW lo \in Int, 27657 <= lo, lo <= 1769999
    PROVE  /\ Locks(u, lo) /\ PllValue(u, lo).out = lo
           /\ Divides(u, lo)
<1>1. PICK k \in {2, 4, 8, 16, 32, 64} : k = MixDiv(lo) /\ k = DivNum(lo)
  BY DividerFits
<1>2. Real(u, lo * k) = lo * k
  BY DEF Real, Known
<1>7. PICK vco \in Int : vco = lo * k /\ VcoMin <= vco /\ vco < VcoMax
  BY <1>1, DividerFits
<1>3. Locks(u, lo)
  <2>1. VcoMax \in Int /\ VcoMin \in Int
    BY DEF VcoMin, VcoMax
  <2>2. vco \in VcoMin .. VcoMax - 1
    BY <1>7, <2>1
  <2> QED
    BY <1>1, <1>2, <1>7, <2>2 DEF Locks
<1>4. (lo * k) \div k = lo
  OBVIOUS
<1>5. PllValue(u, lo).out = lo
  BY <1>1, <1>2, <1>4 DEF PllValue
<1>6. u.xtal = 288 \/ (u.xtal = 160 /\ u.type = "R828D")
  BY DEF Known, TypeOf
<1>8. ~NoPllValues(u, vco)
  <2>1. VcoPowerRef(u) \in {1, 2} /\ (u.type = "R828D" => VcoPowerRef(u) = 1)
    BY DEF VcoPowerRef
  <2>0. 0 <= vco /\ vco < 3540000
    BY <1>7 DEF VcoMin, VcoMax
  <2>2. vco \div (2 * 288 * 100) <= 61 /\ vco \div (2 * 160 * 100) <= 110
    BY <2>0
  <2>3. (128 \div VcoPowerRef(u)) - 1 >= 63 /\ (u.type = "R828D" => (128 \div VcoPowerRef(u)) - 1 = 127)
    BY <2>1
  <2>4. vco \div (2 * 288 * 100) \in Int /\ vco \div (2 * 160 * 100) \in Int
        /\ (128 \div VcoPowerRef(u)) - 1 \in Int
    BY <2>1
  <2>5. ~(vco \div (2 * u.xtal * 100) > (128 \div VcoPowerRef(u)) - 1)
    BY <1>6, <2>2, <2>3, <2>4
  <2> QED
    BY <2>5 DEF NoPllValues
<1>9. Divides(u, lo)
  BY <1>1, <1>7, <1>8, SMTT(30) DEF Divides
<1> QED
  BY <1>1, <1>3, <1>5, <1>7, <1>9

(* A narrow filter leaves the IF within 5 MHz.                             *)
WithinIf(i) == i \in Int /\ 0 <= i /\ i <= 5000

LEMMA FilterIf == ASSUME NEW bw \in Nat PROVE WithinIf(FilterFor(bw).intf)
<1>1. ASSUME ~(bw > 1700 + HighPass1 + HighPass2) PROVE WithinIf(Narrow(bw).intf)
  <2>1. PICK second : second = IF bw > 1700 + HighPass1 THEN HighPass2 ELSE 0
    OBVIOUS
  <2>2. PICK first : first = IF bw - second > 1700 THEN HighPass1 ELSE 0
    OBVIOUS
  <2>3. PICK left : left = bw - second - first
    OBVIOUS
  <2>4. PICK low : low = IF left <= 350 THEN 350 ELSE Min({w \in LowPass : w >= left})
    OBVIOUS
  <2>5. second \in {0, 380} /\ first \in {0, 350} /\ left \in Int /\ left <= 1700
    BY <1>1, <2>1, <2>2, <2>3 DEF HighPass1, HighPass2
  <2>6. low \in 350 .. 1700
    <3> DEFINE S == {w \in LowPass : w >= left}
    <3>1. S # {} /\ S \subseteq {1700, 1600, 1550, 1450, 1200, 900, 700, 550, 450, 350}
      BY <2>5 DEF LowPass
    <3>2. S \in SUBSET Nat
      BY <3>1
    <3>4. PICK e : e \in S
      BY <3>1
    <3>3. Min(S) \in S
      <4> HIDE DEF S
      <4> QED
        BY <3>2, <3>4, LeastOf
    <3> QED
      BY <2>4, <3>1, <3>3
  <2>7. Narrow(bw).intf = 2300 + second + first - (second + first + low) \div 2
    BY <2>1, <2>2, <2>3, <2>4 DEF Narrow
  <2>8. PICK n \in Int : n = second + first + low /\ 350 <= n /\ n <= 2430
    BY <2>5, <2>6
  <2>9. n \div 2 \in Int /\ 0 <= n \div 2 /\ n \div 2 <= 2430
    BY <2>8
  <2>10. PICK h \in Int : h = n \div 2 /\ 0 <= h /\ h <= 2430
    BY <2>9
  <2>11. Narrow(bw).intf = (2300 + second + first) - h
    BY <2>5, <2>6, <2>7, <2>8, <2>10
  <2> QED
    BY <2>5, <2>8, <2>10, <2>11 DEF WithinIf
<1>2. CASE bw > 1700 + HighPass1 + HighPass2
  <2>1. FilterFor(bw).intf \in {4570, 3570}
    BY <1>2 DEF FilterFor, HighPass1, HighPass2
  <2> QED
    BY <2>1 DEF WithinIf
<1>3. CASE ~(bw > 1700 + HighPass1 + HighPass2)
  <2>1. FilterFor(bw) = Narrow(bw)
    BY <1>3 DEF FilterFor, HighPass1, HighPass2
  <2> QED
    BY <1>1, <1>3, <2>1
<1> QED
  BY <1>2, <1>3

-----------------------------------------------------------------------------
(* The other synthesisers.                                                 *)

LEMMA FcMultiples ==
    ASSUME NEW u, u.type \in {"FC0012", "FC0013"}, NEW f \in Int, 11000 <= f,
           f <= IF u.type = "FC0012" THEN 948000 ELSE 1700000
    PROVE  /\ FcMultiple(u, f) \in {2, 4, 6, 8, 12, 16, 24, 32, 48, 64, 96}
           /\ f * FcMultiple(u, f) <= 3800000
<1> DEFINE rows == DividersOf(u)
           S == {i \in DOMAIN rows : f < rows[i][1]}
<1>1. /\ DOMAIN rows \subseteq 1 .. 10
      /\ \A i \in DOMAIN rows :
            rows[i] \in {<<37084, 96>>, <<55625, 64>>, <<74167, 48>>, <<111250, 32>>,
                         <<148334, 24>>, <<222500, 16>>, <<296667, 12>>, <<445000, 8>>,
                         <<593334, 6>>, <<950000, 4>>}
  BY DEF DividersOf, Dividers
<1>2. \A i \in S : /\ rows[i][2] \in {4, 6, 8, 12, 16, 24, 32, 48, 64, 96}
                   /\ f * rows[i][2] <= 3800000
  <2> HIDE DEF rows
  <2> QED
    BY <1>1
<1>3. S \subseteq 1 .. 10
  BY <1>1
<1>4. ASSUME S # {} PROVE Min(S) \in S
  <2> HIDE DEF S
  <2>1. S \in SUBSET Nat
    BY <1>3
  <2>2. PICK e : e \in S
    BY <1>4
  <2> QED
    BY <2>1, <2>2, LeastOf
<1>5. FcMultiple(u, f) = IF S = {} THEN LastDivider(u) ELSE rows[Min(S)][2]
  BY DEF FcMultiple
<1>6. CASE S = {}
  BY <1>5, <1>6 DEF LastDivider
<1>7. CASE S # {}
  <2> HIDE DEF S, rows
  <2> QED
    BY <1>2, <1>4, <1>5, <1>7
<1> QED
  BY <1>6, <1>7

(* The two counts of a divider make it up.                                 *)
LEMMA CyclesMakeUp ==
    ASSUME NEW x \in Int, 2 <= x, x <= 400
    PROVE  /\ Cycles(x).a \in Int /\ Cycles(x).m \in Int
           /\ Cycles(x).a + 8 * Cycles(x).m = x
<1>1. PICK am : am = (x % 8) + IF x % 8 < 2 THEN 8 ELSE 0
  OBVIOUS
<1>2. PICK p : p = x \div 8 - IF x % 8 < 2 THEN 1 ELSE 0
  OBVIOUS
<1>3. am \in 2 .. 9 /\ p \in 0 .. 50 /\ am + 8 * p = x
  BY <1>1, <1>2
<1>4. p % 256 = p
  BY <1>3
<1>5. PICK q \in Int : q = am + 8 * (p - 31)
  BY <1>3
<1>6. p > 31 => q % 256 = q
  BY <1>3, <1>5
<1>7. Cycles(x) = IF p > 31 THEN [a |-> q % 256, m |-> 31] ELSE [a |-> am, m |-> p]
  BY <1>1, <1>2, <1>4, <1>5 DEF Cycles
<1> QED
  BY <1>3, <1>5, <1>6, <1>7

(* In its range a Fitipower tuner makes the LO it was asked for.           *)
LEMMA FcExact ==
    ASSUME NEW u, Known(u), u.type \in {"FC0012", "FC0013"}, NEW f \in Int, 11000 <= f,
           f <= IF u.type = "FC0012" THEN 948000 ELSE 1700000
    PROVE  FcPll(u, f).out = f
<1>1. PICK k \in {2, 4, 6, 8, 12, 16, 24, 32, 48, 64, 96} :
          k = FcMultiple(u, f) /\ f * k <= 3800000
  BY FcMultiples
<1>2. PICK vco \in Int : vco = f * k /\ 22000 <= vco /\ vco <= 3800000
  BY <1>1
<1>3. FVco(u, f) = vco
  BY <1>1, <1>2 DEF FVco, Wrap
<1>4. HalfXtal(u) = 14400
  BY DEF HalfXtal, Known, TypeOf, Kinds
<1>5. PICK x \in Int : x = XDiv(u, vco) /\ 2 <= x /\ x <= 400
  <2>1. XDiv(u, vco) = (vco + 7200) \div 14400
    BY <1>4 DEF XDiv
  <2> QED
    BY <1>2, <2>1
<1>6. PICK c : c = Cycles(x)
  OBVIOUS
<1>7. c.a \in Int /\ c.m \in Int /\ c.a + 8 * c.m = x
  BY <1>5, <1>6, CyclesMakeUp
<1>8. c.a + 8 * c.m - XDiv(u, vco) = 0
  <2>1. c.a + 8 * c.m - x = 0
    BY <1>5, <1>7
  <2> QED
    BY <1>5, <2>1
<1>9. FcLo(u, vco, c, k) = vco \div k
  <2>1. vco + 14400 * 0 = vco
    BY <1>2
  <2>2. FcLo(u, vco, c, k) = (vco + 14400 * (c.a + 8 * c.m - XDiv(u, vco))) \div k
    BY <1>4 DEF FcLo
  <2> QED
    BY <1>8, <2>1, <2>2
<1>10. vco \div k = f
  BY <1>1, <1>2
<1> QED
  BY <1>1, <1>3, <1>5, <1>6, <1>9, <1>10 DEF FcPll

(* The chip makes what its VCO was asked for.                              *)
LEMMA Fc2580Whole ==
    ASSUME NEW vco \in Int, 0 < vco, vco <= 5000000
    PROVE  Synthesised(vco) = vco
<1> DEFINE Whole(comp) ==
        2 * comp * NVal(vco, comp) + (KVal(vco, comp) * (comp \div 8)) \div 65536
<1>1. vco \in Nat
  OBVIOUS
<1>2. KVal(vco, 16384) = (vco - 32768 * ((vco \div 2) \div 16384)) * 32
  BY <1>1 DEF KVal
<1>3. KVal(vco, 8192) = (vco - 16384 * ((vco \div 2) \div 8192)) * 64
  BY <1>1 DEF KVal
<1>4. KVal(vco, 4096) = (vco - 8192 * ((vco \div 2) \div 4096)) * 128
  BY <1>1 DEF KVal
<1>5. ASSUME (vco \div 2) \div 16384 < 256 PROVE Whole(16384) = vco
  <2>1. PICK n \in Int : n = (vco \div 2) \div 16384 /\ 0 <= n /\ n < 256
    BY <1>1, <1>5
  <2>2. KVal(vco, 16384) = (vco - 32768 * n) * 32
    BY <2>1, <1>2
  <2>3. NVal(vco, 16384) = n
    BY <2>1 DEF NVal
  <2>4. PICK r \in Int : r = vco - 32768 * n
    BY <2>1
  <2>5. 2 * 16384 * n + ((r * 32) * (16384 \div 8)) \div 65536 = vco
    BY <2>1, <2>4
  <2> QED
    BY <2>2, <2>3, <2>4, <2>5
<1>6. ASSUME (vco \div 2) \div 8192 < 256 PROVE Whole(8192) = vco
  <2>1. PICK n \in Int : n = (vco \div 2) \div 8192 /\ 0 <= n /\ n < 256
    BY <1>1, <1>6
  <2>2. KVal(vco, 8192) = (vco - 16384 * n) * 64
    BY <2>1, <1>3
  <2>3. NVal(vco, 8192) = n
    BY <2>1 DEF NVal
  <2>4. PICK r \in Int : r = vco - 16384 * n
    BY <2>1
  <2>5. 2 * 8192 * n + ((r * 64) * (8192 \div 8)) \div 65536 = vco
    BY <2>1, <2>4
  <2> QED
    BY <2>2, <2>3, <2>4, <2>5
<1>7. ASSUME (vco \div 2) \div 4096 < 256 PROVE Whole(4096) = vco
  <2>1. PICK n \in Int : n = (vco \div 2) \div 4096 /\ 0 <= n /\ n < 256
    BY <1>1, <1>7
  <2>2. KVal(vco, 4096) = (vco - 8192 * n) * 128
    BY <2>1, <1>4
  <2>3. NVal(vco, 4096) = n
    BY <2>1 DEF NVal
  <2>4. PICK r \in Int : r = vco - 8192 * n
    BY <2>1
  <2>5. 2 * 4096 * n + ((r * 128) * (4096 \div 8)) \div 65536 = vco
    BY <2>1, <2>4
  <2> QED
    BY <2>2, <2>3, <2>4, <2>5
<1>8. PICK comp : comp = CrystalFreq \div RVal(vco)
  OBVIOUS
<1>9. Synthesised(vco) = Whole(comp)
  BY <1>8 DEF Synthesised
<1>10. CASE vco >= 2490368
  <2>1. comp = 16384 /\ (vco \div 2) \div 16384 < 256
    BY <1>8, <1>10 DEF RVal, CrystalFreq
  <2> QED
    BY <1>5, <1>9, <2>1
<1>11. CASE vco < 2490368 /\ vco >= 1245184
  <2>1. comp = 8192 /\ (vco \div 2) \div 8192 < 256
    BY <1>8, <1>11 DEF RVal, CrystalFreq
  <2> QED
    BY <1>6, <1>9, <2>1
<1>12. CASE vco < 1245184
  <2>1. comp = 4096 /\ (vco \div 2) \div 4096 < 256
    BY <1>8, <1>12 DEF RVal, CrystalFreq
  <2> QED
    BY <1>7, <1>9, <2>1
<1> QED
  BY <1>10, <1>11, <1>12

LEMMA Fc2580Exact ==
    ASSUME NEW f \in Int, 0 < f, f <= 1700000
    PROVE  Fc2580Lo(f) = f
<1>1. PICK k \in {2, 4, 12} : k = BandMultiple(BandOf(f)) /\ f * k <= 5000000
  BY DEF BandMultiple, BandOf, LBand, UhfBand, VhfBand
<1>2. Synthesised(f * k) = f * k
  BY <1>1, Fc2580Whole
<1>3. (f * k) \div k = f
  BY <1>1
<1> QED
  BY <1>1, <1>2, <1>3 DEF Fc2580Lo


LEMMA ChunkDone ==
    ASSUME NEW u, Rec(u), NEW chunk
    PROVE  /\ Steers(Regs, u, InitChunk(u, chunk)) /\ Rec(InitChunk(u, chunk))
           /\ InitChunk(u, chunk).shadow = u.shadow
           /\ Live(u) => /\ InitChunk(u, chunk).rc = 0 /\ Live(InitChunk(u, chunk))
                         /\ \A g \in Regs : InitChunk(u, chunk).chip[g] =
                              IF g \in chunk THEN InitRegs[g] ELSE u.chip[g]
<1>1. PICK c : c = [g \in Regs |-> IF g \in chunk THEN InitRegs[g] ELSE u.chip[g]]
  OBVIOUS
<1>2. InitChunk(u, chunk) = Renewed(u, c)
  BY <1>1 DEF InitChunk, Renewed, TunerAccess, Access, Rec, StateFields, Ok
<1>3. DOMAIN c = Regs
  BY <1>1
<1>4. PICK t : t = Renewed(u, c)
  OBVIOUS
<1>5. /\ Steers(Regs, u, t) /\ t.shadow = u.shadow
      /\ Live(u) => t.rc = 0 /\ t.chip = c
  BY <1>3, <1>4, RenewDone
<1>6. Rec(t) /\ (Live(u) => Live(t))
  BY <1>5, Same
<1> QED
  BY <1>1, <1>2, <1>4, <1>5, <1>6

LEMMA ThenChunkDone ==
    ASSUME NEW u, Rec(u), NEW chunk
    PROVE  /\ Steers(Regs, u, ThenChunk(u, chunk)) /\ Rec(ThenChunk(u, chunk))
           /\ ThenChunk(u, chunk).shadow = u.shadow
           /\ Live(u) /\ u.rc = 0 =>
                /\ ThenChunk(u, chunk).rc = 0 /\ Live(ThenChunk(u, chunk))
                /\ \A g \in Regs : ThenChunk(u, chunk).chip[g] =
                     IF g \in chunk THEN InitRegs[g] ELSE u.chip[g]
<1>1. CASE u.rc < 0
  <2>1. ThenChunk(u, chunk) = u
    BY <1>1 DEF ThenChunk, Then
  <2>2. Steers(Regs, u, u)
    BY MirrorsNone DEF Mirrors
  <2> QED
    BY <1>1, <2>1, <2>2
<1>2. CASE ~(u.rc < 0)
  <2>1. ThenChunk(u, chunk) = InitChunk(u, chunk)
    BY <1>2 DEF ThenChunk, Then
  <2> QED
    BY <2>1, ChunkDone
<1> QED
  BY <1>1, <1>2

LEMMA ShadowSet ==
    ASSUME NEW u, Rec(u), NEW c, DOMAIN c = Regs
    PROVE  /\ Steers({}, u, [u EXCEPT !.shadow = c]) /\ [u EXCEPT !.shadow = c].shadow = c
           /\ [u EXCEPT !.shadow = c].chip = u.chip
<1>1. PICK t : t = [u EXCEPT !.shadow = c]
  OBVIOUS
<1>2. DOMAIN u = StateFields
  BY DEF Rec
<1>3. DOMAIN t = StateFields /\ t.shadow = c /\ \A f \in StateFields \ {"shadow"} : t[f] = u[f]
  BY <1>1, <1>2 DEF StateFields
<1>4. Steers({}, u, t) /\ t.chip = u.chip
  BY <1>3 DEF Rec, Steers, Driven, StateFields, DriverFields, Marks
<1> QED
  BY <1>1, <1>3, <1>4

LEMMA InitArray ==
    ASSUME NEW u, Rec(u)
    PROVE  /\ Steers(Regs, u, WriteInitArray(u)) /\ Rec(WriteInitArray(u))
           /\ Live(u) => \A g \in Regs : WriteInitArray(u).chip[g] = InitRegs[g]
<1>1. PICK r : r = [u EXCEPT !.shadow = InitRegs]
  OBVIOUS
<1>2. PICK a : a = InitChunk(r, {"input", "agc", "gain", "filt"})
  OBVIOUS
<1>3. PICK b : b = ThenChunk(a, {"vga", "power"})
  OBVIOUS
<1>4. PICK c : c = ThenChunk(b, {"pll"})
  OBVIOUS
<1>5. PICK d : d = ThenChunk(c, {"mux", "auto"})
  OBVIOUS
<1>6. WriteInitArray(u) = d
  BY <1>1, <1>2, <1>3, <1>4, <1>5 DEF WriteInitArray
<1>7. DOMAIN InitRegs = Regs
  BY DEF InitRegs, Blank
<1>8. Steers({}, u, r) /\ Rec(r) /\ (Live(u) => Live(r))
  BY <1>1, <1>7, ShadowSet, Same
<1>9. /\ Steers(Regs, r, a) /\ Rec(a)
      /\ Live(r) => /\ a.rc = 0 /\ Live(a)
                    /\ \A g \in {"input", "agc", "gain", "filt"} : a.chip[g] = InitRegs[g]
  BY <1>2, <1>8, ChunkDone DEF Regs
<1>10. /\ Steers(Regs, a, b) /\ Rec(b)
       /\ Live(a) /\ a.rc = 0 =>
            /\ b.rc = 0 /\ Live(b)
            /\ \A g \in Regs : b.chip[g] = IF g \in {"vga", "power"} THEN InitRegs[g] ELSE a.chip[g]
  BY <1>3, <1>9, ThenChunkDone
<1>11. /\ Steers(Regs, b, c) /\ Rec(c)
       /\ Live(b) /\ b.rc = 0 =>
            /\ c.rc = 0 /\ Live(c)
            /\ \A g \in Regs : c.chip[g] = IF g \in {"pll"} THEN InitRegs[g] ELSE b.chip[g]
  BY <1>4, <1>10, ThenChunkDone
<1>12. /\ Steers(Regs, c, d) /\ Rec(d)
       /\ Live(c) /\ c.rc = 0 =>
            \A g \in Regs : d.chip[g] = IF g \in {"mux", "auto"} THEN InitRegs[g] ELSE c.chip[g]
  BY <1>5, <1>11, ThenChunkDone
<1>13. Live(u) => \A g \in Regs : d.chip[g] = InitRegs[g]
  BY <1>8, <1>9, <1>10, <1>11, <1>12 DEF Regs
<1>14. Steers(Regs, u, d)
  <2>1. Steers(Regs, u, a)
    BY <1>8, <1>9, SteersTwice
  <2>2. Steers(Regs, u, b)
    BY <1>10, <2>1, SteersTwice
  <2>3. Steers(Regs, u, c)
    BY <1>11, <2>2, SteersTwice
  <2> QED
    BY <1>12, <2>3, SteersTwice
<1> QED
  BY <1>6, <1>12, <1>13, <1>14

(* After the init array the chip holds InitRegs.                           *)
LEMMA StandardSet ==
    ASSUME NEW u, Rec(u)
    PROVE  /\ Steers(Regs \cup {"intf", "lock"}, u, SetTvStandard(u)) /\ Rec(SetTvStandard(u))
           /\ Live(u) /\ (\A g \in Regs : u.chip[g] = InitRegs[g]) =>
                Agree(SetTvStandard(u)) /\ SetTvStandard(u).chip["power"] = 1
           /\ Live(u) /\ Known(u) /\ IsR82xx(u) =>
                SetTvStandard(u).rc = 0 /\ SetTvStandard(u).intf = 3570
<1> DEFINE V == {"vga", "auto", "pll", "filt", "intf", "lock"}
<1>1. PICK r : r = [u EXCEPT !.shadow = InitRegs]
  OBVIOUS
<1>2. PICK a : a = Put(r, "vga", 0)
  OBVIOUS
<1>0. PICK m : m = 3570
  OBVIOUS
<1>3. PICK y : y = [a EXCEPT !.intf = m]
  OBVIOUS
<1>4. PICK b : b = SetPll(y, 56000)
  OBVIOUS
<1>5. PICK c : c = IF a.rc < 0 THEN a ELSE b
  OBVIOUS
<1>6. PICK q : q = TunerRead(c)
  OBVIOUS
<1>7. PICK p : p = Put(q, "filt", 6000)
  OBVIOUS
<1>8. PICK t : t = SetTvStandard(u)
  OBVIOUS
<1>9. t \in {c, q, p}
  BY <1>0, <1>1, <1>2, <1>3, <1>4, <1>5, <1>6, <1>7, <1>8 DEF SetTvStandard, Then
<1>10. DOMAIN InitRegs = Regs /\ InitRegs["power"] = 1
  BY DEF InitRegs, Blank, Regs
<1>11. Steers({}, u, r) /\ Rec(r) /\ r.shadow = InitRegs /\ r.chip = u.chip /\ (Live(u) => Live(r))
  BY <1>1, <1>10, ShadowSet, Same
<1>12. Mirrors({"vga"}, r, a) /\ Rec(a) /\ (Live(r) => a.rc = 0)
  BY <1>2, <1>11, PutMirrors DEF Regs
<1>13. Mirrors({"intf"}, a, y) /\ Rec(y) /\ y.intf = 3570
  <2>1. Mirrors({"intf"}, a, y) /\ Rec(y) /\ y.intf = m
    BY <1>3, <1>12, IntfNoted
  <2> QED
    BY <1>0, <2>1
<1>14. Mirrors({"auto", "pll", "lock"}, y, b)
       /\ (Live(y) /\ Divides(y, 56000) => b.rc = 0)
  <2>1. Rec(y) => \A lo : Live(y) /\ Divides(y, lo) => SetPll(y, lo).rc = 0
    BY PllSet
  <2>2. Rec(y) => \A lo : Mirrors({"auto", "pll", "lock"}, y, SetPll(y, lo))
    BY PllSet
  <2> QED
    BY <1>4, <1>13, <2>1, <2>2
<1>15. Mirrors(V, r, a)
  BY <1>12, MirrorsMore
<1>16. Mirrors(V, r, y)
  BY <1>11, <1>13, <1>15, MirrorsTwice
<1>17. Mirrors(V, r, b)
  BY <1>11, <1>14, <1>16, MirrorsTwice
<1>18. Mirrors(V, r, c) /\ Rec(c)
  BY <1>5, <1>11, <1>15, <1>17, Same DEF Mirrors
<1>19. Mirrors({}, c, q) /\ Rec(q)
  BY <1>6, <1>18, ReadMirrors
<1>20. Mirrors({"filt"}, q, p)
  BY <1>7, <1>19, PutMirrors DEF Regs
<1>21. Mirrors(V, r, q)
  BY <1>11, <1>18, <1>19, MirrorsTwice
<1>22. Mirrors(V, r, p)
  BY <1>11, <1>20, <1>21, MirrorsTwice
<1>23. Mirrors(V, r, t)
  BY <1>9, <1>18, <1>21, <1>22
<1>24. t.chip["power"] = u.chip["power"]
  BY <1>11, <1>23 DEF Mirrors, Steers, Regs
<1>25. Steers(Regs \cup {"intf", "lock"}, u, t)
  <2>1. V \subseteq Regs \cup {"intf", "lock"}
    BY DEF Regs
  <2> QED
    BY <1>11, <1>23, <2>1, SteersTwice DEF Mirrors
<1>27. ASSUME Live(u), Known(u), IsR82xx(u) PROVE t.rc = 0 /\ t.intf = 3570
  <2>1. Known(r) /\ r.type = u.type
    BY <1>11, <1>27, Same
  <2>2. Known(a) /\ a.type = u.type /\ Live(a)
    BY <1>11, <1>12, <1>27, <2>1, Same DEF Mirrors
  <2>3. Known(y) /\ y.type = u.type /\ Live(y)
    BY <1>12, <1>13, <2>2, Same DEF Mirrors
  <2>4. IsR82xx(y)
    BY <1>27, <2>3 DEF IsR82xx
  <2>5. Divides(y, 56000)
    BY <2>3, <2>4, Synthesiser
  <2>6. b.rc = 0 /\ b.intf = 3570 /\ c = b
    BY <1>5, <1>11, <1>12, <1>13, <1>14, <1>27, <2>3, <2>5 DEF Mirrors, Steers, Marks
  <2>10. Live(c)
    BY <1>13, <1>14, <2>3, <2>6, Same DEF Mirrors
  <2>7. q.rc = 0 /\ q.intf = 3570
    BY <1>6, <1>18, <1>19, <2>6, <2>10, ReadMirrors DEF Mirrors, Steers, Marks
  <2>8. Live(q)
    BY <1>18, <1>19, <2>10, Same DEF Mirrors
  <2>9. p.rc = 0 /\ p.intf = 3570
    BY <1>7, <1>19, <1>20, <2>7, <2>8, PutMirrors DEF Mirrors, Steers, Marks, Regs
  <2> QED
    BY <1>9, <2>6, <2>7, <2>9
<1>26. Live(u) /\ (\A g \in Regs : u.chip[g] = InitRegs[g]) => Agree(t)
  BY <1>11, <1>23 DEF Mirrors, Shadows, Agree
<1> QED
  BY <1>8, <1>10, <1>24, <1>25, <1>26, <1>27, Same DEF Regs

(* Initialised, the driver has noted no input and an IF of 3.57 MHz.       *)
Initial(t) == t.input = 0 /\ t.intf = 3570

LEMMA R82xxInitWhole ==
    ASSUME NEW u, Rec(u)
    PROVE  /\ Driven(u, R82xxInit(u)) /\ Rec(R82xxInit(u))
           /\ u.ready = TRUE \/ ~(R82xxInit(u).rc < 0) => R82xxInit(u).ready = TRUE
           /\ Live(u) => Agree(R82xxInit(u)) /\ R82xxInit(u).chip["power"] = 1
           /\ Live(u) /\ Known(u) /\ IsR82xx(u) => Initial(R82xxInit(u))
<1>1. PICK w : w = WriteInitArray(u)
  OBVIOUS
<1>2. PICK v : v = SetTvStandard(w)
  OBVIOUS
<1>3. PICK x : x = [v EXCEPT !.input = 0]
  OBVIOUS
<1>4. PICK y : y = Put(x, "input", 0)
  OBVIOUS
<1> DEFINE z == [y EXCEPT !.ready = TRUE]
<1>5. PICK t : t = R82xxInit(u)
  OBVIOUS
<1>6. t = IF v.rc < 0 THEN v ELSE z
  BY <1>1, <1>2, <1>3, <1>4, <1>5 DEF R82xxInit, SysfreqSel, Then
<1>7. /\ Steers(Regs, u, w) /\ Rec(w) /\ (Live(u) => Live(w))
      /\ Live(u) => \A g \in Regs : w.chip[g] = InitRegs[g]
  BY <1>1, InitArray, Same
<1>8. /\ Steers(Regs \cup {"intf", "lock"}, w, v) /\ Rec(v) /\ (Live(w) => Live(v))
      /\ Live(u) => Agree(v) /\ v.chip["power"] = 1
  <2>1. /\ Steers(Regs \cup {"intf", "lock"}, w, v) /\ Rec(v)
        /\ Live(u) => Agree(v) /\ v.chip["power"] = 1
    BY <1>2, <1>7, StandardSet
  <2> QED
    BY <1>7, <2>1, Same
<1>9. Mirrors({"input"}, v, x) /\ Rec(x) /\ x.input = 0
  BY <1>3, <1>8, InputNoted
<1>10. Mirrors({"input"}, x, y) /\ Rec(y)
  BY <1>4, <1>9, PutMirrors DEF Regs
<1>11. Mirrors({"input"}, v, y)
  BY <1>8, <1>9, <1>10, MirrorsTwice
<1>12. Live(u) => Agree(y) /\ y.chip["power"] = 1
  BY <1>7, <1>8, <1>11 DEF Mirrors, Shadows, Steers, Regs
<1>13. /\ DOMAIN z = StateFields /\ z.ready = TRUE
       /\ \A f \in StateFields \ {"ready"} : z[f] = y[f]
  BY <1>10 DEF Rec, StateFields
<1>21. y.intf = v.intf
  BY <1>11 DEF Mirrors, Steers, Marks
<1>22. ASSUME Live(u), Known(u), IsR82xx(u) PROVE t.input = 0 /\ t.intf = 3570
  <2>1. Known(w) /\ w.type = u.type /\ Live(w)
    BY <1>7, <1>22, Same
  <2>2. v.rc = 0 /\ v.intf = 3570
    BY <1>2, <1>7, <1>22, <2>1, StandardSet DEF IsR82xx
  <2>3. z.intf = 3570 /\ t = z
    BY <1>6, <1>13, <1>21, <2>2 DEF StateFields
  <2>4. y.input = x.input
    <3>1. Live(x) /\ x.shadow["input"] = x.chip["input"]
      BY <1>7, <1>8, <1>9, <1>22, <2>1, Same DEF Mirrors, Shadows, Agree, Regs
    <3> QED
      BY <1>4, <1>9 DEF Put, RegWrite, TunerAccess, Access, Ok, Fail, Rec, StateFields
  <2> QED
    BY <1>9, <1>13, <2>3, <2>4 DEF StateFields
<1> HIDE DEF z
<1>14. Rec(z) /\ Driven(y, z) /\ z.chip = y.chip /\ z.shadow = y.shadow
  BY <1>10, <1>13 DEF Rec, Driven, StateFields, DriverFields
<1>15. Driven(u, v)
  BY <1>7, <1>8, DrivenTwice DEF Steers
<1>16. Driven(u, z)
  <2>1. Driven(u, y)
    BY <1>11, <1>15, DrivenTwice DEF Mirrors, Steers
  <2> QED
    BY <1>14, <2>1, DrivenTwice
<1>17. v.ready = u.ready
  BY <1>7, <1>8 DEF Steers
<1>18. Driven(u, t) /\ Rec(t)
  BY <1>6, <1>8, <1>14, <1>15, <1>16
<1>19. u.ready = TRUE \/ ~(t.rc < 0) => t.ready = TRUE
  BY <1>6, <1>13, <1>17
<1>20. Live(u) => Agree(t) /\ t.chip["power"] = 1
  BY <1>6, <1>8, <1>12, <1>14 DEF Agree
<1> QED
  BY <1>5, <1>18, <1>19, <1>20, <1>22 DEF Initial

LEMMA R82xxInitDone ==
    ASSUME NEW u, Rec(u)
    PROVE  /\ Driven(u, R82xxInit(u)) /\ Rec(R82xxInit(u))
           /\ u.ready = TRUE \/ ~(R82xxInit(u).rc < 0) => R82xxInit(u).ready = TRUE
           /\ Live(u) => Agree(R82xxInit(u)) /\ R82xxInit(u).chip["power"] = 1
  BY R82xxInitWhole

LEMMA R82xxInitKnown ==
    ASSUME NEW u, Rec(u), Live(u), Known(u), IsR82xx(u)
    PROVE  Initial(R82xxInit(u))
  BY R82xxInitWhole

LEMMA StandbyDone ==
    ASSUME NEW u, Rec(u)
    PROVE  /\ Mirrors(Regs, u, R82xxStandby(u)) /\ Rec(R82xxStandby(u))
           /\ Live(u) /\ Agree(u) /\ u.ready => R82xxStandby(u).chip["power"] = 0
<1>1. CASE ~u.ready
  <2>1. Mirrors({}, u, Ok(u)) /\ Rec(Ok(u))
    BY Answered
  <2>2. Mirrors(Regs, u, Ok(u))
    BY <2>1, MirrorsMore
  <2> QED
    BY <1>1, <2>1, <2>2 DEF R82xxStandby
<1>2. CASE u.ready
  <2>1. PICK a : a = Put(u, "input", -1)
    OBVIOUS
  <2>2. PICK b : b = ThenPut(a, "agc", 1)
    OBVIOUS
  <2>3. PICK c : c = ThenPut(b, "gain", -1)
    OBVIOUS
  <2>4. PICK d : d = ThenPut(c, "mux", -1)
    OBVIOUS
  <2>5. PICK e : e = ThenPut(d, "filt", -1)
    OBVIOUS
  <2>6. PICK g : g = ThenPut(e, "vga", -1)
    OBVIOUS
  <2>7. PICK h : h = ThenPut(g, "power", 0)
    OBVIOUS
  <2>8. R82xxStandby(u) = h
    BY <1>2, <2>1, <2>2, <2>3, <2>4, <2>5, <2>6, <2>7 DEF R82xxStandby
  <2>9. Mirrors(Regs, u, a) /\ Rec(a) /\ (Live(u) => a.rc = 0)
    <3>1. Mirrors({"input"}, u, a) /\ Rec(a) /\ (Live(u) => a.rc = 0)
      BY <2>1, PutMirrors DEF Regs
    <3> QED
      BY <3>1, MirrorsMore DEF Regs
  <2> DEFINE On(t) == Mirrors(Regs, u, t) /\ Rec(t) /\ (Live(u) => t.rc = 0)
  <2>10. ASSUME NEW t, On(t), NEW reg \in Regs, NEW v
         PROVE  /\ On(ThenPut(t, reg, v))
                /\ Live(u) /\ Agree(u) => ThenPut(t, reg, v).chip[reg] = v
    <3>1. PICK r : r = ThenPut(t, reg, v)
      OBVIOUS
    <3>2. (Live(u) => Live(t)) /\ (Live(u) /\ Agree(u) => Agree(t))
      BY <2>10, Same DEF Mirrors, Shadows
    <3>3. /\ Mirrors({reg}, t, r) /\ Rec(r) /\ (Live(u) => r.rc = 0)
          /\ Live(u) /\ Agree(u) => r.chip[reg] = v
      BY <2>10, <3>1, <3>2, ThenPutDone
    <3>4. Mirrors(Regs, u, r)
      BY <2>10, <3>3, MirrorsTwice
    <3> QED
      BY <3>1, <3>3, <3>4
  <2> HIDE DEF On
  <2>11. On(a)
    BY <2>9 DEF On
  <2>12. On(b)
    BY <2>2, <2>10, <2>11 DEF Regs
  <2>13. On(c)
    BY <2>3, <2>10, <2>12 DEF Regs
  <2>14. On(d)
    BY <2>4, <2>10, <2>13 DEF Regs
  <2>15. On(e)
    BY <2>5, <2>10, <2>14 DEF Regs
  <2>16. On(g)
    BY <2>6, <2>10, <2>15 DEF Regs
  <2>17. On(h) /\ (Live(u) /\ Agree(u) => h.chip["power"] = 0)
    BY <2>7, <2>10, <2>16 DEF Regs
  <2> QED
    BY <2>8, <2>17 DEF On
<1> QED
  BY <1>1, <1>2

(* The input of a Blog V4 or V4L, once one was selected, is as noted.      *)
InputAgrees(t) ==
    (t.v4 \/ t.v4l) /\ t.input # 0 => t.chip["input"] = t.input /\ t.gpio5 = (t.input # HF)

(* The input for f.                                                        *)
Band(t, f) == IF t.v4 THEN BandOfV4(f) ELSE BandOfV4L(f)

LEMMA PutKeepsInput ==
    ASSUME NEW u, Rec(u), NEW reg, NEW val
    PROVE  Put(u, reg, val).input = u.input
  BY DEF Rec, StateFields, Put, TunerAccess, Access, FaultHits, Ok, Fail

LEMMA BandSwitched ==
    ASSUME NEW u, Rec(u), NEW band
    PROVE  /\ Mirrors({"mux", "input", "gpio5"}, u, SwitchBand(u, band))
           /\ Live(u) /\ Agree(u) =>
                /\ SwitchBand(u, band).input = band
                /\ InputAgrees(u) => InputAgrees(SwitchBand(u, band))
<1> DEFINE S == {"mux", "input", "gpio5"}
<1>1. PICK m : m = Put(u, "mux", 100)
  OBVIOUS
<1>2. PICK b : b = IF band = HF THEN m ELSE Ok(u)
  OBVIOUS
<1>3. PICK x : x = [b EXCEPT !.input = band]
  OBVIOUS
<1>4. PICK y : y = Put(x, "input", band)
  OBVIOUS
<1>5. PICK on : on = (band # HF)
  OBVIOUS
<1>6. PICK z : z = SetGpio(y, "gpio5", on)
  OBVIOUS
<1>7. PICK t : t = SwitchBand(u, band)
  OBVIOUS
<1>8. t = IF b.rc < 0 \/ band = u.input THEN b ELSE IF y.rc < 0 THEN y ELSE z
  BY <1>1, <1>2, <1>3, <1>4, <1>5, <1>6, <1>7 DEF SwitchBand, Then
<1>9. Mirrors({}, u, Ok(u)) /\ Rec(Ok(u)) /\ Ok(u).rc = 0
  BY Answered
<1>10. Mirrors({"mux"}, u, m) /\ Rec(m) /\ (Live(u) => m.rc = 0)
  BY <1>1, PutMirrors DEF Regs
<1>11. Mirrors({"mux"}, u, b) /\ Rec(b) /\ (Live(u) => b.rc = 0)
  BY <1>2, <1>9, <1>10, MirrorsMore
<1>12. Mirrors({"input"}, b, x) /\ Rec(x) /\ x.input = band
  BY <1>3, <1>11, InputNoted
<1>13. (Live(u) => Live(b)) /\ (Live(b) => Live(x)) /\ (Live(u) /\ Agree(u) => Agree(b))
       /\ (Live(b) /\ Agree(b) => Agree(x)) /\ b.v4 = u.v4 /\ b.v4l = u.v4l
  BY <1>11, <1>12, Same DEF Mirrors, Shadows
<1>14. /\ Mirrors({"input"}, x, y) /\ Rec(y) /\ (Live(x) => y.rc = 0)
       /\ Live(x) /\ Agree(x) => y.chip["input"] = band
  BY <1>4, <1>12, PutMirrors DEF Regs
<1>15. y.input = band
  BY <1>4, <1>12, PutKeepsInput
<1>16. /\ Steers({"gpio5"}, y, z) /\ (Live(y) => z.gpio5 = on)
       /\ z.chip = y.chip /\ z.shadow = y.shadow
  BY <1>6, <1>14, GpioSet
<1>17. Mirrors({"gpio5"}, y, z) /\ (Live(x) => Live(y))
  <2>1. Agree(y) => Agree(z)
    BY <1>16 DEF Agree
  <2>2. Live(x) => Live(y)
    BY <1>12, <1>14, Same DEF Mirrors
  <2> QED
    BY <1>16, <2>1, <2>2 DEF Mirrors, Shadows
<1>18. Mirrors(S, u, b)
  BY <1>11, MirrorsMore
<1>19. Mirrors(S, u, x)
  BY <1>12, <1>18, MirrorsTwice
<1>20. Mirrors(S, u, y)
  BY <1>14, <1>19, MirrorsTwice
<1>21. Mirrors(S, u, z)
  BY <1>17, <1>20, MirrorsTwice
<1>22. Mirrors(S, u, t)
  BY <1>8, <1>18, <1>20, <1>21
<1>23. CASE band = u.input
  <2>1. t = b
    BY <1>8, <1>23
  <2>2. b.input = u.input /\ b.chip["input"] = u.chip["input"] /\ b.gpio5 = u.gpio5
    BY <1>11 DEF Mirrors, Steers, Regs, Marks
  <2>3. InputAgrees(u) => InputAgrees(t)
    BY <1>13, <2>1, <2>2 DEF InputAgrees
  <2> QED
    BY <1>7, <1>22, <1>23, <2>1, <2>2, <2>3
<1>24. CASE band # u.input
  <2>1. Live(u) => t = z
    BY <1>8, <1>11, <1>13, <1>14, <1>24
  <2>2. z.input = y.input
    BY <1>17 DEF Mirrors, Steers, Marks
  <2>3. Live(u) /\ Agree(u) => z.input = band /\ z.chip["input"] = band /\ z.gpio5 = on
    BY <1>13, <1>14, <1>15, <1>16, <1>17, <2>2
  <2>4. Live(u) /\ Agree(u) => InputAgrees(z)
    BY <1>5, <2>3, Zenon DEF InputAgrees
  <2> QED
    BY <1>7, <1>22, <2>1, <2>3, <2>4
<1> QED
  BY <1>23, <1>24

LEMMA InputSelected ==
    ASSUME NEW u, Rec(u), NEW f
    PROVE  /\ Mirrors({"mux", "input", "gpio5"}, u, SelectInput(u, f)) /\ Rec(SelectInput(u, f))
           /\ u.rc < 0 => SelectInput(u, f) = u
           /\ Live(u) /\ Agree(u) /\ InputAgrees(u) => InputAgrees(SelectInput(u, f))
           /\ Live(u) /\ Agree(u) /\ u.rc = 0 /\ u.lock = TRUE /\ (u.v4 \/ u.v4l) =>
                SelectInput(u, f).input = Band(u, f)
<1> DEFINE S == {"mux", "input", "gpio5"}
<1>1. PICK t : t = SelectInput(u, f)
  OBVIOUS
<1>2. CASE u.rc < 0 \/ ~u.lock
  <2>1. t = u
    BY <1>1, <1>2 DEF SelectInput
  <2> QED
    BY <1>1, <1>2, <2>1, MirrorsNone
<1>3. CASE ~(u.rc < 0 \/ ~u.lock) /\ (u.v4 \/ u.v4l)
  <2>1. PICK band : band = Band(u, f)
    OBVIOUS
  <2>2. t = SwitchBand(u, band)
    BY <1>1, <1>3, <2>1 DEF SelectInput, Band
  <2>3. Mirrors(S, u, t)
        /\ (Live(u) /\ Agree(u) => t.input = band /\ (InputAgrees(u) => InputAgrees(t)))
    BY <2>2, BandSwitched
  <2>4. Rec(t)
    BY <2>3, Same DEF Mirrors
  <2> QED
    BY <1>1, <1>3, <2>1, <2>3, <2>4
<1>4. CASE ~(u.rc < 0 \/ ~u.lock) /\ ~u.v4 /\ ~u.v4l
  <2>1. PICK pos : pos = IF f > 345000 THEN AirIn ELSE Cable1
    OBVIOUS
  <2>2. PICK x : x = [u EXCEPT !.input = pos]
    OBVIOUS
  <2>3. PICK y : y = Put(x, "input", pos)
    OBVIOUS
  <2>4. t = SwitchInput(u, pos)
    BY <1>1, <1>4, <2>1 DEF SelectInput
  <2>5. t = y \/ t = Ok(u)
    BY <2>2, <2>3, <2>4 DEF SwitchInput
  <2>6. Mirrors({"input"}, u, x) /\ Rec(x)
    BY <2>2, InputNoted
  <2>7. Mirrors({}, u, Ok(u))
    BY Answered
  <2>8. Mirrors({"input"}, x, y)
    BY <2>3, <2>6, PutMirrors DEF Regs
  <2>9. Mirrors(S, u, y)
    BY <2>6, <2>8, MirrorsTwice
  <2>10. Mirrors(S, u, Ok(u))
    BY <2>7, MirrorsMore
  <2>11. Mirrors(S, u, t)
    BY <2>5, <2>9, <2>10
  <2>12. Rec(t) /\ t.v4 = u.v4 /\ t.v4l = u.v4l
    BY <2>11, Same DEF Mirrors
  <2>13. InputAgrees(t)
    BY <1>4, <2>12 DEF InputAgrees
  <2> QED
    BY <1>1, <1>4, <2>11, <2>12, <2>13
<1> QED
  BY <1>2, <1>3, <1>4

(* The LO for f.                                                           *)
LoFor(t, f) == UpconvertFreq(t, f) + t.intf

LEMMA PllSame ==
    ASSUME NEW R, NEW u, NEW t, Steers(R, u, t), "intf" \notin R, NEW lo, NEW f
    PROVE  /\ PllValue(t, lo) = PllValue(u, lo) /\ Locks(t, lo) = Locks(u, lo)
           /\ LoFor(t, f) = LoFor(u, f) /\ Band(t, f) = Band(u, f)
<1>1. /\ t.xtal = u.xtal /\ t.dongle = u.dongle /\ t.ppm = u.ppm /\ t.v4 = u.v4 /\ t.v4l = u.v4l
      /\ t.intf = u.intf
  BY DEF Steers, Driven, StateFields, DriverFields, Marks
<1>2. \A x : Real(t, x) = Real(u, x)
  BY <1>1 DEF Real
<1> QED
  BY <1>1, <1>2 DEF PllValue, Locks, LoFor, UpconvertFreq, Band

LEMMA R82xxTuned ==
    ASSUME NEW u, Rec(u), NEW f
    PROVE  /\ Mirrors({"mux", "auto", "pll", "lock", "input", "gpio5"}, u, R82xxSetFreq(u, f))
           /\ Live(u) /\ Agree(u) /\ R82xxSetFreq(u, f).rc = 0 =>
                R82xxSetFreq(u, f).chip["pll"] = PllValue(u, LoFor(u, f))
           /\ Live(u) /\ Agree(u) /\ InputAgrees(u) => InputAgrees(R82xxSetFreq(u, f))
           /\ Live(u) /\ Agree(u) /\ Locks(u, LoFor(u, f)) /\ (u.v4 \/ u.v4l)
                /\ R82xxSetFreq(u, f).rc = 0 => R82xxSetFreq(u, f).input = Band(u, f)
           /\ Dead(u) => R82xxSetFreq(u, f).rc = -1
<1> DEFINE S == {"mux", "auto", "pll", "lock", "input", "gpio5"}
<1>1. PICK lo : lo = LoFor(u, f)
  OBVIOUS
<1>2. PICK a : a = SetMux(u, lo)
  OBVIOUS
<1>3. PICK b : b = SetPll(a, lo)
  OBVIOUS
<1>4. PICK c : c = IF a.rc < 0 THEN a ELSE b
  OBVIOUS
<1>5. PICK t : t = R82xxSetFreq(u, f)
  OBVIOUS
<1>6. t = SelectInput(c, f)
  BY <1>1, <1>2, <1>3, <1>4, <1>5 DEF R82xxSetFreq, Then, LoFor
<1>7. PICK m : a = Put(u, "mux", m)
  BY <1>2 DEF SetMux
<1>8. Mirrors({"mux"}, u, a) /\ Rec(a) /\ a.rc \in {-1, 0} /\ (Live(u) => a.rc = 0)
  BY <1>7, PutMirrors DEF Regs
<1>9. /\ (Live(u) => Live(a)) /\ (Dead(u) => Dead(a)) /\ a.v4 = u.v4 /\ a.v4l = u.v4l
      /\ (Live(u) /\ Agree(u) => Agree(a))
  BY <1>8, Same DEF Mirrors, Shadows
<1>10. /\ Mirrors({"auto", "pll", "lock"}, a, b) /\ b.rc \in {-1, 0}
       /\ Live(a) /\ Agree(a) /\ b.rc = 0 => b.chip["pll"] = PllValue(a, lo)
       /\ Live(a) /\ Locks(a, lo) /\ b.rc = 0 => b.lock = TRUE
       /\ Dead(a) => b.rc = -1
  BY <1>3, <1>8, PllSet
<1>11. Mirrors(S, u, a)
  BY <1>8, MirrorsMore
<1>12. Mirrors(S, u, b)
  BY <1>10, <1>11, MirrorsTwice
<1>13. Mirrors(S, u, c)
  BY <1>4, <1>11, <1>12
<1>14. /\ Rec(c) /\ (Live(u) => Live(c)) /\ (Live(u) /\ Agree(u) => Agree(c))
       /\ c.v4 = u.v4 /\ c.v4l = u.v4l
  BY <1>13, Same DEF Mirrors, Shadows
<1>15. /\ Mirrors({"mux", "input", "gpio5"}, c, t) /\ (c.rc < 0 => t = c)
       /\ Live(c) /\ Agree(c) /\ InputAgrees(c) => InputAgrees(t)
       /\ Live(c) /\ Agree(c) /\ c.rc = 0 /\ c.lock = TRUE /\ (c.v4 \/ c.v4l) => t.input = Band(c, f)
  BY <1>6, <1>14, InputSelected
<1>16. Mirrors(S, u, t)
  BY <1>13, <1>15, MirrorsTwice
<1>17. t.chip["pll"] = c.chip["pll"]
  BY <1>15 DEF Mirrors, Steers, Regs
<1>18. PllValue(a, lo) = PllValue(u, lo) /\ Locks(a, lo) = Locks(u, lo) /\ Band(c, f) = Band(u, f)
  <2>1. PllValue(a, lo) = PllValue(u, lo) /\ Locks(a, lo) = Locks(u, lo)
    BY <1>8, PllSame DEF Mirrors
  <2>2. Band(c, f) = Band(u, f)
    BY <1>14 DEF Band
  <2> QED
    BY <2>1, <2>2
<1>19. Live(u) /\ Agree(u) /\ t.rc = 0 => t.chip["pll"] = PllValue(u, lo)
  BY <1>4, <1>8, <1>9, <1>10, <1>15, <1>17, <1>18
<1>20. Dead(u) => t.rc = -1
  BY <1>4, <1>8, <1>9, <1>10, <1>15
<1>21. ASSUME Live(u), Agree(u), InputAgrees(u) PROVE InputAgrees(t)
  <2>1. a.input = u.input /\ a.chip["input"] = u.chip["input"] /\ a.gpio5 = u.gpio5
    BY <1>8 DEF Mirrors, Steers, Regs, Marks
  <2>2. b.input = a.input /\ b.chip["input"] = a.chip["input"] /\ b.gpio5 = a.gpio5
    BY <1>10 DEF Mirrors, Steers, Regs, Marks
  <2>3. c.input = u.input /\ c.chip["input"] = u.chip["input"] /\ c.gpio5 = u.gpio5
    BY <1>4, <2>1, <2>2
  <2>4. InputAgrees(c)
    BY <1>14, <1>21, <2>3 DEF InputAgrees
  <2> QED
    BY <1>14, <1>15, <1>21, <2>4
<1>22. Live(u) /\ Agree(u) /\ Locks(u, lo) /\ (u.v4 \/ u.v4l) /\ t.rc = 0 => t.input = Band(u, f)
  <2>1. Live(u) /\ t.rc = 0 => c = b /\ b.rc = 0
    BY <1>4, <1>8, <1>10, <1>15
  <2> QED
    BY <1>9, <1>10, <1>14, <1>15, <1>18, <2>1
<1> QED
  BY <1>1, <1>5, <1>16, <1>19, <1>20, <1>21, <1>22

LEMMA R82xxFiltered ==
    ASSUME NEW u, Rec(u), NEW v
    PROVE  /\ Mirrors({"filt", "intf"}, u, R82xxSetBandwidth(u, v))
           /\ R82xxSetBandwidth(u, v).intf = FilterFor(v).intf
           /\ Live(u) => R82xxSetBandwidth(u, v).rc = 0
<1>1. PICK i : i = FilterFor(v).intf
  OBVIOUS
<1>2. PICK x : x = [u EXCEPT !.intf = i]
  OBVIOUS
<1>3. PICK y : y = Put(x, "filt", FilterFor(v).width)
  OBVIOUS
<1>4. R82xxSetBandwidth(u, v) = y
  BY <1>1, <1>2, <1>3 DEF R82xxSetBandwidth
<1>5. Mirrors({"intf"}, u, x) /\ Rec(x) /\ x.intf = i
  BY <1>2, IntfNoted
<1>6. Mirrors({"filt"}, x, y) /\ (Live(x) => y.rc = 0)
  BY <1>3, <1>5, PutMirrors DEF Regs
<1>7. Mirrors({"filt", "intf"}, u, y)
  BY <1>5, <1>6, MirrorsTwice
<1>8. y.intf = x.intf
  BY <1>6 DEF Mirrors, Steers, Marks
<1>9. Live(u) => Live(x)
  BY <1>5, Same DEF Mirrors
<1> QED
  BY <1>1, <1>4, <1>5, <1>6, <1>7, <1>8, <1>9

LEMMA R82xxSet ==
    ASSUME NEW u, Rec(u), NEW v
    PROVE  /\ Mirrors({"filt", "intf"}, u, R82xxSetBandwidth(u, v))
           /\ \A manual : Mirrors({"agc", "vga", "gain"}, u, R82xxSetGain(u, manual, v))
           /\ Dead(u) => R82xxSetGain(u, TRUE, v).rc = -1
<1>1. Mirrors({"filt", "intf"}, u, R82xxSetBandwidth(u, v))
  BY R82xxFiltered
<1>2. ASSUME NEW manual PROVE Mirrors({"agc", "vga", "gain"}, u, R82xxSetGain(u, manual, v))
  <2> DEFINE S == {"agc", "vga", "gain"}
  <2>1. PICK a : a = Put(u, "agc", IF manual THEN 0 ELSE 1)
    OBVIOUS
  <2>2. PICK r : r = TunerRead(a)
    OBVIOUS
  <2>3. PICK b : b = IF manual /\ ~(a.rc < 0) THEN r ELSE a
    OBVIOUS
  <2>4. PICK c : c = ThenPut(b, "vga", IF manual THEN 1 ELSE 2)
    OBVIOUS
  <2>5. PICK d : d = ThenPut(c, "gain", v)
    OBVIOUS
  <2>6. R82xxSetGain(u, manual, v) = IF manual THEN d ELSE c
    BY <2>1, <2>2, <2>3, <2>4, <2>5 DEF R82xxSetGain, Then
  <2>7. Mirrors({"agc"}, u, a) /\ Rec(a)
    BY <2>1, PutMirrors DEF Regs
  <2>8. Mirrors({}, a, r) /\ Rec(r)
    BY <2>2, <2>7, ReadMirrors
  <2>9. Mirrors(S, u, a)
    BY <2>7, MirrorsMore
  <2>10. Mirrors(S, u, r)
    BY <2>8, <2>9, MirrorsTwice
  <2>11. Mirrors(S, u, b) /\ Rec(b)
    BY <2>3, <2>7, <2>8, <2>9, <2>10
  <2>12. Mirrors({"vga"}, b, c) /\ Rec(c)
    BY <2>4, <2>11, ThenPutDone DEF Regs
  <2>13. Mirrors({"gain"}, c, d)
    BY <2>5, <2>12, ThenPutDone DEF Regs
  <2>14. Mirrors(S, u, c)
    BY <2>11, <2>12, MirrorsTwice
  <2>15. Mirrors(S, u, d)
    BY <2>13, <2>14, MirrorsTwice
  <2> QED
    BY <2>6, <2>14, <2>15
<1>3. ASSUME Dead(u) PROVE R82xxSetGain(u, TRUE, v).rc = -1
  <2>1. PICK a : a = Put(u, "agc", 0)
    OBVIOUS
  <2>2. PICK r : r = TunerRead(a)
    OBVIOUS
  <2>3. PICK b : b = IF a.rc < 0 THEN a ELSE r
    OBVIOUS
  <2>4. R82xxSetGain(u, TRUE, v) = ThenPut(ThenPut(b, "vga", 1), "gain", v)
    BY <2>1, <2>2, <2>3 DEF R82xxSetGain, Then
  <2>5. Mirrors({"agc"}, u, a) /\ Rec(a) /\ a.rc \in {-1, 0}
    BY <2>1, PutMirrors DEF Regs
  <2>6. Dead(a)
    BY <1>3, <2>5, Same DEF Mirrors
  <2>7. r.rc = -1 /\ Rec(r)
    BY <2>2, <2>5, <2>6, ReadMirrors
  <2>8. b.rc = -1 /\ Rec(b)
    BY <2>3, <2>5, <2>7
  <2>9. ThenPut(b, "vga", 1) = b /\ ThenPut(b, "gain", v) = b
    BY <2>8 DEF ThenPut, Then
  <2> QED
    BY <2>4, <2>8, <2>9
<1> QED
  BY <1>1, <1>2, <1>3

-----------------------------------------------------------------------------
(* The tuners as librtlsdr sees them.                                      *)

Sleepy(t) == IsR82xx(t) \/ t.type = "E4000"

(* The driver of an R82xx is initialised and knows what its chip holds; a  *)
(* tuner that has no standby is awake.                                     *)
Tame(t) ==
    /\ IsR82xx(t) => t.ready = TRUE /\ Agree(t)
    /\ HasTuner(t) /\ ~Sleepy(t) => t.chip["power"] = 1

(* The tuner's write registers R: if its driver is sound it stays so.      *)
Tunes(R, u, t) ==
    /\ Steers(R, u, t) /\ Rec(t)
    /\ IsR82xx(u) => Shadows(u, t)

NotPower == (Regs \cup Marks) \ {"power"}
NotTuning == NotPower \ {"pll", "lock", "gpio5", "gpio6"}

LEMMA TunesTame ==
    ASSUME NEW u, Rec(u), NEW t, Tunes(NotPower, u, t)
    PROVE  t.chip["power"] = u.chip["power"] /\ (Live(u) /\ Tame(u) => Tame(t))
<1>1. t.type = u.type /\ t.ready = u.ready
  BY Same DEF Tunes
<1>2. "power" \in Regs \ NotPower
  BY DEF NotPower, Regs, Marks
<1>3. t.chip["power"] = u.chip["power"]
  BY <1>2 DEF Tunes, Steers
<1> QED
  BY <1>1, <1>3 DEF Tunes, Shadows, Tame, IsR82xx, HasTuner, Sleepy

LEMMA TunesSteers ==
    ASSUME NEW Q, NEW R \in SUBSET Q, NEW u, Rec(u), NEW t, Steers(R, u, t), ~IsR82xx(u)
    PROVE  Tunes(Q, u, t)
  BY SteersMore, Same DEF Tunes

LEMMA TunesMirrors ==
    ASSUME NEW Q, NEW R \in SUBSET Q, NEW u, Rec(u), NEW t, Mirrors(R, u, t)
    PROVE  Tunes(Q, u, t)
  BY MirrorsMore, Same DEF Tunes, Mirrors

LEMMA TunerSets ==
    ASSUME NEW u, Rec(u), HasTuner(u), NEW v
    PROVE  /\ Tunes(NotPower, u, TunerSetFreq(u, v))
           /\ Live(u) /\ Tame(u) /\ u.ppm = u.corr /\ u.type # "FC2580" /\ TunerSetFreq(u, v).rc = 0 =>
                TunerSetFreq(u, v).chip["pll"].ppm = u.corr
           /\ Dead(u) /\ (IsR82xx(u) \/ IsFc001x(u)) => TunerSetFreq(u, v).rc = -1
           /\ Tunes(NotTuning, u, TunerGain(u, v))
           /\ Dead(u) /\ (IsR82xx(u) \/ IsFc001x(u)) => TunerGain(u, v).rc = -1
           /\ Tunes(NotTuning, u, TunerGainMode(u, v))
<1> DEFINE F == TunerSetFreq(u, v)
           G == TunerGain(u, v)
           M == TunerGainMode(u, v)
<1>1. Tunes(NotTuning, u, Ok(u))
  <2>1. Mirrors({}, u, Ok(u))
    BY Answered
  <2> QED
    BY <2>1, TunesMirrors
<1>2. CASE IsR82xx(u)
  <2>1. F = R82xxSetFreq(u, v) /\ G = R82xxSetGain(u, TRUE, v) /\ M = R82xxSetGain(u, v, 0)
    BY <1>2 DEF TunerSetFreq, TunerGain, TunerGainMode, IsR82xx
  <2>2. Tunes(NotPower, u, F)
    BY <2>1, R82xxTuned, TunesMirrors DEF NotPower, Regs, Marks
  <2>3. Tunes(NotTuning, u, G)
    BY <2>1, R82xxSet, TunesMirrors DEF NotTuning, NotPower, Regs, Marks
  <2>4. Tunes(NotTuning, u, M)
    BY <2>1, R82xxSet, TunesMirrors DEF NotTuning, NotPower, Regs, Marks
  <2>5. Live(u) /\ Tame(u) /\ u.ppm = u.corr /\ F.rc = 0 => F.chip["pll"].ppm = u.corr
    <3>1. Live(u) /\ Tame(u) /\ F.rc = 0 => F.chip["pll"] = PllValue(u, LoFor(u, v))
      BY <1>2, <2>1, R82xxTuned DEF Tame
    <3>2. PllValue(u, LoFor(u, v)).ppm = u.ppm
      BY DEF PllValue
    <3> QED
      BY <3>1, <3>2
  <2>6. Dead(u) => F.rc = -1
    BY <2>1, R82xxTuned
  <2>7. Dead(u) => G.rc = -1
    BY <2>1, R82xxSet
  <2> QED
    BY <2>2, <2>3, <2>4, <2>5, <2>6, <2>7
<1>3. CASE u.type = "E4000"
  <2>1. F = E4kTuneFreq(u, v) /\ G = E4kSetGain(u, v) /\ M = E4kSetGainMode(u, v) /\ ~IsR82xx(u)
        /\ ~IsFc001x(u)
    BY <1>3 DEF TunerSetFreq, TunerGain, TunerGainMode, IsR82xx, IsFc001x
  <2>2. Tunes(NotPower, u, F)
    BY <2>1, E4kTuned, TunesSteers DEF NotPower, Regs, Marks
  <2>3. Tunes(NotTuning, u, G)
    BY <2>1, E4kSet, TunesSteers DEF NotTuning, NotPower, Regs, Marks
  <2>4. Tunes(NotTuning, u, M)
    BY <2>1, E4kSet, TunesSteers DEF NotTuning, NotPower, Regs, Marks
  <2>5. Live(u) => F.chip["pll"].ppm = u.ppm
    <3>1. Live(u) => F.chip["pll"] = [out |-> v, ppm |-> u.ppm]
      BY <2>1, E4kTuned
    <3> QED
      BY <3>1
  <2> QED
    BY <2>1, <2>2, <2>3, <2>4, <2>5
<1>4. CASE u.type = "FC0012"
  <2>1. F = Fc0012SetFreq(u, v) /\ G = Fc0012SetGain(u, v) /\ M = Ok(u) /\ ~IsR82xx(u)
    BY <1>4 DEF TunerSetFreq, TunerGain, TunerGainMode, IsR82xx, IsFc001x
  <2>2. Tunes(NotPower, u, F)
    BY <2>1, Fc0012Set, TunesSteers DEF NotPower, Regs, Marks
  <2>3. Tunes(NotTuning, u, G)
    BY <2>1, Fc0012Set, TunesSteers DEF NotTuning, NotPower, Regs, Marks
  <2>4. Live(u) /\ F.rc = 0 => F.chip["pll"].ppm = u.corr
    <3>1. Live(u) /\ F.rc = 0 => F.chip["pll"] = FcPll(u, v)
      BY <2>1, Fc0012Set
    <3> QED
      BY <3>1 DEF FcPll
  <2>5. Dead(u) => F.rc = -1 /\ G.rc = -1
    BY <2>1, Fc0012Set
  <2> QED
    BY <1>1, <2>1, <2>2, <2>3, <2>4, <2>5
<1>5. CASE u.type = "FC0013"
  <2>1. F = Fc0013SetFreq(u, v) /\ G = Fc0013SetGain(u, v) /\ M = Fc0013SetGainMode(u, v) /\ ~IsR82xx(u)
    BY <1>5 DEF TunerSetFreq, TunerGain, TunerGainMode, IsR82xx, IsFc001x
  <2>2. Tunes(NotPower, u, F)
    BY <2>1, Fc0013Tuned, TunesSteers DEF NotPower, Regs, Marks
  <2>3. Tunes(NotTuning, u, G)
    BY <2>1, Fc0013Set, TunesSteers DEF NotTuning, NotPower, Regs, Marks
  <2>4. Tunes(NotTuning, u, M)
    BY <2>1, Fc0013Set, TunesSteers DEF NotTuning, NotPower, Regs, Marks
  <2>5. Live(u) /\ F.rc = 0 => F.chip["pll"].ppm = u.corr
    <3>1. Live(u) /\ F.rc = 0 => F.chip["pll"] = FcPll(u, v)
      BY <2>1, Fc0013Tuned
    <3> QED
      BY <3>1 DEF FcPll
  <2>6. Dead(u) => F.rc = -1 /\ G.rc = -1
    BY <2>1, Fc0013Tuned, Fc0013Set
  <2> QED
    BY <2>1, <2>2, <2>3, <2>4, <2>5, <2>6
<1>6. CASE u.type = "FC2580"
  <2>1. F = Fc2580SetFreq(u, v) /\ G = Ok(u) /\ M = Ok(u) /\ ~IsR82xx(u) /\ ~IsFc001x(u)
    BY <1>6 DEF TunerSetFreq, TunerGain, TunerGainMode, IsR82xx, IsFc001x
  <2>2. Tunes(NotPower, u, F)
    BY <2>1, Fc2580Done, TunesSteers DEF NotPower, Regs, Marks
  <2> QED
    BY <1>1, <1>6, <2>1, <2>2
<1> QED
  BY <1>2, <1>3, <1>4, <1>5, <1>6 DEF Rec, Types, HasTuner, IsR82xx

LEMMA TunerExits ==
    ASSUME NEW u, Rec(u), HasTuner(u)
    PROVE  /\ Driven(u, TunerExit(u)) /\ Rec(TunerExit(u))
           /\ Live(u) /\ Tame(u) => /\ Tame(TunerExit(u))
                                    /\ Sleepy(u) => TunerExit(u).chip["power"] = 0
<1>1. CASE IsR82xx(u)
  <2>1. PICK t : t = R82xxStandby(u)
    OBVIOUS
  <2>2. TunerExit(u) = t
    BY <1>1, <2>1 DEF TunerExit, IsR82xx
  <2>3. /\ Mirrors(Regs, u, t) /\ Rec(t)
        /\ Live(u) /\ Agree(u) /\ u.ready => t.chip["power"] = 0
    BY <2>1, StandbyDone
  <2>4. t.type = u.type /\ t.ready = u.ready /\ Driven(u, t)
    BY <2>3, Same DEF Mirrors, Steers
  <2> QED
    BY <1>1, <2>2, <2>3, <2>4 DEF Tame, Mirrors, Shadows, IsR82xx, Sleepy
<1>2. CASE u.type = "E4000"
  <2>1. PICK t : t = E4kExit(u)
    OBVIOUS
  <2>2. TunerExit(u) = t
    BY <1>2, <2>1 DEF TunerExit, IsR82xx
  <2>3. Steers({"power"}, u, t) /\ Rec(t) /\ (Live(u) => t.chip["power"] = 0) /\ t.type = u.type
    BY <2>1, E4kPower, Same
  <2> QED
    BY <1>2, <2>2, <2>3 DEF Tame, Steers, IsR82xx, Sleepy
<1>3. CASE ~Sleepy(u)
  <2>1. TunerExit(u) = Ok(u)
    BY <1>3 DEF TunerExit, Sleepy
  <2>2. Steers({}, u, Ok(u)) /\ Rec(Ok(u)) /\ Ok(u).chip = u.chip /\ Ok(u).type = u.type
    BY Opened, Same
  <2> QED
    BY <1>3, <2>1, <2>2 DEF Tame, Steers, IsR82xx, Sleepy, HasTuner
<1> QED
  BY <1>1, <1>2, <1>3 DEF Sleepy

LEMMA TunerInits ==
    ASSUME NEW u, Rec(u), HasTuner(u), u.ppm = u.corr
    PROVE  /\ Driven(u, TunerInit(u)) /\ Rec(TunerInit(u))
           /\ Live(u) => TunerInit(u).chip["power"] = 1
           /\ Live(u) /\ (Tame(u) \/ ~(TunerInit(u).rc < 0)) => Tame(TunerInit(u))
<1> DEFINE x == [u EXCEPT !.ppm = u.corr]
<1>1. /\ DOMAIN x = StateFields /\ \A f \in StateFields : x[f] = u[f]
      /\ x.chip = u.chip /\ x.shadow = u.shadow /\ x.type = u.type /\ x.ready = u.ready
      /\ x.n = u.n /\ x.rc = u.rc /\ x.blind = u.blind /\ x.fault = u.fault /\ x.rep = u.rep
  BY DEF Rec, StateFields
<1> HIDE DEF x
<1>2. Rec(x) /\ Driven(u, x) /\ (Live(u) => Live(x))
  BY <1>1 DEF Rec, Driven, Live
<1>3. CASE IsR82xx(u)
  <2>1. PICK t : t = R82xxInit(x)
    OBVIOUS
  <2>2. TunerInit(u) = t
    BY <1>3, <2>1 DEF TunerInit, x, IsR82xx, IsFc001x
  <2>3. /\ Driven(x, t) /\ Rec(t) /\ (x.ready = TRUE \/ ~(t.rc < 0) => t.ready = TRUE)
        /\ Live(x) => Agree(t) /\ t.chip["power"] = 1
    BY <1>2, <2>1, R82xxInitDone
  <2>4. Driven(u, t)
    BY <1>2, <2>3, DrivenTwice
  <2>5. t.type = u.type
    BY <2>4 DEF Driven, StateFields, DriverFields
  <2> QED
    BY <1>1, <1>2, <1>3, <2>2, <2>3, <2>4, <2>5 DEF Tame, IsR82xx, Sleepy
<1>4. CASE ~IsR82xx(u)
  <2>1. PICK t : t = TunerInit(u)
    OBVIOUS
  <2>2. Driven(u, t) /\ Rec(t) /\ (Live(u) => t.chip["power"] = 1)
    <3>1. CASE u.type = "E4000"
      <4>1. t = E4kInit(x)
        BY <1>4, <2>1, <3>1 DEF TunerInit, x, IsR82xx, IsFc001x
      <4>2. Steers(Regs, x, t) /\ Rec(t) /\ (Live(x) => t.chip["power"] = 1)
        BY <1>2, <4>1, E4kPower, Same
      <4> QED
        BY <1>2, <4>2, DrivenTwice DEF Steers
    <3>2. CASE IsFc001x(u)
      <4>1. t = FcInit(u)
        BY <1>4, <2>1, <3>2 DEF TunerInit, IsFc001x, IsR82xx
      <4> QED
        BY <4>1, FcInitDone, Same DEF Steers
    <3>3. CASE u.type = "FC2580"
      <4>1. t = Fc2580Init(u)
        BY <1>4, <2>1, <3>3 DEF TunerInit, IsFc001x, IsR82xx
      <4>2. Steers({"power", "agc", "filt", "auto"}, u, t) /\ (Live(u) => t.chip["power"] = 1)
        BY <4>1, Fc2580Done
      <4>3. Rec(t)
        BY <4>2, Same
      <4> QED
        BY <4>2, <4>3 DEF Steers
    <3> QED
      BY <1>4, <3>1, <3>2, <3>3 DEF Rec, Types, HasTuner, IsR82xx, IsFc001x
  <2>3. t.type = u.type
    BY <2>2 DEF Driven, StateFields, DriverFields
  <2> QED
    BY <1>4, <2>1, <2>2, <2>3 DEF Tame, IsR82xx
<1> QED
  BY <1>3, <1>4

-----------------------------------------------------------------------------
(* The demodulator and the repeater.                                       *)

Calm(t) == t.fault = NoFault

(* Only the fields W change, the number of transfers and the result.       *)
Only(W, u, t) ==
    /\ Rec(t)
    /\ \A f \in StateFields \ (W \cup {"n", "rc"}) : t[f] = u[f]

DemodFields == {"rep", "ifr", "zif", "inv", "adc", "swap", "resamp", "sync"}

LEMMA OnlyTwice ==
    ASSUME NEW W, NEW V \in SUBSET W, NEW Q \in SUBSET W, NEW r, NEW u, NEW t,
           Only(V, r, u), Only(Q, u, t)
    PROVE  Only(W, r, t)
  BY DEF Only

LEMMA OnlyMore ==
    ASSUME NEW W, NEW V \in SUBSET W, NEW u, NEW t, Only(V, u, t)
    PROVE  Only(W, u, t)
  BY DEF Only

(* What does not change stays true.                                        *)
LEMMA Untouched ==
    ASSUME NEW W, W \cap {"type", "v4", "v4l", "fault", "corr", "ppm", "mode"} = {},
           NEW u, NEW t, Only(W, u, t)
    PROVE  /\ t.type = u.type /\ t.v4 = u.v4 /\ t.v4l = u.v4l /\ t.fault = u.fault
           /\ t.corr = u.corr /\ t.ppm = u.ppm /\ t.mode = u.mode
           /\ Calm(t) = Calm(u) /\ Dead(t) = Dead(u)
  BY DEF Only, StateFields, Calm, Dead

LEMMA TameStays ==
    ASSUME NEW W, W \cap {"type", "ready", "chip", "shadow"} = {}, NEW u, NEW t, Only(W, u, t)
    PROVE  /\ t.type = u.type /\ t.ready = u.ready /\ t.chip = u.chip /\ t.shadow = u.shadow
           /\ Tame(u) => Tame(t)
<1>1. t.type = u.type /\ t.ready = u.ready /\ t.chip = u.chip /\ t.shadow = u.shadow
  BY DEF Only, StateFields
<1> QED
  BY <1>1 DEF Tame, IsR82xx, Agree, HasTuner, Sleepy

LEMMA ResultOnly ==
    ASSUME NEW u, Rec(u), NEW w, Rec(w)
    PROVE  /\ Only({}, u, Ok(u)) /\ Ok(u).rc = 0
           /\ Only({}, u, Fail(u)) /\ Fail(u).rc = -1
           /\ Only({}, u, Keep(w.rc, u)) /\ Keep(w.rc, u).rc = w.rc
           /\ Only({}, u, OrRc(w.rc, u)) /\ OrRc(w.rc, u).rc = IF w.rc # 0 THEN w.rc ELSE u.rc
           /\ Only({}, u, Keep(0, u)) /\ Keep(0, u).rc = 0
<1> DEFINE R == {[u EXCEPT !.rc = c] : c \in {-1, 0, 1}}
<1>1. ASSUME NEW c \in {-1, 0, 1} PROVE Only({}, u, [u EXCEPT !.rc = c]) /\ [u EXCEPT !.rc = c].rc = c
  BY DEF Rec, Only, StateFields
<1>2. u.rc \in {-1, 0, 1} /\ w.rc \in {-1, 0, 1}
  BY DEF Rec
<1>3. PICK d \in {-1, 0, 1} : d = IF w.rc # 0 THEN w.rc ELSE u.rc
  BY <1>2
<1>4. OrRc(w.rc, u) = [u EXCEPT !.rc = d]
  BY <1>3 DEF OrRc
<1>5. PICK e \in {-1, 0, 1} : e = w.rc
  BY <1>2
<1>6. Keep(w.rc, u) = [u EXCEPT !.rc = e] /\ Keep(0, u) = [u EXCEPT !.rc = 0]
  BY <1>5 DEF Keep
<1>7. Ok(u) = [u EXCEPT !.rc = 0] /\ Fail(u) = [u EXCEPT !.rc = -1]
  BY DEF Ok, Fail
<1>8. Only({}, u, OrRc(w.rc, u)) /\ OrRc(w.rc, u).rc = d
  BY <1>1, <1>4
<1>9. Only({}, u, Keep(w.rc, u)) /\ Keep(w.rc, u).rc = e
  BY <1>1, <1>6
<1>10. Only({}, u, Keep(0, u)) /\ Keep(0, u).rc = 0
  BY <1>1, <1>6
<1>11. Only({}, u, Ok(u)) /\ Ok(u).rc = 0
  BY <1>1, <1>7
<1>12. Only({}, u, Fail(u)) /\ Fail(u).rc = -1
  BY <1>1, <1>7
<1> QED
  BY <1>3, <1>5, <1>8, <1>9, <1>10, <1>11, <1>12

LEMMA DemodDone ==
    ASSUME NEW u, Rec(u), NEW field \in DemodFields, NEW val
    PROVE  /\ Only({field}, u, Demod(u, field, val))
           /\ Calm(u) => Demod(u, field, val).rc = 0 /\ Demod(u, field, val)[field] = val
           /\ Dead(u) => Demod(u, field, val).rc = -1
<1> DEFINE t == Demod(u, field, val)
<1>1. DOMAIN u = StateFields /\ u.n \in Nat /\ field \in StateFields /\ field \notin {"n", "rc"}
  BY DEF Rec, DemodFields, StateFields
<1>2. DOMAIN t = StateFields /\ t.n = u.n + 1 /\ t.rc \in {-1, 0}
  BY <1>1 DEF Demod, Access, Ok, Fail, StateFields
<1>3. \A f \in StateFields \ {field, "n", "rc"} : t[f] = u[f]
  BY <1>1 DEF Demod, Access, Ok, Fail, StateFields
<1>4. Calm(u) => t.rc = 0 /\ t[field] = val
  <2>1. PICK w : w = [u EXCEPT !.n = u.n + 1]
    OBVIOUS
  <2>2. DOMAIN w = StateFields /\ w.fault = u.fault
    BY <1>1, <2>1 DEF StateFields
  <2>3. Calm(u) => ~FaultHits(w)
    BY <2>2 DEF Calm, FaultHits, NoFault
  <2>4. Calm(u) => t = Ok([w EXCEPT ![field] = val])
    BY <2>1, <2>3 DEF Demod, Access
  <2>5. PICK v : v = [w EXCEPT ![field] = val]
    OBVIOUS
  <2>6. DOMAIN v = StateFields /\ v[field] = val
    BY <1>1, <2>2, <2>5
  <2> HIDE DEF t
  <2>7. Calm(u) => t = [v EXCEPT !.rc = 0]
    BY <2>4, <2>5 DEF Ok
  <2> QED
    BY <1>1, <2>6, <2>7 DEF StateFields
<1>5. Dead(u) => t.rc = -1
  BY <1>1 DEF Dead, Gone, FaultHits, Demod, Access, Fail, StateFields
<1> HIDE DEF t
<1>6. t.chip = u.chip /\ t.shadow = u.shadow /\ t.type = u.type
  BY <1>3 DEF StateFields, DemodFields
<1>7. Rec(t)
  BY <1>1, <1>2, <1>6 DEF Rec
<1> QED
  BY <1>3, <1>4, <1>5, <1>7 DEF Only, t

LEMMA OrDemodDone ==
    ASSUME NEW u, Rec(u), NEW field \in DemodFields, NEW val
    PROVE  /\ Only({field}, u, OrDemod(u, field, val))
           /\ Calm(u) => OrDemod(u, field, val)[field] = val
           /\ Dead(u) \/ u.rc # 0 => OrDemod(u, field, val).rc # 0
           /\ Only({field}, u, DropDemod(u, field, val))
           /\ Calm(u) => DropDemod(u, field, val)[field] = val
           /\ DropDemod(u, field, val).rc = u.rc
<1>1. PICK x : x = Demod(u, field, val)
  OBVIOUS
<1>2. /\ Only({field}, u, x) /\ (Calm(u) => x[field] = val) /\ (Dead(u) => x.rc = -1)
      /\ field \in StateFields /\ field \notin {"n", "rc"}
  BY <1>1, DemodDone DEF DemodFields, StateFields
<1>3. Rec(x)
  BY <1>2 DEF Only
<1>4. PICK y : y = OrRc(u.rc, x)
  OBVIOUS
<1>5. PICK z : z = Keep(u.rc, x)
  OBVIOUS
<1>6. Only({}, x, y) /\ y.rc = (IF u.rc # 0 THEN u.rc ELSE x.rc) /\ Only({}, x, z) /\ z.rc = u.rc
  BY <1>3, <1>4, <1>5, ResultOnly
<1>7. Only({field}, u, y) /\ Only({field}, u, z)
  BY <1>2, <1>6, OnlyTwice
<1>8. y[field] = x[field] /\ z[field] = x[field]
  BY <1>2, <1>6 DEF Only
<1> QED
  BY <1>1, <1>2, <1>4, <1>5, <1>6, <1>7, <1>8 DEF OrDemod, DropDemod

LEMMA RepeaterDone ==
    ASSUME NEW u, Rec(u), NEW on
    PROVE  /\ Only({"rep"}, u, Repeater(u, on)) /\ Repeater(u, on).rc = u.rc
           /\ Calm(u) => Repeater(u, on).rep = on
  BY OrDemodDone DEF Repeater, DemodFields

(* A driver's function called with the repeater switched on around it.     *)
Tuned == DriverFields \cup {"rep"}

LEMMA Bracketed ==
    ASSUME NEW u, Rec(u), NEW x, Driven(Repeater(u, TRUE), x)
    PROVE  /\ Only(Tuned, u, Repeater(x, FALSE))
           /\ Repeater(x, FALSE).rc = x.rc
           /\ Repeater(x, FALSE).chip = x.chip
           /\ Repeater(x, FALSE).shadow = x.shadow
           /\ Repeater(x, FALSE).ready = x.ready
           /\ Calm(u) => /\ Live(Repeater(u, TRUE)) /\ ~Repeater(x, FALSE).rep
                         /\ Repeater(x, FALSE).blind = u.blind
                         /\ Tame(x) => Tame(Repeater(x, FALSE))
<1>1. PICK r : r = Repeater(u, TRUE)
  OBVIOUS
<1>2. Only({"rep"}, u, r) /\ (Calm(u) => r.rep = TRUE)
  BY <1>1, RepeaterDone
<1>3. Driven(r, x) /\ Rec(r) /\ Rec(x)
  BY <1>1, <1>2 DEF Only, Driven
<1>4. PICK t : t = Repeater(x, FALSE)
  OBVIOUS
<1>5. Only({"rep"}, x, t) /\ t.rc = x.rc /\ (Calm(x) => t.rep = FALSE)
  BY <1>3, <1>4, RepeaterDone
<1>6. Only(Tuned, r, x)
  BY <1>3 DEF Only, Driven, Tuned
<1>7. Only(Tuned, u, t)
  <2>1. Only(Tuned, u, x)
    BY <1>2, <1>6, OnlyTwice DEF Tuned
  <2> QED
    BY <2>1, <1>5, OnlyTwice DEF Tuned
<1>8. r.fault = u.fault /\ x.fault = u.fault /\ r.blind = u.blind /\ t.blind = x.blind
  BY <1>2, <1>5, <1>6 DEF Only, StateFields, DriverFields, Tuned
<1>9. Calm(u) => Live(r) /\ Calm(x)
  BY <1>2, <1>8 DEF Calm, Live
<1>10. Calm(u) => t.blind = u.blind
  BY <1>3, <1>8, <1>9 DEF Driven, Live
<1>11. t.type = x.type /\ t.ready = x.ready /\ t.chip = x.chip /\ t.shadow = x.shadow
       /\ (Tame(x) => Tame(t))
  BY <1>5, TameStays
<1> QED
  BY <1>1, <1>4, <1>5, <1>7, <1>9, <1>10, <1>11

-----------------------------------------------------------------------------
(* Tuning.                                                                 *)

(* The hardware is on the path of mode d: direct for any but 0, with the   *)
(* tuner asleep if it can.                                                 *)
Path(t, d) ==
    /\ d # 0 <=> (~t.zif /\ ~t.inv)
    /\ d # 0 => t.swap = (d > 1)
    /\ HasTuner(t) /\ Sleepy(t) => (d = 0 <=> t.chip["power"] = 1)

(* The frequency was computed with the correction in force.                *)
Right(t) ==
    IF t.ds # 0 THEN t.ifr.ppm = t.corr ELSE t.type # "FC2580" => t.chip["pll"].ppm = t.corr

Trim(t) == ~t.blind /\ Tame(t)

Steady(t, d) == Trim(t) /\ Path(t, d)

Sound(t) == Steady(t, t.ds) /\ (t.freq # 0 => Right(t))

(* The tuners that report a failed transfer.                               *)
Telling(t) == IsR82xx(t) \/ IsFc001x(t)

LEMMA PathStays ==
    ASSUME NEW W, W \cap {"type", "zif", "inv", "swap"} = {}, NEW u, NEW t, Only(W, u, t),
           t.chip["power"] = u.chip["power"], NEW d, Path(u, d)
    PROVE  Path(t, d)
<1>1. t.type = u.type /\ t.zif = u.zif /\ t.inv = u.inv /\ t.swap = u.swap
  BY DEF Only, StateFields
<1> QED
  BY <1>1 DEF Path, HasTuner, Sleepy, IsR82xx

(* What leaves the driver and its chip alone.                              *)
LEMMA SteadyStays ==
    ASSUME NEW W, W \cap {"type", "zif", "inv", "swap", "ready", "chip", "shadow", "blind"} = {},
           NEW u, NEW t, Only(W, u, t)
    PROVE  /\ t.blind = u.blind /\ t.chip = u.chip
           /\ Trim(u) => Trim(t)
           /\ \A d : Steady(u, d) => Steady(t, d)
<1>1. t.chip = u.chip /\ (Tame(u) => Tame(t))
  BY TameStays
<1>2. t.blind = u.blind
  BY DEF Only, StateFields
<1>3. ASSUME NEW d, Path(u, d) PROVE Path(t, d)
  BY <1>1, <1>3, PathStays
<1> QED
  BY <1>1, <1>2, <1>3 DEF Trim, Steady

LEMMA TellingStays ==
    ASSUME NEW u, NEW t, t.type = u.type
    PROVE  Telling(t) = Telling(u) /\ HasTuner(t) = HasTuner(u) /\ IsR82xx(t) = IsR82xx(u)
           /\ Sleepy(t) = Sleepy(u)
  BY DEF Telling, HasTuner, IsR82xx, IsFc001x, Sleepy

LEMMA ApplyDone ==
    ASSUME NEW u, Rec(u), u.ppm = u.corr, NEW f
    PROVE  /\ Only(Tuned \cup {"ifr"}, u, ApplyFreq(u, f))
           /\ Calm(u) /\ ApplyFreq(u, f).rep => u.rep
           /\ Calm(u) /\ Trim(u) => Trim(ApplyFreq(u, f))
           /\ \A d : Calm(u) /\ Steady(u, d) => Steady(ApplyFreq(u, f), d)
           /\ Calm(u) /\ Tame(u) /\ ApplyFreq(u, f).rc = 0 => Right(ApplyFreq(u, f))
           /\ Dead(u) /\ Telling(u) => ApplyFreq(u, f).rc # 0
<1>1. PICK t : t = ApplyFreq(u, f)
  OBVIOUS
<1>2. CASE u.ds # 0
  <2>1. PICK r : r = Repeater(u, FALSE)
    OBVIOUS
  <2>2. Only({"rep"}, u, r) /\ (Calm(u) => r.rep = FALSE)
    BY <2>1, RepeaterDone
  <2>3. PICK w : w = IfWord(r, f)
    OBVIOUS
  <2>4. t = Demod(r, "ifr", w)
    BY <1>1, <1>2, <2>1, <2>3 DEF ApplyFreq, SetIfFreq
  <2>5. Rec(r)
    BY <2>2 DEF Only
  <2>6. Only({"ifr"}, r, t) /\ (Calm(r) => t.ifr = w) /\ (Dead(r) => t.rc = -1)
    BY <2>4, <2>5, DemodDone DEF DemodFields
  <2>7. Only({"rep", "ifr"}, u, t)
    BY <2>2, <2>6, OnlyTwice
  <2>8. Only(Tuned \cup {"ifr"}, u, t)
    BY <2>7, OnlyMore DEF Tuned
  <2>9. t.rep = r.rep /\ t.ds = u.ds /\ t.corr = u.corr /\ r.corr = u.corr
    BY <2>2, <2>6, <2>7 DEF Only, StateFields
  <2>10. Calm(r) = Calm(u) /\ Dead(r) = Dead(u)
    BY <2>2, Untouched
  <2>11. Calm(u) => Right(t)
    BY <1>2, <2>3, <2>6, <2>9, <2>10 DEF Right, IfWord
  <2>12. (Trim(u) => Trim(t)) /\ \A d : Steady(u, d) => Steady(t, d)
    BY <2>7, SteadyStays
  <2> QED
    BY <1>1, <2>2, <2>6, <2>8, <2>9, <2>10, <2>11, <2>12
<1>3. CASE u.ds = 0 /\ HasTuner(u)
  <2>1. PICK r : r = Repeater(u, TRUE)
    OBVIOUS
  <2>2. Only({"rep"}, u, r)
    BY <2>1, RepeaterDone
  <2>3. Rec(r)
    BY <2>2 DEF Only
  <2>4. PICK v : v = f - u.offs
    OBVIOUS
  <2>5. PICK x : x = TunerSetFreq(r, v)
    OBVIOUS
  <2>6. t = Repeater(x, FALSE)
    BY <1>1, <1>3, <2>1, <2>4, <2>5 DEF ApplyFreq
  <2>7. r.type = u.type /\ r.corr = u.corr /\ r.ppm = u.ppm /\ (Dead(u) => Dead(r))
        /\ r.chip = u.chip /\ (Tame(u) => Tame(r))
    BY <2>2, Untouched, TameStays
  <2>8. HasTuner(r) /\ Telling(r) = Telling(u)
    BY <1>3, <2>7, TellingStays
  <2>9. /\ Tunes(NotPower, r, x)
        /\ Live(r) /\ Tame(r) /\ r.ppm = r.corr /\ r.type # "FC2580" /\ x.rc = 0 =>
             x.chip["pll"].ppm = r.corr
        /\ Dead(r) /\ Telling(r) => x.rc = -1
    BY <2>3, <2>5, <2>8, TunerSets DEF Telling
  <2>10. Driven(Repeater(u, TRUE), x)
    BY <2>1, <2>9 DEF Tunes, Steers
  <2>11. /\ Only(Tuned, u, t) /\ t.rc = x.rc /\ t.chip = x.chip
         /\ Calm(u) => Live(r) /\ ~t.rep /\ t.blind = u.blind /\ (Tame(x) => Tame(t))
    BY <2>1, <2>6, <2>10, Bracketed
  <2>12. t.type = u.type /\ t.corr = u.corr /\ t.ds = u.ds
    BY <2>11 DEF Only, StateFields, Tuned, DriverFields
  <2>13. x.chip["power"] = r.chip["power"] /\ (Live(r) /\ Tame(r) => Tame(x))
    BY <2>3, <2>9, TunesTame
  <2>14. Calm(u) /\ Tame(u) => Tame(t)
    BY <2>7, <2>11, <2>13
  <2>15. Calm(u) /\ Tame(u) /\ t.rc = 0 => Right(t)
    BY <1>3, <2>7, <2>9, <2>11, <2>12 DEF Right
  <2>16. ASSUME NEW d, Path(u, d) PROVE Path(t, d)
    BY <2>7, <2>11, <2>13, <2>16, PathStays DEF Tuned, DriverFields
  <2>17. Dead(u) /\ Telling(u) => t.rc # 0
    BY <2>7, <2>8, <2>9, <2>11
  <2>18. Only(Tuned \cup {"ifr"}, u, t)
    BY <2>11, OnlyMore
  <2> QED
    BY <1>1, <2>11, <2>14, <2>15, <2>16, <2>17, <2>18 DEF Trim, Steady
<1>4. CASE u.ds = 0 /\ ~HasTuner(u)
  <2>1. t = Fail(u)
    BY <1>1, <1>4 DEF ApplyFreq
  <2>2. Only({}, u, t) /\ t.rc = -1
    BY <2>1, ResultOnly
  <2>3. (Trim(u) => Trim(t)) /\ \A d : Steady(u, d) => Steady(t, d)
    BY <2>2, SteadyStays
  <2>4. Only(Tuned \cup {"ifr"}, u, t) /\ t.rep = u.rep
    BY <2>2, OnlyMore DEF Only, StateFields
  <2> QED
    BY <1>1, <2>2, <2>3, <2>4
<1> QED
  BY <1>2, <1>3, <1>4

(* rtlsdr_set_center_freq(): the mode follows the frequency unless the     *)
(* user chose one, and turn tells that it changed.                         *)
Aims(u, f) == IF u.mode = 0 THEN AutoSampling(u, f) ELSE u.ds

LEMMA AutoStays ==
    ASSUME NEW u, NEW t, t.type = u.type, t.v4l = u.v4l, NEW f
    PROVE  AutoSampling(t, f) = AutoSampling(u, f)
  BY DEF AutoSampling

Centering == Tuned \cup {"ifr", "freq", "ds", "turn"}

LEMMA CenterDone ==
    ASSUME NEW u, Rec(u), u.ppm = u.corr, NEW f
    PROVE  /\ Only(Centering, u, Center(u, f))
           /\ Center(u, f).freq \in {f, 0}
           /\ Center(u, f).ds = Aims(u, f)
           /\ Center(u, f).turn = (Center(u, f).ds # u.ds)
           /\ Calm(u) /\ Center(u, f).rep => u.rep
           /\ Calm(u) /\ Trim(u) => Trim(Center(u, f))
           /\ \A d : Calm(u) /\ Steady(u, d) => Steady(Center(u, f), d)
           /\ Calm(u) /\ Trim(u) /\ Center(u, f).freq # 0 => Right(Center(u, f))
           /\ Dead(u) /\ Telling(u) => Center(u, f).turn \/ Center(u, f).rc # 0
<1>1. PICK a : a = Aims(u, f)
  OBVIOUS
<1>2. PICK p : p = [u EXCEPT !.ds = a, !.turn = FALSE]
  OBVIOUS
<1>3. DOMAIN u = StateFields
  BY DEF Rec
<1>4. /\ DOMAIN p = StateFields /\ p.ds = a /\ p.turn = FALSE
      /\ \A g \in StateFields \ {"ds", "turn"} : p[g] = u[g]
  BY <1>2, <1>3 DEF StateFields
<1>5. Only({"ds", "turn"}, u, p) /\ p.rep = u.rep
  BY <1>4 DEF Rec, Only, StateFields
<1>6. PICK q : q = ApplyFreq(p, f)
  OBVIOUS
<1>7. Rec(p) /\ p.ppm = p.corr /\ Calm(p) = Calm(u) /\ Dead(p) = Dead(u) /\ p.type = u.type
  <2>1. Rec(p)
    BY <1>5 DEF Only
  <2> QED
    BY <1>5, <2>1, Untouched
<1>8. /\ Only(Tuned \cup {"ifr"}, p, q)
      /\ Calm(p) /\ q.rep => p.rep
      /\ Calm(p) /\ Trim(p) => Trim(q)
      /\ \A d : Calm(p) /\ Steady(p, d) => Steady(q, d)
      /\ Calm(p) /\ Tame(p) /\ q.rc = 0 => Right(q)
      /\ Dead(p) /\ Telling(p) => q.rc # 0
  BY <1>6, <1>7, ApplyDone
<1>9. PICK v \in {f, 0} : v = IF q.rc = 0 THEN f ELSE 0
  OBVIOUS
<1>10. PICK c : c = [q EXCEPT !.freq = v]
  OBVIOUS
<1>11. DOMAIN q = StateFields
  BY <1>8 DEF Only, Rec
<1>12. DOMAIN c = StateFields /\ c.freq = v /\ \A g \in StateFields \ {"freq"} : c[g] = q[g]
  BY <1>10, <1>11 DEF StateFields
<1>13. Only({"freq"}, q, c) /\ c.rc = q.rc /\ c.rep = q.rep
  BY <1>8, <1>12 DEF Rec, Only, StateFields
<1>14. PICK t : t = Center(u, f)
  OBVIOUS
<1>15. t = Turning(u.ds, c)
  BY <1>1, <1>2, <1>6, <1>9, <1>10, <1>14 DEF Center, NoteFreq, Aims
<1>16. /\ Only({"turn"}, c, t) /\ t.turn = (c.turn \/ c.ds # u.ds)
       /\ c.ds = u.ds => t = c
  <2>1. CASE c.ds = u.ds
    <3>1. t = c
      BY <1>15, <2>1 DEF Turning
    <3>2. Only({"turn"}, c, c)
      BY <1>13 DEF Only
    <3>3. c.turn = FALSE
      BY <1>4, <1>8, <1>12 DEF Only, StateFields, Tuned, DriverFields
    <3> QED
      BY <2>1, <3>1, <3>2, <3>3
  <2>2. CASE c.ds # u.ds
    <3>1. t = [c EXCEPT !.turn = TRUE, !.rc = 0]
      BY <1>15, <2>2 DEF Turning
    <3>2. DOMAIN t = StateFields /\ t.turn = TRUE /\ t.rc = 0
          /\ \A g \in StateFields \ {"turn", "rc"} : t[g] = c[g]
      BY <1>12, <3>1 DEF StateFields
    <3>3. Only({"turn"}, c, t)
      BY <1>13, <3>2 DEF Rec, Only, StateFields
    <3> QED
      BY <2>2, <3>2, <3>3
  <2> QED
    BY <2>1, <2>2
<1>17. Only(Centering, u, q)
  BY <1>5, <1>8, OnlyTwice DEF Centering
<1>18. Only({"freq", "turn"}, q, t)
  BY <1>13, <1>16, OnlyTwice
<1>19. Only(Centering, u, t)
  BY <1>17, <1>18, OnlyTwice DEF Centering
<1>20. /\ c.turn = FALSE /\ c.ds = a /\ t.ds = a /\ t.freq = v /\ t.rep = q.rep
       /\ t.ifr = q.ifr /\ t.corr = q.corr /\ t.type = q.type /\ t.chip = q.chip /\ q.ds = a
  BY <1>4, <1>8, <1>12, <1>13, <1>16, <1>18 DEF Only, StateFields, Tuned, DriverFields
<1>21. (Trim(u) => Trim(p)) /\ (\A d : Steady(u, d) => Steady(p, d))
  BY <1>5, SteadyStays
<1>22. (Trim(q) => Trim(t)) /\ (\A d : Steady(q, d) => Steady(t, d))
  BY <1>18, SteadyStays
<1>23. Calm(u) /\ Trim(u) /\ t.freq # 0 => Right(t)
  <2>1. Right(q) => Right(t)
    BY <1>20 DEF Right
  <2> QED
    BY <1>7, <1>8, <1>9, <1>20, <1>21, <2>1 DEF Trim
<1>24. Dead(u) /\ Telling(u) => t.turn \/ t.rc # 0
  BY <1>7, <1>8, <1>13, <1>16, <1>20, TellingStays
<1>25. t.turn = (t.ds # u.ds)
  BY <1>16, <1>20
<1>26. \A d : Calm(u) /\ Steady(u, d) => Steady(t, d)
  BY <1>7, <1>8, <1>21, <1>22
<1>27. (Calm(u) /\ t.rep => u.rep) /\ (Calm(u) /\ Trim(u) => Trim(t))
  BY <1>5, <1>7, <1>8, <1>20, <1>21, <1>22
<1> QED
  BY <1>1, <1>9, <1>14, <1>19, <1>20, <1>23, <1>24, <1>25, <1>26, <1>27

-----------------------------------------------------------------------------
(* Switching the mode.                                                     *)

LEMMA ExitBracketed ==
    ASSUME NEW u, Rec(u)
    PROVE  /\ Only(Tuned, u, Asleep(u))
           /\ Calm(u) /\ Asleep(u).rep => u.rep
           /\ Calm(u) /\ Trim(u) => Trim(Asleep(u))
           /\ Calm(u) /\ Trim(u) /\ HasTuner(u) /\ Sleepy(u) => Asleep(u).chip["power"] = 0
<1>1. PICK o : o = Ok(u)
  OBVIOUS
<1>2. Only({}, u, o)
  BY <1>1, ResultOnly
<1>3. Rec(o)
  BY <1>2 DEF Only
<1>4. /\ Calm(o) = Calm(u) /\ (Trim(u) => Trim(o)) /\ o.rep = u.rep
      /\ HasTuner(o) = HasTuner(u) /\ Sleepy(o) = Sleepy(u)
  <2>1. Calm(o) = Calm(u) /\ o.type = u.type
    BY <1>2, Untouched
  <2>2. Trim(u) => Trim(o)
    BY <1>2, SteadyStays
  <2>3. o.rep = u.rep
    BY <1>2 DEF Only, StateFields
  <2> QED
    BY <2>1, <2>2, <2>3, TellingStays
<1>5. PICK t : t = Asleep(u)
  OBVIOUS
<1>6. CASE ~HasTuner(u)
  <2>1. t = o
    BY <1>1, <1>5, <1>6 DEF Asleep
  <2>2. Only(Tuned, u, o)
    BY <1>2, OnlyMore
  <2> QED
    BY <1>4, <1>5, <1>6, <2>1, <2>2
<1>7. CASE HasTuner(u)
  <2>1. PICK r : r = Repeater(o, TRUE)
    OBVIOUS
  <2>2. Only({"rep"}, o, r)
    BY <1>3, <2>1, RepeaterDone
  <2>3. Rec(r)
    BY <2>2 DEF Only
  <2>4. HasTuner(r) /\ Sleepy(r) = Sleepy(u)
    <3>1. r.type = o.type
      BY <2>2, Untouched
    <3> QED
      BY <1>4, <1>7, <3>1, TellingStays
  <2>5. PICK x : x = TunerExit(r)
    OBVIOUS
  <2>6. /\ Driven(r, x)
        /\ Live(r) /\ Tame(r) => Tame(x) /\ (Sleepy(r) => x.chip["power"] = 0)
    BY <2>3, <2>4, <2>5, TunerExits
  <2>7. t = Repeater(x, FALSE)
    BY <1>1, <1>5, <1>7, <2>1, <2>5 DEF Asleep
  <2>8. /\ Only(Tuned, o, t) /\ t.chip = x.chip
        /\ Calm(o) => Live(r) /\ ~t.rep /\ t.blind = o.blind /\ (Tame(x) => Tame(t))
    BY <1>3, <2>1, <2>6, <2>7, Bracketed
  <2>9. Tame(o) => Tame(r)
    BY <2>2, TameStays
  <2>10. Calm(u) /\ Trim(u) => Trim(t) /\ (Sleepy(u) => t.chip["power"] = 0)
    BY <1>4, <2>4, <2>6, <2>8, <2>9 DEF Trim
  <2>11. Only(Tuned, u, t)
    BY <1>2, <2>8, OnlyTwice
  <2> QED
    BY <1>4, <1>5, <2>8, <2>10, <2>11
<1> QED
  BY <1>6, <1>7

LEMMA InitBracketed ==
    ASSUME NEW u, Rec(u), u.ppm = u.corr
    PROVE  /\ Only(Tuned, u, Awake(u))
           /\ Calm(u) /\ Awake(u).rep => u.rep
           /\ Calm(u) /\ Trim(u) => Trim(Awake(u))
           /\ Calm(u) /\ HasTuner(u) => Awake(u).chip["power"] = 1
<1>1. PICK o : o = Ok(u)
  OBVIOUS
<1>2. Only({}, u, o)
  BY <1>1, ResultOnly
<1>3. Rec(o)
  BY <1>2 DEF Only
<1>4. /\ Calm(o) = Calm(u) /\ (Trim(u) => Trim(o)) /\ o.rep = u.rep /\ o.ppm = o.corr
      /\ HasTuner(o) = HasTuner(u)
  <2>1. Calm(o) = Calm(u) /\ o.type = u.type /\ o.ppm = o.corr
    BY <1>2, Untouched
  <2>2. Trim(u) => Trim(o)
    BY <1>2, SteadyStays
  <2>3. o.rep = u.rep
    BY <1>2 DEF Only, StateFields
  <2> QED
    BY <2>1, <2>2, <2>3, TellingStays
<1>5. PICK t : t = Awake(u)
  OBVIOUS
<1>6. CASE ~HasTuner(u)
  <2>1. t = o
    BY <1>1, <1>5, <1>6 DEF Awake
  <2>2. Only(Tuned, u, o)
    BY <1>2, OnlyMore
  <2> QED
    BY <1>4, <1>5, <1>6, <2>1, <2>2
<1>7. CASE HasTuner(u)
  <2>1. PICK r : r = Repeater(o, TRUE)
    OBVIOUS
  <2>2. Only({"rep"}, o, r)
    BY <1>3, <2>1, RepeaterDone
  <2>3. Rec(r)
    BY <2>2 DEF Only
  <2>4. HasTuner(r) /\ r.ppm = r.corr
    <3>1. r.type = o.type /\ r.ppm = o.ppm /\ r.corr = o.corr
      BY <2>2, Untouched
    <3> QED
      BY <1>4, <1>7, <3>1, TellingStays
  <2>5. PICK x : x = TunerInit(r)
    OBVIOUS
  <2>6. /\ Driven(r, x)
        /\ Live(r) => x.chip["power"] = 1
        /\ Live(r) /\ Tame(r) => Tame(x)
    BY <2>3, <2>4, <2>5, TunerInits
  <2>7. t = Repeater(x, FALSE)
    BY <1>1, <1>5, <1>7, <2>1, <2>5 DEF Awake
  <2>8. /\ Only(Tuned, o, t) /\ t.chip = x.chip
        /\ Calm(o) => Live(r) /\ ~t.rep /\ t.blind = o.blind /\ (Tame(x) => Tame(t))
    BY <1>3, <2>1, <2>6, <2>7, Bracketed
  <2>9. Tame(o) => Tame(r)
    BY <2>2, TameStays
  <2>10. Calm(u) => t.chip["power"] = 1 /\ (Trim(u) => Trim(t))
    BY <1>4, <2>6, <2>8, <2>9 DEF Trim
  <2>11. Only(Tuned, u, t)
    BY <1>2, <2>8, OnlyTwice
  <2> QED
    BY <1>4, <1>5, <2>8, <2>10, <2>11
<1> QED
  BY <1>6, <1>7

(* The demodulator's switches. *)
LEMMA Switched ==
    ASSUME NEW u, Rec(u)
    PROVE  \A field \in {"rep", "zif", "inv", "swap"} : \A on :
             /\ Only({field}, u, OrDemod(u, field, on))
             /\ Calm(u) => OrDemod(u, field, on)[field] = on
             /\ Dead(u) => OrDemod(u, field, on).rc # 0
<1>1. ASSUME NEW field \in {"rep", "zif", "inv", "swap"}, NEW on
      PROVE  /\ Only({field}, u, OrDemod(u, field, on))
             /\ Calm(u) => OrDemod(u, field, on)[field] = on
             /\ Dead(u) => OrDemod(u, field, on).rc # 0
  <2>1. field \in DemodFields
    BY DEF DemodFields
  <2> QED
    BY <2>1, OrDemodDone
<1> QED
  BY <1>1

Paths == {"ifr", "zif", "inv", "adc", "swap"}

LEMMA AntennaDone ==
    ASSUME NEW u, Rec(u), NEW on
    PROVE  /\ Only(Paths, u, AntennaPath(u, on))
           /\ Calm(u) => /\ AntennaPath(u, on).zif = FALSE /\ AntennaPath(u, on).inv = FALSE
                         /\ AntennaPath(u, on).swap = (on > 1)
           /\ Dead(u) => AntennaPath(u, on).rc # 0
<1>1. PICK a : a = OrDemod(u, "zif", FALSE)
  OBVIOUS
<1>2. PICK b : b = OrDemod(a, "inv", FALSE)
  OBVIOUS
<1>3. PICK c : c = OrDemod(b, "adc", "i")
  OBVIOUS
<1>4. PICK t : t = OrDemod(c, "swap", on > 1)
  OBVIOUS
<1>5. AntennaPath(u, on) = t
  BY <1>1, <1>2, <1>3, <1>4 DEF AntennaPath
<1>6. Only({"zif"}, u, a) /\ (Calm(u) => a.zif = FALSE) /\ (Dead(u) => a.rc # 0)
  BY <1>1, Switched, Zenon
<1>7. Rec(a) /\ Calm(a) = Calm(u) /\ Dead(a) = Dead(u)
  <2>1. Rec(a)
    BY <1>6 DEF Only
  <2> QED
    BY <1>6, <2>1, Untouched
<1>8. Only({"inv"}, a, b) /\ (Calm(a) => b.inv = FALSE) /\ (Dead(a) => b.rc # 0)
  BY <1>2, <1>7, Switched, Zenon
<1>9. Rec(b) /\ Calm(b) = Calm(a) /\ Dead(b) = Dead(a)
  <2>1. Rec(b)
    BY <1>8 DEF Only
  <2> QED
    BY <1>8, <2>1, Untouched
<1>10. Only({"adc"}, b, c) /\ (Dead(b) => c.rc # 0)
  BY <1>3, <1>9, OrDemodDone DEF DemodFields
<1>11. Rec(c) /\ Calm(c) = Calm(b) /\ Dead(c) = Dead(b)
  <2>1. Rec(c)
    BY <1>10 DEF Only
  <2> QED
    BY <1>10, <2>1, Untouched
<1>12. Only({"swap"}, c, t) /\ (Calm(c) => t.swap = (on > 1)) /\ (Dead(c) => t.rc # 0)
  BY <1>4, <1>11, Switched, Zenon
<1>13. t.zif = a.zif /\ t.inv = b.inv
  BY <1>8, <1>10, <1>12 DEF Only, StateFields
<1>14. Only(Paths, u, b)
  BY <1>6, <1>8, OnlyTwice DEF Paths
<1>15. Only(Paths, u, c)
  BY <1>10, <1>14, OnlyTwice DEF Paths
<1>16. Only(Paths, u, t)
  BY <1>12, <1>15, OnlyTwice DEF Paths
<1> QED
  BY <1>5, <1>6, <1>7, <1>8, <1>9, <1>11, <1>12, <1>13, <1>16

LEMMA TunerPathDone ==
    ASSUME NEW u, Rec(u)
    PROVE  /\ Only(Paths, u, TunerPath(u))
           /\ Calm(u) => TunerPath(u).zif = TRUE \/ TunerPath(u).inv = TRUE
           /\ Dead(u) => TunerPath(u).rc # 0
<1>1. CASE IsR82xx(u)
  <2>1. PICK w : w = IfWord(u, 3570)
    OBVIOUS
  <2>2. PICK a : a = OrDemod(u, "ifr", w)
    OBVIOUS
  <2>3. PICK b : b = OrDemod(a, "inv", TRUE)
    OBVIOUS
  <2>4. PICK t : t = OrDemod(b, "swap", FALSE)
    OBVIOUS
  <2>5. TunerPath(u) = t
    BY <1>1, <2>1, <2>2, <2>3, <2>4 DEF TunerPath
  <2>6. Only({"ifr"}, u, a)
    BY <2>2, OrDemodDone DEF DemodFields
  <2>7. Rec(a) /\ Calm(a) = Calm(u) /\ Dead(a) = Dead(u)
    <3>1. Rec(a)
      BY <2>6 DEF Only
    <3> QED
      BY <2>6, <3>1, Untouched
  <2>8. Only({"inv"}, a, b) /\ (Calm(a) => b.inv = TRUE) /\ (Dead(a) => b.rc # 0)
    BY <2>3, <2>7, Switched, Zenon
  <2>9. Rec(b) /\ Calm(b) = Calm(a) /\ Dead(b) = Dead(a)
    <3>1. Rec(b)
      BY <2>8 DEF Only
    <3> QED
      BY <2>8, <3>1, Untouched
  <2>10. Only({"swap"}, b, t) /\ (Dead(b) => t.rc # 0)
    BY <2>4, <2>9, Switched, Zenon
  <2>11. t.inv = b.inv
    BY <2>10 DEF Only, StateFields
  <2>12. Only(Paths, u, b)
    BY <2>6, <2>8, OnlyTwice DEF Paths
  <2>13. Only(Paths, u, t)
    BY <2>10, <2>12, OnlyTwice DEF Paths
  <2> QED
    BY <2>5, <2>7, <2>8, <2>9, <2>10, <2>11, <2>13
<1>2. CASE ~IsR82xx(u)
  <2>1. PICK w : w = IfWord(u, 0)
    OBVIOUS
  <2>2. PICK a : a = OrDemod(u, "ifr", w)
    OBVIOUS
  <2>3. PICK b : b = OrDemod(a, "adc", "iq")
    OBVIOUS
  <2>4. PICK c : c = OrDemod(b, "zif", TRUE)
    OBVIOUS
  <2>5. PICK t : t = OrDemod(c, "swap", FALSE)
    OBVIOUS
  <2>6. TunerPath(u) = t
    BY <1>2, <2>1, <2>2, <2>3, <2>4, <2>5 DEF TunerPath
  <2>7. Only({"ifr"}, u, a)
    BY <2>2, OrDemodDone DEF DemodFields
  <2>8. Rec(a) /\ Calm(a) = Calm(u) /\ Dead(a) = Dead(u)
    <3>1. Rec(a)
      BY <2>7 DEF Only
    <3> QED
      BY <2>7, <3>1, Untouched
  <2>9. Only({"adc"}, a, b)
    BY <2>3, <2>8, OrDemodDone DEF DemodFields
  <2>10. Rec(b) /\ Calm(b) = Calm(a) /\ Dead(b) = Dead(a)
    <3>1. Rec(b)
      BY <2>9 DEF Only
    <3> QED
      BY <2>9, <3>1, Untouched
  <2>11. Only({"zif"}, b, c) /\ (Calm(b) => c.zif = TRUE) /\ (Dead(b) => c.rc # 0)
    BY <2>4, <2>10, Switched, Zenon
  <2>12. Rec(c) /\ Calm(c) = Calm(b) /\ Dead(c) = Dead(b)
    <3>1. Rec(c)
      BY <2>11 DEF Only
    <3> QED
      BY <2>11, <3>1, Untouched
  <2>13. Only({"swap"}, c, t) /\ (Dead(c) => t.rc # 0)
    BY <2>5, <2>12, Switched, Zenon
  <2>14. t.zif = c.zif
    BY <2>13 DEF Only, StateFields
  <2>15. Only(Paths, u, b)
    BY <2>7, <2>9, OnlyTwice DEF Paths
  <2>16. Only(Paths, u, c)
    BY <2>11, <2>15, OnlyTwice DEF Paths
  <2>17. Only(Paths, u, t)
    BY <2>13, <2>16, OnlyTwice DEF Paths
  <2> QED
    BY <2>6, <2>8, <2>10, <2>11, <2>12, <2>13, <2>14, <2>17
<1> QED
  BY <1>1, <1>2

Settings == {"freq", "rate", "bw", "gain", "offs", "ds", "mode", "turn", "deep", "corr", "ppm"}

LEMMA FieldSet ==
    ASSUME NEW u, Rec(u), NEW field \in Settings, NEW v
    PROVE  /\ Only({field}, u, [u EXCEPT ![field] = v])
           /\ [u EXCEPT ![field] = v][field] = v
           /\ [u EXCEPT ![field] = v].rc = u.rc
<1>1. PICK t : t = [u EXCEPT ![field] = v]
  OBVIOUS
<1>2. DOMAIN u = StateFields /\ field \in StateFields
  BY DEF Rec, Settings, StateFields
<1>3. DOMAIN t = StateFields /\ t[field] = v /\ \A g \in StateFields \ {field} : t[g] = u[g]
  BY <1>1, <1>2
<1>4. /\ t.chip = u.chip /\ t.shadow = u.shadow /\ t.type = u.type /\ t.rc = u.rc
      /\ t.n = u.n
  BY <1>3 DEF StateFields, Settings
<1> QED
  BY <1>1, <1>3, <1>4 DEF Only, Rec

Pathing == Tuned \cup Paths \cup {"ds"}

Moved(u, on) == OrRc(u.rc, IF on # 0 THEN DirectOn(u, on) ELSE DirectOff(u))

LEMMA PathSwitched ==
    ASSUME NEW u, Rec(u), u.ppm = u.corr, NEW on
    PROVE  /\ Only(Pathing, u, Moved(u, on))
           /\ Moved(u, on).ds = on
           /\ Calm(u) /\ Moved(u, on).rep => u.rep
           /\ Calm(u) /\ Trim(u) => Steady(Moved(u, on), on)
           /\ Dead(u) => Moved(u, on).rc # 0
<1>1. PICK d : d = IF on # 0 THEN DirectOn(u, on) ELSE DirectOff(u)
  OBVIOUS
<1>2. PICK t : t = OrRc(u.rc, d)
  OBVIOUS
<1>3. /\ Only(Pathing, u, d) /\ d.ds = on
      /\ Calm(u) /\ d.rep => u.rep
      /\ Calm(u) /\ Trim(u) => Steady(d, on)
      /\ Dead(u) => d.rc # 0
  <2>1. CASE on # 0
    <3>1. PICK a : a = Asleep(u)
      OBVIOUS
    <3>2. PICK b : b = AntennaPath(a, on)
      OBVIOUS
    <3>3. d = [b EXCEPT !.ds = on]
      BY <1>1, <2>1, <3>1, <3>2 DEF DirectOn
    <3>4. /\ Only(Tuned, u, a)
          /\ Calm(u) /\ a.rep => u.rep
          /\ Calm(u) /\ Trim(u) => Trim(a)
          /\ Calm(u) /\ Trim(u) /\ HasTuner(u) /\ Sleepy(u) => a.chip["power"] = 0
      BY <3>1, ExitBracketed
    <3>5. Rec(a)
      BY <3>4 DEF Only
    <3>6. Calm(a) = Calm(u) /\ Dead(a) = Dead(u) /\ a.type = u.type
      BY <3>4, Untouched DEF Tuned, DriverFields
    <3>7. /\ Only(Paths, a, b)
          /\ Calm(a) => b.zif = FALSE /\ b.inv = FALSE /\ b.swap = (on > 1)
          /\ Dead(a) => b.rc # 0
      BY <3>2, <3>5, AntennaDone
    <3>8. Rec(b)
      BY <3>7 DEF Only
    <3>9. Only({"ds"}, b, d) /\ d.ds = on /\ d.rc = b.rc
      BY <3>3, <3>8, FieldSet DEF Settings
    <3>10. Only(Pathing, a, d)
      BY <3>7, <3>9, OnlyTwice DEF Pathing
    <3>11. Only(Pathing, u, d)
      BY <3>4, <3>10, OnlyTwice DEF Pathing
    <3>12. d.rep = a.rep /\ d.blind = a.blind
      BY <3>7, <3>9 DEF Only, StateFields, Paths
    <3>13. d.zif = b.zif /\ d.inv = b.inv /\ d.swap = b.swap
      BY <3>9 DEF Only, StateFields
    <3>14. b.chip = a.chip /\ b.type = a.type /\ (Tame(a) => Tame(b))
      BY <3>7, TameStays DEF Paths
    <3>15. d.chip = a.chip /\ d.type = a.type /\ (Tame(a) => Tame(d))
      BY <3>9, <3>14, TameStays
    <3>16. HasTuner(d) = HasTuner(u) /\ Sleepy(d) = Sleepy(u)
      BY <3>6, <3>15, TellingStays
    <3>17. Calm(u) /\ Trim(u) => Path(d, on)
      BY <2>1, <3>4, <3>6, <3>7, <3>13, <3>15, <3>16 DEF Path
    <3>18. Calm(u) /\ Trim(u) => Trim(d)
      BY <3>4, <3>12, <3>15 DEF Trim
    <3> QED
      BY <3>4, <3>6, <3>7, <3>9, <3>11, <3>12, <3>17, <3>18 DEF Steady
  <2>2. CASE on = 0
    <3>1. PICK a : a = Awake(u)
      OBVIOUS
    <3>2. PICK b : b = TunerPath(a)
      OBVIOUS
    <3>3. d = [b EXCEPT !.ds = 0]
      BY <1>1, <2>2, <3>1, <3>2 DEF DirectOff
    <3>4. /\ Only(Tuned, u, a)
          /\ Calm(u) /\ a.rep => u.rep
          /\ Calm(u) /\ Trim(u) => Trim(a)
          /\ Calm(u) /\ HasTuner(u) => a.chip["power"] = 1
      BY <3>1, InitBracketed
    <3>5. Rec(a)
      BY <3>4 DEF Only
    <3>6. Calm(a) = Calm(u) /\ Dead(a) = Dead(u) /\ a.type = u.type
      BY <3>4, Untouched DEF Tuned, DriverFields
    <3>7. /\ Only(Paths, a, b)
          /\ Calm(a) => b.zif = TRUE \/ b.inv = TRUE
          /\ Dead(a) => b.rc # 0
      BY <3>2, <3>5, TunerPathDone
    <3>8. Rec(b)
      BY <3>7 DEF Only
    <3>9. Only({"ds"}, b, d) /\ d.ds = 0 /\ d.rc = b.rc
      BY <3>3, <3>8, FieldSet DEF Settings
    <3>10. Only(Pathing, a, d)
      BY <3>7, <3>9, OnlyTwice DEF Pathing
    <3>11. Only(Pathing, u, d)
      BY <3>4, <3>10, OnlyTwice DEF Pathing
    <3>12. d.rep = a.rep /\ d.blind = a.blind
      BY <3>7, <3>9 DEF Only, StateFields, Paths
    <3>13. d.zif = b.zif /\ d.inv = b.inv /\ d.swap = b.swap
      BY <3>9 DEF Only, StateFields
    <3>14. b.chip = a.chip /\ b.type = a.type /\ (Tame(a) => Tame(b))
      BY <3>7, TameStays DEF Paths
    <3>15. d.chip = a.chip /\ d.type = a.type /\ (Tame(a) => Tame(d))
      BY <3>9, <3>14, TameStays
    <3>16. HasTuner(d) = HasTuner(u) /\ Sleepy(d) = Sleepy(u)
      BY <3>6, <3>15, TellingStays
    <3>17. Calm(u) /\ Trim(u) => Path(d, on)
      BY <2>2, <3>4, <3>6, <3>7, <3>13, <3>15, <3>16 DEF Path
    <3>18. Calm(u) /\ Trim(u) => Trim(d)
      BY <3>4, <3>12, <3>15 DEF Trim
    <3> QED
      BY <2>2, <3>4, <3>6, <3>7, <3>9, <3>11, <3>12, <3>17, <3>18 DEF Steady
  <2> QED
    BY <2>1, <2>2
<1>4. Rec(d)
  BY <1>3 DEF Only
<1>5. Only({}, d, t) /\ t.rc = IF u.rc # 0 THEN u.rc ELSE d.rc
  BY <1>2, <1>4, ResultOnly
<1>6. Only(Pathing, u, t)
  BY <1>3, <1>5, OnlyTwice
<1>7. t.ds = d.ds /\ t.rep = d.rep
  BY <1>5 DEF Only, StateFields
<1>8. \A e : Steady(d, e) => Steady(t, e)
  BY <1>5, SteadyStays
<1> QED
  BY <1>1, <1>2, <1>3, <1>5, <1>6, <1>7, <1>8 DEF Moved

Switching == Centering \cup Paths

LEMMA SwitchDone ==
    ASSUME NEW u, Rec(u), u.ppm = u.corr, NEW on
    PROVE  /\ Only(Switching, u, Switch(u, on))
           /\ Switch(u, on).freq \in {u.freq, 0}
           /\ Switch(u, on).ds = IF u.mode = 0 THEN AutoSampling(u, u.freq) ELSE on
           /\ Switch(u, on).turn = (Switch(u, on).ds # on)
           /\ Calm(u) /\ Switch(u, on).rep => u.rep
           /\ Calm(u) /\ Trim(u) => Steady(Switch(u, on), on)
           /\ Calm(u) /\ Trim(u) /\ Switch(u, on).freq # 0 => Right(Switch(u, on))
           /\ Dead(u) => Switch(u, on).rc # 0
<1>1. PICK d : d = Moved(u, on)
  OBVIOUS
<1>2. PICK c : c = Center(d, d.freq)
  OBVIOUS
<1>3. PICK t : t = OrRc(d.rc, c)
  OBVIOUS
<1>4. Switch(u, on) = t
  BY <1>1, <1>2, <1>3 DEF Switch, Recenter, Moved
<1>5. /\ Only(Pathing, u, d) /\ d.ds = on
      /\ Calm(u) /\ d.rep => u.rep
      /\ Calm(u) /\ Trim(u) => Steady(d, on)
      /\ Dead(u) => d.rc # 0
  BY <1>1, PathSwitched
<1>6. Rec(d)
  BY <1>5 DEF Only
<1>7. /\ d.type = u.type /\ d.v4l = u.v4l /\ Calm(d) = Calm(u) /\ d.mode = u.mode
      /\ d.ppm = d.corr
  BY <1>5, Untouched DEF Pathing, Tuned, DriverFields, Paths
<1>8. d.freq = u.freq
  BY <1>5 DEF Only, StateFields, Pathing, Tuned, DriverFields, Paths
<1>9. /\ Only(Centering, d, c) /\ c.freq \in {d.freq, 0} /\ c.ds = Aims(d, d.freq)
      /\ c.turn = (c.ds # d.ds)
      /\ Calm(d) /\ c.rep => d.rep
      /\ \A e : Calm(d) /\ Steady(d, e) => Steady(c, e)
      /\ Calm(d) /\ Trim(d) /\ c.freq # 0 => Right(c)
  BY <1>2, <1>6, <1>7, CenterDone
<1>10. Rec(c)
  BY <1>9 DEF Only
<1>11. Only({}, c, t) /\ t.rc = IF d.rc # 0 THEN d.rc ELSE c.rc
  BY <1>3, <1>6, <1>10, ResultOnly
<1>12. /\ t.freq = c.freq /\ t.ds = c.ds /\ t.turn = c.turn /\ t.rep = c.rep
       /\ t.ifr = c.ifr /\ t.corr = c.corr /\ t.type = c.type /\ t.chip = c.chip
  BY <1>11 DEF Only, StateFields
<1>13. Right(c) => Right(t)
  BY <1>12 DEF Right
<1>14. \A e : Steady(c, e) => Steady(t, e)
  BY <1>11, SteadyStays
<1>15. Only(Switching, u, c)
  BY <1>5, <1>9, OnlyTwice DEF Switching, Pathing, Centering
<1>16. Only(Switching, u, t)
  BY <1>11, <1>15, OnlyTwice
<1>17. c.ds = IF u.mode = 0 THEN AutoSampling(u, u.freq) ELSE on
  BY <1>5, <1>7, <1>8, <1>9, AutoStays DEF Aims
<1>18. Calm(u) /\ Trim(u) => Steady(t, on) /\ (t.freq # 0 => Right(t))
  BY <1>5, <1>7, <1>9, <1>12, <1>13, <1>14 DEF Steady
<1>19. Dead(u) => t.rc # 0
  BY <1>5, <1>11
<1> QED
  BY <1>4, <1>5, <1>7, <1>8, <1>9, <1>12, <1>16, <1>17, <1>18, <1>19

-----------------------------------------------------------------------------
(* The two functions that call each other.                                 *)

(* After a tuning the mode is the one the frequency asks for, or the       *)
(* user's, for the frequency asked for, f.                                 *)
Aimed(c, f) ==
    /\ c.freq \in {f, 0}
    /\ c.mode = 0 => c.ds = AutoSampling(c, f)
    /\ c.turn => c.mode = 0

(* The hardware follows, unless a turn is due.                             *)
Trailing(c) ==
    /\ Trim(c)
    /\ ~c.turn => Path(c, c.ds)
    /\ c.freq # 0 => Right(c)

LEMMA AgainDone ==
    ASSUME NEW c, Rec(c), c.ppm = c.corr, NEW f, Aimed(c, f)
    PROVE  /\ Only(Switching, c, Again(c))
           /\ Calm(c) /\ Again(c).rep => c.rep
           /\ Again(c).turn => Aimed(Again(c), 0) /\ f # 0
           /\ Calm(c) /\ Trailing(c) => Trailing(Again(c))
           /\ Dead(c) /\ (c.turn \/ c.rc # 0) => Again(c).rc # 0
<1>1. PICK x : x = Again(c)
  OBVIOUS
<1>2. CASE ~c.turn
  <2>1. x = c
    BY <1>1, <1>2 DEF Again
  <2>2. Only(Switching, c, c)
    BY DEF Only
  <2> QED
    BY <1>1, <1>2, <2>1, <2>2
<1>3. CASE c.turn
  <2>1. PICK on : on = c.ds
    OBVIOUS
  <2>2. x = Switch(c, on)
    BY <1>1, <1>3, <2>1 DEF Again
  <2>3. /\ Only(Switching, c, x) /\ x.freq \in {c.freq, 0}
        /\ x.ds = IF c.mode = 0 THEN AutoSampling(c, c.freq) ELSE on
        /\ x.turn = (x.ds # on)
        /\ Calm(c) /\ x.rep => c.rep
        /\ Calm(c) /\ Trim(c) => Steady(x, on) /\ (x.freq # 0 => Right(x))
        /\ Dead(c) => x.rc # 0
    BY <2>2, SwitchDone
  <2>4. x.type = c.type /\ x.v4l = c.v4l /\ x.mode = c.mode
    BY <2>3, Untouched DEF Switching, Centering, Tuned, DriverFields, Paths
  <2>5. AutoSampling(x, 0) = AutoSampling(c, 0)
    BY <2>4, AutoStays
  <2>6. c.mode = 0 /\ on = AutoSampling(c, f) /\ c.freq \in {f, 0}
    BY <1>3, <2>1 DEF Aimed
  <2>7. x.turn => c.freq = 0 /\ f # 0
    BY <2>3, <2>6
  <2>8. x.turn => Aimed(x, 0)
    BY <2>3, <2>4, <2>5, <2>6, <2>7 DEF Aimed
  <2>9. Calm(c) /\ Trailing(c) => Trailing(x)
    BY <2>3 DEF Trailing, Steady
  <2> QED
    BY <1>1, <2>3, <2>7, <2>8, <2>9
<1> QED
  BY <1>2, <1>3

Rounding == Switching \cup {"deep"}

LEMMA RoundsDone ==
    ASSUME NEW c, Rec(c), c.ppm = c.corr, ~c.deep, NEW f, Aimed(c, f)
    PROVE  /\ Only(Rounding, c, Bounded(Again(Again(c))))
           /\ ~Bounded(Again(Again(c))).turn /\ ~Bounded(Again(Again(c))).deep
           /\ Calm(c) /\ Bounded(Again(Again(c))).rep => c.rep
           /\ Calm(c) /\ Trailing(c) => Sound(Bounded(Again(Again(c))))
           /\ Dead(c) /\ (c.turn \/ c.rc # 0) => Bounded(Again(Again(c))).rc # 0
<1>1. PICK x : x = Again(c)
  OBVIOUS
<1>2. PICK y : y = Again(x)
  OBVIOUS
<1>3. PICK t : t = Bounded(y)
  OBVIOUS
<1>4. /\ Only(Switching, c, x)
      /\ Calm(c) /\ x.rep => c.rep
      /\ x.turn => Aimed(x, 0)
      /\ Calm(c) /\ Trailing(c) => Trailing(x)
      /\ Dead(c) /\ (c.turn \/ c.rc # 0) => x.rc # 0
  BY <1>1, AgainDone
<1>5. Rec(x)
  BY <1>4 DEF Only
<1>6. x.ppm = x.corr /\ Calm(x) = Calm(c) /\ Dead(x) = Dead(c)
  BY <1>4, Untouched DEF Switching, Centering, Tuned, DriverFields, Paths
<1>7. /\ Only(Switching, x, y) /\ ~y.turn
      /\ Calm(c) /\ y.rep => x.rep
      /\ Calm(c) /\ Trailing(x) => Trailing(y)
      /\ Dead(c) /\ x.rc # 0 => y.rc # 0
  <2>1. CASE ~x.turn
    <3>1. y = x
      BY <1>2, <2>1 DEF Again
    <3>2. Only(Switching, x, x)
      BY <1>5 DEF Only
    <3> QED
      BY <2>1, <3>1, <3>2
  <2>2. CASE x.turn
    <3>1. Aimed(x, 0)
      BY <1>4, <2>2
    <3>2. /\ Only(Switching, x, y)
          /\ Calm(x) /\ y.rep => x.rep
          /\ y.turn => 0 # 0
          /\ Calm(x) /\ Trailing(x) => Trailing(y)
          /\ Dead(x) /\ (x.turn \/ x.rc # 0) => y.rc # 0
      BY <1>2, <1>5, <1>6, <3>1, AgainDone
    <3> QED
      BY <1>6, <3>2
  <2> QED
    BY <2>1, <2>2
<1>8. Only(Switching, c, y)
  BY <1>4, <1>7, OnlyTwice
<1>9. y.deep = c.deep /\ DOMAIN y = StateFields
  BY <1>8 DEF Only, Rec, StateFields, Switching, Centering, Tuned, DriverFields, Paths
<1>10. PICK w : w = (y.deep \/ y.turn)
  OBVIOUS
<1>11. t = [y EXCEPT !.deep = w, !.turn = FALSE]
  BY <1>3, <1>10 DEF Bounded
<1>12. /\ DOMAIN t = StateFields /\ t.deep = w /\ t.turn = FALSE
       /\ \A g \in StateFields \ {"deep", "turn"} : t[g] = y[g]
  BY <1>9, <1>11 DEF StateFields
<1>13. t.chip = y.chip /\ t.shadow = y.shadow /\ t.type = y.type /\ t.rc = y.rc /\ t.n = y.n
       /\ t.ds = y.ds /\ t.freq = y.freq /\ t.ifr = y.ifr /\ t.corr = y.corr /\ t.rep = y.rep
  BY <1>12 DEF StateFields
<1>14. Only({"deep", "turn"}, y, t)
  BY <1>8, <1>12, <1>13 DEF Only, Rec
<1>15. Only(Rounding, c, t)
  BY <1>8, <1>14, OnlyTwice DEF Rounding, Switching, Centering
<1>16. ~t.turn /\ ~t.deep
  BY <1>7, <1>9, <1>10, <1>12
<1>17. \A d : Steady(y, d) => Steady(t, d)
  BY <1>14, SteadyStays
<1>18. Right(y) => Right(t)
  BY <1>13 DEF Right
<1>19. Trailing(y) => Sound(t)
  BY <1>7, <1>13, <1>17, <1>18 DEF Trailing, Sound, Steady
<1> QED
  BY <1>1, <1>2, <1>3, <1>4, <1>7, <1>13, <1>15, <1>16, <1>19

LEMMA TuneDone ==
    ASSUME NEW u, Rec(u), u.ppm = u.corr, ~u.deep, NEW f
    PROVE  /\ Only(Rounding, u, Tune(u, f))
           /\ ~Tune(u, f).turn /\ ~Tune(u, f).deep
           /\ Calm(u) /\ Tune(u, f).rep => u.rep
           /\ Calm(u) /\ Steady(u, u.ds) => Sound(Tune(u, f))
           /\ Dead(u) /\ Telling(u) => Tune(u, f).rc # 0
<1>1. PICK c : c = Center(u, f)
  OBVIOUS
<1>2. PICK t : t = Bounded(Again(Again(c)))
  OBVIOUS
<1>3. Tune(u, f) = t
  BY <1>1, <1>2 DEF Tune
<1>4. /\ Only(Centering, u, c) /\ c.freq \in {f, 0} /\ c.ds = Aims(u, f)
      /\ c.turn = (c.ds # u.ds)
      /\ Calm(u) /\ c.rep => u.rep
      /\ \A d : Calm(u) /\ Steady(u, d) => Steady(c, d)
      /\ Calm(u) /\ Trim(u) /\ c.freq # 0 => Right(c)
      /\ Dead(u) /\ Telling(u) => c.turn \/ c.rc # 0
  BY <1>1, CenterDone
<1>5. Rec(c) /\ c.deep = u.deep
  BY <1>4 DEF Only, StateFields, Centering, Tuned, DriverFields
<1>6. /\ c.ppm = c.corr /\ Calm(c) = Calm(u) /\ Dead(c) = Dead(u) /\ c.mode = u.mode
      /\ c.type = u.type /\ c.v4l = u.v4l
  BY <1>4, Untouched DEF Centering, Tuned, DriverFields
<1>7. AutoSampling(c, f) = AutoSampling(u, f)
  BY <1>6, AutoStays
<1>8. Aimed(c, f)
  BY <1>4, <1>6, <1>7 DEF Aimed, Aims
<1>9. Calm(u) /\ Steady(u, u.ds) => Trailing(c)
  BY <1>4 DEF Trailing, Steady
<1>10. /\ Only(Rounding, c, t) /\ ~t.turn /\ ~t.deep
       /\ Calm(c) /\ t.rep => c.rep
       /\ Calm(c) /\ Trailing(c) => Sound(t)
       /\ Dead(c) /\ (c.turn \/ c.rc # 0) => t.rc # 0
  BY <1>2, <1>5, <1>6, <1>8, RoundsDone
<1>11. Only(Rounding, u, t)
  BY <1>4, <1>10, OnlyTwice DEF Rounding, Switching
<1> QED
  BY <1>3, <1>4, <1>6, <1>9, <1>10, <1>11

LEMMA DirectDone ==
    ASSUME NEW u, Rec(u), u.ppm = u.corr, ~u.deep, NEW on
    PROVE  /\ Only(Rounding \cup {"mode"}, u, SetDirectSampling(u, on))
           /\ ~SetDirectSampling(u, on).turn /\ ~SetDirectSampling(u, on).deep
           /\ Calm(u) /\ SetDirectSampling(u, on).rep => u.rep
           /\ Calm(u) /\ Trim(u) => Sound(SetDirectSampling(u, on))
           /\ Dead(u) => SetDirectSampling(u, on).rc # 0
<1>1. PICK m : m = [u EXCEPT !.mode = on]
  OBVIOUS
<1>2. PICK o : o = Ok(m)
  OBVIOUS
<1>3. PICK c : c = Switch(o, on)
  OBVIOUS
<1>4. PICK t : t = Bounded(Again(Again(c)))
  OBVIOUS
<1>5. SetDirectSampling(u, on) = t
  BY <1>1, <1>2, <1>3, <1>4 DEF SetDirectSampling
<1>6. Only({"mode"}, u, m) /\ m.mode = on
  BY <1>1, FieldSet DEF Settings
<1>7. Rec(m)
  BY <1>6 DEF Only
<1>8. Only({}, m, o)
  BY <1>2, <1>7, ResultOnly
<1>9. Only({"mode"}, u, o)
  BY <1>6, <1>8, OnlyTwice
<1>10. Rec(o) /\ o.rep = u.rep /\ o.deep = u.deep /\ o.mode = on /\ o.corr = u.corr /\ o.ppm = u.ppm
       /\ o.fault = u.fault
  BY <1>6, <1>8, <1>9 DEF Only, StateFields
<1>11. Trim(u) => Trim(o)
  BY <1>9, SteadyStays
<1>12. /\ Only(Switching, o, c) /\ c.freq \in {o.freq, 0}
       /\ c.ds = IF o.mode = 0 THEN AutoSampling(o, o.freq) ELSE on
       /\ c.turn = (c.ds # on)
       /\ Calm(o) /\ c.rep => o.rep
       /\ Calm(o) /\ Trim(o) => Steady(c, on) /\ (c.freq # 0 => Right(c))
       /\ Dead(o) => c.rc # 0
  BY <1>3, <1>10, SwitchDone
<1>13. Rec(c) /\ c.deep = o.deep
  BY <1>12 DEF Only, StateFields, Switching, Centering, Tuned, DriverFields, Paths
<1>14. /\ c.ppm = c.corr /\ Calm(c) = Calm(o) /\ Dead(c) = Dead(o) /\ c.mode = o.mode
       /\ c.type = o.type /\ c.v4l = o.v4l
  BY <1>10, <1>12, Untouched DEF Switching, Centering, Tuned, DriverFields, Paths
<1>15. \A f : AutoSampling(c, f) = AutoSampling(o, f)
  BY <1>14, AutoStays
<1>16. Aimed(c, o.freq)
  BY <1>12, <1>14, <1>15 DEF Aimed
<1>17. Calm(o) /\ Trim(o) => Trailing(c)
  BY <1>12 DEF Trailing, Steady
<1>18. /\ Only(Rounding, c, t) /\ ~t.turn /\ ~t.deep
       /\ Calm(c) /\ t.rep => c.rep
       /\ Calm(c) /\ Trailing(c) => Sound(t)
       /\ Dead(c) /\ (c.turn \/ c.rc # 0) => t.rc # 0
  BY <1>4, <1>10, <1>13, <1>14, <1>16, RoundsDone
<1>19. Only(Rounding, o, t)
  BY <1>12, <1>18, OnlyTwice DEF Rounding
<1>20. Only(Rounding \cup {"mode"}, u, t)
  BY <1>9, <1>19, OnlyTwice
<1>21. Calm(o) = Calm(u) /\ Dead(o) = Dead(u)
  BY <1>10 DEF Calm, Dead
<1> QED
  BY <1>5, <1>10, <1>11, <1>12, <1>14, <1>17, <1>18, <1>20, <1>21

-----------------------------------------------------------------------------
(* The other settings.  A call that begins in a state that is Still leads  *)
(* to one, and if nothing fails it keeps the state Sound.                  *)

Still(t) == Rec(t) /\ t.ppm = t.corr /\ ~t.turn /\ ~t.deep

Api == StateFields \ {"type", "v4", "v4l", "xtal", "dongle", "edge", "fault"}

Carries(u, t) ==
    /\ Only(Api, u, t) /\ Still(t)
    /\ Calm(u) /\ t.rep => u.rep
    /\ Calm(u) /\ Sound(u) => Sound(t)

LEMMA ApiStays ==
    ASSUME NEW u, NEW t, Only(Api, u, t)
    PROVE  /\ t.type = u.type /\ t.v4 = u.v4 /\ t.v4l = u.v4l /\ t.fault = u.fault
           /\ t.dongle = u.dongle
           /\ Calm(t) = Calm(u) /\ Dead(t) = Dead(u) /\ HasTuner(t) = HasTuner(u)
           /\ Telling(t) = Telling(u) /\ IsR82xx(t) = IsR82xx(u)
<1>1. t.type = u.type /\ t.v4 = u.v4 /\ t.v4l = u.v4l /\ t.fault = u.fault
      /\ t.dongle = u.dongle
  BY DEF Only, Api, StateFields
<1> QED
  BY <1>1, TellingStays DEF Calm, Dead

LEMMA CarriesTwice ==
    ASSUME NEW r, NEW u, NEW t, Carries(r, u), Carries(u, t)
    PROVE  Carries(r, t)
<1>1. Only(Api, r, t)
  BY OnlyTwice DEF Carries
<1>2. Calm(u) = Calm(r)
  BY ApiStays DEF Carries
<1> QED
  BY <1>1, <1>2 DEF Carries

LEMMA SoundStays ==
    ASSUME NEW W, W \cap {"type", "zif", "inv", "swap", "ready", "chip", "shadow", "blind",
                          "freq", "ds", "ifr", "corr"} = {},
           NEW u, NEW t, Only(W, u, t), Sound(u)
    PROVE  Sound(t)
<1>1. t.type = u.type /\ t.ds = u.ds /\ t.freq = u.freq /\ t.ifr = u.ifr /\ t.corr = u.corr
      /\ t.chip = u.chip
  BY DEF Only, StateFields
<1>2. \A d : Steady(u, d) => Steady(t, d)
  BY SteadyStays
<1>3. Right(u) => Right(t)
  BY <1>1 DEF Right
<1> QED
  BY <1>1, <1>2, <1>3 DEF Sound

(* What no path depends on.                                                *)
Aside == {"offs", "rate", "bw", "gain", "resamp", "sync", "adc", "mode"}

LEMMA AsideCarries ==
    ASSUME NEW u, Still(u), NEW W \in SUBSET Aside, NEW t, Only(W, u, t)
    PROVE  Carries(u, t)
<1>1. Only(Api, u, t)
  BY DEF Only, Aside, Api
<1>2. Rec(t) /\ t.ppm = u.ppm /\ t.corr = u.corr /\ t.turn = u.turn /\ t.deep = u.deep
      /\ t.rep = u.rep
  BY DEF Only, Aside, StateFields
<1>3. Sound(u) => Sound(t)
  BY SoundStays DEF Aside
<1> QED
  BY <1>1, <1>2, <1>3 DEF Carries, Still

LEMMA ResultCarries ==
    ASSUME NEW u, Still(u), NEW w, Rec(w)
    PROVE  /\ Carries(u, Ok(u)) /\ Ok(u).rc = 0
           /\ Carries(u, Fail(u)) /\ Fail(u).rc = -1
           /\ Carries(u, Keep(w.rc, u)) /\ Keep(w.rc, u).rc = w.rc
           /\ Carries(u, OrRc(w.rc, u)) /\ OrRc(w.rc, u).rc = IF w.rc # 0 THEN w.rc ELSE u.rc
           /\ Carries(u, Keep(0, u))
<1>1. {} \in SUBSET Aside
  OBVIOUS
<1>2. Rec(u)
  BY DEF Still
<1> QED
  BY <1>1, <1>2, ResultOnly, AsideCarries

LEMMA IfFreqCarries ==
    ASSUME NEW u, Still(u), NEW f
    PROVE  /\ Carries(u, SetIfFreq(u, f))
           /\ Dead(u) => SetIfFreq(u, f).rc = -1
<1>1. PICK w : w = IfWord(u, f)
  OBVIOUS
<1>2. PICK t : t = Demod(u, "ifr", w)
  OBVIOUS
<1>3. Only({"ifr"}, u, t) /\ (Calm(u) => t.ifr = w) /\ (Dead(u) => t.rc = -1)
  BY <1>2, DemodDone DEF Still, DemodFields
<1>4. /\ Rec(t) /\ t.ppm = u.ppm /\ t.corr = u.corr /\ t.turn = u.turn /\ t.deep = u.deep
      /\ t.rep = u.rep /\ t.ds = u.ds /\ t.freq = u.freq /\ t.chip = u.chip /\ t.type = u.type
  BY <1>3 DEF Only, StateFields
<1>5. Only(Api, u, t)
  BY <1>3, OnlyMore DEF Api, StateFields
<1>6. \A d : Steady(u, d) => Steady(t, d)
  BY <1>3, SteadyStays
<1>7. Calm(u) /\ Right(u) => Right(t)
  BY <1>1, <1>3, <1>4 DEF Right, IfWord
<1>8. Calm(u) /\ Sound(u) => Sound(t)
  BY <1>4, <1>6, <1>7 DEF Sound
<1> QED
  BY <1>1, <1>2, <1>3, <1>4, <1>5, <1>8 DEF SetIfFreq, Carries, Still

LEMMA TunedApi == Tuned \in SUBSET Api /\ DriverFields \in SUBSET Api /\ Rounding \in SUBSET Api
  BY DEF Tuned, DriverFields, Api, StateFields, Rounding, Switching, Centering, Paths

LEMMA RetuneCarries ==
    ASSUME NEW u, Still(u)
    PROVE  /\ Carries(u, Retune(u))
           /\ Calm(u) /\ Steady(u, u.ds) => Sound(Retune(u))
           /\ u.rc # 0 => Retune(u).rc # 0
<1>1. PICK c : c = Tune(u, u.freq)
  OBVIOUS
<1>2. PICK t : t = OrRc(u.rc, c)
  OBVIOUS
<1>3. /\ Only(Rounding, u, c) /\ ~c.turn /\ ~c.deep
      /\ Calm(u) /\ c.rep => u.rep
      /\ Calm(u) /\ Steady(u, u.ds) => Sound(c)
  BY <1>1, TuneDone DEF Still
<1>4. Only(Api, u, c)
  BY <1>3, TunedApi, OnlyMore
<1>5. Rec(c) /\ c.ppm = c.corr
  <2>1. Rec(c)
    BY <1>3 DEF Only
  <2>2. c.ppm = u.ppm /\ c.corr = u.corr
    BY <1>3 DEF Only, StateFields, Rounding, Switching, Centering, Tuned, DriverFields, Paths
  <2> QED
    BY <2>1, <2>2 DEF Still
<1>6. Still(c)
  BY <1>3, <1>5 DEF Still
<1>7. Carries(u, c)
  BY <1>3, <1>4, <1>6 DEF Carries, Sound
<1>8. Rec(u)
  BY DEF Still
<1>9. Carries(c, t) /\ t.rc = IF u.rc # 0 THEN u.rc ELSE c.rc
  BY <1>2, <1>6, <1>8, ResultCarries
<1>10. Carries(u, t)
  BY <1>7, <1>9, CarriesTwice
<1>11. Calm(c) = Calm(u)
  BY <1>4, ApiStays
<1> QED
  BY <1>1, <1>2, <1>3, <1>9, <1>10, <1>11 DEF Retune, Carries

(* A driver's function on its own, and between switches of the repeater.   *)
LEMMA TunesSound ==
    ASSUME NEW u, Still(u), NEW t, Tunes(NotTuning, u, t)
    PROVE  /\ Only(Api, u, t) /\ Still(t) /\ t.rep = u.rep
           /\ Live(u) /\ Sound(u) => Sound(t)
<1>1. Rec(u) /\ Rec(t) /\ Driven(u, t)
  BY DEF Still, Tunes, Steers
<1>2. Only(DriverFields, u, t)
  BY <1>1 DEF Only, Driven, DriverFields
<1>3. Only(Api, u, t)
  BY <1>2, TunedApi, OnlyMore
<1>4. /\ t.ppm = u.ppm /\ t.corr = u.corr /\ t.turn = u.turn /\ t.deep = u.deep /\ t.rep = u.rep
      /\ t.ds = u.ds /\ t.freq = u.freq /\ t.type = u.type /\ t.ifr = u.ifr
  BY <1>2 DEF Only, StateFields, DriverFields
<1>5. t.chip["pll"] = u.chip["pll"]
  BY DEF Tunes, Steers, NotTuning, Regs
<1>6. Tunes(NotPower, u, t)
  BY SteersMore DEF Tunes, NotTuning
<1>7. t.chip["power"] = u.chip["power"] /\ (Live(u) /\ Tame(u) => Tame(t))
  BY <1>1, <1>6, TunesTame
<1>8. ASSUME NEW d, Path(u, d) PROVE Path(t, d)
  BY <1>2, <1>7, <1>8, PathStays DEF DriverFields
<1>9. Live(u) => t.blind = u.blind
  BY <1>1 DEF Driven, Live
<1>10. Right(u) => Right(t)
  BY <1>4, <1>5 DEF Right
<1>11. Live(u) /\ Sound(u) => Sound(t)
  BY <1>4, <1>7, <1>8, <1>9, <1>10 DEF Sound, Steady, Trim
<1> QED
  BY <1>1, <1>3, <1>4, <1>11 DEF Still

LEMMA RepeaterStill ==
    ASSUME NEW u, Still(u), NEW on
    PROVE  /\ Only(Api, u, Repeater(u, on)) /\ Still(Repeater(u, on))
           /\ Repeater(u, on).rc = u.rc
           /\ Calm(u) => Repeater(u, on).rep = on
           /\ Sound(u) => Sound(Repeater(u, on))
<1>1. PICK r : r = Repeater(u, on)
  OBVIOUS
<1>2. Rec(u)
  BY DEF Still
<1>3. Only({"rep"}, u, r) /\ r.rc = u.rc /\ (Calm(u) => r.rep = on)
  BY <1>1, <1>2, RepeaterDone
<1>4. Only(Api, u, r)
  BY <1>3, OnlyMore DEF Api, StateFields
<1>5. Rec(r) /\ r.ppm = u.ppm /\ r.corr = u.corr /\ r.turn = u.turn /\ r.deep = u.deep
  BY <1>3 DEF Only, StateFields
<1>6. Sound(u) => Sound(r)
  BY <1>3, SoundStays
<1> QED
  BY <1>1, <1>3, <1>4, <1>5, <1>6 DEF Still

LEMMA BracketCarries ==
    ASSUME NEW u, Still(u), NEW r, r = Repeater(u, TRUE), NEW x, Only(Api, r, x), Still(x),
           Live(r) /\ Sound(r) => Sound(x)
    PROVE  /\ Carries(u, Repeater(x, FALSE))
           /\ Repeater(x, FALSE).rc = x.rc
<1>1. Only(Api, u, r) /\ Still(r) /\ (Calm(u) => r.rep = TRUE) /\ (Sound(u) => Sound(r))
  BY RepeaterStill
<1>2. PICK t : t = Repeater(x, FALSE)
  OBVIOUS
<1>3. /\ Only(Api, x, t) /\ Still(t) /\ t.rc = x.rc
      /\ (Calm(x) => t.rep = FALSE) /\ (Sound(x) => Sound(t))
  BY <1>2, RepeaterStill
<1>4. Calm(x) = Calm(u) /\ Calm(r) = Calm(u)
  BY <1>1, ApiStays
<1>5. Only(Api, u, x)
  BY <1>1, OnlyTwice
<1>6. Only(Api, u, t)
  BY <1>3, <1>5, OnlyTwice
<1>7. Calm(u) => Live(r)
  BY <1>1, <1>4 DEF Calm, Live
<1> QED
  BY <1>1, <1>2, <1>3, <1>4, <1>6, <1>7 DEF Carries

LEMMA TunerBwDone ==
    ASSUME NEW u, Still(u), HasTuner(u), NEW bw
    PROVE  /\ Only(Api, u, SetTunerBw(u, bw)) /\ Still(SetTunerBw(u, bw))
           /\ Live(u) /\ Sound(u) => Sound(SetTunerBw(u, bw))
           /\ Dead(u) /\ IsR82xx(u) => SetTunerBw(u, bw).rc # 0
<1>1. PICK x : x = SetTunerBw(u, bw)
  OBVIOUS
<1>2. Rec(u)
  BY DEF Still
<1>3. CASE IsR82xx(u)
  <2>1. PICK b : b = R82xxSetBandwidth(u, bw)
    OBVIOUS
  <2>2. PICK c : c = Then(b, LAMBDA v : SetIfFreq(v, v.intf))
    OBVIOUS
  <2>3. x = Then(c, Retune)
    BY <1>1, <1>3, <2>1, <2>2 DEF SetTunerBw, IsR82xx
  <2>4. Mirrors({"filt", "intf"}, u, b)
    BY <1>2, <2>1, R82xxSet
  <2>5. Tunes(NotTuning, u, b)
    BY <1>2, <2>4, TunesMirrors DEF NotTuning, NotPower, Regs, Marks
  <2>6. Only(Api, u, b) /\ Still(b) /\ b.rep = u.rep /\ (Live(u) /\ Sound(u) => Sound(b))
    BY <2>5, TunesSound
  <2>7. Calm(b) = Calm(u) /\ Dead(b) = Dead(u)
    BY <2>6, ApiStays
  <2>8. Carries(b, c) /\ (Dead(b) => c.rc < 0)
    <3>1. CASE b.rc < 0
      <4>1. c = b
        BY <2>2, <3>1 DEF Then
      <4>2. Only(Api, b, b)
        BY <2>6 DEF Only
      <4> QED
        BY <2>6, <3>1, <4>1, <4>2 DEF Carries
    <3>2. CASE ~(b.rc < 0)
      <4>1. PICK i : i = b.intf
        OBVIOUS
      <4>2. c = SetIfFreq(b, i)
        BY <2>2, <3>2, <4>1 DEF Then
      <4> QED
        BY <2>6, <4>2, IfFreqCarries
    <3> QED
      BY <3>1, <3>2
  <2>9. Still(c)
    BY <2>8 DEF Carries
  <2>10. Carries(c, x) /\ (c.rc < 0 => x.rc < 0)
    <3>1. CASE c.rc < 0
      <4>1. x = c
        BY <2>3, <3>1 DEF Then
      <4>2. Only(Api, c, c)
        BY <2>9 DEF Only, Still
      <4> QED
        BY <2>9, <3>1, <4>1, <4>2 DEF Carries
    <3>2. CASE ~(c.rc < 0)
      <4>1. x = Retune(c)
        BY <2>3, <3>2 DEF Then
      <4> QED
        BY <2>9, <3>2, <4>1, RetuneCarries
    <3> QED
      BY <3>1, <3>2
  <2>11. Carries(b, x)
    BY <2>8, <2>10, CarriesTwice
  <2>12. Only(Api, u, x)
    BY <2>6, <2>11, OnlyTwice DEF Carries
  <2>13. Live(u) /\ Sound(u) => Sound(x)
    BY <2>6, <2>7, <2>11 DEF Carries, Live, Calm
  <2> QED
    BY <1>1, <2>7, <2>8, <2>10, <2>12, <2>13 DEF Carries
<1>4. CASE u.type = "E4000"
  <2>1. x = E4kSetBw(u, bw)
    BY <1>1, <1>4 DEF SetTunerBw, IsR82xx
  <2>2. Steers({"filt"}, u, x) /\ ~IsR82xx(u)
    BY <1>2, <1>4, <2>1, E4kSet DEF IsR82xx
  <2>3. Tunes(NotTuning, u, x)
    BY <1>2, <2>2, TunesSteers DEF NotTuning, NotPower, Regs, Marks
  <2> QED
    BY <1>1, <2>2, <2>3, TunesSound
<1>5. CASE u.type = "FC2580"
  <2>1. x = Fc2580SetBw(u)
    BY <1>1, <1>5 DEF SetTunerBw, IsR82xx
  <2>2. Steers({"filt", "auto"}, u, x) /\ ~IsR82xx(u)
    BY <1>2, <1>5, <2>1, Fc2580Done DEF IsR82xx
  <2>3. Tunes(NotTuning, u, x)
    BY <1>2, <2>2, TunesSteers DEF NotTuning, NotPower, Regs, Marks
  <2> QED
    BY <1>1, <2>2, <2>3, TunesSound
<1>6. CASE ~IsR82xx(u) /\ u.type # "E4000" /\ u.type # "FC2580"
  <2>1. x = Ok(u)
    BY <1>1, <1>6 DEF SetTunerBw
  <2>2. Carries(u, x)
    BY <1>2, <2>1, ResultCarries
  <2> QED
    BY <1>1, <1>6, <2>2 DEF Carries, Live, Calm
<1> QED
  BY <1>3, <1>4, <1>5, <1>6

LEMMA FilterCarries ==
    ASSUME NEW u, Still(u), NEW bw
    PROVE  /\ Carries(u, FilterTuner(u, bw))
           /\ Dead(u) /\ IsR82xx(u) => FilterTuner(u, bw).rc # 0
<1>1. CASE ~HasTuner(u)
  <2>1. FilterTuner(u, bw) = u
    BY <1>1 DEF FilterTuner
  <2>2. Only(Api, u, u)
    BY DEF Only, Still
  <2> QED
    BY <1>1, <2>1, <2>2 DEF Carries, HasTuner, IsR82xx
<1>2. CASE HasTuner(u)
  <2>1. PICK r : r = Repeater(u, TRUE)
    OBVIOUS
  <2>2. PICK x : x = SetTunerBw(r, bw)
    OBVIOUS
  <2>3. PICK t : t = Repeater(x, FALSE)
    OBVIOUS
  <2>4. FilterTuner(u, bw) = t
    BY <1>2, <2>1, <2>2, <2>3 DEF FilterTuner
  <2>5. Only(Api, u, r) /\ Still(r)
    BY <2>1, RepeaterStill
  <2>6. HasTuner(r) /\ Dead(r) = Dead(u) /\ IsR82xx(r) = IsR82xx(u)
    BY <1>2, <2>5, ApiStays
  <2>7. /\ Only(Api, r, x) /\ Still(x)
        /\ Live(r) /\ Sound(r) => Sound(x)
        /\ Dead(r) /\ IsR82xx(r) => x.rc # 0
    BY <2>2, <2>5, <2>6, TunerBwDone
  <2>8. Carries(u, t) /\ t.rc = x.rc
    BY <2>1, <2>3, <2>7, BracketCarries
  <2> QED
    BY <2>4, <2>6, <2>7, <2>8
<1> QED
  BY <1>1, <1>2

LEMMA BandwidthCarries ==
    ASSUME NEW u, Still(u), NEW bw
    PROVE  /\ Carries(u, SetTunerBandwidth(u, bw))
           /\ Dead(u) /\ IsR82xx(u) => SetTunerBandwidth(u, bw).rc # 0
<1>1. PICK a : a = Ok(u)
  OBVIOUS
<1>2. PICK w : w = IF bw > 0 THEN bw ELSE u.rate
  OBVIOUS
<1>3. PICK b : b = FilterTuner(a, w)
  OBVIOUS
<1>4. PICK t : t = NoteWidth(b, bw)
  OBVIOUS
<1>5. SetTunerBandwidth(u, bw) = t
  BY <1>1, <1>2, <1>3, <1>4 DEF SetTunerBandwidth
<1>6. Rec(u)
  BY DEF Still
<1>7. Carries(u, a)
  BY <1>1, <1>6, ResultCarries
<1>8. Still(a) /\ Dead(a) = Dead(u) /\ IsR82xx(a) = IsR82xx(u)
  BY <1>7, ApiStays DEF Carries
<1>9. Carries(a, b) /\ (Dead(a) /\ IsR82xx(a) => b.rc # 0)
  BY <1>3, <1>8, FilterCarries
<1>10. Still(b) /\ Rec(b)
  BY <1>9 DEF Carries, Still
<1>11. Carries(b, t) /\ t.rc = b.rc
  <2>1. CASE HasTuner(b) /\ b.rc = 0
    <3>1. t = [b EXCEPT !.bw = bw]
      BY <1>4, <2>1 DEF NoteWidth
    <3>2. Only({"bw"}, b, t) /\ t.rc = b.rc
      BY <1>10, <3>1, FieldSet DEF Settings
    <3> QED
      BY <1>10, <3>2, AsideCarries DEF Aside
  <2>2. CASE ~(HasTuner(b) /\ b.rc = 0)
    <3>1. t = b
      BY <1>4, <2>2 DEF NoteWidth
    <3>2. Only({}, b, b)
      BY <1>10 DEF Only
    <3> QED
      BY <1>10, <3>1, <3>2, AsideCarries
  <2> QED
    BY <2>1, <2>2
<1>12. Carries(u, b)
  BY <1>7, <1>9, CarriesTwice
<1>13. Carries(u, t)
  BY <1>11, <1>12, CarriesTwice
<1> QED
  BY <1>5, <1>8, <1>9, <1>11, <1>13

LEMMA OffsetCarries ==
    ASSUME NEW u, Still(u), NEW on
    PROVE  /\ Carries(u, SetOffsetTuning(u, on))
           /\ Dead(u) => SetOffsetTuning(u, on).rc # 0
<1>1. PICK t : t = SetOffsetTuning(u, on)
  OBVIOUS
<1>2. Rec(u)
  BY DEF Still
<1>3. CASE IsR82xx(u) \/ u.ds # 0
  <2>1. t = Fail(u)
    BY <1>1, <1>3 DEF SetOffsetTuning
  <2> QED
    BY <1>1, <1>2, <2>1, ResultCarries
<1>4. CASE ~(IsR82xx(u) \/ u.ds # 0)
  <2>1. PICK offs : offs = IF on THEN ((u.rate \div 2) * 170) \div 100 ELSE 0
    OBVIOUS
  <2>2. PICK width : width = IF on THEN 2 * offs ELSE AutoWidth(u)
    OBVIOUS
  <2>3. PICK a : a = [u EXCEPT !.offs = offs]
    OBVIOUS
  <2>4. PICK b : b = SetIfFreq(a, offs)
    OBVIOUS
  <2>5. PICK c : c = FilterTuner(b, width)
    OBVIOUS
  <2>6. PICK d : d = Keep(b.rc, c)
    OBVIOUS
  <2>7. t = d \/ t = Retune(d)
    BY <1>1, <1>4, <2>1, <2>2, <2>3, <2>4, <2>5, <2>6 DEF SetOffsetTuning, RetuneIf
  <2>8. Only({"offs"}, u, a)
    BY <1>2, <2>3, FieldSet DEF Settings
  <2>9. Carries(u, a)
    BY <2>8, AsideCarries DEF Aside
  <2>10. Still(a) /\ Dead(a) = Dead(u)
    BY <2>9, ApiStays DEF Carries
  <2>11. Carries(a, b) /\ (Dead(a) => b.rc = -1)
    BY <2>4, <2>10, IfFreqCarries
  <2>12. Still(b) /\ Rec(b)
    BY <2>11 DEF Carries, Still
  <2>13. Carries(b, c)
    BY <2>5, <2>12, FilterCarries
  <2>14. Still(c)
    BY <2>13 DEF Carries
  <2>15. Carries(c, d) /\ d.rc = b.rc
    BY <2>6, <2>12, <2>14, ResultCarries
  <2>16. Still(d)
    BY <2>15 DEF Carries
  <2>17. Only(Api, d, d)
    BY <2>16 DEF Only, Still
  <2>18. Carries(d, t) /\ (d.rc # 0 => t.rc # 0)
    <3>1. CASE t = d
      BY <2>16, <2>17, <3>1 DEF Carries
    <3>2. CASE t = Retune(d)
      BY <2>16, <3>2, RetuneCarries
    <3> QED
      BY <2>7, <3>1, <3>2
  <2>19. Carries(u, b)
    BY <2>9, <2>11, CarriesTwice
  <2>20. Carries(u, c)
    BY <2>13, <2>19, CarriesTwice
  <2>21. Carries(u, d)
    BY <2>15, <2>20, CarriesTwice
  <2>22. Carries(u, t)
    BY <2>18, <2>21, CarriesTwice
  <2> QED
    BY <1>1, <2>10, <2>11, <2>15, <2>18, <2>22
<1> QED
  BY <1>3, <1>4

LEMMA RateCarries ==
    ASSUME NEW u, Still(u), NEW rate
    PROVE  /\ Carries(u, SetSampleRate(u, rate))
           /\ Dead(u) => SetSampleRate(u, rate).rc # 0
<1>1. PICK a : a = Ok(u)
  OBVIOUS
<1>2. PICK b : b = [a EXCEPT !.rate = rate]
  OBVIOUS
<1>3. PICK w : w = AutoWidth(b)
  OBVIOUS
<1>4. PICK c : c = FilterTuner(b, w)
  OBVIOUS
<1>5. PICK d : d = Keep(0, c)
  OBVIOUS
<1>6. PICK e : e = OrDemod(d, "resamp", rate)
  OBVIOUS
<1>7. PICK ppm : ppm = u.corr
  OBVIOUS
<1>8. PICK f : f = OrDemod(e, "sync", ppm)
  OBVIOUS
<1>9. PICK g : g = OrDemod(f, "rep", FALSE)
  OBVIOUS
<1>10. PICK t : t = Reoffset(g)
  OBVIOUS
<1>11. SetSampleRate(u, rate) = t
  BY <1>1, <1>2, <1>3, <1>4, <1>5, <1>6, <1>7, <1>8, <1>9, <1>10 DEF SetSampleRate
<1>12. Rec(u)
  BY DEF Still
<1>13. Carries(u, a)
  BY <1>1, <1>12, ResultCarries
<1>14. Still(a) /\ Rec(a)
  BY <1>13 DEF Carries, Still
<1>15. Only({"rate"}, a, b)
  BY <1>2, <1>14, FieldSet DEF Settings
<1>16. Carries(a, b)
  BY <1>14, <1>15, AsideCarries DEF Aside
<1>17. Still(b)
  BY <1>16 DEF Carries
<1>18. Carries(b, c)
  BY <1>4, <1>17, FilterCarries
<1>19. Still(c) /\ Rec(c)
  BY <1>18 DEF Carries, Still
<1>20. Carries(c, d)
  BY <1>5, <1>19, ResultCarries
<1>21. Still(d) /\ Rec(d)
  BY <1>20 DEF Carries, Still
<1>22. Only({"resamp"}, d, e)
  BY <1>6, <1>21, OrDemodDone DEF DemodFields
<1>23. Carries(d, e)
  BY <1>21, <1>22, AsideCarries DEF Aside
<1>24. Still(e) /\ Rec(e)
  BY <1>23 DEF Carries, Still
<1>25. Only({"sync"}, e, f)
  BY <1>8, <1>24, OrDemodDone DEF DemodFields
<1>26. Carries(e, f)
  BY <1>24, <1>25, AsideCarries DEF Aside
<1>27. Still(f) /\ Rec(f)
  BY <1>26 DEF Carries, Still
<1>28. Only({"rep"}, f, g) /\ (Calm(f) => g.rep = FALSE) /\ (Dead(f) => g.rc # 0)
  BY <1>9, <1>27, Switched, Zenon
<1>29. Carries(f, g)
  <2>1. Only(Api, f, g)
    BY <1>28, OnlyMore DEF Api, StateFields
  <2>2. Rec(g) /\ g.ppm = f.ppm /\ g.corr = f.corr /\ g.turn = f.turn /\ g.deep = f.deep
    BY <1>28 DEF Only, StateFields
  <2>3. Sound(f) => Sound(g)
    BY <1>28, SoundStays
  <2> QED
    BY <1>27, <1>28, <2>1, <2>2, <2>3 DEF Carries, Still
<1>30. Still(g) /\ Rec(g)
  BY <1>29 DEF Carries, Still
<1>31. Carries(g, t) /\ t.rc = g.rc
  <2>1. CASE g.offs # 0
    <3>1. PICK h : h = SetOffsetTuning(g, TRUE)
      OBVIOUS
    <3>2. t = Keep(g.rc, h)
      BY <1>10, <2>1, <3>1 DEF Reoffset
    <3>3. Carries(g, h)
      BY <1>30, <3>1, OffsetCarries
    <3>4. Still(h)
      BY <3>3 DEF Carries
    <3>5. Carries(h, t) /\ t.rc = g.rc
      BY <1>30, <3>2, <3>4, ResultCarries
    <3> QED
      BY <3>3, <3>5, CarriesTwice
  <2>2. CASE ~(g.offs # 0)
    <3>1. t = g
      BY <1>10, <2>2 DEF Reoffset
    <3>2. Only({}, g, g)
      BY <1>30 DEF Only
    <3> QED
      BY <1>30, <3>1, <3>2, AsideCarries
  <2> QED
    BY <2>1, <2>2
<1>32. Carries(u, c)
  <2>1. Carries(u, b)
    BY <1>13, <1>16, CarriesTwice
  <2> QED
    BY <1>18, <2>1, CarriesTwice
<1>33. Carries(u, e)
  <2>1. Carries(u, d)
    BY <1>20, <1>32, CarriesTwice
  <2> QED
    BY <1>23, <2>1, CarriesTwice
<1>34. Carries(u, f)
  BY <1>26, <1>33, CarriesTwice
<1>35. Carries(u, g)
  BY <1>29, <1>34, CarriesTwice
<1>36. Carries(u, t)
  BY <1>31, <1>35, CarriesTwice
<1>37. Dead(f) = Dead(u)
  BY <1>34, ApiStays DEF Carries
<1> QED
  BY <1>11, <1>28, <1>31, <1>36, <1>37

LEMMA CorrectionCarries ==
    ASSUME NEW u, Still(u), NEW ppm
    PROVE  /\ Carries(u, SetFreqCorrection(u, ppm))
           /\ Dead(u) => SetFreqCorrection(u, ppm).rc # 0
<1>1. PICK t : t = SetFreqCorrection(u, ppm)
  OBVIOUS
<1>2. Rec(u)
  BY DEF Still
<1>3. CASE u.corr = ppm
  <2>1. t = Fail(u)
    BY <1>1, <1>3 DEF SetFreqCorrection
  <2> QED
    BY <1>1, <1>2, <2>1, ResultCarries
<1>4. CASE u.corr # ppm
  <2>1. PICK a : a = [u EXCEPT !.corr = ppm]
    OBVIOUS
  <2>2. PICK b : b = Demod(a, "sync", ppm)
    OBVIOUS
  <2>3. PICK c : c = [b EXCEPT !.ppm = ppm]
    OBVIOUS
  <2>4. t = IF u.freq # 0 THEN Retune(c) ELSE c
    BY <1>1, <1>4, <2>1, <2>2, <2>3
       DEF SetFreqCorrection, RetuneIf, SetSampleFreqCorrection
  <2>5. Only({"corr"}, u, a) /\ a.corr = ppm
    BY <1>2, <2>1, FieldSet DEF Settings
  <2>6. Rec(a)
    BY <2>5 DEF Only
  <2>7. Only({"sync"}, a, b) /\ (Dead(a) => b.rc = -1)
    BY <2>2, <2>6, DemodDone DEF DemodFields
  <2>8. Rec(b)
    BY <2>7 DEF Only
  <2>9. Only({"ppm"}, b, c) /\ c.ppm = ppm /\ c.rc = b.rc
    BY <2>3, <2>8, FieldSet DEF Settings
  <2>10. Only({"corr", "sync"}, u, b)
    BY <2>5, <2>7, OnlyTwice
  <2>11. Only({"corr", "sync", "ppm"}, u, c)
    BY <2>9, <2>10, OnlyTwice
  <2>12. Only(Api, u, c)
    BY <2>11, OnlyMore DEF Api, StateFields
  <2>13. /\ c.corr = ppm /\ c.turn = u.turn /\ c.deep = u.deep /\ c.ds = u.ds
         /\ c.freq = u.freq /\ c.rep = u.rep /\ Rec(c) /\ a.fault = u.fault
    BY <2>5, <2>7, <2>9, <2>11 DEF Only, StateFields
  <2>14. Still(c)
    BY <2>9, <2>13 DEF Still
  <2>15. \A d : Steady(u, d) => Steady(c, d)
    BY <2>11, SteadyStays
  <2>16. Calm(c) = Calm(u) /\ Dead(c) = Dead(u)
    BY <2>12, ApiStays
  <2>17. Dead(u) => c.rc # 0
    BY <2>7, <2>9, <2>13 DEF Dead
  <2>18. CASE u.freq # 0
    <3>1. t = Retune(c)
      BY <2>4, <2>18
    <3>2. /\ Carries(c, t)
          /\ Calm(c) /\ Steady(c, c.ds) => Sound(t)
          /\ c.rc # 0 => t.rc # 0
      BY <2>14, <3>1, RetuneCarries
    <3>3. Only(Api, u, t)
      BY <2>12, <3>2, OnlyTwice DEF Carries
    <3>4. Calm(u) /\ Sound(u) => Sound(t)
      BY <2>13, <2>15, <2>16, <3>2 DEF Sound
    <3> QED
      BY <1>1, <2>13, <2>16, <2>17, <3>2, <3>3, <3>4 DEF Carries
  <2>19. CASE ~(u.freq # 0)
    <3>1. t = c
      BY <2>4, <2>19
    <3>2. Sound(u) => Sound(c)
      BY <2>13, <2>15, <2>19 DEF Sound
    <3> QED
      BY <1>1, <2>12, <2>13, <2>14, <2>17, <3>1, <3>2 DEF Carries
  <2> QED
    BY <2>18, <2>19
<1> QED
  BY <1>3, <1>4

LEMMA GainCarries ==
    ASSUME NEW u, Still(u), NEW v
    PROVE  /\ Carries(u, SetTunerGain(u, v))
           /\ Dead(u) /\ Telling(u) => SetTunerGain(u, v).rc # 0
           /\ Carries(u, SetTunerGainMode(u, v))
<1>1. PICK r : r = Repeater(u, TRUE)
  OBVIOUS
<1>2. Rec(u) /\ Carries(u, Ok(u))
  BY ResultCarries DEF Still
<1>3. Only(Api, u, r) /\ Still(r)
  BY <1>1, RepeaterStill
<1>4. HasTuner(r) = HasTuner(u) /\ Dead(r) = Dead(u) /\ Telling(r) = Telling(u)
  BY <1>3, ApiStays
<1>5. PICK g : g = IF HasTuner(u) THEN Repeater(TunerGain(r, v), FALSE) ELSE Ok(u)
  OBVIOUS
<1>6. PICK m : m = SetTunerGainMode(u, v)
  OBVIOUS
<1>7. /\ Carries(u, g) /\ Carries(u, m)
      /\ Dead(u) /\ Telling(u) => g.rc # 0
  <2>1. CASE ~HasTuner(u)
    <3>1. g = Ok(u) /\ m = Ok(u) /\ ~Telling(u)
      BY <1>1, <1>5, <1>6, <2>1 DEF SetTunerGainMode, HasTuner, Telling, IsR82xx, IsFc001x
    <3> QED
      BY <1>2, <3>1
  <2>2. CASE HasTuner(u)
    <3>1. PICK x : x = TunerGain(r, v)
      OBVIOUS
    <3>2. PICK y : y = TunerGainMode(r, v)
      OBVIOUS
    <3>3. g = Repeater(x, FALSE) /\ m = Repeater(y, FALSE)
      BY <1>1, <1>5, <1>6, <2>2, <3>1, <3>2 DEF SetTunerGainMode
    <3>4. /\ Tunes(NotTuning, r, x) /\ Tunes(NotTuning, r, y)
          /\ Dead(r) /\ Telling(r) => x.rc = -1
      BY <1>3, <1>4, <2>2, <3>1, <3>2, TunerSets DEF Still, Telling
    <3>5. Only(Api, r, x) /\ Still(x) /\ (Live(r) /\ Sound(r) => Sound(x))
      BY <1>3, <3>4, TunesSound
    <3>6. Only(Api, r, y) /\ Still(y) /\ (Live(r) /\ Sound(r) => Sound(y))
      BY <1>3, <3>4, TunesSound
    <3>7. Carries(u, g) /\ g.rc = x.rc
      BY <1>1, <3>3, <3>5, BracketCarries
    <3>8. Carries(u, m)
      BY <1>1, <3>3, <3>6, BracketCarries
    <3> QED
      BY <1>4, <3>4, <3>7, <3>8
  <2> QED
    BY <2>1, <2>2
<1>8. Still(g) /\ Rec(g)
  BY <1>7 DEF Carries, Still
<1>9. PICK w : w = IF g.rc = 0 THEN v ELSE 0
  OBVIOUS
<1>10. PICK t : t = [g EXCEPT !.gain = w]
  OBVIOUS
<1>11. SetTunerGain(u, v) = t
  BY <1>1, <1>5, <1>9, <1>10 DEF SetTunerGain, NoteGain
<1>12. Only({"gain"}, g, t) /\ t.rc = g.rc
  BY <1>8, <1>10, FieldSet DEF Settings
<1>13. Carries(g, t)
  BY <1>8, <1>12, AsideCarries DEF Aside
<1>14. Carries(u, t)
  BY <1>7, <1>13, CarriesTwice
<1> QED
  BY <1>6, <1>7, <1>11, <1>12, <1>14

LEMMA TuneCarries ==
    ASSUME NEW u, Still(u), NEW f
    PROVE  /\ Carries(u, Tune(u, f))
           /\ Dead(u) /\ Telling(u) => Tune(u, f).rc # 0
<1>1. PICK t : t = Tune(u, f)
  OBVIOUS
<1>2. /\ Only(Rounding, u, t) /\ ~t.turn /\ ~t.deep
      /\ Calm(u) /\ t.rep => u.rep
      /\ Calm(u) /\ Steady(u, u.ds) => Sound(t)
      /\ Dead(u) /\ Telling(u) => t.rc # 0
  BY <1>1, TuneDone DEF Still
<1>3. Only(Api, u, t)
  BY <1>2, TunedApi, OnlyMore
<1>4. Rec(t) /\ t.ppm = u.ppm /\ t.corr = u.corr
  BY <1>2 DEF Only, StateFields, Rounding, Switching, Centering, Tuned, DriverFields, Paths
<1> QED
  BY <1>1, <1>2, <1>3, <1>4 DEF Carries, Still, Sound

LEMMA DirectCarries ==
    ASSUME NEW u, Still(u), NEW on
    PROVE  /\ Carries(u, SetDirectSampling(u, on))
           /\ Calm(u) /\ Trim(u) => Sound(SetDirectSampling(u, on))
           /\ Dead(u) => SetDirectSampling(u, on).rc # 0
<1>1. PICK t : t = SetDirectSampling(u, on)
  OBVIOUS
<1>2. /\ Only(Rounding \cup {"mode"}, u, t) /\ ~t.turn /\ ~t.deep
      /\ Calm(u) /\ t.rep => u.rep
      /\ Calm(u) /\ Trim(u) => Sound(t)
      /\ Dead(u) => t.rc # 0
  BY <1>1, DirectDone DEF Still
<1>3. Rounding \cup {"mode"} \in SUBSET Api
  BY TunedApi DEF Api, StateFields
<1>4. Only(Api, u, t)
  BY <1>2, <1>3, OnlyMore
<1>5. Rec(t) /\ t.ppm = u.ppm /\ t.corr = u.corr
  BY <1>2 DEF Only, StateFields, Rounding, Switching, Centering, Tuned, DriverFields, Paths
<1> QED
  BY <1>1, <1>2, <1>4, <1>5 DEF Carries, Still, Sound, Steady

-----------------------------------------------------------------------------
(* Opening and closing.                                                    *)

LEMMA TouchDone ==
    ASSUME NEW u, Rec(u)
    PROVE  Only({}, u, Touch(u))
<1>1. PICK t : t = Touch(u)
  OBVIOUS
<1>2. DOMAIN u = StateFields /\ u.n \in Nat
  BY DEF Rec
<1>3. DOMAIN t = StateFields /\ t.n = u.n + 1 /\ t.rc \in {-1, 0}
  BY <1>1, <1>2 DEF Touch, Access, Ok, Fail, StateFields
<1>4. \A f \in StateFields \ {"n", "rc"} : t[f] = u[f]
  BY <1>1, <1>2 DEF Touch, Access, Ok, Fail, StateFields
<1>5. t.chip = u.chip /\ t.shadow = u.shadow /\ t.type = u.type
  BY <1>4 DEF StateFields
<1> QED
  BY <1>1, <1>2, <1>3, <1>4, <1>5 DEF Rec, Only

LEMMA EepromRead ==
    ASSUME NEW u, Rec(u)
    PROVE  Only({"v4", "v4l"}, u, ReadEeprom(u))
<1>1. PICK t : t = ReadEeprom(u)
  OBVIOUS
<1>2. DOMAIN u = StateFields /\ u.n \in Nat
  BY DEF Rec
<1>3. DOMAIN t = StateFields /\ t.n = u.n + 1 /\ t.rc \in {-1, 0}
  BY <1>1, <1>2 DEF ReadEeprom, Access, Ok, Fail, StateFields
<1>4. \A f \in StateFields \ {"n", "rc", "v4", "v4l"} : t[f] = u[f]
  BY <1>1, <1>2 DEF ReadEeprom, Access, Ok, Fail, StateFields
<1>5. t.chip = u.chip /\ t.shadow = u.shadow /\ t.type = u.type
  BY <1>4 DEF StateFields
<1> QED
  BY <1>1, <1>2, <1>3, <1>4, <1>5 DEF Rec, Only

(* While the tuner is looked for, only its type changes.                   *)
Probing(u, t) == Only({"type", "blind"}, u, t) /\ (u.rep => t.blind = u.blind)

LEMMA ProbingTwice ==
    ASSUME NEW r, NEW u, NEW t, Probing(r, u), Probing(u, t)
    PROVE  Probing(r, t)
<1>1. u.rep = r.rep
  BY DEF Probing, Only, StateFields
<1> QED
  BY <1>1, OnlyTwice DEF Probing

LEMMA Asked ==
    ASSUME NEW u, Rec(u)
    PROVE  Only({"blind"}, u, TunerRead(u)) /\ (u.rep => TunerRead(u).blind = u.blind)
<1>1. PICK t : t = TunerRead(u)
  OBVIOUS
<1>2. DOMAIN u = StateFields /\ u.n \in Nat
  BY DEF Rec
<1>3. DOMAIN t = StateFields /\ t.n = u.n + 1 /\ t.rc \in {-1, 0}
  BY <1>1, <1>2 DEF TunerRead, TunerAccess, Access, Ok, Fail, StateFields
<1>4. \A f \in StateFields \ {"n", "rc", "blind"} : t[f] = u[f]
  BY <1>1, <1>2 DEF TunerRead, TunerAccess, Access, Ok, Fail, StateFields
<1>5. t.chip = u.chip /\ t.shadow = u.shadow /\ t.type = u.type
  BY <1>4 DEF StateFields
<1>6. u.rep => t.blind = u.blind
  BY <1>1, <1>2 DEF TunerRead, TunerAccess, Access, Ok, Fail, StateFields
<1> QED
  BY <1>1, <1>2, <1>3, <1>4, <1>5, <1>6 DEF Rec, Only

LEMMA ProbedOne ==
    ASSUME NEW u, Rec(u), NEW type \in Types
    PROVE  Probing(u, ProbeOne(u, type)) /\ Rec(ProbeOne(u, type))
<1>1. PICK t : t = ProbeOne(u, type)
  OBVIOUS
<1>2. PICK a : a = TunerRead(u)
  OBVIOUS
<1>3. PICK b : b = [a EXCEPT !.type = type]
  OBVIOUS
<1>4. t = u \/ t = a \/ t = b
  BY <1>1, <1>2, <1>3 DEF ProbeOne
<1>5. Only({"blind"}, u, a) /\ (u.rep => a.blind = u.blind)
  BY <1>2, Asked
<1>6. Rec(a)
  BY <1>5 DEF Only
<1>7. DOMAIN b = StateFields /\ b.type = type /\ \A f \in StateFields \ {"type"} : b[f] = a[f]
  BY <1>3, <1>6 DEF Rec, StateFields
<1>8. b.chip = a.chip /\ b.shadow = a.shadow /\ b.n = a.n /\ b.rc = a.rc /\ b.blind = a.blind
  BY <1>7 DEF StateFields
<1>9. Only({"type"}, a, b)
  BY <1>6, <1>7, <1>8 DEF Rec, Only
<1>10. Only({"type", "blind"}, u, b) /\ Only({"type", "blind"}, u, a)
  BY <1>5, <1>9, OnlyTwice, OnlyMore
<1>11. Only({"type", "blind"}, u, u)
  BY DEF Only
<1>12. Probing(u, t)
  <2>1. CASE t = u
    BY <1>11, <2>1 DEF Probing
  <2>2. CASE t = a
    BY <1>5, <1>10, <2>2 DEF Probing
  <2>3. CASE t = b
    BY <1>5, <1>8, <1>10, <2>3 DEF Probing
  <2> QED
    BY <1>4, <2>1, <2>2, <2>3
<1> QED
  BY <1>1, <1>12 DEF Probing, Only

LEMMA ProbeDone ==
    ASSUME NEW u, Rec(u)
    PROVE  /\ Only({"rep", "type", "blind"}, u, Probe(u))
           /\ Calm(u) => Probe(u).rep /\ Probe(u).blind = u.blind
<1>1. PICK r : r = Repeater(u, TRUE)
  OBVIOUS
<1>2. PICK a : a = ProbeOne(r, "E4000")
  OBVIOUS
<1>3. PICK b : b = ProbeOne(a, "FC0013")
  OBVIOUS
<1>4. PICK c : c = ProbeOne(b, "R820T")
  OBVIOUS
<1>5. PICK d : d = ProbeOne(c, "R828D")
  OBVIOUS
<1>6. PICK e : e = ResetByGpio4(d)
  OBVIOUS
<1>7. PICK f : f = ProbeOne(e, "FC2580")
  OBVIOUS
<1>8. PICK g : g = ProbeOne(f, "FC0012")
  OBVIOUS
<1>9. PICK t : t = OutputGpio6(g)
  OBVIOUS
<1>10. Probe(u) = t
  BY <1>1, <1>2, <1>3, <1>4, <1>5, <1>6, <1>7, <1>8, <1>9 DEF Probe
<1>11. Only({"rep"}, u, r) /\ (Calm(u) => r.rep = TRUE)
  BY <1>1, RepeaterDone
<1>12. Rec(r)
  BY <1>11 DEF Only
<1>13. Probing(r, a) /\ Rec(a)
  BY <1>2, <1>12, ProbedOne DEF Types
<1>14. Probing(a, b) /\ Rec(b)
  BY <1>3, <1>13, ProbedOne DEF Types
<1>15. Probing(b, c) /\ Rec(c)
  BY <1>4, <1>14, ProbedOne DEF Types
<1>16. Probing(c, d) /\ Rec(d)
  BY <1>5, <1>15, ProbedOne DEF Types
<1>17. ASSUME NEW v, NEW w, Only({}, v, w) PROVE Probing(v, w) /\ Rec(w)
  BY <1>17 DEF Probing, Only, StateFields
<1>18. Probing(d, e) /\ Rec(e)
  <2>1. PICK p : p = Touch(d)
    OBVIOUS
  <2>2. PICK q : q = Touch(p)
    OBVIOUS
  <2>3. PICK s1 : s1 = Touch(q)
    OBVIOUS
  <2>4. e = d \/ e = s1
    BY <1>6, <2>1, <2>2, <2>3 DEF ResetByGpio4
  <2>5. Only({}, d, p) /\ Rec(p)
    BY <1>16, <2>1, TouchDone DEF Only
  <2>6. Only({}, p, q) /\ Rec(q)
    BY <2>2, <2>5, TouchDone DEF Only
  <2>7. Only({}, q, s1)
    BY <2>3, <2>6, TouchDone
  <2>8. Only({}, d, q)
    BY <2>5, <2>6, OnlyTwice
  <2>9. Only({}, d, s1)
    BY <2>7, <2>8, OnlyTwice
  <2>10. Only({}, d, d)
    BY <1>16 DEF Only
  <2>11. Only({}, d, e)
    BY <2>4, <2>9, <2>10
  <2> QED
    BY <1>17, <2>11
<1>19. Probing(e, f) /\ Rec(f)
  BY <1>7, <1>18, ProbedOne DEF Types
<1>20. Probing(f, g) /\ Rec(g)
  BY <1>8, <1>19, ProbedOne DEF Types
<1>21. Probing(g, t)
  <2>1. PICK p : p = Touch(g)
    OBVIOUS
  <2>2. PICK q : q = Keep(0, p)
    OBVIOUS
  <2>3. t = g \/ t = q
    BY <1>9, <2>1, <2>2 DEF OutputGpio6
  <2>4. Only({}, g, p) /\ Rec(p)
    BY <1>20, <2>1, TouchDone DEF Only
  <2>5. Only({}, p, q)
    BY <2>2, <2>4, ResultOnly
  <2>6. Only({}, g, q)
    BY <2>4, <2>5, OnlyTwice
  <2>7. Only({}, g, g)
    BY <1>20 DEF Only
  <2>8. Only({}, g, t)
    BY <2>3, <2>6, <2>7
  <2> QED
    BY <1>17, <2>8
<1>22. Probing(r, b)
  BY <1>13, <1>14, ProbingTwice
<1>23. Probing(r, c)
  BY <1>15, <1>22, ProbingTwice
<1>24. Probing(r, d)
  BY <1>16, <1>23, ProbingTwice
<1>25. Probing(r, e)
  BY <1>18, <1>24, ProbingTwice
<1>26. Probing(r, f)
  BY <1>19, <1>25, ProbingTwice
<1>27. Probing(r, g)
  BY <1>20, <1>26, ProbingTwice
<1>28. Probing(r, t)
  BY <1>21, <1>27, ProbingTwice
<1>29. Only({"rep", "type", "blind"}, u, t)
  BY <1>11, <1>28, OnlyTwice DEF Probing
<1>30. t.rep = r.rep /\ r.blind = u.blind
  BY <1>11, <1>28 DEF Probing, Only, StateFields
<1> QED
  BY <1>10, <1>11, <1>28, <1>29, <1>30 DEF Probing

LEMMA Dropped ==
    ASSUME NEW u, Rec(u)
    PROVE  \A field \in {"inv", "swap", "zif"} : \A on :
             /\ Only({field}, u, DropDemod(u, field, on))
             /\ Calm(u) => DropDemod(u, field, on)[field] = on
<1>1. ASSUME NEW field \in {"inv", "swap", "zif"}, NEW on
      PROVE  /\ Only({field}, u, DropDemod(u, field, on))
             /\ Calm(u) => DropDemod(u, field, on)[field] = on
  <2>1. field \in DemodFields
    BY DEF DemodFields
  <2> QED
    BY <2>1, OrDemodDone
<1> QED
  BY <1>1

LEMMA BasebandDone ==
    ASSUME NEW u, Rec(u)
    PROVE  /\ Only({"adc", "rep", "inv", "ifr", "swap", "zif"}, u, InitBaseband(u))
           /\ Calm(u) => InitBaseband(u).zif = TRUE /\ InitBaseband(u).ifr.f = 0
<1> DEFINE W == {"adc", "rep", "inv", "ifr", "swap", "zif"}
<1>1. PICK a : a = DropDemod(u, "adc", "iq")
  OBVIOUS
<1>2. PICK b : b = Repeater(a, FALSE)
  OBVIOUS
<1>3. PICK c : c = DropDemod(b, "inv", FALSE)
  OBVIOUS
<1>4. PICK w : w = [f |-> 0, ppm |-> 0]
  OBVIOUS
<1>5. PICK d : d = DropDemod(c, "ifr", w)
  OBVIOUS
<1>6. PICK e : e = DropDemod(d, "swap", FALSE)
  OBVIOUS
<1>7. PICK t : t = DropDemod(e, "zif", TRUE)
  OBVIOUS
<1>8. InitBaseband(u) = t
  BY <1>1, <1>2, <1>3, <1>4, <1>5, <1>6, <1>7 DEF InitBaseband
<1>9. Only({"adc"}, u, a)
  BY <1>1, OrDemodDone DEF DemodFields
<1>10. Rec(a)
  BY <1>9 DEF Only
<1>11. Only({"rep"}, a, b)
  BY <1>2, <1>10, RepeaterDone
<1>12. Rec(b)
  BY <1>11 DEF Only
<1>13. Only({"inv"}, b, c)
  BY <1>3, <1>12, Dropped, Zenon
<1>14. Rec(c)
  BY <1>13 DEF Only
<1>15. Only({"ifr"}, c, d) /\ (Calm(c) => d.ifr = w)
  BY <1>5, <1>14, OrDemodDone DEF DemodFields
<1>16. Rec(d)
  BY <1>15 DEF Only
<1>17. Only({"swap"}, d, e)
  BY <1>6, <1>16, Dropped, Zenon
<1>18. Rec(e)
  BY <1>17 DEF Only
<1>19. Only({"zif"}, e, t) /\ (Calm(e) => t.zif = TRUE)
  BY <1>7, <1>18, Dropped, Zenon
<1>20. Only(W, u, b)
  BY <1>9, <1>11, OnlyTwice
<1>21. Only(W, u, c)
  BY <1>13, <1>20, OnlyTwice
<1>22. Only(W, u, d)
  BY <1>15, <1>21, OnlyTwice
<1>23. Only(W, u, e)
  BY <1>17, <1>22, OnlyTwice
<1>24. Only(W, u, t)
  BY <1>19, <1>23, OnlyTwice
<1>25. Calm(e) = Calm(u) /\ Calm(c) = Calm(u)
  BY <1>21, <1>23, Untouched
<1>26. t.ifr = d.ifr
  <2>1. e.ifr = d.ifr /\ t.ifr = e.ifr
    BY <1>17, <1>19 DEF Only, StateFields
  <2> QED
    BY <2>1
<1>27. w.f = 0
  BY <1>4
<1> QED
  BY <1>8, <1>15, <1>19, <1>24, <1>25, <1>26, <1>27

Finding == {"adc", "rep", "inv", "ifr", "swap", "zif", "v4", "v4l", "type", "blind", "xtal"}

LEMMA FoundDone ==
    ASSUME NEW u, Rec(u)
    PROVE  /\ Only(Finding, u, Found(u))
           /\ Calm(u) => /\ Found(u).rep /\ Found(u).zif = TRUE /\ Found(u).blind = u.blind
                         /\ Found(u).ifr.f = 0
<1>1. PICK a : a = Touch(u)
  OBVIOUS
<1>2. PICK b : b = InitBaseband(a)
  OBVIOUS
<1>3. PICK c : c = ReadEeprom(b)
  OBVIOUS
<1>4. PICK d : d = Probe(c)
  OBVIOUS
<1>5. PICK x : x = IF d.type = "R828D" /\ ~d.v4 THEN 160 ELSE RtlXtal \div 100
  OBVIOUS
<1>6. PICK t : t = [d EXCEPT !.xtal = x]
  OBVIOUS
<1>7. Found(u) = t
  BY <1>1, <1>2, <1>3, <1>4, <1>5, <1>6 DEF Found, TunerClock
<1>8. Only({}, u, a)
  BY <1>1, TouchDone
<1>9. Rec(a)
  BY <1>8 DEF Only
<1>10. /\ Only({"adc", "rep", "inv", "ifr", "swap", "zif"}, a, b)
       /\ Calm(a) => b.zif = TRUE /\ b.ifr.f = 0
  BY <1>2, <1>9, BasebandDone
<1>11. Rec(b)
  BY <1>10 DEF Only
<1>12. Only({"v4", "v4l"}, b, c)
  BY <1>3, <1>11, EepromRead
<1>13. Rec(c)
  BY <1>12 DEF Only
<1>14. Only({"rep", "type", "blind"}, c, d) /\ (Calm(c) => d.rep /\ d.blind = c.blind)
  BY <1>4, <1>13, ProbeDone
<1>15. Rec(d)
  BY <1>14 DEF Only
<1>16. DOMAIN t = StateFields /\ t.xtal = x /\ \A f \in StateFields \ {"xtal"} : t[f] = d[f]
  BY <1>6, <1>15 DEF Rec, StateFields
<1>17. t.chip = d.chip /\ t.shadow = d.shadow /\ t.n = d.n /\ t.rc = d.rc /\ t.type = d.type
  BY <1>16 DEF StateFields
<1>18. Only({"xtal"}, d, t)
  BY <1>15, <1>16, <1>17 DEF Rec, Only
<1>19. Only(Finding, u, b)
  BY <1>8, <1>10, OnlyTwice DEF Finding
<1>20. Only(Finding, u, c)
  BY <1>12, <1>19, OnlyTwice DEF Finding
<1>21. Only(Finding, u, d)
  BY <1>14, <1>20, OnlyTwice DEF Finding
<1>22. Only(Finding, u, t)
  BY <1>18, <1>21, OnlyTwice DEF Finding
<1>23. a.fault = u.fault /\ c.fault = u.fault
  BY <1>8, <1>20 DEF Only, StateFields, Finding
<1>24. /\ a.blind = u.blind /\ b.blind = a.blind /\ c.blind = b.blind /\ c.zif = b.zif
       /\ d.zif = c.zif /\ t.zif = d.zif /\ t.rep = d.rep /\ t.blind = d.blind
       /\ c.ifr = b.ifr /\ d.ifr = c.ifr /\ t.ifr = d.ifr
  BY <1>8, <1>10, <1>12, <1>14, <1>18 DEF Only, StateFields
<1> QED
  BY <1>7, <1>10, <1>14, <1>22, <1>23, <1>24 DEF Calm

LEMMA PathPrepared ==
    ASSUME NEW u, Still(u)
    PROVE  /\ Only(Api, u, PreparePath(u)) /\ Still(PreparePath(u))
           /\ HasTuner(u) => Only({"zif", "adc", "ifr", "inv"}, u, PreparePath(u))
           /\ Calm(u) /\ HasTuner(u) /\ u.zif = TRUE =>
                PreparePath(u).zif = TRUE \/ PreparePath(u).inv = TRUE
           /\ ~HasTuner(u) /\ Calm(u) /\ Trim(u) => Sound(PreparePath(u))
<1>1. PICK t : t = PreparePath(u)
  OBVIOUS
<1>2. Rec(u)
  BY DEF Still
<1>3. CASE IsR82xx(u)
  <2>1. PICK a : a = Demod(u, "zif", FALSE)
    OBVIOUS
  <2>2. PICK b : b = Demod(a, "adc", "i")
    OBVIOUS
  <2>3. PICK w : w = IfWord(b, 3570)
    OBVIOUS
  <2>4. PICK c : c = Demod(b, "ifr", w)
    OBVIOUS
  <2>5. t = Demod(c, "inv", TRUE)
    <3>1. u.type # "none"
      BY <1>3 DEF IsR82xx
    <3>2. t = InvertedIf(u)
      BY <1>1, <1>3, <3>1 DEF PreparePath
    <3> QED
      BY <2>1, <2>2, <2>3, <2>4, <3>2 DEF InvertedIf, SetIfFreq
  <2>6. ASSUME NEW v, Rec(v)
        PROVE  \A field \in {"zif", "inv"} : \A on :
                 /\ Only({field}, v, Demod(v, field, on))
                 /\ Calm(v) => Demod(v, field, on)[field] = on
    <3>1. ASSUME NEW field \in {"zif", "inv"}, NEW on
          PROVE  /\ Only({field}, v, Demod(v, field, on))
                 /\ Calm(v) => Demod(v, field, on)[field] = on
      <4>1. field \in DemodFields
        BY DEF DemodFields
      <4> QED
        BY <2>6, <4>1, DemodDone
    <3> QED
      BY <3>1
  <2>7. Only({"zif"}, u, a)
    BY <1>2, <2>1, <2>6, Zenon
  <2>8. Rec(a)
    BY <2>7 DEF Only
  <2>9. Only({"adc"}, a, b)
    BY <2>2, <2>8, DemodDone DEF DemodFields
  <2>10. Rec(b)
    BY <2>9 DEF Only
  <2>11. Only({"ifr"}, b, c)
    BY <2>4, <2>10, DemodDone DEF DemodFields
  <2>12. Rec(c)
    BY <2>11 DEF Only
  <2>13. Only({"inv"}, c, t) /\ (Calm(c) => t.inv = TRUE)
    BY <2>5, <2>6, <2>12, Zenon
  <2> DEFINE W == {"zif", "adc", "ifr", "inv"}
  <2>14. Only(W, u, b)
    BY <2>7, <2>9, OnlyTwice
  <2>15. Only(W, u, c)
    BY <2>11, <2>14, OnlyTwice
  <2>16. Only(W, u, t)
    BY <2>13, <2>15, OnlyTwice
  <2>17. Only(Api, u, t)
    BY <2>16, OnlyMore DEF Api, StateFields
  <2>18. Rec(t) /\ t.ppm = u.ppm /\ t.corr = u.corr /\ t.turn = u.turn /\ t.deep = u.deep
         /\ c.fault = u.fault
    BY <2>15, <2>16 DEF Only, StateFields
  <2> QED
    BY <1>1, <1>3, <2>13, <2>16, <2>17, <2>18 DEF Still, Calm, HasTuner, IsR82xx
<1>4. CASE ~HasTuner(u)
  <2>1. t = SetDirectSampling(u, 1)
    <3>1. u.type = "none" /\ ~IsR82xx(u)
      BY <1>4 DEF HasTuner, IsR82xx
    <3> QED
      BY <1>1, <3>1 DEF PreparePath
  <2> QED
    BY <1>1, <1>4, <2>1, DirectCarries DEF Carries
<1>5. CASE HasTuner(u) /\ ~IsR82xx(u)
  <2>1. t = u
    BY <1>1, <1>5 DEF PreparePath, HasTuner
  <2>2. Only(Api, u, u) /\ Only({"zif", "adc", "ifr", "inv"}, u, u)
    BY <1>2 DEF Only
  <2> QED
    BY <1>1, <1>5, <2>1, <2>2
<1> QED
  BY <1>3, <1>4, <1>5

LEMMA OpenDone ==
    ASSUME NEW u, Still(u), u.ds = 0, u.freq = 0, ~u.blind
    PROVE  /\ Still(OpenDevice(u)) /\ OpenDevice(u).fault = u.fault
           /\ OpenDevice(u).dongle = u.dongle
           /\ Calm(u) /\ OpenDevice(u).rc = 0 => Sound(OpenDevice(u)) /\ ~OpenDevice(u).rep
<1>1. PICK a : a = Found(u)
  OBVIOUS
<1>2. PICK b : b = PreparePath(a)
  OBVIOUS
<1>3. PICK c : c = IF HasTuner(b) THEN TunerInit(b) ELSE Ok(b)
  OBVIOUS
<1>4. PICK d : d = Ok(c)
  OBVIOUS
<1>5. PICK e : e = Repeater(d, FALSE)
  OBVIOUS
<1>6. PICK t : t = OpenDevice(u)
  OBVIOUS
<1>7. t = IF c.rc < 0 THEN c ELSE e
  BY <1>1, <1>2, <1>3, <1>4, <1>5, <1>6 DEF OpenDevice, InitTuner, Then
<1>8. Only(Finding, u, a) /\ (Calm(u) => a.rep /\ a.zif = TRUE /\ a.blind = u.blind)
  BY <1>1, FoundDone DEF Still
<1>9. /\ Rec(a) /\ a.ppm = u.ppm /\ a.corr = u.corr /\ a.turn = u.turn /\ a.deep = u.deep
      /\ a.ds = u.ds /\ a.freq = u.freq /\ a.fault = u.fault /\ a.dongle = u.dongle
  BY <1>8 DEF Only, StateFields, Finding
<1>10. Still(a) /\ Calm(a) = Calm(u)
  BY <1>9 DEF Still, Calm
<1>11. /\ Only(Api, a, b) /\ Still(b)
       /\ HasTuner(a) => Only({"zif", "adc", "ifr", "inv"}, a, b)
       /\ Calm(a) /\ HasTuner(a) /\ a.zif = TRUE => b.zif = TRUE \/ b.inv = TRUE
       /\ ~HasTuner(a) /\ Calm(a) /\ Trim(a) => Sound(b)
  BY <1>2, <1>10, PathPrepared
<1>12. HasTuner(b) = HasTuner(a) /\ b.fault = a.fault /\ b.dongle = a.dongle
  BY <1>11, ApiStays
<1>13. /\ Still(c) /\ c.fault = u.fault /\ c.dongle = u.dongle
       /\ Calm(u) /\ ~(c.rc < 0) => Sound(c)
  <2>1. CASE ~HasTuner(a)
    <3>1. c = Ok(b)
      BY <1>3, <1>12, <2>1
    <3>2. Carries(b, c)
      BY <1>11, <3>1, ResultCarries DEF Still
    <3>3. c.fault = b.fault /\ c.dongle = b.dongle
      BY <3>2, ApiStays DEF Carries
    <3>4. Calm(u) => Trim(a)
      BY <1>8, <2>1 DEF Trim, Tame, HasTuner, IsR82xx
    <3> QED
      BY <1>9, <1>10, <1>11, <1>12, <2>1, <3>2, <3>3, <3>4 DEF Carries, Calm
  <2>2. CASE HasTuner(a)
    <3>1. c = TunerInit(b)
      BY <1>3, <1>12, <2>2
    <3>2. /\ Driven(b, c) /\ Rec(c)
          /\ Live(b) => c.chip["power"] = 1
          /\ Live(b) /\ ~(c.rc < 0) => Tame(c)
      BY <1>11, <1>12, <2>2, <3>1, TunerInits DEF Still
    <3>3. /\ c.ppm = b.ppm /\ c.corr = b.corr /\ c.turn = b.turn /\ c.deep = b.deep
          /\ c.fault = b.fault /\ c.zif = b.zif /\ c.inv = b.inv /\ c.ds = b.ds
          /\ c.freq = b.freq /\ c.dongle = b.dongle
      BY <3>2 DEF Driven, StateFields, DriverFields
    <3>4. b.rep = a.rep /\ b.blind = a.blind /\ b.ds = a.ds /\ b.freq = a.freq
      BY <1>11, <2>2 DEF Only, StateFields
    <3>5. Calm(u) => Live(b) /\ ~b.blind
      BY <1>8, <1>9, <1>12, <3>4 DEF Live, Calm
    <3>6. Calm(u) => ~c.blind
      BY <3>2, <3>5 DEF Driven, Live
    <3>7. Calm(u) => Path(c, 0)
      BY <1>8, <1>10, <1>11, <2>2, <3>2, <3>3, <3>5 DEF Path
    <3>8. Calm(u) /\ ~(c.rc < 0) => Sound(c)
      BY <1>9, <3>2, <3>3, <3>4, <3>5, <3>6, <3>7 DEF Sound, Steady, Trim
    <3> QED
      BY <1>9, <1>11, <1>12, <3>2, <3>3, <3>8 DEF Still
  <2> QED
    BY <2>1, <2>2
<1>14. Carries(c, d)
  BY <1>4, <1>13, ResultCarries DEF Still
<1>15. /\ Still(d) /\ d.fault = c.fault /\ Calm(c) = Calm(u) /\ Calm(d) = Calm(u)
       /\ d.dongle = c.dongle
  BY <1>13, <1>14, ApiStays DEF Carries, Calm
<1>16. /\ Only(Api, d, e) /\ Still(e)
       /\ Calm(d) => e.rep = FALSE
       /\ Sound(d) => Sound(e)
  BY <1>5, <1>15, RepeaterStill
<1>17. e.fault = d.fault /\ e.dongle = d.dongle
  BY <1>16, ApiStays
<1> QED
  BY <1>6, <1>7, <1>13, <1>14, <1>15, <1>16, <1>17 DEF Carries

LEMMA CloseDone ==
    ASSUME NEW u, Still(u)
    PROVE  Still(CloseDevice(u)) /\ Only(Api, u, CloseDevice(u))
<1>1. PICK a : a = Asleep(u)
  OBVIOUS
<1>2. PICK b : b = Touch(a)
  OBVIOUS
<1>3. PICK t : t = Keep(a.rc, b)
  OBVIOUS
<1>4. CloseDevice(u) = t
  BY <1>1, <1>2, <1>3 DEF CloseDevice, SwitchOff
<1>5. Only(Tuned, u, a)
  BY <1>1, ExitBracketed DEF Still
<1>6. Rec(a)
  BY <1>5 DEF Only
<1>7. Only({}, a, b)
  BY <1>2, <1>6, TouchDone
<1>8. Rec(b)
  BY <1>7 DEF Only
<1>9. Only({}, b, t)
  BY <1>3, <1>6, <1>8, ResultOnly
<1>10. Only({}, a, t)
  BY <1>7, <1>9, OnlyTwice
<1>11. Only(Tuned, u, t)
  BY <1>5, <1>10, OnlyTwice
<1>12. Only(Api, u, t)
  BY <1>11, TunedApi, OnlyMore
<1>13. Rec(t) /\ t.ppm = u.ppm /\ t.corr = u.corr /\ t.turn = u.turn /\ t.deep = u.deep
  BY <1>11 DEF Only, StateFields, Tuned, DriverFields
<1> QED
  BY <1>4, <1>12, <1>13 DEF Still

-----------------------------------------------------------------------------
(* The calls.                                                              *)

(* The inductive invariant.  Between calls nothing is under way, and the   *)
(* drivers' clock is the corrected one.  An application that has seen no   *)
(* error has a sound driver and the repeater off.                          *)
ControlInv ==
    /\ Still(s) /\ s.fault = NoFault
    /\ Healthy => Sound(s) /\ ~s.rep
    /\ UnplugTold

LEMMA SettledDone ==
    ASSUME NEW t, Still(t)
    PROVE  /\ Still(Settled(t)) /\ Settled(t).fault = NoFault
           /\ Settled(t).type = t.type /\ Settled(t).rep = t.rep
           /\ Only({"fault", "blind"}, t, Settled(t))
           /\ Sound(t) => Sound(Settled(t))
<1>1. PICK b : b = (t.blind /\ t.fault = NoFault)
  OBVIOUS
<1>2. PICK r : r = Settled(t)
  OBVIOUS
<1>3. r = [t EXCEPT !.n = 0, !.fault = NoFault, !.rc = 0, !.blind = b]
  BY <1>1, <1>2 DEF Settled
<1>4. DOMAIN t = StateFields
  BY DEF Still, Rec
<1>5. /\ DOMAIN r = StateFields /\ r.n = 0 /\ r.fault = NoFault /\ r.rc = 0 /\ r.blind = b
      /\ \A f \in StateFields \ {"n", "fault", "rc", "blind"} : r[f] = t[f]
  BY <1>3, <1>4 DEF StateFields
<1>6. /\ r.chip = t.chip /\ r.shadow = t.shadow /\ r.type = t.type /\ r.rep = t.rep
      /\ r.ppm = t.ppm /\ r.corr = t.corr /\ r.turn = t.turn /\ r.deep = t.deep
      /\ r.ready = t.ready /\ r.zif = t.zif /\ r.inv = t.inv /\ r.swap = t.swap
      /\ r.ds = t.ds /\ r.freq = t.freq /\ r.ifr = t.ifr
  BY <1>5 DEF StateFields
<1>7. Rec(r)
  BY <1>5, <1>6 DEF Still, Rec
<1>8. Still(r)
  BY <1>6, <1>7 DEF Still
<1>9. Tame(t) => Tame(r)
  BY <1>6 DEF Tame, IsR82xx, Agree, HasTuner, Sleepy
<1>10. ~t.blind => ~r.blind
  BY <1>1, <1>5
<1>11. Path(t, t.ds) => Path(r, r.ds)
  BY <1>6 DEF Path, HasTuner, Sleepy, IsR82xx
<1>12. Right(t) => Right(r)
  BY <1>6 DEF Right
<1>13. Sound(t) => Sound(r)
  BY <1>6, <1>9, <1>10, <1>11, <1>12 DEF Sound, Steady, Trim
<1>14. Only({"fault", "blind"}, t, r)
  BY <1>5, <1>7 DEF Only
<1> QED
  BY <1>2, <1>5, <1>6, <1>8, <1>13, <1>14

LEMMA LeaveKeeps ==
    ASSUME NEW t, Still(t), NEW op, Leave(op, t),
           /\ t.fault = NoFault /\ (clean \/ op = "open")
           /\ op # "close" /\ (op = "open" => t.rc = 0)
           => Sound(t) /\ ~t.rep,
           lost /\ IsR82xx(t) /\ op \notin {"close", "gain_mode"} => t.rc # 0,
           lost /\ IsFc001x(t) /\ op \notin {"close", "gain_mode", "width"} => t.rc # 0
    PROVE  ControlInv'
<1>1. PICK r : r = Settled(t)
  OBVIOUS
<1>2. s' = r
  BY <1>1 DEF Leave
<1>3. /\ Still(r) /\ r.fault = NoFault /\ r.type = t.type /\ r.rep = t.rep
      /\ Sound(t) => Sound(r)
  BY <1>1, SettledDone
<1>4. open' /\ clean' => Sound(r) /\ ~r.rep
  BY <1>3 DEF Leave
<1>5. IsR82xx(r) = IsR82xx(t) /\ IsFc001x(r) = IsFc001x(t)
  BY <1>3 DEF IsR82xx, IsFc001x
<1>6. /\ IsR82xx(r) /\ ret'.op \notin {"none", "close", "gain_mode"} => ~ret'.ok
      /\ IsFc001x(r) /\ ret'.op \notin {"none", "close", "gain_mode", "width"} => ~ret'.ok
  <2>1. CASE lost
    <3>1. ret' = [op |-> op, ok |-> t.rc = 0]
      BY <2>1 DEF Leave, Told
    <3>2. ret'.op = op /\ (t.rc # 0 => ~ret'.ok)
      BY <3>1
    <3> QED
      BY <1>5, <2>1, <3>2
  <2>2. CASE ~lost
    <3>1. ret'.op = "none"
      BY <2>2 DEF Leave, Told, NoResult
    <3> QED
      BY <3>1
  <2> QED
    BY <2>1, <2>2
<1> QED
  BY <1>2, <1>3, <1>4, <1>6 DEF ControlInv, Healthy, UnplugTold

LEMMA FaultSet ==
    ASSUME NEW u, Still(u), NEW fault
    PROVE  /\ Still([u EXCEPT !.fault = fault]) /\ [u EXCEPT !.fault = fault].fault = fault
           /\ [u EXCEPT !.fault = fault].type = u.type /\ [u EXCEPT !.fault = fault].rep = u.rep
           /\ [u EXCEPT !.fault = fault].ds = u.ds /\ [u EXCEPT !.fault = fault].freq = u.freq
           /\ [u EXCEPT !.fault = fault].blind = u.blind
           /\ Only({"fault"}, u, [u EXCEPT !.fault = fault])
           /\ Sound(u) => Sound([u EXCEPT !.fault = fault])
<1>1. PICK r : r = [u EXCEPT !.fault = fault]
  OBVIOUS
<1>2. DOMAIN u = StateFields
  BY DEF Still, Rec
<1>3. DOMAIN r = StateFields /\ r.fault = fault /\ \A f \in StateFields \ {"fault"} : r[f] = u[f]
  BY <1>1, <1>2 DEF StateFields
<1>4. /\ r.chip = u.chip /\ r.shadow = u.shadow /\ r.type = u.type /\ r.rep = u.rep
      /\ r.ppm = u.ppm /\ r.corr = u.corr /\ r.turn = u.turn /\ r.deep = u.deep
      /\ r.ready = u.ready /\ r.zif = u.zif /\ r.inv = u.inv /\ r.swap = u.swap
      /\ r.ds = u.ds /\ r.freq = u.freq /\ r.ifr = u.ifr /\ r.n = u.n /\ r.rc = u.rc
      /\ r.blind = u.blind
  BY <1>3 DEF StateFields
<1>5. Rec(r)
  BY <1>3, <1>4 DEF Still, Rec
<1>6. Only({"fault"}, u, r)
  BY <1>3, <1>5 DEF Only
<1>7. Sound(u) => Sound(r)
  BY <1>6, SoundStays
<1> QED
  BY <1>1, <1>3, <1>4, <1>5, <1>6, <1>7 DEF Still

LEMMA CallKeeps ==
    ASSUME ControlInv, open, NEW op, op \notin {"open", "close"}, NEW fault \in Outcomes,
           NEW u, u = [s EXCEPT !.fault = fault], NEW t, Carries(u, t), Leave(op, t),
           Dead(u) /\ IsR82xx(u) /\ op # "gain_mode" => t.rc # 0,
           Dead(u) /\ IsFc001x(u) /\ op \notin {"gain_mode", "width"} => t.rc # 0
    PROVE  ControlInv'
<1>1. /\ Still(u) /\ u.fault = fault /\ u.type = s.type /\ u.rep = s.rep
      /\ Sound(s) => Sound(u)
  BY FaultSet DEF ControlInv
<1>2. Still(t) /\ t.fault = u.fault /\ t.type = u.type
  BY ApiStays DEF Carries
<1>3. lost => Dead(u)
  BY <1>1 DEF Outcomes, Dead
<1>4. t.fault = NoFault /\ clean => Sound(t) /\ ~t.rep
  BY <1>1, <1>2 DEF ControlInv, Healthy, Carries, Calm
<1>5. IsR82xx(t) = IsR82xx(u) /\ IsFc001x(t) = IsFc001x(u)
  BY <1>2 DEF IsR82xx, IsFc001x
<1> QED
  BY <1>2, <1>3, <1>4, <1>5, LeaveKeeps

LEMMA Fresh ==
    ASSUME NEW u, Rec(u), ~u.turn, ~u.deep
    PROVE  /\ Still(Over(Zeroed, u)) /\ Over(Zeroed, u).ds = 0 /\ Over(Zeroed, u).freq = 0
           /\ ~Over(Zeroed, u).blind
           /\ Over(Zeroed, u).rate = 0 /\ Over(Zeroed, u).bw = 0 /\ Over(Zeroed, u).offs = 0
           /\ Over(Zeroed, u).type = "none" /\ Over(Zeroed, u).dongle = u.dongle
<1>1. PICK r : r = Over(Zeroed, u)
  OBVIOUS
<1>2. PICK z : z = Zeroed
  OBVIOUS
<1>3. DOMAIN z = {"type", "v4", "v4l", "xtal", "freq", "rate", "bw", "gain", "corr", "offs", "ds",
                  "mode", "ppm", "intf", "ready", "input", "lock", "shadow", "blind"}
  BY <1>2 DEF Zeroed
<1>4. /\ z.type = "none" /\ z.shadow = Blank /\ z.corr = 0 /\ z.ppm = 0 /\ z.ds = 0 /\ z.freq = 0
      /\ z.blind = FALSE /\ z.rate = 0 /\ z.bw = 0 /\ z.offs = 0
  BY <1>2 DEF Zeroed
<1>5. DOMAIN u = StateFields
  BY DEF Rec
<1>6. /\ DOMAIN r = StateFields
      /\ \A f \in StateFields : r[f] = IF f \in DOMAIN z THEN z[f] ELSE u[f]
  BY <1>1, <1>2, <1>3, <1>5 DEF Over, StateFields
<1>7. /\ r.type = z.type /\ r.shadow = z.shadow /\ r.corr = z.corr /\ r.ppm = z.ppm
      /\ r.ds = z.ds /\ r.freq = z.freq /\ r.blind = z.blind
      /\ r.chip = u.chip /\ r.n = u.n /\ r.rc = u.rc /\ r.turn = u.turn /\ r.deep = u.deep
      /\ r.rate = z.rate /\ r.bw = z.bw /\ r.offs = z.offs /\ r.dongle = u.dongle
  BY <1>3, <1>6 DEF StateFields
<1>8. DOMAIN Blank = Regs
  BY DEF Blank
<1>9. Rec(r)
  BY <1>4, <1>6, <1>7, <1>8 DEF Rec, Types
<1> QED
  BY <1>1, <1>4, <1>7, <1>9 DEF Still

LEMMA InitControl == Init => ControlInv
<1> SUFFICES ASSUME Init PROVE ControlInv
  OBVIOUS
<1>1. PICK p : p = Plugged(plan)
  OBVIOUS
<1>2. PICK r : r = Over(Zeroed, p)
  OBVIOUS
<1>3. s = r /\ open = FALSE /\ ret.op = "none"
  BY <1>1, <1>2 DEF Init, NoResult
<1>4. PICK z : z = Zeroed
  OBVIOUS
<1>5. DOMAIN z = {"type", "v4", "v4l", "xtal", "freq", "rate", "bw", "gain", "corr", "offs", "ds",
                  "mode", "ppm", "intf", "ready", "input", "lock", "shadow", "blind"}
  BY <1>4 DEF Zeroed
<1>6. z.type = "none" /\ z.shadow = Blank /\ z.corr = 0 /\ z.ppm = 0
  BY <1>4 DEF Zeroed
<1>7. DOMAIN p = {"dongle", "edge", "chip", "rep", "gpio5", "gpio6", "ifr", "zif", "inv", "adc",
                  "swap", "resamp", "sync", "n", "fault", "turn", "deep", "rc"}
  BY <1>1 DEF Plugged
<1>8. /\ p.chip = Blank /\ p.n = 0 /\ p.rc = 0 /\ p.turn = FALSE /\ p.deep = FALSE
      /\ p.fault = NoFault
  BY <1>1 DEF Plugged
<1>9. /\ DOMAIN r = StateFields
      /\ \A f \in StateFields : r[f] = IF f \in DOMAIN z THEN z[f] ELSE p[f]
  BY <1>2, <1>4, <1>5, <1>7 DEF Over, StateFields
<1>10. /\ r.type = z.type /\ r.shadow = z.shadow /\ r.corr = z.corr /\ r.ppm = z.ppm
       /\ r.chip = p.chip /\ r.n = p.n /\ r.rc = p.rc /\ r.turn = p.turn /\ r.deep = p.deep
       /\ r.fault = p.fault
  BY <1>5, <1>9 DEF StateFields
<1>11. DOMAIN Blank = Regs
  BY DEF Blank
<1>12. Rec(r)
  BY <1>6, <1>8, <1>9, <1>10, <1>11 DEF Rec, Types
<1>13. Still(r)
  BY <1>6, <1>8, <1>10, <1>12 DEF Still
<1>14. UnplugTold
  BY <1>3 DEF UnplugTold
<1> QED
  BY <1>3, <1>8, <1>10, <1>13, <1>14 DEF ControlInv, Healthy

(* One call, for each operation of the interface.                          *)
LEMMA StepCalls ==
    ASSUME ControlInv, open
    PROVE  /\ \A f : Call("freq", LAMBDA t : Tune(t, f)) => ControlInv'
           /\ \A r : Call("rate", LAMBDA t : SetSampleRate(t, r)) => ControlInv'
           /\ \A w : Call("width", LAMBDA t : SetTunerBandwidth(t, w)) => ControlInv'
           /\ \A g : Call("gain", LAMBDA t : SetTunerGain(t, g)) => ControlInv'
           /\ \A m : Call("gain_mode", LAMBDA t : SetTunerGainMode(t, m)) => ControlInv'
           /\ \A p : Call("correction", LAMBDA t : SetFreqCorrection(t, p)) => ControlInv'
           /\ \A on : Call("direct", LAMBDA t : SetDirectSampling(t, on)) => ControlInv'
           /\ \A on : Call("offset", LAMBDA t : SetOffsetTuning(t, on)) => ControlInv'
<1>0. ASSUME NEW fault PROVE Still([s EXCEPT !.fault = fault])
  BY FaultSet DEF ControlInv
<1>1. ASSUME NEW f, Call("freq", LAMBDA t : Tune(t, f)) PROVE ControlInv'
  <2>1. PICK fault \in Outcomes : Leave("freq", Tune([s EXCEPT !.fault = fault], f))
    BY <1>1 DEF Call, Run
  <2>2. PICK u : u = [s EXCEPT !.fault = fault]
    OBVIOUS
  <2>3. PICK t : t = Tune(u, f)
    OBVIOUS
  <2>4. Still(u)
    BY <1>0, <2>2
  <2>5. Carries(u, t) /\ (Dead(u) /\ Telling(u) => t.rc # 0)
    BY <2>3, <2>4, TuneCarries
  <2>6. Leave("freq", t)
    BY <2>1, <2>2, <2>3
  <2> QED
    BY <2>2, <2>5, <2>6, CallKeeps DEF Telling
<1>2. ASSUME NEW r, Call("rate", LAMBDA t : SetSampleRate(t, r)) PROVE ControlInv'
  <2>1. PICK fault \in Outcomes : Leave("rate", SetSampleRate([s EXCEPT !.fault = fault], r))
    BY <1>2 DEF Call, Run
  <2>2. PICK u : u = [s EXCEPT !.fault = fault]
    OBVIOUS
  <2>3. PICK t : t = SetSampleRate(u, r)
    OBVIOUS
  <2>4. Still(u)
    BY <1>0, <2>2
  <2>5. Carries(u, t) /\ (Dead(u) => t.rc # 0)
    BY <2>3, <2>4, RateCarries
  <2>6. Leave("rate", t)
    BY <2>1, <2>2, <2>3
  <2> QED
    BY <2>2, <2>5, <2>6, CallKeeps
<1>3. ASSUME NEW w, Call("width", LAMBDA t : SetTunerBandwidth(t, w)) PROVE ControlInv'
  <2>1. PICK fault \in Outcomes :
          Leave("width", SetTunerBandwidth([s EXCEPT !.fault = fault], w))
    BY <1>3 DEF Call, Run
  <2>2. PICK u : u = [s EXCEPT !.fault = fault]
    OBVIOUS
  <2>3. PICK t : t = SetTunerBandwidth(u, w)
    OBVIOUS
  <2>4. Still(u)
    BY <1>0, <2>2
  <2>5. Carries(u, t) /\ (Dead(u) /\ IsR82xx(u) => t.rc # 0)
    BY <2>3, <2>4, BandwidthCarries
  <2>6. Leave("width", t)
    BY <2>1, <2>2, <2>3
  <2> QED
    BY <2>2, <2>5, <2>6, CallKeeps
<1>4. ASSUME NEW g, Call("gain", LAMBDA t : SetTunerGain(t, g)) PROVE ControlInv'
  <2>1. PICK fault \in Outcomes : Leave("gain", SetTunerGain([s EXCEPT !.fault = fault], g))
    BY <1>4 DEF Call, Run
  <2>2. PICK u : u = [s EXCEPT !.fault = fault]
    OBVIOUS
  <2>3. PICK t : t = SetTunerGain(u, g)
    OBVIOUS
  <2>4. Still(u)
    BY <1>0, <2>2
  <2>5. Carries(u, t) /\ (Dead(u) /\ Telling(u) => t.rc # 0)
    BY <2>3, <2>4, GainCarries
  <2>6. Leave("gain", t)
    BY <2>1, <2>2, <2>3
  <2> QED
    BY <2>2, <2>5, <2>6, CallKeeps DEF Telling
<1>5. ASSUME NEW m, Call("gain_mode", LAMBDA t : SetTunerGainMode(t, m)) PROVE ControlInv'
  <2>1. PICK fault \in Outcomes :
          Leave("gain_mode", SetTunerGainMode([s EXCEPT !.fault = fault], m))
    BY <1>5 DEF Call, Run
  <2>2. PICK u : u = [s EXCEPT !.fault = fault]
    OBVIOUS
  <2>3. PICK t : t = SetTunerGainMode(u, m)
    OBVIOUS
  <2>4. Still(u)
    BY <1>0, <2>2
  <2>5. Carries(u, t)
    BY <2>3, <2>4, GainCarries
  <2>6. Leave("gain_mode", t)
    BY <2>1, <2>2, <2>3
  <2> QED
    BY <2>2, <2>5, <2>6, CallKeeps
<1>6. ASSUME NEW p, Call("correction", LAMBDA t : SetFreqCorrection(t, p)) PROVE ControlInv'
  <2>1. PICK fault \in Outcomes :
          Leave("correction", SetFreqCorrection([s EXCEPT !.fault = fault], p))
    BY <1>6 DEF Call, Run
  <2>2. PICK u : u = [s EXCEPT !.fault = fault]
    OBVIOUS
  <2>3. PICK t : t = SetFreqCorrection(u, p)
    OBVIOUS
  <2>4. Still(u)
    BY <1>0, <2>2
  <2>5. Carries(u, t) /\ (Dead(u) => t.rc # 0)
    BY <2>3, <2>4, CorrectionCarries
  <2>6. Leave("correction", t)
    BY <2>1, <2>2, <2>3
  <2> QED
    BY <2>2, <2>5, <2>6, CallKeeps
<1>7. ASSUME NEW on, Call("direct", LAMBDA t : SetDirectSampling(t, on)) PROVE ControlInv'
  <2>1. PICK fault \in Outcomes :
          Leave("direct", SetDirectSampling([s EXCEPT !.fault = fault], on))
    BY <1>7 DEF Call, Run
  <2>2. PICK u : u = [s EXCEPT !.fault = fault]
    OBVIOUS
  <2>3. PICK t : t = SetDirectSampling(u, on)
    OBVIOUS
  <2>4. Still(u)
    BY <1>0, <2>2
  <2>5. Carries(u, t) /\ (Dead(u) => t.rc # 0)
    BY <2>3, <2>4, DirectCarries
  <2>6. Leave("direct", t)
    BY <2>1, <2>2, <2>3
  <2> QED
    BY <2>2, <2>5, <2>6, CallKeeps
<1>8. ASSUME NEW on, Call("offset", LAMBDA t : SetOffsetTuning(t, on)) PROVE ControlInv'
  <2>1. PICK fault \in Outcomes : Leave("offset", SetOffsetTuning([s EXCEPT !.fault = fault], on))
    BY <1>8 DEF Call, Run
  <2>2. PICK u : u = [s EXCEPT !.fault = fault]
    OBVIOUS
  <2>3. PICK t : t = SetOffsetTuning(u, on)
    OBVIOUS
  <2>4. Still(u)
    BY <1>0, <2>2
  <2>5. Carries(u, t) /\ (Dead(u) => t.rc # 0)
    BY <2>3, <2>4, OffsetCarries
  <2>6. Leave("offset", t)
    BY <2>1, <2>2, <2>3
  <2> QED
    BY <2>2, <2>5, <2>6, CallKeeps
<1> QED
  BY <1>1, <1>2, <1>3, <1>4, <1>5, <1>6, <1>7, <1>8

LEMMA StepOpen == ControlInv /\ Open => ControlInv'
<1> SUFFICES ASSUME ControlInv, Open PROVE ControlInv'
  OBVIOUS
<1>1. ~lost /\ Rec(s) /\ ~s.turn /\ ~s.deep
  BY DEF Open, ControlInv, Still
<1>2. PICK b : b = Over(Zeroed, s)
  OBVIOUS
<1>3. Still(b) /\ b.ds = 0 /\ b.freq = 0 /\ ~b.blind
  BY <1>1, <1>2, Fresh
<1>4. PICK fault \in Outcomes : Leave("open", OpenDevice([b EXCEPT !.fault = fault]))
  BY <1>2 DEF Open, Run
<1>5. PICK u : u = [b EXCEPT !.fault = fault]
  OBVIOUS
<1>6. Still(u) /\ u.ds = 0 /\ u.freq = 0 /\ ~u.blind
  BY <1>3, <1>5, FaultSet
<1>7. PICK t : t = OpenDevice(u)
  OBVIOUS
<1>8. /\ Still(t) /\ t.fault = u.fault
      /\ Calm(u) /\ t.rc = 0 => Sound(t) /\ ~t.rep
  BY <1>6, <1>7, OpenDone
<1>9. t.fault = NoFault /\ t.rc = 0 => Sound(t) /\ ~t.rep
  BY <1>8 DEF Calm
<1>10. Leave("open", t)
  BY <1>4, <1>5, <1>7
<1> QED
  BY <1>1, <1>8, <1>9, <1>10, LeaveKeeps

LEMMA StepClose == ControlInv /\ (Close \/ CloseLost) => ControlInv'
<1>1. ASSUME ControlInv, Close PROVE ControlInv'
  <2>1. PICK fault \in Outcomes : Leave("close", CloseDevice([s EXCEPT !.fault = fault]))
    BY <1>1 DEF Close, Run
  <2>2. PICK u : u = [s EXCEPT !.fault = fault]
    OBVIOUS
  <2>3. Still(u)
    BY <1>1, <2>2, FaultSet DEF ControlInv
  <2>4. PICK t : t = CloseDevice(u)
    OBVIOUS
  <2>5. Still(t)
    BY <2>3, <2>4, CloseDone
  <2>6. Leave("close", t)
    BY <2>1, <2>2, <2>4
  <2> QED
    BY <2>5, <2>6, LeaveKeeps
<1>2. ASSUME ControlInv, CloseLost PROVE ControlInv'
  <2>1. s' = s /\ ~open' /\ ret'.op = "none"
    BY <1>2 DEF CloseLost, NoResult
  <2> QED
    BY <1>2, <2>1 DEF ControlInv, Healthy, UnplugTold
<1> QED
  BY <1>1, <1>2

LEMMA StepControl == ControlInv /\ [Next]_vars => ControlInv'
<1> SUFFICES ASSUME ControlInv, [Next]_vars PROVE ControlInv'
  OBVIOUS
<1>1. CASE Open
  BY <1>1, StepOpen
<1>2. CASE Close \/ CloseLost
  BY <1>2, StepClose
<1>3. CASE \E f \in plan.freqs : Call("freq", LAMBDA t : Tune(t, f))
  <2>1. open
    BY <1>3 DEF Call
  <2> QED
    BY <1>3, <2>1, StepCalls DEF Call, Run
<1>4. CASE \E r \in plan.rates : Call("rate", LAMBDA t : SetSampleRate(t, r))
  <2>1. open
    BY <1>4 DEF Call
  <2> QED
    BY <1>4, <2>1, StepCalls DEF Call, Run
<1>5. CASE \E w \in plan.widths : Call("width", LAMBDA t : SetTunerBandwidth(t, w))
  <2>1. open
    BY <1>5 DEF Call
  <2> QED
    BY <1>5, <2>1, StepCalls DEF Call, Run
<1>6. CASE \E g \in plan.gains : Call("gain", LAMBDA t : SetTunerGain(t, g))
  <2>1. open
    BY <1>6 DEF Call
  <2> QED
    BY <1>6, <2>1, StepCalls DEF Call, Run
<1>7. CASE \E m \in plan.modes : Call("gain_mode", LAMBDA t : SetTunerGainMode(t, m))
  <2>1. open
    BY <1>7 DEF Call
  <2> QED
    BY <1>7, <2>1, StepCalls DEF Call, Run
<1>8. CASE \E p \in plan.ppms : Call("correction", LAMBDA t : SetFreqCorrection(t, p))
  <2>1. open
    BY <1>8 DEF Call
  <2> QED
    BY <1>8, <2>1, StepCalls DEF Call, Run
<1>9. CASE \E on \in 0 .. 2 : Call("direct", LAMBDA t : SetDirectSampling(t, on))
  <2>1. open
    BY <1>9 DEF Call
  <2> QED
    BY <1>9, <2>1, StepCalls DEF Call, Run
<1>10. CASE \E on \in BOOLEAN : Call("offset", LAMBDA t : SetOffsetTuning(t, on))
  <2>1. open
    BY <1>10 DEF Call
  <2>2. PICK on \in BOOLEAN : Call("offset", LAMBDA t : SetOffsetTuning(t, on))
    BY <1>10
  <2> QED
    BY <2>1, <2>2, StepCalls DEF Call, Run
<1>11. CASE UNCHANGED vars
  BY <1>11 DEF vars, ControlInv, Healthy, UnplugTold, IsR82xx, IsFc001x
<1> QED
  BY <1>1, <1>2, <1>3, <1>4, <1>5, <1>6, <1>7, <1>8, <1>9, <1>10, <1>11 DEF Next

(* Between calls nothing is under way, the drivers compute with the        *)
(* corrected clock, and an application that has seen no error has a driver *)
(* that knows the hardware.                                                *)
THEOREM ControlInvariant == Spec => []ControlInv
<1>1. Init => ControlInv
  BY InitControl
<1>2. ControlInv /\ [Next]_vars => ControlInv'
  BY StepControl
<1> QED
  BY <1>1, <1>2, PTL DEF Spec

(* For every dongle, every list of settings and every transfer that fails, *)
(* rtlsdr_set_center_freq() and _rtlsdr_set_direct_sampling() call each    *)
(* other at most three tunings deep.                                       *)
THEOREM RecursionBoundedAlways == Spec => []RecursionBounded
<1>1. ControlInv => RecursionBounded
  BY DEF ControlInv, Still, RecursionBounded
<1> QED
  BY <1>1, ControlInvariant, PTL

(* While no transfer has failed, no driver has talked to its tuner with    *)
(* the I2C repeater off, and every call leaves the repeater off.           *)
THEOREM RepeaterDisciplineAlways == Spec => []RepeaterDiscipline
<1>1. ControlInv => RepeaterDiscipline
  BY DEF ControlInv, Sound, Steady, Trim, RepeaterDiscipline
<1> QED
  BY <1>1, ControlInvariant, PTL

(* While no transfer has failed, dev->direct_sampling is the path of the   *)
(* demodulator, the input sampled and whether the tuner is awake, after    *)
(* whatever calls in whatever order.                                       *)
THEOREM ModeAgreesAlways == Spec => []ModeAgrees
<1>1. ASSUME ControlInv, Healthy
      PROVE  /\ s.ds # 0 <=> DirectPath
             /\ s.ds # 0 => s.swap = (s.ds > 1)
             /\ HasTuner(s) => (s.ds = 0 \/ ~CanSleep <=> s.chip["power"] = 1)
  <2>1. Path(s, s.ds) /\ Tame(s)
    BY <1>1 DEF ControlInv, Sound, Steady, Trim
  <2>2. CanSleep = Sleepy(s)
    BY DEF CanSleep, Sleepy
  <2> QED
    BY <2>1, <2>2 DEF Path, Tame, DirectPath
<1>2. ControlInv => ModeAgrees
  BY <1>1 DEF ModeAgrees
<1> QED
  BY <1>2, ControlInvariant, PTL

(* While no transfer has failed, the frequency in use was computed with    *)
(* the crystal correction in force, though the correction may be set       *)
(* before, after or without a tuning, and the mode change in between.      *)
THEOREM CorrectionAppliedAlways == Spec => []CorrectionApplied
<1>1. ASSUME ControlInv, Healthy, s.freq # 0
      PROVE  IF s.ds # 0 THEN s.ifr.ppm = s.corr
             ELSE s.type # "FC2580" => s.chip["pll"].ppm = s.corr
  BY <1>1 DEF ControlInv, Sound, Right
<1>2. ControlInv => CorrectionApplied
  BY <1>1 DEF CorrectionApplied
<1> QED
  BY <1>2, ControlInvariant, PTL

(* With an R82xx, FC0012 or FC0013 no call begun after the dongle was      *)
(* pulled reports success, but for those that may find nothing to write.   *)
THEOREM UnplugToldAlways == Spec => []UnplugTold
<1>1. ControlInv => UnplugTold
  BY DEF ControlInv
<1> QED
  BY <1>1, ControlInvariant, PTL

-----------------------------------------------------------------------------
(* The band received.  The lemmas below follow the same calls once more,   *)
(* with no transfer failing, for what the LO, the IF, the offset and the   *)
(* input are worth together.                                               *)

(* The settings are within what the interface takes.                       *)
Sane(t) ==
    /\ t.freq \in Nat /\ t.bw \in Nat
    /\ t.rate \in Nat /\ t.rate <= 3200
    /\ t.offs \in Nat /\ t.offs <= 2720 /\ (IsR82xx(t) => t.offs = 0)

(* The IF of the demodulator is the one the tuner leaves: that of its      *)
(* filter, or the offset.                                                  *)
Plumb(t) ==
    IF IsR82xx(t) THEN /\ t.intf \in Int /\ 0 <= t.intf /\ t.intf <= 5000
                       /\ t.ifr.f = t.intf /\ InputAgrees(t)
    ELSE t.ifr.f = t.offs

Level(t) == t.ds = 0 /\ HasTuner(t) => Plumb(t)

(* The input or the band filter is the one for v.                          *)
Passes(t, v) ==
    /\ t.dongle = "FC0012" => (t.gpio6 <=> v > 300000)
    /\ t.dongle = "FC0013" => (t.chip["input"] = 1 <=> v >= 300000)
    /\ t.dongle = "FC2580" => t.chip["input"] = BandOf(v)
    /\ t.dongle \in {"V4", "V4L"} => (t.chip["input"] = HF /\ ~t.gpio5 <=> v < 28800)

(* The LO is the one for v.                                                *)
TunedTo(t, v) ==
    /\ t.chip["pll"].out = IF IsR82xx(t) THEN LoFor(t, v) ELSE v
    /\ Passes(t, v)

(* InRange(f), of any state.                                               *)
Reach(t, f) ==
    /\ t.dongle \in {"R820T", "R828D"} => 28000 <= f /\ f <= 1700000
    /\ t.dongle \in {"V4", "V4L"} => 1 <= f /\ f <= 1700000 /\ f # 28800
    /\ t.dongle = "FC0012" => 14000 <= f /\ f <= 948000
    /\ t.dongle \notin {"R820T", "R828D", "V4", "V4L", "FC0012"} => 64000 <= f /\ f <= 1700000

(* An offset takes the LO below that, still within its synthesiser.        *)
Tunable(t, v) ==
    /\ t.dongle \in {"R820T", "R828D"} => 28000 <= v /\ v <= 1700000
    /\ t.dongle \in {"V4", "V4L"} => 1 <= v /\ v <= 1700000 /\ v # 28800
    /\ t.dongle = "FC0012" => 11000 <= v /\ v <= 948000
    /\ t.dongle \notin {"R820T", "R828D", "V4", "V4L", "FC0012"} => 11000 <= v /\ v <= 1700000

(* The band received is the one around f.                                  *)
Centre(t, f) ==
    IF t.ds # 0 THEN t.ifr.f = f % RtlXtal
    ELSE HasTuner(t) /\ (Reach(t, f) => TunedTo(t, f - t.offs))

Aligned(t) ==
    /\ Level(t)
    /\ t.freq # 0 => Centre(t, t.freq)
    /\ t.offs # 0 => t.ds = 0

Fit(t) == Known(t) /\ Sane(t) /\ Aligned(t)

(* What decides on the band received does not change; nor do the settings. *)
Banding == {"dongle", "type", "v4", "v4l", "xtal", "offs", "ds", "ifr", "intf", "gpio5", "gpio6"}

Holds(u, t) ==
    /\ \A f \in Banding : t[f] = u[f]
    /\ t.chip["pll"] = u.chip["pll"] /\ t.chip["input"] = u.chip["input"]
    /\ IsR82xx(u) => t.input = u.input

Hears(u, t) == Holds(u, t) /\ t.freq = u.freq /\ t.rate = u.rate /\ t.bw = u.bw

LEMMA KnownStays ==
    ASSUME NEW u, NEW t, t.dongle = u.dongle, t.type = u.type, t.v4 = u.v4,
           t.v4l = u.v4l, t.xtal = u.xtal
    PROVE  Known(u) => Known(t)
  BY DEF Known

LEMMA HoldsFields ==
    ASSUME NEW u, NEW t, Holds(u, t)
    PROVE  /\ t.dongle = u.dongle /\ t.type = u.type /\ t.v4 = u.v4 /\ t.v4l = u.v4l
           /\ t.xtal = u.xtal /\ t.offs = u.offs /\ t.ds = u.ds /\ t.ifr = u.ifr
           /\ t.intf = u.intf /\ t.gpio5 = u.gpio5 /\ t.gpio6 = u.gpio6
           /\ IsR82xx(t) = IsR82xx(u) /\ HasTuner(t) = HasTuner(u)
<1>1. /\ t.dongle = u.dongle /\ t.type = u.type /\ t.v4 = u.v4 /\ t.v4l = u.v4l
      /\ t.xtal = u.xtal /\ t.offs = u.offs /\ t.ds = u.ds /\ t.ifr = u.ifr
      /\ t.intf = u.intf /\ t.gpio5 = u.gpio5 /\ t.gpio6 = u.gpio6
  BY DEF Holds, Banding
<1> QED
  BY <1>1, TellingStays

LEMMA HoldsTwice ==
    ASSUME NEW r, NEW u, NEW t, Holds(r, u), Holds(u, t)
    PROVE  Holds(r, t)
<1>1. IsR82xx(u) = IsR82xx(r)
  BY HoldsFields
<1> QED
  BY <1>1 DEF Holds

LEMMA HearsTwice ==
    ASSUME NEW r, NEW u, NEW t, Hears(r, u), Hears(u, t)
    PROVE  Hears(r, t)
  BY HoldsTwice DEF Hears

LEMMA HoldsOnly ==
    ASSUME NEW W, W \cap (Banding \cup {"chip", "input"}) = {}, NEW u, NEW t, Only(W, u, t)
    PROVE  Holds(u, t)
<1>1. \A f \in Banding \cup {"chip", "input"} : t[f] = u[f]
  BY DEF Only, StateFields, Banding
<1> QED
  BY <1>1 DEF Holds

LEMMA HearsOnly ==
    ASSUME NEW W, W \cap (Banding \cup {"chip", "input", "freq", "rate", "bw"}) = {},
           NEW u, NEW t, Only(W, u, t)
    PROVE  Hears(u, t)
<1>1. t.freq = u.freq /\ t.rate = u.rate /\ t.bw = u.bw
  BY DEF Only, StateFields
<1> QED
  BY <1>1, HoldsOnly DEF Hears

LEMMA HoldsFit ==
    ASSUME NEW u, NEW t, Holds(u, t)
    PROVE  /\ Known(u) => Known(t)
           /\ Level(u) => Level(t)
           /\ \A f : Centre(u, f) => Centre(t, f)
<1>1. /\ t.dongle = u.dongle /\ t.type = u.type /\ t.v4 = u.v4 /\ t.v4l = u.v4l
      /\ t.xtal = u.xtal /\ t.offs = u.offs /\ t.ds = u.ds /\ t.ifr = u.ifr
      /\ t.intf = u.intf /\ t.gpio5 = u.gpio5 /\ t.gpio6 = u.gpio6
      /\ IsR82xx(t) = IsR82xx(u) /\ HasTuner(t) = HasTuner(u)
  BY HoldsFields
<1>2. t.chip["pll"] = u.chip["pll"] /\ t.chip["input"] = u.chip["input"]
      /\ (IsR82xx(u) => t.input = u.input)
  BY DEF Holds
<1>3. Known(u) => Known(t)
  BY <1>1, KnownStays
<1>4. IsR82xx(u) /\ InputAgrees(u) => InputAgrees(t)
  BY <1>1, <1>2 DEF InputAgrees
<1>5. Level(u) => Level(t)
  BY <1>1, <1>4 DEF Level, Plumb
<1>6. ASSUME NEW v, TunedTo(u, v) PROVE TunedTo(t, v)
  <2>1. LoFor(t, v) = LoFor(u, v)
    BY <1>1 DEF LoFor, UpconvertFreq
  <2>2. Passes(t, v)
    BY <1>1, <1>2, <1>6 DEF Passes, TunedTo
  <2> QED
    BY <1>1, <1>2, <1>6, <2>1, <2>2 DEF TunedTo
<1>7. ASSUME NEW f, Centre(u, f) PROVE Centre(t, f)
  <2>1. Reach(t, f) = Reach(u, f)
    BY <1>1 DEF Reach
  <2> QED
    BY <1>1, <1>6, <1>7, <2>1 DEF Centre
<1> QED
  BY <1>3, <1>5, <1>7

LEMMA HearsFit ==
    ASSUME NEW u, NEW t, Hears(u, t)
    PROVE  /\ Known(u) => Known(t)
           /\ Sane(u) => Sane(t)
           /\ Level(u) => Level(t)
           /\ \A f : Centre(u, f) => Centre(t, f)
           /\ Fit(u) => Fit(t)
<1>1. /\ t.freq = u.freq /\ t.rate = u.rate /\ t.bw = u.bw /\ t.offs = u.offs /\ t.ds = u.ds
      /\ t.type = u.type
  BY HoldsFields DEF Hears
<1>2. /\ Known(u) => Known(t)
      /\ Level(u) => Level(t)
      /\ \A f : Centre(u, f) => Centre(t, f)
  BY HoldsFit DEF Hears
<1>3. Sane(u) => Sane(t)
  BY <1>1 DEF Sane, IsR82xx
<1>4. Fit(u) => Fit(t)
  BY <1>1, <1>2, <1>3 DEF Fit, Aligned
<1> QED
  BY <1>2, <1>3, <1>4

(* The tuners.                                                             *)
LEMMA ChipKept ==
    ASSUME NEW R, NEW u, NEW t, Steers(R, u, t)
    PROVE  /\ t.dongle = u.dongle /\ t.type = u.type /\ t.v4 = u.v4 /\ t.v4l = u.v4l
           /\ t.xtal = u.xtal /\ t.offs = u.offs /\ t.ds = u.ds /\ t.freq = u.freq
           /\ t.rate = u.rate /\ t.bw = u.bw /\ t.ifr = u.ifr
  BY DEF Steers, Driven, StateFields, DriverFields

(* A driver's function that does not tune.                                 *)
LEMMA SteersHears ==
    ASSUME NEW R, "pll" \notin R, "intf" \notin R, "gpio5" \notin R, "gpio6" \notin R,
           NEW u, NEW t, Steers(R, u, t), t.chip["input"] = u.chip["input"],
           IsR82xx(u) => "input" \notin R
    PROVE  Hears(u, t)
<1>1. t.chip["pll"] = u.chip["pll"]
  BY DEF Steers, Regs
<1>2. t.intf = u.intf /\ t.gpio5 = u.gpio5 /\ t.gpio6 = u.gpio6 /\ (IsR82xx(u) => t.input = u.input)
  BY DEF Steers, Marks
<1>3. \A f \in Banding : t[f] = u[f]
  BY <1>2, ChipKept DEF Banding
<1>4. Holds(u, t)
  BY <1>1, <1>2, <1>3 DEF Holds
<1> QED
  BY <1>4, ChipKept DEF Hears

LEMMA GainHears ==
    ASSUME NEW u, Rec(u), HasTuner(u), Live(u), NEW v
    PROVE  Hears(u, TunerGain(u, v)) /\ Hears(u, TunerGainMode(u, v))
<1>1. ASSUME NEW R \in SUBSET {"agc", "vga", "gain", "filt", "auto"}, NEW t, Steers(R, u, t)
      PROVE  Hears(u, t)
  <2>1. t.chip["input"] = u.chip["input"]
    BY <1>1 DEF Steers, Regs
  <2> QED
    BY <1>1, <2>1, SteersHears
<1>2. Hears(u, Ok(u))
  BY <1>1, Opened
<1>3. CASE IsR82xx(u)
  <2>1. PICK g : g = R82xxSetGain(u, TRUE, v)
    OBVIOUS
  <2>2. PICK m : m = R82xxSetGain(u, v, 0)
    OBVIOUS
  <2>3. TunerGain(u, v) = g /\ TunerGainMode(u, v) = m
    BY <1>3, <2>1, <2>2 DEF TunerGain, TunerGainMode, IsR82xx
  <2>4. Steers({"agc", "vga", "gain"}, u, g) /\ Steers({"agc", "vga", "gain"}, u, m)
    BY <2>1, <2>2, R82xxSet DEF Mirrors
  <2> QED
    BY <1>1, <2>3, <2>4
<1>4. CASE u.type = "E4000"
  <2>1. TunerGain(u, v) = E4kSetGain(u, v) /\ TunerGainMode(u, v) = E4kSetGainMode(u, v)
    BY <1>4 DEF TunerGain, TunerGainMode, IsR82xx
  <2> QED
    BY <1>1, <2>1, E4kSet
<1>5. CASE u.type = "FC0012"
  <2>1. TunerGain(u, v) = Fc0012SetGain(u, v) /\ TunerGainMode(u, v) = Ok(u)
    BY <1>5 DEF TunerGain, TunerGainMode, IsR82xx
  <2> QED
    BY <1>1, <1>2, <2>1, Fc0012Set
<1>6. CASE u.type = "FC0013"
  <2>1. PICK g : g = Fc0013SetGain(u, v)
    OBVIOUS
  <2>2. TunerGain(u, v) = g /\ TunerGainMode(u, v) = Fc0013SetGainMode(u, v) /\ ~IsR82xx(u)
    BY <1>6, <2>1 DEF TunerGain, TunerGainMode, IsR82xx
  <2>3. Steers({"gain", "input"}, u, g) /\ g.chip["input"] = u.chip["input"]
    BY <2>1, Fc0013Set
  <2>4. Hears(u, g)
    BY <2>2, <2>3, SteersHears
  <2> QED
    BY <1>1, <2>2, <2>4, Fc0013Set
<1>7. CASE u.type = "FC2580"
  <2>1. TunerGain(u, v) = Ok(u) /\ TunerGainMode(u, v) = Ok(u)
    BY <1>7 DEF TunerGain, TunerGainMode, IsR82xx
  <2> QED
    BY <1>2, <2>1
<1> QED
  BY <1>3, <1>4, <1>5, <1>6, <1>7 DEF Rec, Types, HasTuner, IsR82xx

(* The dongle is the tuner's.                                              *)
LEMMA KnownType ==
    ASSUME NEW u, Known(u)
    PROVE  /\ IsR82xx(u) <=> u.dongle \in {"R820T", "R828D", "V4", "V4L"}
           /\ ~IsR82xx(u) => u.type = u.dongle
           /\ u.v4 = (u.dongle = "V4") /\ u.v4l = (u.dongle = "V4L")
  BY DEF Known, Kinds, TypeOf, IsR82xx

LEMMA OffsetTunable ==
    ASSUME NEW u, Known(u), Sane(u), NEW f \in Nat, Reach(u, f)
    PROVE  Tunable(u, f - u.offs)
<1>1. u.offs \in Int /\ 0 <= u.offs /\ u.offs <= 2720
  BY DEF Sane
<1>2. CASE IsR82xx(u)
  <2>1. u.offs = 0 /\ u.dongle \in {"R820T", "R828D", "V4", "V4L"}
    BY <1>2, KnownType DEF Sane
  <2>2. f - u.offs = f
    BY <2>1
  <2> QED
    BY <2>1, <2>2 DEF Reach, Tunable
<1>3. CASE ~IsR82xx(u)
  <2>1. u.dongle \notin {"R820T", "R828D", "V4", "V4L"}
    BY <1>3, KnownType
  <2> QED
    BY <1>1, <2>1 DEF Reach, Tunable
<1> QED
  BY <1>2, <1>3

LEMMA R82xxTunes ==
    ASSUME NEW u, Rec(u), Live(u), Agree(u), Known(u), IsR82xx(u), Plumb(u), NEW v \in Int
    PROVE  /\ R82xxSetFreq(u, v).intf = u.intf /\ InputAgrees(R82xxSetFreq(u, v))
           /\ R82xxSetFreq(u, v).rc = 0 /\ Tunable(u, v) => TunedTo(R82xxSetFreq(u, v), v)
<1>1. PICK x : x = R82xxSetFreq(u, v)
  OBVIOUS
<1>2. PICK lo : lo = LoFor(u, v)
  OBVIOUS
<1>3. u.intf \in Int /\ 0 <= u.intf /\ u.intf <= 5000 /\ InputAgrees(u)
  BY DEF Plumb
<1>4. /\ Mirrors({"mux", "auto", "pll", "lock", "input", "gpio5"}, u, x)
      /\ x.rc = 0 => x.chip["pll"] = PllValue(u, lo)
      /\ InputAgrees(x)
      /\ Locks(u, lo) /\ (u.v4 \/ u.v4l) /\ x.rc = 0 => x.input = Band(u, v)
  BY <1>1, <1>2, <1>3, R82xxTuned
<1>5. x.intf = u.intf /\ x.dongle = u.dongle /\ x.type = u.type /\ x.v4 = u.v4 /\ x.v4l = u.v4l
  <2>1. x.intf = u.intf
    BY <1>4 DEF Mirrors, Steers, Marks
  <2> QED
    BY <1>4, <2>1, Same DEF Mirrors
<1>6. ASSUME x.rc = 0, Tunable(u, v) PROVE TunedTo(x, v)
  <2>1. /\ u.dongle \in {"R820T", "R828D", "V4", "V4L"}
        /\ u.v4 = (u.dongle = "V4") /\ u.v4l = (u.dongle = "V4L")
    BY KnownType
  <2>2. lo \in Int /\ 27657 <= lo /\ lo <= 1769999
    <3>1. PICK w : w = UpconvertFreq(u, v)
      OBVIOUS
    <3>2. w \in Int /\ 28000 <= w /\ w <= 1700000
      <4>1. CASE (u.v4 \/ u.v4l) /\ v < 28800
        <5>1. w = v + 28800
          BY <3>1, <4>1 DEF UpconvertFreq
        <5>2. 1 <= v
          BY <1>6, <2>1, <4>1 DEF Tunable
        <5> QED
          BY <4>1, <5>1, <5>2
      <4>2. CASE ~((u.v4 \/ u.v4l) /\ v < 28800)
        <5>1. w = v
          BY <3>1, <4>2 DEF UpconvertFreq
        <5>2. CASE u.dongle \in {"V4", "V4L"}
          <6>1. u.v4 \/ u.v4l
            BY <2>1, <5>2
          <6>2. ~(v < 28800) /\ v <= 1700000
            BY <1>6, <4>2, <5>2, <6>1 DEF Tunable
          <6> QED
            BY <5>1, <6>2
        <5>3. CASE u.dongle \in {"R820T", "R828D"}
          <6>1. 28000 <= v /\ v <= 1700000
            BY <1>6, <5>3 DEF Tunable
          <6> QED
            BY <5>1, <6>1
        <5> QED
          BY <2>1, <5>2, <5>3
      <4> QED
        BY <4>1, <4>2
    <3>3. lo = w + u.intf
      BY <1>2, <3>1 DEF LoFor
    <3> QED
      BY <1>3, <3>2, <3>3
  <2>3. Locks(u, lo) /\ PllValue(u, lo).out = lo
    BY <2>2, Synthesiser
  <2>4. x.chip["pll"].out = lo
    BY <1>4, <1>6, <2>3
  <2>5. LoFor(x, v) = lo /\ IsR82xx(x)
    BY <1>2, <1>5 DEF LoFor, UpconvertFreq, IsR82xx
  <2>6. ASSUME x.dongle \in {"V4", "V4L"} PROVE x.chip["input"] = HF /\ ~x.gpio5 <=> v < 28800
    <3>1. u.v4 \/ u.v4l
      BY <1>5, <2>1, <2>6
    <3>2. PICK b : b = Band(u, v)
      OBVIOUS
    <3>3. x.input = b
      BY <1>4, <1>6, <2>3, <3>1, <3>2
    <3>4. b \in {1, 2, 3} /\ (b = HF <=> v <= 28800) /\ v # 28800
      BY <1>5, <1>6, <2>6, <3>2 DEF Band, BandOfV4, BandOfV4L, HF, VHF, UHF, Tunable
    <3>5. x.chip["input"] = b /\ x.gpio5 = (b # HF)
      BY <1>4, <1>5, <3>1, <3>3, <3>4 DEF InputAgrees
    <3>6. CASE b = HF
      <4>1. v < 28800
        BY <3>4, <3>6
      <4>2. ~x.gpio5 /\ x.chip["input"] = HF
        BY <3>5, <3>6
      <4> QED
        BY <4>1, <4>2
    <3>7. CASE b # HF
      <4>1. ~(v < 28800)
        BY <3>4, <3>7
      <4>2. x.chip["input"] # HF
        BY <3>5, <3>7
      <4> QED
        BY <4>1, <4>2
    <3> QED
      BY <3>6, <3>7
  <2>7. Passes(x, v)
    BY <1>5, <2>1, <2>6 DEF Passes
  <2> QED
    BY <2>4, <2>5, <2>7 DEF TunedTo
<1> QED
  BY <1>1, <1>4, <1>5, <1>6

LEMMA OthersTune ==
    ASSUME NEW u, Rec(u), Live(u), Known(u), HasTuner(u), ~IsR82xx(u), NEW v \in Int,
           Tunable(u, v), TunerSetFreq(u, v).rc = 0
    PROVE  TunedTo(TunerSetFreq(u, v), v)
<1>1. PICK x : x = TunerSetFreq(u, v)
  OBVIOUS
<1>2. u.type = u.dongle /\ u.dongle \in {"E4000", "FC0012", "FC0013", "FC2580"}
  <2>1. u.type = u.dongle /\ u.dongle \notin {"R820T", "R828D", "V4", "V4L"}
    BY KnownType
  <2>2. u.dongle \in Kinds /\ u.dongle # "none"
    BY <2>1 DEF Known, HasTuner
  <2> QED
    BY <2>1, <2>2 DEF Kinds
<1>3. ASSUME NEW R, Steers(R, u, x) PROVE ~IsR82xx(x) /\ x.dongle = u.dongle
  BY <1>3, ChipKept DEF IsR82xx
<1>4. CASE u.type = "E4000"
  <2>1. x = E4kTuneFreq(u, v)
    BY <1>1, <1>4 DEF TunerSetFreq, IsR82xx
  <2>2. Steers({"pll", "mux"}, u, x) /\ x.chip["pll"] = [out |-> v, ppm |-> u.ppm]
    BY <2>1, E4kTuned
  <2>3. x.chip["pll"].out = v
    BY <2>2
  <2>4. ~IsR82xx(x) /\ x.dongle = "E4000"
    BY <1>2, <1>3, <1>4, <2>2
  <2>5. Passes(x, v)
    BY <2>4 DEF Passes
  <2> QED
    BY <1>1, <2>3, <2>4, <2>5 DEF TunedTo
<1>5. CASE u.type = "FC0012"
  <2>1. x = Fc0012SetFreq(u, v)
    BY <1>1, <1>5 DEF TunerSetFreq, IsR82xx
  <2>2. /\ Steers({"pll", "filt", "auto", "gpio6"}, u, x)
        /\ x.chip["pll"] = FcPll(u, v) /\ x.gpio6 = HighFilter(v)
    BY <1>1, <2>1, Fc0012Set
  <2>3. 11000 <= v /\ v <= 948000
    BY <1>2, <1>5 DEF Tunable
  <2>4. FcPll(u, v).out = v
    BY <1>5, <2>3, FcExact
  <2>5. ~IsR82xx(x) /\ x.dongle = "FC0012"
    BY <1>2, <1>3, <1>5, <2>2
  <2>6. x.gpio6 <=> v > 300000
    <3>1. x.gpio6 <=> HighFilter(v)
      BY <2>2
    <3>2. HighFilter(v) <=> v > 300000
      BY DEF HighFilter
    <3> QED
      BY <3>1, <3>2
  <2>7. Passes(x, v)
    BY <2>5, <2>6 DEF Passes
  <2> QED
    BY <1>1, <2>2, <2>4, <2>5, <2>7 DEF TunedTo
<1>6. CASE u.type = "FC0013"
  <2>1. x = Fc0013SetFreq(u, v)
    BY <1>1, <1>6 DEF TunerSetFreq, IsR82xx
  <2>2. /\ Steers({"pll", "filt", "auto", "mux", "input"}, u, x)
        /\ x.chip["pll"] = FcPll(u, v)
        /\ x.chip["input"] = IF v < 300000 THEN 0 ELSE 1
    BY <1>1, <2>1, Fc0013Tuned
  <2>3. 11000 <= v /\ v <= 1700000
    BY <1>2, <1>6 DEF Tunable
  <2>4. FcPll(u, v).out = v
    BY <1>6, <2>3, FcExact
  <2>5. ~IsR82xx(x) /\ x.dongle = "FC0013"
    BY <1>2, <1>3, <1>6, <2>2
  <2>6. x.chip["input"] = 1 <=> v >= 300000
    BY <2>2
  <2>7. Passes(x, v)
    BY <2>5, <2>6 DEF Passes
  <2> QED
    BY <1>1, <2>2, <2>4, <2>5, <2>7 DEF TunedTo
<1>7. CASE u.type = "FC2580"
  <2>1. x = Fc2580SetFreq(u, v)
    BY <1>1, <1>7 DEF TunerSetFreq, IsR82xx
  <2>2. /\ Steers({"input", "pll", "filt", "auto"}, u, x)
        /\ x.chip["input"] = BandOf(v) /\ x.chip["pll"].out = Fc2580Lo(v)
    BY <2>1, Fc2580Done
  <2>3. 0 < v /\ v <= 1700000
    BY <1>2, <1>7 DEF Tunable
  <2>4. Fc2580Lo(v) = v
    BY <2>3, Fc2580Exact
  <2>5. ~IsR82xx(x) /\ x.dongle = "FC2580"
    BY <1>2, <1>3, <1>7, <2>2
  <2>6. Passes(x, v)
    BY <2>2, <2>5 DEF Passes
  <2> QED
    BY <1>1, <2>2, <2>4, <2>5, <2>6 DEF TunedTo
<1> QED
  BY <1>2, <1>4, <1>5, <1>6, <1>7

(* A tuner tunes to what it is asked for, if it reports success.           *)
LEMMA TunerTunes ==
    ASSUME NEW u, Rec(u), Live(u), Tame(u), Known(u), HasTuner(u),
           IsR82xx(u) => Plumb(u), NEW v \in Int
    PROVE  /\ IsR82xx(u) => /\ TunerSetFreq(u, v).intf = u.intf
                            /\ InputAgrees(TunerSetFreq(u, v))
           /\ TunerSetFreq(u, v).rc = 0 /\ Tunable(u, v) => TunedTo(TunerSetFreq(u, v), v)
<1>1. CASE IsR82xx(u)
  <2>1. TunerSetFreq(u, v) = R82xxSetFreq(u, v) /\ Agree(u)
    BY <1>1 DEF TunerSetFreq, Tame, IsR82xx
  <2> QED
    BY <1>1, <2>1, R82xxTunes
<1>2. CASE ~IsR82xx(u)
  BY <1>2, OthersTune
<1> QED
  BY <1>1, <1>2

(* A tuner woken up again has no input noted and the first IF.             *)
LEMMA TunerStarts ==
    ASSUME NEW u, Rec(u), Live(u), Known(u), IsR82xx(u), u.ppm = u.corr
    PROVE  Initial(TunerInit(u))
<1>1. PICK c : c = u.corr
  OBVIOUS
<1>2. PICK x : x = [u EXCEPT !.ppm = c]
  OBVIOUS
<1>3. /\ DOMAIN x = StateFields /\ \A f \in StateFields : x[f] = u[f]
      /\ x.chip = u.chip /\ x.shadow = u.shadow /\ x.type = u.type
      /\ x.n = u.n /\ x.rc = u.rc /\ x.fault = u.fault /\ x.rep = u.rep
      /\ x.dongle = u.dongle /\ x.v4 = u.v4 /\ x.v4l = u.v4l /\ x.xtal = u.xtal
  BY <1>1, <1>2 DEF Rec, StateFields
<1>4. Rec(x) /\ Live(x) /\ Known(x) /\ IsR82xx(x)
  <2>1. Rec(x)
    BY <1>3 DEF Rec
  <2>2. Live(x)
    BY <1>3 DEF Live
  <2>3. Known(x)
    <3>1. /\ x.dongle = u.dongle /\ x.type = u.type /\ x.v4 = u.v4 /\ x.v4l = u.v4l
          /\ x.xtal = u.xtal
      BY <1>3
    <3> QED
      BY <3>1, KnownStays
  <2>4. IsR82xx(x)
    BY <1>3 DEF IsR82xx
  <2> QED
    BY <2>1, <2>2, <2>3, <2>4
<1>5. TunerInit(u) = R82xxInit(x)
  BY <1>1, <1>2 DEF TunerInit, IsR82xx, IsFc001x
<1> QED
  BY <1>4, <1>5, R82xxInitKnown

(* What does not change stays known and sane.                              *)
LEMMA KnownOnly ==
    ASSUME NEW W, W \cap {"dongle", "type", "v4", "v4l", "xtal"} = {}, NEW u, NEW t, Only(W, u, t)
    PROVE  /\ Known(u) => Known(t)
           /\ IsR82xx(t) = IsR82xx(u) /\ HasTuner(t) = HasTuner(u) /\ t.dongle = u.dongle
<1>1. /\ t.dongle = u.dongle /\ t.type = u.type /\ t.v4 = u.v4 /\ t.v4l = u.v4l
      /\ t.xtal = u.xtal
  BY DEF Only, StateFields
<1>2. Known(u) => Known(t)
  BY <1>1, KnownStays
<1> QED
  BY <1>1, <1>2, TellingStays

LEMMA SaneStays ==
    ASSUME NEW u, NEW t, t.type = u.type, t.bw = u.bw, t.rate = u.rate, t.offs = u.offs,
           t.freq \in Nat
    PROVE  Sane(u) => Sane(t)
  BY DEF Sane, IsR82xx

LEMMA SaneOnly ==
    ASSUME NEW W, W \cap {"type", "bw", "rate", "offs"} = {}, NEW u, NEW t, Only(W, u, t),
           t.freq \in Nat
    PROVE  (Sane(u) => Sane(t)) /\ t.offs = u.offs
<1>1. t.type = u.type /\ t.bw = u.bw /\ t.rate = u.rate /\ t.offs = u.offs
  BY DEF Only, StateFields
<1> QED
  BY <1>1, SaneStays

(* The tuner tuned is centred on f, if it reports success.                 *)
LEMMA TunerCentres ==
    ASSUME NEW u, Rec(u), Live(u), Tame(u), Known(u), Sane(u), Level(u), HasTuner(u), u.ds = 0,
           NEW f \in Nat
    PROVE  LET x == TunerSetFreq(u, f - u.offs)
           IN  Level(x) /\ (x.rc = 0 => Centre(x, f))
<1>1. PICK v : v = f - u.offs
  OBVIOUS
<1>2. PICK x : x = TunerSetFreq(u, v)
  OBVIOUS
<1>3. v \in Int
  BY <1>1 DEF Sane
<1>4. Plumb(u)
  BY DEF Level
<1>5. /\ IsR82xx(u) => x.intf = u.intf /\ InputAgrees(x)
      /\ x.rc = 0 /\ Tunable(u, v) => TunedTo(x, v)
  BY <1>2, <1>3, <1>4, TunerTunes
<1>6. Steers(NotPower, u, x)
  BY <1>2, TunerSets DEF Tunes
<1>7. /\ x.dongle = u.dongle /\ x.type = u.type /\ x.offs = u.offs /\ x.ds = u.ds
      /\ x.ifr = u.ifr
  BY <1>6, ChipKept
<1>8. IsR82xx(x) = IsR82xx(u) /\ HasTuner(x) = HasTuner(u)
  BY <1>7, TellingStays
<1>9. Plumb(x)
  BY <1>4, <1>5, <1>7, <1>8 DEF Plumb
<1>10. ASSUME x.rc = 0 PROVE Centre(x, f)
  <2>1. Reach(x, f) = Reach(u, f)
    BY <1>7 DEF Reach
  <2>2. Reach(u, f) => Tunable(u, v)
    BY <1>1, OffsetTunable
  <2>3. Reach(x, f) => TunedTo(x, f - x.offs)
    BY <1>1, <1>5, <1>7, <1>10, <2>1, <2>2
  <2> QED
    BY <1>7, <1>8, <2>3 DEF Centre
<1> QED
  BY <1>1, <1>2, <1>9, <1>10 DEF Level

LEMMA ApplyCentres ==
    ASSUME NEW u, Rec(u), Calm(u), Tame(u), Known(u), Sane(u), Level(u), NEW f \in Nat
    PROVE  Level(ApplyFreq(u, f)) /\ (ApplyFreq(u, f).rc = 0 => Centre(ApplyFreq(u, f), f))
<1>1. PICK t : t = ApplyFreq(u, f)
  OBVIOUS
<1>2. CASE u.ds # 0
  <2>1. PICK r : r = Repeater(u, FALSE)
    OBVIOUS
  <2>2. Only({"rep"}, u, r)
    BY <2>1, RepeaterDone
  <2>3. PICK w : w = IfWord(r, f)
    OBVIOUS
  <2>4. t = Demod(r, "ifr", w)
    BY <1>1, <1>2, <2>1, <2>3 DEF ApplyFreq, SetIfFreq
  <2>5. Rec(r) /\ Calm(r)
    <3>1. Rec(r)
      BY <2>2 DEF Only
    <3> QED
      BY <2>2, <3>1, Untouched
  <2>6. Only({"ifr"}, r, t) /\ t.ifr = w
    BY <2>4, <2>5, DemodDone DEF DemodFields
  <2>7. t.ds = u.ds
    BY <2>2, <2>6 DEF Only, StateFields
  <2>8. t.ifr.f = f % RtlXtal
    BY <2>3, <2>6 DEF IfWord
  <2> QED
    BY <1>1, <1>2, <2>7, <2>8 DEF Level, Centre
<1>3. CASE u.ds = 0 /\ HasTuner(u)
  <2>1. PICK r : r = Repeater(u, TRUE)
    OBVIOUS
  <2>2. Only({"rep"}, u, r) /\ r.rep = TRUE
    BY <2>1, RepeaterDone
  <2>3. Hears(u, r)
    BY <2>2, HearsOnly DEF Banding
  <2>4. Rec(r) /\ Live(r) /\ Tame(r) /\ r.ds = 0 /\ r.offs = u.offs
    <3>1. Rec(r) /\ r.ds = u.ds /\ r.offs = u.offs
      BY <2>2 DEF Only, StateFields
    <3>2. Calm(r)
      BY <2>2, Untouched
    <3>3. Tame(r)
      BY <2>2, TameStays
    <3> QED
      BY <1>3, <2>2, <3>1, <3>2, <3>3 DEF Live, Calm
  <2>5. Known(r) /\ Sane(r) /\ Level(r) /\ HasTuner(r)
    BY <1>3, <2>3, HearsFit, HoldsFields DEF Hears
  <2>6. PICK x : x = TunerSetFreq(r, f - r.offs)
    OBVIOUS
  <2>7. Level(x) /\ (x.rc = 0 => Centre(x, f))
    BY <2>4, <2>5, <2>6, TunerCentres
  <2>8. t = Repeater(x, FALSE)
    BY <1>1, <1>3, <2>1, <2>4, <2>6 DEF ApplyFreq
  <2>9. Rec(x)
    BY <2>4, <2>5, <2>6, TunerSets DEF Tunes
  <2>10. Only({"rep"}, x, t) /\ t.rc = x.rc
    BY <2>8, <2>9, RepeaterDone
  <2>11. Hears(x, t)
    BY <2>10, HearsOnly DEF Banding
  <2> QED
    BY <1>1, <2>7, <2>10, <2>11, HearsFit
<1>4. CASE u.ds = 0 /\ ~HasTuner(u)
  <2>1. t = Fail(u)
    BY <1>1, <1>4 DEF ApplyFreq
  <2>2. Only({}, u, t) /\ t.rc = -1
    BY <2>1, ResultOnly
  <2>3. Hears(u, t)
    BY <2>2, HearsOnly
  <2> QED
    BY <1>1, <2>2, <2>3, HearsFit
<1> QED
  BY <1>2, <1>3, <1>4

(* A tuning centres the band, or is to be followed by a switch.            *)
Trail(c) == ~c.turn => Level(c) /\ (c.freq # 0 => Centre(c, c.freq))

LEMMA CenterAligned ==
    ASSUME NEW u, Rec(u), u.ppm = u.corr, Calm(u), Tame(u), Known(u), Sane(u), NEW f \in Nat,
           Aims(u, f) = u.ds => Level(u)
    PROVE  Known(Center(u, f)) /\ Sane(Center(u, f)) /\ Trail(Center(u, f))
<1>1. PICK a : a = Aims(u, f)
  OBVIOUS
<1>2. PICK p : p = [u EXCEPT !.ds = a, !.turn = FALSE]
  OBVIOUS
<1>3. DOMAIN u = StateFields
  BY DEF Rec
<1>4. /\ DOMAIN p = StateFields /\ p.ds = a /\ p.turn = FALSE
      /\ \A g \in StateFields \ {"ds", "turn"} : p[g] = u[g]
  BY <1>2, <1>3 DEF StateFields
<1>5. Only({"ds", "turn"}, u, p)
  BY <1>4 DEF Rec, Only, StateFields
<1>6. PICK q : q = ApplyFreq(p, f)
  OBVIOUS
<1>7. Rec(p) /\ p.ppm = p.corr /\ Calm(p) /\ Tame(p)
  <2>1. Rec(p)
    BY <1>5 DEF Only
  <2>2. p.ppm = u.ppm /\ p.corr = u.corr /\ p.fault = u.fault
    BY <1>4 DEF StateFields
  <2>3. Tame(p)
    BY <1>5, TameStays
  <2> QED
    BY <2>1, <2>2, <2>3 DEF Calm
<1>8. Only(Tuned \cup {"ifr"}, p, q)
  BY <1>6, <1>7, ApplyDone
<1>9. PICK v \in {f, 0} : v = IF q.rc = 0 THEN f ELSE 0
  OBVIOUS
<1>10. PICK c : c = [q EXCEPT !.freq = v]
  OBVIOUS
<1>11. Rec(q)
  BY <1>8 DEF Only
<1>12. Only({"freq"}, q, c) /\ c.freq = v
  BY <1>10, <1>11, FieldSet DEF Settings
<1>13. PICK t : t = Center(u, f)
  OBVIOUS
<1>14. t = Turning(u.ds, c)
  BY <1>1, <1>2, <1>6, <1>9, <1>10, <1>13 DEF Center, NoteFreq, Aims
<1>15. c.ds = a
  BY <1>4, <1>8, <1>12 DEF Only, StateFields, Tuned, DriverFields
<1>16. Only(Centering, u, t) /\ t.freq \in {f, 0} /\ t.ds = a /\ t.turn = (t.ds # u.ds)
  BY <1>1, <1>13, CenterDone
<1>17. Known(t) /\ Sane(t)
  <2>1. Known(t)
    BY <1>16, KnownOnly DEF Centering, Tuned, DriverFields
  <2>2. t.freq \in Nat
    BY <1>16
  <2> QED
    BY <1>16, <2>1, <2>2, SaneOnly DEF Centering, Tuned, DriverFields
<1>18. ASSUME ~t.turn PROVE Level(t) /\ (t.freq # 0 => Centre(t, t.freq))
  <2>1. a = u.ds
    BY <1>16, <1>18
  <2>2. t = c
    BY <1>14, <1>15, <2>1 DEF Turning
  <2>3. p.ds = u.ds
    BY <1>4, <2>1
  <2>4. Only({"turn"}, u, p)
    BY <1>4, <1>7, <2>3 DEF Only, StateFields
  <2>5. Hears(u, p)
    BY <2>4, HearsOnly DEF Banding
  <2>6. Known(p) /\ Sane(p) /\ Level(p)
    BY <1>1, <2>1, <2>5, HearsFit
  <2>7. Level(q) /\ (q.rc = 0 => Centre(q, f))
    BY <1>6, <1>7, <2>6, ApplyCentres
  <2>8. Level(c) /\ (Centre(q, f) => Centre(c, f))
    <3>1. Holds(q, c)
      BY <1>12, HoldsOnly DEF Banding
    <3> QED
      BY <2>7, <3>1, HoldsFit
  <2> QED
    BY <1>9, <1>12, <2>2, <2>7, <2>8
<1> QED
  BY <1>13, <1>17, <1>18 DEF Trail

(* Back on the path of the tuner, its IF is the demodulator's.             *)
LEMMA AwakeStarts ==
    ASSUME NEW u, Rec(u), u.ppm = u.corr, Calm(u), Known(u), IsR82xx(u)
    PROVE  Initial(Awake(u))
<1>1. PICK o : o = Ok(u)
  OBVIOUS
<1>2. Only({}, u, o)
  BY <1>1, ResultOnly
<1>3. Rec(o) /\ Calm(o) /\ o.ppm = o.corr
  <2>1. Rec(o) /\ o.fault = u.fault /\ o.ppm = u.ppm /\ o.corr = u.corr
    BY <1>2 DEF Only, StateFields
  <2> QED
    BY <2>1 DEF Calm
<1>4. Known(o) /\ IsR82xx(o)
  BY <1>2, KnownOnly
<1>5. PICK r : r = Repeater(o, TRUE)
  OBVIOUS
<1>6. Only({"rep"}, o, r) /\ r.rep = TRUE
  BY <1>3, <1>5, RepeaterDone
<1>7. Rec(r) /\ Live(r) /\ r.ppm = r.corr
  <2>1. Rec(r) /\ r.fault = o.fault /\ r.ppm = o.ppm /\ r.corr = o.corr
    BY <1>6 DEF Only, StateFields
  <2> QED
    BY <1>3, <1>6, <2>1 DEF Calm, Live
<1>8. Known(r) /\ IsR82xx(r)
  BY <1>4, <1>6, KnownOnly
<1>9. PICK x : x = TunerInit(r)
  OBVIOUS
<1>10. Initial(x)
  BY <1>7, <1>8, <1>9, TunerStarts
<1>11. Rec(x)
  BY <1>7, <1>8, <1>9, TunerInits DEF HasTuner, IsR82xx
<1>12. Awake(u) = Repeater(x, FALSE)
  BY <1>1, <1>5, <1>9 DEF Awake, HasTuner, IsR82xx
<1>13. PICK t : t = Repeater(x, FALSE)
  OBVIOUS
<1>14. Only({"rep"}, x, t)
  BY <1>11, <1>13, RepeaterDone
<1>15. t.input = x.input /\ t.intf = x.intf
  BY <1>14 DEF Only, StateFields
<1>16. Initial(t)
  BY <1>10, <1>15 DEF Initial
<1> QED
  BY <1>12, <1>13, <1>16

(* The demodulator expects the first IF of an R82xx, or none.              *)
Expects(t) == t.ifr.f = IF IsR82xx(t) THEN 3570 ELSE 0

LEMMA IfWordAs ==
    ASSUME NEW u
    PROVE  /\ IfWord(u, 3570).f = 3570 /\ IfWord(u, 0).f = 0
           /\ \A f \in Int : 0 <= f /\ f <= 5000 => IfWord(u, f).f = f
  BY DEF IfWord, RtlXtal

LEMMA TunerPathExpects ==
    ASSUME NEW u, Rec(u), Calm(u)
    PROVE  Expects(TunerPath(u))
<1>1. CASE IsR82xx(u)
  <2>1. PICK w : w = IfWord(u, 3570)
    OBVIOUS
  <2>2. PICK a : a = OrDemod(u, "ifr", w)
    OBVIOUS
  <2>3. PICK b : b = OrDemod(a, "inv", TRUE)
    OBVIOUS
  <2>4. PICK t : t = OrDemod(b, "swap", FALSE)
    OBVIOUS
  <2>5. TunerPath(u) = t
    BY <1>1, <2>1, <2>2, <2>3, <2>4 DEF TunerPath
  <2>6. Only({"ifr"}, u, a) /\ a.ifr = w
    BY <2>2, OrDemodDone DEF DemodFields
  <2>7. Rec(a)
    BY <2>6 DEF Only
  <2>8. Only({"inv"}, a, b)
    BY <2>3, <2>7, Switched, Zenon
  <2>9. Rec(b)
    BY <2>8 DEF Only
  <2>10. Only({"swap"}, b, t)
    BY <2>4, <2>9, Switched, Zenon
  <2>11. t.ifr = w /\ t.type = u.type
    BY <2>6, <2>8, <2>10 DEF Only, StateFields
  <2>12. IsR82xx(t)
    BY <1>1, <2>11 DEF IsR82xx
  <2> QED
    BY <2>1, <2>5, <2>11, <2>12, IfWordAs DEF Expects
<1>2. CASE ~IsR82xx(u)
  <2>1. PICK w : w = IfWord(u, 0)
    OBVIOUS
  <2>2. PICK a : a = OrDemod(u, "ifr", w)
    OBVIOUS
  <2>3. PICK b : b = OrDemod(a, "adc", "iq")
    OBVIOUS
  <2>4. PICK c : c = OrDemod(b, "zif", TRUE)
    OBVIOUS
  <2>5. PICK t : t = OrDemod(c, "swap", FALSE)
    OBVIOUS
  <2>6. TunerPath(u) = t
    BY <1>2, <2>1, <2>2, <2>3, <2>4, <2>5 DEF TunerPath
  <2>7. Only({"ifr"}, u, a) /\ a.ifr = w
    BY <2>2, OrDemodDone DEF DemodFields
  <2>8. Rec(a)
    BY <2>7 DEF Only
  <2>9. Only({"adc"}, a, b)
    BY <2>3, <2>8, OrDemodDone DEF DemodFields
  <2>10. Rec(b)
    BY <2>9 DEF Only
  <2>11. Only({"zif"}, b, c)
    BY <2>4, <2>10, Switched, Zenon
  <2>12. Rec(c)
    BY <2>11 DEF Only
  <2>13. Only({"swap"}, c, t)
    BY <2>5, <2>12, Switched, Zenon
  <2>14. t.ifr = w /\ t.type = u.type
    BY <2>7, <2>9, <2>11, <2>13 DEF Only, StateFields
  <2>15. ~IsR82xx(t)
    BY <1>2, <2>14 DEF IsR82xx
  <2> QED
    BY <2>1, <2>6, <2>14, <2>15, IfWordAs DEF Expects
<1> QED
  BY <1>1, <1>2

(* What a tuner just initialised and the demodulator's IF make together.   *)
LEMMA StartsPlumb ==
    ASSUME NEW t, Expects(t), IsR82xx(t) => Initial(t), ~IsR82xx(t) => t.offs = 0
    PROVE  Plumb(t)
<1>1. CASE IsR82xx(t)
  <2>1. t.intf = 3570 /\ t.input = 0 /\ t.ifr.f = 3570
    BY <1>1 DEF Initial, Expects
  <2>2. InputAgrees(t)
    BY <2>1 DEF InputAgrees
  <2> QED
    BY <1>1, <2>1, <2>2 DEF Plumb
<1>2. CASE ~IsR82xx(t)
  BY <1>2 DEF Plumb, Expects
<1> QED
  BY <1>1, <1>2

LEMMA MovedLevel ==
    ASSUME NEW u, Rec(u), u.ppm = u.corr, Calm(u), Known(u), NEW on, on # 0 \/ u.offs = 0
    PROVE  Level(Moved(u, on))
<1>1. CASE on # 0
  <2>1. Moved(u, on).ds # 0
    BY <1>1, PathSwitched
  <2> QED
    BY <2>1 DEF Level
<1>2. CASE on = 0
  <2>1. PICK a : a = Awake(u)
    OBVIOUS
  <2>2. PICK b : b = TunerPath(a)
    OBVIOUS
  <2>3. PICK d : d = [b EXCEPT !.ds = 0]
    OBVIOUS
  <2>4. PICK t : t = OrRc(u.rc, d)
    OBVIOUS
  <2>5. Moved(u, on) = t
    BY <1>2, <2>1, <2>2, <2>3, <2>4 DEF Moved, DirectOff
  <2>6. Only(Tuned, u, a)
    BY <2>1, InitBracketed
  <2>7. Rec(a) /\ a.offs = 0 /\ Calm(a)
    <3>1. Rec(a) /\ a.offs = u.offs /\ a.fault = u.fault
      BY <2>6 DEF Only, StateFields, Tuned, DriverFields
    <3> QED
      BY <1>2, <3>1 DEF Calm
  <2>8. Only(Paths, a, b) /\ Expects(b)
    BY <2>2, <2>7, TunerPathDone, TunerPathExpects
  <2>9. Rec(b)
    BY <2>8 DEF Only
  <2>10. Only({"ds"}, b, d) /\ Rec(d)
    <3>1. Only({"ds"}, b, d)
      BY <2>3, <2>9, FieldSet DEF Settings
    <3> QED
      BY <3>1 DEF Only
  <2>11. Only({}, d, t)
    BY <2>4, <2>10, ResultOnly
  <2>12. t.intf = a.intf /\ t.input = a.input /\ t.offs = 0 /\ t.ifr = b.ifr
    BY <2>7, <2>8, <2>10, <2>11 DEF Only, StateFields, Paths
  <2>13. IsR82xx(t) = IsR82xx(b) /\ IsR82xx(t) = IsR82xx(u)
    <3>1. t.type = b.type /\ t.type = u.type
      BY <2>6, <2>8, <2>10, <2>11 DEF Only, StateFields, Paths, Tuned, DriverFields
    <3> QED
      BY <3>1 DEF IsR82xx
  <2>14. Expects(t)
    BY <2>8, <2>12, <2>13 DEF Expects
  <2>15. IsR82xx(t) => Initial(t)
    <3>1. IsR82xx(u) => Initial(a)
      BY <2>1, AwakeStarts
    <3> QED
      BY <2>12, <2>13, <3>1 DEF Initial
  <2>16. Plumb(t)
    BY <2>12, <2>14, <2>15, StartsPlumb
  <2> QED
    BY <2>5, <2>16 DEF Level
<1> QED
  BY <1>1, <1>2

(* Tuning and switching, which call each other.                            *)
LEMMA SwitchAligned ==
    ASSUME NEW u, Rec(u), u.ppm = u.corr, Calm(u), Trim(u), Known(u), Sane(u), NEW on,
           on # 0 \/ u.offs = 0
    PROVE  Known(Switch(u, on)) /\ Sane(Switch(u, on)) /\ Trail(Switch(u, on))
<1>1. PICK d : d = Moved(u, on)
  OBVIOUS
<1>2. PICK c : c = Center(d, d.freq)
  OBVIOUS
<1>3. PICK t : t = OrRc(d.rc, c)
  OBVIOUS
<1>4. Switch(u, on) = t
  BY <1>1, <1>2, <1>3 DEF Switch, Recenter, Moved
<1>5. Only(Pathing, u, d) /\ Steady(d, on)
  BY <1>1, PathSwitched
<1>6. /\ Rec(d) /\ d.freq = u.freq /\ d.ppm = u.ppm /\ d.corr = u.corr /\ d.fault = u.fault
  BY <1>5 DEF Only, StateFields, Pathing, Tuned, DriverFields, Paths
<1>7. d.ppm = d.corr /\ Calm(d) /\ Tame(d) /\ d.freq \in Nat
  BY <1>5, <1>6 DEF Calm, Steady, Trim, Sane
<1>8. Known(d)
  BY <1>5, KnownOnly DEF Pathing, Tuned, DriverFields, Paths
<1>9. Sane(d)
  BY <1>5, <1>7, SaneOnly DEF Pathing, Tuned, DriverFields, Paths
<1>10. Level(d)
  BY <1>1, MovedLevel
<1>11. Known(c) /\ Sane(c) /\ Trail(c)
  BY <1>2, <1>6, <1>7, <1>8, <1>9, <1>10, CenterAligned
<1>12. Rec(c)
  <2>1. Only(Centering, d, c)
    BY <1>2, <1>6, <1>7, CenterDone
  <2> QED
    BY <2>1 DEF Only
<1>13. Only({}, c, t)
  BY <1>3, <1>6, <1>12, ResultOnly
<1>14. Hears(c, t)
  BY <1>13, HearsOnly
<1>15. t.turn = c.turn /\ t.freq = c.freq
  BY <1>13 DEF Only, StateFields
<1>16. Known(t) /\ Sane(t)
  BY <1>11, <1>14, HearsFit
<1>17. Trail(t)
  BY <1>11, <1>14, <1>15, HearsFit DEF Trail
<1> QED
  BY <1>4, <1>16, <1>17

LEMMA AgainAligned ==
    ASSUME NEW c, Rec(c), c.ppm = c.corr, Calm(c), Trim(c), Known(c), Sane(c), Trail(c),
           c.offs = 0 \/ ~c.turn
    PROVE  /\ Known(Again(c)) /\ Sane(Again(c)) /\ Trail(Again(c))
           /\ Again(c).offs = c.offs
<1>1. CASE ~c.turn
  <2>1. Again(c) = c
    BY <1>1 DEF Again
  <2> QED
    BY <2>1
<1>2. CASE c.turn
  <2>1. PICK on : on = c.ds
    OBVIOUS
  <2>2. PICK x : x = Switch(c, on)
    OBVIOUS
  <2>3. Again(c) = x
    BY <1>2, <2>1, <2>2 DEF Again
  <2>4. Known(x) /\ Sane(x) /\ Trail(x)
    BY <1>2, <2>2, SwitchAligned
  <2>5. Only(Switching, c, x)
    BY <2>2, SwitchDone
  <2>6. x.offs = c.offs
    BY <2>5 DEF Only, StateFields, Switching, Centering, Tuned, DriverFields, Paths
  <2> QED
    BY <2>3, <2>4, <2>6
<1> QED
  BY <1>1, <1>2

LEMMA RoundsAligned ==
    ASSUME NEW c, Rec(c), c.ppm = c.corr, Calm(c), ~c.deep, NEW f, Aimed(c, f), Trailing(c),
           Known(c), Sane(c), Trail(c), c.offs # 0 => ~c.turn /\ c.ds = 0
    PROVE  Fit(Bounded(Again(Again(c))))
<1>1. PICK x : x = Again(c)
  OBVIOUS
<1>2. PICK y : y = Again(x)
  OBVIOUS
<1>3. PICK t : t = Bounded(y)
  OBVIOUS
<1>4. Known(x) /\ Sane(x) /\ Trail(x) /\ x.offs = c.offs
  <2>1. Trim(c) /\ (c.offs = 0 \/ ~c.turn)
    BY DEF Trailing
  <2> QED
    BY <1>1, <2>1, AgainAligned
<1>5. /\ Only(Switching, c, x) /\ Trailing(x)
      /\ x.turn => Aimed(x, 0)
  BY <1>1, AgainDone
<1>6. Rec(x) /\ x.ppm = x.corr /\ Calm(x) /\ Trim(x)
  <2>1. Rec(x) /\ x.ppm = c.ppm /\ x.corr = c.corr /\ x.fault = c.fault
    BY <1>5 DEF Only, StateFields, Switching, Centering, Tuned, DriverFields, Paths
  <2> QED
    BY <1>5, <2>1 DEF Calm, Trailing
<1>7. c.offs # 0 => ~x.turn /\ x.ds = 0
  BY <1>1 DEF Again
<1>8. Known(y) /\ Sane(y) /\ Trail(y) /\ y.offs = c.offs
  BY <1>2, <1>4, <1>6, <1>7, AgainAligned
<1>9. Rec(y) /\ ~y.turn /\ (c.offs # 0 => y.ds = 0)
  <2>1. CASE ~x.turn
    <3>1. y = x
      BY <1>2, <2>1 DEF Again
    <3> QED
      BY <1>6, <1>7, <2>1, <3>1
  <2>2. CASE x.turn
    <3>1. Only(Switching, x, y) /\ ~y.turn
      <4>1. Aimed(x, 0)
        BY <1>5, <2>2
      <4>2. Only(Switching, x, y) /\ (y.turn => 0 # 0)
        BY <1>2, <1>6, <4>1, AgainDone
      <4> QED
        BY <4>2
    <3>2. Rec(y)
      BY <3>1 DEF Only
    <3> QED
      BY <1>7, <2>2, <3>1, <3>2
  <2> QED
    BY <2>1, <2>2
<1>10. Fit(y)
  BY <1>8, <1>9 DEF Fit, Aligned, Trail
<1>11. Hears(y, t)
  <2>1. PICK w : w = (y.deep \/ y.turn)
    OBVIOUS
  <2>2. t = [y EXCEPT !.deep = w, !.turn = FALSE]
    BY <1>3, <2>1 DEF Bounded
  <2>3. DOMAIN y = StateFields
    BY <1>9 DEF Rec
  <2>4. \A g \in StateFields \ {"deep", "turn"} : t[g] = y[g]
    BY <2>2, <2>3 DEF StateFields
  <2>5. /\ \A g \in Banding : t[g] = y[g]
        /\ t.chip = y.chip /\ t.input = y.input
        /\ t.freq = y.freq /\ t.rate = y.rate /\ t.bw = y.bw
    BY <2>4 DEF StateFields, Banding
  <2> QED
    BY <2>5 DEF Hears, Holds
<1> QED
  BY <1>1, <1>2, <1>3, <1>10, <1>11, HearsFit

LEMMA TuneAligned ==
    ASSUME NEW u, Rec(u), u.ppm = u.corr, ~u.deep, Calm(u), Steady(u, u.ds), Known(u), Sane(u),
           Level(u), u.offs # 0 => u.ds = 0, NEW f \in Nat
    PROVE  Fit(Tune(u, f))
<1>1. PICK c : c = Center(u, f)
  OBVIOUS
<1>2. Tune(u, f) = Bounded(Again(Again(c)))
  BY <1>1 DEF Tune
<1>3. Tame(u) /\ Trim(u)
  BY DEF Steady, Trim
<1>4. Known(c) /\ Sane(c) /\ Trail(c)
  BY <1>1, <1>3, CenterAligned
<1>5. /\ Only(Centering, u, c) /\ c.freq \in {f, 0} /\ c.ds = Aims(u, f)
      /\ c.turn = (c.ds # u.ds)
      /\ Steady(c, u.ds)
      /\ c.freq # 0 => Right(c)
  BY <1>1, <1>3, CenterDone
<1>6. /\ Rec(c) /\ c.deep = u.deep /\ c.ppm = u.ppm /\ c.corr = u.corr /\ c.fault = u.fault
      /\ c.mode = u.mode /\ c.type = u.type /\ c.v4l = u.v4l /\ c.offs = u.offs
  BY <1>5 DEF Only, StateFields, Centering, Tuned, DriverFields
<1>7. AutoSampling(c, f) = AutoSampling(u, f)
  BY <1>6, AutoStays
<1>8. Aimed(c, f)
  BY <1>5, <1>6, <1>7 DEF Aimed, Aims
<1>9. Trailing(c)
  BY <1>5 DEF Trailing, Steady
<1>10. c.offs # 0 => ~c.turn /\ c.ds = 0
  <2>1. ASSUME u.offs # 0 PROVE Aims(u, f) = u.ds
    <3>1. u.type # "R820T"
      BY <2>1 DEF Sane, IsR82xx
    <3> QED
      BY <2>1, <3>1 DEF Aims, AutoSampling
  <2> QED
    BY <1>5, <1>6, <2>1
<1>11. Calm(c)
  BY <1>6 DEF Calm
<1> QED
  BY <1>2, <1>4, <1>6, <1>8, <1>9, <1>10, <1>11, RoundsAligned

LEMMA DirectAligned ==
    ASSUME NEW u, Rec(u), u.ppm = u.corr, ~u.deep, Calm(u), Trim(u), Known(u), Sane(u),
           u.offs = 0, NEW on
    PROVE  Fit(SetDirectSampling(u, on))
<1>1. PICK m : m = [u EXCEPT !.mode = on]
  OBVIOUS
<1>2. PICK o : o = Ok(m)
  OBVIOUS
<1>3. PICK c : c = Switch(o, on)
  OBVIOUS
<1>4. SetDirectSampling(u, on) = Bounded(Again(Again(c)))
  BY <1>1, <1>2, <1>3 DEF SetDirectSampling
<1>5. Only({"mode"}, u, m) /\ m.mode = on
  BY <1>1, FieldSet DEF Settings
<1>6. Rec(m)
  BY <1>5 DEF Only
<1>7. Only({}, m, o)
  BY <1>2, <1>6, ResultOnly
<1>8. Only({"mode"}, u, o)
  BY <1>5, <1>7, OnlyTwice
<1>9. /\ Rec(o) /\ o.deep = u.deep /\ o.mode = on /\ o.corr = u.corr /\ o.ppm = u.ppm
      /\ o.fault = u.fault /\ o.offs = u.offs /\ o.freq = u.freq
  BY <1>5, <1>7, <1>8 DEF Only, StateFields
<1>10. Calm(o) /\ o.freq \in Nat
  BY <1>9 DEF Calm, Sane
<1>11. Trim(o)
  BY <1>8, SteadyStays
<1>12. Known(o) /\ Sane(o)
  BY <1>8, <1>10, KnownOnly, SaneOnly
<1>13. Known(c) /\ Sane(c) /\ Trail(c)
  BY <1>3, <1>9, <1>10, <1>11, <1>12, SwitchAligned
<1>14. /\ Only(Switching, o, c) /\ c.freq \in {o.freq, 0}
       /\ c.ds = IF o.mode = 0 THEN AutoSampling(o, o.freq) ELSE on
       /\ c.turn = (c.ds # on)
       /\ Steady(c, on) /\ (c.freq # 0 => Right(c))
  BY <1>3, <1>9, <1>10, <1>11, SwitchDone
<1>15. /\ Rec(c) /\ c.deep = o.deep /\ c.ppm = o.ppm /\ c.corr = o.corr /\ c.fault = o.fault
       /\ c.mode = o.mode /\ c.type = o.type /\ c.v4l = o.v4l /\ c.offs = o.offs
  BY <1>14 DEF Only, StateFields, Switching, Centering, Tuned, DriverFields, Paths
<1>16. \A f : AutoSampling(c, f) = AutoSampling(o, f)
  BY <1>15, AutoStays
<1>17. Aimed(c, o.freq)
  BY <1>9, <1>14, <1>15, <1>16 DEF Aimed
<1>18. Trailing(c)
  BY <1>14 DEF Trailing, Steady
<1>19. Calm(c)
  BY <1>9, <1>15 DEF Calm
<1> QED
  BY <1>4, <1>9, <1>13, <1>15, <1>17, <1>18, <1>19, RoundsAligned

(* A call that begins Ready ends Ready.                                    *)
Ready(t) == Still(t) /\ Calm(t) /\ Sound(t) /\ Fit(t)

(* It would be, but for the frequency that is still to be tuned to again.  *)
Near(t) ==
    /\ Still(t) /\ Calm(t) /\ Steady(t, t.ds)
    /\ Known(t) /\ Sane(t) /\ Level(t) /\ (t.offs # 0 => t.ds = 0)

LEMMA ReadyNear ==
    ASSUME NEW u, Ready(u)
    PROVE  Near(u) /\ Rec(u)
  BY DEF Ready, Near, Sound, Fit, Aligned, Still

LEMMA ReadyCarries ==
    ASSUME NEW u, Ready(u), NEW t, Carries(u, t)
    PROVE  /\ Fit(t) => Ready(t)
           /\ Hears(u, t) => Ready(t)
<1>1. Calm(t) = Calm(u)
  BY ApiStays DEF Carries
<1>2. Hears(u, t) => Fit(t)
  BY HearsFit DEF Ready
<1> QED
  BY <1>1, <1>2 DEF Ready, Carries

LEMMA ReadyRepeater ==
    ASSUME NEW u, Ready(u), NEW on
    PROVE  Ready(Repeater(u, on)) /\ Repeater(u, on).rep = on
<1>1. PICK r : r = Repeater(u, on)
  OBVIOUS
<1>2. Rec(u) /\ Still(u) /\ Calm(u)
  BY DEF Ready, Still
<1>3. Only({"rep"}, u, r)
  BY <1>1, <1>2, RepeaterDone
<1>4. Hears(u, r)
  BY <1>3, HearsOnly DEF Banding
<1>5. Only(Api, u, r) /\ Still(r) /\ r.rep = on /\ (Sound(u) => Sound(r))
  BY <1>1, <1>2, RepeaterStill
<1>6. Calm(r)
  BY <1>2, <1>5, ApiStays
<1>7. Fit(r)
  BY <1>4, HearsFit DEF Ready
<1> QED
  BY <1>1, <1>5, <1>6, <1>7 DEF Ready

LEMMA RetuneReady ==
    ASSUME NEW u, Near(u)
    PROVE  Ready(Retune(u))
<1>1. PICK c : c = Tune(u, u.freq)
  OBVIOUS
<1>2. PICK t : t = OrRc(u.rc, c)
  OBVIOUS
<1>3. Retune(u) = t
  BY <1>1, <1>2 DEF Retune
<1>4. Rec(u) /\ u.ppm = u.corr /\ ~u.deep /\ u.freq \in Nat
  BY DEF Near, Still, Sane
<1>5. Fit(c)
  BY <1>1, <1>4, TuneAligned DEF Near
<1>6. Carries(u, c)
  BY <1>1, TuneCarries DEF Near
<1>7. Rec(c)
  BY <1>6 DEF Carries, Still
<1>8. Only({}, c, t)
  BY <1>2, <1>4, <1>7, ResultOnly
<1>9. Fit(t)
  BY <1>5, <1>8, HearsOnly, HearsFit
<1>10. Carries(u, t) /\ Sound(t)
  BY <1>3, RetuneCarries DEF Near
<1>11. Calm(t)
  BY <1>10, ApiStays DEF Carries, Near
<1> QED
  BY <1>3, <1>9, <1>10, <1>11 DEF Ready, Carries

(* The settings that no tuning depends on.                                 *)
LEMMA SettingsFit ==
    ASSUME NEW u, Fit(u), NEW t, Holds(u, t), t.freq = u.freq, t.bw \in Nat,
           t.rate \in Nat, t.rate <= 3200
    PROVE  Fit(t)
<1>1. t.offs = u.offs /\ t.ds = u.ds /\ IsR82xx(t) = IsR82xx(u)
  BY HoldsFields
<1>2. Sane(t)
  BY <1>1 DEF Fit, Sane
<1>3. Known(t) /\ Level(t) /\ (t.freq # 0 => Centre(t, t.freq))
  BY HoldsFit DEF Fit, Aligned
<1> QED
  BY <1>1, <1>2, <1>3 DEF Fit, Aligned

LEMMA FilterHears ==
    ASSUME NEW u, Rec(u), ~IsR82xx(u), NEW w
    PROVE  Hears(u, FilterTuner(u, w))
<1>1. CASE ~HasTuner(u)
  <2>1. FilterTuner(u, w) = u
    BY <1>1 DEF FilterTuner
  <2> QED
    BY <2>1 DEF Hears, Holds
<1>2. CASE HasTuner(u)
  <2>1. PICK r : r = Repeater(u, TRUE)
    OBVIOUS
  <2>2. PICK x : x = SetTunerBw(r, w)
    OBVIOUS
  <2>3. PICK t : t = Repeater(x, FALSE)
    OBVIOUS
  <2>4. FilterTuner(u, w) = t
    BY <1>2, <2>1, <2>2, <2>3 DEF FilterTuner
  <2>5. Only({"rep"}, u, r)
    BY <2>1, RepeaterDone
  <2>6. Hears(u, r)
    BY <2>5, HearsOnly DEF Banding
  <2>7. Rec(r) /\ ~IsR82xx(r)
    <3>1. Rec(r)
      BY <2>5 DEF Only
    <3>2. ~IsR82xx(r)
      BY <2>5, KnownOnly
    <3> QED
      BY <3>1, <3>2
  <2>8. Hears(r, x) /\ Rec(x)
    <3>1. \E R \in SUBSET {"filt", "auto"} : Steers(R, r, x)
      <4>1. CASE r.type = "E4000"
        <5>1. x = E4kSetBw(r, w)
          BY <2>2, <4>1 DEF SetTunerBw, IsR82xx
        <5>2. Steers({"filt"}, r, x)
          BY <2>7, <5>1, E4kSet
        <5> QED
          BY <5>2
      <4>2. CASE r.type = "FC2580"
        <5>1. x = Fc2580SetBw(r)
          BY <2>2, <4>2 DEF SetTunerBw, IsR82xx
        <5>2. Steers({"filt", "auto"}, r, x)
          BY <2>7, <5>1, Fc2580Done
        <5> QED
          BY <5>2
      <4>3. CASE r.type # "E4000" /\ r.type # "FC2580"
        <5>1. x = Ok(r)
          BY <2>2, <2>7, <4>3 DEF SetTunerBw
        <5>2. Steers({}, r, x)
          BY <2>7, <5>1, Opened
        <5> QED
          BY <5>2
      <4> QED
        BY <4>1, <4>2, <4>3
    <3>2. PICK R \in SUBSET {"filt", "auto"} : Steers(R, r, x)
      BY <3>1
    <3>3. x.chip["input"] = r.chip["input"]
      BY <3>2 DEF Steers, Regs
    <3>4. Rec(x)
      BY <2>7, <3>2, Same
    <3> QED
      BY <2>7, <3>2, <3>3, <3>4, SteersHears
  <2>9. Only({"rep"}, x, t)
    BY <2>3, <2>8, RepeaterDone
  <2>10. Hears(x, t)
    BY <2>9, HearsOnly DEF Banding
  <2>11. Hears(u, x)
    BY <2>6, <2>8, HearsTwice
  <2> QED
    BY <2>4, <2>10, <2>11, HearsTwice
<1> QED
  BY <1>1, <1>2

(* The filter of an R82xx moves its IF: the demodulator follows.           *)
LEMMA FilterNear ==
    ASSUME NEW r, Ready(r), Live(r), IsR82xx(r), NEW bw \in Nat
    PROVE  Ready(SetTunerBw(r, bw))
<1>1. PICK i : i = FilterFor(bw).intf
  OBVIOUS
<1>2. PICK b : b = R82xxSetBandwidth(r, bw)
  OBVIOUS
<1>3. PICK c : c = SetIfFreq(b, i)
  OBVIOUS
<1>4. Rec(r) /\ Still(r) /\ Near(r)
  BY ReadyNear DEF Ready
<1>5. Mirrors({"filt", "intf"}, r, b) /\ b.intf = i /\ b.rc = 0
  BY <1>1, <1>2, <1>4, R82xxFiltered
<1>6. Tunes(NotTuning, r, b)
  BY <1>4, <1>5, TunesMirrors DEF NotTuning, NotPower, Regs, Marks
<1>7. Only(Api, r, b) /\ Still(b) /\ Sound(b)
  BY <1>4, <1>6, TunesSound DEF Ready
<1>8. Rec(b) /\ Calm(b)
  BY <1>7, ApiStays DEF Still, Ready
<1>9. PICK w : w = IfWord(b, i)
  OBVIOUS
<1>10. c = Demod(b, "ifr", w)
  BY <1>3, <1>9 DEF SetIfFreq
<1>11. Only({"ifr"}, b, c) /\ c.rc = 0 /\ c.ifr = w
  BY <1>8, <1>10, DemodDone DEF DemodFields
<1>12. i \in Int /\ 0 <= i /\ i <= 5000
  BY <1>1, FilterIf DEF WithinIf
<1>13. c.ifr.f = i
  BY <1>9, <1>11, <1>12, IfWordAs
<1>14. SetTunerBw(r, bw) = Retune(c)
  <2>1. Then(b, LAMBDA v : SetIfFreq(v, v.intf)) = c
    BY <1>3, <1>5 DEF Then
  <2>2. SetTunerBw(r, bw) = Then(c, Retune)
    BY <1>2, <2>1 DEF SetTunerBw, IsR82xx
  <2> QED
    BY <1>11, <2>2 DEF Then
<1>15. Carries(b, c)
  BY <1>3, <1>7, IfFreqCarries
<1>16. Still(c) /\ Calm(c) /\ Steady(c, c.ds)
  BY <1>7, <1>8, <1>15, ApiStays DEF Carries, Sound
<1>17. /\ b.dongle = r.dongle /\ b.type = r.type /\ b.v4 = r.v4 /\ b.v4l = r.v4l
       /\ b.xtal = r.xtal /\ b.offs = r.offs /\ b.ds = r.ds /\ b.freq = r.freq
       /\ b.rate = r.rate /\ b.bw = r.bw
       /\ b.input = r.input /\ b.gpio5 = r.gpio5 /\ b.chip["input"] = r.chip["input"]
  <2>1. b.input = r.input /\ b.gpio5 = r.gpio5 /\ b.chip["input"] = r.chip["input"]
    BY <1>5 DEF Mirrors, Steers, Marks, Regs
  <2>2. Steers({"filt", "intf"}, r, b)
    BY <1>5 DEF Mirrors
  <2> QED
    BY <2>1, <2>2, ChipKept
<1>18. /\ c.dongle = b.dongle /\ c.type = b.type /\ c.v4 = b.v4 /\ c.v4l = b.v4l
       /\ c.xtal = b.xtal /\ c.offs = b.offs /\ c.ds = b.ds /\ c.freq = b.freq
       /\ c.rate = b.rate /\ c.bw = b.bw /\ c.intf = b.intf
       /\ c.input = b.input /\ c.gpio5 = b.gpio5 /\ c.chip = b.chip
  BY <1>11 DEF Only, StateFields
<1>19. Known(c)
  BY <1>4, <1>17, <1>18, KnownStays DEF Near
<1>20. Sane(c)
  <2>1. c.freq \in Nat
    BY <1>4, <1>17, <1>18 DEF Near, Sane
  <2> QED
    BY <1>4, <1>17, <1>18, <2>1, SaneStays DEF Near
<1>21. Level(c)
  <2>1. IsR82xx(c) /\ HasTuner(r)
    BY <1>17, <1>18 DEF IsR82xx, HasTuner
  <2>2. c.ds = 0 => InputAgrees(r)
    BY <1>4, <1>17, <1>18, <2>1 DEF Near, Level, Plumb
  <2>3. c.ds = 0 => InputAgrees(c)
    BY <1>17, <1>18, <2>2 DEF InputAgrees
  <2> QED
    BY <1>5, <1>12, <1>13, <1>18, <2>1, <2>3 DEF Level, Plumb
<1>22. c.offs # 0 => c.ds = 0
  BY <1>4, <1>17, <1>18 DEF Near
<1>23. Near(c)
  BY <1>16, <1>19, <1>20, <1>21, <1>22 DEF Near
<1> QED
  BY <1>14, <1>23, RetuneReady

LEMMA FilterReady ==
    ASSUME NEW u, Ready(u), NEW bw \in Nat
    PROVE  Ready(FilterTuner(u, bw))
<1>1. Rec(u) /\ Still(u)
  BY ReadyNear DEF Ready
<1>2. CASE ~IsR82xx(u)
  BY <1>1, <1>2, FilterHears, FilterCarries, ReadyCarries
<1>3. CASE IsR82xx(u)
  <2>1. PICK r : r = Repeater(u, TRUE)
    OBVIOUS
  <2>2. Ready(r) /\ r.rep = TRUE
    BY <2>1, ReadyRepeater
  <2>3. Live(r)
    BY <2>2 DEF Ready, Calm, Live
  <2>4. Only({"rep"}, u, r)
    BY <1>1, <2>1, RepeaterDone
  <2>5. IsR82xx(r)
    BY <1>3, <2>4, KnownOnly
  <2>6. PICK x : x = SetTunerBw(r, bw)
    OBVIOUS
  <2>7. Ready(x)
    BY <2>2, <2>3, <2>5, <2>6, FilterNear
  <2>8. FilterTuner(u, bw) = Repeater(x, FALSE)
    BY <1>3, <2>1, <2>6 DEF FilterTuner, HasTuner, IsR82xx
  <2> QED
    BY <2>7, <2>8, ReadyRepeater
<1> QED
  BY <1>2, <1>3

LEMMA BandwidthReady ==
    ASSUME NEW u, Ready(u), NEW bw \in Nat
    PROVE  Ready(SetTunerBandwidth(u, bw))
<1>1. PICK a : a = Ok(u)
  OBVIOUS
<1>2. PICK w : w = IF bw > 0 THEN bw ELSE u.rate
  OBVIOUS
<1>3. PICK b : b = FilterTuner(a, w)
  OBVIOUS
<1>4. PICK t : t = NoteWidth(b, bw)
  OBVIOUS
<1>5. SetTunerBandwidth(u, bw) = t
  BY <1>1, <1>2, <1>3, <1>4 DEF SetTunerBandwidth
<1>6. Rec(u) /\ Still(u) /\ w \in Nat
  <2>1. Rec(u) /\ Still(u)
    BY ReadyNear DEF Ready
  <2>2. u.rate \in Nat
    BY DEF Ready, Fit, Sane
  <2> QED
    BY <1>2, <2>1, <2>2
<1>7. Only({}, u, a)
  BY <1>1, <1>6, ResultOnly
<1>8. Hears(u, a)
  BY <1>7, HearsOnly
<1>9. Carries(u, a)
  BY <1>1, <1>6, ResultCarries
<1>10. Ready(a)
  BY <1>8, <1>9, ReadyCarries
<1>11. Ready(b)
  BY <1>3, <1>6, <1>10, FilterReady
<1>12. CASE HasTuner(b) /\ b.rc = 0
  <2>1. t = [b EXCEPT !.bw = bw]
    BY <1>4, <1>12 DEF NoteWidth
  <2>2. Rec(b) /\ Still(b)
    BY <1>11, ReadyNear DEF Ready
  <2>3. Only({"bw"}, b, t) /\ t.bw = bw
    BY <2>1, <2>2, FieldSet DEF Settings
  <2>4. Holds(b, t)
    BY <2>3, HoldsOnly DEF Banding
  <2>5. t.freq = b.freq /\ t.rate = b.rate
    BY <2>3 DEF Only, StateFields
  <2>6. Fit(b) /\ b.rate \in Nat /\ b.rate <= 3200
    BY <1>11 DEF Ready, Fit, Sane
  <2>7. Fit(t)
    BY <2>3, <2>4, <2>5, <2>6, SettingsFit
  <2>8. Carries(b, t)
    BY <2>2, <2>3, AsideCarries DEF Aside
  <2> QED
    BY <1>5, <1>11, <2>7, <2>8, ReadyCarries
<1>13. CASE ~(HasTuner(b) /\ b.rc = 0)
  <2>1. t = b
    BY <1>4, <1>13 DEF NoteWidth
  <2> QED
    BY <1>5, <1>11, <2>1
<1> QED
  BY <1>12, <1>13

(* The offset, of the highest rate.                                        *)
LEMMA OffsetBound ==
    ASSUME NEW rate \in Nat, rate <= 3200
    PROVE  /\ ((rate \div 2) * 170) \div 100 \in Nat
           /\ ((rate \div 2) * 170) \div 100 <= 2720
<1>1. PICK half : half = rate \div 2
  OBVIOUS
<1>2. half \in Nat /\ half <= 1600
  BY <1>1
<1>3. PICK n : n = half * 170
  OBVIOUS
<1>4. n \in Nat /\ n <= 272000
  BY <1>2, <1>3
<1>5. n \div 100 \in Nat /\ n \div 100 <= 2720
  BY <1>4
<1> QED
  BY <1>1, <1>3, <1>5

LEMMA OffsetReady ==
    ASSUME NEW u, Ready(u), NEW on
    PROVE  Ready(SetOffsetTuning(u, on))
<1>1. PICK t : t = SetOffsetTuning(u, on)
  OBVIOUS
<1>2. Rec(u) /\ Still(u) /\ Calm(u) /\ Sound(u) /\ Known(u) /\ Sane(u)
  BY ReadyNear DEF Ready, Fit
<1>3. CASE IsR82xx(u) \/ u.ds # 0
  <2>1. t = Fail(u)
    BY <1>1, <1>3 DEF SetOffsetTuning
  <2>2. Only({}, u, t)
    BY <1>2, <2>1, ResultOnly
  <2>3. Hears(u, t)
    BY <2>2, HearsOnly
  <2>4. Carries(u, t)
    BY <1>2, <2>1, ResultCarries
  <2> QED
    BY <1>1, <2>3, <2>4, ReadyCarries
<1>4. CASE ~(IsR82xx(u) \/ u.ds # 0)
  <2>1. PICK offs : offs = IF on THEN ((u.rate \div 2) * 170) \div 100 ELSE 0
    OBVIOUS
  <2>2. PICK width : width = IF on THEN 2 * offs ELSE AutoWidth(u)
    OBVIOUS
  <2>3. PICK a : a = [u EXCEPT !.offs = offs]
    OBVIOUS
  <2>4. PICK b : b = SetIfFreq(a, offs)
    OBVIOUS
  <2>5. PICK c : c = FilterTuner(b, width)
    OBVIOUS
  <2>6. PICK d : d = Keep(b.rc, c)
    OBVIOUS
  <2>7. t = IF u.freq > offs THEN Retune(d) ELSE d
    BY <1>1, <1>4, <2>1, <2>2, <2>3, <2>4, <2>5, <2>6 DEF SetOffsetTuning, RetuneIf
  <2>8. offs \in Nat /\ offs <= 2720
    <3>1. u.rate \in Nat /\ u.rate <= 3200
      BY <1>2 DEF Sane
    <3>2. /\ ((u.rate \div 2) * 170) \div 100 \in Nat
          /\ ((u.rate \div 2) * 170) \div 100 <= 2720
      BY <3>1, OffsetBound
    <3> QED
      BY <2>1, <3>2
  <2>9. Only({"offs"}, u, a) /\ a.offs = offs
    BY <1>2, <2>3, FieldSet DEF Settings
  <2>10. Carries(u, a)
    BY <1>2, <2>9, AsideCarries DEF Aside
  <2>11. Still(a) /\ Calm(a) /\ Rec(a)
    BY <1>2, <2>10, ApiStays DEF Carries, Still
  <2>12. PICK w : w = IfWord(a, offs)
    OBVIOUS
  <2>13. b = Demod(a, "ifr", w)
    BY <2>4, <2>12 DEF SetIfFreq
  <2>14. Only({"ifr"}, a, b) /\ b.ifr = w
    BY <2>11, <2>13, DemodDone DEF DemodFields
  <2>15. b.ifr.f = offs
    <3>1. offs \in Int /\ 0 <= offs /\ offs <= 5000
      BY <2>8
    <3>2. w.f = offs
      BY <2>12, <3>1, IfWordAs
    <3> QED
      BY <2>14, <3>2
  <2>16. Carries(a, b)
    BY <2>4, <2>11, IfFreqCarries
  <2>17. Still(b) /\ Rec(b)
    BY <2>16 DEF Carries, Still
  <2>18. Only({"offs", "ifr"}, u, b)
    BY <2>9, <2>14, OnlyTwice
  <2>19. b.offs = a.offs
    BY <2>14 DEF Only, StateFields
  <2>20. /\ b.freq = u.freq /\ b.rate = u.rate /\ b.bw = u.bw /\ b.ds = u.ds
    BY <2>18 DEF Only, StateFields
  <2>21. Known(b) /\ ~IsR82xx(b) /\ HasTuner(b) = HasTuner(u)
    BY <1>2, <1>4, <2>18, KnownOnly
  <2>22. Sane(b)
    BY <1>2, <2>8, <2>9, <2>19, <2>20, <2>21 DEF Sane
  <2>23. Level(b)
    BY <2>9, <2>15, <2>19, <2>21 DEF Level, Plumb
  <2>24. Hears(b, c)
    BY <2>5, <2>17, <2>21, FilterHears
  <2>25. Carries(b, c)
    BY <2>5, <2>17, FilterCarries
  <2>26. Still(c) /\ Rec(c)
    BY <2>25 DEF Carries, Still
  <2>27. Only({}, c, d)
    BY <2>6, <2>17, <2>26, ResultOnly
  <2>28. Hears(b, d)
    <3>1. Hears(c, d)
      BY <2>27, HearsOnly
    <3> QED
      BY <2>24, <3>1, HearsTwice
  <2>29. Carries(u, d)
    <3>1. Carries(c, d)
      BY <2>6, <2>17, <2>26, ResultCarries
    <3>2. Carries(u, b)
      BY <2>10, <2>16, CarriesTwice
    <3>3. Carries(u, c)
      BY <2>25, <3>2, CarriesTwice
    <3> QED
      BY <3>1, <3>3, CarriesTwice
  <2>30. Still(d) /\ Sound(d) /\ Calm(d)
    BY <1>2, <2>29, ApiStays DEF Carries
  <2>31. Known(d) /\ Sane(d) /\ Level(d)
    BY <2>21, <2>22, <2>23, <2>28, HearsFit
  <2>32. d.freq = u.freq /\ d.ds = 0 /\ HasTuner(d) = HasTuner(u) /\ ~IsR82xx(d)
    <3>1. d.freq = b.freq /\ d.ds = b.ds /\ HasTuner(d) = HasTuner(b) /\ IsR82xx(d) = IsR82xx(b)
      BY <2>28, HoldsFields DEF Hears
    <3> QED
      BY <1>4, <2>20, <2>21, <3>1
  <2>33. CASE u.freq > offs
    <3>1. Near(d)
      BY <2>30, <2>31, <2>32 DEF Near, Sound
    <3> QED
      BY <1>1, <2>7, <2>33, <3>1, RetuneReady
  <2>34. CASE ~(u.freq > offs)
    <3>1. t = d
      BY <2>7, <2>34
    <3>2. u.freq \in Nat /\ u.freq <= 2720
      BY <1>2, <2>8, <2>34 DEF Sane
    <3>3. ~Reach(d, d.freq)
      <4>1. d.dongle \notin {"R820T", "R828D", "V4", "V4L"}
        BY <2>31, <2>32, KnownType
      <4>2. d.freq \in Nat /\ d.freq <= 2720
        BY <2>32, <3>2
      <4>3. ~(14000 <= d.freq) /\ ~(64000 <= d.freq)
        BY <4>2
      <4> QED
        BY <4>1, <4>3 DEF Reach
    <3>4. d.freq # 0 => HasTuner(d)
      BY <1>4, <2>32 DEF Ready, Fit, Aligned, Centre
    <3>5. Aligned(d)
      BY <2>31, <2>32, <3>3, <3>4 DEF Aligned, Centre
    <3> QED
      BY <1>1, <2>30, <2>31, <3>1, <3>5 DEF Ready, Fit
  <2> QED
    BY <2>33, <2>34
<1> QED
  BY <1>3, <1>4

(* Settings that decide nothing about the band.                            *)
LEMMA ReadyAside ==
    ASSUME NEW u, Ready(u), NEW t, Carries(u, t), NEW W, Only(W, u, t),
           W \cap (Banding \cup {"chip", "input", "freq", "rate", "bw"}) = {}
    PROVE  Ready(t)
<1>1. Hears(u, t)
  BY HearsOnly
<1> QED
  BY <1>1, ReadyCarries

(* A sample rate the interface takes.                                      *)
Ratable(rate) == rate \in Nat /\ rate <= 3200

LEMMA RateReady ==
    ASSUME NEW u, Ready(u), NEW rate, Ratable(rate)
    PROVE  Ready(SetSampleRate(u, rate))
<1>1. PICK a : a = Ok(u)
  OBVIOUS
<1>2. PICK b : b = [a EXCEPT !.rate = rate]
  OBVIOUS
<1>3. PICK w : w = AutoWidth(b)
  OBVIOUS
<1>4. PICK c : c = FilterTuner(b, w)
  OBVIOUS
<1>5. PICK d : d = Keep(0, c)
  OBVIOUS
<1>6. PICK e : e = OrDemod(d, "resamp", rate)
  OBVIOUS
<1>7. PICK ppm : ppm = u.corr
  OBVIOUS
<1>8. PICK f : f = OrDemod(e, "sync", ppm)
  OBVIOUS
<1>9. PICK g : g = OrDemod(f, "rep", FALSE)
  OBVIOUS
<1>10. PICK t : t = Reoffset(g)
  OBVIOUS
<1>11. SetSampleRate(u, rate) = t
  BY <1>1, <1>2, <1>3, <1>4, <1>5, <1>6, <1>7, <1>8, <1>9, <1>10 DEF SetSampleRate
<1>12. Rec(u) /\ Still(u)
  BY ReadyNear DEF Ready
<1>13. Only({}, u, a) /\ Carries(u, a)
  BY <1>1, <1>12, ResultOnly, ResultCarries
<1>14. Ready(a)
  BY <1>13, ReadyAside DEF Banding
<1>15. Rec(a) /\ Still(a)
  BY <1>14, ReadyNear DEF Ready
<1>16. Only({"rate"}, a, b) /\ b.rate = rate
  BY <1>2, <1>15, FieldSet DEF Settings
<1>17. Carries(a, b)
  BY <1>15, <1>16, AsideCarries DEF Aside
<1>18. Ready(b)
  <2>1. Holds(a, b)
    BY <1>16, HoldsOnly DEF Banding
  <2>2. b.freq = a.freq /\ b.bw = a.bw
    BY <1>16 DEF Only, StateFields
  <2>3. Fit(a) /\ a.bw \in Nat
    BY <1>14 DEF Ready, Fit, Sane
  <2>4. b.bw \in Nat /\ b.rate \in Nat /\ b.rate <= 3200
    BY <1>16, <2>2, <2>3 DEF Ratable
  <2>5. Fit(b)
    BY <2>1, <2>2, <2>3, <2>4, SettingsFit
  <2> QED
    BY <1>14, <1>17, <2>5, ReadyCarries
<1>19. w \in Nat
  BY <1>3, <1>18 DEF AutoWidth, Ready, Fit, Sane
<1>20. Ready(c)
  BY <1>4, <1>18, <1>19, FilterReady
<1>21. Rec(c) /\ Still(c)
  BY <1>20, ReadyNear DEF Ready
<1>22. Only({}, c, d) /\ Carries(c, d)
  BY <1>5, <1>21, ResultOnly, ResultCarries
<1>23. Ready(d)
  BY <1>20, <1>22, ReadyAside DEF Banding
<1>24. Rec(d) /\ Still(d)
  BY <1>23, ReadyNear DEF Ready
<1>25. Only({"resamp"}, d, e)
  BY <1>6, <1>24, OrDemodDone DEF DemodFields
<1>26. Ready(e)
  <2>1. Carries(d, e)
    BY <1>24, <1>25, AsideCarries DEF Aside
  <2> QED
    BY <1>23, <1>25, <2>1, ReadyAside DEF Banding
<1>27. Rec(e) /\ Still(e)
  BY <1>26, ReadyNear DEF Ready
<1>28. Only({"sync"}, e, f)
  BY <1>8, <1>27, OrDemodDone DEF DemodFields
<1>29. Ready(f)
  <2>1. Carries(e, f)
    BY <1>27, <1>28, AsideCarries DEF Aside
  <2> QED
    BY <1>26, <1>28, <2>1, ReadyAside DEF Banding
<1>30. Rec(f) /\ Still(f) /\ Calm(f)
  BY <1>29, ReadyNear DEF Ready
<1>31. Only({"rep"}, f, g) /\ (Calm(f) => g.rep = FALSE)
  BY <1>9, <1>30, Switched, Zenon
<1>32. Ready(g)
  <2>1. Only(Api, f, g)
    BY <1>31, OnlyMore DEF Api, StateFields
  <2>2. Rec(g) /\ g.ppm = f.ppm /\ g.corr = f.corr /\ g.turn = f.turn /\ g.deep = f.deep
    BY <1>31 DEF Only, StateFields
  <2>3. Sound(f) => Sound(g)
    BY <1>31, SoundStays
  <2>4. Carries(f, g)
    BY <1>30, <1>31, <2>1, <2>2, <2>3 DEF Carries, Still
  <2> QED
    BY <1>29, <1>31, <2>4, ReadyAside DEF Banding
<1>33. CASE g.offs # 0
  <2>1. PICK h : h = SetOffsetTuning(g, TRUE)
    OBVIOUS
  <2>2. t = Keep(g.rc, h)
    BY <1>10, <1>33, <2>1 DEF Reoffset
  <2>3. Ready(h) /\ Rec(g)
    BY <1>32, <2>1, OffsetReady, ReadyNear
  <2>4. Rec(h) /\ Still(h)
    BY <2>3, ReadyNear DEF Ready
  <2>5. Only({}, h, t) /\ Carries(h, t)
    BY <2>2, <2>3, <2>4, ResultOnly, ResultCarries
  <2>6. Ready(t)
    BY <2>3, <2>5, ReadyAside DEF Banding
  <2> QED
    BY <1>11, <2>6
<1>34. CASE ~(g.offs # 0)
  <2>1. t = g
    BY <1>10, <1>34 DEF Reoffset
  <2> QED
    BY <1>11, <1>32, <2>1
<1> QED
  BY <1>33, <1>34

LEMMA CorrectionReady ==
    ASSUME NEW u, Ready(u), NEW ppm
    PROVE  Ready(SetFreqCorrection(u, ppm))
<1>1. PICK t : t = SetFreqCorrection(u, ppm)
  OBVIOUS
<1>2. Rec(u) /\ Still(u) /\ Calm(u) /\ Near(u)
  BY ReadyNear DEF Ready
<1>3. Carries(u, t)
  BY <1>1, <1>2, CorrectionCarries
<1>4. CASE u.corr = ppm
  <2>1. t = Fail(u)
    BY <1>1, <1>4 DEF SetFreqCorrection
  <2>2. Only({}, u, t)
    BY <1>2, <2>1, ResultOnly
  <2> QED
    BY <1>1, <1>3, <2>2, ReadyAside DEF Banding
<1>5. CASE u.corr # ppm
  <2>1. PICK a : a = [u EXCEPT !.corr = ppm]
    OBVIOUS
  <2>2. PICK b : b = Demod(a, "sync", ppm)
    OBVIOUS
  <2>3. PICK c : c = [b EXCEPT !.ppm = ppm]
    OBVIOUS
  <2>4. t = IF u.freq # 0 THEN Retune(c) ELSE c
    BY <1>1, <1>5, <2>1, <2>2, <2>3
       DEF SetFreqCorrection, RetuneIf, SetSampleFreqCorrection
  <2>5. Only({"corr"}, u, a) /\ a.corr = ppm
    BY <1>2, <2>1, FieldSet DEF Settings
  <2>6. Rec(a)
    BY <2>5 DEF Only
  <2>7. Only({"sync"}, a, b)
    BY <2>2, <2>6, DemodDone DEF DemodFields
  <2>8. Rec(b)
    BY <2>7 DEF Only
  <2>9. Only({"ppm"}, b, c) /\ c.ppm = ppm
    BY <2>3, <2>8, FieldSet DEF Settings
  <2>10. Only({"corr", "sync"}, u, b)
    BY <2>5, <2>7, OnlyTwice
  <2>11. Only({"corr", "sync", "ppm"}, u, c)
    BY <2>9, <2>10, OnlyTwice
  <2>12. Hears(u, c)
    BY <2>11, HearsOnly DEF Banding
  <2>13. CASE u.freq # 0
    <3>1. /\ c.turn = u.turn /\ c.deep = u.deep /\ c.ds = u.ds /\ c.offs = u.offs
          /\ c.fault = u.fault
      BY <2>11 DEF Only, StateFields
    <3>2. c.corr = ppm
      <4>1. b.corr = a.corr /\ c.corr = b.corr
        BY <2>7, <2>9 DEF Only, StateFields
      <4> QED
        BY <2>5, <4>1
    <3>3. Rec(c)
      BY <2>9 DEF Only
    <3>4. Still(c) /\ Calm(c)
      BY <1>2, <2>9, <3>1, <3>2, <3>3 DEF Still, Calm
    <3>5. \A d : Steady(u, d) => Steady(c, d)
      BY <2>11, SteadyStays
    <3>6. Known(c) /\ Sane(c) /\ Level(c)
      BY <1>2, <2>12, HearsFit DEF Near
    <3>7. Near(c)
      BY <1>2, <3>1, <3>4, <3>5, <3>6 DEF Near
    <3>8. t = Retune(c)
      BY <2>4, <2>13
    <3> QED
      BY <1>1, <3>7, <3>8, RetuneReady
  <2>14. CASE ~(u.freq # 0)
    <3>1. t = c
      BY <2>4, <2>14
    <3> QED
      BY <1>1, <1>3, <2>12, <3>1, ReadyCarries
  <2> QED
    BY <2>13, <2>14
<1> QED
  BY <1>4, <1>5

(* A driver's gain function on its own.                                    *)
LEMMA GainSteps ==
    ASSUME NEW r, Ready(r), Live(r), HasTuner(r), NEW v
    PROVE  Ready(TunerGain(r, v)) /\ Ready(TunerGainMode(r, v))
<1>1. PICK x : x = TunerGain(r, v)
  OBVIOUS
<1>2. PICK y : y = TunerGainMode(r, v)
  OBVIOUS
<1>3. Still(r) /\ Rec(r) /\ Sound(r) /\ Calm(r)
  BY ReadyNear DEF Ready
<1>4. Tunes(NotTuning, r, x) /\ Tunes(NotTuning, r, y)
  BY <1>1, <1>2, <1>3, TunerSets
<1>5. Hears(r, x) /\ Hears(r, y)
  BY <1>1, <1>2, <1>3, GainHears
<1>6. ASSUME NEW z, Tunes(NotTuning, r, z), Hears(r, z) PROVE Ready(z)
  <2>1. Only(Api, r, z) /\ Still(z) /\ Sound(z)
    BY <1>3, <1>6, TunesSound
  <2>2. Calm(z)
    BY <1>3, <2>1, ApiStays
  <2>3. Fit(z)
    BY <1>6, HearsFit DEF Ready
  <2> QED
    BY <2>1, <2>2, <2>3 DEF Ready
<1> QED
  BY <1>1, <1>2, <1>4, <1>5, <1>6

LEMMA GainReady ==
    ASSUME NEW u, Ready(u), NEW v
    PROVE  Ready(SetTunerGain(u, v)) /\ Ready(SetTunerGainMode(u, v))
<1>1. PICK r : r = Repeater(u, TRUE)
  OBVIOUS
<1>2. PICK g : g = IF HasTuner(u) THEN Repeater(TunerGain(r, v), FALSE) ELSE Ok(u)
  OBVIOUS
<1>3. PICK m : m = SetTunerGainMode(u, v)
  OBVIOUS
<1>4. Rec(u) /\ Still(u)
  BY ReadyNear DEF Ready
<1>5. Ready(g) /\ Ready(m)
  <2>1. CASE ~HasTuner(u)
    <3>1. g = Ok(u) /\ m = Ok(u)
      BY <1>1, <1>2, <1>3, <2>1 DEF SetTunerGainMode
    <3>2. Only({}, u, g) /\ Carries(u, g)
      BY <1>4, <3>1, ResultOnly, ResultCarries
    <3>3. Ready(g)
      BY <3>2, ReadyAside DEF Banding
    <3> QED
      BY <3>1, <3>3
  <2>2. CASE HasTuner(u)
    <3>1. Ready(r) /\ r.rep = TRUE
      BY <1>1, ReadyRepeater
    <3>2. Live(r)
      BY <3>1 DEF Ready, Calm, Live
    <3>3. Only({"rep"}, u, r)
      BY <1>1, <1>4, RepeaterDone
    <3>4. HasTuner(r)
      BY <2>2, <3>3, KnownOnly
    <3>5. PICK x : x = TunerGain(r, v)
      OBVIOUS
    <3>6. PICK y : y = TunerGainMode(r, v)
      OBVIOUS
    <3>7. g = Repeater(x, FALSE) /\ m = Repeater(y, FALSE)
      BY <1>1, <1>2, <1>3, <2>2, <3>5, <3>6 DEF SetTunerGainMode
    <3>8. Ready(x) /\ Ready(y)
      BY <3>1, <3>2, <3>4, <3>5, <3>6, GainSteps
    <3> QED
      BY <3>7, <3>8, ReadyRepeater
  <2> QED
    BY <2>1, <2>2
<1>6. PICK w : w = IF g.rc = 0 THEN v ELSE 0
  OBVIOUS
<1>7. PICK t : t = [g EXCEPT !.gain = w]
  OBVIOUS
<1>8. SetTunerGain(u, v) = t
  BY <1>1, <1>2, <1>6, <1>7 DEF SetTunerGain, NoteGain
<1>9. Rec(g) /\ Still(g)
  BY <1>5, ReadyNear DEF Ready
<1>10. Only({"gain"}, g, t)
  BY <1>7, <1>9, FieldSet DEF Settings
<1>11. Carries(g, t)
  BY <1>9, <1>10, AsideCarries DEF Aside
<1>12. Ready(t)
  BY <1>5, <1>10, <1>11, ReadyAside DEF Banding
<1> QED
  BY <1>3, <1>5, <1>8, <1>12

LEMMA TuneReady ==
    ASSUME NEW u, Ready(u), NEW f \in Nat
    PROVE  Ready(Tune(u, f))
<1>1. Rec(u) /\ Near(u) /\ Still(u)
  BY ReadyNear DEF Ready
<1>2. Fit(Tune(u, f))
  BY <1>1, TuneAligned DEF Near, Still
<1>3. Carries(u, Tune(u, f))
  BY <1>1, TuneCarries
<1> QED
  BY <1>2, <1>3, ReadyCarries

(* Offset tuning must be off.                                              *)
LEMMA DirectReady ==
    ASSUME NEW u, Ready(u), u.offs = 0, NEW on
    PROVE  Ready(SetDirectSampling(u, on))
<1>1. Rec(u) /\ Near(u) /\ Still(u)
  BY ReadyNear DEF Ready
<1>2. Fit(SetDirectSampling(u, on))
  BY <1>1, DirectAligned DEF Near, Still, Steady
<1>3. Carries(u, SetDirectSampling(u, on))
  BY <1>1, DirectCarries
<1> QED
  BY <1>2, <1>3, ReadyCarries

-----------------------------------------------------------------------------
(* Opening finds the dongle that is plugged in.                            *)

LEMMA ProbeAnswers ==
    ASSUME NEW u, Rec(u), Live(u), NEW type \in Types \ {"none"}
    PROVE  /\ ProbeOne(u, type).type =
                IF u.type = "none" /\ TypeOf(u.dongle) = type THEN type ELSE u.type
           /\ Rec(ProbeOne(u, type)) /\ Live(ProbeOne(u, type))
           /\ ProbeOne(u, type).dongle = u.dongle
<1>1. PICK t : t = ProbeOne(u, type)
  OBVIOUS
<1>2. PICK a : a = TunerRead(u)
  OBVIOUS
<1>3. Probing(u, t) /\ Rec(t)
  <2>1. type \in Types
    OBVIOUS
  <2> QED
    BY <1>1, <2>1, ProbedOne
<1>4. t.dongle = u.dongle /\ t.rep = u.rep /\ t.fault = u.fault
  BY <1>3 DEF Probing, Only, StateFields
<1>5. a.rc = 0
  <2>1. PICK b : b = [u EXCEPT !.n = @ + 1]
    OBVIOUS
  <2>2. ~FaultHits(b)
    <3>1. b.fault = u.fault
      BY <2>1 DEF Rec, StateFields
    <3> QED
      BY <3>1 DEF FaultHits, Live, NoFault
  <2>3. a = Ok(b)
    BY <1>2, <2>1, <2>2 DEF TunerRead, TunerAccess, Access, Live
  <2>4. DOMAIN b = StateFields
    BY <2>1 DEF Rec
  <2> QED
    BY <2>3, <2>4 DEF Ok, StateFields
<1>6. Only({"blind"}, u, a)
  BY <1>2, Asked
<1>7. a.type = u.type /\ DOMAIN a = StateFields
  BY <1>6 DEF Only, StateFields, Rec
<1>8. CASE u.type # "none"
  <2>1. t = u
    BY <1>1, <1>8 DEF ProbeOne
  <2> QED
    BY <1>1, <1>3, <1>4, <1>8, <2>1, SMTT(30)
<1>9. CASE u.type = "none" /\ TypeOf(u.dongle) = type
  <2>1. t = [a EXCEPT !.type = type]
    BY <1>1, <1>2, <1>5, <1>9 DEF ProbeOne
  <2>2. t.type = type
    BY <1>7, <2>1 DEF StateFields
  <2> QED
    BY <1>1, <1>3, <1>4, <1>9, <2>2, SMTT(30) DEF Live
<1>10. CASE u.type = "none" /\ TypeOf(u.dongle) # type
  <2>1. t = a
    BY <1>1, <1>2, <1>10 DEF ProbeOne
  <2> QED
    BY <1>1, <1>3, <1>4, <1>7, <1>10, <2>1, SMTT(30) DEF Live
<1> QED
  BY <1>8, <1>9, <1>10

LEMMA TypesOfKinds == \A d \in Kinds : TypeOf(d) \in Types
  BY DEF Kinds, TypeOf, Types

LEMMA ProbeFinds ==
    ASSUME NEW u, Rec(u), Calm(u), u.type = "none", u.dongle \in Kinds
    PROVE  Probe(u).type = TypeOf(u.dongle)
<1>1. PICK r : r = Repeater(u, TRUE)
  OBVIOUS
<1>2. PICK a : a = ProbeOne(r, "E4000")
  OBVIOUS
<1>3. PICK b : b = ProbeOne(a, "FC0013")
  OBVIOUS
<1>4. PICK c : c = ProbeOne(b, "R820T")
  OBVIOUS
<1>5. PICK d : d = ProbeOne(c, "R828D")
  OBVIOUS
<1>6. PICK e : e = ResetByGpio4(d)
  OBVIOUS
<1>7. PICK f : f = ProbeOne(e, "FC2580")
  OBVIOUS
<1>8. PICK g : g = ProbeOne(f, "FC0012")
  OBVIOUS
<1>9. PICK t : t = OutputGpio6(g)
  OBVIOUS
<1>10. Probe(u) = t
  BY <1>1, <1>2, <1>3, <1>4, <1>5, <1>6, <1>7, <1>8, <1>9 DEF Probe
<1>11. PICK k : k = TypeOf(u.dongle)
  OBVIOUS
<1>12. k \in Types
  BY <1>11, TypesOfKinds
<1>13. Only({"rep"}, u, r) /\ (Calm(u) => r.rep = TRUE)
  BY <1>1, RepeaterDone
<1>14. Rec(r) /\ Live(r) /\ r.dongle = u.dongle /\ r.type = "none"
  <2>1. Rec(r)
    BY <1>13 DEF Only
  <2>2. r.fault = u.fault /\ r.dongle = u.dongle /\ r.type = u.type
    BY <1>13 DEF Only, StateFields
  <2> QED
    BY <1>13, <2>1, <2>2 DEF Live, Calm
<1>15. ASSUME NEW v, Rec(v), Live(v), v.dongle = u.dongle, NEW type \in Types \ {"none"},
              NEW w, w = ProbeOne(v, type)
       PROVE  /\ w.type = IF v.type = "none" /\ k = type THEN type ELSE v.type
              /\ Rec(w) /\ Live(w) /\ w.dongle = u.dongle
  BY <1>11, <1>15, ProbeAnswers
<1>25. {"E4000", "FC0013", "R820T", "R828D", "FC2580", "FC0012"} = Types \ {"none"}
  BY DEF Types
<1>16. /\ a.type = IF k = "E4000" THEN k ELSE "none"
       /\ Rec(a) /\ Live(a) /\ a.dongle = u.dongle
  <2>1. /\ a.type = IF r.type = "none" /\ k = "E4000" THEN "E4000" ELSE r.type
        /\ Rec(a) /\ Live(a) /\ a.dongle = u.dongle
    BY <1>2, <1>14, <1>15, <1>25
  <2> QED
    BY <1>14, <2>1
<1>17. /\ b.type = IF k \in {"E4000", "FC0013"} THEN k ELSE "none"
       /\ Rec(b) /\ Live(b) /\ b.dongle = u.dongle
  <2>1. /\ b.type = IF a.type = "none" /\ k = "FC0013" THEN "FC0013" ELSE a.type
        /\ Rec(b) /\ Live(b) /\ b.dongle = u.dongle
    BY <1>3, <1>15, <1>16, <1>25
  <2> QED
    BY <1>16, <2>1
<1>18. /\ c.type = IF k \in {"E4000", "FC0013", "R820T"} THEN k ELSE "none"
       /\ Rec(c) /\ Live(c) /\ c.dongle = u.dongle
  <2>1. /\ c.type = IF b.type = "none" /\ k = "R820T" THEN "R820T" ELSE b.type
        /\ Rec(c) /\ Live(c) /\ c.dongle = u.dongle
    BY <1>4, <1>15, <1>17, <1>25
  <2> QED
    BY <1>17, <2>1
<1>19. /\ d.type = IF k \in {"E4000", "FC0013", "R820T", "R828D"} THEN k ELSE "none"
       /\ Rec(d) /\ Live(d) /\ d.dongle = u.dongle
  <2>1. /\ d.type = IF c.type = "none" /\ k = "R828D" THEN "R828D" ELSE c.type
        /\ Rec(d) /\ Live(d) /\ d.dongle = u.dongle
    BY <1>5, <1>15, <1>18, <1>25
  <2> QED
    BY <1>18, <2>1
<1>20. e.type = d.type /\ Rec(e) /\ Live(e) /\ e.dongle = u.dongle
  <2>1. PICK p : p = Touch(d)
    OBVIOUS
  <2>2. PICK q : q = Touch(p)
    OBVIOUS
  <2>3. PICK x : x = Touch(q)
    OBVIOUS
  <2>4. e = d \/ e = x
    BY <1>6, <2>1, <2>2, <2>3 DEF ResetByGpio4
  <2>5. Only({}, d, p) /\ Rec(p)
    BY <1>19, <2>1, TouchDone DEF Only
  <2>6. Only({}, p, q) /\ Rec(q)
    BY <2>2, <2>5, TouchDone DEF Only
  <2>7. Only({}, q, x)
    BY <2>3, <2>6, TouchDone
  <2>8. Only({}, d, q)
    BY <2>5, <2>6, OnlyTwice
  <2>9. Only({}, d, x)
    BY <2>7, <2>8, OnlyTwice
  <2>10. x.type = d.type /\ x.dongle = d.dongle /\ x.rep = d.rep /\ x.fault = d.fault /\ Rec(x)
    BY <2>9 DEF Only, StateFields
  <2> QED
    BY <1>19, <2>4, <2>10 DEF Live
<1>21. /\ f.type = IF k \in {"E4000", "FC0013", "R820T", "R828D", "FC2580"} THEN k ELSE "none"
       /\ Rec(f) /\ Live(f) /\ f.dongle = u.dongle
  <2>1. e.type = IF k \in {"E4000", "FC0013", "R820T", "R828D"} THEN k ELSE "none"
    BY <1>19, <1>20
  <2>2. /\ f.type = IF e.type = "none" /\ k = "FC2580" THEN "FC2580" ELSE e.type
        /\ Rec(f) /\ Live(f) /\ f.dongle = u.dongle
    BY <1>7, <1>15, <1>20, <1>25
  <2> QED
    BY <2>1, <2>2
<1>22. /\ g.type = k /\ Rec(g)
  <2>1. /\ g.type = IF f.type = "none" /\ k = "FC0012" THEN "FC0012" ELSE f.type
        /\ Rec(g)
    BY <1>8, <1>15, <1>21, <1>25
  <2>2. k \in {"E4000", "FC0013", "R820T", "R828D", "FC2580", "FC0012", "none"}
    BY <1>12, <1>25
  <2> QED
    BY <1>21, <2>1, <2>2
<1>23. t.type = g.type
  <2>1. PICK p : p = Touch(g)
    OBVIOUS
  <2>2. PICK q : q = Keep(0, p)
    OBVIOUS
  <2>3. t = g \/ t = q
    BY <1>9, <2>1, <2>2 DEF OutputGpio6
  <2>4. Only({}, g, p) /\ Rec(p)
    BY <1>22, <2>1, TouchDone DEF Only
  <2>5. Only({}, p, q)
    BY <2>2, <2>4, ResultOnly
  <2>6. p.type = g.type /\ q.type = p.type
    BY <2>4, <2>5 DEF Only, StateFields
  <2> QED
    BY <2>3, <2>6
<1> QED
  BY <1>10, <1>11, <1>22, <1>23

LEMMA EepromTells ==
    ASSUME NEW u, Rec(u), Calm(u)
    PROVE  /\ ReadEeprom(u).v4 = (u.dongle = "V4")
           /\ ReadEeprom(u).v4l = (u.dongle = "V4L")
<1>1. PICK p : p = (u.dongle = "V4")
  OBVIOUS
<1>2. PICK q : q = (u.dongle = "V4L")
  OBVIOUS
<1>3. PICK b : b = [u EXCEPT !.n = @ + 1]
  OBVIOUS
<1>4. PICK c : c = [b EXCEPT !.v4 = p, !.v4l = q]
  OBVIOUS
<1>5. DOMAIN b = StateFields /\ b.fault = u.fault /\ b.dongle = u.dongle
  BY <1>3 DEF Rec, StateFields
<1>6. ~FaultHits(b)
  BY <1>5 DEF FaultHits, Calm, NoFault
<1>7. [b EXCEPT !.v4 = (b.dongle = "V4"), !.v4l = (b.dongle = "V4L")] = c
  BY <1>1, <1>2, <1>4, <1>5, Zenon
<1>8. ReadEeprom(u) = Ok(c)
  BY <1>3, <1>6, <1>7 DEF ReadEeprom, Access
<1>9. DOMAIN c = StateFields /\ c.v4 = p /\ c.v4l = q
  BY <1>4, <1>5 DEF StateFields
<1>10. Ok(c).v4 = p /\ Ok(c).v4l = q
  BY <1>9 DEF Ok, StateFields
<1> QED
  BY <1>1, <1>2, <1>8, <1>10, Zenon

LEMMA FoundKnown ==
    ASSUME NEW u, Rec(u), Calm(u), u.type = "none", u.dongle \in Kinds,
           Crystal(u.dongle) = IF u.dongle = "R828D" THEN 160 ELSE RtlXtal \div 100
    PROVE  Known(Found(u))
<1>1. PICK a : a = Touch(u)
  OBVIOUS
<1>2. PICK b : b = InitBaseband(a)
  OBVIOUS
<1>3. PICK c : c = ReadEeprom(b)
  OBVIOUS
<1>4. PICK d : d = Probe(c)
  OBVIOUS
<1>5. PICK t : t = TunerClock(d)
  OBVIOUS
<1>6. Found(u) = t
  BY <1>1, <1>2, <1>3, <1>4, <1>5 DEF Found
<1>7. Only({}, u, a)
  BY <1>1, TouchDone
<1>8. Rec(a)
  BY <1>7 DEF Only
<1>9. Only({"adc", "rep", "inv", "ifr", "swap", "zif"}, a, b)
  BY <1>2, <1>8, BasebandDone
<1>10. Rec(b) /\ b.type = "none" /\ b.dongle = u.dongle /\ Calm(b)
  <2>1. a.type = u.type /\ a.dongle = u.dongle /\ a.fault = u.fault
    BY <1>7 DEF Only, StateFields
  <2>2. Rec(b) /\ b.type = a.type /\ b.dongle = a.dongle /\ b.fault = a.fault
    BY <1>9 DEF Only, StateFields
  <2> QED
    BY <2>1, <2>2 DEF Calm
<1>11. Only({"v4", "v4l"}, b, c)
  BY <1>3, <1>10, EepromRead
<1>12. Rec(c) /\ c.type = "none" /\ c.dongle = u.dongle /\ Calm(c)
  <2>1. Rec(c) /\ c.type = b.type /\ c.dongle = b.dongle /\ c.fault = b.fault
    BY <1>11 DEF Only, StateFields
  <2> QED
    BY <1>10, <2>1 DEF Calm
<1>13. c.v4 = (c.dongle = "V4") /\ c.v4l = (c.dongle = "V4L")
  <2>1. c.v4 = (b.dongle = "V4") /\ c.v4l = (b.dongle = "V4L")
    BY <1>3, <1>10, EepromTells
  <2> QED
    BY <1>10, <1>12, <2>1, Zenon
<1>14. Only({"rep", "type", "blind"}, c, d)
  BY <1>4, <1>12, ProbeDone
<1>15. Rec(d) /\ d.dongle = c.dongle /\ d.v4 = c.v4 /\ d.v4l = c.v4l
  BY <1>14 DEF Only, StateFields
<1>16. d.type = TypeOf(c.dongle)
  BY <1>4, <1>12, ProbeFinds
<1>17. PICK x : x = IF d.type = "R828D" /\ ~d.v4 THEN 160 ELSE RtlXtal \div 100
  OBVIOUS
<1>18. t = [d EXCEPT !.xtal = x]
  BY <1>5, <1>17 DEF TunerClock
<1>19. /\ t.xtal = x /\ t.dongle = d.dongle /\ t.type = d.type /\ t.v4 = d.v4 /\ t.v4l = d.v4l
  BY <1>15, <1>18 DEF Rec, StateFields
<1>20. d.type = "R828D" /\ ~d.v4 <=> u.dongle = "R828D"
  <2>1. TypeOf(u.dongle) = "R828D" <=> u.dongle \in {"R828D", "V4"}
    BY DEF TypeOf
  <2>2. d.v4 <=> u.dongle = "V4"
    BY <1>12, <1>13, <1>15, Zenon
  <2> QED
    BY <1>12, <1>16, <2>1, <2>2
<1>21. x = IF u.dongle = "R828D" THEN 160 ELSE 288
  BY <1>17, <1>20 DEF RtlXtal
<1>22. Crystal(u.dongle) = x
  BY <1>21 DEF RtlXtal
<1>23. t.dongle = u.dongle /\ t.xtal = x /\ t.type = TypeOf(t.dongle)
  BY <1>12, <1>15, <1>16, <1>19
<1>24. t.v4 = (t.dongle = "V4") /\ t.v4l = (t.dongle = "V4L")
  BY <1>13, <1>15, <1>19, Zenon
<1> QED
  BY <1>6, <1>21, <1>22, <1>23, <1>24 DEF Known

(* No setting has been made yet.                                           *)
Unset(t) ==
    t.freq = 0 /\ t.rate = 0 /\ t.bw = 0 /\ t.offs = 0 /\ t.ds = 0

LEMMA InvertedIfDone ==
    ASSUME NEW u, Rec(u), Calm(u)
    PROVE  InvertedIf(u).ifr.f = 3570
<1>1. PICK a : a = Demod(u, "zif", FALSE)
  OBVIOUS
<1>2. PICK b : b = Demod(a, "adc", "i")
  OBVIOUS
<1>3. PICK w : w = IfWord(b, 3570)
  OBVIOUS
<1>4. PICK c : c = Demod(b, "ifr", w)
  OBVIOUS
<1>5. PICK t : t = InvertedIf(u)
  OBVIOUS
<1>6. t = Demod(c, "inv", TRUE)
  BY <1>1, <1>2, <1>3, <1>4, <1>5 DEF InvertedIf, SetIfFreq
<1>7. ASSUME NEW v, Rec(v)
      PROVE  \A field \in {"zif", "inv"} : \A on : Only({field}, v, Demod(v, field, on))
  <2>1. ASSUME NEW field \in {"zif", "inv"}, NEW on
        PROVE  Only({field}, v, Demod(v, field, on))
    <3>1. field \in DemodFields
      BY DEF DemodFields
    <3> QED
      BY <1>7, <3>1, DemodDone
  <2> QED
    BY <2>1
<1>8. Only({"zif"}, u, a)
  BY <1>1, <1>7, Zenon
<1>9. Rec(a)
  BY <1>8 DEF Only
<1>10. Only({"adc"}, a, b)
  BY <1>2, <1>9, DemodDone DEF DemodFields
<1>11. Rec(b) /\ Calm(b)
  <2>1. a.fault = u.fault /\ b.fault = a.fault
    BY <1>8, <1>10 DEF Only, StateFields
  <2> QED
    BY <1>10, <2>1 DEF Only, Calm
<1>12. Only({"ifr"}, b, c) /\ c.ifr = w
  BY <1>4, <1>11, DemodDone DEF DemodFields
<1>13. Rec(c)
  BY <1>12 DEF Only
<1>14. Only({"inv"}, c, t)
  BY <1>6, <1>7, <1>13, Zenon
<1>15. t.ifr = w
  BY <1>12, <1>14 DEF Only, StateFields
<1> QED
  BY <1>3, <1>5, <1>15, IfWordAs

(* A tuner that was just initialised.                                      *)
LEMMA InitAligned ==
    ASSUME NEW b, Rec(b), b.ppm = b.corr, Live(b), Known(b), Unset(b), HasTuner(b), Expects(b)
    PROVE  Fit(TunerInit(b))
<1>1. PICK c : c = TunerInit(b)
  OBVIOUS
<1>2. Driven(b, c) /\ Rec(c)
  BY <1>1, TunerInits
<1>3. /\ c.dongle = b.dongle /\ c.type = b.type /\ c.v4 = b.v4 /\ c.v4l = b.v4l
      /\ c.xtal = b.xtal /\ c.offs = b.offs /\ c.ds = b.ds /\ c.freq = b.freq
      /\ c.rate = b.rate /\ c.bw = b.bw /\ c.ifr = b.ifr
  BY <1>2 DEF Driven, StateFields, DriverFields
<1>4. IsR82xx(c) = IsR82xx(b)
  BY <1>3 DEF IsR82xx
<1>5. Known(c)
  BY <1>3, KnownStays
<1>6. IsR82xx(c) => Initial(c)
  BY <1>1, <1>4, TunerStarts
<1>7. Expects(c)
  BY <1>3, <1>4 DEF Expects
<1>8. Plumb(c)
  BY <1>3, <1>6, <1>7, StartsPlumb DEF Unset
<1>9. Sane(c)
  <2>1. /\ c.freq = 0 /\ c.rate = 0 /\ c.bw = 0 /\ c.offs = 0
    BY <1>3 DEF Unset
  <2> QED
    BY <2>1 DEF Sane
<1>10. c.freq = 0 /\ c.ds = 0
  BY <1>3 DEF Unset
<1> QED
  BY <1>1, <1>5, <1>8, <1>9, <1>10 DEF Fit, Aligned, Level

LEMMA OpenAligned ==
    ASSUME NEW u, Still(u), Calm(u), ~u.blind, Unset(u), u.type = "none", u.dongle \in Kinds,
           Crystal(u.dongle) = IF u.dongle = "R828D" THEN 160 ELSE RtlXtal \div 100
    PROVE  Fit(OpenDevice(u))
<1>1. PICK a : a = Found(u)
  OBVIOUS
<1>2. PICK b : b = PreparePath(a)
  OBVIOUS
<1>3. PICK c : c = IF HasTuner(b) THEN TunerInit(b) ELSE Ok(b)
  OBVIOUS
<1>4. PICK d : d = Ok(c)
  OBVIOUS
<1>5. PICK e : e = Repeater(d, FALSE)
  OBVIOUS
<1>6. PICK t : t = OpenDevice(u)
  OBVIOUS
<1>7. t = IF c.rc < 0 THEN c ELSE e
  BY <1>1, <1>2, <1>3, <1>4, <1>5, <1>6 DEF OpenDevice, InitTuner, Then
<1>8. /\ Only(Finding, u, a)
      /\ a.rep /\ a.zif = TRUE /\ a.blind = u.blind /\ a.ifr.f = 0
  BY <1>1, FoundDone DEF Still
<1>9. /\ Rec(a) /\ a.ppm = u.ppm /\ a.corr = u.corr /\ a.turn = u.turn /\ a.deep = u.deep
      /\ a.fault = u.fault
  BY <1>8 DEF Only, StateFields, Finding
<1>10. Unset(a)
  BY <1>8 DEF Only, StateFields, Finding, Unset
<1>11. Still(a) /\ Calm(a)
  BY <1>9 DEF Still, Calm
<1>12. Known(a)
  BY <1>1, FoundKnown DEF Still
<1>13. Fit(c) /\ Rec(c)
  <2>1. CASE ~HasTuner(a)
    <3>1. b = SetDirectSampling(a, 1)
      <4>1. a.type = "none" /\ ~IsR82xx(a)
        BY <2>1 DEF HasTuner, IsR82xx
      <4> QED
        BY <1>2, <4>1 DEF PreparePath
    <3>2. Trim(a)
      BY <1>8, <2>1 DEF Trim, Tame, HasTuner, IsR82xx
    <3>3. Sane(a)
      <4>1. a.freq = 0 /\ a.rate = 0 /\ a.bw = 0 /\ a.offs = 0
        BY <1>10 DEF Unset
      <4> QED
        BY <4>1 DEF Sane
    <3>4. Fit(b)
      BY <1>10, <1>11, <1>12, <3>1, <3>2, <3>3, DirectAligned DEF Still, Unset
    <3>5. Carries(a, b)
      BY <1>11, <3>1, DirectCarries
    <3>6. Still(b) /\ Rec(b) /\ ~HasTuner(b)
      BY <2>1, <3>5, ApiStays DEF Carries, Still
    <3>7. Only({}, b, c)
      BY <1>3, <3>6, ResultOnly
    <3>8. Rec(c)
      BY <3>7 DEF Only
    <3> QED
      BY <3>4, <3>7, <3>8, HearsOnly, HearsFit
  <2>2. CASE HasTuner(a)
    <3>1. /\ Only({"zif", "adc", "ifr", "inv"}, a, b) /\ Still(b)
      BY <1>2, <1>11, <2>2, PathPrepared
    <3>2. /\ Rec(b) /\ b.ppm = b.corr
      BY <3>1 DEF Still
    <3>3. b.rep = a.rep /\ b.fault = a.fault
      BY <3>1 DEF Only, StateFields
    <3>4. Live(b)
      BY <1>8, <1>11, <3>3 DEF Live, Calm
    <3>5. Unset(b)
      BY <1>10, <3>1 DEF Only, StateFields, Unset
    <3>6. Known(b) /\ HasTuner(b) /\ IsR82xx(b) = IsR82xx(a)
      BY <1>12, <2>2, <3>1, KnownOnly
    <3>7. Expects(b)
      <4>1. CASE IsR82xx(a)
        <5>1. b = InvertedIf(a)
          <6>1. a.type # "none"
            BY <2>2 DEF HasTuner
          <6> QED
            BY <1>2, <4>1, <6>1 DEF PreparePath
        <5> QED
          BY <1>9, <1>11, <3>6, <4>1, <5>1, InvertedIfDone DEF Expects
      <4>2. CASE ~IsR82xx(a)
        <5>1. b = a
          BY <1>2, <2>2, <4>2 DEF PreparePath, HasTuner
        <5> QED
          BY <1>8, <3>6, <4>2, <5>1 DEF Expects
      <4> QED
        BY <4>1, <4>2
    <3>8. c = TunerInit(b)
      BY <1>3, <3>6
    <3>9. Fit(c)
      BY <3>2, <3>4, <3>5, <3>6, <3>7, <3>8, InitAligned
    <3>10. Rec(c)
      BY <3>2, <3>6, <3>8, TunerInits
    <3> QED
      BY <3>9, <3>10
  <2> QED
    BY <2>1, <2>2
<1>14. Only({}, c, d)
  BY <1>4, <1>13, ResultOnly
<1>15. Rec(d)
  BY <1>14 DEF Only
<1>16. Only({"rep"}, d, e)
  BY <1>5, <1>15, RepeaterDone
<1>17. Fit(e)
  <2>1. Hears(c, d)
    BY <1>14, HearsOnly
  <2>2. Hears(d, e)
    BY <1>16, HearsOnly DEF Banding
  <2>3. Hears(c, e)
    BY <2>1, <2>2, HearsTwice
  <2> QED
    BY <1>13, <2>3, HearsFit
<1> QED
  BY <1>6, <1>7, <1>13, <1>17

-----------------------------------------------------------------------------
(* The second invariant.  The hardware is the plan's, and the settings of  *)
(* an application that has seen no error fit together, unless direct       *)
(* sampling and offset tuning were mixed.                                  *)
CentreInv ==
    /\ plan \in Plans /\ s.dongle = plan.dongle
    /\ Healthy /\ ~mixed => Fit(s)

LEMMA LeaveCentred ==
    ASSUME CentreInv, NEW t, Still(t), t.dongle = s.dongle, NEW op, Leave(op, t),
           t.fault = NoFault /\ open' /\ (clean \/ op = "open") /\ ~mixed' => Fit(t)
    PROVE  CentreInv'
<1>1. PICK r : r = Settled(t)
  OBVIOUS
<1>2. s' = r /\ plan' = plan
  BY <1>1 DEF Leave
<1>3. Only({"fault", "blind"}, t, r)
  BY <1>1, SettledDone
<1>4. Fit(t) => Fit(r)
  <2>1. Hears(t, r)
    BY <1>3, HearsOnly DEF Banding
  <2> QED
    BY <2>1, HearsFit
<1>5. r.dongle = t.dongle
  BY <1>3 DEF Only, StateFields
<1>6. open' /\ clean' /\ ~mixed' => Fit(r)
  BY <1>4 DEF Leave
<1> QED
  BY <1>2, <1>5, <1>6 DEF CentreInv, Healthy

(* Only a call of rtlsdr_set_direct_sampling() asks that offset tuning is  *)
(* off, else it sets mixed.                                                *)
LEMMA CallCentred ==
    ASSUME ControlInv, CentreInv, open, NEW op, op \notin {"open", "close"},
           NEW fault \in Outcomes, NEW u, u = [s EXCEPT !.fault = fault],
           NEW t, Carries(u, t), Leave(op, t),
           Ready(u) /\ (op = "direct" => t.offs = 0) => Ready(t)
    PROVE  CentreInv'
<1>1. /\ Still(u) /\ u.fault = fault /\ Only({"fault"}, s, u)
      /\ Sound(s) => Sound(u)
  BY FaultSet DEF ControlInv
<1>2. Still(t) /\ t.fault = u.fault /\ t.dongle = u.dongle
  BY ApiStays DEF Carries
<1>3. u.dongle = s.dongle
  BY <1>1 DEF Only, StateFields
<1>4. ASSUME t.fault = NoFault, clean, ~mixed' PROVE Fit(t)
  <2>1. ~mixed /\ (t.offs = 0 \/ op # "direct")
    BY <1>4 DEF Leave
  <2>2. Fit(s) /\ Sound(s)
    BY <1>4, <2>1 DEF ControlInv, CentreInv, Healthy
  <2>3. Hears(s, u)
    BY <1>1, HearsOnly DEF Banding
  <2>4. Fit(u)
    BY <2>2, <2>3, HearsFit
  <2>5. Ready(u)
    BY <1>1, <1>2, <1>4, <2>2, <2>4 DEF Ready, Calm
  <2> QED
    BY <2>1, <2>5 DEF Ready
<1> QED
  BY <1>2, <1>3, <1>4, LeaveCentred

(* What an application may ask for.                                        *)
LEMMA PlanRange ==
    ASSUME plan \in Plans
    PROVE  /\ plan.dongle \in Kinds
           /\ \A f \in plan.freqs : f \in Nat
           /\ \A r \in plan.rates : Ratable(r)
           /\ \A w \in plan.widths : w \in Nat
           /\ Crystal(plan.dongle) = IF plan.dongle = "R828D" THEN 160 ELSE RtlXtal \div 100
  BY ControlConstants, CrystalsFit DEF Ratable

LEMMA CallsCentred ==
    ASSUME ControlInv, CentreInv, open
    PROVE  /\ \A f \in plan.freqs : Call("freq", LAMBDA t : Tune(t, f)) => CentreInv'
           /\ \A r \in plan.rates : Call("rate", LAMBDA t : SetSampleRate(t, r)) => CentreInv'
           /\ \A w \in plan.widths :
                Call("width", LAMBDA t : SetTunerBandwidth(t, w)) => CentreInv'
           /\ \A g : Call("gain", LAMBDA t : SetTunerGain(t, g)) => CentreInv'
           /\ \A m : Call("gain_mode", LAMBDA t : SetTunerGainMode(t, m)) => CentreInv'
           /\ \A p : Call("correction", LAMBDA t : SetFreqCorrection(t, p)) => CentreInv'
           /\ \A on : Call("direct", LAMBDA t : SetDirectSampling(t, on)) => CentreInv'
           /\ \A on : Call("offset", LAMBDA t : SetOffsetTuning(t, on)) => CentreInv'
<1>0. ASSUME NEW fault PROVE Still([s EXCEPT !.fault = fault])
  BY FaultSet DEF ControlInv
<1>a. /\ \A f \in plan.freqs : f \in Nat
      /\ \A r \in plan.rates : Ratable(r)
      /\ \A w \in plan.widths : w \in Nat
  BY PlanRange DEF CentreInv
<1>1. ASSUME NEW f \in plan.freqs, Call("freq", LAMBDA t : Tune(t, f)) PROVE CentreInv'
  <2>1. PICK fault \in Outcomes : Leave("freq", Tune([s EXCEPT !.fault = fault], f))
    BY <1>1 DEF Call, Run
  <2>2. PICK u : u = [s EXCEPT !.fault = fault]
    OBVIOUS
  <2>3. PICK t : t = Tune(u, f)
    OBVIOUS
  <2>4. Still(u)
    BY <1>0, <2>2
  <2>5. Carries(u, t)
    BY <2>3, <2>4, TuneCarries
  <2>6. Ready(u) => Ready(t)
    BY <1>a, <2>3, TuneReady
  <2>7. Leave("freq", t)
    BY <2>1, <2>2, <2>3
  <2> QED
    BY <2>2, <2>5, <2>6, <2>7, CallCentred
<1>2. ASSUME NEW r \in plan.rates, Call("rate", LAMBDA t : SetSampleRate(t, r)) PROVE CentreInv'
  <2>1. PICK fault \in Outcomes : Leave("rate", SetSampleRate([s EXCEPT !.fault = fault], r))
    BY <1>2 DEF Call, Run
  <2>2. PICK u : u = [s EXCEPT !.fault = fault]
    OBVIOUS
  <2>3. PICK t : t = SetSampleRate(u, r)
    OBVIOUS
  <2>4. Still(u)
    BY <1>0, <2>2
  <2>5. Carries(u, t)
    BY <2>3, <2>4, RateCarries
  <2>6. Ready(u) => Ready(t)
    BY <1>a, <2>3, RateReady
  <2>7. Leave("rate", t)
    BY <2>1, <2>2, <2>3
  <2> QED
    BY <2>2, <2>5, <2>6, <2>7, CallCentred
<1>3. ASSUME NEW w \in plan.widths, Call("width", LAMBDA t : SetTunerBandwidth(t, w))
      PROVE  CentreInv'
  <2>1. PICK fault \in Outcomes :
          Leave("width", SetTunerBandwidth([s EXCEPT !.fault = fault], w))
    BY <1>3 DEF Call, Run
  <2>2. PICK u : u = [s EXCEPT !.fault = fault]
    OBVIOUS
  <2>3. PICK t : t = SetTunerBandwidth(u, w)
    OBVIOUS
  <2>4. Still(u)
    BY <1>0, <2>2
  <2>5. Carries(u, t)
    BY <2>3, <2>4, BandwidthCarries
  <2>6. Ready(u) => Ready(t)
    BY <1>a, <2>3, BandwidthReady
  <2>7. Leave("width", t)
    BY <2>1, <2>2, <2>3
  <2> QED
    BY <2>2, <2>5, <2>6, <2>7, CallCentred
<1>4. ASSUME NEW g, Call("gain", LAMBDA t : SetTunerGain(t, g)) PROVE CentreInv'
  <2>1. PICK fault \in Outcomes : Leave("gain", SetTunerGain([s EXCEPT !.fault = fault], g))
    BY <1>4 DEF Call, Run
  <2>2. PICK u : u = [s EXCEPT !.fault = fault]
    OBVIOUS
  <2>3. PICK t : t = SetTunerGain(u, g)
    OBVIOUS
  <2>4. Still(u)
    BY <1>0, <2>2
  <2>5. Carries(u, t)
    BY <2>3, <2>4, GainCarries
  <2>6. Ready(u) => Ready(t)
    BY <2>3, GainReady
  <2>7. Leave("gain", t)
    BY <2>1, <2>2, <2>3
  <2> QED
    BY <2>2, <2>5, <2>6, <2>7, CallCentred
<1>5. ASSUME NEW m, Call("gain_mode", LAMBDA t : SetTunerGainMode(t, m)) PROVE CentreInv'
  <2>1. PICK fault \in Outcomes :
          Leave("gain_mode", SetTunerGainMode([s EXCEPT !.fault = fault], m))
    BY <1>5 DEF Call, Run
  <2>2. PICK u : u = [s EXCEPT !.fault = fault]
    OBVIOUS
  <2>3. PICK t : t = SetTunerGainMode(u, m)
    OBVIOUS
  <2>4. Still(u)
    BY <1>0, <2>2
  <2>5. Carries(u, t)
    BY <2>3, <2>4, GainCarries
  <2>6. Ready(u) => Ready(t)
    BY <2>3, GainReady
  <2>7. Leave("gain_mode", t)
    BY <2>1, <2>2, <2>3
  <2> QED
    BY <2>2, <2>5, <2>6, <2>7, CallCentred
<1>6. ASSUME NEW p, Call("correction", LAMBDA t : SetFreqCorrection(t, p)) PROVE CentreInv'
  <2>1. PICK fault \in Outcomes :
          Leave("correction", SetFreqCorrection([s EXCEPT !.fault = fault], p))
    BY <1>6 DEF Call, Run
  <2>2. PICK u : u = [s EXCEPT !.fault = fault]
    OBVIOUS
  <2>3. PICK t : t = SetFreqCorrection(u, p)
    OBVIOUS
  <2>4. Still(u)
    BY <1>0, <2>2
  <2>5. Carries(u, t)
    BY <2>3, <2>4, CorrectionCarries
  <2>6. Ready(u) => Ready(t)
    BY <2>3, CorrectionReady
  <2>7. Leave("correction", t)
    BY <2>1, <2>2, <2>3
  <2> QED
    BY <2>2, <2>5, <2>6, <2>7, CallCentred
<1>7. ASSUME NEW on, Call("direct", LAMBDA t : SetDirectSampling(t, on)) PROVE CentreInv'
  <2>1. PICK fault \in Outcomes :
          Leave("direct", SetDirectSampling([s EXCEPT !.fault = fault], on))
    BY <1>7 DEF Call, Run
  <2>2. PICK u : u = [s EXCEPT !.fault = fault]
    OBVIOUS
  <2>3. PICK t : t = SetDirectSampling(u, on)
    OBVIOUS
  <2>4. Still(u)
    BY <1>0, <2>2
  <2>5. Carries(u, t)
    BY <2>3, <2>4, DirectCarries
  <2>6. t.offs = u.offs
    <3>1. Only(Rounding \cup {"mode"}, u, t)
      BY <2>3, <2>4, DirectDone DEF Still
    <3> QED
      BY <3>1 DEF Only, StateFields, Rounding, Switching, Centering, Tuned, DriverFields, Paths
  <2>7. Ready(u) /\ t.offs = 0 => Ready(t)
    BY <2>3, <2>6, DirectReady
  <2>8. Leave("direct", t)
    BY <2>1, <2>2, <2>3
  <2> QED
    BY <2>2, <2>5, <2>7, <2>8, CallCentred
<1>8. ASSUME NEW on, Call("offset", LAMBDA t : SetOffsetTuning(t, on)) PROVE CentreInv'
  <2>1. PICK fault \in Outcomes : Leave("offset", SetOffsetTuning([s EXCEPT !.fault = fault], on))
    BY <1>8 DEF Call, Run
  <2>2. PICK u : u = [s EXCEPT !.fault = fault]
    OBVIOUS
  <2>3. PICK t : t = SetOffsetTuning(u, on)
    OBVIOUS
  <2>4. Still(u)
    BY <1>0, <2>2
  <2>5. Carries(u, t)
    BY <2>3, <2>4, OffsetCarries
  <2>6. Ready(u) => Ready(t)
    BY <2>3, OffsetReady
  <2>7. Leave("offset", t)
    BY <2>1, <2>2, <2>3
  <2> QED
    BY <2>2, <2>5, <2>6, <2>7, CallCentred
<1> QED
  BY <1>1, <1>2, <1>3, <1>4, <1>5, <1>6, <1>7, <1>8

LEMMA OpenCentred == ControlInv /\ CentreInv /\ Open => CentreInv'
<1> SUFFICES ASSUME ControlInv, CentreInv, Open PROVE CentreInv'
  OBVIOUS
<1>1. Rec(s) /\ ~s.turn /\ ~s.deep
  BY DEF ControlInv, Still
<1>2. PICK b : b = Over(Zeroed, s)
  OBVIOUS
<1>3. Still(b) /\ ~b.blind /\ Unset(b) /\ b.type = "none" /\ b.dongle = s.dongle
  BY <1>1, <1>2, Fresh DEF Unset
<1>4. PICK fault \in Outcomes : Leave("open", OpenDevice([b EXCEPT !.fault = fault]))
  BY <1>2 DEF Open, Run
<1>5. PICK u : u = [b EXCEPT !.fault = fault]
  OBVIOUS
<1>6. Still(u) /\ ~u.blind /\ Only({"fault"}, b, u)
  BY <1>3, <1>5, FaultSet
<1>7. Unset(u) /\ u.type = "none" /\ u.dongle = s.dongle
  BY <1>3, <1>6 DEF Only, StateFields, Unset
<1>8. PICK t : t = OpenDevice(u)
  OBVIOUS
<1>9. Still(t) /\ t.fault = u.fault /\ t.dongle = u.dongle
  BY <1>6, <1>7, <1>8, OpenDone DEF Unset
<1>10. t.fault = NoFault => Fit(t)
  <2>1. /\ u.dongle \in Kinds
        /\ Crystal(u.dongle) = IF u.dongle = "R828D" THEN 160 ELSE RtlXtal \div 100
    BY <1>7, PlanRange DEF CentreInv
  <2>2. t.fault = NoFault => Calm(u)
    BY <1>9 DEF Calm
  <2> QED
    BY <1>6, <1>7, <1>8, <2>1, <2>2, OpenAligned
<1>11. Leave("open", t)
  BY <1>4, <1>5, <1>8
<1> QED
  BY <1>7, <1>9, <1>10, <1>11, LeaveCentred

LEMMA CloseCentred == ControlInv /\ CentreInv /\ (Close \/ CloseLost) => CentreInv'
<1>1. ASSUME ControlInv, CentreInv, Close PROVE CentreInv'
  <2>1. PICK fault \in Outcomes : Leave("close", CloseDevice([s EXCEPT !.fault = fault]))
    BY <1>1 DEF Close, Run
  <2>2. PICK u : u = [s EXCEPT !.fault = fault]
    OBVIOUS
  <2>3. Still(u) /\ Only({"fault"}, s, u)
    BY <1>1, <2>2, FaultSet DEF ControlInv
  <2>4. u.dongle = s.dongle
    BY <2>3 DEF Only, StateFields
  <2>5. PICK t : t = CloseDevice(u)
    OBVIOUS
  <2>6. Still(t) /\ Only(Api, u, t)
    BY <2>3, <2>5, CloseDone
  <2>7. t.dongle = s.dongle
    BY <2>4, <2>6, ApiStays
  <2>8. Leave("close", t)
    BY <2>1, <2>2, <2>5
  <2>9. ~open'
    BY <2>8 DEF Leave
  <2> QED
    BY <1>1, <2>6, <2>7, <2>8, <2>9, LeaveCentred
<1>2. ASSUME ControlInv, CentreInv, CloseLost PROVE CentreInv'
  BY <1>2 DEF CloseLost, CentreInv, Healthy
<1> QED
  BY <1>1, <1>2

LEMMA StepCentre == ControlInv /\ CentreInv /\ [Next]_vars => CentreInv'
<1> SUFFICES ASSUME ControlInv, CentreInv, [Next]_vars PROVE CentreInv'
  OBVIOUS
<1>1. CASE Open
  BY <1>1, OpenCentred
<1>2. CASE Close \/ CloseLost
  BY <1>2, CloseCentred
<1>3. CASE \E f \in plan.freqs : Call("freq", LAMBDA t : Tune(t, f))
  <2>1. open
    BY <1>3 DEF Call
  <2> QED
    BY <1>3, <2>1, CallsCentred DEF Call, Run
<1>4. CASE \E r \in plan.rates : Call("rate", LAMBDA t : SetSampleRate(t, r))
  <2>1. open
    BY <1>4 DEF Call
  <2> QED
    BY <1>4, <2>1, CallsCentred DEF Call, Run
<1>5. CASE \E w \in plan.widths : Call("width", LAMBDA t : SetTunerBandwidth(t, w))
  <2>1. open
    BY <1>5 DEF Call
  <2> QED
    BY <1>5, <2>1, CallsCentred DEF Call, Run
<1>6. CASE \E g \in plan.gains : Call("gain", LAMBDA t : SetTunerGain(t, g))
  <2>1. open
    BY <1>6 DEF Call
  <2> QED
    BY <1>6, <2>1, CallsCentred DEF Call, Run
<1>7. CASE \E m \in plan.modes : Call("gain_mode", LAMBDA t : SetTunerGainMode(t, m))
  <2>1. open
    BY <1>7 DEF Call
  <2> QED
    BY <1>7, <2>1, CallsCentred DEF Call, Run
<1>8. CASE \E p \in plan.ppms : Call("correction", LAMBDA t : SetFreqCorrection(t, p))
  <2>1. open
    BY <1>8 DEF Call
  <2> QED
    BY <1>8, <2>1, CallsCentred DEF Call, Run
<1>9. CASE \E on \in 0 .. 2 : Call("direct", LAMBDA t : SetDirectSampling(t, on))
  <2>1. open
    BY <1>9 DEF Call
  <2> QED
    BY <1>9, <2>1, CallsCentred DEF Call, Run
<1>10. CASE \E on \in BOOLEAN : Call("offset", LAMBDA t : SetOffsetTuning(t, on))
  <2>1. open
    BY <1>10 DEF Call
  <2>2. PICK on \in BOOLEAN : Call("offset", LAMBDA t : SetOffsetTuning(t, on))
    BY <1>10
  <2> QED
    BY <2>1, <2>2, CallsCentred DEF Call, Run
<1>11. CASE UNCHANGED vars
  BY <1>11 DEF vars, CentreInv, Healthy
<1> QED
  BY <1>1, <1>2, <1>3, <1>4, <1>5, <1>6, <1>7, <1>8, <1>9, <1>10, <1>11 DEF Next

LEMMA InitCentre == Init => CentreInv
<1> SUFFICES ASSUME Init PROVE CentreInv
  OBVIOUS
<1>1. PICK p : p = Plugged(plan)
  OBVIOUS
<1>2. PICK z : z = Zeroed
  OBVIOUS
<1>3. DOMAIN z = {"type", "v4", "v4l", "xtal", "freq", "rate", "bw", "gain", "corr", "offs", "ds",
                  "mode", "ppm", "intf", "ready", "input", "lock", "shadow", "blind"}
  BY <1>2 DEF Zeroed
<1>4. "dongle" \in DOMAIN p /\ p.dongle = plan.dongle
  BY <1>1 DEF Plugged
<1>5. Over(z, p).dongle = p.dongle
  BY <1>3, <1>4 DEF Over
<1>6. plan \in Plans /\ ~open /\ s = Over(z, p)
  BY <1>1, <1>2 DEF Init
<1> QED
  BY <1>4, <1>5, <1>6 DEF CentreInv, Healthy

(* The settings an application that has seen no error has made fit         *)
(* together, after whatever calls in whatever order.                       *)
THEOREM CentreInvariant == Spec => []CentreInv
<1>1. Init => CentreInv
  BY InitCentre
<1>2. ControlInv /\ CentreInv /\ [Next]_vars => CentreInv'
  BY StepCentre
<1> QED
  BY <1>1, <1>2, ControlInvariant, PTL DEF Spec

(* On the path of the tuner, the LO less the IF, the offset and what the   *)
(* upconverter adds is the frequency.                                      *)
LEMMA TunerHears ==
    ASSUME Known(s), Sane(s), Plumb(s), ~DirectPath, TunedTo(s, s.freq - s.offs)
    PROVE  Heard = s.freq
<1>1. PICK v : v = s.freq - s.offs
  OBVIOUS
<1>2. s.freq \in Nat /\ s.offs \in Nat /\ v \in Int
  BY <1>1 DEF Sane
<1>3. TunedTo(s, v)
  BY <1>1
<1>4. CASE IsR82xx(s)
  <2>1. s.offs = 0 /\ v = s.freq
    BY <1>1, <1>2, <1>4 DEF Sane
  <2>2. s.dongle \in {"R820T", "R828D", "V4", "V4L"}
    BY <1>4, KnownType
  <2>3. s.v4 <=> s.dongle = "V4"
    BY DEF Known
  <2>4. s.v4l <=> s.dongle = "V4L"
    BY DEF Known
  <2>5. s.chip["pll"].out = UpconvertFreq(s, v) + s.intf
    BY <1>3, <1>4 DEF TunedTo, LoFor
  <2>6. s.intf \in Int /\ s.ifr.f = s.intf
    BY <1>4 DEF Plumb
  <2>7. BandPasses
    BY <2>2 DEF BandPasses
  <2>8. Upconverted <=> s.dongle \in {"V4", "V4L"} /\ v < 28800
    BY <1>3 DEF Upconverted, TunedTo, Passes
  <2>9. UpconvertFreq(s, v) = IF Upconverted THEN v + 28800 ELSE v
    BY <2>3, <2>4, <2>8 DEF UpconvertFreq
  <2>10. Heard = s.chip["pll"].out - s.ifr.f - IF Upconverted THEN 28800 ELSE 0
    BY <1>4, <2>7 DEF Heard
  <2>11. CASE Upconverted
    <3>1. Heard = ((v + 28800) + s.intf) - s.intf - 28800
      BY <2>5, <2>6, <2>9, <2>10, <2>11
    <3> QED
      BY <1>2, <2>1, <2>6, <3>1
  <2>12. CASE ~Upconverted
    <3>1. Heard = (v + s.intf) - s.intf - 0
      BY <2>5, <2>6, <2>9, <2>10, <2>12
    <3> QED
      BY <1>2, <2>1, <2>6, <3>1
  <2> QED
    BY <2>11, <2>12
<1>5. CASE ~IsR82xx(s)
  <2>1. s.chip["pll"].out = v /\ Passes(s, v)
    BY <1>3, <1>5 DEF TunedTo
  <2>2. s.ifr.f = s.offs
    BY <1>5 DEF Plumb
  <2>3. BandPasses
    BY <2>1 DEF BandPasses, Passes
  <2>4. Heard = v + s.offs
    BY <1>5, <2>1, <2>2, <2>3 DEF Heard
  <2> QED
    BY <1>1, <1>2, <2>4
<1> QED
  BY <1>4, <1>5

LEMMA RangeReaches == ASSUME NEW f PROVE InRange(f) => Reach(s, f)
  BY DEF InRange, Reach

(* While no transfer has failed, and until direct sampling is set with     *)
(* offset tuning on, the band received is centred on the frequency in use, *)
(* for every dongle and every frequency, rate, bandwidth, gain, correction *)
(* and mode, set in whatever order.                                        *)
THEOREM CentredAlways == Spec => []Centred
<1>1. ASSUME ControlInv, CentreInv, Healthy, ~mixed, s.freq # 0,
             s.ds # 0 \/ InRange(s.freq)
      PROVE  Heard = Expected
  <2>1. Path(s, s.ds)
    BY <1>1 DEF ControlInv, Sound, Steady
  <2>2. Known(s) /\ Sane(s) /\ Level(s) /\ Centre(s, s.freq)
    BY <1>1 DEF CentreInv, Fit, Aligned
  <2>3. CASE s.ds # 0
    <3>1. DirectPath
      BY <2>1, <2>3 DEF Path, DirectPath
    <3>2. Heard = s.ifr.f /\ Expected = s.freq % RtlXtal
      BY <3>1 DEF Heard, Expected
    <3> QED
      BY <2>2, <2>3, <3>2 DEF Centre
  <2>4. CASE s.ds = 0
    <3>1. ~DirectPath
      BY <2>1, <2>4 DEF Path, DirectPath
    <3>2. Reach(s, s.freq)
      BY <1>1, <2>4, RangeReaches
    <3>3. HasTuner(s) /\ TunedTo(s, s.freq - s.offs)
      BY <2>2, <2>4, <3>2 DEF Centre
    <3>4. Plumb(s)
      BY <2>2, <2>4, <3>3 DEF Level
    <3>5. Heard = s.freq
      BY <2>2, <3>1, <3>3, <3>4, TunerHears
    <3> QED
      BY <3>1, <3>5 DEF Expected
  <2> QED
    BY <2>3, <2>4
<1>2. ControlInv /\ CentreInv => Centred
  BY <1>1 DEF Centred
<1> QED
  BY <1>2, ControlInvariant, CentreInvariant, PTL
=============================================================================
