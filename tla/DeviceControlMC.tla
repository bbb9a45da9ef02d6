--------------------------- MODULE DeviceControlMC ---------------------------
(***************************************************************************)
(* Instances of DeviceControl: the crystal next to each dongle's tuner,    *)
(* and the plans.                                                          *)
(***************************************************************************)
EXTENDS DeviceControl

(* 16 MHz on an R828D stick, 28.8 MHz on all others, in 100 kHz.           *)
CrystalOf(dongle) == IF dongle = "R828D" THEN 160 ELSE 288

(* Every setting in every order, and no transfer fails.  The frequencies   *)
(* reach every band of the tuner, and one that an FC0012 refuses.  The     *)
(* gain of an FC0013 shares a register with its band.                      *)
FreqsOf(dongle) ==
    CASE dongle = "FC0012" -> {10000, 100000, 900000}
      [] dongle = "FC0013" -> {100000, 400000, 1200000}
      [] dongle = "FC2580" -> {100000, 500000, 1500000}
      [] OTHER -> {10000, 100000, 400000}

Tour(dongle, edge, rates) ==
    [dongle |-> dongle, edge |-> edge, freqs |-> FreqsOf(dongle),
     rates |-> rates, widths |-> {0, 1500},
     gains |-> IF dongle = "FC0013" THEN {190} ELSE {}, modes |-> {TRUE}, ppms |-> {0, 1},
     faults |-> {}, maxat |-> 0]

(* The offset follows the rate: two of them matter where it can be set.    *)
Tours ==
    {Tour(d, FALSE, {250, 2400}) : d \in {"R820T", "V4", "E4000", "FC0012"}} \cup
    {Tour(d, TRUE, {2400}) : d \in {"R828D", "V4L", "FC0013", "FC2580", "none"}}

(* Any transfer of any call fails, alone or for good.                      *)
Trial(dongle, gains, faults) ==
    [dongle |-> dongle, edge |-> TRUE, freqs |-> {10000, 100000},
     rates |-> {}, widths |-> {}, gains |-> gains, modes |-> {}, ppms |-> {},
     faults |-> faults, maxat |-> 40]

ThePlans ==
    Tours \cup {Trial("R820T", {400}, {"once", "lost"}), Trial("V4", {}, {"once"}),
                Trial("FC0013", {60, 190}, {"once", "lost"})}

=============================================================================
