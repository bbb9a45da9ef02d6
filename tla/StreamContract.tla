---------------------------- MODULE StreamContract ----------------------------
(***************************************************************************)
(* What one call of rtlsdr_read_async() promises, without threads, status  *)
(* words or counters: libusb holds a growing set of transfers while the    *)
(* run starts, holds on to them or loses them while it streams, only loses *)
(* them once it stops, and the call ends in bounded time by freeing what   *)
(* libusb no longer holds, or by giving up what it still does.             *)
(***************************************************************************)
EXTENDS Integers, FiniteSets

CONSTANT Transfers    \* the transfers of one run, a finite set

VARIABLES
    stage,    \* where the call is
    held,     \* the transfers libusb holds for this run
    leaked    \* how many transfers earlier runs have given up to libusb

cvars == <<stage, held, leaked>>

Stages == {"idle", "starting", "streaming", "stopping", "ending"}

CInit == stage = "idle" /\ held = {} /\ leaked = 0

Start ==
    /\ stage = "idle" /\ leaked = 0
    /\ stage' = "starting"
    /\ UNCHANGED <<held, leaked>>

(* One more transfer is submitted; after the last one, or one that was     *)
(* refused, the run streams, or stops at once.                             *)
Submit ==
    /\ stage = "starting"
    /\ stage' \in {"starting", "streaming", "stopping"}
    /\ \/ \E t \in Transfers \ held : held' = held \cup {t}
       \/ held' = held /\ stage' = "stopping"
    /\ UNCHANGED leaked

(* Transfers come back; any of them may be what stops the run. *)
ComeBack ==
    /\ stage \in {"streaming", "stopping", "ending"}
    /\ held' \subseteq held
    /\ stage' = stage \/ (stage = "streaming" /\ stage' = "stopping")
    /\ UNCHANGED leaked

(* The event loop is left. *)
Quit ==
    /\ stage \in {"streaming", "stopping"}
    /\ stage' = "ending"
    /\ UNCHANGED <<held, leaked>>

(* The call returns: all its memory is free, or what is held is leaked. *)
End ==
    /\ stage = "ending"
    /\ stage' = "idle"
    /\ held' = {}
    /\ leaked' = leaked + Cardinality(held)

(* Leaked transfers come back, or are dropped with the device. *)
Settle ==
    /\ stage = "idle"
    /\ leaked' \in 0 .. leaked
    /\ UNCHANGED <<stage, held>>

CNext == Start \/ Submit \/ ComeBack \/ Quit \/ End \/ Settle

Stopped == stage = "stopping" /\ Quit

CSpec == CInit /\ [][CNext]_cvars /\ WF_cvars(Stopped) /\ WF_cvars(End)

=============================================================================
