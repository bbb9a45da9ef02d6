---------------------------- MODULE UsbTransferMC ----------------------------
(***************************************************************************)
(* Instances of UsbTransfer: which surroundings a run of TLC lets act.     *)
(***************************************************************************)
EXTENDS UsbTransfer

(* Two threads make control requests, each of which may run the timeouts   *)
(* of the other's, while a third handles the events.                       *)
Requests == {"stall", "refuse", "timeout", "event_error", "unplug", "close"}

(* A stream transfer of several URBs, of which any may end early, under    *)
(* cancels and a callback that submits it again.                           *)
Streaming == {"short", "lowlevel", "overflow", "refuse", "resubmit", "unplug", "close"}

(* What can keep a call from returning.  The application also submits what *)
(* is submitted, and gets BUSY for it.                                     *)
Waits == {"timeout", "double", "unplug"}

(* The surroundings of the run that shows a disagreement. *)
StallOnly == {"stall"}

=============================================================================
