---------------------------- MODULE AsyncStreamMC ----------------------------
(***************************************************************************)
(* Instances of AsyncStream: which surroundings a run of TLC lets act, and *)
(* the refinement mapping to the contract of one rtlsdr_read_async() call. *)
(***************************************************************************)
EXTENDS AsyncStream

(* Every behaviour the code claims to cope with. *)
Sound == Behaviours \ {"wait_expires", "close_during_start", "restart_after_leak"}

(* Without transfers that end in an error: the callback does not re-arm    *)
(* them, so a stream may run out of transfers without noticing.            *)
NoTransferErrors == Sound \ {"xfer_error"}

(* The same while handle_events never fails: a run that leaves its loop on *)
(* such an error is still RUNNING when it drains, and the drain re-arms.   *)
NoEventErrors == Sound \ {"event_error"}

(* The surroundings of the runs that show a disagreement. *)
CancelAndUnplug == {"app_cancel", "unplug"}
LeakAndRestart == {"app_cancel", "restart_after_leak"}
ErrorsAndUnplug == {"xfer_error", "unplug"}
CloseAtStart == {"close", "close_during_start"}

(* The stages of the contract.  A call refused with BUSY never left idle.  *)
Winding == pc \in {"drain", "free"} \/ (pc = "events" /\ after = "drained")

Stage ==
    CASE pc \in {"idle", "entry", "finish"} -> "idle"
      [] pc \in {"arm", "clear", "submit"}  -> "starting"
      [] Winding                            -> "ending"
      [] OTHER -> IF async_status = "RUNNING" THEN "streaming" ELSE "stopping"

Contract == INSTANCE StreamContract
    WITH Transfers <- Slots, stage <- Stage, held <- InFlight, leaked <- orphans

(* Every behaviour of the threads is one the contract allows. *)
MeetsContract == Contract!CSpec

=============================================================================
