----------------------------- MODULE AsyncStream -----------------------------
(***************************************************************************)
(* The streaming half of librtlsdr.c: rtlsdr_read_async() on its reader    *)
(* thread, _libusb_callback() inside libusb's event handling, and the      *)
(* calls an application makes from a second thread: rtlsdr_cancel_async(), *)
(* the bridge's rtlsdr_cancel_async_save() and rtlsdr_close().             *)
(*                                                                         *)
(* libusb and the kernel appear by what librtlsdr relies on: a submitted   *)
(* transfer is in flight until its callback has run, callbacks run only in *)
(* handle_events, and a transfer is completed by the kernel at a time of   *)
(* the kernel's choosing.  Every access to a field of struct rtlsdr_dev    *)
(* that another thread may race with is a step of its own.                 *)
(***************************************************************************)
EXTENDS Integers, FiniteSets

CONSTANTS
    N,           \* xfer_buf_num, the transfers of one run
    DrainTries,  \* passes of the final drain (100 in the code)
    MaxRuns,     \* bound: calls of rtlsdr_read_async()
    MaxFaults,   \* bound: failures on a device that is still present
    Env          \* what the surroundings may do, see Behaviours

Behaviours == {
    "app_cancel",         \* a second thread calls cancel_async / _save
    "cb_cancel",          \* the user callback calls rtlsdr_cancel_async()
    "close",              \* a second thread calls rtlsdr_close()
    "unplug",             \* the dongle is pulled
    "xfer_error",         \* a transfer ends in ERROR, STALL or OVERFLOW
    "submit_error",       \* libusb_submit_transfer() fails, device present
    "event_error",        \* handle_events fails or is interrupted
    "wait_expires",       \* close() / _save give up while the reader runs
    "close_during_start", \* close() overlaps the entry of read_async()
    "restart_after_leak"} \* read_async() again after a run that leaked

ASSUME ConstantsAssumption ==
    /\ N \in Nat \ {0}
    /\ DrainTries \in Nat
    /\ MaxRuns \in Nat
    /\ MaxFaults \in Nat
    /\ Env \subseteq Behaviours

Slots == 1 .. N

Results == {"COMPLETED", "CANCELLED", "ERROR", "OTHER", "NO_DEVICE"}

Returns == {"OK", "NOT_FOUND", "NO_DEVICE", "FAILED", "INTERRUPTED", "BUSY"}

VARIABLES
    async_status, async_cancel, dev_lost,  \* struct rtlsdr_dev
    outstanding, xfer_errors,              \* xfer_outstanding, xfer_errors
    phase,     \* libusb's view of each transfer of the current run
    result,    \* what the kernel has completed a transfer with, "none" before
    status,    \* transfer->status, "NEW" from libusb_alloc_transfer on
    orphans,   \* in-flight transfers of earlier runs, leaked by the free
    pc, i, r, next_status, tries, after,   \* the reader's rtlsdr_read_async
    apc, ret,                              \* the application thread
    unplugged, open, runs, faults

dev    == <<async_status, async_cancel, dev_lost, outstanding, xfer_errors>>
xfers  == <<phase, result, status, orphans>>
reader == <<pc, i, r, next_status, tries, after>>
app    == <<apc, ret>>
world  == <<unplugged, open, runs, faults>>
vars   == <<dev, xfers, reader, app, world>>

InFlight == {s \in Slots : phase[s] # "idle"}

Reaped == {s \in Slots : result[s] # "none"}

(* A failure on a present device spends one unit of the fault budget. *)
Fault(kind) == kind \in Env /\ faults < MaxFaults /\ faults' = faults + 1

Init ==
    /\ async_status = "INACTIVE" /\ async_cancel = FALSE /\ dev_lost = FALSE
    /\ outstanding = 0 /\ xfer_errors = 0
    /\ phase = [s \in Slots |-> "idle"]
    /\ result = [s \in Slots |-> "none"]
    /\ status = [s \in Slots |-> "NEW"]
    /\ orphans = 0
    /\ pc = "idle" /\ i = 1 /\ r = "OK" /\ next_status = "INACTIVE"
    /\ tries = DrainTries /\ after = "check"
    /\ apc = "idle" /\ ret = "idle"
    /\ unplugged = FALSE /\ open = TRUE /\ runs = 0 /\ faults = 0

-----------------------------------------------------------------------------
(* The kernel and the plug. *)

(* A URB the host controller still owns comes back.  A discarded one ends  *)
(* CANCELLED; after an unplug the rest end NO_DEVICE, or COMPLETED where   *)
(* the kernel reaps after the disconnect.                                  *)
KernelCompletes(s, st) ==
    /\ phase[s] # "idle" /\ result[s] = "none"
    /\ st \in Results
    /\ phase[s] = "cancelled" <=> st = "CANCELLED"
    /\ st = "NO_DEVICE" => unplugged
    /\ IF st \in {"ERROR", "OTHER"} THEN Fault("xfer_error")
                                    ELSE UNCHANGED faults
    /\ result' = [result EXCEPT ![s] = st]
    /\ UNCHANGED <<dev, phase, status, orphans, reader, app, unplugged, open, runs>>

Unplug ==
    /\ "unplug" \in Env /\ open /\ ~unplugged
    /\ unplugged' = TRUE
    /\ UNCHANGED <<dev, xfers, reader, app, open, runs, faults>>

-----------------------------------------------------------------------------
(* _libusb_callback(), run by whichever thread handles events.             *)

(* A COMPLETED transfer goes to the user callback, which may itself call   *)
(* rtlsdr_cancel_async(), and is submitted again while the run is RUNNING. *)
(* Mutants: the resubmission is not counted; a run that winds down re-arms. *)
CallbackRearmsUncounted ==
    /\ async_status = "RUNNING" /\ ~unplugged
    /\ xfer_errors' = 0 /\ outstanding' = outstanding - 1
    /\ UNCHANGED <<async_status, async_cancel, dev_lost, faults>>

CallbackRearmsAlways ==
    /\ ~unplugged
    /\ xfer_errors' = 0
    /\ UNCHANGED <<async_status, async_cancel, dev_lost, outstanding, faults>>

CallbackRearms ==
    /\ async_status = "RUNNING" /\ ~unplugged
    /\ xfer_errors' = 0
    /\ UNCHANGED <<async_status, async_cancel, dev_lost, outstanding, faults>>

(* Mutant: the result of the resubmission is ignored. *)
CallbackResubmitIgnored ==
    /\ async_status = "RUNNING"
    /\ IF unplugged THEN UNCHANGED faults ELSE Fault("submit_error")
    /\ outstanding' = outstanding - 1 /\ xfer_errors' = 0
    /\ UNCHANGED <<async_status, async_cancel, dev_lost>>

CallbackResubmitFails ==
    /\ async_status = "RUNNING"
    /\ IF unplugged THEN UNCHANGED faults ELSE Fault("submit_error")
    /\ dev_lost' = TRUE /\ async_status' = "CANCELING" /\ async_cancel' = TRUE
    /\ outstanding' = outstanding - 1 /\ xfer_errors' = 0

CallbackUserCancels ==
    /\ "cb_cancel" \in Env /\ async_status = "RUNNING"
    /\ async_status' = "CANCELING" /\ async_cancel' = TRUE
    /\ outstanding' = outstanding - 1 /\ xfer_errors' = 0
    /\ UNCHANGED <<dev_lost, faults>>

(* Mutant: the last callbacks of a run are not counted. *)
CallbackWindsDownUncounted ==
    /\ async_status # "RUNNING"
    /\ xfer_errors' = 0
    /\ UNCHANGED <<async_status, async_cancel, dev_lost, outstanding, faults>>

CallbackWindsDown ==
    /\ async_status # "RUNNING"
    /\ outstanding' = outstanding - 1 /\ xfer_errors' = 0
    /\ UNCHANGED <<async_status, async_cancel, dev_lost, faults>>

(* Any other end is not submitted again.  ERRORs are counted, a COMPLETED  *)
(* one resets the count, and N of them or NO_DEVICE give the device up.    *)
(* Mutant: NO_DEVICE is counted like any other error. *)
CallbackFailedNoDevice(st) ==
    LET errors == IF st # "OTHER" /\ xfer_errors < N
                  THEN xfer_errors + 1 ELSE xfer_errors IN
    /\ xfer_errors' = errors
    /\ dev_lost' = (dev_lost \/ (st = "ERROR" /\ errors = N))
    /\ outstanding' = outstanding - 1
    /\ UNCHANGED <<async_status, async_cancel, faults>>

CallbackFailed(st) ==
    LET errors == IF st = "ERROR" /\ xfer_errors < N
                  THEN xfer_errors + 1 ELSE xfer_errors
        lost   == errors = N \/ st = "NO_DEVICE" IN
    /\ xfer_errors' = errors
    /\ dev_lost' = (dev_lost \/ lost)
    /\ async_status' = IF lost THEN "CANCELING" ELSE async_status
    /\ outstanding' = outstanding - 1
    /\ UNCHANGED <<async_cancel, faults>>

CallbackCancelled ==
    /\ outstanding' = outstanding - 1
    /\ UNCHANGED <<async_status, async_cancel, dev_lost, xfer_errors, faults>>

(* rearmed: the transfer is in flight again when the callback returns.     *)
Callback(st, rearmed) ==
    \/ st = "COMPLETED" /\ rearmed /\ CallbackRearms
    \/ /\ st = "COMPLETED" /\ ~rearmed
       /\ CallbackResubmitFails \/ CallbackUserCancels \/ CallbackWindsDown
    \/ st = "CANCELLED" /\ ~rearmed /\ CallbackCancelled
    \/ st \in {"ERROR", "OTHER", "NO_DEVICE"} /\ ~rearmed /\ CallbackFailed(st)

(* One completion inside handle_events: a URB the kernel has completed, or *)
(* after an unplug any transfer in flight (usbi_handle_disconnect).        *)
Reap(s, rearmed) ==
    \E st \in {result[s]} \cup (IF unplugged THEN {"NO_DEVICE"} ELSE {}) :
        /\ phase[s] # "idle" /\ st # "none"
        /\ Callback(st, rearmed)
        /\ phase' = [phase EXCEPT ![s] = IF rearmed THEN "flying" ELSE "idle"]
        /\ result' = [result EXCEPT ![s] = "none"]
        /\ status' = [status EXCEPT ![s] = st]
        /\ UNCHANGED orphans

(* The same for a transfer an earlier run has leaked.  Its callback still  *)
(* points at the device.                                                   *)
ReapOrphan(st, rearmed) ==
    /\ orphans > 0
    /\ st \in {"COMPLETED", "CANCELLED"} \cup (IF unplugged THEN {"NO_DEVICE"} ELSE {})
    /\ Callback(st, rearmed)
    /\ orphans' = IF rearmed THEN orphans ELSE orphans - 1
    /\ UNCHANGED <<phase, result, status>>

ReapOne ==
    \/ \E s \in Slots, rearmed \in BOOLEAN : Reap(s, rearmed)
    \/ \E st \in Results, rearmed \in BOOLEAN : ReapOrphan(st, rearmed)

(* handle_events returns 0 when nothing is left to reap: it loops over the *)
(* fd until EAGAIN, and an unplug takes every transfer with it.            *)
NothingToReap == Reaped = {} /\ (unplugged => InFlight = {} /\ orphans = 0)

-----------------------------------------------------------------------------
(* rtlsdr_read_async(), on the reader's thread. *)

Closing == ret = "wait"

(* An application starts a run on an open device, not while another thread *)
(* closes it, and not on top of transfers an earlier run has leaked.       *)
ReadAsyncCall ==
    /\ pc = "idle" /\ open /\ runs < MaxRuns
    /\ Closing => "close_during_start" \in Env
    /\ orphans > 0 => "restart_after_leak" \in Env
    /\ runs' = runs + 1
    /\ pc' = "entry"
    /\ UNCHANGED <<dev, xfers, i, r, next_status, tries, after, app,
                   unplugged, open, faults>>

ReadAsyncEntry ==
    /\ pc = "entry"
    /\ IF async_status = "INACTIVE" THEN pc' = "arm" /\ r' = "OK"
                                    ELSE pc' = "idle" /\ r' = "BUSY"
    /\ UNCHANGED <<dev, xfers, i, next_status, tries, after, app, world>>

ReadAsyncArm ==
    /\ pc = "arm"
    /\ async_status' = "RUNNING"
    /\ pc' = "clear"
    /\ UNCHANGED <<async_cancel, dev_lost, outstanding, xfer_errors, xfers,
                   i, r, next_status, tries, after, app, world>>

(* The counters are cleared and a fresh set of transfers is allocated. *)
ReadAsyncClear ==
    /\ pc = "clear"
    /\ async_cancel' = FALSE /\ outstanding' = 0
    /\ status' = [s \in Slots |-> "NEW"]
    /\ i' = 1 /\ next_status' = "INACTIVE" /\ tries' = DrainTries
    /\ pc' = "submit"
    /\ UNCHANGED <<async_status, dev_lost, xfer_errors, phase, result, orphans,
                   r, after, app, world>>

SubmitOk ==
    /\ pc = "submit" /\ ~unplugged
    /\ phase' = [phase EXCEPT ![i] = "flying"]
    /\ outstanding' = outstanding + 1
    /\ i' = i + 1
    /\ pc' = IF i = N THEN "loop" ELSE "submit"
    /\ UNCHANGED <<async_status, async_cancel, dev_lost, xfer_errors, result,
                   status, orphans, r, next_status, tries, after, app, world>>

SubmitFails ==
    /\ pc = "submit"
    /\ IF unplugged THEN UNCHANGED faults ELSE Fault("submit_error")
    /\ async_status' = "CANCELING"
    /\ r' = "FAILED"
    /\ pc' = "loop"
    /\ UNCHANGED <<async_cancel, dev_lost, outstanding, xfer_errors, xfers,
                   i, next_status, tries, after, app, unplugged, open, runs>>

(* The top of the main loop: handle_events(1 s, &async_cancel), which      *)
(* handles nothing once async_cancel is set.                               *)
LoopTop ==
    /\ pc = "loop"
    /\ r' = "OK"
    /\ pc' = IF async_cancel THEN "check" ELSE "events"
    /\ after' = "check"
    /\ UNCHANGED <<dev, xfers, i, next_status, tries, app, world>>

EventsReap ==
    /\ pc = "events" /\ ReapOne
    /\ UNCHANGED <<reader, app, unplugged, open, runs>>

(* Leaving handle_events: nothing more to reap or the timeout is over, or  *)
(* an error.  Only the main loop keeps the value; the drain stops on an    *)
(* error, and the calls between two cancellations ignore it.               *)
EventsReturn(e) ==
    /\ pc = "events"
    /\ IF e = "OK" THEN NothingToReap /\ UNCHANGED faults ELSE Fault("event_error")
    /\ r' = IF after = "check" THEN e ELSE r
    /\ pc' = CASE after # "drained"                     -> after
               [] after = "drained" /\ e = "FAILED"      -> "free"
               [] after = "drained" /\ e # "FAILED"      -> "drain"
    /\ UNCHANGED <<dev, xfers, i, next_status, tries, after, app,
                   unplugged, open, runs>>

(* What the main loop does with the value and with the state it finds. *)
Check ==
    /\ pc = "check"
    /\ LET lost == r = "OK" /\ dev_lost /\ async_status = "RUNNING" IN
       /\ async_status' = IF lost THEN "CANCELING" ELSE async_status
       /\ \/ r = "INTERRUPTED" /\ pc' = "loop" /\ UNCHANGED <<i, next_status>>
          \/ r = "FAILED" /\ pc' = "drain" /\ UNCHANGED <<i, next_status>>
          \/ /\ r = "OK" /\ async_status' = "CANCELING"
             /\ next_status' = "INACTIVE" /\ i' = 1 /\ pc' = "cancel"
          \/ /\ r = "OK" /\ async_status' # "CANCELING"
             /\ pc' = "loop" /\ UNCHANGED <<i, next_status>>
    /\ UNCHANGED <<async_cancel, dev_lost, outstanding, xfer_errors, xfers,
                   r, tries, after, app, world>>

(* libusb_cancel_transfer(): NOT_FOUND for a transfer that is not in       *)
(* flight or already cancelled; a discard the kernel refuses still marks   *)
(* the transfer.                                                           *)
CancelReturn(s) ==
    CASE phase[s] # "flying"                                  -> "NOT_FOUND"
      [] phase[s] = "flying" /\ unplugged                     -> "NO_DEVICE"
      [] phase[s] = "flying" /\ ~unplugged /\ result[s] # "none" -> "NOT_FOUND"
      [] phase[s] = "flying" /\ ~unplugged /\ result[s] = "none" -> "OK"

CancelledPhase(s) ==
    IF phase[s] # "flying" THEN phase[s]
    ELSE IF CancelReturn(s) = "OK" THEN "cancelled" ELSE "late"

(* Mutant: the result of a cancellation is dropped. *)
CancelOneSilent ==
    /\ pc = "cancel" /\ i <= N
    /\ i' = i + 1
    /\ IF status[i] = "CANCELLED"
       THEN UNCHANGED <<phase, next_status, pc, after>>
       ELSE /\ phase' = [phase EXCEPT ![i] = CancelledPhase(i)]
            /\ next_status' = IF CancelReturn(i) = "OK" THEN "CANCELING" ELSE next_status
            /\ pc' = "events" /\ after' = "cancel"
    /\ UNCHANGED <<dev, result, status, orphans, r, tries, app, world>>

(* One transfer of the cancel pass, and the handle_events(0) after it. *)
CancelOne ==
    /\ pc = "cancel" /\ i <= N
    /\ i' = i + 1
    /\ IF status[i] = "CANCELLED"
       THEN UNCHANGED <<phase, r, next_status, pc, after>>
       ELSE /\ r' = CancelReturn(i)
            /\ phase' = [phase EXCEPT ![i] = CancelledPhase(i)]
            /\ next_status' = IF r' = "OK" THEN "CANCELING" ELSE next_status
            /\ pc' = "events" /\ after' = "cancel"
    /\ UNCHANGED <<dev, result, status, orphans, tries, app, world>>

CancelPassEnd ==
    /\ pc = "cancel" /\ i > N
    /\ IF dev_lost \/ next_status = "INACTIVE"
       THEN pc' = "events" /\ after' = "drain"
       ELSE pc' = "loop" /\ UNCHANGED after
    /\ UNCHANGED <<dev, xfers, i, r, next_status, tries, app, world>>

(* One pass of the bounded drain: cancel again, handle_events(10 ms). *)
Drain ==
    /\ pc = "drain"
    /\ IF outstanding # 0 /\ tries > 0
       THEN /\ phase' = [s \in Slots |-> IF status[s] = "CANCELLED"
                                         THEN phase[s] ELSE CancelledPhase(s)]
            /\ tries' = tries - 1
            /\ pc' = "events" /\ after' = "drained"
       ELSE pc' = "free" /\ UNCHANGED <<phase, tries, after>>
    /\ UNCHANGED <<dev, result, status, orphans, i, r, next_status, app, world>>

(* Mutants: the status of the last cancel pass is written back although    *)
(* nothing is in flight; what is in flight is freed with the rest.         *)
FreeBuffersKeepStatus ==
    /\ pc = "free"
    /\ orphans' = IF outstanding = 0 THEN orphans ELSE orphans + Cardinality(InFlight)
    /\ phase' = [s \in Slots |-> "idle"]
    /\ result' = [s \in Slots |-> "none"]
    /\ pc' = "finish"
    /\ UNCHANGED <<dev, status, i, r, next_status, tries, after, app, world>>

FreeBuffersAll ==
    /\ pc = "free"
    /\ next_status' = "INACTIVE"
    /\ phase' = [s \in Slots |-> "idle"]
    /\ result' = [s \in Slots |-> "none"]
    /\ pc' = "finish"
    /\ UNCHANGED <<dev, status, orphans, i, r, tries, after, app, world>>

(* _rtlsdr_free_async_buffers(): everything is freed when the counter says *)
(* nothing is in flight, and leaked otherwise.                             *)
FreeBuffers ==
    /\ pc = "free"
    /\ next_status' = IF outstanding = 0 THEN "INACTIVE" ELSE next_status
    /\ orphans' = IF outstanding = 0 THEN orphans ELSE orphans + Cardinality(InFlight)
    /\ phase' = [s \in Slots |-> "idle"]
    /\ result' = [s \in Slots |-> "none"]
    /\ pc' = "finish"
    /\ UNCHANGED <<dev, status, i, r, tries, after, app, world>>

ReadAsyncReturn ==
    /\ pc = "finish"
    /\ async_status' = next_status
    /\ pc' = "idle"
    /\ UNCHANGED <<async_cancel, dev_lost, outstanding, xfer_errors, xfers,
                   i, r, next_status, tries, after, app, world>>

Reader ==
    \/ ReadAsyncEntry \/ ReadAsyncArm \/ ReadAsyncClear
    \/ SubmitOk \/ SubmitFails
    \/ LoopTop \/ EventsReap \/ Check
    \/ \E e \in {"OK", "FAILED", "INTERRUPTED"} : EventsReturn(e)
    \/ CancelOne \/ CancelPassEnd \/ Drain \/ FreeBuffers \/ ReadAsyncReturn

-----------------------------------------------------------------------------
(* The application's thread. *)

(* rtlsdr_cancel_async(): the test, then the two writes. *)
CancelCall ==
    /\ "app_cancel" \in Env /\ apc = "idle" /\ open
    /\ apc' = "read" /\ ret' = "idle"
    /\ UNCHANGED <<dev, xfers, reader, world>>

CancelRead ==
    /\ apc = "read"
    /\ apc' = IF async_status = "RUNNING" THEN "mark" ELSE ret
    /\ UNCHANGED <<dev, xfers, reader, ret, world>>

CancelMark ==
    /\ apc = "mark"
    /\ async_status' = "CANCELING"
    /\ apc' = "flag"
    /\ UNCHANGED <<async_cancel, dev_lost, outstanding, xfer_errors, xfers,
                   reader, ret, world>>

CancelFlag ==
    /\ apc = "flag"
    /\ async_cancel' = TRUE
    /\ apc' = ret
    /\ UNCHANGED <<async_status, dev_lost, outstanding, xfer_errors, xfers,
                   reader, ret, world>>

(* Mutant: the wait is not bounded. *)
NeverGivesUp == FALSE

(* A bounded wait runs out: never before the reader has left, unless Env   *)
(* lets the reader take longer than the bound.                             *)
GivesUp == pc = "idle" \/ "wait_expires" \in Env

(* rtlsdr_cancel_async_save(): cancel, then wait at most 1 s. *)
SaveCall ==
    /\ "app_cancel" \in Env /\ apc = "idle" /\ open
    /\ async_status = "RUNNING" /\ ~dev_lost
    /\ apc' = "read" /\ ret' = "save"
    /\ UNCHANGED <<dev, xfers, reader, world>>

SaveReturn ==
    /\ apc = "save"
    /\ async_status = "INACTIVE" \/ dev_lost \/ GivesUp
    /\ apc' = "idle" /\ ret' = "idle"
    /\ UNCHANGED <<dev, xfers, reader, world>>

(* rtlsdr_close(): cancel a running stream, wake the event handler, wait   *)
(* at most 2 s for INACTIVE.                                               *)
CloseCall ==
    /\ "close" \in Env /\ apc = "idle" /\ open
    /\ pc \in {"entry", "arm"} => "close_during_start" \in Env
    /\ apc' = IF async_status = "RUNNING" THEN "read" ELSE "wait"
    /\ ret' = "wait"
    /\ UNCHANGED <<dev, xfers, reader, world>>

(* Mutant: a lost device is not waited for. *)
CloseWaitEndsOnLoss ==
    /\ apc = "wait"
    /\ async_status = "INACTIVE" \/ dev_lost \/ GivesUp
    /\ apc' = IF dev_lost THEN "shut" ELSE "deinit"
    /\ UNCHANGED <<dev, xfers, reader, ret, world>>

CloseWaitEnds ==
    /\ apc = "wait"
    /\ async_status = "INACTIVE" \/ GivesUp
    /\ apc' = IF dev_lost THEN "shut" ELSE "deinit"
    /\ UNCHANGED <<dev, xfers, reader, ret, world>>

(* rtlsdr_deinit_baseband(): its control transfers handle events on this   *)
(* thread, so callbacks of transfers still in flight may run here.         *)
DeinitReaps ==
    /\ apc = "deinit" /\ pc # "events" /\ ReapOne
    /\ UNCHANGED <<reader, app, unplugged, open, runs>>

DeinitEnds ==
    /\ apc = "deinit"
    /\ apc' = "shut"
    /\ UNCHANGED <<dev, xfers, reader, ret, world>>

(* libusb_close() under the event lock drops what is in flight, then       *)
(* libusb_exit() and free(dev).                                            *)
CloseDevice ==
    /\ apc = "shut" /\ pc # "events"
    /\ phase' = [s \in Slots |-> "idle"]
    /\ result' = [s \in Slots |-> "none"]
    /\ orphans' = 0
    /\ open' = FALSE
    /\ apc' = "closed"
    /\ UNCHANGED <<dev, status, reader, ret, unplugged, runs, faults>>

(* The steps of a call the application has made. *)
AppBusy ==
    \/ CancelRead \/ CancelMark \/ CancelFlag \/ SaveReturn
    \/ CloseWaitEnds \/ DeinitReaps \/ DeinitEnds \/ CloseDevice

AppCalls == CancelCall \/ SaveCall \/ CloseCall

(* Both threads are between calls; the application need not make another. *)
Rest ==
    /\ pc = "idle" /\ apc \in {"idle", "closed"}
    /\ UNCHANGED vars

Next ==
    \/ \E s \in Slots, st \in Results : KernelCompletes(s, st)
    \/ Unplug
    \/ ReadAsyncCall \/ Reader
    \/ AppCalls \/ AppBusy
    \/ Rest

(* Each thread that is inside a call goes on running; nothing is assumed   *)
(* of the kernel, the plug or the application's next call.                 *)
Fairness == WF_vars(Reader) /\ WF_vars(AppBusy)

Spec == Init /\ [][Next]_vars /\ Fairness

-----------------------------------------------------------------------------
(* Properties. *)

(* The threads and the device stay within their types. *)
TypeOK ==
    /\ async_status \in {"INACTIVE", "RUNNING", "CANCELING"}
    /\ async_cancel \in BOOLEAN /\ dev_lost \in BOOLEAN
    /\ outstanding \in Int /\ xfer_errors \in 0 .. N
    /\ phase \in [Slots -> {"idle", "flying", "cancelled", "late"}]
    /\ result \in [Slots -> Results \cup {"none"}]
    /\ status \in [Slots -> Results \cup {"NEW"}]
    /\ orphans \in Nat
    /\ pc \in {"idle", "entry", "arm", "clear", "submit", "loop", "events",
               "check", "cancel", "drain", "free", "finish"}
    /\ i \in 1 .. N + 1
    /\ r \in Returns
    /\ next_status \in {"INACTIVE", "CANCELING"}
    /\ tries \in 0 .. DrainTries
    /\ after \in {"check", "cancel", "drain", "drained"}
    /\ apc \in {"idle", "read", "mark", "flag", "save", "wait", "deinit",
                "shut", "closed"}
    /\ ret \in {"idle", "save", "wait"}
    /\ unplugged \in BOOLEAN /\ open \in BOOLEAN
    /\ runs \in 0 .. MaxRuns
    /\ faults \in 0 .. MaxFaults

(* xfer_outstanding counts exactly the transfers libusb holds, from the    *)
(* first submission until the buffers are given up: the free trusts it.    *)
OutstandingExact ==
    pc \in {"submit", "loop", "events", "check", "cancel", "drain", "free"} =>
        outstanding = Cardinality(InFlight)

(* "Never free a transfer libusb still has in flight": when the free takes *)
(* its freeing branch no transfer of the run is in flight.                 *)
NoFreeInFlight == pc = "free" /\ outstanding = 0 => InFlight = {}

(* rtlsdr_close() never tears the device down under a reader that is still *)
(* inside rtlsdr_read_async().                                             *)
NoCloseUnderReader == apc \in {"deinit", "shut", "closed"} => pc = "idle"

(* A run that leaks nothing ends with async_status INACTIVE, whatever      *)
(* ended it and whatever the passes of its loop have left in next_status.  *)
RunEndsInactive == pc = "finish" /\ orphans = 0 => next_status = "INACTIVE"

(* Between calls the device can be streamed from again: a run that ended   *)
(* without leaking has left async_status INACTIVE, whatever ended it.      *)
QuietIsInactive ==
    pc = "idle" /\ apc = "idle" /\ orphans = 0 => async_status = "INACTIVE"

(* A run whose submit loop broke off never reports success, although the   *)
(* error itself is overwritten by every later libusb call.                 *)
FailedStartReported ==
    pc = "free" /\ (\E s \in Slots : status[s] = "NEW" /\ phase[s] = "idle")
        => r # "OK"

(* While the reader waits for samples the stream can still produce some.   *)
StreamNotStalled ==
    pc = "events" /\ after = "check" /\ async_status = "RUNNING" /\ ~dev_lost
        => InFlight # {}

(* The drain is not outrun: it re-arms nothing of what it cancelled.       *)
DrainNeverRearms ==
    [][pc = "events" /\ after = "drained" =>
         \A s \in Slots : phase'[s] = "flying" => phase[s] = "flying"]_vars

(* An unplug ends the run without any call of the application.             *)
UnplugEndsRun == unplugged /\ pc # "idle" ~> pc = "idle"

(* rtlsdr_cancel_async_save() and rtlsdr_close() return.                   *)
CallsReturn == apc # "idle" ~> apc \in {"idle", "closed"}

=============================================================================
