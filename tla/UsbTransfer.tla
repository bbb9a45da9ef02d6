----------------------------- MODULE UsbTransfer -----------------------------
(***************************************************************************)
(* The life of the transfers of one device handle in libusb-andro: io.c    *)
(* (submit, cancel, complete, time out, disconnect), sync.c (control       *)
(* transfers), core.c (close) and os/linux_usbfs.c (URBs).                 *)
(*                                                                         *)
(* "E" is the thread that handles events, under the event lock, and runs   *)
(* every callback.  The Callers are threads of the application: they       *)
(* submit, cancel, make synchronous control transfers and close the        *)
(* handle.  flying_transfers_lock (fl) and each transfer's own lock (tl)   *)
(* are explicit: whatever a thread does between taking and releasing them  *)
(* may be interleaved with the steps of other threads and the kernel.      *)
(***************************************************************************)
EXTENDS Integers, Sequences, FiniteSets

CONSTANTS
    Callers,   \* the application's threads
    Bulk,      \* the bulk transfers, submitted without a timeout
    Control,   \* the transfers of synchronous control requests
    U,         \* the URBs a bulk transfer is split into
    ReapAfter, \* the kernel has USBFS_CAP_REAP_AFTER_DISCONNECT
    Env        \* what the surroundings may do, see Behaviours

Behaviours == {
    "short",       \* a bulk URB ends with less data than asked for
    "stall",       \* an endpoint stalls (EPIPE)
    "overflow",    \* the device sends too much, in a last URB (EOVERFLOW)
    "lowlevel",    \* EPROTO and the like
    "refuse",      \* SUBMITURB fails on a device that is present
    "timeout",     \* a control transfer's timeout expires
    "event_error", \* handle_events fails in a thread that waits
    "resubmit",    \* a bulk callback submits its transfer again
    "double",      \* a transfer is submitted that already is
    "unplug", "close"}

ASSUME UsbConstants ==
    /\ Callers \cap {"E", "none"} = {}
    /\ Bulk \cap Control = {} /\ Bulk \cup Control # {}
    /\ U \in Nat \ {0}
    /\ ReapAfter \in BOOLEAN
    /\ Env \subseteq Behaviours

Transfers == Bulk \cup Control
Threads   == Callers \cup {"E"}
Urbs(t)   == IF t \in Control THEN 1 ELSE U   \* tpriv->num_urbs

UrbStatus == {"full", "short", "unlinked", "nodev", "stall", "overflow", "lowlevel"}
Actions   == {"NORMAL", "SUBMIT_FAILED", "CANCELLED", "COMPLETED_EARLY", "ERROR"}
Statuses  == {"COMPLETED", "ERROR", "STALL", "OVERFLOW", "NO_DEVICE",
              "CANCELLED", "TIMED_OUT"}

VARIABLES
    flying,  \* ctx->flying_transfers
    fl,      \* the owner of ctx->flying_transfers_lock
    tl,      \* the owner of each itransfer->lock
    x,       \* the fields of each usbi_transfer and its linux_transfer_priv
    refs,    \* the references to the device held by handle and transfers
    poll,    \* the handle's fd: live, err and scan after POLLERR, removed
    open,    \* the handle is open
    alive,   \* the control transfers that are allocated
    queued,  \* URBs the host controller owns: <<transfer, number, fresh>>
    done,    \* URBs to be reaped, in order: <<transfer, number, fresh, status>>;
             \* the first is the one that E handles while it is in "complete"
    unplugged,
    pc, cur, back,   \* per thread: its place, its transfer, where a submit returns
    exp,     \* the transfer whose timeout the holder of fl is handling
    n,       \* per thread: the next URB to submit, 1 between submissions
    out,     \* the status E is going to report, until it has
    todo,    \* the flying transfers E has still to look at in the disconnect
    held,    \* submissions of each transfer whose callback has not run
    accepted \* who cancelled each transfer with success: none, user, timeout;
             \* forgotten when its status is known

locks  == <<fl, tl>>
kernel == <<queued, done, unplugged>>
thread == <<pc, cur, back, n, exp>>
event  == <<poll, out, todo>>
ghost  == <<held, accepted>>
vars   == <<flying, locks, x, refs, open, alive, kernel, thread, event, ghost>>

Go(p, to) == pc' = [pc EXCEPT ![p] = to]

Idle == [flags |-> {}, expiry |-> {}, urbs |-> FALSE, retired |-> 0,
         action |-> "NORMAL", status |-> "COMPLETED"]

Init ==
    /\ flying = {} /\ fl = "none" /\ tl = [t \in Transfers |-> "none"]
    /\ x = [t \in Transfers |-> Idle]
    /\ refs = 1 /\ poll = "live" /\ open = TRUE /\ alive = {}
    /\ queued = {} /\ done = <<>> /\ unplugged = FALSE
    /\ pc = [p \in Threads |-> "rest"]
    /\ cur = [p \in Threads |-> CHOOSE t \in Transfers : TRUE]
    /\ back = [p \in Threads |-> "rest"]
    /\ n = [p \in Threads |-> 1]
    /\ exp = CHOOSE t \in Transfers : TRUE
    /\ out = "COMPLETED" /\ todo = {}
    /\ held = [t \in Transfers |-> 0]
    /\ accepted = [t \in Transfers |-> "none"]

InFlight(t)   == "IN_FLIGHT" \in x[t].flags
Cancelling(t) == "CANCELLING" \in x[t].flags

-----------------------------------------------------------------------------
(* The kernel. *)

(* The URBs of an endpoint end in the order of their submission.  After    *)
(* an unplug the rest end with ESHUTDOWN or, killed by usbfs, ENOENT.      *)
KernelCompletes(e, st) ==
    /\ e \in queued
    /\ \A f \in queued : f[1] = e[1] /\ f[3] = e[3] => e[2] <= f[2]
    /\ IF unplugged THEN st \in {"nodev", "unlinked"}
       ELSE \/ st = "full"
            \/ st \in {"stall", "lowlevel"} /\ st \in Env
            \/ st = "short" /\ st \in Env /\ e[1] \in Bulk
            \/ st = "overflow" /\ st \in Env /\ e[2] = Urbs(e[1])
    /\ queued' = queued \ {e}
    /\ done' = Append(done, <<e[1], e[2], e[3], st>>)
    /\ UNCHANGED <<flying, locks, x, refs, open, alive, unplugged, thread, event, ghost>>

Unplug ==
    /\ "unplug" \in Env /\ ~unplugged /\ unplugged' = TRUE
    /\ UNCHANGED <<flying, locks, x, refs, open, alive, queued, done, thread, event, ghost>>

(* discard_urbs(): the URBs first .. last of t that are still queued come  *)
(* back at once, the last of them first; the one in progress may have      *)
(* ended by itself.  A device that is gone refuses (ENODEV).  q: what was   *)
(* to be reaped before.                                                    *)
Discard(t, first, last, st, q) ==
    LET hit   == {u \in first .. last : <<t, u, TRUE>> \in queued}
        nth(k) == CHOOSE u \in hit : Cardinality({v \in hit : v > u}) = k - 1
    IN IF unplugged THEN queued' = queued /\ done' = q
       ELSE /\ queued' = queued \ {<<t, u, TRUE>> : u \in hit}
            /\ done' = q \o [k \in 1 .. Cardinality(hit) |->
                   <<t, nth(k), TRUE, IF k = Cardinality(hit) THEN st ELSE "unlinked">>]

(* Freeing tpriv->urbs with URBs still out clears their usercontext: they  *)
(* are no longer fresh.                                                    *)
Stale(t, q) == {IF e[1] = t THEN <<t, e[2], FALSE>> ELSE e : e \in q}
StaleDone(t, s) == [k \in DOMAIN s |-> IF s[k][1] = t THEN <<t, s[k][2], FALSE, s[k][4]>> ELSE s[k]]

-----------------------------------------------------------------------------
(* libusb_submit_transfer(), on either thread. *)

Submitting == {"list", "enlist", "urbs", "submitted", "undo"}

(* E submits between two calls of handle_events and from a callback.  One  *)
(* thread at a time submits a transfer.                                    *)
SubmitCall(p, t) ==
    /\ open /\ pc[p] = "rest" /\ t \in Bulk
    /\ \A q \in Threads : cur[q] = t => pc[q] \notin Submitting
    /\ held[t] > 0 => "double" \in Env /\ p \in Callers
    /\ Go(p, "list")
    /\ cur' = [cur EXCEPT ![p] = t] /\ back' = [back EXCEPT ![p] = "rest"]
    /\ UNCHANGED <<flying, locks, x, refs, open, alive, kernel, n, exp, event, ghost>>

(* libusb_control_transfer() allocates its transfer for the one request.   *)
ControlCall(p, t) ==
    /\ open /\ pc[p] = "rest" /\ t \in Control \ alive
    /\ alive' = alive \cup {t}
    /\ Go(p, "list")
    /\ cur' = [cur EXCEPT ![p] = t] /\ back' = [back EXCEPT ![p] = "wait"]
    /\ UNCHANGED <<flying, locks, x, refs, open, kernel, n, exp, event, ghost>>

SubmitTakeList(p) ==
    /\ pc[p] = "list" /\ fl = "none"
    /\ fl' = p
    /\ Go(p, "enlist")
    /\ UNCHANGED <<flying, tl, x, refs, open, alive, kernel, cur, back, n, exp, event, ghost>>

(* With both locks: BUSY, or clear the transfer and put it on the list.    *)
SubmitBusy(p) ==
    /\ pc[p] = "enlist" /\ tl[cur[p]] = "none" /\ InFlight(cur[p])
    /\ fl' = "none"
    /\ Go(p, back[p])
    /\ UNCHANGED <<flying, tl, x, refs, open, alive, kernel, cur, back, n, exp, event, ghost>>

SubmitEnlist(p) ==
    /\ pc[p] = "enlist" /\ tl[cur[p]] = "none" /\ ~InFlight(cur[p])
    /\ fl' = "none" /\ tl' = [tl EXCEPT ![cur[p]] = p]
    /\ x' = [x EXCEPT ![cur[p]] = [Idle EXCEPT !.urbs = TRUE]]
    /\ flying' = flying \cup {cur[p]}
    /\ Go(p, "urbs")
    /\ UNCHANGED <<refs, open, alive, kernel, cur, back, n, exp, event, ghost>>

UrbAccepted(p) ==
    /\ pc[p] = "urbs" /\ ~unplugged
    /\ queued' = queued \cup {<<cur[p], n[p], TRUE>>}
    /\ n' = [n EXCEPT ![p] = @ + 1]
    /\ Go(p, IF n[p] = Urbs(cur[p]) THEN "submitted" ELSE "urbs")
    /\ UNCHANGED <<flying, locks, x, refs, open, alive, done, unplugged, cur, back, exp, event, ghost>>

(* The ioctl fails for the first URB: the submission fails. *)
FirstUrbRefused(p) ==
    /\ pc[p] = "urbs" /\ n[p] = 1
    /\ unplugged \/ "refuse" \in Env
    /\ x' = [x EXCEPT ![cur[p]].urbs = FALSE]
    /\ tl' = [tl EXCEPT ![cur[p]] = "none"]
    /\ Go(p, "undo")
    /\ UNCHANGED <<flying, fl, refs, open, alive, kernel, cur, back, n, exp, event, ghost>>

(* Mutant: an URB that was accepted is counted as retired. *)
LaterUrbRefusedOvercounted(p, st) ==
    LET t     == cur[p]
        early == \E k \in DOMAIN done : done[k][1] = t /\ done[k][3] /\ done[k][4] = "short"
    IN
    /\ pc[p] = "urbs" /\ n[p] > 1
    /\ unplugged \/ early \/ "refuse" \in Env
    /\ \/ /\ early /\ ~unplugged
          /\ x' = [x EXCEPT ![t].action = "COMPLETED_EARLY",
                            ![t].retired = @ + Urbs(t) - n[p] + 2]
          /\ UNCHANGED kernel
       \/ /\ unplugged \/ "refuse" \in Env
          /\ x' = [x EXCEPT ![t].action = "SUBMIT_FAILED",
                            ![t].retired = @ + Urbs(t) - n[p] + 2]
          /\ Discard(t, 1, n[p] - 1, st, done) /\ UNCHANGED unplugged
    /\ Go(p, "submitted")
    /\ UNCHANGED <<flying, locks, refs, open, alive, cur, back, n, exp, event, ghost>>

(* It fails for a later one: the submission succeeds, without the rest of  *)
(* the URBs.  EREMOTEIO tells of an earlier URB that came back short, and  *)
(* then nothing is discarded.                                              *)
LaterUrbRefused(p, st) ==
    LET t     == cur[p]
        early == \E k \in DOMAIN done : done[k][1] = t /\ done[k][3] /\ done[k][4] = "short"
    IN
    /\ pc[p] = "urbs" /\ n[p] > 1
    /\ unplugged \/ early \/ "refuse" \in Env
    /\ \/ /\ early /\ ~unplugged
          /\ x' = [x EXCEPT ![t].action = "COMPLETED_EARLY",
                            ![t].retired = @ + Urbs(t) - n[p] + 1]
          /\ UNCHANGED kernel
       \/ /\ unplugged \/ "refuse" \in Env
          /\ x' = [x EXCEPT ![t].action = "SUBMIT_FAILED",
                            ![t].retired = @ + Urbs(t) - n[p] + 1]
          /\ Discard(t, 1, n[p] - 1, st, done) /\ UNCHANGED unplugged
    /\ Go(p, "submitted")
    /\ UNCHANGED <<flying, locks, refs, open, alive, cur, back, n, exp, event, ghost>>

(* Mutant: no reference is taken for a partial submission. *)
SubmittedNoRef(p) ==
    /\ pc[p] = "submitted"
    /\ x' = [x EXCEPT ![cur[p]].flags = @ \cup {"IN_FLIGHT"}]
    /\ refs' = IF x[cur[p]].action = "SUBMIT_FAILED" THEN refs ELSE refs + 1
    /\ held' = [held EXCEPT ![cur[p]] = @ + 1]
    /\ tl' = [tl EXCEPT ![cur[p]] = "none"]
    /\ n' = [n EXCEPT ![p] = 1]
    /\ Go(p, back[p])
    /\ UNCHANGED <<flying, fl, open, alive, kernel, cur, back, exp, event, accepted>>

Submitted(p) ==
    /\ pc[p] = "submitted"
    /\ x' = [x EXCEPT ![cur[p]].flags = @ \cup {"IN_FLIGHT"}]
    /\ refs' = refs + 1
    /\ held' = [held EXCEPT ![cur[p]] = @ + 1]
    /\ tl' = [tl EXCEPT ![cur[p]] = "none"]
    /\ n' = [n EXCEPT ![p] = 1]
    /\ Go(p, back[p])
    /\ UNCHANGED <<flying, fl, open, alive, kernel, cur, back, exp, event, accepted>>

(* A failed submission leaves the list; a control request gives up.        *)
SubmitUndo(p) ==
    /\ pc[p] = "undo" /\ fl = "none"
    /\ flying' = flying \ {cur[p]}
    /\ alive' = alive \ {cur[p]}
    /\ Go(p, IF back[p] = "wait" THEN "rest" ELSE back[p])
    /\ UNCHANGED <<locks, x, refs, open, kernel, cur, back, n, exp, event, ghost>>

-----------------------------------------------------------------------------
(* libusb_cancel_transfer(), under the transfer's lock. *)

CancelReturn(t) ==
    IF ~InFlight(t) \/ Cancelling(t) \/ ~x[t].urbs THEN "NOT_FOUND"
    ELSE IF unplugged THEN "NO_DEVICE"
    ELSE IF <<t, Urbs(t), TRUE>> \in queued THEN "OK" ELSE "NOT_FOUND"

Cancel(t, st, by) ==
    LET r == CancelReturn(t) IN
    /\ tl[t] = "none"
    /\ IF InFlight(t) /\ ~Cancelling(t)
       THEN /\ Discard(t, 1, Urbs(t), st, done)
            /\ x' = [x EXCEPT
                 ![t].flags = @ \cup {"CANCELLING"}
                                \cup IF r = "NO_DEVICE" THEN {"DISAPPEARED"} ELSE {},
                 ![t].expiry = @ \cup IF by = "timeout" THEN {"HANDLED"} ELSE {},
                 ![t].action = IF r = "OK" /\ ~(t \in Bulk /\ @ = "ERROR")
                               THEN "CANCELLED" ELSE @]
            /\ accepted' = [accepted EXCEPT ![t] = IF r = "OK" THEN by ELSE @]
       ELSE /\ x' = [x EXCEPT ![t].expiry =
                        @ \cup IF by = "timeout" THEN {"HANDLED"} ELSE {}]
            /\ UNCHANGED <<queued, done, accepted>>

(* The application cancels a bulk transfer, or E does between two calls of *)
(* handle_events.                                                          *)
CancelTransfer(p, t, st) ==
    /\ open /\ pc[p] = "rest" /\ t \in Bulk
    /\ Cancel(t, st, "user")
    /\ UNCHANGED <<flying, locks, refs, open, alive, unplugged, thread, event, held>>

(* sync_transfer_wait_for_completion() cancels when handle_events fails.   *)
SyncCancel(p, st) ==
    /\ "event_error" \in Env /\ pc[p] = "wait" /\ held[cur[p]] > 0
    /\ Cancel(cur[p], st, "user")
    /\ UNCHANGED <<flying, locks, refs, open, alive, unplugged, thread, event, held>>

(* handle_timeouts(), on the thread that handles events or on one that     *)
(* waits for it, holds the list's lock throughout.                         *)
Expired(t) == t \in flying \cap Control /\ "HANDLED" \notin x[t].expiry

(* Mutant: a thread that waits leaves the timeouts to the event handler. *)
TimeoutsOnlyHandler(p) ==
    /\ "timeout" \in Env /\ fl = "none" /\ \E t \in Control : Expired(t)
    /\ p = "E" /\ pc[p] = "rest" /\ open
    /\ back' = [back EXCEPT ![p] = pc[p]]
    /\ fl' = p
    /\ Go(p, "expire")
    /\ UNCHANGED <<flying, tl, x, refs, open, alive, kernel, cur, n, exp, event, ghost>>

TimeoutsTakeList(p) ==
    /\ "timeout" \in Env /\ fl = "none" /\ \E t \in Control : Expired(t)
    /\ pc[p] = IF p = "E" THEN "rest" ELSE "wait"
    /\ open
    /\ back' = [back EXCEPT ![p] = pc[p]]
    /\ fl' = p
    /\ Go(p, "expire")
    /\ UNCHANGED <<flying, tl, x, refs, open, alive, kernel, cur, n, exp, event, ghost>>

(* Mutant: the list's lock is let go before the transfer is marked. *)
HandleTimeoutUnlocks(p, t, st) ==
    /\ pc[p] = "expire" /\ Expired(t)
    /\ Cancel(t, st, "timeout")
    /\ exp' = t
    /\ fl' = "none"
    /\ Go(p, IF CancelReturn(t) = "OK" THEN "mark" ELSE "expire")
    /\ UNCHANGED <<flying, tl, refs, open, alive, unplugged, cur, back, n, event, held>>

HandleTimeout(p, t, st) ==
    /\ pc[p] = "expire" /\ Expired(t)
    /\ Cancel(t, st, "timeout")
    /\ exp' = t
    /\ Go(p, IF CancelReturn(t) = "OK" THEN "mark" ELSE "expire")
    /\ UNCHANGED <<flying, locks, refs, open, alive, unplugged, cur, back, n, event, held>>

TimeoutMark(p) ==
    /\ pc[p] = "mark"
    /\ x' = [x EXCEPT ![exp].expiry = @ \cup {"TIMED_OUT"}]
    /\ Go(p, "expire")
    /\ UNCHANGED <<flying, locks, refs, open, alive, kernel, cur, back, n, exp, event, ghost>>

TimeoutsEnd(p) ==
    /\ pc[p] = "expire" /\ ~ \E t \in Control : Expired(t)
    /\ fl' = "none"
    /\ Go(p, back[p])
    /\ UNCHANGED <<flying, tl, x, refs, open, alive, kernel, cur, back, n, exp, event, ghost>>

-----------------------------------------------------------------------------
(* Handling events, on E. *)

(* op_handle_events() for a ready fd: reap until nothing is left.          *)
EventsStart ==
    /\ pc["E"] = "rest" /\ open /\ poll = "live" /\ ~unplugged /\ done # <<>>
    /\ Go("E", "reap")
    /\ UNCHANGED <<flying, locks, x, refs, open, alive, kernel, cur, back, n, exp, event, ghost>>

(* POLLERR: the fd leaves the set; what is left is reaped where the kernel *)
(* still lets it, and usbi_handle_disconnect() ends the rest.              *)
EventsError ==
    /\ pc["E"] = "rest" /\ open /\ poll = "live" /\ unplugged
    /\ poll' = IF ReapAfter THEN "err" ELSE "scan"
    /\ Go("E", IF ReapAfter THEN "reap" ELSE "scan")
    /\ UNCHANGED <<flying, locks, x, refs, open, alive, kernel, cur, back, n, exp,
                   out, todo, ghost>>

Reapable == done # <<>> /\ (unplugged => ReapAfter)

(* reap_for_handle(): a URB without usercontext is discarded. *)
Reap ==
    /\ pc["E"] = "reap" /\ Reapable
    /\ cur' = [cur EXCEPT !["E"] = Head(done)[1]]
    /\ IF Head(done)[3] THEN Go("E", "complete") /\ UNCHANGED done
                        ELSE done' = Tail(done) /\ UNCHANGED pc
    /\ UNCHANGED <<flying, locks, x, refs, open, alive, queued, unplugged, back, n, exp,
                   event, ghost>>

(* Mutant: what cannot be reaped after an unplug is left alone. *)
ReapEndNoDisconnect ==
    /\ pc["E"] = "reap" /\ ~Reapable
    /\ poll' = IF poll = "err" THEN "removed" ELSE poll
    /\ Go("E", "rest")
    /\ UNCHANGED <<flying, locks, x, refs, open, alive, kernel, cur, back, n, exp,
                   out, todo, ghost>>

ReapEnd ==
    /\ pc["E"] = "reap" /\ ~Reapable
    /\ poll' = IF poll = "err" THEN "scan" ELSE poll
    /\ Go("E", IF poll = "err" THEN "scan" ELSE "rest")
    /\ UNCHANGED <<flying, locks, x, refs, open, alive, kernel, cur, back, n, exp,
                   out, todo, ghost>>

(* What the completion of URB u with status st does to a bulk transfer in  *)
(* state f.  Only in state NORMAL does the URB's status count.             *)
TearsDown(f, u, st) ==
    \/ st \in {"nodev", "stall", "lowlevel"}
    \/ st \in {"short", "unlinked"} /\ u < U

Reports(f, u, st) ==
    \/ f.retired + 1 = U /\ (f.action # "NORMAL" \/ TearsDown(f, u, st))
    \/ f.action = "NORMAL" /\ (st = "overflow" \/ (u = U /\ st \in {"full", "short", "unlinked"}))

NewAction(f, u, st) ==
    IF f.action # "NORMAL" THEN f.action
    ELSE CASE st = "lowlevel" -> "ERROR"
           [] st \in {"short", "unlinked"} /\ u < U -> "COMPLETED_EARLY"
           [] OTHER -> "NORMAL"

NewStatus(f, u, st) ==
    LET worse(s) == IF f.status = "COMPLETED" THEN s ELSE f.status IN
    IF f.action # "NORMAL"
    THEN IF f.retired + 1 = U /\ f.action # "COMPLETED_EARLY" THEN worse("ERROR") ELSE f.status
    ELSE CASE st = "nodev"    -> "NO_DEVICE"
           [] st = "stall"    -> worse("STALL")
           [] st = "overflow" -> worse("OVERFLOW")
           [] st = "lowlevel" -> worse("ERROR")
           [] OTHER           -> f.status

(* handle_bulk_completion(), under the transfer's lock. *)
BulkCompletion(kst) ==
    LET t == cur["E"]  u == Head(done)[2]  st == Head(done)[4]  f == x[t]
        report == Reports(f, u, st)
        action == NewAction(f, u, st)
    IN
    /\ pc["E"] = "complete" /\ t \in Bulk /\ tl[t] = "none"
    /\ IF ~f.urbs
       THEN /\ done' = Tail(done)
            /\ Go("E", "reap") /\ UNCHANGED <<x, out, queued>>
       ELSE /\ x' = [x EXCEPT ![t].retired = @ + 1, ![t].action = action,
                              ![t].status = NewStatus(f, u, st), ![t].urbs = ~report]
            /\ IF report
               THEN /\ queued' = Stale(t, queued) /\ done' = StaleDone(t, Tail(done))
                    /\ out' = NewStatus(f, u, st)
                    /\ Go("E", IF action = "CANCELLED" THEN "late" ELSE "remove")
               ELSE /\ IF f.action = "NORMAL" /\ TearsDown(f, u, st)
                       THEN Discard(t, u + 1, U, kst, Tail(done))
                       ELSE UNCHANGED queued /\ done' = Tail(done)
                    /\ UNCHANGED out
                    /\ Go("E", "reap")
    /\ UNCHANGED <<flying, locks, refs, open, alive, unplugged, cur, back, n, exp,
                   poll, todo, ghost>>

(* handle_control_completion(). *)
ControlStatus(st) ==
    CASE st = "full" -> "COMPLETED" [] st = "unlinked" -> "CANCELLED"
      [] st = "nodev" -> "NO_DEVICE" [] st = "stall" -> "STALL"
      [] st = "overflow" -> "OVERFLOW" [] OTHER -> "ERROR"

ControlCompletion ==
    LET t == cur["E"] IN
    /\ pc["E"] = "complete" /\ t \in Control /\ tl[t] = "none"
    /\ x' = [x EXCEPT ![t].urbs = FALSE]
    /\ out' = ControlStatus(Head(done)[4]) /\ done' = Tail(done)
    /\ Go("E", IF x[t].action = "CANCELLED" THEN "late" ELSE "remove")
    /\ UNCHANGED <<flying, locks, refs, open, alive, queued, unplugged, cur, back, n, exp,
                   poll, todo, ghost>>

(* usbi_handle_transfer_cancellation(): was it the timeout?  Mutant: the   *)
(* flag is read without the lock.                                          *)
CancellationUnlocked ==
    /\ pc["E"] = "late"
    /\ out' = IF "TIMED_OUT" \in x[cur["E"]].expiry THEN "TIMED_OUT" ELSE "CANCELLED"
    /\ Go("E", "remove")
    /\ UNCHANGED <<flying, locks, x, refs, open, alive, kernel, cur, back, n, exp,
                   poll, todo, ghost>>

Cancellation ==
    /\ pc["E"] = "late" /\ fl = "none"
    /\ out' = IF "TIMED_OUT" \in x[cur["E"]].expiry THEN "TIMED_OUT" ELSE "CANCELLED"
    /\ Go("E", "remove")
    /\ UNCHANGED <<flying, locks, x, refs, open, alive, kernel, cur, back, n, exp,
                   poll, todo, ghost>>

(* usbi_handle_transfer_completion(): off the list, not in flight, the     *)
(* callback, the device reference.                                         *)
Remove ==
    /\ pc["E"] = "remove" /\ fl = "none"
    /\ flying' = flying \ {cur["E"]}
    /\ accepted' = [accepted EXCEPT ![cur["E"]] = "none"]
    /\ Go("E", "clear")
    /\ UNCHANGED <<locks, x, refs, open, alive, kernel, cur, back, n, exp, event, held>>

(* Mutant: the transfer stays in flight. *)
ClearInFlightForgotten ==
    /\ pc["E"] = "clear" /\ tl[cur["E"]] = "none"
    /\ Go("E", "callback")
    /\ UNCHANGED <<flying, locks, x, refs, open, alive, kernel, cur, back, n, exp, event, ghost>>

ClearInFlight ==
    /\ pc["E"] = "clear" /\ tl[cur["E"]] = "none"
    /\ x' = [x EXCEPT ![cur["E"]].flags = @ \ {"IN_FLIGHT"}]
    /\ Go("E", "callback")
    /\ UNCHANGED <<flying, locks, refs, open, alive, kernel, cur, back, n, exp, event, ghost>>

(* The callback of a bulk transfer may submit it again; that of a control  *)
(* transfer lets the thread that waits for it free it.                     *)
Callback ==
    /\ pc["E"] = "callback"
    /\ held' = [held EXCEPT ![cur["E"]] = @ - 1]
    /\ out' = "COMPLETED"
    /\ \/ Go("E", "unref") /\ UNCHANGED back
       \/ /\ "resubmit" \in Env /\ cur["E"] \in Bulk
          /\ Go("E", "list") /\ back' = [back EXCEPT !["E"] = "unref"]
    /\ UNCHANGED <<flying, locks, x, refs, open, alive, kernel, cur, n, exp, poll, todo, accepted>>

Unref ==
    /\ pc["E"] = "unref"
    /\ refs' = refs - 1
    /\ Go("E", IF poll = "scan" THEN "scan" ELSE "reap")
    /\ UNCHANGED <<flying, locks, x, open, alive, kernel, cur, back, n, exp, event, ghost>>

(* usbi_handle_disconnect(): under the list's lock look for a transfer in  *)
(* flight; end it after letting go of the locks, and look again.           *)
ScanTakeList ==
    /\ pc["E"] = "scan" /\ fl = "none"
    /\ fl' = "E" /\ todo' = flying
    /\ Go("E", "scanning")
    /\ UNCHANGED <<flying, tl, x, refs, open, alive, kernel, cur, back, n, exp,
                   poll, out, ghost>>

(* Mutants: whatever is on the list is ended; the transfer is looked at   *)
(* without its lock.                                                       *)
ScanOneUnchecked(t) ==
    /\ pc["E"] = "scanning" /\ t \in todo /\ tl[t] = "none"
    /\ todo' = {} /\ fl' = "none"
    /\ cur' = [cur EXCEPT !["E"] = t]
    /\ Go("E", "clearpriv")
    /\ UNCHANGED <<flying, tl, x, refs, open, alive, kernel, back, n, exp, poll, out, ghost>>

ScanOneNoWait(t) ==
    /\ pc["E"] = "scanning" /\ t \in todo
    /\ IF InFlight(t)
       THEN /\ todo' = {} /\ fl' = "none"
            /\ cur' = [cur EXCEPT !["E"] = t]
            /\ Go("E", "clearpriv")
       ELSE todo' = todo \ {t} /\ UNCHANGED <<fl, cur, pc>>
    /\ UNCHANGED <<flying, tl, x, refs, open, alive, kernel, back, n, exp, poll, out, ghost>>

ScanOne(t) ==
    /\ pc["E"] = "scanning" /\ t \in todo /\ tl[t] = "none"
    /\ IF InFlight(t)
       THEN /\ todo' = {} /\ fl' = "none"
            /\ cur' = [cur EXCEPT !["E"] = t]
            /\ Go("E", "clearpriv")
       ELSE todo' = todo \ {t} /\ UNCHANGED <<fl, cur, pc>>
    /\ UNCHANGED <<flying, tl, x, refs, open, alive, kernel, back, n, exp, poll, out, ghost>>

ScanEnd ==
    /\ pc["E"] = "scanning" /\ todo = {}
    /\ fl' = "none" /\ poll' = "removed"
    /\ Go("E", "rest")
    /\ UNCHANGED <<flying, tl, x, refs, open, alive, kernel, cur, back, n, exp,
                   out, todo, ghost>>

(* op_clear_transfer_priv() under the transfer's lock. *)
ClearPriv ==
    LET t == cur["E"] IN
    /\ pc["E"] = "clearpriv" /\ tl[t] = "none"
    /\ x' = [x EXCEPT ![t].urbs = FALSE]
    /\ IF x[t].urbs THEN queued' = Stale(t, queued) /\ done' = StaleDone(t, done)
                    ELSE UNCHANGED <<queued, done>>
    /\ out' = "NO_DEVICE"
    /\ Go("E", "remove")
    /\ UNCHANGED <<flying, locks, refs, open, alive, unplugged, cur, back, n, exp,
                   poll, todo, ghost>>

-----------------------------------------------------------------------------
(* The rest of the application's thread. *)

(* The callback has set *completed: the request's transfer is freed.       *)
WaitEnds(p) ==
    /\ pc[p] = "wait" /\ held[cur[p]] = 0
    /\ alive' = alive \ {cur[p]}
    /\ Go(p, "rest")
    /\ UNCHANGED <<flying, locks, x, refs, open, kernel, cur, back, n, exp, event, ghost>>

(* libusb_close() has the event lock: E is between two calls.  do_close()  *)
(* drops what is in flight and keeps the reference of each transfer.       *)
Close ==
    /\ "close" \in Env /\ open /\ pc = [p \in Threads |-> "rest"]
    /\ flying' = {} /\ refs' = refs - 1 /\ open' = FALSE
    /\ UNCHANGED <<locks, x, alive, kernel, thread, event, ghost>>

-----------------------------------------------------------------------------
Submit(p) ==
    \/ SubmitTakeList(p) \/ SubmitBusy(p) \/ SubmitEnlist(p)
    \/ UrbAccepted(p) \/ FirstUrbRefused(p)
    \/ \E st \in {"full", "unlinked"} : LaterUrbRefused(p, st)
    \/ Submitted(p) \/ SubmitUndo(p)

(* Passes of handle_timeouts(), once the list's lock has been taken. *)
Timeouts(p) ==
    \/ \E t \in Control, st \in {"full", "unlinked"} : HandleTimeout(p, t, st)
    \/ TimeoutMark(p) \/ TimeoutsEnd(p)

Completion ==
    \/ \E st \in {"full", "unlinked"} : BulkCompletion(st)
    \/ ControlCompletion \/ Cancellation
    \/ Remove \/ ClearInFlight \/ Callback \/ Unref

Events ==
    \/ EventsStart \/ EventsError \/ Reap \/ ReapEnd
    \/ ScanTakeList \/ (\E t \in Transfers : ScanOne(t)) \/ ScanEnd \/ ClearPriv

(* What each thread does of itself once it is inside a call. *)
Handler == Submit("E") \/ Timeouts("E") \/ Completion \/ Events
Caller(p) == Submit(p) \/ Timeouts(p) \/ WaitEnds(p)

Calls ==
    \/ \E p \in Threads, t \in Bulk : SubmitCall(p, t)
    \/ \E p \in Callers, t \in Control : ControlCall(p, t)
    \/ \E p \in Threads, t \in Bulk, st \in {"full", "unlinked"} : CancelTransfer(p, t, st)
    \/ \E p \in Callers, st \in {"full", "unlinked"} : SyncCancel(p, st)
    \/ \E p \in Threads : TimeoutsTakeList(p)
    \/ Close

(* The application need not make another call. *)
Rest == pc = [p \in Threads |-> "rest"] /\ UNCHANGED vars

Next ==
    \/ \E e \in queued, st \in UrbStatus : KernelCompletes(e, st)
    \/ Unplug
    \/ Handler \/ (\E p \in Callers : Caller(p)) \/ Calls \/ Rest

(* All threads run, get a lock they wait for, and the event thread comes  *)
(* back to its events; a timeout expires.  Nothing is assumed of the       *)
(* kernel, the plug or the application's next call.                        *)
Fairness ==
    /\ SF_vars(Handler) /\ SF_vars(EventsStart \/ EventsError)
    /\ \A p \in Callers : SF_vars(Caller(p)) /\ SF_vars(TimeoutsTakeList(p))

Spec == Init /\ [][Next]_vars /\ Fairness

-----------------------------------------------------------------------------
(* Properties. *)

(* The threads, the kernel and the transfers stay within their types. *)
TypeOK ==
    /\ flying \subseteq Transfers /\ alive \subseteq Control
    /\ fl \in Threads \cup {"none"}
    /\ tl \in [Transfers -> Threads \cup {"none"}]
    /\ x \in [Transfers ->
           [flags : SUBSET {"IN_FLIGHT", "CANCELLING", "DISAPPEARED"},
            expiry : SUBSET {"HANDLED", "TIMED_OUT"}, urbs : BOOLEAN,
            retired : Nat, action : Actions, status : Statuses]]
    /\ refs \in Int /\ poll \in {"live", "err", "scan", "removed"}
    /\ open \in BOOLEAN /\ unplugged \in BOOLEAN
    /\ queued \subseteq Transfers \X (1 .. U) \X BOOLEAN
    /\ done \in Seq(Transfers \X (1 .. U) \X BOOLEAN \X UrbStatus)
    /\ pc \in [Threads -> {"rest", "list", "enlist", "urbs", "submitted", "undo",
            "wait", "expire", "mark", "reap", "complete", "late", "remove",
            "clear", "callback", "unref", "scan", "scanning", "clearpriv"}]
    /\ cur \in [Threads -> Transfers]
    /\ back \in [Threads -> {"rest", "wait", "unref"}]
    /\ n \in [Threads -> 1 .. U + 1] /\ exp \in Transfers
    /\ out \in Statuses /\ todo \subseteq Transfers
    /\ held \in [Transfers -> Int]
    /\ accepted \in [Transfers -> {"none", "user", "timeout"}]

(* Each lock belongs to the thread whose place in the code holds it, and   *)
(* to nobody else: "release all locks before re-acquiring any".            *)
LocksExact ==
    /\ \A p \in Threads : fl = p <=> pc[p] \in {"enlist", "expire", "mark", "scanning"}
    /\ \A p \in Threads, t \in Transfers :
           tl[t] = p <=> pc[p] \in {"urbs", "submitted"} /\ cur[p] = t

Completing(t) ==
    IF cur["E"] = t /\ pc["E"] \in {"late", "remove", "clear", "callback"} THEN 1 ELSE 0

(* A transfer in flight is on the list where timeouts, disconnect and      *)
(* close look for it, until its completion has taken it off.               *)
FlyingExact ==
    open => \A t \in Transfers :
        InFlight(t) => t \in flying \/ (cur["E"] = t /\ pc["E"] = "clear")

(* Every submission that succeeded has its callback run exactly once: a    *)
(* transfer is IN_FLIGHT from its submission until E is about to run its   *)
(* callback, and E never runs one nobody waits for.                        *)
OneCallbackEach ==
    \A t \in Transfers :
        /\ held[t] >= Completing(t)
        /\ InFlight(t) => held[t] > 0
        /\ held[t] > 0 /\ ~InFlight(t) => pc["E"] = "callback" /\ cur["E"] = t

(* The device is referenced once by the handle and once by every transfer  *)
(* that is submitted (twice at most) and whose completion has not returned. *)
Owed ==
    IF \/ pc["E"] = "unref"
       \/ back["E"] = "unref" /\ pc["E"] \in Submitting
    THEN 1 ELSE 0

RefsExact ==
    refs = (IF open THEN 1 ELSE 0) + Owed
             + Cardinality({w \in Transfers \X (1 .. 2) : w[2] <= held[w[1]]})

(* "Your callback function will be invoked with CANCELLED": a cancel that  *)
(* returned 0 is what the callback hears of, a timeout is told from a      *)
(* cancel, and none of them is reported to a transfer nobody cancelled,    *)
(* unless the device is gone.                                              *)
CancelIsReported ==
    pc["E"] = "remove" =>
        LET by == accepted[cur["E"]] IN
        /\ by = "user"    => out = "CANCELLED" \/ (unplugged /\ out = "NO_DEVICE")
        /\ by = "timeout" => out = "TIMED_OUT" \/ (unplugged /\ out = "NO_DEVICE")
        /\ out = "TIMED_OUT" => by = "timeout"
        /\ out = "CANCELLED" => by = "user" \/ unplugged
        /\ out = "NO_DEVICE" => unplugged

(* A control transfer is freed by the thread that waits for it, while      *)
(* another may run timeouts or a completion: nobody may still need it.     *)
NoUseAfterFree ==
    \A t \in Control \ alive :
        /\ t \notin flying \cup todo /\ tl[t] = "none"
        /\ \A p \in Threads : cur[p] = t => pc[p] \in {"rest", "reap", "unref", "scan",
                                       "list", "expire", "mark", "scanning", "enlist"}
        /\ exp = t => \A p \in Threads : pc[p] # "mark"
        /\ \A e \in queued : e[1] = t => ~e[3]
        /\ \A k \in DOMAIN done : done[k][1] = t => ~done[k][3]

(* A URB that is reaped belongs to a transfer that still waits for it: the *)
(* results are not reported before the last of its URBs has come back, and *)
(* none of them is counted twice.                                          *)
ReapedIsAwaited ==
    /\ pc["E"] = "reap" /\ Reapable => Head(done)[3]
    /\ \A t \in Transfers : x[t].retired <= Urbs(t)

(* Once the disconnect has looked at all transfers, none is left: one that *)
(* was being submitted meanwhile has failed or has been waited for.        *)
DisconnectIsFinal == poll = "removed" => \A t \in Transfers : ~InFlight(t) /\ held[t] = 0

(* An unplug ends every transfer of an open handle. *)
UnplugEndsTransfers ==
    \A t \in Transfers : unplugged /\ open /\ held[t] > 0 ~> held[t] = 0 \/ ~open

(* Every call of the application returns: a synchronous control transfer   *)
(* is ended by its timeout or by an unplug at the latest.                  *)
CallsReturn == \A p \in Callers : pc[p] # "rest" ~> pc[p] = "rest"

=============================================================================
