------------------------------ MODULE EventLock ------------------------------
(***************************************************************************)
(* How the threads of one libusb context share the handling of events:     *)
(* the event lock and the threads that wait for its holder (io.c), the     *)
(* event pipe that interrupts a poll(), and the opening and closing of     *)
(* handles, which change the set of descriptors to poll (core.c, os/       *)
(* linux_usbfs.c).  UsbTransfer says what becomes of a transfer; here it   *)
(* is a request whose answer some thread has to fetch.                     *)
(*                                                                         *)
(* event_data_lock is only ever held over a few assignments and appears as *)
(* the atomicity of a step; events_lock, event_waiters_lock and            *)
(* open_devs_lock are held over waits and calls, and are explicit.         *)
(***************************************************************************)
EXTENDS Integers, FiniteSets

CONSTANTS
    Loopers,   \* threads that call libusb_handle_events() in a loop
    Requesters,\* threads that make synchronous requests
    Openers,   \* threads that open, close and interrupt
    Handles,   \* the device handles of a context
    Opened,    \* those that are open at the start
    MaxUnplugs \* bound: devices that are pulled

ASSUME EventConstants ==
    /\ Loopers \cap (Requesters \cup Openers) = {}
    /\ "none" \notin Loopers \cup Requesters \cup Openers
    /\ {"pipe", "none"} \cap Handles = {} /\ Handles # {}
    /\ Opened \subseteq Handles
    /\ IsFiniteSet(Openers) /\ MaxUnplugs \in Nat

Users   == Requesters \cup Openers
Threads == Loopers \cup Users

VARIABLES
    events_lock, event_handler_active,
    waiters_lock, waiting,  \* event_waiters_lock, and who waits on the condition
    open_devs_lock, open_devs,
    flags, device_close,    \* ctx->event_flags, ctx->device_close
    pipe,                   \* bytes in the event pipe
    ipollfds, removed,      \* the descriptors to poll, and those just removed
    pollfds,                \* the array built from ipollfds
    fired, failed,          \* what poll() reported to the event handler, and
                            \* which of it with POLLERR
    phase,                  \* a handle is new, opening, open, closing or closed
    fd_removed,             \* handles whose descriptor a disconnect removed
    unplugged,              \* devices that are gone
    pc, dev,                \* per thread: its place, and the handle of its call, if any
    request                 \* per user: none, pending, reapable, done

locks == <<events_lock, event_handler_active, waiters_lock, waiting, open_devs_lock>>
event == <<flags, device_close, pipe>>
polls == <<ipollfds, removed, pollfds, fired, failed>>
devs  == <<open_devs, phase, fd_removed, unplugged>>
vars  == <<locks, event, polls, devs, pc, dev, request>>

Places == {"rest", "try", "trylock", "own", "start", "poll", "events",
           "backend", "handle", "unlock", "release", "broadcast", "wait",
           "closing", "active", "sleep", "asleep", "woken", "list", "lock",
           "owned", "doclose", "finish"}

Go(p, to) == pc' = [pc EXCEPT ![p] = to]

Init ==
    /\ events_lock = "none" /\ event_handler_active = FALSE
    /\ waiters_lock = "none" /\ waiting = {} /\ open_devs_lock = "none"
    /\ flags = IF Opened = {} THEN {} ELSE {"POLLFDS_MODIFIED"}
    /\ device_close = 0 /\ pipe = Cardinality(flags)
    /\ ipollfds = Opened /\ removed = {} /\ pollfds = {} /\ fired = {} /\ failed = {}
    /\ open_devs = Opened
    /\ phase = [h \in Handles |-> IF h \in Opened THEN "open" ELSE "new"]
    /\ fd_removed = {} /\ unplugged = {}
    /\ pc = [p \in Threads |-> "rest"]
    /\ dev = [p \in Threads |-> "none"]
    /\ request = [p \in Threads |-> "none"]

(* usbi_pending_events(): hotplug messages and completed_transfers are not *)
(* used by this backend.                                                   *)
Pending(f, c) == f # {} \/ c > 0

(* Mutant: the pipe is written for every reason. *)
NotifyAlways(f, c) ==
    /\ flags' = f /\ device_close' = c
    /\ pipe' = pipe + 1

(* Add a reason to interrupt, or take some away: the pipe is written when  *)
(* there was none before, and read when none is left.                      *)
Notify(f, c) ==
    /\ flags' = f /\ device_close' = c
    /\ pipe' = IF Pending(flags, device_close) THEN pipe ELSE pipe + 1

Settle(f, c) ==
    /\ flags' = f /\ device_close' = c
    /\ pipe' = IF Pending(f, c) \/ pipe = 0 THEN pipe ELSE pipe - 1

-----------------------------------------------------------------------------
(* The kernel and the plug. *)

KernelCompletes(p) ==
    /\ request[p] = "pending"
    /\ request' = [request EXCEPT ![p] = "reapable"]
    /\ UNCHANGED <<locks, event, polls, devs, pc, dev>>

Unplug(h) ==
    /\ phase[h] \in {"opening", "open"} /\ h \notin unplugged
    /\ Cardinality(unplugged) < MaxUnplugs
    /\ unplugged' = unplugged \cup {h}
    /\ UNCHANGED <<locks, event, polls, open_devs, phase, fd_removed, pc, dev, request>>

Ready(h) == h \in unplugged \/ \E p \in Users : request[p] = "reapable" /\ dev[p] = h

(* What poll() would report. *)
Revents == {h \in pollfds : Ready(h)} \cup IF pipe > 0 THEN {"pipe"} ELSE {}

-----------------------------------------------------------------------------
(* libusb_handle_events_timeout_completed(). *)

(* A looper calls it for ever, a user until its own request is done.       *)
HandleEvents(p) ==
    /\ pc[p] = "rest"
    /\ p \in Loopers \/ request[p] \in {"pending", "reapable"}
    /\ Go(p, "try")
    /\ UNCHANGED <<locks, event, polls, devs, dev, request>>

(* libusb_try_lock_events() reads device_close, then tries the lock.       *)
(* Mutant: it does not ask whether a device is being closed.               *)
TryLockNoClose(p) ==
    /\ pc[p] = "try"
    /\ Go(p, "trylock")
    /\ UNCHANGED <<locks, event, polls, devs, dev, request>>

TryLock(p) ==
    /\ pc[p] = "try"
    /\ Go(p, IF device_close > 0 THEN "wait" ELSE "trylock")
    /\ UNCHANGED <<locks, event, polls, devs, dev, request>>

TryLockEvents(p) ==
    /\ pc[p] = "trylock"
    /\ IF events_lock = "none" THEN events_lock' = p /\ Go(p, "own")
                               ELSE UNCHANGED events_lock /\ Go(p, "wait")
    /\ UNCHANGED <<event_handler_active, waiters_lock, waiting, open_devs_lock,
                   event, polls, devs, dev, request>>

(* With the lock, *completed is looked at again.  Mutant: it is not. *)
OwnUnchecked(p) ==
    /\ pc[p] = "own"
    /\ event_handler_active' = TRUE
    /\ Go(p, "start")
    /\ UNCHANGED <<events_lock, waiters_lock, waiting, open_devs_lock,
                   event, polls, devs, dev, request>>

Own(p) ==
    /\ pc[p] = "own"
    /\ event_handler_active' = TRUE
    /\ Go(p, IF request[p] = "done" THEN "unlock" ELSE "start")
    /\ UNCHANGED <<events_lock, waiters_lock, waiting, open_devs_lock,
                   event, polls, devs, dev, request>>

(* handle_events(): the array is built again when it is out of date. *)
BuildPollFds(p) ==
    /\ pc[p] = "start"
    /\ removed' = {}
    /\ IF "POLLFDS_MODIFIED" \in flags
       THEN pollfds' = ipollfds /\ Settle(flags \ {"POLLFDS_MODIFIED"}, device_close)
       ELSE UNCHANGED <<pollfds, event>>
    /\ Go(p, "poll")
    /\ UNCHANGED <<locks, ipollfds, fired, failed, devs, dev, request>>

Poll(p) ==
    /\ pc[p] = "poll" /\ Revents # {}
    /\ fired' = Revents /\ failed' = Revents \cap unplugged
    /\ Go(p, "events")
    /\ UNCHANGED <<locks, event, ipollfds, removed, pollfds, devs, dev, request>>

(* The timeout of the call, or a signal. *)
PollTimesOut(p) ==
    /\ pc[p] = "poll" /\ Revents = {}
    /\ Go(p, "unlock")
    /\ UNCHANGED <<locks, event, polls, devs, dev, request>>

(* The event pipe first, then the descriptors that are still wanted. *)
EventPipe(p) ==
    LET rest == fired \ ({"pipe"} \cup removed) IN
    /\ pc[p] = "events"
    /\ IF "pipe" \in fired THEN Settle(flags \ {"USER_INTERRUPT"}, device_close)
                           ELSE UNCHANGED event
    /\ fired' = rest
    /\ Go(p, IF fired = {"pipe"} THEN "unlock" ELSE "backend")
    /\ UNCHANGED <<locks, ipollfds, removed, pollfds, failed, devs, dev, request>>

(* op_handle_events() holds open_devs_lock over all callbacks. *)
BackendStart(p) ==
    /\ pc[p] = "backend" /\ open_devs_lock = "none"
    /\ open_devs_lock' = p
    /\ Go(p, "handle")
    /\ UNCHANGED <<events_lock, event_handler_active, waiters_lock, waiting,
                   event, polls, devs, dev, request>>

Answered(S) == request' = [p \in Threads |-> IF p \in S THEN "done" ELSE request[p]]

(* One descriptor: unknown handles are skipped, the answers reaped.  From  *)
(* a device that was unplugged since the poll() the kernel may refuse them. *)
HandleFd(p, h) ==
    /\ pc[p] = "handle" /\ h \in fired
    /\ h \notin open_devs \cap failed
    /\ fired' = fired \ {h} /\ failed' = failed \ {h}
    /\ \/ Answered({u \in Users : h \in open_devs /\ dev[u] = h /\ request[u] = "reapable"})
       \/ h \in unplugged /\ UNCHANGED request
    /\ UNCHANGED <<locks, event, ipollfds, removed, pollfds, devs, pc, dev>>

(* POLLERR: the descriptor leaves the set and every request is answered.   *)
(* usbi_remove_pollfd() does nothing for a descriptor that is not in it.   *)
HandleDisconnect(p, h) ==
    /\ pc[p] = "handle" /\ h \in fired \cap open_devs \cap failed
    /\ fired' = fired \ {h} /\ failed' = failed \ {h}
    /\ fd_removed' = fd_removed \cup {h}
    /\ ipollfds' = ipollfds \ {h}
    /\ removed' = removed \cup (ipollfds \cap {h})
    /\ IF h \in ipollfds THEN Notify(flags \cup {"POLLFDS_MODIFIED"}, device_close)
                         ELSE UNCHANGED event
    /\ Answered({u \in Users : dev[u] = h /\ request[u] # "none"})
    /\ UNCHANGED <<locks, pollfds, open_devs, phase, unplugged, pc, dev>>

BackendEnd(p) ==
    /\ pc[p] = "handle" /\ fired = {}
    /\ open_devs_lock' = "none"
    /\ Go(p, "unlock")
    /\ UNCHANGED <<events_lock, event_handler_active, waiters_lock, waiting,
                   event, polls, devs, dev, request>>

(* libusb_unlock_events(). *)
Unlock(p) ==
    /\ pc[p] = "unlock"
    /\ event_handler_active' = FALSE
    /\ Go(p, "release")
    /\ UNCHANGED <<events_lock, waiters_lock, waiting, open_devs_lock,
                   event, polls, devs, dev, request>>

Release(p) ==
    /\ pc[p] = "release"
    /\ events_lock' = "none"
    /\ Go(p, "broadcast")
    /\ UNCHANGED <<event_handler_active, waiters_lock, waiting, open_devs_lock,
                   event, polls, devs, dev, request>>

(* Mutant: the broadcast does not take the waiters' lock. *)
BroadcastUnlocked(p) ==
    /\ pc[p] = "broadcast"
    /\ waiting' = {}
    /\ pc' = [q \in Threads |-> IF q = p THEN "rest"
                                ELSE IF q \in waiting THEN "woken" ELSE pc[q]]
    /\ UNCHANGED <<events_lock, event_handler_active, waiters_lock, open_devs_lock,
                   event, polls, devs, dev, request>>

Broadcast(p) ==
    /\ pc[p] = "broadcast" /\ waiters_lock = "none"
    /\ waiting' = {}
    /\ pc' = [q \in Threads |-> IF q = p THEN "rest"
                                ELSE IF q \in waiting THEN "woken" ELSE pc[q]]
    /\ UNCHANGED <<events_lock, event_handler_active, waiters_lock, open_devs_lock,
                   event, polls, devs, dev, request>>

(* Another thread handles events: become a waiter.  *completed is looked   *)
(* at, then libusb_event_handler_active() reads device_close and the flag. *)
LockWaiters(p) ==
    /\ pc[p] = "wait" /\ waiters_lock = "none"
    /\ IF request[p] = "done" THEN Go(p, "rest") /\ UNCHANGED waiters_lock
                              ELSE Go(p, "closing") /\ waiters_lock' = p
    /\ UNCHANGED <<events_lock, event_handler_active, waiting, open_devs_lock,
                   event, polls, devs, dev, request>>

ReadClosing(p) ==
    /\ pc[p] = "closing"
    /\ Go(p, IF device_close > 0 THEN "sleep" ELSE "active")
    /\ UNCHANGED <<locks, event, polls, devs, dev, request>>

(* Nobody does any more: try again. *)
ReadActive(p) ==
    /\ pc[p] = "active"
    /\ IF event_handler_active THEN Go(p, "sleep") /\ UNCHANGED waiters_lock
                               ELSE Go(p, "try") /\ waiters_lock' = "none"
    /\ UNCHANGED <<events_lock, event_handler_active, waiting, open_devs_lock,
                   event, polls, devs, dev, request>>

(* libusb_wait_for_event() gives the lock back while it waits. *)
Sleep(p) ==
    /\ pc[p] = "sleep"
    /\ waiting' = waiting \cup {p} /\ waiters_lock' = "none"
    /\ Go(p, "asleep")
    /\ UNCHANGED <<events_lock, event_handler_active, open_devs_lock,
                   event, polls, devs, dev, request>>

SleepTimesOut(p) ==
    /\ pc[p] = "asleep"
    /\ waiting' = waiting \ {p}
    /\ Go(p, "woken")
    /\ UNCHANGED <<events_lock, event_handler_active, waiters_lock, open_devs_lock,
                   event, polls, devs, dev, request>>

Woken(p) ==
    /\ pc[p] = "woken" /\ waiters_lock = "none"
    /\ Go(p, "rest")
    /\ UNCHANGED <<locks, event, polls, devs, dev, request>>

-----------------------------------------------------------------------------
(* A synchronous request on a handle, as sync.c makes it. *)

Idle(p) == pc[p] = "rest" /\ request[p] = "none"

Request(p, h) ==
    /\ p \in Requesters /\ Idle(p) /\ phase[h] = "open" /\ h \notin unplugged
    /\ request' = [request EXCEPT ![p] = "pending"]
    /\ dev' = [dev EXCEPT ![p] = h]
    /\ UNCHANGED <<locks, event, polls, devs, pc>>

RequestEnds(p) ==
    /\ pc[p] = "rest" /\ request[p] = "done"
    /\ request' = [request EXCEPT ![p] = "none"]
    /\ dev' = [dev EXCEPT ![p] = "none"]
    /\ UNCHANGED <<locks, event, polls, devs, pc>>

(* libusb_interrupt_event_handler(). *)
Interrupt(p) ==
    /\ p \in Openers /\ Idle(p)
    /\ Notify(flags \cup {"USER_INTERRUPT"}, device_close)
    /\ UNCHANGED <<locks, polls, devs, pc, dev, request>>

(* libusb_open(), libusb_wrap_sys_device(): the descriptor is polled from  *)
(* usbi_add_pollfd() on, the handle is listed afterwards.  Mutant: who      *)
(* polls is not told.                                                      *)
AddPollFdQuiet(p, h) ==
    /\ p \in Openers /\ Idle(p) /\ phase[h] = "new"
    /\ phase' = [phase EXCEPT ![h] = "opening"]
    /\ dev' = [dev EXCEPT ![p] = h]
    /\ ipollfds' = ipollfds \cup {h}
    /\ Go(p, "list")
    /\ UNCHANGED <<locks, event, removed, pollfds, fired, failed, open_devs, fd_removed, unplugged, request>>

AddPollFd(p, h) ==
    /\ p \in Openers /\ Idle(p) /\ phase[h] = "new"
    /\ phase' = [phase EXCEPT ![h] = "opening"]
    /\ dev' = [dev EXCEPT ![p] = h]
    /\ ipollfds' = ipollfds \cup {h}
    /\ Notify(flags \cup {"POLLFDS_MODIFIED"}, device_close)
    /\ Go(p, "list")
    /\ UNCHANGED <<locks, removed, pollfds, fired, failed, open_devs, fd_removed, unplugged, request>>

ListHandle(p) ==
    /\ pc[p] = "list" /\ open_devs_lock = "none"
    /\ open_devs' = open_devs \cup {dev[p]}
    /\ phase' = [phase EXCEPT ![dev[p]] = "open"]
    /\ dev' = [dev EXCEPT ![p] = "none"]
    /\ Go(p, "rest")
    /\ UNCHANGED <<locks, event, polls, fd_removed, unplugged, request>>

(* libusb_close() announces itself, so that it gets the event lock next.   *)
(* The application closes a handle that no request of it is waiting for.   *)
CloseCall(p, h) ==
    /\ p \in Openers /\ Idle(p) /\ phase[h] = "open"
    /\ \A u \in Users : dev[u] = h => request[u] = "none"
    /\ phase' = [phase EXCEPT ![h] = "closing"]
    /\ dev' = [dev EXCEPT ![p] = h]
    /\ Notify(flags, device_close + 1)
    /\ Go(p, "lock")
    /\ UNCHANGED <<locks, polls, open_devs, fd_removed, unplugged, request>>

(* Mutant: it does not take the lock. *)
LockEventsNot(p) ==
    /\ pc[p] = "lock"
    /\ Go(p, "doclose")
    /\ UNCHANGED <<locks, event, polls, devs, dev, request>>

LockEvents(p) ==
    /\ pc[p] = "lock" /\ events_lock = "none"
    /\ events_lock' = p
    /\ Go(p, "owned")
    /\ UNCHANGED <<event_handler_active, waiters_lock, waiting, open_devs_lock,
                   event, polls, devs, dev, request>>

CloseOwns(p) ==
    /\ pc[p] = "owned"
    /\ event_handler_active' = TRUE
    /\ Go(p, "doclose")
    /\ UNCHANGED <<events_lock, waiters_lock, waiting, open_devs_lock,
                   event, polls, devs, dev, request>>

(* do_close() and op_close(), which leaves alone what a disconnect has     *)
(* already removed.                                                        *)
DoClose(p) ==
    LET h == dev[p] IN
    /\ pc[p] = "doclose" /\ open_devs_lock = "none"
    /\ open_devs' = open_devs \ {h}
    /\ ipollfds' = ipollfds \ {h}
    /\ removed' = removed \cup (ipollfds \cap {h})
    /\ IF h \notin fd_removed THEN Notify(flags \cup {"POLLFDS_MODIFIED"}, device_close)
                              ELSE UNCHANGED event
    /\ Go(p, "finish")
    /\ UNCHANGED <<locks, pollfds, fired, failed, phase, fd_removed, unplugged, dev, request>>

CloseEnds(p) ==
    /\ pc[p] = "finish"
    /\ Settle(flags, device_close - 1)
    /\ phase' = [phase EXCEPT ![dev[p]] = "closed"]
    /\ dev' = [dev EXCEPT ![p] = "none"]
    /\ Go(p, "unlock")
    /\ UNCHANGED <<locks, polls, open_devs, fd_removed, unplugged, request>>

-----------------------------------------------------------------------------
(* What a thread does of itself inside a call, timeouts aside. *)
EventLoop(p) ==
    \/ TryLock(p) \/ TryLockEvents(p) \/ Own(p) \/ BuildPollFds(p) \/ Poll(p)
    \/ EventPipe(p) \/ BackendStart(p)
    \/ (\E h \in Handles : HandleFd(p, h) \/ HandleDisconnect(p, h)) \/ BackendEnd(p)
    \/ Unlock(p) \/ Release(p) \/ Broadcast(p)
    \/ LockWaiters(p) \/ ReadClosing(p) \/ ReadActive(p) \/ Sleep(p) \/ Woken(p)

Opening(p) == ListHandle(p)

Closing(p) ==
    LockEvents(p) \/ CloseOwns(p) \/ DoClose(p) \/ CloseEnds(p)

Inside(p) == EventLoop(p) \/ Opening(p) \/ Closing(p) \/ HandleEvents(p) \/ RequestEnds(p)

Calls(p) ==
    \/ Interrupt(p)
    \/ \E h \in Handles : Request(p, h) \/ AddPollFd(p, h) \/ CloseCall(p, h)

Next ==
    \/ \E p \in Threads : Inside(p) \/ PollTimesOut(p) \/ SleepTimesOut(p) \/ Calls(p)
    \/ \E p \in Users : KernelCompletes(p)
    \/ \E h \in Handles : Unplug(h)

(* Every thread runs, and gets a mutex in the end that others keep taking: *)
(* event_waiters_lock and open_devs_lock are held over a few instructions. *)
(* libusb_close() must get events_lock without that help, and neither      *)
(* poll() nor the wait on the condition is assumed to time out.            *)
Fairness ==
    /\ \A p \in Threads : SF_vars(Inside(p) /\ pc[p] # "lock")
    /\ \A p \in Openers : WF_vars(LockEvents(p))

Spec == Init /\ [][Next]_vars /\ Fairness

-----------------------------------------------------------------------------
(* Properties. *)

(* Locks, lists and threads stay within their types. *)
TypeOK ==
    /\ events_lock \in Threads \cup {"none"}
    /\ waiters_lock \in Threads \cup {"none"}
    /\ open_devs_lock \in Threads \cup {"none"}
    /\ event_handler_active \in BOOLEAN /\ waiting \subseteq Threads
    /\ flags \subseteq {"POLLFDS_MODIFIED", "USER_INTERRUPT"}
    /\ device_close \in Nat /\ pipe \in Nat
    /\ open_devs \subseteq Handles /\ ipollfds \subseteq Handles
    /\ removed \subseteq Handles /\ pollfds \subseteq Handles
    /\ fired \subseteq Handles \cup {"pipe"} /\ failed \subseteq Handles
    /\ phase \in [Handles -> {"new", "opening", "open", "closing", "closed"}]
    /\ fd_removed \subseteq Handles /\ unplugged \subseteq Handles
    /\ pc \in [Threads -> Places]
    /\ dev \in [Threads -> Handles \cup {"none"}]
    /\ request \in [Threads -> {"none", "pending", "reapable", "done"}]

(* "Only signal an event if there are no prior pending events", "clear the *)
(* event pipe if there are no further": the pipe holds one byte exactly    *)
(* when there is a reason to interrupt.  A byte too few and poll() sleeps  *)
(* through a close; one too many and it never sleeps again.                *)
PipeExact == pipe = IF Pending(flags, device_close) THEN 1 ELSE 0

(* A closed handle is in nobody's poll(), nor among what a poll() reported *)
(* and is still to be handled: its descriptor may belong to another file.  *)
ClosedIsNotPolled ==
    \A p \in Threads, h \in Handles :
        phase[h] = "closed" =>
            /\ pc[p] = "poll" => h \notin pollfds
            /\ pc[p] \in {"events", "backend", "handle"} => h \notin fired

(* Who sleeps will be woken without a timeout: somebody holds the event    *)
(* lock and has still to release it, is about to broadcast, or is closing  *)
(* a device.                                                               *)
SleeperHasWaker ==
    waiting # {} =>
        \/ events_lock # "none"
        \/ \E p \in Threads : pc[p] \in {"broadcast", "lock"}

(* A request that is answered, by whichever thread or by an unplug, is     *)
(* returned to its caller, even if no poll() and no wait ever times out.   *)
AnswerReturns ==
    \A p \in Users : request[p] \in {"reapable", "done"} ~> request[p] = "none"

(* libusb_close() gets its "free ride": it returns however busily others   *)
(* handle events.                                                          *)
CloseReturns == \A p \in Openers : pc[p] = "lock" ~> pc[p] = "rest"

Unnoticed == {h \in unplugged \ fd_removed : phase[h] \in {"opening", "open"}}

(* An unplug is noticed, also of a handle that was opened while the event  *)
(* handler was already in poll(), unless the handle is closed first.       *)
UnplugIsNoticed == Unnoticed # {} ~> Unnoticed = {}

=============================================================================
