--------------------------- MODULE UsbInterfaces ---------------------------
(***************************************************************************)
(* Interfaces of one open libusb handle: claiming, releasing, alternate    *)
(* settings, the reset that gives every interface up and takes it back,    *)
(* and the kernel driver that libusb moves out of the way and restores     *)
(* (libusb-andro/libusb/core.c, os/linux_usbfs.c).                         *)
(*                                                                         *)
(* Threads of the application share the handle.  handle->lock guards       *)
(* claimed_interfaces, but libusb_reset_device() reads it without the lock *)
(* and libusb_set_interface_alt_setting() drops the lock before its ioctl. *)
(* Detaching a driver and the cached configuration have no lock: each of   *)
(* their ioctls, and the store that follows one, is a step of its own.     *)
(* The kernel's view of an interface, owner, is external.                  *)
(***************************************************************************)
EXTENDS Integers, FiniteSets

CONSTANTS
  Threads,      \* threads of the application
  MaxInterfaces,\* USB_MAXINTERFACES, bits of handle->claimed_interfaces in use
  Drivers,      \* those a kernel driver exists for
  Configs,      \* values an application selects: 1 and up, 0 or -1 for none
  MaxOps,       \* calls the threads make together: the bound of the runs
  Others,       \* TRUE: another process may claim an interface
  ResetErrors   \* TRUE: USBDEVFS_RESET may fail

Ifaces == 0..MaxInterfaces - 1

Nobody == "nobody"

ASSUME InterfacesAssumption ==
  /\ Nobody \notin Threads
  /\ MaxInterfaces \in Nat
  /\ Drivers \subseteq Ifaces
  /\ Configs \subseteq Int /\ {1, -1} \subseteq Configs

VARIABLES
  claimed,    \* handle->claimed_interfaces
  auto,       \* handle->auto_detach_kernel_driver
  hlock,      \* the thread that holds handle->lock, or Nobody
  owner,      \* kernel: what is bound to each interface
  present,    \* kernel: the device is plugged in
  oldKernel,  \* kernel: no USBDEVFS_DISCONNECT_CLAIM
  th,         \* per thread: the call it is in
  nops,       \* calls made
  seen,       \* history: events that excuse what follows them
  snatched,   \* history: interfaces a USBDEVFS_DISCONNECT took from usbfs, until claimed again
  config,     \* kernel: the configuration of the device, 0 when unconfigured
  cached,     \* priv->active_config, -1 when unknown
  stale       \* history: a call failed, or came to hold an answer of before a change

conf == <<config, cached, stale>>
history == <<seen, snatched>>
ifaceVars == <<claimed, auto, hlock, owner, present, oldKernel, th, nops, history, conf>>

\* The calls a thread may be in, and the places in them.
Calls ==
  [op : {"idle", "claim", "release", "setalt", "reset", "detach", "setconfig", "getconfig"},
   pc : {"idle", "ioctl", "disconnect", "detached", "attach", "mark",
         "giveup", "reset", "reclaim", "unlock", "cache"},
   i : Int,
   r : {"ok", "no_device", "busy", "other", "not_found"},
   next : 0..MaxInterfaces]

Idling == [op |-> "idle", pc |-> "idle", i |-> 0, r |-> "ok", next |-> 0]

IfaceTypeOK ==
  /\ claimed \subseteq Ifaces
  /\ auto \in BOOLEAN /\ present \in BOOLEAN /\ oldKernel \in BOOLEAN
  /\ hlock \in Threads \cup {Nobody}
  /\ owner \in [Ifaces -> {"free", "driver", "usbfs", "other"}]
  /\ th \in [Threads -> Calls]
  /\ \A t \in Threads :
       /\ th[t].op \in {"claim", "release", "setalt", "detach"} => th[t].i \in Ifaces
       /\ th[t].op \in {"setconfig", "getconfig"} => th[t].i \in Configs
  /\ snatched \subseteq Ifaces
  /\ stale \in BOOLEAN
  /\ config \in {v \in Configs : v > 0} \cup {0}
  /\ cached \in Configs

IfaceInit ==
  /\ claimed = {}
  /\ auto \in BOOLEAN
  /\ hlock = Nobody
  /\ owner = [i \in Ifaces |-> IF i \in Drivers THEN "driver" ELSE "free"]
  /\ present = TRUE
  /\ oldKernel \in BOOLEAN
  /\ th = [t \in Threads |-> Idling]
  /\ nops = 0
  /\ seen = {}
  /\ snatched = {}
  /\ config = 1
  /\ \/ cached = 1 /\ stale = FALSE
     \/ cached = -1 /\ stale = TRUE   \* initialize_device() could not read it

----------------------------------------------------------------------------
(* The ioctls: what they return and what they leave bound.                 *)

\* USBDEVFS_CLAIMINTERFACE: claiming twice through one descriptor succeeds.
claim_interface(i) ==
  IF ~present THEN [r |-> "no_device", owner |-> owner]
  ELSE IF owner[i] \in {"free", "usbfs"}
  THEN [r |-> "ok", owner |-> [owner EXCEPT ![i] = "usbfs"]]
  ELSE [r |-> "busy", owner |-> owner]

\* USBDEVFS_RELEASEINTERFACE.
release_interface(i) ==
  IF ~present THEN [r |-> "no_device", owner |-> owner]
  ELSE IF owner[i] = "usbfs"
  THEN [r |-> "ok", owner |-> [owner EXCEPT ![i] = "free"]]
  ELSE [r |-> "other", owner |-> owner]

\* USBDEVFS_DISCONNECT_CLAIM, except from usbfs.
disconnect_and_claim(i) ==
  IF ~present THEN [r |-> "no_device", owner |-> owner]
  ELSE IF owner[i] \in {"free", "driver"}
  THEN [r |-> "ok", owner |-> [owner EXCEPT ![i] = "usbfs"]]
  ELSE [r |-> "busy", owner |-> owner]

\* op_detach_kernel_driver(): USBDEVFS_GETDRIVER names usbfs, whoever claimed
\* through it, and the call ends there ...
UsbfsDrives(i) == present /\ owner[i] \in {"usbfs", "other"}

\* ... or USBDEVFS_DISCONNECT unbinds what is bound by then.
disconnect(i) ==
  IF ~present THEN [r |-> "no_device", owner |-> owner]
  ELSE IF owner[i] = "free" THEN [r |-> "not_found", owner |-> owner]
  ELSE [r |-> "ok", owner |-> [owner EXCEPT ![i] = "free"]]

\* op_attach_kernel_driver(): USBDEVFS_CONNECT lets drivers probe again.
op_attach_kernel_driver(i) ==
  IF ~present THEN [r |-> "no_device", owner |-> owner]
  ELSE IF owner[i] = "free" /\ i \in Drivers
  THEN [r |-> "ok", owner |-> [owner EXCEPT ![i] = "driver"]]
  ELSE [r |-> IF owner[i] = "free" THEN "not_found" ELSE "busy", owner |-> owner]

----------------------------------------------------------------------------
(* The calls.                                                              *)

At(t, op, pc) == th[t].op = op /\ th[t].pc = pc
Goto(t, pc) == th' = [th EXCEPT ![t].pc = pc]
Begin(t, op, pc, i) ==
  th' = [th EXCEPT ![t] = [op |-> op, pc |-> pc, i |-> i, r |-> "ok", next |-> 0]]
Return(t, r) == th' = [th EXCEPT ![t] = [Idling EXCEPT !.r = r]]

May(t) == th[t].op = "idle" /\ nops < MaxOps
Counted == nops' = nops + 1

kernel == <<owner, present, oldKernel>>

\* The history of usbfs's bindings.
Snatch(i) == snatched' = IF owner[i] = "usbfs" THEN snatched \cup {i} ELSE snatched
Regain(i, r) == snatched' = IF r = "ok" THEN snatched \ {i} ELSE snatched

\* libusb_claim_interface(): what is marked claimed is not claimed again.
\* (dev->attached stays 1 for the wrapped devices of this build.)
ClaimBegin(t, i) ==
  /\ May(t) /\ Counted
  /\ hlock = Nobody
  /\ IF i \in claimed
     THEN Return(t, "ok") /\ UNCHANGED hlock
     ELSE Begin(t, "claim", "ioctl", i) /\ hlock' = t
  /\ UNCHANGED <<claimed, auto, kernel, history>>

\* op_claim_interface() on a kernel without disconnect-and-claim detaches the
\* driver first; whether there was one makes no difference.
ClaimGetDriver(t) ==
  /\ At(t, "claim", "ioctl")
  /\ auto /\ oldKernel
  /\ Goto(t, IF UsbfsDrives(th[t].i) THEN "detached" ELSE "disconnect")
  /\ UNCHANGED <<claimed, auto, hlock, kernel, nops, history>>

ClaimDisconnect(t) ==
  LET i == th[t].i
      k == disconnect(i)
  IN /\ At(t, "claim", "disconnect")
     /\ owner' = k.owner
     /\ Snatch(i)
     /\ th' = [th EXCEPT ![t].pc = IF k.r = "no_device" THEN "mark" ELSE "detached",
                         ![t].r = k.r]
     /\ UNCHANGED <<claimed, auto, hlock, present, oldKernel, nops, seen>>

\* Its last ioctl.
ClaimIoctl(t) ==
  LET i == th[t].i
      k == IF auto /\ ~oldKernel THEN disconnect_and_claim(i) ELSE claim_interface(i)
  IN /\ \/ At(t, "claim", "ioctl") /\ ~(auto /\ oldKernel)
        \/ At(t, "claim", "detached")
     /\ owner' = k.owner
     /\ Regain(i, k.r)
     /\ th' = [th EXCEPT ![t].pc = "mark", ![t].r = k.r]
     /\ UNCHANGED <<claimed, auto, hlock, present, oldKernel, nops, seen>>

\* Mutant: marked whatever the ioctl said.
ClaimMarkAnyway(t) ==
  /\ At(t, "claim", "mark")
  /\ claimed' = claimed \cup {th[t].i}
  /\ hlock' = Nobody
  /\ Return(t, th[t].r)
  /\ UNCHANGED <<auto, kernel, nops, history>>

ClaimMark(t) ==
  /\ At(t, "claim", "mark")
  /\ claimed' = IF th[t].r = "ok" THEN claimed \cup {th[t].i} ELSE claimed
  /\ hlock' = Nobody
  /\ Return(t, th[t].r)
  /\ UNCHANGED <<auto, kernel, nops, history>>

\* libusb_release_interface().
ReleaseBegin(t, i) ==
  /\ May(t) /\ Counted
  /\ hlock = Nobody
  /\ IF i \notin claimed
     THEN Return(t, "not_found") /\ UNCHANGED hlock
     ELSE Begin(t, "release", "ioctl", i) /\ hlock' = t
  /\ UNCHANGED <<claimed, auto, kernel, history>>

\* Mutant: the kernel driver is not attached again.
ReleaseIoctlOnly(t) ==
  LET k == release_interface(th[t].i)
  IN /\ At(t, "release", "ioctl")
     /\ owner' = k.owner
     /\ th' = [th EXCEPT ![t].pc = "mark", ![t].r = k.r]
     /\ UNCHANGED <<claimed, auto, hlock, present, oldKernel, nops, history>>

ReleaseIoctl(t) ==
  LET k == release_interface(th[t].i)
  IN /\ At(t, "release", "ioctl")
     /\ owner' = k.owner
     /\ th' = [th EXCEPT ![t].pc = IF k.r = "ok" /\ auto THEN "attach" ELSE "mark",
                         ![t].r = k.r]
     /\ UNCHANGED <<claimed, auto, hlock, present, oldKernel, nops, history>>

\* op_release_interface() drops the result of the attach.
ReleaseAttach(t) ==
  /\ At(t, "release", "attach")
  /\ owner' = op_attach_kernel_driver(th[t].i).owner
  /\ Goto(t, "mark")
  /\ UNCHANGED <<claimed, auto, hlock, present, oldKernel, nops, history>>

ReleaseMark(t) ==
  /\ At(t, "release", "mark")
  /\ claimed' = IF th[t].r = "ok" THEN claimed \ {th[t].i} ELSE claimed
  /\ hlock' = Nobody
  /\ Return(t, th[t].r)
  /\ UNCHANGED <<auto, kernel, nops, history>>

\* libusb_set_interface_alt_setting(): checked under the lock, done without.
SetAltBegin(t, i) ==
  /\ May(t) /\ Counted
  /\ hlock = Nobody
  /\ IF i \in claimed THEN Begin(t, "setalt", "ioctl", i) ELSE Return(t, "not_found")
  /\ UNCHANGED <<claimed, auto, hlock, kernel, history>>

SetAltIoctl(t) ==
  LET i == th[t].i
  IN /\ At(t, "setalt", "ioctl")
     /\ \/ /\ Return(t, IF ~present THEN "no_device"
                         ELSE IF owner[i] = "usbfs" THEN "ok" ELSE "other")
           /\ UNCHANGED <<owner, seen>>
        \/ /\ present /\ owner[i] = "free"   \* Linux binds usbfs to it by itself
           /\ owner' = [owner EXCEPT ![i] = "usbfs"]
           /\ seen' = seen \cup {"late"}
           /\ Return(t, "ok")
     /\ UNCHANGED <<claimed, auto, hlock, present, oldKernel, nops, snatched>>

\* libusb_reset_device(): the loop that gives the interfaces up reads
\* claimed_interfaces without the lock ...
ResetBegin(t) ==
  /\ May(t) /\ Counted
  /\ Begin(t, "reset", "giveup", 0)
  /\ UNCHANGED <<claimed, auto, hlock, kernel, history>>

ResetGiveUp(t) ==
  LET i == th[t].next
  IN /\ At(t, "reset", "giveup")
     /\ i < MaxInterfaces
     /\ owner' = IF i \in claimed THEN release_interface(i).owner ELSE owner
     /\ th' = [th EXCEPT ![t].next = i + 1]
     /\ UNCHANGED <<claimed, auto, hlock, present, oldKernel, nops, history>>

ResetLock(t) ==
  /\ At(t, "reset", "giveup")
  /\ th[t].next = MaxInterfaces
  /\ hlock = Nobody
  /\ hlock' = t
  /\ Goto(t, "reset")
  /\ UNCHANGED <<claimed, auto, kernel, nops, history>>

\* ... the reset unbinds usbfs from what is bound to it still and lets
\* drivers probe ...
ResetIoctl(t) ==
  /\ At(t, "reset", "reset")
  /\ \/ /\ present
        /\ owner' \in {[i \in Ifaces |-> IF owner[i] # "usbfs" THEN owner[i]
                                         ELSE IF i \in bound THEN "driver" ELSE "free"] :
                         bound \in SUBSET Drivers}
        /\ th' = [th EXCEPT ![t].pc = "reclaim", ![t].next = 0]
        /\ UNCHANGED seen
     \/ /\ ~present \/ ResetErrors
        /\ th' = [th EXCEPT ![t].pc = "unlock",
                            ![t].r = IF present THEN "other" ELSE "not_found"]
        /\ seen' = seen \cup {"reset_failed"}
        /\ UNCHANGED owner
  /\ UNCHANGED <<claimed, auto, hlock, present, oldKernel, nops, snatched>>

\* ... and the second loop takes back what is marked, with the lock held: what
\* cannot be had is unmarked.
ResetTaken(t, i, r) ==
  /\ claimed' = IF r = "ok" THEN claimed ELSE claimed \ {i}
  /\ th' = [th EXCEPT ![t].pc = "reclaim", ![t].next = i + 1,
                      ![t].r = IF r = "ok" THEN @ ELSE "not_found"]

ResetSkip(t) ==
  /\ At(t, "reset", "reclaim")
  /\ th[t].next \in Ifaces \ claimed
  /\ th' = [th EXCEPT ![t].next = @ + 1]
  /\ UNCHANGED <<claimed, auto, hlock, kernel, nops, history>>

ResetGetDriver(t) ==
  LET i == th[t].next
  IN /\ At(t, "reset", "reclaim")
     /\ oldKernel /\ i \in claimed
     /\ Goto(t, IF UsbfsDrives(i) THEN "detached" ELSE "disconnect")
     /\ UNCHANGED <<claimed, auto, hlock, kernel, nops, history>>

ResetDisconnect(t) ==
  LET i == th[t].next
      k == disconnect(i)
  IN /\ At(t, "reset", "disconnect")
     /\ owner' = k.owner
     /\ Snatch(i)
     /\ IF k.r = "no_device" THEN ResetTaken(t, i, k.r)
        ELSE Goto(t, "detached") /\ UNCHANGED claimed
     /\ UNCHANGED <<auto, hlock, present, oldKernel, nops, seen>>

ResetReclaim(t) ==
  LET i == th[t].next
      k == IF oldKernel THEN claim_interface(i) ELSE disconnect_and_claim(i)
  IN /\ \/ At(t, "reset", "reclaim") /\ ~oldKernel /\ i \in claimed
        \/ At(t, "reset", "detached")
     /\ owner' = k.owner
     /\ Regain(i, k.r)
     /\ ResetTaken(t, i, k.r)
     /\ UNCHANGED <<auto, hlock, present, oldKernel, nops, seen>>

ResetEnd(t) ==
  /\ \/ At(t, "reset", "unlock")
     \/ At(t, "reset", "reclaim") /\ th[t].next = MaxInterfaces
  /\ hlock' = Nobody
  /\ Return(t, th[t].r)
  /\ UNCHANGED <<claimed, auto, kernel, nops, history>>

\* libusb_detach_kernel_driver(), libusb_attach_kernel_driver() and
\* libusb_set_auto_detach_kernel_driver() take no lock: what is bound may change
\* between the two ioctls of a detach.
DetachGetDriver(t, i) ==
  /\ May(t) /\ Counted
  /\ IF UsbfsDrives(i) THEN Return(t, "not_found") ELSE Begin(t, "detach", "disconnect", i)
  /\ UNCHANGED <<claimed, auto, hlock, kernel, history>>

DetachDisconnect(t) ==
  LET i == th[t].i
      k == disconnect(i)
  IN /\ At(t, "detach", "disconnect")
     /\ owner' = k.owner
     /\ Snatch(i)
     /\ Return(t, k.r)
     /\ seen' = IF k.r = "ok" THEN seen \cup {"detached"} ELSE seen
     /\ UNCHANGED <<claimed, auto, hlock, present, oldKernel, nops>>

AttachDriver(t, i) ==
  LET k == op_attach_kernel_driver(i)
  IN /\ May(t) /\ Counted
     /\ owner' = k.owner
     /\ Return(t, k.r)
     /\ UNCHANGED <<claimed, auto, hlock, present, oldKernel, history>>

SetAutoDetach(t, enable) ==
  /\ May(t) /\ Counted
  /\ auto' = enable
  /\ seen' = IF enable # auto THEN seen \cup {"switched"} ELSE seen
  /\ UNCHANGED <<claimed, hlock, kernel, th, snatched>>

\* libusb_set_configuration(): the ioctl, then the cached value, no lock.
\* The kernel refuses while an interface is bound.
Busy == \E i \in Ifaces : owner[i] # "free"

\* The configuration a value stands for: -1 and 0 leave the device without.
Selected(v) == IF v > 0 THEN v ELSE 0

\* Between its ioctl and the store of what the ioctl said.
Holding(t) == th[t].op \in {"setconfig", "getconfig"}

\* Another thread is about to store something else than c.
Overtaken(t, c) == \E u \in Threads \ {t} : Holding(u) /\ Selected(th[u].i) # c

\* Mutant: a value the kernel refused is cached too.
SetConfigUnchecked(t, v) ==
  /\ May(t) /\ Counted
  /\ config' = IF present /\ ~Busy THEN Selected(v) ELSE config
  /\ stale' = Overtaken(t, config')
  /\ Begin(t, "setconfig", "cache", v)
  /\ UNCHANGED <<claimed, auto, hlock, kernel, history, cached>>

SetConfigIoctl(t, v) ==
  /\ May(t) /\ Counted
  /\ \/ /\ ~present \/ Busy
        /\ Return(t, IF present THEN "busy" ELSE "no_device")
        /\ UNCHANGED <<config, stale>>
     \/ /\ present /\ ~Busy
        /\ config' = Selected(v)
        /\ stale' = Overtaken(t, config')
        /\ Begin(t, "setconfig", "cache", v)
     \/ /\ present /\ ~Busy   \* it fails, and may leave the device unconfigured
        /\ config' \in {config, 0}
        /\ stale' = (stale \/ config' # config)
        /\ Return(t, "other")
  /\ UNCHANGED <<claimed, auto, hlock, kernel, history, cached>>

\* usbfs_get_active_config(): the ioctl.  Value 0 means unconfigured; a read that
\* fails is no error of the call, but leaves the configuration unknown.
GetConfigIoctl(t) ==
  /\ May(t) /\ Counted
  /\ \/ ~present /\ Return(t, "no_device") /\ UNCHANGED stale
     \/ /\ present
        /\ stale' = Overtaken(t, config)
        /\ Begin(t, "getconfig", "cache", IF config > 0 THEN config ELSE -1)
     \/ /\ present
        /\ stale' = TRUE
        /\ Begin(t, "getconfig", "cache", -1)
  /\ UNCHANGED <<claimed, auto, hlock, kernel, history, config, cached>>

\* The store that ends either call.
ConfigCache(t) ==
  /\ Holding(t)
  /\ cached' = th[t].i
  /\ Return(t, "ok")
  /\ UNCHANGED <<claimed, auto, hlock, kernel, nops, history, config, stale>>

----------------------------------------------------------------------------
(* The world: another process, and the plug.                               *)

OtherClaims(i) ==
  /\ Others
  /\ present
  /\ owner[i] = "free"
  /\ owner' = [owner EXCEPT ![i] = "other"]
  /\ seen' = seen \cup {"other"}
  /\ UNCHANGED <<claimed, auto, hlock, present, oldKernel, th, nops, snatched>>

Unplug ==
  /\ present
  /\ present' = FALSE
  /\ owner' = [i \in Ifaces |-> "free"]
  /\ UNCHANGED <<claimed, auto, hlock, oldKernel, th, nops, history>>

ClaimNext ==
  \/ \E t \in Threads, i \in Ifaces :
       ClaimBegin(t, i) \/ ReleaseBegin(t, i) \/ SetAltBegin(t, i)
  \/ \E t \in Threads :
       \/ ClaimGetDriver(t) \/ ClaimDisconnect(t) \/ ClaimIoctl(t) \/ ClaimMark(t)
       \/ ReleaseIoctl(t) \/ ReleaseAttach(t) \/ ReleaseMark(t)
       \/ SetAltIoctl(t)
       \/ ResetBegin(t) \/ ResetGiveUp(t) \/ ResetLock(t) \/ ResetIoctl(t)
       \/ ResetSkip(t) \/ ResetGetDriver(t) \/ ResetDisconnect(t) \/ ResetReclaim(t)
       \/ ResetEnd(t)
       \/ DetachDisconnect(t)
  \/ \E t \in Threads, i \in Ifaces : DetachGetDriver(t, i) \/ AttachDriver(t, i)
  \/ \E t \in Threads, enable \in BOOLEAN : SetAutoDetach(t, enable)
  \/ \E i \in Ifaces : OtherClaims(i)
  \/ Unplug

ConfigNext == \E t \in Threads :
  \/ \E v \in Configs : SetConfigIoctl(t, v)
  \/ GetConfigIoctl(t)
  \/ ConfigCache(t)

IfaceNext == ConfigNext \/ (ClaimNext /\ UNCHANGED conf)

IfaceSpec == IfaceInit /\ [][IfaceNext]_ifaceVars

----------------------------------------------------------------------------

Quiet == \A t \in Threads : th[t].op = "idle"

(* Once no call is running, claimed_interfaces says what the kernel says:  *)
(* an interface bound to usbfs through this handle is marked, so that it   *)
(* can be released, unless an alternate setting chosen after the release   *)
(* bound it, and a marked one is bound, unless a reset the kernel refused  *)
(* has given it up or a detach took it between its two ioctls.  Claims,    *)
(* releases and detaches of other threads while a reset gives interfaces   *)
(* up do not break it.                                                     *)
ClaimsAgree ==
  Quiet /\ present => \A i \in Ifaces :
    /\ owner[i] = "usbfs" => i \in claimed \/ "late" \in seen
    /\ i \in claimed => owner[i] = "usbfs" \/ i \in snatched \/ "reset_failed" \in seen

(* With automatic detaching, an interface that had a kernel driver has it  *)
(* again whenever no call is running and it is not claimed: not lost by a  *)
(* reset, by two threads that release at once or by the two-step detach of *)
(* an old kernel.                                                          *)
DriverReturned ==
  /\ Quiet /\ present /\ auto
  /\ seen = {}
  => \A i \in Drivers : owner[i] = "driver" \/ i \in claimed

(* The cached configuration, which libusb_get_active_config_descriptor()   *)
(* looks up, is the device's whenever no call is running: a refused call   *)
(* leaves both alone, and the next call that nothing overtakes repairs     *)
(* what an earlier one left.  A read that fails, a change that fails half  *)
(* way, and calls that overlap, one holding an answer of before the        *)
(* other's change, do leave it wrong.                                      *)
ConfigCached ==
  Quiet /\ present /\ ~stale => Selected(cached) = config

=============================================================================
